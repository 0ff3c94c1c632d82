SPECIFICATION MailSpec
CONSTANTS
  Client = {c1, c2}
  MaxPut = 2
  MaxUp = 1
INVARIANTS
  MailTypeOK
PROPERTIES
  IsMailbox
CHECK_DEADLOCK FALSE

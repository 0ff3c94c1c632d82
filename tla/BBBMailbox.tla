----------------------------- MODULE BBBMailbox -----------------------------
(***************************************************************************)
(* The communication service of module BBBComm under an owner that puts    *)
(* the values 1, 2, ... into the slots and closes the service at any time, *)
(* and clients that send what the owner accepts, and leave at any time.    *)
(***************************************************************************)
EXTENDS BBBComm

CONSTANTS
  MaxPut,    \* bound: values put, for all clients together
  MaxUp      \* bound: messages of all clients, their ids not counted

ASSUME BoundAssumption == MaxPut \in Nat /\ MaxUp \in Nat

VARIABLES
  put,       \* how many values were put
  spoken     \* how many messages the clients have sent

mailVars == <<commVars, put, spoken>>

MailInit == CommInit /\ put = 0 /\ spoken = 0

Put(c) ==
  /\ put < MaxPut /\ running
  /\ Assign(c, valueOutMap[c] + 1)
  /\ put' = put + 1
  /\ UNCHANGED spoken

ClientSends(c) ==
  /\ c \notin hungUp /\ spoken < MaxUp
  /\ c \in Accepted \/ up[c] # << >>
  /\ spoken' = spoken + 1
  /\ up' = [up EXCEPT ![c] = Append(@, "setParam")]
  /\ UNCHANGED <<running, acceptor, valueOutMap, slock, handler, data, writing,
                 toRelease, down, hungUp, put>>

\* ClientCommService.close: the thread of the client closes the socket, and
\* may send what is in its own slot, the empty map, before.
ClientStops(c) ==
  /\ c \in Accepted \ hungUp
  /\ hungUp' = hungUp \cup {c}
  /\ \/ up' = [up EXCEPT ![c] = Append(@, "empty")]
     \/ UNCHANGED up
  /\ UNCHANGED <<running, acceptor, valueOutMap, slock, handler, data, writing,
                 toRelease, down>>

\* replyHandler raises on the empty map, outside of any try.
RecvAny(c) == up[c] # << >> /\ Recv(c, IF Head(up[c]) = "empty" THEN "died" ELSE "recv")

Handler(c) ==
  \/ HandlerLeaves(c) \/ Timeout(c) \/ ReadSlot(c) \/ Send(c)
  \/ RecvAny(c) \/ RecvMerged(c)

MailAcceptor == AcceptorLeaves \/ \E c \in Client : Accept(c) \/ AcceptMerged(c)

Owner == CloseFlag \/ \E c \in Client : Release(c) \/ CloseRelease(c)

Service == MailAcceptor \/ Owner \/ \E c \in Client : Handler(c) \/ Connect(c) \/ ClientStops(c)

MailNext ==
  \/ Service /\ UNCHANGED <<put, spoken>>
  \/ \E c \in Client : Put(c) \/ ClientSends(c)

\* The threads run on, and so does an owner that has begun to send or close.
MailSpec ==
  /\ MailInit /\ [][MailNext]_mailVars
  /\ \A c \in Client : /\ WF_mailVars(Handler(c) /\ UNCHANGED <<put, spoken>>)
                       /\ WF_mailVars((Release(c) \/ CloseRelease(c)) /\ UNCHANGED <<put, spoken>>)

-----------------------------------------------------------------------------
\* The clients the service can still show something to.
Present == {c \in Accepted \ hungUp : ~ Gone(c)}

Due(c) ==
  slock[c] + (IF handler[c] = "acquired" THEN 1 ELSE 0) + (IF c \in writing THEN 1 ELSE 0)

Shown(c) ==
  IF handler[c] \in {"sending", "broken"} THEN data[c]
  ELSE IF down[c] = << >> THEN Nothing ELSE down[c][Len(down[c])]

(* Every variable keeps its type.                                          *)
MailTypeOK == CommTypeOK /\ put \in 0 .. MaxPut /\ spoken \in 0 .. MaxUp

(* serverSendValue, close and the threads of the clients together are a    *)
(* mailbox that shows the latest value: two writes before the thread of a  *)
(* client looks are shown as the second, twice, and none is forgotten, in  *)
(* whatever order the two statements of a write and the steps of the       *)
(* thread meet.                                                            *)
Mailbox == INSTANCE LatestMailbox
             WITH latest <- valueOutMap,
                  due <- [c \in Client |-> Due(c)],
                  shown <- [c \in Client |-> Shown(c)],
                  present <- Present,
                  closed <- ~ running
IsMailbox == Mailbox!Spec

=============================================================================

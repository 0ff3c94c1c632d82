---------------------------- MODULE LatestMailbox ----------------------------
(***************************************************************************)
(* What the communication service of the BBB agents promises its user, one *)
(* slot per client: a value put into the slot is shown to the client, or a *)
(* newer one in its place, once for every put, and never an older one      *)
(* after a newer one.  Closing the service shows every slot once more to   *)
(* a client that is still there to read it.                                *)
(***************************************************************************)
EXTENDS Integers

CONSTANTS
  Client,     \* the readers, one slot each
  Sentinel,   \* what a slot holds before the first put
  Nothing     \* shown to a client to which nothing was sent yet

VARIABLES
  latest,     \* the value in each slot
  due,        \* how often each slot is still to be shown
  shown,      \* the value each client was sent last
  present,    \* the clients that are being served
  closed      \* the service was told to stop

vars == <<latest, due, shown, present, closed>>

Init ==
  /\ latest = [c \in Client |-> Sentinel]
  /\ due = [c \in Client |-> 0]
  /\ shown = [c \in Client |-> Nothing]
  /\ present = {}
  /\ closed = FALSE

Join(c) ==
  /\ latest[c] = Sentinel
  /\ present' = present \cup {c}
  /\ UNCHANGED <<latest, due, shown, closed>>

Put(c) ==
  /\ latest' = [latest EXCEPT ![c] = @ + 1]
  /\ due' = [due EXCEPT ![c] = @ + 1]
  /\ UNCHANGED <<shown, present, closed>>

Show(c) ==
  /\ due[c] > 0
  /\ shown' = [shown EXCEPT ![c] = latest[c]]
  /\ due' = [due EXCEPT ![c] = @ - 1]
  /\ UNCHANGED <<latest, present, closed>>

Close ==
  /\ closed' = TRUE
  /\ UNCHANGED <<latest, due, shown, present>>

LastCall(c) ==
  /\ closed
  /\ due' = [due EXCEPT ![c] = @ + 1]
  /\ UNCHANGED <<latest, shown, present, closed>>

\* The client ended its connection, or the service, being closed, left it.
Part(c) ==
  /\ present' = present \ {c}
  /\ UNCHANGED <<latest, due, shown, closed>>

Next ==
  \/ Close
  \/ \E c \in Client : Join(c) \/ Put(c) \/ Show(c) \/ LastCall(c) \/ Part(c)

ShowPresent(c) == c \in present /\ Show(c)

Spec == Init /\ [][Next]_vars /\ \A c \in Client : WF_vars(ShowPresent(c))

=============================================================================

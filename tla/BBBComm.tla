------------------------------- MODULE BBBComm -------------------------------
(***************************************************************************)
(* ServerCommService of the BBB agents (server_comm_service.py): a thread  *)
(* that accepts clients, one thread per client that receives, and a slot   *)
(* with a semaphore through which the owner hands that thread the value to *)
(* send.  A thread looks at the semaphore only when nothing arrives from   *)
(* its client within the timeout.  The actions here are run by module      *)
(* BBBMailbox with any owner and any clients, and by module BBB with the   *)
(* agents; they speak only of the variables declared here.                 *)
(***************************************************************************)
EXTENDS Integers, Sequences, FiniteSets

CONSTANT
  Client   \* the clients

Sentinel == 0    \* 123456789, in the slot before the first value
Nothing == -1

VARIABLES
  running,     \* ServerCommService.running
  acceptor,    \* thread_initAsServer: "accepting", "left" or "died"
  valueOutMap, \* the slot of each client
  slock,       \* the count of the semaphore of each client
  handler,     \* ServerHandler of each client: "none", "recv" of its loop,
               \* "recv", "acquired", "sending", in replyHandler, "left",
               \* "died" of an exception in replyHandler, or "broken" of one in send
  data,        \* what the thread of each client is about to send
  writing,     \* the client, if any, between the statements of serverSendValue
  toRelease,   \* clients whose semaphore close has yet to release
  up,          \* stream from each client
  down,        \* stream to each client
  hungUp       \* the clients that closed their socket

commVars == <<running, acceptor, valueOutMap, slock, handler, data, writing,
              toRelease, up, down, hungUp>>

CommInit ==
  /\ running = TRUE
  /\ acceptor = "accepting"
  /\ valueOutMap = [c \in Client |-> Sentinel]
  /\ slock = [c \in Client |-> 0]
  /\ handler = [c \in Client |-> "none"]
  /\ data = [c \in Client |-> Sentinel]
  /\ writing = {}
  /\ toRelease = {}
  /\ up = [c \in Client |-> << >>]
  /\ down = [c \in Client |-> << >>]
  /\ hungUp = {}

\* The clients in slock.
Accepted == {c \in Client : handler[c] # "none"}

Gone(c) == handler[c] \in {"left", "died", "broken"}

-----------------------------------------------------------------------------
(* The thread that accepts.                                                *)

\* A client connects, the backlog of the socket accepts, and it sends its id:
\* also when the thread that accepts has died, which leaves the socket open.
Connect(c) ==
  /\ acceptor # "left" /\ handler[c] = "none" /\ up[c] = << >> /\ c \notin hungUp
  /\ up' = [up EXCEPT ![c] = <<"id">>]
  /\ UNCHANGED <<running, acceptor, valueOutMap, slock, handler, data, writing,
                 toRelease, down, hungUp>>

\* The id arrives alone: the slot, the semaphore and the thread are made.  A
\* loop of close that has begun finds that slock grew, and raises; one that
\* has not begun will release the new client too.
Accept(c) ==
  /\ acceptor = "accepting" /\ handler[c] = "none" /\ up[c] = <<"id">>
  /\ valueOutMap' = [valueOutMap EXCEPT ![c] = Sentinel]
  /\ slock' = [slock EXCEPT ![c] = 0]
  /\ handler' = [handler EXCEPT ![c] = "recv"]
  /\ up' = [up EXCEPT ![c] = << >>]
  /\ \/ toRelease' = {}
     \/ ~ running /\ toRelease = Accepted /\ toRelease' = toRelease \cup {c}
  /\ UNCHANGED <<running, acceptor, data, writing, down, hungUp>>

\* The id arrives together with the next message and does not parse.  The
\* exception named in the handler does not exist in the json module of this
\* Python, so naming it raises, and the thread dies.
AcceptMerged(c) ==
  /\ acceptor = "accepting" /\ handler[c] = "none" /\ Len(up[c]) > 1
  /\ acceptor' = "died"
  /\ up' = [up EXCEPT ![c] = << >>]
  /\ UNCHANGED <<running, valueOutMap, slock, handler, data, writing, toRelease, down, hungUp>>

AcceptorLeaves ==
  /\ acceptor = "accepting" /\ ~ running
  /\ acceptor' = "left"
  /\ UNCHANGED <<running, valueOutMap, slock, handler, data, writing, toRelease,
                 up, down, hungUp>>

-----------------------------------------------------------------------------
(* The owner: serverSendValue, two steps of one thread, and close.         *)

CanSend(c) == c \in Accepted

Assign(c, v) ==
  /\ writing = {} /\ CanSend(c)
  /\ writing' = {c}
  /\ valueOutMap' = [valueOutMap EXCEPT ![c] = v]
  /\ UNCHANGED <<running, acceptor, slock, handler, data, toRelease, up, down, hungUp>>

\* mutant: a thread that is awake already is not released again.
ReleaseIfAsleep(c) ==
  /\ writing = {c}
  /\ writing' = {}
  /\ slock' = [slock EXCEPT ![c] = IF handler[c] \in {"acquired", "sending"} THEN @ ELSE @ + 1]
  /\ UNCHANGED <<running, acceptor, valueOutMap, handler, data, toRelease, up, down, hungUp>>

Release(c) ==
  /\ writing = {c}
  /\ writing' = {}
  /\ slock' = [slock EXCEPT ![c] = @ + 1]
  /\ UNCHANGED <<running, acceptor, valueOutMap, handler, data, toRelease, up, down, hungUp>>

CloseFlag ==
  /\ writing = {} /\ running
  /\ running' = FALSE
  /\ toRelease' = Accepted
  /\ UNCHANGED <<acceptor, valueOutMap, slock, handler, data, writing, up, down, hungUp>>

CloseRelease(c) ==
  /\ c \in toRelease
  /\ toRelease' = toRelease \ {c}
  /\ slock' = [slock EXCEPT ![c] = @ + 1]
  /\ UNCHANGED <<running, acceptor, valueOutMap, handler, data, writing, up, down, hungUp>>

-----------------------------------------------------------------------------
(* The thread of a client.                                                 *)

\* mutant: the flag is tested only when a receive timed out.
LeavesOnTimeout(c) ==
  /\ handler[c] = "recv" /\ ~ running /\ up[c] = << >> /\ c \notin hungUp
  /\ handler' = [handler EXCEPT ![c] = "left"]
  /\ UNCHANGED <<running, acceptor, valueOutMap, slock, data, writing, toRelease,
                 up, down, hungUp>>

\* Between two receives the thread tests the flag.
HandlerLeaves(c) ==
  /\ handler[c] = "recv" /\ ~ running
  /\ handler' = [handler EXCEPT ![c] = "left"]
  /\ UNCHANGED <<running, acceptor, valueOutMap, slock, data, writing, toRelease,
                 up, down, hungUp>>

\* mutant: the test of the semaphore is missing.
TimeoutUntested(c) ==
  /\ handler[c] = "recv" /\ up[c] = << >> /\ c \notin hungUp
  /\ slock' = [slock EXCEPT ![c] = @ - 1]
  /\ handler' = [handler EXCEPT ![c] = "acquired"]
  /\ UNCHANGED <<running, acceptor, valueOutMap, data, writing, toRelease, up, down, hungUp>>

\* Nothing arrives: the thread takes the semaphore if it is up, without
\* waiting.  The socket of a client that hung up is always ready and yields
\* the empty string, which does not parse: the thread receives again at once,
\* and never comes to the semaphore.
Timeout(c) ==
  /\ handler[c] = "recv" /\ up[c] = << >> /\ c \notin hungUp /\ slock[c] > 0
  /\ slock' = [slock EXCEPT ![c] = @ - 1]
  /\ handler' = [handler EXCEPT ![c] = "acquired"]
  /\ UNCHANGED <<running, acceptor, valueOutMap, data, writing, toRelease, up, down, hungUp>>

\* The slot is read after the semaphore was taken: a newer value may be in it.
ReadSlot(c) ==
  /\ handler[c] = "acquired"
  /\ data' = [data EXCEPT ![c] = valueOutMap[c]]
  /\ handler' = [handler EXCEPT ![c] = "sending"]
  /\ UNCHANGED <<running, acceptor, valueOutMap, slock, writing, toRelease,
                 up, down, hungUp>>

\* Sending to a client that hung up may raise.
Send(c) ==
  /\ handler[c] = "sending"
  /\ \/ /\ handler' = [handler EXCEPT ![c] = "recv"]
        /\ down' = [down EXCEPT ![c] = Append(@, data[c])]
     \/ /\ c \in hungUp
        /\ handler' = [handler EXCEPT ![c] = "broken"]
        /\ UNCHANGED down
  /\ UNCHANGED <<running, acceptor, valueOutMap, slock, data, writing, toRelease,
                 up, hungUp>>

\* One message arrives: replyHandler runs, and the thread goes on at "next".
Recv(c, next) ==
  /\ handler[c] = "recv" /\ up[c] # << >>
  /\ up' = [up EXCEPT ![c] = Tail(@)]
  /\ handler' = [handler EXCEPT ![c] = next]
  /\ UNCHANGED <<running, acceptor, valueOutMap, slock, data, writing, toRelease, down, hungUp>>

\* Several messages arrive at once, do not parse, and are dropped.
RecvMerged(c) ==
  /\ handler[c] = "recv"
  /\ \E n \in 2 .. Len(up[c]) : up' = [up EXCEPT ![c] = SubSeq(@, n + 1, Len(@))]
  /\ handler' = [handler EXCEPT ![c] = "recv"]
  /\ UNCHANGED <<running, acceptor, valueOutMap, slock, data, writing, toRelease, down, hungUp>>

-----------------------------------------------------------------------------
CommTypeOK ==
  /\ running \in BOOLEAN
  /\ acceptor \in {"accepting", "left", "died"}
  /\ valueOutMap \in [Client -> Nat] /\ data \in [Client -> Nat]
  /\ slock \in [Client -> Nat]
  /\ handler \in [Client -> {"none", "recv", "acquired", "sending",
                             "register", "left", "died", "broken"}]
  /\ writing \in SUBSET Client /\ Cardinality(writing) <= 1
  /\ toRelease \subseteq Accepted
  /\ up \in [Client -> Seq({"id", "setParam", "register", "empty"})]
  /\ down \in [Client -> Seq(Nat)]
  /\ hungUp \subseteq Client

=============================================================================

------------------------------ MODULE BBBProofs ------------------------------
(***************************************************************************)
(* Proofs about modules BBB, BBBMailbox and BBBDispatch, for any number of *)
(* clients, values, messages and units: first the market, then its         *)
(* communication service, that takes only steps the mailbox of module      *)
(* LatestMailbox allows, then the dispatch of power to the units.          *)
(***************************************************************************)
EXTENDS BBB, BBBMailbox, BBBDispatch, FiniteSetTheorems, WellFoundedInduction, TLAPS

Value == {Sentinel, Exit}
Message == {"id", "register", "empty"}
HandlerState ==
  {"none", "recv", "acquired", "sending", "register", "left", "died", "broken"}
ThreadState == {"none", "recv", "acquired", "left", "sentinel", "merged", "eof", "send"}

(* Every variable keeps its type.                                          *)
ServiceTypeOK ==
  /\ running \in BOOLEAN /\ acceptor \in {"accepting", "left", "died"}
  /\ valueOutMap \in [Client -> Value] /\ data \in [Client -> Value]
  /\ slock \in [Client -> Nat]
  /\ handler \in [Client -> HandlerState]
  /\ writing \subseteq Client /\ toRelease \subseteq Client /\ hungUp \subseteq Client
  /\ up \in [Client -> Seq(Message)]
  /\ down \in [Client -> Seq(Value)]

ServerTypeOK ==
  /\ unitList \subseteq Client /\ CIDList \subseteq Client
  /\ listed \subseteq Client /\ toTell \subseteq Client
  /\ sim \in {"off", "sleep", "exits", "closing", "done", "died"}

ClientTypeOK ==
  /\ agent \in [Client -> {"init", "waiting", "looping", "ended"}]
  /\ looping \in [Client -> BOOLEAN] /\ serving \in [Client -> BOOLEAN]
  /\ registered \in [Client -> BOOLEAN]
  /\ outMap \in [Client -> {"register", "empty"}]
  /\ permit \in [Client -> Nat]
  /\ thread \in [Client -> ThreadState]
  /\ early \subseteq Client

TypeOK == ServiceTypeOK /\ ServerTypeOK /\ ClientTypeOK

(* Until the first round nothing is shown to a client.                     *)
Silent(c) ==
  /\ slock[c] = 0 /\ handler[c] \notin {"acquired", "sending"}
  /\ down[c] = << >> /\ thread[c] # "sentinel"

QuietInv ==
  sim \in {"off", "sleep"} =>
    /\ running /\ toRelease = {} /\ writing = {} /\ listed = {} /\ toTell = {}
    /\ \A c \in Client : Silent(c)

(* A client is listed only when it was accepted, and stays listed.         *)
ListedInv == listed \subseteq CIDList /\ \A c \in CIDList : handler[c] # "none"

(* As long as the exit is not in the slot of a listed client, its thread   *)
(* is asleep, and nobody but the loop over the clients is to wake it; what *)
(* the thread reads afterwards, and sends, is the exit.                    *)
Asleep(c) ==
  /\ slock[c] = 0 /\ handler[c] \notin {"acquired", "sending"}
  /\ c \notin toRelease /\ c \notin writing /\ c \in toTell

OnlyExits(c) ==
  /\ valueOutMap[c] # Exit => Asleep(c)
  /\ handler[c] = "sending" => data[c] = Exit
  /\ down[c] \in Seq({Exit})
  /\ thread[c] # "sentinel"

ExitInv == \A c \in listed : OnlyExits(c)

(* While a client serves, it has at most one permit, unused or taken, and  *)
(* that is the one of its registration; so what it sends is its            *)
(* registration.                                                           *)
OnePermit(c) ==
  /\ agent[c] = "init" => permit[c] = 0 /\ thread[c] = "none"
  /\ permit[c] > 0 => permit[c] = 1 /\ thread[c] # "acquired"
  /\ permit[c] > 0 \/ thread[c] = "acquired" => outMap[c] = "register"
  /\ up[c] \in Seq({"id", "register"})
  /\ c \notin hungUp

PermitInv ==
  \A c \in Client :
    /\ serving[c] => OnePermit(c)
    /\ handler[c] \in {"died", "broken"} => ~ serving[c]

IInv == TypeOK /\ QuietInv /\ ListedInv /\ ExitInv /\ PermitInv

-----------------------------------------------------------------------------
(* The initial states.                                                     *)

LEMMA InitInv == Init => IInv
<1> SUFFICES ASSUME Init PROVE IInv
  OBVIOUS
<1> USE DEF Init, CommInit, ServerInit, AgentInit, ServiceInit
<1>1. TypeOK
  BY DEF TypeOK, ServiceTypeOK, ServerTypeOK, ClientTypeOK, Value, Message, HandlerState, ThreadState
<1>2. QuietInv /\ ListedInv /\ ExitInv
  BY DEF QuietInv, Silent, ListedInv, ExitInv
<1>3. PermitInv
  BY DEF PermitInv, OnePermit
<1>. QED
  BY <1>1, <1>2, <1>3 DEF IInv

-----------------------------------------------------------------------------
(* Types.                                                                  *)

(* Receiving takes messages off the front of a stream, of whatever kind.   *)
LEMMA MessagesTaken ==
  ASSUME NEW M, NEW s \in Seq(M)
  PROVE  /\ s # << >> => Tail(s) \in Seq(M) /\ Head(s) \in M
         /\ \A n \in 2 .. Len(s) : SubSeq(s, n + 1, Len(s)) \in Seq(M)
         /\ \A m \in M : Append(s, m) \in Seq(M)
         /\ << >> \in Seq(M)
OBVIOUS

LEMMA AcceptorType == ASSUME TypeOK, Acceptor PROVE TypeOK'
<1> USE DEF TypeOK
<1>1. ServerTypeOK' /\ ClientTypeOK'
  BY DEF Acceptor, serverVars, clientVars, agentVars, clientComm, ServerTypeOK, ClientTypeOK
<1>2. CASE AcceptorLeaves
  BY <1>1, <1>2 DEF AcceptorLeaves, ServiceTypeOK
<1>3. ASSUME NEW c \in Client, Accept(c) PROVE ServiceTypeOK'
  <2>1. up' \in [Client -> Seq(Message)]
    BY <1>3, MessagesTaken DEF Accept, ServiceTypeOK
  <2>2. toRelease' \subseteq Client
    BY <1>3 DEF Accept, ServiceTypeOK, Accepted
  <2>. QED
    BY <1>3, <2>1, <2>2 DEF Accept, ServiceTypeOK, Value, HandlerState
<1>4. ASSUME NEW c \in Client, AcceptMerged(c) PROVE ServiceTypeOK'
  <2>1. up' \in [Client -> Seq(Message)]
    BY <1>4, MessagesTaken DEF AcceptMerged, ServiceTypeOK
  <2>. QED
    BY <1>4, <2>1 DEF AcceptMerged, ServiceTypeOK
<1>. QED
  BY <1>1, <1>2, <1>3, <1>4 DEF Acceptor

LEMMA RunServerType == ASSUME TypeOK, RunServer \/ StartSimulation PROVE TypeOK'
<1> USE DEF TypeOK, ServerTypeOK
<1>1. ClientTypeOK'
  BY DEF RunServer, StartSimulation, FirstRound, TellExitRaises, StopComms, RunServerEnds, TellExit,
         TellExitReleases, StopReleases, clientVars, agentVars, clientComm, serverVars, ClientTypeOK
<1>2. CASE FirstRound \/ TellExitRaises \/ RunServerEnds \/ StartSimulation
  BY <1>1, <1>2 DEF FirstRound, TellExitRaises, RunServerEnds, StartSimulation,
                    commVars, ServiceTypeOK
<1>3. CASE StopComms
  BY <1>1, <1>3 DEF StopComms, CloseFlag, ServiceTypeOK, Accepted
<1>4. ASSUME NEW c \in Client, TellExit(c) PROVE TypeOK'
  BY <1>1, <1>4 DEF TellExit, Assign, serverVars, ServiceTypeOK, Value
<1>5. ASSUME NEW c \in Client, TellExitReleases(c) PROVE TypeOK'
  <2>1. slock' \in [Client -> Nat]
    BY <1>5 DEF TellExitReleases, Release, ServiceTypeOK
  <2>. QED
    BY <1>1, <1>5, <2>1 DEF TellExitReleases, Release, ServiceTypeOK
<1>6. ASSUME NEW c \in Client, StopReleases(c) PROVE TypeOK'
  <2>1. slock' \in [Client -> Nat]
    BY <1>6 DEF StopReleases, CloseRelease, ServiceTypeOK
  <2>. QED
    BY <1>1, <1>6, <2>1 DEF StopReleases, CloseRelease, serverVars, ServiceTypeOK
<1>. QED
  BY <1>2, <1>3, <1>4, <1>5, <1>6 DEF RunServer

LEMMA ServerThreadType == ASSUME TypeOK, NEW c \in Client, ServerThread(c) PROVE TypeOK'
<1> USE DEF TypeOK
<1>1. ServerTypeOK' /\ ClientTypeOK'
  BY DEF ServerThread, RegisterClient, ListClient, serverVars, clientVars, agentVars, clientComm,
         ServerTypeOK, ClientTypeOK
<1>2. ASSUME NEW next \in {"register", "died"}, Recv(c, next) PROVE ServiceTypeOK'
  <2>1. up' \in [Client -> Seq(Message)]
    BY <1>2, MessagesTaken DEF Recv, ServiceTypeOK
  <2>. QED
    BY <1>2, <2>1 DEF Recv, ServiceTypeOK, HandlerState
<1>3. CASE RecvMerged(c)
  <2>1. up' \in [Client -> Seq(Message)]
    BY <1>3, MessagesTaken DEF RecvMerged, ServiceTypeOK
  <2>. QED
    BY <1>1, <1>3, <2>1 DEF RecvMerged, ServiceTypeOK, HandlerState
<1>4. CASE Send(c)
  <2>0. Append(down[c], data[c]) \in Seq(Value)
    BY MessagesTaken DEF ServiceTypeOK
  <2>1. down' \in [Client -> Seq(Value)]
    BY <1>4, <2>0 DEF Send, ServiceTypeOK
  <2>. QED
    BY <1>1, <1>4, <2>1 DEF Send, ServiceTypeOK, HandlerState
<1>5. CASE Timeout(c)
  <2>1. slock' \in [Client -> Nat]
    BY <1>5 DEF Timeout, ServiceTypeOK
  <2>. QED
    BY <1>1, <1>5, <2>1 DEF Timeout, ServiceTypeOK, HandlerState
<1>6. CASE ListClient(c) \/ HandlerLeaves(c) \/ ReadSlot(c)
  BY <1>1, <1>6 DEF ListClient, HandlerLeaves, ReadSlot, ServiceTypeOK, HandlerState
<1>. QED
  BY <1>1, <1>2, <1>3, <1>4, <1>5, <1>6 DEF ServerThread, RegisterClient, RecvEmpty

LEMMA ClientType ==
  ASSUME TypeOK, NEW c \in Client, ClientAgent(c) \/ ClientThread(c) \/ StartClient(c)
  PROVE  TypeOK'
<1> USE DEF TypeOK
<1>1. ServerTypeOK'
  BY DEF ClientAgent, RegisterWithServer, RunClientEnds, StartClient, ClientThread, ClientLeaves,
         ClientTimeout, ClientSend, ClientRecv, ClientRecvFails, serverVars, ServerTypeOK
<1>2. CASE RegisterWithServer(c)
  <2>1. up' \in [Client -> Seq(Message)]
    BY <1>2 DEF RegisterWithServer, Connect, ServiceTypeOK, Message
  <2>2. permit' \in [Client -> Nat]
    BY <1>2 DEF RegisterWithServer, SendRegister, SendMsg, ClientTypeOK
  <2>. QED
    BY <1>1, <1>2, <2>1, <2>2
       DEF RegisterWithServer, Connect, SendRegister, SendMsg, ServiceTypeOK, ClientTypeOK, ThreadState
<1>3. CASE RunClientEnds(c)
  <2>1. permit' \in [Client -> Nat]
    BY <1>3 DEF RunClientEnds, ClientTypeOK
  <2>. QED
    BY <1>1, <1>3, <2>1 DEF RunClientEnds, commVars, ServiceTypeOK, ClientTypeOK
<1>4. CASE StartClient(c)
  BY <1>1, <1>4 DEF StartClient, commVars, clientComm, ServiceTypeOK, ClientTypeOK
<1>5. CASE ClientLeaves(c)
  BY <1>1, <1>5 DEF ClientLeaves, MoveThread, agentVars, ServiceTypeOK, ClientTypeOK, ThreadState
<1>6. CASE ClientTimeout(c)
  <2>1. permit' \in [Client -> Nat]
    BY <1>6 DEF ClientTimeout, ClientTypeOK
  <2>. QED
    BY <1>1, <1>6, <2>1 DEF ClientTimeout, MoveThread, commVars, agentVars, ServiceTypeOK,
                           ClientTypeOK, ThreadState
<1>7. CASE ClientSend(c)
  <2>1. outMap[c] \in Message /\ up[c] \in Seq(Message)
    BY DEF ClientTypeOK, ServiceTypeOK, Message
  <2>2. Append(up[c], outMap[c]) \in Seq(Message)
    BY <2>1, MessagesTaken
  <2>3. up' \in [Client -> Seq(Message)]
    BY <1>7, <2>1, <2>2 DEF ClientSend, ServiceTypeOK
  <2>4. ServiceTypeOK'
    BY <1>7, <2>3 DEF ClientSend, ServiceTypeOK
  <2>5. ClientTypeOK'
    BY <1>7 DEF ClientSend, MoveThread, agentVars, ClientTypeOK, ThreadState
  <2>. QED
    BY <1>1, <2>4, <2>5
<1>8. CASE ClientRecv(c)
  <2>0. Tail(down[c]) \in Seq(Value)
    <3>1. down[c] \in Seq(Value) /\ down[c] # << >>
      BY <1>8 DEF ClientRecv, ServiceTypeOK
    <3>. QED
      BY <3>1, MessagesTaken
  <2>1. down' \in [Client -> Seq(Value)]
    BY <1>8, <2>0 DEF ClientRecv, ServiceTypeOK
  <2>2. ServiceTypeOK'
    BY <1>8, <2>1 DEF ClientRecv, ServiceTypeOK
  <2>3. CASE Head(down[c]) = Exit
    <3>1. thread' = [thread EXCEPT ![c] = "recv"] /\ looping' = [looping EXCEPT ![c] = FALSE]
          /\ early' \subseteq early \cup {c}
          /\ UNCHANGED <<agent, serving, registered, outMap, permit>>
      BY <1>8, <2>3 DEF ClientRecv, MoveThread
    <3>. QED
      BY <1>1, <2>2, <3>1 DEF ClientTypeOK, ThreadState
  <2>4. CASE Head(down[c]) # Exit
    BY <1>1, <1>8, <2>2, <2>4 DEF ClientRecv, MoveThread, ClientTypeOK, ThreadState
  <2>. QED
    BY <2>3, <2>4
<1>9. CASE ClientRecvFails(c)
  <2>1. down' \in [Client -> Seq(Value)]
    BY <1>9, MessagesTaken DEF ClientRecvFails, ServiceTypeOK
  <2>. QED
    BY <1>1, <1>9, <2>1 DEF ClientRecvFails, MoveThread, agentVars, ServiceTypeOK, ClientTypeOK,
                           ThreadState
<1>. QED
  BY <1>2, <1>3, <1>4, <1>5, <1>6, <1>7, <1>8, <1>9 DEF ClientAgent, ClientThread

LEMMA TypeStep == TypeOK /\ [Next]_vars => TypeOK'
<1>1. TypeOK /\ UNCHANGED vars => TypeOK'
  BY DEF vars, commVars, serverVars, clientVars, agentVars, clientComm,
         TypeOK, ServiceTypeOK, ServerTypeOK, ClientTypeOK
<1>. QED
  BY <1>1, AcceptorType, RunServerType, ServerThreadType, ClientType DEF Next, Threads

-----------------------------------------------------------------------------
(* The listed clients, and what is shown to them.                          *)

(* A thread of the service, once made, is never unmade.                    *)
LEMMA ListedStep == TypeOK /\ ListedInv /\ [Next]_vars => ListedInv'
<1> SUFFICES ASSUME TypeOK, ListedInv, [Next]_vars PROVE ListedInv'
  OBVIOUS
<1> USE DEF ListedInv
<1>0. handler \in [Client -> HandlerState] /\ CIDList \subseteq Client
  BY DEF TypeOK, ServiceTypeOK, ServerTypeOK
<1>1. CASE UNCHANGED <<listed, CIDList>> /\ \A c \in CIDList : handler'[c] # "none"
  BY <1>1
<1>2. CASE UNCHANGED <<listed, CIDList, handler>>
  BY <1>1, <1>2
<1>3. CASE Acceptor
  BY <1>0, <1>1, <1>3 DEF Acceptor, AcceptorLeaves, Accept, AcceptMerged, serverVars
<1>4. CASE RunServer \/ StartSimulation
  BY <1>2, <1>4 DEF RunServer, StartSimulation, FirstRound, TellExitRaises, StopComms, CloseFlag,
     RunServerEnds, TellExit, Assign, TellExitReleases, Release, StopReleases, CloseRelease,
     serverVars, commVars
<1>5. ASSUME NEW c \in Client, ServerThread(c) PROVE ListedInv'
  <2>1. CASE ListClient(c)
    BY <1>0, <2>1 DEF ListClient
  <2>. QED
    BY <1>0, <1>1, <1>5, <2>1 DEF ServerThread, RegisterClient, HandlerLeaves, Timeout, ReadSlot,
       Send, RecvEmpty, Recv, RecvMerged, serverVars
<1>6. ASSUME NEW c \in Client, ClientAgent(c) \/ ClientThread(c) \/ StartClient(c)
      PROVE  ListedInv'
  BY <1>2, <1>6 DEF ClientAgent, RegisterWithServer, Connect, RunClientEnds, StartClient,
     ClientThread, ClientLeaves, ClientTimeout, ClientSend, ClientRecv, ClientRecvFails,
     serverVars, commVars
<1>. QED
  BY <1>2, <1>3, <1>4, <1>5, <1>6 DEF Next, Threads, vars, commVars, serverVars

(* The types of what is shown to the clients.                              *)
LEMMA ShownTypes ==
  ASSUME TypeOK
  PROVE  /\ valueOutMap \in [Client -> Value] /\ data \in [Client -> Value]
         /\ slock \in [Client -> Nat] /\ handler \in [Client -> HandlerState]
         /\ down \in [Client -> Seq(Value)] /\ thread \in [Client -> ThreadState]
         /\ listed \subseteq Client /\ CIDList \subseteq Client
BY DEF TypeOK, ServiceTypeOK, ServerTypeOK, ClientTypeOK

(* Before the first round the service is silent: no semaphore is released, *)
(* and no thread sends.                                                    *)
LEMMA QuietStep == TypeOK /\ QuietInv /\ [Next]_vars => QuietInv'
<1> SUFFICES ASSUME TypeOK, QuietInv, [Next]_vars, sim' \in {"off", "sleep"}
             PROVE  /\ running' /\ toRelease' = {} /\ writing' = {} /\ listed' = {} /\ toTell' = {}
                    /\ \A d \in Client : Silent(d)'
  BY DEF QuietInv
<1> DEFINE Still == /\ running' /\ toRelease' = {} /\ writing' = {} /\ listed' = {} /\ toTell' = {}
                    /\ \A d \in Client : Silent(d)'
<1>0. sim \in {"off", "sleep"}
  BY DEF Next, Threads, Acceptor, RunServer, FirstRound, TellExitRaises, StopComms, RunServerEnds,
     TellExit, TellExitReleases, StopReleases, ServerThread, RegisterClient, ListClient, ClientAgent,
     RegisterWithServer, RunClientEnds, ClientThread, ClientLeaves, ClientTimeout, ClientSend,
     ClientRecv, ClientRecvFails, StartSimulation, StartClient, serverVars, vars
<1>1. /\ running /\ toRelease = {} /\ writing = {} /\ listed = {} /\ toTell = {}
      /\ \A d \in Client : Silent(d)
  BY <1>0 DEF QuietInv
<1> USE <1>1, ShownTypes DEF Silent
<1>2. CASE Acceptor
  BY <1>2 DEF Acceptor, AcceptorLeaves, Accept, AcceptMerged, serverVars, clientVars, clientComm
<1>3. CASE RunServer \/ StartSimulation
  <2>1. ~ FirstRound /\ ~ TellExitRaises /\ ~ StopComms /\ ~ RunServerEnds
    BY <1>0 DEF FirstRound, TellExitRaises, StopComms, RunServerEnds
  <2>2. \A c \in Client : ~ TellExit(c) /\ ~ TellExitReleases(c) /\ ~ StopReleases(c)
    BY <1>0 DEF TellExit, TellExitReleases, Release, StopReleases, CloseRelease
  <2>3. CASE StartSimulation
    BY <2>3 DEF StartSimulation, commVars, clientVars, clientComm
  <2>. QED
    BY <1>3, <2>1, <2>2, <2>3 DEF RunServer
<1>4. ASSUME NEW c \in Client, ServerThread(c) PROVE Still
  <2>1. ~ Timeout(c) /\ ~ ReadSlot(c) /\ ~ Send(c)
    <3>1. slock[c] = 0 /\ handler[c] \notin {"acquired", "sending"}
      OBVIOUS
    <3>. QED
      BY ONLY <3>1 DEF Timeout, ReadSlot, Send
  <2>2. /\ UNCHANGED <<running, slock, writing, toRelease, down, sim, listed, toTell, thread>>
        /\ \E next \in {"register", "recv", "left", "died"} : handler' = [handler EXCEPT ![c] = next]
    BY <1>4, <2>1 DEF ServerThread, RegisterClient, ListClient, HandlerLeaves, RecvEmpty, Recv,
       RecvMerged, serverVars, clientVars, clientComm
  <2>. QED
    BY <2>2
<1>5. ASSUME NEW c \in Client, ClientAgent(c) \/ StartClient(c) PROVE Still
  BY <1>5 DEF ClientAgent, RegisterWithServer, Connect, RunClientEnds, StartClient, commVars,
     serverVars, clientComm
<1>6. ASSUME NEW c \in Client, ClientThread(c) PROVE Still
  BY <1>6 DEF ClientThread, ClientLeaves, ClientTimeout, ClientSend, ClientRecv, ClientRecvFails,
     MoveThread, commVars, serverVars
<1>7. CASE UNCHANGED vars
  BY <1>7 DEF vars, commVars, serverVars, clientVars, clientComm
<1>. QED
  BY <1>2, <1>3, <1>4, <1>5, <1>6, <1>7 DEF Next, Threads

(* A step that leaves alone what a client is shown.                        *)
LEMMA OnlyExitsKept ==
  ASSUME NEW d \in Client, OnlyExits(d),
         valueOutMap'[d] = valueOutMap[d], slock'[d] = slock[d], handler'[d] = handler[d],
         data'[d] = data[d], down'[d] = down[d], thread'[d] = thread[d],
         d \in toRelease' => d \in toRelease, d \in writing' => d \in writing,
         d \in toTell => d \in toTell'
  PROVE  OnlyExits(d)'
BY DEF OnlyExits, Asleep

(* The acceptor clears the slot of a client that cannot be listed yet.     *)
LEMMA AcceptorExit ==
  ASSUME TypeOK, ListedInv, NEW d \in listed, OnlyExits(d), Acceptor PROVE OnlyExits(d)'
<1> USE ShownTypes
<1>1. handler[d] # "none"
  BY DEF ListedInv
<1>2. UNCHANGED <<toTell, thread>>
  BY DEF Acceptor, serverVars, clientVars, clientComm
<1>3. CASE AcceptorLeaves
  BY <1>2, <1>3, OnlyExitsKept DEF AcceptorLeaves
<1>4. ASSUME NEW c \in Client, Accept(c) PROVE OnlyExits(d)'
  <2>1. d # c
    BY <1>1, <1>4 DEF Accept
  <2>. QED
    BY <1>2, <1>4, <2>1, OnlyExitsKept DEF Accept
<1>5. ASSUME NEW c \in Client, AcceptMerged(c) PROVE OnlyExits(d)'
  BY <1>2, <1>5, OnlyExitsKept DEF AcceptMerged
<1>. QED
  BY <1>3, <1>4, <1>5 DEF Acceptor

(* The semaphore of a listed client is released only after the exit was    *)
(* put into its slot: by the loop over the clients, and by close, which    *)
(* runs when that loop has come to its end.                                *)
LEMMA RunServerExit ==
  ASSUME TypeOK, NEW d \in listed, OnlyExits(d), RunServer, ~ FirstRound
  PROVE  OnlyExits(d)'
<1> USE ShownTypes
<1>1. UNCHANGED <<thread, data, down, handler>>
  BY DEF RunServer, TellExitRaises, StopComms, CloseFlag, RunServerEnds, TellExit, Assign,
     TellExitReleases, Release, StopReleases, CloseRelease, commVars, clientVars, clientComm
<1>2. CASE TellExitRaises \/ RunServerEnds
  BY <1>2, OnlyExitsKept DEF TellExitRaises, RunServerEnds, commVars, clientVars, clientComm
<1>3. CASE StopComms
  <2>1. valueOutMap[d] = Exit /\ valueOutMap' = valueOutMap
    BY <1>3 DEF StopComms, CloseFlag, OnlyExits, Asleep
  <2>. QED
    BY <1>1, <2>1 DEF OnlyExits
<1>4. ASSUME NEW c \in Client, TellExit(c) PROVE OnlyExits(d)'
  <2>1. CASE d = c
    <3>1. valueOutMap'[d] = Exit
      BY <1>4, <2>1 DEF TellExit, Assign
    <3>. QED
      BY <1>1, <3>1 DEF OnlyExits
  <2>2. CASE d # c
    BY <1>1, <1>4, <2>2, OnlyExitsKept DEF TellExit, Assign, serverVars
  <2>. QED
    BY <2>1, <2>2
<1>5. ASSUME NEW c \in Client, TellExitReleases(c) PROVE OnlyExits(d)'
  <2>1. CASE d = c
    <3>1. valueOutMap[d] = Exit /\ valueOutMap' = valueOutMap
      BY <1>5, <2>1 DEF TellExitReleases, Release, OnlyExits, Asleep
    <3>. QED
      BY <1>1, <3>1 DEF OnlyExits
  <2>2. CASE d # c
    BY <1>1, <1>5, <2>2, OnlyExitsKept DEF TellExitReleases, Release
  <2>. QED
    BY <2>1, <2>2
<1>6. ASSUME NEW c \in Client, StopReleases(c) PROVE OnlyExits(d)'
  <2>1. CASE d = c
    <3>1. valueOutMap[d] = Exit /\ valueOutMap' = valueOutMap
      BY <1>6, <2>1 DEF StopReleases, CloseRelease, OnlyExits, Asleep
    <3>. QED
      BY <1>1, <3>1 DEF OnlyExits
  <2>2. CASE d # c
    BY <1>1, <1>6, <2>2, OnlyExitsKept DEF StopReleases, CloseRelease, serverVars
  <2>. QED
    BY <2>1, <2>2
<1>. QED
  BY <1>2, <1>3, <1>4, <1>5, <1>6 DEF RunServer

(* A thread that woke reads the exit, and sends it.                        *)
LEMMA ServerThreadExit ==
  ASSUME TypeOK, NEW d \in listed, OnlyExits(d), NEW c \in Client, ServerThread(c)
  PROVE  OnlyExits(d)'
<1> USE ShownTypes
<1>1. UNCHANGED <<valueOutMap, writing, toRelease, toTell, thread>>
  BY DEF ServerThread, RegisterClient, ListClient, HandlerLeaves, Timeout, ReadSlot, Send,
     RecvEmpty, Recv, RecvMerged, serverVars, clientVars, clientComm
<1>2. CASE d # c
  BY <1>1, <1>2, OnlyExitsKept DEF ServerThread, RegisterClient, ListClient, HandlerLeaves, Timeout,
     ReadSlot, Send, RecvEmpty, Recv, RecvMerged
<1>3. CASE d = c /\ (RegisterClient(c) \/ ListClient(c) \/ HandlerLeaves(c) \/ RecvEmpty(c)
                     \/ RecvMerged(c))
  <2>1. UNCHANGED <<slock, data, down>> /\ handler'[c] \in {"register", "recv", "left", "died"}
    BY <1>3 DEF RegisterClient, ListClient, HandlerLeaves, RecvEmpty, Recv, RecvMerged
  <2>. QED
    BY <1>1, <1>3, <2>1 DEF OnlyExits, Asleep
<1>4. CASE d = c /\ Timeout(c)
  <2>1. valueOutMap[d] = Exit
    BY <1>4 DEF Timeout, OnlyExits, Asleep
  <2>2. UNCHANGED <<data, down>> /\ handler'[d] = "acquired"
    BY <1>4 DEF Timeout
  <2>. QED
    BY <1>1, <2>1, <2>2 DEF OnlyExits
<1>5. CASE d = c /\ ReadSlot(c)
  <2>1. valueOutMap[d] = Exit
    BY <1>5 DEF ReadSlot, OnlyExits, Asleep
  <2>2. UNCHANGED down /\ data'[d] = Exit
    BY <1>5, <2>1 DEF ReadSlot
  <2>. QED
    BY <1>1, <2>1, <2>2 DEF OnlyExits
<1>6. CASE d = c /\ Send(c)
  <2>1. valueOutMap[d] = Exit /\ data[d] = Exit
    BY <1>6 DEF Send, OnlyExits, Asleep
  <2>2. down'[d] \in {down[d], Append(down[d], Exit)} /\ handler'[d] \in {"recv", "broken"}
    BY <1>6, <2>1 DEF Send
  <2>3. down'[d] \in Seq({Exit})
    <3>1. down[d] \in Seq({Exit}) /\ Exit \in {Exit}
      BY DEF OnlyExits
    <3>2. Append(down[d], Exit) \in Seq({Exit})
      BY <3>1, MessagesTaken
    <3>. QED
      BY <2>2, <3>1, <3>2
  <2>. QED
    BY <1>1, <2>1, <2>2, <2>3 DEF OnlyExits
<1>. QED
  BY <1>2, <1>3, <1>4, <1>5, <1>6 DEF ServerThread

(* The thread of a listed client finds nothing but exits.                  *)
LEMMA ClientExit ==
  ASSUME TypeOK, NEW d \in listed, OnlyExits(d), NEW c \in Client,
         ClientAgent(c) \/ ClientThread(c) \/ StartClient(c)
  PROVE  OnlyExits(d)'
<1> USE ShownTypes
<1>1. UNCHANGED <<valueOutMap, slock, handler, data, writing, toRelease, toTell>>
  BY DEF ClientAgent, RegisterWithServer, Connect, RunClientEnds, StartClient, ClientThread,
     ClientLeaves, ClientTimeout, ClientSend, ClientRecv, ClientRecvFails, commVars, serverVars
<1>2. CASE ClientRecv(c) /\ d = c
  <2>1. down[d] \in Seq({Exit}) /\ down[d] # << >>
    BY <1>2 DEF OnlyExits, ClientRecv
  <2>2. Head(down[d]) = Exit /\ Tail(down[d]) \in Seq({Exit})
    BY <2>1, MessagesTaken
  <2>3. down'[d] \in Seq({Exit}) /\ thread'[d] = "recv"
    BY <1>2, <2>2 DEF ClientRecv, MoveThread
  <2>. QED
    BY <1>1, <2>3 DEF OnlyExits, Asleep
<1>3. CASE ClientRecvFails(c) /\ d = c
  <2>1. down'[d] = << >> /\ thread'[d] \in {"merged", "eof"}
    BY <1>3 DEF ClientRecvFails, MoveThread
  <2>. QED
    BY <1>1, <2>1, MessagesTaken DEF OnlyExits, Asleep
<1>4. CASE (ClientRecv(c) \/ ClientRecvFails(c)) /\ d # c
  BY <1>1, <1>4, OnlyExitsKept DEF ClientRecv, ClientRecvFails, MoveThread
<1>5. CASE ~ ClientRecv(c) /\ ~ ClientRecvFails(c)
  <2>1. down' = down
    BY <1>5 DEF ClientAgent, RegisterWithServer, Connect, RunClientEnds, StartClient, ClientThread,
       ClientLeaves, ClientTimeout, ClientSend, commVars
  <2>2. thread'[d] \in {thread[d], "recv", "left", "acquired", "send"}
    BY <1>5 DEF ClientAgent, RegisterWithServer, RunClientEnds, StartClient, ClientThread,
       ClientLeaves, ClientTimeout, ClientSend, MoveThread, clientComm
  <2>. QED
    BY <1>1, <2>1, <2>2 DEF OnlyExits, Asleep
<1>. QED
  BY <1>2, <1>3, <1>4, <1>5

(* When the list is made, every client on it is asleep.                    *)
LEMMA FirstRoundExit ==
  ASSUME TypeOK, QuietInv, FirstRound, NEW d \in listed' PROVE OnlyExits(d)'
<1>1. d \in Client /\ Silent(d) /\ toRelease = {} /\ writing = {}
  BY ShownTypes DEF FirstRound, QuietInv
<1>2. UNCHANGED <<valueOutMap, slock, handler, data, writing, toRelease, down, thread>>
  BY DEF FirstRound, commVars, clientVars, clientComm
<1>3. d \in toTell'
  BY DEF FirstRound
<1>4. slock'[d] = 0 /\ handler'[d] \notin {"acquired", "sending"} /\ down'[d] = << >>
      /\ thread'[d] # "sentinel" /\ d \notin toRelease' /\ d \notin writing'
  BY <1>1, <1>2 DEF Silent
<1>5. << >> \in Seq({Exit})
  OBVIOUS
<1>. QED
  BY <1>3, <1>4, <1>5 DEF OnlyExits, Asleep

LEMMA ExitStep == TypeOK /\ QuietInv /\ ListedInv /\ ExitInv /\ [Next]_vars => ExitInv'
<1> SUFFICES ASSUME TypeOK, QuietInv, ListedInv, ExitInv, [Next]_vars, NEW d \in listed'
             PROVE  OnlyExits(d)'
  BY DEF ExitInv
<1>1. CASE FirstRound
  BY <1>1, FirstRoundExit
<1>2. CASE ~ FirstRound
  <2>1. listed' = listed
    BY <1>2 DEF Next, Threads, Acceptor, RunServer, TellExitRaises, StopComms, RunServerEnds,
       TellExit, TellExitReleases, StopReleases, ServerThread, RegisterClient, ListClient,
       ClientAgent, RegisterWithServer, RunClientEnds, ClientThread, ClientLeaves, ClientTimeout,
       ClientSend, ClientRecv, ClientRecvFails, StartSimulation, StartClient, serverVars, vars
  <2>2. d \in listed /\ OnlyExits(d) /\ d \in Client
    BY <2>1, ShownTypes DEF ExitInv
  <2>3. CASE StartSimulation \/ UNCHANGED vars
    BY <2>2, <2>3, OnlyExitsKept DEF StartSimulation, vars, commVars, serverVars, clientVars, clientComm
  <2>. QED
    BY <1>2, <2>2, <2>3, AcceptorExit, RunServerExit, ServerThreadExit, ClientExit DEF Next, Threads
<1>. QED
  BY <1>1, <1>2

-----------------------------------------------------------------------------
(* What the clients send.                                                  *)

Registering == {"id", "register"}

Sound(c) ==
  /\ serving[c] => OnePermit(c)
  /\ handler[c] \in {"died", "broken"} => ~ serving[c]

LEMMA SentTypes ==
  ASSUME TypeOK
  PROVE  /\ handler \in [Client -> HandlerState] /\ up \in [Client -> Seq(Message)]
         /\ agent \in [Client -> {"init", "waiting", "looping", "ended"}]
         /\ serving \in [Client -> BOOLEAN] /\ outMap \in [Client -> {"register", "empty"}]
         /\ permit \in [Client -> Nat] /\ thread \in [Client -> ThreadState]
         /\ hungUp \subseteq Client
BY DEF TypeOK, ServiceTypeOK, ClientTypeOK

(* A step that leaves alone what a client sends, or takes from it.         *)
LEMMA SoundKept ==
  ASSUME NEW d \in Client, Sound(d), serving'[d] = serving[d],
         agent'[d] = "init" => agent[d] = "init",
         permit'[d] = permit[d], thread'[d] = thread[d], outMap'[d] = outMap[d],
         up[d] \in Seq(Registering) => up'[d] \in Seq(Registering),
         d \in hungUp' => d \in hungUp,
         handler'[d] \in {"died", "broken"} /\ serving[d] => handler[d] \in {"died", "broken"}
  PROVE  Sound(d)'
BY DEF Sound, OnePermit, Registering

LEMMA AcceptorSound ==
  ASSUME TypeOK, NEW d \in Client, Sound(d), Acceptor PROVE Sound(d)'
<1> USE SentTypes
<1>1. UNCHANGED <<serving, agent, permit, thread, outMap, hungUp>>
  BY DEF Acceptor, AcceptorLeaves, Accept, AcceptMerged, clientVars, agentVars, clientComm
<1>2. up'[d] \in {up[d], << >>} /\ handler'[d] \in {handler[d], "recv"}
  BY DEF Acceptor, AcceptorLeaves, Accept, AcceptMerged
<1>3. << >> \in Seq(Registering)
  OBVIOUS
<1>. QED
  BY <1>1, <1>2, <1>3, SoundKept

LEMMA RunServerSound ==
  ASSUME TypeOK, NEW d \in Client, Sound(d), RunServer \/ StartSimulation \/ UNCHANGED vars
  PROVE  Sound(d)'
<1>1. /\ serving' = serving /\ agent' = agent /\ permit' = permit /\ thread' = thread
      /\ outMap' = outMap /\ hungUp' = hungUp /\ up' = up /\ handler' = handler
  BY DEF RunServer, StartSimulation, FirstRound, TellExitRaises, StopComms, CloseFlag,
     RunServerEnds, TellExit, Assign, TellExitReleases, Release, StopReleases, CloseRelease,
     commVars, clientVars, agentVars, clientComm, vars
<1>. QED
  BY <1>1, SoundKept

(* replyHandler dies of an empty map, and sending of a client that hung    *)
(* up: neither comes from a client that serves.                            *)
LEMMA ServerThreadSound ==
  ASSUME TypeOK, NEW d \in Client, Sound(d), NEW c \in Client, ServerThread(c)
  PROVE  Sound(d)'
<1> USE SentTypes
<1>1. UNCHANGED <<serving, agent, permit, thread, outMap, hungUp>>
  BY DEF ServerThread, RegisterClient, ListClient, HandlerLeaves, Timeout, ReadSlot, Send,
     RecvEmpty, Recv, RecvMerged, clientVars, agentVars, clientComm
<1>2. up[d] \in Seq(Registering) => up'[d] \in Seq(Registering)
  <2> SUFFICES ASSUME up[d] \in Seq(Registering) PROVE up'[d] \in Seq(Registering)
    OBVIOUS
  <2>1. CASE up'[d] = up[d]
    BY <2>1
  <2>2. CASE up[d] # << >> /\ up'[d] = Tail(up[d])
    BY <2>2, MessagesTaken
  <2>3. CASE \E n \in 2 .. Len(up[d]) : up'[d] = SubSeq(up[d], n + 1, Len(up[d]))
    BY <2>3, MessagesTaken
  <2>4. CASE RecvMerged(c)
    BY <2>1, <2>3, <2>4 DEF RecvMerged
  <2>5. CASE ~ RecvMerged(c)
    BY <2>1, <2>2, <2>5 DEF ServerThread, RegisterClient, ListClient, HandlerLeaves, Timeout,
       ReadSlot, Send, RecvEmpty, Recv
  <2>. QED
    BY <2>4, <2>5
<1>3. handler'[d] \in {"died", "broken"} /\ serving[d] => handler[d] \in {"died", "broken"}
  <2>1. CASE RecvEmpty(c) /\ d = c
    <3>1. up[d] # << >> /\ Head(up[d]) = "empty"
      BY <2>1 DEF RecvEmpty
    <3>2. up[d] \notin Seq(Registering)
      <4>1. up[d] \in Seq(Registering) => Head(up[d]) \in Registering
        BY <3>1, MessagesTaken
      <4>. QED
        BY <3>1, <4>1 DEF Registering
    <3>. QED
      BY <3>2 DEF Sound, OnePermit, Registering
  <2>2. CASE Send(c) /\ d = c
    BY <2>2 DEF Send, Sound, OnePermit
  <2>3. CASE d # c
    <3>1. handler'[d] = handler[d]
      BY <2>3 DEF ServerThread, RegisterClient, ListClient, HandlerLeaves, Timeout, ReadSlot, Send,
         RecvEmpty, Recv, RecvMerged
    <3>. QED
      BY <3>1
  <2>4. CASE d = c /\ ~ RecvEmpty(c) /\ ~ Send(c)
    <3>1. handler'[d] \in {"register", "recv", "left", "acquired", "sending"}
      BY <2>4 DEF ServerThread, RegisterClient, ListClient, HandlerLeaves, Timeout, ReadSlot, Recv,
         RecvMerged
    <3>. QED
      BY <3>1
  <2>. QED
    BY <2>1, <2>2, <2>3, <2>4
<1>. QED
  BY <1>1, <1>2, <1>3, SoundKept

(* The permit of the registration is the only one before the client's own  *)
(* stop, and the first message takes it and the registration.              *)
LEMMA ClientSound ==
  ASSUME TypeOK, NEW d \in Client, Sound(d), NEW c \in Client,
         ClientAgent(c) \/ ClientThread(c) \/ StartClient(c)
  PROVE  Sound(d)'
<1> USE SentTypes
<1>1. handler' = handler
  BY DEF ClientAgent, RegisterWithServer, Connect, RunClientEnds, StartClient, ClientThread,
     ClientLeaves, ClientTimeout, ClientSend, ClientRecv, ClientRecvFails, commVars
<1>2. CASE d # c
  <2>1. /\ serving'[d] = serving[d] /\ agent'[d] = agent[d] /\ permit'[d] = permit[d]
        /\ thread'[d] = thread[d] /\ outMap'[d] = outMap[d]
    BY <1>2 DEF ClientAgent, RegisterWithServer, SendRegister, SendMsg, RunClientEnds,
       StartClient, ClientThread, ClientLeaves, ClientTimeout, ClientSend, ClientRecv,
       ClientRecvFails, MoveThread, agentVars, clientComm
  <2>2. up'[d] = up[d] /\ (d \in hungUp' => d \in hungUp)
    BY <1>2 DEF ClientAgent, RegisterWithServer, Connect, RunClientEnds,
       StartClient, ClientThread, ClientLeaves, ClientTimeout, ClientSend, ClientRecv,
       ClientRecvFails, commVars
  <2>. QED
    BY <1>1, <2>1, <2>2, SoundKept
<1>3. CASE d = c /\ ~ serving[d]
  <2>1. ~ serving'[d]
    BY <1>3 DEF ClientAgent, RegisterWithServer, RunClientEnds, StartClient, ClientThread,
       ClientLeaves, ClientTimeout, ClientSend, ClientRecv, ClientRecvFails, agentVars, clientComm
  <2>. QED
    BY <1>1, <2>1 DEF Sound
<1>4. CASE d = c /\ serving[d] /\ RunClientEnds(c)
  <2>1. ~ serving'[d]
    BY <1>4 DEF RunClientEnds
  <2>. QED
    BY <1>1, <2>1 DEF Sound
<1>5. CASE d = c /\ serving[d] /\ StartClient(c)
  <2>1. UNCHANGED <<serving, permit, thread, outMap, up, hungUp>>
        /\ agent[d] = "waiting" /\ agent'[d] = "looping"
    BY <1>5 DEF StartClient, Ready, commVars, clientComm
  <2>. QED
    BY <1>1, <2>1, SoundKept
<1>6. CASE d = c /\ serving[d] /\ RegisterWithServer(c)
  <2>1. permit[d] = 0 /\ thread[d] = "none" /\ d \notin hungUp
    BY <1>6 DEF RegisterWithServer, Sound, OnePermit
  <2>2. /\ permit'[d] = 1 /\ thread'[d] = "recv" /\ outMap'[d] = "register"
        /\ agent'[d] = "waiting" /\ hungUp' = hungUp /\ up'[d] = <<"id">>
    BY <1>6, <2>1 DEF RegisterWithServer, SendRegister, SendMsg, Connect
  <2>3. <<"id">> \in Seq({"id", "register"})
    OBVIOUS
  <2>4. OnePermit(d)'
    BY <2>1, <2>2, <2>3 DEF OnePermit
  <2>. QED
    BY <1>1, <1>6, <2>4 DEF Sound, RegisterWithServer
<1>7. CASE d = c /\ serving[d] /\ ClientThread(c)
  <2>1. OnePermit(d) /\ UNCHANGED <<agent, serving>>
    BY <1>7 DEF Sound, ClientThread, ClientLeaves, ClientTimeout, ClientSend, ClientRecv,
       ClientRecvFails, agentVars
  <2>2. ~ ClientLeaves(c)
    BY <1>7 DEF ClientLeaves
  <2>3. CASE ClientTimeout(c)
    <3>1. thread[d] = "recv" /\ permit[d] = 1 /\ permit'[d] = 0 /\ thread'[d] = "acquired"
          /\ UNCHANGED <<outMap, up, hungUp>>
      BY <1>7, <2>1, <2>3 DEF ClientTimeout, MoveThread, OnePermit, commVars
    <3>. QED
      BY <1>1, <1>7, <2>1, <3>1 DEF Sound, OnePermit
  <2>4. CASE ClientSend(c)
    <3>1. thread[d] = "acquired" /\ permit[d] = 0 /\ outMap[d] = "register" /\ agent[d] # "init"
      BY <1>7, <2>1, <2>4 DEF ClientSend, OnePermit
    <3>2. permit'[d] = 0 /\ thread'[d] \in {"recv", "send"} /\ hungUp' = hungUp
          /\ up'[d] \in {up[d], Append(up[d], "register")}
      BY <1>7, <2>4, <3>1 DEF ClientSend, MoveThread
    <3>3. up[d] \in Seq({"id", "register"})
      BY <2>1 DEF OnePermit
    <3>4. up'[d] \in Seq({"id", "register"})
      BY <3>2, <3>3, MessagesTaken
    <3>5. OnePermit(d)'
      BY <2>1, <3>1, <3>2, <3>4 DEF OnePermit
    <3>. QED
      BY <1>1, <1>7, <2>1, <3>5 DEF Sound
  <2>5. CASE ClientRecv(c) \/ ClientRecvFails(c)
    <3>1. thread[d] = "recv" /\ thread'[d] \in {"recv", "sentinel", "merged", "eof"}
          /\ UNCHANGED <<permit, outMap, up, hungUp>>
      BY <1>7, <2>5 DEF ClientRecv, ClientRecvFails, MoveThread
    <3>2. OnePermit(d)'
      BY <2>1, <3>1 DEF OnePermit
    <3>. QED
      BY <1>1, <1>7, <2>1, <3>2 DEF Sound
  <2>. QED
    BY <1>7, <2>2, <2>3, <2>4, <2>5 DEF ClientThread
<1>. QED
  BY <1>2, <1>3, <1>4, <1>5, <1>6, <1>7 DEF ClientAgent

LEMMA PermitStep == TypeOK /\ PermitInv /\ [Next]_vars => PermitInv'
<1> SUFFICES ASSUME TypeOK, PermitInv, [Next]_vars, NEW d \in Client PROVE Sound(d)'
  BY DEF PermitInv, Sound
<1>1. Sound(d)
  BY DEF PermitInv, Sound
<1>. QED
  BY <1>1, AcceptorSound, RunServerSound, ServerThreadSound, ClientSound DEF Next, Threads

-----------------------------------------------------------------------------
(* The theorems.                                                           *)

LEMMA Invariant == Spec => []IInv
<1>1. IInv /\ [Next]_vars => IInv'
  BY TypeStep, QuietStep, ListedStep, ExitStep, PermitStep DEF IInv
<1>. QED
  BY <1>1, InitInv, PTL DEF Spec

(* stopComms of the server comes after the messages to exit                *)
(* (bbb_server_agent.py): for any number of clients, no client that was    *)
(* listed is shown the number its slot began with.                         *)
THEOREM ListedAreToldProperly == Spec => []ListedGetNoSentinel
<1>1. IInv => ListedGetNoSentinel
  BY DEF IInv, ExitInv, OnlyExits, ListedGetNoSentinel
<1>. QED
  BY <1>1, Invariant, PTL

(* No message of a client that still serves, and no failure to send to it, *)
(* ends a thread of the server: for any number of clients that register,   *)
(* are told to exit and stop in any order.                                 *)
THEOREM ThreadsOutliveClients == Spec => []ServerThreadsSurvive
<1>1. IInv => ServerThreadsSurvive
  BY DEF IInv, PermitInv, ServerThreadsSurvive
<1>. QED
  BY <1>1, Invariant, PTL

-----------------------------------------------------------------------------
(* The communication service under any owner and any clients.              *)

(* Nothing is kept for a client that was not accepted yet, so that joining *)
(* it shows nothing to it.                                                 *)
Fresh(c) == valueOutMap[c] = Sentinel /\ slock[c] = 0 /\ c \notin writing /\ c \notin hungUp

FreshInv == \A c \in Client : handler[c] = "none" => Fresh(c)

(* Only close leaves semaphores to release.                                *)
CloseInv == running => toRelease = {}

MailInv == MailTypeOK /\ FreshInv /\ CloseInv

-----------------------------------------------------------------------------
(* Types.                                                                  *)

LEMMA InitType == MailInit => MailInv
<1> SUFFICES ASSUME MailInit PROVE MailInv
  OBVIOUS
<1> USE DEF MailInit, CommInit
<1>1. Cardinality({}) <= 1
  BY FS_EmptySet
<1>2. CommTypeOK
  BY <1>1 DEF CommTypeOK, Sentinel, Accepted
<1>3. put \in 0 .. MaxPut /\ spoken \in 0 .. MaxUp
  BY BoundAssumption
<1>. QED
  BY <1>2, <1>3 DEF MailInv, MailTypeOK, FreshInv, Fresh, CloseInv, Sentinel

(* A set of at most one client.                                            *)
LEMMA OneWriter == ASSUME NEW c \in Client PROVE {c} \in SUBSET Client /\ Cardinality({c}) <= 1
<1>1. Cardinality({c}) = 1
  BY FS_Singleton
<1>. QED
  BY <1>1

LEMMA NoWriter == {} \in SUBSET Client /\ Cardinality({}) <= 1
BY FS_EmptySet

AnyMessage == {"id", "setParam", "register", "empty"}

(* The service keeps its types, whatever its owner and its clients do.     *)
LEMMA ServiceType == MailInv /\ Service => CommTypeOK'
<1> SUFFICES ASSUME MailInv, Service PROVE CommTypeOK'
  OBVIOUS
<1> USE DEF MailInv, MailTypeOK, CommTypeOK, Accepted
<1>1. CASE AcceptorLeaves
  BY <1>1 DEF AcceptorLeaves
<1>2. ASSUME NEW c \in Client, Accept(c) PROVE CommTypeOK'
  <2>1. up' \in [Client -> Seq(AnyMessage)]
    BY <1>2 DEF Accept, AnyMessage
  <2>. QED
    BY <1>2, <2>1 DEF Accept, Sentinel, AnyMessage
<1>3. ASSUME NEW c \in Client, AcceptMerged(c) PROVE CommTypeOK'
  <2>1. up' \in [Client -> Seq(AnyMessage)]
    BY <1>3 DEF AcceptMerged, AnyMessage
  <2>. QED
    BY <1>3, <2>1 DEF AcceptMerged, AnyMessage
<1>4. CASE CloseFlag
  BY <1>4 DEF CloseFlag
<1>5. ASSUME NEW c \in Client, Release(c) PROVE CommTypeOK'
  <2>1. slock' \in [Client -> Nat]
    BY <1>5 DEF Release
  <2>. QED
    BY <1>5, <2>1, NoWriter DEF Release
<1>6. ASSUME NEW c \in Client, CloseRelease(c) PROVE CommTypeOK'
  <2>1. slock' \in [Client -> Nat]
    BY <1>6 DEF CloseRelease
  <2>. QED
    BY <1>6, <2>1 DEF CloseRelease
<1>7. ASSUME NEW c \in Client, Connect(c) PROVE CommTypeOK'
  BY <1>7 DEF Connect
<1>8. ASSUME NEW c \in Client, ClientStops(c) PROVE CommTypeOK'
  <2>1. Append(up[c], "empty") \in Seq(AnyMessage)
    BY DEF AnyMessage
  <2>2. up' \in [Client -> Seq(AnyMessage)]
    BY <1>8, <2>1 DEF ClientStops, AnyMessage
  <2>. QED
    BY <1>8, <2>2 DEF ClientStops, AnyMessage
<1>9. ASSUME NEW c \in Client, HandlerLeaves(c) PROVE CommTypeOK'
  BY <1>9 DEF HandlerLeaves
<1>10. ASSUME NEW c \in Client, Timeout(c) PROVE CommTypeOK'
  BY <1>10 DEF Timeout
<1>11. ASSUME NEW c \in Client, ReadSlot(c) PROVE CommTypeOK'
  BY <1>11 DEF ReadSlot
<1>12. ASSUME NEW c \in Client, Send(c) PROVE CommTypeOK'
  <2>1. Append(down[c], data[c]) \in Seq(Nat)
    OBVIOUS
  <2>2. down' \in [Client -> Seq(Nat)]
    BY <1>12, <2>1 DEF Send
  <2>. QED
    BY <1>12, <2>2 DEF Send
<1>13. ASSUME NEW c \in Client, NEW next \in {"recv", "died"}, Recv(c, next) PROVE CommTypeOK'
  <2>1. up' \in [Client -> Seq(AnyMessage)]
    BY <1>13, MessagesTaken DEF Recv, AnyMessage
  <2>. QED
    BY <1>13, <2>1 DEF Recv, AnyMessage
<1>14. ASSUME NEW c \in Client, RecvMerged(c) PROVE CommTypeOK'
  <2>1. up' \in [Client -> Seq(AnyMessage)]
    BY <1>14, MessagesTaken DEF RecvMerged, AnyMessage
  <2>. QED
    BY <1>14, <2>1 DEF RecvMerged, AnyMessage
<1>15. ASSUME NEW c \in Client, Handler(c) PROVE CommTypeOK'
  BY <1>15, <1>9, <1>10, <1>11, <1>12, <1>13, <1>14 DEF Handler, RecvAny
<1>. QED
  BY <1>1, <1>2, <1>3, <1>4, <1>5, <1>6, <1>7, <1>8, <1>15 DEF Service, MailAcceptor, Owner

LEMMA MailTypeStep == MailInv /\ [MailNext]_mailVars => MailTypeOK'
<1> SUFFICES ASSUME MailInv, [MailNext]_mailVars PROVE MailTypeOK'
  OBVIOUS
<1> USE DEF MailInv, MailTypeOK
<1>1. CASE Service /\ UNCHANGED <<put, spoken>>
  BY <1>1, ServiceType
<1>2. ASSUME NEW c \in Client, Put(c) PROVE MailTypeOK'
  BY <1>2, OneWriter, BoundAssumption DEF Put, Assign, CommTypeOK, Accepted
<1>3. ASSUME NEW c \in Client, ClientSends(c) PROVE MailTypeOK'
  <2>1. up' \in [Client -> Seq(AnyMessage)]
    BY <1>3 DEF ClientSends, CommTypeOK, AnyMessage
  <2>. QED
    BY <1>3, <2>1, BoundAssumption DEF ClientSends, CommTypeOK, Accepted, AnyMessage
<1>4. CASE UNCHANGED mailVars
  BY <1>4 DEF mailVars, commVars, CommTypeOK, Accepted
<1>. QED
  BY <1>1, <1>2, <1>3, <1>4 DEF MailNext

-----------------------------------------------------------------------------
(* What a client finds when it joins.                                      *)

(* Only a client that was accepted has anything kept for it.               *)
LEMMA FreshStep == MailInv /\ [MailNext]_mailVars => FreshInv'
<1> SUFFICES ASSUME MailInv, [MailNext]_mailVars, NEW d \in Client, handler'[d] = "none"
             PROVE  Fresh(d)'
  BY DEF FreshInv
<1>1. valueOutMap \in [Client -> Nat] /\ slock \in [Client -> Nat]
      /\ handler \in [Client -> HandlerState] /\ toRelease \subseteq Accepted
  BY DEF MailInv, MailTypeOK, CommTypeOK, HandlerState
<1> USE <1>1 DEF MailInv, FreshInv, Fresh, Accepted
<1>2. CASE AcceptorLeaves
  BY <1>2 DEF AcceptorLeaves
<1>3. ASSUME NEW c \in Client, Accept(c) PROVE Fresh(d)'
  BY <1>3 DEF Accept
<1>4. ASSUME NEW c \in Client, AcceptMerged(c) PROVE Fresh(d)'
  BY <1>4 DEF AcceptMerged
<1>5. CASE CloseFlag
  BY <1>5 DEF CloseFlag
<1>6. ASSUME NEW c \in Client, Release(c) PROVE Fresh(d)'
  BY <1>6 DEF Release
<1>7. ASSUME NEW c \in Client, CloseRelease(c) PROVE Fresh(d)'
  BY <1>7 DEF CloseRelease
<1>8. ASSUME NEW c \in Client, Connect(c) PROVE Fresh(d)'
  BY <1>8 DEF Connect
<1>9. ASSUME NEW c \in Client, ClientStops(c) PROVE Fresh(d)'
  BY <1>9 DEF ClientStops
<1>10. ASSUME NEW c \in Client, Handler(c) PROVE Fresh(d)'
  BY <1>10 DEF Handler, HandlerLeaves, Timeout, ReadSlot, Send, RecvAny, Recv, RecvMerged
<1>11. ASSUME NEW c \in Client, Put(c) PROVE Fresh(d)'
  BY <1>11 DEF Put, Assign, CanSend
<1>12. ASSUME NEW c \in Client, ClientSends(c) PROVE Fresh(d)'
  BY <1>12 DEF ClientSends
<1>13. CASE UNCHANGED mailVars
  BY <1>13 DEF mailVars, commVars
<1>. QED
  BY <1>2, <1>3, <1>4, <1>5, <1>6, <1>7, <1>8, <1>9, <1>10, <1>11, <1>12, <1>13
     DEF MailNext, Service, MailAcceptor, Owner

(* Nothing is to be released before close.                                 *)
LEMMA CloseStep == MailInv /\ [MailNext]_mailVars => CloseInv'
<1> SUFFICES ASSUME MailInv, [MailNext]_mailVars, running' PROVE toRelease' = {}
  BY DEF CloseInv
<1> USE DEF MailInv, CloseInv
<1>1. CASE UNCHANGED <<running, toRelease>>
  BY <1>1
<1>2. ASSUME NEW c \in Client, Accept(c) PROVE toRelease' = {}
  BY <1>2 DEF Accept
<1>3. CASE CloseFlag
  BY <1>3 DEF CloseFlag
<1>4. ASSUME NEW c \in Client, CloseRelease(c) PROVE toRelease' = {}
  BY <1>4 DEF CloseRelease
<1>. QED
  BY <1>1, <1>2, <1>3, <1>4
     DEF MailNext, Service, MailAcceptor, Owner, Handler, AcceptorLeaves, AcceptMerged, Release, Connect,
         ClientStops, HandlerLeaves, Timeout, ReadSlot, Send, RecvAny, Recv, RecvMerged,
         Put, Assign, ClientSends, mailVars, commVars

(* The service and its clients keep the types of their variables           *)
(* (server_comm_service.py): a semaphore is never taken that was not       *)
(* released, and one value at a time is written.                           *)
LEMMA MailInvariant == MailSpec => []MailInv
<1>1. MailInv /\ [MailNext]_mailVars => MailInv'
  BY MailTypeStep, FreshStep, CloseStep DEF MailInv
<1>. QED
  BY <1>1, InitType, PTL DEF MailSpec

THEOREM MailboxTypeCorrect == MailSpec => []MailTypeOK
<1>1. MailInv => MailTypeOK
  BY DEF MailInv
<1>. QED
  BY <1>1, MailInvariant, PTL

-----------------------------------------------------------------------------
(* The refinement: how a step of the service looks to its user.            *)

(* The four things the user sees are those of the mailbox.                 *)
LEMMA NothingSeen ==
  ASSUME valueOutMap' = valueOutMap, running' = running, Present' = Present,
         \A d \in Client : Due(d)' = Due(d) /\ Shown(d)' = Shown(d)
  PROVE  UNCHANGED Mailbox!vars
BY DEF Mailbox!vars

(* A client that is no longer served, or never was, is the only change.    *)
LEMMA OnlyParts ==
  ASSUME NEW c \in Client,
         valueOutMap' = valueOutMap, running' = running, Present' = Present \ {c},
         \A d \in Client : Due(d)' = Due(d) /\ Shown(d)' = Shown(d)
  PROVE  Mailbox!Part(c)
BY DEF Mailbox!Part

(* A step that changes one client only leaves what the others see.         *)
LEMMA OthersSeeNothing ==
  ASSUME NEW c \in Client, NEW d \in Client, d # c,
         slock'[d] = slock[d], handler'[d] = handler[d], data'[d] = data[d],
         down'[d] = down[d], d \in writing' <=> d \in writing
  PROVE  Due(d)' = Due(d) /\ Shown(d)' = Shown(d)
BY DEF Due, Shown

(* What the proofs below need of the types.                                *)
LEMMA MailTypes ==
  ASSUME MailInv
  PROVE  /\ valueOutMap \in [Client -> Nat] /\ data \in [Client -> Nat]
         /\ slock \in [Client -> Nat] /\ handler \in [Client -> HandlerState]
         /\ down \in [Client -> Seq(Nat)] /\ toRelease \subseteq Client
BY DEF MailInv, MailTypeOK, CommTypeOK, HandlerState, Accepted

(* Accepting a client shows it nothing.                                    *)
LEMMA AcceptJoins == ASSUME MailInv, NEW c \in Client, Accept(c) PROVE Mailbox!Join(c)
<1>1. valueOutMap[c] = Sentinel /\ slock[c] = 0 /\ c \notin writing /\ c \notin hungUp
  BY DEF MailInv, FreshInv, Fresh, Accept
<1>2. valueOutMap' = valueOutMap /\ slock' = slock
  BY <1>1, MailTypes DEF Accept
<1>3. \A d \in Client : Due(d)' = Due(d) /\ Shown(d)' = Shown(d)
  BY <1>2, MailTypes DEF Accept, Due, Shown
<1>4. Present' = Present \cup {c}
  BY <1>1, MailTypes DEF Accept, Present, Accepted, Gone
<1>5. running' = running
  BY DEF Accept
<1>. QED
  BY <1>1, <1>2, <1>3, <1>4, <1>5 DEF Mailbox!Join

(* A value is put in the first statement of serverSendValue, not in the    *)
(* second, though only that wakes the thread.                              *)
LEMMA AssignPuts == ASSUME MailInv, NEW c \in Client, Put(c) PROVE Mailbox!Put(c)
<1> USE DEF Put, Assign
<1>1. Due(c)' = Due(c) + 1
  <2>1. slock[c] \in Nat
    BY MailTypes
  <2>. QED
    BY <2>1 DEF Due
<1>2. \A d \in Client : d # c => Due(d)' = Due(d)
  BY DEF Due
<1>3. \A d \in Client : Shown(d)' = Shown(d)
  BY DEF Shown
<1>4. Present' = Present
  BY DEF Present, Accepted, Gone
<1>. QED
  BY <1>1, <1>2, <1>3, <1>4, MailTypes DEF Mailbox!Put

LEMMA ReleaseUnseen == ASSUME MailInv, NEW c \in Client, Release(c) PROVE UNCHANGED Mailbox!vars
<1> USE DEF Release
<1>1. ASSUME NEW d \in Client PROVE Due(d)' = Due(d)
  <2>1. slock[d] \in Nat /\ slock'[d] = IF d = c THEN slock[d] + 1 ELSE slock[d]
    BY MailTypes
  <2>. QED
    BY <2>1 DEF Due
<1>2. ASSUME NEW d \in Client PROVE Shown(d)' = Shown(d)
  BY DEF Shown
<1>. QED
  BY <1>1, <1>2, NothingSeen DEF Present, Accepted, Gone

LEMMA CloseCloses == ASSUME CloseFlag PROVE Mailbox!Close
<1> USE DEF CloseFlag
<1>1. ASSUME NEW d \in Client PROVE Due(d)' = Due(d) /\ Shown(d)' = Shown(d)
  BY DEF Due, Shown
<1>. QED
  BY <1>1 DEF Mailbox!Close, Present, Accepted, Gone

LEMMA CloseReleaseCalls ==
  ASSUME MailInv, NEW c \in Client, CloseRelease(c) PROVE Mailbox!LastCall(c)
<1> USE DEF CloseRelease
<1>1. ~ running
  BY DEF MailInv, CloseInv
<1>2. ASSUME NEW d \in Client PROVE Due(d)' = IF d = c THEN Due(d) + 1 ELSE Due(d)
  <2>1. slock[d] \in Nat /\ slock'[d] = IF d = c THEN slock[d] + 1 ELSE slock[d]
    BY MailTypes
  <2>. QED
    BY <2>1 DEF Due
<1>3. ASSUME NEW d \in Client PROVE Shown(d)' = Shown(d)
  BY DEF Shown
<1>. QED
  BY <1>1, <1>2, <1>3 DEF Mailbox!LastCall, Present, Accepted, Gone

(* The value leaves the slot when the thread reads it, after it took the   *)
(* semaphore and before it sends it: what is shown is the latest then.     *)
LEMMA ReadShows == ASSUME MailInv, NEW c \in Client, ReadSlot(c) PROVE Mailbox!Show(c)
<1> USE DEF ReadSlot
<1>1. slock[c] \in Nat /\ slock' = slock /\ writing' = writing
      /\ handler[c] = "acquired" /\ handler'[c] = "sending" /\ data'[c] = valueOutMap[c]
  BY MailTypes
<1>2. Due(c) > 0 /\ Due(c)' = Due(c) - 1 /\ Shown(c)' = valueOutMap[c]
  BY <1>1 DEF Due, Shown
<1>3. ASSUME NEW d \in Client, d # c PROVE Due(d)' = Due(d) /\ Shown(d)' = Shown(d)
  BY <1>3, OthersSeeNothing, MailTypes
<1>4. Present' = Present
  BY MailTypes DEF Present, Accepted, Gone
<1>. QED
  BY <1>2, <1>3, <1>4 DEF Mailbox!Show

LEMMA TimeoutUnseen == ASSUME MailInv, NEW c \in Client, Timeout(c) PROVE UNCHANGED Mailbox!vars
<1> USE DEF Timeout
<1>1. slock[c] \in Nat /\ slock'[c] = slock[c] - 1 /\ writing' = writing
      /\ handler[c] = "recv" /\ handler'[c] = "acquired"
  BY MailTypes
<1>2. Due(c)' = Due(c) /\ Shown(c)' = Shown(c)
  BY <1>1 DEF Due, Shown
<1>3. ASSUME NEW d \in Client, d # c PROVE Due(d)' = Due(d) /\ Shown(d)' = Shown(d)
  BY <1>3, OthersSeeNothing, MailTypes
<1>4. Present' = Present
  BY MailTypes DEF Present, Accepted, Gone
<1>. QED
  BY <1>2, <1>3, <1>4, NothingSeen

LEMMA LastOfAppend ==
  ASSUME NEW s \in Seq(Nat), NEW x \in Nat
  PROVE  Append(s, x) # << >> /\ Append(s, x)[Len(Append(s, x))] = x
OBVIOUS

(* What the thread sends is what it read, also if sending raises.          *)
LEMMA SendUnseen == ASSUME MailInv, NEW c \in Client, Send(c) PROVE UNCHANGED Mailbox!vars
<1> USE DEF Send
<1>1. handler[c] = "sending" /\ handler'[c] \in {"recv", "broken"}
      /\ slock' = slock /\ writing' = writing /\ data' = data
  BY MailTypes
<1>2. Due(c)' = Due(c)
  BY <1>1 DEF Due
<1>3. Shown(c)' = Shown(c)
  <2>1. CASE handler'[c] = "broken"
    BY <1>1, <2>1 DEF Shown
  <2>2. CASE handler'[c] = "recv"
    <3>1. down'[c] = Append(down[c], data[c])
      BY <2>2, MailTypes
    <3>2. down[c] \in Seq(Nat) /\ data[c] \in Nat
      BY MailTypes
    <3>3. down'[c] # << >> /\ down'[c][Len(down'[c])] = data[c]
      BY <3>1, <3>2, LastOfAppend
    <3>. QED
      BY <1>1, <2>2, <3>3 DEF Shown
  <2>. QED
    BY <1>1, <2>1, <2>2
<1>4. ASSUME NEW d \in Client, d # c PROVE Due(d)' = Due(d) /\ Shown(d)' = Shown(d)
  BY <1>4, OthersSeeNothing, MailTypes
<1>5. Present' = Present
  BY MailTypes DEF Present, Accepted, Gone
<1>. QED
  BY <1>2, <1>3, <1>4, <1>5, NothingSeen

(* The thread of a client ends, or the client: it is served no more.       *)
LEMMA EndParts ==
  ASSUME MailInv, NEW c \in Client, HandlerLeaves(c) \/ Recv(c, "died") \/ ClientStops(c)
  PROVE  Mailbox!Part(c)
<1> USE DEF HandlerLeaves, Recv, ClientStops
<1>1. ASSUME NEW d \in Client PROVE Due(d)' = Due(d) /\ Shown(d)' = Shown(d)
  BY MailTypes DEF Due, Shown
<1>2. Present' = Present \ {c}
  BY MailTypes DEF Present, Accepted, Gone
<1>. QED
  BY <1>1, <1>2, OnlyParts

(* Messages from a client change nothing for it, parsed or not.            *)
LEMMA MessagesUnseen ==
  ASSUME MailInv, NEW c \in Client, Recv(c, "recv") \/ RecvMerged(c)
  PROVE  UNCHANGED Mailbox!vars
<1> USE DEF Recv, RecvMerged
<1>1. handler' = handler
  BY MailTypes
<1>2. ASSUME NEW d \in Client PROVE Due(d)' = Due(d) /\ Shown(d)' = Shown(d)
  BY <1>1 DEF Due, Shown
<1>. QED
  BY <1>1, <1>2, NothingSeen DEF Present, Accepted, Gone

(* Nor do the steps before a client is accepted, or those of a thread that *)
(* accepts no more.                                                        *)
LEMMA OutsideUnseen ==
  ASSUME \/ AcceptorLeaves \/ UNCHANGED mailVars
         \/ \E c \in Client : AcceptMerged(c) \/ Connect(c) \/ ClientSends(c)
  PROVE  UNCHANGED Mailbox!vars
<1>1. UNCHANGED <<running, valueOutMap, slock, handler, data, writing, down, hungUp>>
  BY DEF AcceptorLeaves, mailVars, commVars, AcceptMerged, Connect, ClientSends
<1>2. ASSUME NEW d \in Client PROVE Due(d)' = Due(d) /\ Shown(d)' = Shown(d)
  BY <1>1 DEF Due, Shown
<1>. QED
  BY <1>1, <1>2, NothingSeen DEF Present, Accepted, Gone

(* Every step is one of the mailbox, or is not seen.                       *)
LEMMA MailboxStep == MailInv /\ [MailNext]_mailVars => [Mailbox!Next]_(Mailbox!vars)
<1> SUFFICES ASSUME MailInv, [MailNext]_mailVars PROVE Mailbox!Next \/ UNCHANGED Mailbox!vars
  OBVIOUS
<1>1. CASE AcceptorLeaves \/ UNCHANGED mailVars
           \/ \E c \in Client : AcceptMerged(c) \/ Connect(c) \/ ClientSends(c)
  BY <1>1, OutsideUnseen
<1>2. ASSUME NEW c \in Client, Accept(c) PROVE Mailbox!Next
  BY <1>2, AcceptJoins DEF Mailbox!Next
<1>3. ASSUME NEW c \in Client, Put(c) PROVE Mailbox!Next
  BY <1>3, AssignPuts DEF Mailbox!Next
<1>4. ASSUME NEW c \in Client, Release(c) PROVE UNCHANGED Mailbox!vars
  BY <1>4, ReleaseUnseen
<1>5. CASE CloseFlag
  BY <1>5, CloseCloses DEF Mailbox!Next
<1>6. ASSUME NEW c \in Client, CloseRelease(c) PROVE Mailbox!Next
  BY <1>6, CloseReleaseCalls DEF Mailbox!Next
<1>7. ASSUME NEW c \in Client, ClientStops(c) PROVE Mailbox!Next
  BY <1>7, EndParts DEF Mailbox!Next
<1>8. ASSUME NEW c \in Client, Handler(c) PROVE Mailbox!Next \/ UNCHANGED Mailbox!vars
  <2>1. CASE HandlerLeaves(c) \/ Recv(c, "died")
    BY <2>1, EndParts DEF Mailbox!Next
  <2>2. CASE ReadSlot(c)
    BY <2>2, ReadShows DEF Mailbox!Next
  <2>3. CASE Timeout(c) \/ Send(c) \/ Recv(c, "recv") \/ RecvMerged(c)
    BY <2>3, TimeoutUnseen, SendUnseen, MessagesUnseen
  <2>. QED
    BY <1>8, <2>1, <2>2, <2>3 DEF Handler, RecvAny
<1>. QED
  BY <1>1, <1>2, <1>3, <1>4, <1>5, <1>6, <1>7, <1>8 DEF MailNext, Service, MailAcceptor, Owner

LEMMA MailboxInit == MailInit => Mailbox!Init
BY DEF MailInit, CommInit, Mailbox!Init, Due, Shown, Present, Accepted

(* The safety half of IsMailbox (server_comm_service.py): serverSendValue, *)
(* close and the threads of the clients together are a mailbox that shows  *)
(* the latest value, once for every put, and never an older one after a    *)
(* newer one.                                                              *)
THEOREM ImplementsMailbox == MailSpec => Mailbox!Init /\ [][Mailbox!Next]_(Mailbox!vars)
BY MailInvariant, MailboxInit, MailboxStep, PTL DEF MailSpec

-----------------------------------------------------------------------------
(* The dispatch.  Its inductive invariant: the units are finitely many, so *)
(* that what they are given can be added up, and the energies and powers   *)
(* are within the limits.                                                  *)
UnitsOK == IsFiniteSet(units) /\ units \subseteq Unit

DispatchTypeOK ==
  /\ currentTime \in Nat
  /\ e \in [Unit -> Int] /\ p \in [Unit -> Int]

DispatchInv == UnitsOK /\ DispatchTypeOK /\ EnergyInLimits


(* Any numbers have a least one: what the inductions below start from.     *)
LEMMA LeastNatural ==
  ASSUME NEW B, B \subseteq Nat, B # {}
  PROVE  \E n \in B : \A k \in B : n <= k
<1> DEFINE R == OpToRel(<, Nat)
<1>1. \A x, y \in Nat : <<x, y>> \in R <=> x < y
  BY DEF OpToRel
<1>2. IsWellFoundedOn(R, Nat)
  BY NatLessThanWellFounded
<1> HIDE DEF R
<1>3. PICK n \in B : \A k \in B : ~ (<<k, n>> \in R)
  BY <1>2, WFMin
<1>4. \A k \in B : n <= k
  <2> SUFFICES ASSUME NEW k \in B PROVE n <= k
    OBVIOUS
  <2>1. n \in Nat /\ k \in Nat /\ ~ (k < n)
    BY <1>1, <1>3
  <2>. QED
    BY <2>1
<1>. QED
  BY <1>4

(* The lesser and the larger of two numbers.                               *)
LEMMA MinOfTwo ==
  ASSUME NEW a \in Int, NEW b \in Int
  PROVE  Min({a, b}) \in {a, b} /\ Min({a, b}) <= a /\ Min({a, b}) <= b
<1>1. \E x \in {a, b} : \A y \in {a, b} : x =< y
  <2>1. CASE a <= b
    BY <2>1
  <2>2. CASE b <= a
    BY <2>2
  <2>. QED
    BY <2>1, <2>2
<1>. QED
  BY <1>1 DEF Min

LEMMA MaxOfTwo ==
  ASSUME NEW a \in Int, NEW b \in Int
  PROVE  Max({a, b}) \in {a, b} /\ Max({a, b}) >= a /\ Max({a, b}) >= b
<1>1. \E x \in {a, b} : \A y \in {a, b} : x >= y
  <2>1. CASE a <= b
    BY <2>1
  <2>2. CASE b <= a
    BY <2>2
  <2>. QED
    BY <2>1, <2>2
<1>. QED
  BY <1>1 DEF Max

(* What is left before each of n units that take T of it in turn: there is *)
(* a function that says so, by induction on n.                             *)
RestStep(s, d, T, r, i) == IF i = 1 THEN d ELSE r[i - 1] - T[s[i - 1]][r[i - 1]]

RestFollows(n, s, d, T) == \E r : r = [i \in 1 .. n + 1 |-> RestStep(s, d, T, r, i)]

LEMMA RestExists ==
  ASSUME NEW n \in Nat, NEW s, NEW d, NEW T
  PROVE  RestFollows(n, s, d, T)
<1> DEFINE Exists(m) == \E r : r = [i \in 1 .. m + 1 |-> RestStep(s, d, T, r, i)]
           Bad == {m \in Nat : ~ Exists(m)}
<1> SUFFICES ASSUME ~ Exists(n) PROVE FALSE
  BY DEF RestFollows
<1>1. PICK m \in Bad : \A k \in Bad : m <= k
  <2>1. n \in Bad /\ Bad \subseteq Nat
    OBVIOUS
  <2>. QED
    BY <2>1, LeastNatural
<1>2. m # 0
  <2> DEFINE r == [i \in 1 .. 0 + 1 |-> d]
  <2>1. r = [i \in 1 .. 0 + 1 |-> RestStep(s, d, T, r, i)]
    <3>1. \A i \in 1 .. 0 + 1 : i = 1
      OBVIOUS
    <3>. QED
      BY <3>1 DEF RestStep
  <2>2. Exists(0)
    BY <2>1
  <2>. QED
    BY <1>1, <2>2
<1>3. PICK h : h = [i \in 1 .. m |-> RestStep(s, d, T, h, i)]
  <2>1. m - 1 \in Nat /\ ~ (m <= m - 1) /\ (m - 1) + 1 = m
    BY <1>2
  <2>2. Exists(m - 1)
    BY <1>1, <2>1
  <2>. QED
    BY <2>1, <2>2
<1> DEFINE r == [i \in 1 .. m + 1 |-> RestStep(s, d, T, h, i)]
<1>4. \A i \in 1 .. m : r[i] = h[i]
  BY <1>3
<1>5. \A i \in 1 .. m + 1 : RestStep(s, d, T, h, i) = RestStep(s, d, T, r, i)
  <2> SUFFICES ASSUME NEW i \in 1 .. m + 1, i # 1 PROVE h[i - 1] = r[i - 1]
    BY DEF RestStep
  <2>1. m \in Nat /\ i - 1 \in 1 .. m
    BY <1>1
  <2>. QED
    BY <1>4, <2>1
<1>6. r = [i \in 1 .. m + 1 |-> RestStep(s, d, T, r, i)]
  BY <1>5
<1>. QED
  BY <1>1, <1>6

(* So the function of InTurn follows its definition, and what is left      *)
(* stays in a set that taking does not lead out of.                        *)
Rest(s, d, T) ==
  CHOOSE r : r = [i \in 1 .. Len(s) + 1 |-> RestStep(s, d, T, r, i)]

LEMMA RestIsDefined ==
  ASSUME NEW S, NEW s \in Seq(S), NEW d, NEW T
  PROVE  Rest(s, d, T) = [i \in 1 .. Len(s) + 1 |-> RestStep(s, d, T, Rest(s, d, T), i)]
<1> DEFINE IsRest(r) == r = [i \in 1 .. Len(s) + 1 |-> RestStep(s, d, T, r, i)]
<1>1. RestFollows(Len(s), s, d, T)
  BY RestExists
<1>2. \E r : IsRest(r)
  BY <1>1 DEF RestFollows
<1>3. Rest(s, d, T) = CHOOSE r : IsRest(r)
  BY DEF Rest
<1>4. IsRest(Rest(s, d, T))
  <2> HIDE DEF IsRest
  <2>. QED
    BY <1>2, <1>3
<1>. QED
  BY <1>4

StaysIn(S, D, T) == \A u \in S, x \in D : x - T[u][x] \in D

LEMMA RestStays ==
  ASSUME NEW S, NEW s \in Seq(S), NEW D, NEW d, NEW T, StaysIn(S, D, T),
         NEW m \in 1 .. Len(s) + 1, Rest(s, d, T)[m] \in D
  PROVE  \A i \in m .. Len(s) + 1 : Rest(s, d, T)[i] \in D
<1> DEFINE R == Rest(s, d, T)
           Bad == {i \in m .. Len(s) + 1 : R[i] \notin D}
<1>1. \A i \in 1 .. Len(s) + 1 : R[i] = RestStep(s, d, T, R, i)
  <2>1. R = [i \in 1 .. Len(s) + 1 |-> RestStep(s, d, T, R, i)]
    BY RestIsDefined
  <2> HIDE DEF R
  <2>. QED
    BY <2>1
<1>m. R[m] \in D
  OBVIOUS
<1> HIDE DEF R
<1>n. Len(s) \in Nat /\ m \in Nat /\ \A i \in 1 .. Len(s) : s[i] \in S
  OBVIOUS
<1>2. Bad = {}
  <2> SUFFICES ASSUME Bad # {} PROVE FALSE
    OBVIOUS
  <2>1. PICK i \in Bad : \A j \in Bad : i <= j
    <3>1. Bad \subseteq Nat
      BY <1>n
    <3>. QED
      BY <3>1, LeastNatural
  <2>2. i \in m .. Len(s) + 1 /\ i \in Nat /\ R[i] = RestStep(s, d, T, R, i)
    BY <1>1, <1>n
  <2>3. i # m
    BY <1>m, <2>1
  <2>4. i - 1 \in 1 .. Len(s) /\ i - 1 \in m .. Len(s) + 1 /\ ~ (i <= i - 1) /\ i # 1
    BY <1>n, <2>2, <2>3
  <2>5. R[i - 1] \in D /\ s[i - 1] \in S
    BY <1>n, <2>1, <2>4
  <2>6. R[i] = R[i - 1] - T[s[i - 1]][R[i - 1]]
    BY <2>2, <2>4 DEF RestStep
  <2>. QED
    BY <2>5, <2>6 DEF StaysIn
<1>. QED
  BY <1>2 DEF R

(* The first has all there is, each other what the one before it left.     *)
LEMMA RestNext ==
  ASSUME NEW S, NEW s \in Seq(S), NEW d, NEW T
  PROVE  LET r == Rest(s, d, T) IN
           /\ r[1] = d
           /\ \A i \in 1 .. Len(s) : r[i + 1] = r[i] - T[s[i]][r[i]]
<1> DEFINE R == Rest(s, d, T)
<1>1. R = [i \in 1 .. Len(s) + 1 |-> RestStep(s, d, T, R, i)]
  BY RestIsDefined
<1> HIDE DEF R
<1>2. Len(s) \in Nat
  OBVIOUS
<1>3. R[1] = d
  <2>1. 1 \in 1 .. Len(s) + 1
    BY <1>2
  <2>2. R[1] = RestStep(s, d, T, R, 1)
    BY <1>1, <2>1
  <2>. QED
    BY <2>2 DEF RestStep
<1>4. ASSUME NEW i \in 1 .. Len(s) PROVE R[i + 1] = R[i] - T[s[i]][R[i]]
  <2>1. i + 1 \in 1 .. Len(s) + 1 /\ i + 1 # 1 /\ (i + 1) - 1 = i
    BY <1>2
  <2>2. R[i + 1] = RestStep(s, d, T, R, i + 1)
    BY <1>1, <2>1
  <2>. QED
    BY <2>1, <2>2 DEF RestStep
<1>. QED
  BY <1>3, <1>4 DEF R

(* A sequence that holds every member of a set once.                       *)
Enumerates(s, S) ==
  /\ s \in Seq(S) /\ Range(s) = S
  /\ \A i, j \in DOMAIN s : s[i] = s[j] => i = j

(* SetToSeqs, and Reverse of such a sequence, hold every member once.      *)
LEMMA SetToSeqsEnumerate ==
  ASSUME NEW S, IsFiniteSet(S), NEW s \in SetToSeqs(S)
  PROVE  Enumerates(s, S)
<1> DEFINE n == Cardinality(S)
<1>1. n \in Nat
  BY FS_CardinalityType
<1>2. s \in [1 .. n -> S] /\ \A i, j \in 1 .. n : i # j => s[i] # s[j]
  BY DEF SetToSeqs
<1>3. IsFiniteSet(1 .. n) /\ Cardinality(1 .. n) = n
  BY <1>1, FS_Interval
<1> HIDE DEF n
<1>4. s \in Injection(1 .. n, S)
  BY <1>2 DEF Injection, IsInjective
<1>5. s \in Surjection(1 .. n, S)
  BY <1>3, <1>4, FS_Injection DEF n
<1>6. s \in Seq(S) /\ DOMAIN s = 1 .. n
  BY <1>1, <1>2
<1>7. Range(s) = S
  BY <1>2, <1>5 DEF Surjection, Range
<1>. QED
  BY <1>2, <1>6, <1>7 DEF Enumerates

LEMMA ReverseEnumerates ==
  ASSUME NEW S, NEW s, Enumerates(s, S)
  PROVE  /\ Enumerates(Reverse(s), S) /\ Len(Reverse(s)) = Len(s)
         /\ \A i \in 1 .. Len(s) : Reverse(s)[i] = s[(Len(s) - i) + 1]
<1> DEFINE n == Len(s)
<1>1. n \in Nat /\ s \in [1 .. n -> S] /\ DOMAIN s = 1 .. n
  BY DEF Enumerates
<1>2. Reverse(s) = [i \in 1 .. n |-> s[(n - i) + 1]]
  BY DEF Reverse
<1> HIDE DEF n
<1>3. \A i \in 1 .. n : (n - i) + 1 \in 1 .. n /\ (n - ((n - i) + 1)) + 1 = i
  BY <1>1
<1>4. Reverse(s) \in [1 .. n -> S]
  BY <1>1, <1>2, <1>3
<1>5. Reverse(s) \in Seq(S) /\ Len(Reverse(s)) = n /\ DOMAIN Reverse(s) = 1 .. n
  BY <1>1, <1>4
<1>6. Range(Reverse(s)) = S
  <2>1. \A i \in 1 .. n : s[i] = Reverse(s)[(n - i) + 1] /\ (n - i) + 1 \in 1 .. n
    BY <1>2, <1>3
  <2>2. \A i \in 1 .. n : Reverse(s)[i] = s[(n - i) + 1]
    BY <1>2
  <2>3. Range(s) = S
    BY DEF Enumerates
  <2>. QED
    BY <1>1, <1>3, <1>5, <2>1, <2>2, <2>3 DEF Range
<1>7. ASSUME NEW i \in 1 .. n, NEW j \in 1 .. n, Reverse(s)[i] = Reverse(s)[j] PROVE i = j
  <2>1. s[(n - i) + 1] = s[(n - j) + 1]
    BY <1>2, <1>7
  <2>2. (n - i) + 1 = (n - j) + 1
    BY <1>1, <1>3, <2>1 DEF Enumerates
  <2>. QED
    BY <1>1, <2>2
<1>. QED
  BY <1>2, <1>5, <1>6, <1>7 DEF Enumerates, n

(* What each unit is given in its turn.                                    *)
LEMMA TakesInTurn ==
  ASSUME NEW S, NEW s, Enumerates(s, S), NEW d, NEW T
  PROVE  \A i \in 1 .. Len(s) : InTurn(s, d, T)[s[i]] = T[s[i]][Rest(s, d, T)[i]]
<1> DEFINE R == Rest(s, d, T)
           At(u) == CHOOSE i \in DOMAIN s : s[i] = u
<1>1. InTurn(s, d, T) = [u \in Range(s) |-> T[u][R[At(u)]]]
  BY DEF InTurn, Rest, RestStep
<1>2. DOMAIN s = 1 .. Len(s)
  BY DEF Enumerates
<1>3. ASSUME NEW i \in 1 .. Len(s) PROVE s[i] \in Range(s) /\ At(s[i]) = i
  <2>1. s[i] \in Range(s)
    BY <1>2 DEF Range
  <2>2. \A j \in DOMAIN s : s[j] = s[i] <=> j = i
    BY <1>2 DEF Enumerates
  <2>3. At(s[i]) \in DOMAIN s /\ s[At(s[i])] = s[i]
    BY <1>2
  <2>. QED
    BY <2>1, <2>2, <2>3
<1> HIDE DEF R, At
<1>. QED
  BY <1>1, <1>3 DEF R

(* What MapThenSumSet computes, as a function on the subsets of the set it *)
(* sums over.                                                              *)
AnyOf(s) == CHOOSE x \in s : TRUE
SumStep(f, g, s) == IF s = {} THEN 0 ELSE f[AnyOf(s)] + g[s \ {AnyOf(s)}]
SumFcn(S, f) == CHOOSE g : g = [s \in SUBSET S |-> SumStep(f, g, s)]

(* There is such a function on the subsets of at most n elements, for any  *)
(* n: by induction on n.                                                   *)
UpToSize(S, n) == {s \in SUBSET S : Cardinality(s) <= n}

SumExists(sets, f) == \E g : g = [s \in sets |-> SumStep(f, g, s)]

LEMMA SumFcnOfSmall ==
  ASSUME NEW S, IsFiniteSet(S), NEW f, NEW n \in Nat
  PROVE  SumExists(UpToSize(S, n), f)
<1> DEFINE Exists(m) == \E g : g = [s \in UpToSize(S, m) |-> SumStep(f, g, s)]
           Bad == {m \in Nat : ~ Exists(m)}
<1> SUFFICES ASSUME ~ Exists(n) PROVE FALSE
  BY DEF SumExists
<1>1. PICK m \in Bad : \A k \in Bad : m <= k
  <2>1. n \in Bad /\ Bad \subseteq Nat
    OBVIOUS
  <2>. QED
    BY <2>1, LeastNatural
<1>2. \A s \in SUBSET S : IsFiniteSet(s) /\ Cardinality(s) \in Nat
  BY FS_Subset, FS_CardinalityType
<1>3. m # 0
  <2>1. \A s \in UpToSize(S, 0) : s = {}
    BY <1>2, FS_EmptySet DEF UpToSize
  <2> DEFINE g == [s \in UpToSize(S, 0) |-> 0]
  <2>2. g = [s \in UpToSize(S, 0) |-> SumStep(f, g, s)]
    BY <2>1 DEF SumStep
  <2>. QED
    BY <2>2
<1>4. PICK h : h = [s \in UpToSize(S, m - 1) |-> SumStep(f, h, s)]
  <2>1. m - 1 \in Nat /\ ~ (m <= m - 1)
    BY <1>3
  <2>2. Exists(m - 1)
    BY <1>1, <2>1
  <2>. QED
    BY <2>2
<1> DEFINE g == [s \in UpToSize(S, m) |-> SumStep(f, h, s)]
<1>5. ASSUME NEW s \in UpToSize(S, m), s # {} PROVE s \ {AnyOf(s)} \in UpToSize(S, m - 1)
  <2>1. AnyOf(s) \in s /\ IsFiniteSet(s) /\ Cardinality(s) \in Nat /\ Cardinality(s) <= m
    BY <1>2, <1>5 DEF UpToSize, AnyOf
  <2>2. Cardinality(s \ {AnyOf(s)}) = Cardinality(s) - 1
    BY <2>1, FS_RemoveElement
  <2>. QED
    BY <2>1, <2>2 DEF UpToSize
<1>6. \A s \in UpToSize(S, m - 1) : s \in UpToSize(S, m) /\ h[s] = SumStep(f, h, s)
  BY <1>2, <1>4 DEF UpToSize
<1>7. \A s \in UpToSize(S, m) : SumStep(f, h, s) = SumStep(f, g, s)
  <2> SUFFICES ASSUME NEW s \in UpToSize(S, m), s # {} PROVE h[s \ {AnyOf(s)}] = g[s \ {AnyOf(s)}]
    BY DEF SumStep
  <2>. QED
    BY <1>5, <1>6
<1>8. g = [s \in UpToSize(S, m) |-> SumStep(f, g, s)]
  BY <1>7
<1>. QED
  BY <1>1, <1>8

(* So it is one on all subsets of a finite set.                            *)
LEMMA SumFcnIsSum ==
  ASSUME NEW S, IsFiniteSet(S), NEW f
  PROVE  \A s \in SUBSET S : SumFcn(S, f)[s] = SumStep(f, SumFcn(S, f), s)
<1>1. UpToSize(S, Cardinality(S)) = SUBSET S /\ Cardinality(S) \in Nat
  BY FS_Subset, FS_CardinalityType DEF UpToSize
<1>2. \E g : g = [s \in SUBSET S |-> SumStep(f, g, s)]
  <2>1. SumExists(UpToSize(S, Cardinality(S)), f)
    BY <1>1, SumFcnOfSmall
  <2>. QED
    BY <1>1, <2>1 DEF SumExists
<1> DEFINE IsSum(g) == g = [s \in SUBSET S |-> SumStep(f, g, s)]
<1>3. IsSum(CHOOSE g : IsSum(g))
  <2>1. \E g : IsSum(g)
    BY <1>2
  <2> HIDE DEF IsSum
  <2>. QED
    BY <2>1
<1>4. SumFcn(S, f) = CHOOSE g : IsSum(g)
  BY DEF SumFcn
<1>. QED
  BY <1>3, <1>4

(* Any member of a set can be taken out of its sum; a sum of natural       *)
(* numbers is one.                                                         *)
LEMMA SumTakeOut ==
  ASSUME NEW S, IsFiniteSet(S), NEW f \in [S -> Int]
  PROVE  /\ SumFcn(S, f)[{}] = 0
         /\ \A s \in SUBSET S :
              /\ SumFcn(S, f)[s] \in Int
              /\ \A x \in s : SumFcn(S, f)[s] = f[x] + SumFcn(S, f)[s \ {x}]
<1> DEFINE F == SumFcn(S, f)
           OK(s) == F[s] \in Int /\ \A x \in s : F[s] = f[x] + F[s \ {x}]
           Bad == {Cardinality(s) : s \in {t \in SUBSET S : ~ OK(t)}}
<1>1. \A s \in SUBSET S : F[s] = SumStep(f, F, s)
  BY SumFcnIsSum
<1>2. \A s \in SUBSET S : IsFiniteSet(s) /\ Cardinality(s) \in Nat
  BY FS_Subset, FS_CardinalityType
<1> HIDE DEF F
<1>e. F[{}] = 0
  BY <1>1 DEF SumStep
<1>3. Bad = {}
  <2> SUFFICES ASSUME Bad # {} PROVE FALSE
    OBVIOUS
  <2>1. PICK m \in Bad : \A k \in Bad : m <= k
    <3>1. Bad \subseteq Nat
      BY <1>2
    <3>. QED
      BY <3>1, LeastNatural
  <2>2. PICK s \in SUBSET S : ~ OK(s) /\ Cardinality(s) = m
    BY <2>1
  <2>3. \A t \in SUBSET S : Cardinality(t) < m => OK(t)
    <3> SUFFICES ASSUME NEW t \in SUBSET S, Cardinality(t) < m, ~ OK(t) PROVE FALSE
      OBVIOUS
    <3>1. Cardinality(t) \in Bad
      OBVIOUS
    <3> HIDE DEF OK
    <3>2. m <= Cardinality(t) /\ m \in Nat /\ Cardinality(t) \in Nat
      BY <1>2, <2>1, <2>2, <3>1
    <3>. QED
      BY <3>2
  <2>4. s # {}
    BY <1>e, <2>2
  <2> DEFINE y == AnyOf(s)
  <2>5. y \in s /\ F[s] = f[y] + F[s \ {y}] /\ f[y] \in Int
    BY <1>1, <2>4 DEF SumStep, AnyOf
  <2> HIDE DEF y
  <2>6. \A x \in s : s \ {x} \in SUBSET S /\ OK(s \ {x})
    <3> SUFFICES ASSUME NEW x \in s PROVE s \ {x} \in SUBSET S /\ OK(s \ {x})
      OBVIOUS
    <3>1. Cardinality(s \ {x}) = m - 1 /\ m \in Nat
      BY <1>2, <2>2, FS_RemoveElement
    <3>2. s \ {x} \in SUBSET S /\ Cardinality(s \ {x}) < m
      BY <3>1
    <3> HIDE DEF OK
    <3>. QED
      BY <2>3, <3>2
  <2>7. ASSUME NEW x \in s PROVE F[s] = f[x] + F[s \ {x}]
    <3>1. CASE x = y
      BY <2>5, <3>1
    <3>2. CASE x # y
      <4>1. (s \ {y}) \ {x} = (s \ {x}) \ {y} /\ x \in s \ {y} /\ y \in s \ {x}
        BY <2>5, <3>2
      <4>2. F[s \ {y}] = f[x] + F[(s \ {x}) \ {y}] /\ F[s \ {x}] = f[y] + F[(s \ {x}) \ {y}]
        BY <2>5, <2>6, <4>1
      <4>3. F[s \ {x}] \in Int /\ F[s \ {y}] \in Int /\ f[x] \in Int
        BY <2>5, <2>6
      <4>4. F[(s \ {x}) \ {y}] \in Int
        <5>1. (s \ {x}) \ {y} \in SUBSET S /\ Cardinality((s \ {x}) \ {y}) < m
          <6>1. IsFiniteSet(s) /\ Cardinality(s \ {x}) = m - 1 /\ m \in Nat /\ IsFiniteSet(s \ {x})
            <7>1. IsFiniteSet(s) /\ Cardinality(s) = m /\ m \in Nat
              BY <1>2, <2>2
            <7>2. IsFiniteSet(s \ {x}) /\ Cardinality(s \ {x}) = Cardinality(s) - 1
              BY <7>1, FS_RemoveElement
            <7>. QED
              BY <7>1, <7>2
          <6>2. Cardinality((s \ {x}) \ {y}) = (m - 1) - 1
            <7>1. Cardinality((s \ {x}) \ {y}) = Cardinality(s \ {x}) - 1
              BY <4>1, <6>1, FS_RemoveElement
            <7>. QED
              BY <6>1, <7>1
          <6>. QED
            BY <6>1, <6>2
        <5>. QED
          BY <2>3, <5>1
      <4>. QED
        BY <2>5, <4>2, <4>3, <4>4
    <3>. QED
      BY <3>1, <3>2
  <2>8. F[s] \in Int
    <3>1. F[s \ {y}] \in Int
      BY <2>5, <2>6
    <3> HIDE DEF OK
    <3>. QED
      BY <2>5, <3>1
  <2>9. OK(s)
    <3>1. \A x \in s : F[s] = f[x] + F[s \ {x}]
      BY <2>7
    <3>. QED
      BY <2>8, <3>1
  <2> HIDE DEF OK
  <2>. QED
    BY <2>2, <2>9
<1>4. \A s \in SUBSET S : OK(s)
  BY <1>3
<1>. QED
  BY <1>e, <1>4 DEF F

(* The sum over a set depends only on what its members are mapped to.      *)
LEMMA SumAgrees ==
  ASSUME NEW S, IsFiniteSet(S), NEW f, NEW T, T \subseteq S, NEW g, \A x \in T : g[x] = f[x]
  PROVE  Sum(g, T) = SumFcn(S, f)[T]
<1> DEFINE F == SumFcn(S, f)
           G == SumFcn(T, g)
           Bad == {Cardinality(s) : s \in {t \in SUBSET T : G[t] # F[t]}}
<1>0. IsFiniteSet(T)
  BY FS_Subset
<1>1. \A s \in SUBSET T : F[s] = SumStep(f, F, s) /\ G[s] = SumStep(g, G, s)
  BY <1>0, SumFcnIsSum
<1>2. \A s \in SUBSET T : IsFiniteSet(s) /\ Cardinality(s) \in Nat
  BY <1>0, FS_Subset, FS_CardinalityType
<1>3. Sum(g, T) = G[T]
  BY DEF Sum, MapThenSumSet, MapThenFoldSet, SumFcn, SumStep, AnyOf
<1> HIDE DEF F, G
<1>4. Bad = {}
  <2> SUFFICES ASSUME Bad # {} PROVE FALSE
    OBVIOUS
  <2>1. PICK m \in Bad : \A k \in Bad : m <= k
    <3>1. Bad \subseteq Nat
      BY <1>2
    <3>. QED
      BY <3>1, LeastNatural
  <2>2. PICK s \in SUBSET T : G[s] # F[s] /\ Cardinality(s) = m
    BY <2>1
  <2>3. s # {}
    BY <1>1, <2>2 DEF SumStep
  <2> DEFINE x == AnyOf(s)
             t == s \ {x}
  <2>4. x \in s /\ t \in SUBSET T
    BY <2>3 DEF AnyOf
  <2>5. F[s] = f[x] + F[t] /\ G[s] = g[x] + G[t]
    BY <1>1, <2>3 DEF SumStep
  <2>6. Cardinality(t) = m - 1 /\ m \in Nat
    BY <1>2, <2>2, <2>4, FS_RemoveElement
  <2> HIDE DEF x
  <2>7. G[t] = F[t]
    <3>1. m - 1 \notin Bad
      BY <2>1, <2>6
    <3>. QED
      BY <2>4, <2>6, <3>1
  <2>. QED
    BY <2>2, <2>4, <2>5, <2>7
<1>. QED
  BY <1>3, <1>4 DEF F

(* A sum of natural numbers is one, and no less than any of them.          *)
LEMMA SumOfNaturals ==
  ASSUME NEW S, IsFiniteSet(S), NEW f \in [S -> Int], NEW T, T \subseteq S,
         \A x \in T : f[x] \in Nat
  PROVE  SumFcn(S, f)[T] \in Nat /\ \A x \in T : f[x] <= SumFcn(S, f)[T]
<1> DEFINE F == SumFcn(S, f)
           Bad == {Cardinality(s) : s \in {t \in SUBSET T : F[t] \notin Nat}}
<1>1. /\ F[{}] = 0
      /\ \A s \in SUBSET S : F[s] \in Int /\ \A x \in s : F[s] = f[x] + F[s \ {x}]
  <2> HIDE DEF Bad
  <2>1. SumFcn(S, f)[{}] = 0
    BY SumTakeOut
  <2>2. ASSUME NEW s \in SUBSET S PROVE SumFcn(S, f)[s] \in Int
    BY SumTakeOut
  <2>3. ASSUME NEW s \in SUBSET S, NEW x \in s PROVE SumFcn(S, f)[s] = f[x] + SumFcn(S, f)[s \ {x}]
    BY SumTakeOut
  <2>. QED
    BY <2>1, <2>2, <2>3
<1>2. \A s \in SUBSET T : IsFiniteSet(s) /\ Cardinality(s) \in Nat
  BY FS_Subset, FS_CardinalityType
<1> HIDE DEF F
<1>3. Bad = {}
  <2> SUFFICES ASSUME Bad # {} PROVE FALSE
    OBVIOUS
  <2>1. PICK m \in Bad : \A k \in Bad : m <= k
    <3>1. Bad \subseteq Nat
      BY <1>2
    <3>. QED
      BY <3>1, LeastNatural
  <2>2. PICK s \in SUBSET T : F[s] \notin Nat /\ Cardinality(s) = m
    BY <2>1
  <2>3. PICK x \in s : TRUE
    <3>1. F[s] # 0
      BY <2>2
    <3>. QED
      BY <1>1, <3>1
  <2>4. F[s] = f[x] + F[s \ {x}] /\ f[x] \in Nat
    BY <1>1
  <2>5. Cardinality(s \ {x}) = m - 1 /\ m \in Nat
    BY <1>2, <2>2, FS_RemoveElement
  <2>6. F[s \ {x}] \in Nat
    <3>1. m - 1 \notin Bad
      BY <2>1, <2>5
    <3>. QED
      BY <2>5, <3>1
  <2>. QED
    BY <2>2, <2>4, <2>6
<1>4. \A s \in SUBSET T : F[s] \in Nat
  BY <1>3
<1>5. ASSUME NEW x \in T PROVE f[x] <= F[T]
  <2>1. F[T] = f[x] + F[T \ {x}]
    BY <1>1
  <2>2. F[T \ {x}] \in Nat /\ f[x] \in Nat
    BY <1>4
  <2>. QED
    BY <2>1, <2>2
<1>. QED
  BY <1>4, <1>5 DEF F

(* What the units of a sequence are given together is what there was less  *)
(* what is left.                                                           *)
Takes(s, f, r) ==
  /\ \A i \in 1 .. Len(s) + 1 : r[i] \in Int
  /\ \A i \in 1 .. Len(s) : f[s[i]] = r[i] - r[i + 1]

LEMMA SumOfTurns ==
  ASSUME NEW S, IsFiniteSet(S), NEW f \in [S -> Int],
         NEW A, NEW B, A \subseteq S, B \subseteq S, A \cap B = {}, NEW s, Enumerates(s, B),
         NEW r, Takes(s, f, r)
  PROVE  SumFcn(S, f)[A \cup B] = SumFcn(S, f)[A] + r[1] - r[Len(s) + 1]
<1> DEFINE F == SumFcn(S, f)
           n == Len(s)
           Upto(i) == A \cup {s[j] : j \in 1 .. i}
           OK(i) == F[Upto(i)] = F[A] + r[1] - r[i + 1]
           Bad == {i \in 0 .. n : ~ OK(i)}
<1>1. \A t \in SUBSET S : F[t] \in Int /\ \A x \in t : F[t] = f[x] + F[t \ {x}]
  BY SumTakeOut
<1>2. n \in Nat /\ DOMAIN s = 1 .. n /\ \A i \in 1 .. n : s[i] \in B
  BY DEF Enumerates
<1>3. \A i, j \in 1 .. n : s[i] = s[j] => i = j
  <2> HIDE DEF n, Takes
  <2>. QED
    BY <1>2 DEF Enumerates
<1>4. B = {s[j] : j \in 1 .. n}
  <2> HIDE DEF n, Takes
  <2>. QED
    BY <1>2 DEF Enumerates, Range
<1> HIDE DEF F, n
<1>5. ASSUME NEW i \in 0 .. n PROVE OK(i)
  <2> SUFFICES ASSUME Bad # {} PROVE FALSE
    OBVIOUS
  <2>1. PICK m \in Bad : \A k \in Bad : m <= k
    <3> HIDE DEF OK
    <3>1. Bad \subseteq Nat
      BY <1>2
    <3>. QED
      BY <3>1, LeastNatural
  <2>a. m \in 0 .. n /\ m \in Nat /\ ~ OK(m)
    BY <1>2, <2>1
  <2>2. m # 0
    <3>1. Upto(0) = A
      OBVIOUS
    <3>2. OK(0)
      <4>1. r[1] \in Int /\ F[A] \in Int
        BY <1>1, <1>2 DEF n, Takes
      <4>. QED
        <5> HIDE DEF Upto
        <5>. QED
          BY <3>1, <4>1
    <3> HIDE DEF OK
    <3>. QED
      BY <2>a, <3>2
  <2>3. /\ m \in 1 .. n /\ m - 1 \in 0 .. n
        /\ m \in 1 .. n + 1 /\ m + 1 \in 1 .. n + 1 /\ 1 \in 1 .. n + 1
    BY <1>2, <2>a, <2>2
  <2>4. OK(m - 1)
    <3> HIDE DEF OK
    <3>1. m - 1 \notin Bad
      BY <2>1, <2>3
    <3>. QED
      BY <2>3, <3>1
  <2>5. Upto(m) \in SUBSET S /\ Upto(m - 1) \in SUBSET S
    BY <1>2, <2>3
  <2>6. s[m] \in Upto(m) /\ Upto(m - 1) = Upto(m) \ {s[m]}
    <3>1. s[m] \in Upto(m) /\ s[m] \notin A
      BY <1>2, <2>3
    <3>2. \A j \in 1 .. m : j \in 1 .. n /\ (j \in 1 .. m - 1 <=> j # m)
      BY <1>2, <2>3
    <3>3. \A j \in 1 .. m - 1 : j \in 1 .. m
      BY <2>3
    <3>4. \A j \in 1 .. m : s[j] = s[m] <=> j = m
      BY <1>3, <2>3, <3>2
    <3>. QED
      BY <3>1, <3>2, <3>3, <3>4
  <2>7. F[Upto(m)] = f[s[m]] + F[Upto(m - 1)]
    <3> HIDE DEF Upto
    <3>. QED
      BY <1>1, <2>5, <2>6
  <2>8. f[s[m]] = r[m] - r[m + 1]
    BY <2>3 DEF n, Takes
  <2>9. r[m] \in Int /\ r[m + 1] \in Int /\ r[1] \in Int
    BY <2>3 DEF n, Takes
  <2>10. F[Upto(m - 1)] = F[A] + r[1] - r[m] /\ F[A] \in Int
    <3>1. (m - 1) + 1 = m /\ F[A] \in Int
      BY <1>1, <2>3
    <3>2. F[Upto(m - 1)] = F[A] + r[1] - r[(m - 1) + 1]
      BY <2>4
    <3> HIDE DEF Upto
    <3>. QED
      BY <3>1, <3>2
  <2>11. OK(m)
    <3> HIDE DEF Upto
    <3>. QED
      BY <2>7, <2>8, <2>9, <2>10
  <2> HIDE DEF OK
  <2>. QED
    BY <2>a, <2>11
<1>6. OK(n)
  BY <1>2, <1>5
<1>7. F[A \cup B] = F[A] + r[1] - r[n + 1]
  BY <1>4, <1>6
<1>. QED
  BY <1>7 DEF F, n

-----------------------------------------------------------------------------
(* What a unit can take, is forced to take, and takes.                     *)
InLimits(u, en) == eMin[u] <= en[u] /\ en[u] <= eMax[u]

(* The limits of the units, from the assumption on the constants.          *)
LEMMA UnitTypes ==
  /\ Urgent \subseteq Unit /\ Bucket \subseteq Unit /\ Urgent \cap Bucket = {}
  /\ \A u \in Unit :
       /\ eMin[u] \in Int /\ eMax[u] \in Int /\ pMin[u] \in Int
       /\ pMax[u] \in Nat /\ pMax[u] > 0 /\ pMin[u] <= 0 /\ eMin[u] <= 0 /\ 0 <= eMax[u]
  /\ \A u \in Urgent : eMin[u] = 0 /\ pMin[u] = 0
BY UnitAssumption DEF Unit, Urgent

(* What a unit can take, and a bucket give, is never below 0.              *)
LEMMA LimitBounds ==
  ASSUME NEW en \in [Unit -> Int], NEW u \in Unit, InLimits(u, en)
  PROVE  /\ Limit(u, en) \in Nat /\ Reserve(u, en) = Limit(u, en)
         /\ Limit(u, en) <= pMax[u] /\ Limit(u, en) <= eMax[u] - en[u]
         /\ Limit(u, en) \in {pMax[u], eMax[u] - en[u]}
         /\ Available(u, en) \in Nat /\ Available(u, en) <= en[u] - eMin[u]
<1>1. pMax[u] \in Int /\ pMax[u] >= 0 /\ eMax[u] - en[u] \in Int /\ eMax[u] - en[u] >= 0
  BY UnitTypes DEF InLimits
<1>2. -pMin[u] \in Int /\ -pMin[u] >= 0 /\ en[u] - eMin[u] \in Int /\ en[u] - eMin[u] >= 0
  BY UnitTypes DEF InLimits
<1>3. /\ Limit(u, en) \in {pMax[u], eMax[u] - en[u]}
      /\ Limit(u, en) <= pMax[u] /\ Limit(u, en) <= eMax[u] - en[u]
  <2> DEFINE a == pMax[u]
             b == eMax[u] - en[u]
  <2>1. a \in Int /\ b \in Int
    BY <1>1
  <2>2. Limit(u, en) = Min({a, b})
    BY DEF Limit
  <2> HIDE DEF a, b
  <2>3. Min({a, b}) \in {a, b} /\ Min({a, b}) <= a /\ Min({a, b}) <= b
    BY <2>1, MinOfTwo
  <2>. QED
    BY <2>2, <2>3 DEF a, b
<1>4. /\ Available(u, en) \in {-pMin[u], en[u] - eMin[u]}
      /\ Available(u, en) <= en[u] - eMin[u]
  <2> DEFINE a == -pMin[u]
             b == en[u] - eMin[u]
  <2>1. a \in Int /\ b \in Int
    BY <1>2
  <2>2. Available(u, en) = Min({a, b})
    BY DEF Available
  <2> HIDE DEF a, b
  <2>3. Min({a, b}) \in {a, b} /\ Min({a, b}) <= b
    BY <2>1, MinOfTwo
  <2>. QED
    BY <2>2, <2>3 DEF a, b
<1>5. Limit(u, en) \in Nat /\ Available(u, en) \in Nat
  BY <1>1, <1>2, <1>3, <1>4
<1>. QED
  BY <1>3, <1>4, <1>5 DEF Limit, Reserve

(* A battery is forced to take no more than its limit, a bakery its limit  *)
(* or nothing.                                                             *)
LEMMA ForcedBounds ==
  ASSUME NEW en \in [Unit -> Int], NEW u \in Urgent, InLimits(u, en), NEW n \in Int, NEW started
  PROVE  /\ Forced(u, n, en, started) \in Nat
         /\ Forced(u, n, en, started) <= Limit(u, en)
         /\ u \in Bakery => Forced(u, n, en, started) \in {0, Limit(u, en)}
<1>1. u \in Unit /\ Limit(u, en) \in Nat
  BY UnitTypes, LimitBounds
<1>2. CASE u \in Bakery
  <2>1. u \notin Battery /\ u \notin Bucket
    BY <1>2, UnitTypes, UnitAssumption
  <2>2. Forced(u, n, en, started) = BakeryForced(u, Agility(u, n, en), en, started)
    BY <1>2, <2>1 DEF Forced
  <2>3. Forced(u, n, en, started) \in {0, Limit(u, en)}
    BY <2>2 DEF BakeryForced
  <2>. QED
    BY <1>1, <2>3
<1>3. CASE u \in Battery
  <2> DEFINE room == eMax[u] - en[u]
             a == BatteryAgility(u, n, en)
  <2>0. u \notin Bakery /\ u \notin Bucket
    BY <1>3, UnitTypes, UnitAssumption
  <2>1. room \in Nat /\ pMax[u] \in Nat /\ pMax[u] > 0 /\ pMin[u] = 0 /\ tEnd[u] \in Nat
    BY <1>1, UnitTypes, UnitAssumption DEF InLimits
  <2>2. a.num = (tEnd[u] - n) * pMax[u] - room /\ a.den = pMax[u]
    BY DEF BatteryAgility
  <2>3. Limit(u, en) <= pMax[u] /\ Limit(u, en) <= room /\ Limit(u, en) \in {pMax[u], room}
    BY <1>1, LimitBounds
  <2>4. Forced(u, n, en, started) = BatteryForced(u, a, en)
    <3>1. Agility(u, n, en) = a
      BY <1>3, <2>0 DEF Agility
    <3>2. Forced(u, n, en, started) = BatteryForced(u, Agility(u, n, en), en)
      BY <1>3, <2>0 DEF Forced
    <3>. QED
      BY <3>1, <3>2
  <2>5. CASE AboveOne(a)
    BY <1>1, <2>0, <2>4, <2>5 DEF BatteryForced
  <2>6. CASE ~ AboveOne(a) /\ a.num > 0
    <3> DEFINE q == tEnd[u] - n
               w == q * pMax[u]
    <3>1. q \in Int /\ w \in Int /\ a.num = w - room
      BY <2>1, <2>2
    <3>2. w > 0
      BY <2>1, <2>6, <3>1
    <3>3. q >= 1
      <4>1. q <= 0 => q * pMax[u] <= 0
        BY <2>1, <3>1
      <4>. QED
        BY <3>1, <3>2, <4>1
    <3>4. w >= pMax[u]
      <4>1. (q - 1) * pMax[u] >= 0
        BY <2>1, <3>1, <3>3
      <4>2. (q - 1) * pMax[u] = w - pMax[u]
        BY <2>1, <3>1
      <4> HIDE DEF w
      <4>. QED
        BY <2>1, <3>1, <4>1, <4>2
    <3> HIDE DEF w, a, room
    <3>5. a.num \in Int /\ a.num <= pMax[u]
      BY <2>1, <2>2, <2>6, <3>1 DEF AboveOne
    <3>6. pMax[u] - a.num \in Nat /\ pMax[u] - a.num <= room /\ pMax[u] - a.num <= pMax[u]
      BY <2>1, <2>6, <3>1, <3>4, <3>5
    <3>7. BatteryForced(u, a, en) = pMax[u] - a.num
      BY <2>6 DEF BatteryForced
    <3>. QED
      BY <2>0, <2>1, <2>3, <2>4, <3>6, <3>7
  <2>7. CASE ~ AboveOne(a) /\ ~ (a.num > 0)
    <3>1. Max({pMin[u], eMax[u] - en[u]}) = room
      <4>1. pMin[u] \in Int /\ room \in Int /\ room >= pMin[u]
        BY <2>1
      <4> HIDE DEF room
      <4>2. Max({pMin[u], room}) \in {pMin[u], room} /\ Max({pMin[u], room}) >= room
        BY <4>1, MaxOfTwo
      <4>. QED
        BY <4>1, <4>2 DEF room
    <3>2. BatteryForced(u, a, en) = Limit(u, en)
      <4> HIDE DEF a
      <4>. QED
        BY <2>7, <3>1 DEF BatteryForced, Limit
    <3>. QED
      BY <1>1, <2>0, <2>4, <3>2
  <2>. QED
    BY <2>5, <2>6, <2>7
<1>. QED
  BY <1>2, <1>3 DEF Urgent

(* A battery or bakery takes no more than there is, and than its limit; a  *)
(* battery that takes less than its limit takes all there is.              *)
LEMMA ShareBounds ==
  ASSUME NEW en \in [Unit -> Int], NEW u \in Urgent, InLimits(u, en), NEW rest \in Nat,
         NEW force, force[u] \in Nat, force[u] <= Limit(u, en),
         u \in Bakery => force[u] \in {0, Limit(u, en)}
  PROVE  LET x == Share(u, rest, en, force) IN
           /\ x \in Nat /\ x <= rest /\ x <= Limit(u, en)
           /\ u \in Battery /\ x < Limit(u, en) => x = rest
           /\ force[u] <= rest => force[u] <= x
<1> DEFINE x == Share(u, rest, en, force)
           m == Limit(u, en)
<1>1. m \in Nat /\ m \in Int /\ rest \in Int /\ force[u] \in Int /\ force[u] <= m
  BY UnitTypes, LimitBounds
<1> HIDE DEF m
<1>2. CASE u \in Battery
  <2>1. x = Min({m, rest})
    BY <1>2 DEF Share, m
  <2>2. x \in {m, rest} /\ x <= m /\ x <= rest
    BY <1>1, <2>1, MinOfTwo
  <2> HIDE DEF x
  <2>3. x \in Nat
    BY <1>1, <2>2
  <2>. QED
    BY <1>1, <2>2, <2>3 DEF m, x
<1>3. CASE u \notin Battery
  <2>1. u \in Bakery
    BY <1>3 DEF Urgent
  <2>2. x = IF rest >= m THEN Max({force[u], m}) ELSE 0
    BY <1>3 DEF Share, m
  <2>3. Max({force[u], m}) = m
    <3>1. Max({force[u], m}) \in {force[u], m} /\ Max({force[u], m}) >= m
      BY <1>1, MaxOfTwo
    <3>. QED
      BY <1>1, <3>1
  <2> HIDE DEF x
  <2>4. CASE rest >= m
    BY <1>1, <1>3, <2>2, <2>3, <2>4 DEF m, x
  <2>5. CASE ~ (rest >= m)
    <3>1. x = 0
      BY <2>2, <2>5
    <3>2. force[u] <= rest => force[u] = 0
      BY <1>1, <2>1, <2>5 DEF m
    <3>. QED
      BY <1>1, <1>3, <3>1, <3>2 DEF m, x
  <2>. QED
    BY <2>4, <2>5
<1>. QED
  BY <1>2, <1>3

(* A bucket takes, or gives, all there is or all it can.                   *)
LEMMA BucketShareBounds ==
  ASSUME NEW en \in [Unit -> Int], NEW u \in Bucket, InLimits(u, en), NEW rest \in Int
  PROVE  LET x == BucketShare(u, rest, en) IN
           /\ x \in Int /\ -Available(u, en) <= x /\ x <= Limit(u, en)
           /\ rest >= 0 => x >= 0 /\ x <= rest /\ (x = rest \/ x = Limit(u, en))
           /\ rest < 0 => x <= 0 /\ rest <= x /\ (x = rest \/ x = -Available(u, en))
<1> DEFINE x == BucketShare(u, rest, en)
           m == Limit(u, en)
           b == -Available(u, en)
<1>1. m \in Nat /\ m \in Int /\ b \in Int /\ b <= 0 /\ Reserve(u, en) = m
  BY UnitTypes, LimitBounds
<1>2. x = IF rest < 0 THEN Max({b, rest}) ELSE Min({m, rest})
  BY <1>1 DEF BucketShare
<1> HIDE DEF x, m, b
<1>3. CASE rest < 0
  <2>1. x \in {b, rest} /\ x >= b /\ x >= rest
    BY <1>1, <1>2, <1>3, MaxOfTwo
  <2>. QED
    BY <1>1, <1>3, <2>1 DEF x, m, b
<1>4. CASE ~ (rest < 0)
  <2>1. x \in {m, rest} /\ x <= m /\ x <= rest
    BY <1>1, <1>2, <1>4, MinOfTwo
  <2>. QED
    BY <1>1, <1>4, <2>1 DEF x, m, b
<1>. QED
  BY <1>3, <1>4

-----------------------------------------------------------------------------
(* A step, with what its LETs name: the order s of the batteries and       *)
(* bakeries, what they are given, and the order t of the buckets.          *)
Urgents == units \cap Urgent
Buckets == units \cap Bucket
ForcesNow == Forces(currentTime + 1, EnergyAfterStep)
UrgentTakeNow == UrgentTake(EnergyAfterStep, ForcesNow)
BucketTakeNow == BucketTake(EnergyAfterStep)
LeftOf(d, given) == d - Sum(given, Urgents)

Served(d, s, given) ==
  IF Sum(ForcesNow, Urgents) <= d
    THEN /\ s \in Sorted(Urgents, currentTime + 1, EnergyAfterStep)
         /\ given = InTurn(s, d, UrgentTakeNow)
    ELSE s = << >> /\ given = ForcesNow

Balanced(d, s, t, given) ==
  /\ Served(d, s, given)
  /\ t \in BucketOrders(Buckets, LeftOf(d, given), currentTime + 1, EnergyAfterStep)
  /\ p' = [u \in Unit |-> IF u \in Urgents THEN given[u]
                          ELSE IF u \in Buckets THEN InTurn(t, LeftOf(d, given), BucketTakeNow)[u]
                          ELSE 0]
  /\ order' = s /\ forced' = ForcesNow /\ dispatched' = d
  /\ currentTime' = currentTime + 1 /\ e' = EnergyAfterStep /\ units' = units

(* A time step is one.                                                     *)
LEMMA BalancedStep ==
  ASSUME NEW d, AgileBalancing(d)
  PROVE  \E s, t, given : Balanced(d, s, t, given)
<1> DEFINE enough == Sum(ForcesNow, Urgents) <= d
           Given(s) == IF enough THEN InTurn(s, d, UrgentTakeNow) ELSE ForcesNow
<1>1. /\ currentTime' = currentTime + 1 /\ e' = EnergyAfterStep /\ units' = units
      /\ dispatched' = d /\ forced' = ForcesNow
  BY DEF AgileBalancing, ForcesNow
<1>2. \E s \in IF enough THEN Sorted(Urgents, currentTime + 1, EnergyAfterStep) ELSE {<< >>} :
      \E t \in BucketOrders(Buckets, LeftOf(d, Given(s)), currentTime + 1, EnergyAfterStep) :
        /\ p' = [u \in Unit |-> IF u \in Urgents THEN Given(s)[u]
                                ELSE IF u \in Buckets
                                       THEN InTurn(t, LeftOf(d, Given(s)), BucketTakeNow)[u]
                                ELSE 0]
        /\ order' = s
  BY DEF AgileBalancing, ForcesNow, Urgents, Buckets, UrgentTakeNow, BucketTakeNow, LeftOf
<1>3. PICK s \in IF enough THEN Sorted(Urgents, currentTime + 1, EnergyAfterStep) ELSE {<< >>} :
      \E t \in BucketOrders(Buckets, LeftOf(d, Given(s)), currentTime + 1, EnergyAfterStep) :
        /\ p' = [u \in Unit |-> IF u \in Urgents THEN Given(s)[u]
                                ELSE IF u \in Buckets
                                       THEN InTurn(t, LeftOf(d, Given(s)), BucketTakeNow)[u]
                                ELSE 0]
        /\ order' = s
  BY <1>2
<1>4. PICK t \in BucketOrders(Buckets, LeftOf(d, Given(s)), currentTime + 1, EnergyAfterStep) :
        /\ p' = [u \in Unit |-> IF u \in Urgents THEN Given(s)[u]
                                ELSE IF u \in Buckets
                                       THEN InTurn(t, LeftOf(d, Given(s)), BucketTakeNow)[u]
                                ELSE 0]
        /\ order' = s
  BY <1>3
<1>5. Served(d, s, Given(s))
  BY <1>3 DEF Served
<1> HIDE DEF Given
<1>6. Balanced(d, s, t, Given(s))
  BY <1>1, <1>4, <1>5 DEF Balanced
<1>. QED
  BY <1>6

(* The energies a step divides by are within the limits of the units.      *)
LEMMA StepEnergies ==
  ASSUME DispatchInv
  PROVE  /\ EnergyAfterStep \in [Unit -> Int]
         /\ \A u \in units : u \in Unit /\ InLimits(u, EnergyAfterStep)
         /\ IsFiniteSet(units) /\ IsFiniteSet(Urgents) /\ IsFiniteSet(Buckets)
         /\ Urgents \cup Buckets = units /\ Urgents \cap Buckets = {}
         /\ Urgents \subseteq units /\ Buckets \subseteq units
<1>1. units \subseteq Unit /\ IsFiniteSet(units)
  BY DEF DispatchInv, UnitsOK
<1>2. \A u \in Unit : e[u] \in Int /\ p[u] \in Int
  BY DEF DispatchInv, DispatchTypeOK
<1>3. EnergyAfterStep \in [Unit -> Int]
  BY <1>2 DEF EnergyAfterStep
<1>4. \A u \in units : u \in Unit /\ InLimits(u, EnergyAfterStep)
  BY <1>1 DEF DispatchInv, EnergyInLimits, EnergyAfterStep, InLimits
<1>5. Urgents \subseteq units /\ Buckets \subseteq units
  BY DEF Urgents, Buckets
<1>6. Urgents \cup Buckets = units /\ Urgents \cap Buckets = {}
  BY <1>1, UnitTypes DEF Urgents, Buckets, Unit, Urgent
<1>. QED
  BY <1>1, <1>3, <1>4, <1>5, <1>6, FS_Subset

(* What a unit is forced to take.                                          *)
LEMMA StepForces ==
  ASSUME DispatchInv
  PROVE  \A u \in Urgents :
           /\ ForcesNow[u] \in Nat /\ ForcesNow[u] <= Limit(u, EnergyAfterStep)
           /\ u \in Bakery => ForcesNow[u] \in {0, Limit(u, EnergyAfterStep)}
<1> SUFFICES ASSUME NEW u \in Urgents
             PROVE  /\ ForcesNow[u] \in Nat /\ ForcesNow[u] <= Limit(u, EnergyAfterStep)
                    /\ u \in Bakery => ForcesNow[u] \in {0, Limit(u, EnergyAfterStep)}
  OBVIOUS
<1>1. u \in units /\ u \in Urgent /\ u \in Unit
  BY StepEnergies DEF Urgents
<1>2. EnergyAfterStep \in [Unit -> Int] /\ InLimits(u, EnergyAfterStep)
  BY <1>1, StepEnergies
<1>3. currentTime + 1 \in Int
  BY DEF DispatchInv, DispatchTypeOK
<1>4. ForcesNow[u] = Forced(u, currentTime + 1, EnergyAfterStep, v)
  BY <1>1 DEF ForcesNow, Forces
<1>. QED
  BY <1>1, <1>2, <1>3, <1>4, ForcedBounds

(* No unit is forced to take more than all of them together.               *)
LEMMA ForcesSum ==
  ASSUME DispatchInv
  PROVE  /\ Sum(ForcesNow, Urgents) \in Nat
         /\ \A u \in Urgents : ForcesNow[u] <= Sum(ForcesNow, Urgents)
<1> DEFINE f == [u \in Urgents |-> ForcesNow[u]]
<1>1. f \in [Urgents -> Int] /\ \A u \in Urgents : f[u] \in Nat /\ f[u] = ForcesNow[u]
  BY StepForces
<1>2. IsFiniteSet(Urgents)
  BY StepEnergies
<1> HIDE DEF f
<1>3. Sum(ForcesNow, Urgents) = SumFcn(Urgents, f)[Urgents]
  BY <1>1, <1>2, SumAgrees
<1>4. SumFcn(Urgents, f)[Urgents] \in Nat /\ \A u \in Urgents : f[u] <= SumFcn(Urgents, f)[Urgents]
  BY <1>1, <1>2, SumOfNaturals
<1>. QED
  BY <1>1, <1>3, <1>4

(* The turns of the batteries and bakeries, r being what is left at each.  *)
UrgentTurn(s, d, r, given) ==
  /\ Enumerates(s, Urgents) /\ r[1] = d
  /\ \A i \in 1 .. Len(s) + 1 : r[i] \in Nat
  /\ \A i \in 1 .. Len(s) :
       /\ given[s[i]] = Share(s[i], r[i], EnergyAfterStep, ForcesNow)
       /\ r[i + 1] = r[i] - given[s[i]]
  /\ \A i \in 1 .. Len(s) + 1 : r[i] = 0 => \A j \in i .. Len(s) + 1 : r[j] = 0

(* ShareBounds, for the energies and forces of the step.                   *)
LEMMA StepShares ==
  ASSUME DispatchInv, NEW u \in Urgents, NEW rest \in Nat
  PROVE  /\ UrgentTakeNow[u][rest] = Share(u, rest, EnergyAfterStep, ForcesNow)
         /\ UrgentTakeNow[u][rest] \in Nat /\ UrgentTakeNow[u][rest] <= rest
         /\ UrgentTakeNow[u][rest] <= Limit(u, EnergyAfterStep)
         /\ u \in Battery /\ UrgentTakeNow[u][rest] < Limit(u, EnergyAfterStep)
              => UrgentTakeNow[u][rest] = rest
         /\ ForcesNow[u] <= rest => ForcesNow[u] <= UrgentTakeNow[u][rest]
<1>1. u \in Urgent /\ u \in units /\ u \in Unit /\ InLimits(u, EnergyAfterStep)
  BY StepEnergies DEF Urgents
<1>2. EnergyAfterStep \in [Unit -> Int]
  BY StepEnergies
<1>3. /\ ForcesNow[u] \in Nat /\ ForcesNow[u] <= Limit(u, EnergyAfterStep)
      /\ u \in Bakery => ForcesNow[u] \in {0, Limit(u, EnergyAfterStep)}
  BY StepForces
<1>4. UrgentTakeNow[u][rest] = Share(u, rest, EnergyAfterStep, ForcesNow)
  BY <1>1 DEF UrgentTakeNow, UrgentTake
<1>5. LET x == Share(u, rest, EnergyAfterStep, ForcesNow) IN
        /\ x \in Nat /\ x <= rest /\ x <= Limit(u, EnergyAfterStep)
        /\ u \in Battery /\ x < Limit(u, EnergyAfterStep) => x = rest
        /\ ForcesNow[u] <= rest => ForcesNow[u] <= x
  BY <1>1, <1>2, <1>3, ShareBounds
<1>. QED
  BY <1>4, <1>5

(* If the power covers the forces, the urgent are served in turn.          *)
LEMMA UrgentTurns ==
  ASSUME DispatchInv, NEW d \in Int, NEW s, NEW given,
         Sum(ForcesNow, Urgents) <= d, Served(d, s, given)
  PROVE  UrgentTurn(s, d, Rest(s, d, UrgentTakeNow), given)
<1> DEFINE r == Rest(s, d, UrgentTakeNow)
           n == Len(s)
<1>1. s \in SetToSeqs(Urgents) /\ given = InTurn(s, d, UrgentTakeNow)
  BY DEF Served, Sorted
<1>2. Enumerates(s, Urgents)
  BY <1>1, StepEnergies, SetToSeqsEnumerate
<1>3. s \in Seq(Urgents) /\ n \in Nat /\ \A i \in 1 .. n : s[i] \in Urgents
  BY <1>2 DEF Enumerates
<1>4. r[1] = d /\ \A i \in 1 .. n : r[i + 1] = r[i] - UrgentTakeNow[s[i]][r[i]]
  BY <1>3, RestNext
<1>5. \A i \in 1 .. n : given[s[i]] = UrgentTakeNow[s[i]][r[i]]
  BY <1>1, <1>2, TakesInTurn
<1>6. d \in Nat /\ 1 \in 1 .. n + 1
  BY <1>3, ForcesSum
<1>7. StaysIn(Urgents, Nat, UrgentTakeNow)
  <2> SUFFICES ASSUME NEW u \in Urgents, NEW x \in Nat PROVE x - UrgentTakeNow[u][x] \in Nat
    BY DEF StaysIn
  <2>1. UrgentTakeNow[u][x] \in Nat /\ UrgentTakeNow[u][x] <= x
    BY StepShares
  <2>. QED
    BY <2>1
<1>8. \A i \in 1 .. n + 1 : r[i] \in Nat
  <2>1. Rest(s, d, UrgentTakeNow)[1] \in Nat
    BY <1>4, <1>6
  <2>2. \A i \in 1 .. Len(s) + 1 : Rest(s, d, UrgentTakeNow)[i] \in Nat
    BY <1>3, <1>6, <1>7, <2>1, RestStays
  <2>. QED
    BY <2>2
<1>9. \A i \in 1 .. n + 1 : r[i] = 0 => \A j \in i .. n + 1 : r[j] = 0
  <2> SUFFICES ASSUME NEW i \in 1 .. n + 1, r[i] = 0 PROVE \A j \in i .. n + 1 : r[j] = 0
    OBVIOUS
  <2>1. StaysIn(Urgents, {0}, UrgentTakeNow)
    <3> SUFFICES ASSUME NEW u \in Urgents PROVE 0 - UrgentTakeNow[u][0] \in {0}
      BY DEF StaysIn
    <3>1. UrgentTakeNow[u][0] \in Nat /\ UrgentTakeNow[u][0] <= 0
      BY StepShares
    <3>. QED
      BY <3>1
  <2>2. Rest(s, d, UrgentTakeNow)[i] \in {0}
    OBVIOUS
  <2>3. \A j \in i .. Len(s) + 1 : Rest(s, d, UrgentTakeNow)[j] \in {0}
    BY <1>3, <2>1, <2>2, RestStays
  <2>. QED
    BY <2>3
<1> HIDE DEF r
<1>10. ASSUME NEW i \in 1 .. n
       PROVE  /\ given[s[i]] = Share(s[i], r[i], EnergyAfterStep, ForcesNow)
              /\ r[i + 1] = r[i] - given[s[i]]
  <2>1. r[i] \in Nat /\ s[i] \in Urgents
    BY <1>3, <1>8
  <2>2. UrgentTakeNow[s[i]][r[i]] = Share(s[i], r[i], EnergyAfterStep, ForcesNow)
    BY <2>1, StepShares
  <2>. QED
    BY <1>4, <1>5, <2>2
<1>. QED
  BY <1>2, <1>4, <1>8, <1>9, <1>10 DEF UrgentTurn, r

(* The turns of the buckets: what is left keeps its sign, and is used up   *)
(* for good.                                                               *)
BucketTurn(t, left, r, filled) ==
  /\ Enumerates(t, Buckets) /\ r[1] = left
  /\ \A i \in 1 .. Len(t) + 1 : r[i] \in Int /\ (left >= 0 => r[i] >= 0) /\ (left < 0 => r[i] <= 0)
  /\ \A i \in 1 .. Len(t) :
       /\ filled[t[i]] = BucketShare(t[i], r[i], EnergyAfterStep)
       /\ r[i + 1] = r[i] - filled[t[i]]
  /\ \A i \in 1 .. Len(t) + 1 : r[i] = 0 => \A j \in i .. Len(t) + 1 : r[j] = 0

(* BucketShareBounds, for the energies of the step.                        *)
LEMMA StepBucketShares ==
  ASSUME DispatchInv, NEW u \in Buckets, NEW rest \in Int
  PROVE  /\ BucketTakeNow[u][rest] = BucketShare(u, rest, EnergyAfterStep)
         /\ BucketTakeNow[u][rest] \in Int
         /\ -Available(u, EnergyAfterStep) <= BucketTakeNow[u][rest]
         /\ BucketTakeNow[u][rest] <= Limit(u, EnergyAfterStep)
         /\ rest >= 0 =>
              /\ BucketTakeNow[u][rest] >= 0 /\ BucketTakeNow[u][rest] <= rest
              /\ BucketTakeNow[u][rest] \in {rest, Limit(u, EnergyAfterStep)}
         /\ rest < 0 =>
              /\ BucketTakeNow[u][rest] <= 0 /\ rest <= BucketTakeNow[u][rest]
              /\ BucketTakeNow[u][rest] \in {rest, -Available(u, EnergyAfterStep)}
<1>1. u \in Bucket /\ u \in units
  BY DEF Buckets
<1>2. EnergyAfterStep \in [Unit -> Int] /\ u \in Unit /\ InLimits(u, EnergyAfterStep)
  BY <1>1, StepEnergies
<1>3. BucketTakeNow[u][rest] = BucketShare(u, rest, EnergyAfterStep)
  BY <1>2 DEF BucketTakeNow, BucketTake
<1>4. LET x == BucketShare(u, rest, EnergyAfterStep) IN
        /\ x \in Int /\ -Available(u, EnergyAfterStep) <= x /\ x <= Limit(u, EnergyAfterStep)
        /\ rest >= 0 => x >= 0 /\ x <= rest /\ (x = rest \/ x = Limit(u, EnergyAfterStep))
        /\ rest < 0 => x <= 0 /\ rest <= x /\ (x = rest \/ x = -Available(u, EnergyAfterStep))
  BY <1>1, <1>2, BucketShareBounds
<1>. QED
  BY <1>3, <1>4

(* The buckets are served in turn, in either order.                        *)
LEMMA BucketTurns ==
  ASSUME DispatchInv, NEW left \in Int, NEW t, NEW n,
         t \in BucketOrders(Buckets, left, n, EnergyAfterStep)
  PROVE  BucketTurn(t, left, Rest(t, left, BucketTakeNow), InTurn(t, left, BucketTakeNow))
<1> DEFINE r == Rest(t, left, BucketTakeNow)
           filled == InTurn(t, left, BucketTakeNow)
           m == Len(t)
<1>1. Enumerates(t, Buckets)
  <2>1. \A s \in Sorted(Buckets, n, EnergyAfterStep) : Enumerates(s, Buckets)
    BY StepEnergies, SetToSeqsEnumerate DEF Sorted
  <2>2. \A s \in Sorted(Buckets, n, EnergyAfterStep) : Enumerates(Reverse(s), Buckets)
    BY <2>1, ReverseEnumerates
  <2>. QED
    BY <2>1, <2>2 DEF BucketOrders
<1>2. t \in Seq(Buckets) /\ m \in Nat /\ \A i \in 1 .. m : t[i] \in Buckets
  BY <1>1 DEF Enumerates
<1>3. r[1] = left /\ \A i \in 1 .. m : r[i + 1] = r[i] - BucketTakeNow[t[i]][r[i]]
  BY <1>2, RestNext
<1>4. \A i \in 1 .. m : filled[t[i]] = BucketTakeNow[t[i]][r[i]]
  BY <1>1, TakesInTurn
<1>5. 1 \in 1 .. m + 1
  BY <1>2
<1>6. ASSUME NEW D, StaysIn(Buckets, D, BucketTakeNow), NEW i \in 1 .. m + 1, r[i] \in D
      PROVE  \A j \in i .. m + 1 : r[j] \in D
  <2>1. Rest(t, left, BucketTakeNow)[i] \in D
    BY <1>6
  <2>2. \A j \in i .. Len(t) + 1 : Rest(t, left, BucketTakeNow)[j] \in D
    BY <1>2, <1>6, <2>1, RestStays
  <2>. QED
    BY <2>2
<1>7. \A i \in 1 .. m + 1 : r[i] \in Int
  <2>1. StaysIn(Buckets, Int, BucketTakeNow)
    <3>1. ASSUME NEW u \in Buckets, NEW x \in Int PROVE x - BucketTakeNow[u][x] \in Int
      <4>1. BucketTakeNow[u][x] \in Int
        BY StepBucketShares
      <4>. QED
        BY <4>1
    <3>. QED
      BY <3>1 DEF StaysIn
  <2>2. r[1] \in Int
    BY <1>3
  <2> HIDE DEF r
  <2>. QED
    BY <1>5, <1>6, <2>1, <2>2
<1>8. left >= 0 => \A i \in 1 .. m + 1 : r[i] >= 0
  <2> SUFFICES ASSUME left >= 0 PROVE \A i \in 1 .. m + 1 : r[i] >= 0
    OBVIOUS
  <2>1. StaysIn(Buckets, Nat, BucketTakeNow)
    <3>1. ASSUME NEW u \in Buckets, NEW x \in Nat PROVE x - BucketTakeNow[u][x] \in Nat
      <4>1. BucketTakeNow[u][x] \in Int /\ BucketTakeNow[u][x] <= x
        BY StepBucketShares
      <4>. QED
        BY <4>1
    <3>. QED
      BY <3>1 DEF StaysIn
  <2>2. r[1] \in Nat
    BY <1>3
  <2> HIDE DEF r
  <2>3. \A i \in 1 .. m + 1 : r[i] \in Nat
    BY <1>5, <1>6, <2>1, <2>2
  <2>. QED
    BY <2>3
<1>9. left < 0 => \A i \in 1 .. m + 1 : r[i] <= 0
  <2> SUFFICES ASSUME left < 0 PROVE \A i \in 1 .. m + 1 : r[i] <= 0
    OBVIOUS
  <2> DEFINE D == {x \in Int : x <= 0}
  <2>1. StaysIn(Buckets, D, BucketTakeNow)
    <3>1. ASSUME NEW u \in Buckets, NEW x \in D PROVE x - BucketTakeNow[u][x] \in D
      <4>1. CASE x < 0
        <5>1. BucketTakeNow[u][x] \in Int /\ x <= BucketTakeNow[u][x]
          BY <4>1, StepBucketShares
        <5>. QED
          BY <5>1
      <4>2. CASE x = 0
        <5>1. BucketTakeNow[u][x] \in Int /\ BucketTakeNow[u][x] >= 0
          BY <4>2, StepBucketShares
        <5>. QED
          BY <4>2, <5>1
      <4>. QED
        BY <4>1, <4>2
    <3>. QED
      BY <3>1 DEF StaysIn
  <2>2. r[1] \in D
    BY <1>3
  <2> HIDE DEF r
  <2>3. \A i \in 1 .. m + 1 : r[i] \in D
    <3> HIDE DEF D
    <3>. QED
      BY <1>5, <1>6, <2>1, <2>2
  <2>. QED
    BY <2>3
<1>10. \A i \in 1 .. m + 1 : r[i] = 0 => \A j \in i .. m + 1 : r[j] = 0
  <2> SUFFICES ASSUME NEW i \in 1 .. m + 1, r[i] = 0 PROVE \A j \in i .. m + 1 : r[j] = 0
    OBVIOUS
  <2>1. StaysIn(Buckets, {0}, BucketTakeNow)
    <3>1. ASSUME NEW u \in Buckets PROVE 0 - BucketTakeNow[u][0] = 0
      <4>1. BucketTakeNow[u][0] \in Int /\ BucketTakeNow[u][0] >= 0 /\ BucketTakeNow[u][0] <= 0
        BY StepBucketShares
      <4>. QED
        BY <4>1
    <3>. QED
      BY <3>1 DEF StaysIn
  <2>2. r[i] \in {0}
    OBVIOUS
  <2> HIDE DEF r
  <2>3. \A j \in i .. m + 1 : r[j] \in {0}
    BY <1>6, <2>1, <2>2
  <2>. QED
    BY <2>3
<1> HIDE DEF r, filled
<1>11. ASSUME NEW i \in 1 .. m
       PROVE  /\ filled[t[i]] = BucketShare(t[i], r[i], EnergyAfterStep)
              /\ r[i + 1] = r[i] - filled[t[i]]
  <2>1. r[i] \in Int /\ t[i] \in Buckets
    BY <1>2, <1>7
  <2>2. BucketTakeNow[t[i]][r[i]] = BucketShare(t[i], r[i], EnergyAfterStep)
    BY <2>1, StepBucketShares
  <2>. QED
    BY <1>3, <1>4, <2>2
<1>. QED
  BY <1>1, <1>3, <1>7, <1>8, <1>9, <1>10, <1>11 DEF BucketTurn, r, filled

-----------------------------------------------------------------------------
(* What a step gives each unit is within the limits of the unit.           *)
LEMMA StepGiven ==
  ASSUME DispatchInv, NEW d \in Int, NEW s, NEW given, Served(d, s, given)
  PROVE  /\ \A u \in Urgents : given[u] \in Nat /\ given[u] <= Limit(u, EnergyAfterStep)
         /\ LeftOf(d, given) \in Int
<1>1. \A u \in Urgents : given[u] \in Nat /\ given[u] <= Limit(u, EnergyAfterStep)
  <2>1. CASE Sum(ForcesNow, Urgents) <= d
    <3>1. PICK r : UrgentTurn(s, d, r, given)
      BY <2>1, UrgentTurns
    <3>2. ASSUME NEW u \in Urgents
          PROVE  given[u] \in Nat /\ given[u] <= Limit(u, EnergyAfterStep)
      <4>1. PICK i \in 1 .. Len(s) : s[i] = u
        BY <3>1 DEF UrgentTurn, Enumerates, Range
      <4>2. r[i] \in Nat /\ given[u] = Share(u, r[i], EnergyAfterStep, ForcesNow)
        <5>1. i \in 1 .. Len(s) + 1
          BY <3>1 DEF UrgentTurn, Enumerates
        <5>. QED
          BY <3>1, <4>1, <5>1 DEF UrgentTurn
      <4>. QED
        BY <4>2, StepShares
    <3>. QED
      BY <3>2
  <2>2. CASE ~ (Sum(ForcesNow, Urgents) <= d)
    <3>1. given = ForcesNow
      BY <2>2 DEF Served
    <3>. QED
      BY <3>1, StepForces
  <2>. QED
    BY <2>1, <2>2
<1> DEFINE f == [u \in Urgents |-> given[u]]
<1>2. f \in [Urgents -> Int] /\ \A u \in Urgents : f[u] = given[u] /\ f[u] \in Nat
  BY <1>1
<1>3. IsFiniteSet(Urgents)
  BY StepEnergies
<1> HIDE DEF f
<1>4. Sum(given, Urgents) = SumFcn(Urgents, f)[Urgents]
  BY <1>2, <1>3, SumAgrees
<1>5. SumFcn(Urgents, f)[Urgents] \in Nat
  BY <1>2, <1>3, SumOfNaturals
<1>. QED
  BY <1>1, <1>4, <1>5 DEF LeftOf

(* What a step gives every unit, and its bounds.                           *)
LEMMA StepPowers ==
  ASSUME DispatchInv, NEW d \in Int, NEW s, NEW t, NEW given, Balanced(d, s, t, given)
  PROVE  /\ p' \in [Unit -> Int]
         /\ \A u \in Urgents :
              p'[u] = given[u] /\ p'[u] \in Nat /\ p'[u] <= Limit(u, EnergyAfterStep)
         /\ \A u \in Buckets :
              /\ p'[u] = InTurn(t, LeftOf(d, given), BucketTakeNow)[u]
              /\ -Available(u, EnergyAfterStep) <= p'[u] /\ p'[u] <= Limit(u, EnergyAfterStep)
<1> DEFINE left == LeftOf(d, given)
           filled == InTurn(t, left, BucketTakeNow)
<1>1. /\ left \in Int
      /\ \A u \in Urgents : given[u] \in Nat /\ given[u] <= Limit(u, EnergyAfterStep)
  BY StepGiven DEF Balanced
<1>2. PICK r : BucketTurn(t, left, r, filled)
  BY <1>1, BucketTurns DEF Balanced
<1>3. p' = [u \in Unit |-> IF u \in Urgents THEN given[u]
                           ELSE IF u \in Buckets THEN filled[u] ELSE 0]
  BY DEF Balanced
<1> HIDE DEF filled, left
<1>4. ASSUME NEW u \in Buckets
      PROVE  /\ filled[u] \in Int /\ -Available(u, EnergyAfterStep) <= filled[u]
             /\ filled[u] <= Limit(u, EnergyAfterStep)
  <2>1. PICK i \in 1 .. Len(t) : t[i] = u
    BY <1>2 DEF BucketTurn, Enumerates, Range
  <2>2. r[i] \in Int /\ filled[u] = BucketShare(u, r[i], EnergyAfterStep)
    <3>1. i \in 1 .. Len(t) + 1
      BY <1>2 DEF BucketTurn, Enumerates
    <3>. QED
      BY <1>2, <2>1, <3>1 DEF BucketTurn
  <2>. QED
    BY <2>2, StepBucketShares
<1>5. \A u \in units : u \in Unit
  BY StepEnergies
<1>6. Urgents \subseteq Unit /\ Buckets \subseteq Unit /\ Urgents \cap Buckets = {}
  BY <1>5, StepEnergies
<1>. QED
  BY <1>1, <1>3, <1>4, <1>6 DEF filled, left

-----------------------------------------------------------------------------
(* A time step keeps every energy within its limits, and the next one.     *)
LEMMA StepKeepsEnergy ==
  ASSUME DispatchInv, NEW d \in Int, AgileBalancing(d)
  PROVE  DispatchInv'
<1>1. PICK s, t, given : Balanced(d, s, t, given)
  BY BalancedStep
<1>2. /\ p' \in [Unit -> Int]
      /\ \A u \in Urgents : p'[u] \in Nat /\ p'[u] <= Limit(u, EnergyAfterStep)
      /\ \A u \in Buckets :
           -Available(u, EnergyAfterStep) <= p'[u] /\ p'[u] <= Limit(u, EnergyAfterStep)
  BY <1>1, StepPowers
<1>3. units' = units /\ currentTime' = currentTime + 1 /\ e' = EnergyAfterStep
  BY <1>1 DEF Balanced
<1>4. UnitsOK' /\ DispatchTypeOK'
  BY <1>2, <1>3, StepEnergies DEF DispatchInv, UnitsOK, DispatchTypeOK
<1>5. ASSUME NEW u \in units
      PROVE  /\ eMin[u] <= e'[u] /\ e'[u] <= eMax[u]
             /\ eMin[u] <= e'[u] + p'[u] /\ e'[u] + p'[u] <= eMax[u]
  <2>1. u \in Unit /\ InLimits(u, EnergyAfterStep) /\ EnergyAfterStep \in [Unit -> Int]
    BY StepEnergies
  <2>2. /\ Limit(u, EnergyAfterStep) \in Nat /\ Available(u, EnergyAfterStep) \in Nat
        /\ Limit(u, EnergyAfterStep) <= eMax[u] - EnergyAfterStep[u]
        /\ Available(u, EnergyAfterStep) <= EnergyAfterStep[u] - eMin[u]
    BY <2>1, LimitBounds
  <2>3. -Available(u, EnergyAfterStep) <= p'[u] /\ p'[u] <= Limit(u, EnergyAfterStep)
    <3>1. u \in Urgents \/ u \in Buckets
      BY StepEnergies
    <3>2. CASE u \in Urgents
      BY <1>2, <2>2, <3>2
    <3>3. CASE u \in Buckets
      BY <1>2, <3>3
    <3>. QED
      BY <3>1, <3>2, <3>3
  <2>4. eMin[u] \in Int /\ eMax[u] \in Int /\ EnergyAfterStep[u] \in Int /\ p'[u] \in Int
    BY <1>2, <2>1, UnitTypes
  <2>5. eMin[u] <= EnergyAfterStep[u] /\ EnergyAfterStep[u] <= eMax[u]
    BY <2>1 DEF InLimits
  <2>. QED
    BY <1>3, <2>2, <2>3, <2>4, <2>5
<1>6. EnergyInLimits'
  BY <1>3, <1>5 DEF EnergyInLimits
<1>. QED
  BY <1>4, <1>6 DEF DispatchInv

(* A unit that joins or leaves is empty and without power.                 *)
LEMMA RegisterKeepsEnergy ==
  ASSUME DispatchInv, NEW u \in Unit, RegisterUnit(u) \/ DeregisterUnit(u)
  PROVE  DispatchInv'
<1>1. /\ e' = [e EXCEPT ![u] = 0] /\ p' = [p EXCEPT ![u] = 0] /\ currentTime' = currentTime
      /\ units' = units \cup {u} \/ units' = units \ {u}
  BY DEF RegisterUnit, DeregisterUnit, MakeUnit
<1>2. IsFiniteSet(units) /\ units \subseteq Unit
  BY DEF DispatchInv, UnitsOK
<1>3. UnitsOK'
  <2>1. IsFiniteSet(units \cup {u}) /\ IsFiniteSet(units \ {u})
    BY <1>2, FS_AddElement, FS_RemoveElement
  <2>. QED
    BY <1>1, <1>2, <2>1 DEF UnitsOK
<1>4. DispatchTypeOK'
  BY <1>1 DEF DispatchInv, DispatchTypeOK
<1>5. e'[u] = 0 /\ p'[u] = 0 /\ \A c \in Unit \ {u} : e'[c] = e[c] /\ p'[c] = p[c]
  BY <1>1 DEF DispatchInv, DispatchTypeOK
<1>6. ASSUME NEW c \in units'
      PROVE  /\ eMin[c] <= e'[c] /\ e'[c] <= eMax[c]
             /\ eMin[c] <= e'[c] + p'[c] /\ e'[c] + p'[c] <= eMax[c]
  <2>1. CASE c = u
    BY <1>5, <2>1, UnitTypes
  <2>2. CASE c # u
    <3>1. c \in units /\ c \in Unit \ {u}
      BY <1>1, <1>2, <2>2
    <3>. QED
      BY <1>5, <3>1 DEF DispatchInv, EnergyInLimits
  <2>. QED
    BY <2>1, <2>2
<1>7. EnergyInLimits'
  BY <1>6 DEF EnergyInLimits
<1>. QED
  BY <1>3, <1>4, <1>7 DEF DispatchInv

(* The inductive invariant: types, and the limits of the energy.           *)
LEMMA EnergyInvariant == DispatchSpec => []DispatchInv
<1>1. DispatchInit => DispatchInv
  <2> SUFFICES ASSUME DispatchInit PROVE DispatchInv
    OBVIOUS
  <2>1. UnitsOK
    BY FS_EmptySet DEF DispatchInit, UnitsOK
  <2>2. DispatchTypeOK /\ EnergyInLimits
    BY DEF DispatchInit, Zero, DispatchTypeOK, EnergyInLimits
  <2>. QED
    BY <2>1, <2>2 DEF DispatchInv
<1>2. DispatchInv /\ [DispatchNext]_dispatchVars => DispatchInv'
  <2> SUFFICES ASSUME DispatchInv, [DispatchNext]_dispatchVars PROVE DispatchInv'
    OBVIOUS
  <2>1. ASSUME NEW d \in Dispatch, AgileBalancing(d) PROVE DispatchInv'
    <3>1. d \in Int
      BY UnitAssumption
    <3>. QED
      BY <2>1, <3>1, StepKeepsEnergy
  <2>2. ASSUME NEW u \in Unit, RegisterUnit(u) \/ DeregisterUnit(u) PROVE DispatchInv'
    BY <2>2, RegisterKeepsEnergy
  <2>3. CASE UNCHANGED dispatchVars
    BY <2>3 DEF dispatchVars, DispatchInv, UnitsOK, DispatchTypeOK, EnergyInLimits
  <2>. QED
    BY <2>1, <2>2, <2>3 DEF DispatchNext
<1>. QED
  BY <1>1, <1>2, PTL DEF DispatchSpec

(* The power a unit was given keeps its energy within its limits when the  *)
(* next step adds it, forced or shared, whenever the unit joined.          *)
THEOREM EnergyStaysInLimits == DispatchSpec => []EnergyInLimits
<1>1. DispatchInv => EnergyInLimits
  BY DEF DispatchInv
<1>. QED
  BY <1>1, EnergyInvariant, PTL

-----------------------------------------------------------------------------
(* A step of the system that moves the time is a step of the dispatch.     *)
LEMMA StepIsBalanced ==
  ASSUME DispatchInv, [DispatchNext]_dispatchVars, Step
  PROVE  \E d, s, t, given : d \in Int /\ Balanced(d, s, t, given)
<1>1. PICK d \in Dispatch : AgileBalancing(d)
  BY DEF Step, DispatchNext, dispatchVars, RegisterUnit, DeregisterUnit
<1>2. d \in Int
  BY UnitAssumption
<1>. QED
  BY <1>1, <1>2, BalancedStep

(* What is left over, or missing, after a step is what is left after the   *)
(* last bucket.                                                            *)
LEMMA ResidualIsLeft ==
  ASSUME DispatchInv, NEW d \in Int, NEW s, NEW t, NEW given, Balanced(d, s, t, given),
         NEW r, BucketTurn(t, LeftOf(d, given), r, InTurn(t, LeftOf(d, given), BucketTakeNow))
  PROVE  Residual' = r[Len(t) + 1]
<1> DEFINE left == LeftOf(d, given)
           f == [u \in units |-> p'[u]]
           F == SumFcn(units, f)
           n == Len(t)
<1>1. /\ p' \in [Unit -> Int] /\ units \subseteq Unit /\ IsFiniteSet(units)
      /\ \A u \in Urgents : p'[u] = given[u]
      /\ \A u \in Buckets : p'[u] = InTurn(t, LeftOf(d, given), BucketTakeNow)[u]
  BY StepPowers, StepEnergies
<1>2. f \in [units -> Int] /\ \A u \in units : f[u] = p'[u]
  BY <1>1
<1>3. Urgents \subseteq units /\ Buckets \subseteq units /\ Urgents \cap Buckets = {}
      /\ Urgents \cup Buckets = units
  BY StepEnergies
<1> HIDE DEF f, left
<1>4. /\ Enumerates(t, Buckets) /\ r[1] = left /\ n \in Nat
      /\ \A i \in 1 .. n + 1 : r[i] \in Int
      /\ \A i \in 1 .. n : t[i] \in Buckets /\ r[i + 1] = r[i] - f[t[i]]
  <2>1. Enumerates(t, Buckets) /\ r[1] = left /\ \A i \in 1 .. n + 1 : r[i] \in Int
    BY DEF BucketTurn, left
  <2>2. n \in Nat /\ \A i \in 1 .. n : t[i] \in Buckets
    BY <2>1 DEF Enumerates
  <2>3. \A i \in 1 .. n : r[i + 1] = r[i] - InTurn(t, LeftOf(d, given), BucketTakeNow)[t[i]]
    BY DEF BucketTurn
  <2>. QED
    BY <1>1, <1>2, <1>3, <2>1, <2>2, <2>3
<1>5. Takes(t, f, r)
  <2>1. ASSUME NEW i \in 1 .. n PROVE f[t[i]] = r[i] - r[i + 1]
    <3>1. i \in 1 .. n + 1 /\ i + 1 \in 1 .. n + 1
      BY <1>4
    <3>2. r[i] \in Int /\ r[i + 1] \in Int /\ f[t[i]] \in Int /\ r[i + 1] = r[i] - f[t[i]]
      BY <1>2, <1>3, <1>4, <3>1
    <3>. QED
      BY <3>2
  <2>. QED
    BY <1>4, <2>1 DEF Takes
<1>6. F[Urgents \cup Buckets] = F[Urgents] + r[1] - r[n + 1]
  BY <1>1, <1>2, <1>3, <1>4, <1>5, SumOfTurns
<1>7. Sum(given, Urgents) = F[Urgents]
  BY <1>1, <1>2, <1>3, SumAgrees
<1>8. Sum(p', units) = F[units]
  BY <1>1, <1>2, SumAgrees
<1>9. F[Urgents] \in Int
  BY <1>1, <1>2, <1>3, SumTakeOut
<1> HIDE DEF F
<1>10. Residual' = d - Sum(p', units)
  <2>1. Residual' = dispatched' - Sum(p', units')
    BY DEF Residual
  <2>. QED
    BY <2>1 DEF Balanced
<1>11. left = d - F[Urgents]
  BY <1>7 DEF left, LeftOf
<1>12. r[1] \in Int /\ r[n + 1] \in Int
  <2>1. 1 \in 1 .. n + 1 /\ n + 1 \in 1 .. n + 1
    BY <1>4
  <2>. QED
    BY <1>4, <2>1
<1>13. Sum(p', units) = F[Urgents] + left - r[n + 1]
  BY <1>3, <1>4, <1>6, <1>8
<1>. QED
  BY <1>9, <1>10, <1>11, <1>12, <1>13

(* A bucket takes or gives nothing once nothing is left; one that leaves   *)
(* something takes, or gives, all it can.                                  *)
LEMMA BucketTurnLeaves ==
  ASSUME DispatchInv, NEW d \in Int, NEW s, NEW t, NEW given, Balanced(d, s, t, given),
         NEW r, BucketTurn(t, LeftOf(d, given), r, InTurn(t, LeftOf(d, given), BucketTakeNow)),
         NEW i \in 1 .. Len(t)
  PROVE  /\ t[i] \in Buckets /\ r[i] \in Int
         /\ r[i] = 0 => p'[t[i]] = 0
         /\ \A j \in i + 1 .. Len(t) + 1 : r[j] # 0 =>
              /\ r[i] # 0
              /\ r[i] > 0 => p'[t[i]] = Limit(t[i], EnergyAfterStep)
              /\ r[i] < 0 => p'[t[i]] = -Available(t[i], EnergyAfterStep)
<1> DEFINE u == t[i]
           x == r[i]
           n == Len(t)
           filled == InTurn(t, LeftOf(d, given), BucketTakeNow)
<1>1. /\ Enumerates(t, Buckets) /\ \A j \in 1 .. n + 1 : r[j] \in Int
      /\ filled[u] = BucketShare(u, x, EnergyAfterStep) /\ r[i + 1] = x - filled[u]
      /\ \A j \in 1 .. n + 1 : r[j] = 0 => \A k \in j .. n + 1 : r[k] = 0
  BY DEF BucketTurn
<1>2. n \in Nat /\ u \in Buckets /\ i \in 1 .. n + 1 /\ i + 1 \in 1 .. n + 1
  BY <1>1 DEF Enumerates
<1>3. x \in Int
  BY <1>1, <1>2
<1>4. p'[u] = filled[u]
  <2>1. \A b \in Buckets : p'[b] = InTurn(t, LeftOf(d, given), BucketTakeNow)[b]
    BY StepPowers
  <2>. QED
    BY <1>2, <2>1
<1> HIDE DEF u, x, filled
<1>5. /\ filled[u] \in Int
      /\ x >= 0 => filled[u] >= 0 /\ filled[u] <= x /\ filled[u] \in {x, Limit(u, EnergyAfterStep)}
      /\ x < 0 => filled[u] \in {x, -Available(u, EnergyAfterStep)}
  BY <1>1, <1>2, <1>3, StepBucketShares
<1>6. x = 0 => filled[u] = 0
  BY <1>5
<1>7. ASSUME NEW j \in i + 1 .. n + 1, r[j] # 0
      PROVE  /\ x # 0 /\ filled[u] # x
  <2>1. j \in i .. n + 1 /\ j \in i + 1 .. n + 1
    BY <1>2
  <2>2. x # 0
    BY <1>1, <1>2, <1>7, <2>1 DEF x
  <2>3. r[i + 1] # 0
    BY <1>1, <1>2, <1>7, <2>1
  <2>4. filled[u] # x
    BY <1>1, <1>3, <2>3
  <2>. QED
    BY <2>2, <2>4
<1>8. ASSUME NEW j \in i + 1 .. n + 1, r[j] # 0
      PROVE  /\ x # 0
             /\ x > 0 => p'[u] = Limit(u, EnergyAfterStep)
             /\ x < 0 => p'[u] = -Available(u, EnergyAfterStep)
  <2>1. x # 0 /\ filled[u] # x
    BY <1>7, <1>8
  <2>. QED
    BY <1>3, <1>4, <1>5, <2>1
<1>. QED
  BY <1>2, <1>3, <1>4, <1>6, <1>8 DEF u, x

-----------------------------------------------------------------------------
(* A bucket that leaves something to the next took, or gave, all it can.   *)
LEMMA StepAbsorbs ==
  ASSUME DispatchInv, [DispatchNext]_dispatchVars, Step, NEW u \in Buckets
  PROVE  /\ Residual' > 0 => p'[u] = Limit(u, e')
         /\ Residual' < 0 => p'[u] = -Available(u, e')
<1>1. PICK d, s, t, given : d \in Int /\ Balanced(d, s, t, given)
  BY StepIsBalanced
<1> DEFINE left == LeftOf(d, given)
           n == Len(t)
<1>2. left \in Int
  BY <1>1, StepGiven DEF Balanced
<1>3. PICK r : BucketTurn(t, left, r, InTurn(t, left, BucketTakeNow))
  BY <1>1, <1>2, BucketTurns DEF Balanced
<1>4. Residual' = r[n + 1]
  BY <1>1, <1>3, ResidualIsLeft
<1>5. Enumerates(t, Buckets)
  BY <1>3 DEF BucketTurn
<1>6. PICK i \in 1 .. n : t[i] = u
  BY <1>5 DEF Enumerates, Range
<1>7. n \in Nat /\ n + 1 \in i + 1 .. n + 1 /\ n + 1 \in 1 .. n + 1 /\ i \in 1 .. n + 1
  BY <1>5 DEF Enumerates
<1>8. /\ left >= 0 => r[i] >= 0 /\ r[n + 1] >= 0
      /\ left < 0 => r[i] <= 0 /\ r[n + 1] <= 0
      /\ r[i] \in Int /\ r[n + 1] \in Int
  BY <1>3, <1>7 DEF BucketTurn
<1>9. r[n + 1] # 0 =>
        /\ r[i] # 0
        /\ r[i] > 0 => p'[u] = Limit(u, EnergyAfterStep)
        /\ r[i] < 0 => p'[u] = -Available(u, EnergyAfterStep)
  BY <1>1, <1>3, <1>6, <1>7, BucketTurnLeaves
<1>10. e' = EnergyAfterStep
  BY <1>1 DEF Balanced
<1> HIDE DEF left, n
<1>. QED
  BY <1>2, <1>4, <1>8, <1>9, <1>10

(* Power is left over, or missing, only if every bucket takes, or gives,   *)
(* all it can: the parts always add up to the power of the step.           *)
THEOREM BucketsTakeTheRest == DispatchSpec => BucketsAbsorb
<1>1. DispatchInv /\ [DispatchNext]_dispatchVars =>
        [Step => \A u \in units \cap Bucket :
                   /\ Residual' > 0 => p'[u] = Limit(u, e')
                   /\ Residual' < 0 => p'[u] = -Available(u, e')]_dispatchVars
  BY StepAbsorbs DEF Buckets
<1>. QED
  BY <1>1, EnergyInvariant, PTL DEF DispatchSpec, BucketsAbsorb

(* Of two buckets with different agilities the order of service is known.  *)
LEMMA StepOrders ==
  ASSUME DispatchInv, [DispatchNext]_dispatchVars, Step, NEW b \in Buckets, NEW c \in Buckets,
         Less(Agility(b, currentTime', e'), Agility(c, currentTime', e'))
  PROVE  /\ p'[c] < 0 => p'[b] = -Available(b, e')
         /\ p'[b] > 0 => p'[c] = Limit(c, e')
<1>1. PICK d, s, t, given : d \in Int /\ Balanced(d, s, t, given)
  BY StepIsBalanced
<1> DEFINE left == LeftOf(d, given)
           n == Len(t)
           Ag(u) == Agility(u, currentTime + 1, EnergyAfterStep)
<1>2. left \in Int
  BY <1>1, StepGiven DEF Balanced
<1>3. PICK r : BucketTurn(t, left, r, InTurn(t, left, BucketTakeNow))
  BY <1>1, <1>2, BucketTurns DEF Balanced
<1>4. Enumerates(t, Buckets)
  BY <1>3 DEF BucketTurn
<1>5. PICK i \in 1 .. n : t[i] = b
  BY <1>4 DEF Enumerates, Range
<1>6. PICK j \in 1 .. n : t[j] = c
  BY <1>4 DEF Enumerates, Range
<1>7. n \in Nat /\ i \in 1 .. n + 1 /\ j \in 1 .. n + 1
  BY <1>4 DEF Enumerates
<1>8. /\ left >= 0 => r[i] >= 0 /\ r[j] >= 0
      /\ left < 0 => r[i] <= 0 /\ r[j] <= 0
      /\ r[i] \in Int /\ r[j] \in Int
  BY <1>3, <1>7 DEF BucketTurn
<1>9. e' = EnergyAfterStep /\ currentTime' = currentTime + 1
  BY <1>1 DEF Balanced
<1>10. Less(Ag(b), Ag(c))
  BY <1>9
<1>p. \A u \in Buckets : p'[u] = InTurn(t, LeftOf(d, given), BucketTakeNow)[u]
  <2> HIDE DEF left, n, Ag
  <2>. QED
    BY <1>1, StepPowers
<1>11. i # j
  <2>1. b # c
    <3> SUFFICES ASSUME b = c PROVE FALSE
      OBVIOUS
    <3>1. Less(Ag(b), Ag(b))
      BY <1>10
    <3>2. b \in Bucket /\ b \in Unit /\ b \notin Battery /\ b \notin Bakery
      BY UnitTypes, UnitAssumption DEF Buckets, Urgent
    <3>3. Ag(b) = BucketAgility(b, EnergyAfterStep)
      BY <3>2 DEF Agility
    <3>4. EnergyAfterStep[b] \in Int /\ eMax[b] \in Int /\ pMax[b] \in Int
      BY <3>2, StepEnergies, UnitTypes
    <3> HIDE DEF Ag
    <3>. QED
      BY <3>1, <3>3, <3>4 DEF Less, BucketAgility
  <2>. QED
    BY <1>5, <1>6, <2>1
<1>12. CASE left < 0
  <2>1. \A k, m \in 1 .. n : k < m => ~ Less(Ag(t[m]), Ag(t[k]))
    <3>1. t \in Sorted(Buckets, currentTime + 1, EnergyAfterStep)
      BY <1>1, <1>12 DEF Balanced, BucketOrders
    <3>2. DOMAIN t = 1 .. n
      BY <1>4 DEF Enumerates
    <3>. QED
      BY <3>1, <3>2 DEF Sorted
  <2>2. i < j
    <3>1. ~ (j < i)
      BY <1>5, <1>6, <1>10, <2>1
    <3>. QED
      BY <1>7, <1>11, <3>1
  <2>3. j \in i + 1 .. n + 1
    BY <1>7, <2>2
  <2>4. r[j] = 0 => p'[c] = 0
    BY <1>1, <1>3, <1>6, BucketTurnLeaves
  <2>5. r[i] = 0 => p'[b] = 0
    BY <1>1, <1>3, <1>5, BucketTurnLeaves
  <2>6. r[j] # 0 => r[i] # 0 /\ (r[i] < 0 => p'[b] = -Available(b, EnergyAfterStep))
    BY <1>1, <1>3, <1>5, <2>3, BucketTurnLeaves
  <2>7. p'[c] < 0 => p'[b] = -Available(b, e')
    BY <1>8, <1>9, <1>12, <2>4, <2>6
  <2>8. ~ (p'[b] > 0)
    <3>1. r[i] < 0 => p'[b] \in Int /\ p'[b] <= 0
      <4>1. p'[b] = BucketShare(b, r[i], EnergyAfterStep)
        BY <1>3, <1>5, <1>p DEF BucketTurn
      <4>. QED
        BY <1>8, <4>1, StepBucketShares
    <3>. QED
      BY <1>8, <1>12, <2>5, <3>1
  <2>. QED
    BY <2>7, <2>8
<1>13. CASE ~ (left < 0)
  <2>1. \A k, m \in 1 .. n : k < m => ~ Less(Ag(t[k]), Ag(t[m]))
    <3>1. PICK q \in Sorted(Buckets, currentTime + 1, EnergyAfterStep) : t = Reverse(q)
      BY <1>1, <1>13 DEF Balanced, BucketOrders
    <3>2. Enumerates(q, Buckets)
      BY <3>1, StepEnergies, SetToSeqsEnumerate DEF Sorted
    <3>3. n = Len(q) /\ DOMAIN q = 1 .. n /\ \A k \in 1 .. n : t[k] = q[(n - k) + 1]
      BY <3>1, <3>2, ReverseEnumerates DEF Enumerates
    <3> HIDE DEF n, Ag
    <3>4. ASSUME NEW k \in 1 .. n, NEW m \in 1 .. n, k < m PROVE ~ Less(Ag(t[k]), Ag(t[m]))
      <4>1. (n - k) + 1 \in 1 .. n /\ (n - m) + 1 \in 1 .. n /\ (n - m) + 1 < (n - k) + 1
        BY <1>7, <3>4
      <4>2. ~ Less(Ag(q[(n - k) + 1]), Ag(q[(n - m) + 1]))
        BY <3>1, <3>3, <4>1 DEF Sorted, Ag
      <4>. QED
        BY <3>3, <4>2
    <3>. QED
      BY <3>4
  <2>2. j < i
    <3>1. ~ (i < j)
      BY <1>5, <1>6, <1>10, <2>1
    <3>. QED
      BY <1>7, <1>11, <3>1
  <2>3. i \in j + 1 .. n + 1
    BY <1>7, <2>2
  <2>4. r[i] = 0 => p'[b] = 0
    BY <1>1, <1>3, <1>5, BucketTurnLeaves
  <2>5. r[i] # 0 => r[j] # 0 /\ (r[j] > 0 => p'[c] = Limit(c, EnergyAfterStep))
    BY <1>1, <1>3, <1>6, <2>3, BucketTurnLeaves
  <2>6. p'[b] > 0 => p'[c] = Limit(c, e')
    BY <1>2, <1>8, <1>9, <1>13, <2>4, <2>5
  <2>7. ~ (p'[c] < 0)
    <3>1. p'[c] = BucketShare(c, r[j], EnergyAfterStep)
      BY <1>3, <1>6, <1>p DEF BucketTurn
    <3>2. p'[c] >= 0 /\ p'[c] \in Int
      BY <1>2, <1>8, <1>13, <3>1, StepBucketShares
    <3>. QED
      BY <3>2
  <2>. QED
    BY <2>6, <2>7
<1>. QED
  BY <1>12, <1>13

(* A bucket gives only if every bucket that holds more, for its power,     *)
(* gives all it can, and takes only if every emptier one takes all it can. *)
THEOREM BucketsServeInOrder == DispatchSpec => BucketsInOrder
<1>1. DispatchInv /\ [DispatchNext]_dispatchVars =>
        [Step => \A b, c \in units \cap Bucket :
           Less(Agility(b, currentTime', e'), Agility(c, currentTime', e'))
             => /\ p'[c] < 0 => p'[b] = -Available(b, e')
                /\ p'[b] > 0 => p'[c] = Limit(c, e')]_dispatchVars
  BY StepOrders DEF Buckets
<1>. QED
  BY <1>1, EnergyInvariant, PTL DEF DispatchSpec, BucketsInOrder

(* What is left never falls below 0 before the buckets.                    *)
LEMMA StepServesUrgent ==
  ASSUME DispatchInv, [DispatchNext]_dispatchVars, Step, order' # << >>
  PROVE  /\ Sum(p', Urgents) <= dispatched'
         /\ p'[order'[1]] >= forced'[order'[1]]
         /\ \A i, j \in DOMAIN order' :
              i < j /\ order'[i] \in Battery /\ p'[order'[i]] < Limit(order'[i], e')
                => p'[order'[j]] = 0
<1>1. PICK d, s, t, given : d \in Int /\ Balanced(d, s, t, given)
  BY StepIsBalanced
<1> DEFINE n == Len(s)
           f == [u \in Urgents |-> given[u]]
           F == SumFcn(Urgents, f)
<1>2. order' = s /\ dispatched' = d /\ forced' = ForcesNow /\ e' = EnergyAfterStep
  BY <1>1 DEF Balanced
<1>3. Sum(ForcesNow, Urgents) <= d /\ Served(d, s, given)
  BY <1>1, <1>2 DEF Balanced, Served
<1>4. PICK r : UrgentTurn(s, d, r, given)
  BY <1>1, <1>3, UrgentTurns
<1>5. Enumerates(s, Urgents) /\ r[1] = d
  BY <1>4 DEF UrgentTurn
<1>6. n \in Nat /\ DOMAIN s = 1 .. n /\ \A i \in 1 .. n : s[i] \in Urgents
  BY <1>5 DEF Enumerates
<1>7. 1 \in 1 .. n
  BY <1>2, <1>5, <1>6 DEF Enumerates
<1>8. \A u \in Urgents : p'[u] = given[u] /\ given[u] \in Nat
  BY <1>1, StepPowers
<1>9. ASSUME NEW i \in 1 .. n
      PROVE  /\ s[i] \in Urgents /\ r[i] \in Nat /\ r[i + 1] \in Nat
             /\ r[i + 1] = r[i] - given[s[i]]
             /\ given[s[i]] = UrgentTakeNow[s[i]][r[i]]
  <2>1. i \in 1 .. n + 1 /\ i + 1 \in 1 .. n + 1 /\ s[i] \in Urgents
    BY <1>6
  <2>2. r[i] \in Nat /\ r[i + 1] \in Nat
    BY <1>4, <2>1 DEF UrgentTurn
  <2>3. r[i + 1] = r[i] - given[s[i]] /\ given[s[i]] = Share(s[i], r[i], EnergyAfterStep, ForcesNow)
    BY <1>4 DEF UrgentTurn
  <2>4. UrgentTakeNow[s[i]][r[i]] = Share(s[i], r[i], EnergyAfterStep, ForcesNow)
    BY <2>1, <2>2, StepShares
  <2>. QED
    BY <2>1, <2>2, <2>3, <2>4
<1>10. Sum(p', Urgents) <= d
  <2>1. /\ f \in [Urgents -> Int] /\ IsFiniteSet(Urgents)
        /\ \A u \in Urgents : p'[u] = f[u] /\ f[u] = given[u]
    BY <1>8, StepEnergies
  <2> HIDE DEF f
  <2>2. Takes(s, f, r)
    <3>1. \A i \in 1 .. n + 1 : r[i] \in Int
      BY <1>4 DEF UrgentTurn
    <3>2. ASSUME NEW i \in 1 .. n PROVE f[s[i]] = r[i] - r[i + 1]
      <4>1. f[s[i]] = given[s[i]] /\ given[s[i]] \in Nat
        BY <1>6, <1>8, <2>1
      <4>. QED
        BY <1>9, <4>1
    <3>. QED
      BY <3>1, <3>2 DEF Takes
  <2>3. F[{} \cup Urgents] = F[{}] + r[1] - r[n + 1]
    <3>1. {} \subseteq Urgents /\ Urgents \subseteq Urgents /\ {} \cap Urgents = {}
      OBVIOUS
    <3>2. d \in Int
      BY <1>1
    <3>. QED
      BY <1>5, <2>1, <2>2, <3>1, <3>2, SumOfTurns
  <2>4. F[{}] = 0
    BY <2>1, SumTakeOut
  <2>5. Sum(p', Urgents) = F[Urgents]
    BY <2>1, SumAgrees
  <2>6. {} \cup Urgents = Urgents
    OBVIOUS
  <2>7. r[n + 1] \in Nat
    <3>1. n + 1 \in 1 .. n + 1
      BY <1>6
    <3>. QED
      BY <1>4, <3>1 DEF UrgentTurn
  <2> HIDE DEF F
  <2>. QED
    BY <1>1, <1>5, <2>3, <2>4, <2>5, <2>6, <2>7
<1>11. p'[s[1]] >= ForcesNow[s[1]]
  <2>1. s[1] \in Urgents /\ r[1] \in Nat /\ given[s[1]] = UrgentTakeNow[s[1]][r[1]]
    BY <1>7, <1>9
  <2>2. /\ ForcesNow[s[1]] \in Nat /\ ForcesNow[s[1]] <= Sum(ForcesNow, Urgents)
        /\ Sum(ForcesNow, Urgents) \in Nat
    BY <2>1, ForcesSum, StepForces
  <2>3. ForcesNow[s[1]] <= r[1]
    BY <1>1, <1>3, <1>5, <2>2
  <2>4. ForcesNow[s[1]] <= UrgentTakeNow[s[1]][r[1]]
    BY <2>1, <2>3, StepShares
  <2>. QED
    BY <1>8, <2>1, <2>2, <2>4
<1>12. ASSUME NEW i \in 1 .. n, NEW j \in 1 .. n, i < j, s[i] \in Battery,
              p'[s[i]] < Limit(s[i], EnergyAfterStep)
       PROVE  p'[s[j]] = 0
  <2>1. given[s[i]] = r[i]
    <3>1. /\ s[i] \in Urgents /\ r[i] \in Nat /\ given[s[i]] = UrgentTakeNow[s[i]][r[i]]
      BY <1>9
    <3>2. UrgentTakeNow[s[i]][r[i]] < Limit(s[i], EnergyAfterStep)
      BY <1>8, <1>12, <3>1
    <3>. QED
      BY <1>12, <3>1, <3>2, StepShares
  <2>2. r[i + 1] = 0
    BY <1>9, <2>1
  <2>3. r[j] = 0
    <3>1. i + 1 \in 1 .. n + 1 /\ j \in i + 1 .. n + 1
      BY <1>6, <1>12
    <3>. QED
      BY <1>4, <2>2, <3>1 DEF UrgentTurn
  <2>4. s[j] \in Urgents /\ given[s[j]] = UrgentTakeNow[s[j]][0]
    BY <1>9, <2>3
  <2>5. UrgentTakeNow[s[j]][0] \in Nat /\ UrgentTakeNow[s[j]][0] <= 0
    BY <2>4, StepShares
  <2>. QED
    BY <1>8, <2>4, <2>5
<1>. QED
  BY <1>2, <1>6, <1>10, <1>11, <1>12

(* If the power covers what batteries and bakeries are forced to, they are *)
(* never given more than there is, the most urgent is given at least what  *)
(* it is forced to, and once a battery is given less than its limit        *)
(* nothing is left for the less urgent.                                    *)
THEOREM UrgentAreServedFirst == DispatchSpec => UrgentFirst
<1>1. DispatchInv /\ [DispatchNext]_dispatchVars =>
        [Step /\ order' # << >> =>
           /\ Sum(p', units \cap Urgent) <= dispatched'
           /\ p'[order'[1]] >= forced'[order'[1]]
           /\ \A i, j \in DOMAIN order' :
                i < j /\ order'[i] \in Battery /\ p'[order'[i]] < Limit(order'[i], e')
                  => p'[order'[j]] = 0]_dispatchVars
  BY StepServesUrgent DEF Urgents
<1>. QED
  BY <1>1, EnergyInvariant, PTL DEF DispatchSpec, UrgentFirst

=============================================================================

--------------------------------- MODULE BBB ---------------------------------
(***************************************************************************)
(* The agents of the BBB market over their communication service: one      *)
(* ISOServerAgent (bbb_server_agent.py) and one ISOClientAgent per client  *)
(* (bbb_client_agent.py) with its ClientCommService                        *)
(* (client_comm_service.py), orchestrated as in base.aal.  The first round *)
(* of runServer calls a function of a module that is not imported, so the  *)
(* loop ends with an exception before a dispatch is sent, and what the     *)
(* clients are sent is the message to exit.                                *)
(***************************************************************************)
EXTENDS BBBComm

Exit == 1    \* the message of sendAllExitMsg

VARIABLES
  unitList,    \* keys of ISO.unitList
  CIDList,     \* keys of CIDList
  sim,         \* runServer: "off", "sleep", "exits", "closing", "done", "died"
  listed,      \* CIDList when sendAllExitMsg began to iterate over it
  toTell,      \* those of them that were not yet sent the message
  agent,       \* of each client: "init", "waiting" in registerWithServer or for
               \* its start, "looping" in startClient, "ended"
  looping,     \* ISOClientAgent.running
  serving,     \* ClientCommService.running
  registered,  \* ClientCommService.registered
  outMap,      \* ClientCommService.valueOutMap: "register" or "empty"
  permit,      \* the count of ClientCommService.slock
  thread,      \* ClientHandler: "none", "recv", "acquired", "left", or
               \* what it died of: "sentinel", "merged", "eof", "send"
  early        \* history: clients that read the exit before startClient

serverVars == <<unitList, CIDList, sim, listed, toTell>>
agentVars == <<agent, looping>>
clientComm == <<serving, registered, outMap, permit, thread>>
clientVars == <<agentVars, clientComm, early>>
vars == <<commVars, serverVars, clientVars>>

ServerInit ==
  unitList = {} /\ CIDList = {} /\ sim = "off" /\ listed = {} /\ toTell = {}

\* initClient makes the unit; the agent has registered nowhere yet.
AgentInit ==
  /\ agent = [c \in Client |-> "init"]
  /\ looping = [c \in Client |-> FALSE]

ServiceInit ==
  /\ serving = [c \in Client |-> TRUE]
  /\ registered = [c \in Client |-> FALSE]
  /\ outMap = [c \in Client |-> "empty"]
  /\ permit = [c \in Client |-> 0]
  /\ thread = [c \in Client |-> "none"]

Init == CommInit /\ ServerInit /\ AgentInit /\ ServiceInit /\ early = {}

-----------------------------------------------------------------------------
(* The client agent.                                                       *)

\* sendMsg: the message takes the slot, and the thread may send once more.
SendMsg(c, mtype) ==
  /\ outMap' = [outMap EXCEPT ![c] = mtype]
  /\ permit' = [permit EXCEPT ![c] = @ + 1]

SendRegister(c) == SendMsg(c, "register")

\* registerWithServer connects, starts the thread and hands it the message.
RegisterWithServer(c) ==
  /\ agent[c] = "init" /\ Connect(c)
  /\ agent' = [agent EXCEPT ![c] = "waiting"]
  /\ thread' = [thread EXCEPT ![c] = "recv"]
  /\ SendRegister(c)
  /\ UNCHANGED <<serverVars, looping, serving, registered, early>>

\* It returns once the message was sent; nobody confirms that it was received.
Ready(c) == agent[c] = "waiting" /\ registered[c]

StartClient(c) ==
  /\ Ready(c) /\ sim # "off"
  /\ agent' = [agent EXCEPT ![c] = "looping"]
  /\ looping' = [looping EXCEPT ![c] = TRUE]
  /\ UNCHANGED <<commVars, serverVars, clientComm, early>>

\* mutant: the loop tests the flag of its service instead of its own.
RunClientTestsService(c) ==
  /\ agent[c] = "looping" /\ ~ serving[c]
  /\ agent' = [agent EXCEPT ![c] = "ended"]
  /\ permit' = [permit EXCEPT ![c] = @ + 1]
  /\ UNCHANGED <<commVars, serverVars, looping, serving, registered, outMap, thread, early>>

\* The loop of runClient finds that it is to end, and stops the service.
RunClientEnds(c) ==
  /\ agent[c] = "looping" /\ ~ looping[c]
  /\ agent' = [agent EXCEPT ![c] = "ended"]
  /\ serving' = [serving EXCEPT ![c] = FALSE]
  /\ permit' = [permit EXCEPT ![c] = @ + 1]
  /\ UNCHANGED <<commVars, serverVars, looping, registered, outMap, thread, early>>

ClientAgent(c) == RegisterWithServer(c) \/ RunClientEnds(c)

-----------------------------------------------------------------------------
(* ClientCommService.ClientHandler.                                        *)

\* The server closed the connection, or never took it from the backlog and
\* closed the listening socket.
ServerHungUp(c) ==
  \/ Gone(c)
  \/ handler[c] = "none" /\ acceptor = "left"
  \/ handler[c] = "none" /\ acceptor = "died" /\ up[c] = << >>

MoveThread(c, to) == thread' = [thread EXCEPT ![c] = to]

\* The test of the loop finds that the service was stopped.
ClientLeaves(c) ==
  /\ thread[c] = "recv" /\ ~ serving[c]
  /\ MoveThread(c, "left")
  /\ hungUp' = hungUp \cup {c}
  /\ UNCHANGED <<running, acceptor, valueOutMap, slock, handler, data, writing, toRelease,
                 up, down, serverVars, agentVars, serving, registered, outMap, permit, early>>

\* mutant: the semaphore is not consulted.
ClientTimeoutAlwaysSends(c) ==
  /\ thread[c] = "recv" /\ down[c] = << >> /\ ~ ServerHungUp(c)
  /\ MoveThread(c, "acquired")
  /\ UNCHANGED <<commVars, serverVars, agentVars, serving, registered, outMap, permit, early>>

ClientTimeout(c) ==
  /\ thread[c] = "recv" /\ down[c] = << >> /\ ~ ServerHungUp(c)
  /\ permit[c] > 0
  /\ permit' = [permit EXCEPT ![c] = @ - 1]
  /\ MoveThread(c, "acquired")
  /\ UNCHANGED <<commVars, serverVars, agentVars, serving, registered, outMap, early>>

\* A message to a connection the server closed is lost, or raises.
ClientSend(c) ==
  /\ thread[c] = "acquired"
  /\ \/ /\ MoveThread(c, "recv")
        /\ up' = [up EXCEPT ![c] = IF ServerHungUp(c) THEN @ ELSE Append(@, outMap[c])]
        /\ registered' = [registered EXCEPT ![c] = @ \/ outMap[c] = "register"]
        /\ outMap' = [outMap EXCEPT ![c] = "empty"]
     \/ /\ ServerHungUp(c) /\ MoveThread(c, "send")
        /\ UNCHANGED <<up, registered, outMap>>
  /\ UNCHANGED <<running, acceptor, valueOutMap, slock, handler, data, writing,
                 toRelease, down, hungUp, serverVars, agentVars, serving, permit, early>>

\* replyHandler on the exit, the only message it gets; a number in its place
\* raises.
ClientRecv(c) ==
  /\ thread[c] = "recv" /\ down[c] # << >>
  /\ down' = [down EXCEPT ![c] = Tail(@)]
  /\ IF Head(down[c]) = Exit
       THEN /\ MoveThread(c, "recv")
            /\ looping' = [looping EXCEPT ![c] = FALSE]
            /\ early' = IF agent[c] = "looping" THEN early ELSE early \cup {c}
       ELSE MoveThread(c, "sentinel") /\ UNCHANGED <<looping, early>>
  /\ UNCHANGED <<running, acceptor, valueOutMap, slock, handler, data, writing,
                 toRelease, up, hungUp, serverVars, agent, serving, registered,
                 outMap, permit>>

\* Two messages at once, or the end of the stream, do not parse, and the
\* exception that is named does not exist: the thread dies.
ClientRecvFails(c) ==
  /\ thread[c] = "recv"
  /\ \/ Len(down[c]) > 1 /\ MoveThread(c, "merged")
     \/ down[c] = << >> /\ ServerHungUp(c) /\ MoveThread(c, "eof")
  /\ down' = [down EXCEPT ![c] = << >>]
  /\ UNCHANGED <<running, acceptor, valueOutMap, slock, handler, data, writing,
                 toRelease, up, hungUp, serverVars, agentVars, serving, registered,
                 outMap, permit, early>>

ClientThread(c) ==
  ClientLeaves(c) \/ ClientTimeout(c) \/ ClientSend(c) \/ ClientRecv(c) \/ ClientRecvFails(c)

-----------------------------------------------------------------------------
(* The threads of the server's service, with ISOServerAgent.replyHandler.  *)

RegisterClient(c) ==
  /\ up[c] # << >> /\ Head(up[c]) = "register" /\ Recv(c, "register")
  /\ unitList' = unitList \cup {c}
  /\ UNCHANGED <<CIDList, sim, listed, toTell, clientVars>>

ListClient(c) ==
  /\ handler[c] = "register"
  /\ handler' = [handler EXCEPT ![c] = "recv"]
  /\ CIDList' = CIDList \cup {c}
  /\ UNCHANGED <<running, acceptor, valueOutMap, slock, data, writing, toRelease,
                 up, down, hungUp, unitList, sim, listed, toTell, clientVars>>

\* The empty map has no type: replyHandler raises.
RecvEmpty(c) == up[c] # << >> /\ Head(up[c]) = "empty" /\ Recv(c, "died")

ServerThread(c) ==
  \/ RegisterClient(c) \/ ListClient(c)
  \/ /\ \/ HandlerLeaves(c) \/ Timeout(c) \/ ReadSlot(c) \/ Send(c)
        \/ RecvEmpty(c) \/ RecvMerged(c)
     /\ UNCHANGED <<serverVars, clientVars>>

Acceptor ==
  /\ AcceptorLeaves \/ \E c \in Client : Accept(c) \/ AcceptMerged(c)
  /\ UNCHANGED <<serverVars, clientVars>>

-----------------------------------------------------------------------------
(* ISOServerAgent.                                                         *)

StartSimulation ==
  /\ sim = "off" /\ \E c \in Client : Ready(c)
  /\ sim' = "sleep"
  /\ UNCHANGED <<commVars, unitList, CIDList, listed, toTell, clientVars>>

\* After the sleep the first round raises, and "finally" begins to tell the
\* clients to exit.
FirstRound ==
  /\ sim = "sleep"
  /\ sim' = "exits" /\ listed' = CIDList /\ toTell' = CIDList
  /\ UNCHANGED <<commVars, unitList, CIDList, clientVars>>

TellExit(c) ==
  /\ sim = "exits" /\ c \in toTell /\ CIDList = listed
  /\ Assign(c, Exit)
  /\ UNCHANGED <<serverVars, clientVars>>

TellExitReleases(c) ==
  /\ Release(c)
  /\ toTell' = toTell \ {c}
  /\ UNCHANGED <<unitList, CIDList, sim, listed, clientVars>>

\* A client that registers meanwhile changes the size of the dictionary that
\* is iterated over: the thread dies of the exception, the service not stopped.
TellExitRaises ==
  /\ sim = "exits" /\ writing = {} /\ CIDList # listed
  /\ sim' = "died"
  /\ UNCHANGED <<commVars, unitList, CIDList, listed, toTell, clientVars>>

\* mutant: the service is stopped without waiting for the messages.
StopCommsEarly ==
  /\ sim = "exits" /\ CIDList = listed
  /\ CloseFlag
  /\ sim' = "closing"
  /\ UNCHANGED <<unitList, CIDList, listed, toTell, clientVars>>

StopComms ==
  /\ sim = "exits" /\ toTell = {} /\ CIDList = listed
  /\ CloseFlag
  /\ sim' = "closing"
  /\ UNCHANGED <<unitList, CIDList, listed, toTell, clientVars>>

StopReleases(c) == CloseRelease(c) /\ UNCHANGED <<serverVars, clientVars>>

RunServerEnds ==
  /\ sim = "closing" /\ toRelease = {}
  /\ sim' = "done"
  /\ UNCHANGED <<commVars, unitList, CIDList, listed, toTell, clientVars>>

RunServer ==
  \/ FirstRound \/ TellExitRaises \/ StopComms \/ RunServerEnds
  \/ \E c \in Client : TellExit(c) \/ TellExitReleases(c) \/ StopReleases(c)

-----------------------------------------------------------------------------
\* Every thread runs on; what the orchestrator starts it need not start.  Each
\* thread takes a finite number of steps, so that one condition for all of
\* them stands for one for each.
Threads ==
  \/ Acceptor \/ RunServer
  \/ \E c \in Client : ServerThread(c) \/ ClientAgent(c) \/ ClientThread(c)

Next == Threads \/ StartSimulation \/ \E c \in Client : StartClient(c)

Spec == Init /\ [][Next]_vars /\ WF_vars(Threads)

-----------------------------------------------------------------------------
(* A client that was listed when the server told its clients to exit never *)
(* gets the sentinel, on which its thread would die: stop releases the     *)
(* same semaphores again, but only after every slot was written.           *)
ListedGetNoSentinel == \A c \in listed : thread[c] # "sentinel"

(* A thread of the server dies of an exception only for a client that has  *)
(* ended: the empty map that replyHandler cannot read is sent by the last  *)
(* permit, the one of the client's own stop.                               *)
ServerThreadsSurvive ==
  \A c \in Client : handler[c] \in {"died", "broken"} => ~ serving[c]

(* runServer ends, and if it is not by an exception, every thread of the   *)
(* service ends too, whatever the clients do.                              *)
ServerEnds ==
  /\ (sim = "sleep") ~> (sim \in {"done", "died"})
  /\ \A c \in Client : (sim = "done") ~> (handler[c] = "none" \/ Gone(c))

(* A client in its loop that is listed when the server stops ends, for one *)
(* of these reasons only it does not: it read the exit before its loop     *)
(* began, and forgot it; two exits arrived as one message; or its thread   *)
(* of the server saw the service stopped before it took what was in the    *)
(* slot.                                                                   *)
ListedClientEnds ==
  \A c \in Client :
    (agent[c] = "looping" /\ sim = "done" /\ c \in listed)
      ~> \/ agent[c] = "ended" \/ c \in early \/ thread[c] = "merged"
         \/ thread[c] = "eof" /\ data[c] # Exit

=============================================================================

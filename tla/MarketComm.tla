----------------------------- MODULE MarketComm -----------------------------
(***************************************************************************)
(* The TCP service between the ISO and its clients, the generators and the *)
(* demand-response units: ServerCommService in dmm/iso/commServer.py and   *)
(* ClientCommService in dmm/generator/commClient.py (demandResponse holds  *)
(* the same file).  The actions here are the comm half of the actions of   *)
(* module ISO; they speak only of the variables declared here.             *)
(***************************************************************************)
EXTENDS Integers, Sequences

CONSTANT Client   \* the generators and the demand-response units

VARIABLES
  serverUp,    \* ServerCommService.active
  connected,   \* clients whose initCommClient has returned
  transport,   \* the clients in transportMap
  handler,     \* ServerHandler of each client: "none", "open", "last" once it has
               \* received after the service was stopped, or "left"
  dispatch,    \* stream to each client, oldest message first
  reply        \* stream from each client

commVars == <<serverUp, connected, transport, handler, dispatch, reply>>

CommInit ==
  /\ serverUp = FALSE
  /\ connected = {}
  /\ transport = {}
  /\ handler = [c \in Client |-> "none"]
  /\ dispatch = [c \in Client |-> << >>]
  /\ reply = [c \in Client |-> << >>]

InitCommServer ==
  /\ ~ serverUp /\ connected = {}
  /\ serverUp' = TRUE
  /\ UNCHANGED <<connected, transport, handler, dispatch, reply>>

\* The client loops until connect succeeds, sends its name and returns: the
\* backlog of the listening socket accepts for a server that has not yet
\* called accept.
InitCommClient(c) ==
  /\ serverUp /\ c \notin connected
  /\ connected' = connected \cup {c}
  /\ UNCHANGED <<serverUp, transport, handler, dispatch, reply>>

\* commServerThread accepts the connection, reads the name, enters the client
\* in the maps and starts its thread.
AcceptClient(c) ==
  /\ serverUp /\ c \in connected \ transport
  /\ transport' = transport \cup {c}
  /\ handler' = [handler EXCEPT ![c] = "open"]
  /\ UNCHANGED <<serverUp, connected, dispatch, reply>>

\* sendData raises for a client that is not registered, and send raises on a
\* socket its thread has closed.
CanSend(c) == c \in transport /\ handler[c] # "left"

SendData(c, msg) ==
  /\ CanSend(c)
  /\ dispatch' = [dispatch EXCEPT ![c] = Append(@, msg)]
  /\ UNCHANGED <<serverUp, connected, transport, handler, reply>>

\* The flag is tested before the receive that blocks: a thread that waits in it
\* when the service is stopped receives once more.
GoesOn(c) == handler' = [handler EXCEPT ![c] = IF serverUp THEN "open" ELSE "last"]

\* ServerHandler receives one message, and it parses.
ServerRecv(c) ==
  /\ handler[c] = "open" /\ reply[c] # << >>
  /\ reply' = [reply EXCEPT ![c] = Tail(@)]
  /\ GoesOn(c)
  /\ UNCHANGED <<serverUp, connected, transport, dispatch>>

\* Several messages received at once do not parse and are dropped.
ServerRecvMerged(c) ==
  /\ handler[c] = "open"
  /\ \E n \in 2 .. Len(reply[c]) :
       reply' = [reply EXCEPT ![c] = SubSeq(@, n + 1, Len(@))]
  /\ GoesOn(c)
  /\ UNCHANGED <<serverUp, connected, transport, dispatch>>

CommStop ==
  /\ serverUp
  /\ serverUp' = FALSE
  /\ UNCHANGED <<connected, transport, handler, dispatch, reply>>

\* Once the service is stopped every thread leaves its loop and closes its
\* socket.
ServerHandlerLeaves(c) ==
  /\ ~ serverUp /\ handler[c] \in {"open", "last"}
  /\ handler' = [handler EXCEPT ![c] = "left"]
  /\ UNCHANGED <<serverUp, connected, transport, dispatch, reply>>

CommTypeOK(Msg, Answer) ==
  /\ serverUp \in BOOLEAN
  /\ connected \subseteq Client
  /\ transport \subseteq connected
  /\ handler \in [Client -> {"none", "open", "last", "left"}]
  /\ dispatch \in [Client -> Seq(Msg)]
  /\ reply \in [Client -> Seq(Answer)]

=============================================================================

------------------------------ MODULE PronyADMM ------------------------------
(***************************************************************************)
(* The distributed Prony algorithm with its resiliency mechanism           *)
(* (rls_distributed): PronyADMM_Client.cpp, PronyADMM_Server.cpp and the   *)
(* part of rDistributed.c that starts a backup server.  In each round every *)
(* client sends its local parameters to the server and waits for their     *)
(* average.  A client that cannot write, gets nothing in time, or reads    *)
(* the end of the stream gives up its server for the next one, and starts  *)
(* that server if it is its own.  Server 0 is the main server, server c    *)
(* the backup of client c (num_of_attack = c).                             *)
(*                                                                         *)
(* Parameters are abstracted to the round they were computed in; an        *)
(* average is the round of each client it was made of.                     *)
(***************************************************************************)
EXTENDS Integers, Sequences, FiniteSets

CONSTANTS
  ClientNum,     \* the clients are 1 .. ClientNum
  Hosts,         \* backup hosts a client is given, 4 in the code
  Rounds,        \* samples of a client, one round each
  Last,          \* the round after which the server finishes, 3500 in the code
  MaxTimeouts    \* bound: timeouts though an answer is under way

Client == 1 .. ClientNum
Server == 0 .. ClientNum

ASSUME ADMMAssumption ==
  /\ ClientNum \in Nat \ {0} /\ Hosts \in Nat /\ ClientNum <= Hosts
  /\ Rounds \in Nat \ {0} /\ Last \in Nat /\ MaxTimeouts \in Nat

Finish == << >>   \* the message that the algorithm finishes: no average
Error == 0        \* what a handler thread returns for a client it cannot read

VARIABLES
  \* clients
  pc,         \* "write", "select", "read", "reread", "connect", or at its end
              \* "done", "finished", "crashed"
  k,          \* the round of each client
  numAttack,  \* num_attack, and the server of the client
  return,     \* where the client goes on when it has connected
  applied,    \* history: the last round, and the average used in it
  unheard,    \* history: the clients that a message to finish was written to
              \* and that will not see it
  \* servers
  mode,       \* "off", "accept", "collect", "broadcast", "finish", "closing",
              \* "closed"
  sockets,    \* Client_sockfd: the clients in the order they connected
  got,        \* what the handler threads of this round have returned
  next,       \* the next client the server writes to
  \* connections, by server and client
  up, down,   \* messages that were sent and not read
  left,       \* the clients that closed their connection to a running server
  \* faults
  killed,     \* the main server was killed
  timeouts    \* how many timeouts came though an answer was under way

clientVars == <<pc, k, numAttack, return, applied, unheard>>
serverVars == <<mode, sockets, got, next>>
vars == <<clientVars, serverVars, up, down, left, killed, timeouts>>

Ended == {"done", "finished", "crashed"}

\* Each process starts its client, which is to connect to the main server, and
\* one process the main server, which listens.
ClientInit ==
  /\ pc = [c \in Client |-> "connect"]
  /\ k = [c \in Client |-> 1]
  /\ numAttack = [c \in Client |-> 0]
  /\ return = [c \in Client |-> "write"]
  /\ applied = [c \in Client |-> << >>]
  /\ unheard = {}

ServerInit ==
  /\ mode = [s \in Server |-> IF s = 0 THEN "accept" ELSE "off"]
  /\ sockets = [s \in Server |-> << >>]
  /\ got = [s \in Server |-> << >>]
  /\ next = [s \in Server |-> 1]

Init ==
  /\ ClientInit /\ ServerInit
  /\ up = [s \in Server |-> [c \in Client |-> << >>]]
  /\ down = [s \in Server |-> [c \in Client |-> << >>]]
  /\ left = [s \in Server |-> {}]
  /\ killed = FALSE /\ timeouts = 0

\* The server of a client.  The hosts beyond ClientNum never run one.
Mine(c) == numAttack[c]
Runs(s) == s \in Server /\ mode[s] \notin {"off", "closed"}

\* A client that crashes takes the server in its process with it.
Down(m, c) == [m EXCEPT ![c] = IF Runs(c) THEN "closing" ELSE @]

-----------------------------------------------------------------------------
(* The client.                                                             *)

Goto(c, to) == pc' = [pc EXCEPT ![c] = to]
Send(s, c) == up' = [up EXCEPT ![s][c] = Append(@, k[c])]
Leave(s, c) == left' = [left EXCEPT ![s] = IF Runs(s) THEN @ \cup {c} ELSE @]

FinishUnread(s, c) == \E i \in DOMAIN down[s][c] : down[s][c][i] = Finish

\* mutant: the number of the attack is counted after the test of num_of_attack.
FailoverStartsLate(c, to) ==
  /\ numAttack' = [numAttack EXCEPT ![c] = @ + 1]
  /\ Leave(Mine(c), c)
  /\ return' = [return EXCEPT ![c] = to]
  /\ IF numAttack[c] + 1 > Hosts
       THEN Goto(c, "crashed") /\ mode' = Down(mode, c)
       ELSE /\ Goto(c, "connect")
            /\ mode' = IF numAttack[c] = c THEN [mode EXCEPT ![c] = "accept"] ELSE mode
  /\ unheard' = IF FinishUnread(Mine(c), c) THEN unheard \cup {c} ELSE unheard
  /\ UNCHANGED <<k, applied, sockets, got, next, up, down, killed>>

\* attackResProtocol up to the connection: the old one is shut down, the next
\* host chosen, and a server started if it is this one.  There is no host
\* after the last: the pointer is not initialised.
Failover(c, to) ==
  /\ numAttack' = [numAttack EXCEPT ![c] = @ + 1]
  /\ Leave(Mine(c), c)
  /\ return' = [return EXCEPT ![c] = to]
  /\ IF numAttack[c] + 1 > Hosts
       THEN Goto(c, "crashed") /\ mode' = Down(mode, c)
       ELSE /\ Goto(c, "connect")
            /\ mode' = IF numAttack[c] + 1 = c THEN [mode EXCEPT ![c] = "accept"] ELSE mode
  /\ unheard' = IF FinishUnread(Mine(c), c) THEN unheard \cup {c} ELSE unheard
  /\ UNCHANGED <<k, applied, sockets, got, next, up, down, killed>>

\* The loop around connect ends, and the message of the round is written to
\* the new server.
Connect(c) ==
  /\ pc[c] = "connect" /\ Runs(Mine(c))
  /\ sockets' = [sockets EXCEPT ![Mine(c)] = Append(@, c)]
  /\ Goto(c, return[c])
  /\ return' = [return EXCEPT ![c] = "write"]
  /\ IF return[c] = "write" THEN UNCHANGED up ELSE Send(Mine(c), c)
  /\ UNCHANGED <<k, numAttack, applied, unheard, mode, got, next, down, left, killed, timeouts>>

\* The first connect is tried once: without the main server the client ends.
ConnectFails(c) ==
  /\ pc[c] = "connect" /\ numAttack[c] = 0 /\ ~ Runs(0)
  /\ Goto(c, "done")
  /\ UNCHANGED <<k, numAttack, return, applied, unheard, serverVars, up, down, left, killed,
                 timeouts>>

\* A connection the server closed takes one more message, or none.
Write(c) ==
  /\ pc[c] = "write"
  /\ \/ /\ Goto(c, "select")
        /\ IF Runs(Mine(c)) THEN Send(Mine(c), c) ELSE UNCHANGED up
        /\ UNCHANGED <<k, numAttack, return, applied, unheard, serverVars, down, left, killed>>
     \/ ~ Runs(Mine(c)) /\ Failover(c, "select")
  /\ UNCHANGED timeouts

Closed(c) == ~ Runs(Mine(c))
Pending(c) == down[Mine(c)][c] # << >>

\* A server that is not running and will not be started any more.
Gone(s) == mode[s] = "closed" \/ (mode[s] = "off" /\ pc[s] \in Ended)

\* The server waits for a client that has ended, or that tries to connect to
\* one that is gone: it will never answer.
Hopeless(s) ==
  mode[s] = "accept" /\ \E d \in Client :
    numAttack[d] < s /\ (pc[d] \in Ended \/ (pc[d] = "connect" /\ Gone(Mine(d))))

SelectTimeout(c) ==
  /\ pc[c] = "select" /\ ~ Pending(c) /\ ~ Closed(c)
  /\ \/ Hopeless(Mine(c)) /\ UNCHANGED timeouts
     \/ ~ Hopeless(Mine(c)) /\ timeouts < MaxTimeouts /\ timeouts' = timeouts + 1
  /\ Failover(c, "read")

\* After select, or blocking at once after a failover.  The average is used,
\* whatever was read with it, and the next round begins.  After the last the
\* client closes its socket.
Read(c) ==
  LET s == Mine(c) IN
  /\ pc[c] \in {"select", "read", "reread"} /\ Pending(c)
  /\ \E n \in 1 .. Len(down[s][c]) :
       /\ down' = [down EXCEPT ![s][c] = SubSeq(@, n + 1, Len(@))]
       /\ unheard' = IF \E i \in 2 .. n : down[s][c][i] = Finish THEN unheard \cup {c} ELSE unheard
  /\ IF Head(down[s][c]) = Finish
       THEN Goto(c, "finished") /\ Leave(s, c) /\ UNCHANGED <<k, applied>>
       ELSE /\ applied' = [applied EXCEPT ![c] = <<k[c], Head(down[s][c])>>]
            /\ k' = [k EXCEPT ![c] = @ + 1]
            /\ IF k[c] = Rounds THEN Goto(c, "done") /\ Leave(s, c)
               ELSE Goto(c, "write") /\ UNCHANGED left
  /\ UNCHANGED <<numAttack, return, serverVars, up, killed, timeouts>>

ReadEnd(c) ==
  /\ pc[c] \in {"select", "read"} /\ Closed(c) /\ ~ Pending(c)
  /\ Failover(c, "reread")
  /\ UNCHANGED timeouts

\* The result of the second read is not tested: there is no number to parse.
RereadEnd(c) ==
  /\ pc[c] = "reread" /\ Closed(c) /\ ~ Pending(c)
  /\ Goto(c, "crashed")
  /\ mode' = Down(mode, c)
  /\ Leave(Mine(c), c)
  /\ UNCHANGED <<k, numAttack, return, applied, unheard, sockets, got, next, up, down,
                 killed, timeouts>>

ClientStep(c) ==
  \/ Connect(c) \/ ConnectFails(c) \/ Write(c) \/ SelectTimeout(c)
  \/ Read(c) \/ ReadEnd(c) \/ RereadEnd(c)

-----------------------------------------------------------------------------
(* The server.                                                             *)

Accepted(s) == {sockets[s][i] : i \in DOMAIN sockets[s]}

AcceptAll(s) ==
  /\ mode[s] = "accept" /\ Len(sockets[s]) = ClientNum
  /\ mode' = [mode EXCEPT ![s] = "collect"]
  /\ UNCHANGED <<clientVars, sockets, got, next, up, down, left, killed, timeouts>>

Unread(s, c) == mode[s] = "collect" /\ c \in Accepted(s) \ DOMAIN got[s]

Return(s, c, result) ==
  got' = [got EXCEPT ![s] = [d \in DOMAIN @ \cup {c} |-> IF d = c THEN result ELSE @[d]]]

\* Server_handle, one thread per client and round, in any order.
HandleRead(s, c) ==
  /\ Unread(s, c) /\ up[s][c] # << >>
  /\ Return(s, c, Head(up[s][c]))
  /\ up' = [up EXCEPT ![s][c] = Tail(@)]
  /\ UNCHANGED <<clientVars, mode, sockets, next, down, left, killed, timeouts>>

HandleError(s, c) ==
  /\ Unread(s, c) /\ up[s][c] = << >>
  /\ \/ c \in left[s] /\ UNCHANGED timeouts
     \/ c \notin left[s] /\ timeouts < MaxTimeouts /\ timeouts' = timeouts + 1
  /\ Return(s, c, Error)
  /\ UNCHANGED <<clientVars, mode, sockets, next, up, down, left, killed>>

AllReturned(s) == mode[s] = "collect" /\ DOMAIN got[s] = Client

\* mutant: the server goes on with the clients it could read.
StopOnlyIfAllFail(s) ==
  /\ AllReturned(s) /\ \A c \in Client : got[s][c] = Error
  /\ mode' = [mode EXCEPT ![s] = "closing"]
  /\ got' = [got EXCEPT ![s] = << >>]
  /\ UNCHANGED <<clientVars, sockets, next, up, down, left, killed, timeouts>>

\* An error of one client ends the loop; no one is told.
Stop(s) ==
  /\ AllReturned(s) /\ \E c \in Client : got[s][c] = Error
  /\ mode' = [mode EXCEPT ![s] = "closing"]
  /\ got' = [got EXCEPT ![s] = << >>]
  /\ UNCHANGED <<clientVars, sockets, next, up, down, left, killed, timeouts>>

Average(s) ==
  /\ AllReturned(s) /\ \A c \in Client : got[s][c] # Error
  /\ mode' = [mode EXCEPT ![s] = "broadcast"]
  /\ next' = [next EXCEPT ![s] = 1]
  /\ UNCHANGED <<clientVars, sockets, got, up, down, left, killed, timeouts>>

\* Iteration is that of the client that connected last.
Iteration(s) == got[s][sockets[s][ClientNum]]

WriteTo(s, msg) ==
  LET c == sockets[s][next[s]] IN
  /\ down' = [down EXCEPT ![s][c] = IF c \in left[s] THEN @ ELSE Append(@, msg)]
  /\ next' = [next EXCEPT ![s] = IF @ = ClientNum THEN 1 ELSE @ + 1]

\* mutant: what was collected in the last round counts in the next one.
BroadcastKeepsOne(s) ==
  /\ mode[s] = "broadcast"
  /\ WriteTo(s, got[s])
  /\ IF next[s] < ClientNum THEN UNCHANGED <<mode, got>>
     ELSE /\ mode' = [mode EXCEPT ![s] = IF Iteration(s) < Last THEN "collect" ELSE "finish"]
          /\ got' = [got EXCEPT ![s] = [c \in {1} |-> @[1]]]
  /\ UNCHANGED <<clientVars, sockets, up, left, killed, timeouts>>

\* mutant: the server closes after its last average and tells no one.
BroadcastEndsSilently(s) ==
  /\ mode[s] = "broadcast"
  /\ WriteTo(s, got[s])
  /\ IF next[s] < ClientNum THEN UNCHANGED <<mode, got>>
     ELSE /\ mode' = [mode EXCEPT ![s] = IF Iteration(s) < Last THEN "collect" ELSE "closing"]
          /\ got' = [got EXCEPT ![s] = << >>]
  /\ UNCHANGED <<clientVars, sockets, up, left, killed, timeouts>>

Broadcast(s) ==
  /\ mode[s] = "broadcast"
  /\ WriteTo(s, got[s])
  /\ IF next[s] < ClientNum THEN UNCHANGED <<mode, got>>
     ELSE /\ mode' = [mode EXCEPT ![s] = IF Iteration(s) < Last THEN "collect" ELSE "finish"]
          /\ got' = [got EXCEPT ![s] = << >>]
  /\ UNCHANGED <<clientVars, sockets, up, left, killed, timeouts>>

WriteFinish(s) ==
  /\ mode[s] = "finish"
  /\ WriteTo(s, Finish)
  /\ mode' = IF next[s] < ClientNum THEN mode ELSE [mode EXCEPT ![s] = "closing"]
  /\ UNCHANGED <<clientVars, sockets, got, up, left, killed, timeouts>>

\* Closing a connection with a message unread may take back those under way,
\* the message to finish too.  What the server held is gone with its
\* connections.
CloseAll(s) ==
  /\ mode' = [mode EXCEPT ![s] = "closed"]
  /\ \E lost \in SUBSET {c \in Client : up[s][c] # << >>} :
       /\ down' = [down EXCEPT ![s] = [c \in Client |-> IF c \in lost THEN << >> ELSE @[c]]]
       /\ unheard' = unheard \cup {c \in lost : FinishUnread(s, c)}
  /\ sockets' = [sockets EXCEPT ![s] = << >>]
  /\ got' = [got EXCEPT ![s] = << >>]
  /\ next' = [next EXCEPT ![s] = 1]
  /\ up' = [up EXCEPT ![s] = [c \in Client |-> << >>]]
  /\ left' = [left EXCEPT ![s] = {}]
  /\ UNCHANGED <<pc, k, numAttack, return, applied, timeouts>>

Close(s) == mode[s] = "closing" /\ CloseAll(s) /\ UNCHANGED killed

ServerStep(s) ==
  \/ AcceptAll(s) \/ Stop(s) \/ Average(s) \/ Broadcast(s) \/ WriteFinish(s) \/ Close(s)
  \/ \E c \in Client : HandleRead(s, c) \/ HandleError(s, c)

\* The operator ends the main server.
Kill ==
  /\ ~ killed /\ mode[0] # "closed"
  /\ killed' = TRUE
  /\ CloseAll(0)

Next ==
  \/ Kill
  \/ \E c \in Client : ClientStep(c)
  \/ \E s \in Server : ServerStep(s)

\* Clients and servers run on, and a timeout comes when no answer can.
Spec ==
  /\ Init /\ [][Next]_vars
  /\ \A c \in Client : WF_vars(ClientStep(c) /\ UNCHANGED timeouts)
  /\ \A s \in Server : WF_vars(ServerStep(s) /\ UNCHANGED timeouts)

-----------------------------------------------------------------------------
(* The average a client uses in a round was made with what it sent in this *)
(* round, on whatever server: none is left over from a server it gave up,  *)
(* none is a round late.                                                   *)
OwnRoundIsAveraged ==
  \A c \in Client : applied[c] # << >> => applied[c][2][c] = applied[c][1]

(* The rounds an average is made of differ by no more than the number of   *)
(* servers that were lost before: the main server averages one round only, *)
(* and each server lost in the middle of its broadcast sets the clients    *)
(* apart by one round at most.                                             *)
AveragesDrift ==
  \A s \in Server : DOMAIN got[s] = Client =>
    \A c, d \in Client : got[s][c] # Error /\ got[s][d] # Error => got[s][c] - got[s][d] <= s

(* A server that a client gave up, or left at its end, stops: the others   *)
(* are not kept waiting for an average that cannot come.                   *)
LeftServerStops ==
  \A s \in Server :
    (mode[s] = "collect" /\ left[s] # {}) ~> (mode[s] = "closed")

(* Without a fault every client comes to its end with the main server, and *)
(* gives it up for no other.  Excepted is a client, and that one only,     *)
(* that the main server wrote the message to finish to and that cannot see *)
(* it: it read the message with the last average, or had sent its next     *)
(* round and the close took the message back, or could not write its next  *)
(* round and left the message unread.                                      *)
FaultFreeRunEnds ==
  <>(\/ killed \/ timeouts > 0
     \/ \A c \in Client : \/ pc[c] \in {"done", "finished"} /\ numAttack[c] = 0
                          \/ c \in unheard)

(* The resiliency mechanism: a server ended while every client waits for   *)
(* its answer costs no round before the last.  The clients meet at the     *)
(* backup server of client 1, though one of them may be a round behind.    *)
LastRound == IF Last < Rounds THEN Last ELSE Rounds

SurvivesKill ==
  (killed /\ \A c \in Client : pc[c] = "select" /\ numAttack[c] = 0 /\ k[c] < LastRound)
    ~> (timeouts > 0 \/ \A c \in Client : k[c] >= LastRound)

-----------------------------------------------------------------------------
(* What the safety properties rest on.  Two histories that no variable     *)
(* keeps are parameters: the round base[s][c] in which client c came to    *)
(* server s, and the number turn[s] of averages server s has made.         *)

Waiting == {"select", "read", "reread"}
Served(c) == pc[c] \in {"write"} \cup Waiting
At(s, c) == numAttack[c] = s /\ Served(c)
NotYet(s, c) == numAttack[c] < s \/ (numAttack[c] = s /\ pc[c] = "connect")

Active(s) == mode[s] \in {"accept", "collect", "broadcast"}
Untold(s, c) ==
  mode[s] = "broadcast" /\ \E j \in next[s] .. Len(sockets[s]) : sockets[s][j] = c
Told(s, c) == down[s][c] # << >> /\ down[s][c][1] # Finish

Msg == {Finish} \cup [Client -> Nat]

(* Every variable keeps its type.                                          *)
TypeOK ==
  /\ pc \in [Client -> {"write", "select", "read", "reread", "connect"} \cup Ended]
  /\ k \in [Client -> Nat \ {0}]
  /\ numAttack \in [Client -> 0 .. Hosts + 1]
  /\ return \in [Client -> {"write"} \cup Waiting]
  /\ applied \in [Client -> {<< >>} \cup (Nat \X [Client -> Nat])]
  /\ mode \in [Server -> {"off", "accept", "collect", "broadcast", "finish",
                          "closing", "closed"}]
  /\ sockets \in [Server -> Seq(Client)]
  /\ got = [s \in Server |-> got[s]]
  /\ \A s \in Server : DOMAIN got[s] \subseteq Client /\ got[s] \in [DOMAIN got[s] -> Nat]
  /\ next \in [Server -> 1 .. ClientNum]
  /\ up \in [Server -> [Client -> Seq(Nat)]]
  /\ down \in [Server -> [Client -> Seq(Msg)]]
  /\ left \in [Server -> SUBSET Client]

\* Whom a server has accepted, and when it is started.
ServerInv(turn, s) ==
  /\ \A i, j \in 1 .. Len(sockets[s]) : sockets[s][i] = sockets[s][j] => i = j
  /\ mode[s] \in {"collect", "broadcast", "finish"} => Len(sockets[s]) = ClientNum
  /\ mode[s] \in {"off", "accept"} => turn[s] = 0 /\ got[s] = << >>
  /\ mode[s] = "off" => sockets[s] = << >> /\ \A c \in Client : up[s][c] = << >>
  /\ mode[s] = "broadcast" => turn[s] > 0
  /\ turn[s] > 0 /\ mode[s] # "closed" => Client \subseteq Accepted(s)
  /\ s \in Client /\ numAttack[s] < s => mode[s] = "off"
  /\ DOMAIN got[s] \subseteq Accepted(s)

\* What a server has read is of one round of its own for all clients.
GotInv(base, turn, s) ==
  /\ \/ \A c \in DOMAIN got[s] : got[s][c] \in {Error, base[s][c] + turn[s]}
     \/ \A c \in DOMAIN got[s] : got[s][c] = base[s][c] + turn[s] - 1
  /\ mode[s] = "collect" =>
       \A c \in DOMAIN got[s] : got[s][c] \in {Error, base[s][c] + turn[s]}
  /\ mode[s] = "broadcast" =>
       /\ DOMAIN got[s] = Client
       /\ \A c \in Client : got[s][c] = base[s][c] + turn[s] - 1

\* The client has sent the message of the round that server s collects.
Sent(base, turn, s, c) ==
  /\ At(s, c) => pc[c] \in Waiting /\ ~ Told(s, c)
  /\ numAttack[c] > s => base[s + 1][c] - base[s][c] = turn[s]

\* One message of a client is under way, or was read in this round.
UpInv(base, turn, s, c) ==
  /\ Active(s) /\ up[s][c] # << >> =>
       /\ up[s][c] = <<base[s][c] + turn[s]>>
       /\ ~ Untold(s, c) /\ Sent(base, turn, s, c)
  /\ mode[s] = "collect" /\ c \in DOMAIN got[s] /\ got[s][c] # Error =>
       up[s][c] = << >> /\ Sent(base, turn, s, c)

\* A client and its server: the client has used every average of the server,
\* or it has the last one still to read, or to be sent.
SeatInv(base, turn, s, c) ==
  At(s, c) =>
    /\ mode[s] # "off" /\ c \notin left[s]
    /\ \A j \in DOMAIN down[s][c] : j > 1 => down[s][c][j] = Finish
    /\ pc[c] = "write" => ~ Told(s, c)
    /\ Told(s, c) => /\ down[s][c][1][c] = k[c]
                     /\ k[c] + 1 = base[s][c] + turn[s]
    /\ ~ Told(s, c) => k[c] - base[s][c] \in {turn[s] - 1, turn[s]}
    /\ Active(s) => /\ down[s][c] = << >> \/ (Len(down[s][c]) = 1 /\ Told(s, c))
                    /\ ~ Told(s, c) /\ ~ Untold(s, c) => k[c] = base[s][c] + turn[s]
    /\ Untold(s, c) => /\ ~ Told(s, c) /\ pc[c] \in Waiting
                       /\ k[c] = base[s][c] + turn[s] - 1

ClientInv(base, c) ==
  /\ Served(c) => numAttack[c] \in Server
  /\ pc[c] = "connect" => base[numAttack[c]][c] = k[c]
  /\ applied[c] # << >> => applied[c][2][c] = applied[c][1]

\* A client that has not come to a server yet is not known there; one that
\* has gone on has used all of its averages, or all but the last.
PairInv(base, turn, s, c) ==
  /\ NotYet(s, c) => /\ up[s][c] = << >> /\ down[s][c] = << >>
                     /\ c \notin left[s] /\ c \notin Accepted(s)
  /\ numAttack[c] > s => base[s + 1][c] - base[s][c] \in {turn[s] - 1, turn[s]}
  /\ SeatInv(base, turn, s, c)
  /\ UpInv(base, turn, s, c)

\* Each server sets the clients apart by one round at most.
BaseInv(base) ==
  \A s \in Server : \A c, d \in Client :
    numAttack[c] >= s /\ numAttack[d] >= s => base[s][c] - base[s][d] <= s

RoundsInv(base, turn) ==
  /\ \A s \in Server : ServerInv(turn, s) /\ GotInv(base, turn, s)
  /\ \A c \in Client : ClientInv(base, c)
  /\ \A s \in Server, c \in Client : PairInv(base, turn, s, c)
  /\ BaseInv(base)

=============================================================================

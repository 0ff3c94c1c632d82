-------------------------------- MODULE ISO --------------------------------
(***************************************************************************)
(* The independent system operator of the market (dmm/iso/iso.py).         *)
(*                                                                         *)
(* One thread, runSimulation, runs the rounds of the market: it dispatches *)
(* power to the clients, sleeps, takes whatever gradients have come in,    *)
(* takes silent generators out of the market while the grid reports a      *)
(* frequency error, and computes the next dispatch.  Concurrently one      *)
(* thread per client stores the replies, and the messages of the grid and  *)
(* of the operator arrive at any time.  No step of the loop waits for a    *)
(* reply: its sleeps only say how long the others probably get.            *)
(*                                                                         *)
(* The linear algebra is abstracted: the new dispatch of an active         *)
(* generator is any amount in Power, and a gradient is the round it was    *)
(* computed for.  What is kept is which generators a vector or a matrix    *)
(* has entries for.                                                        *)
(***************************************************************************)
EXTENDS MarketComm, FiniteSets

CONSTANTS
  NGen,       \* number of generators, N_gen
  Dr,         \* the demand-response units
  NIter,      \* number of rounds, N_iter
  Silence,    \* rounds without a reply that count as an outage, 10
  Power,      \* the amounts of power a dispatch or a reply may carry
  Shipped     \* generators for which AGCDR_agent_removed_gen-<n>.mat exists

Gen    == 0 .. NGen - 1
Rounds == 0 .. NIter - 1
Slots  == 0 .. NIter

ASSUME ISOAssumption ==
  /\ NGen \in Nat /\ NIter \in Nat \ {0} /\ Silence \in Nat
  /\ Client = Gen \cup Dr /\ Gen \cap Dr = {} /\ IsFiniteSet(Dr)
  /\ Power \subseteq Int \ {0} /\ Power # {}
  /\ Shipped \subseteq Gen

VARIABLES
  sim,              \* where runSimulation is
  k,                \* its round
  todo,             \* what its inner loop still has to visit
  active,           \* cleared by stopAgent
  xi,               \* xi[j][g]: the power of g in round j
  P_G,              \* column k of P_G, split from xi when round k began
  statusGens,       \* is the generator part of the market?
  inactivePgLoad,   \* the power booked for a generator taken out
  lastHeard,        \* lastHeardFromGenMap
  grad_f_current,   \* round of the last gradient received, -1 for none
  grad_f,           \* grad_f[j][c]: the gradient used in round j
  freqErrorStatus,  \* as last told by the grid
  config,           \* the generators the loaded matrices leave out
  msg,              \* the reply each client's thread handles
  hpc,              \* where responseHandler is in it
  removedAt         \* history: round in which a generator was taken out, or -1

simVars == <<sim, k, todo, active>>
marketVars == <<xi, P_G, statusGens, inactivePgLoad, config, removedAt>>
heardVars == <<lastHeard, grad_f_current, grad_f>>
respVars == <<msg, hpc>>
isoVars == <<simVars, marketVars, heardVars, freqErrorStatus, respVars>>
vars == <<commVars, isoVars>>

Dispatch == [k : Rounds, pg : Int]
Reply    == [k : Rounds, pg : Int]
NoMsg    == [k |-> 0, pg |-> 0]   \* between two messages

Inactive == {g \in Gen : ~ statusGens[g]}
Least(S) == CHOOSE x \in S : \A y \in S : x <= y

-----------------------------------------------------------------------------
(* runSimulation.                                                          *)

\* The experiment's procedure waits for every initCommClient to return before
\* it calls runAgent.
RunAgent ==
  /\ sim = "off" /\ connected = Client
  /\ sim' = "top"
  /\ UNCHANGED <<commVars, k, todo, active, marketVars, heardVars, freqErrorStatus, respVars>>

EndLoop ==
  /\ sim = "top" /\ (~ active \/ k = NIter)
  /\ sim' = "done"
  /\ UNCHANGED <<commVars, k, todo, active, marketVars, heardVars, freqErrorStatus, respVars>>

\* One more round without an answer for everybody, and x is split.
BeginRound ==
  /\ sim = "top" /\ active /\ k < NIter
  /\ lastHeard' = [g \in Gen |-> lastHeard[g] + 1]
  /\ P_G' = xi[k]
  /\ sim' = "pg" /\ todo' = Gen
  /\ UNCHANGED <<commVars, k, active, xi, statusGens, inactivePgLoad, config, removedAt,
                 grad_f_current, grad_f, freqErrorStatus, respVars>>

\* sendPg, for the next generator: skip one that is out of the market, and
\* die with the exception of sendData if it cannot be reached.
SendPg ==
  /\ sim = "pg" /\ todo # {}
  /\ LET g == Least(todo) IN
       \/ /\ ~ statusGens[g]
          /\ sim' = sim
          /\ UNCHANGED commVars
       \/ /\ statusGens[g]
          /\ SendData(g, [k |-> k, pg |-> P_G[g]])
          /\ sim' = sim
       \/ /\ statusGens[g] /\ ~ CanSend(g)
          /\ sim' = "died"
          /\ UNCHANGED commVars
  /\ todo' = todo \ {Least(todo)}
  /\ UNCHANGED <<k, active, marketVars, heardVars, freqErrorStatus, respVars>>

EndSendPg ==
  /\ sim = "pg" /\ todo = {}
  /\ sim' = "pdr" /\ todo' = Dr
  /\ UNCHANGED <<commVars, k, active, marketVars, heardVars, freqErrorStatus, respVars>>

\* sendPdr, for the next demand-response unit; none is ever taken out.
SendPdr ==
  /\ sim = "pdr"
  /\ \E d \in todo :
       /\ \/ SendData(d, [k |-> k, pg |-> 0]) /\ sim' = sim
          \/ ~ CanSend(d) /\ sim' = "died" /\ UNCHANGED commVars
       /\ todo' = todo \ {d}
  /\ UNCHANGED <<k, active, marketVars, heardVars, freqErrorStatus, respVars>>

\* theta goes to the grid, and the loop sleeps for a second.
SendTheta ==
  /\ sim = "pdr" /\ todo = {}
  /\ sim' = "sleep"
  /\ UNCHANGED <<commVars, k, todo, active, marketVars, heardVars, freqErrorStatus, respVars>>

\* Waits for the gradients of the round.
WaitForGradients ==
  /\ sim = "sleep"
  /\ \A g \in Gen : statusGens[g] => grad_f_current[g] = k
  /\ grad_f' = [grad_f EXCEPT ![k] = grad_f_current]
  /\ sim' = "freq"
  /\ UNCHANGED <<commVars, k, todo, active, marketVars, lastHeard, grad_f_current,
                 freqErrorStatus, respVars>>

TakeGradients ==
  /\ sim = "sleep"
  /\ grad_f' = [grad_f EXCEPT ![k] = grad_f_current]
  /\ sim' = "freq"
  /\ UNCHANGED <<commVars, k, todo, active, marketVars, lastHeard, grad_f_current,
                 freqErrorStatus, respVars>>

\* Without the selection of the silent ones.
AllGenerators == Gen

\* Lines 213-215: the generators not heard of for too long, removed or not.
ErrorGens == {g \in Gen : lastHeard[g] > Silence}

CheckFrequency ==
  /\ sim = "freq"
  /\ todo' = IF freqErrorStatus /\ (\E g \in Gen : lastHeard[g] > Silence)
             THEN ErrorGens ELSE {}
  /\ sim' = "remove"
  /\ UNCHANGED <<commVars, k, active, marketVars, heardVars, freqErrorStatus, respVars>>

\* removeGenerator without its early return.
RemoveAgain(g) ==
  /\ statusGens' = [statusGens EXCEPT ![g] = FALSE]
  /\ inactivePgLoad' = [inactivePgLoad EXCEPT ![g] = P_G[g]]
  /\ removedAt' = [removedAt EXCEPT ![g] = k]
  /\ IF g \in Shipped
     THEN config' = {g} /\ sim' = sim
     ELSE config' = config /\ sim' = "died"
  /\ UNCHANGED <<xi, P_G>>

\* Loads the file of the next generator.
RemoveOffByOne(g) ==
  \/ /\ ~ statusGens[g]
     /\ sim' = sim
     /\ UNCHANGED marketVars
  \/ /\ statusGens[g]
     /\ statusGens' = [statusGens EXCEPT ![g] = FALSE]
     /\ inactivePgLoad' = [inactivePgLoad EXCEPT ![g] = P_G[g]]
     /\ removedAt' = [removedAt EXCEPT ![g] = k]
     /\ config' = {(g + 1) % NGen} /\ sim' = sim
     /\ UNCHANGED <<xi, P_G>>

\* removeGenerator: the status changes before the file of the remaining
\* system is opened, and that file leaves out this generator only.
RemoveGenerator(g) ==
  \/ /\ ~ statusGens[g]
     /\ sim' = sim
     /\ UNCHANGED marketVars
  \/ /\ statusGens[g]
     /\ statusGens' = [statusGens EXCEPT ![g] = FALSE]
     /\ inactivePgLoad' = [inactivePgLoad EXCEPT ![g] = P_G[g]]
     /\ removedAt' = [removedAt EXCEPT ![g] = k]
     /\ IF g \in Shipped
        THEN config' = {g} /\ sim' = sim
        ELSE config' = config /\ sim' = "died"
     /\ UNCHANGED <<xi, P_G>>

RemoveNext ==
  /\ sim = "remove" /\ todo # {}
  /\ RemoveGenerator(Least(todo))
  /\ todo' = todo \ {Least(todo)}
  /\ UNCHANGED <<commVars, k, active, heardVars, freqErrorStatus, respVars>>

\* The vectors trimmed by getActive have as many entries as the matrices of
\* the loaded configuration have rows.
ShapesFit == Cardinality(Inactive) = Cardinality(config)

\* Off by one.
ExpandTooFar(x) ==
  [g \in 0 .. NGen |-> IF g \in Gen /\ statusGens[g] THEN x[g] ELSE 0]

\* getFull: a generator that is out gets the amount 0.
GetFull(x) ==
  [g \in Gen |-> IF statusGens[g] THEN x[g] ELSE 0]

\* The rest of the round.  A product of matrices whose shapes do not fit
\* raises, and the thread is gone.
Compute ==
  /\ sim = "remove" /\ todo = {}
  /\ \/ /\ ShapesFit
        /\ \E x \in [Gen -> Power] : xi' = [xi EXCEPT ![k + 1] = GetFull(x)]
        /\ k' = k + 1
        /\ sim' = "top"
     \/ /\ ~ ShapesFit
        /\ sim' = "died"
        /\ UNCHANGED <<xi, k>>
  /\ UNCHANGED <<commVars, todo, active, P_G, statusGens, inactivePgLoad, config,
                 removedAt, heardVars, freqErrorStatus, respVars>>

-----------------------------------------------------------------------------
(* responseHandler, in the thread of each client.                          *)

\* Datagrams instead of a stream.
ReceiveGradFInAnyOrder(c) ==
  /\ hpc[c] = "idle" /\ serverUp /\ handler[c] = "open"
  /\ \E i \in DOMAIN reply[c] :
       /\ reply' = [reply EXCEPT ![c] = SubSeq(@, 1, i - 1) \o SubSeq(@, i + 1, Len(@))]
       /\ msg' = [msg EXCEPT ![c] = IF c \in Gen THEN reply[c][i] ELSE NoMsg]
       /\ grad_f_current' = [grad_f_current EXCEPT ![c] = reply[c][i].k]
  /\ hpc' = [hpc EXCEPT ![c] = IF c \in Gen THEN "pg" ELSE "idle"]
  /\ UNCHANGED <<serverUp, connected, transport, handler, dispatch, simVars, marketVars,
                 lastHeard, grad_f, freqErrorStatus>>

ReceiveGradF(c) ==
  /\ hpc[c] = "idle"
  /\ ServerRecv(c)
  /\ msg' = [msg EXCEPT ![c] = IF c \in Gen THEN Head(reply[c]) ELSE NoMsg]
  /\ grad_f_current' = [grad_f_current EXCEPT ![c] = Head(reply[c]).k]
  /\ hpc' = [hpc EXCEPT ![c] = IF c \in Gen THEN "pg" ELSE "idle"]
  /\ UNCHANGED <<simVars, marketVars, lastHeard, grad_f, freqErrorStatus>>

\* Into the current round instead of the round of the reply.
PowerIntoThisRound(g) ==
  /\ hpc[g] = "pg"
  /\ xi' = [xi EXCEPT ![k][g] = msg[g].pg]
  /\ hpc' = [hpc EXCEPT ![g] = "heard"]
  /\ UNCHANGED <<commVars, simVars, P_G, statusGens, inactivePgLoad, config, removedAt,
                 heardVars, freqErrorStatus, msg>>

\* receivePgReply: the reply of a generator replaces the power of its round.
ReceivePower(g) ==
  /\ hpc[g] = "pg"
  /\ xi' = [xi EXCEPT ![msg[g].k][g] = msg[g].pg]
  /\ hpc' = [hpc EXCEPT ![g] = "heard"]
  /\ UNCHANGED <<commVars, simVars, P_G, statusGens, inactivePgLoad, config, removedAt,
                 heardVars, freqErrorStatus, msg>>

MarkHeard(g) ==
  /\ hpc[g] = "heard"
  /\ lastHeard' = [lastHeard EXCEPT ![g] = 0]
  /\ hpc' = [hpc EXCEPT ![g] = "idle"]
  /\ msg' = [msg EXCEPT ![g] = NoMsg]
  /\ UNCHANGED <<commVars, simVars, marketVars, grad_f_current, grad_f, freqErrorStatus>>

DropMerged(c) == hpc[c] = "idle" /\ ServerRecvMerged(c) /\ UNCHANGED isoVars

-----------------------------------------------------------------------------
(* Messages of the grid and of the operator, and the service's own steps.  *)

ReceiveFreqErrorNotice(status) ==
  /\ freqErrorStatus' = status
  /\ UNCHANGED <<commVars, simVars, marketVars, heardVars, respVars>>

StopAgent ==
  /\ active /\ sim # "off"
  /\ active' = FALSE
  /\ UNCHANGED <<commVars, sim, k, todo, marketVars, heardVars, freqErrorStatus, respVars>>

\* The agent method stop ends the service, not the loop.
Stop == CommStop /\ UNCHANGED isoVars

Connection ==
  /\ \/ InitCommServer
     \/ \E c \in Client : InitCommClient(c) \/ AcceptClient(c)
     \/ \E c \in Client : hpc[c] = "idle" /\ ServerHandlerLeaves(c)
  /\ UNCHANGED isoVars

-----------------------------------------------------------------------------
(* The environment.  A client takes its oldest message and answers it or   *)
(* not; the grid tells a frequency error, and its end, at any time.        *)

ClientAnswers(c) ==
  /\ dispatch[c] # << >>
  /\ dispatch' = [dispatch EXCEPT ![c] = Tail(@)]
  /\ \/ \E p \in Power :
          reply' = [reply EXCEPT ![c] = Append(@, [k |-> Head(dispatch[c]).k, pg |-> p])]
     \/ reply' = reply
  /\ UNCHANGED <<serverUp, connected, transport, handler, isoVars>>

GridNotice ==
  sim # "off" /\ ReceiveFreqErrorNotice(~ freqErrorStatus)

-----------------------------------------------------------------------------
IsoInit ==
  /\ CommInit
  /\ sim = "off" /\ k = 0 /\ todo = {} /\ active = TRUE
  /\ xi \in {[j \in Slots |-> [g \in Gen |-> IF j = 0 THEN x[g] ELSE 0]] :
                x \in [Gen -> Power]}
  /\ P_G = xi[0]
  /\ statusGens = [g \in Gen |-> TRUE]
  /\ inactivePgLoad = [g \in Gen |-> 0]
  /\ lastHeard = [g \in Gen |-> 0]
  /\ grad_f_current = [c \in Client |-> -1]
  /\ grad_f = [j \in Rounds |-> [c \in Client |-> -1]]
  /\ freqErrorStatus = FALSE
  /\ config = {}
  /\ msg = [c \in Client |-> NoMsg]
  /\ hpc = [c \in Client |-> "idle"]
  /\ removedAt = [g \in Gen |-> -1]

SimStep ==
  \/ EndLoop \/ BeginRound \/ SendPg \/ EndSendPg \/ SendPdr \/ SendTheta
  \/ TakeGradients \/ CheckFrequency \/ RemoveNext \/ Compute

Response(c) ==
  \/ ReceiveGradF(c) \/ DropMerged(c)
  \/ c \in Gen /\ (ReceivePower(c) \/ MarkHeard(c))

IsoStep ==
  \/ RunAgent \/ SimStep \/ StopAgent \/ Stop \/ Connection
  \/ \E c \in Client : Response(c)

Next ==
  \/ IsoStep
  \/ \E c \in Client : ClientAnswers(c)
  \/ GridNotice

Spec == IsoInit /\ [][Next]_vars

\* The thread of the loop is never blocked, so the scheduler runs it on.
FairSpec == Spec /\ WF_vars(SimStep)

-----------------------------------------------------------------------------
(* Every variable keeps its type.                                          *)
TypeOK ==
  /\ CommTypeOK(Dispatch, Reply)
  /\ sim \in {"off", "top", "pg", "pdr", "sleep", "freq", "remove", "done", "died"}
  /\ k \in Slots /\ todo \subseteq Client /\ active \in BOOLEAN
  /\ xi \in [Slots -> [Gen -> Int]]
  /\ P_G \in [Gen -> Int]
  /\ statusGens \in [Gen -> BOOLEAN]
  /\ inactivePgLoad \in [Gen -> Int]
  /\ lastHeard \in [Gen -> Nat]
  /\ grad_f_current \in [Client -> Rounds \cup {-1}]
  /\ grad_f \in [Rounds -> [Client -> Rounds \cup {-1}]]
  /\ freqErrorStatus \in BOOLEAN
  /\ config \subseteq Gen
  /\ msg \in [Client -> Reply]
  /\ hpc \in [Client -> {"idle", "pg", "heard"}]
  /\ removedAt \in [Gen -> Rounds \cup {-1}]

(* A generator is counted once.  One that is in the market has no power    *)
(* booked as lost load; one that is out supplies nothing in any round      *)
(* after the one it was taken out in, although its late replies are still  *)
(* stored and its thread still runs.                                       *)
CountedOnce ==
  \A g \in Gen :
    /\ statusGens[g] => inactivePgLoad[g] = 0 /\ removedAt[g] = -1
    /\ ~ statusGens[g] => \A j \in removedAt[g] + 1 .. NIter : xi[j][g] = 0

(* A generator is taken out only after more than Silence rounds without a  *)
(* reply.  The one exception the code leaves open: its reply arrives after *)
(* the silent generators have been listed, and then its count is 0 again.  *)
RemovedOnlyIfSilent ==
  [][\A g \in Gen : statusGens[g] /\ ~ statusGens'[g]
        => lastHeard[g] > Silence \/ lastHeard[g] = 0]_vars

(* The power booked for a generator that is out never changes again,       *)
(* though the generator stays among the silent ones in every later round.  *)
LoadIsKept ==
  [][\A g \in Gen : ~ statusGens[g] => inactivePgLoad'[g] = inactivePgLoad[g]]_vars

(* A price is computed only with matrices made for exactly the generators  *)
(* that are in the market.                                                 *)
MatricesFitMarket == [][k' # k => config = Inactive]_vars

(* The gradient of a client used in a round is never older than the one    *)
(* used in an earlier round, and never from a later round.                 *)
GradientsAdvance ==
  \A c \in Client : \A j \in Rounds :
    /\ grad_f[j][c] <= j
    /\ \A i \in 0 .. j - 1 : j < k => grad_f[i][c] <= grad_f[j][c]

(* The loop waits for nobody: once started it reaches its last round, or   *)
(* an exception, whatever the clients, the grid and the operator do.       *)
LoopEnds == (sim = "top") ~> (sim \in {"done", "died"})

-----------------------------------------------------------------------------
(* What the properties above rest on: each of these is inductive, together *)
(* with the ones before it.                                                *)

\* For TypeOK: inside a round there is an entry k + 1 to compute, and the loop
\* visits generators, or the demand-response units, who are never taken out.
LoopInv ==
  /\ sim \in {"pg", "pdr", "sleep", "freq", "remove"} => k < NIter
  /\ sim \in {"pg", "remove"} => todo \subseteq Gen
  /\ sim = "pdr" => todo \subseteq Dr

\* The last round in which a client can have been sent anything.
LastRound(c) == IF c \in Gen /\ ~ statusGens[c] THEN removedAt[c] ELSE k

\* Nothing a client sent or is still to answer is of a later round.
UpToLastRound(c) ==
  /\ \A i \in DOMAIN dispatch[c] : dispatch[c][i].k <= LastRound(c)
  /\ \A i \in DOMAIN reply[c] : reply[c][i].k <= LastRound(c)
  /\ hpc[c] = "pg" => msg[c].k <= LastRound(c)
  /\ grad_f_current[c] <= LastRound(c)

\* For CountedOnce: the rounds that are not computed yet are empty, and a
\* generator that is out was taken out in a round that has begun.
CountInv ==
  /\ CountedOnce
  /\ \A g \in Gen : ~ statusGens[g] => removedAt[g] \in 0 .. k
  /\ \A j \in Slots : \A g \in Gen : j > k => xi[j][g] = 0
  /\ \A c \in Client : UpToLastRound(c)

\* For GradientsAdvance: from the gradient last received over the stream back
\* to the stream out, the rounds in a client's messages never decrease.
StreamsInOrder(c) ==
  /\ \A i, j \in DOMAIN dispatch[c] : i <= j => dispatch[c][i].k <= dispatch[c][j].k
  /\ \A i, j \in DOMAIN reply[c] : i <= j => reply[c][i].k <= reply[c][j].k
  /\ \A i \in DOMAIN reply[c] : \A j \in DOMAIN dispatch[c] : reply[c][i].k <= dispatch[c][j].k
  /\ \A i \in DOMAIN reply[c] : grad_f_current[c] <= reply[c][i].k
  /\ \A i \in DOMAIN dispatch[c] : grad_f_current[c] <= dispatch[c][i].k

\* The gradients used so far are no later than the one last received, and
\* advance up to the round whose gradient was taken last.
UsedInOrder(c) ==
  /\ \A j \in Rounds : grad_f[j][c] <= grad_f_current[c] /\ grad_f[j][c] <= j
  /\ \A j \in Rounds : j < k \/ (j = k /\ sim \in {"freq", "remove"})
       => \A i \in 0 .. j - 1 : grad_f[i][c] <= grad_f[j][c]

GradientInv == \A c \in Client : StreamsInOrder(c) /\ UsedInOrder(c)

\* For RemovedOnlyIfSilent: so is every generator still to be visited.
SilentInv ==
  sim = "remove" =>
    \A g \in todo : statusGens[g] => lastHeard[g] > Silence \/ lastHeard[g] = 0

\* For MatricesFitMarket: as long as the loop runs, the matrices leave out one
\* of the generators that are out, if there is any.
ConfigInv ==
  sim # "died" =>
    \/ config = {} /\ Inactive = {}
    \/ \E g \in Inactive : config = {g}

=============================================================================

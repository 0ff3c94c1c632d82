------------------------------ MODULE Generator ------------------------------
(***************************************************************************)
(* The generator agents of the demand-response market (dmm/generator).     *)
(*                                                                         *)
(* A generator runs two kinds of threads over the same fields.  The thread *)
(* ClientHandler receives the power the ISO dispatches to it, stores it,   *)
(* answers with the gradient of its cost and updates its multipliers.      *)
(* Every request of the grid agent runs sendPg in a thread of its own (the *)
(* agent is a NonBlockingDispatchAgent).  There is no lock: the threads    *)
(* interleave between any two accesses to a shared field, so a handler is  *)
(* a sequence of steps here, cut where the other thread can see or change  *)
(* something.                                                              *)
(*                                                                         *)
(* Amounts of power, gradients and multipliers are integers.               *)
(***************************************************************************)
EXTENDS Integers, Sequences

CONSTANTS
  Gen,        \* the generators
  NIter,      \* number of rounds, N_iter
  PMin, PMax, \* the limits of a generator, P_Gmin and P_Gmax
  Power,      \* the amounts the ISO may ask for, within the limits or not
  KMu,        \* gain of the multipliers, Kmu3 and Kmu4
  CG, BG,     \* cost coefficients, c_G and b_G
  Mu0,        \* the stabilized value the multipliers start from
  Deception   \* the <<initial, increment>> pairs of a deception attack

ASSUME GeneratorAssumption ==
  /\ NIter \in Nat \ {0}
  /\ PMin \in Int /\ PMax \in Int /\ PMin <= PMax
  /\ Power \subseteq Int
  /\ KMu \in Nat /\ CG \in Int /\ BG \in Int /\ Mu0 \in Nat
  /\ Deception \subseteq Int \X Int

Rounds == 0 .. NIter - 1
Slots  == 0 .. NIter      \* the indices of an array of N_iter+1 entries

VARIABLES
  P_G,            \* P_G[g][k]: the power g supplies in round k
  lastPgRcvdTs,   \* the last round whose dispatch was stored, or -1
  currentGridTs,  \* the round of the last request of the grid, or -1
  active,         \* is the agent part of the market?
  grad_f,         \* gradient of the cost in each round
  mu3, mu4,       \* multipliers of the lower and of the upper limit
  attack,         \* gradFDeceptionAttack, gradFDeception, gradFDeceptionInc
  hpc, hmsg,      \* ClientHandler: where it is, and the message it handles
  rpc, rpg,       \* sendPg(k): where that thread is, and the value it copies
  dispatch,       \* TCP stream from the ISO, oldest message first
  reply,          \* TCP stream to the ISO
  request,        \* requests of the grid for which no thread runs yet
  report,         \* the amounts reported to the grid
  overlap,        \* history: rounds in which both threads wrote P_G[k] at once
  round, asked    \* environment: the first round the ISO may still
                  \* dispatch for, and the next round of the grid

genVars == <<P_G, lastPgRcvdTs, currentGridTs, active, grad_f, mu3, mu4, attack>>
handlerVars == <<hpc, hmsg>>
senderVars == <<rpc, rpg>>
envVars == <<round, asked>>
vars == <<genVars, handlerVars, senderVars, dispatch, reply, request, report,
          overlap, envVars>>

Dispatch == [k : Rounds, pg : Int]
Reply    == [k : Rounds, pg : Int, grad : Int, lie : Int]
Report   == [g : Gen, k : Rounds, pg : Int, stored : BOOLEAN]

Larger(a, b) == IF a < b THEN b ELSE a

\* Without the lower limit.
ClampUpperOnly(pg) == IF pg > PMax THEN PMax ELSE pg

\* Lines 103-106: the dispatched amount, brought within the limits.
Clamp(pg) ==
  IF pg < PMin THEN PMin ELSE IF pg > PMax THEN PMax ELSE pg

\* Python's index -1 is the last entry of the array.
Slot(k) == IF k = -1 THEN NIter ELSE k

-----------------------------------------------------------------------------
(* ClientHandler and isoPgRequestHandler.                                  *)

\* Datagrams instead of a stream.
TakeAnyMessage(g) ==
  \E i \in DOMAIN dispatch[g] :
    /\ hpc[g] = "recv"
    /\ dispatch' = [dispatch EXCEPT
          ![g] = SubSeq(@, 1, i - 1) \o SubSeq(@, i + 1, Len(@))]
    /\ hmsg' = [hmsg EXCEPT ![g] = dispatch[g][i]]
    /\ hpc' = [hpc EXCEPT ![g] = "check"]
    /\ UNCHANGED <<genVars, senderVars, reply, request, report, overlap, envVars>>

\* recv returned one message, and it parses.
RecvOne(g) ==
  /\ hpc[g] = "recv"
  /\ dispatch[g] # << >>
  /\ hmsg' = [hmsg EXCEPT ![g] = Head(dispatch[g])]
  /\ dispatch' = [dispatch EXCEPT ![g] = Tail(@)]
  /\ hpc' = [hpc EXCEPT ![g] = "check"]
  /\ UNCHANGED <<genVars, senderVars, reply, request, report, overlap, envVars>>

\* recv returned several messages at once: they do not parse as one JSON
\* value, and the handler drops them all.
RecvMerged(g) ==
  /\ hpc[g] = "recv"
  /\ \E n \in 2 .. Len(dispatch[g]) :
       dispatch' = [dispatch EXCEPT ![g] = SubSeq(@, n + 1, Len(@))]
  /\ UNCHANGED <<genVars, handlerVars, senderVars, reply, request, report,
                 overlap, envVars>>

\* A message for a round the grid has already left is dropped.
CheckStale(g) ==
  /\ hpc[g] = "check"
  /\ hpc' = [hpc EXCEPT ![g] = IF hmsg[g].k < currentGridTs[g] THEN "recv" ELSE "store"]
  /\ UNCHANGED <<genVars, hmsg, senderVars, dispatch, reply, request, report,
                 overlap, envVars>>

\* The rounds whose dispatch was stored: those replied to, and the one being
\* handled once it is stored.
Stored(g) ==
  {reply[g][i].k : i \in DOMAIN reply[g]}
    \cup (IF hpc[g] \in {"mark", "grad", "send"} THEN {hmsg[g].k} ELSE {})

\* Does sendPg(k) hold, or is it about to load, a value to write over P_G[k]?
Copying(g, k) == rpc[g][k] \in {"load", "copy"}

\* An active agent stores the dispatched power within its limits.
Store(g) ==
  LET k == hmsg[g].k IN
  /\ hpc[g] = "store" /\ active[g]
  /\ P_G' = [P_G EXCEPT ![g][k] = Clamp(hmsg[g].pg)]
  /\ hpc' = [hpc EXCEPT ![g] = "mark"]
  /\ overlap' = IF Copying(g, k) THEN [overlap EXCEPT ![g] = @ \cup {k}] ELSE overlap
  /\ UNCHANGED <<lastPgRcvdTs, currentGridTs, active, grad_f, mu3, mu4, attack,
                 hmsg, senderVars, dispatch, reply, request, report, envVars>>

\* An inactive agent ignores the amount, and goes on to computeMu.
Ignore(g) ==
  /\ hpc[g] = "store" /\ ~ active[g]
  /\ hpc' = [hpc EXCEPT ![g] = "mu"]
  /\ UNCHANGED <<genVars, hmsg, senderVars, dispatch, reply, request, report,
                 overlap, envVars>>

\* Off by one.
MarkNext(g) ==
  /\ hpc[g] = "mark"
  /\ lastPgRcvdTs' = [lastPgRcvdTs EXCEPT ![g] = hmsg[g].k + 1]
  /\ hpc' = [hpc EXCEPT ![g] = "grad"]
  /\ UNCHANGED <<P_G, currentGridTs, active, grad_f, mu3, mu4, attack, hmsg,
                 senderVars, dispatch, reply, request, report, overlap, envVars>>

Mark(g) ==
  /\ hpc[g] = "mark"
  /\ lastPgRcvdTs' = [lastPgRcvdTs EXCEPT ![g] = hmsg[g].k]
  /\ hpc' = [hpc EXCEPT ![g] = "grad"]
  /\ UNCHANGED <<P_G, currentGridTs, active, grad_f, mu3, mu4, attack, hmsg,
                 senderVars, dispatch, reply, request, report, overlap, envVars>>

Gradient(g, k, pg) == CG * pg - mu3[g][k] + mu4[g][k] + BG

ComputeGradF(g) ==
  LET k == hmsg[g].k IN
  /\ hpc[g] = "grad"
  /\ grad_f' = [grad_f EXCEPT ![g][k] = Gradient(g, k, P_G[g][k])]
  /\ hpc' = [hpc EXCEPT ![g] = "send"]
  /\ UNCHANGED <<P_G, lastPgRcvdTs, currentGridTs, active, mu3, mu4, attack, hmsg,
                 senderVars, dispatch, reply, request, report, overlap, envVars>>

\* The reply carries the power and the gradient, the latter distorted while
\* a deception attack is on.  The distortion itself is in the record for the
\* properties only.
SendGradF(g) ==
  LET k == hmsg[g].k
      lie == IF attack[g].on THEN attack[g].by ELSE 0 IN
  /\ hpc[g] = "send"
  /\ reply' = [reply EXCEPT ![g] =
        Append(@, [k |-> k, pg |-> P_G[g][k], grad |-> grad_f[g][k] + lie, lie |-> lie])]
  /\ attack' = IF attack[g].on
               THEN [attack EXCEPT ![g] = [on |-> TRUE, by |-> @.by + @.inc, inc |-> @.inc]]
               ELSE attack
  /\ hpc' = [hpc EXCEPT ![g] = "mu"]
  /\ UNCHANGED <<P_G, lastPgRcvdTs, currentGridTs, active, grad_f, mu3, mu4, hmsg,
                 senderVars, dispatch, request, report, overlap, envVars>>

\* Off by one: the multipliers of the round itself are overwritten.
ComputeMuInPlace(g) ==
  LET k == hmsg[g].k IN
  /\ hpc[g] = "mu"
  /\ mu3' = [mu3 EXCEPT ![g][k] = Larger(0, mu3[g][k] + KMu * (PMin - P_G[g][k]))]
  /\ mu4' = [mu4 EXCEPT ![g][k] = Larger(0, mu4[g][k] + KMu * (P_G[g][k] - PMax))]
  /\ hpc' = [hpc EXCEPT ![g] = "recv"]
  /\ UNCHANGED <<P_G, lastPgRcvdTs, currentGridTs, active, grad_f, attack, hmsg,
                 senderVars, dispatch, reply, request, report, overlap, envVars>>

ComputeMu(g) ==
  LET k == hmsg[g].k IN
  /\ hpc[g] = "mu"
  /\ mu3' = [mu3 EXCEPT ![g][k + 1] = Larger(0, mu3[g][k] + KMu * (PMin - P_G[g][k]))]
  /\ mu4' = [mu4 EXCEPT ![g][k + 1] = Larger(0, mu4[g][k] + KMu * (P_G[g][k] - PMax))]
  /\ hpc' = [hpc EXCEPT ![g] = "recv"]
  /\ UNCHANGED <<P_G, lastPgRcvdTs, currentGridTs, active, grad_f, attack, hmsg,
                 senderVars, dispatch, reply, request, report, overlap, envVars>>

-----------------------------------------------------------------------------
(* sendPg(k), one thread per request of the grid.                          *)

StartSendPg(g, k) ==
  /\ <<g, k>> \in request
  /\ request' = request \ {<<g, k>>}
  /\ currentGridTs' = [currentGridTs EXCEPT ![g] = k]
  /\ rpc' = [rpc EXCEPT ![g][k] = "test"]
  /\ UNCHANGED <<P_G, lastPgRcvdTs, active, grad_f, mu3, mu4, attack, handlerVars,
                 rpg, dispatch, reply, report, overlap, envVars>>

\* Without the test whether a later dispatch has come.
AlwaysCopy(g, k) ==
  /\ rpc[g][k] = "test"
  /\ rpc' = [rpc EXCEPT ![g][k] = "load"]
  /\ UNCHANGED <<genVars, handlerVars, rpg, dispatch, reply, request, report,
                 overlap, envVars>>

\* Nothing stored for round k yet: the power of the last stored round holds.
\* A dispatch for round k stored but not marked yet will be overwritten.
TestRcvd(g, k) ==
  LET ahead == k > lastPgRcvdTs[g] IN
  /\ rpc[g][k] = "test"
  /\ rpc' = [rpc EXCEPT ![g][k] = IF ahead THEN "load" ELSE "send"]
  /\ overlap' = IF ahead /\ hpc[g] = "mark" /\ hmsg[g].k = k
                THEN [overlap EXCEPT ![g] = @ \cup {k}] ELSE overlap
  /\ UNCHANGED <<genVars, handlerVars, rpg, dispatch, reply, request, report, envVars>>

LoadLast(g, k) ==
  /\ rpc[g][k] = "load"
  /\ rpg' = [rpg EXCEPT ![g][k] = P_G[g][Slot(lastPgRcvdTs[g])]]
  /\ rpc' = [rpc EXCEPT ![g][k] = "copy"]
  /\ UNCHANGED <<genVars, handlerVars, dispatch, reply, request, report, overlap, envVars>>

CopyLast(g, k) ==
  /\ rpc[g][k] = "copy"
  /\ P_G' = [P_G EXCEPT ![g][k] = rpg[g][k]]
  /\ rpc' = [rpc EXCEPT ![g][k] = "send"]
  /\ UNCHANGED <<lastPgRcvdTs, currentGridTs, active, grad_f, mu3, mu4, attack,
                 handlerVars, rpg, dispatch, reply, request, report, overlap, envVars>>

\* Whether the dispatch of the round was stored by then is in the record for
\* the properties only.
SendReport(g, k) ==
  /\ rpc[g][k] = "send"
  /\ report' = report \cup
        {[g |-> g, k |-> k, pg |-> P_G[g][k], stored |-> k \in Stored(g)]}
  /\ rpc' = [rpc EXCEPT ![g][k] = "done"]
  /\ UNCHANGED <<genVars, handlerVars, rpg, dispatch, reply, request, overlap, envVars>>

-----------------------------------------------------------------------------
(* The other operations of the agent.                                      *)

Deactivate(g) ==
  /\ active' = [active EXCEPT ![g] = FALSE]
  /\ UNCHANGED <<P_G, lastPgRcvdTs, currentGridTs, grad_f, mu3, mu4, attack, handlerVars,
                 senderVars, dispatch, reply, request, report, overlap, envVars>>

Activate(g) ==
  /\ active' = [active EXCEPT ![g] = TRUE]
  /\ UNCHANGED <<P_G, lastPgRcvdTs, currentGridTs, grad_f, mu3, mu4, attack, handlerVars,
                 senderVars, dispatch, reply, request, report, overlap, envVars>>

StartGradFDeception(g) ==
  /\ \E d \in Deception :
       attack' = [attack EXCEPT ![g] = [on |-> TRUE, by |-> d[1], inc |-> d[2]]]
  /\ UNCHANGED <<P_G, lastPgRcvdTs, currentGridTs, active, grad_f, mu3, mu4, handlerVars,
                 senderVars, dispatch, reply, request, report, overlap, envVars>>

\* The increment is kept, and the list of nodes is ignored: every generator
\* the message reaches stops.
StopGradFDeception(g) ==
  /\ attack' = [attack EXCEPT ![g] = [on |-> FALSE, by |-> 0, inc |-> @.inc]]
  /\ UNCHANGED <<P_G, lastPgRcvdTs, currentGridTs, active, grad_f, mu3, mu4, handlerVars,
                 senderVars, dispatch, reply, request, report, overlap, envVars>>

-----------------------------------------------------------------------------
(* The environment.  The ISO dispatches to a generator at most once in a   *)
(* round, in the order of the rounds; the grid asks every generator for    *)
(* its power once in every round.  The two are not ordered here, since the *)
(* stream may delay a dispatch for any time.                               *)

IsoDispatches(g) ==
  /\ \E k \in Rounds, pg \in Power :
       /\ k >= round[g]
       /\ dispatch' = [dispatch EXCEPT ![g] = Append(@, [k |-> k, pg |-> pg])]
       /\ round' = [round EXCEPT ![g] = k + 1]
  /\ UNCHANGED <<genVars, handlerVars, senderVars, reply, request, report, overlap, asked>>

GridRequests ==
  /\ asked < NIter
  /\ request' = request \cup (Gen \X {asked})
  /\ asked' = asked + 1
  /\ UNCHANGED <<genVars, handlerVars, senderVars, dispatch, reply, report, overlap, round>>

-----------------------------------------------------------------------------
Init ==
  /\ P_G = [g \in Gen |-> [k \in Slots |-> 0]]
  /\ lastPgRcvdTs = [g \in Gen |-> -1]
  /\ currentGridTs = [g \in Gen |-> -1]
  /\ active = [g \in Gen |-> TRUE]
  /\ grad_f = [g \in Gen |-> [k \in Slots |-> 0]]
  /\ mu3 = [g \in Gen |-> [k \in Slots |-> IF k = 0 THEN Mu0 ELSE 0]]
  /\ mu4 = [g \in Gen |-> [k \in Slots |-> IF k = 0 THEN Mu0 ELSE 0]]
  /\ attack = [g \in Gen |-> [on |-> FALSE, by |-> 0, inc |-> 0]]
  /\ hpc = [g \in Gen |-> "recv"]
  /\ hmsg = [g \in Gen |-> [k |-> 0, pg |-> 0]]
  /\ rpc = [g \in Gen |-> [k \in Rounds |-> "idle"]]
  /\ rpg = [g \in Gen |-> [k \in Rounds |-> 0]]
  /\ dispatch = [g \in Gen |-> << >>]
  /\ reply = [g \in Gen |-> << >>]
  /\ request = {}
  /\ report = {}
  /\ overlap = [g \in Gen |-> {}]
  /\ round = [g \in Gen |-> 0]
  /\ asked = 0

Handler(g) ==
  \/ RecvOne(g) \/ RecvMerged(g) \/ CheckStale(g)
  \/ Store(g) \/ Ignore(g) \/ Mark(g)
  \/ ComputeGradF(g) \/ SendGradF(g) \/ ComputeMu(g)

Sender(g, k) ==
  \/ StartSendPg(g, k) \/ TestRcvd(g, k) \/ LoadLast(g, k)
  \/ CopyLast(g, k) \/ SendReport(g, k)

Operator(g) ==
  \/ Deactivate(g) \/ Activate(g)
  \/ StartGradFDeception(g) \/ StopGradFDeception(g)

Next ==
  \/ \E g \in Gen : Handler(g)
  \/ \E g \in Gen, k \in Rounds : Sender(g, k)
  \/ \E g \in Gen : Operator(g)
  \/ \E g \in Gen : IsoDispatches(g)
  \/ GridRequests

Spec == Init /\ [][Next]_vars

-----------------------------------------------------------------------------
HandlerPc == {"recv", "check", "store", "mark", "grad", "send", "mu"}
SenderPc  == {"idle", "test", "load", "copy", "send", "done"}

(* Every variable keeps its type; in particular no index leaves the arrays *)
(* of N_iter+1 entries.                                                    *)
TypeOK ==
  /\ P_G \in [Gen -> [Slots -> Int]]
  /\ lastPgRcvdTs \in [Gen -> Rounds \cup {-1}]
  /\ currentGridTs \in [Gen -> Rounds \cup {-1}]
  /\ active \in [Gen -> BOOLEAN]
  /\ grad_f \in [Gen -> [Slots -> Int]]
  /\ mu3 \in [Gen -> [Slots -> Int]]
  /\ mu4 \in [Gen -> [Slots -> Int]]
  /\ attack \in [Gen -> [on : BOOLEAN, by : Int, inc : Int]]
  /\ hpc \in [Gen -> HandlerPc]
  /\ hmsg \in [Gen -> Dispatch]
  /\ rpc \in [Gen -> [Rounds -> SenderPc]]
  /\ rpg \in [Gen -> [Rounds -> Int]]
  /\ dispatch \in [Gen -> Seq(Dispatch)]
  /\ reply \in [Gen -> Seq(Reply)]
  /\ request \subseteq Gen \X Rounds
  /\ report \subseteq Report
  /\ overlap \in [Gen -> SUBSET Rounds]
  /\ round \in [Gen -> 0 .. NIter]
  /\ asked \in 0 .. NIter

InLimits(pg) == PMin <= pg /\ pg <= PMax
Allowed(pg) == pg = 0 \/ InLimits(pg)

(* For a round whose dispatch it stored, a generator tells the ISO and the  *)
(* grid an amount within its limits, unless sendPg was copying an older     *)
(* amount into that round while the dispatch was stored.  Then, and for a   *)
(* round the grid asks about before any dispatch is stored, the amount may  *)
(* also be the 0 the array starts with, whatever the limits; never another. *)
SuppliedInLimits ==
  /\ \A r \in report :
       /\ Allowed(r.pg)
       /\ r.stored /\ r.k \notin overlap[r.g] => InLimits(r.pg)
  /\ \A g \in Gen : \A i \in DOMAIN reply[g] :
       /\ Allowed(reply[g][i].pg)
       /\ reply[g][i].k \notin overlap[g] => InLimits(reply[g][i].pg)

(* The ISO hears of the rounds in order: later replies are for later       *)
(* rounds, so a gradient it overwrites is always an older one.             *)
RepliesInOrder ==
  \A g \in Gen : \A i, j \in DOMAIN reply[g] :
    i < j => reply[g][i].k < reply[g][j].k

(* The power told to the ISO for a round is the power the generator keeps  *)
(* for that round, unless a request of the grid for the same round was     *)
(* copying an older amount over it while the dispatch was being stored.    *)
RepliedIsKept ==
  \A g \in Gen : \A i \in DOMAIN reply[g] :
    LET r == reply[g][i] IN r.k \notin overlap[g] => P_G[g][r.k] = r.pg

(* The gradient and the power of one reply belong together, apart from the *)
(* distortion of an attack, unless the two threads met in that round.  The *)
(* multipliers of the round are still the ones the gradient was made from. *)
GradientFitsPower ==
  \A g \in Gen : \A i \in DOMAIN reply[g] :
    LET r == reply[g][i] IN
      r.k \notin overlap[g] => r.grad = Gradient(g, r.k, r.pg) + r.lie

-----------------------------------------------------------------------------
(* What makes these properties inductive.                                  *)

\* For SuppliedInLimits: no amount outside the limits is stored anywhere, and
\* a round that was stored keeps one within them unless the threads met in it.
StoredInLimits(g) ==
  \A k \in Stored(g) : k \notin overlap[g] => InLimits(P_G[g][k])

LimitsInv ==
  /\ \A g \in Gen : \A k \in Slots : Allowed(P_G[g][k])
  /\ \A g \in Gen : \A k \in Rounds : Allowed(rpg[g][k])
  /\ \A g \in Gen : StoredInLimits(g)
  /\ SuppliedInLimits

\* The messages in the stream, the one being handled and the replies sent are
\* in the order of the rounds, the ISO being ahead of all of them.
StreamInOrder(g) ==
  \A i, j \in DOMAIN dispatch[g] :
    dispatch[g][i].k < round[g] /\ (i < j => dispatch[g][i].k < dispatch[g][j].k)

HandledBeforeStream(g) ==
  hpc[g] # "recv" =>
    /\ hmsg[g].k < round[g]
    /\ \A i \in DOMAIN dispatch[g] : hmsg[g].k < dispatch[g][i].k

RepliedBeforeStream(g) ==
  \A i \in DOMAIN reply[g] :
    /\ reply[g][i].k < round[g]
    /\ \A j \in DOMAIN dispatch[g] : reply[g][i].k < dispatch[g][j].k

RepliedBeforeHandled(g) ==
  \A i \in DOMAIN reply[g] :
    /\ hpc[g] \in HandlerPc \ {"recv", "mu"} => reply[g][i].k < hmsg[g].k
    /\ hpc[g] = "mu" => reply[g][i].k <= hmsg[g].k

RepliedInOrder(g) ==
  \A i, j \in DOMAIN reply[g] : i < j => reply[g][i].k < reply[g][j].k

InOrder(g) ==
  /\ StreamInOrder(g) /\ HandledBeforeStream(g) /\ RepliedBeforeStream(g)
  /\ RepliedBeforeHandled(g) /\ RepliedInOrder(g)

OrderInv == \A g \in Gen : InOrder(g)

\* For RepliedIsKept: lastPgRcvdTs lies between the rounds replied to and the
\* ones still to be stored, so sendPg decides to copy over a stored round
\* only if it met the dispatch of that round.
LastIsBetween(g) ==
  /\ lastPgRcvdTs[g] < round[g]
  /\ \A i \in DOMAIN reply[g] : reply[g][i].k <= lastPgRcvdTs[g]
  /\ \A i \in DOMAIN dispatch[g] : lastPgRcvdTs[g] < dispatch[g][i].k
  /\ hpc[g] \in {"check", "store", "mark"} => lastPgRcvdTs[g] < hmsg[g].k
  /\ hpc[g] \in {"grad", "send"} => lastPgRcvdTs[g] = hmsg[g].k

LastInv == \A g \in Gen : LastIsBetween(g)

CopiesMet(g) == \A k \in Stored(g) : Copying(g, k) => k \in overlap[g]

Kept(g) ==
  \A i \in DOMAIN reply[g] :
    reply[g][i].k \notin overlap[g] => P_G[g][reply[g][i].k] = reply[g][i].pg

KeptInv == \A g \in Gen : CopiesMet(g) /\ Kept(g)

\* For GradientFitsPower: the gradient about to be sent is that of P_G[k].
Fresh(g) ==
  hpc[g] = "send" /\ hmsg[g].k \notin overlap[g]
    => grad_f[g][hmsg[g].k] = Gradient(g, hmsg[g].k, P_G[g][hmsg[g].k])

Fits(g) ==
  \A i \in DOMAIN reply[g] :
    reply[g][i].k \notin overlap[g]
      => reply[g][i].grad = Gradient(g, reply[g][i].k, reply[g][i].pg) + reply[g][i].lie

FitsInv == \A g \in Gen : Fresh(g) /\ Fits(g)

=============================================================================

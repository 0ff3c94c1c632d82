--------------------------- MODULE DemandResponse ---------------------------
(***************************************************************************)
(* The demand-response units of the market (dmm/demandResponse).           *)
(*                                                                         *)
(* A unit is built like a generator (module Generator): the thread         *)
(* ClientHandler takes the dispatches of the ISO, and a thread per request *)
(* of the grid runs sendPdr over the same fields, without a lock.  The     *)
(* difference is in isoPdrRequestHandler: it stores the dispatched amount  *)
(* in P_D[k] first and brings it within the limits afterwards, in place,   *)
(* so the other thread can see an amount the unit must not consume.        *)
(***************************************************************************)
EXTENDS Integers, Sequences

CONSTANTS
  Dr,           \* the units
  NIter,        \* number of rounds, N_iter
  PMin, PMax,   \* the limits of a unit, P_Dmin and P_Dmax
  Power,        \* the amounts the ISO may ask for
  Energy,       \* the energy values the grid may send
  KMu, KE,      \* gains: Kmu5 and Kmu6, and K_E
  CD, BD, Mu0   \* cost coefficients c_D and b_D, and the first multipliers

ASSUME DemandResponseAssumption ==
  /\ NIter \in Nat \ {0}
  /\ PMin \in Int /\ PMax \in Int /\ PMin <= PMax
  /\ Power \subseteq Int /\ Energy \subseteq Int
  /\ KMu \in Nat /\ KE \in Int /\ CD \in Int /\ BD \in Int /\ Mu0 \in Nat

Rounds == 0 .. NIter - 1
Slots  == 0 .. NIter

VARIABLES
  P_D,            \* P_D[d][k]: the power d consumes in round k
  E_D,            \* its energy at the start of round k, as told by the grid
  lastPdrRcvdTs,  \* the last round whose dispatch was stored, or -1
  currentGridTs,  \* the round of the last request of the grid, or -1
  active,         \* is the agent part of the market?
  grad_f,         \* gradient of the cost in each round
  mu5, mu6,       \* multipliers of the lower and of the upper limit
  hpc, hmsg,      \* ClientHandler: where it is, and the message it handles
  spc, spd,       \* sendPdr(k): where that thread is, and the value it copies
  dispatch,       \* TCP stream from the ISO, oldest message first
  reply,          \* TCP stream to the ISO
  request,        \* requests of the grid for which no thread runs yet
  report,         \* the amounts reported to the grid
  overlap,        \* history: rounds in which both threads worked on P_D[k]
  round, asked    \* environment: the first round the ISO may still dispatch
                  \* for, and the next round of the grid

drVars == <<E_D, lastPdrRcvdTs, currentGridTs, active, grad_f, mu5, mu6>>
handlerVars == <<hpc, hmsg>>
senderVars == <<spc, spd>>
netVars == <<dispatch, reply, request, report>>
envVars == <<round, asked>>
vars == <<P_D, drVars, handlerVars, senderVars, netVars, overlap, envVars>>

Dispatch == [k : Rounds, pdr : Int]
Reply    == [k : Rounds, pdr : Int, grad : Int]
Report   == [d : Dr, k : Rounds, pdr : Int, stored : BOOLEAN]

Larger(a, b) == IF a < b THEN b ELSE a
Slot(k) == IF k = -1 THEN NIter ELSE k   \* Python's index -1

-----------------------------------------------------------------------------
(* ClientHandler and isoPdrRequestHandler.                                 *)

RecvOne(d) ==
  /\ hpc[d] = "recv" /\ dispatch[d] # << >>
  /\ hmsg' = [hmsg EXCEPT ![d] = Head(dispatch[d])]
  /\ dispatch' = [dispatch EXCEPT ![d] = Tail(@)]
  /\ hpc' = [hpc EXCEPT ![d] = "check"]
  /\ UNCHANGED <<P_D, drVars, senderVars, reply, request, report, overlap, envVars>>

\* Messages received together do not parse, and are dropped.
RecvMerged(d) ==
  /\ hpc[d] = "recv"
  /\ \E n \in 2 .. Len(dispatch[d]) :
       dispatch' = [dispatch EXCEPT ![d] = SubSeq(@, n + 1, Len(@))]
  /\ UNCHANGED <<P_D, drVars, handlerVars, senderVars, reply, request, report,
                 overlap, envVars>>

\* A step of the handler that writes neither a field nor a stream.
Goto(d, from, to) ==
  /\ hpc[d] = from
  /\ hpc' = [hpc EXCEPT ![d] = to]
  /\ UNCHANGED <<P_D, drVars, hmsg, senderVars, netVars, overlap, envVars>>

CheckStale(d) ==
  Goto(d, "check", IF hmsg[d].k < currentGridTs[d] THEN "recv" ELSE "store")

Ignore(d) == ~ active[d] /\ Goto(d, "store", "mu")

\* A step that writes P_D[k].
Write(d, from, pdr, to) ==
  /\ hpc[d] = from
  /\ P_D' = [P_D EXCEPT ![d][hmsg[d].k] = pdr]
  /\ hpc' = [hpc EXCEPT ![d] = to]
  /\ UNCHANGED <<drVars, hmsg, senderVars, netVars, envVars>>

\* The rounds for which an amount has been stored since they were dispatched.
Stored(d) ==
  {reply[d][i].k : i \in DOMAIN reply[d]}
    \cup (IF hpc[d] \in {"low", "raise", "high", "lower", "mark", "grad", "reply"}
          THEN {hmsg[d].k} ELSE {})

\* Has sendPdr(k) decided to copy an older amount, or is it about to read?
Underway(d, k) == spc[d][k] \in {"load", "copy", "send"}

\* The amount is stored as it came.
Store(d) ==
  /\ active[d]
  /\ Write(d, "store", hmsg[d].pdr, "low")
  /\ overlap' = IF Underway(d, hmsg[d].k)
                THEN [overlap EXCEPT ![d] = @ \cup {hmsg[d].k}] ELSE overlap

\* Without the lower limit.
SkipLow(d) == Goto(d, "low", "high")

TestLow(d) ==
  Goto(d, "low", IF P_D[d][hmsg[d].k] < PMin THEN "raise" ELSE "high")

RaiseToMin(d) == Write(d, "raise", PMin, "mark") /\ UNCHANGED overlap

TestHigh(d) ==
  Goto(d, "high", IF P_D[d][hmsg[d].k] > PMax THEN "lower" ELSE "mark")

LowerToMax(d) == Write(d, "lower", PMax, "mark") /\ UNCHANGED overlap

Mark(d) ==
  /\ hpc[d] = "mark"
  /\ lastPdrRcvdTs' = [lastPdrRcvdTs EXCEPT ![d] = hmsg[d].k]
  /\ hpc' = [hpc EXCEPT ![d] = "grad"]
  /\ UNCHANGED <<P_D, E_D, currentGridTs, active, grad_f, mu5, mu6, hmsg, senderVars,
                 netVars, overlap, envVars>>

ComputeGradF(d) ==
  LET k == hmsg[d].k IN
  /\ hpc[d] = "grad"
  /\ grad_f' = [grad_f EXCEPT
                  ![d][k] = - CD * P_D[d][k] - mu5[d][k] + mu6[d][k] - BD]
  /\ hpc' = [hpc EXCEPT ![d] = "reply"]
  /\ UNCHANGED <<P_D, E_D, lastPdrRcvdTs, currentGridTs, active, mu5, mu6, hmsg,
                 senderVars, netVars, overlap, envVars>>

SendGradF(d) ==
  LET k == hmsg[d].k IN
  /\ hpc[d] = "reply"
  /\ reply' = [reply EXCEPT
        ![d] = Append(@, [k |-> k, pdr |-> P_D[d][k], grad |-> grad_f[d][k]])]
  /\ hpc' = [hpc EXCEPT ![d] = "mu"]
  /\ UNCHANGED <<P_D, drVars, hmsg, senderVars, dispatch, request, report, overlap, envVars>>

ComputeMu(d) ==
  LET k == hmsg[d].k
      p == P_D[d][k] + KE * E_D[d][k] IN
  /\ hpc[d] = "mu"
  /\ mu5' = [mu5 EXCEPT ![d][k + 1] = Larger(0, mu5[d][k] + KMu * (PMin - p))]
  /\ mu6' = [mu6 EXCEPT ![d][k + 1] = Larger(0, mu6[d][k] + KMu * (p - PMax))]
  /\ hpc' = [hpc EXCEPT ![d] = "recv"]
  /\ UNCHANGED <<P_D, E_D, lastPdrRcvdTs, currentGridTs, active, grad_f, hmsg,
                 senderVars, netVars, overlap, envVars>>

-----------------------------------------------------------------------------
(* sendPdr(k), one thread per request, and the other agent methods.        *)

StartSendPdr(d, k) ==
  /\ <<d, k>> \in request
  /\ request' = request \ {<<d, k>>}
  /\ currentGridTs' = [currentGridTs EXCEPT ![d] = k]
  /\ spc' = [spc EXCEPT ![d][k] = "test"]
  /\ UNCHANGED <<P_D, E_D, lastPdrRcvdTs, active, grad_f, mu5, mu6, handlerVars, spd,
                 dispatch, reply, report, overlap, envVars>>

\* The handler is between the raw store and the mark of round k.
Clamping(d, k) ==
  hmsg[d].k = k /\ hpc[d] \in {"low", "raise", "high", "lower", "mark"}

\* Without the test whether a later dispatch has come.
AlwaysCopy(d, k) ==
  /\ spc[d][k] = "test"
  /\ spc' = [spc EXCEPT ![d][k] = "load"]
  /\ UNCHANGED <<P_D, drVars, handlerVars, spd, netVars, overlap, envVars>>

TestRcvd(d, k) ==
  LET ahead == k > lastPdrRcvdTs[d] IN
  /\ spc[d][k] = "test"
  /\ spc' = [spc EXCEPT ![d][k] = IF ahead THEN "load" ELSE "send"]
  /\ overlap' = IF ahead /\ Clamping(d, k)
                THEN [overlap EXCEPT ![d] = @ \cup {k}] ELSE overlap
  /\ UNCHANGED <<P_D, drVars, handlerVars, spd, netVars, envVars>>

LoadLast(d, k) ==
  /\ spc[d][k] = "load"
  /\ spd' = [spd EXCEPT ![d][k] = P_D[d][Slot(lastPdrRcvdTs[d])]]
  /\ spc' = [spc EXCEPT ![d][k] = "copy"]
  /\ UNCHANGED <<P_D, drVars, handlerVars, netVars, overlap, envVars>>

CopyLast(d, k) ==
  /\ spc[d][k] = "copy"
  /\ P_D' = [P_D EXCEPT ![d][k] = spd[d][k]]
  /\ spc' = [spc EXCEPT ![d][k] = "send"]
  /\ UNCHANGED <<drVars, handlerVars, spd, netVars, overlap, envVars>>

\* Whether an amount was stored for the round by then is in the record for the
\* properties only.
SendReport(d, k) ==
  /\ spc[d][k] = "send"
  /\ report' = report \cup
        {[d |-> d, k |-> k, pdr |-> P_D[d][k], stored |-> k \in Stored(d)]}
  /\ spc' = [spc EXCEPT ![d][k] = "done"]
  /\ UNCHANGED <<P_D, drVars, handlerVars, spd, dispatch, reply, request, overlap, envVars>>

ReceiveEdr(d, k, edr) ==
  /\ E_D' = [E_D EXCEPT ![d][k] = edr]
  /\ UNCHANGED <<P_D, lastPdrRcvdTs, currentGridTs, active, grad_f, mu5, mu6,
                 handlerVars, senderVars, netVars, overlap, envVars>>

Switch(d, on) ==
  /\ active' = [active EXCEPT ![d] = on]
  /\ UNCHANGED <<P_D, E_D, lastPdrRcvdTs, currentGridTs, grad_f, mu5, mu6,
                 handlerVars, senderVars, netVars, overlap, envVars>>

Deactivate(d) == Switch(d, FALSE)
Activate(d) == Switch(d, TRUE)

-----------------------------------------------------------------------------
(* The environment: the ISO and the grid, as in module Generator.          *)

IsoDispatches(d) ==
  /\ \E k \in Rounds, pdr \in Power :
       /\ k >= round[d]
       /\ dispatch' = [dispatch EXCEPT ![d] = Append(@, [k |-> k, pdr |-> pdr])]
       /\ round' = [round EXCEPT ![d] = k + 1]
  /\ UNCHANGED <<P_D, drVars, handlerVars, senderVars, reply, request, report,
                 overlap, asked>>

GridRequests ==
  /\ asked < NIter
  /\ request' = request \cup (Dr \X {asked})
  /\ asked' = asked + 1
  /\ UNCHANGED <<P_D, drVars, handlerVars, senderVars, dispatch, reply, report,
                 overlap, round>>

\* The grid sends the energy at the start of round k + 1 once it has
\* computed round k, which it does after asking for that round.
GridSendsEnergy ==
  \E d \in Dr, k \in 1 .. asked, edr \in Energy : ReceiveEdr(d, k, edr)

-----------------------------------------------------------------------------
\* initCommClient: the unit has connected, and ClientHandler runs.
ClientInit ==
  /\ hpc = [d \in Dr |-> "recv"]
  /\ hmsg = [d \in Dr |-> [k |-> 0, pdr |-> 0]]
  /\ dispatch = [d \in Dr |-> << >>]
  /\ reply = [d \in Dr |-> << >>]

Init ==
  /\ ClientInit
  /\ P_D = [d \in Dr |-> [k \in Slots |-> 0]]
  /\ E_D = [d \in Dr |-> [k \in Slots |-> 0]]
  /\ lastPdrRcvdTs = [d \in Dr |-> -1]
  /\ currentGridTs = [d \in Dr |-> -1]
  /\ active = [d \in Dr |-> TRUE]
  /\ grad_f = [d \in Dr |-> [k \in Slots |-> 0]]
  /\ mu5 = [d \in Dr |-> [k \in Slots |-> IF k = 0 THEN Mu0 ELSE 0]]
  /\ mu6 = [d \in Dr |-> [k \in Slots |-> IF k = 0 THEN Mu0 ELSE 0]]
  /\ spc = [d \in Dr |-> [k \in Rounds |-> "idle"]]
  /\ spd = [d \in Dr |-> [k \in Rounds |-> 0]]
  /\ request = {} /\ report = {}
  /\ overlap = [d \in Dr |-> {}]
  /\ round = [d \in Dr |-> 0]
  /\ asked = 0

Handler(d) ==
  \/ RecvOne(d) \/ RecvMerged(d) \/ CheckStale(d) \/ Ignore(d)
  \/ Store(d) \/ TestLow(d) \/ RaiseToMin(d) \/ TestHigh(d) \/ LowerToMax(d)
  \/ Mark(d) \/ ComputeGradF(d) \/ SendGradF(d) \/ ComputeMu(d)

Sender(d, k) ==
  \/ StartSendPdr(d, k) \/ TestRcvd(d, k) \/ LoadLast(d, k)
  \/ CopyLast(d, k) \/ SendReport(d, k)

Next ==
  \/ \E d \in Dr : Handler(d)
  \/ \E d \in Dr, k \in Rounds : Sender(d, k)
  \/ \E d \in Dr : Deactivate(d) \/ Activate(d) \/ IsoDispatches(d)
  \/ GridRequests \/ GridSendsEnergy

Spec == Init /\ [][Next]_vars

-----------------------------------------------------------------------------
InLimits(pdr) == PMin <= pdr /\ pdr <= PMax
Allowed(pdr) == pdr = 0 \/ InLimits(pdr)

(* The window in which the raw amount can be seen stays a window: for a    *)
(* round it stored, a unit tells the ISO and the grid an amount within its *)
(* limits, and keeps one once both tests are done, unless the request met  *)
(* the dispatch in that round.  If they met, what it tells the ISO and     *)
(* keeps may also be the 0 the array starts with, and only its report may  *)
(* be a raw amount.  In a round not stored, the amount is 0 or within the  *)
(* limits: no raw amount is copied there.                                  *)
RawAmountIsTransient ==
  /\ \A r \in report : r.k \notin overlap[r.d] =>
       Allowed(r.pdr) /\ (r.stored => InLimits(r.pdr))
  /\ \A d \in Dr : \A i \in DOMAIN reply[d] :
       /\ Allowed(reply[d][i].pdr)
       /\ reply[d][i].k \notin overlap[d] => InLimits(reply[d][i].pdr)
  /\ \A d \in Dr : \A k \in Slots : ~ Clamping(d, k) =>
       /\ Allowed(P_D[d][k])
       /\ k \in Stored(d) \ overlap[d] => InLimits(P_D[d][k])

(* The power told to the ISO for a round is the power the unit keeps for   *)
(* that round, unless a request of the grid met the dispatch.              *)
RepliedIsKept ==
  \A d \in Dr : \A i \in DOMAIN reply[d] :
    LET r == reply[d][i] IN r.k \notin overlap[d] => P_D[d][r.k] = r.pdr

-----------------------------------------------------------------------------
(* What the two properties rest on.                                        *)

HandlerPc == {"recv", "check", "store", "low", "raise", "high", "lower", "mark",
              "grad", "reply", "mu"}
SenderPc  == {"idle", "test", "load", "copy", "send", "done"}

TypeOK ==
  /\ P_D \in [Dr -> [Slots -> Int]] /\ E_D \in [Dr -> [Slots -> Int]]
  /\ lastPdrRcvdTs \in [Dr -> Rounds \cup {-1}]
  /\ currentGridTs \in [Dr -> Rounds \cup {-1}]
  /\ active \in [Dr -> BOOLEAN]
  /\ grad_f \in [Dr -> [Slots -> Int]]
  /\ mu5 \in [Dr -> [Slots -> Int]] /\ mu6 \in [Dr -> [Slots -> Int]]
  /\ hpc \in [Dr -> HandlerPc] /\ hmsg \in [Dr -> Dispatch]
  /\ spc \in [Dr -> [Rounds -> SenderPc]] /\ spd \in [Dr -> [Rounds -> Int]]
  /\ dispatch \in [Dr -> Seq(Dispatch)] /\ reply \in [Dr -> Seq(Reply)]
  /\ request \subseteq Dr \X Rounds /\ report \subseteq Report
  /\ overlap \in [Dr -> SUBSET Rounds]
  /\ round \in [Dr -> Slots] /\ asked \in Slots

\* lastPdrRcvdTs lies between the rounds replied to and the ones still to be
\* stored, in the handler and in the stream.
LastIsBetween(d) ==
  /\ lastPdrRcvdTs[d] < round[d]
  /\ \A i \in DOMAIN reply[d] : reply[d][i].k <= lastPdrRcvdTs[d]
  /\ \A i \in DOMAIN dispatch[d] :
       lastPdrRcvdTs[d] < dispatch[d][i].k /\ dispatch[d][i].k < round[d]
  /\ \A i, j \in DOMAIN dispatch[d] : i < j => dispatch[d][i].k < dispatch[d][j].k
  /\ hpc[d] \in {"check", "store", "low", "raise", "high", "lower", "mark"} =>
       /\ lastPdrRcvdTs[d] < hmsg[d].k /\ hmsg[d].k < round[d]
       /\ \A i \in DOMAIN dispatch[d] : hmsg[d].k < dispatch[d][i].k
  /\ hpc[d] \in {"grad", "reply"} => hmsg[d].k = lastPdrRcvdTs[d]

LastInv == \A d \in Dr : LastIsBetween(d)

\* A thread that is to overwrite a stored amount, or to report a raw one, has
\* met the dispatch of its round.
Met(d) ==
  \A k \in Rounds :
    \/ spc[d][k] \in {"load", "copy"} /\ k \in Stored(d)
    \/ spc[d][k] = "send" /\ Clamping(d, k)
    => k \in overlap[d]

Kept(d) ==
  \A i \in DOMAIN reply[d] :
    reply[d][i].k \notin overlap[d] => P_D[d][reply[d][i].k] = reply[d][i].pdr

KeptInv == \A d \in Dr : Met(d) /\ Kept(d)

\* What is kept, and what a thread copies, is allowed, except that the round
\* being stored may still have to pass one of the two tests.
AmountsAllowed(d) ==
  /\ \A k \in Slots : Clamping(d, k) \/ Allowed(P_D[d][k])
  /\ \A k \in Rounds : spc[d][k] = "copy" => Allowed(spd[d][k])
  /\ hpc[d] = "high" => Allowed(P_D[d][hmsg[d].k]) \/ PMin <= P_D[d][hmsg[d].k]
  /\ hpc[d] = "mark" => Allowed(P_D[d][hmsg[d].k])
  /\ \A i \in DOMAIN reply[d] : Allowed(reply[d][i].pdr)

\* A round that was stored keeps an amount within the limits, once it passed
\* both tests, unless the request met the dispatch in it.
StoredInLimits(d) ==
  /\ \A k \in Stored(d) : Clamping(d, k) \/ k \in overlap[d] \/ InLimits(P_D[d][k])
  /\ hmsg[d].k \notin overlap[d] =>
       /\ hpc[d] = "high" => PMin <= P_D[d][hmsg[d].k]
       /\ hpc[d] = "mark" => InLimits(P_D[d][hmsg[d].k])

AllowedInv ==
  /\ \A d \in Dr : AmountsAllowed(d) /\ StoredInLimits(d)
  /\ \A r \in report : r.k \notin overlap[r.d] =>
       Allowed(r.pdr) /\ (r.stored => InLimits(r.pdr))

=============================================================================

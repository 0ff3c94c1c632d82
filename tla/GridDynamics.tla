---------------------------- MODULE GridDynamics ----------------------------
(***************************************************************************)
(* The grid agent of the demand-response market (dmm/gridDynamics).        *)
(*                                                                         *)
(* The ISO sends angles once a round.  Each such message runs receiveTheta *)
(* in a thread of its own (the agent is a NonBlockingDispatchAgent): it    *)
(* asks the units for their power, sleeps a second, and computes the state *)
(* of the grid, the status of the frequency, the price and the energies of *)
(* the next round from those of its own round.  Nothing makes the threads  *)
(* of two rounds take turns but the second between their messages, and     *)
(* nothing makes a report arrive within the sleep.                         *)
(*                                                                         *)
(* The state y of a round is one integer instead of a vector, and so are   *)
(* the price rho and the energy E_D.  The matrices become integer gains,   *)
(* and Supply stands for Gamma_P_G * P_G + Gamma_P_D * P_D.                *)
(***************************************************************************)
EXTENDS Integers, Sequences

CONSTANTS
  Unit,      \* the generators and the demand-response units
  NIter,     \* number of rounds, N_iter
  Power,     \* the amounts a unit may report
  P0,        \* the stabilized powers
  Phi,       \* gain of the state
  Load,      \* the load of each round, Gamma_P_L * P_L
  Supply,    \* what the powers of the units add up to
  SoftLimit, \* the frequency deviation that is still no error, 0.015
  KRho, KE,  \* gains of the price and of the energy, Kf*A3 and A4
  Y0, Rho0, E0 \* the stabilized values

Rounds == 0 .. NIter - 1
Slots  == 0 .. NIter

ASSUME GridAssumption ==
  /\ NIter \in Nat \ {0}
  /\ P0 \in [Unit -> Power] /\ SoftLimit \in Nat
  /\ Phi \in Int /\ Load \in [Rounds -> Int] /\ Supply \in [[Unit -> Power] -> Int]
  /\ KRho \in Int /\ KE \in Int /\ Y0 \in Int /\ Rho0 \in Int /\ E0 \in Int

VARIABLES
  pc,              \* pc[k]: where the thread receiveTheta(k) is
  held,            \* held[k]: the value it is about to assign to the status,
                   \* then the one it is about to send
  power,           \* P_G and P_D: the last amount each unit reported
  y, rho, E_D,     \* one entry per round
  freqErrorStatus, \* is the frequency outside its limit?
  due,             \* <<unit, round>>: requests whose report has not come
  notices,         \* notices sent to the ISO
  prices,          \* <<round, rho>> sent to the ISO
  energies,        \* <<round, energy>> sent to the demand-response units
  early,           \* history: rounds that read a value of the round before
                   \* which was not computed yet
  met,             \* history: was the status tested while another thread was
                   \* about to change it?
  overtaken,       \* history: was the status changed while another thread was
                   \* about to send the one it had read?
  outside          \* history: the last outcome a thread tested the status with

threadVars == <<pc, held>>
stateVars == <<power, y, rho, E_D, freqErrorStatus>>
messageVars == <<due, notices, prices, energies>>
historyVars == <<early, met, overtaken, outside>>
vars == <<threadVars, stateVars, messageVars, historyVars>>

\* The steps of a thread after it wrote y and rho.
AfterRho == {"energy", "done"}
AfterY   == AfterRho \cup {"test", "load", "store", "read", "notice", "rho"}
ThreadPc == AfterY \cup {"idle", "sleep"}

Goes(k, from, to) == pc[k] = from /\ pc' = [pc EXCEPT ![k] = to]

\* Round k reads what the thread of the round before writes in an earlier step.
NeedsPrevious(k, steps) ==
  early' = IF k > 0 /\ pc[k - 1] \notin steps THEN early \cup {k} ELSE early

Outside(yk) == yk > SoftLimit \/ yk < -SoftLimit

-----------------------------------------------------------------------------
\* The angles of a round arrive, the messenger delivering those of the rounds in
\* any order; both groups of units are asked.
ReceiveTheta(k) ==
  /\ due' = due \cup (Unit \X {k})
  /\ Goes(k, "idle", "sleep")
  /\ UNCHANGED <<held, stateVars, notices, prices, energies, historyVars>>

\* receivePg and receivePdr: the round in the report is only logged.
ReceivePower(u, k) ==
  /\ <<u, k>> \in due
  /\ \E p \in Power : power' = [power EXCEPT ![u] = p]
  /\ due' = due \ {<<u, k>>}
  /\ UNCHANGED <<threadVars, y, rho, E_D, freqErrorStatus, notices, prices, energies,
                 historyVars>>

\* A column is added for each round instead of all being there from the start.
ComputeYAddColumn(k) ==
  /\ Goes(k, "sleep", "test")
  /\ y' = [j \in 0 .. k + 1 |-> IF j = k + 1 THEN Phi * y[k] + Load[k] + Supply[power] ELSE y[j]]
  /\ NeedsPrevious(k, AfterY)
  /\ UNCHANGED <<held, power, rho, E_D, freqErrorStatus, messageVars,
                 met, overtaken, outside>>

ComputeY(k) ==
  /\ Goes(k, "sleep", "test")
  /\ y' = [y EXCEPT ![k + 1] = Phi * y[k] + Load[k] + Supply[power]]
  /\ NeedsPrevious(k, AfterY)
  /\ UNCHANGED <<held, power, rho, E_D, freqErrorStatus, messageVars,
                 met, overtaken, outside>>

\* The thread found that the status has changed, and has not written it yet.
Deciding(k) == pc[k] \in {"load", "store"}

\* The frequency of the round before.
TestPrevious(k) ==
  /\ Goes(k, "test", IF Outside(y[k]) # freqErrorStatus THEN "load" ELSE "rho")
  /\ outside' = Outside(y[k + 1])
  /\ met' = (met \/ \E j \in Rounds : Deciding(j))
  /\ UNCHANGED <<held, stateVars, messageVars, early, overtaken>>

TestStatus(k) ==
  /\ Goes(k, "test", IF Outside(y[k + 1]) # freqErrorStatus THEN "load" ELSE "rho")
  /\ outside' = Outside(y[k + 1])
  /\ met' = (met \/ \E j \in Rounds : Deciding(j))
  /\ UNCHANGED <<held, stateVars, messageVars, early, overtaken>>

\* Line 197 reads the status again and writes its negation.
LoadStatus(k) ==
  /\ held' = [held EXCEPT ![k] = ~ freqErrorStatus]
  /\ Goes(k, "load", "store")
  /\ UNCHANGED <<stateVars, messageVars, historyVars>>

StoreStatus(k) ==
  /\ freqErrorStatus' = held[k]
  /\ Goes(k, "store", "read")
  /\ overtaken' = (overtaken \/ \E j \in Rounds : pc[j] = "notice")
  /\ UNCHANGED <<held, power, y, rho, E_D, messageVars, early, met, outside>>

\* The notice tells the value the thread wrote, not the status.
ReadOwnValue(k) ==
  /\ held' = held
  /\ Goes(k, "read", "notice")
  /\ UNCHANGED <<stateVars, messageVars, historyVars>>

\* Line 198 reads the status once more, as the argument of the call.
ReadStatus(k) ==
  /\ held' = [held EXCEPT ![k] = freqErrorStatus]
  /\ Goes(k, "read", "notice")
  /\ UNCHANGED <<stateVars, messageVars, historyVars>>

SendFreqErrorNotice(k) ==
  /\ notices' = Append(notices, held[k])
  /\ Goes(k, "notice", "rho")
  /\ UNCHANGED <<held, stateVars, due, prices, energies, historyVars>>

\* Only this thread writes the entry it sends, so the two are one step, and so
\* are they in ComputeE.
ComputeRho(k) ==
  /\ rho' = [rho EXCEPT ![k + 1] = rho[k] - KRho * y[k]]
  /\ prices' = prices \cup {<<k + 1, rho'[k + 1]>>}
  /\ NeedsPrevious(k, AfterRho)
  /\ Goes(k, "rho", "energy")
  /\ UNCHANGED <<held, power, y, E_D, freqErrorStatus, due, notices, energies,
                 met, overtaken, outside>>

\* Off by one: the energy of the column just computed.
ComputeEAhead(k) ==
  /\ E_D' = [E_D EXCEPT ![k + 1] = E_D[k] + KE * y[k + 1]]
  /\ energies' = energies \cup {<<k + 1, E_D'[k + 1]>>}
  /\ NeedsPrevious(k, {"done"})
  /\ Goes(k, "energy", "done")
  /\ UNCHANGED <<held, power, y, rho, freqErrorStatus, due, notices, prices,
                 met, overtaken, outside>>

ComputeE(k) ==
  /\ E_D' = [E_D EXCEPT ![k + 1] = E_D[k] + KE * y[k]]
  /\ energies' = energies \cup {<<k + 1, E_D'[k + 1]>>}
  /\ NeedsPrevious(k, {"done"})
  /\ Goes(k, "energy", "done")
  /\ UNCHANGED <<held, power, y, rho, freqErrorStatus, due, notices, prices,
                 met, overtaken, outside>>

-----------------------------------------------------------------------------
Init ==
  /\ pc = [k \in Rounds |-> "idle"] /\ held = [k \in Rounds |-> FALSE]
  /\ power = P0
  /\ y = [k \in Slots |-> IF k = 0 THEN Y0 ELSE 0]
  /\ rho = [k \in Slots |-> IF k = 0 THEN Rho0 ELSE 0]
  /\ E_D = [k \in Slots |-> IF k = 0 THEN E0 ELSE 0]
  /\ freqErrorStatus = FALSE
  /\ due = {} /\ notices = << >> /\ prices = {} /\ energies = {}
  /\ early = {} /\ met = FALSE /\ overtaken = FALSE /\ outside = FALSE

Thread(k) ==
  \/ ReceiveTheta(k) \/ ComputeY(k) \/ TestStatus(k) \/ LoadStatus(k) \/ StoreStatus(k)
  \/ ReadStatus(k) \/ SendFreqErrorNotice(k) \/ ComputeRho(k) \/ ComputeE(k)

Next ==
  \/ \E k \in Rounds : Thread(k)
  \/ \E u \in Unit, k \in Rounds : ReceivePower(u, k)

Spec == Init /\ [][Next]_vars

-----------------------------------------------------------------------------
(* Every variable keeps its type: no column outside the arrays is written. *)
TypeOK ==
  /\ pc \in [Rounds -> ThreadPc] /\ held \in [Rounds -> BOOLEAN]
  /\ power \in [Unit -> Power]
  /\ y \in [Slots -> Int] /\ rho \in [Slots -> Int] /\ E_D \in [Slots -> Int]
  /\ freqErrorStatus \in BOOLEAN
  /\ due \subseteq Unit \X Rounds /\ notices \in Seq(BOOLEAN)
  /\ prices \subseteq Slots \X Int /\ energies \subseteq Slots \X Int
  /\ early \subseteq Rounds
  /\ met \in BOOLEAN /\ overtaken \in BOOLEAN /\ outside \in BOOLEAN

Told == IF notices = << >> THEN FALSE ELSE notices[Len(notices)]

(* However the threads toggle the status and mix their notices, the last    *)
(* notice to the ISO tells the status, once every thread that toggled it has *)
(* sent its own; unless a thread toggled it between the two steps in which   *)
(* another one reads the status (line 198) and sends it (line 242).          *)
NoticesTellStatus ==
  ~ overtaken /\ (\A k \in Rounds : pc[k] \notin {"read", "notice"})
    => Told = freqErrorStatus

(* The status is the outcome of the last test of the frequency, unless it  *)
(* was tested while another thread was between its own test and the store: *)
(* then both toggle it.                                                    *)
StatusIsCurrent ==
  ~ met /\ (\A k \in Rounds : ~ Deciding(k)) => freqErrorStatus = outside

(* The price told to the ISO and the energy told to the units for a round  *)
(* have both summed up the same states of the grid, whatever the order of  *)
(* the threads, unless a thread ran ahead of the round before it.          *)
RhoMatchesEnergy ==
  \A p \in prices, e \in energies :
    p[1] = e[1] /\ (\A j \in 0 .. p[1] - 1 : j \notin early)
      => KE * (p[2] - Rho0) = -KRho * (e[2] - E0)

-----------------------------------------------------------------------------
(* What makes these properties inductive.                                  *)

\* For NoticesTellStatus: a notice about to be sent tells the status.
NoticeInv ==
  /\ ~ overtaken => \A k \in Rounds : pc[k] = "notice" => held[k] = freqErrorStatus
  /\ NoticesTellStatus

\* For StatusIsCurrent: as long as they never met, only one thread at a time
\* changes the status, and it does so because the test found it wrong.
StatusInv ==
  ~ met =>
    /\ \A j, k \in Rounds : Deciding(j) /\ Deciding(k) => j = k
    /\ \A k \in Rounds :
         /\ pc[k] = "load" => freqErrorStatus # outside
         /\ pc[k] = "store" => held[k] = outside
    /\ (\A k \in Rounds : ~ Deciding(k)) => freqErrorStatus = outside

\* For RhoMatchesEnergy: a round in which nothing was read too early, nor in a
\* round before it, starts from entries that no thread will write again.
InTurn(k) == \A j \in 0 .. k : j \notin early

SameSum(k) == KE * (rho[k] - Rho0) = -KRho * (E_D[k] - E0)

SentAsKept ==
  /\ \A p \in prices : \E k \in Rounds : p = <<k + 1, rho[k + 1]>> /\ pc[k] \in AfterRho
  /\ \A e \in energies : \E k \in Rounds : e = <<k + 1, E_D[k + 1]>> /\ pc[k] = "done"

SumOf(k) ==
  InTurn(k) =>
    /\ k > 0 /\ pc[k] \in AfterRho => pc[k - 1] \in AfterRho
    /\ pc[k] = "energy" => rho[k + 1] = rho[k] - KRho * y[k]
    /\ pc[k] = "done" => SameSum(k + 1)

SumInv ==
  /\ rho[0] = Rho0 /\ E_D[0] = E0
  /\ SentAsKept
  /\ \A k \in Rounds : SumOf(k)

=============================================================================

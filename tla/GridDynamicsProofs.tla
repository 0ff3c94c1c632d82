------------------------- MODULE GridDynamicsProofs -------------------------
(***************************************************************************)
(* Proofs about module GridDynamics, for any number of units and rounds,   *)
(* any load and any gains.                                                 *)
(***************************************************************************)
EXTENDS GridDynamics, TLAPS

(* The entries a round reads and writes are within the arrays.             *)
LEMMA RoundsAndSlots ==
  /\ Rounds \subseteq Slots /\ Slots \subseteq Nat /\ 0 \in Slots /\ 0 \in Rounds
  /\ \A k \in Rounds : k + 1 \in Slots /\ (k > 0 => k - 1 \in Rounds)
BY GridAssumption DEF Rounds, Slots

(* A thread goes on to its next step, and no other thread moves.           *)
LEMMA Moved ==
  ASSUME NEW k \in Rounds, NEW from, NEW to, pc \in [Rounds -> ThreadPc], Goes(k, from, to)
  PROVE  /\ pc[k] = from /\ pc'[k] = to
         /\ \A j \in Rounds \ {k} : pc'[j] = pc[j]
BY DEF Goes

(* The type of the thread's place is kept.                                 *)
LEMMA MovedType ==
  ASSUME NEW k \in Rounds, NEW from, NEW to \in ThreadPc, pc \in [Rounds -> ThreadPc],
         Goes(k, from, to)
  PROVE  pc' \in [Rounds -> ThreadPc]
BY DEF Goes

(* The set of early rounds grows, by the round that reads.                 *)
LEMMA EarlyGrows ==
  ASSUME NEW k \in Rounds, NEW steps, early \subseteq Rounds, NeedsPrevious(k, steps)
  PROVE  /\ early \subseteq early' /\ early' \subseteq Rounds
         /\ k > 0 /\ pc[k - 1] \notin steps => k \in early'
BY DEF NeedsPrevious

(* No thread writes a column outside the arrays (gridDynamics.py, compute). *)
THEOREM GridTypeCorrect == Spec => []TypeOK
<1>1. ASSUME Init PROVE TypeOK
  <2>1. y \in [Slots -> Int] /\ rho \in [Slots -> Int] /\ E_D \in [Slots -> Int]
    BY <1>1, GridAssumption DEF Init
  <2>2. pc \in [Rounds -> ThreadPc] /\ held \in [Rounds -> BOOLEAN]
    BY <1>1 DEF Init, ThreadPc
  <2>3. power \in [Unit -> Power] /\ notices \in Seq(BOOLEAN)
    BY <1>1, GridAssumption DEF Init
  <2>. QED
    BY <1>1, <2>1, <2>2, <2>3 DEF Init, TypeOK
<1>2. TypeOK /\ [Next]_vars => TypeOK'
  <2> SUFFICES ASSUME TypeOK, [Next]_vars PROVE TypeOK'
    OBVIOUS
  <2> USE DEF ThreadPc, AfterY, AfterRho
  <2>1. ASSUME NEW k \in Rounds, ReceiveTheta(k) PROVE TypeOK'
    <3>1. pc' \in [Rounds -> ThreadPc]
      BY <2>1, MovedType DEF ReceiveTheta, TypeOK
    <3>. QED
      BY <2>1, <3>1 DEF ReceiveTheta, TypeOK, stateVars, historyVars
  <2>2. ASSUME NEW k \in Rounds, ComputeY(k) PROVE TypeOK'
    <3>1. pc' \in [Rounds -> ThreadPc]
      BY <2>2, MovedType DEF ComputeY, TypeOK
    <3>2. y' \in [Slots -> Int]
      <4>1. y[k] \in Int /\ Load[k] \in Int /\ Supply[power] \in Int /\ Phi \in Int
        BY GridAssumption, RoundsAndSlots DEF TypeOK
      <4>2. Phi * y[k] \in Int
        BY <4>1
      <4>3. Phi * y[k] + Load[k] + Supply[power] \in Int
        BY <4>1, <4>2
      <4>. QED
        BY <2>2, <4>3, RoundsAndSlots DEF ComputeY, TypeOK
    <3>3. early' \subseteq Rounds
      BY <2>2, EarlyGrows DEF ComputeY, TypeOK
    <3>. QED
      BY <2>2, <3>1, <3>2, <3>3 DEF ComputeY, TypeOK, messageVars
  <2>3. ASSUME NEW k \in Rounds, TestStatus(k) PROVE TypeOK'
    <3>1. pc' \in [Rounds -> ThreadPc]
      BY <2>3, MovedType DEF TestStatus, TypeOK
    <3>2. outside' \in BOOLEAN
      BY <2>3 DEF TestStatus, Outside
    <3>3. met' \in BOOLEAN
      BY <2>3 DEF TestStatus, TypeOK
    <3>. QED
      BY <2>3, <3>1, <3>2, <3>3 DEF TestStatus, TypeOK, stateVars, messageVars
  <2>4. ASSUME NEW k \in Rounds, LoadStatus(k) PROVE TypeOK'
    <3>1. pc' \in [Rounds -> ThreadPc]
      BY <2>4, MovedType DEF LoadStatus, TypeOK
    <3>2. held' \in [Rounds -> BOOLEAN]
      BY <2>4 DEF LoadStatus, TypeOK
    <3>. QED
      BY <2>4, <3>1, <3>2 DEF LoadStatus, TypeOK, stateVars, messageVars, historyVars
  <2>5. ASSUME NEW k \in Rounds, StoreStatus(k) PROVE TypeOK'
    <3>1. pc' \in [Rounds -> ThreadPc]
      BY <2>5, MovedType DEF StoreStatus, TypeOK
    <3>2. overtaken' \in BOOLEAN
      BY <2>5 DEF StoreStatus, TypeOK
    <3>. QED
      BY <2>5, <3>1, <3>2 DEF StoreStatus, TypeOK, messageVars
  <2>6. ASSUME NEW k \in Rounds, SendFreqErrorNotice(k) PROVE TypeOK'
    <3>1. pc' \in [Rounds -> ThreadPc]
      BY <2>6, MovedType DEF SendFreqErrorNotice, TypeOK
    <3>2. notices' \in Seq(BOOLEAN)
      BY <2>6 DEF SendFreqErrorNotice, TypeOK
    <3>. QED
      BY <2>6, <3>1, <3>2 DEF SendFreqErrorNotice, TypeOK, stateVars, historyVars
  <2>7. ASSUME NEW k \in Rounds, ComputeRho(k) PROVE TypeOK'
    <3>1. pc' \in [Rounds -> ThreadPc]
      BY <2>7, MovedType DEF ComputeRho, TypeOK
    <3>2. rho' \in [Slots -> Int]
      <4>1. y[k] \in Int /\ rho[k] \in Int /\ KRho \in Int
        BY GridAssumption, RoundsAndSlots DEF TypeOK
      <4>2. KRho * y[k] \in Int
        BY <4>1
      <4>3. rho[k] - KRho * y[k] \in Int
        BY <4>1, <4>2
      <4>. QED
        BY <2>7, <4>3, RoundsAndSlots DEF ComputeRho, TypeOK
    <3>3. early' \subseteq Rounds
      BY <2>7, EarlyGrows DEF ComputeRho, TypeOK
    <3>4. prices' \subseteq Slots \X Int
      BY <2>7, <3>2, RoundsAndSlots DEF ComputeRho, TypeOK
    <3>. QED
      BY <2>7, <3>1, <3>2, <3>3, <3>4 DEF ComputeRho, TypeOK
  <2>8. ASSUME NEW k \in Rounds, ComputeE(k) PROVE TypeOK'
    <3>1. pc' \in [Rounds -> ThreadPc]
      BY <2>8, MovedType DEF ComputeE, TypeOK
    <3>2. E_D' \in [Slots -> Int]
      <4>1. y[k] \in Int /\ E_D[k] \in Int /\ KE \in Int
        BY GridAssumption, RoundsAndSlots DEF TypeOK
      <4>2. KE * y[k] \in Int
        BY <4>1
      <4>3. E_D[k] + KE * y[k] \in Int
        BY <4>1, <4>2
      <4>. QED
        BY <2>8, <4>3, RoundsAndSlots DEF ComputeE, TypeOK
    <3>3. early' \subseteq Rounds
      BY <2>8, EarlyGrows DEF ComputeE, TypeOK
    <3>4. energies' \subseteq Slots \X Int
      BY <2>8, <3>2, RoundsAndSlots DEF ComputeE, TypeOK
    <3>. QED
      BY <2>8, <3>1, <3>2, <3>3, <3>4 DEF ComputeE, TypeOK
  <2>9. ASSUME NEW u \in Unit, NEW k \in Rounds, ReceivePower(u, k) PROVE TypeOK'
    <3>1. power' \in [Unit -> Power]
      BY <2>9 DEF ReceivePower, TypeOK
    <3>. QED
      BY <2>9, <3>1 DEF ReceivePower, TypeOK, threadVars, historyVars
  <2>10. ASSUME NEW k \in Rounds, ReadStatus(k) PROVE TypeOK'
    <3>1. pc' \in [Rounds -> ThreadPc]
      BY <2>10, MovedType DEF ReadStatus, TypeOK
    <3>2. held' \in [Rounds -> BOOLEAN]
      BY <2>10 DEF ReadStatus, TypeOK
    <3>. QED
      BY <2>10, <3>1, <3>2 DEF ReadStatus, TypeOK, stateVars, messageVars, historyVars
  <2>11. CASE UNCHANGED vars
    BY <2>11 DEF TypeOK, vars, threadVars, stateVars, messageVars, historyVars
  <2>. QED
    BY <2>1, <2>2, <2>3, <2>4, <2>5, <2>6, <2>7, <2>8, <2>9, <2>10, <2>11 DEF Next, Thread
<1>. QED
  BY <1>1, <1>2, PTL DEF Spec

-----------------------------------------------------------------------------
(* The actions that leave the notices and the status alone, and by which no *)
(* thread enters or leaves the two steps of a notice.                      *)
LEMMA NoticesUntouched ==
  ASSUME NoticeInv, UNCHANGED <<notices, freqErrorStatus, overtaken>>,
         \A k \in Rounds :
           /\ pc[k] \in {"read", "notice"} <=> pc'[k] \in {"read", "notice"}
           /\ pc'[k] = "notice" => pc[k] = "notice" /\ held'[k] = held[k]
  PROVE  NoticeInv'
<1>1. NoticesTellStatus'
  BY DEF NoticeInv, NoticesTellStatus, Told
<1>2. ~ overtaken' => \A k \in Rounds : pc'[k] = "notice" => held'[k] = freqErrorStatus'
  BY DEF NoticeInv
<1>. QED
  BY <1>1, <1>2 DEF NoticeInv

(* As long as no thread is overtaken, what is about to be sent is the      *)
(* status, and the last thread that toggled it also sends the last notice. *)
LEMMA NoticesStep == TypeOK /\ NoticeInv /\ [Next]_vars => NoticeInv'
<1> SUFFICES ASSUME TypeOK, NoticeInv, [Next]_vars PROVE NoticeInv'
  OBVIOUS
<1>0. pc \in [Rounds -> ThreadPc] /\ held \in [Rounds -> BOOLEAN]
  BY DEF TypeOK
<1>1. ASSUME NEW k \in Rounds, StoreStatus(k) PROVE NoticeInv'
  <2>1. pc'[k] = "read" /\ \A j \in Rounds \ {k} : pc'[j] = pc[j]
    BY <1>0, <1>1, Moved DEF StoreStatus
  <2>2. ~ overtaken' => \A j \in Rounds : pc'[j] # "notice"
    BY <1>1, <2>1 DEF StoreStatus
  <2>. QED
    BY <2>1, <2>2 DEF NoticeInv, NoticesTellStatus
<1>2. ASSUME NEW k \in Rounds, ReadStatus(k) PROVE NoticeInv'
  <2>1. /\ pc'[k] = "notice" /\ held'[k] = freqErrorStatus
        /\ \A j \in Rounds \ {k} : pc'[j] = pc[j] /\ held'[j] = held[j]
        /\ UNCHANGED <<freqErrorStatus, overtaken>>
    BY <1>0, <1>2, Moved DEF ReadStatus, stateVars, historyVars
  <2>. QED
    BY <2>1 DEF NoticeInv, NoticesTellStatus
<1>3. ASSUME NEW k \in Rounds, SendFreqErrorNotice(k) PROVE NoticeInv'
  <2>1. /\ pc[k] = "notice" /\ pc'[k] = "rho" /\ \A j \in Rounds \ {k} : pc'[j] = pc[j]
        /\ UNCHANGED <<freqErrorStatus, overtaken, held>>
    BY <1>0, <1>3, Moved DEF SendFreqErrorNotice, stateVars, historyVars
  <2>2. notices \in Seq(BOOLEAN) /\ notices' = Append(notices, held[k])
    BY <1>3 DEF SendFreqErrorNotice, TypeOK
  <2>3. notices' # << >> /\ notices'[Len(notices')] = held[k]
    BY <1>0, <2>2
  <2>4. ~ overtaken => held[k] = freqErrorStatus
    BY <2>1 DEF NoticeInv
  <2>5. NoticesTellStatus'
    BY <2>1, <2>3, <2>4 DEF NoticesTellStatus, Told
  <2>6. ~ overtaken' => \A j \in Rounds : pc'[j] = "notice" => held'[j] = freqErrorStatus'
    BY <2>1 DEF NoticeInv
  <2>. QED
    BY <2>5, <2>6 DEF NoticeInv
<1>4. ASSUME NEW k \in Rounds,
             \/ ReceiveTheta(k) \/ ComputeY(k) \/ TestStatus(k) \/ LoadStatus(k)
             \/ ComputeRho(k) \/ ComputeE(k)
      PROVE  NoticeInv'
  <2>1. UNCHANGED <<notices, freqErrorStatus, overtaken>>
    BY <1>4 DEF ReceiveTheta, ComputeY, TestStatus, LoadStatus, ComputeRho, ComputeE,
                stateVars, messageVars, historyVars
  <2>2. ASSUME NEW j \in Rounds
        PROVE  /\ pc[j] \in {"read", "notice"} <=> pc'[j] \in {"read", "notice"}
               /\ pc'[j] = "notice" => pc[j] = "notice" /\ held'[j] = held[j]
    <3>1. CASE LoadStatus(k)
      BY <1>0, <3>1 DEF LoadStatus, Goes
    <3>2. CASE ~ LoadStatus(k)
      BY <1>0, <1>4, <3>2
         DEF ReceiveTheta, ComputeY, TestStatus, ComputeRho, ComputeE, Goes
    <3>. QED
      BY <3>1, <3>2
  <2>. QED
    BY <2>1, <2>2, NoticesUntouched
<1>5. ASSUME NEW u \in Unit, NEW k \in Rounds, ReceivePower(u, k) PROVE NoticeInv'
  BY <1>5, NoticesUntouched DEF ReceivePower, threadVars, historyVars
<1>6. CASE UNCHANGED vars
  BY <1>6, NoticesUntouched DEF vars, threadVars, stateVars, messageVars, historyVars
<1>. QED
  BY <1>1, <1>2, <1>3, <1>4, <1>5, <1>6 DEF Next, Thread

(* The last notice tells the ISO the status, however the threads of two    *)
(* rounds interleave in lines 196-198 of gridDynamics.py, unless one of    *)
(* them toggles the status between the steps in which another reads it for *)
(* its notice (line 198) and sends it (line 242).                          *)
THEOREM NoticesAreRight == Spec => []NoticesTellStatus
<1>1. Init => NoticeInv
  BY DEF Init, NoticeInv, NoticesTellStatus, Told
<1>2. NoticeInv => NoticesTellStatus
  BY DEF NoticeInv
<1>. QED
  BY <1>1, <1>2, NoticesStep, GridTypeCorrect, PTL DEF Spec

-----------------------------------------------------------------------------
(* Threads that are not changing the status, before a step and after it.   *)
LEMMA StatusUntouched ==
  ASSUME StatusInv, UNCHANGED <<freqErrorStatus, outside, met>>,
         \A k \in Rounds : pc[k] = "store" => held'[k] = held[k],
         \A k \in Rounds : pc'[k] \in {"load", "store"} \/ Deciding(k) => pc'[k] = pc[k]
  PROVE  StatusInv'
BY DEF StatusInv, Deciding

(* As long as they do not meet, one thread at a time changes the status.   *)
LEMMA StatusStep == TypeOK /\ StatusInv /\ [Next]_vars => StatusInv'
<1> SUFFICES ASSUME TypeOK, StatusInv, [Next]_vars PROVE StatusInv'
  OBVIOUS
<1>0. pc \in [Rounds -> ThreadPc] /\ held \in [Rounds -> BOOLEAN]
      /\ freqErrorStatus \in BOOLEAN /\ outside \in BOOLEAN
  BY DEF TypeOK
<1>1. ASSUME NEW k \in Rounds, TestStatus(k), ~ met' PROVE StatusInv'
  <2>1. /\ pc[k] = "test" /\ pc'[k] = IF outside' # freqErrorStatus THEN "load" ELSE "rho"
        /\ \A j \in Rounds \ {k} : pc'[j] = pc[j]
    BY <1>0, <1>1 DEF TestStatus, Goes
  <2>2. \A j \in Rounds : ~ Deciding(j)
    BY <1>1 DEF TestStatus
  <2>3. \A j \in Rounds \ {k} : pc'[j] \notin {"load", "store"}
    BY <2>1, <2>2 DEF Deciding
  <2>4. freqErrorStatus' = freqErrorStatus /\ outside' \in BOOLEAN
    BY <1>1 DEF TestStatus, stateVars, Outside
  <2>. QED
    BY <1>0, <2>1, <2>3, <2>4 DEF StatusInv, Deciding
<1>2. ASSUME NEW k \in Rounds, LoadStatus(k), ~ met' PROVE StatusInv'
  <2>1. /\ pc[k] = "load" /\ pc'[k] = "store" /\ \A j \in Rounds \ {k} : pc'[j] = pc[j]
        /\ ~ met /\ UNCHANGED <<freqErrorStatus, outside>>
    BY <1>0, <1>2 DEF LoadStatus, Goes, stateVars, historyVars
  <2>2. held'[k] = ~ freqErrorStatus
    BY <1>0, <1>2 DEF LoadStatus
  <2>3. \A j \in Rounds \ {k} : ~ Deciding(j)
    BY <2>1 DEF StatusInv, Deciding
  <2>4. held'[k] = outside
    <3>1. freqErrorStatus # outside
      BY <2>1 DEF StatusInv
    <3>. QED
      BY <1>0, <2>2, <3>1
  <2>. QED
    BY <2>1, <2>3, <2>4 DEF StatusInv, Deciding
<1>3. ASSUME NEW k \in Rounds, StoreStatus(k), ~ met' PROVE StatusInv'
  <2>1. /\ pc[k] = "store" /\ pc'[k] = "read" /\ \A j \in Rounds \ {k} : pc'[j] = pc[j]
        /\ ~ met /\ UNCHANGED <<outside, held>> /\ freqErrorStatus' = held[k]
    BY <1>0, <1>3 DEF StoreStatus, Goes
  <2>2. \A j \in Rounds \ {k} : ~ Deciding(j)
    BY <2>1 DEF StatusInv, Deciding
  <2>3. freqErrorStatus' = outside
    BY <2>1 DEF StatusInv
  <2>. QED
    BY <2>1, <2>2, <2>3 DEF StatusInv, Deciding
<1>4. ASSUME NEW k \in Rounds, ReadStatus(k) PROVE StatusInv'
  <2>1. UNCHANGED <<freqErrorStatus, outside, met>>
    BY <1>4 DEF ReadStatus, stateVars, historyVars
  <2>2. \A j \in Rounds :
           /\ pc'[j] \in {"load", "store"} \/ Deciding(j) => pc'[j] = pc[j]
           /\ pc[j] = "store" => held'[j] = held[j]
    BY <1>0, <1>4 DEF ReadStatus, Goes, Deciding
  <2>. QED
    BY <2>1, <2>2, StatusUntouched
<1>5. ASSUME NEW k \in Rounds,
             \/ ReceiveTheta(k) \/ ComputeY(k) \/ SendFreqErrorNotice(k)
             \/ ComputeRho(k) \/ ComputeE(k)
      PROVE  StatusInv'
  <2>1. UNCHANGED <<freqErrorStatus, outside, met, held>>
    BY <1>5 DEF ReceiveTheta, ComputeY, SendFreqErrorNotice, ComputeRho, ComputeE,
                stateVars, historyVars
  <2>2. \A j \in Rounds : pc'[j] \in {"load", "store"} \/ Deciding(j) => pc'[j] = pc[j]
    BY <1>0, <1>5 DEF ReceiveTheta, ComputeY, SendFreqErrorNotice, ComputeRho, ComputeE,
                      Goes, Deciding
  <2>. QED
    BY <2>1, <2>2, StatusUntouched
<1>6. ASSUME NEW u \in Unit, NEW k \in Rounds, ReceivePower(u, k) PROVE StatusInv'
  BY <1>6, StatusUntouched DEF ReceivePower, threadVars, historyVars
<1>7. CASE UNCHANGED vars
  BY <1>7, StatusUntouched DEF vars, threadVars, stateVars, historyVars
<1>8. CASE met'
  BY <1>8 DEF StatusInv
<1>. QED
  BY <1>1, <1>2, <1>3, <1>4, <1>5, <1>6, <1>7, <1>8 DEF Next, Thread

(* The status is the outcome of the last test (lines 194-197), unless one  *)
(* thread tested it while another was about to toggle it.                  *)
THEOREM StatusIsRight == Spec => []StatusIsCurrent
<1>1. Init => StatusInv
  BY DEF Init, StatusInv, Deciding
<1>2. StatusInv => StatusIsCurrent
  BY DEF StatusInv, StatusIsCurrent
<1>. QED
  BY <1>1, <1>2, StatusStep, GridTypeCorrect, PTL DEF Spec

-----------------------------------------------------------------------------
(* Two sums that grow by the same state stay in proportion.                *)
LEMMA Proportion ==
  ASSUME NEW r \in Int, NEW e \in Int, NEW v \in Int,
         KE * (r - Rho0) = -KRho * (e - E0)
  PROVE  KE * ((r - KRho * v) - Rho0) = -KRho * ((e + KE * v) - E0)
<1>1. KE \in Int /\ KRho \in Int /\ Rho0 \in Int /\ E0 \in Int
  BY GridAssumption
<1> DEFINE a == r - Rho0
           b == e - E0
           x == KRho * v
           z == KE * v
<1>2. a \in Int /\ b \in Int /\ x \in Int /\ z \in Int
  BY <1>1
<1>3. KE * x = KRho * z
  BY <1>1
<1>4. KE * (a - x) = KE * a - KE * x
  BY <1>1, <1>2
<1>5. -KRho * (b + z) = -KRho * b - KRho * z
  BY <1>1, <1>2
<1>6. KE * (a - x) = -KRho * (b + z)
  BY <1>1, <1>2, <1>3, <1>4, <1>5
<1>7. (r - x) - Rho0 = a - x /\ (e + z) - E0 = b + z
  BY <1>1, <1>2
<1>. QED
  BY <1>6, <1>7

(* A round that has not been computed before its own step is not affected  *)
(* by the others, if its entries are not.                                  *)
LEMMA SumOfSame ==
  ASSUME NEW k \in Rounds, SumOf(k), early \subseteq early',
         pc'[k] \in AfterRho => pc'[k] = pc[k],
         k > 0 /\ pc'[k] \in AfterRho /\ pc[k - 1] \in AfterRho
           => pc'[k - 1] \in AfterRho,
         pc'[k] \in AfterRho /\ InTurn(k) =>
           /\ rho'[k] = rho[k] /\ y'[k] = y[k]
           /\ rho'[k + 1] = rho[k + 1] /\ E_D'[k + 1] = E_D[k + 1]
  PROVE  SumOf(k)'
<1> SUFFICES ASSUME InTurn(k)' PROVE
      /\ k > 0 /\ pc'[k] \in AfterRho => pc'[k - 1] \in AfterRho
      /\ pc'[k] = "energy" => rho'[k + 1] = rho'[k] - KRho * y'[k]
      /\ pc'[k] = "done" => SameSum(k + 1)'
  BY DEF SumOf
<1>1. InTurn(k)
  BY DEF InTurn
<1>2. CASE pc'[k] \notin AfterRho
  BY <1>2 DEF AfterRho
<1>3. CASE pc'[k] \in AfterRho
  <2>1. pc'[k] = pc[k] /\ (k > 0 => pc[k - 1] \in AfterRho)
    BY <1>1, <1>3 DEF SumOf
  <2>2. pc'[k] = "energy" => rho'[k + 1] = rho'[k] - KRho * y'[k]
    BY <1>1, <1>3, <2>1 DEF SumOf
  <2>3. pc'[k] = "done" => SameSum(k + 1)'
    BY <1>1, <1>3, <2>1 DEF SumOf, SameSum
  <2>. QED
    BY <1>3, <2>1, <2>2, <2>3
<1>. QED
  BY <1>2, <1>3

(* A step that writes no entry, and moves no thread past the step rho.     *)
LEMMA SumUntouched ==
  ASSUME SumInv, UNCHANGED <<y, rho, E_D, prices, energies, early>>,
         \A k \in Rounds : pc'[k] \in AfterRho \/ pc[k] \in AfterRho => pc'[k] = pc[k]
  PROVE  SumInv'
<1>1. SentAsKept'
  BY DEF SumInv, SentAsKept, AfterRho
<1>2. ASSUME NEW k \in Rounds PROVE SumOf(k)'
  BY RoundsAndSlots, SumOfSame DEF SumInv
<1>. QED
  BY <1>1, <1>2 DEF SumInv

(* A round whose turn it is reads entries that are final.                  *)
LEMMA SumStep == TypeOK /\ SumInv /\ [Next]_vars => SumInv'
<1> SUFFICES ASSUME TypeOK, SumInv, [Next]_vars PROVE SumInv'
  OBVIOUS
<1>0. /\ pc \in [Rounds -> ThreadPc] /\ early \subseteq Rounds
      /\ y \in [Slots -> Int] /\ rho \in [Slots -> Int] /\ E_D \in [Slots -> Int]
  BY DEF TypeOK
<1>a. \A j \in Rounds : j \in Int /\ j + 1 \in Slots /\ j \in Slots /\ j + 1 # 0
  BY RoundsAndSlots
<1>1. ASSUME NEW k \in Rounds, ComputeY(k) PROVE SumInv'
  <2>1. /\ pc[k] = "sleep" /\ pc'[k] = "test" /\ \A j \in Rounds \ {k} : pc'[j] = pc[j]
        /\ early \subseteq early' /\ UNCHANGED <<rho, E_D, prices, energies>>
    BY <1>0, <1>1, Moved, EarlyGrows DEF ComputeY, messageVars
  <2>2. \A j \in Slots : j # k + 1 => y'[j] = y[j]
    <3>1. y' = [y EXCEPT ![k + 1] = Phi * y[k] + Load[k] + Supply[power]]
      BY <1>1 DEF ComputeY
    <3>. QED
      BY <1>0, <3>1
  <2>3. SentAsKept'
    BY <2>1 DEF SumInv, SentAsKept, AfterRho
  <2>4. ASSUME NEW j \in Rounds PROVE SumOf(j)'
    <3>1. pc'[j] \in AfterRho => pc'[j] = pc[j]
      BY <2>1 DEF AfterRho
    <3>2. j > 0 /\ pc[j - 1] \in AfterRho => pc'[j - 1] \in AfterRho
      BY <2>1, RoundsAndSlots DEF AfterRho
    <3>3. ASSUME pc'[j] \in AfterRho, InTurn(j) PROVE y'[j] = y[j]
      <4>1. j # k + 1
        <5> SUFFICES ASSUME j = k + 1 PROVE FALSE
          OBVIOUS
        <5>1. j > 0 /\ j - 1 = k
          BY RoundsAndSlots
        <5>2. pc[k] \in AfterRho
          BY <3>1, <3>3, <5>1 DEF SumInv, SumOf
        <5>. QED
          BY <2>1, <5>2 DEF AfterRho
      <4>. QED
        BY <2>2, <4>1, <1>a
    <3>. QED
      BY <2>1, <3>1, <3>2, <3>3, SumOfSame DEF SumInv
  <2>. QED
    BY <2>1, <2>3, <2>4 DEF SumInv
<1>2. ASSUME NEW k \in Rounds, ComputeRho(k) PROVE SumInv'
  <2>1. /\ pc[k] = "rho" /\ pc'[k] = "energy" /\ \A j \in Rounds \ {k} : pc'[j] = pc[j]
        /\ early \subseteq early' /\ UNCHANGED <<y, E_D, energies>>
        /\ k > 0 /\ pc[k - 1] \notin AfterRho => k \in early'
    BY <1>0, <1>2, Moved, EarlyGrows DEF ComputeRho
  <2>2. /\ rho'[k + 1] = rho[k] - KRho * y[k]
        /\ \A j \in Slots : j # k + 1 => rho'[j] = rho[j]
    <3>1. rho' = [rho EXCEPT ![k + 1] = rho[k] - KRho * y[k]]
      BY <1>2 DEF ComputeRho
    <3>. QED
      BY <1>0, <1>a, <3>1
  <2>3. rho'[0] = Rho0 /\ E_D'[0] = E0
    BY <1>a, <2>1, <2>2, RoundsAndSlots DEF SumInv
  <2>4. SentAsKept'
    <3>1. ASSUME NEW p \in prices'
          PROVE  \E j \in Rounds : p = <<j + 1, rho'[j + 1]>> /\ pc'[j] \in AfterRho
      <4>1. CASE p \in prices
        <5>1. PICK j \in Rounds : p = <<j + 1, rho[j + 1]>> /\ pc[j] \in AfterRho
          BY <4>1 DEF SumInv, SentAsKept
        <5>2. j # k
          BY <2>1, <5>1 DEF AfterRho
        <5>3. rho'[j + 1] = rho[j + 1]
          BY <1>a, <2>2, <5>2
        <5>. QED
          BY <2>1, <5>1, <5>2, <5>3
      <4>2. CASE p = <<k + 1, rho'[k + 1]>>
        BY <2>1, <4>2 DEF AfterRho
      <4>. QED
        BY <1>2, <4>1, <4>2 DEF ComputeRho
    <3>2. \A e \in energies : \E j \in Rounds : e = <<j + 1, E_D[j + 1]>> /\ pc'[j] = "done"
      BY <2>1 DEF SumInv, SentAsKept
    <3>. QED
      BY <2>1, <3>1, <3>2 DEF SentAsKept
  <2>5. SumOf(k)'
    <3>1. rho'[k] = rho[k]
      BY <1>a, <2>2
    <3>2. ASSUME InTurn(k)', k > 0 PROVE pc'[k - 1] \in AfterRho
      <4>1. k \notin early'
        BY <3>2, RoundsAndSlots DEF InTurn
      <4>2. pc[k - 1] \in AfterRho
        BY <2>1, <3>2, <4>1
      <4>. QED
        BY <2>1, <3>2, <4>2, RoundsAndSlots
    <3>. QED
      BY <2>1, <2>2, <3>1, <3>2 DEF SumOf
  <2>6. ASSUME NEW j \in Rounds \ {k} PROVE SumOf(j)'
    <3>1. j > 0 /\ pc[j - 1] \in AfterRho => pc'[j - 1] \in AfterRho
      BY <2>1, RoundsAndSlots DEF AfterRho
    <3>2. rho'[j + 1] = rho[j + 1]
      BY <1>a, <2>2
    <3>3. ASSUME pc'[j] \in AfterRho, InTurn(j) PROVE rho'[j] = rho[j]
      <4>1. j # k + 1
        <5> SUFFICES ASSUME j = k + 1 PROVE FALSE
          OBVIOUS
        <5>1. j > 0 /\ j - 1 = k
          BY RoundsAndSlots
        <5>2. pc[k] \in AfterRho
          BY <2>1, <3>3, <5>1 DEF SumInv, SumOf
        <5>. QED
          BY <2>1, <5>2 DEF AfterRho
      <4>. QED
        BY <2>2, <4>1, <1>a
    <3>. QED
      BY <2>1, <3>1, <3>2, <3>3, SumOfSame DEF SumInv
  <2>. QED
    BY <2>3, <2>4, <2>5, <2>6 DEF SumInv
<1>3. ASSUME NEW k \in Rounds, ComputeE(k) PROVE SumInv'
  <2>1. /\ pc[k] = "energy" /\ pc'[k] = "done" /\ \A j \in Rounds \ {k} : pc'[j] = pc[j]
        /\ early \subseteq early' /\ UNCHANGED <<y, rho, prices>>
        /\ k > 0 /\ pc[k - 1] \notin {"done"} => k \in early'
    BY <1>0, <1>3, Moved, EarlyGrows DEF ComputeE
  <2>2. /\ E_D'[k + 1] = E_D[k] + KE * y[k]
        /\ \A j \in Slots : j # k + 1 => E_D'[j] = E_D[j]
    <3>1. E_D' = [E_D EXCEPT ![k + 1] = E_D[k] + KE * y[k]]
      BY <1>3 DEF ComputeE
    <3>. QED
      BY <1>0, <1>a, <3>1
  <2>3. rho'[0] = Rho0 /\ E_D'[0] = E0
    BY <1>a, <2>1, <2>2, RoundsAndSlots DEF SumInv
  <2>4. \A j \in Rounds : pc[j] \in AfterRho => pc'[j] \in AfterRho
    BY <2>1 DEF AfterRho
  <2>5. SentAsKept'
    <3>1. \A p \in prices : \E j \in Rounds : p = <<j + 1, rho[j + 1]>> /\ pc'[j] \in AfterRho
      BY <2>4 DEF SumInv, SentAsKept
    <3>2. ASSUME NEW e \in energies'
          PROVE  \E j \in Rounds : e = <<j + 1, E_D'[j + 1]>> /\ pc'[j] = "done"
      <4>1. CASE e \in energies
        <5>1. PICK j \in Rounds : e = <<j + 1, E_D[j + 1]>> /\ pc[j] = "done"
          BY <4>1 DEF SumInv, SentAsKept
        <5>2. j # k
          BY <2>1, <5>1
        <5>3. E_D'[j + 1] = E_D[j + 1]
          BY <1>a, <2>2, <5>2
        <5>. QED
          BY <2>1, <5>1, <5>2, <5>3
      <4>2. CASE e = <<k + 1, E_D'[k + 1]>>
        BY <2>1, <4>2
      <4>. QED
        BY <1>3, <4>1, <4>2 DEF ComputeE
    <3>. QED
      BY <2>1, <3>1, <3>2 DEF SentAsKept
  <2>6. SumOf(k)'
    <3> SUFFICES ASSUME InTurn(k)'
                 PROVE  /\ k > 0 => pc'[k - 1] \in AfterRho
                        /\ SameSum(k + 1)'
      BY <2>1 DEF SumOf
    <3>1. InTurn(k) /\ k \notin early'
      BY <2>1, RoundsAndSlots DEF InTurn
    <3>2. k > 0 => pc[k - 1] = "done" /\ k - 1 \in Rounds /\ InTurn(k - 1)
      BY <2>1, <3>1, RoundsAndSlots DEF InTurn
    <3>3. rho[k + 1] = rho[k] - KRho * y[k]
      BY <2>1, <3>1 DEF SumInv, SumOf
    <3>4. SameSum(k)
      <4>1. CASE k = 0
        <5>1. rho[0] - Rho0 = 0 /\ E_D[0] - E0 = 0 /\ KE \in Int /\ KRho \in Int
          BY <1>0, RoundsAndSlots, GridAssumption DEF SumInv
        <5>. QED
          BY <4>1, <5>1 DEF SameSum
      <4>2. CASE k > 0
        <5>1. SumOf(k - 1) /\ (k - 1) + 1 = k
          BY <3>2, <4>2, <1>a DEF SumInv
        <5>. QED
          BY <3>2, <4>2, <5>1 DEF SumOf
      <4>. QED
        BY <4>1, <4>2, RoundsAndSlots
    <3>5. rho[k] \in Int /\ E_D[k] \in Int /\ y[k] \in Int
      BY <1>0, <1>a
    <3>6. KE * ((rho[k] - KRho * y[k]) - Rho0) = -KRho * ((E_D[k] + KE * y[k]) - E0)
      BY <3>4, <3>5, Proportion DEF SameSum
    <3>7. SameSum(k + 1)'
      BY <2>1, <2>2, <3>3, <3>6 DEF SameSum
    <3>. QED
      BY <2>1, <3>2, <3>7 DEF AfterRho
  <2>7. ASSUME NEW j \in Rounds \ {k} PROVE SumOf(j)'
    <3>1. j > 0 /\ pc[j - 1] \in AfterRho => pc'[j - 1] \in AfterRho
      BY <2>4, RoundsAndSlots
    <3>2. E_D'[j + 1] = E_D[j + 1]
      BY <1>a, <2>2
    <3>. QED
      BY <2>1, <3>1, <3>2, SumOfSame DEF SumInv
  <2>. QED
    BY <2>3, <2>5, <2>6, <2>7 DEF SumInv
<1>4. ASSUME NEW k \in Rounds,
             ReceiveTheta(k) \/ TestStatus(k) \/ LoadStatus(k) \/ StoreStatus(k)
               \/ ReadStatus(k) \/ SendFreqErrorNotice(k)
      PROVE  SumInv'
  <2>1. UNCHANGED <<y, rho, E_D, prices, energies, early>>
    BY <1>4 DEF ReceiveTheta, TestStatus, LoadStatus, StoreStatus, ReadStatus,
                SendFreqErrorNotice, stateVars, messageVars, historyVars
  <2>2. \A j \in Rounds : pc'[j] \in AfterRho \/ pc[j] \in AfterRho => pc'[j] = pc[j]
    BY <1>0, <1>4
       DEF ReceiveTheta, TestStatus, LoadStatus, StoreStatus, ReadStatus,
           SendFreqErrorNotice, Goes, AfterRho
  <2>. QED
    BY <2>1, <2>2, SumUntouched
<1>5. ASSUME NEW u \in Unit, NEW k \in Rounds, ReceivePower(u, k) PROVE SumInv'
  BY <1>5, SumUntouched DEF ReceivePower, threadVars, historyVars
<1>6. CASE UNCHANGED vars
  BY <1>6, SumUntouched DEF vars, threadVars, stateVars, messageVars, historyVars
<1>. QED
  BY <1>1, <1>2, <1>3, <1>4, <1>5, <1>6 DEF Next, Thread

(* The price and the energy told for a round sum up the same states        *)
(* (gridDynamics.py, lines 200-213), if its turn had come and that of all  *)
(* rounds before it.                                                       *)
THEOREM PriceFitsEnergy == Spec => []RhoMatchesEnergy
<1>1. Init => SumInv
  BY RoundsAndSlots DEF Init, SumInv, SentAsKept, SumOf, AfterRho
<1>2. SumInv => RhoMatchesEnergy
  <2> SUFFICES ASSUME SumInv, NEW p \in prices, NEW e \in energies, p[1] = e[1],
                      \A j \in 0 .. p[1] - 1 : j \notin early
               PROVE  KE * (p[2] - Rho0) = -KRho * (e[2] - E0)
    BY DEF RhoMatchesEnergy
  <2>1. PICK k \in Rounds : p = <<k + 1, rho[k + 1]>>
    BY DEF SumInv, SentAsKept
  <2>2. PICK l \in Rounds : e = <<l + 1, E_D[l + 1]>> /\ pc[l] = "done"
    BY DEF SumInv, SentAsKept
  <2>3. l = k /\ p[1] - 1 = k
    BY <2>1, <2>2, RoundsAndSlots
  <2>4. SameSum(k + 1)
    BY <2>2, <2>3 DEF SumInv, SumOf, InTurn
  <2>. QED
    BY <2>1, <2>2, <2>3, <2>4 DEF SameSum
<1>. QED
  BY <1>1, <1>2, SumStep, GridTypeCorrect, PTL DEF Spec

=============================================================================

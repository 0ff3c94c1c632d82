------------------------ MODULE DemandResponseProofs ------------------------
(***************************************************************************)
(* Proofs about module DemandResponse, for any number of units and rounds, *)
(* any limits and any gains.                                               *)
(***************************************************************************)
EXTENDS DemandResponse, TLAPS

(* The indices computed from a round, from the last round stored (-1, read *)
(* as the last slot, before the first) and from a message are in range.    *)
LEMMA SlotOfRound ==
  ASSUME NEW k \in Rounds
  PROVE  k \in Slots /\ k + 1 \in Slots /\ k \in Int /\ k # NIter /\ NIter \in Slots
BY DemandResponseAssumption DEF Rounds, Slots

(* A multiplier of the next round is an integer.                           *)
LEMMA MultiplierIsInt ==
  ASSUME NEW m \in Int, NEW d \in Int
  PROVE  Larger(0, m + KMu * d) \in Int
<1>1. KMu * d \in Int
  BY DemandResponseAssumption
<1>. QED
  BY <1>1 DEF Larger

(* A gradient is an integer.                                               *)
LEMMA GradientIsInt ==
  ASSUME NEW p \in Int, NEW m \in Int, NEW n \in Int
  PROVE  - CD * p - m + n - BD \in Int
<1>1. - CD * p \in Int
  BY DemandResponseAssumption
<1>. QED
  BY <1>1, DemandResponseAssumption

(* What a unit's handler and its streams hold.                             *)
LEMMA UnitTypes ==
  ASSUME TypeOK, NEW d \in Dr
  PROVE  /\ hmsg[d] \in Dispatch /\ hmsg[d].k \in Rounds /\ hmsg[d].pdr \in Int
         /\ dispatch[d] \in Seq(Dispatch) /\ reply[d] \in Seq(Reply)
         /\ \A i \in DOMAIN dispatch[d] : dispatch[d][i].k \in Int
         /\ \A i \in DOMAIN reply[d] :
              reply[d][i].k \in Rounds /\ reply[d][i].k \in Int /\ reply[d][i].k \in Slots
         /\ lastPdrRcvdTs[d] \in Int /\ round[d] \in Int
<1>1. hmsg[d] \in Dispatch /\ dispatch[d] \in Seq(Dispatch) /\ reply[d] \in Seq(Reply)
  BY DEF TypeOK
<1>2. \A m \in Dispatch : m.k \in Rounds /\ m.k \in Int /\ m.pdr \in Int
  BY SlotOfRound DEF Dispatch
<1>3. \A r \in Reply : r.k \in Rounds /\ r.k \in Int /\ r.k \in Slots
  BY SlotOfRound DEF Reply
<1>4. lastPdrRcvdTs[d] \in Int
  BY SlotOfRound DEF TypeOK
<1>5. round[d] \in Int
  BY DemandResponseAssumption DEF TypeOK, Slots
<1>. QED
  BY <1>1, <1>2, <1>3, <1>4, <1>5

(* A step of the handler that only moves on.                               *)
LEMMA GotoTypes ==
  ASSUME TypeOK, NEW d \in Dr, NEW from, NEW to \in HandlerPc, Goto(d, from, to)
  PROVE  TypeOK'
<1>1. hpc' \in [Dr -> HandlerPc]
  BY DEF Goto, TypeOK
<1>. QED
  BY <1>1 DEF Goto, TypeOK, drVars, senderVars, netVars, envVars

(* A step of the handler that writes the power of the round it handles.    *)
LEMMA WriteTypes ==
  ASSUME TypeOK, NEW d \in Dr, NEW from, NEW pdr \in Int, NEW to \in HandlerPc,
         Write(d, from, pdr, to), overlap' \in [Dr -> SUBSET Rounds]
  PROVE  TypeOK'
<1>1. hmsg[d].k \in Slots
  BY UnitTypes, SlotOfRound
<1>2. P_D' \in [Dr -> [Slots -> Int]] /\ hpc' \in [Dr -> HandlerPc]
  BY <1>1 DEF Write, TypeOK
<1>. QED
  BY <1>2 DEF Write, TypeOK, drVars, senderVars, netVars, envVars

(* The steps of ClientHandler keep the types.                              *)
LEMMA HandlerTypes ==
  ASSUME TypeOK, NEW d \in Dr, Handler(d)
  PROVE  TypeOK'
<1> DEFINE k == hmsg[d].k
<1>0. k \in Rounds /\ k \in Slots /\ k + 1 \in Slots /\ hmsg[d].pdr \in Int
  BY UnitTypes, SlotOfRound
<1>a. P_D[d][k] \in Int /\ E_D[d][k] \in Int /\ mu5[d][k] \in Int /\ mu6[d][k] \in Int /\ grad_f[d][k] \in Int
  BY <1>0 DEF TypeOK
<1>1. CASE RecvOne(d)
  <2>1. dispatch[d] # << >> /\ dispatch[d] \in Seq(Dispatch)
    BY <1>1, UnitTypes DEF RecvOne
  <2>2. Head(dispatch[d]) \in Dispatch /\ Tail(dispatch[d]) \in Seq(Dispatch)
    BY <2>1
  <2>3. /\ hmsg' \in [Dr -> Dispatch] /\ dispatch' \in [Dr -> Seq(Dispatch)]
        /\ hpc' \in [Dr -> HandlerPc]
    BY <1>1, <2>2 DEF RecvOne, TypeOK, HandlerPc
  <2>. QED
    BY <1>1, <2>3 DEF RecvOne, TypeOK, drVars, senderVars, envVars
<1>2. CASE RecvMerged(d)
  <2>1. PICK n \in 2 .. Len(dispatch[d]) :
           dispatch' = [dispatch EXCEPT ![d] = SubSeq(@, n + 1, Len(@))]
    BY <1>2 DEF RecvMerged
  <2>2. SubSeq(dispatch[d], n + 1, Len(dispatch[d])) \in Seq(Dispatch)
    <3>1. dispatch[d] \in Seq(Dispatch) /\ n \in Nat
      BY UnitTypes
    <3>. QED
      BY <3>1
  <2>3. dispatch' \in [Dr -> Seq(Dispatch)]
    BY <2>1, <2>2 DEF TypeOK
  <2>. QED
    BY <1>2, <2>3 DEF RecvMerged, TypeOK, drVars, handlerVars, senderVars, envVars
<1>3. CASE CheckStale(d)
  BY <1>3, GotoTypes DEF CheckStale, HandlerPc
<1>4. CASE Ignore(d)
  BY <1>4, GotoTypes DEF Ignore, HandlerPc
<1>5. CASE Store(d)
  <2>1. overlap' \in [Dr -> SUBSET Rounds]
    BY <1>0, <1>5 DEF Store, TypeOK
  <2>. QED
    BY <1>0, <1>5, <2>1, WriteTypes DEF Store, HandlerPc
<1>6. CASE TestLow(d)
  BY <1>6, GotoTypes DEF TestLow, HandlerPc
<1>7. CASE RaiseToMin(d)
  BY <1>7, WriteTypes, DemandResponseAssumption DEF RaiseToMin, HandlerPc, TypeOK
<1>8. CASE TestHigh(d)
  BY <1>8, GotoTypes DEF TestHigh, HandlerPc
<1>9. CASE LowerToMax(d)
  BY <1>9, WriteTypes, DemandResponseAssumption DEF LowerToMax, HandlerPc, TypeOK
<1>10. CASE Mark(d)
  <2>1. lastPdrRcvdTs' \in [Dr -> Rounds \cup {-1}] /\ hpc' \in [Dr -> HandlerPc]
    BY <1>0, <1>10 DEF Mark, TypeOK, HandlerPc
  <2>. QED
    BY <1>10, <2>1 DEF Mark, TypeOK, senderVars, netVars, envVars
<1>11. CASE ComputeGradF(d)
  <2> DEFINE grad == - CD * P_D[d][k] - mu5[d][k] + mu6[d][k] - BD
  <2>1. grad \in Int
    BY <1>a, GradientIsInt
  <2>2. grad_f' = [grad_f EXCEPT ![d][k] = grad]
    BY <1>11 DEF ComputeGradF
  <2> HIDE DEF grad, k
  <2>3. grad_f' \in [Dr -> [Slots -> Int]]
    BY <1>0, <2>1, <2>2 DEF TypeOK
  <2>4. hpc' \in [Dr -> HandlerPc]
    BY <1>11 DEF ComputeGradF, TypeOK, HandlerPc
  <2>. QED
    BY <1>11, <2>3, <2>4 DEF ComputeGradF, TypeOK, senderVars, netVars, envVars
<1>12. CASE SendGradF(d)
  <2> DEFINE r == [k |-> k, pdr |-> P_D[d][k], grad |-> grad_f[d][k]]
  <2>1. r \in Reply /\ reply' = [reply EXCEPT ![d] = Append(@, r)]
    BY <1>0, <1>a, <1>12 DEF SendGradF, Reply
  <2> HIDE DEF r
  <2>2. Append(reply[d], r) \in Seq(Reply)
    BY <2>1, UnitTypes
  <2>3. reply' \in [Dr -> Seq(Reply)] /\ hpc' \in [Dr -> HandlerPc]
    BY <1>12, <2>1, <2>2 DEF SendGradF, TypeOK, HandlerPc
  <2>. QED
    BY <1>12, <2>3 DEF SendGradF, TypeOK, drVars, senderVars, envVars
<1>13. CASE ComputeMu(d)
  <2> DEFINE p == P_D[d][k] + KE * E_D[d][k]
             low == Larger(0, mu5[d][k] + KMu * (PMin - p))
             high == Larger(0, mu6[d][k] + KMu * (p - PMax))
  <2>1. p \in Int
    <3>1. KE * E_D[d][k] \in Int
      BY <1>a, DemandResponseAssumption
    <3>. QED
      BY <1>a, <3>1
  <2>2. PMin - p \in Int /\ p - PMax \in Int
    BY <2>1, DemandResponseAssumption
  <2>3. low \in Int /\ high \in Int
    BY <1>a, <2>2, MultiplierIsInt
  <2>4. mu5' = [mu5 EXCEPT ![d][k + 1] = low] /\ mu6' = [mu6 EXCEPT ![d][k + 1] = high]
    BY <1>13 DEF ComputeMu
  <2> HIDE DEF low, high, p, k
  <2>5. mu5' \in [Dr -> [Slots -> Int]] /\ mu6' \in [Dr -> [Slots -> Int]]
    BY <1>0, <2>3, <2>4 DEF TypeOK
  <2>6. hpc' \in [Dr -> HandlerPc]
    BY <1>13 DEF ComputeMu, TypeOK, HandlerPc
  <2>. QED
    BY <1>13, <2>5, <2>6 DEF ComputeMu, TypeOK, senderVars, netVars, envVars
<1>. QED
  BY <1>1, <1>2, <1>3, <1>4, <1>5, <1>6, <1>7, <1>8, <1>9, <1>10, <1>11, <1>12, <1>13 DEF Handler

(* So do the steps of the threads that run sendPdr.                        *)
LEMMA SenderTypes ==
  ASSUME TypeOK, NEW d \in Dr, NEW k \in Rounds, Sender(d, k)
  PROVE  TypeOK'
<1>0. k \in Slots
  BY SlotOfRound
<1>1. CASE StartSendPdr(d, k)
  <2>1. /\ currentGridTs' \in [Dr -> Rounds \cup {-1}]
        /\ spc' \in [Dr -> [Rounds -> SenderPc]]
        /\ request' \subseteq Dr \X Rounds
    BY <1>1 DEF StartSendPdr, TypeOK, SenderPc
  <2>. QED
    BY <1>1, <2>1 DEF StartSendPdr, TypeOK, handlerVars, envVars
<1>2. CASE TestRcvd(d, k)
  <2>1. spc' \in [Dr -> [Rounds -> SenderPc]] /\ overlap' \in [Dr -> SUBSET Rounds]
    BY <1>2 DEF TestRcvd, TypeOK, SenderPc
  <2>. QED
    BY <1>2, <2>1 DEF TestRcvd, TypeOK, drVars, handlerVars, netVars, envVars
<1>3. CASE LoadLast(d, k)
  <2>1. Slot(lastPdrRcvdTs[d]) \in Slots
    BY <1>0, SlotOfRound DEF TypeOK, Slot
  <2>2. P_D[d][Slot(lastPdrRcvdTs[d])] \in Int
    BY <2>1 DEF TypeOK
  <2>3. spd' \in [Dr -> [Rounds -> Int]] /\ spc' \in [Dr -> [Rounds -> SenderPc]]
    BY <1>3, <2>2 DEF LoadLast, TypeOK, SenderPc
  <2>. QED
    BY <1>3, <2>3 DEF LoadLast, TypeOK, drVars, handlerVars, netVars, envVars
<1>4. CASE CopyLast(d, k)
  <2>1. spd[d][k] \in Int
    BY DEF TypeOK
  <2>2. P_D' \in [Dr -> [Slots -> Int]] /\ spc' \in [Dr -> [Rounds -> SenderPc]]
    BY <1>0, <1>4, <2>1 DEF CopyLast, TypeOK, SenderPc
  <2>. QED
    BY <1>4, <2>2 DEF CopyLast, TypeOK, drVars, handlerVars, netVars, envVars
<1>5. CASE SendReport(d, k)
  <2>1. P_D[d][k] \in Int
    BY <1>0 DEF TypeOK
  <2>2. report' \subseteq Report
    <3> DEFINE stored == k \in Stored(d)
    <3>1. report' = report \cup {[d |-> d, k |-> k, pdr |-> P_D[d][k], stored |-> stored]}
      BY <1>5 DEF SendReport
    <3>2. stored \in BOOLEAN
      OBVIOUS
    <3> HIDE DEF stored
    <3>. QED
      BY <2>1, <3>1, <3>2 DEF TypeOK, Report
  <2>3. spc' \in [Dr -> [Rounds -> SenderPc]]
    BY <1>5 DEF SendReport, TypeOK, SenderPc
  <2>. QED
    BY <1>5, <2>2, <2>3 DEF SendReport, TypeOK, drVars, handlerVars, envVars
<1>. QED
  BY <1>1, <1>2, <1>3, <1>4, <1>5 DEF Sender

(* The ISO appends a message of a new round.                               *)
LEMMA DispatchEffect ==
  ASSUME TypeOK, NEW d \in Dr, IsoDispatches(d)
  PROVE  \E m \in Dispatch :
           /\ m.k >= round[d] /\ m.k + 1 \in Slots
           /\ dispatch' = [dispatch EXCEPT ![d] = Append(@, m)]
           /\ round' = [round EXCEPT ![d] = m.k + 1]
<1>1. PICK k \in Rounds, pdr \in Power :
         /\ k >= round[d]
         /\ dispatch' = [dispatch EXCEPT ![d] = Append(@, [k |-> k, pdr |-> pdr])]
         /\ round' = [round EXCEPT ![d] = k + 1]
  BY DEF IsoDispatches
<1>2. [k |-> k, pdr |-> pdr] \in Dispatch
  BY DemandResponseAssumption DEF Dispatch
<1>. QED
  BY <1>1, <1>2, SlotOfRound

(* Every variable of a unit keeps its type (demandResponse.py): its two    *)
(* kinds of thread never index an array outside its N_iter+1 entries, and  *)
(* the index -1 that LoadLast can read at is the last of them.             *)
THEOREM UnitTypeCorrect == Spec => []TypeOK
<1>1. Init => TypeOK
  <2> SUFFICES ASSUME Init PROVE TypeOK
    OBVIOUS
  <2>1. 0 \in Rounds /\ 0 \in Slots /\ Mu0 \in Int
    BY DemandResponseAssumption DEF Rounds, Slots
  <2>2. hmsg \in [Dr -> Dispatch]
    BY <2>1 DEF Init, ClientInit, Dispatch
  <2>3. << >> \in Seq(Dispatch) /\ << >> \in Seq(Reply)
    OBVIOUS
  <2>4. dispatch \in [Dr -> Seq(Dispatch)] /\ reply \in [Dr -> Seq(Reply)]
    BY <2>3 DEF Init, ClientInit
  <2>5. mu5 \in [Dr -> [Slots -> Int]] /\ mu6 \in [Dr -> [Slots -> Int]]
    BY <2>1 DEF Init, ClientInit
  <2>6. hpc \in [Dr -> HandlerPc] /\ spc \in [Dr -> [Rounds -> SenderPc]]
    BY DEF Init, ClientInit, HandlerPc, SenderPc
  <2>. QED
    BY <2>1, <2>2, <2>4, <2>5, <2>6 DEF Init, ClientInit, TypeOK
<1>2. TypeOK /\ [Next]_vars => TypeOK'
  <2> SUFFICES ASSUME TypeOK, [Next]_vars PROVE TypeOK'
    OBVIOUS
  <2>1. ASSUME NEW d \in Dr, Deactivate(d) \/ Activate(d) PROVE TypeOK'
    <3>1. active' \in [Dr -> BOOLEAN]
      BY <2>1 DEF Deactivate, Activate, Switch, TypeOK
    <3>. QED
      BY <2>1, <3>1
         DEF Deactivate, Activate, Switch, TypeOK, handlerVars, senderVars, netVars, envVars
  <2>2. ASSUME NEW d \in Dr, IsoDispatches(d) PROVE TypeOK'
    <3>1. PICK m \in Dispatch :
             /\ m.k >= round[d] /\ m.k + 1 \in Slots
             /\ dispatch' = [dispatch EXCEPT ![d] = Append(@, m)]
             /\ round' = [round EXCEPT ![d] = m.k + 1]
      BY <2>2, DispatchEffect
    <3>2. Append(dispatch[d], m) \in Seq(Dispatch)
      BY UnitTypes
    <3>3. dispatch' \in [Dr -> Seq(Dispatch)] /\ round' \in [Dr -> Slots]
      BY <3>1, <3>2 DEF TypeOK
    <3>. QED
      BY <2>2, <3>3 DEF IsoDispatches, TypeOK, drVars, handlerVars, senderVars
  <2>3. CASE GridRequests
    <3>1. asked \in Rounds /\ asked' \in Slots
      BY <2>3, DemandResponseAssumption DEF GridRequests, TypeOK, Slots, Rounds
    <3>2. request' \subseteq Dr \X Rounds
      BY <2>3, <3>1 DEF GridRequests, TypeOK
    <3>. QED
      BY <2>3, <3>1, <3>2 DEF GridRequests, TypeOK, drVars, handlerVars, senderVars
  <2>4. CASE GridSendsEnergy
    <3>1. PICK d \in Dr, k \in 1 .. asked, edr \in Energy : ReceiveEdr(d, k, edr)
      BY <2>4 DEF GridSendsEnergy
    <3>2. k \in Slots /\ edr \in Int
      BY DemandResponseAssumption DEF TypeOK, Slots
    <3>3. E_D' \in [Dr -> [Slots -> Int]]
      BY <3>1, <3>2 DEF ReceiveEdr, TypeOK
    <3>. QED
      BY <3>1, <3>3 DEF ReceiveEdr, TypeOK, handlerVars, senderVars, netVars, envVars
  <2>5. CASE UNCHANGED vars
    BY <2>5 DEF TypeOK, vars, drVars, handlerVars, senderVars, netVars, envVars
  <2>. QED
    BY <2>1, <2>2, <2>3, <2>4, <2>5, HandlerTypes, SenderTypes DEF Next
<1>. QED
  BY <1>1, <1>2, PTL DEF Spec

-----------------------------------------------------------------------------
(* LastInv.                                                                *)

(* A step of one unit leaves the others alone.                             *)
LEMMA OthersUntouched ==
  ASSUME TypeOK, NEW d \in Dr, NEW h \in Dr, h # d,
         Handler(d) \/ (\E k \in Rounds : Sender(d, k)) \/ IsoDispatches(d)
  PROVE  /\ P_D'[h] = P_D[h] /\ lastPdrRcvdTs'[h] = lastPdrRcvdTs[h] /\ hpc'[h] = hpc[h]
         /\ hmsg'[h] = hmsg[h] /\ spc'[h] = spc[h] /\ spd'[h] = spd[h]
         /\ dispatch'[h] = dispatch[h] /\ reply'[h] = reply[h]
         /\ overlap'[h] = overlap[h] /\ round'[h] = round[h]
<1>1. CASE Handler(d)
  <2>1. CASE RecvOne(d) \/ RecvMerged(d)
    BY <2>1 DEF RecvOne, RecvMerged, TypeOK, drVars, handlerVars, senderVars, envVars
  <2>2. CASE CheckStale(d) \/ Ignore(d) \/ TestLow(d) \/ TestHigh(d)
    BY <2>2 DEF CheckStale, Ignore, TestLow, TestHigh, Goto, TypeOK, drVars, senderVars, netVars, envVars
  <2>3. CASE Store(d)
    BY <2>3 DEF Store, Write, TypeOK, drVars, senderVars, netVars, envVars
  <2>4. CASE RaiseToMin(d) \/ LowerToMax(d)
    BY <2>4 DEF RaiseToMin, LowerToMax, Write, TypeOK, drVars, senderVars, netVars, envVars
  <2>5. CASE Mark(d)
    BY <2>5 DEF Mark, TypeOK, senderVars, netVars, envVars
  <2>6. CASE ComputeGradF(d)
    BY <2>6 DEF ComputeGradF, TypeOK, senderVars, netVars, envVars
  <2>7. CASE SendGradF(d)
    BY <2>7 DEF SendGradF, TypeOK, drVars, senderVars, envVars
  <2>8. CASE ComputeMu(d)
    BY <2>8 DEF ComputeMu, TypeOK, senderVars, netVars, envVars
  <2>. QED
    BY <1>1, <2>1, <2>2, <2>3, <2>4, <2>5, <2>6, <2>7, <2>8 DEF Handler
<1>2. CASE \E k \in Rounds : Sender(d, k)
  <2>1. PICK k \in Rounds : Sender(d, k)
    BY <1>2
  <2>2. CASE StartSendPdr(d, k) \/ TestRcvd(d, k)
    BY <2>2 DEF StartSendPdr, TestRcvd, TypeOK, drVars, handlerVars, netVars, envVars
  <2>3. CASE LoadLast(d, k) \/ CopyLast(d, k) \/ SendReport(d, k)
    BY <2>3 DEF LoadLast, CopyLast, SendReport, TypeOK, drVars, handlerVars, netVars, envVars
  <2>. QED
    BY <2>1, <2>2, <2>3 DEF Sender
<1>3. CASE IsoDispatches(d)
  BY <1>3 DEF IsoDispatches, TypeOK, drVars, handlerVars, senderVars
<1>. QED
  BY <1>1, <1>2, <1>3

(* Steps that change nothing but what the two properties do not speak of.  *)
LEMMA QuietSteps ==
  ASSUME (\E d \in Dr : Deactivate(d) \/ Activate(d)) \/ GridRequests \/ GridSendsEnergy \/ UNCHANGED vars
  PROVE  UNCHANGED <<P_D, lastPdrRcvdTs, hpc, hmsg, spc, spd, dispatch, reply, report, overlap, round>>
BY DEF Deactivate, Activate, Switch, GridRequests, GridSendsEnergy, ReceiveEdr, vars,
       drVars, handlerVars, senderVars, netVars, envVars

(* Where a step leaves the streams and the marked round alone, and the     *)
(* handler stays in the same part of its work.                             *)
LEMMA LastKept ==
  ASSUME NEW d \in Dr, LastIsBetween(d),
         dispatch'[d] = dispatch[d], reply'[d] = reply[d], round'[d] = round[d],
         hmsg'[d] = hmsg[d], lastPdrRcvdTs'[d] = lastPdrRcvdTs[d],
         hpc'[d] \in {"check", "store", "low", "raise", "high", "lower", "mark"}
           => hpc[d] \in {"check", "store", "low", "raise", "high", "lower", "mark"},
         hpc'[d] \in {"grad", "reply"} => hpc[d] \in {"grad", "reply"}
  PROVE  LastIsBetween(d)'
BY DEF LastIsBetween

(* The steps of a unit's handler: a message taken from the stream is of a  *)
(* round between the one marked last and those still in the stream.        *)
LEMMA LastHandler ==
  ASSUME TypeOK, LastInv, NEW d \in Dr, Handler(d)
  PROVE  LastIsBetween(d)'
<1>0. LastIsBetween(d)
  BY DEF LastInv
<1>1. CASE RecvOne(d)
  <2>1. /\ dispatch[d] \in Seq(Dispatch) /\ dispatch[d] # << >>
        /\ dispatch'[d] = Tail(dispatch[d]) /\ hmsg'[d] = dispatch[d][1]
        /\ hpc'[d] = "check" /\ UNCHANGED <<reply, round, lastPdrRcvdTs>>
    BY <1>1 DEF RecvOne, TypeOK, drVars, envVars
  <2>2. /\ 1 \in DOMAIN dispatch[d]
        /\ \A i \in DOMAIN dispatch'[d] :
             /\ i \in Nat \ {0} /\ i + 1 \in DOMAIN dispatch[d]
             /\ dispatch'[d][i] = dispatch[d][i + 1]
    BY <2>1
  <2>. QED
    BY <1>0, <2>1, <2>2 DEF LastIsBetween
<1>2. CASE RecvMerged(d)
  <2>1. PICK n \in 2 .. Len(dispatch[d]) :
           dispatch' = [dispatch EXCEPT ![d] = SubSeq(@, n + 1, Len(@))]
    BY <1>2 DEF RecvMerged
  <2>2. /\ dispatch[d] \in Seq(Dispatch) /\ n \in Nat /\ Len(dispatch[d]) \in Nat
        /\ dispatch'[d] = SubSeq(dispatch[d], n + 1, Len(dispatch[d]))
    <3>1. dispatch \in [Dr -> Seq(Dispatch)] /\ dispatch[d] \in Seq(Dispatch)
      BY DEF TypeOK
    <3>2. Len(dispatch[d]) \in Nat
      BY <3>1
    <3>. QED
      BY <2>1, <3>1, <3>2
  <2>3. \A i \in DOMAIN dispatch'[d] :
           /\ i \in Nat \ {0} /\ i + n \in DOMAIN dispatch[d]
           /\ dispatch'[d][i] = dispatch[d][i + n]
    BY <2>2
  <2>4. /\ UNCHANGED <<reply, round, hmsg, lastPdrRcvdTs>> /\ hpc'[d] = "recv"
    BY <1>2 DEF RecvMerged, drVars, handlerVars, envVars
  <2>5. \A i, j \in DOMAIN dispatch'[d] : i < j => dispatch'[d][i].k < dispatch'[d][j].k
    <3>1. \A i, j \in DOMAIN dispatch'[d] : i < j => i + n < j + n
      BY <2>2, <2>3
    <3>. QED
      BY <1>0, <2>3, <3>1 DEF LastIsBetween
  <2>. QED
    BY <1>0, <2>3, <2>4, <2>5 DEF LastIsBetween
<1>3. CASE CheckStale(d) \/ Ignore(d) \/ TestLow(d) \/ TestHigh(d)
  <2>1. UNCHANGED <<dispatch, reply, round, hmsg, lastPdrRcvdTs>>
    BY <1>3 DEF CheckStale, Ignore, TestLow, TestHigh, Goto, drVars, netVars, envVars
  <2>2. /\ hpc[d] \in {"check", "store", "low", "high"}
        /\ hpc'[d] \notin {"grad", "reply"}
    BY <1>3 DEF CheckStale, Ignore, TestLow, TestHigh, Goto, TypeOK
  <2>. QED
    BY <1>0, <2>1, <2>2, LastKept
<1>4. CASE Store(d) \/ RaiseToMin(d) \/ LowerToMax(d)
  <2>1. UNCHANGED <<dispatch, reply, round, hmsg, lastPdrRcvdTs>>
    BY <1>4 DEF Store, RaiseToMin, LowerToMax, Write, drVars, netVars, envVars
  <2>2. /\ hpc[d] \in {"store", "raise", "lower"}
        /\ hpc'[d] \notin {"grad", "reply"}
    BY <1>4 DEF Store, RaiseToMin, LowerToMax, Write, TypeOK
  <2>. QED
    BY <1>0, <2>1, <2>2, LastKept
<1>5. CASE Mark(d)
  <2>1. /\ hpc[d] = "mark" /\ hpc'[d] = "grad" /\ lastPdrRcvdTs'[d] = hmsg[d].k
        /\ UNCHANGED <<reply, dispatch, hmsg, round>>
    BY <1>5 DEF Mark, TypeOK, netVars, envVars
  <2>2. \A i \in DOMAIN reply[d] : reply[d][i].k <= hmsg[d].k
    <3>1. hmsg[d].k \in Int
      BY UnitTypes, SlotOfRound
    <3>. QED
      BY <1>0, <2>1, <3>1, UnitTypes DEF LastIsBetween
  <2>. QED
    BY <1>0, <2>1, <2>2 DEF LastIsBetween
<1>6. CASE ComputeGradF(d)
  <2>1. /\ UNCHANGED <<dispatch, reply, round, hmsg, lastPdrRcvdTs>>
        /\ hpc[d] = "grad" /\ hpc' = [hpc EXCEPT ![d] = "reply"]
    BY <1>6 DEF ComputeGradF, netVars, envVars
  <2>2. hpc'[d] = "reply"
    BY <2>1 DEF TypeOK
  <2>. QED
    BY <1>0, <2>1, <2>2, LastKept
<1>7. CASE ComputeMu(d)
  <2>1. /\ UNCHANGED <<dispatch, reply, round, hmsg, lastPdrRcvdTs>>
        /\ hpc' = [hpc EXCEPT ![d] = "recv"]
    BY <1>7 DEF ComputeMu, netVars, envVars
  <2>2. hpc'[d] = "recv"
    BY <2>1 DEF TypeOK
  <2>. QED
    BY <1>0, <2>1, <2>2, LastKept
<1>8. CASE SendGradF(d)
  <2> DEFINE r == [k |-> hmsg[d].k, pdr |-> P_D[d][hmsg[d].k], grad |-> grad_f[d][hmsg[d].k]]
  <2>1. reply' = [reply EXCEPT ![d] = Append(@, r)] /\ r.k = hmsg[d].k
    BY <1>8 DEF SendGradF
  <2> HIDE DEF r
  <2>2. /\ hpc[d] = "reply" /\ hpc'[d] = "mu"
        /\ UNCHANGED <<dispatch, round, hmsg, lastPdrRcvdTs>>
    BY <1>8 DEF SendGradF, TypeOK, drVars, envVars
  <2>3. \A i \in DOMAIN reply'[d] :
           \/ i \in DOMAIN reply[d] /\ reply'[d][i] = reply[d][i]
           \/ reply'[d][i] = r
    <3>1. reply[d] \in Seq(Reply) /\ reply'[d] = Append(reply[d], r)
      BY <2>1, UnitTypes DEF TypeOK
    <3>. QED
      BY <3>1
  <2>4. hmsg[d].k = lastPdrRcvdTs[d] /\ lastPdrRcvdTs[d] \in Int
    BY <1>0, <2>2, UnitTypes DEF LastIsBetween
  <2>. QED
    BY <1>0, <2>1, <2>2, <2>3, <2>4 DEF LastIsBetween
<1>. QED
  BY <1>1, <1>2, <1>3, <1>4, <1>5, <1>6, <1>7, <1>8 DEF Handler

(* lastPdrRcvdTs moves only when the handler marks a round.                *)
LEMMA LastStep == TypeOK /\ LastInv /\ [Next]_vars => LastInv'
<1> SUFFICES ASSUME TypeOK, LastInv, [Next]_vars, NEW h \in Dr PROVE LastIsBetween(h)'
  BY DEF LastInv
<1>0. LastIsBetween(h)
  BY DEF LastInv
<1>1. ASSUME NEW d \in Dr, Handler(d) PROVE LastIsBetween(h)'
  BY <1>0, <1>1, LastHandler, OthersUntouched, LastKept
<1>2. ASSUME NEW d \in Dr, NEW k \in Rounds, Sender(d, k) PROVE LastIsBetween(h)'
  <2>1. UNCHANGED <<dispatch, reply, round, hmsg, lastPdrRcvdTs, hpc>>
    BY <1>2
       DEF Sender, StartSendPdr, TestRcvd, LoadLast, CopyLast, SendReport,
           drVars, handlerVars, netVars, envVars
  <2>. QED
    BY <1>0, <2>1, LastKept
<1>3. ASSUME NEW d \in Dr, IsoDispatches(d) PROVE LastIsBetween(h)'
  <2>1. CASE h # d
    BY <1>0, <1>3, <2>1, OthersUntouched, LastKept
  <2>2. CASE h = d
    <3>1. PICK m \in Dispatch :
             /\ m.k >= round[d] /\ m.k + 1 \in Slots
             /\ dispatch' = [dispatch EXCEPT ![d] = Append(@, m)]
             /\ round' = [round EXCEPT ![d] = m.k + 1]
      BY <1>3, DispatchEffect
    <3>2. /\ dispatch[d] \in Seq(Dispatch) /\ dispatch'[d] = Append(dispatch[d], m)
          /\ round'[d] = m.k + 1 /\ m.k \in Int
          /\ UNCHANGED <<reply, hpc, hmsg, lastPdrRcvdTs>>
      BY <1>3, <3>1, SlotOfRound DEF IsoDispatches, TypeOK, drVars, handlerVars, Dispatch
    <3>3. \A i \in DOMAIN dispatch'[d] :
             /\ i \in Nat
             /\ \/ i \in DOMAIN dispatch[d] /\ dispatch'[d][i] = dispatch[d][i]
                \/ i = Len(dispatch[d]) + 1 /\ dispatch'[d][i] = m
      BY <3>2
    <3>4. \A i \in DOMAIN dispatch[d] : i < Len(dispatch[d]) + 1 /\ dispatch[d][i].k < m.k
      BY <1>0, <2>2, <3>1, <3>2, UnitTypes DEF LastIsBetween
    <3>5. lastPdrRcvdTs[d] < m.k /\ m.k < round'[d] /\ lastPdrRcvdTs[d] < round'[d]
      BY <1>0, <2>2, <3>1, <3>2, UnitTypes DEF LastIsBetween
    <3>6. \A i, j \in DOMAIN dispatch'[d] : i < j => dispatch'[d][i].k < dispatch'[d][j].k
      <4> SUFFICES ASSUME NEW i \in DOMAIN dispatch'[d], NEW j \in DOMAIN dispatch'[d], i < j
                   PROVE  dispatch'[d][i].k < dispatch'[d][j].k
        OBVIOUS
      <4>1. i \in DOMAIN dispatch[d] /\ dispatch'[d][i] = dispatch[d][i]
        BY <3>2, <3>3, <3>4
      <4>. QED
        BY <1>0, <2>2, <3>3, <3>4, <4>1 DEF LastIsBetween
    <3>7. hpc[d] \in {"check", "store", "low", "raise", "high", "lower", "mark"} => hmsg[d].k < m.k
      BY <1>0, <2>2, <3>1, <3>2, UnitTypes, SlotOfRound DEF LastIsBetween
    <3>8. \A i \in DOMAIN dispatch'[d] : dispatch'[d][i].k < round'[d]
      BY <3>2, <3>3, <3>4, UnitTypes
    <3>9. hpc[d] \in {"check", "store", "low", "raise", "high", "lower", "mark"} => hmsg[d].k < round'[d]
      BY <3>2, <3>7, UnitTypes, SlotOfRound
    <3>. QED
      BY <1>0, <2>2, <3>2, <3>3, <3>5, <3>6, <3>7, <3>8, <3>9 DEF LastIsBetween
  <2>. QED
    BY <2>1, <2>2
<1>4. ASSUME (\E d \in Dr : Deactivate(d) \/ Activate(d)) \/ GridRequests \/ GridSendsEnergy \/ UNCHANGED vars
      PROVE  LastIsBetween(h)'
  BY <1>0, <1>4, QuietSteps, LastKept
<1>. QED
  BY <1>1, <1>2, <1>3, <1>4 DEF Next

(* In every state the round marked last is between the rounds replied to   *)
(* and the rounds to come.                                                 *)
LEMMA LastInvariant == Spec => []LastInv
<1>1. Init => LastInv
  <2> SUFFICES ASSUME Init, NEW d \in Dr PROVE LastIsBetween(d)
    BY DEF LastInv
  <2>1. /\ hpc[d] = "recv" /\ dispatch[d] = << >> /\ reply[d] = << >>
        /\ lastPdrRcvdTs[d] = -1 /\ round[d] = 0
    BY DEF Init, ClientInit
  <2>2. DOMAIN dispatch[d] = {} /\ DOMAIN reply[d] = {}
    BY <2>1
  <2>. QED
    BY <2>1, <2>2 DEF LastIsBetween
<1>. QED
  BY <1>1, LastStep, UnitTypeCorrect, PTL DEF Spec

-----------------------------------------------------------------------------
(* KeptInv.                                                                *)

(* No power and no reply changes, nothing is stored, and no thread starts  *)
(* to copy or to send.                                                     *)
LEMMA KeptKept ==
  ASSUME NEW d \in Dr, Met(d), Kept(d),
         reply'[d] = reply[d], P_D'[d] = P_D[d], overlap[d] \subseteq overlap'[d],
         Stored(d)' \subseteq Stored(d),
         \A k \in Rounds :
           /\ Clamping(d, k)' => Clamping(d, k)
           /\ spc'[d][k] \in {"load", "copy"} => spc[d][k] \in {"load", "copy"}
           /\ spc'[d][k] = "send" => spc[d][k] = "send"
  PROVE  Met(d)' /\ Kept(d)'
<1>1. Met(d)'
  BY DEF Met
<1>2. Kept(d)'
  BY DEF Kept
<1>. QED
  BY <1>1, <1>2

(* The rounds a unit has stored are rounds.                                *)
LEMMA StoredRounds == ASSUME TypeOK, NEW d \in Dr PROVE Stored(d) \subseteq Rounds
BY UnitTypes DEF Stored

(* While a round is being stored, its number is later than the one marked  *)
(* last and than all those replied to.                                     *)
LEMMA StoringIsNew ==
  ASSUME TypeOK, LastInv, NEW d \in Dr,
         hpc[d] \in {"check", "store", "low", "raise", "high", "lower", "mark"}
  PROVE  /\ lastPdrRcvdTs[d] < hmsg[d].k
         /\ \A i \in DOMAIN reply[d] : reply[d][i].k # hmsg[d].k
<1>1. LastIsBetween(d) /\ hmsg[d].k \in Int
  BY UnitTypes, SlotOfRound DEF LastInv
<1>. QED
  BY <1>1, UnitTypes DEF LastIsBetween

(* What the handler writes into P_D is the round it is storing.            *)
LEMMA WriteEffect ==
  ASSUME TypeOK, NEW d \in Dr, NEW from, NEW pdr, NEW to, Write(d, from, pdr, to)
  PROVE  /\ P_D'[d][hmsg[d].k] = pdr
         /\ \A j \in Slots : j # hmsg[d].k => P_D'[d][j] = P_D[d][j]
         /\ hpc[d] = from /\ hpc'[d] = to
         /\ UNCHANGED <<hmsg, spc, spd, reply, report, lastPdrRcvdTs>>
<1>1. hmsg[d].k \in Slots
  BY UnitTypes, SlotOfRound
<1> DEFINE k == hmsg[d].k
<1>2. P_D' = [P_D EXCEPT ![d][k] = pdr] /\ P_D \in [Dr -> [Slots -> Int]] /\ k \in Slots
  BY <1>1 DEF Write, TypeOK
<1>3. hpc[d] = from /\ hpc'[d] = to
  BY DEF Write, TypeOK
<1>4. UNCHANGED <<hmsg, spc, spd, reply, report, lastPdrRcvdTs>>
  BY DEF Write, drVars, senderVars, netVars
<1> HIDE DEF k
<1>5. P_D'[d][k] = pdr /\ \A j \in Slots : j # k => P_D'[d][j] = P_D[d][j]
  BY <1>2
<1>. QED
  BY <1>3, <1>4, <1>5 DEF k

(* The steps of a unit's handler.                                          *)
LEMMA KeptHandler ==
  ASSUME TypeOK, LastInv, KeptInv, NEW d \in Dr, Handler(d)
  PROVE  Met(d)' /\ Kept(d)'
<1>0. Met(d) /\ Kept(d)
  BY DEF KeptInv
<1> DEFINE k == hmsg[d].k
<1>a. k \in Rounds /\ k \in Slots
  BY UnitTypes, SlotOfRound
<1>1. CASE RecvOne(d) \/ RecvMerged(d)
  <2>1. /\ UNCHANGED <<reply, P_D, overlap, spc>>
        /\ hpc[d] = "recv" /\ hpc'[d] \in {"recv", "check"}
    BY <1>1 DEF RecvOne, RecvMerged, TypeOK, handlerVars, senderVars
  <2>2. Stored(d)' = Stored(d) /\ \A j \in Rounds : ~ Clamping(d, j)'
    BY <2>1 DEF Stored, Clamping
  <2>. QED
    BY <1>0, <2>1, <2>2, KeptKept
<1>2. CASE CheckStale(d) \/ Ignore(d) \/ TestLow(d) \/ TestHigh(d)
  <2>1. /\ UNCHANGED <<reply, P_D, overlap, spc, hmsg>>
        /\ \/ hpc[d] = "check" /\ hpc'[d] \in {"recv", "store"}
           \/ hpc[d] = "store" /\ hpc'[d] = "mu"
           \/ hpc[d] \in {"low", "high"} /\ hpc'[d] \in {"raise", "high", "lower", "mark"}
    BY <1>2 DEF CheckStale, Ignore, TestLow, TestHigh, Goto, TypeOK, senderVars, netVars
  <2>2. Stored(d)' = Stored(d) /\ \A j \in Rounds : Clamping(d, j)' => Clamping(d, j)
    BY <2>1 DEF Stored, Clamping
  <2>. QED
    BY <1>0, <2>1, <2>2, KeptKept
<1>3. CASE Store(d)
  <2>1. Write(d, "store", hmsg[d].pdr, "low")
    BY <1>3 DEF Store
  <2>2. /\ hpc[d] = "store" /\ hpc'[d] = "low" /\ UNCHANGED <<hmsg, spc, reply>>
        /\ \A j \in Slots : j # k => P_D'[d][j] = P_D[d][j]
    BY <2>1, WriteEffect
  <2>3. overlap[d] \subseteq overlap'[d] /\ (Underway(d, k) => k \in overlap'[d])
    BY <1>3 DEF Store, TypeOK
  <2>4. Stored(d)' = Stored(d) \cup {k} /\ \A j \in Rounds : Clamping(d, j)' => j = k
    BY <2>2 DEF Stored, Clamping
  <2>5. Met(d)'
    BY <1>0, <2>2, <2>3, <2>4 DEF Met, Underway
  <2>6. Kept(d)'
    BY <1>0, <2>2, <2>3, StoringIsNew, UnitTypes DEF Kept
  <2>. QED
    BY <2>5, <2>6
<1>4. CASE RaiseToMin(d) \/ LowerToMax(d)
  <2>1. /\ hpc[d] \in {"raise", "lower"} /\ hpc'[d] = "mark"
        /\ UNCHANGED <<hmsg, spc, reply, overlap>>
        /\ \A j \in Slots : j # k => P_D'[d][j] = P_D[d][j]
    BY <1>4, WriteEffect DEF RaiseToMin, LowerToMax
  <2>2. Stored(d)' = Stored(d) /\ \A j \in Rounds : Clamping(d, j)' = Clamping(d, j)
    BY <2>1 DEF Stored, Clamping
  <2>3. Met(d)'
    BY <1>0, <2>1, <2>2 DEF Met
  <2>4. Kept(d)'
    BY <1>0, <2>1, StoringIsNew, UnitTypes DEF Kept
  <2>. QED
    BY <2>3, <2>4
<1>5. CASE Mark(d) \/ ComputeGradF(d)
  <2>1. /\ UNCHANGED <<reply, P_D, overlap, spc, hmsg>>
        /\ hpc[d] \in {"mark", "grad"} /\ hpc'[d] \in {"grad", "reply"}
    <3>1. CASE Mark(d)
      BY <3>1 DEF Mark, TypeOK, senderVars, netVars
    <3>2. CASE ComputeGradF(d)
      BY <3>2 DEF ComputeGradF, TypeOK, senderVars, netVars
    <3>. QED
      BY <1>5, <3>1, <3>2
  <2>2. Stored(d)' = Stored(d) /\ \A j \in Rounds : ~ Clamping(d, j)'
    BY <2>1 DEF Stored, Clamping
  <2>. QED
    BY <1>0, <2>1, <2>2, KeptKept
<1>6. CASE SendGradF(d)
  <2> DEFINE r == [k |-> k, pdr |-> P_D[d][k], grad |-> grad_f[d][k]]
  <2>1. /\ reply' = [reply EXCEPT ![d] = Append(@, r)]
        /\ hpc[d] = "reply" /\ hpc'[d] = "mu" /\ UNCHANGED <<P_D, overlap, spc, hmsg>>
    BY <1>6 DEF SendGradF, TypeOK, senderVars
  <2>2. r.k = k /\ r.pdr = P_D[d][k]
    OBVIOUS
  <2> HIDE DEF r
  <2>3. \A i \in DOMAIN reply'[d] :
           \/ i \in DOMAIN reply[d] /\ reply'[d][i] = reply[d][i]
           \/ reply'[d][i] = r
    <3>1. reply[d] \in Seq(Reply) /\ reply'[d] = Append(reply[d], r)
      BY <2>1, UnitTypes DEF TypeOK
    <3>. QED
      BY <3>1
  <2>4. k \in Stored(d)
    BY <2>1 DEF Stored
  <2>5. Stored(d)' \subseteq Stored(d)
    BY <2>1, <2>2, <2>3, <2>4 DEF Stored
  <2>6. Met(d)'
    BY <1>0, <2>1, <2>5 DEF Met, Clamping
  <2>7. Kept(d)'
    BY <1>0, <2>1, <2>2, <2>3 DEF Kept
  <2>. QED
    BY <2>6, <2>7
<1>7. CASE ComputeMu(d)
  <2>1. /\ UNCHANGED <<reply, P_D, overlap, spc, hmsg>>
        /\ hpc[d] = "mu" /\ hpc' = [hpc EXCEPT ![d] = "recv"]
    BY <1>7 DEF ComputeMu, senderVars, netVars
  <2>2. hpc'[d] = "recv"
    BY <2>1 DEF TypeOK
  <2>3. Stored(d)' = Stored(d) /\ \A j \in Rounds : ~ Clamping(d, j)'
    BY <2>1, <2>2 DEF Stored, Clamping
  <2>. QED
    BY <1>0, <2>1, <2>3, KeptKept
<1>. QED
  BY <1>1, <1>2, <1>3, <1>4, <1>5, <1>6, <1>7 DEF Handler

(* The steps of a thread that runs sendPdr: it decides to copy over a      *)
(* stored round only while that round is between its store and its mark.   *)
LEMMA KeptSender ==
  ASSUME TypeOK, LastInv, KeptInv, NEW d \in Dr, NEW k \in Rounds, Sender(d, k)
  PROVE  Met(d)' /\ Kept(d)'
<1>0. Met(d) /\ Kept(d)
  BY DEF KeptInv
<1>1. UNCHANGED <<hpc, hmsg, reply, lastPdrRcvdTs>>
  BY DEF Sender, StartSendPdr, TestRcvd, LoadLast, CopyLast, SendReport, drVars, handlerVars, netVars
<1>2. Stored(d)' = Stored(d) /\ \A j \in Rounds : Clamping(d, j)' = Clamping(d, j)
  BY <1>1 DEF Stored, Clamping
<1>3. CASE StartSendPdr(d, k) \/ LoadLast(d, k) \/ SendReport(d, k)
  <2>1. /\ UNCHANGED <<P_D, overlap>>
        /\ \A j \in Rounds :
             /\ spc'[d][j] \in {"load", "copy"} => spc[d][j] \in {"load", "copy"}
             /\ spc'[d][j] = "send" => spc[d][j] = "send"
    BY <1>3 DEF StartSendPdr, LoadLast, SendReport, TypeOK
  <2>. QED
    BY <1>0, <1>1, <1>2, <2>1, KeptKept
<1>4. CASE TestRcvd(d, k)
  <2>1. /\ P_D' = P_D /\ overlap[d] \subseteq overlap'[d]
        /\ spc'[d][k] = (IF k > lastPdrRcvdTs[d] THEN "load" ELSE "send")
        /\ k > lastPdrRcvdTs[d] /\ Clamping(d, k) => k \in overlap'[d]
        /\ \A j \in Rounds : j # k => spc'[d][j] = spc[d][j]
    BY <1>4 DEF TestRcvd, TypeOK
  <2>2. k > lastPdrRcvdTs[d] /\ k \in Stored(d) => Clamping(d, k)
    <3>1. k \in Int /\ LastIsBetween(d)
      BY SlotOfRound DEF LastInv
    <3>2. ASSUME k > lastPdrRcvdTs[d] PROVE \A i \in DOMAIN reply[d] : reply[d][i].k # k
      BY <3>1, <3>2, UnitTypes DEF LastIsBetween
    <3>3. ASSUME k > lastPdrRcvdTs[d], hmsg[d].k = k PROVE hpc[d] \notin {"grad", "reply"}
      BY <3>1, <3>3, UnitTypes DEF LastIsBetween
    <3>. QED
      BY <3>2, <3>3 DEF Stored, Clamping
  <2>3. Clamping(d, k) => k > lastPdrRcvdTs[d]
    BY StoringIsNew, SlotOfRound, UnitTypes DEF Clamping
  <2>4. Met(d)'
    BY <1>0, <1>2, <2>1, <2>2, <2>3 DEF Met
  <2>5. Kept(d)'
    BY <1>0, <1>1, <2>1 DEF Kept
  <2>. QED
    BY <2>4, <2>5
<1>5. CASE CopyLast(d, k)
  <2>1. /\ spc[d][k] = "copy" /\ spc'[d][k] = "send" /\ overlap' = overlap
        /\ \A j \in Rounds : j # k => spc'[d][j] = spc[d][j]
    BY <1>5 DEF CopyLast, TypeOK
  <2>2. \A j \in Slots : j # k => P_D'[d][j] = P_D[d][j]
    BY <1>5, SlotOfRound DEF CopyLast, TypeOK
  <2>3. \A i \in DOMAIN reply[d] : reply[d][i].k = k => k \in overlap[d]
    BY <1>0, <2>1 DEF Met, Stored
  <2>4. Clamping(d, k) => k \in Stored(d)
    BY DEF Clamping, Stored
  <2>5. Met(d)'
    BY <1>0, <1>2, <2>1, <2>4 DEF Met
  <2>6. Kept(d)'
    BY <1>0, <1>1, <2>1, <2>2, <2>3, UnitTypes DEF Kept
  <2>. QED
    BY <2>5, <2>6
<1>. QED
  BY <1>3, <1>4, <1>5 DEF Sender

(* A unit another unit's step, or no thread's step, leaves alone.          *)
LEMMA KeptUntouched ==
  ASSUME KeptInv, NEW h \in Dr,
         reply'[h] = reply[h], P_D'[h] = P_D[h], overlap'[h] = overlap[h],
         hpc'[h] = hpc[h], hmsg'[h] = hmsg[h], spc'[h] = spc[h]
  PROVE  Met(h)' /\ Kept(h)'
BY KeptKept DEF KeptInv, Stored, Clamping

(* Only Store and CopyLast write a stored round, and only TestRcvd decides *)
(* to.                                                                     *)
LEMMA KeptStep == TypeOK /\ LastInv /\ KeptInv /\ [Next]_vars => KeptInv'
<1> SUFFICES ASSUME TypeOK, LastInv, KeptInv, [Next]_vars, NEW h \in Dr PROVE Met(h)' /\ Kept(h)'
  BY DEF KeptInv
<1>1. ASSUME NEW d \in Dr, Handler(d) PROVE Met(h)' /\ Kept(h)'
  BY <1>1, KeptHandler, OthersUntouched, KeptUntouched
<1>2. ASSUME NEW d \in Dr, NEW k \in Rounds, Sender(d, k) PROVE Met(h)' /\ Kept(h)'
  BY <1>2, KeptSender, OthersUntouched, KeptUntouched
<1>3. ASSUME NEW d \in Dr, IsoDispatches(d) PROVE Met(h)' /\ Kept(h)'
  BY <1>3, KeptUntouched DEF IsoDispatches, handlerVars, senderVars
<1>4. ASSUME (\E d \in Dr : Deactivate(d) \/ Activate(d)) \/ GridRequests \/ GridSendsEnergy \/ UNCHANGED vars
      PROVE  Met(h)' /\ Kept(h)'
  BY <1>4, QuietSteps, KeptUntouched
<1>. QED
  BY <1>1, <1>2, <1>3, <1>4 DEF Next

(* Every invariant that speaks of the past of a round is inductive.        *)
LEMMA KeptInvariant == Spec => []KeptInv
<1>1. Init => KeptInv
  <2> SUFFICES ASSUME Init, NEW d \in Dr PROVE Met(d) /\ Kept(d)
    BY DEF KeptInv
  <2>1. DOMAIN reply[d] = {} /\ \A k \in Rounds : spc[d][k] = "idle"
    BY DEF Init, ClientInit
  <2>. QED
    BY <2>1 DEF Met, Kept
<1>. QED
  BY <1>1, KeptStep, UnitTypeCorrect, LastInvariant, PTL DEF Spec

(* isoPdrRequestHandler against sendPdr (demandResponse.py): the power the *)
(* ISO was told for a round is the power the unit keeps for it, unless the *)
(* thread of the grid's request met the dispatch, although that thread may *)
(* overwrite the round with the power of an older one.                     *)
THEOREM RepliedPowerKept == Spec => []RepliedIsKept
<1>1. KeptInv => RepliedIsKept
  BY DEF KeptInv, Kept, RepliedIsKept
<1>. QED
  BY <1>1, KeptInvariant, PTL

-----------------------------------------------------------------------------
(* AllowedInv.                                                             *)

(* The limits themselves are allowed amounts.                              *)
LEMMA LimitsAllowed == Allowed(PMin) /\ Allowed(PMax) /\ Allowed(0)
BY DemandResponseAssumption DEF Allowed, InLimits

(* No amount and no reply changes, no thread has just loaded, and the      *)
(* handler does not leave the window of the store.                         *)
LEMMA AmountsKept ==
  ASSUME NEW d \in Dr, AmountsAllowed(d),
         P_D'[d] = P_D[d], reply'[d] = reply[d], hmsg'[d] = hmsg[d],
         \A k \in Slots : Clamping(d, k) => Clamping(d, k)',
         \A k \in Rounds : spc'[d][k] = "copy" => spc[d][k] = "copy" /\ spd'[d][k] = spd[d][k],
         hpc'[d] = "high" => hpc[d] = "high", hpc'[d] = "mark" => hpc[d] = "mark"
  PROVE  AmountsAllowed(d)'
BY DEF AmountsAllowed, Allowed, InLimits

(* The steps of a unit's handler: the amount of the round being stored has *)
(* passed one test at "high" and both at "mark", whoever wrote it last.    *)
LEMMA AllowedHandler ==
  ASSUME TypeOK, NEW d \in Dr, AmountsAllowed(d), Handler(d)
  PROVE  AmountsAllowed(d)'
<1> DEFINE k == hmsg[d].k
<1>a. k \in Rounds /\ k \in Slots
  BY UnitTypes, SlotOfRound
<1>1. CASE RecvOne(d) \/ RecvMerged(d)
  <2>1. /\ UNCHANGED <<reply, P_D, spc, spd>>
        /\ hpc[d] = "recv" /\ hpc'[d] \in {"recv", "check"}
    BY <1>1 DEF RecvOne, RecvMerged, TypeOK, handlerVars, senderVars
  <2>2. \A j : ~ Clamping(d, j)
    BY <2>1 DEF Clamping
  <2>. QED
    BY <2>1, <2>2 DEF AmountsAllowed, Allowed, InLimits
<1>2. CASE CheckStale(d) \/ Ignore(d)
  <2>1. /\ UNCHANGED <<reply, P_D, spc, spd, hmsg>>
        /\ hpc[d] \in {"check", "store"} /\ hpc'[d] \in {"recv", "store", "mu"}
    BY <1>2 DEF CheckStale, Ignore, Goto, TypeOK, senderVars, netVars
  <2>2. \A j : ~ Clamping(d, j)
    BY <2>1 DEF Clamping
  <2>. QED
    BY <2>1, <2>2, AmountsKept
<1>3. CASE TestLow(d)
  <2>1. /\ UNCHANGED <<reply, P_D, spc, spd, hmsg>> /\ hpc[d] = "low"
        /\ hpc'[d] = (IF P_D[d][k] < PMin THEN "raise" ELSE "high")
    BY <1>3 DEF TestLow, Goto, TypeOK, senderVars, netVars
  <2>2. hpc'[d] = "high" => PMin <= P_D'[d][hmsg'[d].k]
    <3>1. P_D[d][k] \in Int
      BY <1>a DEF TypeOK
    <3>. QED
      BY <2>1, <3>1, DemandResponseAssumption
  <2>3. \A j : Clamping(d, j) => Clamping(d, j)'
    BY <2>1 DEF Clamping
  <2>. QED
    BY <2>1, <2>2, <2>3 DEF AmountsAllowed, Allowed, InLimits
<1>4. CASE TestHigh(d)
  <2>1. /\ UNCHANGED <<reply, P_D, spc, spd, hmsg>> /\ hpc[d] = "high"
        /\ hpc'[d] = (IF P_D[d][k] > PMax THEN "lower" ELSE "mark")
    BY <1>4 DEF TestHigh, Goto, TypeOK, senderVars, netVars
  <2>2. hpc'[d] = "mark" => Allowed(P_D[d][k])
    <3>1. P_D[d][k] \in Int
      BY <1>a DEF TypeOK
    <3>. QED
      BY <2>1, <3>1, DemandResponseAssumption DEF AmountsAllowed, Allowed, InLimits
  <2>3. \A j : Clamping(d, j) => Clamping(d, j)'
    BY <2>1 DEF Clamping
  <2>. QED
    BY <2>1, <2>2, <2>3 DEF AmountsAllowed, Allowed, InLimits
<1>5. CASE Store(d)
  <2>1. Write(d, "store", hmsg[d].pdr, "low")
    BY <1>5 DEF Store
  <2>2. /\ hpc[d] = "store" /\ hpc'[d] = "low" /\ UNCHANGED <<hmsg, spc, spd, reply>>
        /\ \A j \in Slots : j # k => P_D'[d][j] = P_D[d][j]
    BY <2>1, WriteEffect
  <2>3. Clamping(d, k)' /\ \A j : ~ Clamping(d, j)
    BY <2>2 DEF Clamping
  <2>. QED
    BY <2>2, <2>3 DEF AmountsAllowed, Allowed, InLimits
<1>6. CASE RaiseToMin(d) \/ LowerToMax(d)
  <2>1. PICK p \in {PMin, PMax} : Write(d, "raise", p, "mark") \/ Write(d, "lower", p, "mark")
    BY <1>6 DEF RaiseToMin, LowerToMax
  <2>2. /\ hpc[d] \in {"raise", "lower"} /\ hpc'[d] = "mark" /\ UNCHANGED <<hmsg, spc, spd, reply>>
        /\ P_D'[d][k] = p /\ \A j \in Slots : j # k => P_D'[d][j] = P_D[d][j]
    BY <2>1, WriteEffect
  <2>3. Allowed(p)
    BY LimitsAllowed
  <2>4. \A j : Clamping(d, j) => Clamping(d, j)'
    BY <2>2 DEF Clamping
  <2>. QED
    BY <2>2, <2>3, <2>4 DEF AmountsAllowed, Allowed, InLimits
<1>7. CASE Mark(d)
  <2>1. /\ UNCHANGED <<reply, P_D, spc, spd, hmsg>> /\ hpc[d] = "mark" /\ hpc'[d] = "grad"
    BY <1>7 DEF Mark, TypeOK, senderVars, netVars
  <2>2. \A j : Clamping(d, j) => j = k
    BY DEF Clamping
  <2>. QED
    BY <2>1, <2>2 DEF AmountsAllowed, Allowed, InLimits
<1>8. CASE ComputeGradF(d) \/ ComputeMu(d)
  <2>1. /\ UNCHANGED <<reply, P_D, spc, spd, hmsg>>
        /\ hpc[d] \in {"grad", "mu"} /\ hpc'[d] \in {"reply", "recv"}
    <3>1. CASE ComputeGradF(d)
      BY <3>1 DEF ComputeGradF, TypeOK, senderVars, netVars
    <3>2. CASE ComputeMu(d)
      <4>1. /\ UNCHANGED <<reply, P_D, spc, spd, hmsg>> /\ hpc[d] = "mu" /\ hpc' = [hpc EXCEPT ![d] = "recv"]
        BY <3>2 DEF ComputeMu, senderVars, netVars
      <4>. QED
        BY <4>1 DEF TypeOK
    <3>. QED
      BY <1>8, <3>1, <3>2
  <2>2. \A j : ~ Clamping(d, j)
    BY <2>1 DEF Clamping
  <2>. QED
    BY <2>1, <2>2, AmountsKept
<1>9. CASE SendGradF(d)
  <2> DEFINE r == [k |-> k, pdr |-> P_D[d][k], grad |-> grad_f[d][k]]
  <2>1. /\ reply' = [reply EXCEPT ![d] = Append(@, r)]
        /\ hpc[d] = "reply" /\ hpc'[d] = "mu" /\ UNCHANGED <<P_D, spc, spd, hmsg>>
    BY <1>9 DEF SendGradF, TypeOK, senderVars
  <2>2. r.pdr = P_D[d][k]
    OBVIOUS
  <2> HIDE DEF r
  <2>3. \A i \in DOMAIN reply'[d] :
           \/ i \in DOMAIN reply[d] /\ reply'[d][i] = reply[d][i]
           \/ reply'[d][i] = r
    <3>1. reply[d] \in Seq(Reply) /\ reply'[d] = Append(reply[d], r)
      BY <2>1, UnitTypes DEF TypeOK
    <3>. QED
      BY <3>1
  <2>4. \A j : ~ Clamping(d, j)
    BY <2>1 DEF Clamping
  <2>. QED
    BY <1>a, <2>1, <2>2, <2>3, <2>4 DEF AmountsAllowed, Allowed, InLimits
<1>. QED
  BY <1>1, <1>2, <1>3, <1>4, <1>5, <1>6, <1>7, <1>8, <1>9 DEF Handler

(* The steps of sendPdr: the amount loaded is that of a round that has been *)
(* marked, or of the last slot, and so has passed both tests.              *)
LEMMA AllowedSender ==
  ASSUME TypeOK, LastInv, NEW d \in Dr, NEW k \in Rounds, AmountsAllowed(d), Sender(d, k)
  PROVE  AmountsAllowed(d)'
<1>1. UNCHANGED <<hpc, hmsg, reply>>
  BY DEF Sender, StartSendPdr, TestRcvd, LoadLast, CopyLast, SendReport, drVars, handlerVars, netVars
<1>2. \A j : Clamping(d, j)' = Clamping(d, j)
  BY <1>1 DEF Clamping
<1>3. CASE StartSendPdr(d, k) \/ TestRcvd(d, k) \/ SendReport(d, k)
  <2>1. UNCHANGED <<P_D, spd>> /\ \A j \in Rounds : spc'[d][j] = "copy" => spc[d][j] = "copy"
    BY <1>3 DEF StartSendPdr, TestRcvd, SendReport, TypeOK
  <2>. QED
    BY <1>1, <1>2, <2>1, AmountsKept
<1>4. CASE LoadLast(d, k)
  <2> DEFINE last == Slot(lastPdrRcvdTs[d])
  <2>1. /\ P_D' = P_D
        /\ spd'[d][k] = P_D[d][last]
        /\ \A j \in Rounds : j # k => spc'[d][j] = spc[d][j] /\ spd'[d][j] = spd[d][j]
    BY <1>4 DEF LoadLast, TypeOK
  <2>2. last \in Slots /\ (last = lastPdrRcvdTs[d] \/ last = NIter)
    BY SlotOfRound DEF TypeOK, Slot
  <2>3. ~ Clamping(d, last)
    <3>1. hpc[d] \in {"low", "raise", "high", "lower", "mark"} => lastPdrRcvdTs[d] < hmsg[d].k
      BY StoringIsNew
    <3>2. hmsg[d].k # NIter /\ hmsg[d].k \in Int /\ lastPdrRcvdTs[d] \in Int
      BY UnitTypes, SlotOfRound
    <3>. QED
      BY <2>2, <3>1, <3>2 DEF Clamping
  <2>4. Allowed(P_D[d][last])
    BY <2>2, <2>3 DEF AmountsAllowed
  <2> HIDE DEF last
  <2>. QED
    BY <1>1, <1>2, <2>1, <2>4 DEF AmountsAllowed, Allowed, InLimits
<1>5. CASE CopyLast(d, k)
  <2>1. /\ spc[d][k] = "copy" /\ spd' = spd
        /\ \A j \in Rounds : spc'[d][j] = "copy" => spc[d][j] = "copy"
        /\ P_D'[d][k] = spd[d][k]
        /\ \A j \in Slots : j # k => P_D'[d][j] = P_D[d][j]
    BY <1>5, SlotOfRound DEF CopyLast, TypeOK
  <2>2. Allowed(P_D'[d][k])
    BY <2>1 DEF AmountsAllowed
  <2>3. hmsg[d].k \in Slots
    BY UnitTypes, SlotOfRound
  <2>. QED
    BY <1>1, <1>2, <2>1, <2>2, <2>3 DEF AmountsAllowed, Allowed, InLimits
<1>. QED
  BY <1>3, <1>4, <1>5 DEF Sender

(* No amount changes, nothing new is stored, and the handler neither       *)
(* reaches a test nor leaves the window of the store.                      *)
LEMMA StoredKept ==
  ASSUME NEW d \in Dr, StoredInLimits(d), P_D'[d] = P_D[d],
         Stored(d)' \subseteq Stored(d), overlap[d] \subseteq overlap'[d],
         \A k \in Stored(d) : Clamping(d, k) => Clamping(d, k)',
         hpc'[d] = "high" => hpc[d] = "high" /\ hmsg'[d] = hmsg[d],
         hpc'[d] = "mark" => hpc[d] = "mark" /\ hmsg'[d] = hmsg[d]
  PROVE  StoredInLimits(d)'
BY DEF StoredInLimits, InLimits

(* The steps of a unit's handler: a round that is not met passes both      *)
(* tests before it leaves the window.                                      *)
LEMMA StoredHandler ==
  ASSUME TypeOK, NEW d \in Dr, StoredInLimits(d), Handler(d)
  PROVE  StoredInLimits(d)'
<1> DEFINE k == hmsg[d].k
<1>a. k \in Rounds /\ k \in Slots /\ P_D[d][k] \in Int /\ PMin \in Int /\ PMax \in Int
  <2>1. k \in Rounds /\ k \in Slots
    BY UnitTypes, SlotOfRound
  <2>. QED
    BY <2>1, DemandResponseAssumption DEF TypeOK
<1>1. CASE RecvOne(d) \/ RecvMerged(d)
  <2>1. /\ UNCHANGED <<reply, P_D, overlap>>
        /\ hpc[d] = "recv" /\ hpc'[d] \in {"recv", "check"}
    BY <1>1 DEF RecvOne, RecvMerged, TypeOK, handlerVars, senderVars
  <2>2. Stored(d)' = Stored(d) /\ \A j : ~ Clamping(d, j)
    BY <2>1 DEF Stored, Clamping
  <2>. QED
    BY <2>1, <2>2, StoredKept
<1>2. CASE CheckStale(d) \/ Ignore(d)
  <2>1. /\ UNCHANGED <<reply, P_D, overlap, hmsg>>
        /\ hpc[d] \in {"check", "store"} /\ hpc'[d] \in {"recv", "store", "mu"}
    BY <1>2 DEF CheckStale, Ignore, Goto, TypeOK, senderVars, netVars
  <2>2. Stored(d)' = Stored(d) /\ \A j : ~ Clamping(d, j)
    BY <2>1 DEF Stored, Clamping
  <2>. QED
    BY <2>1, <2>2, StoredKept
<1>3. CASE TestLow(d)
  <2>1. /\ UNCHANGED <<reply, P_D, overlap, hmsg>> /\ hpc[d] = "low"
        /\ hpc'[d] = (IF P_D[d][k] < PMin THEN "raise" ELSE "high")
    BY <1>3 DEF TestLow, Goto, TypeOK, senderVars, netVars
  <2>2. hpc'[d] = "high" => PMin <= P_D[d][k]
    BY <1>a, <2>1
  <2>3. Stored(d)' = Stored(d) /\ \A j : Clamping(d, j)' = Clamping(d, j)
    BY <2>1 DEF Stored, Clamping
  <2>. QED
    BY <2>1, <2>2, <2>3 DEF StoredInLimits, InLimits
<1>4. CASE TestHigh(d)
  <2>1. /\ UNCHANGED <<reply, P_D, overlap, hmsg>> /\ hpc[d] = "high"
        /\ hpc'[d] = (IF P_D[d][k] > PMax THEN "lower" ELSE "mark")
    BY <1>4 DEF TestHigh, Goto, TypeOK, senderVars, netVars
  <2>2. hpc'[d] = "mark" /\ k \notin overlap[d] => InLimits(P_D[d][k])
    BY <1>a, <2>1 DEF StoredInLimits, InLimits
  <2>3. Stored(d)' = Stored(d) /\ \A j : Clamping(d, j)' = Clamping(d, j)
    BY <2>1 DEF Stored, Clamping
  <2>. QED
    BY <2>1, <2>2, <2>3 DEF StoredInLimits, InLimits
<1>5. CASE Store(d)
  <2>1. Write(d, "store", hmsg[d].pdr, "low")
    BY <1>5 DEF Store
  <2>2. /\ hpc[d] = "store" /\ hpc'[d] = "low" /\ UNCHANGED <<hmsg, reply>>
        /\ \A j \in Slots : j # k => P_D'[d][j] = P_D[d][j]
    BY <2>1, WriteEffect
  <2>3. /\ Clamping(d, k)' /\ \A j : ~ Clamping(d, j)
        /\ Stored(d)' = Stored(d) \cup {k} /\ Stored(d) \subseteq Slots
    BY <2>2, StoredRounds, SlotOfRound DEF Clamping, Stored
  <2>4. overlap[d] \subseteq overlap'[d]
    BY <1>5 DEF Store, TypeOK
  <2>. QED
    BY <2>2, <2>3, <2>4 DEF StoredInLimits, InLimits
<1>6. CASE RaiseToMin(d) \/ LowerToMax(d)
  <2>1. PICK p \in {PMin, PMax} : Write(d, "raise", p, "mark") \/ Write(d, "lower", p, "mark")
    BY <1>6 DEF RaiseToMin, LowerToMax
  <2>2. /\ hpc[d] \in {"raise", "lower"} /\ hpc'[d] = "mark" /\ UNCHANGED <<hmsg, reply>>
        /\ P_D'[d][k] = p /\ \A j \in Slots : j # k => P_D'[d][j] = P_D[d][j]
    BY <2>1, WriteEffect
  <2>3. InLimits(p) /\ overlap' = overlap
    BY <1>6, DemandResponseAssumption DEF InLimits, RaiseToMin, LowerToMax
  <2>4. /\ Stored(d)' = Stored(d) /\ Stored(d) \subseteq Slots
        /\ \A j : Clamping(d, j)' = Clamping(d, j)
    BY <2>2, StoredRounds, SlotOfRound DEF Clamping, Stored
  <2>. QED
    BY <2>2, <2>3, <2>4 DEF StoredInLimits, InLimits
<1>7. CASE Mark(d)
  <2>1. /\ UNCHANGED <<reply, P_D, overlap, hmsg>> /\ hpc[d] = "mark" /\ hpc'[d] = "grad"
    BY <1>7 DEF Mark, TypeOK, senderVars, netVars
  <2>2. Stored(d)' = Stored(d) /\ \A j : Clamping(d, j) => j = k
    BY <2>1 DEF Stored, Clamping
  <2>. QED
    BY <2>1, <2>2 DEF StoredInLimits, InLimits
<1>8. CASE ComputeGradF(d) \/ ComputeMu(d)
  <2>1. /\ UNCHANGED <<reply, P_D, overlap, hmsg>>
        /\ \/ hpc[d] = "grad" /\ hpc'[d] = "reply"
           \/ hpc[d] = "mu" /\ hpc'[d] = "recv"
    <3>1. CASE ComputeGradF(d)
      BY <3>1 DEF ComputeGradF, TypeOK, senderVars, netVars
    <3>2. CASE ComputeMu(d)
      <4>1. UNCHANGED <<reply, P_D, overlap, hmsg>> /\ hpc[d] = "mu" /\ hpc' = [hpc EXCEPT ![d] = "recv"]
        BY <3>2 DEF ComputeMu, senderVars, netVars
      <4>. QED
        BY <4>1 DEF TypeOK
    <3>. QED
      BY <1>8, <3>1, <3>2
  <2>2. Stored(d)' = Stored(d) /\ \A j : ~ Clamping(d, j)
    BY <2>1 DEF Stored, Clamping
  <2>. QED
    BY <2>1, <2>2, StoredKept
<1>9. CASE SendGradF(d)
  <2> DEFINE r == [k |-> k, pdr |-> P_D[d][k], grad |-> grad_f[d][k]]
  <2>1. /\ reply' = [reply EXCEPT ![d] = Append(@, r)]
        /\ hpc[d] = "reply" /\ hpc'[d] = "mu" /\ UNCHANGED <<P_D, overlap, hmsg>>
    BY <1>9 DEF SendGradF, TypeOK, senderVars
  <2>2. r.k = k
    OBVIOUS
  <2> HIDE DEF r
  <2>3. \A i \in DOMAIN reply'[d] :
           \/ i \in DOMAIN reply[d] /\ reply'[d][i] = reply[d][i]
           \/ reply'[d][i] = r
    <3>1. reply[d] \in Seq(Reply) /\ reply'[d] = Append(reply[d], r)
      BY <2>1, UnitTypes DEF TypeOK
    <3>. QED
      BY <3>1
  <2>4. k \in Stored(d) /\ \A j : ~ Clamping(d, j)
    BY <2>1 DEF Stored, Clamping
  <2>5. Stored(d)' \subseteq Stored(d)
    BY <2>1, <2>2, <2>3, <2>4 DEF Stored
  <2>. QED
    BY <2>1, <2>4, <2>5, StoredKept
<1>. QED
  BY <1>1, <1>2, <1>3, <1>4, <1>5, <1>6, <1>7, <1>8, <1>9 DEF Handler

(* The steps of sendPdr: a thread that writes over a stored round met it.  *)
LEMMA StoredSender ==
  ASSUME TypeOK, KeptInv, NEW d \in Dr, NEW k \in Rounds, StoredInLimits(d), Sender(d, k)
  PROVE  StoredInLimits(d)'
<1>1. UNCHANGED <<hpc, hmsg, reply>>
  BY DEF Sender, StartSendPdr, TestRcvd, LoadLast, CopyLast, SendReport, drVars, handlerVars, netVars
<1>2. Stored(d)' = Stored(d) /\ \A j : Clamping(d, j)' = Clamping(d, j)
  BY <1>1 DEF Stored, Clamping
<1>3. CASE StartSendPdr(d, k) \/ TestRcvd(d, k) \/ LoadLast(d, k) \/ SendReport(d, k)
  <2>1. P_D' = P_D /\ overlap[d] \subseteq overlap'[d]
    BY <1>3 DEF StartSendPdr, TestRcvd, LoadLast, SendReport, TypeOK
  <2>. QED
    BY <1>1, <1>2, <2>1, StoredKept
<1>4. CASE CopyLast(d, k)
  <2>1. /\ spc[d][k] = "copy" /\ overlap' = overlap
        /\ \A j \in Slots : j # k => P_D'[d][j] = P_D[d][j]
    BY <1>4, SlotOfRound DEF CopyLast, TypeOK
  <2>2. k \in Stored(d) => k \in overlap[d]
    BY <2>1 DEF KeptInv, Met
  <2>3. Stored(d) \subseteq Slots /\ hmsg[d].k \in Slots
    BY StoredRounds, UnitTypes, SlotOfRound
  <2>4. hpc[d] \in {"high", "mark"} => hmsg[d].k \in Stored(d)
    BY DEF Stored
  <2>. QED
    BY <1>1, <1>2, <2>1, <2>2, <2>3, <2>4 DEF StoredInLimits, InLimits
<1>. QED
  BY <1>3, <1>4 DEF Sender

(* A unit another unit's step, or no thread's step, leaves alone.          *)
LEMMA AmountsUntouched ==
  ASSUME NEW h \in Dr, AmountsAllowed(h), StoredInLimits(h),
         reply'[h] = reply[h], P_D'[h] = P_D[h], spc'[h] = spc[h], spd'[h] = spd[h],
         hpc'[h] = hpc[h], hmsg'[h] = hmsg[h], overlap'[h] = overlap[h]
  PROVE  AmountsAllowed(h)' /\ StoredInLimits(h)'
BY AmountsKept, StoredKept DEF Clamping, Stored

(* A report is new only when a thread sends it, and then its round is not  *)
(* being stored, unless the thread has met the dispatch.                   *)
LEMMA ReportsStep ==
  ASSUME TypeOK, KeptInv, AllowedInv, [Next]_vars
  PROVE  \A r \in report' : r.k \notin overlap'[r.d] =>
           Allowed(r.pdr) /\ (r.stored => InLimits(r.pdr))
<1> SUFFICES ASSUME NEW r \in report', r.k \notin overlap'[r.d]
             PROVE  Allowed(r.pdr) /\ (r.stored => InLimits(r.pdr))
  OBVIOUS
<1>1. \A d \in Dr : overlap[d] \subseteq overlap'[d]
  <2>1. ASSUME NEW d \in Dr, Store(d) PROVE \A h \in Dr : overlap[h] \subseteq overlap'[h]
    BY <2>1 DEF Store, TypeOK
  <2>2. ASSUME NEW d \in Dr, Handler(d), ~ Store(d) PROVE overlap' = overlap
    <3>1. CASE RaiseToMin(d) \/ LowerToMax(d)
      BY <3>1 DEF RaiseToMin, LowerToMax
    <3>2. CASE ~ (RaiseToMin(d) \/ LowerToMax(d))
      BY <2>2, <3>2
         DEF Handler, RecvOne, RecvMerged, CheckStale, Ignore, TestLow, TestHigh,
             Mark, ComputeGradF, SendGradF, ComputeMu, Goto
    <3>. QED
      BY <3>1, <3>2
  <2>3. ASSUME NEW d \in Dr, NEW k \in Rounds, Sender(d, k) PROVE \A h \in Dr : overlap[h] \subseteq overlap'[h]
    <3>1. CASE TestRcvd(d, k)
      BY <3>1 DEF TestRcvd, TypeOK
    <3>2. CASE ~ TestRcvd(d, k)
      BY <2>3, <3>2 DEF Sender, StartSendPdr, LoadLast, CopyLast, SendReport
    <3>. QED
      BY <3>1, <3>2
  <2>4. ASSUME NEW d \in Dr, IsoDispatches(d) PROVE overlap' = overlap
    BY <2>4 DEF IsoDispatches
  <2>. QED
    BY <2>1, <2>2, <2>3, <2>4, QuietSteps DEF Next
<1>2. CASE r \in report
  <2>1. r.d \in Dr
    BY <1>2 DEF TypeOK, Report
  <2>. QED
    BY <1>1, <1>2, <2>1 DEF AllowedInv
<1>3. CASE r \notin report
  <2>1. PICK d \in Dr, k \in Rounds : SendReport(d, k)
    <3>1. ASSUME NEW d \in Dr, Handler(d) PROVE report' = report
      <4>1. CASE Store(d) \/ RaiseToMin(d) \/ LowerToMax(d)
        BY <4>1 DEF Store, RaiseToMin, LowerToMax, Write, netVars
      <4>2. CASE ~ (Store(d) \/ RaiseToMin(d) \/ LowerToMax(d))
        BY <3>1, <4>2
           DEF Handler, RecvOne, RecvMerged, CheckStale, Ignore, TestLow, TestHigh,
               Mark, ComputeGradF, SendGradF, ComputeMu, Goto, netVars
      <4>. QED
        BY <4>1, <4>2
    <3>2. ASSUME NEW d \in Dr, NEW k \in Rounds, Sender(d, k), ~ SendReport(d, k) PROVE report' = report
      BY <3>2 DEF Sender, StartSendPdr, TestRcvd, LoadLast, CopyLast, netVars
    <3>3. ASSUME NEW d \in Dr, IsoDispatches(d) PROVE report' = report
      BY <3>3 DEF IsoDispatches
    <3>. QED
      BY <1>3, <3>1, <3>2, <3>3, QuietSteps DEF Next
  <2>2. /\ r = [d |-> d, k |-> k, pdr |-> P_D[d][k], stored |-> k \in Stored(d)]
        /\ spc[d][k] = "send" /\ overlap' = overlap
    BY <1>3, <2>1 DEF SendReport
  <2>3. r.d = d /\ r.k = k /\ r.pdr = P_D[d][k] /\ (r.stored => k \in Stored(d))
    BY <2>2
  <2>4. ~ Clamping(d, k)
    BY <2>2, <2>3 DEF KeptInv, Met
  <2>. QED
    BY <2>2, <2>3, <2>4, SlotOfRound DEF AllowedInv, AmountsAllowed, StoredInLimits
<1>. QED
  BY <1>2, <1>3

(* No thread of a unit spreads an amount that has not passed both tests.   *)
LEMMA AllowedStep == TypeOK /\ LastInv /\ KeptInv /\ AllowedInv /\ [Next]_vars => AllowedInv'
<1> SUFFICES ASSUME TypeOK, LastInv, KeptInv, AllowedInv, [Next]_vars PROVE AllowedInv'
  OBVIOUS
<1>1. ASSUME NEW h \in Dr PROVE AmountsAllowed(h)' /\ StoredInLimits(h)'
  <2>0. AmountsAllowed(h) /\ StoredInLimits(h)
    BY DEF AllowedInv
  <2>1. ASSUME NEW d \in Dr, Handler(d) PROVE AmountsAllowed(h)' /\ StoredInLimits(h)'
    BY <2>0, <2>1, AllowedHandler, StoredHandler, OthersUntouched, AmountsUntouched
  <2>2. ASSUME NEW d \in Dr, NEW k \in Rounds, Sender(d, k)
        PROVE  AmountsAllowed(h)' /\ StoredInLimits(h)'
    BY <2>0, <2>2, AllowedSender, StoredSender, OthersUntouched, AmountsUntouched
  <2>3. ASSUME NEW d \in Dr, IsoDispatches(d) PROVE AmountsAllowed(h)' /\ StoredInLimits(h)'
    BY <2>0, <2>3, AmountsUntouched DEF IsoDispatches, handlerVars, senderVars
  <2>4. ASSUME (\E d \in Dr : Deactivate(d) \/ Activate(d)) \/ GridRequests \/ GridSendsEnergy \/ UNCHANGED vars
        PROVE  AmountsAllowed(h)' /\ StoredInLimits(h)'
    BY <2>0, <2>4, QuietSteps, AmountsUntouched
  <2>. QED
    BY <2>1, <2>2, <2>3, <2>4 DEF Next
<1>. QED
  BY <1>1, ReportsStep DEF AllowedInv

(* isoPdrRequestHandler (demandResponse.py) stores the dispatched amount   *)
(* before it brings it within the limits.  For a round it stored, a unit   *)
(* nevertheless keeps and tells an amount within its limits, unless the    *)
(* thread of the grid's request met the dispatch; then the raw amount goes *)
(* into that thread's report at most, and never into another round.        *)
THEOREM RawAmountIsContained == Spec => []RawAmountIsTransient
<1>1. Init => AllowedInv
  <2> SUFFICES ASSUME Init PROVE AllowedInv
    OBVIOUS
  <2>1. ASSUME NEW d \in Dr PROVE AmountsAllowed(d) /\ StoredInLimits(d)
    <3>1. /\ DOMAIN reply[d] = {} /\ hpc[d] = "recv" /\ \A k \in Slots : P_D[d][k] = 0
          /\ \A k \in Rounds : spc[d][k] = "idle"
      BY DEF Init, ClientInit
    <3>. QED
      BY <3>1 DEF AmountsAllowed, Allowed, StoredInLimits, Stored
  <2>. QED
    BY <2>1 DEF Init, ClientInit, AllowedInv
<1>2. TypeOK /\ LastInv /\ KeptInv /\ AllowedInv => RawAmountIsTransient
  <2> SUFFICES ASSUME TypeOK, LastInv, KeptInv, AllowedInv PROVE RawAmountIsTransient
    OBVIOUS
  <2>1. ASSUME NEW d \in Dr, NEW i \in DOMAIN reply[d], reply[d][i].k \notin overlap[d]
        PROVE  InLimits(reply[d][i].pdr)
    <3>1. reply[d][i].k \in Stored(d) /\ P_D[d][reply[d][i].k] = reply[d][i].pdr
      BY <2>1 DEF Stored, KeptInv, Kept
    <3>2. ~ Clamping(d, reply[d][i].k)
      BY StoringIsNew DEF Clamping
    <3>. QED
      BY <2>1, <3>1, <3>2 DEF AllowedInv, StoredInLimits
  <2>2. ASSUME NEW d \in Dr, NEW k \in Slots, ~ Clamping(d, k)
        PROVE  Allowed(P_D[d][k]) /\ (k \in Stored(d) \ overlap[d] => InLimits(P_D[d][k]))
    BY <2>2 DEF AllowedInv, AmountsAllowed, StoredInLimits
  <2>. QED
    BY <2>1, <2>2 DEF AllowedInv, AmountsAllowed, RawAmountIsTransient
<1>. QED
  BY <1>1, <1>2, AllowedStep, UnitTypeCorrect, LastInvariant, KeptInvariant, PTL DEF Spec

=============================================================================

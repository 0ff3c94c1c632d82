-------------------------- MODULE GeneratorProofs --------------------------
(***************************************************************************)
(* Proofs about module Generator, for any number of generators, rounds and *)
(* amounts of power.                                                       *)
(***************************************************************************)
EXTENDS Generator, TLAPS

(* Clamping yields an amount within the limits.                            *)
LEMMA ClampInLimits ==
  ASSUME NEW pg \in Int
  PROVE  Clamp(pg) \in Int /\ InLimits(Clamp(pg))
BY GeneratorAssumption DEF Clamp, InLimits

(* The indices computed from a round stay within the arrays, and from a    *)
(* slot with an integer a multiplier is computed that is one.              *)
LEMMA SlotOfRound ==
  ASSUME NEW k \in Rounds
  PROVE  k \in Slots /\ k + 1 \in Slots /\ k \in Int
BY GeneratorAssumption DEF Rounds, Slots

(* The index LoadLast reads at, -1 included, is within the array.          *)
LEMMA SlotOfLast ==
  ASSUME NEW k \in Rounds \cup {-1}
  PROVE  Slot(k) \in Slots
BY GeneratorAssumption DEF Rounds, Slots, Slot

(* A multiplier of the next round is an integer.                           *)
LEMMA MultiplierIsInt ==
  ASSUME NEW m \in Int, NEW d \in Int
  PROVE  Larger(0, m + KMu * d) \in Int
<1>1. KMu * d \in Int
  BY GeneratorAssumption
<1>. QED
  BY <1>1 DEF Larger

(* Every variable of a generator keeps its type (generator.py): no thread  *)
(* ever indexes an array outside its N_iter+1 entries.                     *)
THEOREM TypeCorrect == Spec => []TypeOK
<1>1. Init => TypeOK
  BY GeneratorAssumption
     DEF Init, TypeOK, Rounds, Slots, Dispatch, HandlerPc, SenderPc
<1>2. TypeOK /\ [Next]_vars => TypeOK'
  <2> SUFFICES ASSUME TypeOK, [Next]_vars PROVE TypeOK'
    OBVIOUS
  <2>1. ASSUME NEW g \in Gen, RecvOne(g) PROVE TypeOK'
    <3>1. hmsg' \in [Gen -> Dispatch]
      BY <2>1 DEF TypeOK, RecvOne
    <3>2. dispatch' \in [Gen -> Seq(Dispatch)]
      BY <2>1 DEF TypeOK, RecvOne
    <3>3. hpc' \in [Gen -> HandlerPc]
      BY <2>1 DEF TypeOK, RecvOne, HandlerPc
    <3>. QED
      BY <2>1, <3>1, <3>2, <3>3 DEF TypeOK, RecvOne, genVars, handlerVars, senderVars, envVars
  <2>2. ASSUME NEW g \in Gen, RecvMerged(g) PROVE TypeOK'
    <3>1. dispatch' \in [Gen -> Seq(Dispatch)]
      BY <2>2 DEF TypeOK, RecvMerged
    <3>. QED
      BY <2>2, <3>1 DEF TypeOK, RecvMerged, genVars, handlerVars, senderVars, envVars
  <2>3. ASSUME NEW g \in Gen, CheckStale(g) PROVE TypeOK'
    <3>1. hpc' \in [Gen -> HandlerPc]
      BY <2>3 DEF TypeOK, CheckStale, HandlerPc
    <3>. QED
      BY <2>3, <3>1 DEF TypeOK, CheckStale, genVars, handlerVars, senderVars, envVars
  <2>4. ASSUME NEW g \in Gen, Store(g) PROVE TypeOK'
    <3>1. P_G' \in [Gen -> [Slots -> Int]]
      <4>1. hmsg[g].k \in Slots /\ Clamp(hmsg[g].pg) \in Int
        BY SlotOfRound, ClampInLimits DEF TypeOK, Dispatch
      <4>. QED
        BY <2>4, <4>1 DEF TypeOK, Store
    <3>2. hpc' \in [Gen -> HandlerPc]
      BY <2>4 DEF TypeOK, Store, HandlerPc
    <3>3. overlap' \in [Gen -> SUBSET Rounds]
      BY <2>4 DEF TypeOK, Store, Dispatch
    <3>. QED
      BY <2>4, <3>1, <3>2, <3>3 DEF TypeOK, Store, genVars, handlerVars, senderVars, envVars
  <2>5. ASSUME NEW g \in Gen, Ignore(g) PROVE TypeOK'
    <3>1. hpc' \in [Gen -> HandlerPc]
      BY <2>5 DEF TypeOK, Ignore, HandlerPc
    <3>. QED
      BY <2>5, <3>1 DEF TypeOK, Ignore, genVars, handlerVars, senderVars, envVars
  <2>6. ASSUME NEW g \in Gen, Mark(g) PROVE TypeOK'
    <3>1. lastPgRcvdTs' \in [Gen -> Rounds \cup {-1}]
      BY <2>6 DEF TypeOK, Mark, Dispatch
    <3>2. hpc' \in [Gen -> HandlerPc]
      BY <2>6 DEF TypeOK, Mark, HandlerPc
    <3>. QED
      BY <2>6, <3>1, <3>2 DEF TypeOK, Mark, genVars, handlerVars, senderVars, envVars
  <2>7. ASSUME NEW g \in Gen, ComputeGradF(g) PROVE TypeOK'
    <3>1. grad_f' \in [Gen -> [Slots -> Int]]
      <4>1. hmsg[g].k \in Slots
        BY SlotOfRound DEF TypeOK, Dispatch
      <4>2. /\ mu3[g][hmsg[g].k] \in Int
            /\ mu4[g][hmsg[g].k] \in Int
            /\ P_G[g][hmsg[g].k] \in Int
        BY <4>1 DEF TypeOK
      <4>3. CG * P_G[g][hmsg[g].k] \in Int
        BY <4>2, GeneratorAssumption
      <4>4. Gradient(g, hmsg[g].k, P_G[g][hmsg[g].k]) \in Int
        BY <4>2, <4>3, GeneratorAssumption DEF Gradient
      <4>. QED
        BY <2>7, <4>1, <4>4 DEF TypeOK, ComputeGradF
    <3>2. hpc' \in [Gen -> HandlerPc]
      BY <2>7 DEF TypeOK, ComputeGradF, HandlerPc
    <3>. QED
      BY <2>7, <3>1, <3>2 DEF TypeOK, ComputeGradF, genVars, handlerVars, senderVars, envVars
  <2>8. ASSUME NEW g \in Gen, SendGradF(g) PROVE TypeOK'
    <3>1. reply' \in [Gen -> Seq(Reply)]
      <4>1. hmsg[g].k \in Rounds /\ hmsg[g].k \in Slots
        BY SlotOfRound DEF TypeOK, Dispatch
      <4>2. /\ P_G[g][hmsg[g].k] \in Int
            /\ grad_f[g][hmsg[g].k] \in Int
            /\ attack[g].by \in Int
        BY <4>1 DEF TypeOK
      <4> DEFINE lie == IF attack[g].on THEN attack[g].by ELSE 0
                 r == [k |-> hmsg[g].k, pg |-> P_G[g][hmsg[g].k],
                       grad |-> grad_f[g][hmsg[g].k] + lie, lie |-> lie]
      <4>3. r \in Reply /\ reply' = [reply EXCEPT ![g] = Append(@, r)]
        BY <2>8, <4>1, <4>2 DEF SendGradF, Reply
      <4> HIDE DEF r, lie
      <4>4. Append(reply[g], r) \in Seq(Reply)
        BY <4>3 DEF TypeOK
      <4>. QED
        BY <4>3, <4>4 DEF TypeOK
    <3>2. attack' \in [Gen -> [on : BOOLEAN, by : Int, inc : Int]]
      BY <2>8 DEF TypeOK, SendGradF
    <3>3. hpc' \in [Gen -> HandlerPc]
      BY <2>8 DEF TypeOK, SendGradF, HandlerPc
    <3>. QED
      BY <2>8, <3>1, <3>2, <3>3 DEF TypeOK, SendGradF, genVars, handlerVars, senderVars, envVars
  <2>9. ASSUME NEW g \in Gen, ComputeMu(g) PROVE TypeOK'
    <3>1. mu3' \in [Gen -> [Slots -> Int]]
      <4>1. hmsg[g].k \in Slots /\ hmsg[g].k + 1 \in Slots
        BY SlotOfRound DEF TypeOK, Dispatch
      <4>2. mu3[g][hmsg[g].k] \in Int /\ P_G[g][hmsg[g].k] \in Int
        BY <4>1 DEF TypeOK
      <4>3. PMin - P_G[g][hmsg[g].k] \in Int
        BY <4>2, GeneratorAssumption
      <4>4. Larger(0, mu3[g][hmsg[g].k] + KMu * (PMin - P_G[g][hmsg[g].k])) \in Int
        BY <4>2, <4>3, MultiplierIsInt
      <4>. QED
        BY <2>9, <4>1, <4>4 DEF TypeOK, ComputeMu
    <3>2. mu4' \in [Gen -> [Slots -> Int]]
      <4>1. hmsg[g].k \in Slots /\ hmsg[g].k + 1 \in Slots
        BY SlotOfRound DEF TypeOK, Dispatch
      <4>2. mu4[g][hmsg[g].k] \in Int /\ P_G[g][hmsg[g].k] \in Int
        BY <4>1 DEF TypeOK
      <4>3. P_G[g][hmsg[g].k] - PMax \in Int
        BY <4>2, GeneratorAssumption
      <4>4. Larger(0, mu4[g][hmsg[g].k] + KMu * (P_G[g][hmsg[g].k] - PMax)) \in Int
        BY <4>2, <4>3, MultiplierIsInt
      <4>. QED
        BY <2>9, <4>1, <4>4 DEF TypeOK, ComputeMu
    <3>3. hpc' \in [Gen -> HandlerPc]
      BY <2>9 DEF TypeOK, ComputeMu, HandlerPc
    <3>. QED
      BY <2>9, <3>1, <3>2, <3>3 DEF TypeOK, ComputeMu, genVars, handlerVars, senderVars, envVars
  <2>10. ASSUME NEW g \in Gen, NEW k \in Rounds, StartSendPg(g, k) PROVE TypeOK'
    <3>1. request' \subseteq Gen \X Rounds
      BY <2>10 DEF TypeOK, StartSendPg
    <3>2. currentGridTs' \in [Gen -> Rounds \cup {-1}]
      BY <2>10 DEF TypeOK, StartSendPg
    <3>3. rpc' \in [Gen -> [Rounds -> SenderPc]]
      BY <2>10 DEF TypeOK, StartSendPg, SenderPc
    <3>. QED
      BY <2>10, <3>1, <3>2, <3>3 DEF TypeOK, StartSendPg, genVars, handlerVars, senderVars, envVars
  <2>11. ASSUME NEW g \in Gen, NEW k \in Rounds, TestRcvd(g, k) PROVE TypeOK'
    <3>1. rpc' \in [Gen -> [Rounds -> SenderPc]]
      BY <2>11 DEF TypeOK, TestRcvd, SenderPc
    <3>2. overlap' \in [Gen -> SUBSET Rounds]
      BY <2>11 DEF TypeOK, TestRcvd
    <3>. QED
      BY <2>11, <3>1, <3>2 DEF TypeOK, TestRcvd, genVars, handlerVars, senderVars, envVars
  <2>12. ASSUME NEW g \in Gen, NEW k \in Rounds, LoadLast(g, k) PROVE TypeOK'
    <3>1. rpg' \in [Gen -> [Rounds -> Int]]
      <4>1. Slot(lastPgRcvdTs[g]) \in Slots
        BY SlotOfLast DEF TypeOK
      <4>. QED
        BY <2>12, <4>1 DEF TypeOK, LoadLast
    <3>2. rpc' \in [Gen -> [Rounds -> SenderPc]]
      BY <2>12 DEF TypeOK, LoadLast, SenderPc
    <3>. QED
      BY <2>12, <3>1, <3>2 DEF TypeOK, LoadLast, genVars, handlerVars, senderVars, envVars
  <2>13. ASSUME NEW g \in Gen, NEW k \in Rounds, CopyLast(g, k) PROVE TypeOK'
    <3>1. P_G' \in [Gen -> [Slots -> Int]]
      BY <2>13, SlotOfRound DEF TypeOK, CopyLast
    <3>2. rpc' \in [Gen -> [Rounds -> SenderPc]]
      BY <2>13 DEF TypeOK, CopyLast, SenderPc
    <3>. QED
      BY <2>13, <3>1, <3>2 DEF TypeOK, CopyLast, genVars, handlerVars, senderVars, envVars
  <2>14. ASSUME NEW g \in Gen, NEW k \in Rounds, SendReport(g, k) PROVE TypeOK'
    <3>1. report' \subseteq Report
      <4> DEFINE stored == k \in Stored(g)
      <4>1. P_G[g][k] \in Int /\ stored \in BOOLEAN
        BY SlotOfRound DEF TypeOK
      <4>2. report' = report \cup {[g |-> g, k |-> k, pg |-> P_G[g][k], stored |-> stored]}
        BY <2>14 DEF SendReport
      <4> HIDE DEF stored
      <4>. QED
        BY <4>1, <4>2 DEF TypeOK, Report
    <3>2. rpc' \in [Gen -> [Rounds -> SenderPc]]
      BY <2>14 DEF TypeOK, SendReport, SenderPc
    <3>. QED
      BY <2>14, <3>1, <3>2 DEF TypeOK, SendReport, genVars, handlerVars, senderVars, envVars
  <2>15. ASSUME NEW g \in Gen, IsoDispatches(g) PROVE TypeOK'
    <3>1. dispatch' \in [Gen -> Seq(Dispatch)]
      <4>1. PICK d \in Dispatch : dispatch' = [dispatch EXCEPT ![g] = Append(@, d)]
        BY <2>15, GeneratorAssumption DEF IsoDispatches, Dispatch
      <4>2. Append(dispatch[g], d) \in Seq(Dispatch)
        BY <4>1 DEF TypeOK
      <4>. QED
        BY <4>1, <4>2 DEF TypeOK
    <3>2. round' \in [Gen -> 0 .. NIter]
      BY <2>15, GeneratorAssumption DEF TypeOK, IsoDispatches, Rounds
    <3>. QED
      BY <2>15, <3>1, <3>2 DEF TypeOK, IsoDispatches, genVars, handlerVars, senderVars, envVars
  <2>16. ASSUME NEW g \in Gen, Operator(g) PROVE TypeOK'
    <3>1. CASE Deactivate(g)
      BY <3>1 DEF TypeOK, Deactivate, handlerVars, senderVars, envVars
    <3>2. CASE Activate(g)
      BY <3>2 DEF TypeOK, Activate, handlerVars, senderVars, envVars
    <3>3. CASE StartGradFDeception(g)
      <4>1. attack' \in [Gen -> [on : BOOLEAN, by : Int, inc : Int]]
        BY <3>3, GeneratorAssumption DEF TypeOK, StartGradFDeception
      <4>. QED
        BY <3>3, <4>1 DEF TypeOK, StartGradFDeception, handlerVars, senderVars, envVars
    <3>4. CASE StopGradFDeception(g)
      <4>1. attack' \in [Gen -> [on : BOOLEAN, by : Int, inc : Int]]
        BY <3>4 DEF TypeOK, StopGradFDeception
      <4>. QED
        BY <3>4, <4>1 DEF TypeOK, StopGradFDeception, handlerVars, senderVars, envVars
    <3>. QED
      BY <2>16, <3>1, <3>2, <3>3, <3>4 DEF Operator
  <2>17. CASE GridRequests
    <3>1. request' \subseteq Gen \X Rounds
      BY <2>17, GeneratorAssumption DEF TypeOK, GridRequests, Rounds
    <3>2. asked' \in 0 .. NIter
      BY <2>17, GeneratorAssumption DEF TypeOK, GridRequests
    <3>. QED
      BY <2>17, <3>1, <3>2 DEF TypeOK, GridRequests, genVars, handlerVars, senderVars
  <2>18. CASE UNCHANGED vars
    BY <2>18 DEF TypeOK, vars, genVars, handlerVars, senderVars, envVars
  <2>. QED
    BY <2>1, <2>2, <2>3, <2>4, <2>5, <2>6, <2>7, <2>8, <2>9, <2>10, <2>11, <2>12,
       <2>13, <2>14, <2>15, <2>16, <2>17, <2>18 DEF Next, Handler, Sender
<1>3. QED
  BY <1>1, <1>2, PTL DEF Spec

-----------------------------------------------------------------------------
(* An entry of a stream after a message was appended to one of them.       *)
LEMMA Appended ==
  ASSUME NEW S, NEW s \in [Gen -> Seq(S)], NEW g \in Gen, NEW m \in S,
         NEW t, t = [s EXCEPT ![g] = Append(@, m)],
         NEW h \in Gen, NEW i \in DOMAIN t[h]
  PROVE  \/ h = g /\ i = Len(s[g]) + 1 /\ t[h][i] = m
         \/ i \in DOMAIN s[h] /\ t[h][i] = s[h][i]
<1>1. CASE h = g
  <2>1. t[h] = Append(s[g], m) /\ s[g] \in Seq(S)
    BY <1>1
  <2>. QED
    BY <1>1, <2>1
<1>2. CASE h # g
  BY <1>2
<1>. QED
  BY <1>1, <1>2

(* The reply that SendGradF appends.                                       *)
LEMMA SentReply ==
  ASSUME TypeOK, NEW g \in Gen, SendGradF(g)
  PROVE  \E r \in Reply :
           /\ r.k = hmsg[g].k /\ r.pg = P_G[g][hmsg[g].k]
           /\ r.grad = grad_f[g][hmsg[g].k] + r.lie
           /\ reply' = [reply EXCEPT ![g] = Append(@, r)]
<1>1. hmsg[g].k \in Rounds /\ hmsg[g].k \in Slots
  BY SlotOfRound DEF TypeOK, Dispatch
<1>2. P_G[g][hmsg[g].k] \in Int /\ grad_f[g][hmsg[g].k] \in Int /\ attack[g].by \in Int
  BY <1>1 DEF TypeOK
<1> DEFINE lie == IF attack[g].on THEN attack[g].by ELSE 0
           r == [k |-> hmsg[g].k, pg |-> P_G[g][hmsg[g].k],
                 grad |-> grad_f[g][hmsg[g].k] + lie, lie |-> lie]
<1>3. r \in Reply /\ reply' = [reply EXCEPT ![g] = Append(@, r)]
  BY <1>1, <1>2 DEF SendGradF, Reply
<1>. QED
  BY <1>3

-----------------------------------------------------------------------------
(* The order of the replies.                                              *)

(* The rounds in messages are integers.                                    *)
LEMMA RoundsAreInt ==
  ASSUME TypeOK, NEW g \in Gen
  PROVE  /\ hmsg[g].k \in Int /\ round[g] \in Int
         /\ dispatch[g] \in Seq(Dispatch) /\ reply[g] \in Seq(Reply)
         /\ \A i \in DOMAIN dispatch[g] : dispatch[g][i].k \in Int
         /\ \A i \in DOMAIN reply[g] : reply[g][i].k \in Int
<1>1. \A d \in Dispatch : d.k \in Int
  BY SlotOfRound DEF Dispatch
<1>2. \A r \in Reply : r.k \in Int
  BY SlotOfRound DEF Reply
<1>3. hmsg[g] \in Dispatch /\ dispatch[g] \in Seq(Dispatch) /\ reply[g] \in Seq(Reply)
  BY DEF TypeOK
<1>4. round[g] \in Int
  BY GeneratorAssumption DEF TypeOK
<1>. QED
  BY <1>1, <1>2, <1>3, <1>4

(* A generator whose streams do not change, and whose handler goes on to   *)
(* its next step, or back to recv.                                         *)
LEMMA OrderKept ==
  ASSUME NEW g \in Gen, InOrder(g),
         dispatch'[g] = dispatch[g], reply'[g] = reply[g], round'[g] = round[g],
         hmsg'[g] = hmsg[g],
         hpc'[g] # "recv" => hpc[g] # "recv",
         hpc'[g] \in HandlerPc \ {"recv", "mu"} => hpc[g] \in HandlerPc \ {"recv", "mu"},
         hpc'[g] = "mu" => hpc[g] \in HandlerPc \ {"recv", "mu"} \/ hpc[g] = "mu",
         \A i \in DOMAIN reply[g] : reply[g][i].k \in Int, hmsg[g].k \in Int
  PROVE  InOrder(g)'
<1>1. StreamInOrder(g)' /\ RepliedBeforeStream(g)' /\ RepliedInOrder(g)'
  BY DEF InOrder, StreamInOrder, RepliedBeforeStream, RepliedInOrder
<1>2. HandledBeforeStream(g)'
  BY DEF InOrder, HandledBeforeStream
<1>3. RepliedBeforeHandled(g)'
  BY DEF InOrder, RepliedBeforeHandled
<1>. QED
  BY <1>1, <1>2, <1>3 DEF InOrder

(* A step of one generator leaves the others alone.                        *)
LEMMA OrderOfOthers ==
  ASSUME TypeOK, OrderInv, NEW g \in Gen, NEW h \in Gen,
         dispatch'[h] = dispatch[h], reply'[h] = reply[h], round'[h] = round[h],
         hmsg'[h] = hmsg[h], hpc'[h] = hpc[h]
  PROVE  InOrder(h)'
BY OrderKept, RoundsAreInt DEF OrderInv

(* A message moves from the ISO to the stream, the handler and the reply,  *)
(* and is behind all that went before it at each of them.                  *)
LEMMA OrderStep == TypeOK /\ OrderInv /\ [Next]_vars => OrderInv'
<1> SUFFICES ASSUME TypeOK, OrderInv, [Next]_vars, NEW h \in Gen PROVE InOrder(h)'
  BY DEF OrderInv
<1>0. InOrder(h)
  BY DEF OrderInv
<1>1. ASSUME NEW g \in Gen, RecvOne(g) PROVE InOrder(h)'
  <2>1. CASE h # g
    BY <1>1, <2>1, OrderOfOthers DEF RecvOne, TypeOK, envVars
  <2>2. CASE h = g
    <3>1. /\ dispatch[g] \in Seq(Dispatch) /\ dispatch[g] # << >>
          /\ dispatch'[g] = Tail(dispatch[g]) /\ hmsg'[g] = dispatch[g][1]
          /\ reply' = reply /\ round' = round /\ hpc'[g] = "check"
      BY <1>1 DEF RecvOne, TypeOK, envVars
    <3>2. /\ 1 \in DOMAIN dispatch[g]
          /\ \A i \in DOMAIN dispatch'[g] :
               i + 1 \in DOMAIN dispatch[g] /\ dispatch'[g][i] = dispatch[g][i + 1] /\ i \in Nat /\ i >= 1
      BY <3>1
    <3>3. StreamInOrder(g)'
      BY <1>0, <2>2, <3>1, <3>2 DEF InOrder, StreamInOrder
    <3>4. HandledBeforeStream(g)'
      BY <1>0, <2>2, <3>1, <3>2 DEF InOrder, StreamInOrder, HandledBeforeStream
    <3>5. RepliedBeforeStream(g)' /\ RepliedInOrder(g)'
      BY <1>0, <2>2, <3>1, <3>2 DEF InOrder, RepliedBeforeStream, RepliedInOrder
    <3>6. RepliedBeforeHandled(g)'
      BY <1>0, <2>2, <3>1, <3>2 DEF InOrder, RepliedBeforeStream, RepliedBeforeHandled
    <3>. QED
      BY <2>2, <3>3, <3>4, <3>5, <3>6 DEF InOrder
  <2>. QED
    BY <2>1, <2>2
<1>2. ASSUME NEW g \in Gen, RecvMerged(g) PROVE InOrder(h)'
  <2>1. CASE h # g
    BY <1>2, <2>1, OrderOfOthers DEF RecvMerged, TypeOK, envVars, handlerVars
  <2>2. CASE h = g
    <3>1. PICK n \in 2 .. Len(dispatch[g]) :
            dispatch' = [dispatch EXCEPT ![g] = SubSeq(@, n + 1, Len(@))]
      BY <1>2 DEF RecvMerged
    <3>2. /\ dispatch[g] \in Seq(Dispatch) /\ n \in Nat
          /\ dispatch'[g] = SubSeq(dispatch[g], n + 1, Len(dispatch[g]))
          /\ reply' = reply /\ round' = round /\ hpc'[g] = "recv"
      <4>1. dispatch \in [Gen -> Seq(Dispatch)] /\ dispatch[g] \in Seq(Dispatch)
        BY DEF TypeOK
      <4>2. Len(dispatch[g]) \in Nat
        BY <4>1
      <4>3. dispatch'[g] = SubSeq(dispatch[g], n + 1, Len(dispatch[g]))
        BY <3>1, <4>1
      <4>4. reply' = reply /\ round' = round /\ hpc'[g] = "recv"
        BY <1>2 DEF RecvMerged, envVars, handlerVars
      <4>. QED
        BY <4>1, <4>2, <4>3, <4>4
    <3>3. \A i \in DOMAIN dispatch'[g] :
             i + n \in DOMAIN dispatch[g] /\ dispatch'[g][i] = dispatch[g][i + n] /\ i \in Nat
      BY <3>2
    <3>4. StreamInOrder(g)'
      BY <1>0, <2>2, <3>2, <3>3 DEF InOrder, StreamInOrder
    <3>5. HandledBeforeStream(g)' /\ RepliedBeforeHandled(g)'
      BY <3>2 DEF HandledBeforeStream, RepliedBeforeHandled
    <3>6. RepliedBeforeStream(g)' /\ RepliedInOrder(g)'
      BY <1>0, <2>2, <3>2, <3>3 DEF InOrder, RepliedBeforeStream, RepliedInOrder
    <3>. QED
      BY <2>2, <3>4, <3>5, <3>6 DEF InOrder
  <2>. QED
    BY <2>1, <2>2
<1>3. ASSUME NEW g \in Gen, SendGradF(g) PROVE InOrder(h)'
  <2>1. PICK r \in Reply : r.k = hmsg[g].k /\ reply' = [reply EXCEPT ![g] = Append(@, r)]
    BY <1>3, SentReply
  <2>2. CASE h # g
    BY <1>3, <2>1, <2>2, OrderOfOthers DEF SendGradF, TypeOK, envVars
  <2>3. CASE h = g
    <3>1. /\ hpc[g] = "send" /\ hpc'[g] = "mu" /\ dispatch' = dispatch
          /\ hmsg' = hmsg /\ round' = round
      BY <1>3 DEF SendGradF, TypeOK, envVars
    <3>2. reply[g] \in Seq(Reply) /\ reply'[g] = Append(reply[g], r)
      BY <2>1 DEF TypeOK
    <3>3. \A i \in DOMAIN reply'[g] :
            \/ i \in DOMAIN reply[g] /\ i <= Len(reply[g]) /\ reply'[g][i] = reply[g][i]
            \/ i = Len(reply[g]) + 1 /\ reply'[g][i] = r
      BY <3>2
    <3>4. /\ hmsg[g].k < round[g]
          /\ \A i \in DOMAIN dispatch[g] : hmsg[g].k < dispatch[g][i].k
          /\ \A i \in DOMAIN reply[g] : reply[g][i].k < hmsg[g].k
      BY <1>0, <2>3, <3>1 DEF InOrder, HandledBeforeStream, RepliedBeforeHandled, HandlerPc
    <3>5. StreamInOrder(g)' /\ HandledBeforeStream(g)'
      BY <1>0, <2>3, <3>1 DEF InOrder, StreamInOrder, HandledBeforeStream
    <3>6. RepliedBeforeStream(g)'
      BY <1>0, <2>1, <2>3, <3>1, <3>3, <3>4 DEF InOrder, RepliedBeforeStream
    <3>7. RepliedBeforeHandled(g)'
      BY <2>1, <3>1, <3>3, <3>4, RoundsAreInt DEF RepliedBeforeHandled
    <3>8. RepliedInOrder(g)'
      BY <1>0, <2>1, <2>3, <3>2, <3>3, <3>4 DEF InOrder, RepliedInOrder
    <3>. QED
      BY <2>3, <3>5, <3>6, <3>7, <3>8 DEF InOrder
  <2>. QED
    BY <2>2, <2>3
<1>4. ASSUME NEW g \in Gen, IsoDispatches(g) PROVE InOrder(h)'
  <2>1. PICK k \in Rounds, pg \in Power :
          /\ k >= round[g]
          /\ dispatch' = [dispatch EXCEPT ![g] = Append(@, [k |-> k, pg |-> pg])]
          /\ round' = [round EXCEPT ![g] = k + 1]
    BY <1>4 DEF IsoDispatches
  <2>2. CASE h # g
    BY <1>4, <2>1, <2>2, OrderOfOthers DEF IsoDispatches, TypeOK, handlerVars
  <2>3. CASE h = g
    <3>1. /\ dispatch[g] \in Seq(Dispatch) /\ round'[g] = k + 1 /\ k \in Int
          /\ dispatch'[g] = Append(dispatch[g], [k |-> k, pg |-> pg])
          /\ hpc' = hpc /\ hmsg' = hmsg /\ reply' = reply
      BY <1>4, <2>1, SlotOfRound DEF IsoDispatches, TypeOK, handlerVars
    <3>2. \A i \in DOMAIN dispatch'[g] :
            \/ i \in DOMAIN dispatch[g] /\ i <= Len(dispatch[g]) /\ dispatch'[g][i] = dispatch[g][i]
            \/ i = Len(dispatch[g]) + 1 /\ dispatch'[g][i].k = k
      BY <3>1
    <3>3. \A n \in Int : n < round[g] => n < k /\ n < round'[g]
      BY <2>1, <3>1, RoundsAreInt
    <3>4. StreamInOrder(g)'
      <4>1. \A i \in DOMAIN dispatch[g] : dispatch[g][i].k < k /\ dispatch[g][i].k < round'[g]
        BY <1>0, <2>3, <3>3, RoundsAreInt DEF InOrder, StreamInOrder
      <4>. QED
        BY <1>0, <2>3, <3>1, <3>2, <4>1 DEF InOrder, StreamInOrder
    <3>5. HandledBeforeStream(g)'
      BY <1>0, <2>3, <3>1, <3>2, <3>3, RoundsAreInt DEF InOrder, HandledBeforeStream
    <3>6. RepliedBeforeStream(g)'
      BY <1>0, <2>3, <3>1, <3>2, <3>3, RoundsAreInt DEF InOrder, RepliedBeforeStream
    <3>7. RepliedBeforeHandled(g)' /\ RepliedInOrder(g)'
      BY <1>0, <2>3, <3>1 DEF InOrder, RepliedBeforeHandled, RepliedInOrder
    <3>. QED
      BY <2>3, <3>4, <3>5, <3>6, <3>7 DEF InOrder
  <2>. QED
    BY <2>2, <2>3
<1>5. ASSUME NEW g \in Gen,
             CheckStale(g) \/ Store(g) \/ Ignore(g) \/ Mark(g) \/ ComputeGradF(g) \/ ComputeMu(g)
      PROVE  InOrder(h)'
  <2>1. UNCHANGED <<dispatch, reply, round, hmsg>>
    BY <1>5 DEF CheckStale, Store, Ignore, Mark, ComputeGradF, ComputeMu, envVars
  <2>2. /\ hpc'[h] # "recv" => hpc[h] # "recv"
        /\ hpc'[h] \in HandlerPc \ {"recv", "mu"} => hpc[h] \in HandlerPc \ {"recv", "mu"}
        /\ hpc'[h] = "mu" => hpc[h] \in HandlerPc \ {"recv", "mu"} \/ hpc[h] = "mu"
    BY <1>5
       DEF TypeOK, HandlerPc, CheckStale, Store, Ignore, Mark, ComputeGradF, ComputeMu
  <2>. QED
    BY <1>0, <2>1, <2>2, OrderKept, RoundsAreInt
<1>6. ASSUME NEW g \in Gen, NEW k \in Rounds, Sender(g, k) PROVE InOrder(h)'
  BY <1>6, OrderOfOthers
     DEF Sender, StartSendPg, TestRcvd, LoadLast, CopyLast, SendReport, handlerVars, envVars
<1>7. ASSUME NEW g \in Gen, Operator(g) PROVE InOrder(h)'
  BY <1>7, OrderOfOthers
     DEF Operator, Deactivate, Activate, StartGradFDeception, StopGradFDeception,
         handlerVars, envVars
<1>8. CASE GridRequests
  BY <1>8, OrderOfOthers DEF GridRequests, handlerVars
<1>9. CASE UNCHANGED vars
  BY <1>9, OrderOfOthers DEF vars, handlerVars, envVars
<1>. QED
  BY <1>1, <1>2, <1>3, <1>4, <1>5, <1>6, <1>7, <1>8, <1>9 DEF Next, Handler

(* The streams are empty.                                                  *)
LEMMA OrderInit == Init => OrderInv
<1> SUFFICES ASSUME Init, NEW g \in Gen PROVE InOrder(g)
  BY DEF OrderInv
<1>1. hpc[g] = "recv" /\ dispatch[g] = << >> /\ reply[g] = << >>
  BY DEF Init
<1>2. DOMAIN dispatch[g] = {} /\ DOMAIN reply[g] = {}
  BY <1>1
<1>. QED
  BY <1>1, <1>2
     DEF InOrder, StreamInOrder, HandledBeforeStream, RepliedBeforeStream,
         RepliedBeforeHandled, RepliedInOrder

(* In every state the messages are in the order of the rounds.             *)
LEMMA OrderInvariant == Spec => []OrderInv
BY OrderInit, OrderStep, TypeCorrect, PTL DEF Spec

(* The replies of a generator are in the order of the rounds (generator.py, *)
(* isoPgRequestHandler), though dispatches may be dropped and delayed.      *)
THEOREM OrderOfReplies == Spec => []RepliesInOrder
<1>1. OrderInv => RepliesInOrder
  BY DEF OrderInv, InOrder, RepliedInOrder, RepliesInOrder
<1>. QED
  BY <1>1, OrderInvariant, PTL

-----------------------------------------------------------------------------
(* LastInv.                                                                *)

(* Nothing that LastIsBetween speaks of changes, and the handler stays in *)
(* the same part of its work.                                              *)
LEMMA LastKept ==
  ASSUME NEW g \in Gen, LastIsBetween(g),
         dispatch'[g] = dispatch[g], reply'[g] = reply[g], round'[g] = round[g],
         hmsg'[g] = hmsg[g], lastPgRcvdTs'[g] = lastPgRcvdTs[g],
         hpc'[g] \in {"check", "store", "mark"} => hpc[g] \in {"check", "store", "mark"},
         hpc'[g] \in {"grad", "send"} => hpc[g] \in {"grad", "send"}
  PROVE  LastIsBetween(g)'
BY DEF LastIsBetween

(* A step of one generator leaves the others alone.                        *)
LEMMA LastOfOthers ==
  ASSUME LastInv, NEW h \in Gen,
         dispatch'[h] = dispatch[h], reply'[h] = reply[h], round'[h] = round[h],
         hmsg'[h] = hmsg[h], hpc'[h] = hpc[h], lastPgRcvdTs'[h] = lastPgRcvdTs[h]
  PROVE  LastIsBetween(h)'
BY LastKept DEF LastInv

(* lastPgRcvdTs moves only when the handler marks a round, which is later  *)
(* than every round replied to and earlier than every round in the stream. *)
LEMMA LastStep == TypeOK /\ OrderInv /\ LastInv /\ [Next]_vars => LastInv'
<1> SUFFICES ASSUME TypeOK, OrderInv, LastInv, [Next]_vars, NEW h \in Gen
             PROVE  LastIsBetween(h)'
  BY DEF LastInv
<1>0. LastIsBetween(h) /\ InOrder(h)
  BY DEF LastInv, OrderInv
<1>a. lastPgRcvdTs[h] \in Int
  BY SlotOfRound DEF TypeOK
<1>1. ASSUME NEW g \in Gen, RecvOne(g) PROVE LastIsBetween(h)'
  <2>1. CASE h # g
    BY <1>1, <2>1, LastOfOthers DEF RecvOne, TypeOK, genVars, envVars
  <2>2. CASE h = g
    <3>1. /\ dispatch[g] \in Seq(Dispatch) /\ dispatch[g] # << >>
          /\ dispatch'[g] = Tail(dispatch[g]) /\ hmsg'[g] = dispatch[g][1]
          /\ reply' = reply /\ round' = round /\ hpc'[g] = "check"
          /\ lastPgRcvdTs' = lastPgRcvdTs
      BY <1>1 DEF RecvOne, TypeOK, genVars, envVars
    <3>2. /\ 1 \in DOMAIN dispatch[g]
          /\ \A i \in DOMAIN dispatch'[g] :
               i + 1 \in DOMAIN dispatch[g] /\ dispatch'[g][i] = dispatch[g][i + 1]
      BY <3>1
    <3>. QED
      BY <1>0, <2>2, <3>1, <3>2 DEF LastIsBetween
  <2>. QED
    BY <2>1, <2>2
<1>2. ASSUME NEW g \in Gen, RecvMerged(g) PROVE LastIsBetween(h)'
  <2>1. CASE h # g
    BY <1>2, <2>1, LastOfOthers DEF RecvMerged, TypeOK, genVars, envVars, handlerVars
  <2>2. CASE h = g
    <3>1. PICK n \in 2 .. Len(dispatch[g]) :
            dispatch' = [dispatch EXCEPT ![g] = SubSeq(@, n + 1, Len(@))]
      BY <1>2 DEF RecvMerged
    <3>2. dispatch \in [Gen -> Seq(Dispatch)] /\ dispatch[g] \in Seq(Dispatch)
      BY DEF TypeOK
    <3>3. Len(dispatch[g]) \in Nat /\ n \in Nat
      BY <3>1, <3>2
    <3>4. dispatch'[g] = SubSeq(dispatch[g], n + 1, Len(dispatch[g]))
      BY <3>1, <3>2
    <3>5. \A i \in DOMAIN dispatch'[g] :
             i + n \in DOMAIN dispatch[g] /\ dispatch'[g][i] = dispatch[g][i + n]
      BY <3>2, <3>3, <3>4
    <3>6. UNCHANGED <<reply, round, hmsg, hpc, lastPgRcvdTs>>
      BY <1>2 DEF RecvMerged, genVars, envVars, handlerVars
    <3>. QED
      BY <1>0, <2>2, <3>5, <3>6 DEF LastIsBetween
  <2>. QED
    BY <2>1, <2>2
<1>3. ASSUME NEW g \in Gen, Mark(g) PROVE LastIsBetween(h)'
  <2>1. CASE h # g
    BY <1>3, <2>1, LastOfOthers DEF Mark, TypeOK, envVars
  <2>2. CASE h = g
    <3>1. /\ hpc[g] = "mark" /\ hpc'[g] = "grad" /\ lastPgRcvdTs'[g] = hmsg[g].k
          /\ UNCHANGED <<reply, dispatch, hmsg, round>>
      BY <1>3 DEF Mark, TypeOK, envVars
    <3>2. /\ hmsg[g].k < round[g]
          /\ \A i \in DOMAIN dispatch[g] : hmsg[g].k < dispatch[g][i].k
          /\ \A i \in DOMAIN reply[g] : reply[g][i].k < hmsg[g].k
      BY <1>0, <2>2, <3>1 DEF InOrder, HandledBeforeStream, RepliedBeforeHandled, HandlerPc
    <3>. QED
      BY <2>2, <3>1, <3>2, RoundsAreInt DEF LastIsBetween
  <2>. QED
    BY <2>1, <2>2
<1>4. ASSUME NEW g \in Gen, SendGradF(g) PROVE LastIsBetween(h)'
  <2>1. PICK r \in Reply : r.k = hmsg[g].k /\ reply' = [reply EXCEPT ![g] = Append(@, r)]
    BY <1>4, SentReply
  <2>2. CASE h # g
    BY <1>4, <2>1, <2>2, LastOfOthers DEF SendGradF, TypeOK, envVars
  <2>3. CASE h = g
    <3>1. /\ hpc[g] = "send" /\ hpc'[g] = "mu"
          /\ UNCHANGED <<dispatch, hmsg, round, lastPgRcvdTs>>
      BY <1>4 DEF SendGradF, TypeOK, envVars
    <3>2. reply[g] \in Seq(Reply) /\ reply'[g] = Append(reply[g], r)
      BY <2>1 DEF TypeOK
    <3>3. \A i \in DOMAIN reply'[g] :
            \/ i \in DOMAIN reply[g] /\ reply'[g][i] = reply[g][i]
            \/ reply'[g][i] = r
      BY <3>2
    <3>. QED
      BY <1>0, <1>a, <2>1, <2>3, <3>1, <3>3 DEF LastIsBetween
  <2>. QED
    BY <2>2, <2>3
<1>5. ASSUME NEW g \in Gen, IsoDispatches(g) PROVE LastIsBetween(h)'
  <2>1. PICK k \in Rounds, pg \in Power :
          /\ k >= round[g]
          /\ dispatch' = [dispatch EXCEPT ![g] = Append(@, [k |-> k, pg |-> pg])]
          /\ round' = [round EXCEPT ![g] = k + 1]
    BY <1>5 DEF IsoDispatches
  <2>2. CASE h # g
    BY <1>5, <2>1, <2>2, LastOfOthers DEF IsoDispatches, TypeOK, genVars, handlerVars
  <2>3. CASE h = g
    <3>1. /\ dispatch[g] \in Seq(Dispatch) /\ round'[g] = k + 1 /\ k \in Int
          /\ dispatch'[g] = Append(dispatch[g], [k |-> k, pg |-> pg])
          /\ UNCHANGED <<hpc, hmsg, reply, lastPgRcvdTs>>
      BY <1>5, <2>1, SlotOfRound DEF IsoDispatches, TypeOK, genVars, handlerVars
    <3>2. \A i \in DOMAIN dispatch'[g] :
            \/ i \in DOMAIN dispatch[g] /\ dispatch'[g][i] = dispatch[g][i]
            \/ dispatch'[g][i].k = k
      BY <3>1
    <3>3. lastPgRcvdTs[g] < k /\ lastPgRcvdTs[g] < round'[g]
      BY <1>0, <1>a, <2>1, <2>3, <3>1, RoundsAreInt DEF LastIsBetween
    <3>. QED
      BY <1>0, <2>3, <3>1, <3>2, <3>3 DEF LastIsBetween
  <2>. QED
    BY <2>2, <2>3
<1>6. ASSUME NEW g \in Gen,
             CheckStale(g) \/ Store(g) \/ Ignore(g) \/ ComputeGradF(g) \/ ComputeMu(g)
      PROVE  LastIsBetween(h)'
  <2>1. UNCHANGED <<dispatch, reply, round, hmsg, lastPgRcvdTs>>
    BY <1>6 DEF CheckStale, Store, Ignore, ComputeGradF, ComputeMu, genVars, envVars
  <2>2. /\ hpc'[h] \in {"check", "store", "mark"} => hpc[h] \in {"check", "store", "mark"}
        /\ hpc'[h] \in {"grad", "send"} => hpc[h] \in {"grad", "send"}
    BY <1>6 DEF TypeOK, CheckStale, Store, Ignore, ComputeGradF, ComputeMu
  <2>. QED
    BY <1>0, <2>1, <2>2, LastKept
<1>7. ASSUME NEW g \in Gen, NEW k \in Rounds, Sender(g, k) PROVE LastIsBetween(h)'
  BY <1>7, LastOfOthers
     DEF Sender, StartSendPg, TestRcvd, LoadLast, CopyLast, SendReport,
         genVars, handlerVars, envVars
<1>8. ASSUME NEW g \in Gen, Operator(g) PROVE LastIsBetween(h)'
  BY <1>8, LastOfOthers
     DEF Operator, Deactivate, Activate, StartGradFDeception, StopGradFDeception,
         handlerVars, envVars
<1>9. CASE GridRequests
  BY <1>9, LastOfOthers DEF GridRequests, genVars, handlerVars
<1>10. CASE UNCHANGED vars
  BY <1>10, LastOfOthers DEF vars, genVars, handlerVars, envVars
<1>. QED
  BY <1>1, <1>2, <1>3, <1>4, <1>5, <1>6, <1>7, <1>8, <1>9, <1>10 DEF Next, Handler

(* Nothing was sent yet, and lastPgRcvdTs is -1.                           *)
LEMMA LastInit == Init => LastInv
<1> SUFFICES ASSUME Init, NEW g \in Gen PROVE LastIsBetween(g)
  BY DEF LastInv
<1>1. /\ hpc[g] = "recv" /\ dispatch[g] = << >> /\ reply[g] = << >>
      /\ lastPgRcvdTs[g] = -1 /\ round[g] = 0
  BY DEF Init
<1>2. DOMAIN dispatch[g] = {} /\ DOMAIN reply[g] = {}
  BY <1>1
<1>. QED
  BY <1>1, <1>2 DEF LastIsBetween

(* In every state lastPgRcvdTs is between the rounds replied to and the    *)
(* rounds to come.                                                         *)
LEMMA LastInvariant == Spec => []LastInv
BY LastInit, LastStep, TypeCorrect, OrderInvariant, PTL DEF Spec

-----------------------------------------------------------------------------
(* KeptInv.                                                                *)

(* No power and no reply changes, and no thread starts to copy.            *)
LEMMA KeptKept ==
  ASSUME NEW h \in Gen, CopiesMet(h), Kept(h),
         reply'[h] = reply[h], P_G'[h] = P_G[h], Stored(h)' \subseteq Stored(h),
         \A k \in Stored(h)' : Copying(h, k)' => Copying(h, k),
         overlap[h] \subseteq overlap'[h]
  PROVE  CopiesMet(h)' /\ Kept(h)'
BY DEF CopiesMet, Kept

(* A step of one generator leaves the others alone.                        *)
LEMMA KeptOfOthers ==
  ASSUME KeptInv, NEW h \in Gen,
         reply'[h] = reply[h], P_G'[h] = P_G[h], hpc'[h] = hpc[h], hmsg'[h] = hmsg[h],
         rpc'[h] = rpc[h], overlap'[h] = overlap[h]
  PROVE  CopiesMet(h)' /\ Kept(h)'
<1>1. Stored(h)' = Stored(h)
  BY DEF Stored
<1>2. \A k : Copying(h, k)' = Copying(h, k)
  BY DEF Copying
<1>. QED
  BY <1>1, <1>2, KeptKept DEF KeptInv

(* The rounds a generator has stored are rounds.                           *)
LEMMA StoredRounds == ASSUME TypeOK, NEW g \in Gen PROVE Stored(g) \subseteq Rounds
<1>1. hmsg[g].k \in Rounds
  BY DEF TypeOK, Dispatch
<1>2. ASSUME NEW i \in DOMAIN reply[g] PROVE reply[g][i].k \in Rounds
  <2>1. reply[g] \in Seq(Reply)
    BY DEF TypeOK
  <2>2. reply[g][i] \in Reply
    BY <2>1, <1>2
  <2>. QED
    BY <2>2 DEF Reply
<1>. QED
  BY <1>1, <1>2 DEF Stored

(* Only Store and CopyLast write P_G; only TestRcvd makes a thread copy.   *)
LEMMA KeptStep ==
  TypeOK /\ TypeOK' /\ OrderInv /\ LastInv /\ KeptInv /\ [Next]_vars => KeptInv'
<1> SUFFICES ASSUME TypeOK, TypeOK', OrderInv, LastInv, KeptInv, [Next]_vars, NEW h \in Gen
             PROVE  CopiesMet(h)' /\ Kept(h)'
  BY DEF KeptInv
<1>0. CopiesMet(h) /\ Kept(h)
  BY DEF KeptInv
<1>1. ASSUME NEW g \in Gen, Store(g) PROVE CopiesMet(h)' /\ Kept(h)'
  <2>1. CASE h # g
    BY <1>1, <2>1, KeptOfOthers DEF Store, TypeOK, senderVars, envVars
  <2>2. CASE h = g
    <3> DEFINE k == hmsg[g].k
    <3>1. /\ hpc[g] = "store" /\ hpc'[g] = "mark" /\ k \in Slots
          /\ UNCHANGED <<hmsg, reply, rpc>>
      BY <1>1, SlotOfRound DEF Store, TypeOK, senderVars, Dispatch
    <3>2. \A j \in Slots \ {k} : P_G'[g][j] = P_G[g][j]
      <4>1. P_G' = [P_G EXCEPT ![g][k] = Clamp(hmsg[g].pg)]
        BY <1>1 DEF Store
      <4>2. P_G \in [Gen -> [Slots -> Int]]
        BY DEF TypeOK
      <4> HIDE DEF k
      <4>. QED
        BY <4>1, <4>2
    <3>3. /\ overlap[g] \subseteq overlap'[g]
          /\ Copying(g, k) => k \in overlap'[g]
      <4>1. overlap' = IF Copying(g, k) THEN [overlap EXCEPT ![g] = @ \cup {k}] ELSE overlap
        BY <1>1 DEF Store
      <4>2. overlap \in [Gen -> SUBSET Rounds]
        BY DEF TypeOK
      <4>. QED
        BY <4>1, <4>2
    <3>4. Stored(g)' = Stored(g) \cup {k}
      BY <3>1 DEF Stored
    <3>5. \A j : Copying(g, j)' = Copying(g, j)
      BY <3>1 DEF Copying
    <3>6. CopiesMet(g)'
      BY <1>0, <2>2, <3>3, <3>4, <3>5 DEF CopiesMet
    <3>7. \A i \in DOMAIN reply[g] : reply[g][i].k < k
      BY <3>1 DEF OrderInv, InOrder, RepliedBeforeHandled, HandlerPc
    <3>8. \A i \in DOMAIN reply[g] : reply[g][i].k \in Slots /\ reply[g][i].k # k
      <4>1. \A i \in DOMAIN reply[g] : reply[g][i].k \in Stored(g)
        BY DEF Stored
      <4>2. \A i \in DOMAIN reply[g] : reply[g][i].k \in Slots
        BY <4>1, StoredRounds, SlotOfRound
      <4>. QED
        BY <3>7, <4>2, RoundsAreInt
    <3>9. Kept(g)'
      BY <1>0, <2>2, <3>1, <3>2, <3>3, <3>8 DEF Kept
    <3>. QED
      BY <2>2, <3>6, <3>9
  <2>. QED
    BY <2>1, <2>2
<1>2. ASSUME NEW g \in Gen, SendGradF(g) PROVE CopiesMet(h)' /\ Kept(h)'
  <2>1. PICK r \in Reply : /\ r.k = hmsg[g].k /\ r.pg = P_G[g][hmsg[g].k]
                          /\ reply' = [reply EXCEPT ![g] = Append(@, r)]
    BY <1>2, SentReply
  <2>2. CASE h # g
    BY <1>2, <2>1, <2>2, KeptOfOthers DEF SendGradF, TypeOK, senderVars
  <2>3. CASE h = g
    <3>1. /\ hpc[g] = "send" /\ hpc'[g] = "mu"
          /\ UNCHANGED <<P_G, hmsg, rpc, overlap>>
      BY <1>2 DEF SendGradF, TypeOK, senderVars
    <3>2. reply[g] \in Seq(Reply) /\ reply'[g] = Append(reply[g], r)
      BY <2>1 DEF TypeOK
    <3>3. \A i \in DOMAIN reply'[g] :
            \/ i \in DOMAIN reply[g] /\ reply'[g][i] = reply[g][i]
            \/ reply'[g][i] = r
      BY <3>2
    <3>4. hmsg[g].k \in Stored(g)
      BY <3>1 DEF Stored
    <3>5. Stored(g)' \subseteq Stored(g)
      BY <2>1, <3>1, <3>3, <3>4 DEF Stored
    <3>6. CopiesMet(g)'
      BY <1>0, <2>3, <3>1, <3>5 DEF CopiesMet, Copying
    <3>7. Kept(g)'
      BY <1>0, <2>1, <2>3, <3>1, <3>3 DEF Kept
    <3>. QED
      BY <2>3, <3>6, <3>7
  <2>. QED
    BY <2>2, <2>3
<1>3. ASSUME NEW g \in Gen, NEW k \in Rounds, TestRcvd(g, k) PROVE CopiesMet(h)' /\ Kept(h)'
  <2>1. CASE h # g
    BY <1>3, <2>1, KeptOfOthers DEF TestRcvd, TypeOK, genVars, handlerVars
  <2>2. CASE h = g
    <3>1. UNCHANGED <<P_G, hpc, hmsg, reply>>
      BY <1>3 DEF TestRcvd, genVars, handlerVars
    <3>2. \A j \in Rounds \ {k} : Copying(g, j)' = Copying(g, j)
      BY <1>3 DEF TestRcvd, TypeOK, Copying
    <3>3. overlap[g] \subseteq overlap'[g]
      BY <1>3 DEF TestRcvd, TypeOK
    <3>4. ASSUME Copying(g, k)', k \in Stored(g) PROVE k \in overlap'[g]
      <4>1. k > lastPgRcvdTs[g]
        BY <1>3, <3>4 DEF TestRcvd, TypeOK, Copying
      <4>2. lastPgRcvdTs[g] \in Int /\ k \in Int
        BY SlotOfRound DEF TypeOK
      <4>3. \A i \in DOMAIN reply[g] : reply[g][i].k # k
        BY <4>1, <4>2, RoundsAreInt DEF LastInv, LastIsBetween
      <4>4. hpc[g] \in {"mark", "grad", "send"} /\ hmsg[g].k = k
        BY <3>4, <4>3 DEF Stored
      <4>5. hpc[g] = "mark"
        BY <4>1, <4>2, <4>4 DEF LastInv, LastIsBetween
      <4>. QED
        BY <1>3, <4>1, <4>4, <4>5 DEF TestRcvd, TypeOK
    <3>5. Stored(g)' = Stored(g)
      BY <3>1 DEF Stored
    <3>6. CopiesMet(g)'
      BY <1>0, <2>2, <3>2, <3>3, <3>4, <3>5, StoredRounds DEF CopiesMet
    <3>7. Kept(g)'
      BY <1>0, <2>2, <3>1, <3>3 DEF Kept
    <3>. QED
      BY <2>2, <3>6, <3>7
  <2>. QED
    BY <2>1, <2>2
<1>4. ASSUME NEW g \in Gen, NEW k \in Rounds, CopyLast(g, k) PROVE CopiesMet(h)' /\ Kept(h)'
  <2>1. CASE h # g
    BY <1>4, <2>1, KeptOfOthers DEF CopyLast, TypeOK, handlerVars
  <2>2. CASE h = g
    <3>1. UNCHANGED <<hpc, hmsg, reply, overlap>>
      BY <1>4 DEF CopyLast, handlerVars
    <3>2. \A j \in Slots \ {k} : P_G'[g][j] = P_G[g][j]
      BY <1>4 DEF CopyLast, TypeOK
    <3>3. Copying(g, k) /\ \A j \in Rounds : Copying(g, j)' => Copying(g, j)
      BY <1>4 DEF CopyLast, TypeOK, Copying
    <3>4. Stored(g)' = Stored(g)
      BY <3>1 DEF Stored
    <3>5. CopiesMet(g)'
      BY <1>0, <2>2, <3>1, <3>3, <3>4, StoredRounds DEF CopiesMet
    <3>6. ASSUME NEW i \in DOMAIN reply[g], reply[g][i].k \notin overlap[g]
          PROVE  reply[g][i].k \in Slots /\ reply[g][i].k # k
      <4>1. reply[g][i].k \in Stored(g)
        BY DEF Stored
      <4>. QED
        BY <1>0, <2>2, <3>3, <3>6, <4>1, StoredRounds, SlotOfRound DEF CopiesMet
    <3>7. Kept(g)'
      BY <1>0, <2>2, <3>1, <3>2, <3>6 DEF Kept
    <3>. QED
      BY <2>2, <3>5, <3>7
  <2>. QED
    BY <2>1, <2>2
<1>5. ASSUME NEW g \in Gen, NEW k \in Rounds,
             StartSendPg(g, k) \/ LoadLast(g, k) \/ SendReport(g, k)
      PROVE  CopiesMet(h)' /\ Kept(h)'
  <2>1. UNCHANGED <<P_G, hpc, hmsg, reply, overlap>>
    BY <1>5 DEF StartSendPg, LoadLast, SendReport, genVars, handlerVars
  <2>2. \A j \in Rounds : Copying(h, j)' => Copying(h, j)
    <3>1. rpc \in [Gen -> [Rounds -> SenderPc]]
      BY DEF TypeOK
    <3>2. CASE StartSendPg(g, k)
      BY <3>1, <3>2 DEF StartSendPg, Copying
    <3>3. CASE LoadLast(g, k)
      BY <3>1, <3>3 DEF LoadLast, Copying
    <3>4. CASE SendReport(g, k)
      BY <3>1, <3>4 DEF SendReport, Copying
    <3>. QED
      BY <1>5, <3>2, <3>3, <3>4
  <2>3. Stored(h)' = Stored(h)
    BY <2>1 DEF Stored
  <2>. QED
    BY <1>0, <2>1, <2>2, <2>3, KeptKept, StoredRounds
<1>6. ASSUME NEW g \in Gen,
             RecvOne(g) \/ RecvMerged(g) \/ CheckStale(g) \/ Ignore(g) \/ Mark(g)
               \/ ComputeGradF(g) \/ ComputeMu(g)
      PROVE  CopiesMet(h)' /\ Kept(h)'
  <2>1. UNCHANGED <<P_G, rpc, reply, overlap>>
    BY <1>6 DEF RecvOne, RecvMerged, CheckStale, Ignore, Mark, ComputeGradF, ComputeMu,
                genVars, senderVars
  <2>2. hpc'[h] \in {"mark", "grad", "send"}
          => hpc[h] \in {"mark", "grad", "send"} /\ hmsg'[h] = hmsg[h]
    <3>1. hpc \in [Gen -> HandlerPc] /\ hmsg \in [Gen -> Dispatch]
      BY DEF TypeOK
    <3>2. CASE RecvOne(g)
      BY <3>1, <3>2 DEF RecvOne
    <3>3. CASE RecvMerged(g)
      BY <3>3 DEF RecvMerged, handlerVars
    <3>4. CASE CheckStale(g) \/ Ignore(g)
      BY <3>1, <3>4 DEF CheckStale, Ignore
    <3>5. CASE Mark(g) \/ ComputeGradF(g)
      BY <3>1, <3>5 DEF Mark, ComputeGradF
    <3>6. CASE ComputeMu(g)
      BY <3>1, <3>6 DEF ComputeMu
    <3>. QED
      BY <1>6, <3>2, <3>3, <3>4, <3>5, <3>6
  <2>3. Stored(h)' \subseteq Stored(h)
    BY <2>1, <2>2 DEF Stored
  <2>4. \A j : Copying(h, j)' = Copying(h, j)
    BY <2>1 DEF Copying
  <2>. QED
    BY <1>0, <2>1, <2>3, <2>4, KeptKept
<1>7. ASSUME NEW g \in Gen, Operator(g) PROVE CopiesMet(h)' /\ Kept(h)'
  BY <1>7, KeptOfOthers
     DEF Operator, Deactivate, Activate, StartGradFDeception, StopGradFDeception,
         handlerVars, senderVars
<1>8. ASSUME NEW g \in Gen, IsoDispatches(g) PROVE CopiesMet(h)' /\ Kept(h)'
  BY <1>8, KeptOfOthers DEF IsoDispatches, genVars, handlerVars, senderVars
<1>9. CASE GridRequests
  BY <1>9, KeptOfOthers DEF GridRequests, genVars, handlerVars, senderVars
<1>10. CASE UNCHANGED vars
  BY <1>10, KeptOfOthers DEF vars, genVars, handlerVars, senderVars
<1>. QED
  BY <1>1, <1>2, <1>3, <1>4, <1>5, <1>6, <1>7, <1>8, <1>9, <1>10
     DEF Next, Handler, Sender

(* Nothing was stored yet.                                                 *)
LEMMA KeptInit == Init => KeptInv
<1> SUFFICES ASSUME Init, NEW g \in Gen PROVE CopiesMet(g) /\ Kept(g)
  BY DEF KeptInv
<1>1. hpc[g] = "recv" /\ reply[g] = << >>
  BY DEF Init
<1>2. DOMAIN reply[g] = {}
  BY <1>1
<1>3. Stored(g) = {}
  BY <1>1, <1>2 DEF Stored
<1>. QED
  BY <1>2, <1>3 DEF CopiesMet, Kept

(* In every state a thread that copies over a stored round met the store.  *)
LEMMA KeptInvariant == Spec => []KeptInv
BY KeptInit, KeptStep, TypeCorrect, OrderInvariant, LastInvariant, PTL DEF Spec

(* What the ISO is told for a round stays what the generator supplies in   *)
(* it (generator.py, isoPgRequestHandler and sendPg), unless the two       *)
(* threads wrote that round's power at once.                               *)
THEOREM RepliedPowerKept == Spec => []RepliedIsKept
<1>1. KeptInv => RepliedIsKept
  BY DEF KeptInv, Kept, RepliedIsKept
<1>. QED
  BY <1>1, KeptInvariant, PTL

-----------------------------------------------------------------------------
(* LimitsInv.                                                              *)

(* No step takes a round out of overlap.                                   *)
LEMMA OverlapGrows ==
  ASSUME TypeOK, [Next]_vars, NEW h \in Gen
  PROVE  overlap[h] \subseteq overlap'[h]
<1>1. ASSUME NEW g \in Gen, Handler(g) PROVE overlap[h] \subseteq overlap'[h]
  <2>1. CASE Store(g)
    BY <2>1 DEF Store, TypeOK
  <2>. QED
    BY <1>1, <2>1 DEF Handler, RecvOne, RecvMerged, CheckStale, Ignore, Mark,
                      ComputeGradF, SendGradF, ComputeMu
<1>2. ASSUME NEW g \in Gen, NEW k \in Rounds, Sender(g, k) PROVE overlap[h] \subseteq overlap'[h]
  <2>1. CASE TestRcvd(g, k)
    BY <2>1 DEF TestRcvd, TypeOK
  <2>. QED
    BY <1>2, <2>1 DEF Sender, StartSendPg, LoadLast, CopyLast, SendReport
<1>3. ASSUME NEW g \in Gen, Operator(g) PROVE overlap[h] \subseteq overlap'[h]
  BY <1>3 DEF Operator, Deactivate, Activate, StartGradFDeception, StopGradFDeception
<1>. QED
  BY <1>1, <1>2, <1>3 DEF Next, IsoDispatches, GridRequests, vars

(* What was told stays as it was, and the rounds met only grow.            *)
LEMMA ToldKept ==
  ASSUME TypeOK, SuppliedInLimits, [Next]_vars, UNCHANGED <<report, reply>>
  PROVE  SuppliedInLimits'
<1>1. \A h \in Gen : overlap[h] \subseteq overlap'[h]
  BY OverlapGrows
<1>2. \A r \in report : r.g \in Gen
  BY DEF TypeOK, Report
<1>. QED
  BY <1>1, <1>2 DEF SuppliedInLimits, Allowed, InLimits

(* The actions that store, hold and send no amount, and after which no     *)
(* other round is a stored one.                                            *)
LEMMA AmountsUntouched ==
  ASSUME TypeOK, LimitsInv, [Next]_vars, UNCHANGED <<P_G, rpg, report, reply>>,
         \A h \in Gen : Stored(h)' \subseteq Stored(h)
  PROVE  LimitsInv'
<1>1. SuppliedInLimits'
  BY ToldKept DEF LimitsInv
<1>2. \A h \in Gen : StoredInLimits(h)'
  BY OverlapGrows DEF LimitsInv, StoredInLimits, InLimits
<1>. QED
  BY <1>1, <1>2 DEF LimitsInv, Allowed, InLimits

(* The stored rounds follow from the replies and the handler.              *)
LEMMA StoredSame ==
  ASSUME NEW h \in Gen, reply'[h] = reply[h],
         hpc'[h] \in {"mark", "grad", "send"}
           => hpc[h] \in {"mark", "grad", "send"} /\ hmsg'[h] = hmsg[h]
  PROVE  Stored(h)' \subseteq Stored(h)
BY DEF Stored

(* No action stores, holds or sends an amount that is not allowed, and     *)
(* only a thread that met the store of a round writes over it.             *)
LEMMA LimitsStep == TypeOK /\ KeptInv /\ LimitsInv /\ [Next]_vars => LimitsInv'
<1> SUFFICES ASSUME TypeOK, KeptInv, LimitsInv, [Next]_vars PROVE LimitsInv'
  OBVIOUS
<1>0. /\ P_G \in [Gen -> [Slots -> Int]] /\ reply \in [Gen -> Seq(Reply)]
      /\ hpc \in [Gen -> HandlerPc] /\ hmsg \in [Gen -> Dispatch]
      /\ \A h \in Gen : overlap[h] \subseteq overlap'[h]
      /\ \A h \in Gen : Stored(h) \subseteq Slots
  BY OverlapGrows, StoredRounds, SlotOfRound DEF TypeOK
<1>1. ASSUME NEW g \in Gen, Store(g) PROVE LimitsInv'
  <2> DEFINE k == hmsg[g].k
             amount == Clamp(hmsg[g].pg)
  <2>1. k \in Slots /\ amount \in Int /\ InLimits(amount)
    BY SlotOfRound, ClampInLimits DEF TypeOK, Dispatch
  <2>2. /\ P_G' = [P_G EXCEPT ![g][k] = amount]
        /\ hpc'[g] = "mark" /\ \A h \in Gen : h # g => hpc'[h] = hpc[h]
        /\ UNCHANGED <<hmsg, rpg, report, reply>>
    BY <1>1, <1>0 DEF Store, senderVars
  <2>3. /\ P_G'[g][k] = amount
        /\ \A h \in Gen : \A j \in Slots :
             h # g \/ j # k => P_G'[h][j] = P_G[h][j]
    <3> HIDE DEF k, amount
    <3>. QED
      BY <1>0, <2>1, <2>2
  <2>4. \A h \in Gen : \A j \in Slots : Allowed(P_G'[h][j])
    BY <2>1, <2>3 DEF LimitsInv, Allowed
  <2>5. ASSUME NEW h \in Gen PROVE StoredInLimits(h)'
    <3>1. Stored(h)' \subseteq Stored(h) \cup (IF h = g THEN {k} ELSE {})
      BY <2>2 DEF Stored
    <3> HIDE DEF k, amount
    <3>. QED
      BY <1>0, <2>1, <2>3, <3>1 DEF LimitsInv, StoredInLimits, InLimits
  <2>6. SuppliedInLimits'
    BY <2>2, ToldKept DEF LimitsInv
  <2>. QED
    BY <2>2, <2>4, <2>5, <2>6 DEF LimitsInv, Allowed, InLimits
<1>2. ASSUME NEW g \in Gen, SendGradF(g) PROVE LimitsInv'
  <2>1. /\ hpc[g] = "send" /\ hpc'[g] = "mu" /\ hmsg[g].k \in Slots
        /\ \A h \in Gen : h # g => hpc'[h] = hpc[h]
        /\ UNCHANGED <<P_G, hmsg, rpg, report, overlap>>
    BY <1>2, <1>0, SlotOfRound DEF SendGradF, senderVars, Dispatch
  <2>2. PICK r \in Reply : /\ r.k = hmsg[g].k /\ r.pg = P_G[g][hmsg[g].k]
                          /\ reply' = [reply EXCEPT ![g] = Append(@, r)]
    BY <1>2, SentReply
  <2>3. hmsg[g].k \in Stored(g)
    BY <2>1 DEF Stored
  <2>4. Allowed(r.pg) /\ (r.k \notin overlap[g] => InLimits(r.pg))
    BY <2>1, <2>2, <2>3 DEF LimitsInv, StoredInLimits
  <2>5. \A h \in Gen : \A i \in DOMAIN reply'[h] :
          \/ h = g /\ reply'[h][i] = r
          \/ i \in DOMAIN reply[h] /\ reply'[h][i] = reply[h][i]
    BY <1>0, <2>2, Appended
  <2>6. SuppliedInLimits'
    BY <2>1, <2>4, <2>5 DEF LimitsInv, SuppliedInLimits, Allowed, InLimits
  <2>7. \A h \in Gen : Stored(h)' \subseteq Stored(h)
    BY <2>1, <2>2, <2>3, <2>5 DEF Stored
  <2>8. \A h \in Gen : StoredInLimits(h)'
    BY <2>1, <2>7 DEF LimitsInv, StoredInLimits, InLimits
  <2>. QED
    BY <2>1, <2>6, <2>8 DEF LimitsInv, Allowed, InLimits
<1>3. ASSUME NEW g \in Gen, NEW k \in Rounds, LoadLast(g, k) PROVE LimitsInv'
  <2>1. Slot(lastPgRcvdTs[g]) \in Slots
    BY SlotOfLast DEF TypeOK
  <2>2. \A h \in Gen : \A j \in Rounds : Allowed(rpg'[h][j])
    BY <1>3, <2>1 DEF LoadLast, TypeOK, LimitsInv
  <2>3. UNCHANGED <<P_G, hpc, hmsg, report, reply>>
    BY <1>3 DEF LoadLast, genVars, handlerVars
  <2>4. SuppliedInLimits'
    BY <2>3, ToldKept DEF LimitsInv
  <2>5. \A h \in Gen : StoredInLimits(h)'
    BY <1>0, <2>3, StoredSame DEF LimitsInv, StoredInLimits, InLimits
  <2>. QED
    BY <2>2, <2>3, <2>4, <2>5 DEF LimitsInv, Allowed, InLimits
<1>4. ASSUME NEW g \in Gen, NEW k \in Rounds, CopyLast(g, k) PROVE LimitsInv'
  <2>1. /\ P_G' = [P_G EXCEPT ![g][k] = rpg[g][k]] /\ k \in Slots
        /\ UNCHANGED <<hpc, hmsg, rpg, report, reply>>
    BY <1>4, SlotOfRound DEF CopyLast, handlerVars
  <2>2. \A h \in Gen : \A j \in Slots :
          P_G'[h][j] = IF h = g /\ j = k THEN rpg[g][k] ELSE P_G[h][j]
    BY <1>0, <2>1
  <2>3. k \in Stored(g) => k \in overlap[g]
    BY <1>4 DEF KeptInv, CopiesMet, Copying, CopyLast
  <2>4. ASSUME NEW h \in Gen PROVE StoredInLimits(h)'
    <3>1. Stored(h)' \subseteq Stored(h)
      BY <2>1, StoredSame
    <3>. QED
      BY <1>0, <2>2, <2>3, <3>1 DEF LimitsInv, StoredInLimits, InLimits
  <2>5. SuppliedInLimits'
    BY <2>1, ToldKept DEF LimitsInv
  <2>. QED
    BY <2>1, <2>2, <2>4, <2>5 DEF LimitsInv, Allowed, InLimits
<1>5. ASSUME NEW g \in Gen, NEW k \in Rounds, SendReport(g, k) PROVE LimitsInv'
  <2>1. /\ report' = report \cup
              {[g |-> g, k |-> k, pg |-> P_G[g][k], stored |-> k \in Stored(g)]}
        /\ UNCHANGED <<P_G, hpc, hmsg, rpg, reply, overlap>>
    BY <1>5 DEF SendReport, genVars, handlerVars
  <2>2. Allowed(P_G[g][k]) /\ (k \in Stored(g) /\ k \notin overlap[g] => InLimits(P_G[g][k]))
    BY SlotOfRound DEF LimitsInv, StoredInLimits
  <2>3. SuppliedInLimits'
    <3> DEFINE r == [g |-> g, k |-> k, pg |-> P_G[g][k], stored |-> k \in Stored(g)]
    <3>1. r.g = g /\ r.k = k /\ r.pg = P_G[g][k] /\ r.stored = (k \in Stored(g))
      OBVIOUS
    <3>2. report' = report \cup {r}
      BY <2>1
    <3> HIDE DEF r
    <3>3. Allowed(r.pg) /\ (r.stored /\ r.k \notin overlap[r.g] => InLimits(r.pg))
      BY <2>2, <3>1
    <3>4. \A q \in report' :
            Allowed(q.pg) /\ (q.stored /\ q.k \notin overlap[q.g] => InLimits(q.pg))
      BY <3>2, <3>3 DEF LimitsInv, SuppliedInLimits
    <3>. QED
      BY <2>1, <3>4 DEF LimitsInv, SuppliedInLimits, Allowed, InLimits
  <2>4. \A h \in Gen : StoredInLimits(h)'
    BY <2>1, StoredSame DEF LimitsInv, StoredInLimits, InLimits
  <2>. QED
    BY <2>1, <2>3, <2>4 DEF LimitsInv, Allowed, InLimits
<1>6. ASSUME NEW g \in Gen,
             RecvOne(g) \/ RecvMerged(g) \/ CheckStale(g) \/ Ignore(g) \/ Mark(g)
               \/ ComputeGradF(g) \/ ComputeMu(g) \/ IsoDispatches(g)
      PROVE  LimitsInv'
  <2>1. UNCHANGED <<P_G, rpg, report, reply>>
    BY <1>6 DEF RecvOne, RecvMerged, CheckStale, Ignore, Mark, ComputeGradF, ComputeMu,
                IsoDispatches, genVars, senderVars
  <2>2. ASSUME NEW h \in Gen
        PROVE  hpc'[h] \in {"mark", "grad", "send"}
                 => hpc[h] \in {"mark", "grad", "send"} /\ hmsg'[h] = hmsg[h]
    <3>1. CASE RecvOne(g)
      BY <1>0, <3>1 DEF RecvOne
    <3>2. CASE RecvMerged(g) \/ IsoDispatches(g)
      BY <3>2 DEF RecvMerged, IsoDispatches, handlerVars
    <3>3. CASE CheckStale(g) \/ Ignore(g)
      BY <1>0, <3>3 DEF CheckStale, Ignore
    <3>4. CASE Mark(g) \/ ComputeGradF(g)
      BY <1>0, <3>4 DEF Mark, ComputeGradF
    <3>5. CASE ComputeMu(g)
      BY <1>0, <3>5 DEF ComputeMu
    <3>. QED
      BY <1>6, <3>1, <3>2, <3>3, <3>4, <3>5
  <2>. QED
    BY <2>1, <2>2, StoredSame, AmountsUntouched
<1>7. ASSUME UNCHANGED <<P_G, rpg, report, reply, hpc, hmsg>> PROVE LimitsInv'
  BY <1>7, StoredSame, AmountsUntouched
<1>8. ASSUME NEW g \in Gen, NEW k \in Rounds, StartSendPg(g, k) \/ TestRcvd(g, k)
      PROVE  LimitsInv'
  BY <1>7, <1>8 DEF StartSendPg, TestRcvd, genVars, handlerVars
<1>9. ASSUME NEW g \in Gen, Operator(g) PROVE LimitsInv'
  BY <1>7, <1>9 DEF Operator, Deactivate, Activate, StartGradFDeception,
                    StopGradFDeception, senderVars, handlerVars
<1>10. CASE GridRequests
  BY <1>7, <1>10 DEF GridRequests, genVars, senderVars, handlerVars
<1>11. CASE UNCHANGED vars
  BY <1>7, <1>11 DEF vars, genVars, senderVars, handlerVars
<1>. QED
  BY <1>1, <1>2, <1>3, <1>4, <1>5, <1>6, <1>8, <1>9, <1>10, <1>11
     DEF Next, Handler, Sender

(* For a round whose dispatch it stored, a generator tells the ISO and the *)
(* grid an amount within its limits (generator.py, lines 103-106 and 160), *)
(* unless sendPg was copying into that round meanwhile; whatever its two   *)
(* threads interleave, the only other amount it tells is 0.                *)
THEOREM SupplyIsLimited == Spec => []SuppliedInLimits
<1>1. Init => LimitsInv
  <2> SUFFICES ASSUME Init PROVE LimitsInv
    OBVIOUS
  <2>1. ASSUME NEW g \in Gen PROVE DOMAIN reply[g] = {} /\ hpc[g] = "recv"
    <3>1. reply[g] = << >> /\ hpc[g] = "recv"
      BY DEF Init
    <3>. QED
      BY <3>1
  <2>2. \A g \in Gen : Stored(g) = {}
    BY <2>1 DEF Stored
  <2>. QED
    BY <2>1, <2>2, SlotOfRound DEF Init, LimitsInv, SuppliedInLimits, StoredInLimits, Allowed
<1>2. LimitsInv => SuppliedInLimits
  BY DEF LimitsInv
<1>. QED
  BY <1>1, <1>2, TypeCorrect, KeptInvariant, LimitsStep, PTL DEF Spec

-----------------------------------------------------------------------------
(* FitsInv.                                                                *)

(* Neither the replies nor the multipliers change.                         *)
LEMMA FitsSame ==
  ASSUME NEW h \in Gen, Fits(h), reply'[h] = reply[h], mu3'[h] = mu3[h], mu4'[h] = mu4[h],
         overlap[h] \subseteq overlap'[h]
  PROVE  Fits(h)'
BY DEF Fits, Gradient

(* Nothing the gradient is made from changes.                              *)
LEMMA FreshSame ==
  ASSUME NEW h \in Gen, Fresh(h), hpc'[h] = "send" => hpc[h] = "send",
         hmsg'[h] = hmsg[h], grad_f'[h] = grad_f[h], P_G'[h] = P_G[h],
         mu3'[h] = mu3[h], mu4'[h] = mu4[h], overlap[h] \subseteq overlap'[h]
  PROVE  Fresh(h)'
BY DEF Fresh, Gradient

(* A step of one generator leaves the others alone.                        *)
LEMMA FitsOfOthers ==
  ASSUME FitsInv, NEW h \in Gen, reply'[h] = reply[h], mu3'[h] = mu3[h], mu4'[h] = mu4[h],
         overlap[h] \subseteq overlap'[h], grad_f'[h] = grad_f[h], P_G'[h] = P_G[h],
         hpc'[h] = hpc[h], hmsg'[h] = hmsg[h]
  PROVE  Fresh(h)' /\ Fits(h)'
BY FitsSame, FreshSame DEF FitsInv

(* The multipliers of a round are final before its gradient is computed.   *)
LEMMA FitsStep ==
  TypeOK /\ OrderInv /\ KeptInv /\ FitsInv /\ [Next]_vars => FitsInv'
<1> SUFFICES ASSUME TypeOK, OrderInv, KeptInv, FitsInv, [Next]_vars, NEW h \in Gen
             PROVE  Fresh(h)' /\ Fits(h)'
  BY DEF FitsInv
<1>0. Fresh(h) /\ Fits(h)
  BY DEF FitsInv
<1>1. ASSUME NEW g \in Gen, ComputeGradF(g) PROVE Fresh(h)' /\ Fits(h)'
  <2>1. Fits(h)'
    BY <1>0, <1>1, FitsSame DEF ComputeGradF
  <2>2. CASE h # g
    BY <1>1, <2>2, FitsOfOthers DEF ComputeGradF, TypeOK
  <2>3. CASE h = g
    <3>1. /\ grad_f' = [grad_f EXCEPT ![g][hmsg[g].k] = Gradient(g, hmsg[g].k, P_G[g][hmsg[g].k])]
          /\ UNCHANGED <<hmsg, mu3, mu4, P_G>>
      BY <1>1 DEF ComputeGradF
    <3>2. grad_f \in [Gen -> [Slots -> Int]] /\ hmsg[g].k \in Slots
      BY SlotOfRound DEF TypeOK, Dispatch
    <3>3. grad_f'[g][hmsg[g].k] = Gradient(g, hmsg[g].k, P_G[g][hmsg[g].k])
      BY <3>1, <3>2
    <3>4. Fresh(g)'
      BY <3>1, <3>3 DEF Fresh, Gradient
    <3>. QED
      BY <2>1, <2>3, <3>4
  <2>. QED
    BY <2>2, <2>3
<1>2. ASSUME NEW g \in Gen, SendGradF(g) PROVE Fresh(h)' /\ Fits(h)'
  <2>1. PICK r \in Reply : /\ r.k = hmsg[g].k /\ r.pg = P_G[g][hmsg[g].k]
                          /\ r.grad = grad_f[g][hmsg[g].k] + r.lie
                          /\ reply' = [reply EXCEPT ![g] = Append(@, r)]
    BY <1>2, SentReply
  <2>2. CASE h # g
    BY <1>2, <2>1, <2>2, FitsOfOthers DEF SendGradF, TypeOK
  <2>3. CASE h = g
    <3>1. /\ hpc[g] = "send" /\ hpc'[g] = "mu"
          /\ UNCHANGED <<mu3, mu4, overlap>>
      BY <1>2 DEF SendGradF, TypeOK
    <3>2. reply[g] \in Seq(Reply) /\ reply'[g] = Append(reply[g], r)
      BY <2>1 DEF TypeOK
    <3>3. \A i \in DOMAIN reply'[g] :
            \/ i \in DOMAIN reply[g] /\ reply'[g][i] = reply[g][i]
            \/ reply'[g][i] = r
      BY <3>2
    <3>4. r.k \notin overlap[g] => r.grad = Gradient(g, r.k, r.pg) + r.lie
      BY <1>0, <2>1, <2>3, <3>1 DEF Fresh
    <3>5. Fits(g)'
      <4> SUFFICES ASSUME NEW i \in DOMAIN reply'[g], reply'[g][i].k \notin overlap[g]
                   PROVE  reply'[g][i].grad
                            = Gradient(g, reply'[g][i].k, reply'[g][i].pg) + reply'[g][i].lie
        BY <3>1 DEF Fits, Gradient
      <4>1. CASE reply'[g][i] = r
        BY <3>4, <4>1
      <4>2. CASE i \in DOMAIN reply[g] /\ reply'[g][i] = reply[g][i]
        BY <1>0, <2>3, <4>2 DEF Fits
      <4>. QED
        BY <3>3, <4>1, <4>2
    <3>6. Fresh(g)'
      BY <3>1 DEF Fresh
    <3>. QED
      BY <2>3, <3>5, <3>6
  <2>. QED
    BY <2>2, <2>3
<1>3. ASSUME NEW g \in Gen, ComputeMu(g) PROVE Fresh(h)' /\ Fits(h)'
  <2>1. CASE h # g
    BY <1>3, <2>1, FitsOfOthers DEF ComputeMu, TypeOK
  <2>2. CASE h = g
    <3>1. /\ hpc[g] = "mu" /\ hpc'[g] = "recv" /\ UNCHANGED <<reply, overlap>>
      BY <1>3 DEF ComputeMu, TypeOK
    <3>2. hmsg[g].k \in Int /\ \A i \in DOMAIN reply[g] : reply[g][i].k \in Slots
      <4>1. \A i \in DOMAIN reply[g] : reply[g][i].k \in Stored(g)
        BY DEF Stored
      <4>. QED
        BY <4>1, StoredRounds, RoundsAreInt, SlotOfRound
    <3>3. \A i \in DOMAIN reply[g] : reply[g][i].k # hmsg[g].k + 1
      BY <3>1, <3>2, RoundsAreInt DEF OrderInv, InOrder, RepliedBeforeHandled
    <3>4. \A j \in Slots : j # hmsg[g].k + 1 => mu3'[g][j] = mu3[g][j] /\ mu4'[g][j] = mu4[g][j]
      <4> DEFINE new3 == Larger(0, mu3[g][hmsg[g].k] + KMu * (PMin - P_G[g][hmsg[g].k]))
                 new4 == Larger(0, mu4[g][hmsg[g].k] + KMu * (P_G[g][hmsg[g].k] - PMax))
      <4>1. /\ mu3' = [mu3 EXCEPT ![g][hmsg[g].k + 1] = new3]
            /\ mu4' = [mu4 EXCEPT ![g][hmsg[g].k + 1] = new4]
        BY <1>3 DEF ComputeMu
      <4>2. mu3 \in [Gen -> [Slots -> Int]] /\ mu4 \in [Gen -> [Slots -> Int]]
        BY DEF TypeOK
      <4> HIDE DEF new3, new4
      <4>. QED
        BY <4>1, <4>2
    <3>5. \A i \in DOMAIN reply[g] :
            Gradient(g, reply[g][i].k, reply[g][i].pg)' = Gradient(g, reply[g][i].k, reply[g][i].pg)
      BY <3>1, <3>2, <3>3, <3>4 DEF Gradient
    <3>6. Fits(g)'
      <4> SUFFICES ASSUME NEW i \in DOMAIN reply[g], reply[g][i].k \notin overlap[g]
                   PROVE  reply[g][i].grad
                            = Gradient(g, reply[g][i].k, reply[g][i].pg)' + reply[g][i].lie
        BY <3>1 DEF Fits, Gradient
      <4>. QED
        BY <1>0, <2>2, <3>5 DEF Fits
    <3>7. Fresh(g)'
      BY <3>1 DEF Fresh
    <3>. QED
      BY <2>2, <3>6, <3>7
  <2>. QED
    BY <2>1, <2>2
<1>4. ASSUME NEW g \in Gen, NEW k \in Rounds, CopyLast(g, k) PROVE Fresh(h)' /\ Fits(h)'
  <2>1. Fits(h)'
    BY <1>0, <1>4, FitsSame DEF CopyLast
  <2>2. CASE h # g
    BY <1>4, <2>2, FitsOfOthers DEF CopyLast, TypeOK, handlerVars
  <2>3. CASE h = g
    <3>1. UNCHANGED <<hpc, hmsg, grad_f, mu3, mu4, overlap>>
      BY <1>4 DEF CopyLast, handlerVars
    <3>2. \A j \in Slots \ {k} : P_G'[g][j] = P_G[g][j]
      BY <1>4 DEF CopyLast, TypeOK
    <3>3. Copying(g, k)
      BY <1>4 DEF CopyLast, Copying
    <3>4. hpc[g] = "send" /\ hmsg[g].k = k => k \in overlap[g]
      BY <3>3 DEF KeptInv, CopiesMet, Stored
    <3>5. hmsg[g].k \in Slots
      BY SlotOfRound DEF TypeOK, Dispatch
    <3>6. Fresh(g)'
      <4>1. CASE hmsg[g].k = k
        BY <3>1, <3>4, <4>1 DEF Fresh
      <4>2. CASE hmsg[g].k # k
        <5>1. P_G'[g][hmsg[g].k] = P_G[g][hmsg[g].k]
          BY <3>2, <3>5, <4>2
        <5>. QED
          BY <1>0, <2>3, <3>1, <5>1 DEF Fresh, Gradient
      <4>. QED
        BY <4>1, <4>2
    <3>. QED
      BY <2>1, <2>3, <3>6
  <2>. QED
    BY <2>2, <2>3
<1>5. ASSUME NEW g \in Gen, Store(g) PROVE Fresh(h)' /\ Fits(h)'
  <2>1. overlap[h] \subseteq overlap'[h]
    BY <1>5 DEF Store, TypeOK
  <2>2. CASE h # g
    BY <1>5, <2>1, <2>2, FitsOfOthers DEF Store, TypeOK
  <2>3. CASE h = g
    <3>1. hpc'[h] # "send" /\ UNCHANGED <<reply, mu3, mu4>>
      BY <1>5, <2>3 DEF Store, TypeOK
    <3>2. Fits(h)'
      BY <1>0, <2>1, <3>1, FitsSame
    <3>. QED
      BY <3>1, <3>2 DEF Fresh
  <2>. QED
    BY <2>2, <2>3
<1>6. ASSUME NEW g \in Gen,
             RecvOne(g) \/ RecvMerged(g) \/ CheckStale(g) \/ Ignore(g) \/ Mark(g)
      PROVE  Fresh(h)' /\ Fits(h)'
  <2>1. UNCHANGED <<reply, mu3, mu4, overlap, grad_f, P_G>>
    BY <1>6 DEF RecvOne, RecvMerged, CheckStale, Ignore, Mark, genVars
  <2>2. hpc'[h] = "send" => hpc[h] = "send" /\ hmsg'[h] = hmsg[h]
    <3>1. hpc \in [Gen -> HandlerPc] /\ hmsg \in [Gen -> Dispatch]
      BY DEF TypeOK
    <3>2. CASE RecvOne(g)
      BY <3>1, <3>2 DEF RecvOne
    <3>3. CASE RecvMerged(g)
      BY <3>3 DEF RecvMerged, handlerVars
    <3>4. CASE CheckStale(g) \/ Ignore(g) \/ Mark(g)
      BY <3>1, <3>4 DEF CheckStale, Ignore, Mark
    <3>. QED
      BY <1>6, <3>2, <3>3, <3>4
  <2>3. Fits(h)'
    BY <1>0, <2>1, FitsSame
  <2>. QED
    BY <1>0, <2>1, <2>2, <2>3, FreshSame DEF Fresh
<1>7. ASSUME NEW g \in Gen, NEW k \in Rounds, TestRcvd(g, k) PROVE Fresh(h)' /\ Fits(h)'
  <2>1. overlap[h] \subseteq overlap'[h]
    BY <1>7 DEF TestRcvd, TypeOK
  <2>. QED
    BY <1>7, <2>1, FitsOfOthers DEF TestRcvd, genVars, handlerVars
<1>8. ASSUME NEW g \in Gen, NEW k \in Rounds,
             StartSendPg(g, k) \/ LoadLast(g, k) \/ SendReport(g, k)
      PROVE  Fresh(h)' /\ Fits(h)'
  BY <1>8, FitsOfOthers DEF StartSendPg, LoadLast, SendReport, genVars, handlerVars
<1>9. ASSUME NEW g \in Gen, Operator(g) PROVE Fresh(h)' /\ Fits(h)'
  BY <1>9, FitsOfOthers
     DEF Operator, Deactivate, Activate, StartGradFDeception, StopGradFDeception, handlerVars
<1>10. ASSUME NEW g \in Gen, IsoDispatches(g) PROVE Fresh(h)' /\ Fits(h)'
  BY <1>10, FitsOfOthers DEF IsoDispatches, genVars, handlerVars
<1>11. CASE GridRequests
  BY <1>11, FitsOfOthers DEF GridRequests, genVars, handlerVars
<1>12. CASE UNCHANGED vars
  BY <1>12, FitsOfOthers DEF vars, genVars, handlerVars
<1>. QED
  BY <1>1, <1>2, <1>3, <1>4, <1>5, <1>6, <1>7, <1>8, <1>9, <1>10, <1>11, <1>12
     DEF Next, Handler, Sender

(* The gradient of a reply is that of the power it came with, distorted by *)
(* an attack at most (generator.py, computeGradF and isoPgRequestHandler), *)
(* unless the two threads wrote that round's power at once.                *)
THEOREM GradientBelongs == Spec => []GradientFitsPower
<1>1. Init => FitsInv
  <2> SUFFICES ASSUME Init, NEW g \in Gen PROVE Fresh(g) /\ Fits(g)
    BY DEF FitsInv
  <2>1. hpc[g] = "recv" /\ reply[g] = << >>
    BY DEF Init
  <2>. QED
    BY <2>1 DEF Fresh, Fits
<1>2. FitsInv => GradientFitsPower
  BY DEF FitsInv, Fits, GradientFitsPower
<1>. QED
  BY <1>1, <1>2, FitsStep, TypeCorrect, OrderInvariant, KeptInvariant, PTL DEF Spec

=============================================================================

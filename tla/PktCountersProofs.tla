-------------------------- MODULE PktCountersProofs --------------------------
(***************************************************************************)
(* Proofs about module PktCounters, for any number of interfaces, counters *)
(* and packets.                                                            *)
(***************************************************************************)
EXTENDS PktCounters, FiniteSetTheorems, WellFoundedInduction, TLAPS

(* The agent and the kernel know the same counters, and no two have one    *)
(* name; the handles given are below the next.                             *)
CountersOK ==
  /\ handlecounter \in Nat
  /\ \A h \in DOMAIN mark2type : h \in Nat /\ h < handlecounter
  /\ \A h, i \in DOMAIN mark2type : mark2type[h] = mark2type[i] => h = i
  /\ DOMAIN rules = DOMAIN mark2type
  /\ \A h \in DOMAIN rules : rules[h] \in [flow : Flow, pkts : Nat]

(* The counter of a flow counts that flow.                                 *)
DefaultsCount == \A h \in DOMAIN mark2type : mark2type[h] \in Flow => rules[h].flow = mark2type[h]

(* What periodic holds is of the period that runs: of all the counters, as *)
(* long as it has not deleted them.                                        *)
HeldOK ==
  /\ step \notin {"loaded", "reset"} => DOMAIN data = {}
  /\ step = "loaded" => DOMAIN data = Names

AmountsOK ==
  /\ passed \in [Flow -> Nat] /\ missed \in [Flow -> Nat]
  /\ \A f \in Flow : collection[f] \in Nat
  /\ \A f \in Flow \cap DOMAIN data : data[f] \in Nat

CountInv == CountersOK /\ DefaultsCount /\ HeldOK /\ AmountsOK /\ CountedOnce

(* While the default counters are set again, each is there or is to come.  *)
ResetInv ==
  step = "reset" => /\ todo \in Seq(Flow)
                    /\ Names \cup {todo[i] : i \in DOMAIN todo} = Flow

-----------------------------------------------------------------------------
(* Counters.                                                               *)

(* A name leads to the one counter that has it.                            *)
LEMMA HandleOfName ==
  ASSUME NEW m, NEW h \in DOMAIN m, \A i, j \in DOMAIN m : m[i] = m[j] => i = j
  PROVE  (CHOOSE i \in DOMAIN m : m[i] = m[h]) = h
OBVIOUS

LEMMA CountedAt ==
  ASSUME CountersOK, NEW h \in DOMAIN mark2type
  PROVE  /\ mark2type[h] \in Names /\ Handle(mark2type[h]) = h
         /\ Counted(mark2type[h]) = rules[h].pkts /\ Counted(mark2type[h]) \in Nat
<1>1. mark2type[h] \in Names
  BY DEF Names
<1>2. Handle(mark2type[h]) = h
  BY HandleOfName DEF Handle, CountersOK
<1>. QED
  BY <1>1, <1>2 DEF Counted, CountersOK

LEMMA CountedAtNext ==
  ASSUME CountersOK', NEW h \in DOMAIN mark2type', NEW n, mark2type'[h] = n
  PROVE  n \in Names' /\ Counted(n)' = rules'[h].pkts
<1>1. n \in Names'
  BY DEF Names
<1>2. (CHOOSE i \in DOMAIN mark2type' : mark2type'[i] = n) = h
  BY HandleOfName DEF CountersOK
<1>. QED
  BY <1>1, <1>2 DEF Counted, Handle

LEMMA CountedIsNat == ASSUME CountersOK, NEW n PROVE Counted(n) \in Nat
<1>1. CASE n \in Names
  <2>1. PICK h \in DOMAIN mark2type : mark2type[h] = n
    BY <1>1 DEF Names
  <2>. QED
    BY <2>1, CountedAt
<1>2. CASE n \notin Names
  BY <1>2 DEF Counted
<1>. QED
  BY <1>1, <1>2

LEMMA CountedIsNatNext == ASSUME CountersOK', NEW n PROVE Counted(n)' \in Nat
<1>1. CASE n \in Names'
  <2>1. PICK h \in DOMAIN mark2type' : mark2type'[h] = n
    BY <1>1 DEF Names
  <2>. QED
    BY <2>1, CountedAtNext DEF CountersOK
<1>2. CASE n \notin Names'
  BY <1>2 DEF Counted
<1>. QED
  BY <1>1, <1>2

(* Counters of the same names, whose rules counted the same, count the     *)
(* same.                                                                   *)
LEMMA CountedKept ==
  ASSUME CountersOK, CountersOK', NEW n,
         n \in Names' => n \in Names,
         \A h \in DOMAIN mark2type : mark2type[h] = n =>
            h \in DOMAIN mark2type' /\ mark2type'[h] = n /\ rules'[h].pkts = rules[h].pkts
  PROVE  Counted(n)' = Counted(n)
<1>1. CASE n \in Names
  <2>1. PICK h \in DOMAIN mark2type : mark2type[h] = n
    BY <1>1 DEF Names
  <2>. QED
    BY <2>1, CountedAt, CountedAtNext
<1>2. CASE n \notin Names
  BY <1>2 DEF Counted
<1>. QED
  BY <1>1, <1>2

(* addDataCounter, of a default counter for its flow, changes no count.    *)
LEMMA AddCounts ==
  ASSUME CountersOK, DefaultsCount, NEW name, NEW flow \in Flow, name \in Flow => flow = name,
         addDataCounter(name, flow)
  PROVE  /\ CountersOK' /\ DefaultsCount'
         /\ Names' = Names \cup {name}
         /\ \A n : Counted(n)' = Counted(n)
<1>1. CASE name \in Names
  <2>1. UNCHANGED counters
    BY <1>1 DEF addDataCounter
  <2>. QED
    BY <1>1, <2>1 DEF counters, CountersOK, DefaultsCount, Names, Counted, Handle
<1>2. CASE name \notin Names
  <2>1. /\ mark2type' = With(mark2type, handlecounter, name)
        /\ rules' = With(rules, handlecounter, [flow |-> flow, pkts |-> 0])
        /\ handlecounter' = handlecounter + 1
    BY <1>2 DEF addDataCounter
  <2>2. handlecounter \notin DOMAIN mark2type
    BY DEF CountersOK
  <2>3. /\ DOMAIN mark2type' = DOMAIN mark2type \cup {handlecounter}
        /\ mark2type'[handlecounter] = name
        /\ \A h \in DOMAIN mark2type : mark2type'[h] = mark2type[h]
    BY <2>1, <2>2 DEF With
  <2>4. /\ DOMAIN rules' = DOMAIN mark2type'
        /\ rules'[handlecounter] = [flow |-> flow, pkts |-> 0]
        /\ \A h \in DOMAIN mark2type : rules'[h] = rules[h]
    BY <2>1, <2>2, <2>3 DEF With, CountersOK
  <2>5. \A h \in DOMAIN mark2type : mark2type[h] # name
    BY <1>2 DEF Names
  <2>6. CountersOK'
    <3>1. \A h, i \in DOMAIN mark2type' : mark2type'[h] = mark2type'[i] => h = i
      BY <2>3, <2>5 DEF CountersOK
    <3>2. \A h \in DOMAIN rules' : rules'[h] \in [flow : Flow, pkts : Nat]
      BY <2>3, <2>4 DEF CountersOK
    <3>3. \A h \in DOMAIN mark2type' : h \in Nat /\ h < handlecounter'
      BY <2>1, <2>3 DEF CountersOK
    <3>. QED
      BY <2>1, <2>4, <3>1, <3>2, <3>3 DEF CountersOK
  <2>7. DefaultsCount'
    BY <2>3, <2>4 DEF DefaultsCount
  <2>8. Names' = Names \cup {name}
    BY <2>3 DEF Names
  <2>9. ASSUME NEW n PROVE Counted(n)' = Counted(n)
    <3>1. CASE n = name
      <4>1. Counted(n) = 0
        BY <1>2, <3>1 DEF Counted
      <4>2. Counted(n)' = 0
        BY <2>3, <2>4, <2>6, <3>1, CountedAtNext
      <4>. QED
        BY <4>1, <4>2
    <3>2. CASE n # name
      BY <2>3, <2>4, <2>6, <2>8, <3>2, CountedKept
    <3>. QED
      BY <3>1, <3>2
  <2>. QED
    BY <2>6, <2>7, <2>8, <2>9
<1>. QED
  BY <1>1, <1>2

(* delDataCounter, and removing several counters, leaves the counts of the *)
(* others.                                                                 *)
LEMMA KeepCounts ==
  ASSUME CountersOK, DefaultsCount, NEW kept \in SUBSET DOMAIN mark2type,
         DOMAIN mark2type' = kept, DOMAIN rules' = kept, handlecounter' = handlecounter,
         \A h \in kept : mark2type'[h] = mark2type[h] /\ rules'[h] = rules[h]
  PROVE  /\ CountersOK' /\ DefaultsCount'
         /\ \A n : (\E h \in kept : mark2type[h] = n) => Counted(n)' = Counted(n)
         /\ \A n : (\A h \in kept : mark2type[h] # n) => Counted(n)' = 0
<1>1. CountersOK' /\ DefaultsCount'
  BY DEF CountersOK, DefaultsCount
<1>2. ASSUME NEW n, NEW h \in kept, mark2type[h] = n PROVE Counted(n)' = Counted(n)
  BY <1>1, <1>2, CountedAt, CountedAtNext
<1>3. ASSUME NEW n, \A h \in kept : mark2type[h] # n PROVE Counted(n)' = 0
  BY <1>3 DEF Counted, Names
<1>. QED
  BY <1>1, <1>2, <1>3

-----------------------------------------------------------------------------
(* Every packet is counted once.                                           *)

LEMMA FlowsAreNames == Flow \subseteq Name /\ Flow \subseteq Record
BY DEF Name, Record

(* The sum of what is where a packet of a flow may be, but the records.    *)
Held(f) == IF f \in DOMAIN data THEN data[f] ELSE 0
InKernel(f) == IF step = "loaded" /\ f \in DOMAIN data THEN 0 ELSE Counted(f)

LEMMA Amounts ==
  ASSUME CountInv, NEW f \in Flow
  PROVE  /\ passed[f] \in Nat /\ missed[f] \in Nat /\ collection[f] \in Nat
         /\ Held(f) \in Nat /\ Counted(f) \in Nat /\ InKernel(f) \in Nat
         /\ passed[f] = collection[f] + missed[f] + Held(f) + InKernel(f)
<1>1. Counted(f) \in Nat
  BY CountedIsNat DEF CountInv
<1>. QED
  BY <1>1 DEF CountInv, AmountsOK, CountedOnce, Held, InKernel

LEMMA InitCount == Init => CountInv
<1> SUFFICES ASSUME Init PROVE CountInv
  OBVIOUS
<1> USE DEF Init
<1>1. CountersOK /\ DefaultsCount
  BY DEF CountersOK, DefaultsCount
<1>2. Names = {} /\ HeldOK
  BY DEF HeldOK, Names
<1>3. \A f \in Flow : collection[f] = 0
  BY FlowsAreNames
<1>. QED
  BY <1>1, <1>2, <1>3 DEF CountInv, AmountsOK, CountedOnce, Counted

(* A method that moves counts of the kernel, at most, to those missed.     *)
LEMMA MethodCounts ==
  ASSUME CountInv, CountersOK', DefaultsCount', data' = data, passed' = passed,
         step # "loaded", step' # "loaded", step = "reset" => step' = "reset",
         \A f \in Flow : collection'[f] \in Nat,
         missed' \in [Flow -> Nat],
         \A f \in Flow : Counted(f)' + missed'[f] + collection'[f]
                         = Counted(f) + missed[f] + collection[f]
  PROVE  CountInv'
<1>1. HeldOK' /\ AmountsOK'
  BY DEF CountInv, HeldOK, AmountsOK
<1>2. ASSUME NEW f \in Flow
      PROVE  passed'[f] = collection'[f] + missed'[f] + Held(f)' + InKernel(f)'
  <2>1. Held(f)' = Held(f) /\ InKernel(f)' = Counted(f)' /\ InKernel(f) = Counted(f)
    BY DEF Held, InKernel
  <2>2. Counted(f)' \in Nat
    BY CountedIsNatNext
  <2>. QED
    BY <2>1, <2>2, Amounts
<1>. QED
  BY <1>1, <1>2 DEF CountInv, CountedOnce, Held, InKernel

(* What stays where it is.                                                 *)
LEMMA CountersStay ==
  ASSUME UNCHANGED counters
  PROVE  /\ CountersOK => CountersOK'
         /\ DefaultsCount => DefaultsCount'
         /\ Names' = Names /\ \A n : Counted(n)' = Counted(n)
BY DEF counters, CountersOK, DefaultsCount, Names, Counted, Handle

LEMMA ClearCounts ==
  ASSUME CountersOK, Clear
  PROVE  CountersOK' /\ DefaultsCount' /\ Names' = {} /\ \A n : Counted(n)' = 0
<1>1. DOMAIN mark2type' = {} /\ DOMAIN rules' = {} /\ handlecounter' = handlecounter
  BY DEF Clear
<1>2. Names' = {}
  BY <1>1 DEF Names
<1>. QED
  BY <1>1, <1>2 DEF CountersOK, DefaultsCount, Counted

(* The calls of the experimenter.                                          *)
LEMMA CallsCount ==
  ASSUME CountInv,
         StartCollection \/ SetDefaults \/ StopCollection \/ ClearCounters \/ RemoveDefaults
         \/ \E name \in Name : RemoveCounter(name) \/ \E flow \in Flow : AddCounter(name, flow)
  PROVE  CountInv'
<1> USE DEF Call
<1>0. CountersOK /\ DefaultsCount /\ AmountsOK
  BY DEF CountInv
<1>1. CASE StartCollection \/ SetDefaults \/ StopCollection
  <2>1. /\ UNCHANGED counters
        /\ step = "idle" /\ step' \in {"idle", "start", "set"}
        /\ data' = data /\ passed' = passed /\ collection' = collection /\ missed' = missed
    BY <1>1 DEF StartCollection, SetDefaults, StopCollection
  <2>. QED
    BY <1>0, <2>1, CountersStay, MethodCounts DEF AmountsOK
<1>2. ASSUME NEW name \in Name, NEW flow \in Flow, AddCounter(name, flow) PROVE CountInv'
  <2>1. CountersOK' /\ DefaultsCount' /\ \A n : Counted(n)' = Counted(n)
    BY <1>0, <1>2, AddCounts DEF AddCounter
  <2>2. /\ step = "idle" /\ step' = "idle"
        /\ data' = data /\ passed' = passed /\ collection' = collection /\ missed' = missed
    BY <1>2 DEF AddCounter
  <2>. QED
    BY <1>0, <2>1, <2>2, MethodCounts DEF AmountsOK
<1>3. ASSUME NEW names, Drop(names),
             CountersOK' /\ DefaultsCount',
             \A f \in Flow : Counted(f)' = IF f \in names THEN 0 ELSE Counted(f),
             step = "idle", step' = "idle",
             data' = data, passed' = passed, collection' = collection
      PROVE  CountInv'
  <2>1. ASSUME NEW f \in Flow
        PROVE  missed'[f] = (missed[f] + IF f \in names THEN Counted(f) ELSE 0)
    BY <1>3 DEF Drop
  <2>2. \A f \in Flow : Counted(f) \in Nat /\ missed[f] \in Nat
    BY Amounts
  <2>3. missed' \in [Flow -> Nat]
    BY <1>3, <2>2 DEF Drop
  <2>4. ASSUME NEW f \in Flow
        PROVE  Counted(f)' + missed'[f] + collection'[f] = Counted(f) + missed[f] + collection[f]
    BY <1>0, <1>3, <2>1, <2>2 DEF AmountsOK
  <2>. QED
    BY <1>0, <1>3, <2>3, <2>4, MethodCounts DEF AmountsOK
<1>4. ASSUME NEW name \in Name, RemoveCounter(name) PROVE CountInv'
  <2> DEFINE kept == {h \in DOMAIN mark2type : mark2type[h] # name}
  <2>1. /\ DOMAIN mark2type' = kept /\ DOMAIN rules' = kept /\ handlecounter' = handlecounter
        /\ \A h \in kept : mark2type'[h] = mark2type[h] /\ rules'[h] = rules[h]
    <3>1. CASE name \in Names
      <4>1. PICK h \in DOMAIN mark2type : mark2type[h] = name
        BY <3>1 DEF Names
      <4>2. Handle(name) = h
        BY <1>0, <4>1, CountedAt
      <4>3. kept = DOMAIN mark2type \ {h} /\ DOMAIN rules = DOMAIN mark2type
        BY <1>0, <4>1 DEF CountersOK
      <4>4. /\ rules' = Without(rules, h) /\ mark2type' = Without(mark2type, h)
            /\ handlecounter' = handlecounter
        BY <1>4, <3>1, <4>2 DEF RemoveCounter, delDataCounter
      <4>. QED
        BY <4>3, <4>4 DEF Without
    <3>2. CASE name \notin Names
      <4>1. kept = DOMAIN mark2type /\ UNCHANGED <<mark2type, rules, handlecounter>>
        BY <1>4, <3>2 DEF RemoveCounter, delDataCounter, Names
      <4>. QED
        BY <1>0, <4>1 DEF CountersOK
    <3>. QED
      BY <3>1, <3>2
  <2>2. CountersOK' /\ DefaultsCount'
    BY <1>0, <2>1, KeepCounts
  <2>3. ASSUME NEW f \in Flow PROVE Counted(f)' = IF f \in {name} THEN 0 ELSE Counted(f)
    <3>1. CASE f = name
      BY <1>0, <2>1, <3>1, KeepCounts
    <3>2. CASE f # name /\ f \in Names
      <4>1. \E h \in kept : mark2type[h] = f
        BY <3>2 DEF Names
      <4>. QED
        BY <1>0, <2>1, <3>2, <4>1, KeepCounts
    <3>3. CASE f # name /\ f \notin Names
      <4>1. \A h \in kept : mark2type[h] # f
        BY <3>3 DEF Names
      <4>2. Counted(f) = 0
        BY <3>3 DEF Counted
      <4>. QED
        BY <1>0, <2>1, <3>3, <4>1, <4>2, KeepCounts
    <3>. QED
      BY <3>1, <3>2, <3>3
  <2>4. /\ step = "idle" /\ step' = "idle" /\ Drop({name})
        /\ data' = data /\ passed' = passed /\ collection' = collection
    BY <1>4 DEF RemoveCounter
  <2>. QED
    BY <1>3, <2>2, <2>3, <2>4
<1>5. CASE ClearCounters
  <2>1. CountersOK' /\ DefaultsCount' /\ \A n : Counted(n)' = 0
    BY <1>0, <1>5, ClearCounts DEF ClearCounters
  <2>2. /\ step = "idle" /\ step' = "idle" /\ Drop(Flow)
        /\ data' = data /\ passed' = passed /\ collection' = collection
    BY <1>5 DEF ClearCounters
  <2>. QED
    BY <1>3, <2>1, <2>2
<1>6. CASE RemoveDefaults
  <2> DEFINE kept == {h \in DOMAIN mark2type : mark2type[h] \notin IpName}
  <2>1. /\ DOMAIN mark2type' = kept /\ DOMAIN rules' = kept /\ handlecounter' = handlecounter
        /\ \A h \in kept : mark2type'[h] = mark2type[h] /\ rules'[h] = rules[h]
    BY <1>6 DEF RemoveDefaults
  <2>2. CountersOK' /\ DefaultsCount'
    BY <1>0, <2>1, KeepCounts
  <2>3. Flow \cap IpName = {}
    BY CountersAssumption DEF Flow, IpName
  <2>4. ASSUME NEW f \in Flow PROVE Counted(f)' = Counted(f)
    <3>1. CASE f \in Names
      <4>1. \E h \in kept : mark2type[h] = f
        BY <2>3, <3>1 DEF Names
      <4>. QED
        BY <1>0, <2>1, <4>1, KeepCounts
    <3>2. CASE f \notin Names
      <4>1. \A h \in kept : mark2type[h] # f
        BY <3>2 DEF Names
      <4>2. Counted(f) = 0
        BY <3>2 DEF Counted
      <4>. QED
        BY <1>0, <2>1, <4>1, <4>2, KeepCounts
    <3>. QED
      BY <3>1, <3>2
  <2>5. /\ step = "idle" /\ step' = "idle" /\ missed' = missed
        /\ data' = data /\ passed' = passed /\ collection' = collection
    BY <1>6 DEF RemoveDefaults
  <2>. QED
    BY <1>0, <2>2, <2>4, <2>5, MethodCounts DEF AmountsOK
<1>. QED
  BY <1>1, <1>2, <1>4, <1>5, <1>6

(* A packet that passes is counted by the counter of its flow, or missed.  *)
LEMMA PacketCounts == ASSUME CountInv, NEW g \in Flow, Packet(g) PROVE CountInv'
<1>0. CountersOK /\ DefaultsCount /\ AmountsOK /\ HeldOK
  BY DEF CountInv
<1>1. /\ mark2type' = mark2type /\ handlecounter' = handlecounter
      /\ step' = step /\ data' = data /\ collection' = collection
      /\ passed' = [passed EXCEPT ![g] = @ + 1]
      /\ DOMAIN rules' = DOMAIN rules
      /\ \A h \in DOMAIN rules :
           rules'[h] = IF rules[h].flow = g THEN [rules[h] EXCEPT !.pkts = @ + 1] ELSE rules[h]
  BY DEF Packet
<1>2. Names' = Names
  BY <1>1 DEF Names
<1>3. \A h \in DOMAIN rules : /\ rules'[h] \in [flow : Flow, pkts : Nat]
                              /\ rules'[h].flow = rules[h].flow
                              /\ rules'[h].pkts = rules[h].pkts + IF rules[h].flow = g THEN 1 ELSE 0
  BY <1>0, <1>1 DEF CountersOK
<1>4. CountersOK' /\ DefaultsCount'
  <2>1. DefaultsCount'
    BY <1>0, <1>1, <1>3 DEF CountersOK, DefaultsCount
  <2>. QED
    BY <1>0, <1>1, <1>3, <2>1 DEF CountersOK
<1>5. ASSUME NEW f \in Flow
      PROVE  Counted(f)' = Counted(f) + IF f = g /\ f \in Names THEN 1 ELSE 0
  <2>1. CASE f \in Names
    <3>1. PICK h \in DOMAIN mark2type : mark2type[h] = f
      BY <2>1 DEF Names
    <3>2. rules[h].flow = f /\ h \in DOMAIN rules
      BY <1>0, <3>1 DEF DefaultsCount, CountersOK
    <3>3. Counted(f) = rules[h].pkts /\ Counted(f)' = rules'[h].pkts
      BY <1>0, <1>1, <1>4, <3>1, CountedAt, CountedAtNext
    <3>. QED
      BY <1>3, <2>1, <3>2, <3>3
  <2>2. CASE f \notin Names
    BY <1>2, <2>2 DEF Counted
  <2>. QED
    BY <2>1, <2>2
<1>6. /\ missed' \in [Flow -> Nat]
      /\ \A f \in Flow : missed'[f] = missed[f] +
           IF f = g /\ (f \notin Names \/ step = "loaded") THEN 1 ELSE 0
  BY <1>0 DEF Packet, AmountsOK
<1>7. passed' \in [Flow -> Nat] /\ \A f \in Flow : passed'[f] = passed[f] + IF f = g THEN 1 ELSE 0
  BY <1>0, <1>1 DEF AmountsOK
<1>8. AmountsOK' /\ HeldOK'
  BY <1>0, <1>1, <1>2, <1>6, <1>7 DEF AmountsOK, HeldOK
<1>9. ASSUME NEW f \in Flow
      PROVE  passed'[f] = collection'[f] + missed'[f] + Held(f)' + InKernel(f)'
  <2>1. Held(f)' = Held(f)
    BY <1>1 DEF Held
  <2>2. CASE f \in Names
    <3>1. step = "loaded" => f \in DOMAIN data
      BY <1>0, <2>2 DEF HeldOK
    <3>2. InKernel(f)' = InKernel(f) + IF f = g /\ step # "loaded" THEN 1 ELSE 0
      BY <1>1, <1>5, <2>2, <3>1, Amounts DEF InKernel
    <3>3. passed'[f] = passed[f] + IF f = g THEN 1 ELSE 0
      BY <1>7
    <3>4. missed'[f] = missed[f] + IF f = g /\ step = "loaded" THEN 1 ELSE 0
      BY <1>6, <2>2
    <3>5. collection'[f] = collection[f]
      BY <1>1
    <3>. QED
      BY <2>1, <3>2, <3>3, <3>4, <3>5, Amounts
  <2>3. CASE f \notin Names
    <3>1. InKernel(f)' = InKernel(f)
      BY <1>1, <1>5, <2>3, Amounts DEF InKernel
    <3>. QED
      BY <1>1, <1>6, <1>7, <2>1, <2>3, <3>1, Amounts
  <2>. QED
    BY <2>2, <2>3
<1>. QED
  BY <1>4, <1>8, <1>9 DEF CountInv, CountedOnce, Held, InKernel

(* The counters that the methods add, and the old records that go.         *)
LEMMA AddsCount ==
  ASSUME CountInv, Started \/ DefaultsSet \/ \E flow \in Flow : AddNext(flow)
  PROVE  CountInv'
<1>0. CountersOK /\ DefaultsCount /\ AmountsOK
  BY DEF CountInv
<1>1. ASSUME NEW flow \in Flow, AddNext(flow) PROVE CountInv'
  <2>1. CountersOK' /\ DefaultsCount' /\ \A n : Counted(n)' = Counted(n)
    BY <1>0, <1>1, AddCounts DEF AddNext
  <2>2. /\ step # "loaded" /\ step' = step
        /\ data' = data /\ passed' = passed /\ collection' = collection /\ missed' = missed
    BY <1>1 DEF AddNext
  <2>. QED
    BY <1>0, <2>1, <2>2, MethodCounts DEF AmountsOK
<1>2. CASE DefaultsSet
  <2>1. /\ UNCHANGED counters /\ step = "set" /\ step' = "idle"
        /\ data' = data /\ passed' = passed /\ collection' = collection /\ missed' = missed
    BY <1>2 DEF DefaultsSet
  <2>. QED
    BY <1>0, <2>1, CountersStay, MethodCounts DEF AmountsOK
<1>3. CASE Started
  <2>1. /\ UNCHANGED counters /\ step = "start" /\ step' = "idle"
        /\ data' = data /\ passed' = passed
    BY <1>3 DEF Started
  <2>2. \A f \in Flow : collection'[f] = 0 /\ missed'[f] = missed[f] + collection[f]
    BY <1>3, FlowsAreNames DEF Started
  <2>3. missed' \in [Flow -> Nat]
    BY <1>0, <1>3 DEF Started, AmountsOK
  <2>4. ASSUME NEW f \in Flow
        PROVE  Counted(f)' + missed'[f] + collection'[f] = Counted(f) + missed[f] + collection[f]
    BY <2>1, <2>2, CountersStay, Amounts
  <2>. QED
    BY <1>0, <2>1, <2>2, <2>3, <2>4, CountersStay, MethodCounts
<1>. QED
  BY <1>1, <1>2, <1>3

(* The period: what was read is held while its counters are deleted, and   *)
(* then recorded, or lost with the period.                                 *)
LEMMA PeriodCounts == ASSUME CountInv, Load \/ ClearLoaded \/ Store PROVE CountInv'
<1>0. CountersOK /\ DefaultsCount /\ AmountsOK /\ HeldOK
  BY DEF CountInv
<1>1. CASE Load
  <2>1. /\ step = "idle" /\ step' = "loaded" /\ UNCHANGED counters
        /\ passed' = passed /\ collection' = collection /\ missed' = missed
        /\ DOMAIN data' = Names /\ \A n \in Names : data'[n] = Counted(n)
    BY <1>1 DEF Load, loadCounters
  <2>2. CountersOK' /\ DefaultsCount' /\ Names' = Names /\ \A n : Counted(n)' = Counted(n)
    BY <1>0, <2>1, CountersStay
  <2>3. AmountsOK' /\ HeldOK'
    BY <1>0, <2>1, <2>2, Amounts DEF AmountsOK, HeldOK
  <2>4. ASSUME NEW f \in Flow
        PROVE  passed'[f] = collection'[f] + missed'[f] + Held(f)' + InKernel(f)'
    <3>1. Held(f) = 0 /\ InKernel(f) = Counted(f)
      BY <1>0, <2>1 DEF Held, InKernel, HeldOK
    <3>2. CASE f \in Names
      <4>1. Held(f)' = Counted(f) /\ InKernel(f)' = 0
        BY <2>1, <3>2 DEF Held, InKernel
      <4>. QED
        BY <2>1, <3>1, <4>1, Amounts
    <3>3. CASE f \notin Names
      <4>1. Held(f)' = 0 /\ InKernel(f)' = Counted(f)
        BY <2>1, <2>2, <3>3 DEF Held, InKernel
      <4>. QED
        BY <2>1, <3>1, <4>1, Amounts
    <3>. QED
      BY <3>2, <3>3
  <2>. QED
    BY <2>2, <2>3, <2>4 DEF CountInv, CountedOnce, Held, InKernel
<1>2. CASE ClearLoaded
  <2>1. /\ step = "loaded" /\ step' = "reset" /\ Clear
        /\ passed' = passed /\ collection' = collection /\ missed' = missed /\ data' = data
    BY <1>2 DEF ClearLoaded
  <2>2. CountersOK' /\ DefaultsCount' /\ Names' = {} /\ \A n : Counted(n)' = 0
    BY <1>0, <2>1, ClearCounts
  <2>3. AmountsOK' /\ HeldOK'
    BY <1>0, <2>1 DEF AmountsOK, HeldOK
  <2>4. ASSUME NEW f \in Flow
        PROVE  passed'[f] = collection'[f] + missed'[f] + Held(f)' + InKernel(f)'
    <3>1. Held(f)' = Held(f) /\ InKernel(f)' = 0
      BY <2>1, <2>2 DEF Held, InKernel
    <3>2. InKernel(f) = 0
      BY <1>0, <2>1 DEF InKernel, HeldOK, Counted
    <3>. QED
      BY <2>1, <3>1, <3>2, Amounts
  <2>. QED
    BY <2>2, <2>3, <2>4 DEF CountInv, CountedOnce, Held, InKernel
<1>3. CASE Store
  <2>1. PICK stored \in SUBSET (DOMAIN data \ Odd) :
          /\ collection' = [n \in Record |-> collection[n] +
               IF n \in stored THEN data[n]
               ELSE IF n \in Name \/ DOMAIN data \cap Odd # {} THEN 0
               ELSE SumOf(DOMAIN data, n[2], data)]
          /\ missed' = [f \in Flow |->
               missed[f] + IF f \in DOMAIN data \ stored THEN data[f] ELSE 0]
    BY <1>3 DEF Store
  <2>2. /\ step = "reset" /\ step' = "idle" /\ DOMAIN data' = {}
        /\ UNCHANGED counters /\ passed' = passed
    BY <1>3 DEF Store
  <2>3. CountersOK' /\ DefaultsCount' /\ Names' = Names /\ \A n : Counted(n)' = Counted(n)
    BY <1>0, <2>2, CountersStay
  <2>4. ASSUME NEW f \in Flow
        PROVE  /\ collection'[f] = collection[f] + IF f \in stored THEN data[f] ELSE 0
               /\ missed'[f] = missed[f] + IF f \in DOMAIN data \ stored THEN data[f] ELSE 0
    BY <2>1, FlowsAreNames
  <2>5. missed' \in [Flow -> Nat] /\ \A f \in Flow : collection'[f] \in Nat
    BY <1>0, <2>1, <2>4 DEF AmountsOK
  <2>6. AmountsOK' /\ HeldOK'
    BY <1>0, <2>2, <2>5 DEF AmountsOK, HeldOK
  <2>7. ASSUME NEW f \in Flow
        PROVE  passed'[f] = collection'[f] + missed'[f] + Held(f)' + InKernel(f)'
    <3>1. Held(f)' = 0 /\ InKernel(f)' = Counted(f) /\ InKernel(f) = Counted(f)
      BY <2>2, <2>3 DEF Held, InKernel
    <3>2. collection'[f] + missed'[f] = collection[f] + missed[f] + Held(f)
      BY <2>1, <2>4, Amounts DEF Held
    <3>. QED
      BY <2>2, <2>5, <3>1, <3>2, Amounts
  <2>. QED
    BY <2>3, <2>6, <2>7 DEF CountInv, CountedOnce, Held, InKernel
<1>. QED
  BY <1>1, <1>2, <1>3

LEMMA CountStep == CountInv /\ [Next]_vars => CountInv'
<1>1. CountInv /\ UNCHANGED vars => CountInv'
  <2> SUFFICES ASSUME CountInv, UNCHANGED vars PROVE CountInv'
    OBVIOUS
  <2>1. CountersOK' /\ DefaultsCount' /\ Names' = Names /\ \A n : Counted(n)' = Counted(n)
    BY CountersStay DEF vars, CountInv
  <2>. QED
    BY <2>1 DEF vars, CountInv, HeldOK, AmountsOK, CountedOnce
<1>. QED
  BY <1>1, PacketCounts, CallsCount, AddsCount, PeriodCounts DEF Next

(* Between the reading of the counters, their deletion and their return    *)
(* (pktCountersAgent.py) no packet is recorded twice, and none is lost but *)
(* for the reasons CountedOnce names: for any number of interfaces,        *)
(* counters and packets, whatever is added and removed meanwhile.          *)
THEOREM PacketsCountedOnce == Spec => []CountedOnce
<1>1. CountInv => CountedOnce
  BY DEF CountInv
<1>. QED
  BY <1>1, InitCount, CountStep, PTL DEF Spec

-----------------------------------------------------------------------------
(* The default counters come back.                                         *)

LEMMA FlowIsFinite == IsFiniteSet(Flow)
<1>1. IsFiniteSet({"in"}) /\ IsFiniteSet({"in"} \cup {"out"})
  BY FS_Singleton, FS_AddElement
<1>2. {"in", "out"} = {"in"} \cup {"out"}
  OBVIOUS
<1>. QED
  BY <1>1, <1>2, FS_Product, CountersAssumption DEF Flow

(* A sequence of the members of a finite set has them, and all of them.    *)
LEMMA EveryMemberInTurn ==
  ASSUME NEW S, IsFiniteSet(S)
  PROVE  /\ SetToSeq(S) \in Seq(S)
         /\ {SetToSeq(S)[i] : i \in DOMAIN SetToSeq(S)} = S
<1> DEFINE n == Cardinality(S)
           s == SetToSeq(S)
<1>1. n \in Nat /\ \E f \in [1 .. n -> S] : IsInjective(f)
  BY FS_CardinalityType DEF ExistsBijection, Bijection, Injection
<1>2. s \in [1 .. n -> S] /\ IsInjective(s)
  BY <1>1 DEF SetToSeq
<1>3. IsFiniteSet(1 .. n) /\ Cardinality(1 .. n) = n
  BY <1>1, FS_Interval
<1>4. s \in Surjection(1 .. n, S)
  BY <1>2, <1>3, FS_Injection DEF Injection
<1>5. s \in Seq(S) /\ DOMAIN s = 1 .. n
  BY <1>1, <1>2
<1>6. \A f \in S : \E i \in DOMAIN s : s[i] = f
  BY <1>4, <1>5 DEF Surjection
<1>7. \A i \in DOMAIN s : s[i] \in S
  BY <1>2
<1> HIDE DEF s
<1>8. {s[i] : i \in DOMAIN s} = S
  BY <1>6, <1>7
<1>. QED
  BY <1>5, <1>8 DEF s

(* setDefaults adds a counter for every flow.                              *)
LEMMA EveryFlowInTurn ==
  /\ SetToSeq(Flow) \in Seq(Flow)
  /\ {SetToSeq(Flow)[i] : i \in DOMAIN SetToSeq(Flow)} = Flow
BY FlowIsFinite, EveryMemberInTurn

(* The counters that are still to be added shrink by the one that is.      *)
LEMMA NextInTurn ==
  ASSUME NEW s \in Seq(Flow), s # << >>
  PROVE  /\ Head(s) \in Flow /\ Tail(s) \in Seq(Flow)
         /\ {s[i] : i \in DOMAIN s} = {Head(s)} \cup {Tail(s)[i] : i \in DOMAIN Tail(s)}
<1>1. Head(s) = s[1] /\ 1 \in DOMAIN s /\ Tail(s) \in Seq(Flow) /\ Len(s) \in Nat
  OBVIOUS
<1>2. DOMAIN s = 1 .. Len(s) /\ DOMAIN Tail(s) = 1 .. Len(s) - 1
  OBVIOUS
<1>3. \A i \in DOMAIN Tail(s) : Tail(s)[i] = s[i + 1] /\ i + 1 \in DOMAIN s
  BY <1>2
<1>4. ASSUME NEW i \in DOMAIN s, i # 1 PROVE i - 1 \in DOMAIN Tail(s) /\ Tail(s)[i - 1] = s[i]
  BY <1>2, <1>4
<1>. QED
  BY <1>1, <1>3, <1>4

LEMMA ResetStep == CountInv /\ ResetInv /\ [Next]_vars => ResetInv'
<1> SUFFICES ASSUME CountInv, ResetInv, [Next]_vars, step' = "reset"
             PROVE  todo' \in Seq(Flow) /\ Names' \cup {todo'[i] : i \in DOMAIN todo'} = Flow
  BY DEF ResetInv
<1>1. CASE ClearLoaded
  <2>1. todo' = SetToSeq(Flow) /\ Names' = {}
    BY <1>1, ClearCounts DEF ClearLoaded, CountInv
  <2>. QED
    BY <2>1, EveryFlowInTurn
<1>2. ASSUME NEW flow \in Flow, AddNext(flow)
      PROVE  todo' \in Seq(Flow) /\ Names' \cup {todo'[i] : i \in DOMAIN todo'} = Flow
  <2>1. /\ step = "reset" /\ todo # << >> /\ todo' = Tail(todo)
    BY <1>2 DEF AddNext
  <2>2. Names' = Names \cup {Head(todo)}
    BY <1>2, AddCounts DEF AddNext, CountInv
  <2>. QED
    BY <2>1, <2>2, NextInTurn DEF ResetInv
<1>3. ASSUME NEW f \in Flow, Packet(f)
      PROVE  todo' \in Seq(Flow) /\ Names' \cup {todo'[i] : i \in DOMAIN todo'} = Flow
  <2>1. step = "reset" /\ todo' = todo /\ Names' = Names
    BY <1>3 DEF Packet, Names
  <2>. QED
    BY <2>1 DEF ResetInv
<1>4. CASE UNCHANGED vars
  <2>1. step = "reset" /\ todo' = todo /\ Names' = Names
    BY <1>4 DEF vars, counters, Names
  <2>. QED
    BY <2>1 DEF ResetInv
<1>. QED
  BY <1>1, <1>2, <1>3, <1>4 DEF Next, StartCollection, StopCollection, SetDefaults, RemoveDefaults,
     ClearCounters, RemoveCounter, AddCounter, Call, Started, DefaultsSet, Load, Store

LEMMA ResetInvariant == Spec => [](CountInv /\ ResetInv)
<1>1. Init => CountInv /\ ResetInv
  BY InitCount DEF Init, ResetInv
<1>2. CountInv /\ ResetInv /\ [Next]_vars => (CountInv /\ ResetInv)'
  BY CountStep, ResetStep
<1>. QED
  BY <1>1, <1>2, PTL DEF Spec

(* periodic deletes all counters and sets the default ones before it goes *)
(* over the data (pktCountersAgent.py), so that a name it cannot parse is  *)
(* not there in the next period, and no default counter is missing, for    *)
(* any interfaces and whatever was added or removed before.                *)
THEOREM FailureIsOver == Spec => FailureCostsOnePeriod
<1>1. /\ CountInv /\ ResetInv /\ [Next]_vars
      => [step = "reset" /\ step' = "idle" => Flow \subseteq Names /\ Names \cap Odd = {}]_vars
  <2> SUFFICES ASSUME ResetInv, Next, step = "reset", step' = "idle"
               PROVE  Flow \subseteq Names /\ Names \cap Odd = {}
    OBVIOUS
  <2>1. todo = << >>
    BY DEF Next, Packet, StartCollection, StopCollection, SetDefaults, RemoveDefaults,
       ClearCounters, RemoveCounter, AddCounter, Call, AddNext, Started, DefaultsSet, Load,
       ClearLoaded, Store
  <2>2. Names = Flow
    BY <2>1 DEF ResetInv
  <2>. QED
    BY <2>2, CountersAssumption
<1>. QED
  BY <1>1, ResetInvariant, PTL DEF Spec, FailureCostsOnePeriod

-----------------------------------------------------------------------------
(* Sums over finite sets: MapThenSumSet, by least counterexample.           *)

(* A non-empty set of natural numbers has a least one.                     *)
LEMMA LeastNatural ==
  ASSUME NEW B, B \subseteq Nat, B # {}
  PROVE  \E n \in B : \A k \in B : n <= k
<1> DEFINE R == OpToRel(<, Nat)
<1>1. \A x, y \in Nat : <<x, y>> \in R <=> x < y
  BY DEF OpToRel
<1>2. IsWellFoundedOn(R, Nat)
  BY NatLessThanWellFounded
<1> HIDE DEF R
<1>3. PICK n \in B : \A k \in B : ~ (<<k, n>> \in R)
  BY <1>2, WFMin
<1>4. \A k \in B : n <= k
  <2> SUFFICES ASSUME NEW k \in B PROVE n <= k
    OBVIOUS
  <2>1. n \in Nat /\ k \in Nat /\ ~ (k < n)
    BY <1>1, <1>3
  <2>. QED
    BY <2>1
<1>. QED
  BY <1>4

(* What MapThenSumSet computes, as a function on the subsets of the set it *)
(* sums over.                                                              *)
AnyOf(s) == CHOOSE x \in s : TRUE
SumStep(f, g, s) == IF s = {} THEN 0 ELSE f[AnyOf(s)] + g[s \ {AnyOf(s)}]
SumFcn(S, f) == CHOOSE g : g = [s \in SUBSET S |-> SumStep(f, g, s)]

LEMMA SumPassedIsSumFcn == SumPassed = SumFcn(Flow, passed)[Flow]
BY DEF SumPassed, SumFcn, SumStep, MapThenSumSet, MapThenFoldSet, AnyOf

LEMMA SumOfIsSumFcn ==
  ASSUME NEW d
  PROVE  LET S == {n \in DOMAIN data : Directed(n, d)} IN SumOf(DOMAIN data, d, data) = SumFcn(S, data)[S]
BY DEF SumOf, SumFcn, SumStep, MapThenSumSet, MapThenFoldSet, AnyOf

(* There is such a function on the subsets of at most n elements, for any  *)
(* n: by induction on n.                                                   *)
UpToSize(S, n) == {s \in SUBSET S : Cardinality(s) <= n}

SumExists(sets, f) == \E g : g = [s \in sets |-> SumStep(f, g, s)]

LEMMA SumFcnOfSmall ==
  ASSUME NEW S, IsFiniteSet(S), NEW f, NEW n \in Nat
  PROVE  SumExists(UpToSize(S, n), f)
<1> DEFINE Exists(m) == \E g : g = [s \in UpToSize(S, m) |-> SumStep(f, g, s)]
           Bad == {m \in Nat : ~ Exists(m)}
<1> SUFFICES ASSUME ~ Exists(n) PROVE FALSE
  BY DEF SumExists
<1>1. PICK m \in Bad : \A k \in Bad : m <= k
  <2>1. n \in Bad /\ Bad \subseteq Nat
    OBVIOUS
  <2>. QED
    BY <2>1, LeastNatural
<1>2. \A s \in SUBSET S : IsFiniteSet(s) /\ Cardinality(s) \in Nat
  BY FS_Subset, FS_CardinalityType
<1>3. m # 0
  <2>1. \A s \in UpToSize(S, 0) : s = {}
    BY <1>2, FS_EmptySet DEF UpToSize
  <2> DEFINE g == [s \in UpToSize(S, 0) |-> 0]
  <2>2. g = [s \in UpToSize(S, 0) |-> SumStep(f, g, s)]
    BY <2>1 DEF SumStep
  <2>. QED
    BY <2>2
<1>4. PICK h : h = [s \in UpToSize(S, m - 1) |-> SumStep(f, h, s)]
  <2>1. m - 1 \in Nat /\ ~ (m <= m - 1)
    BY <1>3
  <2>2. Exists(m - 1)
    BY <1>1, <2>1
  <2>. QED
    BY <2>2
<1> DEFINE g == [s \in UpToSize(S, m) |-> SumStep(f, h, s)]
<1>5. ASSUME NEW s \in UpToSize(S, m), s # {} PROVE s \ {AnyOf(s)} \in UpToSize(S, m - 1)
  <2>1. AnyOf(s) \in s /\ IsFiniteSet(s) /\ Cardinality(s) \in Nat /\ Cardinality(s) <= m
    BY <1>2, <1>5 DEF UpToSize, AnyOf
  <2>2. Cardinality(s \ {AnyOf(s)}) = Cardinality(s) - 1
    BY <2>1, FS_RemoveElement
  <2>. QED
    BY <2>1, <2>2 DEF UpToSize
<1>6. \A s \in UpToSize(S, m - 1) : s \in UpToSize(S, m) /\ h[s] = SumStep(f, h, s)
  BY <1>2, <1>4 DEF UpToSize
<1>7. \A s \in UpToSize(S, m) : SumStep(f, h, s) = SumStep(f, g, s)
  <2> SUFFICES ASSUME NEW s \in UpToSize(S, m), s # {} PROVE h[s \ {AnyOf(s)}] = g[s \ {AnyOf(s)}]
    BY DEF SumStep
  <2>. QED
    BY <1>5, <1>6
<1>8. g = [s \in UpToSize(S, m) |-> SumStep(f, g, s)]
  BY <1>7
<1>. QED
  BY <1>1, <1>8

LEMMA SumFcnIsSum ==
  ASSUME NEW S, IsFiniteSet(S), NEW f
  PROVE  \A s \in SUBSET S : SumFcn(S, f)[s] = SumStep(f, SumFcn(S, f), s)
<1>1. UpToSize(S, Cardinality(S)) = SUBSET S /\ Cardinality(S) \in Nat
  BY FS_Subset, FS_CardinalityType DEF UpToSize
<1>2. \E g : g = [s \in SUBSET S |-> SumStep(f, g, s)]
  <2>1. SumExists(UpToSize(S, Cardinality(S)), f)
    BY <1>1, SumFcnOfSmall
  <2>. QED
    BY <1>1, <2>1 DEF SumExists
<1> DEFINE IsSum(g) == g = [s \in SUBSET S |-> SumStep(f, g, s)]
<1>3. IsSum(CHOOSE g : IsSum(g))
  <2>1. \E g : IsSum(g)
    BY <1>2
  <2> HIDE DEF IsSum
  <2>. QED
    BY <2>1
<1>4. SumFcn(S, f) = CHOOSE g : IsSum(g)
  BY DEF SumFcn
<1>. QED
  BY <1>3, <1>4

(* A sum of natural numbers is one, and none of them is larger than it:    *)
(* by induction on the size of the set.                                    *)
LEMMA SumBounds ==
  ASSUME NEW S, IsFiniteSet(S), NEW f, \A x \in S : f[x] \in Nat
  PROVE  /\ SumFcn(S, f)[S] \in Nat
         /\ \A x \in S : f[x] <= SumFcn(S, f)[S]
<1> DEFINE g == SumFcn(S, f)
           Bounds(s) == g[s] \in Nat /\ \A x \in s : f[x] <= g[s]
           Bad == {Cardinality(s) : s \in {t \in SUBSET S : ~ Bounds(t)}}
<1>1. \A s \in SUBSET S : g[s] = SumStep(f, g, s)
  BY SumFcnIsSum
<1>2. \A s \in SUBSET S : IsFiniteSet(s) /\ Cardinality(s) \in Nat
  BY FS_Subset, FS_CardinalityType
<1> HIDE DEF g
<1>3. Bad = {}
  <2> SUFFICES ASSUME Bad # {} PROVE FALSE
    OBVIOUS
  <2>1. PICK m \in Bad : \A k \in Bad : m <= k
    <3>1. Bad \subseteq Nat
      BY <1>2
    <3>. QED
      BY <3>1, LeastNatural
  <2>2. PICK s \in SUBSET S : ~ Bounds(s) /\ Cardinality(s) = m
    BY <2>1
  <2>3. s # {}
    <3>1. g[{}] = 0
      BY <1>1 DEF SumStep
    <3>. QED
      BY <2>2, <3>1
  <2> DEFINE x == AnyOf(s)
             t == s \ {x}
  <2>4. x \in s /\ t \in SUBSET S
    BY <2>3 DEF AnyOf
  <2>5. Cardinality(t) = m - 1 /\ m \in Nat
    BY <1>2, <2>2, <2>4, FS_RemoveElement
  <2>6. Bounds(t)
    <3>1. m - 1 \notin Bad
      BY <2>1, <2>5
    <3>. QED
      BY <2>4, <2>5, <3>1
  <2>7. g[s] = f[x] + g[t]
    BY <1>1, <2>3 DEF SumStep
  <2>8. f[x] \in Nat /\ g[t] \in Nat
    BY <2>4, <2>6
  <2>9. Bounds(s)
    <3>1. g[s] \in Nat /\ f[x] <= g[s] /\ g[t] <= g[s]
      BY <2>7, <2>8
    <3>2. ASSUME NEW y \in s PROVE f[y] <= g[s]
      <4>1. CASE y = x
        BY <3>1, <4>1
      <4>2. CASE y # x
        <5>1. f[y] <= g[t] /\ f[y] \in Nat
          BY <2>6, <4>2
        <5>. QED
          BY <2>8, <3>1, <5>1
      <4>. QED
        BY <4>1, <4>2
    <3>. QED
      BY <3>1, <3>2
  <2>. QED
    BY <2>2, <2>9
<1>4. Bounds(S)
  BY <1>3
<1>. QED
  BY <1>4 DEF g

-----------------------------------------------------------------------------
(* Types.  What the bounds rest on: a rule has counted no more than passed *)
(* on its flow, and what is held was counted by a rule.                    *)
HandlesOK ==
  /\ handlecounter \in 1 .. MaxHandle
  /\ DOMAIN mark2type \subseteq 1 .. handlecounter - 1
  /\ Names \subseteq Name

RulesInv == \A h \in DOMAIN rules : rules[h].pkts <= passed[rules[h].flow]

DataInv ==
  /\ IsFiniteSet(DOMAIN data) /\ DOMAIN data \subseteq Name
  /\ \A n \in DOMAIN data : data[n] \in 0 .. MaxPackets

StepsOK ==
  /\ active \in BOOLEAN
  /\ step \in {"idle", "set", "start", "loaded", "reset"} /\ todo \in Seq(Name)

TypeInv ==
  /\ CountInv /\ HandlesOK /\ RulesInv /\ DataInv /\ StepsOK
  /\ collection \in [Record -> Nat]
  /\ passed \in [Flow -> 0 .. MaxPackets]

(* As many names as handles: no two handles have one name.                 *)
LEMMA NamesAreFinite ==
  ASSUME CountersOK, HandlesOK
  PROVE  IsFiniteSet(Names) /\ Cardinality(Names) = Cardinality(DOMAIN mark2type)
<1>1. IsFiniteSet(DOMAIN mark2type)
  BY FS_Interval, FS_Subset DEF HandlesOK
<1> DEFINE m == [h \in DOMAIN mark2type |-> mark2type[h]]
<1>2. m \in Bijection(DOMAIN mark2type, Names)
  <2>1. m \in [DOMAIN mark2type -> Names]
    BY DEF Names
  <2>2. m \in Injection(DOMAIN mark2type, Names)
    BY <2>1 DEF Injection, IsInjective, CountersOK
  <2>3. m \in Surjection(DOMAIN mark2type, Names)
    BY <2>1 DEF Surjection, Names
  <2>. QED
    BY <2>2, <2>3 DEF Bijection
<1>. QED
  BY <1>1, <1>2, FS_Bijection DEF ExistsBijection

LEMMA TypeInvImplies == TypeInv => TypeOK
<1> SUFFICES ASSUME TypeInv PROVE TypeOK
  OBVIOUS
<1>1. CountersOK /\ HandlesOK /\ MaxPackets \in Nat
  BY CountersAssumption DEF TypeInv, CountInv
<1>2. DOMAIN rules = DOMAIN mark2type /\ Cardinality(Names) = Cardinality(DOMAIN rules)
  BY <1>1, NamesAreFinite DEF CountersOK
<1>3. ASSUME NEW h \in DOMAIN rules PROVE rules[h] \in [flow : Flow, pkts : 0 .. MaxPackets]
  <2>1. rules[h] \in [flow : Flow, pkts : Nat]
    BY <1>1 DEF CountersOK
  <2>2. rules[h].pkts <= passed[rules[h].flow] /\ passed[rules[h].flow] \in 0 .. MaxPackets
    BY <2>1 DEF TypeInv, RulesInv
  <2>3. rules[h].pkts \in 0 .. MaxPackets
    BY <1>1, <2>1, <2>2
  <2>. QED
    BY <2>1, <2>3
<1>4. missed \in [Flow -> 0 .. MaxPackets]
  <2>1. \A f \in Flow : missed[f] \in 0 .. MaxPackets
    <3> SUFFICES ASSUME NEW f \in Flow PROVE missed[f] \in 0 .. MaxPackets
      OBVIOUS
    <3>1. passed[f] \in 0 .. MaxPackets
      BY DEF TypeInv
    <3>. QED
      BY <1>1, <3>1, Amounts DEF TypeInv
  <2>. QED
    BY <2>1 DEF TypeInv, CountInv, AmountsOK
<1>. QED
  BY <1>1, <1>2, <1>3, <1>4 DEF TypeOK, TypeInv, HandlesOK, DataInv, StepsOK

LEMMA InitType == Init => TypeInv
<1> SUFFICES ASSUME Init PROVE TypeInv
  OBVIOUS
<1>1. CountInv /\ Names = {} /\ DOMAIN data = {}
  BY InitCount DEF Init, Names
<1>2. HandlesOK
  BY <1>1, CountersAssumption DEF Init, HandlesOK
<1>3. DataInv
  BY <1>1, FS_EmptySet DEF DataInv
<1>4. StepsOK
  <2>1. << >> \in Seq(Name)
    OBVIOUS
  <2>. QED
    BY <2>1 DEF Init, StepsOK
<1>5. RulesInv
  <2>1. DOMAIN rules = {}
    BY DEF Init
  <2>. QED
    BY <2>1 DEF RulesInv
<1>. QED
  BY <1>1, <1>2, <1>3, <1>4, <1>5, CountersAssumption DEF Init, TypeInv

LEMMA CustomAreNames == Flow \subseteq Name /\ Filters \subseteq Name
BY CountersAssumption DEF Name, Custom

(* The counters that a method is to add, or has still to add.              *)
LEMMA TodoOK ==
  /\ SetToSeq(Flow) \in Seq(Name)
  /\ SetToSeq(Flow) \o SetToSeq(Filters) \in Seq(Name)
<1>1. SetToSeq(Flow) \in Seq(Flow) /\ SetToSeq(Filters) \in Seq(Filters)
  BY FlowIsFinite, EveryMemberInTurn, CountersAssumption
<1>2. \A S \in SUBSET Name : Seq(S) \subseteq Seq(Name)
  OBVIOUS
<1>3. SetToSeq(Flow) \in Seq(Name) /\ SetToSeq(Filters) \in Seq(Name)
  BY <1>1, <1>2, CustomAreNames
<1>. QED
  BY <1>3

(* addDataCounter gives the next handle.                                   *)
LEMMA AddTyped ==
  ASSUME TypeInv, NEW name \in Name, NEW flow \in Flow, handlecounter < MaxHandle,
         addDataCounter(name, flow), passed' = passed
  PROVE  HandlesOK' /\ RulesInv'
<1>1. CASE name \in Names
  BY <1>1 DEF addDataCounter, counters, TypeInv, HandlesOK, RulesInv, Names
<1>2. CASE name \notin Names
  <2>1. /\ DOMAIN mark2type' = DOMAIN mark2type \cup {handlecounter}
        /\ mark2type'[handlecounter] = name
        /\ \A h \in DOMAIN mark2type : h # handlecounter => mark2type'[h] = mark2type[h]
    BY <1>2 DEF addDataCounter, With
  <2>2. /\ DOMAIN rules' = DOMAIN rules \cup {handlecounter}
        /\ rules'[handlecounter] = [flow |-> flow, pkts |-> 0]
        /\ \A h \in DOMAIN rules : h # handlecounter => rules'[h] = rules[h]
    BY <1>2 DEF addDataCounter, With
  <2>3. handlecounter' = handlecounter + 1 /\ handlecounter \in 1 .. MaxHandle - 1 /\ MaxHandle \in Nat
    BY <1>2, CountersAssumption DEF addDataCounter, TypeInv, HandlesOK
  <2>4. HandlesOK'
    <3>1. Names' \subseteq Names \cup {name}
      BY <2>1 DEF Names
    <3>2. handlecounter' \in 1 .. MaxHandle
      BY <2>3
    <3>3. DOMAIN mark2type' \subseteq 1 .. handlecounter' - 1
      BY <2>1, <2>3 DEF TypeInv, HandlesOK
    <3>. QED
      BY <3>1, <3>2, <3>3 DEF TypeInv, HandlesOK
  <2>5. RulesInv'
    <3>1. passed[flow] \in Nat /\ 0 <= passed[flow]
      BY DEF TypeInv, CountInv, AmountsOK
    <3>. QED
      BY <2>2, <3>1 DEF TypeInv, RulesInv
  <2>. QED
    BY <2>4, <2>5
<1>. QED
  BY <1>1, <1>2

(* Removing counters, or none, gives no handle.                            *)
LEMMA KeepTyped ==
  ASSUME TypeInv, DOMAIN mark2type' \subseteq DOMAIN mark2type,
         DOMAIN rules' = DOMAIN mark2type', handlecounter' = handlecounter, passed' = passed,
         \A h \in DOMAIN mark2type' : mark2type'[h] = mark2type[h] /\ rules'[h] = rules[h]
  PROVE  HandlesOK' /\ RulesInv'
<1>1. DOMAIN mark2type' \subseteq DOMAIN rules
  BY DEF TypeInv, CountInv, CountersOK
<1>2. Names' \subseteq Names
  BY DEF Names
<1>3. HandlesOK'
  BY <1>2 DEF TypeInv, HandlesOK
<1>4. RulesInv'
  BY <1>1 DEF TypeInv, RulesInv
<1>. QED
  BY <1>3, <1>4

LEMMA StayTyped == ASSUME TypeInv, UNCHANGED counters, passed' = passed PROVE HandlesOK' /\ RulesInv'
<1>1. DOMAIN rules = DOMAIN mark2type
  BY DEF TypeInv, CountInv, CountersOK
<1>. QED
  BY <1>1, KeepTyped DEF counters

(* The calls of the experimenter.                                          *)
LEMMA CallsTyped ==
  ASSUME TypeInv, CountInv',
         StartCollection \/ SetDefaults \/ StopCollection \/ ClearCounters \/ RemoveDefaults
         \/ \E name \in Name : RemoveCounter(name) \/ \E flow \in Flow : AddCounter(name, flow)
  PROVE  TypeInv'
<1>0. DOMAIN rules = DOMAIN mark2type
  BY DEF TypeInv, CountInv, CountersOK
<1>1. /\ data' = data /\ collection' = collection /\ passed' = passed
      /\ step' \in {"idle", "start", "set"} /\ active' \in BOOLEAN
  BY DEF StartCollection, SetDefaults, StopCollection, ClearCounters, RemoveDefaults, RemoveCounter,
     AddCounter, Call, TypeInv, StepsOK
<1>2. todo' \in Seq(Name)
  BY TodoOK DEF StartCollection, SetDefaults, StopCollection, ClearCounters, RemoveDefaults,
     RemoveCounter, AddCounter, TypeInv, StepsOK
<1>3. HandlesOK' /\ RulesInv'
  <2>1. CASE StartCollection \/ SetDefaults \/ StopCollection
    BY <1>1, <2>1, StayTyped DEF StartCollection, SetDefaults, StopCollection
  <2>2. ASSUME NEW name \in Name, NEW flow \in Flow, AddCounter(name, flow)
        PROVE  HandlesOK' /\ RulesInv'
    BY <1>1, <2>2, AddTyped DEF AddCounter
  <2>3. ASSUME NEW name \in Name, RemoveCounter(name) PROVE HandlesOK' /\ RulesInv'
    <3>1. CASE name \in Names
      <4>1. /\ rules' = Without(rules, Handle(name)) /\ mark2type' = Without(mark2type, Handle(name))
            /\ handlecounter' = handlecounter
        BY <2>3, <3>1 DEF RemoveCounter, delDataCounter
      <4>2. /\ DOMAIN mark2type' = DOMAIN mark2type \ {Handle(name)}
            /\ DOMAIN rules' = DOMAIN mark2type'
            /\ \A h \in DOMAIN mark2type' : mark2type'[h] = mark2type[h] /\ rules'[h] = rules[h]
        BY <1>0, <4>1 DEF Without
      <4>. QED
        BY <1>1, <4>1, <4>2, KeepTyped
    <3>2. CASE name \notin Names
      BY <1>1, <2>3, <3>2, StayTyped DEF RemoveCounter, delDataCounter, counters
    <3>. QED
      BY <3>1, <3>2
  <2>4. CASE ClearCounters
    <3>1. DOMAIN mark2type' = {} /\ DOMAIN rules' = {} /\ handlecounter' = handlecounter
      BY <2>4 DEF ClearCounters, Clear
    <3>. QED
      BY <1>1, <3>1, KeepTyped
  <2>5. CASE RemoveDefaults
    <3>1. /\ DOMAIN mark2type' \subseteq DOMAIN mark2type /\ DOMAIN rules' = DOMAIN mark2type'
          /\ handlecounter' = handlecounter
          /\ \A h \in DOMAIN mark2type' : mark2type'[h] = mark2type[h] /\ rules'[h] = rules[h]
      BY <2>5 DEF RemoveDefaults
    <3>. QED
      BY <1>1, <3>1, KeepTyped
  <2>. QED
    BY <2>1, <2>2, <2>3, <2>4, <2>5
<1>. QED
  BY <1>1, <1>2, <1>3 DEF TypeInv, DataInv, StepsOK

(* A packet passes below the bound, so that none of the amounts, each a    *)
(* part of what passed, exceeds it.                                        *)
LEMMA PacketTyped == ASSUME TypeInv, CountInv', NEW g \in Flow, Packet(g) PROVE TypeInv'
<1>1. passed[g] <= SumPassed /\ SumPassed \in Nat
  <2>1. \A f \in Flow : passed[f] \in Nat
    BY DEF TypeInv, CountInv, AmountsOK
  <2>. QED
    BY <2>1, FlowIsFinite, SumBounds, SumPassedIsSumFcn
<1>2. passed' = [passed EXCEPT ![g] = @ + 1] /\ SumPassed < MaxPackets /\ MaxPackets \in Nat
  BY CountersAssumption DEF Packet
<1>3. passed' \in [Flow -> 0 .. MaxPackets]
  <2>1. passed[g] + 1 \in 0 .. MaxPackets
    BY <1>1, <1>2 DEF TypeInv, CountInv, AmountsOK
  <2>. QED
    BY <1>2, <2>1 DEF TypeInv
<1>4. RulesInv'
  <2> SUFFICES ASSUME NEW h \in DOMAIN rules PROVE rules'[h].pkts <= passed'[rules'[h].flow]
    BY DEF RulesInv, Packet
  <2>1. /\ rules[h] \in [flow : Flow, pkts : Nat] /\ rules[h].pkts <= passed[rules[h].flow]
        /\ passed[rules[h].flow] \in Nat
    BY DEF TypeInv, RulesInv, CountInv, CountersOK, AmountsOK
  <2>2. rules'[h] = IF rules[h].flow = g THEN [rules[h] EXCEPT !.pkts = @ + 1] ELSE rules[h]
    BY DEF Packet
  <2>3. CASE rules[h].flow = g
    <3>1. rules'[h].pkts = rules[h].pkts + 1 /\ rules'[h].flow = g
      BY <2>1, <2>2, <2>3
    <3>2. passed'[g] = passed[g] + 1
      BY <1>2 DEF TypeInv
    <3>. QED
      BY <2>1, <2>3, <3>1, <3>2
  <2>4. CASE rules[h].flow # g
    <3>1. passed'[rules[h].flow] = passed[rules[h].flow]
      BY <1>2, <2>1, <2>4 DEF TypeInv
    <3>. QED
      BY <2>1, <2>2, <2>4, <3>1
  <2>. QED
    BY <2>3, <2>4
<1>5. HandlesOK'
  <2>1. mark2type' = mark2type /\ handlecounter' = handlecounter
    BY DEF Packet
  <2>. QED
    BY <2>1 DEF TypeInv, HandlesOK, Names
<1>. QED
  BY <1>3, <1>4, <1>5 DEF Packet, TypeInv, DataInv, StepsOK

(* The counters that the methods add, and the old records that go.         *)
LEMMA AddsTyped ==
  ASSUME TypeInv, CountInv', Started \/ DefaultsSet \/ \E flow \in Flow : AddNext(flow)
  PROVE  TypeInv'
<1>1. ASSUME NEW flow \in Flow, AddNext(flow) PROVE TypeInv'
  <2>1. Head(todo) \in Name /\ todo' \in Seq(Name)
    BY <1>1 DEF AddNext, TypeInv, StepsOK
  <2>2. HandlesOK' /\ RulesInv'
    BY <1>1, <2>1, AddTyped DEF AddNext
  <2>. QED
    BY <1>1, <2>1, <2>2 DEF AddNext, TypeInv, DataInv, StepsOK
<1>2. CASE Started \/ DefaultsSet
  <2>1. UNCHANGED counters /\ passed' = passed /\ data' = data /\ todo' = todo /\ step' = "idle"
    BY <1>2 DEF Started, DefaultsSet
  <2>2. active' \in BOOLEAN
    BY <1>2 DEF Started, DefaultsSet, TypeInv, StepsOK
  <2>3. collection' \in [Record -> Nat]
    BY <1>2 DEF Started, DefaultsSet, TypeInv
  <2>4. HandlesOK' /\ RulesInv'
    BY <2>1, StayTyped
  <2>5. DataInv' /\ StepsOK'
    BY <2>1, <2>2 DEF TypeInv, DataInv, StepsOK
  <2>. QED
    BY <2>1, <2>3, <2>4, <2>5 DEF TypeInv
<1>. QED
  BY <1>1, <1>2

(* The period: what it holds was counted by rules, and what it adds to the *)
(* records are such counts, or sums of them.                               *)
LEMMA PeriodTyped == ASSUME TypeInv, CountInv', Load \/ ClearLoaded \/ Store PROVE TypeInv'
<1>0. CountersOK /\ HandlesOK /\ MaxPackets \in Nat
  BY CountersAssumption DEF TypeInv, CountInv
<1>1. CASE Load
  <2>1. /\ UNCHANGED counters /\ passed' = passed /\ collection' = collection /\ active' = active
        /\ todo' = todo /\ step' = "loaded" /\ data' = [n \in Names |-> Counted(n)]
    BY <1>1 DEF Load, loadCounters
  <2>2. ASSUME NEW n \in Names PROVE Counted(n) \in 0 .. MaxPackets
    <3>1. PICK h \in DOMAIN mark2type : mark2type[h] = n
      BY <2>2 DEF Names
    <3>2. Counted(n) = rules[h].pkts /\ Counted(n) \in Nat /\ h \in DOMAIN rules
      BY <1>0, <3>1, CountedAt DEF CountersOK
    <3>3. rules[h].pkts <= passed[rules[h].flow] /\ rules[h].flow \in Flow
      BY <1>0, <3>2 DEF TypeInv, RulesInv, CountersOK
    <3>4. passed[rules[h].flow] \in 0 .. MaxPackets
      BY <3>3 DEF TypeInv
    <3>. QED
      BY <1>0, <3>2, <3>3, <3>4
  <2>3. DataInv'
    BY <1>0, <2>1, <2>2, NamesAreFinite DEF DataInv, HandlesOK
  <2>4. HandlesOK' /\ RulesInv'
    BY <2>1, StayTyped
  <2>. QED
    BY <2>1, <2>3, <2>4 DEF TypeInv, StepsOK
<1>2. CASE ClearLoaded
  <2>1. /\ DOMAIN mark2type' = {} /\ DOMAIN rules' = {} /\ handlecounter' = handlecounter
        /\ passed' = passed /\ collection' = collection /\ active' = active /\ data' = data
        /\ todo' \in Seq(Name) /\ step' = "reset"
    BY <1>2, TodoOK DEF ClearLoaded, Clear
  <2>2. HandlesOK' /\ RulesInv'
    BY <2>1, KeepTyped
  <2>. QED
    BY <2>1, <2>2 DEF TypeInv, DataInv, StepsOK
<1>3. CASE Store
  <2>1. PICK stored \in SUBSET (DOMAIN data \ Odd) :
          collection' = [n \in Record |-> collection[n] +
             IF n \in stored THEN data[n]
             ELSE IF n \in Name \/ DOMAIN data \cap Odd # {} THEN 0
             ELSE SumOf(DOMAIN data, n[2], data)]
    BY <1>3 DEF Store
  <2>2. \A n \in DOMAIN data : data[n] \in Nat
    BY <1>0 DEF TypeInv, DataInv
  <2>3. ASSUME NEW d PROVE SumOf(DOMAIN data, d, data) \in Nat
    <3> DEFINE S == {n \in DOMAIN data : Directed(n, d)}
    <3>1. IsFiniteSet(S) /\ \A n \in S : data[n] \in Nat
      BY <2>2, FS_Subset DEF TypeInv, DataInv
    <3> HIDE DEF S
    <3>2. SumFcn(S, data)[S] \in Nat
      BY <3>1, SumBounds
    <3>. QED
      BY <3>2, SumOfIsSumFcn DEF S
  <2>4. collection' \in [Record -> Nat]
    <3>1. ASSUME NEW n \in Record
          PROVE  collection[n] + (IF n \in stored THEN data[n]
                   ELSE IF n \in Name \/ DOMAIN data \cap Odd # {} THEN 0
                   ELSE SumOf(DOMAIN data, n[2], data)) \in Nat
      <4>1. collection[n] \in Nat
        BY DEF TypeInv
      <4>. QED
        BY <2>2, <2>3, <4>1
    <3>. QED
      BY <2>1, <3>1
  <2>5. /\ UNCHANGED counters /\ passed' = passed /\ active' = active /\ todo' = todo
        /\ step' = "idle" /\ data' = << >>
    BY <1>3 DEF Store
  <2>6. DataInv'
    <3>1. DOMAIN data' = {}
      BY <2>5
    <3>. QED
      BY <3>1, FS_EmptySet DEF DataInv
  <2>7. HandlesOK' /\ RulesInv'
    BY <2>5, StayTyped
  <2>. QED
    BY <2>4, <2>5, <2>6, <2>7 DEF TypeInv, StepsOK
<1>. QED
  BY <1>1, <1>2, <1>3

LEMMA TypeStep == TypeInv /\ [Next]_vars => TypeInv'
<1> SUFFICES ASSUME TypeInv, [Next]_vars PROVE TypeInv'
  OBVIOUS
<1>1. CountInv'
  BY CountStep DEF TypeInv
<1>2. CASE UNCHANGED vars
  <2>1. HandlesOK' /\ RulesInv'
    BY <1>2, StayTyped DEF vars
  <2>. QED
    BY <1>1, <1>2, <2>1 DEF vars, TypeInv, DataInv, StepsOK
<1>. QED
  BY <1>1, <1>2, PacketTyped, CallsTyped, AddsTyped, PeriodTyped DEF Next

(* The table of handles (pktcounters.py) and the rules of the kernel hold  *)
(* the same counters, each name once, after any calls and packets, for any *)
(* number of interfaces; no amount, nor any sum of the records, leaves the *)
(* packets that passed.                                                    *)
THEOREM CountersTypeCorrect == Spec => []TypeOK
BY InitType, TypeStep, TypeInvImplies, PTL DEF Spec

=============================================================================

------------------------------ MODULE DTNProofs ------------------------------
(***************************************************************************)
(* Proofs about module DTN, for any numbers of senders, receivers, files,  *)
(* rounds and lines a pipe takes.                                          *)
(***************************************************************************)
EXTENDS DTN, FiniteSetTheorems, WellFoundedInduction, TLAPS

(* Every variable keeps its type.                                          *)
SendersTypeOK ==
  /\ flag \in BOOLEAN
  /\ pc \in [Thread -> {"idle", "loop", "make", "send", "wait", "done"}]
  /\ sent \in Nat /\ after \in [Thread -> Nat] /\ network \in Nat

ReceiversTypeOK ==
  /\ process_dtncpd \in Receiver \cup {None}
  /\ proc \in [Receiver -> {"new", "running", "ended", "collected"}]
  /\ pipe \in [Receiver -> Nat] /\ received \in [Receiver -> Nat]
  /\ blocked \subseteq Receiver

StopTypeOK ==
  /\ stop \in {"idle", "sleep", "communicate", "wait", "poll"}
  /\ out \in Nat /\ recorded \in Nat /\ started \in BOOLEAN

TypeOK == SendersTypeOK /\ ReceiversTypeOK /\ StopTypeOK

(* After the stop a keeper is making its last file, or has sent it.        *)
Making(t) == IF pc[t] \in {"make", "send"} THEN 1 ELSE 0

KeeperInv ==
  \A t \in Keeper : after[t] + (IF flag THEN 0 ELSE Making(t)) <= (IF flag THEN 0 ELSE 1)

(* Every line of a receiver that was not collected is in its pipe, but the *)
(* one it waits to write.                                                  *)
Waiting(p) == IF p \in blocked THEN 1 ELSE 0

PipeInv ==
  \A p \in Receiver :
    /\ proc[p] # "collected" => received[p] = pipe[p] + Waiting(p)
    /\ p \in blocked => proc[p] # "new"

(* What stop_recv knows of the receiver it stops, as long as no other was  *)
(* started.                                                                *)
StopInv ==
  /\ stop \in {"communicate", "wait", "poll"} => process_dtncpd \in Receiver
  /\ stop = "wait" => waits \in Receiver
  /\ ~ started =>
       /\ stop = "communicate" => proc[process_dtncpd] = "ended"
       /\ stop = "wait" => waits = process_dtncpd /\ proc[waits] = "ended"
       /\ stop = "poll" => proc[process_dtncpd] = "collected"
       /\ stop = "poll" => out + Waiting(process_dtncpd) = received[process_dtncpd]

IInv == TypeOK /\ KeeperInv /\ PipeInv /\ StopInv /\ RecordedOnce

-----------------------------------------------------------------------------
(* Sums over finite sets: MapThenSumSet, by least counterexample.          *)

(* A non-empty set of natural numbers has a least one.                     *)
LEMMA LeastNatural ==
  ASSUME NEW B, B \subseteq Nat, B # {}
  PROVE  \E n \in B : \A k \in B : n <= k
<1> DEFINE R == OpToRel(<, Nat)
<1>1. \A x, y \in Nat : <<x, y>> \in R <=> x < y
  BY DEF OpToRel
<1>2. IsWellFoundedOn(R, Nat)
  BY NatLessThanWellFounded
<1> HIDE DEF R
<1>3. PICK n \in B : \A k \in B : ~ (<<k, n>> \in R)
  BY <1>2, WFMin
<1>4. \A k \in B : n <= k
  <2> SUFFICES ASSUME NEW k \in B PROVE n <= k
    OBVIOUS
  <2>1. n \in Nat /\ k \in Nat /\ ~ (k < n)
    BY <1>1, <1>3
  <2>. QED
    BY <2>1
<1>. QED
  BY <1>4

(* What MapThenSumSet computes, as a function on the subsets of the set it *)
(* sums over.                                                              *)
AnyOf(s) == CHOOSE x \in s : TRUE
SumStep(f, g, s) == IF s = {} THEN 0 ELSE f[AnyOf(s)] + g[s \ {AnyOf(s)}]
SumFcn(S, f) == CHOOSE g : g = [s \in SUBSET S |-> SumStep(f, g, s)]

(* There is such a function on the subsets of at most n elements, for any  *)
(* n: by induction on n.                                                   *)
UpToSize(S, n) == {s \in SUBSET S : Cardinality(s) <= n}

SumExists(sets, f) == \E g : g = [s \in sets |-> SumStep(f, g, s)]

LEMMA SumFcnOfSmall ==
  ASSUME NEW S, IsFiniteSet(S), NEW f, NEW n \in Nat
  PROVE  SumExists(UpToSize(S, n), f)
<1> DEFINE Exists(m) == \E g : g = [s \in UpToSize(S, m) |-> SumStep(f, g, s)]
           Bad == {m \in Nat : ~ Exists(m)}
<1> SUFFICES ASSUME ~ Exists(n) PROVE FALSE
  BY DEF SumExists
<1>1. PICK m \in Bad : \A k \in Bad : m <= k
  <2>1. n \in Bad /\ Bad \subseteq Nat
    OBVIOUS
  <2>. QED
    BY <2>1, LeastNatural
<1>2. \A s \in SUBSET S : IsFiniteSet(s) /\ Cardinality(s) \in Nat
  BY FS_Subset, FS_CardinalityType
<1>3. m # 0
  <2>1. \A s \in UpToSize(S, 0) : s = {}
    BY <1>2, FS_EmptySet DEF UpToSize
  <2> DEFINE g == [s \in UpToSize(S, 0) |-> 0]
  <2>2. g = [s \in UpToSize(S, 0) |-> SumStep(f, g, s)]
    BY <2>1 DEF SumStep
  <2>. QED
    BY <2>2
<1>4. PICK h : h = [s \in UpToSize(S, m - 1) |-> SumStep(f, h, s)]
  <2>1. m - 1 \in Nat /\ ~ (m <= m - 1)
    BY <1>3
  <2>2. Exists(m - 1)
    BY <1>1, <2>1
  <2>. QED
    BY <2>2
<1> DEFINE g == [s \in UpToSize(S, m) |-> SumStep(f, h, s)]
<1>5. ASSUME NEW s \in UpToSize(S, m), s # {} PROVE s \ {AnyOf(s)} \in UpToSize(S, m - 1)
  <2>1. AnyOf(s) \in s /\ IsFiniteSet(s) /\ Cardinality(s) \in Nat /\ Cardinality(s) <= m
    BY <1>2, <1>5 DEF UpToSize, AnyOf
  <2>2. Cardinality(s \ {AnyOf(s)}) = Cardinality(s) - 1
    BY <2>1, FS_RemoveElement
  <2>. QED
    BY <2>1, <2>2 DEF UpToSize
<1>6. \A s \in UpToSize(S, m - 1) : s \in UpToSize(S, m) /\ h[s] = SumStep(f, h, s)
  BY <1>2, <1>4 DEF UpToSize
<1>7. \A s \in UpToSize(S, m) : SumStep(f, h, s) = SumStep(f, g, s)
  <2> SUFFICES ASSUME NEW s \in UpToSize(S, m), s # {} PROVE h[s \ {AnyOf(s)}] = g[s \ {AnyOf(s)}]
    BY DEF SumStep
  <2>. QED
    BY <1>5, <1>6
<1>8. g = [s \in UpToSize(S, m) |-> SumStep(f, g, s)]
  BY <1>7
<1>. QED
  BY <1>1, <1>8

LEMMA SumFcnIsSum ==
  ASSUME NEW S, IsFiniteSet(S), NEW f
  PROVE  \A s \in SUBSET S : SumFcn(S, f)[s] = SumStep(f, SumFcn(S, f), s)
<1>1. UpToSize(S, Cardinality(S)) = SUBSET S /\ Cardinality(S) \in Nat
  BY FS_Subset, FS_CardinalityType DEF UpToSize
<1>2. \E g : g = [s \in SUBSET S |-> SumStep(f, g, s)]
  <2>1. SumExists(UpToSize(S, Cardinality(S)), f)
    BY <1>1, SumFcnOfSmall
  <2>. QED
    BY <1>1, <2>1 DEF SumExists
<1> DEFINE IsSum(g) == g = [s \in SUBSET S |-> SumStep(f, g, s)]
<1>3. IsSum(CHOOSE g : IsSum(g))
  <2>1. \E g : IsSum(g)
    BY <1>2
  <2> HIDE DEF IsSum
  <2>. QED
    BY <2>1
<1>4. SumFcn(S, f) = CHOOSE g : IsSum(g)
  BY DEF SumFcn
<1>. QED
  BY <1>3, <1>4

(* Changing one of the amounts changes their sum by as much, and a sum of  *)
(* zeros is zero.                                                          *)
LEMMA SumChange ==
  ASSUME NEW S, IsFiniteSet(S), NEW f \in [S -> Nat], NEW g \in [S -> Nat],
         NEW p, \A x \in S \ {p} : g[x] = f[x]
  PROVE  /\ SumFcn(S, f)[S] \in Nat /\ SumFcn(S, g)[S] \in Nat
         /\ p \in S => SumFcn(S, g)[S] + f[p] = SumFcn(S, f)[S] + g[p]
         /\ (\A x \in S : f[x] = 0) => SumFcn(S, f)[S] = 0
<1> DEFINE F == SumFcn(S, f)
           G == SumFcn(S, g)
           OK(s) == /\ F[s] \in Nat /\ G[s] \in Nat
                    /\ IF p \in s THEN G[s] + f[p] = F[s] + g[p] ELSE G[s] = F[s]
                    /\ (\A x \in s : f[x] = 0) => F[s] = 0
           Bad == {Cardinality(s) : s \in {t \in SUBSET S : ~ OK(t)}}
<1>1. \A s \in SUBSET S : F[s] = SumStep(f, F, s) /\ G[s] = SumStep(g, G, s)
  BY SumFcnIsSum
<1>2. \A s \in SUBSET S : IsFiniteSet(s) /\ Cardinality(s) \in Nat
  BY FS_Subset, FS_CardinalityType
<1> HIDE DEF F, G
<1>3. Bad = {}
  <2> SUFFICES ASSUME Bad # {} PROVE FALSE
    OBVIOUS
  <2>1. PICK m \in Bad : \A k \in Bad : m <= k
    <3>1. Bad \subseteq Nat
      BY <1>2
    <3>. QED
      BY <3>1, LeastNatural
  <2>2. PICK s \in SUBSET S : ~ OK(s) /\ Cardinality(s) = m
    BY <2>1
  <2>3. s # {}
    <3>1. F[{}] = 0 /\ G[{}] = 0
      BY <1>1 DEF SumStep
    <3>. QED
      BY <2>2, <3>1
  <2> DEFINE x == AnyOf(s)
             t == s \ {x}
  <2>4. x \in s /\ t \in SUBSET S
    BY <2>3 DEF AnyOf
  <2>5. Cardinality(t) = m - 1 /\ m \in Nat
    BY <1>2, <2>2, <2>4, FS_RemoveElement
  <2>6. OK(t)
    <3>1. m - 1 \notin Bad
      BY <2>1, <2>5
    <3>. QED
      BY <2>4, <2>5, <3>1
  <2>7. F[s] = f[x] + F[t] /\ G[s] = g[x] + G[t]
    BY <1>1, <2>3 DEF SumStep
  <2>8. f[x] \in Nat /\ g[x] \in Nat /\ F[t] \in Nat /\ G[t] \in Nat
    BY <2>4, <2>6
  <2>9. IF p \in s THEN G[s] + f[p] = F[s] + g[p] ELSE G[s] = F[s]
    <3>1. CASE x = p
      <4>1. G[t] = F[t] /\ p \in s
        BY <2>4, <2>6, <3>1
      <4>. QED
        BY <2>7, <2>8, <3>1, <4>1
    <3>2. CASE x # p /\ p \in s
      <4>1. G[t] + f[p] = F[t] + g[p] /\ g[x] = f[x] /\ f[p] \in Nat /\ g[p] \in Nat
        BY <2>4, <2>6, <3>2
      <4>. QED
        BY <2>7, <2>8, <3>2, <4>1
    <3>3. CASE x # p /\ p \notin s
      <4>1. G[t] = F[t] /\ g[x] = f[x]
        BY <2>4, <2>6, <3>3
      <4>. QED
        BY <2>7, <3>3, <4>1
    <3>. QED
      BY <3>1, <3>2, <3>3
  <2>10. (\A y \in s : f[y] = 0) => F[s] = 0
    BY <2>4, <2>6, <2>7
  <2>11. F[s] \in Nat /\ G[s] \in Nat
    BY <2>7, <2>8
  <2>. QED
    BY <2>2, <2>9, <2>10, <2>11
<1>4. OK(S)
  BY <1>3
<1>. QED
  BY <1>4 DEF F, G

LEMMA TotalIsSumFcn == ASSUME NEW f PROVE TotalOf(f) = SumFcn(Receiver, f)[Receiver]
BY DEF TotalOf, SumFcn, SumStep, MapThenSumSet, MapThenFoldSet, AnyOf

LEMMA TotalsNext == TotalOf(received)' = TotalOf(received') /\ TotalOf(pipe)' = TotalOf(pipe')
BY DEF TotalOf, MapThenSumSet, MapThenFoldSet

LEMMA TotalChange ==
  ASSUME NEW f \in [Receiver -> Nat], NEW g \in [Receiver -> Nat], NEW p \in Receiver,
         \A x \in Receiver \ {p} : g[x] = f[x]
  PROVE  /\ TotalOf(f) \in Nat /\ TotalOf(g) \in Nat
         /\ TotalOf(g) + f[p] = TotalOf(f) + g[p]
<1>1. IsFiniteSet(Receiver)
  BY FS_Interval, DTNAssumption DEF Receiver
<1>2. /\ SumFcn(Receiver, f)[Receiver] \in Nat /\ SumFcn(Receiver, g)[Receiver] \in Nat
      /\ SumFcn(Receiver, g)[Receiver] + f[p] = SumFcn(Receiver, f)[Receiver] + g[p]
  BY <1>1, SumChange
<1>3. TotalOf(f) = SumFcn(Receiver, f)[Receiver] /\ TotalOf(g) = SumFcn(Receiver, g)[Receiver]
  BY TotalIsSumFcn
<1>. QED
  BY <1>2, <1>3

LEMMA TotalIsNat == ASSUME NEW f \in [Receiver -> Nat] PROVE TotalOf(f) \in Nat
<1>1. IsFiniteSet(Receiver)
  BY FS_Interval, DTNAssumption DEF Receiver
<1>2. SumFcn(Receiver, f)[Receiver] \in Nat
  BY <1>1, SumChange
<1>. QED
  BY <1>2, TotalIsSumFcn

LEMMA TotalOfZeros == TotalOf([p \in Receiver |-> 0]) = 0
<1> DEFINE f == [p \in Receiver |-> 0]
<1>1. IsFiniteSet(Receiver)
  BY FS_Interval, DTNAssumption DEF Receiver
<1>2. f \in [Receiver -> Nat] /\ \A p \in Receiver : f[p] = 0
  OBVIOUS
<1> HIDE DEF f
<1>3. SumFcn(Receiver, f)[Receiver] = 0
  BY <1>1, <1>2, SumChange
<1>. QED
  BY <1>3, TotalIsSumFcn DEF f

-----------------------------------------------------------------------------
(* The invariant.                                                          *)

LEMMA InitInv == Init => IInv
<1> SUFFICES ASSUME Init PROVE IInv
  OBVIOUS
<1>1. TypeOK
  BY DEF Init, TypeOK, SendersTypeOK, ReceiversTypeOK, StopTypeOK
<1>2. KeeperInv /\ PipeInv /\ StopInv
  BY DEF Init, KeeperInv, PipeInv, StopInv, Thread, Waiting
<1>3. RecordedOnce
  BY TotalOfZeros DEF Init, RecordedOnce
<1>. QED
  BY <1>1, <1>2, <1>3 DEF IInv

(* The senders, and stop_sending.                                          *)
LEMMA SenderStep ==
  ASSUME IInv, StopSending \/ \E t \in Thread : Call(t) \/ Sender(t)
  PROVE  IInv'
<1>1. UNCHANGED <<receiving, stopping>>
  BY DEF StopSending, Call, Sender, Loop, Make, Send, Wait, Others
<1>2. ReceiversTypeOK' /\ StopTypeOK' /\ PipeInv' /\ StopInv'
  BY <1>1 DEF IInv, TypeOK, receiving, stopping, ReceiversTypeOK, StopTypeOK, PipeInv, StopInv, Waiting
<1>3. /\ recorded' = recorded /\ out' = out /\ pipe' = pipe /\ received' = received
  BY <1>1 DEF receiving, stopping
<1>4. SendersTypeOK'
  <2> USE DEF IInv, TypeOK, SendersTypeOK
  <2>1. CASE StopSending
    BY <2>1 DEF StopSending
  <2>2. ASSUME NEW t \in Thread, Call(t) \/ Loop(t) \/ Make(t) \/ Wait(t) PROVE SendersTypeOK'
    <3>1. /\ UNCHANGED <<flag, sent, after, network>>
          /\ \E to \in {"loop", "make", "send", "wait", "done"} : pc' = [pc EXCEPT ![t] = to]
      BY <2>2 DEF Call, Loop, Make, Wait, Goto
    <3>. QED
      BY <3>1
  <2>3. ASSUME NEW t \in Thread, Send(t) PROVE SendersTypeOK'
    <3>1. flag' = flag /\ pc' = [pc EXCEPT ![t] = "wait"]
      BY <2>3 DEF Send, Goto
    <3>2. sent' \in Nat /\ network' \in Nat
      BY <2>3 DEF Send
    <3>3. after' \in [Thread -> Nat]
      BY <2>3 DEF Send
    <3>. QED
      BY <3>1, <3>2, <3>3
  <2>. QED
    BY <2>1, <2>2, <2>3 DEF Sender
<1>5. KeeperInv'
  <2> SUFFICES ASSUME NEW k \in Keeper
               PROVE  after'[k] + (IF flag' THEN 0 ELSE Making(k)') <= (IF flag' THEN 0 ELSE 1)
    BY DEF KeeperInv
  <2>1. /\ k \in Thread /\ after[k] \in Nat /\ flag \in BOOLEAN
        /\ after[k] + (IF flag THEN 0 ELSE Making(k)) <= (IF flag THEN 0 ELSE 1)
    BY DEF IInv, TypeOK, SendersTypeOK, KeeperInv, Thread
  <2>2. CASE StopSending
    BY <2>1, <2>2 DEF StopSending, Making
  <2>3. ASSUME NEW t \in Thread, Call(t) \/ Sender(t), t # k
        PROVE  after'[k] + (IF flag' THEN 0 ELSE Making(k)') <= (IF flag' THEN 0 ELSE 1)
    <3>1. flag' = flag /\ after'[k] = after[k] /\ pc'[k] = pc[k]
      BY <2>1, <2>3 DEF IInv, TypeOK, SendersTypeOK, Call, Sender, Loop, Make, Send, Wait, Goto
    <3>. QED
      BY <2>1, <3>1 DEF Making
  <2>4. CASE Call(k) \/ Sender(k)
    <3>1. flag' = flag
      BY <2>4 DEF Call, Sender, Loop, Make, Send, Wait
    <3>2. CASE Call(k)
      BY <2>1, <3>1, <3>2 DEF IInv, TypeOK, SendersTypeOK, Call, Goto, Making
    <3>3. CASE Loop(k)
      BY <2>1, <3>1, <3>3 DEF IInv, TypeOK, SendersTypeOK, Loop, Goto, Making
    <3>4. CASE Make(k)
      BY <2>1, <3>1, <3>4 DEF IInv, TypeOK, SendersTypeOK, Make, Goto, Making
    <3>5. CASE Send(k)
      BY <2>1, <3>1, <3>5 DEF IInv, TypeOK, SendersTypeOK, Send, Goto, Making
    <3>6. CASE Wait(k)
      BY <2>1, <3>1, <3>6 DEF IInv, TypeOK, SendersTypeOK, Wait, Goto, Making
    <3>. QED
      BY <2>4, <3>2, <3>3, <3>4, <3>5, <3>6 DEF Sender
  <2>. QED
    BY <2>2, <2>3, <2>4
<1>6. RecordedOnce'
  <2>1. (sent' = sent /\ network' = network) \/ (sent' = sent + 1 /\ network' = network + 1)
    BY DEF IInv, TypeOK, SendersTypeOK, StopSending, Call, Sender, Loop, Make, Send, Wait
  <2>2. sent' \in Nat /\ network' \in Nat /\ sent \in Nat /\ network \in Nat
    BY <1>4 DEF IInv, TypeOK, SendersTypeOK
  <2>3. TotalOf(received) \in Nat /\ TotalOf(pipe) \in Nat /\ recorded \in Nat /\ out \in Nat
    BY TotalIsNat DEF IInv, TypeOK, ReceiversTypeOK, StopTypeOK
  <2>4. TotalOf(received') = TotalOf(received) /\ TotalOf(pipe') = TotalOf(pipe)
    BY <1>3
  <2>. QED
    BY <1>3, <2>1, <2>2, <2>3, <2>4, TotalsNext DEF IInv, RecordedOnce
<1>. QED
  BY <1>2, <1>4, <1>5, <1>6 DEF IInv, TypeOK

(* What is received is one file less in the network, and a line more in    *)
(* the pipe, or none.                                                      *)
LEMMA DeliverStep == ASSUME IInv, NEW p \in Receiver, Deliver(p) PROVE IInv'
<1> USE DEF IInv, TypeOK
<1>1. /\ UNCHANGED <<flag, pc, sent, after, process_dtncpd, proc>>
      /\ UNCHANGED <<stop, waits, out, recorded, started>>
      /\ network > 0 /\ network' = network - 1 /\ proc[p] = "running" /\ p \notin blocked
      /\ received' = [received EXCEPT ![p] = received[p] + 1]
  BY DEF Deliver, sending, stopping
<1>2. \/ pipe' = [pipe EXCEPT ![p] = pipe[p] + 1] /\ blocked' = blocked
      \/ blocked' = blocked \cup {p} /\ pipe' = pipe
  BY DEF Deliver
<1>3. SendersTypeOK' /\ ReceiversTypeOK' /\ StopTypeOK'
  BY <1>1, <1>2 DEF SendersTypeOK, ReceiversTypeOK, StopTypeOK
<1>4. KeeperInv'
  BY <1>1 DEF KeeperInv, Making
<1>5. PipeInv'
  <2> SUFFICES ASSUME NEW q \in Receiver
               PROVE  /\ proc'[q] # "collected" => received'[q] = pipe'[q] + Waiting(q)'
                      /\ q \in blocked' => proc'[q] # "new"
    BY DEF PipeInv
  <2>1. CASE q = p
    <3>1. received[p] = pipe[p] /\ received'[p] = received[p] + 1
      BY <1>1 DEF PipeInv, Waiting, ReceiversTypeOK
    <3>2. pipe'[p] + Waiting(p)' = pipe[p] + 1
      BY <1>1, <1>2 DEF Waiting, ReceiversTypeOK
    <3>. QED
      BY <1>1, <2>1, <3>1, <3>2
  <2>2. CASE q # p
    <3>1. received'[q] = received[q] /\ pipe'[q] = pipe[q] /\ (q \in blocked' <=> q \in blocked)
      BY <1>1, <1>2, <2>2 DEF ReceiversTypeOK
    <3>. QED
      BY <1>1, <3>1 DEF PipeInv, Waiting
  <2>. QED
    BY <2>1, <2>2
<1>6. StopInv'
  <2>1. ASSUME process_dtncpd # p
        PROVE  /\ received'[process_dtncpd] = received[process_dtncpd]
               /\ Waiting(process_dtncpd)' = Waiting(process_dtncpd)
    BY <1>1, <1>2, <2>1 DEF Waiting, ReceiversTypeOK
  <2>2. ~ started /\ stop = "poll" => process_dtncpd # p
    BY <1>1 DEF StopInv
  <2>. QED
    BY <1>1, <2>1, <2>2 DEF StopInv
<1>7. RecordedOnce'
  <2>1. TotalOf(received') = TotalOf(received) + 1 /\ TotalOf(received) \in Nat
    <3>1. received' \in [Receiver -> Nat] /\ received'[p] = received[p] + 1 /\ received[p] \in Nat
          /\ \A x \in Receiver \ {p} : received'[x] = received[x]
      BY <1>1, <1>3 DEF ReceiversTypeOK
    <3>2. /\ TotalOf(received) \in Nat /\ TotalOf(received') \in Nat
          /\ TotalOf(received') + received[p] = TotalOf(received) + received'[p]
      BY <3>1, TotalChange DEF ReceiversTypeOK
    <3>. QED
      BY <3>1, <3>2
  <2>2. TotalOf(pipe') <= TotalOf(pipe) + 1 /\ TotalOf(pipe) \in Nat /\ TotalOf(pipe') \in Nat
    <3>1. CASE pipe' = [pipe EXCEPT ![p] = pipe[p] + 1]
      <4>1. pipe' \in [Receiver -> Nat] /\ pipe'[p] = pipe[p] + 1 /\ pipe[p] \in Nat
            /\ \A x \in Receiver \ {p} : pipe'[x] = pipe[x]
        BY <1>3, <3>1 DEF ReceiversTypeOK
      <4>2. /\ TotalOf(pipe) \in Nat /\ TotalOf(pipe') \in Nat
            /\ TotalOf(pipe') + pipe[p] = TotalOf(pipe) + pipe'[p]
        BY <4>1, TotalChange DEF ReceiversTypeOK
      <4>. QED
        BY <4>1, <4>2
    <3>2. CASE pipe' = pipe
      BY <3>2, TotalIsNat DEF ReceiversTypeOK
    <3>. QED
      BY <1>2, <3>1, <3>2
  <2>3. /\ recorded' = recorded /\ out' = out /\ sent' = sent /\ network' = network - 1
        /\ recorded \in Nat /\ out \in Nat /\ sent \in Nat /\ network \in Nat
    BY <1>1 DEF SendersTypeOK, StopTypeOK
  <2>. QED
    BY <2>1, <2>2, <2>3, TotalsNext DEF RecordedOnce
<1>. QED
  BY <1>3, <1>4, <1>5, <1>6, <1>7

(* The steps that leave what was sent, received and told as it is.         *)
LEMMA SameTotals ==
  ASSUME IInv, UNCHANGED <<flag, pc, sent, after, network, received, blocked>>
  PROVE  /\ SendersTypeOK' /\ KeeperInv'
         /\ received' \in [Receiver -> Nat] /\ blocked' \subseteq Receiver
         /\ pipe' = pipe /\ recorded' = recorded /\ out' = out => RecordedOnce'
BY DEF IInv, TypeOK, SendersTypeOK, ReceiversTypeOK, KeeperInv, Making, RecordedOnce

LEMMA StartStep == ASSUME IInv, NEW p \in Receiver, StartRecv(p) PROVE IInv'
<1> USE DEF IInv, TypeOK
<1>1. /\ UNCHANGED <<flag, pc, sent, after, network, received, blocked, pipe>>
      /\ UNCHANGED <<stop, waits, out, recorded>>
      /\ proc[p] = "new" /\ proc' = [proc EXCEPT ![p] = "running"] /\ process_dtncpd' = p
      /\ started' = (started \/ stop # "idle")
  BY DEF StartRecv, sending
<1>2. SendersTypeOK' /\ KeeperInv' /\ RecordedOnce'
  BY <1>1, SameTotals
<1>3. ReceiversTypeOK' /\ StopTypeOK'
  BY <1>1 DEF ReceiversTypeOK, StopTypeOK
<1>4. PipeInv'
  BY <1>1 DEF PipeInv, Waiting, ReceiversTypeOK
<1>5. StopInv'
  BY <1>1 DEF StopInv
<1>. QED
  BY <1>2, <1>3, <1>4, <1>5

(* The steps of stop_recv.                                                 *)
LEMMA StopperStep == ASSUME IInv, StopRecv \/ Stopper PROVE IInv'
<1> USE DEF IInv, TypeOK
<1>1. UNCHANGED <<flag, pc, sent, after, network, received, blocked, process_dtncpd>>
  BY DEF StopRecv, Stopper, Terminate, Communicate, Collect, Record, sending, receiving
<1>2. SendersTypeOK' /\ KeeperInv' /\ received' \in [Receiver -> Nat] /\ blocked' \subseteq Receiver
  BY <1>1, SameTotals
<1>3. CASE StopRecv
  <2>1. UNCHANGED <<proc, pipe, waits, out, recorded>> /\ stop' = "sleep" /\ started' = FALSE
    BY <1>3 DEF StopRecv, receiving
  <2>2. ReceiversTypeOK' /\ StopTypeOK' /\ PipeInv' /\ StopInv'
    BY <1>1, <2>1 DEF ReceiversTypeOK, StopTypeOK, PipeInv, StopInv, Waiting
  <2>. QED
    BY <1>1, <1>2, <2>1, <2>2, SameTotals
<1>4. CASE Terminate
  <2>1. UNCHANGED <<pipe, waits, out, recorded, started>>
    BY <1>4 DEF Terminate
  <2>2. \/ stop' = "idle" /\ proc' = proc
        \/ /\ process_dtncpd \in Receiver /\ proc[process_dtncpd] # "collected"
           /\ stop' = "communicate" /\ proc' = [proc EXCEPT ![process_dtncpd] = "ended"]
    BY <1>4 DEF Terminate, ReceiversTypeOK
  <2>3. ReceiversTypeOK' /\ StopTypeOK'
    BY <1>1, <2>1, <2>2 DEF ReceiversTypeOK, StopTypeOK
  <2>4. PipeInv'
    BY <1>1, <2>1, <2>2 DEF PipeInv, Waiting, ReceiversTypeOK
  <2>5. StopInv'
    BY <1>1, <2>1, <2>2 DEF StopInv, ReceiversTypeOK
  <2>. QED
    BY <1>1, <1>2, <2>1, <2>3, <2>4, <2>5, SameTotals
<1>5. CASE Communicate
  <2>1. /\ UNCHANGED <<proc, pipe, out, recorded, started>>
        /\ stop = "communicate" /\ waits' = process_dtncpd /\ stop' = "wait"
    BY <1>5 DEF Communicate, receiving
  <2>2. ReceiversTypeOK' /\ StopTypeOK' /\ PipeInv' /\ StopInv'
    BY <1>1, <2>1 DEF ReceiversTypeOK, StopTypeOK, PipeInv, StopInv, Waiting
  <2>. QED
    BY <1>1, <1>2, <2>1, <2>2, SameTotals
<1>6. CASE Collect
  <2>1. /\ UNCHANGED <<waits, recorded, started>> /\ stop = "wait" /\ stop' = "poll"
        /\ waits \in Receiver /\ proc[waits] = "ended"
        /\ proc' = [proc EXCEPT ![waits] = "collected"]
        /\ out' = pipe[waits] /\ pipe' = [pipe EXCEPT ![waits] = 0]
    BY <1>6 DEF Collect, StopInv
  <2>2. out' \in Nat /\ pipe' \in [Receiver -> Nat]
    BY <2>1 DEF ReceiversTypeOK
  <2>3. ReceiversTypeOK' /\ StopTypeOK'
    BY <1>1, <2>1, <2>2 DEF ReceiversTypeOK, StopTypeOK
  <2>4. PipeInv'
    BY <1>1, <2>1 DEF PipeInv, Waiting, ReceiversTypeOK
  <2>5. StopInv'
    <3>1. ~ started => waits = process_dtncpd
      BY <2>1 DEF StopInv
    <3>2. out' + Waiting(waits)' = received'[waits] /\ proc'[waits] = "collected"
      BY <1>1, <2>1 DEF PipeInv, Waiting, ReceiversTypeOK
    <3>3. process_dtncpd \in Receiver
      BY <2>1 DEF StopInv
    <3>. QED
      BY <1>1, <2>1, <3>1, <3>2, <3>3 DEF StopInv, Waiting
  <2>6. RecordedOnce'
    <3>1. /\ TotalOf(pipe') + pipe[waits] = TotalOf(pipe)
          /\ TotalOf(pipe) \in Nat /\ TotalOf(pipe') \in Nat
      <4>1. pipe' \in [Receiver -> Nat] /\ pipe'[waits] = 0
            /\ \A x \in Receiver \ {waits} : pipe'[x] = pipe[x]
        BY <2>1, <2>2 DEF ReceiversTypeOK
      <4>2. /\ TotalOf(pipe) \in Nat /\ TotalOf(pipe') \in Nat
            /\ TotalOf(pipe') + pipe[waits] = TotalOf(pipe) + pipe'[waits]
        BY <2>1, <4>1, TotalChange DEF ReceiversTypeOK
      <4>. QED
        BY <4>1, <4>2
    <3>2. /\ pipe[waits] \in Nat /\ out \in Nat /\ recorded \in Nat
          /\ recorded' = recorded /\ out' = pipe[waits]
      BY <2>1 DEF ReceiversTypeOK, StopTypeOK
    <3>3. TotalOf(received') = TotalOf(received) /\ TotalOf(received) \in Nat
      BY <1>1, TotalIsNat DEF ReceiversTypeOK
    <3>4. sent' = sent /\ network' = network
      BY <1>1
    <3>. QED
      BY <3>1, <3>2, <3>3, <3>4, TotalsNext DEF RecordedOnce
  <2>. QED
    BY <1>2, <2>3, <2>4, <2>5, <2>6
<1>7. CASE Record
  <2>1. /\ UNCHANGED <<proc, pipe, started>> /\ stop = "poll" /\ stop' = "idle" /\ out' = 0
        /\ recorded' = recorded + out \/ recorded' = recorded
    BY <1>7 DEF Record, receiving
  <2>2. ReceiversTypeOK' /\ StopTypeOK' /\ PipeInv' /\ StopInv'
    BY <1>1, <2>1 DEF ReceiversTypeOK, StopTypeOK, PipeInv, StopInv, Waiting
  <2>3. RecordedOnce'
    <3>1. /\ recorded' \in Nat /\ out' \in Nat /\ recorded \in Nat /\ out \in Nat
          /\ (recorded' = recorded + out /\ out' = 0) \/ (recorded' = recorded /\ out' = 0)
      BY <2>1 DEF StopTypeOK
    <3>2. TotalOf(received) \in Nat /\ TotalOf(pipe) \in Nat
      BY TotalIsNat DEF ReceiversTypeOK
    <3>3. TotalOf(received') = TotalOf(received) /\ TotalOf(pipe') = TotalOf(pipe)
      BY <1>1, <2>1
    <3>4. sent' = sent /\ network' = network /\ sent \in Nat /\ network \in Nat
      BY <1>1 DEF SendersTypeOK
    <3>. QED
      BY <3>1, <3>2, <3>3, <3>4, TotalsNext DEF RecordedOnce
  <2>. QED
    BY <1>2, <2>2, <2>3
<1>. QED
  BY <1>3, <1>4, <1>5, <1>6, <1>7 DEF Stopper

LEMMA InvStep == IInv /\ [Next]_vars => IInv'
<1>1. IInv /\ UNCHANGED vars => IInv'
  BY DEF vars, sending, receiving, stopping, IInv, TypeOK, SendersTypeOK, ReceiversTypeOK,
     StopTypeOK, KeeperInv, Making, PipeInv, Waiting, StopInv, RecordedOnce
<1>. QED
  BY <1>1, SenderStep, DeliverStep, StartStep, StopperStep DEF Next

LEMMA Invariant == Spec => []IInv
BY InitInv, InvStep, PTL DEF Spec

-----------------------------------------------------------------------------
(* keep_sending (DTN_send_recv.py) tests its flag between two files: after *)
(* stop_sending each call sends the file it is making and no other, for    *)
(* any number of calls, files in a batch and rounds.                       *)
THEOREM OneFileMore == Spec => []OneFileAfterStop
<1>1. IInv => OneFileAfterStop
  <2> SUFFICES ASSUME IInv, NEW t \in Keeper PROVE after[t] <= 1
    BY DEF OneFileAfterStop
  <2>. QED
    BY DEF IInv, TypeOK, SendersTypeOK, KeeperInv, Making, Thread
<1>. QED
  BY <1>1, Invariant, PTL

(* stop_recv reads the pipe of a receiver once: however receivers are      *)
(* started and stopped, no received file has two records, and files are    *)
(* sent, in the network, or received.                                      *)
THEOREM NoFileRecordedTwice == Spec => []RecordedOnce
<1>1. IInv => RecordedOnce
  BY DEF IInv
<1>. QED
  BY <1>1, Invariant, PTL

(* What stop_recv records is all its receiver received but the file it     *)
(* could not write a line about, unless another receiver was started while *)
(* stop_recv slept or waited.                                              *)
THEOREM AllButOneRecorded == Spec => StopRecords
<1>1. IInv /\ [Next]_vars
      => [Record /\ ~ started => recorded' >= recorded + received[process_dtncpd] - 1]_vars
  <2> SUFFICES ASSUME IInv, Record, ~ started
               PROVE  recorded' >= recorded + received[process_dtncpd] - 1
    OBVIOUS
  <2>1. /\ process_dtncpd \in Receiver /\ proc[process_dtncpd] = "collected"
        /\ out + Waiting(process_dtncpd) = received[process_dtncpd]
    BY DEF Record, IInv, StopInv
  <2>2. recorded' = recorded + out
    BY <2>1 DEF Record
  <2>3. recorded \in Nat /\ out \in Nat
    BY DEF IInv, TypeOK, StopTypeOK
  <2>. QED
    BY <2>1, <2>2, <2>3 DEF Waiting
<1>. QED
  BY <1>1, Invariant, PTL DEF Spec, StopRecords

=============================================================================

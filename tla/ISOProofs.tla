------------------------------ MODULE ISOProofs ------------------------------
(***************************************************************************)
(* Proofs about module ISO, for any number of generators, demand-response  *)
(* units and rounds, any bound on the silence and any amounts of power.    *)
(***************************************************************************)
EXTENDS ISO, FiniteSetTheorems, WellFoundedInduction, TLAPS

(* The loop takes the least of what it has to visit: there is one.         *)
LEMMA LeastIsMember ==
  ASSUME NEW S, S \subseteq Gen, S # {}
  PROVE  Least(S) \in S
<1> DEFINE R == OpToRel(<, Nat)
<1>1. S \subseteq Nat
  BY ISOAssumption DEF Gen
<1>2. R = {p \in Nat \X Nat : p[1] < p[2]}
  BY DEF OpToRel
<1>3. \A x, y \in Nat : <<x, y>> \in R <=> x < y
  BY <1>2
<1>4. IsWellFoundedOn(R, Nat)
  BY NatLessThanWellFounded
<1> HIDE DEF R
<1>5. PICK x \in S : \A y \in S : ~ (<<y, x>> \in R)
  BY <1>1, <1>4, WFMin
<1>6. \A y \in S : x <= y
  <2> SUFFICES ASSUME NEW y \in S PROVE x <= y
    OBVIOUS
  <2>1. x \in Nat /\ y \in Nat
    BY <1>1
  <2>2. ~ (y < x)
    BY <1>3, <1>5, <2>1
  <2>. QED
    BY <2>1, <2>2
<1>. QED
  BY <1>6 DEF Least

(* A round is an index of the arrays, and so is the next one.              *)
LEMMA SlotOfRound ==
  ASSUME NEW j \in Rounds
  PROVE  j \in Slots /\ j + 1 \in Slots /\ j \in Int
BY ISOAssumption DEF Rounds, Slots

\* TypeOK, and what makes it inductive.
TypeInv == TypeOK /\ LoopInv

(* What the streams of one client hold.                                    *)
LEMMA StreamTypes ==
  ASSUME TypeOK, NEW c \in Client
  PROVE  /\ dispatch[c] \in Seq(Dispatch) /\ reply[c] \in Seq(Reply)
         /\ msg[c] \in Reply /\ msg[c].k \in Rounds /\ msg[c].pg \in Int
         /\ \A i \in DOMAIN dispatch[c] : dispatch[c][i].k \in Rounds
         /\ \A i \in DOMAIN reply[c] : reply[c][i].k \in Rounds
<1>1. dispatch[c] \in Seq(Dispatch) /\ reply[c] \in Seq(Reply) /\ msg[c] \in Reply
  BY DEF TypeOK, CommTypeOK
<1>2. \A d \in Dispatch : d.k \in Rounds
  BY DEF Dispatch
<1>3. \A r \in Reply : r.k \in Rounds /\ r.pg \in Int
  BY DEF Reply
<1>. QED
  BY <1>1, <1>2, <1>3

(* Within a round there is a column for it, and one for the next.          *)
LEMMA InRound ==
  ASSUME TypeInv, sim \in {"pg", "pdr", "sleep", "freq", "remove"}
  PROVE  k \in Rounds /\ k + 1 \in Slots /\ k \in Nat
<1>1. k \in 0 .. NIter /\ k < NIter /\ NIter \in Nat
  BY ISOAssumption DEF TypeInv, TypeOK, LoopInv, Slots
<1>. QED
  BY <1>1 DEF Rounds, Slots

(* A computed column has an entry for every generator.                     *)
LEMMA GetFullType ==
  ASSUME TypeOK, NEW x \in [Gen -> Power]
  PROVE  GetFull(x) \in [Gen -> Int]
<1>1. \A g \in Gen : x[g] \in Int
  BY ISOAssumption
<1>. QED
  BY <1>1 DEF GetFull

(* The steps of the loop keep the types.                                   *)
LEMMA SimStepTypes ==
  ASSUME TypeInv, RunAgent \/ SimStep
  PROVE  TypeInv'
<1>1. CASE RunAgent
  BY <1>1, ISOAssumption DEF RunAgent, TypeInv, TypeOK, CommTypeOK, LoopInv, marketVars, heardVars, respVars, commVars
<1>2. CASE EndLoop
  BY <1>2 DEF EndLoop, TypeInv, TypeOK, CommTypeOK, LoopInv, marketVars, heardVars, respVars, commVars
<1>3. CASE BeginRound
  <2>1. P_G' \in [Gen -> Int] /\ lastHeard' \in [Gen -> Nat]
    BY <1>3 DEF BeginRound, TypeInv, TypeOK
  <2>2. todo' \subseteq Client /\ todo' \subseteq Gen /\ k' < NIter
    BY <1>3, ISOAssumption DEF BeginRound, TypeInv, TypeOK, Slots
  <2>. QED
    BY <1>3, <2>1, <2>2 DEF BeginRound, TypeInv, TypeOK, CommTypeOK, LoopInv, respVars, commVars
<1>4. CASE SendPg
  <2> DEFINE g == Least(todo)
  <2>1. g \in Gen /\ g \in Client
    BY <1>4, LeastIsMember, ISOAssumption DEF SendPg, TypeInv, LoopInv
  <2>2. [k |-> k, pg |-> P_G[g]] \in Dispatch
    <3>1. k \in Rounds /\ P_G[g] \in Int
      BY <1>4, <2>1, InRound DEF SendPg, TypeInv, TypeOK
    <3>. QED
      BY <3>1 DEF Dispatch
  <2>3. CommTypeOK(Dispatch, Reply)'
    <3>1. CASE SendData(g, [k |-> k, pg |-> P_G[g]])
      BY <3>1, <2>1, <2>2 DEF SendData, TypeInv, TypeOK, CommTypeOK
    <3>2. CASE UNCHANGED commVars
      BY <3>2 DEF commVars, TypeInv, TypeOK, CommTypeOK
    <3>. QED
      BY <1>4, <3>1, <3>2 DEF SendPg
  <2>4. /\ sim' \in {"pg", "died"} /\ todo' \subseteq Client
        /\ todo' \subseteq todo
    BY <1>4 DEF SendPg, TypeInv, TypeOK
  <2>. QED
    BY <1>4, <2>3, <2>4 DEF SendPg, TypeInv, TypeOK, LoopInv, marketVars, heardVars, respVars
<1>5. CASE EndSendPg
  <2>1. todo' \subseteq Client
    BY <1>5, ISOAssumption DEF EndSendPg
  <2>. QED
    BY <1>5, <2>1 DEF EndSendPg, TypeInv, TypeOK, CommTypeOK, LoopInv, marketVars, heardVars, respVars, commVars
<1>6. CASE SendPdr
  <2>1. PICK d \in todo :
           /\ \/ SendData(d, [k |-> k, pg |-> 0]) /\ sim' = sim
              \/ ~ CanSend(d) /\ sim' = "died" /\ UNCHANGED commVars
           /\ todo' = todo \ {d}
    BY <1>6 DEF SendPdr
  <2>2. [k |-> k, pg |-> 0] \in Dispatch /\ d \in Client
    <3>1. k \in Rounds /\ d \in Client
      BY <1>6, InRound DEF SendPdr, TypeInv, TypeOK
    <3>. QED
      BY <3>1 DEF Dispatch
  <2>3. CommTypeOK(Dispatch, Reply)'
    <3>1. CASE SendData(d, [k |-> k, pg |-> 0])
      BY <3>1, <2>2 DEF SendData, TypeInv, TypeOK, CommTypeOK
    <3>2. CASE UNCHANGED commVars
      BY <3>2 DEF commVars, TypeInv, TypeOK, CommTypeOK
    <3>. QED
      BY <2>1, <3>1, <3>2
  <2>4. sim' \in {"pdr", "died"} /\ todo' \subseteq Client /\ todo' \subseteq todo
    BY <1>6, <2>1 DEF SendPdr, TypeInv, TypeOK
  <2>. QED
    BY <1>6, <2>3, <2>4 DEF SendPdr, TypeInv, TypeOK, LoopInv, marketVars, heardVars, respVars
<1>7. CASE SendTheta
  BY <1>7 DEF SendTheta, TypeInv, TypeOK, CommTypeOK, LoopInv, marketVars, heardVars, respVars, commVars
<1>8. CASE TakeGradients
  <2>1. grad_f' \in [Rounds -> [Client -> Rounds \cup {-1}]]
    BY <1>8 DEF TakeGradients, TypeInv, TypeOK
  <2>. QED
    BY <1>8, <2>1 DEF TakeGradients, TypeInv, TypeOK, CommTypeOK, LoopInv, marketVars, respVars, commVars
<1>9. CASE CheckFrequency
  <2>1. todo' \subseteq Client /\ todo' \subseteq Gen
    BY <1>9, ISOAssumption DEF CheckFrequency, ErrorGens
  <2>. QED
    BY <1>9, <2>1 DEF CheckFrequency, TypeInv, TypeOK, CommTypeOK, LoopInv, marketVars, heardVars, respVars, commVars
<1>10. CASE RemoveNext
  <2> DEFINE g == Least(todo)
  <2>1. g \in Gen /\ k \in Rounds /\ RemoveGenerator(g)
    BY <1>10, LeastIsMember, InRound DEF RemoveNext, TypeInv, LoopInv
  <2> HIDE DEF g
  <2>2. CASE ~ statusGens[g]
    BY <1>10, <2>1, <2>2
       DEF RemoveNext, RemoveGenerator, TypeInv, TypeOK, CommTypeOK, LoopInv, marketVars, heardVars, respVars, commVars
  <2>3. CASE statusGens[g]
    <3>1. /\ statusGens' \in [Gen -> BOOLEAN]
          /\ inactivePgLoad' \in [Gen -> Int]
          /\ removedAt' \in [Gen -> Rounds \cup {-1}]
          /\ xi' = xi /\ P_G' = P_G
      BY <2>1, <2>3 DEF RemoveGenerator, TypeInv, TypeOK
    <3>3. config' \subseteq Gen /\ sim' \in {"remove", "died"}
      BY <1>10, <2>1, <2>3 DEF RemoveNext, RemoveGenerator, TypeInv, TypeOK
    <3>2. todo' \subseteq Client /\ todo' \subseteq todo
      BY <1>10 DEF RemoveNext, TypeInv, TypeOK
    <3>. QED
      BY <1>10, <3>1, <3>2, <3>3
         DEF RemoveNext, TypeInv, TypeOK, CommTypeOK, LoopInv, heardVars, respVars, commVars
  <2>. QED
    BY <2>2, <2>3
<1>11. CASE Compute
  <2>1. k + 1 \in Slots
    BY <1>11, InRound DEF Compute
  <2>2. \A x \in [Gen -> Power] : GetFull(x) \in [Gen -> Int]
    BY GetFullType DEF TypeInv
  <2>3. /\ xi' \in [Slots -> [Gen -> Int]] /\ k' \in Slots /\ sim' \in {"top", "died"}
    BY <1>11, <2>1, <2>2 DEF Compute, TypeInv, TypeOK
  <2>. QED
    BY <1>11, <2>3 DEF Compute, TypeInv, TypeOK, CommTypeOK, LoopInv, heardVars, respVars, commVars
<1>. QED
  BY <1>1, <1>2, <1>3, <1>4, <1>5, <1>6, <1>7, <1>8, <1>9, <1>10, <1>11 DEF SimStep

(* So do the steps of the threads that handle the replies.                 *)
LEMMA ResponseTypes ==
  ASSUME TypeInv, NEW c \in Client, Response(c)
  PROVE  TypeInv'
<1>1. CASE ReceiveGradF(c)
  <2>1. reply[c] # << >> /\ Head(reply[c]) \in Reply /\ Head(reply[c]).k \in Rounds
        /\ Tail(reply[c]) \in Seq(Reply)
    <3>1. reply[c] # << >> /\ reply[c] \in Seq(Reply)
      BY <1>1, StreamTypes DEF ReceiveGradF, ServerRecv, TypeInv
    <3>2. Head(reply[c]) \in Reply /\ Tail(reply[c]) \in Seq(Reply)
      BY <3>1
    <3>. QED
      BY <3>1, <3>2 DEF Reply
  <2>2. CommTypeOK(Dispatch, Reply)'
    BY <1>1, <2>1 DEF ReceiveGradF, ServerRecv, GoesOn, TypeInv, TypeOK, CommTypeOK
  <2>3. NoMsg \in Reply
    BY ISOAssumption DEF NoMsg, Reply, Rounds
  <2>4. msg' \in [Client -> Reply]
    BY <1>1, <2>1, <2>3 DEF ReceiveGradF, TypeInv, TypeOK
  <2>5. /\ grad_f_current' \in [Client -> Rounds \cup {-1}]
        /\ hpc' \in [Client -> {"idle", "pg", "heard"}]
    BY <1>1, <2>1 DEF ReceiveGradF, TypeInv, TypeOK
  <2>. QED
    BY <1>1, <2>2, <2>4, <2>5 DEF ReceiveGradF, TypeInv, TypeOK, LoopInv, simVars, marketVars
<1>2. CASE DropMerged(c)
  <2>1. PICK n \in 2 .. Len(reply[c]) :
           reply' = [reply EXCEPT ![c] = SubSeq(@, n + 1, Len(@))]
    BY <1>2 DEF DropMerged, ServerRecvMerged
  <2>2. SubSeq(reply[c], n + 1, Len(reply[c])) \in Seq(Reply)
    <3>1. reply[c] \in Seq(Reply) /\ n \in Nat
      BY StreamTypes DEF TypeInv
    <3>. QED
      BY <3>1
  <2>3. CommTypeOK(Dispatch, Reply)'
    BY <1>2, <2>1, <2>2 DEF DropMerged, ServerRecvMerged, GoesOn, TypeInv, TypeOK, CommTypeOK
  <2>. QED
    BY <1>2, <2>3 DEF DropMerged, TypeInv, TypeOK, LoopInv, isoVars, simVars, marketVars, heardVars, respVars
<1>3. CASE c \in Gen /\ ReceivePower(c)
  <2>1. msg[c].k \in Slots /\ msg[c].pg \in Int
    BY StreamTypes, SlotOfRound DEF TypeInv
  <2>2. xi' \in [Slots -> [Gen -> Int]] /\ hpc' \in [Client -> {"idle", "pg", "heard"}]
    BY <1>3, <2>1 DEF ReceivePower, TypeInv, TypeOK
  <2>. QED
    BY <1>3, <2>2 DEF ReceivePower, TypeInv, TypeOK, LoopInv, CommTypeOK, commVars, simVars, heardVars
<1>4. CASE c \in Gen /\ MarkHeard(c)
  <2>1. NoMsg \in Reply
    BY ISOAssumption DEF NoMsg, Reply, Rounds
  <2>2. /\ lastHeard' \in [Gen -> Nat] /\ msg' \in [Client -> Reply]
        /\ hpc' \in [Client -> {"idle", "pg", "heard"}]
    BY <1>4, <2>1 DEF MarkHeard, TypeInv, TypeOK
  <2>. QED
    BY <1>4, <2>2 DEF MarkHeard, TypeInv, TypeOK, LoopInv, CommTypeOK, commVars, simVars, marketVars
<1>. QED
  BY <1>1, <1>2, <1>3, <1>4 DEF Response

(* And the steps of the service, the operator and the grid.                *)
LEMMA OtherTypes ==
  ASSUME TypeInv, StopAgent \/ Stop \/ Connection \/ GridNotice
  PROVE  TypeInv'
<1>1. CASE StopAgent
  BY <1>1 DEF StopAgent, TypeInv, TypeOK, LoopInv, CommTypeOK, commVars, marketVars, heardVars, respVars
<1>2. CASE Stop
  BY <1>2 DEF Stop, CommStop, TypeInv, TypeOK, LoopInv, CommTypeOK, isoVars, simVars, marketVars, heardVars, respVars
<1>3. CASE Connection
  <2>1. CommTypeOK(Dispatch, Reply)'
    <3>1. CASE InitCommServer
      BY <3>1 DEF InitCommServer, TypeInv, TypeOK, CommTypeOK
    <3>2. ASSUME NEW c \in Client, InitCommClient(c) PROVE CommTypeOK(Dispatch, Reply)'
      BY <3>2 DEF InitCommClient, TypeInv, TypeOK, CommTypeOK
    <3>3. ASSUME NEW c \in Client, AcceptClient(c) PROVE CommTypeOK(Dispatch, Reply)'
      BY <3>3 DEF AcceptClient, TypeInv, TypeOK, CommTypeOK
    <3>4. ASSUME NEW c \in Client, ServerHandlerLeaves(c) PROVE CommTypeOK(Dispatch, Reply)'
      BY <3>4 DEF ServerHandlerLeaves, TypeInv, TypeOK, CommTypeOK
    <3>. QED
      BY <1>3, <3>1, <3>2, <3>3, <3>4 DEF Connection
  <2>. QED
    BY <1>3, <2>1 DEF Connection, TypeInv, TypeOK, LoopInv, isoVars, simVars, marketVars, heardVars, respVars
<1>4. CASE GridNotice
  BY <1>4 DEF GridNotice, ReceiveFreqErrorNotice, TypeInv, TypeOK, LoopInv, CommTypeOK, commVars, simVars, marketVars, heardVars, respVars
<1>. QED
  BY <1>1, <1>2, <1>3, <1>4

(* And a client that answers.                                              *)
LEMMA AnswerTypes ==
  ASSUME TypeInv, NEW c \in Client, ClientAnswers(c)
  PROVE  TypeInv'
<1>1. dispatch[c] # << >> /\ dispatch[c] \in Seq(Dispatch) /\ reply[c] \in Seq(Reply)
  BY StreamTypes DEF TypeInv, ClientAnswers
<1>2. Head(dispatch[c]) \in Dispatch /\ Tail(dispatch[c]) \in Seq(Dispatch)
  BY <1>1
<1>3. \A p \in Power : [k |-> Head(dispatch[c]).k, pg |-> p] \in Reply
  BY <1>2, ISOAssumption DEF Dispatch, Reply
<1>4. dispatch' \in [Client -> Seq(Dispatch)]
  BY <1>2 DEF ClientAnswers, TypeInv, TypeOK, CommTypeOK
<1>5. reply' \in [Client -> Seq(Reply)]
  <2>1. \A p \in Power : Append(reply[c], [k |-> Head(dispatch[c]).k, pg |-> p]) \in Seq(Reply)
    BY <1>1, <1>3
  <2>. QED
    BY <2>1 DEF ClientAnswers, TypeInv, TypeOK, CommTypeOK
<1>. QED
  BY <1>4, <1>5
     DEF ClientAnswers, TypeInv, TypeOK, LoopInv, CommTypeOK, isoVars, simVars, marketVars, heardVars, respVars

(* A type invariant that includes where the loop is.                       *)
LEMMA TypeStep == TypeInv /\ [Next]_vars => TypeInv'
<1>1. ASSUME TypeInv, UNCHANGED vars PROVE TypeInv'
  BY <1>1
     DEF TypeInv, TypeOK, LoopInv, CommTypeOK, vars, commVars, isoVars, simVars, marketVars, heardVars, respVars
<1>. QED
  BY <1>1, SimStepTypes, ResponseTypes, OtherTypes, AnswerTypes DEF Next, IsoStep

(* Every variable of the ISO keeps its type (iso.py): whatever the clients *)
(* answer and whenever, no thread ever indexes a vector outside the        *)
(* generators or a matrix outside its N_iter+1 columns, and the loop only  *)
(* ever visits clients it knows.                                           *)
THEOREM IsoTypeCorrect == Spec => [](TypeOK /\ LoopInv)
<1>1. IsoInit => TypeInv
  <2> SUFFICES ASSUME IsoInit PROVE TypeInv
    OBVIOUS
  <2>1. CommTypeOK(Dispatch, Reply)
    <3>1. << >> \in Seq(Dispatch) /\ << >> \in Seq(Reply)
      OBVIOUS
    <3>2. dispatch \in [Client -> Seq(Dispatch)] /\ reply \in [Client -> Seq(Reply)]
      BY <3>1 DEF IsoInit, CommInit
    <3>. QED
      BY <3>2 DEF IsoInit, CommInit, CommTypeOK
  <2>2. 0 \in Slots /\ 0 \in Rounds /\ Gen \subseteq Client
    BY ISOAssumption DEF Slots, Rounds
  <2>3. xi \in [Slots -> [Gen -> Int]]
    <3>1. PICK x \in [Gen -> Power] : xi = [j \in Slots |-> [g \in Gen |-> IF j = 0 THEN x[g] ELSE 0]]
      BY DEF IsoInit
    <3>2. \A g \in Gen : x[g] \in Int
      BY ISOAssumption
    <3>. QED
      BY <3>1, <3>2
  <2>4. P_G \in [Gen -> Int]
    BY <2>2, <2>3 DEF IsoInit
  <2>5. msg \in [Client -> Reply]
    BY <2>2 DEF IsoInit, NoMsg, Reply
  <2>6. /\ grad_f_current \in [Client -> Rounds \cup {-1}]
        /\ grad_f \in [Rounds -> [Client -> Rounds \cup {-1}]]
        /\ removedAt \in [Gen -> Rounds \cup {-1}]
    BY DEF IsoInit
  <2>7. /\ statusGens \in [Gen -> BOOLEAN] /\ inactivePgLoad \in [Gen -> Int]
        /\ lastHeard \in [Gen -> Nat] /\ hpc \in [Client -> {"idle", "pg", "heard"}]
    BY DEF IsoInit
  <2>. QED
    BY <2>1, <2>2, <2>3, <2>4, <2>5, <2>6, <2>7 DEF IsoInit, TypeInv, TypeOK, LoopInv
<1>. QED
  BY <1>1, TypeStep, PTL DEF Spec, TypeInv

-----------------------------------------------------------------------------
(* The streams of a client after a step.                                   *)

(* An element of an extended stream is an old one or the new one.          *)
LEMMA AppendElements ==
  ASSUME NEW S, NEW s \in Seq(S), NEW e \in S
  PROVE  \A i \in DOMAIN Append(s, e) :
           /\ i \in Nat \ {0}
           /\ \/ i \in DOMAIN s /\ Append(s, e)[i] = s[i]
              \/ i = Len(s) + 1 /\ Append(s, e)[i] = e
OBVIOUS

(* A stream whose first n elements are gone holds the ones behind them.    *)
LEMMA DropElements ==
  ASSUME NEW S, NEW s \in Seq(S), NEW n \in 1 .. Len(s)
  PROVE  \A i \in DOMAIN SubSeq(s, n + 1, Len(s)) :
           i \in Nat \ {0} /\ i + n \in DOMAIN s /\ SubSeq(s, n + 1, Len(s))[i] = s[i + n]
<1>1. n \in Nat /\ Len(s) \in Nat
  OBVIOUS
<1>. QED
  BY <1>1

(* The same of a stream without its first element.                         *)
LEMMA TailElements ==
  ASSUME NEW S, NEW s \in Seq(S), s # << >>
  PROVE  /\ 1 \in DOMAIN s /\ Head(s) = s[1]
         /\ \A i \in DOMAIN Tail(s) :
              i \in Nat \ {0} /\ i + 1 \in DOMAIN s /\ Tail(s)[i] = s[i + 1]
OBVIOUS

(* The round a client was last dispatched in is a round that has begun.    *)
LEMMA LastRoundType ==
  ASSUME TypeInv, CountInv, NEW c \in Client
  PROVE  LastRound(c) \in Int /\ LastRound(c) <= k /\ k \in Nat /\ k \in Int
<1>1. k \in Nat
  BY ISOAssumption DEF TypeInv, TypeOK, Slots
<1>. QED
  BY <1>1 DEF CountInv, LastRound

(* For a client whose streams and gradient a step leaves alone the bound   *)
(* still holds, if the bound does not sink.                                *)
LEMMA UpToLastKept ==
  ASSUME TypeInv, CountInv, NEW c \in Client,
         dispatch'[c] = dispatch[c], reply'[c] = reply[c], msg'[c] = msg[c],
         hpc'[c] = "pg" => hpc[c] = "pg", grad_f_current'[c] = grad_f_current[c],
         LastRound(c)' \in Int, LastRound(c) <= LastRound(c)'
  PROVE  UpToLastRound(c)'
<1>1. UpToLastRound(c)
  BY DEF CountInv
<1>2. /\ \A i \in DOMAIN dispatch[c] : dispatch[c][i].k \in Int
      /\ \A i \in DOMAIN reply[c] : reply[c][i].k \in Int
      /\ msg[c].k \in Int /\ grad_f_current[c] \in Int
  BY StreamTypes, SlotOfRound DEF TypeInv, TypeOK
<1>3. LastRound(c) \in Int
  BY LastRoundType
<1> DEFINE l == LastRound(c)
           m == LastRound(c)'
<1>4. \A n \in Int : n <= l => n <= m
  BY <1>3
<1>. QED
  BY <1>1, <1>2, <1>4 DEF UpToLastRound

(* Steps that touch neither a stream nor what is booked for a generator.   *)
LEMMA CountKept ==
  ASSUME TypeInv, CountInv,
         UNCHANGED <<k, xi, statusGens, inactivePgLoad, removedAt, dispatch, reply, msg, hpc, grad_f_current>>
  PROVE  CountInv'
<1>1. \A c \in Client : UpToLastRound(c)'
  BY DEF CountInv, UpToLastRound, LastRound
<1>. QED
  BY <1>1 DEF CountInv, CountedOnce

(* A dispatch of this round, to a client that is still dispatched to.      *)
LEMMA CountSend ==
  ASSUME TypeInv, CountInv, NEW c \in Client, NEW m \in Dispatch,
         SendData(c, m), m.k = k, LastRound(c) = k,
         UNCHANGED <<k, xi, statusGens, inactivePgLoad, removedAt, msg, hpc, grad_f_current>>
  PROVE  CountInv'
<1>1. \A d \in Client : LastRound(d)' = LastRound(d)
  BY DEF LastRound
<1>2. ASSUME NEW d \in Client PROVE UpToLastRound(d)'
  <2>1. CASE d # c
    <3>1. dispatch'[d] = dispatch[d] /\ reply'[d] = reply[d]
      BY <2>1 DEF SendData, TypeInv, TypeOK, CommTypeOK
    <3>2. LastRound(d) <= LastRound(d)' /\ LastRound(d)' \in Int
      BY <1>1, LastRoundType
    <3>. QED
      BY <3>1, <3>2, UpToLastKept
  <2>2. CASE d = c
    <3>1. /\ dispatch'[c] = Append(dispatch[c], m) /\ reply' = reply
          /\ dispatch[c] \in Seq(Dispatch)
      BY DEF SendData, TypeInv, TypeOK, CommTypeOK
    <3>2. UpToLastRound(c) /\ k \in Int
      BY LastRoundType DEF CountInv
    <3>3. \A i \in DOMAIN dispatch'[c] : dispatch'[c][i].k <= k
      BY <3>1, <3>2, AppendElements DEF UpToLastRound
    <3>. QED
      BY <1>1, <2>2, <3>1, <3>2, <3>3 DEF UpToLastRound
  <2>. QED
    BY <2>1, <2>2
<1>. QED
  BY <1>2 DEF CountInv, CountedOnce

(* The loop: a round that begins is empty beyond its own column, and a     *)
(* generator taken out in round k has been dispatched up to round k.       *)
LEMMA CountSimStep ==
  ASSUME TypeInv, CountInv, RunAgent \/ SimStep
  PROVE  CountInv'
<1>1. CASE RunAgent \/ EndLoop \/ BeginRound \/ EndSendPg \/ SendTheta \/ TakeGradients \/ CheckFrequency
  BY <1>1, CountKept
     DEF RunAgent, EndLoop, BeginRound, EndSendPg, SendTheta, TakeGradients, CheckFrequency,
         commVars, marketVars, heardVars, respVars
<1>2. CASE SendPg
  <2> DEFINE g == Least(todo)
             m == [k |-> k, pg |-> P_G[g]]
  <2>1. g \in Gen /\ g \in Client /\ k \in Rounds
    BY <1>2, LeastIsMember, InRound, ISOAssumption DEF SendPg, TypeInv, LoopInv
  <2>2. m \in Dispatch /\ m.k = k
    BY <2>1 DEF TypeInv, TypeOK, Dispatch
  <2>3. CASE UNCHANGED commVars
    BY <1>2, <2>3, CountKept DEF SendPg, commVars, marketVars, heardVars, respVars
  <2>4. CASE statusGens[g] /\ SendData(g, m)
    <3>1. LastRound(g) = k
      BY <2>4 DEF LastRound
    <3>. QED
      BY <1>2, <2>1, <2>2, <2>4, <3>1, CountSend DEF SendPg, marketVars, heardVars, respVars
  <2>. QED
    BY <1>2, <2>3, <2>4 DEF SendPg
<1>3. CASE SendPdr
  <2>1. PICK d \in todo :
           \/ SendData(d, [k |-> k, pg |-> 0])
           \/ UNCHANGED commVars
    BY <1>3 DEF SendPdr
  <2>2. [k |-> k, pg |-> 0] \in Dispatch /\ d \in Client
    BY <1>3, InRound DEF SendPdr, TypeInv, TypeOK, Dispatch
  <2>3. CASE UNCHANGED commVars
    BY <1>3, <2>3, CountKept DEF SendPdr, commVars, marketVars, heardVars, respVars
  <2>4. CASE SendData(d, [k |-> k, pg |-> 0])
    <3>1. LastRound(d) = k
      BY <1>3, ISOAssumption DEF SendPdr, TypeInv, LoopInv, LastRound
    <3>. QED
      BY <1>3, <2>2, <2>4, <3>1, CountSend DEF SendPdr, marketVars, heardVars, respVars
  <2>. QED
    BY <2>1, <2>3, <2>4
<1>4. CASE RemoveNext
  <2> DEFINE g == Least(todo)
  <2>1. g \in Gen /\ k \in Rounds /\ RemoveGenerator(g)
    BY <1>4, LeastIsMember, InRound DEF RemoveNext, TypeInv, LoopInv
  <2> HIDE DEF g
  <2>2. CASE ~ statusGens[g]
    BY <1>4, <2>1, <2>2, CountKept
       DEF RemoveNext, RemoveGenerator, commVars, marketVars, heardVars, respVars
  <2>3. CASE statusGens[g]
    <3>1. /\ statusGens' = [statusGens EXCEPT ![g] = FALSE]
          /\ removedAt' = [removedAt EXCEPT ![g] = k]
          /\ inactivePgLoad' = [inactivePgLoad EXCEPT ![g] = P_G[g]]
          /\ UNCHANGED <<xi, k, dispatch, reply, msg, hpc, grad_f_current>>
      BY <1>4, <2>1, <2>3 DEF RemoveNext, RemoveGenerator, commVars, heardVars, respVars
    <3>2. /\ statusGens'[g] = FALSE /\ removedAt'[g] = k
          /\ \A h \in Gen \ {g} : /\ statusGens'[h] = statusGens[h] /\ removedAt'[h] = removedAt[h]
                                 /\ inactivePgLoad'[h] = inactivePgLoad[h]
      BY <2>1, <3>1 DEF TypeInv, TypeOK
    <3>3. \A c \in Client : LastRound(c)' = LastRound(c)
      BY <2>3, <3>1, <3>2 DEF LastRound
    <3>4. ASSUME NEW c \in Client PROVE UpToLastRound(c)'
      BY <3>1, <3>3, <3>4, LastRoundType, UpToLastKept
    <3>5. k \in 0 .. k
      BY <2>1, ISOAssumption DEF Rounds
    <3>6. \A h \in Gen : ~ statusGens'[h] => removedAt'[h] \in 0 .. k'
      BY <3>1, <3>2, <3>5 DEF CountInv
    <3>7. ASSUME NEW h \in Gen
          PROVE  /\ statusGens'[h] => inactivePgLoad'[h] = 0 /\ removedAt'[h] = -1
                 /\ ~ statusGens'[h] => \A j \in removedAt'[h] + 1 .. NIter : xi'[j][h] = 0
      <4>1. CASE h # g
        BY <3>1, <3>2, <4>1 DEF CountInv, CountedOnce
      <4>2. CASE h = g
        <5>1. \A j \in k + 1 .. NIter : j \in Slots /\ j > k
          BY <2>1, ISOAssumption DEF Rounds, Slots
        <5>. QED
          BY <3>1, <3>2, <4>2, <5>1 DEF CountInv
      <4>. QED
        BY <4>1, <4>2
    <3>8. CountedOnce'
      BY <3>7 DEF CountedOnce
    <3>9. \A j \in Slots : \A h \in Gen : j > k' => xi'[j][h] = 0
      BY <3>1 DEF CountInv
    <3>. QED
      BY <3>4, <3>6, <3>8, <3>9 DEF CountInv
  <2>. QED
    BY <2>2, <2>3
<1>5. CASE Compute
  <2>1. CASE ~ ShapesFit
    BY <1>5, <2>1, CountKept DEF Compute, commVars, marketVars, heardVars, respVars
  <2>2. CASE ShapesFit
    <3>1. PICK x \in [Gen -> Power] : xi' = [xi EXCEPT ![k + 1] = GetFull(x)]
      BY <1>5, <2>2 DEF Compute
    <3>2. /\ k' = k + 1 /\ k \in Rounds /\ k + 1 \in Slots /\ k \in Nat
          /\ UNCHANGED <<statusGens, inactivePgLoad, removedAt, dispatch, reply, msg, hpc, grad_f_current>>
      BY <1>5, <2>2, InRound DEF Compute, commVars, heardVars, respVars
    <3>3. /\ xi'[k + 1] = GetFull(x)
          /\ \A j \in Slots : j # k + 1 => xi'[j] = xi[j]
      BY <3>1, <3>2 DEF TypeInv, TypeOK
    <3>4. \A c \in Client : LastRound(c) <= LastRound(c)' /\ LastRound(c)' \in Int
      <4> SUFFICES ASSUME NEW c \in Client PROVE LastRound(c) <= LastRound(c)' /\ LastRound(c)' \in Int
        OBVIOUS
      <4>1. LastRound(c) \in Int
        BY LastRoundType
      <4>. QED
        BY <3>2, <4>1 DEF LastRound
    <3>5. ASSUME NEW c \in Client PROVE UpToLastRound(c)'
      BY <3>2, <3>4, <3>5, UpToLastKept
    <3>6. \A j \in Slots : \A g \in Gen : j > k' => xi'[j][g] = 0
      <4>1. \A j \in Slots : j > k + 1 => j > k /\ j # k + 1
        BY <3>2 DEF Slots
      <4>. QED
        BY <3>2, <3>3, <4>1 DEF CountInv
    <3>7. \A g \in Gen : ~ statusGens'[g] => removedAt'[g] \in 0 .. k'
      BY <3>2 DEF CountInv
    <3>8. ASSUME NEW g \in Gen, ~ statusGens[g], NEW j \in removedAt[g] + 1 .. NIter
          PROVE  xi'[j][g] = 0
      <4>1. removedAt[g] \in 0 .. k
        BY <3>8 DEF CountInv
      <4>2. j \in Slots
        BY <3>2, <4>1, ISOAssumption DEF Slots
      <4>3. CASE j = k + 1
        BY <3>3, <3>8, <4>3 DEF GetFull
      <4>4. CASE j # k + 1
        BY <3>3, <3>8, <4>2, <4>4 DEF CountInv, CountedOnce
      <4>. QED
        BY <4>3, <4>4
    <3>9. CountedOnce'
      BY <3>2, <3>8 DEF CountedOnce, CountInv
    <3>. QED
      BY <3>5, <3>6, <3>7, <3>9 DEF CountInv
  <2>. QED
    BY <2>1, <2>2
<1>. QED
  BY <1>1, <1>2, <1>3, <1>4, <1>5 DEF SimStep

(* The replies: they are stored in columns of rounds the generator was     *)
(* still dispatched in.                                                    *)
LEMMA CountResponse ==
  ASSUME TypeInv, CountInv, NEW c \in Client, Response(c)
  PROVE  CountInv'
<1>1. \A d \in Client :
        LastRound(d)' = LastRound(d) /\ LastRound(d) <= LastRound(d)' /\ LastRound(d)' \in Int
  <2>1. UNCHANGED <<k, statusGens, removedAt>>
    BY DEF Response, ReceiveGradF, DropMerged, ReceivePower, MarkHeard, isoVars, simVars, marketVars
  <2>. QED
    BY <2>1, LastRoundType DEF LastRound
<1>2. UpToLastRound(c) /\ LastRound(c) \in Int
  BY LastRoundType DEF CountInv
<1>3. ASSUME NEW d \in Client, d # c PROVE UpToLastRound(d)'
  <2>1. /\ dispatch'[d] = dispatch[d] /\ reply'[d] = reply[d] /\ msg'[d] = msg[d]
        /\ hpc'[d] = hpc[d] /\ grad_f_current'[d] = grad_f_current[d]
    BY <1>3
       DEF Response, ReceiveGradF, ServerRecv, DropMerged, ServerRecvMerged, ReceivePower, MarkHeard,
           TypeInv, TypeOK, CommTypeOK, commVars, isoVars, heardVars, respVars
  <2>. QED
    BY <1>1, <2>1, UpToLastKept
<1>4. CASE ReceiveGradF(c)
  <2>1. /\ reply[c] \in Seq(Reply) /\ reply[c] # << >>
        /\ reply'[c] = Tail(reply[c]) /\ dispatch' = dispatch
        /\ grad_f_current'[c] = Head(reply[c]).k
        /\ msg'[c] = (IF c \in Gen THEN Head(reply[c]) ELSE NoMsg)
        /\ hpc'[c] = (IF c \in Gen THEN "pg" ELSE "idle")
        /\ UNCHANGED <<k, xi, statusGens, inactivePgLoad, removedAt>>
    BY <1>4 DEF ReceiveGradF, ServerRecv, TypeInv, TypeOK, CommTypeOK, simVars, marketVars
  <2>2. /\ 1 \in DOMAIN reply[c] /\ Head(reply[c]) = reply[c][1]
        /\ \A i \in DOMAIN reply'[c] : i + 1 \in DOMAIN reply[c] /\ reply'[c][i] = reply[c][i + 1]
    BY <2>1, TailElements
  <2>3. UpToLastRound(c)'
    BY <1>1, <1>2, <2>1, <2>2 DEF UpToLastRound
  <2>. QED
    BY <1>3, <2>1, <2>3 DEF CountInv, CountedOnce
<1>5. CASE DropMerged(c)
  <2>1. PICK n \in 2 .. Len(reply[c]) :
           reply' = [reply EXCEPT ![c] = SubSeq(@, n + 1, Len(@))]
    BY <1>5 DEF DropMerged, ServerRecvMerged
  <2>2. /\ reply[c] \in Seq(Reply) /\ n \in 1 .. Len(reply[c])
        /\ reply'[c] = SubSeq(reply[c], n + 1, Len(reply[c]))
        /\ UNCHANGED <<k, xi, statusGens, inactivePgLoad, removedAt, dispatch, msg, hpc, grad_f_current>>
    <3>1. reply[c] \in Seq(Reply) /\ reply \in [Client -> Seq(Reply)]
      BY DEF TypeInv, TypeOK, CommTypeOK
    <3>2. Len(reply[c]) \in Nat
      BY <3>1
    <3>3. UNCHANGED <<k, xi, statusGens, inactivePgLoad, removedAt, dispatch, msg, hpc, grad_f_current>>
      BY <1>5 DEF DropMerged, ServerRecvMerged, isoVars, simVars, marketVars, heardVars, respVars
    <3>. QED
      BY <2>1, <3>1, <3>2, <3>3
  <2>3. \A i \in DOMAIN reply'[c] : i + n \in DOMAIN reply[c] /\ reply'[c][i] = reply[c][i + n]
    BY <2>2, DropElements
  <2>4. UpToLastRound(c)'
    BY <1>1, <1>2, <2>2, <2>3 DEF UpToLastRound
  <2>. QED
    BY <1>3, <2>2, <2>4 DEF CountInv, CountedOnce
<1>6. CASE c \in Gen /\ ReceivePower(c)
  <2>1. /\ msg[c].k \in Slots /\ msg[c].k \in Int /\ msg[c].k <= LastRound(c)
        /\ xi' = [xi EXCEPT ![msg[c].k][c] = msg[c].pg]
        /\ UNCHANGED <<k, statusGens, inactivePgLoad, removedAt, dispatch, reply, msg, grad_f_current>>
    BY <1>2, <1>6, StreamTypes, SlotOfRound
       DEF ReceivePower, UpToLastRound, TypeInv, commVars, simVars, heardVars
  <2>2. hpc'[c] = "heard"
    BY <1>6 DEF ReceivePower, TypeInv, TypeOK
  <2>3. UpToLastRound(c)'
    BY <1>1, <2>1, <2>2, UpToLastKept
  <2>4. \A j \in Slots : \A g \in Gen : j # msg[c].k \/ g # c => xi'[j][g] = xi[j][g]
    BY <2>1 DEF TypeInv, TypeOK
  <2>5. \A j \in Slots : j \in Int
    BY DEF Slots
  <2>6. \A j \in Slots : \A g \in Gen : j > k' => xi'[j][g] = 0
    BY <2>1, <2>4, <2>5, LastRoundType DEF CountInv
  <2>7. ASSUME NEW g \in Gen, ~ statusGens[g], NEW j \in removedAt[g] + 1 .. NIter
        PROVE  xi'[j][g] = 0
    <3>1. removedAt[g] \in Nat /\ j \in Slots /\ j \in Int /\ j > removedAt[g]
      BY <2>7, ISOAssumption, LastRoundType DEF CountInv, Slots
    <3>2. xi[j][g] = 0
      BY <2>7 DEF CountInv, CountedOnce
    <3>3. g = c => j # msg[c].k
      BY <2>1, <2>7, <3>1 DEF LastRound
    <3>. QED
      BY <2>4, <3>1, <3>2, <3>3
  <2>8. CountedOnce'
    BY <2>1, <2>7 DEF CountedOnce, CountInv
  <2>. QED
    BY <1>3, <2>1, <2>3, <2>6, <2>8 DEF CountInv
<1>7. CASE c \in Gen /\ MarkHeard(c)
  <2>1. /\ hpc'[c] = "idle"
        /\ UNCHANGED <<k, xi, statusGens, inactivePgLoad, removedAt, dispatch, reply, grad_f_current>>
    BY <1>7 DEF MarkHeard, TypeInv, TypeOK, commVars, simVars, marketVars
  <2>2. UpToLastRound(c)'
    BY <1>1, <1>2, <2>1 DEF UpToLastRound
  <2>. QED
    BY <1>3, <2>1, <2>2 DEF CountInv, CountedOnce
<1>. QED
  BY <1>4, <1>5, <1>6, <1>7 DEF Response

(* A client answers for the round of the message it takes.                 *)
LEMMA CountAnswer ==
  ASSUME TypeInv, CountInv, NEW c \in Client, ClientAnswers(c)
  PROVE  CountInv'
<1>1. /\ dispatch[c] \in Seq(Dispatch) /\ dispatch[c] # << >> /\ reply[c] \in Seq(Reply)
      /\ dispatch'[c] = Tail(dispatch[c])
      /\ UNCHANGED isoVars
      /\ \A d \in Client : d # c => dispatch'[d] = dispatch[d] /\ reply'[d] = reply[d]
  BY DEF ClientAnswers, TypeInv, TypeOK, CommTypeOK
<1>2. UNCHANGED <<k, xi, statusGens, inactivePgLoad, removedAt, msg, hpc, grad_f_current>>
  BY <1>1 DEF isoVars, simVars, marketVars, heardVars, respVars
<1>3. \A d \in Client :
        LastRound(d)' = LastRound(d) /\ LastRound(d) <= LastRound(d)' /\ LastRound(d)' \in Int
  BY <1>2, LastRoundType DEF LastRound
<1>4. ASSUME NEW d \in Client, d # c PROVE UpToLastRound(d)'
  BY <1>1, <1>2, <1>3, <1>4, UpToLastKept
<1>5. UpToLastRound(c)'
  <2>1. /\ 1 \in DOMAIN dispatch[c] /\ Head(dispatch[c]) = dispatch[c][1]
        /\ \A i \in DOMAIN dispatch'[c] : i + 1 \in DOMAIN dispatch[c] /\ dispatch'[c][i] = dispatch[c][i + 1]
    BY <1>1, TailElements
  <2>2. UpToLastRound(c)
    BY DEF CountInv
  <2>3. \A i \in DOMAIN reply'[c] : reply'[c][i].k <= LastRound(c)
    <3>1. CASE reply' = reply
      BY <2>2, <3>1 DEF UpToLastRound
    <3>2. CASE reply' # reply
      <4>1. PICK p \in Power : reply' = [reply EXCEPT ![c] = Append(@, [k |-> Head(dispatch[c]).k, pg |-> p])]
        BY <3>2 DEF ClientAnswers
      <4> DEFINE r == [k |-> Head(dispatch[c]).k, pg |-> p]
      <4>2. r \in Reply /\ r.k <= LastRound(c)
        <5>1. Head(dispatch[c]).k \in Rounds
          BY <2>1, StreamTypes DEF TypeInv
        <5>. QED
          BY <2>1, <2>2, <5>1, ISOAssumption DEF Reply, UpToLastRound
      <4>3. reply'[c] = Append(reply[c], r)
        BY <4>1 DEF TypeInv, TypeOK, CommTypeOK
      <4> HIDE DEF r
      <4>. QED
        BY <1>1, <2>2, <4>2, <4>3, AppendElements DEF UpToLastRound
    <3>. QED
      BY <3>1, <3>2
  <2>. QED
    BY <1>2, <1>3, <2>1, <2>2, <2>3 DEF UpToLastRound
<1>. QED
  BY <1>2, <1>4, <1>5 DEF CountInv, CountedOnce

(* The steps of the service, the operator and the grid do not count.       *)
LEMMA CountStep == TypeInv /\ CountInv /\ [Next]_vars => CountInv'
<1> SUFFICES ASSUME TypeInv, CountInv, [Next]_vars PROVE CountInv'
  OBVIOUS
<1>1. CASE StopAgent \/ Stop \/ Connection \/ GridNotice \/ UNCHANGED vars
  BY <1>1, CountKept
     DEF StopAgent, Stop, CommStop, Connection, InitCommServer, InitCommClient, AcceptClient, ServerHandlerLeaves,
         GridNotice, ReceiveFreqErrorNotice, vars, commVars, isoVars, simVars, marketVars, heardVars, respVars
<1>. QED
  BY <1>1, CountSimStep, CountResponse, CountAnswer DEF Next, IsoStep

(* Before the first round everything counts as supplied.                   *)
LEMMA InitCounts == IsoInit => CountInv
<1> SUFFICES ASSUME IsoInit PROVE CountInv
  OBVIOUS
<1>1. k = 0 /\ 0 \in Slots
  BY ISOAssumption DEF IsoInit, Slots
<1>2. PICK x \in [Gen -> Power] : xi = [j \in Slots |-> [g \in Gen |-> IF j = 0 THEN x[g] ELSE 0]]
  BY DEF IsoInit
<1>3. \A j \in Slots : \A g \in Gen : j > k => xi[j][g] = 0
  BY <1>1, <1>2
<1>4. CountedOnce /\ \A g \in Gen : ~ statusGens[g] => removedAt[g] \in 0 .. k
  BY DEF IsoInit, CountedOnce
<1>5. \A c \in Client : UpToLastRound(c)
  <2> SUFFICES ASSUME NEW c \in Client PROVE UpToLastRound(c)
    OBVIOUS
  <2>1. /\ dispatch[c] = << >> /\ reply[c] = << >> /\ hpc[c] = "idle"
        /\ grad_f_current[c] = -1 /\ LastRound(c) = 0
    BY DEF IsoInit, CommInit, LastRound
  <2>. QED
    BY <2>1 DEF UpToLastRound
<1>. QED
  BY <1>3, <1>4, <1>5 DEF CountInv

(* removeGenerator and receivePgReply (iso.py) together: the power of a    *)
(* generator counts either as supplied or as lost.  The rounds of what it  *)
(* still has to answer, of its replies in the stream and of the one its    *)
(* thread is storing are all rounds it was dispatched in, so no late reply *)
(* brings a generator back into a round after it was taken out.            *)
THEOREM PowerCountedOnce == Spec => []CountedOnce
<1>1. IsoInit => CountInv
  BY InitCounts
<1>2. CountInv => CountedOnce
  BY DEF CountInv
<1>. QED
  BY <1>1, <1>2, IsoTypeCorrect, CountStep, PTL DEF Spec, TypeInv

-----------------------------------------------------------------------------
(* The order of the gradients.                                             *)

(* Rounds are compared as integers.                                        *)
LEMMA GradientTypes ==
  ASSUME TypeInv, NEW c \in Client
  PROVE  /\ \A i \in DOMAIN dispatch[c] : dispatch[c][i].k \in Int
         /\ \A i \in DOMAIN reply[c] : reply[c][i].k \in Int
         /\ grad_f_current[c] \in Int /\ k \in Int
         /\ \A j \in Rounds : j \in Nat /\ grad_f[j][c] \in Int
<1>1. \A j \in Rounds : j \in Int /\ j \in Nat
  BY ISOAssumption DEF Rounds
<1>2. k \in Int
  BY ISOAssumption DEF TypeInv, TypeOK, Slots
<1>. QED
  BY <1>1, <1>2, StreamTypes DEF TypeInv, TypeOK

(* Steps that touch neither a stream nor a gradient.                       *)
LEMMA GradientKept ==
  ASSUME GradientInv,
         UNCHANGED <<k, dispatch, reply, grad_f_current, grad_f>>,
         sim' \in {"freq", "remove"} => sim \in {"freq", "remove"}
  PROVE  GradientInv'
BY DEF GradientInv, StreamsInOrder, UsedInOrder

(* The streams of a client no step of this kind touches.                   *)
LEMMA StreamsKept ==
  ASSUME NEW c \in Client, StreamsInOrder(c), dispatch'[c] = dispatch[c],
         reply'[c] = reply[c], grad_f_current'[c] = grad_f_current[c]
  PROVE  StreamsInOrder(c)'
BY DEF StreamsInOrder

(* A dispatch of this round goes behind those of earlier ones.             *)
LEMMA GradientSend ==
  ASSUME TypeInv, CountInv, GradientInv, NEW c \in Client, NEW m \in Dispatch,
         SendData(c, m), m.k = k, sim \notin {"freq", "remove"}, sim' \notin {"freq", "remove"},
         UNCHANGED <<k, grad_f_current, grad_f>>
  PROVE  GradientInv'
<1>1. ASSUME NEW d \in Client PROVE StreamsInOrder(d)'
  <2>1. CASE d # c
    BY <2>1, StreamsKept DEF GradientInv, SendData, TypeInv, TypeOK, CommTypeOK
  <2>2. CASE d = c
    <3>1. /\ dispatch[c] \in Seq(Dispatch) /\ dispatch'[c] = Append(dispatch[c], m)
          /\ reply' = reply /\ StreamsInOrder(c) /\ UpToLastRound(c)
      BY DEF GradientInv, CountInv, SendData, TypeInv, TypeOK, CommTypeOK
    <3>2. /\ \A i \in DOMAIN dispatch[c] : dispatch[c][i].k <= k
          /\ \A i \in DOMAIN reply[c] : reply[c][i].k <= k
          /\ grad_f_current[c] <= k
      <4>1. LastRound(c) \in Int /\ LastRound(c) <= k /\ k \in Int
        BY LastRoundType
      <4>. QED
        BY <3>1, <4>1, GradientTypes DEF UpToLastRound
    <3>3. \A i \in DOMAIN dispatch'[c] :
            /\ i \in Nat
            /\ \/ i \in DOMAIN dispatch[c] /\ dispatch'[c][i] = dispatch[c][i]
               \/ i = Len(dispatch[c]) + 1 /\ dispatch'[c][i].k = k
      BY <3>1, AppendElements
    <3>4. \A i \in DOMAIN dispatch[c] : i < Len(dispatch[c]) + 1
      BY <3>1
    <3>5. \A i, j \in DOMAIN dispatch'[c] : i <= j => dispatch'[c][i].k <= dispatch'[c][j].k
      <4> SUFFICES ASSUME NEW i \in DOMAIN dispatch'[c], NEW j \in DOMAIN dispatch'[c], i <= j
                   PROVE  dispatch'[c][i].k <= dispatch'[c][j].k
        OBVIOUS
      <4>1. CASE i \in DOMAIN dispatch[c] /\ j \in DOMAIN dispatch[c]
                 /\ dispatch'[c][i] = dispatch[c][i] /\ dispatch'[c][j] = dispatch[c][j]
        BY <3>1, <4>1 DEF StreamsInOrder
      <4>2. CASE j = Len(dispatch[c]) + 1 /\ dispatch'[c][j].k = k
        <5>1. k \in Int
          BY GradientTypes
        <5>. QED
          BY <3>2, <3>3, <4>2, <5>1
      <4>. QED
        BY <3>1, <3>3, <3>4, <4>1, <4>2
    <3>. QED
      BY <2>2, <3>1, <3>2, <3>3, <3>5 DEF StreamsInOrder
  <2>. QED
    BY <2>1, <2>2
<1>2. ASSUME NEW d \in Client PROVE UsedInOrder(d)'
  BY DEF GradientInv, UsedInOrder
<1>. QED
  BY <1>1, <1>2 DEF GradientInv

(* The loop: it uses the gradient last received, which no gradient used    *)
(* before exceeds.                                                         *)
LEMMA GradientSimStep ==
  ASSUME TypeInv, CountInv, GradientInv, RunAgent \/ SimStep
  PROVE  GradientInv'
<1>1. CASE RunAgent \/ EndLoop \/ BeginRound \/ EndSendPg \/ SendTheta \/ CheckFrequency
  BY <1>1, GradientKept
     DEF RunAgent, EndLoop, BeginRound, EndSendPg, SendTheta, CheckFrequency,
         commVars, marketVars, heardVars, respVars
<1>2. CASE SendPg
  <2> DEFINE g == Least(todo)
             m == [k |-> k, pg |-> P_G[g]]
  <2>1. g \in Gen /\ g \in Client /\ k \in Rounds
    BY <1>2, LeastIsMember, InRound, ISOAssumption DEF SendPg, TypeInv, LoopInv
  <2>2. m \in Dispatch /\ m.k = k
    BY <2>1 DEF TypeInv, TypeOK, Dispatch
  <2>3. UNCHANGED <<k, grad_f_current, grad_f>> /\ sim = "pg" /\ sim' \in {"pg", "died"}
    BY <1>2 DEF SendPg, heardVars
  <2>4. CASE UNCHANGED commVars
    BY <2>3, <2>4, GradientKept DEF commVars
  <2>5. CASE SendData(g, m)
    BY <2>1, <2>2, <2>3, <2>5, GradientSend
  <2>. QED
    BY <1>2, <2>4, <2>5 DEF SendPg
<1>3. CASE SendPdr
  <2>1. PICK d \in todo :
           \/ SendData(d, [k |-> k, pg |-> 0])
           \/ UNCHANGED commVars
    BY <1>3 DEF SendPdr
  <2>2. [k |-> k, pg |-> 0] \in Dispatch /\ d \in Client
    BY <1>3, InRound DEF SendPdr, TypeInv, TypeOK, Dispatch
  <2>3. UNCHANGED <<k, grad_f_current, grad_f>> /\ sim = "pdr" /\ sim' \in {"pdr", "died"}
    BY <1>3 DEF SendPdr, heardVars
  <2>4. CASE UNCHANGED commVars
    BY <2>3, <2>4, GradientKept DEF commVars
  <2>5. CASE SendData(d, [k |-> k, pg |-> 0])
    BY <2>2, <2>3, <2>5, GradientSend
  <2>. QED
    BY <2>1, <2>4, <2>5
<1>4. CASE TakeGradients
  <2>1. /\ sim = "sleep" /\ k \in Rounds /\ k' = k
        /\ grad_f' = [grad_f EXCEPT ![k] = grad_f_current]
        /\ UNCHANGED <<dispatch, reply, grad_f_current>>
    BY <1>4, InRound DEF TakeGradients, commVars
  <2>2. /\ grad_f'[k] = grad_f_current
        /\ \A j \in Rounds : j # k => grad_f'[j] = grad_f[j]
    BY <2>1 DEF TypeInv, TypeOK
  <2>3. ASSUME NEW c \in Client PROVE StreamsInOrder(c)'
    BY <2>1, StreamsKept DEF GradientInv
  <2>4. ASSUME NEW c \in Client PROVE UsedInOrder(c)'
    <3>1. UsedInOrder(c) /\ grad_f_current[c] <= k
      <4>1. LastRound(c) \in Int /\ LastRound(c) <= k /\ k \in Int /\ grad_f_current[c] \in Int
        BY LastRoundType, GradientTypes
      <4>. QED
        BY <4>1 DEF GradientInv, CountInv, UpToLastRound
    <3>2. \A j \in Rounds : grad_f'[j][c] <= grad_f_current[c] /\ grad_f'[j][c] <= j
      BY <2>2, <3>1, GradientTypes DEF UsedInOrder
    <3>3. ASSUME NEW j \in Rounds, j < k \/ j = k, NEW i \in 0 .. j - 1
          PROVE  grad_f'[i][c] <= grad_f'[j][c]
      <4>1. i \in Rounds /\ i # k
        BY <3>3, ISOAssumption, GradientTypes DEF Rounds
      <4>2. CASE j = k
        BY <2>2, <3>2, <4>1, <4>2
      <4>3. CASE j # k
        BY <2>2, <3>1, <3>3, <4>1, <4>3 DEF UsedInOrder
      <4>. QED
        BY <4>2, <4>3
    <3>. QED
      BY <2>1, <3>2, <3>3 DEF UsedInOrder
  <2>. QED
    BY <2>3, <2>4 DEF GradientInv
<1>5. CASE RemoveNext
  BY <1>5, GradientKept DEF RemoveNext, commVars, heardVars
<1>6. CASE Compute
  <2>1. /\ k' \in {k, k + 1} /\ sim = "remove" /\ sim' \in {"top", "died"}
        /\ UNCHANGED <<dispatch, reply, grad_f_current, grad_f>>
    BY <1>6 DEF Compute, commVars, heardVars
  <2>2. ASSUME NEW c \in Client PROVE StreamsInOrder(c)'
    BY <2>1, StreamsKept DEF GradientInv
  <2>3. ASSUME NEW c \in Client PROVE UsedInOrder(c)'
    <3>1. \A j \in Rounds : j < k' => j < k \/ j = k
      BY <2>1, GradientTypes
    <3>. QED
      BY <2>1, <3>1 DEF GradientInv, UsedInOrder
  <2>. QED
    BY <2>2, <2>3 DEF GradientInv
<1>. QED
  BY <1>1, <1>2, <1>3, <1>4, <1>5, <1>6 DEF SimStep

(* The replies: the gradient received is the oldest in the stream.         *)
LEMMA GradientResponse ==
  ASSUME TypeInv, GradientInv, NEW c \in Client, Response(c)
  PROVE  GradientInv'
<1>1. StreamsInOrder(c) /\ UsedInOrder(c)
  BY DEF GradientInv
<1>2. CASE ReceiveGradF(c)
  <2>1. /\ reply[c] \in Seq(Reply) /\ reply[c] # << >>
        /\ reply'[c] = Tail(reply[c]) /\ dispatch' = dispatch
        /\ grad_f_current'[c] = Head(reply[c]).k
        /\ UNCHANGED <<k, sim, grad_f>>
        /\ \A d \in Client : d # c => reply'[d] = reply[d] /\ grad_f_current'[d] = grad_f_current[d]
    BY <1>2 DEF ReceiveGradF, ServerRecv, TypeInv, TypeOK, CommTypeOK, simVars
  <2>2. /\ 1 \in DOMAIN reply[c] /\ Head(reply[c]) = reply[c][1]
        /\ \A i \in DOMAIN reply'[c] :
             i \in Nat \ {0} /\ i + 1 \in DOMAIN reply[c] /\ reply'[c][i] = reply[c][i + 1]
    BY <2>1, TailElements
  <2>3. grad_f_current[c] <= grad_f_current'[c]
    BY <1>1, <2>1, <2>2 DEF StreamsInOrder
  <2>4. StreamsInOrder(c)'
    <3>1. \A i \in DOMAIN reply'[c] : grad_f_current'[c] <= reply'[c][i].k
      BY <1>1, <2>1, <2>2 DEF StreamsInOrder
    <3>2. \A i \in DOMAIN dispatch[c] : grad_f_current'[c] <= dispatch[c][i].k
      BY <1>1, <2>1, <2>2 DEF StreamsInOrder
    <3>3. \A i, j \in DOMAIN reply'[c] : i <= j => reply'[c][i].k <= reply'[c][j].k
      BY <1>1, <2>2 DEF StreamsInOrder
    <3>. QED
      BY <1>1, <2>1, <2>2, <3>1, <3>2, <3>3 DEF StreamsInOrder
  <2>5. UsedInOrder(c)'
    <3>1. grad_f_current'[c] \in Int
      BY <2>1, <2>2, GradientTypes
    <3>. QED
      BY <1>1, <2>1, <2>3, <3>1, GradientTypes DEF UsedInOrder
  <2>6. ASSUME NEW d \in Client, d # c PROVE StreamsInOrder(d)' /\ UsedInOrder(d)'
    BY <2>1, <2>6, StreamsKept DEF GradientInv, UsedInOrder
  <2>. QED
    BY <2>4, <2>5, <2>6 DEF GradientInv
<1>3. CASE DropMerged(c)
  <2>1. PICK n \in 2 .. Len(reply[c]) :
           reply' = [reply EXCEPT ![c] = SubSeq(@, n + 1, Len(@))]
    BY <1>3 DEF DropMerged, ServerRecvMerged
  <2>2. /\ reply[c] \in Seq(Reply) /\ n \in 1 .. Len(reply[c])
        /\ reply'[c] = SubSeq(reply[c], n + 1, Len(reply[c]))
        /\ UNCHANGED <<k, sim, grad_f, grad_f_current, dispatch>>
        /\ \A d \in Client : d # c => reply'[d] = reply[d]
    <3>1. reply[c] \in Seq(Reply) /\ reply \in [Client -> Seq(Reply)]
      BY DEF TypeInv, TypeOK, CommTypeOK
    <3>2. Len(reply[c]) \in Nat
      BY <3>1
    <3>3. UNCHANGED <<k, sim, grad_f, grad_f_current, dispatch>>
      BY <1>3 DEF DropMerged, ServerRecvMerged, isoVars, simVars, heardVars
    <3>. QED
      BY <2>1, <3>1, <3>2, <3>3
  <2>3. \A i \in DOMAIN reply'[c] :
           i \in Nat \ {0} /\ i + n \in DOMAIN reply[c] /\ reply'[c][i] = reply[c][i + n]
    BY <2>2, DropElements
  <2>4. \A i, j \in DOMAIN reply'[c] : i <= j => reply'[c][i].k <= reply'[c][j].k
    <3>1. \A i, j \in DOMAIN reply'[c] : i <= j => i + n <= j + n
      BY <2>2, <2>3
    <3>. QED
      BY <1>1, <2>3, <3>1 DEF StreamsInOrder
  <2>5. StreamsInOrder(c)'
    BY <1>1, <2>2, <2>3, <2>4 DEF StreamsInOrder
  <2>6. ASSUME NEW d \in Client PROVE StreamsInOrder(d)' /\ UsedInOrder(d)'
    BY <2>2, <2>5, StreamsKept DEF GradientInv, UsedInOrder
  <2>. QED
    BY <2>6 DEF GradientInv
<1>4. CASE c \in Gen /\ (ReceivePower(c) \/ MarkHeard(c))
  BY <1>4, GradientKept DEF ReceivePower, MarkHeard, commVars, simVars, heardVars
<1>. QED
  BY <1>2, <1>3, <1>4 DEF Response

(* A client's answer joins the stream back, behind its earlier answers and *)
(* before those to the messages it has not yet taken.                      *)
LEMMA GradientAnswer ==
  ASSUME TypeInv, GradientInv, NEW c \in Client, ClientAnswers(c)
  PROVE  GradientInv'
<1>1. /\ dispatch[c] \in Seq(Dispatch) /\ dispatch[c] # << >> /\ reply[c] \in Seq(Reply)
      /\ dispatch'[c] = Tail(dispatch[c])
      /\ UNCHANGED <<k, sim, grad_f, grad_f_current>>
      /\ \A d \in Client : d # c => dispatch'[d] = dispatch[d] /\ reply'[d] = reply[d]
  BY DEF ClientAnswers, TypeInv, TypeOK, CommTypeOK, isoVars, simVars, heardVars
<1>2. /\ 1 \in DOMAIN dispatch[c] /\ Head(dispatch[c]) = dispatch[c][1]
      /\ \A i \in DOMAIN dispatch'[c] :
           i \in Nat \ {0} /\ i + 1 \in DOMAIN dispatch[c] /\ dispatch'[c][i] = dispatch[c][i + 1]
  BY <1>1, TailElements
<1>3. StreamsInOrder(c)
  BY DEF GradientInv
<1>4. \A i \in DOMAIN dispatch'[c] : Head(dispatch[c]).k <= dispatch'[c][i].k
  BY <1>2, <1>3 DEF StreamsInOrder
<1>5. \A i, j \in DOMAIN dispatch'[c] : i <= j => dispatch'[c][i].k <= dispatch'[c][j].k
  BY <1>2, <1>3 DEF StreamsInOrder
<1>6. StreamsInOrder(c)'
  <2>1. CASE reply' = reply
    BY <1>1, <1>2, <1>3, <1>5, <2>1 DEF StreamsInOrder
  <2>2. CASE reply' # reply
    <3>1. PICK p \in Power : reply' = [reply EXCEPT ![c] = Append(@, [k |-> Head(dispatch[c]).k, pg |-> p])]
      BY <2>2 DEF ClientAnswers
    <3> DEFINE r == [k |-> Head(dispatch[c]).k, pg |-> p]
    <3>2. r \in Reply /\ r.k = Head(dispatch[c]).k
      <4>1. Head(dispatch[c]).k \in Rounds
        BY <1>2, StreamTypes DEF TypeInv
      <4>. QED
        BY <4>1, ISOAssumption DEF Reply
    <3>3. reply'[c] = Append(reply[c], r)
      BY <3>1 DEF TypeInv, TypeOK, CommTypeOK
    <3> HIDE DEF r
    <3>4. \A i \in DOMAIN reply'[c] :
            /\ i \in Nat
            /\ \/ i \in DOMAIN reply[c] /\ reply'[c][i] = reply[c][i]
               \/ i = Len(reply[c]) + 1 /\ reply'[c][i].k = Head(dispatch[c]).k
      BY <1>1, <3>2, <3>3, AppendElements
    <3>5. \A i \in DOMAIN reply[c] : i < Len(reply[c]) + 1 /\ reply[c][i].k <= Head(dispatch[c]).k
      BY <1>1, <1>2, <1>3 DEF StreamsInOrder
    <3>6. Head(dispatch[c]).k \in Int /\ grad_f_current[c] <= Head(dispatch[c]).k
      BY <1>2, <1>3, GradientTypes DEF StreamsInOrder
    <3>7. \A i, j \in DOMAIN reply'[c] : i <= j => reply'[c][i].k <= reply'[c][j].k
      <4> SUFFICES ASSUME NEW i \in DOMAIN reply'[c], NEW j \in DOMAIN reply'[c], i <= j
                   PROVE  reply'[c][i].k <= reply'[c][j].k
        OBVIOUS
      <4>1. CASE i \in DOMAIN reply[c] /\ j \in DOMAIN reply[c]
                 /\ reply'[c][i] = reply[c][i] /\ reply'[c][j] = reply[c][j]
        BY <1>3, <4>1 DEF StreamsInOrder
      <4>2. CASE j = Len(reply[c]) + 1 /\ reply'[c][j].k = Head(dispatch[c]).k
        BY <3>4, <3>5, <3>6, <4>2
      <4>. QED
        BY <1>1, <3>4, <3>5, <4>1, <4>2
    <3>8. \A i \in DOMAIN reply'[c] : grad_f_current'[c] <= reply'[c][i].k
      BY <1>1, <1>3, <3>4, <3>6 DEF StreamsInOrder
    <3>9. \A i \in DOMAIN reply'[c] : \A j \in DOMAIN dispatch'[c] : reply'[c][i].k <= dispatch'[c][j].k
      BY <1>2, <1>3, <1>4, <3>4 DEF StreamsInOrder
    <3>10. \A i \in DOMAIN dispatch'[c] : grad_f_current'[c] <= dispatch'[c][i].k
      BY <1>1, <1>2, <1>3 DEF StreamsInOrder
    <3>. QED
      BY <1>5, <3>7, <3>8, <3>9, <3>10 DEF StreamsInOrder
  <2>. QED
    BY <2>1, <2>2
<1>7. ASSUME NEW d \in Client PROVE StreamsInOrder(d)' /\ UsedInOrder(d)'
  BY <1>1, <1>6, StreamsKept DEF GradientInv, UsedInOrder
<1>. QED
  BY <1>7 DEF GradientInv

(* The rounds in the messages of a client never decrease on their way.     *)
LEMMA GradientStep == TypeInv /\ CountInv /\ GradientInv /\ [Next]_vars => GradientInv'
<1> SUFFICES ASSUME TypeInv, CountInv, GradientInv, [Next]_vars PROVE GradientInv'
  OBVIOUS
<1>1. CASE StopAgent \/ Stop \/ Connection \/ GridNotice \/ UNCHANGED vars
  BY <1>1, GradientKept
     DEF StopAgent, Stop, CommStop, Connection, InitCommServer, InitCommClient, AcceptClient, ServerHandlerLeaves,
         GridNotice, ReceiveFreqErrorNotice, vars, commVars, isoVars, simVars, heardVars
<1>. QED
  BY <1>1, GradientSimStep, GradientResponse, GradientAnswer DEF Next, IsoStep

(* The loop (iso.py) uses whatever gradients have come in by the time it   *)
(* wakes up, without testing of which round they are.  Still, the gradient *)
(* it uses for a client never goes back to an earlier round, and is never  *)
(* of a round not yet begun: the streams keep the order of the dispatches. *)
THEOREM GradientsInOrder == Spec => []GradientsAdvance
<1>1. IsoInit => CountInv
  BY InitCounts
<1>2. IsoInit => GradientInv
  <2> SUFFICES ASSUME IsoInit, NEW c \in Client PROVE StreamsInOrder(c) /\ UsedInOrder(c)
    BY DEF GradientInv
  <2>1. /\ dispatch[c] = << >> /\ reply[c] = << >> /\ k = 0 /\ sim = "off"
        /\ \A j \in Rounds : grad_f[j][c] = -1 /\ j \in Nat
        /\ grad_f_current[c] = -1
    BY ISOAssumption DEF IsoInit, CommInit, Rounds
  <2>. QED
    BY <2>1 DEF StreamsInOrder, UsedInOrder
<1>3. TypeInv /\ GradientInv => GradientsAdvance
  BY GradientTypes DEF GradientInv, UsedInOrder, GradientsAdvance
<1>. QED
  BY <1>1, <1>2, <1>3, IsoTypeCorrect, CountStep, GradientStep, PTL DEF Spec, TypeInv

-----------------------------------------------------------------------------
(* Taking a generator out.                                                 *)

(* Only the loop's visit of a silent generator changes what is booked for  *)
(* the generators and the matrices, and only for the generator visited.    *)
LEMMA OnlyRemoval ==
  ASSUME TypeInv, [Next]_vars
  PROVE  \/ UNCHANGED <<statusGens, inactivePgLoad, config>> /\ ~ RemoveNext
         \/ RemoveNext /\ Least(todo) \in todo /\ Least(todo) \in Gen /\ RemoveGenerator(Least(todo))
<1>1. CASE RemoveNext
  BY <1>1, LeastIsMember DEF RemoveNext, TypeInv, LoopInv
<1>2. CASE ~ RemoveNext
  <2>1. CASE SimStep \/ RunAgent
    BY <1>2, <2>1
       DEF SimStep, RunAgent, EndLoop, BeginRound, SendPg, EndSendPg, SendPdr, SendTheta, TakeGradients,
           CheckFrequency, Compute, marketVars
  <2>2. CASE \E c \in Client : Response(c)
    BY <1>2, <2>2 DEF Response, ReceiveGradF, DropMerged, ReceivePower, MarkHeard, isoVars, marketVars
  <2>3. CASE StopAgent \/ Stop \/ Connection \/ GridNotice \/ UNCHANGED vars \/ \E c \in Client : ClientAnswers(c)
    BY <1>2, <2>3
       DEF StopAgent, Stop, Connection, GridNotice, ReceiveFreqErrorNotice, ClientAnswers, vars, isoVars, marketVars
  <2>. QED
    BY <1>2, <2>1, <2>2, <2>3 DEF Next, IsoStep
<1>. QED
  BY <1>1, <1>2

(* The loop lists the silent generators and then visits them; meanwhile a  *)
(* reply can only set the count of one of them to 0.                       *)
LEMMA SilentStep == TypeInv /\ SilentInv /\ [Next]_vars => SilentInv'
<1> SUFFICES ASSUME TypeInv, SilentInv, [Next]_vars, sim' = "remove",
                    NEW g \in todo', statusGens'[g]
             PROVE  lastHeard'[g] > Silence \/ lastHeard'[g] = 0
  BY DEF SilentInv
<1>1. CASE CheckFrequency
  BY <1>1 DEF CheckFrequency, ErrorGens, heardVars
<1>2. CASE RemoveNext
  <2>1. sim = "remove" /\ g \in todo /\ lastHeard' = lastHeard
    BY <1>2 DEF RemoveNext, heardVars
  <2>2. statusGens[g]
    <3>1. g \in Gen /\ RemoveGenerator(Least(todo))
      BY <1>2, <2>1 DEF RemoveNext, TypeInv, LoopInv
    <3>. QED
      BY <3>1 DEF RemoveGenerator, marketVars, TypeInv, TypeOK
  <2>. QED
    BY <2>1, <2>2 DEF SilentInv
<1>3. CASE ~ CheckFrequency /\ ~ RemoveNext
  <2>1. sim = "remove" /\ todo' = todo
    <3>1. CASE SimStep \/ RunAgent
      BY <1>3, <3>1
         DEF SimStep, RunAgent, EndLoop, BeginRound, SendPg, EndSendPg, SendPdr, SendTheta, TakeGradients, Compute
    <3>2. CASE \E c \in Client : Response(c)
      BY <3>2 DEF Response, ReceiveGradF, DropMerged, ReceivePower, MarkHeard, isoVars, simVars
    <3>3. CASE StopAgent \/ Stop \/ Connection \/ GridNotice \/ UNCHANGED vars \/ \E c \in Client : ClientAnswers(c)
      BY <3>3
         DEF StopAgent, Stop, Connection, GridNotice, ReceiveFreqErrorNotice, ClientAnswers, vars, isoVars, simVars
    <3>. QED
      BY <3>1, <3>2, <3>3 DEF Next, IsoStep
  <2>2. g \in Gen /\ statusGens[g]
    BY <1>3, <2>1, OnlyRemoval DEF TypeInv, LoopInv
  <2>3. lastHeard'[g] = lastHeard[g] \/ lastHeard'[g] = 0
    <3>1. CASE SimStep \/ RunAgent
      BY <1>3, <2>1, <3>1
         DEF SimStep, RunAgent, EndLoop, BeginRound, SendPg, EndSendPg, SendPdr, SendTheta, TakeGradients, Compute, heardVars
    <3>2. CASE \E c \in Client : Response(c)
      <4>1. PICK c \in Client : Response(c)
        BY <3>2
      <4>. QED
        BY <2>2, <4>1
           DEF Response, ReceiveGradF, DropMerged, ReceivePower, MarkHeard, isoVars, heardVars, TypeInv, TypeOK
    <3>3. CASE StopAgent \/ Stop \/ Connection \/ GridNotice \/ UNCHANGED vars \/ \E c \in Client : ClientAnswers(c)
      BY <3>3
         DEF StopAgent, Stop, Connection, GridNotice, ReceiveFreqErrorNotice, ClientAnswers, vars, isoVars, heardVars
    <3>. QED
      BY <3>1, <3>2, <3>3 DEF Next, IsoStep
  <2>. QED
    BY <2>1, <2>2, <2>3 DEF SilentInv
<1>. QED
  BY <1>1, <1>2, <1>3

(* removeGenerator (iso.py) is called only for a generator that was silent *)
(* for more than Silence rounds when the loop listed it, however late its  *)
(* reply, which can still come in before the generator is visited.         *)
THEOREM RemovalsAreOfSilent == Spec => RemovedOnlyIfSilent
<1>1. IsoInit => SilentInv
  BY DEF IsoInit, SilentInv
<1>2. TypeInv /\ SilentInv /\ [Next]_vars
        => [\A g \in Gen : statusGens[g] /\ ~ statusGens'[g]
              => lastHeard[g] > Silence \/ lastHeard[g] = 0]_vars
  <2> SUFFICES ASSUME TypeInv, SilentInv, [Next]_vars, NEW g \in Gen, statusGens[g], ~ statusGens'[g]
               PROVE  lastHeard[g] > Silence \/ lastHeard[g] = 0
    OBVIOUS
  <2>1. RemoveNext /\ Least(todo) \in todo /\ RemoveGenerator(Least(todo))
    BY OnlyRemoval
  <2>2. g = Least(todo)
    BY <2>1 DEF RemoveGenerator, marketVars, TypeInv, TypeOK
  <2>. QED
    BY <2>1, <2>2 DEF RemoveNext, SilentInv
<1>. QED
  BY <1>1, <1>2, IsoTypeCorrect, SilentStep, PTL DEF Spec, TypeInv, RemovedOnlyIfSilent

(* removeGenerator (iso.py) returns early for a generator that is already  *)
(* out, which every later round lists again: what was booked for it stays. *)
THEOREM LoadNeverRebooked == Spec => LoadIsKept
<1>1. TypeInv /\ [Next]_vars
        => [\A g \in Gen : ~ statusGens[g] => inactivePgLoad'[g] = inactivePgLoad[g]]_vars
  <2> SUFFICES ASSUME TypeInv, [Next]_vars, NEW g \in Gen, ~ statusGens[g]
               PROVE  inactivePgLoad'[g] = inactivePgLoad[g]
    OBVIOUS
  <2>. QED
    BY OnlyRemoval DEF RemoveGenerator, marketVars, TypeInv, TypeOK
<1>. QED
  BY <1>1, IsoTypeCorrect, PTL DEF Spec, TypeInv, LoadIsKept

(* The loop ends where it loads a file that does not exist; as long as it  *)
(* runs, it has loaded the matrices of the generator it took out last.     *)
LEMMA ConfigStep == TypeInv /\ ConfigInv /\ [Next]_vars => ConfigInv'
<1> SUFFICES ASSUME TypeInv, ConfigInv, [Next]_vars, sim' # "died"
             PROVE  ConfigInv'
  BY DEF ConfigInv
<1>1. CASE RemoveNext
  <2> DEFINE g == Least(todo)
  <2>1. sim = "remove" /\ g \in Gen /\ RemoveGenerator(g)
    BY <1>1, OnlyRemoval DEF RemoveNext
  <2> HIDE DEF g
  <2>2. CASE ~ statusGens[g]
    BY <2>1, <2>2 DEF RemoveGenerator, marketVars, ConfigInv, Inactive
  <2>3. CASE statusGens[g]
    <3>1. config' = {g} /\ ~ statusGens'[g]
      BY <2>1, <2>3 DEF RemoveGenerator, TypeInv, TypeOK
    <3>. QED
      BY <2>1, <3>1 DEF ConfigInv, Inactive
  <2>. QED
    BY <2>2, <2>3
<1>2. CASE ~ RemoveNext
  <2>1. UNCHANGED <<statusGens, config>>
    BY <1>2, OnlyRemoval
  <2>2. sim # "died"
    <3>1. CASE SimStep \/ RunAgent
      BY <3>1
         DEF SimStep, RunAgent, EndLoop, BeginRound, SendPg, EndSendPg, SendPdr, SendTheta, TakeGradients,
             CheckFrequency, RemoveNext, Compute
    <3>2. CASE \E c \in Client : Response(c)
      BY <3>2 DEF Response, ReceiveGradF, DropMerged, ReceivePower, MarkHeard, isoVars, simVars
    <3>3. CASE StopAgent \/ Stop \/ Connection \/ GridNotice \/ UNCHANGED vars \/ \E c \in Client : ClientAnswers(c)
      BY <3>3
         DEF StopAgent, Stop, Connection, GridNotice, ReceiveFreqErrorNotice, ClientAnswers, vars, isoVars, simVars
    <3>. QED
      BY <3>1, <3>2, <3>3 DEF Next, IsoStep
  <2>. QED
    BY <2>1, <2>2 DEF ConfigInv, Inactive
<1>. QED
  BY <1>1, <1>2

(* The matrices have as many rows as the trimmed vectors: then no more     *)
(* than one generator is out, and it is the one the matrices leave out.    *)
LEMMA FittingMatrices ==
  ASSUME ConfigInv, ShapesFit, sim # "died"
  PROVE  config = Inactive
<1>1. CASE config = {} /\ Inactive = {}
  BY <1>1
<1>2. CASE \E g \in Inactive : config = {g}
  <2>1. PICK g \in Inactive : config = {g}
    BY <1>2
  <2>2. IsFiniteSet(Inactive)
    <3>1. IsFiniteSet(Gen)
      BY ISOAssumption, FS_Interval DEF Gen
    <3>. QED
      BY <3>1, FS_Subset DEF Inactive
  <2>3. Cardinality(Inactive) = 1
    BY <2>1, FS_Singleton DEF ShapesFit
  <2>4. PICK h : Inactive = {h}
    BY <2>2, <2>3, FS_Singleton
  <2>. QED
    BY <2>1, <2>4
<1>. QED
  BY <1>1, <1>2 DEF ConfigInv

(* The loop (iso.py) never computes a price with matrices made for another *)
(* set of generators: a second removal leaves one row too many, and the    *)
(* product raises before the round is counted.                             *)
THEOREM PricesFromRightMatrices == Spec => MatricesFitMarket
<1>1. IsoInit => ConfigInv
  BY DEF IsoInit, ConfigInv, Inactive
<1>2. TypeInv /\ ConfigInv /\ [Next]_vars => [k' # k => config = Inactive]_vars
  <2> SUFFICES ASSUME TypeInv, ConfigInv, [Next]_vars, k' # k PROVE config = Inactive
    OBVIOUS
  <2>1. CASE SimStep \/ RunAgent
    <3>1. Compute /\ ShapesFit
      BY <2>1
         DEF SimStep, RunAgent, EndLoop, BeginRound, SendPg, EndSendPg, SendPdr, SendTheta, TakeGradients,
             CheckFrequency, RemoveNext, Compute
    <3>. QED
      BY <3>1, FittingMatrices DEF Compute
  <2>2. CASE \E c \in Client : Response(c)
    BY <2>2 DEF Response, ReceiveGradF, DropMerged, ReceivePower, MarkHeard, isoVars, simVars
  <2>3. CASE StopAgent \/ Stop \/ Connection \/ GridNotice \/ UNCHANGED vars \/ \E c \in Client : ClientAnswers(c)
    BY <2>3
       DEF StopAgent, Stop, Connection, GridNotice, ReceiveFreqErrorNotice, ClientAnswers, vars, isoVars, simVars
  <2>. QED
    BY <2>1, <2>2, <2>3 DEF Next, IsoStep
<1>. QED
  BY <1>1, <1>2, IsoTypeCorrect, ConfigStep, PTL DEF Spec, TypeInv, MatricesFitMarket

=============================================================================

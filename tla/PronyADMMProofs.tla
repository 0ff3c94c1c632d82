--------------------------- MODULE PronyADMMProofs ---------------------------
(***************************************************************************)
(* Proofs about module PronyADMM, for any number of clients, hosts, rounds *)
(* and timeouts.  The invariant speaks of two histories, the round in      *)
(* which each client came to each server and the number of averages of     *)
(* each server; no variable keeps them, so they are quantified.            *)
(***************************************************************************)
EXTENDS PronyADMM, FiniteSetTheorems, TLAPS

Bases == [0 .. Hosts + 1 -> [Client -> Nat \ {0}]]
Turns == [Server -> Nat]

IInv == TypeOK /\ \E base \in Bases, turn \in Turns : RoundsInv(base, turn)

-----------------------------------------------------------------------------
(* The hosts and the servers are numbers, and no server is beyond the      *)
(* hosts.                                                                  *)
LEMMA Numbers ==
  /\ ClientNum \in Nat \ {0} /\ Hosts \in Nat /\ ClientNum <= Hosts
  /\ Client \subseteq Server /\ Server \subseteq 0 .. Hosts
  /\ \A s \in Server : s \in Nat /\ s + 1 \in 0 .. Hosts + 1 /\ s \in 0 .. Hosts + 1
  /\ 0 \in Server /\ 1 \in Client
BY ADMMAssumption DEF Client, Server

(* One entry of a table is changed.                                        *)
LEMMA UpdateEntry ==
  ASSUME NEW R, NEW f \in [Server -> [Client -> R]], NEW s \in Server, NEW c \in Client,
         NEW v \in R
  PROVE  LET g == [f EXCEPT ![s][c] = v] IN
           /\ g \in [Server -> [Client -> R]] /\ g[s][c] = v
           /\ \A t \in Server \ {s} : g[t] = f[t]
           /\ \A d \in Client \ {c} : g[s][d] = f[s][d]
<1> DEFINE g == [f EXCEPT ![s][c] = v]
           h == [f[s] EXCEPT ![c] = v]
<1>1. h \in [Client -> R] /\ h[c] = v /\ \A d \in Client \ {c} : h[d] = f[s][d]
  OBVIOUS
<1>2. g = [f EXCEPT ![s] = h]
  OBVIOUS
<1> HIDE DEF h
<1>3. g \in [Server -> [Client -> R]] /\ g[s] = h /\ \A t \in Server \ {s} : g[t] = f[t]
  BY <1>1, <1>2
<1>. QED
  BY <1>1, <1>3

(* What the histories hold.                                                *)
LEMMA HistoryTypes ==
  ASSUME NEW base \in Bases, NEW turn \in Turns, NEW s \in Server, NEW c \in Client
  PROVE  /\ base[s][c] \in Nat /\ base[s][c] > 0
         /\ base[s + 1][c] \in Nat /\ turn[s] \in Nat
         /\ base[s][c] + turn[s] # Error /\ base[s][c] + turn[s] \in Nat
<1>1. s \in 0 .. Hosts + 1 /\ s + 1 \in 0 .. Hosts + 1
  BY Numbers
<1>2. base[s] \in [Client -> Nat \ {0}] /\ base[s + 1] \in [Client -> Nat \ {0}]
  BY <1>1 DEF Bases
<1>. QED
  BY <1>2 DEF Turns, Error

(* What the variables of one server, and of one client, hold.              *)
LEMMA ServerTypes ==
  ASSUME TypeOK, NEW s \in Server
  PROVE  /\ sockets[s] \in Seq(Client) /\ next[s] \in 1 .. ClientNum
         /\ next[s] \in Nat /\ Len(sockets[s]) \in Nat
         /\ DOMAIN sockets[s] = 1 .. Len(sockets[s])
         /\ DOMAIN got[s] \subseteq Client /\ got[s] \in [DOMAIN got[s] -> Nat]
         /\ \A c \in DOMAIN got[s] : got[s][c] \in Nat
         /\ left[s] \subseteq Client /\ Accepted(s) \subseteq Client
         /\ \A c \in Client : up[s][c] \in Seq(Nat) /\ down[s][c] \in Seq(Msg)
<1>1. sockets[s] \in Seq(Client) /\ next[s] \in 1 .. ClientNum /\ left[s] \subseteq Client
  BY DEF TypeOK
<1>2. DOMAIN got[s] \subseteq Client /\ got[s] \in [DOMAIN got[s] -> Nat]
  BY DEF TypeOK
<1>3. up[s] \in [Client -> Seq(Nat)] /\ down[s] \in [Client -> Seq(Msg)]
  BY DEF TypeOK
<1>4. Accepted(s) \subseteq Client
  BY <1>1 DEF Accepted
<1>. QED
  BY <1>1, <1>2, <1>3, <1>4, Numbers

LEMMA ClientTypes ==
  ASSUME TypeOK, NEW c \in Client
  PROVE  /\ pc[c] \in {"write", "select", "read", "reread", "connect"} \cup Ended
         /\ k[c] \in Nat /\ k[c] > 0 /\ numAttack[c] \in 0 .. Hosts + 1
         /\ numAttack[c] \in Nat
         /\ return[c] \in {"write"} \cup Waiting
<1>1. k[c] \in Nat /\ k[c] > 0
  BY DEF TypeOK
<1>2. numAttack[c] \in 0 .. Hosts + 1 /\ numAttack[c] \in Nat
  BY Numbers DEF TypeOK
<1>3. pc[c] \in {"write", "select", "read", "reread", "connect"} \cup Ended
  BY DEF TypeOK
<1>. QED
  BY <1>1, <1>2, <1>3 DEF TypeOK

(* No server accepts more clients than there are.                          *)
LEMMA Pigeonhole ==
  ASSUME NEW q \in Seq(Client), \A i, j \in 1 .. Len(q) : q[i] = q[j] => i = j
  PROVE  Len(q) <= ClientNum
<1>1. q \in Injection(1 .. Len(q), Client)
  BY DEF Injection, IsInjective
<1>2. IsFiniteSet(Client) /\ Cardinality(Client) = ClientNum
  BY FS_Interval, Numbers DEF Client
<1>3. Cardinality(1 .. Len(q)) = Len(q)
  BY FS_Interval
<1>4. Cardinality(1 .. Len(q)) <= Cardinality(Client)
  BY <1>1, <1>2, FS_Injection
<1>. QED
  BY <1>2, <1>3, <1>4

(* A client that connects finds the server with none of its averages made, *)
(* and before it reads.                                                    *)
LEMMA RoomLeft ==
  ASSUME TypeOK, NEW turn \in Turns, NEW s \in Server, NEW c \in Client,
         ServerInv(turn, s), c \notin Accepted(s), Runs(s)
  PROVE  turn[s] = 0 /\ mode[s] \in {"accept", "closing"}
<1>1. sockets[s] \in Seq(Client)
  BY ServerTypes
<1>2. \A i, j \in 1 .. Len(sockets[s]) : sockets[s][i] = sockets[s][j] => i = j
  BY DEF ServerInv
<1>3. \A i \in 1 .. Len(sockets[s]) : sockets[s][i] # c
  BY <1>1 DEF Accepted
<1> DEFINE q == Append(sockets[s], c)
<1>4. q \in Seq(Client) /\ Len(q) = Len(sockets[s]) + 1
  BY <1>1
<1>5. \A i \in 1 .. Len(q) : q[i] = IF i <= Len(sockets[s]) THEN sockets[s][i] ELSE c
  BY <1>1
<1>6. \A i, j \in 1 .. Len(q) : q[i] = q[j] => i = j
  <2> HIDE DEF q
  <2> SUFFICES ASSUME NEW i \in 1 .. Len(q), NEW j \in 1 .. Len(q), q[i] = q[j] PROVE i = j
    OBVIOUS
  <2>. QED
    BY <1>1, <1>2, <1>3, <1>4, <1>5
<1>7. Len(q) <= ClientNum
  BY <1>4, <1>6, Pigeonhole
<1>8. Len(sockets[s]) # ClientNum
  BY <1>1, <1>4, <1>7, Numbers
<1>9. mode[s] \in {"accept", "closing"}
  BY <1>8 DEF ServerInv, Runs, TypeOK
<1>10. turn[s] = 0
  BY <1>9, Numbers DEF ServerInv, Turns
<1>. QED
  BY <1>9, <1>10

-----------------------------------------------------------------------------
(* A pair of a server and a client of which a step changes nothing.        *)
LEMMA PairFrame ==
  ASSUME NEW base, NEW turn, NEW s \in Server, NEW c \in Client, PairInv(base, turn, s, c),
         pc'[c] = pc[c], k'[c] = k[c], numAttack'[c] = numAttack[c],
         mode'[s] = mode[s], sockets'[s] = sockets[s], got'[s] = got[s],
         next'[s] = next[s], up'[s][c] = up[s][c], down'[s][c] = down[s][c],
         (c \in left'[s]) <=> (c \in left[s])
  PROVE  PairInv(base, turn, s, c)'
<1>1. (At(s, c) <=> At(s, c)') /\ (NotYet(s, c) <=> NotYet(s, c)')
  BY DEF At, NotYet, Served
<1>2. /\ (Untold(s, c) <=> Untold(s, c)') /\ (Told(s, c) <=> Told(s, c)')
      /\ (Active(s) <=> Active(s)') /\ Accepted(s) = Accepted(s)'
  BY DEF Untold, Told, Active, Accepted
<1>3. Sent(base, turn, s, c) <=> Sent(base, turn, s, c)'
  BY <1>1, <1>2 DEF Sent
<1>4. UpInv(base, turn, s, c)'
  BY <1>2, <1>3 DEF PairInv, UpInv
<1>5. SeatInv(base, turn, s, c)'
  BY <1>1, <1>2 DEF PairInv, SeatInv
<1>. QED
  BY <1>1, <1>2, <1>4, <1>5 DEF PairInv

(* A server that stops is read no more, and sends nothing more.            *)
LEMMA PairStops ==
  ASSUME TypeOK, NEW base \in Bases, NEW turn \in Turns, NEW s \in Server, NEW c \in Client,
         PairInv(base, turn, s, c),
         pc'[c] = pc[c], k'[c] = k[c], numAttack'[c] = numAttack[c],
         mode[s] \notin {"off", "closed"}, mode'[s] = "closing",
         sockets'[s] = sockets[s], up'[s][c] = up[s][c], down'[s][c] = down[s][c],
         (c \in left'[s]) <=> (c \in left[s])
  PROVE  PairInv(base, turn, s, c)'
<1>1. (At(s, c) <=> At(s, c)') /\ (NotYet(s, c) <=> NotYet(s, c)')
  BY DEF At, NotYet, Served
<1>2. /\ ~ Untold(s, c)' /\ (Told(s, c) <=> Told(s, c)')
      /\ ~ Active(s)' /\ Accepted(s) = Accepted(s)'
  BY DEF Untold, Told, Active, Accepted
<1>3. UpInv(base, turn, s, c)'
  BY <1>2 DEF UpInv
<1>4. SeatInv(base, turn, s, c)'
  BY <1>1, <1>2 DEF PairInv, SeatInv
<1>. QED
  BY <1>1, <1>2, <1>3, <1>4 DEF PairInv

(* A server of which a step changes nothing.                               *)
LEMMA ServerFrame ==
  ASSUME NEW base, NEW turn, NEW s \in Server, ServerInv(turn, s), GotInv(base, turn, s),
         mode'[s] = mode[s], sockets'[s] = sockets[s], got'[s] = got[s], up'[s] = up[s],
         s \in Client /\ numAttack'[s] < s => numAttack[s] < s
  PROVE  ServerInv(turn, s)' /\ GotInv(base, turn, s)'
<1>1. Accepted(s)' = Accepted(s)
  BY DEF Accepted
<1>. QED
  BY <1>1 DEF ServerInv, GotInv

(* One more client is accepted.                                            *)
LEMMA AcceptedGrows ==
  ASSUME TypeOK, NEW s \in Server, NEW c \in Client, sockets'[s] = Append(sockets[s], c)
  PROVE  /\ Accepted(s)' = Accepted(s) \cup {c}
         /\ sockets'[s] \in Seq(Client) /\ Len(sockets'[s]) = Len(sockets[s]) + 1
         /\ c \notin Accepted(s)
              /\ (\A i, j \in 1 .. Len(sockets[s]) : sockets[s][i] = sockets[s][j] => i = j)
              => \A i, j \in 1 .. Len(sockets'[s]) : sockets'[s][i] = sockets'[s][j] => i = j
<1> DEFINE q == sockets[s]
           q2 == sockets'[s]
<1>1. q \in Seq(Client) /\ Len(q) \in Nat
  BY ServerTypes
<1>2. q2 \in Seq(Client) /\ Len(q2) = Len(q) + 1
  BY <1>1
<1>3. \A i \in 1 .. Len(q2) : q2[i] = IF i <= Len(q) THEN q[i] ELSE c
  BY <1>1
<1>4. Accepted(s) = {q[i] : i \in 1 .. Len(q)} /\ Accepted(s)' = {q2[i] : i \in 1 .. Len(q2)}
  BY <1>1, <1>2 DEF Accepted
<1> HIDE DEF q, q2
<1>5. Accepted(s)' = Accepted(s) \cup {c}
  <2>1. Accepted(s)' \subseteq Accepted(s) \cup {c}
    BY <1>1, <1>2, <1>3, <1>4
  <2>2. c \in Accepted(s)'
    <3>1. Len(q) + 1 \in 1 .. Len(q2) /\ q2[Len(q) + 1] = c
      BY <1>1, <1>2, <1>3
    <3>. QED
      BY <3>1, <1>4
  <2>3. Accepted(s) \subseteq Accepted(s)'
    <3> SUFFICES ASSUME NEW i \in 1 .. Len(q) PROVE q[i] \in Accepted(s)'
      BY <1>4
    <3>1. i \in 1 .. Len(q2) /\ q2[i] = q[i]
      BY <1>1, <1>2, <1>3
    <3>. QED
      BY <3>1, <1>4
  <2>. QED
    BY <2>1, <2>2, <2>3
<1>6. ASSUME c \notin Accepted(s), \A i, j \in 1 .. Len(q) : q[i] = q[j] => i = j,
             NEW i \in 1 .. Len(q2), NEW j \in 1 .. Len(q2), q2[i] = q2[j]
      PROVE  i = j
  BY <1>1, <1>2, <1>3, <1>4, <1>6
<1>. QED
  BY <1>2, <1>5, <1>6 DEF q, q2

(* A client connects: the server has none of its averages made.            *)
LEMMA ConnectStep ==
  ASSUME TypeOK, NEW base \in Bases, NEW turn \in Turns, RoundsInv(base, turn),
         NEW c \in Client, Connect(c)
  PROVE  TypeOK' /\ RoundsInv(base, turn)'
<1>0. PICK s \in Server : s = numAttack[c]
  BY DEF Connect, Runs, Mine
<1>1. Runs(s) /\ pc[c] = "connect" /\ s \in Nat /\ numAttack[c] = s
  BY <1>0, Numbers DEF Connect, Mine
<1>2. /\ sockets' = [sockets EXCEPT ![s] = Append(@, c)]
      /\ pc' = [pc EXCEPT ![c] = return[c]]
      /\ return' = [return EXCEPT ![c] = "write"]
      /\ \/ return[c] = "write" /\ up' = up
         \/ return[c] \in Waiting /\ up' = [up EXCEPT ![s][c] = Append(@, k[c])]
      /\ UNCHANGED <<k, numAttack, applied, mode, got, next, down, left>>
  BY <1>0, ClientTypes DEF Connect, Mine, Goto, Send
<1>3. NotYet(s, c) /\ PairInv(base, turn, s, c) /\ ServerInv(turn, s) /\ ClientInv(base, c)
  BY <1>1 DEF NotYet, RoundsInv
<1>4. up[s][c] = << >> /\ down[s][c] = << >> /\ c \notin left[s] /\ c \notin Accepted(s)
  BY <1>3 DEF PairInv
<1>5. turn[s] = 0 /\ mode[s] \in {"accept", "closing"} /\ base[s][c] = k[c]
  BY <1>1, <1>3, <1>4, RoomLeft DEF ClientInv
<1>6. /\ sockets'[s] = Append(sockets[s], c) /\ pc'[c] \in {"write"} \cup Waiting
      /\ \/ pc'[c] = "write" /\ up'[s][c] = << >>
         \/ pc'[c] \in Waiting /\ up'[s][c] = <<k[c]>>
      /\ up' \in [Server -> [Client -> Seq(Nat)]]
      /\ \A t \in Server \ {s} : sockets'[t] = sockets[t] /\ up'[t] = up[t]
      /\ \A d \in Client \ {c} : pc'[d] = pc[d] /\ up'[s][d] = up[s][d]
  <2>1. up[s][c] \in Seq(Nat) /\ Append(up[s][c], k[c]) = <<k[c]>>
    BY <1>1, <1>4, ServerTypes, ClientTypes
  <2>2. up' = up \/ up' = [up EXCEPT ![s][c] = <<k[c]>>]
    BY <1>2, <2>1
  <2>3. <<k[c]>> \in Seq(Nat)
    BY ClientTypes
  <2>4. sockets'[s] = Append(sockets[s], c) /\ \A t \in Server \ {s} : sockets'[t] = sockets[t]
    BY <1>2 DEF TypeOK
  <2>5. pc'[c] = return[c] /\ \A d \in Client \ {c} : pc'[d] = pc[d]
    BY <1>2 DEF TypeOK
  <2>6. /\ \A t \in Server \ {s} : up'[t] = up[t]
        /\ \A d \in Client \ {c} : up'[s][d] = up[s][d]
        /\ up'[s][c] = IF return[c] = "write" THEN up[s][c] ELSE <<k[c]>>
        /\ up' \in [Server -> [Client -> Seq(Nat)]]
    <3>1. up \in [Server -> [Client -> Seq(Nat)]]
      BY DEF TypeOK
    <3>2. CASE return[c] = "write"
      BY <1>2, <3>1, <3>2 DEF Waiting
    <3>3. CASE return[c] # "write"
      <4>1. up' = [up EXCEPT ![s][c] = <<k[c]>>]
        BY <1>2, <2>1, <3>3
      <4>. QED
        BY <2>3, <3>1, <3>3, <4>1, UpdateEntry
    <3>. QED
      BY <3>2, <3>3
  <2>. QED
    BY <1>2, <1>4, <2>4, <2>5, <2>6
<1>7. TypeOK'
  <2>1. sockets' \in [Server -> Seq(Client)]
    BY <1>1, <1>2, AcceptedGrows DEF TypeOK
  <2>2. up' \in [Server -> [Client -> Seq(Nat)]]
    BY <1>6
  <2>3. /\ pc' \in [Client -> {"write", "select", "read", "reread", "connect"} \cup Ended]
        /\ return' \in [Client -> {"write"} \cup Waiting]
    BY <1>2 DEF TypeOK, Waiting
  <2>. QED
    BY <1>2, <2>1, <2>2, <2>3 DEF TypeOK
<1>8. Accepted(s)' = Accepted(s) \cup {c}
  BY <1>1, <1>6, AcceptedGrows
<1>9. \A d \in Client : NotYet(s, d)' => NotYet(s, d)
  BY <1>1, <1>2, <1>6 DEF NotYet
<1>10. ASSUME NEW t \in Server, NEW d \in Client PROVE PairInv(base, turn, t, d)'
  <2>0. PairInv(base, turn, t, d)
    BY DEF RoundsInv
  <2>1. CASE t = s /\ d = c
    <3>1. ~ NotYet(s, c)' /\ ~ Untold(s, c)' /\ ~ Told(s, c)'
      BY <1>1, <1>2, <1>4, <1>5, <1>6 DEF NotYet, Untold, Told, Waiting
    <3>2. base[s][c] \in Nat /\ k[c] = base[s][c] + turn[s]
      BY <1>1, <1>5, HistoryTypes
    <3>3. SeatInv(base, turn, s, c)'
      BY <1>2, <1>4, <1>5, <1>6, <3>1, <3>2 DEF SeatInv
    <3>4. Sent(base, turn, s, c)' \/ pc'[c] = "write"
      BY <1>1, <1>2, <1>6, <3>1 DEF Sent
    <3>5. UpInv(base, turn, s, c)'
      BY <1>2, <1>5, <1>6, <3>1, <3>2, <3>4 DEF UpInv, Waiting
    <3>6. ~ (numAttack'[c] > s)
      BY <1>1, <1>2
    <3>. QED
      BY <2>1, <3>1, <3>3, <3>5, <3>6 DEF PairInv
  <2>2. CASE t = s /\ d # c
    <3>1. (At(s, d) <=> At(s, d)') /\ (NotYet(s, d) <=> NotYet(s, d)')
      BY <1>2, <1>6, <2>2 DEF At, NotYet, Served
    <3>2. ~ Untold(s, d) /\ ~ Untold(s, d)' /\ (Told(s, d) <=> Told(s, d)')
          /\ (Active(s) <=> Active(s)')
      BY <1>2, <1>5 DEF Untold, Told, Active
    <3>3. Sent(base, turn, s, d) <=> Sent(base, turn, s, d)'
      BY <1>2, <1>6, <2>2, <3>1, <3>2 DEF Sent
    <3>4. UpInv(base, turn, s, d)'
      BY <1>2, <1>6, <2>0, <2>2, <3>2, <3>3 DEF PairInv, UpInv
    <3>5. SeatInv(base, turn, s, d)'
      BY <1>2, <1>6, <2>0, <2>2, <3>1, <3>2 DEF PairInv, SeatInv
    <3>. QED
      BY <1>2, <1>6, <1>8, <2>0, <2>2, <3>1, <3>4, <3>5 DEF PairInv
  <2>3. CASE t # s /\ d = c
    <3>1. ~ At(t, c) /\ ~ At(t, c)' /\ (NotYet(t, c) <=> NotYet(t, c)')
      BY <1>1, <1>2, <2>3 DEF At, NotYet
    <3>2. /\ (Untold(t, c) <=> Untold(t, c)') /\ (Told(t, c) <=> Told(t, c)')
          /\ (Active(t) <=> Active(t)') /\ Accepted(t) = Accepted(t)'
      BY <1>2, <1>6, <2>3 DEF Untold, Told, Active, Accepted
    <3>3. Sent(base, turn, t, c) <=> Sent(base, turn, t, c)'
      BY <1>2, <3>1 DEF Sent
    <3>4. UpInv(base, turn, t, c)'
      BY <1>2, <1>6, <2>0, <2>3, <3>2, <3>3 DEF PairInv, UpInv
    <3>. QED
      BY <1>2, <1>6, <2>0, <2>3, <3>1, <3>2, <3>4 DEF PairInv, SeatInv
  <2>4. CASE t # s /\ d # c
    BY <1>2, <1>6, <2>0, <2>4, PairFrame
  <2>. QED
    BY <2>1, <2>2, <2>3, <2>4
<1>11. ASSUME NEW t \in Server PROVE ServerInv(turn, t)' /\ GotInv(base, turn, t)'
  <2>1. CASE t # s
    BY <1>2, <1>6, <2>1, ServerFrame DEF RoundsInv
  <2>2. CASE t = s
    <3>1. GotInv(base, turn, s)'
      BY <1>1, <1>2 DEF RoundsInv, GotInv
    <3>2. \A i, j \in 1 .. Len(sockets'[s]) : sockets'[s][i] = sockets'[s][j] => i = j
      BY <1>1, <1>3, <1>4, <1>6, AcceptedGrows DEF ServerInv
    <3>. QED
      BY <1>1, <1>2, <1>3, <1>5, <1>8, <2>2, <3>1, <3>2 DEF ServerInv
  <2>. QED
    BY <2>1, <2>2
<1>12. ASSUME NEW d \in Client PROVE ClientInv(base, d)'
  <2>1. ClientInv(base, d)
    BY DEF RoundsInv
  <2>2. CASE d = c
    BY <1>1, <1>2, <1>6, <2>1, <2>2 DEF ClientInv, Waiting
  <2>3. CASE d # c
    BY <1>2, <1>6, <2>1, <2>3 DEF ClientInv, Served
  <2>. QED
    BY <2>2, <2>3
<1>13. BaseInv(base)'
  BY <1>2 DEF RoundsInv, BaseInv
<1>. QED
  BY <1>7, <1>10, <1>11, <1>12, <1>13 DEF RoundsInv

(* A client is known to the servers it is not at by its number of attacks. *)
LEMMA PairElsewhere ==
  ASSUME NEW base, NEW turn, NEW s \in Server, NEW c \in Client, PairInv(base, turn, s, c),
         numAttack[c] # s, numAttack'[c] = numAttack[c],
         mode'[s] = mode[s], sockets'[s] = sockets[s], got'[s] = got[s],
         next'[s] = next[s], up'[s][c] = up[s][c], down'[s][c] = down[s][c],
         (c \in left'[s]) <=> (c \in left[s])
  PROVE  PairInv(base, turn, s, c)'
<1>1. ~ At(s, c) /\ ~ At(s, c)' /\ (NotYet(s, c) <=> NotYet(s, c)')
  BY DEF At, NotYet
<1>2. /\ (Untold(s, c) <=> Untold(s, c)') /\ (Told(s, c) <=> Told(s, c)')
      /\ (Active(s) <=> Active(s)') /\ Accepted(s) = Accepted(s)'
  BY DEF Untold, Told, Active, Accepted
<1>3. Sent(base, turn, s, c) <=> Sent(base, turn, s, c)'
  BY <1>1 DEF Sent
<1>4. UpInv(base, turn, s, c)'
  BY <1>2, <1>3 DEF PairInv, UpInv
<1>. QED
  BY <1>1, <1>2, <1>4 DEF PairInv, SeatInv

(* A step of one client with its server, which goes on as it did.          *)
LEMMA LocalStep ==
  ASSUME NEW base, NEW turn, RoundsInv(base, turn),
         NEW s \in Server, NEW c \in Client, s = numAttack[c],
         mode[s] # "off" \/ up' = up,
         UNCHANGED <<numAttack, mode, sockets, got, next>>,
         \A d \in Client \ {c} : pc'[d] = pc[d] /\ k'[d] = k[d] /\ applied'[d] = applied[d],
         \A t \in Server : \A d \in Client : t # s \/ d # c =>
           /\ up'[t][d] = up[t][d] /\ down'[t][d] = down[t][d]
           /\ (d \in left'[t]) <=> (d \in left[t]),
         PairInv(base, turn, s, c)', ClientInv(base, c)'
  PROVE  RoundsInv(base, turn)'
<1>1. ASSUME NEW t \in Server, NEW d \in Client PROVE PairInv(base, turn, t, d)'
  <2>0. PairInv(base, turn, t, d)
    BY DEF RoundsInv
  <2>1. CASE t = s /\ d = c
    BY <2>1
  <2>2. CASE d # c
    BY <2>0, <2>2, PairFrame
  <2>3. CASE t # s /\ d = c
    BY <2>0, <2>3, PairElsewhere
  <2>. QED
    BY <2>1, <2>2, <2>3
<1>2. ASSUME NEW t \in Server PROVE ServerInv(turn, t)' /\ GotInv(base, turn, t)'
  <2>1. ServerInv(turn, t) /\ GotInv(base, turn, t) /\ Accepted(t)' = Accepted(t)
    BY DEF RoundsInv, Accepted
  <2>2. mode'[t] = "off" => \A d \in Client : up'[t][d] = << >>
    BY <2>1 DEF ServerInv
  <2>. QED
    BY <2>1, <2>2 DEF ServerInv, GotInv
<1>3. ASSUME NEW d \in Client PROVE ClientInv(base, d)'
  BY DEF RoundsInv, ClientInv, Served
<1>4. BaseInv(base)'
  BY DEF RoundsInv, BaseInv
<1>. QED
  BY <1>1, <1>2, <1>3, <1>4 DEF RoundsInv

(* The main server is gone before a client connects: the client ends.      *)
LEMMA ConnectFailsStep ==
  ASSUME TypeOK, NEW base \in Bases, NEW turn \in Turns, RoundsInv(base, turn),
         NEW c \in Client, ConnectFails(c)
  PROVE  TypeOK' /\ RoundsInv(base, turn)'
<1>1. /\ numAttack[c] = 0 /\ mode[0] \in {"off", "closed"} /\ 0 \in Server
      /\ pc' = [pc EXCEPT ![c] = "done"]
      /\ UNCHANGED <<k, numAttack, return, applied, mode, sockets, got, next, up, down, left>>
  BY Numbers DEF ConnectFails, Goto, Runs, serverVars
<1>2. TypeOK'
  BY <1>1 DEF TypeOK, Ended
<1>3. pc'[c] = "done" /\ \A d \in Client \ {c} : pc'[d] = pc[d]
  BY <1>1 DEF TypeOK
<1>4. PairInv(base, turn, 0, c)'
  <2>1. ~ At(0, c)' /\ ~ NotYet(0, c)'
    BY <1>1, <1>3 DEF At, NotYet, Served, Waiting
  <2>. QED
    BY <1>1, <2>1 DEF PairInv, SeatInv, UpInv, Active
<1>5. ClientInv(base, c)'
  BY <1>1, <1>3 DEF RoundsInv, ClientInv, Served, Waiting
<1>. QED
  BY <1>1, <1>2, <1>3, <1>4, <1>5, LocalStep

(* A client writes the message of its round.                               *)
LEMMA WriteStep ==
  ASSUME TypeOK, NEW base \in Bases, NEW turn \in Turns, RoundsInv(base, turn),
         NEW c \in Client, pc[c] = "write", Goto(c, "select"),
         IF Runs(Mine(c)) THEN Send(Mine(c), c) ELSE UNCHANGED up,
         UNCHANGED <<k, numAttack, return, applied, serverVars, down, left, killed>>
  PROVE  TypeOK' /\ RoundsInv(base, turn)'
<1>0. ClientInv(base, c) /\ Served(c)
  BY DEF RoundsInv, Served
<1>1. PICK s \in Server : s = numAttack[c]
  BY <1>0 DEF ClientInv
<1>2. At(s, c) /\ PairInv(base, turn, s, c)
  BY <1>0, <1>1 DEF At, RoundsInv
<1>3. /\ mode[s] # "off" /\ c \notin left[s] /\ ~ Told(s, c) /\ ~ Untold(s, c)
      /\ Active(s) => down[s][c] = << >> /\ k[c] = base[s][c] + turn[s]
  BY <1>2 DEF PairInv, SeatInv, Waiting
<1>4. Active(s) => up[s][c] = << >>
  BY <1>2 DEF PairInv, UpInv, Sent, Waiting
<1>5. /\ up' = up \/ (Runs(s) /\ up' = [up EXCEPT ![s][c] = Append(up[s][c], k[c])])
      /\ UNCHANGED <<k, numAttack, return, applied, mode, sockets, got, next, down, left>>
      /\ Runs(s) => up' = [up EXCEPT ![s][c] = Append(up[s][c], k[c])]
  BY <1>1 DEF Mine, Send, serverVars
<1>6. Append(up[s][c], k[c]) \in Seq(Nat)
  BY ServerTypes, ClientTypes
<1>7. /\ up' \in [Server -> [Client -> Seq(Nat)]]
      /\ \A t \in Server \ {s} : up'[t] = up[t]
      /\ \A d \in Client \ {c} : up'[s][d] = up[s][d]
      /\ Runs(s) => up'[s][c] = Append(up[s][c], k[c])
  <2>1. up \in [Server -> [Client -> Seq(Nat)]]
    BY DEF TypeOK
  <2>2. CASE up' = up /\ ~ Runs(s)
    BY <2>1, <2>2
  <2>3. CASE Runs(s) /\ up' = [up EXCEPT ![s][c] = Append(up[s][c], k[c])]
    BY <1>6, <2>1, <2>3, UpdateEntry
  <2>. QED
    BY <1>5, <2>2, <2>3
<1>8. pc'[c] = "select" /\ \A d \in Client \ {c} : pc'[d] = pc[d]
  BY DEF Goto, TypeOK
<1>9. TypeOK'
  <2>1. pc' \in [Client -> {"write", "select", "read", "reread", "connect"} \cup Ended]
    BY DEF Goto, TypeOK
  <2>. QED
    BY <1>5, <1>7, <2>1 DEF TypeOK
<1>10. PairInv(base, turn, s, c)'
  <2>1. At(s, c)' /\ ~ NotYet(s, c)' /\ ~ Told(s, c)' /\ ~ Untold(s, c)'
    <3>1. s \in Nat
      BY Numbers
    <3>2. At(s, c)' /\ ~ NotYet(s, c)'
      BY <1>1, <1>5, <1>8, <3>1 DEF At, NotYet, Served, Waiting
    <3>3. ~ Told(s, c)' /\ ~ Untold(s, c)'
      BY <1>3, <1>5 DEF Told, Untold
    <3>. QED
      BY <3>2, <3>3
  <2>2. Active(s) => Runs(s) /\ up'[s][c] = <<k[c]>>
    <3>1. Append(<< >>, k[c]) = <<k[c]>>
      BY ClientTypes
    <3>2. Active(s) => Runs(s)
      BY DEF Active, Runs
    <3>. QED
      BY <1>4, <1>7, <3>1, <3>2
  <2>3. numAttack'[c] = s /\ s \in Nat
    BY <1>1, <1>5, Numbers
  <2>4. Sent(base, turn, s, c)'
    BY <1>8, <2>1, <2>3 DEF Sent, Waiting
  <2>5. c \in DOMAIN got[s] /\ mode[s] = "collect" => got[s][c] # base[s][c] + turn[s]
    <3>1. base[s][c] + turn[s] # Error
      BY HistoryTypes
    <3>. QED
      BY <1>2, <3>1 DEF PairInv, UpInv, Sent, RoundsInv, GotInv, Waiting
  <2>6. c \in DOMAIN got[s] /\ mode[s] = "collect" => got[s][c] = Error
    BY <2>5 DEF RoundsInv, GotInv
  <2>7. UpInv(base, turn, s, c)'
    BY <1>3, <1>5, <2>1, <2>2, <2>4, <2>6 DEF UpInv, Active
  <2>8. SeatInv(base, turn, s, c)'
    BY <1>2, <1>3, <1>5, <1>8, <2>1 DEF PairInv, SeatInv, Active, Waiting
  <2>. QED
    BY <2>1, <2>3, <2>7, <2>8 DEF PairInv
<1>11. ClientInv(base, c)'
  BY <1>0, <1>1, <1>5, <1>8 DEF ClientInv
<1>12. \A t \in Server : \A d \in Client : t # s \/ d # c =>
         /\ up'[t][d] = up[t][d] /\ down'[t][d] = down[t][d]
         /\ (d \in left'[t]) <=> (d \in left[t])
  BY <1>5, <1>7
<1>13. RoundsInv(base, turn)'
  BY <1>1, <1>3, <1>5, <1>8, <1>10, <1>11, <1>12, LocalStep
<1>. QED
  BY <1>9, <1>13

(* Leaving a server is known to that server only.                          *)
LEMMA LeaveKeeps ==
  ASSUME TypeOK, NEW s, s \in Server \/ ~ Runs(s), NEW c \in Client, Leave(s, c)
  PROVE  /\ left' \in [Server -> SUBSET Client]
         /\ \A t \in Server : \A d \in Client : t # s \/ d # c =>
              ((d \in left'[t]) <=> (d \in left[t]))
BY DEF Leave, TypeOK, Runs

(* What is left in a stream when its first messages are gone.              *)
LEMMA RestOfStream ==
  ASSUME NEW q \in Seq(Msg), NEW n \in 1 .. Len(q)
  PROVE  /\ SubSeq(q, n + 1, Len(q)) \in Seq(Msg)
         /\ Len(SubSeq(q, n + 1, Len(q))) = Len(q) - n
         /\ \A j \in 1 .. Len(q) - n : /\ SubSeq(q, n + 1, Len(q))[j] = q[n + j]
                                      /\ n + j \in 1 .. Len(q) /\ n + j > 1
<1>1. Len(q) \in Nat /\ n \in Nat /\ n >= 1 /\ n <= Len(q)
  OBVIOUS
<1>2. \A j \in n + 1 .. Len(q) : q[j] \in Msg
  BY <1>1
<1>. QED
  BY <1>1, <1>2

(* A client uses an average: it is of the round the client is in.          *)
LEMMA ReadStep ==
  ASSUME TypeOK, NEW base \in Bases, NEW turn \in Turns, RoundsInv(base, turn),
         NEW c \in Client, Read(c)
  PROVE  TypeOK' /\ RoundsInv(base, turn)'
<1>0. ClientInv(base, c) /\ Served(c)
  BY DEF RoundsInv, Served, Read, Waiting
<1>1. PICK s \in Server : s = numAttack[c]
  BY <1>0 DEF ClientInv
<1>2. At(s, c) /\ PairInv(base, turn, s, c) /\ s \in Nat
  BY <1>0, <1>1, Numbers DEF At, RoundsInv
<1> DEFINE q == down[s][c]
           msg == Head(q)
<1>3. q \in Seq(Msg) /\ q # << >> /\ msg = q[1] /\ msg \in Msg /\ Len(q) \in Nat
  BY <1>1, ServerTypes DEF Read, Pending, Mine
<1>4. PICK n \in 1 .. Len(q) : down' = [down EXCEPT ![s][c] = SubSeq(q, n + 1, Len(q))]
  BY <1>1 DEF Read, Mine
<1>5. SubSeq(q, n + 1, Len(q)) \in Seq(Msg)
  BY <1>3, <1>4, RestOfStream
<1>6. /\ down' \in [Server -> [Client -> Seq(Msg)]]
      /\ down'[s][c] = SubSeq(q, n + 1, Len(q))
      /\ \A t \in Server \ {s} : down'[t] = down[t]
      /\ \A d \in Client \ {c} : down'[s][d] = down[s][d]
  <2>1. down \in [Server -> [Client -> Seq(Msg)]]
    BY DEF TypeOK
  <2>. QED
    BY <1>4, <1>5, <2>1, UpdateEntry
<1>7. /\ \A j \in DOMAIN down'[s][c] : down'[s][c][j] = Finish
      /\ Len(q) = 1 => down'[s][c] = << >>
  <2>1. \A j \in DOMAIN q : j > 1 => q[j] = Finish
    BY <1>2 DEF PairInv, SeatInv
  <2>2. DOMAIN down'[s][c] = 1 .. Len(q) - n /\ DOMAIN q = 1 .. Len(q)
    BY <1>3, <1>4, <1>5, <1>6, RestOfStream
  <2>3. \A j \in 1 .. Len(q) - n : down'[s][c][j] = q[n + j] /\ n + j \in DOMAIN q /\ n + j > 1
    BY <1>3, <1>4, <1>6, <2>2, RestOfStream
  <2>4. Len(q) = 1 => Len(down'[s][c]) = 0
    BY <1>3, <1>4, <1>6, RestOfStream
  <2>5. \A j \in DOMAIN down'[s][c] : down'[s][c][j] = Finish
    BY <2>1, <2>2, <2>3
  <2>6. ASSUME NEW r \in Seq(Msg), Len(r) = 0 PROVE r = << >>
    BY <2>6
  <2>7. down'[s][c] \in Seq(Msg)
    BY <1>5, <1>6
  <2>. QED
    BY <2>4, <2>5, <2>6, <2>7
<1>8. UNCHANGED <<numAttack, return, mode, sockets, got, next, up>>
  BY DEF Read, serverVars
<1>9. \/ /\ msg = Finish /\ pc' = [pc EXCEPT ![c] = "finished"] /\ Leave(s, c)
         /\ UNCHANGED <<k, applied>>
      \/ /\ msg # Finish /\ applied' = [applied EXCEPT ![c] = <<k[c], msg>>]
         /\ k' = [k EXCEPT ![c] = @ + 1]
         /\ \/ pc' = [pc EXCEPT ![c] = "done"] /\ Leave(s, c)
            \/ pc' = [pc EXCEPT ![c] = "write"] /\ UNCHANGED left
  BY <1>1 DEF Read, Goto, Mine
<1> HIDE DEF q, msg
<1>10. /\ left' \in [Server -> SUBSET Client]
       /\ \A t \in Server : \A d \in Client : t # s \/ d # c =>
            ((d \in left'[t]) <=> (d \in left[t]))
  BY <1>9, LeaveKeeps DEF TypeOK
<1>11. msg # Finish => msg \in [Client -> Nat] /\ Told(s, c)
  BY <1>3 DEF Msg, Told, q
<1>12. TypeOK'
  <2>1. pc' \in [Client -> {"write", "select", "read", "reread", "connect"} \cup Ended]
    BY <1>9 DEF TypeOK, Ended
  <2>2. k' \in [Client -> Nat \ {0}]
    <3>1. k \in [Client -> Nat \ {0}]
      BY DEF TypeOK
    <3>2. k' = k \/ k' = [k EXCEPT ![c] = @ + 1]
      BY <1>9
    <3>. QED
      BY <3>1, <3>2
  <2>3. applied' \in [Client -> {<< >>} \cup (Nat \X [Client -> Nat])]
    <3>1. CASE applied' = applied
      BY <3>1 DEF TypeOK
    <3>2. CASE msg # Finish /\ applied' = [applied EXCEPT ![c] = <<k[c], msg>>]
      <4>1. <<k[c], msg>> \in Nat \X [Client -> Nat]
        BY <1>11, <3>2, ClientTypes
      <4>2. applied \in [Client -> {<< >>} \cup (Nat \X [Client -> Nat])]
        BY DEF TypeOK
      <4> DEFINE v == <<k[c], msg>>
                 V == {<< >>} \cup (Nat \X [Client -> Nat])
      <4>3. v \in V /\ applied \in [Client -> V] /\ applied' = [applied EXCEPT ![c] = v]
        BY <3>2, <4>1, <4>2
      <4> HIDE DEF v, V
      <4>4. applied' \in [Client -> V]
        BY <4>3
      <4>. QED
        BY <4>4 DEF V
    <3>. QED
      BY <1>9, <3>1, <3>2
  <2>. QED
    BY <1>6, <1>8, <1>10, <2>1, <2>2, <2>3 DEF TypeOK
<1>13. /\ \A d \in Client \ {c} : pc'[d] = pc[d] /\ k'[d] = k[d] /\ applied'[d] = applied[d]
       /\ pc'[c] \in {"finished", "done", "write"}
       /\ pc'[c] = "write" => msg # Finish /\ k'[c] = k[c] + 1 /\ left' = left
       /\ \/ applied'[c] = applied[c]
          \/ msg # Finish /\ applied'[c] = <<k[c], msg>>
  BY <1>9 DEF TypeOK
<1>14. Told(s, c) => /\ ~ Untold(s, c) /\ msg[c] = k[c] /\ k[c] + 1 = base[s][c] + turn[s]
                     /\ Active(s) => Len(q) = 1
  <2>1. SeatInv(base, turn, s, c)
    BY <1>2 DEF PairInv
  <2>2. Told(s, c) => /\ ~ Untold(s, c) /\ k[c] + 1 = base[s][c] + turn[s]
                      /\ q[1][c] = k[c]
    BY <1>2, <2>1 DEF SeatInv, q
  <2>3. Active(s) => Len(q) = 1
    BY <1>2, <1>3, <2>1 DEF SeatInv, q
  <2>. QED
    BY <1>3, <2>2, <2>3
<1>15. PairInv(base, turn, s, c)'
  <2>1. ~ NotYet(s, c)' /\ ~ (numAttack'[c] > s) /\ (At(s, c)' <=> pc'[c] = "write")
    BY <1>1, <1>2, <1>8, <1>13 DEF At, NotYet, Served, Waiting
  <2>2. ~ Told(s, c)' /\ (Untold(s, c)' <=> Untold(s, c)) /\ (Active(s)' <=> Active(s))
    <3>1. down'[s][c] # << >> => 1 \in DOMAIN down'[s][c]
      BY <1>5, <1>6
    <3>2. ~ Told(s, c)'
      BY <1>7, <3>1 DEF Told
    <3>. QED
      BY <1>8, <3>2 DEF Untold, Active
  <2>3. CASE pc'[c] # "write"
    <3>1. Sent(base, turn, s, c)'
      BY <2>1, <2>3 DEF Sent
    <3>2. UpInv(base, turn, s, c)'
      BY <1>2, <1>8, <2>2, <3>1 DEF PairInv, UpInv
    <3>. QED
      BY <2>1, <2>3, <3>2 DEF PairInv, SeatInv
  <2>4. CASE pc'[c] = "write"
    <3>1. Told(s, c) /\ ~ Untold(s, c) /\ k'[c] = base[s][c] + turn[s] /\ left' = left
      BY <1>11, <1>13, <1>14, <2>4
    <3>2. UpInv(base, turn, s, c)'
      BY <1>2, <1>8, <2>2, <3>1 DEF PairInv, UpInv, Sent
    <3>3. base[s][c] \in Nat /\ turn[s] \in Nat
      BY HistoryTypes
    <3>4. Active(s) => down'[s][c] = << >>
      BY <1>7, <1>14, <3>1
    <3>5. k'[c] - base[s][c] = turn[s]
      BY <3>1, <3>3
    <3>6. SeatInv(base, turn, s, c)'
      BY <1>2, <1>7, <1>8, <2>2, <2>4, <3>1, <3>4, <3>5 DEF PairInv, SeatInv
    <3>. QED
      BY <2>1, <3>2, <3>6 DEF PairInv
  <2>. QED
    BY <2>3, <2>4
<1>16. ClientInv(base, c)'
  <2>1. Served(c)' => numAttack'[c] \in Server
    BY <1>1, <1>8
  <2>2. applied'[c] # << >> => applied'[c][2][c] = applied'[c][1]
    BY <1>0, <1>11, <1>13, <1>14 DEF ClientInv
  <2>. QED
    BY <1>13, <2>1, <2>2 DEF ClientInv
<1>17. \A t \in Server : \A d \in Client : t # s \/ d # c =>
         /\ up'[t][d] = up[t][d] /\ down'[t][d] = down[t][d]
         /\ (d \in left'[t]) <=> (d \in left[t])
  BY <1>6, <1>8, <1>10
<1>18. RoundsInv(base, turn)'
  BY <1>1, <1>8, <1>13, <1>15, <1>16, <1>17, LocalStep
<1>. QED
  BY <1>12, <1>18

(* A client that crashes stops the server in its process, if it runs.      *)
LEMMA DownModes ==
  ASSUME TypeOK, NEW c \in Client, mode' = Down(mode, c)
  PROVE  /\ mode' \in [Server -> {"off", "accept", "collect", "broadcast", "finish",
                                 "closing", "closed"}]
         /\ \A t \in Server : \/ mode'[t] = mode[t]
                              \/ Runs(t) /\ mode'[t] = "closing"
<1>1. c \in Server
  BY Numbers
<1>2. mode \in [Server -> {"off", "accept", "collect", "broadcast", "finish",
                           "closing", "closed"}]
  BY DEF TypeOK
<1>. QED
  BY <1>1, <1>2 DEF Down

(* A server that goes on, or stops, in a step of a client.                 *)
LEMMA ServerGoesOn ==
  ASSUME NEW base, NEW turn, NEW s \in Server, ServerInv(turn, s), GotInv(base, turn, s),
         mode'[s] = mode[s] \/ (Runs(s) /\ mode'[s] = "closing"),
         sockets'[s] = sockets[s], got'[s] = got[s], up'[s] = up[s],
         s \in Client /\ numAttack'[s] < s => numAttack[s] < s
  PROVE  ServerInv(turn, s)' /\ GotInv(base, turn, s)'
<1>1. CASE mode'[s] = mode[s]
  BY <1>1, ServerFrame
<1>2. CASE Runs(s) /\ mode'[s] = "closing"
  <2>1. Accepted(s)' = Accepted(s)
    BY DEF Accepted
  <2>. QED
    BY <1>2, <2>1 DEF ServerInv, GotInv, Runs
<1>. QED
  BY <1>1, <1>2

(* A client that has ended, and each server.                               *)
LEMMA PairEnds ==
  ASSUME NEW base, NEW turn, NEW s \in Server, NEW c \in Client, PairInv(base, turn, s, c),
         pc[c] # "connect", pc'[c] \in Ended, numAttack'[c] = numAttack[c],
         mode'[s] = mode[s] \/ mode'[s] = "closing",
         sockets'[s] = sockets[s], got'[s] = got[s], next'[s] = next[s],
         up'[s][c] = up[s][c], down'[s][c] = down[s][c],
         (c \in left'[s]) <=> (c \in left[s])
  PROVE  PairInv(base, turn, s, c)'
<1>1. ~ At(s, c)' /\ (NotYet(s, c)' => NotYet(s, c))
  BY DEF At, NotYet, Served, Ended, Waiting
<1>2. /\ Accepted(s)' = Accepted(s) /\ (Active(s)' => Active(s))
      /\ (Untold(s, c)' => Untold(s, c))
  BY DEF Accepted, Active, Untold
<1>3. Sent(base, turn, s, c) => Sent(base, turn, s, c)'
  BY <1>1 DEF Sent
<1>4. UpInv(base, turn, s, c)'
  BY <1>2, <1>3 DEF PairInv, UpInv
<1>. QED
  BY <1>1, <1>2, <1>4 DEF PairInv, SeatInv

(* The second end of a stream ends the client.                             *)
LEMMA RereadEndStep ==
  ASSUME TypeOK, NEW base \in Bases, NEW turn \in Turns, RoundsInv(base, turn),
         NEW c \in Client, RereadEnd(c)
  PROVE  TypeOK' /\ RoundsInv(base, turn)'
<1>1. /\ pc[c] = "reread" /\ ~ Runs(Mine(c)) /\ pc' = [pc EXCEPT ![c] = "crashed"]
      /\ mode' = Down(mode, c) /\ Leave(Mine(c), c)
      /\ UNCHANGED <<k, numAttack, return, applied, sockets, got, next, up, down>>
  BY DEF RereadEnd, Closed, Goto
<1>2. left' = left
  <2>1. left \in [Server -> SUBSET Client]
    BY DEF TypeOK
  <2>. QED
    BY <1>1, <2>1 DEF Leave
<1>3. pc'[c] \in Ended /\ ~ Served(c)' /\ pc'[c] # "connect"
      /\ \A d \in Client \ {c} : pc'[d] = pc[d]
  BY <1>1 DEF TypeOK, Ended, Served, Waiting
<1>4. TypeOK'
  <2>1. pc' \in [Client -> {"write", "select", "read", "reread", "connect"} \cup Ended]
    BY <1>1 DEF TypeOK, Ended
  <2>. QED
    BY <1>1, <1>2, <2>1, DownModes DEF TypeOK
<1>5. \A t \in Server : mode'[t] = mode[t] \/ (Runs(t) /\ mode'[t] = "closing")
  BY <1>1, DownModes
<1>6. ASSUME NEW t \in Server, NEW d \in Client PROVE PairInv(base, turn, t, d)'
  <2>0. PairInv(base, turn, t, d)
    BY DEF RoundsInv
  <2>1. CASE d = c
    BY <1>1, <1>2, <1>3, <1>5, <2>0, <2>1, PairEnds
  <2>2. CASE d # c /\ mode'[t] = mode[t]
    BY <1>1, <1>2, <1>3, <2>0, <2>2, PairFrame
  <2>3. CASE d # c /\ Runs(t) /\ mode'[t] = "closing"
    BY <1>1, <1>2, <1>3, <2>0, <2>3, PairStops DEF Runs
  <2>. QED
    BY <1>5, <2>1, <2>2, <2>3
<1>7. ASSUME NEW t \in Server PROVE ServerInv(turn, t)' /\ GotInv(base, turn, t)'
  BY <1>1, <1>5, ServerGoesOn DEF RoundsInv
<1>8. ASSUME NEW d \in Client PROVE ClientInv(base, d)'
  BY <1>1, <1>3 DEF RoundsInv, ClientInv, Served
<1>9. BaseInv(base)'
  BY <1>1 DEF RoundsInv, BaseInv
<1>. QED
  BY <1>4, <1>6, <1>7, <1>8, <1>9 DEF RoundsInv

(* The round of a client is added to the history.                          *)
LEMMA NewBase ==
  ASSUME TypeOK, NEW base \in Bases, NEW s \in 0 .. Hosts + 1, NEW c \in Client
  PROVE  \E b \in Bases :
           /\ b[s][c] = k[c]
           /\ \A t \in 0 .. Hosts + 1, d \in Client : t # s \/ d # c => b[t][d] = base[t][d]
<1> DEFINE h == [base[s] EXCEPT ![c] = k[c]]
           b == [base EXCEPT ![s] = h]
<1>1. base[s] \in [Client -> Nat \ {0}] /\ k[c] \in Nat \ {0}
  BY ClientTypes DEF Bases
<1>2. h \in [Client -> Nat \ {0}] /\ h[c] = k[c] /\ \A d \in Client \ {c} : h[d] = base[s][d]
  BY <1>1
<1> HIDE DEF h
<1>3. b \in Bases /\ b[s] = h /\ \A t \in 0 .. Hosts + 1 : t # s => b[t] = base[t]
  BY <1>2 DEF Bases
<1>4. \A t \in 0 .. Hosts + 1, d \in Client : t # s \/ d # c => b[t][d] = base[t][d]
  BY <1>2, <1>3
<1>. QED
  BY <1>2, <1>3, <1>4

(* What is said of a pair reads two entries of the history.                *)
LEMMA PairBase ==
  ASSUME NEW base, NEW b, NEW turn, NEW s \in Server, NEW c \in Client,
         PairInv(base, turn, s, c), b[s][c] = base[s][c], b[s + 1][c] = base[s + 1][c]
  PROVE  PairInv(b, turn, s, c)
<1>1. Sent(base, turn, s, c) <=> Sent(b, turn, s, c)
  BY DEF Sent
<1>2. UpInv(b, turn, s, c)
  BY <1>1 DEF PairInv, UpInv
<1>3. SeatInv(b, turn, s, c)
  BY DEF PairInv, SeatInv
<1>. QED
  BY <1>2, <1>3 DEF PairInv

(* A server that is started has seen nobody.                               *)
LEMMA PairStarts ==
  ASSUME NEW base, NEW turn, NEW s \in Server, NEW c \in Client,
         PairInv(base, turn, s, c), ServerInv(turn, s),
         pc'[c] = pc[c], numAttack'[c] = numAttack[c],
         mode[s] = "off", mode'[s] = "accept",
         sockets'[s] = sockets[s], got'[s] = got[s], up'[s][c] = up[s][c],
         down'[s][c] = down[s][c], (c \in left'[s]) <=> (c \in left[s])
  PROVE  PairInv(base, turn, s, c)'
<1>1. up'[s][c] = << >> /\ mode'[s] # "collect"
  BY DEF ServerInv
<1>2. UpInv(base, turn, s, c)'
  BY <1>1 DEF UpInv
<1>3. ~ At(s, c) /\ (At(s, c) <=> At(s, c)') /\ (NotYet(s, c) <=> NotYet(s, c)')
  BY DEF At, NotYet, Served, PairInv, SeatInv
<1>4. Accepted(s)' = Accepted(s)
  BY DEF Accepted
<1>. QED
  BY <1>2, <1>3, <1>4 DEF PairInv, SeatInv

(* A client that gives up its server has used all of the averages of that  *)
(* server, or all but the last.                                            *)
LEMMA GivesUp ==
  ASSUME TypeOK, NEW base \in Bases, NEW b \in Bases, NEW turn \in Turns,
         NEW s \in Server, NEW c \in Client,
         PairInv(base, turn, s, c), At(s, c), b[s][c] = base[s][c], b[s + 1][c] = k[c],
         numAttack'[c] = s + 1,
         mode'[s] = mode[s] \/ mode'[s] = "closing",
         sockets'[s] = sockets[s], got'[s] = got[s], next'[s] = next[s],
         up'[s][c] = up[s][c], down'[s][c] = down[s][c]
  PROVE  PairInv(b, turn, s, c)'
<1>1. s \in Nat /\ base[s][c] \in Nat /\ turn[s] \in Nat /\ k[c] \in Nat
  BY Numbers, HistoryTypes, ClientTypes
<1>2. ~ At(s, c)' /\ ~ NotYet(s, c)'
  BY <1>1 DEF At, NotYet
<1>3. k[c] - base[s][c] \in {turn[s] - 1, turn[s]}
  BY <1>1 DEF PairInv, SeatInv
<1>4. Active(s) /\ ~ Told(s, c) /\ ~ Untold(s, c) => k[c] - base[s][c] = turn[s]
  BY <1>1 DEF PairInv, SeatInv
<1>5. Sent(base, turn, s, c) /\ Active(s) /\ ~ Untold(s, c) => Sent(b, turn, s, c)'
  BY <1>2, <1>4 DEF Sent
<1>6. /\ (Active(s)' => Active(s)) /\ (mode'[s] = "collect" => ~ Untold(s, c) /\ Active(s))
      /\ (mode'[s] = "collect" => mode[s] = "collect")
      /\ (Untold(s, c)' => Untold(s, c))
  BY DEF Active, Untold
<1>7. UpInv(b, turn, s, c)'
  BY <1>5, <1>6 DEF PairInv, UpInv
<1>. QED
  BY <1>2, <1>3, <1>7 DEF PairInv, SeatInv

(* A client gives up its server for the next, and starts that server if it *)
(* is its own.                                                             *)
LEMMA FailoverStep ==
  ASSUME TypeOK, NEW base \in Bases, NEW turn \in Turns, RoundsInv(base, turn),
         NEW c \in Client, NEW to \in Waiting, Served(c), Failover(c, to)
  PROVE  TypeOK' /\ \E b \in Bases : RoundsInv(b, turn)'
<1>0. PICK s \in Server : s = numAttack[c]
  BY DEF RoundsInv, ClientInv
<1>1. At(s, c) /\ PairInv(base, turn, s, c) /\ s \in Nat /\ s + 1 \in 0 .. Hosts + 1
  BY <1>0, Numbers DEF At, RoundsInv
<1>2. /\ numAttack' = [numAttack EXCEPT ![c] = s + 1]
      /\ return' = [return EXCEPT ![c] = to] /\ Leave(s, c)
      /\ UNCHANGED <<k, applied, sockets, got, next, up, down>>
      /\ \/ s + 1 > Hosts /\ pc' = [pc EXCEPT ![c] = "crashed"] /\ mode' = Down(mode, c)
         \/ /\ s + 1 <= Hosts /\ pc' = [pc EXCEPT ![c] = "connect"]
            /\ \/ s + 1 = c /\ mode' = [mode EXCEPT ![c] = "accept"]
               \/ s + 1 # c /\ mode' = mode
  <2>1. s + 1 > Hosts \/ s + 1 <= Hosts
    BY <1>1, Numbers
  <2>. QED
    BY <1>0, <2>1 DEF Failover, Goto, Mine
<1>3. /\ numAttack'[c] = s + 1 /\ numAttack[c] = s
      /\ pc'[c] \in {"connect", "crashed"} /\ ~ Served(c)'
      /\ pc'[c] = "crashed" => s + 1 \notin Server
      /\ \A d \in Client \ {c} : pc'[d] = pc[d] /\ numAttack'[d] = numAttack[d]
                                 /\ (Served(d) <=> Served(d)')
  <2>1. s + 1 > Hosts => s + 1 \notin Server
    BY <1>1, Numbers
  <2>2. pc'[c] \in {"connect", "crashed"} /\ (pc'[c] = "crashed" => s + 1 > Hosts)
    BY <1>2 DEF TypeOK
  <2>. QED
    BY <1>0, <1>2, <2>1, <2>2 DEF TypeOK, Served, Waiting
<1>4. ASSUME NEW t \in Server
      PROVE  \/ mode'[t] = mode[t] /\ (t = s + 1 => t \notin Client \/ t # c)
             \/ Runs(t) /\ mode'[t] = "closing" /\ t # s + 1
             \/ t = s + 1 /\ t = c /\ mode[t] = "off" /\ mode'[t] = "accept"
  <2>1. CASE mode' = Down(mode, c) /\ s + 1 > Hosts
    BY <2>1, <1>1, DownModes, Numbers
  <2>2. CASE s + 1 = c /\ mode' = [mode EXCEPT ![c] = "accept"]
    <3>1. ServerInv(turn, c)
      BY Numbers DEF RoundsInv
    <3>2. mode[c] = "off"
      BY <1>1, <1>3, <2>2, <3>1 DEF ServerInv
    <3>3. mode'[t] = IF t = c THEN "accept" ELSE mode[t]
      BY <2>2 DEF TypeOK
    <3>. QED
      BY <2>2, <3>2, <3>3
  <2>3. CASE s + 1 # c /\ mode' = mode
    BY <2>3
  <2>. QED
    BY <1>2, <2>1, <2>2, <2>3
<1>5. /\ left' \in [Server -> SUBSET Client]
      /\ \A t \in Server : \A d \in Client : t # s \/ d # c =>
           ((d \in left'[t]) <=> (d \in left[t]))
  BY <1>2, LeaveKeeps
<1>6. TypeOK'
  <2>1. pc' \in [Client -> {"write", "select", "read", "reread", "connect"} \cup Ended]
    BY <1>2 DEF TypeOK, Ended
  <2>2. numAttack' \in [Client -> 0 .. Hosts + 1]
    BY <1>1, <1>2 DEF TypeOK
  <2>3. return' \in [Client -> {"write"} \cup Waiting]
    BY <1>2 DEF TypeOK
  <2>4. mode' \in [Server -> {"off", "accept", "collect", "broadcast", "finish",
                              "closing", "closed"}]
    BY <1>2, DownModes DEF TypeOK
  <2>. QED
    BY <1>2, <1>5, <2>1, <2>2, <2>3, <2>4 DEF TypeOK
<1>7. PICK b \in Bases :
        /\ b[s + 1][c] = k[c]
        /\ \A t \in 0 .. Hosts + 1, d \in Client : t # s + 1 \/ d # c => b[t][d] = base[t][d]
  BY <1>1, NewBase
<1>8. \A t \in Server : t \in 0 .. Hosts + 1 /\ t + 1 \in 0 .. Hosts + 1 /\ t \in Nat
  BY Numbers
<1>9. ASSUME NEW t \in Server, NEW d \in Client PROVE PairInv(b, turn, t, d)'
  <2>0. PairInv(base, turn, t, d) /\ ServerInv(turn, t)
    BY DEF RoundsInv
  <2>1. CASE d # c
    <3>1. PairInv(b, turn, t, d)
      BY <1>7, <1>8, <2>0, <2>1, PairBase
    <3>2. /\ UNCHANGED <<k, sockets, got, next, up, down>>
          /\ (d \in left'[t]) <=> (d \in left[t])
          /\ pc'[d] = pc[d] /\ numAttack'[d] = numAttack[d]
      BY <1>2, <1>3, <1>5, <2>1
    <3>3. CASE mode'[t] = mode[t]
      BY <3>1, <3>2, <3>3, PairFrame
    <3>4. CASE Runs(t) /\ mode'[t] = "closing"
      BY <3>1, <3>2, <3>4, PairStops DEF Runs
    <3>5. CASE mode[t] = "off" /\ mode'[t] = "accept"
      BY <2>0, <3>1, <3>2, <3>5, PairStarts
    <3>. QED
      BY <1>4, <3>3, <3>4, <3>5
  <2>2. CASE d = c /\ t = s
    <3>1. b[s][c] = base[s][c] /\ s # s + 1
      BY <1>7, <1>8
    <3>2. mode'[s] = mode[s] \/ mode'[s] = "closing"
      BY <1>4, <3>1
    <3>. QED
      BY <1>1, <1>2, <1>3, <1>7, <2>2, <3>1, <3>2, GivesUp
  <2>3. CASE d = c /\ t = s + 1
    <3>1. NotYet(t, c) /\ numAttack'[c] = t /\ pc'[c] = "connect" /\ t # s
      BY <1>1, <1>3, <2>3 DEF NotYet
    <3>2. /\ up[t][c] = << >> /\ down[t][c] = << >> /\ c \notin left'[t]
          /\ c \notin Accepted(t) /\ c \notin DOMAIN got[t] /\ Accepted(t)' = Accepted(t)
      BY <1>2, <1>5, <2>0, <2>3, <3>1 DEF PairInv, ServerInv, Accepted
    <3>3. ~ At(t, c)' /\ ~ (numAttack'[c] > t)
      BY <1>3, <1>8, <3>1 DEF At
    <3>4. UpInv(b, turn, t, c)'
      BY <1>2, <3>2 DEF UpInv
    <3>. QED
      BY <1>2, <2>3, <3>2, <3>3, <3>4 DEF PairInv, SeatInv
  <2>4. CASE d = c /\ t # s /\ t # s + 1
    <3>1. /\ ~ At(t, c) /\ ~ At(t, c)' /\ (NotYet(t, c)' <=> NotYet(t, c))
          /\ (numAttack'[c] > t <=> numAttack[c] > t)
      BY <1>1, <1>3, <1>8, <2>4 DEF At, NotYet
    <3>2. b[t][c] = base[t][c] /\ (numAttack[c] > t => b[t + 1][c] = base[t + 1][c])
      BY <1>1, <1>3, <1>7, <1>8, <2>4
    <3>3. mode'[t] = mode[t] \/ mode'[t] = "closing"
      BY <1>4, <2>4
    <3>4. Accepted(t)' = Accepted(t) /\ (Active(t)' => Active(t))
          /\ (Untold(t, c)' => Untold(t, c))
      BY <1>2, <3>3 DEF Accepted, Active, Untold
    <3>5. Sent(base, turn, t, c) => Sent(b, turn, t, c)'
      BY <3>1, <3>2 DEF Sent
    <3>6. UpInv(b, turn, t, c)'
      BY <1>2, <2>0, <2>4, <3>2, <3>3, <3>4, <3>5 DEF PairInv, UpInv
    <3>. QED
      BY <1>2, <1>5, <2>0, <2>4, <3>1, <3>2, <3>4, <3>6 DEF PairInv, SeatInv
  <2>. QED
    BY <2>1, <2>2, <2>3, <2>4
<1>10. ASSUME NEW t \in Server PROVE ServerInv(turn, t)' /\ GotInv(b, turn, t)'
  <2>0. ServerInv(turn, t) /\ GotInv(base, turn, t)
    BY DEF RoundsInv
  <2>1. ASSUME NEW d \in DOMAIN got[t] PROVE b[t][d] = base[t][d]
    <3>1. d \in Client /\ d \in Accepted(t)
      BY <2>0, ServerTypes DEF ServerInv
    <3>2. d = c => t # s + 1
      <4>1. NotYet(s + 1, c)
        BY <1>1, <1>3 DEF NotYet
      <4>. QED
        BY <3>1, <4>1 DEF RoundsInv, PairInv
    <3>. QED
      BY <1>7, <1>8, <3>1, <3>2
  <2>2. GotInv(b, turn, t)
    BY <2>0, <2>1 DEF GotInv
  <2>3. t \in Client /\ numAttack'[t] < t => numAttack[t] < t
    BY <1>1, <1>3, <1>8
  <2>4. CASE mode'[t] = mode[t] \/ (Runs(t) /\ mode'[t] = "closing")
    BY <1>2, <2>0, <2>2, <2>3, <2>4, ServerGoesOn
  <2>5. CASE t = s + 1 /\ t = c /\ mode[t] = "off" /\ mode'[t] = "accept"
    <3>1. Accepted(t)' = Accepted(t) /\ ~ (numAttack'[t] < t)
      BY <1>1, <1>2, <1>3, <2>5 DEF Accepted
    <3>. QED
      BY <1>2, <2>0, <2>2, <2>5, <3>1 DEF ServerInv, GotInv
  <2>. QED
    BY <1>4, <2>4, <2>5
<1>11. ASSUME NEW d \in Client PROVE ClientInv(b, d)'
  <2>1. ClientInv(base, d) /\ numAttack[d] \in 0 .. Hosts + 1
    BY ClientTypes DEF RoundsInv
  <2>2. CASE d = c
    BY <1>2, <1>3, <1>7, <2>1, <2>2 DEF ClientInv
  <2>3. CASE d # c
    BY <1>2, <1>3, <1>7, <2>1, <2>3 DEF ClientInv
  <2>. QED
    BY <2>2, <2>3
<1>12. BaseInv(b)'
  <2> SUFFICES ASSUME NEW t \in Server, NEW d \in Client, NEW e \in Client,
                      numAttack'[d] >= t, numAttack'[e] >= t
               PROVE  b[t][d] - b[t][e] <= t
    BY DEF BaseInv
  <2>1. CASE t # s + 1
    <3>1. numAttack[d] >= t /\ numAttack[e] >= t
      BY <1>1, <1>3, <1>8, <2>1, ClientTypes
    <3>. QED
      BY <1>7, <1>8, <2>1, <3>1 DEF RoundsInv, BaseInv
  <2>2. CASE t = s + 1
    <3>1. \A f \in {d, e} : b[t][f] - base[s][f] \in {turn[s] - 1, turn[s]}
      <4> SUFFICES ASSUME NEW f \in {d, e} PROVE b[t][f] - base[s][f] \in {turn[s] - 1, turn[s]}
        OBVIOUS
      <4>1. PairInv(b, turn, s, f)' /\ b[s][f] = base[s][f]
        BY <1>7, <1>8, <1>9
      <4>2. numAttack'[f] > s
        BY <1>1, <1>3, <2>2, ClientTypes
      <4>. QED
        BY <2>2, <4>1, <4>2 DEF PairInv
    <3>2. base[s][d] - base[s][e] <= s
      <4>1. numAttack[d] >= s /\ numAttack[e] >= s
        BY <1>1, <1>3, <2>2, ClientTypes
      <4>. QED
        BY <4>1 DEF RoundsInv, BaseInv
    <3>3. /\ base[s][d] \in Nat /\ base[s][e] \in Nat /\ turn[s] \in Nat
          /\ b[t][d] \in Nat /\ b[t][e] \in Nat
      BY <1>1, <2>2, HistoryTypes
    <3>. QED
      BY <1>1, <2>2, <3>1, <3>2, <3>3
  <2>. QED
    BY <2>1, <2>2
<1>. QED
  BY <1>6, <1>9, <1>10, <1>11, <1>12 DEF RoundsInv

-----------------------------------------------------------------------------
(* What is said of a server reads its own entry of the history.            *)
LEMMA TurnElsewhere ==
  ASSUME NEW base, NEW turn, NEW turn2, NEW s \in Server, turn2[s] = turn[s],
         ServerInv(turn, s), GotInv(base, turn, s),
         \A c \in Client : PairInv(base, turn, s, c)
  PROVE  /\ ServerInv(turn2, s) /\ GotInv(base, turn2, s)
         /\ \A c \in Client : PairInv(base, turn2, s, c)
<1>1. ServerInv(turn2, s) /\ GotInv(base, turn2, s)
  BY DEF ServerInv, GotInv
<1>2. ASSUME NEW c \in Client PROVE PairInv(base, turn2, s, c)
  <2>0. PairInv(base, turn, s, c)
    OBVIOUS
  <2>1. Sent(base, turn, s, c) <=> Sent(base, turn2, s, c)
    BY DEF Sent
  <2>2. UpInv(base, turn2, s, c)
    BY <2>0, <2>1 DEF PairInv, UpInv
  <2>3. SeatInv(base, turn2, s, c)
    BY <2>0 DEF PairInv, SeatInv
  <2>. QED
    BY <2>0, <2>2, <2>3 DEF PairInv
<1>. QED
  BY <1>1, <1>2

(* A step of one server touches the others in nothing.                     *)
LEMMA ServerAlone ==
  ASSUME NEW base \in Bases, NEW turn \in Turns, NEW turn2 \in Turns, RoundsInv(base, turn),
         NEW s \in Server, UNCHANGED <<pc, k, numAttack, applied>>,
         \A t \in Server \ {s} :
           /\ turn2[t] = turn[t] /\ mode'[t] = mode[t] /\ sockets'[t] = sockets[t]
           /\ got'[t] = got[t] /\ next'[t] = next[t] /\ up'[t] = up[t]
           /\ down'[t] = down[t] /\ left'[t] = left[t],
         ServerInv(turn2, s)', GotInv(base, turn2, s)',
         \A c \in Client : PairInv(base, turn2, s, c)'
  PROVE  RoundsInv(base, turn2)'
<1>0. UNCHANGED <<pc, k, numAttack, applied>>
  OBVIOUS
<1>1. ASSUME NEW t \in Server, t # s
      PROVE  /\ ServerInv(turn2, t)' /\ GotInv(base, turn2, t)'
             /\ \A c \in Client : PairInv(base, turn2, t, c)'
  <2>1. /\ ServerInv(turn2, t) /\ GotInv(base, turn2, t)
        /\ \A c \in Client : PairInv(base, turn2, t, c)
    BY <1>1, TurnElsewhere DEF RoundsInv
  <2>2. ServerInv(turn2, t)' /\ GotInv(base, turn2, t)'
    BY <1>0, <1>1, <2>1, ServerFrame
  <2>3. ASSUME NEW c \in Client PROVE PairInv(base, turn2, t, c)'
    BY <1>0, <1>1, <2>1, PairFrame
  <2>. QED
    BY <2>2, <2>3
<1>2. ASSUME NEW c \in Client PROVE ClientInv(base, c)'
  BY <1>0 DEF RoundsInv, ClientInv, Served
<1>3. BaseInv(base)'
  BY <1>0 DEF RoundsInv, BaseInv
<1>. QED
  BY <1>1, <1>2, <1>3 DEF RoundsInv

(* All clients have connected.                                             *)
LEMMA AcceptAllStep ==
  ASSUME TypeOK, NEW base \in Bases, NEW turn \in Turns, RoundsInv(base, turn),
         NEW s \in Server, AcceptAll(s)
  PROVE  TypeOK' /\ RoundsInv(base, turn)'
<1>1. /\ mode[s] = "accept" /\ Len(sockets[s]) = ClientNum
      /\ mode' = [mode EXCEPT ![s] = "collect"] /\ UNCHANGED clientVars
      /\ UNCHANGED <<pc, k, numAttack, return, applied, sockets, got, next, up, down, left>>
  BY DEF AcceptAll, clientVars
<1>2. TypeOK'
  BY <1>1 DEF TypeOK
<1>3. mode'[s] = "collect" /\ \A t \in Server \ {s} : mode'[t] = mode[t]
  BY <1>1 DEF TypeOK
<1>4. ServerInv(turn, s) /\ GotInv(base, turn, s) /\ Accepted(s)' = Accepted(s)
  BY <1>1 DEF RoundsInv, Accepted
<1>5. turn[s] = 0 /\ got[s] = << >> /\ DOMAIN got[s] = {}
  BY <1>1, <1>4 DEF ServerInv
<1>6. ServerInv(turn, s)' /\ GotInv(base, turn, s)'
  <2>1. s \in Client => ~ (numAttack[s] < s)
    BY <1>1, <1>4 DEF ServerInv
  <2>2. ServerInv(turn, s)'
    BY <1>1, <1>3, <1>4, <1>5, <2>1 DEF ServerInv
  <2>. QED
    BY <1>1, <1>3, <1>5, <2>2 DEF GotInv
<1>7. ASSUME NEW c \in Client PROVE PairInv(base, turn, s, c)'
  <2>0. PairInv(base, turn, s, c)
    BY DEF RoundsInv
  <2>1. /\ Active(s) /\ Active(s)' /\ ~ Untold(s, c) /\ ~ Untold(s, c)'
        /\ (Told(s, c)' <=> Told(s, c)) /\ (At(s, c)' <=> At(s, c))
        /\ (NotYet(s, c)' <=> NotYet(s, c))
    BY <1>1, <1>3 DEF Active, Untold, Told, At, NotYet, Served
  <2>2. Sent(base, turn, s, c)' <=> Sent(base, turn, s, c)
    BY <1>1, <2>1 DEF Sent
  <2>3. UpInv(base, turn, s, c)'
    BY <1>1, <1>5, <2>0, <2>1, <2>2 DEF PairInv, UpInv
  <2>4. SeatInv(base, turn, s, c)'
    BY <1>1, <1>3, <2>0, <2>1 DEF PairInv, SeatInv
  <2>. QED
    BY <1>1, <1>4, <2>0, <2>1, <2>3, <2>4 DEF PairInv
<1>. QED
  BY <1>1, <1>2, <1>3, <1>6, <1>7, ServerAlone

(* What a handler thread returns is added to what the others returned.     *)
LEMMA ReturnAdds ==
  ASSUME TypeOK, NEW s \in Server, NEW c \in Client, NEW result \in Nat, Unread(s, c),
         Return(s, c, result)
  PROVE  /\ DOMAIN got'[s] = DOMAIN got[s] \cup {c} /\ got'[s][c] = result
         /\ \A d \in DOMAIN got[s] : got'[s][d] = got[s][d]
         /\ c \notin DOMAIN got[s]
         /\ \A t \in Server \ {s} : got'[t] = got[t]
         /\ got' = [t \in Server |-> got'[t]]
         /\ \A t \in Server : DOMAIN got'[t] \subseteq Client
                              /\ got'[t] \in [DOMAIN got'[t] -> Nat]
<1> DEFINE g == [d \in DOMAIN got[s] \cup {c} |-> IF d = c THEN result ELSE got[s][d]]
<1>1. got = [t \in Server |-> got[t]]
  BY DEF TypeOK
<1>2. got' = [got EXCEPT ![s] = g]
  BY DEF Return
<1>3. /\ DOMAIN g = DOMAIN got[s] \cup {c} /\ g[c] = result
      /\ \A d \in DOMAIN got[s] : d # c => g[d] = got[s][d]
      /\ g \in [DOMAIN got[s] \cup {c} -> Nat] /\ DOMAIN got[s] \subseteq Client
  BY ServerTypes
<1> HIDE DEF g
<1>4. got'[s] = g /\ (\A t \in Server \ {s} : got'[t] = got[t])
      /\ got' = [t \in Server |-> got'[t]]
  BY <1>1, <1>2
<1>5. \A t \in Server : DOMAIN got'[t] \subseteq Client /\ got'[t] \in [DOMAIN got'[t] -> Nat]
  <2> SUFFICES ASSUME NEW t \in Server
               PROVE  DOMAIN got'[t] \subseteq Client /\ got'[t] \in [DOMAIN got'[t] -> Nat]
    OBVIOUS
  <2>1. CASE t = s
    BY <1>3, <1>4, <2>1
  <2>2. CASE t # s
    BY <1>4, <2>2, ServerTypes
  <2>. QED
    BY <2>1, <2>2
<1>. QED
  BY <1>3, <1>4, <1>5 DEF Unread

(* What is returned is Error, or the message of this round, which was sent. *)
LEMMA ReturnStep ==
  ASSUME TypeOK, NEW base \in Bases, NEW turn \in Turns, RoundsInv(base, turn),
         NEW s \in Server, NEW c \in Client, NEW result \in Nat,
         Unread(s, c), Return(s, c, result),
         UNCHANGED <<clientVars, mode, sockets, next, down, left>>,
         up'[s][c] = << >>, \A d \in Client \ {c} : up'[s][d] = up[s][d],
         \A t \in Server \ {s} : up'[t] = up[t],
         \/ result = Error
         \/ result = base[s][c] + turn[s] /\ Sent(base, turn, s, c)
  PROVE  RoundsInv(base, turn)'
<1>1. /\ UNCHANGED <<pc, k, numAttack, applied, mode, sockets, next, down, left>>
      /\ mode[s] = "collect" /\ c \in Accepted(s)
  BY DEF clientVars, Unread
<1>2. /\ DOMAIN got'[s] = DOMAIN got[s] \cup {c} /\ got'[s][c] = result
      /\ \A d \in DOMAIN got[s] : got'[s][d] = got[s][d]
      /\ \A t \in Server \ {s} : got'[t] = got[t]
  BY ReturnAdds
<1>3. ServerInv(turn, s) /\ GotInv(base, turn, s) /\ Accepted(s)' = Accepted(s)
  BY <1>1 DEF RoundsInv, Accepted
<1>4. ServerInv(turn, s)'
  BY <1>1, <1>2, <1>3 DEF ServerInv
<1>5. GotInv(base, turn, s)'
  <2>1. \A d \in DOMAIN got'[s] : got'[s][d] \in {Error, base[s][d] + turn[s]}
    BY <1>1, <1>2, <1>3 DEF GotInv
  <2>. QED
    BY <1>1, <2>1 DEF GotInv
<1>6. ASSUME NEW d \in Client PROVE PairInv(base, turn, s, d)'
  <2>0. PairInv(base, turn, s, d)
    BY DEF RoundsInv
  <2>1. /\ (Active(s)' <=> Active(s)) /\ (Untold(s, d)' <=> Untold(s, d))
        /\ (Told(s, d)' <=> Told(s, d)) /\ (At(s, d)' <=> At(s, d))
        /\ (NotYet(s, d)' <=> NotYet(s, d))
    BY <1>1 DEF Active, Untold, Told, At, NotYet, Served
  <2>2. Sent(base, turn, s, d)' <=> Sent(base, turn, s, d)
    BY <1>1, <2>1 DEF Sent
  <2>3. UpInv(base, turn, s, d)'
    <3>1. CASE d = c
      BY <1>1, <1>2, <2>2, <3>1 DEF UpInv
    <3>2. CASE d # c
      BY <1>1, <1>2, <2>0, <2>1, <2>2, <3>2 DEF PairInv, UpInv
    <3>. QED
      BY <3>1, <3>2
  <2>4. SeatInv(base, turn, s, d)'
    BY <1>1, <2>0, <2>1 DEF PairInv, SeatInv
  <2>5. NotYet(s, d)' => up'[s][d] = << >>
    BY <2>0, <2>1 DEF PairInv
  <2>. QED
    BY <1>1, <1>3, <2>0, <2>1, <2>3, <2>4, <2>5 DEF PairInv
<1>. QED
  BY <1>1, <1>2, <1>4, <1>5, <1>6, ServerAlone

(* A handler thread reads the message of its client.                       *)
LEMMA HandleReadStep ==
  ASSUME TypeOK, NEW base \in Bases, NEW turn \in Turns, RoundsInv(base, turn),
         NEW s \in Server, NEW c \in Client, HandleRead(s, c)
  PROVE  TypeOK' /\ RoundsInv(base, turn)'
<1>1. /\ Unread(s, c) /\ up[s][c] # << >> /\ Active(s)
      /\ Return(s, c, Head(up[s][c])) /\ up' = [up EXCEPT ![s][c] = Tail(up[s][c])]
      /\ UNCHANGED <<clientVars, mode, sockets, next, down, left>>
  BY DEF HandleRead, Unread, Active
<1>2. up[s][c] = <<base[s][c] + turn[s]>> /\ Sent(base, turn, s, c)
  BY <1>1 DEF RoundsInv, PairInv, UpInv
<1>3. base[s][c] + turn[s] \in Nat
  BY HistoryTypes
<1>4. Head(up[s][c]) = base[s][c] + turn[s] /\ Tail(up[s][c]) = << >>
  BY <1>2, <1>3
<1>5. /\ up' \in [Server -> [Client -> Seq(Nat)]] /\ up'[s][c] = << >>
      /\ \A d \in Client \ {c} : up'[s][d] = up[s][d]
      /\ \A t \in Server \ {s} : up'[t] = up[t]
  <2>1. up \in [Server -> [Client -> Seq(Nat)]] /\ << >> \in Seq(Nat)
    BY DEF TypeOK
  <2>2. up' = [up EXCEPT ![s][c] = << >>]
    BY <1>1, <1>4
  <2>. QED
    BY <2>1, <2>2, UpdateEntry
<1>6. TypeOK'
  <2>1. /\ got' = [t \in Server |-> got'[t]]
        /\ \A t \in Server : DOMAIN got'[t] \subseteq Client
                             /\ got'[t] \in [DOMAIN got'[t] -> Nat]
    BY <1>1, <1>3, <1>4, ReturnAdds
  <2>. QED
    BY <1>1, <1>5, <2>1 DEF TypeOK, clientVars
<1>7. RoundsInv(base, turn)'
  BY <1>1, <1>2, <1>3, <1>4, <1>5, ReturnStep
<1>. QED
  BY <1>6, <1>7

(* A handler thread gets nothing.                                          *)
LEMMA HandleErrorStep ==
  ASSUME TypeOK, NEW base \in Bases, NEW turn \in Turns, RoundsInv(base, turn),
         NEW s \in Server, NEW c \in Client, HandleError(s, c)
  PROVE  TypeOK' /\ RoundsInv(base, turn)'
<1>1. /\ Unread(s, c) /\ up[s][c] = << >> /\ Return(s, c, Error) /\ Error \in Nat
      /\ UNCHANGED <<clientVars, mode, sockets, next, up, down, left>>
  BY DEF HandleError, Error
<1>2. TypeOK'
  <2>1. /\ got' = [t \in Server |-> got'[t]]
        /\ \A t \in Server : DOMAIN got'[t] \subseteq Client
                             /\ got'[t] \in [DOMAIN got'[t] -> Nat]
    BY <1>1, ReturnAdds
  <2>. QED
    BY <1>1, <2>1 DEF TypeOK, clientVars
<1>3. RoundsInv(base, turn)'
  BY <1>1, ReturnStep
<1>. QED
  BY <1>2, <1>3

(* What the handler threads returned is dropped.                           *)
LEMMA GotDropped ==
  ASSUME TypeOK, NEW s \in Server, got' = [got EXCEPT ![s] = << >>]
  PROVE  /\ got'[s] = << >> /\ DOMAIN got'[s] = {}
         /\ \A t \in Server \ {s} : got'[t] = got[t]
         /\ got' = [t \in Server |-> got'[t]]
         /\ \A t \in Server : DOMAIN got'[t] \subseteq Client
                              /\ got'[t] \in [DOMAIN got'[t] -> Nat]
<1>1. got = [t \in Server |-> got[t]]
  BY DEF TypeOK
<1>2. got'[s] = << >> /\ (\A t \in Server \ {s} : got'[t] = got[t])
      /\ got' = [t \in Server |-> got'[t]]
  BY <1>1
<1>3. DOMAIN << >> = {} /\ << >> \in [{} -> Nat]
  OBVIOUS
<1>4. ASSUME NEW t \in Server
      PROVE  DOMAIN got'[t] \subseteq Client /\ got'[t] \in [DOMAIN got'[t] -> Nat]
  <2>1. CASE t = s
    <3>1. got'[t] = << >>
      BY <1>2, <2>1
    <3>. QED
      BY <1>3, <3>1
  <2>2. CASE t # s
    BY <1>2, <2>2, ServerTypes
  <2>. QED
    BY <2>1, <2>2
<1>. QED
  BY <1>2, <1>3, <1>4

(* A server ends after an error.                                           *)
LEMMA StopStep ==
  ASSUME TypeOK, NEW base \in Bases, NEW turn \in Turns, RoundsInv(base, turn),
         NEW s \in Server, Stop(s)
  PROVE  TypeOK' /\ RoundsInv(base, turn)'
<1>1. /\ mode[s] = "collect" /\ mode' = [mode EXCEPT ![s] = "closing"]
      /\ got' = [got EXCEPT ![s] = << >>]
      /\ UNCHANGED <<clientVars, pc, k, numAttack, return, applied, sockets, next, up, down,
                     left>>
  BY DEF Stop, AllReturned, clientVars
<1>2. TypeOK'
  BY <1>1, GotDropped DEF TypeOK
<1>3. mode'[s] = "closing" /\ \A t \in Server \ {s} : mode'[t] = mode[t]
  BY <1>1 DEF TypeOK
<1>4. DOMAIN got'[s] = {} /\ got'[s] = << >> /\ \A t \in Server \ {s} : got'[t] = got[t]
  BY <1>1, GotDropped
<1>5. ServerInv(turn, s) /\ Accepted(s)' = Accepted(s)
  BY <1>1 DEF RoundsInv, Accepted
<1>6. ServerInv(turn, s)' /\ GotInv(base, turn, s)'
  BY <1>1, <1>3, <1>4, <1>5 DEF ServerInv, GotInv
<1>7. ASSUME NEW c \in Client PROVE PairInv(base, turn, s, c)'
  BY <1>1, <1>3, PairStops DEF RoundsInv
<1>. QED
  BY <1>1, <1>2, <1>3, <1>4, <1>6, <1>7, ServerAlone

(* An average is made of one message of each client, each of the round in  *)
(* which the client is.                                                    *)
LEMMA AverageStep ==
  ASSUME TypeOK, NEW base \in Bases, NEW turn \in Turns, RoundsInv(base, turn),
         NEW s \in Server, Average(s)
  PROVE  TypeOK' /\ \E turn2 \in Turns : RoundsInv(base, turn2)'
<1>1. /\ mode[s] = "collect" /\ DOMAIN got[s] = Client
      /\ \A c \in Client : got[s][c] # Error
      /\ mode' = [mode EXCEPT ![s] = "broadcast"] /\ next' = [next EXCEPT ![s] = 1]
      /\ UNCHANGED <<clientVars, pc, k, numAttack, return, applied, sockets, got, up, down,
                     left>>
  BY DEF Average, AllReturned, clientVars
<1>2. TypeOK'
  <2>1. 1 \in 1 .. ClientNum
    BY Numbers
  <2>. QED
    BY <1>1, <2>1 DEF TypeOK
<1>3. /\ mode'[s] = "broadcast" /\ next'[s] = 1
      /\ \A t \in Server \ {s} : mode'[t] = mode[t] /\ next'[t] = next[t]
  BY <1>1 DEF TypeOK
<1>4. PICK turn2 \in Turns : /\ turn2[s] = turn[s] + 1
                             /\ \A t \in Server \ {s} : turn2[t] = turn[t]
  <2>1. [turn EXCEPT ![s] = @ + 1] \in Turns
    BY DEF Turns
  <2>. QED
    BY <2>1 DEF Turns
<1>5. turn[s] \in Nat /\ turn2[s] > 0 /\ turn2[s] - 1 = turn[s]
  BY <1>4 DEF Turns
<1>6. ServerInv(turn, s) /\ GotInv(base, turn, s) /\ Accepted(s)' = Accepted(s)
  BY <1>1 DEF RoundsInv, Accepted
<1>7. Client \subseteq Accepted(s) /\ Len(sockets[s]) = ClientNum
  BY <1>1, <1>6 DEF ServerInv
<1>8. \A c \in Client : got[s][c] = base[s][c] + turn[s]
  BY <1>1, <1>6 DEF GotInv
<1>9. ServerInv(turn2, s)'
  BY <1>1, <1>3, <1>5, <1>6, <1>7 DEF ServerInv
<1>10. GotInv(base, turn2, s)'
  <2>1. \A c \in Client : got[s][c] = base[s][c] + turn2[s] - 1
    <3> SUFFICES ASSUME NEW c \in Client PROVE got[s][c] = base[s][c] + turn2[s] - 1
      OBVIOUS
    <3>1. base[s][c] \in Nat
      BY HistoryTypes
    <3>. QED
      BY <1>4, <1>5, <1>8, <3>1
  <2>. QED
    BY <1>1, <1>3, <2>1 DEF GotInv
<1>11. ASSUME NEW c \in Client PROVE PairInv(base, turn2, s, c)'
  <2>0. PairInv(base, turn, s, c) /\ base[s][c] \in Nat /\ k[c] \in Nat
    BY HistoryTypes, ClientTypes DEF RoundsInv
  <2>1. ~ NotYet(s, c)' /\ (At(s, c)' <=> At(s, c))
    BY <1>1, <1>7, <2>0 DEF PairInv, NotYet, At, Served
  <2>2. up[s][c] = << >> /\ Sent(base, turn, s, c)
    BY <1>1, <2>0 DEF PairInv, UpInv
  <2>3. Untold(s, c)' /\ ~ Untold(s, c) /\ (Told(s, c)' <=> Told(s, c))
    <3>1. PICK i \in DOMAIN sockets[s] : sockets[s][i] = c
      BY <1>7 DEF Accepted
    <3>2. i \in 1 .. Len(sockets[s])
      BY <3>1, ServerTypes
    <3>. QED
      BY <1>1, <1>3, <3>1, <3>2 DEF Untold, Told
  <2>4. At(s, c) => /\ pc[c] \in Waiting /\ ~ Told(s, c) /\ down[s][c] = << >>
                    /\ k[c] = base[s][c] + turn[s] /\ mode[s] # "off" /\ c \notin left[s]
    BY <1>1, <2>0, <2>2, <2>3 DEF PairInv, SeatInv, Sent, Active
  <2>5. numAttack[c] > s => base[s + 1][c] - base[s][c] \in {turn2[s] - 1, turn2[s]}
    BY <1>5, <2>2 DEF Sent
  <2>6. UpInv(base, turn2, s, c)'
    BY <1>1, <1>3, <2>2 DEF UpInv
  <2>7. k[c] = base[s][c] + turn[s] =>
          k[c] - base[s][c] = turn2[s] - 1 /\ k[c] = base[s][c] + turn2[s] - 1
    BY <1>4, <1>5, <2>0
  <2>8. SeatInv(base, turn2, s, c)'
    BY <1>1, <1>3, <2>1, <2>3, <2>4, <2>7 DEF SeatInv, Waiting
  <2>. QED
    BY <1>1, <2>1, <2>5, <2>6, <2>8 DEF PairInv
<1>12. RoundsInv(base, turn2)'
  BY <1>1, <1>3, <1>4, <1>9, <1>10, <1>11, ServerAlone
<1>. QED
  BY <1>2, <1>12

(* The server writes to the client that is next, if it has not left.       *)
LEMMA WriteToStep ==
  ASSUME TypeOK, NEW s \in Server, NEW msg \in Msg, WriteTo(s, msg),
         Len(sockets[s]) = ClientNum
  PROVE  /\ next' \in [Server -> 1 .. ClientNum]
         /\ \A t \in Server \ {s} : next'[t] = next[t]
         /\ next[s] < ClientNum => next'[s] = next[s] + 1
         /\ sockets[s][next[s]] \in Client /\ next[s] \in 1 .. Len(sockets[s])
         /\ down' \in [Server -> [Client -> Seq(Msg)]]
         /\ \A t \in Server \ {s} : down'[t] = down[t]
         /\ \A c \in Client : c # sockets[s][next[s]] => down'[s][c] = down[s][c]
         /\ LET c == sockets[s][next[s]] IN
              down'[s][c] = IF c \in left[s] THEN down[s][c] ELSE Append(down[s][c], msg)
<1>1. PICK i \in 1 .. ClientNum : i = next[s]
  BY ServerTypes
<1>2. i \in 1 .. Len(sockets[s]) /\ i \in Nat /\ sockets[s] \in Seq(Client)
  BY <1>1, Numbers, ServerTypes
<1>3. PICK c \in Client : c = sockets[s][i]
  BY <1>2
<1>4. PICK v : v = IF c \in left[s] THEN down[s][c] ELSE Append(down[s][c], msg)
  OBVIOUS
<1>5. v \in Seq(Msg)
  <2>1. down[s][c] \in Seq(Msg)
    BY ServerTypes
  <2>. QED
    BY <1>4, <2>1
<1>6. down' = [down EXCEPT ![s][c] = v]
  BY <1>1, <1>3, <1>4 DEF WriteTo
<1>7. /\ down' \in [Server -> [Client -> Seq(Msg)]] /\ down'[s][c] = v
      /\ \A t \in Server \ {s} : down'[t] = down[t]
      /\ \A d \in Client \ {c} : down'[s][d] = down[s][d]
  <2>1. down \in [Server -> [Client -> Seq(Msg)]]
    BY DEF TypeOK
  <2>. QED
    BY <1>5, <1>6, <2>1, UpdateEntry
<1>8. next' = [next EXCEPT ![s] = IF i = ClientNum THEN 1 ELSE i + 1]
  BY <1>1 DEF WriteTo
<1>9. /\ next' \in [Server -> 1 .. ClientNum] /\ next'[s] = IF i = ClientNum THEN 1 ELSE i + 1
      /\ \A t \in Server \ {s} : next'[t] = next[t]
  <2>1. (IF i = ClientNum THEN 1 ELSE i + 1) \in 1 .. ClientNum
    BY Numbers
  <2>2. next \in [Server -> 1 .. ClientNum]
    BY DEF TypeOK
  <2>. QED
    BY <1>8, <2>1, <2>2
<1>10. next[s] < ClientNum => next'[s] = next[s] + 1
  BY <1>1, <1>9, Numbers
<1>. QED
  BY <1>1, <1>2, <1>3, <1>4, <1>7, <1>9, <1>10

(* The server sends an average to the client that is next: the client did  *)
(* not use it yet, and is still in the round of it.                        *)
LEMMA BroadcastStep ==
  ASSUME TypeOK, NEW base \in Bases, NEW turn \in Turns, RoundsInv(base, turn),
         NEW s \in Server, Broadcast(s)
  PROVE  TypeOK' /\ RoundsInv(base, turn)'
<1>1. /\ mode[s] = "broadcast" /\ WriteTo(s, got[s])
      /\ UNCHANGED <<clientVars, pc, k, numAttack, return, applied, sockets, up, left>>
      /\ \/ next[s] < ClientNum /\ UNCHANGED <<mode, got>>
         \/ /\ ~ (next[s] < ClientNum) /\ got' = [got EXCEPT ![s] = << >>]
            /\ \/ mode' = [mode EXCEPT ![s] = "collect"]
               \/ mode' = [mode EXCEPT ![s] = "finish"]
  BY DEF Broadcast, clientVars
<1>2. ServerInv(turn, s) /\ GotInv(base, turn, s) /\ Accepted(s)' = Accepted(s)
  BY <1>1 DEF RoundsInv, Accepted
<1>3. /\ Len(sockets[s]) = ClientNum /\ DOMAIN got[s] = Client /\ turn[s] > 0
      /\ Client \subseteq Accepted(s)
      /\ \A c \in Client : got[s][c] = base[s][c] + turn[s] - 1
  BY <1>1, <1>2 DEF ServerInv, GotInv
<1>4. got[s] \in Msg /\ got[s] # Finish
  <2>1. got[s] \in [Client -> Nat]
    BY <1>3, ServerTypes
  <2>2. DOMAIN got[s] # DOMAIN Finish
    BY <1>3, Numbers DEF Finish
  <2>. QED
    BY <2>1, <2>2 DEF Msg
<1>5. PICK c \in Client : c = sockets[s][next[s]]
  BY <1>1, <1>3, <1>4, WriteToStep
<1>6. /\ next' \in [Server -> 1 .. ClientNum] /\ down' \in [Server -> [Client -> Seq(Msg)]]
      /\ next[s] < ClientNum => next'[s] = next[s] + 1
      /\ next[s] \in 1 .. Len(sockets[s])
      /\ \A t \in Server \ {s} : next'[t] = next[t] /\ down'[t] = down[t]
      /\ \A d \in Client \ {c} : down'[s][d] = down[s][d]
      /\ down'[s][c] = IF c \in left[s] THEN down[s][c] ELSE Append(down[s][c], got[s])
  BY <1>1, <1>3, <1>4, <1>5, WriteToStep
<1>7. /\ \A t \in Server \ {s} : mode'[t] = mode[t] /\ got'[t] = got[t]
      /\ \/ next[s] < ClientNum /\ mode'[s] = mode[s] /\ got'[s] = got[s]
         \/ /\ next[s] = ClientNum /\ mode'[s] \in {"collect", "finish"}
            /\ got'[s] = << >> /\ DOMAIN got'[s] = {}
      /\ TypeOK'
  <2>1. CASE next[s] < ClientNum /\ UNCHANGED <<mode, got>>
    BY <1>1, <1>6, <2>1 DEF TypeOK
  <2>2. CASE /\ ~ (next[s] < ClientNum) /\ got' = [got EXCEPT ![s] = << >>]
             /\ \/ mode' = [mode EXCEPT ![s] = "collect"]
                \/ mode' = [mode EXCEPT ![s] = "finish"]
    <3>1. next[s] = ClientNum
      BY <2>2, ServerTypes, Numbers
    <3>2. /\ got'[s] = << >> /\ DOMAIN got'[s] = {}
          /\ \A t \in Server \ {s} : got'[t] = got[t]
          /\ got' = [t \in Server |-> got'[t]]
          /\ \A t \in Server : DOMAIN got'[t] \subseteq Client
                               /\ got'[t] \in [DOMAIN got'[t] -> Nat]
      BY <2>2, GotDropped
    <3>3. /\ mode' \in [Server -> {"off", "accept", "collect", "broadcast", "finish",
                                   "closing", "closed"}]
          /\ mode'[s] \in {"collect", "finish"}
          /\ \A t \in Server \ {s} : mode'[t] = mode[t]
      BY <2>2 DEF TypeOK
    <3>4. TypeOK'
      BY <1>1, <1>6, <3>2, <3>3 DEF TypeOK
    <3>. QED
      BY <3>1, <3>2, <3>3, <3>4
  <2>. QED
    BY <1>1, <2>1, <2>2
<1>8. ServerInv(turn, s)'
  <2>1. s \in Client => ~ (numAttack[s] < s)
    BY <1>1, <1>2 DEF ServerInv
  <2>2. DOMAIN got'[s] \subseteq Accepted(s)
    BY <1>2, <1>7 DEF ServerInv
  <2>. QED
    BY <1>1, <1>2, <1>3, <1>7, <2>1, <2>2 DEF ServerInv
<1>9. GotInv(base, turn, s)'
  <2>1. CASE mode'[s] = mode[s] /\ got'[s] = got[s]
    BY <1>2, <2>1 DEF GotInv
  <2>2. CASE mode'[s] \in {"collect", "finish"} /\ DOMAIN got'[s] = {}
    BY <2>2 DEF GotInv
  <2>. QED
    BY <1>7, <2>1, <2>2
<1>10. /\ Untold(s, c) /\ ~ Untold(s, c)'
       /\ \A d \in Client \ {c} : Untold(s, d)' <=> Untold(s, d)
  <2>1. /\ next[s] \in 1 .. ClientNum /\ ClientNum \in Nat
        /\ \A i, j \in 1 .. ClientNum : sockets[s][i] = sockets[s][j] => i = j
    BY <1>2, <1>3, <1>6, Numbers DEF ServerInv
  <2>2. Untold(s, c)
    BY <1>1, <1>3, <1>5, <2>1 DEF Untold
  <2>3. CASE next[s] < ClientNum /\ mode'[s] = mode[s]
    <3>1. next'[s] = next[s] + 1
      BY <1>6, <2>3
    <3>2. ~ Untold(s, c)'
      BY <1>1, <1>3, <1>5, <2>1, <3>1 DEF Untold
    <3>3. ASSUME NEW d \in Client \ {c} PROVE Untold(s, d)' <=> Untold(s, d)
      <4>1. \A j \in next[s] .. ClientNum : sockets[s][j] = d =>
              j \in next[s] + 1 .. ClientNum
        BY <1>5, <2>1
      <4>2. next[s] + 1 .. ClientNum \subseteq next[s] .. ClientNum
        BY <2>1
      <4>. QED
        BY <1>1, <1>3, <2>3, <3>1, <4>1, <4>2 DEF Untold
    <3>. QED
      BY <2>2, <3>2, <3>3
  <2>4. CASE next[s] = ClientNum /\ mode'[s] \in {"collect", "finish"}
    <3>1. \A d \in Client : ~ Untold(s, d)'
      BY <2>4 DEF Untold
    <3>2. \A d \in Client \ {c} : ~ Untold(s, d)
      BY <1>3, <1>5, <2>1, <2>4 DEF Untold
    <3>. QED
      BY <2>2, <3>1, <3>2
  <2>. QED
    BY <1>7, <2>3, <2>4
<1>11. ASSUME NEW d \in Client PROVE PairInv(base, turn, s, d)'
  <2>0. PairInv(base, turn, s, d) /\ ~ NotYet(s, d)
    BY <1>3 DEF RoundsInv, PairInv
  <2>1. /\ (At(s, d)' <=> At(s, d)) /\ ~ NotYet(s, d)' /\ (Active(s)' => Active(s))
        /\ (mode'[s] = "collect" => DOMAIN got'[s] = {})
    BY <1>1, <1>7, <2>0 DEF At, NotYet, Served, Active
  <2>2. CASE d # c
    <3>1. (Told(s, d)' <=> Told(s, d)) /\ down'[s][d] = down[s][d]
          /\ (Untold(s, d)' <=> Untold(s, d))
      BY <1>6, <1>10, <2>2 DEF Told
    <3>2. Sent(base, turn, s, d)' <=> Sent(base, turn, s, d)
      BY <1>1, <2>1, <3>1 DEF Sent
    <3>3. UpInv(base, turn, s, d)'
      BY <1>1, <2>0, <2>1, <3>1, <3>2 DEF PairInv, UpInv
    <3>4. SeatInv(base, turn, s, d)'
      BY <1>1, <1>7, <2>0, <2>1, <3>1 DEF PairInv, SeatInv
    <3>. QED
      BY <1>1, <2>0, <2>1, <3>3, <3>4 DEF PairInv
  <2>3. CASE d = c
    <3>1. up[s][c] = << >>
      BY <1>1, <1>10, <2>0, <2>3 DEF PairInv, UpInv, Active
    <3>2. UpInv(base, turn, s, c)'
      BY <1>1, <2>1, <3>1 DEF UpInv
    <3>3. ASSUME At(s, c)
          PROVE  /\ c \notin left[s] /\ ~ Told(s, c) /\ pc[c] \in Waiting
                 /\ down[s][c] = << >> /\ k[c] = base[s][c] + turn[s] - 1
                 /\ mode[s] # "off"
      BY <1>1, <1>10, <2>0, <2>3, <3>3 DEF PairInv, SeatInv, Active
    <3>4. ASSUME At(s, c)
          PROVE  /\ down'[s][c] = <<got[s]>> /\ got[s][c] = k[c] /\ Told(s, c)'
                 /\ Len(down'[s][c]) = 1 /\ DOMAIN down'[s][c] = {1}
      <4>1. down'[s][c] = <<got[s]>>
        <5>1. down'[s][c] = Append(<< >>, got[s])
          BY <1>6, <3>3, <3>4
        <5>2. ASSUME NEW v \in Msg PROVE Append(<< >>, v) = <<v>>
          OBVIOUS
        <5>. QED
          BY <1>4, <5>1, <5>2
      <4>2. Len(down'[s][c]) = 1 /\ DOMAIN down'[s][c] = {1} /\ down'[s][c][1] = got[s]
            /\ down'[s][c] # << >>
        <5>1. ASSUME NEW v
              PROVE  /\ Len(<<v>>) = 1 /\ DOMAIN <<v>> = {1} /\ <<v>>[1] = v
                     /\ <<v>> # << >>
          <6>1. DOMAIN <<v>> = {1} /\ DOMAIN << >> = {}
            OBVIOUS
          <6>. QED
            BY <6>1
        <5>. QED
          BY <4>1, <5>1
      <4>. QED
        BY <1>3, <1>4, <3>3, <3>4, <4>1, <4>2 DEF Told
    <3>5. k[c] \in Nat /\ base[s][c] \in Nat /\ turn[s] \in Nat
      BY HistoryTypes, ClientTypes
    <3>6. k[c] = base[s][c] + turn[s] - 1 => k[c] + 1 = base[s][c] + turn[s]
      BY <3>5
    <3>7. mode'[s] # "off"
      BY <1>1, <1>7
    <3>8. ASSUME At(s, c) PROVE SeatInv(base, turn, s, c)'
      <4>1. /\ c \notin left'[s] /\ pc'[c] \in Waiting /\ ~ Untold(s, c)'
            /\ down'[s][c][1][c] = k'[c] /\ k'[c] + 1 = base[s][c] + turn[s]
            /\ \A j \in DOMAIN down'[s][c] : ~ (j > 1)
        BY <1>1, <1>10, <3>3, <3>4, <3>6, <3>8
      <4>. QED
        BY <3>4, <3>7, <3>8, <4>1 DEF SeatInv, Waiting
    <3>9. SeatInv(base, turn, s, c)'
      <4>1. ~ At(s, c) => ~ At(s, c)'
        BY <2>1, <2>3
      <4>. QED
        BY <3>8, <4>1 DEF SeatInv
    <3>. QED
      BY <1>1, <2>0, <2>1, <2>3, <3>2, <3>9 DEF PairInv
  <2>. QED
    BY <2>2, <2>3
<1>12. RoundsInv(base, turn)'
  BY <1>1, <1>6, <1>7, <1>8, <1>9, <1>11, ServerAlone
<1>. QED
  BY <1>7, <1>12

(* After its last round the server tells the clients to finish.            *)
LEMMA WriteFinishStep ==
  ASSUME TypeOK, NEW base \in Bases, NEW turn \in Turns, RoundsInv(base, turn),
         NEW s \in Server, WriteFinish(s)
  PROVE  TypeOK' /\ RoundsInv(base, turn)'
<1>1. /\ mode[s] = "finish" /\ WriteTo(s, Finish) /\ Finish \in Msg
      /\ UNCHANGED <<clientVars, pc, k, numAttack, return, applied, sockets, got, up, left>>
      /\ mode' = mode \/ mode' = [mode EXCEPT ![s] = "closing"]
  BY DEF WriteFinish, clientVars, Msg
<1>2. ServerInv(turn, s) /\ GotInv(base, turn, s) /\ Accepted(s)' = Accepted(s)
  BY <1>1 DEF RoundsInv, Accepted
<1>3. Len(sockets[s]) = ClientNum
  BY <1>1, <1>2 DEF ServerInv
<1>4. PICK c \in Client : c = sockets[s][next[s]]
  BY <1>1, <1>3, WriteToStep
<1>5. /\ next' \in [Server -> 1 .. ClientNum] /\ down' \in [Server -> [Client -> Seq(Msg)]]
      /\ \A t \in Server \ {s} : next'[t] = next[t] /\ down'[t] = down[t]
      /\ \A d \in Client \ {c} : down'[s][d] = down[s][d]
      /\ down'[s][c] = IF c \in left[s] THEN down[s][c] ELSE Append(down[s][c], Finish)
  BY <1>1, <1>3, <1>4, WriteToStep
<1>6. /\ mode'[s] \in {"finish", "closing"} /\ \A t \in Server \ {s} : mode'[t] = mode[t]
      /\ TypeOK'
  <2>1. /\ mode' \in [Server -> {"off", "accept", "collect", "broadcast", "finish",
                                 "closing", "closed"}]
        /\ mode'[s] \in {"finish", "closing"} /\ \A t \in Server \ {s} : mode'[t] = mode[t]
    BY <1>1 DEF TypeOK
  <2>. QED
    BY <1>1, <1>5, <2>1 DEF TypeOK
<1>7. ServerInv(turn, s)' /\ GotInv(base, turn, s)'
  <2>1. s \in Client => ~ (numAttack[s] < s)
    BY <1>1, <1>2 DEF ServerInv
  <2>2. turn[s] > 0 => Client \subseteq Accepted(s)
    BY <1>1, <1>2 DEF ServerInv
  <2>. QED
    BY <1>1, <1>2, <1>3, <1>6, <2>1, <2>2 DEF ServerInv, GotInv
<1>8. ASSUME NEW d \in Client
      PROVE  /\ (Told(s, d)' <=> Told(s, d))
             /\ down[s][d] # << >> => down'[s][d][1] = down[s][d][1]
             /\ (\A j \in DOMAIN down[s][d] : j > 1 => down[s][d][j] = Finish)
                  => \A j \in DOMAIN down'[s][d] : j > 1 => down'[s][d][j] = Finish
  <2>1. down[s][d] \in Seq(Msg)
    BY ServerTypes
  <2>2. CASE down'[s][d] = down[s][d]
    BY <2>2 DEF Told
  <2>3. CASE down'[s][d] = Append(down[s][d], Finish)
    <3> DEFINE q == down[s][d]
               q2 == down'[s][d]
    <3>1. /\ q \in Seq(Msg) /\ Len(q) \in Nat /\ q2 = Append(q, Finish)
          /\ Len(q2) = Len(q) + 1 /\ DOMAIN q2 = 1 .. Len(q) + 1
          /\ DOMAIN q = 1 .. Len(q)
          /\ q2[Len(q) + 1] = Finish /\ \A j \in 1 .. Len(q) : q2[j] = q[j]
          /\ (q = << >> <=> Len(q) = 0)
      BY <1>1, <2>1, <2>3
    <3> HIDE DEF q, q2
    <3>2. (\A j \in DOMAIN q : j > 1 => q[j] = Finish)
             => \A j \in DOMAIN q2 : j > 1 => q2[j] = Finish
      BY <3>1
    <3>3. q # << >> => q2[1] = q[1]
      BY <3>1
    <3>4. q2 # << >> /\ (q = << >> => q2[1] = Finish)
      BY <3>1
    <3>. QED
      BY <3>2, <3>3, <3>4 DEF Told, q, q2
  <2>. QED
    BY <1>5, <2>2, <2>3
<1>9. ASSUME NEW d \in Client PROVE PairInv(base, turn, s, d)'
  <2>0. PairInv(base, turn, s, d)
    BY DEF RoundsInv
  <2>1. /\ (At(s, d)' <=> At(s, d)) /\ (NotYet(s, d)' <=> NotYet(s, d)) /\ ~ Active(s)'
        /\ ~ Untold(s, d)' /\ mode'[s] # "collect"
    BY <1>1, <1>6 DEF At, NotYet, Served, Active, Untold
  <2>2. UpInv(base, turn, s, d)'
    BY <2>1 DEF UpInv
  <2>3. Told(s, d) => down[s][d] # << >>
    BY DEF Told
  <2>4. SeatInv(base, turn, s, d)'
    BY <1>1, <1>6, <1>8, <2>0, <2>1, <2>3 DEF PairInv, SeatInv
  <2>5. NotYet(s, d)' => d # c /\ down'[s][d] = << >>
    <3>1. sockets[s][next[s]] \in Accepted(s)
      <4>1. next[s] \in DOMAIN sockets[s]
        BY <1>3, ServerTypes
      <4>. QED
        BY <4>1 DEF Accepted
    <3>. QED
      BY <1>4, <1>5, <2>0, <2>1, <3>1 DEF PairInv
  <2>. QED
    BY <1>1, <1>2, <2>0, <2>1, <2>2, <2>4, <2>5 DEF PairInv
<1>10. RoundsInv(base, turn)'
  BY <1>1, <1>5, <1>6, <1>7, <1>9, ServerAlone
<1>. QED
  BY <1>6, <1>10

(* A server that ends takes its connections along.                         *)
LEMMA CloseAllStep ==
  ASSUME TypeOK, NEW base \in Bases, NEW turn \in Turns, RoundsInv(base, turn),
         NEW s \in Server, CloseAll(s), mode[s] # "off" \/ s = 0
  PROVE  TypeOK' /\ RoundsInv(base, turn)'
<1>1. /\ mode' = [mode EXCEPT ![s] = "closed"]
      /\ sockets' = [sockets EXCEPT ![s] = << >>] /\ got' = [got EXCEPT ![s] = << >>]
      /\ next' = [next EXCEPT ![s] = 1]
      /\ up' = [up EXCEPT ![s] = [c \in Client |-> << >>]]
      /\ left' = [left EXCEPT ![s] = {}]
      /\ UNCHANGED <<pc, k, numAttack, return, applied>>
  BY DEF CloseAll
<1>2. PICK lost : down' = [down EXCEPT ![s] = [c \in Client |-> IF c \in lost THEN << >>
                                                               ELSE down[s][c]]]
  BY DEF CloseAll
<1>3. \A c \in Client : down[s][c] \in Seq(Msg) /\ << >> \in Seq(Msg)
  BY ServerTypes
<1>4. /\ down' \in [Server -> [Client -> Seq(Msg)]]
      /\ \A t \in Server \ {s} : down'[t] = down[t]
      /\ \A c \in Client : down'[s][c] = << >> \/ down'[s][c] = down[s][c]
  BY <1>2, <1>3 DEF TypeOK
<1>5. /\ mode'[s] = "closed" /\ sockets'[s] = << >> /\ left'[s] = {}
      /\ \A c \in Client : up'[s][c] = << >>
      /\ \A t \in Server \ {s} : /\ mode'[t] = mode[t] /\ sockets'[t] = sockets[t]
                                 /\ next'[t] = next[t] /\ up'[t] = up[t]
                                 /\ left'[t] = left[t]
  BY <1>1 DEF TypeOK
<1>6. got'[s] = << >> /\ DOMAIN got'[s] = {} /\ \A t \in Server \ {s} : got'[t] = got[t]
  BY <1>1, GotDropped
<1>7. TypeOK'
  <2>1. 1 \in 1 .. ClientNum
    BY Numbers
  <2>2. next' \in [Server -> 1 .. ClientNum]
    BY <1>1, <2>1 DEF TypeOK
  <2>3. up' \in [Server -> [Client -> Seq(Nat)]]
    BY <1>1 DEF TypeOK
  <2>4. sockets' \in [Server -> Seq(Client)] /\ left' \in [Server -> SUBSET Client]
    BY <1>1 DEF TypeOK
  <2>5. mode' \in [Server -> {"off", "accept", "collect", "broadcast", "finish",
                              "closing", "closed"}]
    BY <1>1 DEF TypeOK
  <2>6. /\ got' = [t \in Server |-> got'[t]]
        /\ \A t \in Server : DOMAIN got'[t] \subseteq Client
                             /\ got'[t] \in [DOMAIN got'[t] -> Nat]
    BY <1>1, GotDropped
  <2>. QED
    BY <1>1, <1>4, <2>2, <2>3, <2>4, <2>5, <2>6 DEF TypeOK
<1>8. Accepted(s)' = {} /\ Len(sockets'[s]) = 0
  BY <1>5 DEF Accepted
<1>9. ServerInv(turn, s)'
  <2>1. s \in Client => ~ (numAttack[s] < s)
    BY Numbers DEF RoundsInv, ServerInv, Client
  <2>. QED
    BY <1>1, <1>5, <1>6, <1>8, <2>1 DEF ServerInv
<1>10. GotInv(base, turn, s)'
  BY <1>5, <1>6 DEF GotInv
<1>11. ASSUME NEW c \in Client PROVE PairInv(base, turn, s, c)'
  <2>0. PairInv(base, turn, s, c)
    BY DEF RoundsInv
  <2>1. /\ (At(s, c)' <=> At(s, c)) /\ (NotYet(s, c)' <=> NotYet(s, c)) /\ ~ Active(s)'
        /\ ~ Untold(s, c)'
    BY <1>1, <1>5 DEF At, NotYet, Served, Active, Untold
  <2>2. UpInv(base, turn, s, c)'
    BY <1>5, <2>1 DEF UpInv
  <2>3. Told(s, c)' => Told(s, c) /\ down'[s][c] = down[s][c]
    BY <1>4 DEF Told
  <2>4. /\ k[c] \in Nat /\ base[s][c] \in Nat /\ turn[s] \in Nat
        /\ (k[c] + 1 = base[s][c] + turn[s] => k[c] - base[s][c] = turn[s] - 1)
    <3>1. k[c] \in Nat /\ base[s][c] \in Nat /\ turn[s] \in Nat
      BY HistoryTypes, ClientTypes
    <3>. QED
      BY <3>1
  <2>5. /\ At(s, c) => k[c] - base[s][c] \in {turn[s] - 1, turn[s]}
        /\ At(s, c) => \A j \in DOMAIN down'[s][c] : j > 1 => down'[s][c][j] = Finish
        /\ At(s, c) /\ pc[c] = "write" => ~ Told(s, c)
        /\ At(s, c) /\ Told(s, c) => /\ down[s][c][1][c] = k[c]
                                     /\ k[c] + 1 = base[s][c] + turn[s]
    <3>1. SeatInv(base, turn, s, c)
      BY <2>0 DEF PairInv
    <3>2. At(s, c) => k[c] - base[s][c] \in {turn[s] - 1, turn[s]}
      BY <2>4, <3>1 DEF SeatInv
    <3>3. ASSUME At(s, c), NEW j \in DOMAIN down'[s][c], j > 1 PROVE down'[s][c][j] = Finish
      <4>1. CASE down'[s][c] = << >>
        BY <3>3, <4>1
      <4>2. CASE down'[s][c] = down[s][c]
        BY <3>1, <3>3, <4>2 DEF SeatInv
      <4>. QED
        BY <1>4, <4>1, <4>2
    <3>. QED
      BY <3>1, <3>2, <3>3 DEF SeatInv
  <2>6. SeatInv(base, turn, s, c)'
    BY <1>1, <1>5, <2>1, <2>3, <2>5 DEF SeatInv
  <2>7. /\ NotYet(s, c)' => up'[s][c] = << >> /\ down'[s][c] = << >>
        /\ c \notin left'[s] /\ c \notin Accepted(s)'
    BY <1>4, <1>5, <1>8, <2>0, <2>1 DEF PairInv
  <2>8. numAttack'[c] > s => base[s + 1][c] - base[s][c] \in {turn[s] - 1, turn[s]}
    BY <1>1, <2>0 DEF PairInv
  <2>. QED
    BY <2>2, <2>6, <2>7, <2>8 DEF PairInv
<1>12. UNCHANGED <<pc, k, numAttack, applied>>
  BY <1>1
<1>13. RoundsInv(base, turn)'
  BY <1>4, <1>5, <1>6, <1>9, <1>10, <1>11, <1>12, ServerAlone
<1>. QED
  BY <1>7, <1>13

-----------------------------------------------------------------------------
(* At first every client is in its first round, and no average is made.    *)
LEMMA InitIInv ==
  ASSUME Init
  PROVE  IInv
<1> DEFINE base0 == [s \in 0 .. Hosts + 1 |-> [c \in Client |-> 1]]
           turn0 == [s \in Server |-> 0]
<1>1. /\ \A c \in Client : /\ pc[c] = "connect" /\ k[c] = 1 /\ numAttack[c] = 0
                           /\ applied[c] = << >>
      /\ \A s \in Server : /\ mode[s] = IF s = 0 THEN "accept" ELSE "off"
                           /\ sockets[s] = << >> /\ got[s] = << >> /\ left[s] = {}
                           /\ \A c \in Client : up[s][c] = << >> /\ down[s][c] = << >>
  BY DEF Init, ClientInit, ServerInit
<1>2. TypeOK
  <2>1. 0 \in 0 .. Hosts + 1 /\ 1 \in 1 .. ClientNum
    BY Numbers
  <2>2. DOMAIN << >> = {} /\ << >> \in [{} -> Nat]
    OBVIOUS
  <2>3. /\ got = [s \in Server |-> got[s]]
        /\ \A s \in Server : DOMAIN got[s] \subseteq Client /\ got[s] \in [DOMAIN got[s] -> Nat]
    <3>1. got = [s \in Server |-> << >>]
      BY DEF Init, ServerInit
    <3>2. got = [s \in Server |-> got[s]]
      BY <3>1
    <3>3. ASSUME NEW s \in Server
          PROVE  DOMAIN got[s] \subseteq Client /\ got[s] \in [DOMAIN got[s] -> Nat]
      <4>1. got[s] = << >>
        BY <1>1
      <4>. QED
        BY <2>2, <4>1
    <3>. QED
      BY <3>2, <3>3
  <2>4. /\ pc \in [Client -> {"write", "select", "read", "reread", "connect"} \cup Ended]
        /\ k \in [Client -> Nat \ {0}] /\ numAttack \in [Client -> 0 .. Hosts + 1]
        /\ return \in [Client -> {"write"} \cup Waiting]
        /\ applied \in [Client -> {<< >>} \cup (Nat \X [Client -> Nat])]
    BY <2>1 DEF Init, ClientInit
  <2>5. /\ mode \in [Server -> {"off", "accept", "collect", "broadcast", "finish",
                                "closing", "closed"}]
        /\ sockets \in [Server -> Seq(Client)] /\ next \in [Server -> 1 .. ClientNum]
        /\ left \in [Server -> SUBSET Client]
    BY <2>1 DEF Init, ServerInit
  <2>6. up \in [Server -> [Client -> Seq(Nat)]] /\ down \in [Server -> [Client -> Seq(Msg)]]
    BY DEF Init
  <2>. QED
    BY <2>3, <2>4, <2>5, <2>6 DEF TypeOK
<1>3. base0 \in Bases /\ turn0 \in Turns
  BY DEF Bases, Turns
<1>4. \A s \in 0 .. Hosts + 1, c \in Client : base0[s][c] = 1
  OBVIOUS
<1>5. \A s \in Server : turn0[s] = 0
  OBVIOUS
<1> HIDE DEF base0, turn0
<1>6. ASSUME NEW s \in Server PROVE ServerInv(turn0, s) /\ GotInv(base0, turn0, s)
  <2>1. DOMAIN got[s] = {} /\ Len(sockets[s]) = 0 /\ mode[s] \in {"off", "accept"}
        /\ mode[s] # "collect" /\ mode[s] # "broadcast"
    BY <1>1
  <2>2. s \in Client => mode[s] = "off"
    BY <1>1 DEF Client
  <2>. QED
    BY <1>1, <1>5, <2>1, <2>2 DEF ServerInv, GotInv
<1>7. ASSUME NEW s \in Server, NEW c \in Client PROVE PairInv(base0, turn0, s, c)
  <2>1. ~ At(s, c) /\ ~ (numAttack[c] > s) /\ Accepted(s) = {} /\ DOMAIN got[s] = {}
    BY <1>1, Numbers DEF At, Served, Waiting, Accepted
  <2>2. UpInv(base0, turn0, s, c)
    BY <1>1, <2>1 DEF UpInv
  <2>. QED
    BY <1>1, <2>1, <2>2 DEF PairInv, SeatInv
<1>8. ASSUME NEW c \in Client PROVE ClientInv(base0, c)
  <2>1. 0 \in 0 .. Hosts + 1
    BY Numbers
  <2>. QED
    BY <1>1, <1>4, <2>1, Numbers DEF ClientInv
<1>9. BaseInv(base0)
  BY <1>4, Numbers DEF BaseInv
<1>. QED
  BY <1>2, <1>3, <1>6, <1>7, <1>8, <1>9 DEF IInv, RoundsInv

(* A step of a client keeps the invariant.                                 *)
LEMMA ClientKeeps ==
  ASSUME TypeOK, NEW base \in Bases, NEW turn \in Turns, RoundsInv(base, turn),
         NEW c \in Client, ClientStep(c)
  PROVE  TypeOK' /\ \E b \in Bases : RoundsInv(b, turn)'
<1>1. CASE Connect(c)
  BY <1>1, ConnectStep
<1>2. CASE ConnectFails(c)
  BY <1>2, ConnectFailsStep
<1>3. CASE Write(c)
  <2>1. CASE /\ Goto(c, "select")
             /\ IF Runs(Mine(c)) THEN Send(Mine(c), c) ELSE UNCHANGED up
             /\ UNCHANGED <<k, numAttack, return, applied, serverVars, down, left, killed>>
    BY <1>3, <2>1, WriteStep DEF Write
  <2>2. CASE Failover(c, "select")
    <3>1. Served(c) /\ "select" \in Waiting
      BY <1>3 DEF Write, Served, Waiting
    <3>. QED
      BY <2>2, <3>1, FailoverStep
  <2>. QED
    BY <1>3, <2>1, <2>2 DEF Write
<1>4. CASE SelectTimeout(c)
  <2>1. Served(c) /\ "read" \in Waiting /\ Failover(c, "read")
    BY <1>4 DEF SelectTimeout, Served, Waiting
  <2>. QED
    BY <2>1, FailoverStep
<1>5. CASE Read(c)
  BY <1>5, ReadStep
<1>6. CASE ReadEnd(c)
  <2>1. Served(c) /\ "reread" \in Waiting /\ Failover(c, "reread")
    BY <1>6 DEF ReadEnd, Served, Waiting
  <2>. QED
    BY <2>1, FailoverStep
<1>7. CASE RereadEnd(c)
  BY <1>7, RereadEndStep
<1>. QED
  BY <1>1, <1>2, <1>3, <1>4, <1>5, <1>6, <1>7 DEF ClientStep

(* A step of a server keeps the invariant.                                 *)
LEMMA ServerKeeps ==
  ASSUME TypeOK, NEW base \in Bases, NEW turn \in Turns, RoundsInv(base, turn),
         NEW s \in Server, ServerStep(s)
  PROVE  TypeOK' /\ \E turn2 \in Turns : RoundsInv(base, turn2)'
<1>1. CASE AcceptAll(s)
  BY <1>1, AcceptAllStep
<1>2. CASE Stop(s)
  BY <1>2, StopStep
<1>3. CASE Average(s)
  BY <1>3, AverageStep
<1>4. CASE Broadcast(s)
  BY <1>4, BroadcastStep
<1>5. CASE WriteFinish(s)
  BY <1>5, WriteFinishStep
<1>6. CASE Close(s)
  <2>1. CloseAll(s) /\ mode[s] # "off"
    BY <1>6 DEF Close
  <2>. QED
    BY <2>1, CloseAllStep
<1>7. CASE \E c \in Client : HandleRead(s, c) \/ HandleError(s, c)
  BY <1>7, HandleReadStep, HandleErrorStep
<1>. QED
  BY <1>1, <1>2, <1>3, <1>4, <1>5, <1>6, <1>7 DEF ServerStep

(* Nothing happens.                                                        *)
LEMMA StutterKeeps ==
  ASSUME TypeOK, NEW base \in Bases, NEW turn \in Turns, RoundsInv(base, turn),
         UNCHANGED vars
  PROVE  TypeOK' /\ RoundsInv(base, turn)'
<1>1. UNCHANGED <<clientVars, pc, k, numAttack, return, applied, mode, sockets, got, next,
                  up, down, left>>
  BY DEF vars, clientVars, serverVars
<1>2. TypeOK'
  BY <1>1 DEF TypeOK
<1>3. 0 \in Server /\ ServerInv(turn, 0) /\ GotInv(base, turn, 0)
  BY Numbers DEF RoundsInv
<1>4. ServerInv(turn, 0)' /\ GotInv(base, turn, 0)'
  BY <1>1, <1>3, ServerFrame
<1>5. ASSUME NEW c \in Client PROVE PairInv(base, turn, 0, c)'
  BY <1>1, <1>3, PairFrame DEF RoundsInv
<1>6. RoundsInv(base, turn)'
  BY <1>1, <1>3, <1>4, <1>5, ServerAlone
<1>. QED
  BY <1>2, <1>6

(* The invariant is inductive: the histories are followed step by step.    *)
LEMMA NextIInv ==
  ASSUME IInv, [Next]_vars
  PROVE  IInv'
<1>0. TypeOK
  BY DEF IInv
<1>1. PICK base \in Bases, turn \in Turns : RoundsInv(base, turn)
  BY DEF IInv
<1>2. CASE Kill
  <2>1. CloseAll(0) /\ 0 \in Server
    BY <1>2, Numbers DEF Kill
  <2>2. TypeOK' /\ RoundsInv(base, turn)'
    BY <1>0, <1>1, <2>1, CloseAllStep
  <2>. QED
    BY <2>2 DEF IInv
<1>3. ASSUME NEW c \in Client, ClientStep(c) PROVE IInv'
  <2>1. TypeOK' /\ \E b \in Bases : RoundsInv(b, turn)'
    BY <1>0, <1>1, <1>3, ClientKeeps
  <2>. QED
    BY <2>1 DEF IInv
<1>4. ASSUME NEW s \in Server, ServerStep(s) PROVE IInv'
  <2>1. TypeOK' /\ \E turn2 \in Turns : RoundsInv(base, turn2)'
    BY <1>0, <1>1, <1>4, ServerKeeps
  <2>. QED
    BY <2>1 DEF IInv
<1>5. CASE UNCHANGED vars
  <2>1. TypeOK' /\ RoundsInv(base, turn)'
    BY <1>0, <1>1, <1>5, StutterKeeps
  <2>. QED
    BY <2>1 DEF IInv
<1>. QED
  BY <1>2, <1>3, <1>4, <1>5 DEF Next

-----------------------------------------------------------------------------
(* In every state there are rounds in which the clients came to the        *)
(* servers, and numbers of averages made, that account for every message   *)
(* under way and for what each server has read.                            *)
THEOREM ADMMInvariant == Spec => []IInv
<1>1. Init => IInv
  BY InitIInv
<1>2. IInv /\ [Next]_vars => IInv'
  BY NextIInv
<1>. QED
  BY <1>1, <1>2, PTL DEF Spec

(* Every variable of the clients, servers and connections keeps its type.  *)
THEOREM ADMMTypeCorrect == Spec => []TypeOK
<1>1. IInv => TypeOK
  BY DEF IInv
<1>. QED
  BY <1>1, ADMMInvariant, PTL

(* The average a client uses in a round was made with what it sent in this *)
(* round, for any number of clients and of servers lost.                   *)
THEOREM OwnRoundAveraged == Spec => []OwnRoundIsAveraged
<1>1. IInv => OwnRoundIsAveraged
  BY DEF IInv, RoundsInv, ClientInv, OwnRoundIsAveraged
<1>. QED
  BY <1>1, ADMMInvariant, PTL

(* The rounds an average is made of differ by the number of servers lost   *)
(* before, at most.                                                        *)
THEOREM DriftIsBounded == Spec => []AveragesDrift
<1>1. IInv => AveragesDrift
  <2> SUFFICES ASSUME TypeOK, NEW base \in Bases, NEW turn \in Turns,
                      RoundsInv(base, turn), NEW s \in Server, DOMAIN got[s] = Client,
                      NEW c \in Client, NEW d \in Client,
                      got[s][c] # Error, got[s][d] # Error
               PROVE  got[s][c] - got[s][d] <= s
    BY DEF IInv, AveragesDrift
  <2>1. \A e \in Client : ~ NotYet(s, e)
    BY DEF RoundsInv, ServerInv, PairInv
  <2>2. numAttack[c] >= s /\ numAttack[d] >= s
    BY <2>1, Numbers, ClientTypes DEF NotYet
  <2>3. base[s][c] - base[s][d] <= s
    BY <2>2 DEF RoundsInv, BaseInv
  <2>4. \/ got[s][c] = base[s][c] + turn[s] /\ got[s][d] = base[s][d] + turn[s]
        \/ got[s][c] = base[s][c] + turn[s] - 1 /\ got[s][d] = base[s][d] + turn[s] - 1
    BY DEF RoundsInv, GotInv
  <2>5. base[s][c] \in Nat /\ base[s][d] \in Nat /\ turn[s] \in Nat /\ s \in Nat
    BY HistoryTypes, Numbers
  <2>. QED
    BY <2>3, <2>4, <2>5
<1>. QED
  BY <1>1, ADMMInvariant, PTL

=============================================================================

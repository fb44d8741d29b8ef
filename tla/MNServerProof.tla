--------------------------- MODULE MNServerProof ---------------------------
(***************************************************************************)
(* Proofs about MNServer, for any number of clients, servers, ports and    *)
(* lines, and of clients stopped and calls of accept() that fail.          *)
(*                                                                         *)
(* What a client sent and has not read is followed from one place to the   *)
(* next (Flow), which depends on no two threads of a server having its     *)
(* connection (Accepted, Queued).  For a client whose lines fit a thread's *)
(* buffer all of it is at one place (Short): it is never behind, and when  *)
(* it is stopped one send() at most is left to make.                       *)
(***************************************************************************)
EXTENDS MNServer, SequenceTheorems, FiniteSetTheorems, TLAPS

\* n units in the order they were sent, after the first a.
Run(a, n) == [k \in 1..n |-> a + k]

\* The states of a connection that a client left with answers unread or lost.
Cut == {"pipe", "reset", "ended"}

(* Of z units sent and a read, r are on the way back, b in the thread and  *)
(* q on the way to it.  A client that leaves with answers unread, or one   *)
(* to which answers were sent after it left, has lost some.                *)
Flow(l, a, z, r, b, q) ==
    /\ l \in {"none", "open"} => /\ Len(r) + Len(b) + Len(q) = z - a
                                 /\ r = Run(a, Len(r))
                                 /\ b = Run(a + Len(r), Len(b))
                                 /\ q = Run(z - Len(q), Len(q))
    /\ l = "none" => z = a
    /\ l = "fin" => Len(b) + Len(q) = z - a
    /\ l \in Cut => 1 + Len(b) + Len(q) <= z - a

(* If all lines fit a thread's buffer, all that is left is at one place.   *)
Short(l, p, a, z, r, b, q) ==
    /\ l \in {"open", "fin"} => /\ z - a <= ThreadRecv
                                /\ Len(b) \in {0, z - a} /\ Len(q) \in {0, z - a}
    /\ l = "open" => Len(r) \in {0, z - a} /\ (p = "input" => z = a)
    /\ l \in Cut => Len(b) = 0 /\ Len(q) = 0

\* Client c, with b in the thread that has its connection.
With(c, b) ==
    /\ Flow(link[c], got[c], sent[c], rsp[c], b, req[c])
    /\ c \notin long => Short(link[c], pc[c], got[c], sent[c], rsp[c], b, req[c])

Streams == \A c \in Clients :
    /\ \A s \in Servers, n \in Slots : tfd[s][n] = c => With(c, buf[s][n])
    /\ (\A s \in Servers, n \in Slots : tfd[s][n] # c) => With(c, <<>>)

(* A client is connected when it has left connect(), if a server listened. *)
Linked == \A c \in Clients :
    /\ pc[c] \in {"new", "query", "reply", "port"} => link[c] = "none"
    /\ link[c] = "none" => conn[c] = None
    /\ link[c] \in Cut \cup {"fin"} => pc[c] = "gone"

(* What select() returned is there until it is looked at. *)
Ready == \A s \in Servers : \A x \in ready[s] :
    IF x = Raw THEN asked[s] > 0 ELSE lq[s][x] # <<>>

(* A connection is once in the accept queues, or was accepted. *)
Queued == \A s \in Servers : \A p \in Ports : \A i \in DOMAIN lq[s][p] :
    /\ conn[lq[s][p][i]] = s
    /\ \A n \in Slots : n < ind[s] => nsfd[s][n] # lq[s][p][i]
    /\ \A q \in Ports : \A k \in DOMAIN lq[s][q] :
         lq[s][q][k] = lq[s][p][i] => q = p /\ k = i

(* Each slot that was given out has a connection of its own, which is its  *)
(* thread's.                                                               *)
Accepted == \A s \in Servers : \A n \in Slots :
    /\ n < ind[s] => /\ nsfd[s][n] \in Clients /\ conn[nsfd[s][n]] = s
                     /\ \A k \in Slots : k < ind[s] /\ nsfd[s][k] = nsfd[s][n] => k = n
    /\ tfd[s][n] # None => n < ind[s] /\ tfd[s][n] = nsfd[s][n]
    /\ tpc[s][n] = "start" => n < ind[s] /\ tfd[s][n] = None
    /\ tpc[s][n] \in {"recv", "send"} => tfd[s][n] # None
    /\ tpc[s][n] = "send" <=> buf[s][n] # <<>>

(* A client asks once. *)
ToAsk == {c \in Clients : pc[c] \in {"new", "query"}}
Asking == \A s \in Servers : asked[s] + Cardinality(ToAsk) <= N

Good == Linked /\ Ready /\ Queued /\ Accepted /\ Asking /\ Streams /\ Survives
IInv == TypeOK /\ Good

-----------------------------------------------------------------------------
(* Units in order *)

LEMMA RunIs ==
    ASSUME NEW a \in Nat, NEW n \in Nat
    PROVE  /\ Run(a, n) \in Seq(Nat) /\ Len(Run(a, n)) = n
           /\ \A k \in 1..n : Run(a, n)[k] = a + k
  BY DEF Run

\* One run after the other.
LEMMA RunConcat ==
    ASSUME NEW a \in Nat, NEW n \in Nat, NEW m \in Nat
    PROVE  Run(a, n) \o Run(a + n, m) = Run(a, n + m)
<1> DEFINE u == Run(a, n)  v == Run(a + n, m)  w == Run(a, n + m)
<1>1. u \in Seq(Nat) /\ Len(u) = n /\ \A k \in 1..n : u[k] = a + k
  BY RunIs
<1>2. v \in Seq(Nat) /\ Len(v) = m /\ \A k \in 1..m : v[k] = a + n + k
  <2>1. a + n \in Nat
    OBVIOUS
  <2> QED BY <2>1, RunIs
<1>3. w \in Seq(Nat) /\ Len(w) = n + m /\ \A k \in 1..(n + m) : w[k] = a + k
  <2>1. n + m \in Nat
    OBVIOUS
  <2> QED BY <2>1, RunIs
<1> HIDE DEF u, v, w
<1>4. /\ u \o v \in Seq(Nat) /\ Len(u \o v) = n + m
      /\ \A k \in 1..(n + m) : (u \o v)[k] = IF k <= n THEN u[k] ELSE v[k - n]
  BY <1>1, <1>2, ConcatProperties
<1>5. ASSUME NEW k \in 1..(n + m) PROVE (u \o v)[k] = w[k]
  <2>1. CASE k <= n
    <3>1. k \in 1..n
      BY <2>1
    <3> QED BY <1>1, <1>3, <1>4, <2>1, <3>1
  <2>2. CASE ~(k <= n)
    <3>1. k - n \in 1..m /\ a + n + (k - n) = a + k
      BY <2>2
    <3> QED BY <1>2, <1>3, <1>4, <2>2, <3>1
  <2> QED BY <2>1, <2>2
<1>6. u \o v = w
  BY <1>3, <1>4, <1>5, SeqEqual
<1> QED BY <1>6 DEF u, v, w

\* What one read of m units takes from a run, and what it leaves.
LEMMA RunPart ==
    ASSUME NEW a \in Nat, NEW q \in Seq(Nat), q = Run(a, Len(q)), NEW m \in 0..Len(q)
    PROVE  /\ SubSeq(q, 1, m) = Run(a, m)
           /\ SubSeq(q, m + 1, Len(q)) = Run(a + m, Len(q) - m)
<1> DEFINE n == Len(q)
<1>1. n \in Nat
  OBVIOUS
<1>2. \A k \in 1..n : q[k] = a + k
  BY <1>1, RunIs
<1>3. SubSeq(q, 1, m) = [k \in 1..m |-> a + k]
  <2>1. SubSeq(q, 1, m) = [k \in 1..m |-> q[k]]
    BY <1>1
  <2>2. \A k \in 1..m : q[k] = a + k
    BY <1>1, <1>2
  <2> QED BY <2>1, <2>2
<1>4. SubSeq(q, m + 1, n) = [k \in 1..(n - m) |-> (a + m) + k]
  <2>1. SubSeq(q, m + 1, n) = [k \in 1..(n - m) |-> q[k + m]]
    BY <1>1
  <2>2. \A k \in 1..(n - m) : q[k + m] = (a + m) + k
    BY <1>1, <1>2
  <2> QED BY <2>1, <2>2
<1> QED BY <1>3, <1>4 DEF Run

LEMMA SeqLen ==
    ASSUME NEW q \in Seq(Nat)
    PROVE  Len(q) \in Nat /\ (Len(q) = 0 <=> q = <<>>)
  BY LenProperties, EmptySeq

\* Nothing is left of three counts that add up to nothing.
LEMMA Nothing ==
    ASSUME NEW a \in Nat, NEW b \in Nat, NEW c \in Nat, NEW g \in Nat, NEW z \in Nat,
           a + b + c = z - g, z = g
    PROVE  z - g = 0 /\ a = 0 /\ b = 0 /\ c = 0
<1>1. z - g = 0
  OBVIOUS
<1>2. a + b + c = 0
  BY <1>1
<1> QED BY <1>1, <1>2

LEMMA EmptyRun ==
    ASSUME NEW a \in Nat, NEW e \in Seq(Nat), Len(e) = 0
    PROVE  e = Run(a, Len(e))
<1>1. e = <<>>
  BY SeqLen
<1>2. Run(a, 0) = <<>>
  BY DEF Run
<1> QED BY <1>1, <1>2

LEMMA ReadIs ==
    ASSUME NEW q \in Seq(Nat), NEW n \in Nat \ {0}
    PROVE  LET m == AtMost(n, q)
           IN  /\ m \in 0..Len(q) /\ m <= n /\ (Len(q) <= n => m = Len(q))
               /\ q # <<>> => m > 0
               /\ SubSeq(q, 1, m) \in Seq(Nat) /\ Len(SubSeq(q, 1, m)) = m
               /\ SubSeq(q, m + 1, Len(q)) \in Seq(Nat)
               /\ Len(SubSeq(q, m + 1, Len(q))) = Len(q) - m
<1> DEFINE m == AtMost(n, q)
<1>1. Len(q) \in Nat /\ (Len(q) = 0 <=> q = <<>>)
  BY SeqLen
<1>2. /\ m \in 0..Len(q) /\ m <= n /\ (Len(q) <= n => m = Len(q))
      /\ q # <<>> => m > 0
  BY <1>1 DEF AtMost
<1> HIDE DEF m
<1>3. \A k \in 1..Len(q) : q[k] \in Nat
  BY <1>1
<1>4. SubSeq(q, 1, m) \in Seq(Nat) /\ Len(SubSeq(q, 1, m)) = m
  <2>1. \A k \in 1..m : q[k] \in Nat
    BY <1>1, <1>2, <1>3
  <2>2. 1 \in Int /\ m \in Int /\ (1 <= m => m - 1 + 1 = m) /\ (~(1 <= m) => m = 0)
    BY <1>1, <1>2
  <2> QED BY <2>1, <2>2, SubSeqProperties
<1>5. /\ SubSeq(q, m + 1, Len(q)) \in Seq(Nat)
      /\ Len(SubSeq(q, m + 1, Len(q))) = Len(q) - m
  <2>1. \A k \in (m + 1)..Len(q) : q[k] \in Nat
    BY <1>1, <1>2, <1>3
  <2>2. /\ m + 1 \in Int /\ Len(q) \in Int /\ Len(q) - (m + 1) + 1 = Len(q) - m
        /\ (~(m + 1 <= Len(q)) => Len(q) - m = 0)
    BY <1>1, <1>2
  <2> QED BY <2>1, <2>2, SubSeqProperties
<1> QED BY <1>2, <1>4, <1>5 DEF m

-----------------------------------------------------------------------------
(* What each call does to the streams of one client *)

\* A thread reads into its empty buffer.
LEMMA FlowRead ==
    ASSUME NEW l, NEW a \in Nat, NEW z \in Nat,
           NEW r \in Seq(Nat), NEW e \in Seq(Nat), NEW q \in Seq(Nat),
           Len(e) = 0, Flow(l, a, z, r, e, q)
    PROVE  LET m == AtMost(ThreadRecv, q)
           IN  Flow(l, a, z, r, SubSeq(q, 1, m), SubSeq(q, m + 1, Len(q)))
<1> DEFINE m == AtMost(ThreadRecv, q)  b == SubSeq(q, 1, m)  p == SubSeq(q, m + 1, Len(q))
<1>1. /\ m \in 0..Len(q) /\ b \in Seq(Nat) /\ Len(b) = m
      /\ p \in Seq(Nat) /\ Len(p) = Len(q) - m
  <2>1. ThreadRecv \in Nat \ {0}
    BY DEF ThreadRecv
  <2> QED BY <2>1, ReadIs
<1>2. Len(q) \in Nat /\ Len(r) \in Nat
  BY SeqLen
<1> HIDE DEF m, b, p
<1>3. Len(b) + Len(p) = Len(q)
  BY <1>1, <1>2
<1>4. l \in {"none", "open"} => /\ b = Run(a + Len(r), Len(b))
                                /\ p = Run(z - Len(p), Len(p))
  <2>1. SUFFICES ASSUME l \in {"none", "open"}
                 PROVE  b = Run(a + Len(r), Len(b)) /\ p = Run(z - Len(p), Len(p))
    OBVIOUS
  <2>2. Len(r) + Len(q) = z - a /\ q = Run(z - Len(q), Len(q))
    <3>1. Len(r) + Len(e) + Len(q) = z - a /\ q = Run(z - Len(q), Len(q))
      BY <2>1 DEF Flow
    <3> QED BY <1>2, <3>1
  <2>3. z - Len(q) \in Nat /\ z - Len(q) = a + Len(r) /\ z - Len(q) + m = z - Len(p)
    BY <1>1, <1>2, <2>2
  <2> DEFINE a0 == z - Len(q)
  <2>4. a0 \in Nat /\ m \in 0..Len(q)
    BY <1>1, <2>3
  <2> HIDE DEF a0
  <2>5. q = Run(a0, Len(q)) /\ a0 = a + Len(r) /\ a0 + m = z - Len(p)
    BY <2>2, <2>3 DEF a0
  <2>6. b = Run(a0, m) /\ p = Run(a0 + m, Len(q) - m)
    <3>1. SubSeq(q, 1, m) = Run(a0, m) /\ SubSeq(q, m + 1, Len(q)) = Run(a0 + m, Len(q) - m)
      BY <1>2, <2>4, <2>5, RunPart
    <3> QED BY <3>1 DEF b, p
  <2> QED BY <1>1, <2>5, <2>6
<1>5. Flow(l, a, z, r, b, p)
  <2>1. Len(r) + Len(b) + Len(p) = Len(r) + Len(e) + Len(q)
    BY <1>1, <1>2, <1>3
  <2>2. Len(b) + Len(p) = Len(e) + Len(q) /\ 1 + Len(b) + Len(p) = 1 + Len(e) + Len(q)
    BY <1>1, <1>2, <1>3
  <2> QED BY <1>4, <2>1, <2>2 DEF Flow
<1> QED BY <1>5 DEF m, b, p

LEMMA FlowSend ==
    ASSUME NEW a \in Nat, NEW z \in Nat, NEW r \in Seq(Nat), NEW b \in Seq(Nat),
           NEW q \in Seq(Nat), NEW e \in Seq(Nat), Len(e) = 0,
           Flow("open", a, z, r, b, q)
    PROVE  Flow("open", a, z, r \o b, e, q)
<1> DEFINE w == r \o b
<1>1. Len(r) \in Nat /\ Len(b) \in Nat /\ Len(q) \in Nat
  BY SeqLen
<1>2. w \in Seq(Nat) /\ Len(w) = Len(r) + Len(b)
  BY ConcatProperties
<1>3. /\ Len(r) + Len(b) + Len(q) = z - a /\ r = Run(a, Len(r))
      /\ b = Run(a + Len(r), Len(b)) /\ q = Run(z - Len(q), Len(q))
  BY DEF Flow
<1>4. w = Run(a, Len(w))
  <2>1. Run(a, Len(r)) \o Run(a + Len(r), Len(b)) = Run(a, Len(r) + Len(b))
    BY <1>1, RunConcat
  <2> QED BY <1>2, <1>3, <2>1
<1> HIDE DEF w
<1>5. e = Run(a + Len(w), Len(e))
  <2>1. a + Len(w) \in Nat
    BY <1>1, <1>2
  <2> QED BY <2>1, EmptyRun
<1>6. Len(w) + Len(e) + Len(q) = z - a
  BY <1>1, <1>2, <1>3
<1>7. Flow("open", a, z, w, e, q)
  BY <1>3, <1>4, <1>5, <1>6 DEF Flow, Cut
<1> QED BY <1>7 DEF w

\* The answer goes to a client that has left.
LEMMA FlowLost ==
    ASSUME NEW l \in {"fin", "reset"}, NEW a \in Nat, NEW z \in Nat, NEW r, NEW b \in Seq(Nat),
           NEW q \in Seq(Nat), NEW e \in Seq(Nat), Len(e) = 0, b # <<>>,
           Flow(l, a, z, r, b, q), NEW k, k = IF l = "fin" THEN "pipe" ELSE "ended"
    PROVE  Flow(k, a, z, r, e, q)
<1>1. Len(b) \in Nat /\ Len(b) # 0 /\ Len(q) \in Nat
  BY SeqLen
<1>2. /\ l = "fin" => Len(b) + Len(q) = z - a
      /\ l = "reset" => 1 + Len(b) + Len(q) <= z - a
  BY DEF Flow, Cut
<1>3. 1 + Len(e) + Len(q) <= z - a
  BY <1>1, <1>2
<1> QED BY <1>3 DEF Flow, Cut

LEMMA FlowLine ==
    ASSUME NEW a \in Nat, NEW z \in Nat, NEW r \in Seq(Nat), NEW b \in Seq(Nat),
           NEW q \in Seq(Nat), NEW m \in Nat,
           Flow("open", a, z, r, b, q)
    PROVE  /\ q \o [k \in 1..m |-> z + k] \in Seq(Nat)
           /\ Len(q \o [k \in 1..m |-> z + k]) = Len(q) + m
           /\ Flow("open", a, z + m, r, b, q \o [k \in 1..m |-> z + k])
<1> DEFINE u == [k \in 1..m |-> z + k]  w == q \o u
<1>1. Len(r) \in Nat /\ Len(b) \in Nat /\ Len(q) \in Nat
  BY SeqLen
<1>2. u = Run(z, m) /\ u \in Seq(Nat) /\ Len(u) = m
  <2>1. u = Run(z, m)
    BY DEF Run
  <2> QED BY <2>1, RunIs
<1> HIDE DEF u
<1>3. w \in Seq(Nat) /\ Len(w) = Len(q) + m
  BY <1>2, ConcatProperties
<1>4. /\ Len(r) + Len(b) + Len(q) = z - a /\ r = Run(a, Len(r))
      /\ b = Run(a + Len(r), Len(b)) /\ q = Run(z - Len(q), Len(q))
  BY DEF Flow
<1>5. w = Run(z - Len(q), Len(q) + m)
  <2> DEFINE a0 == z - Len(q)
  <2>1. a0 \in Nat /\ a0 + Len(q) = z
    BY <1>1, <1>4
  <2>2. q = Run(a0, Len(q))
    BY <1>4
  <2> HIDE DEF a0
  <2>3. Run(a0, Len(q)) \o Run(a0 + Len(q), m) = Run(a0, Len(q) + m)
    BY <1>1, <2>1, RunConcat
  <2>4. w = Run(a0, Len(q) + m)
    BY <1>2, <2>1, <2>2, <2>3
  <2> QED BY <2>4 DEF a0
<1> HIDE DEF w
<1>6. w = Run((z + m) - Len(w), Len(w))
  <2>1. (z + m) - Len(w) = z - Len(q)
    BY <1>1, <1>3
  <2> QED BY <1>3, <1>5, <2>1
<1>7. Len(r) + Len(b) + Len(w) = (z + m) - a
  <2>1. Len(r) + Len(b) + Len(q) = z - a
    BY <1>4
  <2>2. Len(w) = Len(q) + m
    BY <1>3
  <2> DEFINE x == Len(r)  y == Len(b)  k == Len(q)  v == Len(w)
  <2>3. x \in Nat /\ y \in Nat /\ k \in Nat /\ x + y + k = z - a /\ v = k + m
    BY <1>1, <2>1, <2>2
  <2> HIDE DEF x, y, k, v
  <2>4. x + y + v = (z + m) - a
    BY <2>3
  <2> QED BY <2>4 DEF x, y, v
<1>8. Flow("open", a, z + m, r, b, w)
  BY <1>4, <1>6, <1>7 DEF Flow, Cut
<1> QED BY <1>3, <1>8 DEF w, u

LEMMA FlowAnswer ==
    ASSUME NEW a \in Nat, NEW z \in Nat, NEW r \in Seq(Nat), NEW b \in Seq(Nat),
           NEW q \in Seq(Nat), NEW m \in 0..Len(r),
           Flow("open", a, z, r, b, q)
    PROVE  Flow("open", a + m, z, SubSeq(r, m + 1, Len(r)), b, q)
<1> DEFINE w == SubSeq(r, m + 1, Len(r))
<1>1. Len(r) \in Nat /\ Len(b) \in Nat /\ Len(q) \in Nat /\ m \in Nat /\ m <= Len(r)
  BY SeqLen
<1>2. /\ Len(r) + Len(b) + Len(q) = z - a /\ r = Run(a, Len(r))
      /\ b = Run(a + Len(r), Len(b)) /\ q = Run(z - Len(q), Len(q))
  BY DEF Flow
<1>3. w = Run(a + m, Len(r) - m)
  BY <1>1, <1>2, RunPart
<1> HIDE DEF w
<1>4. Len(w) = Len(r) - m
  <2>1. a + m \in Nat /\ Len(r) - m \in Nat
    BY <1>1
  <2> QED BY <1>3, <2>1, RunIs
<1>5. /\ Len(w) + Len(b) + Len(q) = z - (a + m) /\ w = Run(a + m, Len(w))
      /\ (a + m) + Len(w) = a + Len(r)
  <2>1. Len(r) + Len(b) + Len(q) = z - a
    BY <1>2
  <2>2. Len(w) + Len(b) + Len(q) = z - (a + m) /\ (a + m) + Len(w) = a + Len(r)
    BY <1>1, <1>4, <2>1
  <2> QED BY <1>3, <1>4, <2>2
<1>6. Flow("open", a + m, z, w, b, q)
  BY <1>2, <1>5 DEF Flow, Cut
<1> QED BY <1>6 DEF w

\* What becomes of the connection when the client ends.
Left(l, r) == IF l # "open" THEN l ELSE IF r = <<>> THEN "fin" ELSE "reset"

LEMMA FlowGone ==
    ASSUME NEW l, NEW a \in Nat, NEW z \in Nat, NEW r \in Seq(Nat), NEW b \in Seq(Nat),
           NEW q \in Seq(Nat), NEW e \in Seq(Nat), Len(e) = 0,
           Flow(l, a, z, r, b, q)
    PROVE  Flow(Left(l, r), a, z, e, b, q)
<1>1. Len(r) \in Nat /\ Len(b) \in Nat /\ Len(q) \in Nat /\ (Len(r) = 0 <=> r = <<>>)
  BY SeqLen
<1>2. CASE l = "open"
  <2>1. Len(r) + Len(b) + Len(q) = z - a
    BY <1>2 DEF Flow
  <2>2. r = <<>> => Len(b) + Len(q) = z - a
    BY <1>1, <2>1
  <2>3. r # <<>> => 1 + Len(b) + Len(q) <= z - a
    BY <1>1, <2>1
  <2> QED BY <1>2, <2>2, <2>3 DEF Flow, Left, Cut
<1>3. CASE l = "none"
  <2>1. /\ Len(r) + Len(b) + Len(q) = z - a /\ z = a
        /\ b = Run(a + Len(r), Len(b)) /\ q = Run(z - Len(q), Len(q))
    BY <1>3 DEF Flow
  <2>2. Len(r) = 0
    BY <1>1, <2>1
  <2>3. e = r /\ e = Run(a, Len(e))
    <3>1. e = <<>> /\ r = <<>>
      BY <1>1, <2>2, SeqLen
    <3> QED BY <3>1, EmptyRun
  <2> QED BY <1>3, <2>3 DEF Left
<1>4. CASE l \notin {"none", "open"}
  BY <1>4 DEF Flow, Left
<1> QED BY <1>2, <1>3, <1>4

-----------------------------------------------------------------------------
(* The same for a client whose lines fit *)

LEMMA ShortRead ==
    ASSUME NEW l, NEW p, NEW a \in Nat, NEW z \in Nat, NEW r \in Seq(Nat), NEW e \in Seq(Nat),
           NEW q \in Seq(Nat), q # <<>>, Len(e) = 0,
           Flow(l, a, z, r, e, q), Short(l, p, a, z, r, e, q),
           NEW b \in Seq(Nat), NEW w \in Seq(Nat),
           Len(b) = AtMost(ThreadRecv, q), Len(w) = Len(q) - Len(b)
    PROVE  Short(l, p, a, z, r, b, w)
<1>1. Len(q) \in Nat /\ Len(q) # 0
  BY SeqLen
<1>2. l \notin Cut
  BY <1>1 DEF Short
<1>3. l \in {"open", "fin"} => Len(q) = z - a /\ Len(b) = z - a /\ Len(w) = 0
  <2>1. SUFFICES ASSUME l \in {"open", "fin"}
                 PROVE  Len(q) = z - a /\ Len(b) = z - a /\ Len(w) = 0
    OBVIOUS
  <2>2. Len(q) \in {0, z - a} /\ z - a <= ThreadRecv
    BY <2>1 DEF Short
  <2>3. Len(q) = z - a /\ Len(q) <= 2
    BY <1>1, <2>2 DEF ThreadRecv
  <2>4. AtMost(ThreadRecv, q) = Len(q)
    BY <1>1, <2>3 DEF AtMost, ThreadRecv
  <2>5. Len(b) = Len(q) /\ Len(w) = Len(q) - Len(b)
    BY <2>4
  <2> QED BY <1>1, <2>3, <2>5
<1> QED BY <1>2, <1>3 DEF Short

LEMMA ShortSend ==
    ASSUME NEW p, NEW a \in Nat, NEW z \in Nat, NEW r \in Seq(Nat), NEW b \in Seq(Nat),
           NEW q \in Seq(Nat), NEW e \in Seq(Nat), b # <<>>, Len(e) = 0,
           Flow("open", a, z, r, b, q), Short("open", p, a, z, r, b, q)
    PROVE  Short("open", p, a, z, r \o b, e, q)
<1>1. Len(r) \in Nat /\ Len(b) \in Nat /\ Len(q) \in Nat /\ Len(b) # 0
  BY SeqLen
<1>2. Len(r \o b) = Len(r) + Len(b)
  BY ConcatProperties
<1>3. /\ Len(r) + Len(b) + Len(q) = z - a /\ z - a <= ThreadRecv
      /\ Len(b) \in {0, z - a} /\ Len(q) \in {0, z - a} /\ Len(r) \in {0, z - a}
      /\ p = "input" => z = a
  BY DEF Flow, Short
<1>4. Len(r) + Len(b) \in {0, z - a}
  BY <1>1, <1>3
<1> QED BY <1>2, <1>3, <1>4 DEF Short, Cut

LEMMA ShortLost ==
    ASSUME NEW l \in {"fin", "reset"}, NEW p, NEW a \in Nat, NEW z \in Nat, NEW r,
           NEW b \in Seq(Nat), NEW q \in Seq(Nat), NEW e \in Seq(Nat), b # <<>>, Len(e) = 0,
           Flow(l, a, z, r, b, q), Short(l, p, a, z, r, b, q),
           NEW k, k = IF l = "fin" THEN "pipe" ELSE "ended"
    PROVE  Short(k, p, a, z, r, e, q)
<1>1. Len(b) \in Nat /\ Len(b) # 0 /\ Len(q) \in Nat
  BY SeqLen
<1>2. l = "fin" /\ Len(b) + Len(q) = z - a /\ Len(b) \in {0, z - a}
  BY <1>1 DEF Flow, Short, Cut
<1>3. Len(q) = 0
  BY <1>1, <1>2
<1> QED BY <1>2, <1>3 DEF Short, Cut

LEMMA ShortLine ==
    ASSUME NEW a \in Nat, NEW z \in Nat, NEW r \in Seq(Nat), NEW b \in Seq(Nat),
           NEW q \in Seq(Nat), NEW w, NEW m \in Nat, m <= ThreadRecv, Len(w) = Len(q) + m,
           Flow("open", a, z, r, b, q), Short("open", "input", a, z, r, b, q)
    PROVE  Short("open", "recv", a, z + m, r, b, w)
<1>1. Len(r) \in Nat /\ Len(b) \in Nat /\ Len(q) \in Nat
  BY SeqLen
<1>2. z = a /\ Len(r) + Len(b) + Len(q) = z - a
  BY DEF Flow, Short
<1>3. (z + m) - a = m /\ Len(r) = 0 /\ Len(b) = 0 /\ Len(w) = m
  BY <1>1, <1>2
<1> QED BY <1>3 DEF Short, Cut

LEMMA ShortAnswer ==
    ASSUME NEW a \in Nat, NEW z \in Nat, NEW r \in Seq(Nat), NEW b \in Seq(Nat),
           NEW q \in Seq(Nat), NEW w, r # <<>>, Len(w) = Len(r) - AtMost(ClientRecv, r),
           Flow("open", a, z, r, b, q), Short("open", "recv", a, z, r, b, q)
    PROVE  Short("open", "input", a + AtMost(ClientRecv, r), z, w, b, q)
<1>1. Len(r) \in Nat /\ Len(b) \in Nat /\ Len(q) \in Nat /\ Len(r) # 0
  BY SeqLen
<1>2. /\ Len(r) + Len(b) + Len(q) = z - a /\ z - a <= ThreadRecv /\ Len(r) \in {0, z - a}
  BY DEF Flow, Short
<1>3. AtMost(ClientRecv, r) = Len(r)
  BY <1>1, <1>2 DEF AtMost, ClientRecv, ThreadRecv
<1>4. /\ a + Len(r) = z /\ z - (a + Len(r)) = 0
      /\ Len(w) = 0 /\ Len(b) = 0 /\ Len(q) = 0
  BY <1>1, <1>2, <1>3
<1> QED BY <1>3, <1>4 DEF Short, Cut, ThreadRecv

LEMMA ShortGone ==
    ASSUME NEW l, NEW p, NEW a \in Nat, NEW z \in Nat, NEW r \in Seq(Nat), NEW b \in Seq(Nat),
           NEW q \in Seq(Nat), NEW e,
           Flow(l, a, z, r, b, q), Short(l, p, a, z, r, b, q)
    PROVE  Short(Left(l, r), "gone", a, z, e, b, q)
<1>1. Len(r) \in Nat /\ Len(b) \in Nat /\ Len(q) \in Nat /\ (Len(r) = 0 <=> r = <<>>)
  BY SeqLen
<1>2. CASE l = "open"
  <2>1. /\ Len(r) + Len(b) + Len(q) = z - a /\ z - a <= ThreadRecv
        /\ Len(b) \in {0, z - a} /\ Len(q) \in {0, z - a} /\ Len(r) \in {0, z - a}
    BY <1>2 DEF Flow, Short
  <2>2. r # <<>> => Len(b) = 0 /\ Len(q) = 0
    BY <1>1, <2>1
  <2> QED BY <1>2, <2>1, <2>2 DEF Short, Left, Cut
<1>3. CASE l # "open"
  BY <1>3 DEF Short, Left
<1> QED BY <1>2, <1>3

-----------------------------------------------------------------------------
(* Constants and types *)

LEMMA Numbers ==
    /\ N \in Nat /\ N > 0 /\ Clients = 1..N /\ Slots = 0..(N - 1)
    /\ None \notin Clients /\ None \notin Servers
    /\ Raw \notin Ports /\ Ports \subseteq Nat
    /\ \A s \in Servers : Watched(s) \subseteq {Raw} \cup Ports
<1>1. ASSUME NEW s \in Servers PROVE First[s]..Last[s] \subseteq Ports
  BY DEF Ports
<1>2. ASSUME NEW x \in Ports PROVE x \in Nat /\ x # Raw
  <2>1. PICK s \in Servers : x \in First[s]..Last[s]
    BY DEF Ports
  <2>2. First[s] \in Nat \ {0} /\ Last[s] \in Nat \ {0}
    BY MNServerAssumption
  <2> QED BY <2>1, <2>2 DEF Raw
<1> QED BY <1>1, <1>2, MNServerAssumption DEF Clients, Slots, Watched

\* The actions, without the quantifiers that hold them together.
LEMMA Cases ==
    ASSUME [Next]_vars
    PROVE  \/ UNCHANGED vars
           \/ \E s \in Servers : Listen(s) \/ BindRaw(s) \/ Select(s) \/ HandleQuery(s)
           \/ \E s \in Servers, p \in Ports : Accept(s, p) \/ AcceptFails(s, p)
           \/ \E s \in Servers, n \in Slots :
                \/ ThreadStart(s, n) \/ ThreadRead(s, n) \/ ThreadEnd(s, n)
                \/ ThreadSend(s, n) \/ ThreadSendLost(s, n) \/ Sigpipe(s, n)
           \/ \E c \in Clients : Start(c) \/ Query(c) \/ ReadReply(c) \/ ReadAnswer(c)
                                 \/ SendNowhere(c) \/ Kill(c)
           \/ \E c \in Clients, p \in Ports : Connect(c, p)
           \/ \E c \in Clients, m \in Lines : SendLine(c, m)
  BY DEF Next, Server, Main, Thread, Client, User

LEMMA TailIs ==
    ASSUME NEW T, NEW q \in Seq(T), q # <<>>
    PROVE  /\ 1 \in DOMAIN q /\ Head(q) = q[1] /\ Head(q) \in T /\ Tail(q) \in Seq(T)
           /\ \A i \in DOMAIN Tail(q) : /\ i \in Nat \ {0} /\ i + 1 \in DOMAIN q
                                        /\ Tail(q)[i] = q[i + 1]
<1>1. /\ Head(q) \in T /\ Tail(q) \in Seq(T) /\ Len(Tail(q)) = Len(q) - 1
      /\ \A i \in 1..Len(Tail(q)) : Tail(q)[i] = q[i + 1]
  BY HeadTailProperties
<1>2. /\ DOMAIN q = 1..Len(q) /\ Len(q) \in Nat \ {0} /\ DOMAIN Tail(q) = 1..Len(Tail(q))
  BY <1>1, LenProperties, EmptySeq
<1> QED BY <1>1, <1>2

LEMMA AppendIs ==
    ASSUME NEW T, NEW q \in Seq(T), NEW e \in T
    PROVE  /\ Append(q, e) \in Seq(T) /\ Append(q, e) # <<>>
           /\ \A i \in DOMAIN Append(q, e) : \/ (i \in DOMAIN q /\ Append(q, e)[i] = q[i])
                                            \/ (i = Len(q) + 1 /\ Append(q, e)[i] = e)
  OBVIOUS

\* The threads of a server are fewer than the clients while one of them is in a queue.
LEMMA Room ==
    ASSUME TypeOK, Queued, Accepted, NEW s \in Servers, NEW p \in Ports, lq[s][p] # <<>>
    PROVE  ind[s] < N
<1>1. SUFFICES ASSUME ind[s] = N PROVE FALSE
  BY Numbers DEF TypeOK
<1> DEFINE c == Head(lq[s][p])
           f == [n \in 0..N |-> IF n = N THEN c ELSE nsfd[s][n]]
<1>2. /\ 1 \in DOMAIN lq[s][p] /\ c = lq[s][p][1] /\ c \in Clients
  BY TailIs DEF TypeOK
<1>3. \A n \in Slots : n < ind[s] /\ nsfd[s][n] \in Clients /\ nsfd[s][n] # c
  <2>1. \A n \in Slots : n < ind[s]
    BY <1>1, Numbers
  <2>2. \A n \in Slots : n < ind[s] => nsfd[s][n] # lq[s][p][1]
    BY <1>2 DEF Queued
  <2> QED BY <1>2, <2>1, <2>2 DEF Accepted
<1>4. \A n, k \in Slots : nsfd[s][n] = nsfd[s][k] => n = k
  BY <1>3 DEF Accepted
<1> HIDE DEF c
<1>5. f \in [0..N -> Clients] /\ \A n, k \in 0..N : f[n] = f[k] => n = k
  BY <1>2, <1>3, <1>4, Numbers
<1> HIDE DEF f
<1>6. IsFiniteSet(0..N) /\ Cardinality(0..N) = N + 1
  BY Numbers, FS_Interval
<1>7. IsFiniteSet(Clients) /\ Cardinality(Clients) = N
  BY Numbers, FS_Interval
<1>8. \E n, k \in 0..N : n # k /\ f[n] = f[k]
  BY <1>5, <1>6, <1>7, FS_PigeonHole, Numbers
<1> QED BY <1>5, <1>8

LEMMA FewAsk ==
    ASSUME TypeOK
    PROVE  /\ IsFiniteSet(ToAsk) /\ Cardinality(ToAsk) \in Nat /\ Cardinality(ToAsk) <= N
           /\ \A c \in ToAsk : Cardinality(ToAsk \ {c}) = Cardinality(ToAsk) - 1
<1>1. IsFiniteSet(Clients) /\ Cardinality(Clients) = N
  BY Numbers, FS_Interval
<1>2. ToAsk \in SUBSET Clients
  BY DEF ToAsk
<1>3. IsFiniteSet(ToAsk) /\ Cardinality(ToAsk) <= N
  BY <1>1, <1>2, FS_Subset
<1>4. Cardinality(ToAsk) \in Nat
  BY <1>3, FS_CardinalityType
<1>5. ASSUME NEW c \in ToAsk PROVE Cardinality(ToAsk \ {c}) = Cardinality(ToAsk) - 1
  BY <1>3, FS_RemoveElement
<1> QED BY <1>3, <1>4, <1>5

LEMMA StepAsking ==
    ASSUME TypeOK, Ready, Asking, [Next]_vars
    PROVE  Asking'
<1>1. ASSUME UNCHANGED asked, ToAsk' = ToAsk PROVE Asking'
  BY <1>1 DEF Asking
<1>2. ASSUME UNCHANGED pc PROVE ToAsk' = ToAsk
  BY <1>2 DEF ToAsk
<1>3. ASSUME NEW s \in Servers, HandleQuery(s) PROVE Asking'
  <2>1. \A t \in Servers : asked[t] \in Nat /\ asked'[t] <= asked[t] /\ asked'[t] \in Int
    BY <1>3 DEF HandleQuery, TypeOK
  <2>2. ToAsk' = ToAsk
    BY <1>2, <1>3 DEF HandleQuery
  <2> HIDE DEF TypeOK
  <2> QED BY <2>1, <2>2, FewAsk, Numbers DEF Asking
<1>4. ASSUME NEW s \in Servers, NEW n \in Slots, Sigpipe(s, n) PROVE Asking'
  <2>1. \A t \in Servers : asked'[t] = 0 \/ asked'[t] = asked[t]
    BY <1>4 DEF Sigpipe, TypeOK
  <2>2. ToAsk' = ToAsk
    BY <1>2, <1>4 DEF Sigpipe, input
  <2> QED BY <2>1, <2>2, FewAsk, Numbers DEF Asking
<1>5. ASSUME NEW c \in Clients, Query(c) PROVE Asking'
  <2>1. \A t \in Servers : asked[t] \in Nat /\ asked'[t] \in Nat /\ asked'[t] <= asked[t] + 1
    BY <1>5 DEF Query, TypeOK
  <2>2. c \in ToAsk /\ ToAsk' = ToAsk \ {c}
    BY <1>5 DEF Query, Goto, ToAsk, TypeOK
  <2>3. Cardinality(ToAsk') = Cardinality(ToAsk) - 1 /\ Cardinality(ToAsk) \in Nat
    BY <2>2, FewAsk
  <2> QED BY <2>1, <2>3, Numbers DEF Asking
<1>6. ASSUME NEW c \in Clients, Start(c) \/ ReadReply(c) \/ ReadAnswer(c) \/ SendNowhere(c)
                                \/ Kill(c)
      PROVE  Asking'
  <2>1. UNCHANGED asked
    BY <1>6 DEF Start, ReadReply, ReadAnswer, SendNowhere, Kill, Gone, mainVars
  <2>2. /\ \A d \in Clients : d # c => pc'[d] = pc[d]
        /\ pc[c] \in {"new", "query"} <=> pc'[c] \in {"new", "query"}
    BY <1>6 DEF Start, ReadReply, ReadAnswer, SendNowhere, Kill, Goto, TypeOK
  <2>3. ToAsk' = ToAsk
    BY <2>2 DEF ToAsk
  <2> QED BY <1>1, <2>1, <2>3
<1>7. ASSUME NEW c \in Clients, \/ \E p \in Ports : Connect(c, p)
                                \/ \E m \in Lines : SendLine(c, m)
      PROVE  Asking'
  <2>1. UNCHANGED asked
    BY <1>7 DEF Connect, SendLine, mainVars
  <2>2. /\ \A d \in Clients : d # c => pc'[d] = pc[d]
        /\ pc[c] \notin {"new", "query"} /\ pc'[c] \notin {"new", "query"}
    BY <1>7 DEF Connect, SendLine, Goto, TypeOK
  <2>3. ToAsk' = ToAsk
    BY <2>2 DEF ToAsk
  <2> QED BY <1>1, <2>1, <2>3
<1>8. ASSUME \/ UNCHANGED vars
             \/ \E s \in Servers : Listen(s) \/ BindRaw(s) \/ Select(s)
             \/ \E s \in Servers, p \in Ports : Accept(s, p) \/ AcceptFails(s, p)
             \/ \E s \in Servers, n \in Slots :
                \/ ThreadStart(s, n) \/ ThreadRead(s, n) \/ ThreadEnd(s, n)
                \/ ThreadSend(s, n) \/ ThreadSendLost(s, n)
      PROVE  Asking'
  <2>1. UNCHANGED vars => UNCHANGED asked /\ UNCHANGED pc
    BY DEF vars, input, mainVars
  <2>2. ASSUME NEW s \in Servers, Listen(s) \/ BindRaw(s) \/ Select(s)
        PROVE  UNCHANGED asked /\ UNCHANGED pc
    BY <2>2 DEF input, Listen, BindRaw, Select
  <2>3. ASSUME NEW s \in Servers, NEW p \in Ports, Accept(s, p) \/ AcceptFails(s, p)
        PROVE  UNCHANGED asked /\ UNCHANGED pc
    BY <2>3 DEF input, Accept, AcceptFails, NextReady
  <2>4. ASSUME NEW s \in Servers, NEW n \in Slots,
               \/ ThreadStart(s, n) \/ ThreadRead(s, n) \/ ThreadEnd(s, n)
               \/ ThreadSend(s, n) \/ ThreadSendLost(s, n)
        PROVE  UNCHANGED asked /\ UNCHANGED pc
    BY <2>4 DEF input, mainVars,
       ThreadStart, ThreadRead, ThreadEnd, ThreadSend, ThreadSendLost
  <2>5. UNCHANGED asked /\ UNCHANGED pc
    BY <1>8, <2>1, <2>2, <2>3, <2>4
  <2> QED BY <1>1, <1>2, <2>5
<1> QED BY <1>3, <1>4, <1>5, <1>6, <1>7, <1>8, Cases

-----------------------------------------------------------------------------
(* What groups of actions leave alone *)

LEMMA KeptMain ==
    ASSUME \/ UNCHANGED vars
           \/ \E s \in Servers : Listen(s) \/ BindRaw(s) \/ Select(s) \/ HandleQuery(s)
    PROVE  UNCHANGED <<pc, sent, got, long, conn, link, req, rsp, lq, nsfd, ind, tpc, tfd, buf>>
<1>1. CASE UNCHANGED vars
  BY <1>1 DEF vars, input, netVars, mainVars, threads
<1>2. ASSUME NEW s \in Servers, Listen(s) \/ BindRaw(s) \/ Select(s) \/ HandleQuery(s)
      PROVE  UNCHANGED <<pc, sent, got, long, conn, link, req, rsp, lq, nsfd, ind, tpc, tfd, buf>>
  BY <1>2 DEF Listen, BindRaw, Select, HandleQuery, input, netVars, threads
<1> QED BY <1>1, <1>2

LEMMA KeptAccept ==
    ASSUME \E s \in Servers, p \in Ports : Accept(s, p) \/ AcceptFails(s, p)
    PROVE  UNCHANGED <<pc, sent, got, long, conn, link, req, rsp, up, asked, tfd, buf>>
  BY DEF Accept, AcceptFails, NextReady, input, netVars, threads

LEMMA KeptThread ==
    ASSUME \E s \in Servers, n \in Slots :
                \/ ThreadStart(s, n) \/ ThreadRead(s, n) \/ ThreadEnd(s, n)
                \/ ThreadSend(s, n) \/ ThreadSendLost(s, n)
    PROVE  UNCHANGED <<pc, sent, got, long, conn, up, asked, ready, lq, nsfd, ind>>
<1>1. ASSUME NEW s \in Servers, NEW n \in Slots, ThreadStart(s, n) \/ ThreadEnd(s, n)
      PROVE  UNCHANGED <<pc, sent, got, long, conn, up, asked, ready, lq, nsfd, ind>>
  BY <1>1 DEF ThreadStart, ThreadEnd, input, netVars, mainVars
<1>2. ASSUME NEW s \in Servers, NEW n \in Slots,
             ThreadRead(s, n) \/ ThreadSend(s, n) \/ ThreadSendLost(s, n)
      PROVE  UNCHANGED <<pc, sent, got, long, conn, up, asked, ready, lq, nsfd, ind>>
  BY <1>2 DEF ThreadRead, ThreadSend, ThreadSendLost, input, mainVars
<1> QED BY <1>1, <1>2

LEMMA KeptClient ==
    ASSUME \/ \E c \in Clients : Start(c) \/ Query(c) \/ ReadReply(c) \/ ReadAnswer(c)
                                 \/ SendNowhere(c) \/ Kill(c)
           \/ \E c \in Clients, m \in Lines : SendLine(c, m)
    PROVE  UNCHANGED <<conn, up, ready, lq, nsfd, ind, tpc, tfd, buf>>
<1>1. ASSUME NEW c \in Clients, Start(c) \/ Query(c) \/ ReadReply(c) \/ ReadAnswer(c)
      PROVE  UNCHANGED <<conn, up, ready, lq, nsfd, ind, tpc, tfd, buf>>
  BY <1>1 DEF Start, Query, ReadReply, ReadAnswer, netVars, mainVars, threads
<1>2. ASSUME NEW c \in Clients, SendNowhere(c) \/ Kill(c) \/ \E m \in Lines : SendLine(c, m)
      PROVE  UNCHANGED <<conn, up, ready, lq, nsfd, ind, tpc, tfd, buf>>
  BY <1>2 DEF SendNowhere, Kill, Gone, SendLine, netVars, mainVars, threads
<1> QED BY <1>1, <1>2

LEMMA ConnectIs ==
    ASSUME TypeOK, NEW c \in Clients, NEW p \in Ports, Connect(c, p)
    PROVE  /\ UNCHANGED <<sent, got, long, req, rsp, up, asked, ready, nsfd, ind, tpc, tfd, buf>>
           /\ pc[c] = "port" /\ pc'[c] = "input"
           /\ \A d \in Clients : d # c => pc'[d] = pc[d]
           /\ \/ UNCHANGED <<conn, link, lq>>
              \/ \E s \in Servers :
                   /\ up[s] # "dead" /\ conn'[c] = s /\ link'[c] = "open"
                   /\ \A d \in Clients : d # c => conn'[d] = conn[d] /\ link'[d] = link[d]
                   /\ lq'[s][p] = Append(lq[s][p], c)
                   /\ \A t \in Servers, q \in Ports :
                        t # s \/ q # p => lq'[t][q] = lq[t][q]
<1>1. UNCHANGED <<sent, got, long, req, rsp, up, asked, ready, nsfd, ind, tpc, tfd, buf>>
  BY DEF Connect, threads
<1>2. /\ pc[c] = "port" /\ pc'[c] = "input"
      /\ \A d \in Clients : d # c => pc'[d] = pc[d]
  BY DEF Connect, Goto, TypeOK
<1>3. \/ UNCHANGED <<conn, link, lq>>
      \/ \E s \in Servers : /\ Listening(s, p)
                            /\ conn' = [conn EXCEPT ![c] = s]
                            /\ link' = [link EXCEPT ![c] = "open"]
                            /\ lq' = [lq EXCEPT ![s][p] = Append(@, c)]
  BY DEF Connect
<1>4. ASSUME NEW s \in Servers, Listening(s, p),
             conn' = [conn EXCEPT ![c] = s], link' = [link EXCEPT ![c] = "open"],
             lq' = [lq EXCEPT ![s][p] = Append(@, c)]
      PROVE  /\ up[s] # "dead" /\ conn'[c] = s /\ link'[c] = "open"
             /\ \A d \in Clients : d # c => conn'[d] = conn[d] /\ link'[d] = link[d]
             /\ lq'[s][p] = Append(lq[s][p], c)
             /\ \A t \in Servers, q \in Ports : t # s \/ q # p => lq'[t][q] = lq[t][q]
  BY <1>4 DEF Listening, TypeOK
<1> QED BY <1>1, <1>2, <1>3, <1>4

LEMMA AcceptIs ==
    ASSUME TypeOK, NEW s \in Servers, NEW p \in Ports, Accept(s, p) \/ AcceptFails(s, p)
    PROVE  /\ ready'[s] = ready[s] \ {p} /\ p \in ready[s] /\ Raw \notin ready[s]
           /\ \A t \in Servers : t # s =>
                /\ ready'[t] = ready[t] /\ lq'[t] = lq[t] /\ nsfd'[t] = nsfd[t]
                /\ ind'[t] = ind[t] /\ tpc'[t] = tpc[t]
           /\ \A q \in Ports : q # p => lq'[s][q] = lq[s][q]
           /\ \A n \in Slots : n # ind[s] => nsfd'[s][n] = nsfd[s][n] /\ tpc'[s][n] = tpc[s][n]
           /\ \/ /\ lq'[s][p] = Tail(lq[s][p]) /\ ind'[s] = ind[s] + 1
                 /\ ind[s] \in Slots => /\ nsfd'[s][ind[s]] = Head(lq[s][p])
                                        /\ tpc'[s][ind[s]] = "start"
              \/ UNCHANGED <<lq, ind, tpc>>
<1>1. CASE Accept(s, p)
  BY <1>1 DEF Accept, NextReady, TypeOK
<1>2. CASE AcceptFails(s, p)
  BY <1>2 DEF AcceptFails, NextReady, TypeOK, threads
<1> QED BY <1>1, <1>2

-----------------------------------------------------------------------------
(* Connections *)

LEMMA StepLinked == ASSUME TypeOK, Linked, [Next]_vars PROVE Linked'
<1>1. ASSUME UNCHANGED <<pc, link, conn>> PROVE Linked'
  BY <1>1 DEF Linked
<1>2. ASSUME NEW s \in Servers, NEW n \in Slots, ThreadEnd(s, n) \/ ThreadSendLost(s, n)
      PROVE  Linked'
  <2>1. UNCHANGED <<pc, conn>>
    BY <1>2 DEF ThreadEnd, ThreadSendLost, input
  <2>2. ASSUME NEW d \in Clients
        PROVE  link'[d] = link[d] \/ (link[d] \in Cut \cup {"fin"} /\ link'[d] \in Cut)
    BY <1>2 DEF ThreadEnd, ThreadSendLost, TypeOK, Cut
  <2> QED BY <2>1, <2>2 DEF Linked, Cut
<1>3. ASSUME NEW s \in Servers, NEW n \in Slots, Sigpipe(s, n) PROVE Linked'
  <2>1. UNCHANGED <<pc, conn>>
    BY <1>3 DEF Sigpipe, input
  <2>2. \A d \in Clients : link'[d] = IF conn[d] = s THEN "down" ELSE link[d]
    BY <1>3 DEF Sigpipe
  <2> QED BY <2>1, <2>2, Numbers DEF Linked, Cut
<1>4. ASSUME NEW s \in Servers, NEW n \in Slots,
             ThreadStart(s, n) \/ ThreadRead(s, n) \/ ThreadSend(s, n)
      PROVE  Linked'
  BY <1>1, <1>4 DEF ThreadStart, ThreadRead, ThreadSend, input, netVars
<1>5. ASSUME NEW c \in Clients, Start(c) \/ Query(c) \/ ReadReply(c) PROVE Linked'
  <2>1. /\ UNCHANGED <<link, conn>>
        /\ pc[c] \in {"new", "query", "reply"} /\ pc' = [pc EXCEPT ![c] = pc'[c]]
        /\ pc'[c] # "gone"
    BY <1>5 DEF Start, Query, ReadReply, Goto, netVars, TypeOK
  <2>2. \A d \in Clients : d # c => pc'[d] = pc[d]
    BY <2>1 DEF TypeOK
  <2>3. link[c] = "none"
    BY <2>1 DEF Linked
  <2> QED BY <2>1, <2>2, <2>3 DEF Linked, Cut
<1>6. ASSUME NEW c \in Clients, ReadAnswer(c) \/ \E m \in Lines : SendLine(c, m)
      PROVE  Linked'
  <2>1. /\ UNCHANGED <<link, conn>>
        /\ pc[c] \in {"recv", "input"} /\ pc'[c] \in {"recv", "input"}
        /\ \A d \in Clients : d # c => pc'[d] = pc[d]
    BY <1>6 DEF ReadAnswer, SendLine, Goto, TypeOK
  <2> QED BY <2>1 DEF Linked, Cut
<1>7. ASSUME NEW c \in Clients, SendNowhere(c) \/ Kill(c) PROVE Linked'
  <2>1. /\ UNCHANGED conn
        /\ pc[c] \in {"input", "recv"} /\ pc'[c] \in {"recv", "gone"}
        /\ \A d \in Clients : d # c => pc'[d] = pc[d] /\ link'[d] = link[d]
    BY <1>7 DEF SendNowhere, Kill, Gone, Goto, TypeOK, netVars
  <2>2. \/ link'[c] = link[c]
        \/ link'[c] \in {"fin", "reset"} /\ link[c] = "open" /\ pc'[c] = "gone"
    BY <1>7 DEF SendNowhere, Kill, Gone, Goto, TypeOK, netVars
  <2> QED BY <2>1, <2>2 DEF Linked, Cut
<1>8. ASSUME NEW c \in Clients, NEW p \in Ports, Connect(c, p) PROVE Linked'
  <2>1. /\ pc[c] = "port" /\ pc'[c] = "input"
        /\ \A d \in Clients : d # c => /\ pc'[d] = pc[d] /\ link'[d] = link[d]
                                       /\ conn'[d] = conn[d]
        /\ link'[c] = "open" \/ (link'[c] = link[c] /\ conn'[c] = conn[c])
    BY <1>8 DEF Connect, Goto, TypeOK
  <2> QED BY <2>1 DEF Linked, Cut
<1> QED BY <1>1, <1>2, <1>3, <1>4, <1>5, <1>6, <1>7, <1>8, KeptMain, KeptAccept, Cases

LEMMA StepReady == ASSUME TypeOK, Ready, [Next]_vars PROVE Ready'
<1>1. ASSUME UNCHANGED <<ready, asked, lq>> PROVE Ready'
  BY <1>1 DEF Ready
<1>2. ASSUME NEW s \in Servers, Listen(s) \/ BindRaw(s) PROVE Ready'
  BY <1>1, <1>2 DEF Listen, BindRaw
<1>3. ASSUME NEW s \in Servers, Select(s) PROVE Ready'
  <2>1. /\ UNCHANGED <<asked, lq>> /\ ready'[s] \subseteq Active(s)
        /\ \A t \in Servers : t # s => ready'[t] = ready[t]
    BY <1>3 DEF Select, TypeOK
  <2> QED BY <2>1 DEF Ready, Active
<1>4. ASSUME NEW s \in Servers, HandleQuery(s) PROVE Ready'
  <2>1. /\ UNCHANGED lq /\ ready'[s] = ready[s] \ {Raw}
        /\ \A t \in Servers : t # s => ready'[t] = ready[t] /\ asked'[t] = asked[t]
    BY <1>4 DEF HandleQuery, TypeOK
  <2> QED BY <2>1 DEF Ready
<1>5. ASSUME NEW s \in Servers, NEW p \in Ports, Accept(s, p) \/ AcceptFails(s, p)
      PROVE  Ready'
  <2>1. /\ UNCHANGED asked /\ ready'[s] = ready[s] \ {p}
        /\ \A t \in Servers : t # s => ready'[t] = ready[t] /\ lq'[t] = lq[t]
        /\ \A q \in Ports : q # p => lq'[s][q] = lq[s][q]
    BY <1>5, KeptAccept, AcceptIs
  <2>2. \A x \in ready[s] : x = Raw \/ x \in Ports
    BY DEF TypeOK
  <2> QED BY <2>1, <2>2 DEF Ready
<1>6. ASSUME NEW s \in Servers, NEW n \in Slots, Sigpipe(s, n) PROVE Ready'
  <2>1. /\ ready'[s] = {}
        /\ \A t \in Servers : t # s => /\ ready'[t] = ready[t] /\ lq'[t] = lq[t]
                                       /\ asked'[t] = asked[t]
    BY <1>6 DEF Sigpipe, TypeOK
  <2> QED BY <2>1 DEF Ready
<1>7. ASSUME NEW c \in Clients, Query(c) PROVE Ready'
  <2>1. /\ UNCHANGED <<ready, lq>>
        /\ \A t \in Servers : asked[t] \in Nat /\ asked'[t] \in Nat /\ asked'[t] >= asked[t]
    BY <1>7 DEF Query, TypeOK
  <2> QED BY <2>1 DEF Ready
<1>8. ASSUME NEW c \in Clients, NEW p \in Ports, Connect(c, p) PROVE Ready'
  <2>1. UNCHANGED <<ready, asked>>
    BY <1>8, ConnectIs
  <2>2. ASSUME NEW t \in Servers, NEW q \in Ports
        PROVE  lq'[t][q] = lq[t][q] \/ lq'[t][q] # <<>>
    <3>1. lq[t][q] \in Seq(Clients)
      BY DEF TypeOK
    <3>2. Append(lq[t][q], c) # <<>>
      BY <3>1, AppendIs
    <3>3. lq'[t][q] = lq[t][q] \/ lq'[t][q] = Append(lq[t][q], c)
      BY <1>8, ConnectIs
    <3> QED BY <3>2, <3>3
  <2>3. \A s \in Servers : \A x \in ready[s] : x = Raw \/ x \in Ports
    BY DEF TypeOK
  <2> QED BY <2>1, <2>2, <2>3 DEF Ready
<1>9. ASSUME NEW c \in Clients,
             \/ Start(c) \/ ReadReply(c) \/ ReadAnswer(c) \/ SendNowhere(c) \/ Kill(c)
             \/ \E m \in Lines : SendLine(c, m)
      PROVE  Ready'
  <2>1. UNCHANGED <<ready, lq>>
    BY <1>9, KeptClient
  <2>2. UNCHANGED asked
    BY <1>9 DEF Start, ReadReply, ReadAnswer, SendNowhere, Kill, Gone, SendLine, mainVars
  <2> QED BY <1>1, <2>1, <2>2
<1>10. CASE UNCHANGED vars
  BY <1>1, <1>10 DEF vars, mainVars
<1> QED BY <1>1, <1>2, <1>3, <1>4, <1>5, <1>6, <1>7, <1>8, <1>9, <1>10, KeptThread, Cases

\* A client that is not connected is nowhere.
LEMMA Nowhere ==
    ASSUME TypeOK, Queued, Accepted, NEW c \in Clients, conn[c] = None
    PROVE  /\ \A s \in Servers, p \in Ports : \A i \in DOMAIN lq[s][p] : lq[s][p][i] # c
           /\ \A s \in Servers, n \in Slots : n < ind[s] => nsfd[s][n] # c
<1>1. ASSUME NEW s \in Servers, NEW p \in Ports, NEW i \in DOMAIN lq[s][p]
      PROVE  lq[s][p][i] # c
  <2>1. conn[lq[s][p][i]] = s
    BY DEF Queued
  <2> QED BY <2>1, Numbers
<1>2. ASSUME NEW s \in Servers, NEW n \in Slots, n < ind[s] PROVE nsfd[s][n] # c
  <2>1. conn[nsfd[s][n]] = s
    BY <1>2 DEF Accepted
  <2> QED BY <2>1, Numbers
<1> QED BY <1>1, <1>2

LEMMA OncePlace ==
    ASSUME Queued, NEW s \in Servers, NEW p \in Ports, NEW q \in Ports,
           NEW i \in DOMAIN lq[s][p], NEW k \in DOMAIN lq[s][q], lq[s][p][i] = lq[s][q][k]
    PROVE  p = q /\ i = k
  BY DEF Queued

LEMMA StepQueued ==
    ASSUME TypeOK, Linked, Ready, Queued, Accepted, [Next]_vars
    PROVE  Queued'
<1>1. ASSUME UNCHANGED <<lq, conn, nsfd, ind>> PROVE Queued'
  BY <1>1 DEF Queued
<1>2. ASSUME NEW s \in Servers, NEW p \in Ports, Accept(s, p) PROVE Queued'
  <2>1. p \in ready[s] /\ p # Raw
    BY <1>2, Numbers DEF Accept, NextReady
  <2>2. lq[s][p] \in Seq(Clients) /\ lq[s][p] # <<>>
    BY <2>1 DEF Ready, TypeOK
  <2>3. /\ UNCHANGED conn
        /\ lq'[s][p] = Tail(lq[s][p])
        /\ \A t \in Servers, q \in Ports : t # s \/ q # p => lq'[t][q] = lq[t][q]
        /\ ind'[s] = ind[s] + 1 /\ \A t \in Servers : t # s => ind'[t] = ind[t]
    BY <1>2 DEF Accept, netVars, TypeOK
  <2>4. \A t \in Servers, n \in Slots :
          nsfd'[t][n] = IF t = s /\ n = ind[s] THEN Head(lq[s][p]) ELSE nsfd[t][n]
    BY <1>2 DEF Accept, TypeOK
  <2>5. \A t \in Servers : ind[t] \in Nat
    BY DEF TypeOK
  <2>6. \A n \in Slots : n \in Nat
    BY Numbers
  <2>7. /\ 1 \in DOMAIN lq[s][p] /\ Head(lq[s][p]) = lq[s][p][1]
        /\ \A i \in DOMAIN Tail(lq[s][p]) : /\ i \in Nat \ {0} /\ i + 1 \in DOMAIN lq[s][p]
                                            /\ Tail(lq[s][p])[i] = lq[s][p][i + 1]
    BY <2>2, TailIs
  <2>8. ASSUME NEW t \in Servers, NEW q \in Ports, NEW i \in DOMAIN lq'[t][q]
        PROVE  \E o \in DOMAIN lq[t][q] :
                 /\ lq'[t][q][i] = lq[t][q][o]
                 /\ t = s /\ q = p => o = i + 1 /\ o # 1 /\ i \in Nat
                 /\ t # s \/ q # p => o = i
    <3>1. CASE t = s /\ q = p
      <4>1. lq'[t][q] = Tail(lq[s][p])
        BY <2>3, <3>1
      <4>2. i \in Nat \ {0} /\ i + 1 \in DOMAIN lq[s][p] /\ lq'[t][q][i] = lq[s][p][i + 1]
        BY <2>7, <4>1
      <4>3. i + 1 # 1
        BY <4>2
      <4> QED BY <3>1, <4>2, <4>3
    <3>2. CASE t # s \/ q # p
      BY <2>3, <3>2
    <3> QED BY <3>1, <3>2
  <2>9. ASSUME NEW t \in Servers, NEW q \in Ports, NEW i \in DOMAIN lq'[t][q]
        PROVE  /\ conn'[lq'[t][q][i]] = t
               /\ \A n \in Slots : n < ind'[t] => nsfd'[t][n] # lq'[t][q][i]
               /\ \A u \in Ports : \A k \in DOMAIN lq'[t][u] :
                    lq'[t][u][k] = lq'[t][q][i] => u = q /\ k = i
    <3>1. PICK o \in DOMAIN lq[t][q] :
            /\ lq'[t][q][i] = lq[t][q][o]
            /\ t = s /\ q = p => o = i + 1 /\ o # 1 /\ i \in Nat
            /\ t # s \/ q # p => o = i
      BY <2>8
    <3>2. conn'[lq'[t][q][i]] = t
      BY <2>3, <3>1 DEF Queued
    <3>3. ASSUME NEW n \in Slots, n < ind'[t] PROVE nsfd'[t][n] # lq'[t][q][i]
      <4>1. CASE t = s /\ n = ind[s]
        <5>1. lq[s][p][1] # lq[t][q][o]
          BY <2>7, <3>1, <4>1 DEF Queued
        <5> QED BY <2>4, <2>7, <3>1, <4>1, <5>1
      <4>2. CASE ~(t = s /\ n = ind[s])
        <5>1. n < ind[t]
          BY <2>3, <2>5, <2>6, <3>3, <4>2
        <5> QED BY <2>4, <3>1, <4>2, <5>1 DEF Queued
      <4> QED BY <4>1, <4>2
    <3>4. ASSUME NEW u \in Ports, NEW k \in DOMAIN lq'[t][u], lq'[t][u][k] = lq'[t][q][i]
          PROVE  u = q /\ k = i
      <4>1. PICK x \in DOMAIN lq[t][u] :
              /\ lq'[t][u][k] = lq[t][u][x]
              /\ t = s /\ u = p => x = k + 1 /\ x # 1 /\ k \in Nat
              /\ t # s \/ u # p => x = k
        BY <2>8
      <4>2. lq[t][u][x] = lq[t][q][o]
        BY <3>1, <3>4, <4>1
      <4>3. u = q /\ x = o
        BY <4>2, OncePlace
      <4> QED BY <3>1, <4>1, <4>3
    <3> QED BY <3>2, <3>3, <3>4
  <2> QED BY <2>9 DEF Queued
<1>3. ASSUME NEW s \in Servers, NEW p \in Ports, AcceptFails(s, p) PROVE Queued'
  <2>1. /\ UNCHANGED <<lq, conn, ind>>
        /\ \A t \in Servers, n \in Slots : n < ind[t] => nsfd'[t][n] = nsfd[t][n]
    BY <1>3 DEF AcceptFails, netVars, TypeOK
  <2> QED BY <2>1 DEF Queued
<1>4. ASSUME NEW s \in Servers, NEW n \in Slots, Sigpipe(s, n) PROVE Queued'
  <2>1. /\ UNCHANGED <<conn, nsfd, ind>>
        /\ \A t \in Servers, q \in Ports : lq'[t][q] = <<>> \/ lq'[t][q] = lq[t][q]
    BY <1>4 DEF Sigpipe, TypeOK
  <2> QED BY <2>1 DEF Queued
<1>5. ASSUME NEW c \in Clients, NEW p \in Ports, Connect(c, p) PROVE Queued'
  <2>1. UNCHANGED <<nsfd, ind>> /\ pc[c] = "port" /\ conn[c] = None
    BY <1>5, ConnectIs DEF Linked
  <2>2. CASE UNCHANGED <<conn, link, lq>>
    BY <1>1, <2>1, <2>2
  <2>3. ASSUME NEW s \in Servers, conn'[c] = s,
               \A d \in Clients : d # c => conn'[d] = conn[d],
               lq'[s][p] = Append(lq[s][p], c),
               \A t \in Servers, q \in Ports : t # s \/ q # p => lq'[t][q] = lq[t][q]
        PROVE  Queued'
    <3>1. /\ \A t \in Servers, q \in Ports : \A i \in DOMAIN lq[t][q] : lq[t][q][i] # c
          /\ \A t \in Servers, n \in Slots : n < ind[t] => nsfd[t][n] # c
      BY <2>1, Nowhere
    <3>2. ASSUME NEW t \in Servers, NEW q \in Ports, NEW i \in DOMAIN lq'[t][q]
          PROVE  \/ i \in DOMAIN lq[t][q] /\ lq'[t][q][i] = lq[t][q][i]
                 \/ t = s /\ q = p /\ i = Len(lq[s][p]) + 1 /\ lq'[t][q][i] = c
      <4>1. lq[s][p] \in Seq(Clients)
        BY DEF TypeOK
      <4>2. CASE t = s /\ q = p
        <5>1. \/ i \in DOMAIN lq[s][p] /\ Append(lq[s][p], c)[i] = lq[s][p][i]
              \/ i = Len(lq[s][p]) + 1 /\ Append(lq[s][p], c)[i] = c
          <6>1. i \in DOMAIN Append(lq[s][p], c)
            BY <2>3, <4>2
          <6> QED BY <4>1, <6>1, AppendIs
        <5> QED BY <2>3, <4>2, <5>1
      <4>3. CASE t # s \/ q # p
        BY <2>3, <4>3
      <4> QED BY <4>2, <4>3
    <3>3. \A t \in Servers, q \in Ports : \A i \in DOMAIN lq[t][q] : lq[t][q][i] \in Clients
      BY DEF TypeOK
    <3>4. ASSUME NEW t \in Servers, NEW q \in Ports, NEW i \in DOMAIN lq'[t][q]
          PROVE  /\ conn'[lq'[t][q][i]] = t
                 /\ \A n \in Slots : n < ind'[t] => nsfd'[t][n] # lq'[t][q][i]
                 /\ \A u \in Ports : \A k \in DOMAIN lq'[t][u] :
                      lq'[t][u][k] = lq'[t][q][i] => u = q /\ k = i
      <4>1. CASE i \in DOMAIN lq[t][q] /\ lq'[t][q][i] = lq[t][q][i]
        <5>1. lq'[t][q][i] # c /\ conn'[lq'[t][q][i]] = t
          BY <2>3, <3>1, <3>3, <4>1 DEF Queued
        <5>2. ASSUME NEW u \in Ports, NEW k \in DOMAIN lq'[t][u], lq'[t][u][k] = lq'[t][q][i]
              PROVE  u = q /\ k = i
          <6>1. k \in DOMAIN lq[t][u] /\ lq'[t][u][k] = lq[t][u][k]
            <7>1. lq'[t][u][k] # c
              BY <5>1, <5>2
            <7> QED BY <3>2, <7>1
          <6>2. lq[t][u][k] = lq[t][q][i]
            BY <4>1, <5>2, <6>1
          <6> QED BY <4>1, <6>1, <6>2, OncePlace
        <5>3. \A n \in Slots : n < ind'[t] => nsfd'[t][n] # lq'[t][q][i]
          BY <2>1, <4>1 DEF Queued
        <5> QED BY <5>1, <5>2, <5>3
      <4>2. CASE t = s /\ q = p /\ i = Len(lq[s][p]) + 1 /\ lq'[t][q][i] = c
        <5>1. ASSUME NEW u \in Ports, NEW k \in DOMAIN lq'[t][u], lq'[t][u][k] = lq'[t][q][i]
              PROVE  u = q /\ k = i
          BY <3>1, <3>2, <4>2, <5>1
        <5> QED BY <2>1, <2>3, <3>1, <4>2, <5>1
      <4> QED BY <3>2, <4>1, <4>2
    <3> QED BY <3>4 DEF Queued
  <2> QED BY <1>5, <2>2, <2>3, ConnectIs
<1>6. CASE \E s \in Servers, n \in Slots :
                \/ ThreadStart(s, n) \/ ThreadRead(s, n) \/ ThreadEnd(s, n)
                \/ ThreadSend(s, n) \/ ThreadSendLost(s, n)
  BY <1>1, <1>6, KeptThread
<1>7. CASE \/ \E c \in Clients : Start(c) \/ Query(c) \/ ReadReply(c) \/ ReadAnswer(c)
                                 \/ SendNowhere(c) \/ Kill(c)
           \/ \E c \in Clients, m \in Lines : SendLine(c, m)
  BY <1>1, <1>7, KeptClient
<1>8. CASE \/ UNCHANGED vars
           \/ \E s \in Servers : Listen(s) \/ BindRaw(s) \/ Select(s) \/ HandleQuery(s)
  BY <1>1, <1>8, KeptMain
<1> QED BY <1>2, <1>3, <1>4, <1>5, <1>6, <1>7, <1>8, Cases

\* One thread moves, and the others do not.
LEMMA OthersStay ==
    ASSUME TypeOK, NEW s \in Servers, NEW n \in Slots,
           \/ ThreadStart(s, n) \/ ThreadRead(s, n) \/ ThreadEnd(s, n)
           \/ ThreadSend(s, n) \/ ThreadSendLost(s, n)
    PROVE  \A t \in Servers, k \in Slots :
             t # s \/ k # n => tpc'[t][k] = tpc[t][k] /\ tfd'[t][k] = tfd[t][k]
                               /\ buf'[t][k] = buf[t][k]
<1>1. CASE ThreadStart(s, n)
  BY <1>1 DEF ThreadStart, TypeOK
<1>2. CASE ThreadRead(s, n)
  BY <1>2 DEF ThreadRead, TypeOK
<1>3. CASE ThreadEnd(s, n)
  BY <1>3 DEF ThreadEnd, TypeOK
<1>4. CASE ThreadSend(s, n)
  BY <1>4 DEF ThreadSend, TypeOK
<1>5. CASE ThreadSendLost(s, n)
  BY <1>5 DEF ThreadSendLost, TypeOK
<1> QED BY <1>1, <1>2, <1>3, <1>4, <1>5

\* What a read gives the thread.
LEMMA ReadGives ==
    ASSUME TypeOK, Accepted, NEW s \in Servers, NEW n \in Slots, ThreadRead(s, n)
    PROVE  /\ tfd[s][n] \in Clients /\ req[tfd[s][n]] \in Seq(Nat) /\ req[tfd[s][n]] # <<>>
           /\ buf[s][n] = <<>>
           /\ LET c == tfd[s][n]
                  m == AtMost(ThreadRecv, req[c])
              IN  /\ buf'[s][n] = SubSeq(req[c], 1, m) /\ buf'[s][n] # <<>>
                  /\ req'[c] = SubSeq(req[c], m + 1, Len(req[c]))
                  /\ buf'[s][n] \in Seq(Nat) /\ Len(buf'[s][n]) = m
                  /\ req'[c] \in Seq(Nat) /\ Len(req'[c]) = Len(req[c]) - m
                  /\ \A d \in Clients : d # c => req'[d] = req[d]
<1> DEFINE c == tfd[s][n]  m == AtMost(ThreadRecv, req[c])
           b == SubSeq(req[c], 1, m)  w == SubSeq(req[c], m + 1, Len(req[c]))
<1>1. tpc[s][n] = "recv" /\ c # None /\ req[c] # <<>>
  BY DEF ThreadRead, Accepted
<1>2. c \in Clients /\ req[c] \in Seq(Nat)
  BY <1>1 DEF TypeOK
<1>3. buf[s][n] = <<>>
  BY <1>1 DEF Accepted
<1>4. buf' = [buf EXCEPT ![s][n] = b] /\ req' = [req EXCEPT ![c] = w]
  BY DEF ThreadRead
<1>5. /\ m > 0 /\ m \in Nat /\ b \in Seq(Nat) /\ Len(b) = m
      /\ w \in Seq(Nat) /\ Len(w) = Len(req[c]) - m
  <2>1. ThreadRecv \in Nat \ {0}
    BY DEF ThreadRecv
  <2>2. ASSUME NEW q \in Seq(Nat), q # <<>>
        PROVE  LET k == AtMost(ThreadRecv, q)
               IN  /\ k > 0 /\ k \in Nat /\ SubSeq(q, 1, k) \in Seq(Nat) /\ Len(SubSeq(q, 1, k)) = k
                   /\ SubSeq(q, k + 1, Len(q)) \in Seq(Nat)
                   /\ Len(SubSeq(q, k + 1, Len(q))) = Len(q) - k
    <3> DEFINE k == AtMost(ThreadRecv, q)
    <3>1. /\ k \in 0..Len(q) /\ (q # <<>> => k > 0)
          /\ SubSeq(q, 1, k) \in Seq(Nat) /\ Len(SubSeq(q, 1, k)) = k
          /\ SubSeq(q, k + 1, Len(q)) \in Seq(Nat)
          /\ Len(SubSeq(q, k + 1, Len(q))) = Len(q) - k
      BY <2>1, ReadIs
    <3> HIDE DEF k
    <3>2. k > 0 /\ k \in Nat
      BY <2>2, <3>1, SeqLen
    <3> QED BY <3>1, <3>2 DEF k
  <2> HIDE DEF c
  <2> QED BY <1>1, <1>2, <2>2
<1> HIDE DEF c, m, b, w
<1>6. b # <<>>
  BY <1>5, SeqLen
<1>7. buf'[s][n] = b /\ req'[c] = w /\ \A d \in Clients : d # c => req'[d] = req[d]
  BY <1>2, <1>4 DEF TypeOK
<1> QED BY <1>1, <1>2, <1>3, <1>5, <1>6, <1>7 DEF c, m, b, w

LEMMA StepAccepted ==
    ASSUME TypeOK, Linked, Ready, Queued, Accepted, [Next]_vars
    PROVE  Accepted'
<1> DEFINE Own(s, n) ==
             n < ind[s] => /\ nsfd[s][n] \in Clients /\ conn[nsfd[s][n]] = s
                           /\ \A k \in Slots : k < ind[s] /\ nsfd[s][k] = nsfd[s][n] => k = n
           Thr(s, n) ==
             /\ tfd[s][n] # None => n < ind[s] /\ tfd[s][n] = nsfd[s][n]
             /\ tpc[s][n] = "start" => n < ind[s] /\ tfd[s][n] = None
             /\ tpc[s][n] \in {"recv", "send"} => tfd[s][n] # None
             /\ tpc[s][n] = "send" <=> buf[s][n] # <<>>
<1>0. Accepted <=> \A s \in Servers, n \in Slots : Own(s, n) /\ Thr(s, n)
  BY DEF Accepted
<1>p. Accepted' <=> \A s \in Servers, n \in Slots : Own(s, n)' /\ Thr(s, n)'
  BY DEF Accepted
<1>1. ASSUME UNCHANGED <<conn, nsfd, ind, tpc, tfd, buf>> PROVE Accepted'
  BY <1>1 DEF Accepted
<1>2. ASSUME NEW s \in Servers, NEW p \in Ports, Accept(s, p) \/ AcceptFails(s, p)
      PROVE  Accepted'
  <2> DEFINE c == Head(lq[s][p])
  <2>1. /\ UNCHANGED <<conn, tfd, buf>>
        /\ \A t \in Servers : t # s => nsfd'[t] = nsfd[t] /\ ind'[t] = ind[t] /\ tpc'[t] = tpc[t]
        /\ \A n \in Slots : n # ind[s] => nsfd'[s][n] = nsfd[s][n] /\ tpc'[s][n] = tpc[s][n]
        /\ \/ /\ ind'[s] = ind[s] + 1
              /\ ind[s] \in Slots => nsfd'[s][ind[s]] = c /\ tpc'[s][ind[s]] = "start"
           \/ UNCHANGED <<ind, tpc>>
    BY <1>2, KeptAccept, AcceptIs
  <2>2. /\ c \in Clients /\ conn[c] = s
        /\ \A n \in Slots : n < ind[s] => nsfd[s][n] # c
    <3>1. p \in ready[s] /\ p # Raw
      BY <1>2, AcceptIs, Numbers
    <3>2. lq[s][p] \in Seq(Clients) /\ lq[s][p] # <<>>
      BY <3>1 DEF Ready, TypeOK
    <3>3. 1 \in DOMAIN lq[s][p] /\ c = lq[s][p][1] /\ c \in Clients
      BY <3>2, TailIs
    <3> QED BY <3>3 DEF Queued
  <2> HIDE DEF c
  <2>3. ind[s] \in Nat /\ \A n \in Slots : n \in Nat
    BY Numbers DEF TypeOK
  <2>4. ASSUME NEW t \in Servers, NEW n \in Slots, t # s PROVE Own(t, n)' /\ Thr(t, n)'
    <3>1. Own(t, n) /\ Thr(t, n)
      BY <1>0
    <3> QED BY <2>1, <2>4, <3>1
  <2>5. CASE UNCHANGED <<ind, tpc>>
    <3>1. ASSUME NEW n \in Slots PROVE Own(s, n)' /\ Thr(s, n)'
      <4>1. Own(s, n) /\ Thr(s, n)
        BY <1>0
      <4>2. \A k \in Slots : k < ind[s] => nsfd'[s][k] = nsfd[s][k]
        BY <2>1, <2>3
      <4> QED BY <2>1, <2>5, <4>1, <4>2
    <3> QED BY <1>p, <2>4, <3>1
  <2>6. CASE /\ ind'[s] = ind[s] + 1
             /\ ind[s] \in Slots => nsfd'[s][ind[s]] = c /\ tpc'[s][ind[s]] = "start"
    <3>1. \A n \in Slots : n < ind'[s] <=> n < ind[s] \/ n = ind[s]
      BY <2>3, <2>6
    <3>2. ASSUME NEW n \in Slots PROVE Own(s, n)' /\ Thr(s, n)'
      <4>1. Own(s, n) /\ Thr(s, n)
        BY <1>0
      <4>2. Own(s, n)'
        BY <2>1, <2>2, <2>3, <2>6, <3>1, <4>1
      <4>3. Thr(s, n)'
        BY <2>1, <2>3, <2>6, <3>1, <4>1
      <4> QED BY <4>2, <4>3
    <3> QED BY <1>p, <2>4, <3>2
  <2> QED BY <2>1, <2>5, <2>6
<1>3. ASSUME NEW s \in Servers, NEW n \in Slots,
             \/ ThreadStart(s, n) \/ ThreadRead(s, n) \/ ThreadEnd(s, n)
             \/ ThreadSend(s, n) \/ ThreadSendLost(s, n)
      PROVE  Accepted'
  <2>1. UNCHANGED <<conn, nsfd, ind>>
    BY <1>3, KeptThread
  <2>2. Thr(s, n)'
    <3>0. Own(s, n) /\ Thr(s, n)
      BY <1>0
    <3>1. CASE ThreadStart(s, n)
      BY <2>1, <3>0, <3>1, Numbers DEF ThreadStart, TypeOK
    <3>2. CASE ThreadRead(s, n)
      <4>1. tpc[s][n] = "recv" /\ tpc'[s][n] = "send" /\ tfd'[s][n] = tfd[s][n]
        BY <3>2 DEF ThreadRead, TypeOK
      <4>2. buf'[s][n] # <<>>
        BY <3>2, ReadGives
      <4> QED BY <2>1, <3>0, <4>1, <4>2
    <3>3. CASE ThreadEnd(s, n)
      BY <2>1, <3>0, <3>3 DEF ThreadEnd, TypeOK
    <3>4. CASE ThreadSend(s, n)
      BY <2>1, <3>0, <3>4 DEF ThreadSend, TypeOK
    <3>5. CASE ThreadSendLost(s, n)
      BY <2>1, <3>0, <3>5 DEF ThreadSendLost, TypeOK
    <3> QED BY <1>3, <3>1, <3>2, <3>3, <3>4, <3>5
  <2>3. ASSUME NEW t \in Servers, NEW k \in Slots PROVE Own(t, k)' /\ Thr(t, k)'
    <3>0. Own(t, k) /\ Thr(t, k)
      BY <1>0
    <3>1. Own(t, k)'
      BY <2>1, <3>0
    <3>2. CASE t # s \/ k # n
      BY <1>3, <2>1, <3>0, <3>1, <3>2, OthersStay
    <3> QED BY <2>2, <3>1, <3>2
  <2> QED BY <1>p, <2>3
<1>4. ASSUME NEW s \in Servers, NEW n \in Slots, Sigpipe(s, n) PROVE Accepted'
  <2>1. UNCHANGED <<conn, nsfd, ind, tfd>>
    BY <1>4 DEF Sigpipe
  <2>2. \A t \in Servers, k \in Slots :
          \/ tpc'[t][k] = tpc[t][k] /\ buf'[t][k] = buf[t][k]
          \/ tpc'[t][k] = "exit" /\ buf'[t][k] = <<>>
    BY <1>4 DEF Sigpipe, TypeOK
  <2> QED BY <2>1, <2>2 DEF Accepted
<1>5. ASSUME NEW c \in Clients, NEW p \in Ports, Connect(c, p) PROVE Accepted'
  <2>1. /\ UNCHANGED <<nsfd, ind, tpc, tfd, buf>> /\ conn[c] = None
        /\ \A d \in Clients : d # c => conn'[d] = conn[d]
    BY <1>5, ConnectIs DEF Linked
  <2>2. \A s \in Servers, n \in Slots : n < ind[s] => nsfd[s][n] # c
    BY <2>1, Nowhere
  <2> QED BY <2>1, <2>2 DEF Accepted
<1>6. CASE \/ \E c \in Clients : Start(c) \/ Query(c) \/ ReadReply(c) \/ ReadAnswer(c)
                                 \/ SendNowhere(c) \/ Kill(c)
           \/ \E c \in Clients, m \in Lines : SendLine(c, m)
  BY <1>1, <1>6, KeptClient
<1>7. CASE \/ UNCHANGED vars
           \/ \E s \in Servers : Listen(s) \/ BindRaw(s) \/ Select(s) \/ HandleQuery(s)
  BY <1>1, <1>7, KeptMain
<1> QED BY <1>2, <1>3, <1>4, <1>5, <1>6, <1>7, Cases

-----------------------------------------------------------------------------
(* Types *)

LEMMA Added ==
    ASSUME NEW f \in [Clients -> Nat], NEW c \in Clients, NEW m \in Nat
    PROVE  [f EXCEPT ![c] = @ + m] \in [Clients -> Nat]
  OBVIOUS

LEMMA Put ==
    ASSUME NEW f \in [Clients -> Seq(Nat)], NEW c \in Clients, NEW q \in Seq(Nat)
    PROVE  [f EXCEPT ![c] = q] \in [Clients -> Seq(Nat)]
  OBVIOUS

LEMMA PutBuf ==
    ASSUME NEW f \in [Servers -> [Slots -> Seq(Nat)]], NEW s \in Servers, NEW n \in Slots,
           NEW q \in Seq(Nat)
    PROVE  [f EXCEPT ![s][n] = q] \in [Servers -> [Slots -> Seq(Nat)]]
  OBVIOUS

LEMMA GoneTypes ==
    ASSUME TypeOK, NEW c \in Clients, Gone(c), pc' = [pc EXCEPT ![c] = "gone"],
           fails' \in 0..MaxFaults
    PROVE  TypeOK'
<1>1. rsp' \in [Clients -> Seq(Nat)]
  <2>1. <<>> \in Seq(Nat) /\ rsp' = [rsp EXCEPT ![c] = <<>>]
    BY DEF Gone
  <2> QED BY <2>1, Put DEF TypeOK
<1>2. link' \in [Clients -> {"none", "open", "fin", "pipe", "reset", "ended", "down"}]
  BY DEF Gone, TypeOK
<1>3. pc' \in [Clients -> {"new", "query", "reply", "port", "input", "recv", "gone"}]
  BY DEF TypeOK
<1>4. replied' \in [Clients -> BOOLEAN]
  BY DEF Gone, TypeOK
<1> QED BY <1>1, <1>2, <1>3, <1>4 DEF Gone, TypeOK, threads

LEMMA MainTypes ==
    ASSUME TypeOK, Ready, NEW s \in Servers,
           Listen(s) \/ BindRaw(s) \/ Select(s) \/ HandleQuery(s)
    PROVE  TypeOK'
<1>1. CASE Listen(s)
  <2>1. j' \in [Servers -> Nat]
    BY <1>1 DEF Listen, TypeOK
  <2>2. up' \in [Servers -> {"listen", "raw", "loop", "dead"}]
    BY <1>1 DEF Listen, TypeOK
  <2> QED BY <1>1, <2>1, <2>2 DEF Listen, TypeOK, input, netVars, threads
<1>2. CASE BindRaw(s)
  <2>1. up' \in [Servers -> {"listen", "raw", "loop", "dead"}]
    BY <1>2 DEF BindRaw, TypeOK
  <2>2. readset' \in [Servers -> SUBSET ({Raw} \cup Ports)]
    BY <1>2, Numbers DEF BindRaw, TypeOK
  <2>3. \A t \in Servers : readset'[t] \subseteq Watched(t)
    BY <1>2 DEF BindRaw, TypeOK
  <2> QED BY <1>2, <2>1, <2>2, <2>3 DEF BindRaw, TypeOK, input, netVars, threads
<1>3. CASE Select(s)
  <2>1. readset' \in [Servers -> SUBSET ({Raw} \cup Ports)]
    BY <1>3, Numbers DEF Select, TypeOK
  <2>2. \A t \in Servers : readset'[t] \subseteq Watched(t)
    BY <1>3 DEF Select, TypeOK
  <2>3. ready' \in [Servers -> SUBSET ({Raw} \cup Ports)]
    BY <1>3 DEF Select, TypeOK
  <2>4. \A t \in Servers : ready'[t] \subseteq Watched(t)
    BY <1>3 DEF Select, TypeOK
  <2> QED BY <1>3, <2>1, <2>2, <2>3, <2>4 DEF Select, TypeOK, input, netVars, threads
<1>4. CASE HandleQuery(s)
  <2>1. asked' \in [Servers -> 0..N]
    <3>1. asked[s] > 0 /\ asked[s] \in 0..N
      BY <1>4 DEF HandleQuery, Ready, TypeOK
    <3>2. asked[s] - 1 \in 0..N
      BY <3>1, Numbers
    <3> QED BY <1>4, <3>2 DEF HandleQuery, TypeOK
  <2>2. replied' \in [Clients -> BOOLEAN]
    BY <1>4, ZenonT(30) DEF HandleQuery, TypeOK
  <2>3. ready' \in [Servers -> SUBSET ({Raw} \cup Ports)]
    BY <1>4 DEF HandleQuery, TypeOK
  <2>4. \A t \in Servers : ready'[t] \subseteq Watched(t)
    BY <1>4 DEF HandleQuery, TypeOK
  <2> QED BY <1>4, <2>1, <2>2, <2>3, <2>4 DEF HandleQuery, TypeOK, netVars, threads
<1> QED BY <1>1, <1>2, <1>3, <1>4

LEMMA AcceptTypes ==
    ASSUME TypeOK, Ready, Queued, Accepted, NEW s \in Servers, NEW p \in Ports,
           Accept(s, p) \/ AcceptFails(s, p)
    PROVE  TypeOK'
<1>1. /\ ready' \in [Servers -> SUBSET ({Raw} \cup Ports)]
      /\ \A t \in Servers : ready'[t] \subseteq Watched(t)
  <2>1. ready' = [ready EXCEPT ![s] = @ \ {p}]
    BY DEF Accept, AcceptFails, NextReady
  <2> QED BY <2>1 DEF TypeOK
<1>2. CASE Accept(s, p)
  <2>1. lq[s][p] \in Seq(Clients) /\ lq[s][p] # <<>>
    <3>1. p \in ready[s] /\ p # Raw
      BY AcceptIs, Numbers
    <3> QED BY <3>1 DEF Ready, TypeOK
  <2>2. Head(lq[s][p]) \in Clients /\ Tail(lq[s][p]) \in Seq(Clients)
    BY <2>1, TailIs
  <2>3. lq' \in [Servers -> [Ports -> Seq(Clients)]]
    BY <1>2, <2>2 DEF Accept, TypeOK
  <2>4. ind' \in [Servers -> 0..N]
    <3>1. ind[s] < N /\ ind[s] \in 0..N
      BY <2>1, Room DEF TypeOK
    <3>2. ind[s] + 1 \in 0..N
      BY <3>1, Numbers
    <3> QED BY <1>2, <3>2 DEF Accept, TypeOK
  <2>5. nsfd' \in [Servers -> [Slots -> Clients \cup {None}]]
    BY <1>2, <2>2 DEF Accept, TypeOK
  <2>6. tpc' \in [Servers -> [Slots -> {"none", "start", "recv", "send", "exit"}]]
    BY <1>2 DEF Accept, TypeOK
  <2> QED BY <1>1, <1>2, <2>3, <2>4, <2>5, <2>6 DEF Accept, NextReady, TypeOK, input, netVars
<1>3. CASE AcceptFails(s, p)
  <2>1. nsfd' \in [Servers -> [Slots -> Clients \cup {None}]]
    BY <1>3 DEF AcceptFails, TypeOK
  <2>2. fails' \in 0..MaxFaults
    BY <1>3, MNServerAssumption DEF AcceptFails, TypeOK
  <2> QED BY <1>1, <1>3, <2>1, <2>2 DEF AcceptFails, NextReady, TypeOK, input, netVars, threads
<1> QED BY <1>2, <1>3

LEMMA ThreadTypes ==
    ASSUME TypeOK, Accepted, NEW s \in Servers, NEW n \in Slots,
           \/ ThreadStart(s, n) \/ ThreadRead(s, n) \/ ThreadEnd(s, n)
           \/ ThreadSend(s, n) \/ ThreadSendLost(s, n)
    PROVE  TypeOK'
<1>0. <<>> \in Seq(Nat)
  OBVIOUS
<1>1. tpc' \in [Servers -> [Slots -> {"none", "start", "recv", "send", "exit"}]]
  <2>1. \/ UNCHANGED tpc
        \/ \E v \in {"recv", "send", "exit"} : tpc' = [tpc EXCEPT ![s][n] = v]
    BY DEF ThreadStart, ThreadRead, ThreadEnd, ThreadSend, ThreadSendLost
  <2>2. tpc \in [Servers -> [Slots -> {"none", "start", "recv", "send", "exit"}]]
    BY DEF TypeOK
  <2>3. ASSUME NEW v \in {"recv", "send", "exit"}, tpc' = [tpc EXCEPT ![s][n] = v]
        PROVE  tpc' \in [Servers -> [Slots -> {"none", "start", "recv", "send", "exit"}]]
    BY <2>2, <2>3
  <2> QED BY <2>1, <2>2, <2>3
<1>2. CASE ThreadStart(s, n)
  <2>1. tfd' \in [Servers -> [Slots -> Clients \cup {None}]]
    BY <1>2 DEF ThreadStart, TypeOK
  <2> QED BY <1>1, <1>2, <2>1 DEF ThreadStart, TypeOK, input, netVars, mainVars
<1>3. CASE ThreadRead(s, n)
  <2> DEFINE c == tfd[s][n]  m == AtMost(ThreadRecv, req[c])
             b == SubSeq(req[c], 1, m)  w == SubSeq(req[c], m + 1, Len(req[c]))
  <2>1. buf' = [buf EXCEPT ![s][n] = b] /\ req' = [req EXCEPT ![c] = w]
    BY <1>3 DEF ThreadRead
  <2>2. b \in Seq(Nat) /\ w \in Seq(Nat) /\ c \in Clients
    <3>1. /\ c \in Clients /\ buf'[s][n] = b /\ buf'[s][n] \in Seq(Nat)
          /\ req'[c] = w /\ req'[c] \in Seq(Nat)
      BY <1>3, ReadGives
    <3> QED BY <3>1
  <2> HIDE DEF b, w, c
  <2>3. buf' \in [Servers -> [Slots -> Seq(Nat)]] /\ req' \in [Clients -> Seq(Nat)]
    BY <2>1, <2>2, Put, PutBuf DEF TypeOK
  <2> QED BY <1>1, <1>3, <2>3 DEF ThreadRead, TypeOK, input, mainVars
<1>4. CASE ThreadEnd(s, n)
  <2>1. link' \in [Clients -> {"none", "open", "fin", "pipe", "reset", "ended", "down"}]
    BY <1>4 DEF ThreadEnd, TypeOK
  <2> QED BY <1>1, <1>4, <2>1 DEF ThreadEnd, TypeOK, input, mainVars
<1>5. CASE ThreadSend(s, n)
  <2> DEFINE c == tfd[s][n]
  <2>1. rsp' = [rsp EXCEPT ![c] = @ \o buf[s][n]] /\ buf' = [buf EXCEPT ![s][n] = <<>>]
    BY <1>5 DEF ThreadSend
  <2>2. tpc[s][n] = "send"
    BY <1>5 DEF ThreadSend
  <2>3. c \in Clients /\ buf[s][n] \in Seq(Nat)
    BY <2>2 DEF TypeOK, Accepted
  <2> HIDE DEF c
  <2>4. rsp[c] \o buf[s][n] \in Seq(Nat)
    BY <2>3, ConcatProperties DEF TypeOK
  <2>5. buf' \in [Servers -> [Slots -> Seq(Nat)]] /\ rsp' \in [Clients -> Seq(Nat)]
    BY <1>0, <2>1, <2>3, <2>4, Put, PutBuf DEF TypeOK
  <2> QED BY <1>1, <1>5, <2>5 DEF ThreadSend, TypeOK, input, mainVars
<1>6. CASE ThreadSendLost(s, n)
  <2>1. buf' = [buf EXCEPT ![s][n] = <<>>]
    BY <1>6 DEF ThreadSendLost
  <2>2. buf' \in [Servers -> [Slots -> Seq(Nat)]]
    BY <1>0, <2>1, PutBuf DEF TypeOK
  <2>3. link' \in [Clients -> {"none", "open", "fin", "pipe", "reset", "ended", "down"}]
    BY <1>6 DEF ThreadSendLost, TypeOK
  <2> QED BY <1>1, <1>6, <2>2, <2>3 DEF ThreadSendLost, TypeOK, input, mainVars
<1> QED BY <1>2, <1>3, <1>4, <1>5, <1>6

LEMMA SigpipeTypes ==
    ASSUME TypeOK, NEW s \in Servers, NEW n \in Slots, Sigpipe(s, n)
    PROVE  TypeOK'
<1>0. <<>> \in Seq(Nat) /\ <<>> \in Seq(Clients) /\ 0 \in 0..N
  BY Numbers
<1>1. /\ up' \in [Servers -> {"listen", "raw", "loop", "dead"}]
      /\ link' \in [Clients -> {"none", "open", "fin", "pipe", "reset", "ended", "down"}]
  BY DEF Sigpipe, TypeOK
<1>2. req' \in [Clients -> Seq(Nat)]
  BY <1>0 DEF Sigpipe, TypeOK
<1>3. lq' \in [Servers -> [Ports -> Seq(Clients)]]
  BY <1>0 DEF Sigpipe, TypeOK
<1>4. asked' \in [Servers -> 0..N]
  BY <1>0 DEF Sigpipe, TypeOK
<1>5. /\ ready' \in [Servers -> SUBSET ({Raw} \cup Ports)]
      /\ \A t \in Servers : ready'[t] \subseteq Watched(t)
  BY DEF Sigpipe, TypeOK
<1>6. tpc' \in [Servers -> [Slots -> {"none", "start", "recv", "send", "exit"}]]
  BY DEF Sigpipe, TypeOK
<1>7. buf' \in [Servers -> [Slots -> Seq(Nat)]]
  BY <1>0 DEF Sigpipe, TypeOK
<1> QED BY <1>1, <1>2, <1>3, <1>4, <1>5, <1>6, <1>7 DEF Sigpipe, TypeOK, input

LEMMA ClientTypes ==
    ASSUME TypeOK, Asking, [Next]_vars, NEW c \in Clients,
           \/ Start(c) \/ Query(c) \/ ReadReply(c) \/ ReadAnswer(c)
           \/ SendNowhere(c) \/ Kill(c) \/ \E m \in Lines : SendLine(c, m)
    PROVE  TypeOK'
<1>1. CASE Start(c)
  <2>1. pc' \in [Clients -> {"new", "query", "reply", "port", "input", "recv", "gone"}]
    BY <1>1 DEF Start, Goto, TypeOK
  <2> QED BY <1>1, <2>1 DEF Start, TypeOK, netVars, mainVars, threads
<1>2. CASE Query(c)
  <2>1. pc' \in [Clients -> {"new", "query", "reply", "port", "input", "recv", "gone"}]
    BY <1>2 DEF Query, Goto, TypeOK
  <2>2. c \in ToAsk
    BY <1>2 DEF Query, Goto, ToAsk
  <2>3. Cardinality(ToAsk) \in Nat /\ Cardinality(ToAsk) # 0
    BY <2>2, FewAsk, FS_EmptySet
  <2>4. \A t \in Servers : asked[t] \in 0..N /\ asked[t] + Cardinality(ToAsk) <= N
    BY DEF Asking, TypeOK
  <2>5. \A t \in Servers : asked[t] + 1 \in 0..N /\ asked[t] + 0 \in 0..N
    BY <2>3, <2>4, Numbers
  <2>6. asked' \in [Servers -> 0..N]
    BY <1>2, <2>5 DEF Query
  <2> QED BY <1>2, <2>1, <2>6 DEF Query, TypeOK, netVars, threads
<1>3. CASE ReadReply(c)
  <2>1. pc' \in [Clients -> {"new", "query", "reply", "port", "input", "recv", "gone"}]
    BY <1>3 DEF ReadReply, Goto, TypeOK
  <2> QED BY <1>3, <2>1 DEF ReadReply, TypeOK, netVars, mainVars, threads
<1>4. CASE ReadAnswer(c)
  <2>1. pc' \in [Clients -> {"new", "query", "reply", "port", "input", "recv", "gone"}]
    BY <1>4 DEF ReadAnswer, Goto, TypeOK
  <2> DEFINE q == rsp[c]  m == AtMost(ClientRecv, q)  w == SubSeq(q, m + 1, Len(q))
  <2>2. q \in Seq(Nat)
    BY DEF TypeOK
  <2>3. got' = [got EXCEPT ![c] = @ + m] /\ rsp' = [rsp EXCEPT ![c] = w]
    BY <1>4 DEF ReadAnswer
  <2> HIDE DEF q
  <2>4. m \in 0..Len(q) /\ w \in Seq(Nat)
    <3>1. ClientRecv \in Nat \ {0}
      BY DEF ClientRecv
    <3> QED BY <2>2, <3>1, ReadIs
  <2> HIDE DEF m, w
  <2>5. m \in Nat
    BY <2>2, <2>4, SeqLen
  <2>6. got' \in [Clients -> Nat] /\ rsp' \in [Clients -> Seq(Nat)]
    BY <2>3, <2>4, <2>5, Added, Put DEF TypeOK
  <2> QED BY <1>4, <2>1, <2>6 DEF ReadAnswer, TypeOK, mainVars, threads
<1>5. CASE SendNowhere(c)
  <2>1. CASE Goto(c, "input", "gone") /\ Gone(c) /\ UNCHANGED fails
    <3>1. fails' \in 0..MaxFaults
      BY <2>1 DEF TypeOK
    <3> QED BY <2>1, <3>1, GoneTypes DEF Goto
  <2>2. CASE /\ Goto(c, "input", "recv") /\ lines < MaxLines
             /\ lines' = lines + 1
             /\ UNCHANGED <<sent, got, replied, long, netVars, mainVars, threads>>
    <3>1. pc' \in [Clients -> {"new", "query", "reply", "port", "input", "recv", "gone"}]
      BY <2>2 DEF Goto, TypeOK
    <3>2. lines' \in 0..MaxLines
      BY <2>2, MNServerAssumption DEF TypeOK
    <3> QED BY <2>2, <3>1, <3>2 DEF TypeOK, netVars, mainVars, threads
  <2> QED BY <1>5, <2>1, <2>2 DEF SendNowhere
<1>6. CASE Kill(c)
  <2>1. fails' \in 0..MaxFaults
    BY <1>6, MNServerAssumption DEF Kill, TypeOK
  <2> QED BY <1>6, <2>1, GoneTypes DEF Kill
<1>7. ASSUME NEW m \in Lines, SendLine(c, m) PROVE TypeOK'
  <2>1. pc' \in [Clients -> {"new", "query", "reply", "port", "input", "recv", "gone"}]
    BY <1>7 DEF SendLine, Goto, TypeOK
  <2>2. m \in Nat
    BY MNServerAssumption
  <2>3. lines' \in 0..MaxLines
    BY <1>7, MNServerAssumption DEF SendLine, TypeOK
  <2>4. sent' \in [Clients -> Nat]
    BY <1>7, <2>2, Added DEF SendLine, TypeOK
  <2>5. req' \in [Clients -> Seq(Nat)]
    <3> DEFINE w == req[c] \o [k \in 1..m |-> sent[c] + k]
    <3>1. req' = [req EXCEPT ![c] = w]
      BY <1>7 DEF SendLine
    <3>2. sent[c] \in Nat /\ req[c] \in Seq(Nat)
      BY DEF TypeOK
    <3>3. [k \in 1..m |-> sent[c] + k] \in Seq(Nat)
      BY <2>2, <3>2
    <3>4. w \in Seq(Nat)
      BY <3>2, <3>3, ConcatProperties
    <3> HIDE DEF w
    <3> QED BY <3>1, <3>4, Put DEF TypeOK
  <2>6. long' \in SUBSET Clients
    BY <1>7 DEF SendLine, TypeOK
  <2> QED BY <1>7, <2>1, <2>3, <2>4, <2>5, <2>6 DEF SendLine, TypeOK, mainVars, threads
<1> QED BY <1>1, <1>2, <1>3, <1>4, <1>5, <1>6, <1>7

LEMMA ConnectTypes ==
    ASSUME TypeOK, NEW c \in Clients, NEW p \in Ports, Connect(c, p)
    PROVE  TypeOK'
<1>1. pc' \in [Clients -> {"new", "query", "reply", "port", "input", "recv", "gone"}]
  BY DEF Connect, Goto, TypeOK
<1>2. /\ conn' \in [Clients -> Servers \cup {None}]
      /\ link' \in [Clients -> {"none", "open", "fin", "pipe", "reset", "ended", "down"}]
      /\ lq' \in [Servers -> [Ports -> Seq(Clients)]]
  <2>1. CASE UNCHANGED <<conn, link, lq>>
    BY <2>1 DEF TypeOK
  <2>2. ASSUME NEW s \in Servers, conn' = [conn EXCEPT ![c] = s],
               link' = [link EXCEPT ![c] = "open"], lq' = [lq EXCEPT ![s][p] = Append(@, c)]
        PROVE  /\ conn' \in [Clients -> Servers \cup {None}]
               /\ link' \in [Clients -> {"none", "open", "fin", "pipe", "reset", "ended", "down"}]
               /\ lq' \in [Servers -> [Ports -> Seq(Clients)]]
    <3>1. lq[s][p] \in Seq(Clients)
      BY DEF TypeOK
    <3>2. Append(lq[s][p], c) \in Seq(Clients)
      BY <3>1
    <3>3. lq' \in [Servers -> [Ports -> Seq(Clients)]]
      BY <2>2, <3>2 DEF TypeOK
    <3> QED BY <2>2, <3>3 DEF TypeOK
  <2> QED BY <2>1, <2>2 DEF Connect
<1> QED BY <1>1, <1>2 DEF Connect, TypeOK, threads

LEMMA StepTypes ==
    ASSUME TypeOK, Ready, Queued, Accepted, Asking, [Next]_vars
    PROVE  TypeOK'
<1>1. CASE UNCHANGED vars
  BY <1>1 DEF TypeOK, vars, input, netVars, mainVars, threads
<1>2. ASSUME NEW c \in Clients,
             \/ Start(c) \/ Query(c) \/ ReadReply(c) \/ ReadAnswer(c)
             \/ SendNowhere(c) \/ Kill(c) \/ \E m \in Lines : SendLine(c, m)
      PROVE  TypeOK'
  BY <1>2, ClientTypes
<1> QED BY <1>1, <1>2, MainTypes, AcceptTypes, ThreadTypes, SigpipeTypes, ConnectTypes, Cases

-----------------------------------------------------------------------------
(* Streams *)

LEMMA WithKept ==
    ASSUME NEW c \in Clients, NEW b, With(c, b),
           link'[c] = link[c], got'[c] = got[c], sent'[c] = sent[c],
           rsp'[c] = rsp[c], req'[c] = req[c], c \in long => c \in long',
           pc'[c] = "input" => pc[c] = "input" \/ link[c] # "open"
    PROVE  With(c, b)'
<1>1. Flow(link[c], got[c], sent[c], rsp[c], b, req[c])'
  BY DEF With
<1>2. ASSUME c \notin long'
      PROVE  Short(link[c], pc[c], got[c], sent[c], rsp[c], b, req[c])'
  <2>1. Short(link[c], pc[c], got[c], sent[c], rsp[c], b, req[c])
    BY <1>2 DEF With
  <2> QED BY <2>1 DEF Short
<1> QED BY <1>1, <1>2 DEF With

\* Nobody asks for the streams of a client whose server has gone.
LEMMA WithDown ==
    ASSUME NEW c \in Clients, NEW b, link'[c] = "down"
    PROVE  With(c, b)'
  BY DEF With, Flow, Short, Cut

LEMMA OneHolder ==
    ASSUME Accepted, NEW s \in Servers, NEW n \in Slots, tfd[s][n] # None,
           NEW t \in Servers, NEW k \in Slots, tfd[t][k] = tfd[s][n]
    PROVE  t = s /\ k = n /\ conn[tfd[s][n]] = s
  BY DEF Accepted

LEMMA ClientStreams ==
    ASSUME TypeOK, Streams, UNCHANGED <<tfd, buf>>,
           \A d \in Clients : \A b \in Seq(Nat) : With(d, b) => With(d, b)'
    PROVE  Streams'
<1>1. <<>> \in Seq(Nat) /\ \A s \in Servers, n \in Slots : buf[s][n] \in Seq(Nat)
  BY DEF TypeOK
<1>2. ASSUME NEW c \in Clients, NEW s \in Servers, NEW n \in Slots, tfd[s][n] = c
      PROVE  With(c, buf[s][n])'
  <2>1. With(c, buf[s][n])
    BY <1>2 DEF Streams
  <2>2. PICK b \in Seq(Nat) : b = buf[s][n]
    BY <1>1
  <2>3. With(c, b)'
    BY <2>1, <2>2
  <2>4. buf'[s][n] = b
    BY <2>2
  <2> QED BY <2>3, <2>4 DEF With
<1>3. ASSUME NEW c \in Clients, \A s \in Servers, n \in Slots : tfd[s][n] # c
      PROVE  With(c, <<>>)'
  BY <1>1, <1>3 DEF Streams
<1> QED BY <1>2, <1>3 DEF Streams

LEMMA ThreadStreams ==
    ASSUME TypeOK, Streams, Accepted, UNCHANGED tfd,
           NEW s \in Servers, NEW n \in Slots, NEW c \in Clients, tfd[s][n] = c,
           NEW x, buf'[s][n] = x, With(c, x)',
           \A t \in Servers, k \in Slots : t # s \/ k # n => buf'[t][k] = buf[t][k],
           \A d \in Clients : d # c => \A b \in Seq(Nat) : With(d, b) => With(d, b)'
    PROVE  Streams'
<1>1. <<>> \in Seq(Nat) /\ \A t \in Servers, k \in Slots : buf[t][k] \in Seq(Nat)
  BY DEF TypeOK
<1>2. ASSUME NEW d \in Clients, NEW t \in Servers, NEW k \in Slots, tfd[t][k] = d
      PROVE  With(d, buf[t][k])'
  <2>1. CASE t = s /\ k = n
    BY <1>2, <2>1
  <2>2. CASE t # s \/ k # n
    <3>1. d # c
      BY <1>2, <2>2, OneHolder, Numbers
    <3>2. With(d, buf[t][k])
      BY <1>2 DEF Streams
    <3>3. PICK b \in Seq(Nat) : b = buf[t][k]
      BY <1>1
    <3>4. buf'[t][k] = b /\ With(d, b)
      BY <2>2, <3>2, <3>3
    <3>5. With(d, b)'
      BY <3>1, <3>4
    <3> QED BY <3>4, <3>5 DEF With
  <2> QED BY <2>1, <2>2
<1>3. ASSUME NEW d \in Clients, \A t \in Servers, k \in Slots : tfd[t][k] # d
      PROVE  With(d, <<>>)'
  <2>1. d # c /\ With(d, <<>>)
    BY <1>3 DEF Streams
  <2> QED BY <1>1, <2>1
<1> QED BY <1>2, <1>3 DEF Streams

LEMMA ReadWith ==
    ASSUME TypeOK, Streams, Accepted, NEW s \in Servers, NEW n \in Slots, ThreadRead(s, n),
           NEW c \in Clients, tfd[s][n] = c, NEW x, buf'[s][n] = x
    PROVE  With(c, x)'
<1> DEFINE r == rsp[c]  q == req[c]  w == req'[c]  m == AtMost(ThreadRecv, q)
<1>1. /\ link' = link /\ got' = got /\ sent' = sent /\ rsp' = rsp /\ long' = long /\ pc' = pc
  BY DEF ThreadRead, input
<1>2. /\ r \in Seq(Nat) /\ q \in Seq(Nat) /\ got[c] \in Nat /\ sent[c] \in Nat
  BY DEF TypeOK
<1>3. /\ q # <<>> /\ buf[s][n] = <<>>
      /\ x = SubSeq(q, 1, m) /\ w = SubSeq(q, m + 1, Len(q))
      /\ x \in Seq(Nat) /\ Len(x) = m /\ w \in Seq(Nat) /\ Len(w) = Len(q) - m
  BY ReadGives
<1>4. With(c, <<>>)
  BY <1>3 DEF Streams
<1> DEFINE e == <<>>
<1>5. e \in Seq(Nat) /\ Len(e) = 0
  OBVIOUS
<1>6. Flow(link[c], got[c], sent[c], r, e, q)
  BY <1>4 DEF With
<1>7. c \notin long => Short(link[c], pc[c], got[c], sent[c], r, e, q)
  BY <1>4 DEF With
<1> HIDE DEF e, q, r, w, m
<1>8. Flow(link[c], got[c], sent[c], r, x, w)
  <2>1. LET k == AtMost(ThreadRecv, q)
        IN  Flow(link[c], got[c], sent[c], r, SubSeq(q, 1, k), SubSeq(q, k + 1, Len(q)))
    BY <1>2, <1>5, <1>6, FlowRead
  <2> QED BY <1>3, <2>1 DEF m
<1>9. ASSUME c \notin long
      PROVE  Short(link[c], pc[c], got[c], sent[c], r, x, w)
  <2>1. Len(x) = AtMost(ThreadRecv, q) /\ Len(w) = Len(q) - Len(x)
    BY <1>3 DEF m
  <2> QED BY <1>2, <1>3, <1>5, <1>6, <1>7, <1>9, <2>1, ShortRead
<1> QED BY <1>1, <1>8, <1>9 DEF With, r, w

LEMMA SendWith ==
    ASSUME TypeOK, Streams, Accepted, NEW s \in Servers, NEW n \in Slots, ThreadSend(s, n),
           NEW c \in Clients, tfd[s][n] = c, NEW x, buf'[s][n] = x
    PROVE  With(c, x)'
<1> DEFINE r == rsp[c]  q == req[c]  b == buf[s][n]
<1>1. /\ link' = link /\ got' = got /\ sent' = sent /\ req' = req /\ long' = long /\ pc' = pc
      /\ link[c] = "open" /\ tpc[s][n] = "send"
  BY DEF ThreadSend, input
<1>2. /\ r \in Seq(Nat) /\ q \in Seq(Nat) /\ got[c] \in Nat /\ sent[c] \in Nat
      /\ b \in Seq(Nat)
  BY DEF TypeOK
<1>3. /\ b # <<>> /\ x = <<>> /\ rsp'[c] = r \o b
  <2>1. b # <<>>
    BY <1>1 DEF Accepted
  <2>2. rsp' = [rsp EXCEPT ![c] = @ \o b] /\ buf' = [buf EXCEPT ![s][n] = <<>>]
    BY DEF ThreadSend
  <2>3. buf'[s][n] = <<>>
    BY <2>2 DEF TypeOK
  <2>4. rsp'[c] = r \o b
    BY <2>2 DEF TypeOK
  <2> QED BY <2>1, <2>3, <2>4
<1>4. With(c, b)
  BY DEF Streams
<1>5. x \in Seq(Nat) /\ Len(x) = 0
  BY <1>3
<1>6. Flow("open", got[c], sent[c], r, b, q)
  BY <1>1, <1>4 DEF With
<1>7. c \notin long => Short("open", pc[c], got[c], sent[c], r, b, q)
  BY <1>1, <1>4 DEF With
<1> HIDE DEF q, r, b
<1>8. Flow("open", got[c], sent[c], r \o b, x, q)
  BY <1>2, <1>5, <1>6, FlowSend
<1>9. ASSUME c \notin long
      PROVE  Short("open", pc[c], got[c], sent[c], r \o b, x, q)
  BY <1>2, <1>3, <1>5, <1>6, <1>7, <1>9, ShortSend
<1> QED BY <1>1, <1>3, <1>8, <1>9 DEF With, q

LEMMA LostWith ==
    ASSUME TypeOK, Streams, Accepted, NEW s \in Servers, NEW n \in Slots, ThreadSendLost(s, n),
           NEW c \in Clients, tfd[s][n] = c, NEW x, buf'[s][n] = x
    PROVE  With(c, x)'
<1> DEFINE r == rsp[c]  q == req[c]  b == buf[s][n]  l == link[c]
<1>1. /\ got' = got /\ sent' = sent /\ req' = req /\ rsp' = rsp /\ long' = long /\ pc' = pc
      /\ tpc[s][n] = "send"
  BY DEF ThreadSendLost, input
<1>2. /\ r \in Seq(Nat) /\ q \in Seq(Nat) /\ got[c] \in Nat /\ sent[c] \in Nat
      /\ b \in Seq(Nat)
  BY DEF TypeOK
<1>3. /\ b # <<>> /\ x = <<>> /\ l \in {"fin", "reset"}
      /\ link'[c] = IF l = "fin" THEN "pipe" ELSE "ended"
  BY <1>1 DEF ThreadSendLost, Accepted, TypeOK
<1>4. With(c, b)
  BY DEF Streams
<1>5. x \in Seq(Nat) /\ Len(x) = 0
  BY <1>3
<1>6. Flow(l, got[c], sent[c], r, b, q)
  BY <1>4 DEF With
<1>7. c \notin long => Short(l, pc[c], got[c], sent[c], r, b, q)
  BY <1>4 DEF With
<1> HIDE DEF q, r, b, l
<1>8. Flow(link'[c], got[c], sent[c], r, x, q)
  BY <1>2, <1>3, <1>5, <1>6, FlowLost
<1>9. ASSUME c \notin long
      PROVE  Short(link'[c], pc[c], got[c], sent[c], r, x, q)
  BY <1>2, <1>3, <1>5, <1>6, <1>7, <1>9, ShortLost
<1> QED BY <1>1, <1>8, <1>9 DEF With, q, r

LEMMA EndWith ==
    ASSUME TypeOK, NEW s \in Servers, NEW n \in Slots, ThreadEnd(s, n),
           NEW d \in Clients, NEW b \in Seq(Nat), With(d, b)
    PROVE  With(d, b)'
<1>1. /\ got' = got /\ sent' = sent /\ req' = req /\ rsp' = rsp /\ long' = long /\ pc' = pc
      /\ link'[d] = link[d] \/ (link[d] = "reset" /\ link'[d] = "ended")
  BY DEF ThreadEnd, input, TypeOK
<1>2. CASE link'[d] = link[d]
  BY <1>1, <1>2, WithKept
<1>3. CASE link[d] = "reset" /\ link'[d] = "ended"
  <2>1. 1 + Len(b) + Len(req[d]) <= sent[d] - got[d]
    BY <1>3 DEF With, Flow, Cut
  <2>2. d \notin long => Len(b) = 0 /\ Len(req[d]) = 0
    BY <1>3 DEF With, Short, Cut
  <2> QED BY <1>1, <1>3, <2>1, <2>2 DEF With, Flow, Short, Cut
<1> QED BY <1>1, <1>2, <1>3

LEMMA LineWith ==
    ASSUME TypeOK, NEW c \in Clients, NEW m \in Lines, SendLine(c, m),
           NEW b \in Seq(Nat), With(c, b)
    PROVE  With(c, b)'
<1> DEFINE r == rsp[c]  q == req[c]  w == req'[c]
<1>0. m \in Nat
  BY MNServerAssumption
<1>1. /\ link[c] = "open" /\ link' = link /\ got' = got /\ rsp' = rsp
      /\ pc[c] = "input" /\ pc'[c] = "recv" /\ sent'[c] = sent[c] + m
      /\ w = q \o [k \in 1..m |-> sent[c] + k]
  BY DEF SendLine, Goto, TypeOK
<1>2. /\ r \in Seq(Nat) /\ q \in Seq(Nat) /\ got[c] \in Nat /\ sent[c] \in Nat
  BY DEF TypeOK
<1>3. c \notin long' => c \notin long /\ m <= ThreadRecv
  BY <1>0 DEF SendLine, ThreadRecv
<1>4. Flow("open", got[c], sent[c], r, b, q)
  BY <1>1 DEF With
<1>5. c \notin long => Short("open", "input", got[c], sent[c], r, b, q)
  BY <1>1 DEF With
<1> HIDE DEF r, q
<1>6. Len(w) = Len(q) + m /\ Flow("open", got[c], sent[c] + m, r, b, w)
  <2>1. /\ Len(q \o [k \in 1..m |-> sent[c] + k]) = Len(q) + m
        /\ Flow("open", got[c], sent[c] + m, r, b, q \o [k \in 1..m |-> sent[c] + k])
    BY <1>0, <1>2, <1>4, FlowLine
  <2> QED BY <1>1, <2>1
<1> HIDE DEF w
<1>7. ASSUME c \notin long'
      PROVE  Short("open", "recv", got[c], sent[c] + m, r, b, w)
  BY <1>0, <1>2, <1>3, <1>4, <1>5, <1>6, <1>7, ShortLine
<1> QED BY <1>1, <1>6, <1>7 DEF With, r, w

LEMMA AnswerWith ==
    ASSUME TypeOK, Linked, NEW c \in Clients, ReadAnswer(c), NEW b \in Seq(Nat), With(c, b)
    PROVE  With(c, b)'
<1> DEFINE r == rsp[c]  q == req[c]  m == AtMost(ClientRecv, r)  w == rsp'[c]
<1>1. /\ link' = link /\ req' = req /\ sent' = sent /\ long' = long
      /\ pc[c] = "recv" /\ pc'[c] = "input" /\ got'[c] = got[c] + m
      /\ w = SubSeq(r, m + 1, Len(r)) /\ (r # <<>> \/ link[c] = "down")
  BY DEF ReadAnswer, Goto, TypeOK
<1>2. /\ r \in Seq(Nat) /\ q \in Seq(Nat) /\ got[c] \in Nat /\ sent[c] \in Nat
  BY DEF TypeOK
<1>3. CASE link[c] = "down"
  BY <1>1, <1>3, WithDown
<1>4. CASE link[c] = "open"
  <2>1. Flow("open", got[c], sent[c], r, b, q)
    BY <1>4 DEF With
  <2>2. c \notin long => Short("open", "recv", got[c], sent[c], r, b, q)
    BY <1>1, <1>4 DEF With
  <2>3. r # <<>>
    BY <1>1, <1>4
  <2> HIDE DEF r, q
  <2>4. m \in 0..Len(r) /\ Len(SubSeq(r, m + 1, Len(r))) = Len(r) - m
    <3>1. ClientRecv \in Nat \ {0}
      BY DEF ClientRecv
    <3> QED BY <1>2, <3>1, ReadIs
  <2>5. Len(w) = Len(r) - AtMost(ClientRecv, r)
    BY <1>1, <2>4
  <2>6. ASSUME c \notin long
        PROVE  Short("open", "input", got[c] + AtMost(ClientRecv, r), sent[c], w, b, q)
    <3> HIDE DEF m, w
    <3> QED BY <1>2, <2>1, <2>2, <2>3, <2>5, <2>6, ShortAnswer
  <2>7. Flow("open", got[c] + m, sent[c], w, b, q)
    <3> HIDE DEF m
    <3>1. Flow("open", got[c] + m, sent[c], SubSeq(r, m + 1, Len(r)), b, q)
      BY <1>2, <2>1, <2>4, FlowAnswer
    <3> QED BY <1>1, <3>1
  <2> QED BY <1>1, <1>4, <2>6, <2>7 DEF With, q
<1>5. CASE link[c] = "none"
  <2>1. Len(r) + Len(b) + Len(q) = sent[c] - got[c] /\ sent[c] = got[c]
    BY <1>5 DEF With, Flow
  <2>2. Len(r) \in Nat /\ Len(b) \in Nat /\ Len(q) \in Nat /\ (Len(r) = 0 <=> r = <<>>)
    BY <1>2, SeqLen
  <2>3. r = <<>>
    <3>1. PICK x \in Nat, y \in Nat, z \in Nat : x = Len(r) /\ y = Len(b) /\ z = Len(q)
      BY <2>2
    <3>2. x + y + z = sent[c] - got[c] /\ (x = 0 <=> r = <<>>)
      BY <2>1, <2>2, <3>1
    <3>3. x = 0
      BY <1>2, <2>1, <3>2, Nothing
    <3> QED BY <3>2, <3>3
  <2> QED BY <1>1, <1>5, <2>3
<1>6. CASE link[c] \in Cut \cup {"fin"}
  BY <1>1, <1>6 DEF Linked
<1> QED BY <1>3, <1>4, <1>5, <1>6 DEF TypeOK, Cut

LEMMA GoneWith ==
    ASSUME TypeOK, NEW c \in Clients, Gone(c), pc'[c] = "gone", NEW b \in Seq(Nat), With(c, b)
    PROVE  With(c, b)'
<1> DEFINE r == rsp[c]  q == req[c]  e == <<>>  l == link[c]
<1>1. /\ link'[c] = Left(l, r) /\ rsp'[c] = e
      /\ req' = req /\ sent' = sent /\ got' = got /\ long' = long
  BY DEF Gone, TypeOK, Left
<1>2. /\ r \in Seq(Nat) /\ q \in Seq(Nat) /\ got[c] \in Nat /\ sent[c] \in Nat
      /\ e \in Seq(Nat) /\ Len(e) = 0
  BY DEF TypeOK
<1>3. Flow(l, got[c], sent[c], r, b, q)
  BY DEF With
<1>4. c \notin long => Short(l, pc[c], got[c], sent[c], r, b, q)
  BY DEF With
<1> HIDE DEF r, q, e, l
<1>5. Flow(Left(l, r), got[c], sent[c], e, b, q)
  BY <1>2, <1>3, FlowGone
<1>6. ASSUME c \notin long
      PROVE  Short(Left(l, r), "gone", got[c], sent[c], e, b, q)
  BY <1>2, <1>3, <1>4, <1>6, ShortGone
<1> QED BY <1>1, <1>5, <1>6 DEF With, q

LEMMA ConnectWith ==
    ASSUME TypeOK, NEW c \in Clients, link[c] = "none", link'[c] = "open",
           UNCHANGED <<sent, got, long, req, rsp>>, NEW b \in Seq(Nat), With(c, b)
    PROVE  With(c, b)'
<1> DEFINE r == rsp[c]  q == req[c]
<1>1. /\ r \in Seq(Nat) /\ q \in Seq(Nat) /\ got[c] \in Nat /\ sent[c] \in Nat
  BY DEF TypeOK
<1>2. /\ Flow("open", got[c], sent[c], r, b, q) /\ sent[c] = got[c]
      /\ Len(r) + Len(b) + Len(q) = sent[c] - got[c]
  BY DEF With, Flow, Cut
<1>3. sent[c] - got[c] = 0 /\ Len(r) = 0 /\ Len(b) = 0 /\ Len(q) = 0
  <2>1. Len(r) \in Nat /\ Len(b) \in Nat /\ Len(q) \in Nat
    BY <1>1, SeqLen
  <2> HIDE DEF r, q
  <2> QED BY <1>1, <1>2, <2>1, Nothing
<1>4. Short("open", pc'[c], got[c], sent[c], r, b, q)
  BY <1>2, <1>3 DEF Short, Cut, ThreadRecv
<1> QED BY <1>2, <1>4 DEF With

LEMMA StepStreams ==
    ASSUME TypeOK, Linked, Queued, Accepted, Streams, [Next]_vars
    PROVE  Streams'
<1>0. \A s \in Servers, n \in Slots :
        tpc[s][n] \in {"recv", "send"} => tfd[s][n] \in Clients
  BY DEF Accepted, TypeOK
<1>1. ASSUME UNCHANGED <<pc, sent, got, long, link, req, rsp, tfd, buf>> PROVE Streams'
  <2>1. \A d \in Clients : \A b \in Seq(Nat) : With(d, b) => With(d, b)'
    BY <1>1, WithKept
  <2> QED BY <1>1, <2>1, ClientStreams
<1>2. ASSUME NEW s \in Servers, NEW n \in Slots, ThreadStart(s, n) PROVE Streams'
  <2>1. UNCHANGED <<pc, sent, got, long, link, req, rsp, buf>>
    BY <1>2 DEF ThreadStart, input, netVars
  <2>2. /\ tfd'[s][n] = nsfd[s][n] /\ buf[s][n] = <<>> /\ n < ind[s]
        /\ \A t \in Servers, k \in Slots : t # s \/ k # n => tfd'[t][k] = tfd[t][k]
        /\ tfd[s][n] = None
    BY <1>2 DEF ThreadStart, Accepted, TypeOK
  <2>3. \A t \in Servers, k \in Slots : tfd[t][k] # nsfd[s][n]
    BY <2>2, Numbers DEF Accepted
  <2>4. \A d \in Clients, b \in Seq(Nat) : With(d, b) => With(d, b)'
    BY <2>1, WithKept
  <2>5. ASSUME NEW d \in Clients, NEW t \in Servers, NEW k \in Slots, tfd'[t][k] = d
        PROVE  With(d, buf[t][k])'
    <3>1. PICK b \in Seq(Nat) : b = buf[t][k]
      BY DEF TypeOK
    <3>2. With(d, b)
      <4>1. CASE t = s /\ k = n
        BY <2>2, <2>3, <2>5, <3>1, <4>1 DEF Streams
      <4>2. CASE t # s \/ k # n
        BY <2>2, <2>5, <3>1, <4>2 DEF Streams
      <4> QED BY <4>1, <4>2
    <3>3. With(d, b)'
      BY <2>4, <3>2
    <3>4. buf'[t][k] = b
      BY <2>1, <3>1
    <3> QED BY <3>3, <3>4 DEF With
  <2>6. ASSUME NEW d \in Clients, \A t \in Servers, k \in Slots : tfd'[t][k] # d
        PROVE  With(d, <<>>)'
    <3>1. <<>> \in Seq(Nat)
      OBVIOUS
    <3>2. \A t \in Servers, k \in Slots : tfd[t][k] # d
      BY <2>2, <2>6, Numbers
    <3>3. With(d, <<>>)
      BY <3>2 DEF Streams
    <3> QED BY <2>4, <3>1, <3>3
  <2> QED BY <2>5, <2>6 DEF Streams
<1>3. ASSUME NEW s \in Servers, NEW n \in Slots,
             ThreadRead(s, n) \/ ThreadSend(s, n) \/ ThreadSendLost(s, n)
      PROVE  Streams'
  <2>1. PICK c \in Clients : tfd[s][n] = c
    BY <1>0, <1>3 DEF ThreadRead, ThreadSend, ThreadSendLost
  <2>2. PICK x : x = buf'[s][n]
    OBVIOUS
  <2>3. With(c, x)'
    BY <1>3, <2>1, <2>2, ReadWith, SendWith, LostWith
  <2>4. /\ UNCHANGED <<pc, sent, got, long, tfd>>
        /\ \A d \in Clients : d # c => /\ link'[d] = link[d] /\ req'[d] = req[d]
                                       /\ rsp'[d] = rsp[d]
    <3>1. CASE ThreadRead(s, n)
      BY <2>1, <3>1 DEF ThreadRead, TypeOK, input
    <3>2. CASE ThreadSend(s, n)
      BY <2>1, <3>2 DEF ThreadSend, TypeOK, input
    <3>3. CASE ThreadSendLost(s, n)
      BY <2>1, <3>3 DEF ThreadSendLost, TypeOK, input
    <3> QED BY <1>3, <3>1, <3>2, <3>3
  <2>5. \A d \in Clients : d # c => \A b \in Seq(Nat) : With(d, b) => With(d, b)'
    BY <2>4, WithKept
  <2>6. \A t \in Servers, k \in Slots : t # s \/ k # n => buf'[t][k] = buf[t][k]
    BY <1>3, OthersStay
  <2> QED BY <2>1, <2>2, <2>3, <2>4, <2>5, <2>6, ThreadStreams
<1>4. ASSUME NEW s \in Servers, NEW n \in Slots, ThreadEnd(s, n) PROVE Streams'
  <2>1. UNCHANGED <<tfd, buf>>
    BY <1>4 DEF ThreadEnd
  <2>2. \A d \in Clients : \A b \in Seq(Nat) : With(d, b) => With(d, b)'
    BY <1>4, EndWith
  <2> QED BY <2>1, <2>2, ClientStreams
<1>5. ASSUME NEW s \in Servers, NEW n \in Slots, Sigpipe(s, n) PROVE Streams'
  <2>1. /\ UNCHANGED <<pc, sent, got, long, rsp, tfd>>
        /\ \A d \in Clients : conn[d] = s => link'[d] = "down"
        /\ \A d \in Clients : conn[d] # s => link'[d] = link[d] /\ req'[d] = req[d]
        /\ \A t \in Servers, k \in Slots : t # s => buf'[t][k] = buf[t][k]
    BY <1>5 DEF Sigpipe, input, TypeOK
  <2>2. ASSUME NEW d \in Clients, conn[d] # s
        PROVE  \A b \in Seq(Nat) : With(d, b) => With(d, b)'
    BY <2>1, <2>2, WithKept
  <2>3. ASSUME NEW d \in Clients, NEW t \in Servers, NEW k \in Slots, tfd'[t][k] = d
        PROVE  With(d, buf[t][k])'
    <3>1. CASE conn[d] = s
      <4>1. link'[d] = "down"
        BY <2>1, <3>1
      <4> QED BY <4>1 DEF With, Flow, Short, Cut
    <3>2. CASE conn[d] # s
      <4>1. PICK b \in Seq(Nat) : b = buf[t][k]
        BY DEF TypeOK
      <4>2. With(d, b) /\ conn[d] = t
        <5>1. tfd[t][k] = d /\ d # None
          BY <2>1, <2>3, Numbers
        <5>2. With(d, buf[t][k])
          BY <5>1 DEF Streams
        <5>3. conn[d] = t
          BY <5>1, OneHolder
        <5> QED BY <4>1, <5>2, <5>3
      <4>3. With(d, b)'
        BY <2>2, <3>2, <4>2
      <4>4. buf'[t][k] = b
        BY <2>1, <3>2, <4>1, <4>2
      <4> QED BY <4>3, <4>4 DEF With
    <3> QED BY <3>1, <3>2
  <2>4. ASSUME NEW d \in Clients, \A t \in Servers, k \in Slots : tfd'[t][k] # d
        PROVE  With(d, <<>>)'
    <3>1. <<>> \in Seq(Nat)
      OBVIOUS
    <3>2. With(d, <<>>)
      BY <2>1, <2>4 DEF Streams
    <3>3. conn[d] = s => link'[d] = "down"
      BY <2>1
    <3> QED BY <2>2, <3>1, <3>2, <3>3, WithDown
  <2> QED BY <2>3, <2>4 DEF Streams
<1>6. ASSUME NEW c \in Clients, Start(c) \/ Query(c) \/ ReadReply(c) PROVE Streams'
  <2>1. /\ UNCHANGED <<sent, got, long, link, req, rsp, tfd, buf>>
        /\ pc'[c] # "input" /\ \A d \in Clients : d # c => pc'[d] = pc[d]
    BY <1>6 DEF Start, Query, ReadReply, Goto, TypeOK, netVars, threads
  <2>2. \A d \in Clients : \A b \in Seq(Nat) : With(d, b) => With(d, b)'
    BY <2>1, WithKept
  <2> QED BY <2>1, <2>2, ClientStreams
<1>7. ASSUME NEW c \in Clients, NEW m \in Lines, SendLine(c, m) PROVE Streams'
  <2>1. /\ UNCHANGED <<got, link, rsp, tfd, buf>> /\ \A d \in Clients : d \in long => d \in long'
        /\ \A d \in Clients : d # c => /\ pc'[d] = pc[d] /\ sent'[d] = sent[d]
                                       /\ req'[d] = req[d]
    BY <1>7 DEF SendLine, Goto, TypeOK, threads
  <2>2. ASSUME NEW d \in Clients, d # c
        PROVE  \A b \in Seq(Nat) : With(d, b) => With(d, b)'
    BY <2>1, <2>2, WithKept
  <2>3. \A b \in Seq(Nat) : With(c, b) => With(c, b)'
    BY <1>7, LineWith
  <2>4. \A d \in Clients : \A b \in Seq(Nat) : With(d, b) => With(d, b)'
    BY <2>2, <2>3
  <2> QED BY <2>1, <2>4, ClientStreams
<1>8. ASSUME NEW c \in Clients, ReadAnswer(c) PROVE Streams'
  <2>1. /\ UNCHANGED <<sent, link, req, long, tfd, buf>>
        /\ \A d \in Clients : d # c => /\ pc'[d] = pc[d] /\ got'[d] = got[d]
                                       /\ rsp'[d] = rsp[d]
    BY <1>8 DEF ReadAnswer, Goto, TypeOK, threads
  <2>2. ASSUME NEW d \in Clients, d # c
        PROVE  \A b \in Seq(Nat) : With(d, b) => With(d, b)'
    BY <2>1, <2>2, WithKept
  <2>3. \A b \in Seq(Nat) : With(c, b) => With(c, b)'
    BY <1>8, AnswerWith
  <2>4. \A d \in Clients : \A b \in Seq(Nat) : With(d, b) => With(d, b)'
    BY <2>2, <2>3
  <2> QED BY <2>1, <2>4, ClientStreams
<1>9. ASSUME NEW c \in Clients, Gone(c), pc' = [pc EXCEPT ![c] = "gone"] PROVE Streams'
  <2>1. /\ UNCHANGED <<sent, got, req, long, tfd, buf>> /\ pc'[c] = "gone"
        /\ \A d \in Clients : d # c => /\ pc'[d] = pc[d] /\ link'[d] = link[d]
                                       /\ rsp'[d] = rsp[d]
    BY <1>9 DEF Gone, TypeOK, threads
  <2>2. ASSUME NEW d \in Clients, d # c
        PROVE  \A b \in Seq(Nat) : With(d, b) => With(d, b)'
    BY <2>1, <2>2, WithKept
  <2>3. \A b \in Seq(Nat) : With(c, b) => With(c, b)'
    BY <1>9, <2>1, GoneWith
  <2>4. \A d \in Clients : \A b \in Seq(Nat) : With(d, b) => With(d, b)'
    BY <2>2, <2>3
  <2> QED BY <2>1, <2>4, ClientStreams
<1>10. ASSUME NEW c \in Clients, SendNowhere(c) \/ Kill(c) PROVE Streams'
  <2>1. CASE Gone(c) /\ pc' = [pc EXCEPT ![c] = "gone"]
    BY <1>9, <2>1
  <2>2. CASE /\ Goto(c, "input", "recv") /\ link[c] = "down"
             /\ UNCHANGED <<sent, got, replied, long, netVars, mainVars, threads>>
    <3>1. /\ UNCHANGED <<sent, got, long, link, req, rsp, tfd, buf>>
          /\ pc'[c] # "input" /\ \A d \in Clients : d # c => pc'[d] = pc[d]
      BY <2>2 DEF Goto, TypeOK, netVars, threads
    <3>2. \A d \in Clients : \A b \in Seq(Nat) : With(d, b) => With(d, b)'
      BY <3>1, WithKept
    <3> QED BY <3>1, <3>2, ClientStreams
  <2> QED BY <1>10, <2>1, <2>2 DEF SendNowhere, Kill, Goto
<1>11. ASSUME NEW c \in Clients, NEW p \in Ports, Connect(c, p) PROVE Streams'
  <2>1. /\ UNCHANGED <<sent, got, long, req, rsp, tfd, buf>> /\ link[c] = "none"
        /\ link'[c] \in {"none", "open"}
        /\ \A d \in Clients : d # c => pc'[d] = pc[d] /\ link'[d] = link[d]
    BY <1>11, ConnectIs DEF Linked
  <2>2. ASSUME NEW d \in Clients, d # c \/ link'[d] = link[d]
        PROVE  \A b \in Seq(Nat) : With(d, b) => With(d, b)'
    BY <2>1, <2>2, WithKept
  <2>3. ASSUME link'[c] = "open"
        PROVE  \A b \in Seq(Nat) : With(c, b) => With(c, b)'
    BY <2>1, <2>3, ConnectWith
  <2>4. \A d \in Clients : \A b \in Seq(Nat) : With(d, b) => With(d, b)'
    BY <2>1, <2>2, <2>3
  <2> QED BY <2>1, <2>4, ClientStreams
<1> QED BY <1>1, <1>2, <1>3, <1>4, <1>5, <1>6, <1>7, <1>8, <1>10, <1>11,
           KeptMain, KeptAccept, Cases

-----------------------------------------------------------------------------
(* Servers that have ended *)

\* Nothing more happens to a client that has gone, but to its connection.
LEMMA GoneStays ==
    ASSUME TypeOK, NEW d \in Clients, pc[d] = "gone", [Next]_vars
    PROVE  /\ pc'[d] = "gone" /\ conn'[d] = conn[d] /\ sent'[d] = sent[d] /\ got'[d] = got[d]
           /\ d \in long => d \in long'
<1>1. CASE UNCHANGED <<pc, conn, sent, got, long>>
  BY <1>1
<1>2. ASSUME NEW s \in Servers, NEW n \in Slots, Sigpipe(s, n)
      PROVE  UNCHANGED <<pc, conn, sent, got, long>>
  BY <1>2 DEF Sigpipe, input
<1>3. ASSUME NEW c \in Clients, Start(c) \/ Query(c) \/ ReadReply(c) \/ SendNowhere(c) \/ Kill(c)
      PROVE  /\ UNCHANGED <<conn, sent, got, long>>
             /\ pc[c] # "gone" /\ \A e \in Clients : e # c => pc'[e] = pc[e]
  BY <1>3 DEF Start, Query, ReadReply, SendNowhere, Kill, Gone, Goto, netVars, TypeOK
<1>4. ASSUME NEW c \in Clients, ReadAnswer(c)
      PROVE  /\ UNCHANGED <<conn, sent, long>> /\ pc[c] # "gone"
             /\ \A e \in Clients : e # c => pc'[e] = pc[e] /\ got'[e] = got[e]
  BY <1>4 DEF ReadAnswer, Goto, TypeOK
<1>5. ASSUME NEW c \in Clients, NEW m \in Lines, SendLine(c, m)
      PROVE  /\ UNCHANGED <<conn, got>> /\ pc[c] # "gone"
             /\ \A e \in Clients : e # c => pc'[e] = pc[e] /\ sent'[e] = sent[e]
             /\ \A e \in long : e \in long'
  BY <1>5 DEF SendLine, Goto, TypeOK
<1>6. ASSUME NEW c \in Clients, NEW p \in Ports, Connect(c, p)
      PROVE  /\ UNCHANGED <<sent, got, long>> /\ pc[c] # "gone"
             /\ \A e \in Clients : e # c => pc'[e] = pc[e] /\ conn'[e] = conn[e]
  BY <1>6, ConnectIs
<1> QED BY <1>1, <1>2, <1>3, <1>4, <1>5, <1>6, KeptMain, KeptAccept, KeptThread, Cases

\* A server ends at a send() to a client that it has lost.
LEMMA Ends ==
    ASSUME TypeOK, [Next]_vars, NEW s \in Servers, up'[s] = "dead", up[s] # "dead"
    PROVE  \E n \in Slots : Sigpipe(s, n)
<1>1. UNCHANGED up => FALSE
  OBVIOUS
<1>2. ASSUME NEW t \in Servers, Listen(t) \/ BindRaw(t) PROVE FALSE
  BY <1>2 DEF Listen, BindRaw, TypeOK
<1>3. ASSUME NEW t \in Servers, Select(t) \/ HandleQuery(t) PROVE FALSE
  BY <1>1, <1>3 DEF Select, HandleQuery
<1>4. ASSUME NEW t \in Servers, NEW n \in Slots, Sigpipe(t, n), t # s PROVE FALSE
  BY <1>1, <1>4 DEF Sigpipe, TypeOK
<1>5. UNCHANGED vars => FALSE
  BY <1>1 DEF vars, mainVars
<1>6. ASSUME NEW c \in Clients, NEW p \in Ports, Connect(c, p) PROVE FALSE
  BY <1>1, <1>6, ConnectIs
<1> QED BY <1>1, <1>2, <1>3, <1>4, <1>5, <1>6, KeptAccept, KeptThread, KeptClient, Cases

LEMMA StepSurvives ==
    ASSUME TypeOK, Linked, Accepted, Streams, Survives, [Next]_vars
    PROVE  Survives'
<1> SUFFICES ASSUME NEW s \in Servers, up'[s] = "dead"
             PROVE  \E c \in long' : conn'[c] = s /\ pc'[c] = "gone" /\ sent'[c] - got'[c] > 1
  BY DEF Survives
<1>1. PICK c \in long : conn[c] = s /\ pc[c] = "gone" /\ sent[c] - got[c] > 1
  <2>1. CASE up[s] = "dead"
    BY <2>1 DEF Survives
  <2>2. CASE up[s] # "dead"
    <3>1. PICK n \in Slots : Sigpipe(s, n)
      BY <2>2, Ends
    <3>2. PICK c : c = tfd[s][n]
      OBVIOUS
    <3>3. tpc[s][n] = "send" /\ link[c] \in {"pipe", "ended"}
      BY <3>1, <3>2 DEF Sigpipe
    <3>4. c # None /\ buf[s][n] # <<>>
      BY <3>2, <3>3 DEF Accepted
    <3>5. c \in Clients
      BY <3>2, <3>4 DEF TypeOK
    <3>6. conn[c] = s
      BY <3>2, <3>4, OneHolder
    <3>7. pc[c] = "gone"
      BY <3>3, <3>5 DEF Linked, Cut
    <3>8. With(c, buf[s][n])
      BY <3>2, <3>5 DEF Streams
    <3>9. /\ 1 + Len(buf[s][n]) + Len(req[c]) <= sent[c] - got[c]
          /\ c \notin long => Len(buf[s][n]) = 0
      BY <3>3, <3>8 DEF With, Flow, Short, Cut
    <3>10. /\ Len(buf[s][n]) \in Nat /\ Len(req[c]) \in Nat /\ Len(buf[s][n]) # 0
           /\ sent[c] \in Nat /\ got[c] \in Nat
      <4>1. buf[s][n] \in Seq(Nat) /\ req[c] \in Seq(Nat)
        BY <3>5 DEF TypeOK
      <4> QED BY <3>4, <3>5, <4>1, SeqLen DEF TypeOK
    <3>11. PICK x \in Nat, y \in Nat, z \in Nat, g \in Nat :
              /\ x = Len(buf[s][n]) /\ y = Len(req[c]) /\ z = sent[c] /\ g = got[c]
      BY <3>10
    <3>12. z - g > 1
      <4>1. x # 0 /\ 1 + x + y <= z - g
        BY <3>9, <3>10, <3>11
      <4> QED BY <4>1
    <3>13. c \in long
      BY <3>9, <3>10
    <3> QED BY <3>6, <3>7, <3>11, <3>12, <3>13
  <2> QED BY <2>1, <2>2
<1>2. c \in Clients
  BY DEF TypeOK
<1> QED BY <1>1, <1>2, GoneStays

-----------------------------------------------------------------------------
(* The invariant *)

LEMMA InitTypes == Init => TypeOK
<1> SUFFICES ASSUME Init PROVE TypeOK
  OBVIOUS
<1>1. /\ \A s \in Servers : First[s] \in Nat /\ Last[s] \in Nat
      /\ MaxLines \in Nat /\ MaxFaults \in Nat
  BY MNServerAssumption
<1>2. j \in [Servers -> Nat]
  BY <1>1 DEF Init
<1>3. /\ readset \in [Servers -> SUBSET ({Raw} \cup Ports)]
      /\ ready \in [Servers -> SUBSET ({Raw} \cup Ports)]
      /\ \A s \in Servers : readset[s] \subseteq Watched(s) /\ ready[s] \subseteq Watched(s)
  BY Numbers DEF Init
<1>4. <<>> \in Seq(Nat) /\ <<>> \in Seq(Clients)
  OBVIOUS
<1>5. /\ req \in [Clients -> Seq(Nat)] /\ rsp \in [Clients -> Seq(Nat)]
      /\ lq \in [Servers -> [Ports -> Seq(Clients)]]
      /\ buf \in [Servers -> [Slots -> Seq(Nat)]]
  BY <1>4 DEF Init
<1>6. /\ pc \in [Clients -> {"new", "query", "reply", "port", "input", "recv", "gone"}]
      /\ conn \in [Clients -> Servers \cup {None}]
      /\ link \in [Clients -> {"none", "open", "fin", "pipe", "reset", "ended", "down"}]
      /\ sent \in [Clients -> Nat] /\ got \in [Clients -> Nat]
      /\ replied \in [Clients -> BOOLEAN] /\ long \in SUBSET Clients
      /\ lines \in 0..MaxLines /\ fails \in 0..MaxFaults
  BY <1>1 DEF Init
<1>7. /\ up \in [Servers -> {"listen", "raw", "loop", "dead"}]
      /\ asked \in [Servers -> 0..N] /\ ind \in [Servers -> 0..N]
      /\ nsfd \in [Servers -> [Slots -> Clients \cup {None}]]
      /\ tpc \in [Servers -> [Slots -> {"none", "start", "recv", "send", "exit"}]]
      /\ tfd \in [Servers -> [Slots -> Clients \cup {None}]]
  BY Numbers DEF Init
<1> QED BY <1>2, <1>3, <1>5, <1>6, <1>7 DEF TypeOK

LEMMA InitGood == Init => Good
<1> SUFFICES ASSUME Init PROVE Good
  OBVIOUS
<1>1. Linked /\ Ready /\ Survives
  BY DEF Init, Linked, Ready, Survives, Cut
<1>2. Queued
  BY DEF Init, Queued
<1>3. Accepted
  BY Numbers DEF Init, Accepted
<1>4. Asking
  <2>1. TypeOK
    BY InitTypes
  <2>2. \A s \in Servers : asked[s] = 0
    BY DEF Init
  <2> QED BY <2>1, <2>2, FewAsk, Numbers DEF Asking
<1>5. Streams
  <2>1. ASSUME NEW c \in Clients PROVE With(c, <<>>)
    <3>1. /\ link[c] = "none" /\ sent[c] = 0 /\ got[c] = 0
          /\ rsp[c] = <<>> /\ req[c] = <<>>
      BY DEF Init
    <3>2. PICK e \in Seq(Nat) : e = <<>> /\ Len(e) = 0
      <4>1. <<>> \in Seq(Nat)
        OBVIOUS
      <4> QED BY <4>1, SeqLen
    <3>3. \A a \in Nat : e = Run(a, Len(e))
      BY <3>2, EmptyRun
    <3>4. Flow("none", 0, 0, e, e, e)
      BY <3>2, <3>3 DEF Flow, Cut
    <3>5. Short("none", pc[c], 0, 0, e, e, e)
      BY DEF Short, Cut
    <3> QED BY <3>1, <3>2, <3>4, <3>5 DEF With
  <2>2. \A c \in Clients, s \in Servers, n \in Slots : tfd[s][n] # c
    BY Numbers DEF Init
  <2> QED BY <2>1, <2>2 DEF Streams
<1> QED BY <1>1, <1>2, <1>3, <1>4, <1>5 DEF Good

LEMMA Inductive == IInv /\ [Next]_vars => IInv'
<1> SUFFICES ASSUME TypeOK, Good, [Next]_vars PROVE TypeOK' /\ Good'
  BY DEF IInv
<1>1. Linked /\ Ready /\ Queued /\ Accepted /\ Asking /\ Streams /\ Survives
  BY DEF Good
<1> QED BY <1>1, StepTypes, StepLinked, StepReady, StepQueued, StepAccepted, StepAsking,
           StepStreams, StepSurvives DEF Good

LEMMA Invariance == Spec => []IInv
<1>1. Init => IInv
  BY InitTypes, InitGood DEF IInv
<1> QED BY <1>1, Inductive, PTL DEF Spec

\* What a connected client has not read is one run of what it sent.
LEMMA OneRun ==
    ASSUME TypeOK, NEW c \in Clients, link[c] = "open", NEW b \in Seq(Nat), With(c, b)
    PROVE  rsp[c] \o b \o req[c] = [k \in 1..(sent[c] - got[c]) |-> got[c] + k]
<1> DEFINE r == rsp[c]  q == req[c]  a == got[c]  z == sent[c]
<1>1. r \in Seq(Nat) /\ q \in Seq(Nat) /\ a \in Nat /\ z \in Nat
  BY DEF TypeOK
<1>2. /\ Len(r) + Len(b) + Len(q) = z - a /\ r = Run(a, Len(r))
      /\ b = Run(a + Len(r), Len(b)) /\ q = Run(z - Len(q), Len(q))
  BY DEF With, Flow
<1> HIDE DEF r, q, a, z
<1>3. PICK x \in Nat, y \in Nat, w \in Nat : x = Len(r) /\ y = Len(b) /\ w = Len(q)
  BY <1>1, SeqLen
<1>4. x + y + w = z - a
  BY <1>2, <1>3
<1>5. z - w = a + (x + y) /\ x + y \in Nat /\ a + x \in Nat /\ z - a = (x + y) + w
  BY <1>1, <1>3, <1>4
<1>6. r \o b = Run(a, x + y)
  <2>1. r = Run(a, x) /\ b = Run(a + x, y)
    BY <1>2, <1>3
  <2>2. Run(a, x) \o Run(a + x, y) = Run(a, x + y)
    <3>1. a \in Nat
      BY <1>1
    <3> QED BY <3>1, RunConcat
  <2> QED BY <2>1, <2>2
<1>7. (r \o b) \o q = Run(a, (x + y) + w)
  <2>1. q = Run(a + (x + y), w)
    BY <1>2, <1>3, <1>5
  <2>2. Run(a, x + y) \o Run(a + (x + y), w) = Run(a, (x + y) + w)
    <3>1. a \in Nat /\ x + y \in Nat
      BY <1>1, <1>5
    <3> QED BY <3>1, RunConcat
  <2> QED BY <1>6, <2>1, <2>2
<1>8. (r \o b) \o q = Run(a, z - a)
  BY <1>5, <1>7
<1> QED BY <1>8 DEF Run, r, q, a, z

LEMMA InOrderHolds == IInv => InOrder
<1> SUFFICES ASSUME TypeOK, Accepted, Streams, NEW c \in Clients, link[c] = "open"
             PROVE  /\ Cardinality(Held(c)) <= 1
                    /\ LET b == IF Held(c) = {} THEN <<>>
                                ELSE LET t == CHOOSE t \in Held(c) : TRUE IN buf[t[1]][t[2]]
                       IN  rsp[c] \o b \o req[c] = [k \in 1..(sent[c] - got[c]) |-> got[c] + k]
  BY DEF IInv, Good, InOrder
<1> DEFINE h == CHOOSE t \in Held(c) : TRUE
           x == IF Held(c) = {} THEN <<>> ELSE buf[h[1]][h[2]]
<1>1. \A t \in Held(c) : /\ t \in Servers \X Slots /\ tfd[t[1]][t[2]] = c
                         /\ buf[t[1]][t[2]] \in Seq(Nat) /\ buf[t[1]][t[2]] # <<>>
  BY DEF Held, TypeOK
<1>2. c # None
  BY Numbers
<1>3. ASSUME Held(c) = {}
      PROVE  Cardinality(Held(c)) <= 1 /\ x \in Seq(Nat) /\ With(c, x)
  <2>1. Cardinality(Held(c)) <= 1
    <3>1. Cardinality(Held(c)) = 0
      BY <1>3, FS_EmptySet
    <3> QED BY <3>1
  <2>2. With(c, <<>>)
    <3>1. CASE \A s \in Servers, n \in Slots : tfd[s][n] # c
      BY <3>1 DEF Streams
    <3>2. CASE \E s \in Servers, n \in Slots : tfd[s][n] = c
      <4>1. PICK s \in Servers, n \in Slots : tfd[s][n] = c
        BY <3>2
      <4>2. With(c, buf[s][n])
        BY <4>1 DEF Streams
      <4>3. <<s, n>> \in Servers \X Slots /\ <<s, n>>[1] = s /\ <<s, n>>[2] = n
        OBVIOUS
      <4>4. buf[s][n] = <<>>
        BY <1>3, <4>1, <4>3 DEF Held
      <4> QED BY <4>2, <4>4
    <3> QED BY <3>1, <3>2
  <2>3. <<>> \in Seq(Nat) /\ x = <<>>
    BY <1>3
  <2> HIDE DEF x
  <2> QED BY <2>1, <2>2, <2>3
<1>4. ASSUME Held(c) # {}
      PROVE  Cardinality(Held(c)) <= 1 /\ x \in Seq(Nat) /\ With(c, x)
  <2>1. h \in Held(c)
    BY <1>4
  <2> HIDE DEF h
  <2>2. \A u \in Held(c) : u = h
    <3>1. ASSUME NEW u \in Held(c) PROVE u = h
      <4>1. u[1] = h[1] /\ u[2] = h[2]
        BY <1>1, <1>2, <2>1, OneHolder
      <4> QED BY <1>1, <2>1, <4>1
    <3> QED BY <3>1
  <2>3. Held(c) = {h}
    BY <2>1, <2>2
  <2>4. Cardinality(Held(c)) <= 1
    <3>1. Cardinality(Held(c)) = 1
      BY <2>3, FS_Singleton
    <3> QED BY <3>1
  <2>5. x \in Seq(Nat) /\ x = buf[h[1]][h[2]]
    BY <1>1, <1>4, <2>1
  <2>6. With(c, buf[h[1]][h[2]])
    BY <1>1, <2>1 DEF Streams
  <2> HIDE DEF x
  <2> QED BY <2>4, <2>5, <2>6
<1>5. Cardinality(Held(c)) <= 1 /\ x \in Seq(Nat) /\ With(c, x)
  BY <1>3, <1>4
<1>6. rsp[c] \o x \o req[c] = [k \in 1..(sent[c] - got[c]) |-> got[c] + k]
  <2> HIDE DEF x
  <2> QED BY <1>5, OneRun
<1> QED BY <1>5, <1>6, Zenon

LEMMA InStepHolds == IInv => InStep
<1> SUFFICES ASSUME TypeOK, Streams, NEW c \in Clients,
                    pc[c] = "input", link[c] = "open", c \notin long
             PROVE  got[c] = sent[c]
  BY DEF IInv, Good, InStep
<1>1. CASE \A s \in Servers, n \in Slots : tfd[s][n] # c
  BY <1>1 DEF Streams, With, Short
<1>2. CASE \E s \in Servers, n \in Slots : tfd[s][n] = c
  BY <1>2 DEF Streams, With, Short
<1> QED BY <1>1, <1>2

-----------------------------------------------------------------------------
(* Theorems *)

\* The variables of server.c and client.c stay what they are declared to be: no slot of
\* nsfd[] after the last client's is written, no port and no query is served that is not
\* there, and no accept() waits, because select() said there is a connection.
THEOREM TypesTheorem == Spec => []TypeOK
<1>1. IInv => TypeOK
  BY DEF IInv
<1> QED BY <1>1, Invariance, PTL

\* A client's unread units are in its request, in the buffer of one thread and in the
\* answer, in the order client.c sent them: nsfd[ind] is given to one func() at a time.
THEOREM InOrderTheorem == Spec => []InOrder
  BY Invariance, InOrderHolds, PTL

\* A client of client.c whose lines fit the 50 bytes of a func()'s recv() has the whole
\* answer when it asks for the next line.
THEOREM InStepTheorem == Spec => []InStep
  BY Invariance, InStepHolds, PTL

\* A server.c that was ended by SIGPIPE had a client that was stopped with more than one
\* unit unanswered and that had sent a line longer than 50 bytes.
THEOREM SurvivesTheorem == Spec => []Survives
<1>1. IInv => Survives
  BY DEF IInv, Good
<1> QED BY <1>1, Invariance, PTL
=============================================================================

------------------------------- MODULE PingPong -------------------------------
(***************************************************************************)
(* Assignment_4/q4: P1.c reads y, adds one and writes x; P2.c reads x,     *)
(* adds one and writes y.  x and y are texts in two shared memory          *)
(* segments, and the turn goes to and fro with the semaphores S1 and S2.   *)
(* Neither segments nor semaphores are ever removed: both processes can be *)
(* stopped and started again, and P1 then sets x and y back to 1.          *)
(*                                                                         *)
(* A strcpy() or an atoi() is one step: Exclusive shows that nobody else   *)
(* is at that text meanwhile, as long as P1 was not started again.         *)
(***************************************************************************)
EXTENDS Integers

CONSTANTS
    Limit,      \* bound: numbers are followed up to here; 10000 overruns st[5]
    MaxStops, MaxRestarts

ASSUME PingPongAssumption ==
    Limit \in Nat /\ Limit > 1 /\ Limit < 10000 /\ MaxStops \in Nat /\ MaxRestarts \in Nat

VARIABLES
    x, y,       \* the numbers in the segments; a fresh segment reads as 0
    place,      \* where P1 and P2 are
    a,          \* the local variable a of each
    S,          \* S[1]: what P1 waits on, S2; S[2]: S1
    stops, restarts,
    twice       \* history: P1 was started while P2, or a semaphore, had the turn

pingVars == <<x, y, place, a, S, stops, restarts, twice>>

Values == 0..Limit

PingTypeOK ==
    /\ x \in Values /\ y \in Values
    /\ place \in [1..2 -> {"initx", "inity", "read", "write", "post", "wait", "down"}]
    /\ place[2] \notin {"initx", "inity"}
    /\ a \in [1..2 -> Values]
    /\ S \in [1..2 -> Nat]
    /\ stops \in 0..MaxStops /\ restarts \in 0..MaxRestarts /\ twice \in BOOLEAN

PingInit ==
    /\ x = 0 /\ y = 0
    /\ place = <<"initx", "wait">>
    /\ a = <<0, 0>>
    /\ S = <<0, 0>>
    /\ stops = 0 /\ restarts = 0 /\ twice = FALSE

PingGoto(p, from, to) == place[p] = from /\ place' = [place EXCEPT ![p] = to]

\* strcpy(x, "1") and strcpy(y, "1"), before the loop of P1.
InitX ==
    /\ PingGoto(1, "initx", "inity")
    /\ x' = 1
    /\ UNCHANGED <<y, a, S, stops, restarts, twice>>
InitY ==
    /\ PingGoto(1, "inity", "read")
    /\ y' = 1
    /\ UNCHANGED <<x, a, S, stops, restarts, twice>>

\* Variant of Read: the own text.
ReadOwn(p) ==
    /\ PingGoto(p, "read", "write")
    /\ LET v == IF p = 1 THEN x ELSE y
       IN  v < Limit /\ a' = [a EXCEPT ![p] = v + 1]
    /\ UNCHANGED <<x, y, S, stops, restarts, twice>>

\* atoi() of the other's text, and a++.
Read(p) ==
    /\ PingGoto(p, "read", "write")
    /\ LET v == IF p = 1 THEN y ELSE x
       IN  v < Limit /\ a' = [a EXCEPT ![p] = v + 1]
    /\ UNCHANGED <<x, y, S, stops, restarts, twice>>

\* strcpy() of a into the own text.
Write(p) ==
    /\ PingGoto(p, "write", "post")
    /\ IF p = 1 THEN x' = a[p] /\ UNCHANGED y ELSE y' = a[p] /\ UNCHANGED x
    /\ UNCHANGED <<a, S, stops, restarts, twice>>

\* Variant of Post: P2 posts nothing.
PostNothing(p) ==
    /\ PingGoto(p, "post", "wait")
    /\ S' = IF p = 1 THEN [S EXCEPT ![2] = @ + 1] ELSE S
    /\ UNCHANGED <<x, y, a, stops, restarts, twice>>

\* getchar, then sem_post().
Post(p) ==
    /\ PingGoto(p, "post", "wait")
    /\ S' = [S EXCEPT ![3 - p] = @ + 1]
    /\ UNCHANGED <<x, y, a, stops, restarts, twice>>

\* Variant of Wait: it does not wait.
WaitNot(p) ==
    /\ PingGoto(p, "wait", "read")
    /\ S' = [S EXCEPT ![p] = @ - 1]
    /\ UNCHANGED <<x, y, a, stops, restarts, twice>>

Wait(p) ==
    /\ PingGoto(p, "wait", "read")
    /\ S[p] > 0
    /\ S' = [S EXCEPT ![p] = @ - 1]
    /\ UNCHANGED <<x, y, a, stops, restarts, twice>>

PingKill(p) ==
    /\ place[p] # "down" /\ stops < MaxStops
    /\ stops' = stops + 1
    /\ place' = [place EXCEPT ![p] = "down"]
    /\ UNCHANGED <<x, y, a, S, restarts, twice>>

Busy(p) == place[p] \in {"initx", "inity", "read", "write", "post"}

PingStart(p) ==
    /\ place[p] = "down" /\ restarts < MaxRestarts
    /\ restarts' = restarts + 1
    /\ place' = [place EXCEPT ![p] = IF p = 1 THEN "initx" ELSE "wait"]
    /\ a' = [a EXCEPT ![p] = 0]
    /\ twice' = (twice \/ (p = 1 /\ (Busy(2) \/ S[1] > 0 \/ S[2] > 0)))
    /\ UNCHANGED <<x, y, S, stops>>

PingStep(p) == Read(p) \/ Write(p) \/ Post(p) \/ Wait(p) \/ (p = 1 /\ (InitX \/ InitY))

PingNext == \E p \in 1..2 : PingStep(p) \/ PingKill(p) \/ PingStart(p)

\* Both processes run, and the user answers every scanf().
PingSpec == PingInit /\ [][PingNext]_pingVars /\ \A p \in 1..2 : WF_pingVars(PingStep(p))

-----------------------------------------------------------------------------
(* Properties *)

\* Nobody reads or writes a text while the other one is between its sem_wait() and its
\* sem_post(), wherever the two are stopped and started again: only a P1 that is started
\* while P2, or a semaphore, has the turn can meet P2 there.
Exclusive == ~twice => ~(Busy(1) /\ Busy(2))

\* Each number is one more than the one the other process wrote last, no increment is lost
\* and none is made twice, unless P1 was started while P2, or a semaphore, had the turn:
\* a process stopped half-way leaves nothing behind that makes a later number wrong.
CountsUp ==
    ~twice =>
      /\ place[2] = "read" => x = y + 1
      /\ place[1] = "read" => y = x + 1 \/ (x = 1 /\ y = 1)
      /\ \A p \in 1..2 : place[p] = "write" => a[p] = (IF p = 1 THEN y ELSE x) + 1

\* Unless a process is stopped the numbers grow, to any limit.
Grows == (stops = 0) ~> (x = Limit \/ y = Limit \/ stops > 0)

\* Step by step the two processes are a ring of two as in SemRing.
Two == INSTANCE SemRing WITH Size <- 2,
    at <- [p \in 1..2 |-> IF Busy(p) THEN "post" ELSE place[p]],
    sem <- S, kills <- stops, starts <- restarts, doubled <- twice,
    MaxKills <- MaxStops, MaxStarts <- MaxRestarts
RingOfTwo == Two!SemSpec
=============================================================================

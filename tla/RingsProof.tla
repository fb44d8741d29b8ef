----------------------------- MODULE RingsProof -----------------------------
(***************************************************************************)
(* Proofs about the three rings of Assignment_4: the signals of q1         *)
(* (SignalRing), the named semaphores of q3 (SemRing) and the two          *)
(* semaphores of q4 (PingPong).                                            *)
(*                                                                         *)
(* SignalRing, for any number of processes, of rounds and of runs of the   *)
(* programs over the same queue: OneTurn is inductive.  That the two       *)
(* phases are apart is not: it depends on how many turns each process has  *)
(* sent when the turn is at one of them (Lap), hence on a turn going to    *)
(* the right neighbour or to nobody even in a run that found an earlier    *)
(* run's pids in the queue (RightOK), hence on what the queue holds        *)
(* (QueueOK, OnePid2).                                                     *)
(*                                                                         *)
(* The three modules have constants and variables of their own, so that    *)
(* each theorem rests on the assumptions of its own module alone.          *)
(***************************************************************************)
EXTENDS SignalRing, SemRing, PingPong, SequenceTheorems, TLAPS

\* The states of a process that has sent all its turns to the right.
Back == {"install", "rpause", "rkill", "done", "dead"}
Sent(p) == IF pc[p] \in Back THEN Rounds ELSE round[p]

Others == Procs \ {1}

(* While a turn is on the way to the right, the processes it has passed    *)
(* have sent one turn more than those it has not.                          *)
Lap ==
    /\ \A h \in Procs :
         "USR1" \in pending[h] \/ (h # 1 /\ pc[h] \in {"learn", "tell", "kill"})
         => /\ pc[1] = "pause"
            /\ \A q \in Others :
                 Sent(q) = IF h = 1 \/ q < h THEN round[1] + 1 ELSE round[1]
    /\ pc[1] \in {"start", "learn", "kill"} => \A q \in Others : Sent(q) = round[1]
    /\ pc[1] = "install" => \A q \in Others : Sent(q) = Rounds
    /\ pc[1] \notin {"await", "tell"}
    /\ \A q \in Others : q # 2 => pc[q] # "tell"

(* Nobody gets past the first pause() before P1 knows the pid of P2. *)
Begun ==
    /\ \A q \in Others : pc[q] \notin {"start", "await"} \/ pending[q] # {}
                         => right[1] = Pid(2)
    /\ pc[1] \in {"start", "learn"} => right[1] = NoPid

(* The right neighbour a process knows is its own, or one of an earlier run; *)
RightOK == \A p, q \in Procs : right[p] = Pid(q) => q = Right(p)

(* what it knows of its left neighbour came with a signal. *)
LeftOK == \A p \in Procs :
    /\ left[p] \in {NoPid, Pid(Left(p))}
    /\ sender[p] \in {NoPid, Pid(Left(p))}
    /\ "USR1" \in pending[p] => sender[p] # NoPid
    /\ p # 1 /\ pc[p] \notin {"start", "await"} => left[p] # NoPid

(* No pid in the queue is of a later run; of this run's a message of type  *)
(* k holds k's or, once P2 has passed it on, P1's as type 2.               *)
Told == pc[2] \notin {"start", "await", "learn", "tell"}
QueueOK == \A k \in Types : \A i \in DOMAIN queue[k] :
    /\ queue[k][i] <= Pid(N)
    /\ \A q \in Procs : queue[k][i] = Pid(q) => q = k \/ (k = 2 /\ q = 1 /\ Told)

(* The pid of P2 is in the queue once, until P1 takes it. *)
OnePid2 ==
    /\ \A i, j \in DOMAIN queue[2] : queue[2][i] = Pid(2) /\ queue[2][j] = Pid(2) => i = j
    /\ pc[2] = "start" \/ right[1] = Pid(2) => \A i \in DOMAIN queue[2] : queue[2][i] # Pid(2)
    /\ pc[2] = "start" => right[1] # Pid(2)

(* In a run that began with an empty queue, each process learns in turn    *)
(* the pid of its right neighbour, and the queue holds nothing else.       *)
Learning(p) == pc[p] \in {"start", "await", "learn"}
CleanQueue ==
    clean =>
      /\ \A p \in Procs : right[p] = IF Learning(p) THEN NoPid ELSE Pid(Right(p))
      /\ \A p \in Procs : p # N /\ ~Learning(p) => pc[p + 1] # "start"
      /\ ~Learning(N) => Told
      /\ \A k \in Types \ {2} :
           queue[k] = IF pc[k] = "start" \/ ~Learning(k - 1) THEN <<>> ELSE <<Pid(k)>>
      /\ queue[2] = IF pc[2] = "start" \/ (~Learning(1) /\ ~Told) \/ ~Learning(N) THEN <<>>
                    ELSE IF ~Learning(1) THEN <<Pid(1)>> ELSE <<Pid(2)>>

\* OneTurn, without the pairs: one process at most, and in one way, has the turn.
AtMostOne ==
    /\ \A p, q \in Procs : Holds(p) /\ Holds(q) => p = q
    /\ \A p, q \in Procs : Holds(p) => "USR1" \notin pending[q] /\ "USR2" \notin pending[q]
    /\ \A p, q \in Procs : \A s, t \in {"USR1", "USR2"} :
         s \in pending[p] /\ t \in pending[q] => p = q /\ s = t

Good == /\ AtMostOne /\ Lap /\ PhasesApart /\ Begun /\ RightOK /\ LeftOK
        /\ QueueOK /\ OnePid2 /\ CleanQueue
IInv == TypeOK /\ Good

-----------------------------------------------------------------------------
(* The ring and its pids *)

LEMMA RingFacts ==
    /\ 1 \in Procs /\ 2 \in Procs /\ N \in Procs
    /\ \A p \in Procs : /\ Right(p) \in Procs /\ Left(p) \in Procs
                        /\ Left(Right(p)) = p /\ Right(p) # p
                        /\ p # N => Right(p) = p + 1
    /\ Right(N) = 1
  BY SignalRingAssumption DEF Procs, Right, Left

LEMMA PidFacts ==
    ASSUME TypeOK
    PROVE  /\ \A p \in Procs : Pid(p) \in Pids /\ Pid(p) \in Nat /\ Pid(p) # NoPid
           /\ \A p, q \in Procs : Pid(p) = Pid(q) => p = q
           /\ \A p \in Procs : Pid(p) <= Pid(N)
<1>1. N \in Nat /\ run \in Nat /\ MaxRuns \in Nat /\ run <= MaxRuns - 1
  BY SignalRingAssumption DEF TypeOK
<1>2. N * run \in Nat /\ N * MaxRuns \in Nat
  BY <1>1
<1>3. N * run + N <= N * MaxRuns
  <2>1. N * run + N = N * (run + 1)
    BY <1>1
  <2>2. N * (run + 1) <= N * MaxRuns
    BY <1>1, SMTT(30)
  <2> QED BY <2>1, <2>2
<1> QED BY <1>1, <1>2, <1>3 DEF Pid, Pids, Procs, NoPid

\* The pids of one run are the same throughout it, and those of the next are greater.
LEMMA PidStable ==
    ASSUME run' = run
    PROVE  \A p \in Procs : Pid(p)' = Pid(p)
  BY DEF Pid

LEMMA PidGrows ==
    ASSUME TypeOK, run' = run + 1
    PROVE  \A p \in Procs : Pid(N) < Pid(p)' /\ Pid(p)' \in Nat
<1>1. N \in Nat /\ run \in Nat
  BY SignalRingAssumption DEF TypeOK
<1>2. N * (run + 1) = N * run + N /\ N * run \in Nat
  BY <1>1
<1> QED BY <1>1, <1>2 DEF Pid, Procs

-----------------------------------------------------------------------------
(* Types *)

LEMMA InitTypes == Init => TypeOK
<1>1. SUFFICES ASSUME Init PROVE TypeOK
  OBVIOUS
<1>2. \A k \in Types : <<>> \in Seq(Pids)
  OBVIOUS
<1>3. NoPid \in Pids /\ 0 \in 0..(Rounds - 1) /\ 0 \in 0..(MaxRuns - 1)
  BY SignalRingAssumption DEF Pids, NoPid
<1> QED BY <1>1, <1>2, <1>3 DEF Init, TypeOK, PCs

LEMMA StepTypes == ASSUME TypeOK, [Next]_vars PROVE TypeOK'
<1> USE DEF TypeOK, PCs, Paused
<1>0. /\ NoPid \in Pids /\ 0 \in 0..(Rounds - 1)
      /\ \A p \in Procs : Pid(p) \in Pids
  BY PidFacts, SignalRingAssumption DEF Pids, NoPid
<1>1. ASSUME NEW p \in Procs, Start(p) PROVE TypeOK'
  <2>1. queue' \in [Types -> Seq(Pids)]
    <3>1. CASE p = 1
      BY <1>1, <3>1 DEF Start
    <3>2. CASE p # 1
      <4>1. p \in Types /\ queue[p] \in Seq(Pids) /\ Pid(p) \in Pids
        BY <1>0, <3>2, SignalRingAssumption DEF Procs, Types
      <4>2. Append(queue[p], Pid(p)) \in Seq(Pids)
        BY <4>1
      <4>3. queue' = [queue EXCEPT ![p] = Append(@, Pid(p))]
        BY <1>1, <3>2 DEF Start, Send
      <4> QED BY <4>1, <4>2, <4>3
    <3> QED BY <3>1, <3>2
  <2> QED BY <1>1, <2>1 DEF Start, Goto
<1>2. ASSUME NEW p \in Procs, Learn(p) PROVE TypeOK'
  <2>1. PICK k \in Types : /\ queue[k] # <<>>
                           /\ right' = [right EXCEPT ![p] = Head(queue[k])]
                           /\ queue' = [queue EXCEPT ![k] = Tail(@)]
    <3>1. (IF p = N THEN 2 ELSE p + 1) \in Types
      BY SignalRingAssumption DEF Procs, Types
    <3> QED BY <1>2, <3>1 DEF Learn
  <2>2. Head(queue[k]) \in Pids /\ Tail(queue[k]) \in Seq(Pids)
    <3>1. queue[k] \in Seq(Pids) /\ queue[k] # <<>>
      BY <2>1
    <3> QED BY <3>1, HeadTailProperties
  <2>3. queue' \in [Types -> Seq(Pids)] /\ right' \in [Procs -> Pids]
    BY <2>1, <2>2
  <2>4. pc' \in [Procs -> PCs]
    BY <1>2 DEF Learn, Goto
  <2> QED BY <1>2, <2>3, <2>4 DEF Learn
<1>3. ASSUME NEW p \in Procs, Tell(p) PROVE TypeOK'
  <2>1. queue' \in [Types -> Seq(Pids)]
    <3>1. 2 \in Types /\ queue[2] \in Seq(Pids) /\ left[p] \in Pids
      BY SignalRingAssumption DEF Types
    <3> QED BY <1>3, <3>1 DEF Tell, Send
  <2> QED BY <1>3, <2>1 DEF Tell, Goto
<1>4. ASSUME NEW p \in Procs, KillRight(p) PROVE TypeOK'
  <2>1. pending' \in [Procs -> SUBSET {"USR1", "USR2"}] /\ sender' \in [Procs -> Pids]
    BY <1>0, <1>4 DEF KillRight, Signal
  <2>2. pc' \in [Procs -> PCs]
    BY <1>4 DEF KillRight, Looped
  <2>3. round' \in [Procs -> 0..(Rounds - 1)]
    <3>1. round[p] \in 0..(Rounds - 1) /\ Rounds \in Nat
      BY SignalRingAssumption
    <3> QED BY <1>0, <1>4, <3>1 DEF KillRight, Looped
  <2> QED BY <1>4, <2>1, <2>2, <2>3 DEF KillRight
<1>5. ASSUME NEW p \in Procs, Install(p) PROVE TypeOK'
  BY <1>5 DEF Install, Goto
<1>6. ASSUME NEW p \in Procs, KillLeft(p) PROVE TypeOK'
  <2>1. pending' \in [Procs -> SUBSET {"USR1", "USR2"}] /\ sender' \in [Procs -> Pids]
    BY <1>0, <1>6 DEF KillLeft, Signal
  <2>2. pc' \in [Procs -> PCs]
    BY <1>6 DEF KillLeft, Looped
  <2>3. round' \in [Procs -> 0..(Rounds - 1)]
    <3>1. round[p] \in 0..(Rounds - 1) /\ Rounds \in Nat
      BY SignalRingAssumption
    <3> QED BY <1>0, <1>6, <3>1 DEF KillLeft, Looped
  <2> QED BY <1>6, <2>1, <2>2, <2>3 DEF KillLeft
<1>7. ASSUME NEW p \in Procs, NEW sig \in {"USR1", "USR2"}, Deliver(p, sig) PROVE TypeOK'
  <2>1. pending' \in [Procs -> SUBSET {"USR1", "USR2"}] /\ left' \in [Procs -> Pids]
    BY <1>7 DEF Deliver
  <2>2. /\ pc' \in [Procs -> PCs] /\ round' \in [Procs -> 0..(Rounds - 1)]
        /\ missed' \in BOOLEAN
    <3>1. CASE missed' = TRUE /\ UNCHANGED <<pc, round>>
      BY <3>1
    <3>2. CASE pc[p] \in Paused /\ Wake(p)
      <4>1. round' \in [Procs -> 0..(Rounds - 1)]
        BY <1>0, <3>2, SignalRingAssumption DEF Wake
      <4> QED BY <3>2, <4>1 DEF Wake
    <3> QED BY <1>7, <3>1, <3>2 DEF Deliver
  <2> QED BY <1>7, <2>1, <2>2 DEF Deliver
<1>8. ASSUME NEW p \in Procs, NEW sig \in {"USR1", "USR2"}, Terminate(p, sig) PROVE TypeOK'
  BY <1>8 DEF Terminate
<1>9. ASSUME Rerun PROVE TypeOK'
  <2>1. run' \in 0..(MaxRuns - 1)
    BY <1>9, SignalRingAssumption DEF Rerun
  <2>2. clean' \in BOOLEAN
    BY <1>9 DEF Rerun
  <2> QED BY <1>0, <1>9, <2>1, <2>2 DEF Rerun
<1>10. CASE UNCHANGED vars
  BY <1>10 DEF vars
<1> QED BY <1>1, <1>2, <1>3, <1>4, <1>5, <1>6, <1>7, <1>8, <1>9, <1>10 DEF Next, Step

(* The variables keep their types. *)
THEOREM SignalTypes == Spec => []TypeOK
<1> QED BY InitTypes, StepTypes, PTL DEF Spec

-----------------------------------------------------------------------------
(* One turn *)

LEMMA TokenForm == OneTurn <=> AtMostOne
<1>1. \A u : u \in Tokens <=>
        \/ \E p \in Procs : Holds(p) /\ u = <<p, "self">>
        \/ \E p \in Procs, s \in {"USR1", "USR2"} : s \in pending[p] /\ u = <<p, s>>
  BY DEF Tokens
<1>2. ASSUME OneTurn PROVE AtMostOne
  <2>1. ASSUME NEW p \in Procs, NEW q \in Procs, Holds(p), Holds(q) PROVE p = q
    <3>1. <<p, "self">> \in Tokens /\ <<q, "self">> \in Tokens
      BY <1>1, <2>1
    <3> QED BY <1>2, <3>1 DEF OneTurn
  <2>2. ASSUME NEW p \in Procs, NEW q \in Procs, Holds(p),
               NEW s \in {"USR1", "USR2"}, s \in pending[q]
        PROVE FALSE
    <3>1. <<p, "self">> \in Tokens /\ <<q, s>> \in Tokens
      BY <1>1, <2>2
    <3> QED BY <1>2, <3>1 DEF OneTurn
  <2>3. ASSUME NEW p \in Procs, NEW q \in Procs, NEW s \in {"USR1", "USR2"},
               NEW t \in {"USR1", "USR2"}, s \in pending[p], t \in pending[q]
        PROVE p = q /\ s = t
    <3>1. <<p, s>> \in Tokens /\ <<q, t>> \in Tokens
      BY <1>1, <2>3
    <3> QED BY <1>2, <3>1 DEF OneTurn
  <2> QED BY <2>1, <2>2, <2>3 DEF AtMostOne
<1>3. ASSUME AtMostOne PROVE OneTurn
  <2>1. SUFFICES ASSUME NEW u \in Tokens, NEW v \in Tokens PROVE u = v
    BY DEF OneTurn
  <2> QED BY <1>1, <1>3, <2>1 DEF AtMostOne
<1> QED BY <1>2, <1>3

\* A signal reaches one process at most.
LEMMA OneHit ==
    ASSUME TypeOK, NEW f \in Procs, NEW pid, NEW sig \in {"USR1", "USR2"},
           Signal(f, pid, sig)
    PROVE  /\ \A p \in Procs : pending'[p] = pending[p] \/ pending'[p] = pending[p] \cup {sig}
           /\ \A p \in Procs : pending'[p] # pending[p] => Pid(p) = pid /\ Alive(p)
           /\ \A p, q \in Procs : pending'[p] # pending[p] /\ pending'[q] # pending[q] => p = q
<1>1. \A p, q \in Procs : Pid(p) = Pid(q) => p = q
  BY PidFacts
<1> QED BY <1>1 DEF Signal

\* What the steps of p that hold the turn, or take no part in it, do to the turn.
LEMMA OneTurnStep == ASSUME TypeOK, AtMostOne, [Next]_vars PROVE AtMostOne'
<1> USE DEF AtMostOne, Holds, TypeOK
<1>1. ASSUME NEW p \in Procs, Start(p) PROVE AtMostOne'
  BY <1>1 DEF Start, Goto
<1>2. ASSUME NEW p \in Procs, Learn(p) PROVE AtMostOne'
  BY <1>2 DEF Learn, Goto
<1>3. ASSUME NEW p \in Procs, Tell(p) PROVE AtMostOne'
  BY <1>3 DEF Tell, Goto
<1>4. ASSUME NEW p \in Procs, NEW sig \in {"USR1", "USR2"}, NEW pid, Signal(p, pid, sig),
             Holds(p), \A q \in Procs \ {p} : pc'[q] = pc[q], ~(Holds(p)')
      PROVE AtMostOne'
  <2>1. \A q \in Procs : pending[q] = {}
    BY <1>4
  <2>2. \A q \in Procs : ~(Holds(q)')
    BY <1>4
  <2>3. \A q \in Procs, s \in {"USR1", "USR2"} : s \in pending'[q] => s = sig /\ pending'[q] # pending[q]
    BY <1>4, <2>1, OneHit
  <2>4. \A q, r \in Procs : pending'[q] # pending[q] /\ pending'[r] # pending[r] => q = r
    BY <1>4, OneHit
  <2> QED BY <2>2, <2>3, <2>4
<1>5. ASSUME NEW p \in Procs, KillRight(p) PROVE AtMostOne'
  <2>1. Holds(p) /\ ~(Holds(p)') /\ \A q \in Procs \ {p} : pc'[q] = pc[q]
    BY <1>5 DEF KillRight, Looped
  <2> QED BY <1>4, <1>5, <2>1 DEF KillRight
<1>6. ASSUME NEW p \in Procs, Install(p) PROVE AtMostOne'
  BY <1>6 DEF Install, Goto
<1>7. ASSUME NEW p \in Procs, KillLeft(p) PROVE AtMostOne'
  <2>1. Holds(p) /\ ~(Holds(p)') /\ \A q \in Procs \ {p} : pc'[q] = pc[q]
    BY <1>7 DEF KillLeft, Looped
  <2> QED BY <1>4, <1>7, <2>1 DEF KillLeft
<1>8. ASSUME NEW p \in Procs, NEW sig \in {"USR1", "USR2"}, Deliver(p, sig) PROVE AtMostOne'
  <2>1. \A q \in Procs : ~Holds(q) /\ \A s \in pending[q] : q = p /\ s = sig
    <3>1. sig \in pending[p]
      BY <1>8 DEF Deliver
    <3>2. \A q \in Procs : ~Holds(q)
      BY <3>1
    <3>3. ASSUME NEW q \in Procs, NEW s \in pending[q] PROVE q = p /\ s = sig
      <4>1. s \in {"USR1", "USR2"}
        OBVIOUS
      <4> QED BY <3>1, <4>1
    <3> QED BY <3>2, <3>3
  <2>2. \A q \in Procs : pending'[q] = {}
    BY <1>8, <2>1 DEF Deliver
  <2>3. \A q \in Procs \ {p} : pc'[q] = pc[q]
    BY <1>8 DEF Deliver, Wake
  <2>4. \A q \in Procs \ {p} : ~(Holds(q)')
    BY <2>1, <2>3
  <2> QED BY <2>2, <2>4
<1>9. ASSUME NEW p \in Procs, NEW sig \in {"USR1", "USR2"}, Terminate(p, sig) PROVE AtMostOne'
  BY <1>9 DEF Terminate
<1>10. ASSUME Rerun PROVE AtMostOne'
  BY <1>10 DEF Rerun
<1>11. CASE UNCHANGED vars
  BY <1>11 DEF vars
<1> QED BY <1>1, <1>2, <1>3, <1>5, <1>6, <1>7, <1>8, <1>9, <1>10, <1>11 DEF Next, Step

(* Signals carry one turn, in every run of the programs: no two processes of *)
(* Assignment_4/q1 ever act, or are told to, at a time.                      *)
THEOREM SignalOneTurn == Spec => []OneTurn
<1>1. Init => AtMostOne
  BY DEF Init, AtMostOne, Holds
<1>2. Spec => []AtMostOne
  BY <1>1, OneTurnStep, SignalTypes, PTL DEF Spec
<1> QED BY <1>2, TokenForm, PTL

-----------------------------------------------------------------------------
(* The steps that move the turn *)

LEMMA KillRightMoves ==
    ASSUME TypeOK, AtMostOne, RightOK, NEW p \in Procs, KillRight(p)
    PROVE  /\ pc[p] = "kill" /\ \A q \in Procs : pending[q] = {}
           /\ \A q \in Procs \ {p} : ~Holds(q)
           /\ \A q \in Procs \ {p} : pc'[q] = pc[q] /\ round'[q] = round[q]
           /\ p = 1 => pc'[p] = "pause" /\ round'[p] = round[p]
           /\ p # 1 /\ round[p] + 1 = Rounds => pc'[p] = "install" /\ round'[p] = 0
           /\ p # 1 /\ round[p] + 1 # Rounds => pc'[p] = "pause" /\ round'[p] = round[p] + 1
           /\ \A q \in Procs : pending'[q] = {} \/ (/\ pending'[q] = {"USR1"} /\ q = Right(p)
                                                    /\ Alive(q) /\ right[p] = Pid(q))
           /\ \A q \in Procs : IF pending'[q] = {} THEN sender'[q] = sender[q]
                                                   ELSE sender'[q] = Pid(p)
<1>1. pc[p] = "kill" /\ Holds(p)
  BY DEF KillRight, Holds
<1>2. \A q \in Procs : pending[q] = {}
  BY <1>1 DEF AtMostOne, TypeOK
<1>3. \A q \in Procs \ {p} : ~Holds(q)
  BY <1>1 DEF AtMostOne
<1>4. /\ \A q \in Procs \ {p} : pc'[q] = pc[q] /\ round'[q] = round[q]
      /\ p = 1 => pc'[p] = "pause" /\ round'[p] = round[p]
      /\ p # 1 /\ round[p] + 1 = Rounds => pc'[p] = "install" /\ round'[p] = 0
      /\ p # 1 /\ round[p] + 1 # Rounds => pc'[p] = "pause" /\ round'[p] = round[p] + 1
  BY DEF KillRight, Looped, TypeOK
<1>5. \A q \in Procs : IF Pid(q) = right[p] /\ Alive(q)
                       THEN pending'[q] = {"USR1"} /\ sender'[q] = Pid(p) /\ q = Right(p)
                       ELSE pending'[q] = {} /\ sender'[q] = sender[q]
  BY <1>2 DEF KillRight, Signal, RightOK
<1> QED BY <1>1, <1>2, <1>3, <1>4, <1>5

LEMMA KillLeftMoves ==
    ASSUME TypeOK, AtMostOne, NEW p \in Procs, KillLeft(p)
    PROVE  /\ pc[p] = "rkill" /\ \A q \in Procs : pending[q] = {}
           /\ \A q \in Procs \ {p} : ~Holds(q)
           /\ \A q \in Procs \ {p} : pc'[q] = pc[q] /\ round'[q] = round[q]
           /\ pc'[p] \in {"rpause", "done"}
           /\ p = 1 => pc'[p] = "rpause" /\ round'[p] = round[p]
           /\ \A q \in Procs : pending'[q] = {} \/ pending'[q] = {"USR2"}
           /\ sender' = sender
<1>1. pc[p] = "rkill" /\ Holds(p)
  BY DEF KillLeft, Holds
<1>2. \A q \in Procs : pending[q] = {}
  BY <1>1 DEF AtMostOne, TypeOK
<1>3. \A q \in Procs \ {p} : ~Holds(q)
  BY <1>1 DEF AtMostOne
<1>4. /\ \A q \in Procs \ {p} : pc'[q] = pc[q] /\ round'[q] = round[q]
      /\ pc'[p] \in {"rpause", "done"}
      /\ p = 1 => pc'[p] = "rpause" /\ round'[p] = round[p]
  BY DEF KillLeft, Looped, TypeOK
<1>5. /\ \A q \in Procs : pending'[q] = {} \/ pending'[q] = {"USR2"}
      /\ \A q \in Procs : sender'[q] = sender[q]
  BY <1>2 DEF KillLeft, Signal
<1>6. sender' = sender
  <2>1. sender \in [Procs -> Pids] /\ sender' = [q \in Procs |-> sender'[q]]
    BY DEF TypeOK, KillLeft, Signal
  <2> QED BY <1>5, <2>1
<1> QED BY <1>1, <1>2, <1>3, <1>4, <1>5, <1>6

\* A delivery wakes p, or the turn is lost.
Wakes(p) ==
    /\ pc[p] \in Paused
    /\ pc[p] = "await" => pc'[p] = "learn"
    /\ pc[p] = "pause" => pc'[p] = IF p = 1 /\ round[p] + 1 = Rounds THEN "install" ELSE "kill"
    /\ pc[p] = "rpause" => pc'[p] = IF p = 1 /\ round[p] + 1 = Rounds THEN "done" ELSE "rkill"
    /\ p # 1 => round'[p] = round[p]
    /\ p = 1 => round'[p] = IF round[p] + 1 = Rounds THEN 0 ELSE round[p] + 1

LEMMA DeliverMoves ==
    ASSUME TypeOK, AtMostOne, NEW p \in Procs, NEW sig \in {"USR1", "USR2"}, Deliver(p, sig)
    PROVE  /\ \A q \in Procs : ~Holds(q)
           /\ pending[p] = {sig} /\ \A q \in Procs \ {p} : pending[q] = {}
           /\ \A q \in Procs : pending'[q] = {}
           /\ \A q \in Procs \ {p} : pc'[q] = pc[q] /\ round'[q] = round[q]
           /\ (pc'[p] = pc[p] /\ round'[p] = round[p]) \/ Wakes(p)
<1>1. sig \in pending[p]
  BY DEF Deliver
<1>2. \A q \in Procs : ~Holds(q)
  BY <1>1 DEF AtMostOne
<1>3. \A q \in Procs, s \in {"USR1", "USR2"} : s \in pending[q] => q = p /\ s = sig
  BY <1>1 DEF AtMostOne
<1>4. \A q \in Procs : pending[q] \subseteq {"USR1", "USR2"}
  BY DEF TypeOK
<1>5. pending[p] = {sig} /\ \A q \in Procs \ {p} : pending[q] = {}
  BY <1>1, <1>3, <1>4
<1>6. \A q \in Procs : pending'[q] = {}
  BY <1>5 DEF Deliver, TypeOK
<1>7. /\ \A q \in Procs \ {p} : pc'[q] = pc[q] /\ round'[q] = round[q]
      /\ (pc'[p] = pc[p] /\ round'[p] = round[p]) \/ Wakes(p)
  <2>1. CASE UNCHANGED <<pc, round>>
    BY <2>1
  <2>2. CASE pc[p] \in Paused /\ Wake(p)
    <3>1. \A q \in Procs \ {p} : pc'[q] = pc[q] /\ round'[q] = round[q]
      BY <2>2 DEF Wake, TypeOK
    <3>2. /\ p # 1 => round'[p] = round[p]
          /\ p = 1 => round'[p] = IF round[p] + 1 = Rounds THEN 0 ELSE round[p] + 1
      BY <2>2 DEF Wake, TypeOK
    <3>3. CASE pc[p] = "await"
      BY <2>2, <3>1, <3>2, <3>3 DEF Wake, Wakes, TypeOK
    <3>4. CASE pc[p] = "pause"
      BY <2>2, <3>1, <3>2, <3>4 DEF Wake, Wakes, TypeOK
    <3>5. CASE pc[p] = "rpause"
      BY <2>2, <3>1, <3>2, <3>5 DEF Wake, Wakes, TypeOK
    <3> QED BY <2>2, <3>3, <3>4, <3>5 DEF Paused
  <2> QED BY <2>1, <2>2 DEF Deliver
<1> QED BY <1>2, <1>5, <1>6, <1>7

\* A SIGUSR2 that is pending finds a process that has sent its turns to the right.
LEMMA TerminateMoves ==
    ASSUME TypeOK, AtMostOne, PhasesApart, NEW p \in Procs, NEW sig \in {"USR1", "USR2"},
           Terminate(p, sig)
    PROVE  /\ pc[p] \in Back /\ pc'[p] = "dead" /\ \A q \in Procs : ~Holds(q)
           /\ \A q \in Procs \ {p} : pc'[q] = pc[q] /\ pending[q] = {}
           /\ \A q \in Procs : pending'[q] = {} /\ "USR1" \notin pending[q]
           /\ sig = "USR2" /\ "USR2" \in pending[p]
<1>1. sig = "USR2" /\ "USR2" \in pending[p]
  BY DEF Terminate, Handled
<1>2. \A q \in Procs : ~Holds(q)
  BY <1>1 DEF AtMostOne
<1>3. \A q \in Procs, s \in {"USR1", "USR2"} : s \in pending[q] => q = p /\ s = "USR2"
  BY <1>1 DEF AtMostOne
<1>4. \A q \in Procs : pending[q] \subseteq {"USR1", "USR2"}
  BY DEF TypeOK
<1>5. \A q \in Procs \ {p} : pending[q] = {}
  BY <1>3, <1>4
<1>6. pc[p] \in Back
  BY <1>1 DEF PhasesApart, Back
<1>7. \A q \in Procs : pending'[q] = {}
  BY <1>5 DEF Terminate, TypeOK
<1> QED BY <1>1, <1>2, <1>3, <1>5, <1>6, <1>7 DEF Terminate, TypeOK

-----------------------------------------------------------------------------
(* Laps and phases *)

LEMMA RoundTypes ==
    ASSUME TypeOK
    PROVE  /\ \A q \in Procs : round[q] \in 0..(Rounds - 1) /\ q \in Nat
           /\ Rounds \in Nat \ {0} /\ 1 \in Procs /\ 2 \in Procs /\ N \in Nat
<1>1. \A q \in Procs : round[q] \in 0..(Rounds - 1)
  BY DEF TypeOK
<1>2. \A q \in Procs : q \in Nat
  BY DEF Procs
<1> QED BY <1>1, <1>2, RingFacts, SignalRingAssumption

LEMMA LapStep == ASSUME TypeOK, AtMostOne, PhasesApart, Lap, Begun, RightOK, [Next]_vars PROVE Lap'
<1> USE DEF Lap, Sent, Back, Others
<1>0. /\ \A q \in Procs : round[q] \in 0..(Rounds - 1) /\ q \in Nat
      /\ Rounds \in Nat \ {0} /\ 1 \in Procs /\ 2 \in Procs /\ N \in Nat
  BY RoundTypes
<1>1. ASSUME NEW p \in Procs, Start(p) PROVE Lap'
  <2>1. \A q \in Procs : Sent(q)' = Sent(q)
    BY <1>1 DEF Start, Goto, TypeOK
  <2>2. \A q \in Procs \ {p} : pc'[q] = pc[q]
    BY <1>1 DEF Start, Goto, TypeOK
  <2>3. pc[p] = "start" /\ pc'[p] = IF p = 1 THEN "learn" ELSE "await"
    BY <1>1 DEF Start, Goto, TypeOK
  <2>4. pending' = pending /\ round' = round
    BY <1>1 DEF Start
  <2> HIDE DEF Sent, Back
  <2> QED BY <1>0, <2>1, <2>2, <2>3, <2>4
<1>2. ASSUME NEW p \in Procs, Learn(p) PROVE Lap'
  <2>1. \A q \in Procs : Sent(q)' = Sent(q)
    BY <1>2 DEF Learn, Goto, TypeOK
  <2>2. \A q \in Procs \ {p} : pc'[q] = pc[q]
    BY <1>2 DEF Learn, Goto, TypeOK
  <2>3. pc[p] = "learn" /\ pc'[p] = IF p = 2 THEN "tell" ELSE "kill"
    BY <1>2 DEF Learn, Goto, TypeOK
  <2>4. pending' = pending /\ round' = round
    BY <1>2 DEF Learn
  <2> HIDE DEF Sent, Back
  <2> QED BY <1>0, <2>1, <2>2, <2>3, <2>4
<1>3. ASSUME NEW p \in Procs, Tell(p) PROVE Lap'
  <2>1. \A q \in Procs : Sent(q)' = Sent(q)
    BY <1>3 DEF Tell, Goto, TypeOK
  <2>2. \A q \in Procs \ {p} : pc'[q] = pc[q]
    BY <1>3 DEF Tell, Goto, TypeOK
  <2>3. pc[p] = "tell" /\ pc'[p] = "kill"
    BY <1>3 DEF Tell, Goto, TypeOK
  <2>4. pending' = pending /\ round' = round
    BY <1>3 DEF Tell
  <2> HIDE DEF Sent, Back
  <2> QED BY <1>0, <2>1, <2>2, <2>3, <2>4
<1>4. ASSUME NEW p \in Procs, KillRight(p) PROVE Lap'
  <2>1. \A q \in Procs \ {p} : Sent(q)' = Sent(q) /\ pc'[q] = pc[q]
    BY <1>4, KillRightMoves
  <2>2. /\ \A q \in Procs : "USR1" \in pending'[q] => q = Right(p)
        /\ \A q \in Procs \ {p} : ~Holds(q)
    BY <1>4, KillRightMoves
  <2>3. \A q \in Procs \ {1} : pc'[q] \notin {"learn", "tell", "kill"}
    BY <1>4, KillRightMoves DEF Holds
  <2>4. CASE p = 1
    <3>1. pc[1] = "kill" /\ pc'[1] = "pause" /\ round'[1] = round[1]
      BY <1>4, <2>4, KillRightMoves
    <3>2. Right(1) = 2
      BY SignalRingAssumption DEF Right
    <3>3. \A q \in Others : Sent(q)' = round[1] /\ q # 1 /\ ~(q < 2)
      BY <1>0, <2>1, <2>4, <3>1 DEF Procs
    <3>4. \A q \in Others : q # 2 => pc'[q] # "tell"
      BY <2>3
    <3> HIDE DEF Sent, Back
    <3> QED BY <1>0, <2>2, <2>3, <2>4, <3>1, <3>2, <3>3, <3>4
  <2>5. CASE p # 1
    <3>1. /\ pc[p] = "kill" /\ pc[1] = "pause" /\ pc'[1] = "pause" /\ round'[1] = round[1]
          /\ \A q \in Others : Sent(q) = IF q < p THEN round[1] + 1 ELSE round[1]
      BY <1>0, <1>4, <2>5, KillRightMoves
    <3>2. Sent(p)' = Sent(p) + 1
      BY <1>0, <1>4, <2>5, KillRightMoves
    <3>3. IF p = N THEN Right(p) = 1 ELSE Right(p) = p + 1
      BY DEF Right
    <3>4. \A q \in Others : Sent(q)' = IF q <= p THEN round[1] + 1 ELSE round[1]
      <4> HIDE DEF Sent, Back
      <4> QED BY <1>0, <2>1, <2>5, <3>1, <3>2
    <3>5. \A q \in Others : q <= N
      BY <1>0 DEF Procs
    <3>6. ASSUME NEW h \in Procs, "USR1" \in pending'[h], NEW q \in Others
          PROVE  Sent(q)' = IF h = 1 \/ q < h THEN round[1] + 1 ELSE round[1]
      <4>1. (h = 1 /\ p = N) \/ h = p + 1
        BY <2>2, <3>3, <3>6
      <4>2. q \in Nat /\ p \in Nat \ {0} /\ q <= N
        BY <1>0, <3>5 DEF Procs
      <4> HIDE DEF Sent, Back
      <4> QED BY <3>4, <4>1, <4>2
    <3> HIDE DEF Sent, Back
    <3> QED BY <2>3, <3>1, <3>6
  <2> QED BY <2>4, <2>5
<1>5. ASSUME NEW p \in Procs, Install(p) PROVE Lap'
  BY <1>0, <1>5 DEF Install, Goto, TypeOK
<1>6. ASSUME NEW p \in Procs, KillLeft(p) PROVE Lap'
  BY <1>0, <1>6, KillLeftMoves DEF Holds, PhasesApart
<1>7. ASSUME NEW p \in Procs, NEW sig \in {"USR1", "USR2"}, Deliver(p, sig) PROVE Lap'
  <2>1. CASE sig = "USR1"
    <3>1. CASE pc'[p] = pc[p] /\ round'[p] = round[p]
      BY <1>0, <1>7, <2>1, <3>1, DeliverMoves DEF Holds
    <3>2. CASE Wakes(p) /\ p = 1
      BY <1>0, <1>7, <2>1, <3>2, DeliverMoves DEF Holds, Wakes
    <3>3. CASE Wakes(p) /\ p # 1
      BY <1>0, <1>7, <2>1, <3>3, DeliverMoves DEF Holds, Wakes, Paused
    <3> QED BY <1>7, <3>1, <3>2, <3>3, DeliverMoves
  <2>2. CASE sig = "USR2"
    <3>1. /\ \A q \in Procs : pc[q] \in {"install", "rpause", "rkill", "done", "dead"}
          /\ pc[1] # "install"
      BY <1>0, <1>7, <2>2, DeliverMoves DEF PhasesApart, Holds
    <3>2. \A q \in Procs : pc'[q] \in {"install", "rpause", "rkill", "done", "dead"}
      BY <1>7, <3>1, DeliverMoves DEF Wakes, Paused
    <3>3. pc'[1] # "install"
      BY <1>0, <1>7, <3>1, DeliverMoves DEF Wakes, Paused
    <3>4. \A q \in Procs : pending'[q] = {}
      BY <1>7, DeliverMoves
    <3>5. 1 \in Procs
      BY <1>0
    <3>6. pc'[1] \notin {"start", "learn", "kill", "install", "await", "tell"}
      BY <3>2, <3>3, <3>5
    <3> HIDE DEF Sent, Back
    <3> QED BY <3>2, <3>4, <3>6
  <2> QED BY <2>1, <2>2
<1>8. ASSUME NEW p \in Procs, NEW sig \in {"USR1", "USR2"}, Terminate(p, sig) PROVE Lap'
  <2>1. round' = round
    BY <1>8 DEF Terminate
  <2> QED BY <1>0, <1>8, <2>1, TerminateMoves DEF Holds, PhasesApart
<1>9. ASSUME Rerun PROVE Lap'
  BY <1>0, <1>9 DEF Rerun
<1>10. CASE UNCHANGED vars
  BY <1>10 DEF vars
<1> QED BY <1>1, <1>2, <1>3, <1>4, <1>5, <1>6, <1>7, <1>8, <1>9, <1>10 DEF Next, Step

LEMMA PhasesApartStep ==
    ASSUME TypeOK, AtMostOne, PhasesApart, Lap, RightOK, [Next]_vars PROVE PhasesApart'
<1> USE DEF PhasesApart
<1>0. /\ \A q \in Procs : round[q] \in 0..(Rounds - 1) /\ q \in Nat
      /\ Rounds \in Nat \ {0} /\ 1 \in Procs /\ 2 \in Procs /\ N \in Nat
  BY RoundTypes
<1>1. ASSUME NEW p \in Procs, Start(p) PROVE PhasesApart'
  BY <1>0, <1>1 DEF Start, Goto, TypeOK
<1>2. ASSUME NEW p \in Procs, Learn(p) PROVE PhasesApart'
  BY <1>0, <1>2 DEF Learn, Goto, TypeOK
<1>3. ASSUME NEW p \in Procs, Tell(p) PROVE PhasesApart'
  BY <1>0, <1>3 DEF Tell, Goto, TypeOK
<1>4. ASSUME NEW p \in Procs, KillRight(p) PROVE PhasesApart'
  BY <1>0, <1>4, KillRightMoves
<1>5. ASSUME NEW p \in Procs, Install(p) PROVE PhasesApart'
  <2>1. CASE p = 1
    <3>1. Holds(p)
      BY <1>5, <2>1 DEF Install, Goto, Holds
    <3>2. \A q \in Procs : pending[q] = {}
      BY <3>1 DEF AtMostOne, TypeOK
    <3>3. \A q \in Procs : pc[q] \in {"install", "rpause", "rkill", "done", "dead"}
      BY <1>0, <1>5, <2>1 DEF Install, Goto, Lap, Sent, Back, Others
    <3> QED BY <1>5, <2>1, <3>2, <3>3 DEF Install, Goto, TypeOK
  <2>2. CASE p # 1
    BY <1>0, <1>5, <2>2 DEF Install, Goto, TypeOK
  <2> QED BY <2>1, <2>2
<1>6. ASSUME NEW p \in Procs, KillLeft(p) PROVE PhasesApart'
  BY <1>0, <1>6, KillLeftMoves DEF Holds
<1>7. ASSUME NEW p \in Procs, NEW sig \in {"USR1", "USR2"}, Deliver(p, sig) PROVE PhasesApart'
  <2>1. CASE sig = "USR1"
    <3>1. \A q \in Procs : pc[q] \notin {"rkill", "done"}
      BY <1>7, <2>1, DeliverMoves
    <3>2. ASSUME Wakes(p) PROVE pc'[p] \notin {"rkill", "done"}
      BY <1>0, <1>7, <2>1, <3>2, DeliverMoves DEF Wakes, Paused, Lap, Sent, Back, Others
    <3> QED BY <1>7, <3>1, <3>2, DeliverMoves
  <2>2. CASE sig = "USR2"
    <3>1. \A q \in Procs : pc[q] \in {"install", "rpause", "rkill", "done", "dead"}
      BY <1>0, <1>7, <2>2, DeliverMoves
    <3>2. \A q \in Procs : pc'[q] \in {"install", "rpause", "rkill", "done", "dead"}
      BY <1>7, <3>1, DeliverMoves DEF Wakes, Paused
    <3> QED BY <1>7, <3>2, DeliverMoves
  <2> QED BY <2>1, <2>2
<1>8. ASSUME NEW p \in Procs, NEW sig \in {"USR1", "USR2"}, Terminate(p, sig) PROVE PhasesApart'
  BY <1>8, TerminateMoves DEF Back
<1>9. ASSUME Rerun PROVE PhasesApart'
  BY <1>9 DEF Rerun
<1>10. CASE UNCHANGED vars
  BY <1>10 DEF vars
<1> QED BY <1>1, <1>2, <1>3, <1>4, <1>5, <1>6, <1>7, <1>8, <1>9, <1>10 DEF Next, Step

-----------------------------------------------------------------------------
(* What a process knows of its neighbours *)

RightType(p) == IF p = N THEN 2 ELSE p + 1

\* msgrcv() takes the oldest message of its type.
LEMMA LearnTakes ==
    ASSUME TypeOK, NEW p \in Procs, Learn(p)
    PROVE  LET k == RightType(p)
           IN  /\ k \in Types /\ queue[k] # <<>> /\ 1 \in DOMAIN queue[k]
               /\ right'[p] = queue[k][1] /\ \A q \in Procs \ {p} : right'[q] = right[q]
               /\ queue'[k] = Tail(queue[k]) /\ \A l \in Types \ {k} : queue'[l] = queue[l]
               /\ \A i \in DOMAIN queue'[k] : /\ i \in Nat \ {0} /\ i + 1 \in DOMAIN queue[k]
                                              /\ queue'[k][i] = queue[k][i + 1]
<1> DEFINE k == RightType(p)
<1>1. k \in Types
  BY SignalRingAssumption DEF RightType, Procs, Types
<1>2. queue[k] \in Seq(Pids)
  BY <1>1 DEF TypeOK
<1>3. /\ queue[k] # <<>>
      /\ right' = [right EXCEPT ![p] = Head(queue[k])]
      /\ queue' = [queue EXCEPT ![k] = Tail(@)]
  BY DEF Learn, RightType
<1> HIDE DEF k
<1>4. 1 \in DOMAIN queue[k] /\ Head(queue[k]) = queue[k][1]
  BY <1>2, <1>3, EmptySeq, LenProperties
<1>5. \A i \in DOMAIN Tail(queue[k]) : /\ i \in Nat \ {0} /\ i + 1 \in DOMAIN queue[k]
                                      /\ Tail(queue[k])[i] = queue[k][i + 1]
  <2>1. /\ Tail(queue[k]) \in Seq(Pids) /\ Len(Tail(queue[k])) = Len(queue[k]) - 1
        /\ \A i \in 1..Len(Tail(queue[k])) : Tail(queue[k])[i] = queue[k][i + 1]
    BY <1>2, <1>3, HeadTailProperties
  <2>2. /\ DOMAIN queue[k] = 1..Len(queue[k]) /\ Len(queue[k]) \in Nat
        /\ DOMAIN Tail(queue[k]) = 1..Len(Tail(queue[k]))
    BY <1>2, <2>1, LenProperties
  <2> QED BY <2>1, <2>2
<1>6. /\ right'[p] = queue[k][1] /\ \A q \in Procs \ {p} : right'[q] = right[q]
      /\ queue'[k] = Tail(queue[k]) /\ \A l \in Types \ {k} : queue'[l] = queue[l]
  BY <1>1, <1>3, <1>4 DEF TypeOK
<1> QED BY <1>1, <1>3, <1>4, <1>5, <1>6 DEF k

\* msgsnd() puts a message behind those that are there.
LEMMA SendPuts ==
    ASSUME TypeOK, NEW k \in Types, NEW pid \in Pids, Send(k, pid)
    PROVE  /\ queue'[k] = Append(queue[k], pid) /\ \A l \in Types \ {k} : queue'[l] = queue[l]
           /\ \A i \in DOMAIN queue'[k] :
                \/ i \in DOMAIN queue[k] /\ queue'[k][i] = queue[k][i]
                \/ i = Len(queue[k]) + 1 /\ queue'[k][i] = pid
<1>1. queue[k] \in Seq(Pids)
  BY DEF TypeOK
<1>2. queue'[k] = Append(queue[k], pid) /\ \A l \in Types \ {k} : queue'[l] = queue[l]
  BY DEF Send, TypeOK
<1>3. \A i \in DOMAIN Append(queue[k], pid) :
        \/ i \in DOMAIN queue[k] /\ Append(queue[k], pid)[i] = queue[k][i]
        \/ i = Len(queue[k]) + 1 /\ Append(queue[k], pid)[i] = pid
  BY <1>1
<1> QED BY <1>2, <1>3

LEMMA StartMoves ==
    ASSUME TypeOK, NEW p \in Procs, Start(p)
    PROVE  /\ pc[p] = "start" /\ pc' = [pc EXCEPT ![p] = IF p = 1 THEN "learn" ELSE "await"]
           /\ p = 1 => queue' = queue
           /\ p # 1 => p \in Types /\ Send(p, Pid(p)) /\ Pid(p) \in Pids
           /\ UNCHANGED <<run, right, clean, pending, left, sender, round>>
<1>1. p # 1 => p \in Types
  BY DEF Procs, Types
<1> QED BY <1>1, PidFacts DEF Start, Goto

LEMMA TellMoves ==
    ASSUME TypeOK, Lap, LeftOK, NEW p \in Procs, Tell(p)
    PROVE  /\ p = 2 /\ pc[2] = "tell" /\ pc' = [pc EXCEPT ![2] = "kill"]
           /\ 2 \in Types /\ left[2] \in Pids /\ left[2] = Pid(1) /\ Send(2, left[2])
           /\ UNCHANGED <<run, right, clean, pending, left, sender, round>>
<1>1. p = 2
  BY DEF Tell, Goto, Lap, Others
<1>2. 2 \in Types /\ Left(2) = 1 /\ 2 \in Procs
  BY SignalRingAssumption DEF Types, Procs, Left
<1>3. left[2] \in Pids
  BY <1>2 DEF TypeOK
<1>4. left[2] = Pid(1)
  BY <1>1, <1>2 DEF LeftOK, Tell, Goto
<1> QED BY <1>1, <1>2, <1>3, <1>4 DEF Tell, Goto

\* Once it has begun, a step of p leaves the queue alone and goes back to no state before.
Quiet ==
    /\ UNCHANGED <<run, queue, right, clean>>
    /\ \A q \in Procs :
         /\ pc'[q] = "start" <=> pc[q] = "start"
         /\ pc'[q] \in {"start", "await", "learn"} <=> pc[q] \in {"start", "await", "learn"}
         /\ pc'[q] \in {"start", "await", "learn", "tell"}
              <=> pc[q] \in {"start", "await", "learn", "tell"}

LEMMA QuietSteps ==
    ASSUME TypeOK, AtMostOne, PhasesApart, RightOK, NEW p \in Procs,
           \/ KillRight(p) \/ Install(p) \/ KillLeft(p)
           \/ \E sig \in {"USR1", "USR2"} : Deliver(p, sig) \/ Terminate(p, sig)
    PROVE  Quiet
<1>1. CASE KillRight(p)
  <2>1. UNCHANGED <<run, queue, right, clean>>
    BY <1>1 DEF KillRight
  <2>2. pc[p] = "kill" /\ pc'[p] \in {"pause", "install"}
    BY <1>1, KillRightMoves
  <2>3. \A q \in Procs \ {p} : pc'[q] = pc[q]
    BY <1>1, KillRightMoves
  <2> QED BY <2>1, <2>2, <2>3 DEF Quiet
<1>2. CASE Install(p)
  BY <1>2 DEF Install, Goto, Quiet, TypeOK
<1>3. CASE KillLeft(p)
  <2>1. UNCHANGED <<run, queue, right, clean>>
    BY <1>3 DEF KillLeft
  <2>2. pc[p] = "rkill" /\ pc'[p] \in {"rpause", "done"}
    BY <1>3, KillLeftMoves
  <2>3. \A q \in Procs \ {p} : pc'[q] = pc[q]
    BY <1>3, KillLeftMoves
  <2> QED BY <2>1, <2>2, <2>3 DEF Quiet
<1>4. ASSUME NEW sig \in {"USR1", "USR2"}, Deliver(p, sig) PROVE Quiet
  <2>1. UNCHANGED <<run, queue, right, clean>>
    BY <1>4 DEF Deliver
  <2>2. \A q \in Procs \ {p} : pc'[q] = pc[q]
    BY <1>4, DeliverMoves
  <2>3. CASE pc'[p] = pc[p]
    BY <2>1, <2>2, <2>3 DEF Quiet
  <2>4. CASE Wakes(p)
    <3>1. \/ pc[p] = "await" /\ pc'[p] = "learn"
          \/ pc[p] \in {"pause", "rpause"} /\ pc'[p] \in {"install", "kill", "done", "rkill"}
      BY <2>4 DEF Wakes, Paused
    <3> QED BY <2>1, <2>2, <3>1 DEF Quiet
  <2> QED BY <1>4, <2>3, <2>4, DeliverMoves
<1>5. ASSUME NEW sig \in {"USR1", "USR2"}, Terminate(p, sig) PROVE Quiet
  <2>1. UNCHANGED <<run, queue, right, clean>>
    BY <1>5 DEF Terminate
  <2>2. pc[p] \in Back /\ pc'[p] = "dead" /\ \A q \in Procs \ {p} : pc'[q] = pc[q]
    BY <1>5, TerminateMoves
  <2> QED BY <2>1, <2>2 DEF Quiet, Back
<1> QED BY <1>1, <1>2, <1>3, <1>4, <1>5

LEMMA BegunStep ==
    ASSUME TypeOK, AtMostOne, PhasesApart, Lap, Begun, RightOK, [Next]_vars PROVE Begun'
<1> USE DEF Begun, Others
<1>0. 1 \in Procs /\ 2 \in Procs /\ Right(1) = 2 /\ Pid(2) # NoPid
  BY RingFacts, PidFacts, SignalRingAssumption DEF Right
<1>1. run' = run => Pid(2)' = Pid(2)
  BY PidStable, <1>0
<1>2. ASSUME NEW p \in Procs, Start(p) PROVE Begun'
  <2>1. /\ pc[p] = "start" /\ pc'[p] = IF p = 1 THEN "learn" ELSE "await"
        /\ \A q \in Procs \ {p} : pc'[q] = pc[q]
    BY <1>2 DEF Start, Goto, TypeOK
  <2>2. right' = right /\ pending' = pending /\ run' = run
    BY <1>2 DEF Start
  <2> QED BY <1>0, <1>1, <2>1, <2>2
<1>3. ASSUME NEW p \in Procs, Learn(p) PROVE Begun'
  <2>1. /\ pc[p] = "learn" /\ pc' = [pc EXCEPT ![p] = IF p = 2 THEN "tell" ELSE "kill"]
        /\ pending' = pending /\ run' = run
    BY <1>3 DEF Learn, Goto
  <2>2. \A q \in Procs \ {p} : right'[q] = right[q]
    BY <1>3, LearnTakes
  <2>3. CASE p = 1
    BY <1>0, <1>1, <2>1, <2>3 DEF TypeOK
  <2>4. CASE p # 1
    BY <1>0, <1>1, <2>1, <2>2, <2>4 DEF TypeOK
  <2> QED BY <2>3, <2>4
<1>4. ASSUME NEW p \in Procs, Tell(p) PROVE Begun'
  BY <1>0, <1>1, <1>4 DEF Tell, Goto, TypeOK
<1>5. ASSUME NEW p \in Procs, KillRight(p) PROVE Begun'
  <2>1. right' = right /\ run' = run
    BY <1>5 DEF KillRight
  <2>2. \A q \in Procs : pending'[q] # {} => q = Right(p) /\ right[p] = Pid(q)
    BY <1>5, KillRightMoves
  <2>3. pc[p] = "kill" /\ pc'[p] \in {"pause", "install"} /\ \A q \in Procs \ {p} : pc'[q] = pc[q]
    BY <1>5, KillRightMoves
  <2> QED BY <1>0, <1>1, <2>1, <2>2, <2>3
<1>6. ASSUME NEW p \in Procs, Install(p) PROVE Begun'
  BY <1>0, <1>1, <1>6 DEF Install, Goto, TypeOK
<1>7. ASSUME NEW p \in Procs, KillLeft(p) PROVE Begun'
  <2>1. right' = right /\ run' = run
    BY <1>7 DEF KillLeft
  <2>2. pc[2] \notin {"start", "await"} /\ pc[1] \notin {"start", "learn"}
    BY <1>0, <1>7, KillLeftMoves DEF PhasesApart
  <2>3. pc[p] = "rkill" /\ pc'[p] \in {"rpause", "done"} /\ \A q \in Procs \ {p} : pc'[q] = pc[q]
    BY <1>7, KillLeftMoves
  <2> QED BY <1>0, <1>1, <2>1, <2>2, <2>3
<1>8. ASSUME NEW p \in Procs, NEW sig \in {"USR1", "USR2"}, Deliver(p, sig) PROVE Begun'
  <2>1. right' = right /\ run' = run
    BY <1>8 DEF Deliver
  <2>2. /\ \A q \in Procs \ {p} : pc'[q] = pc[q]
        /\ \A q \in Procs : pending'[q] = {}
        /\ pending[p] # {}
    BY <1>8, DeliverMoves
  <2>3. pc'[p] = pc[p] \/ Wakes(p)
    BY <1>8, DeliverMoves
  <2>4. p = 1 => pc'[p] = pc[p] \/ pc'[p] \notin {"start", "learn"}
    BY <2>3 DEF Wakes, Paused, Lap
  <2> QED BY <1>0, <1>1, <2>1, <2>2, <2>4
<1>9. ASSUME NEW p \in Procs, NEW sig \in {"USR1", "USR2"}, Terminate(p, sig) PROVE Begun'
  <2>1. right' = right /\ run' = run
    BY <1>9 DEF Terminate
  <2> QED BY <1>0, <1>1, <1>9, <2>1, TerminateMoves
<1>10. ASSUME Rerun PROVE Begun'
  BY <1>0, <1>10 DEF Rerun
<1>11. CASE UNCHANGED vars
  BY <1>1, <1>11 DEF vars
<1> QED BY <1>2, <1>3, <1>4, <1>5, <1>6, <1>7, <1>8, <1>9, <1>10, <1>11 DEF Next, Step

LEMMA RightStep ==
    ASSUME TypeOK, AtMostOne, PhasesApart, Begun, RightOK, QueueOK, OnePid2, [Next]_vars
    PROVE  RightOK'
<1> USE DEF RightOK
<1>1. run' = run => \A q \in Procs : Pid(q)' = Pid(q)
  BY PidStable
<1>2. ASSUME NEW p \in Procs, Start(p) \/ Tell(p) PROVE RightOK'
  BY <1>1, <1>2 DEF Start, Tell
<1>3. ASSUME NEW p \in Procs, Learn(p) PROVE RightOK'
  <2>1. run' = run /\ pc[p] = "learn"
    BY <1>3 DEF Learn, Goto
  <2>2. ASSUME NEW q \in Procs, right'[p] = Pid(q) PROVE q = Right(p)
    <3>1. /\ 1 \in DOMAIN queue[RightType(p)] /\ queue[RightType(p)][1] = Pid(q)
          /\ RightType(p) \in Types
      BY <1>3, <2>2, LearnTakes
    <3>2. q = RightType(p) \/ (RightType(p) = 2 /\ q = 1 /\ Told)
      BY <3>1 DEF QueueOK
    <3>3. CASE p = 1
      <4>1. RightType(p) = 2 /\ Right(p) = 2
        BY <3>3, SignalRingAssumption DEF RightType, Right
      <4>2. ~Told
        BY <2>1, <3>3, RingFacts, PidFacts DEF Begun, Told, Others
      <4> QED BY <3>2, <4>1, <4>2
    <3>4. CASE p = N
      <4>1. RightType(p) = 2 /\ Right(p) = 1 /\ p # 1
        BY <3>4, SignalRingAssumption DEF RightType, Right
      <4>2. right[1] = Pid(2)
        BY <2>1, <4>1 DEF Begun, Others
      <4>3. q # 2
        BY <3>1, <4>1, <4>2 DEF OnePid2
      <4> QED BY <3>2, <4>1, <4>3
    <3>5. CASE p # 1 /\ p # N
      BY <3>2, <3>5 DEF RightType, Right, Procs
    <3> QED BY <3>3, <3>4, <3>5
  <2>3. \A q \in Procs \ {p} : right'[q] = right[q]
    BY <1>3, LearnTakes
  <2> QED BY <1>1, <2>1, <2>2, <2>3
<1>4. ASSUME Quiet PROVE RightOK'
  BY <1>1, <1>4 DEF Quiet
<1>5. ASSUME Rerun PROVE RightOK'
  <2>1. \A q \in Procs : Pid(N) < Pid(q)'
    BY <1>5, PidGrows DEF Rerun
  <2>2. \A p \in Procs : right'[p] = 0
    BY <1>5 DEF Rerun, NoPid
  <2>3. Pid(N) \in Nat
    BY PidFacts, RingFacts
  <2> QED BY <2>1, <2>2, <2>3
<1>6. CASE UNCHANGED vars
  BY <1>1, <1>6 DEF vars
<1> QED BY <1>2, <1>3, <1>4, <1>5, <1>6, QuietSteps DEF Next, Step

LEMMA LeftStep ==
    ASSUME TypeOK, AtMostOne, PhasesApart, RightOK, LeftOK, [Next]_vars PROVE LeftOK'
<1> USE DEF LeftOK
<1>1. run' = run => \A q \in Procs : Pid(Left(q))' = Pid(Left(q))
  BY PidStable, RingFacts
<1>2. ASSUME NEW p \in Procs, Start(p) PROVE LeftOK'
  BY <1>1, <1>2, StartMoves DEF TypeOK
<1>3. ASSUME NEW p \in Procs, Learn(p) PROVE LeftOK'
  BY <1>1, <1>3 DEF Learn, Goto, TypeOK
<1>4. ASSUME NEW p \in Procs, Tell(p) PROVE LeftOK'
  BY <1>1, <1>4 DEF Tell, Goto, TypeOK
<1>5. ASSUME NEW p \in Procs, KillRight(p) PROVE LeftOK'
  <2>1. left' = left /\ run' = run
    BY <1>5 DEF KillRight
  <2>2. pc[p] = "kill" /\ \A q \in Procs \ {p} : pc'[q] = pc[q]
    BY <1>5, KillRightMoves
  <2>3. \A q \in Procs : ("USR1" \notin pending'[q] /\ sender'[q] = sender[q])
                        \/ (q = Right(p) /\ sender'[q] = Pid(p))
    <3>1. ASSUME NEW q \in Procs, pending'[q] = {}
          PROVE  "USR1" \notin pending'[q] /\ sender'[q] = sender[q]
      <4>1. sender'[q] = sender[q]
        BY <1>5, <3>1, KillRightMoves
      <4> QED BY <3>1, <4>1
    <3>2. ASSUME NEW q \in Procs, pending'[q] # {}
          PROVE  q = Right(p) /\ sender'[q] = Pid(p)
      BY <1>5, <3>2, KillRightMoves
    <3> QED BY <3>1, <3>2
  <2>4. Left(Right(p)) = p /\ Pid(p) # NoPid
    BY RingFacts, PidFacts
  <2> QED BY <1>1, <2>1, <2>2, <2>3, <2>4
<1>6. ASSUME NEW p \in Procs, Install(p) PROVE LeftOK'
  BY <1>1, <1>6 DEF Install, Goto, TypeOK
<1>7. ASSUME NEW p \in Procs, KillLeft(p) PROVE LeftOK'
  <2>1. left' = left /\ run' = run
    BY <1>7 DEF KillLeft
  <2>2. /\ pc[p] = "rkill" /\ \A q \in Procs \ {p} : pc'[q] = pc[q]
        /\ sender' = sender /\ \A q \in Procs : "USR1" \notin pending'[q]
    BY <1>7, KillLeftMoves
  <2> QED BY <1>1, <2>1, <2>2
<1>8. ASSUME NEW p \in Procs, NEW sig \in {"USR1", "USR2"}, Deliver(p, sig) PROVE LeftOK'
  <2>1. /\ sender' = sender /\ run' = run /\ sig \in pending[p]
        /\ \A q \in Procs : left'[q] = IF q = p /\ sig = "USR1" THEN sender[q] ELSE left[q]
    <3>1. sender' = sender /\ run' = run /\ sig \in pending[p]
      BY <1>8 DEF Deliver
    <3>2. /\ left \in [Procs -> Pids]
          /\ left' = IF sig = "USR1" THEN [left EXCEPT ![p] = sender[p]] ELSE left
      BY <1>8 DEF Deliver, TypeOK
    <3> QED BY <3>1, <3>2
  <2>2. /\ \A q \in Procs \ {p} : pc'[q] = pc[q]
        /\ \A q \in Procs : pending'[q] = {}
    BY <1>8, DeliverMoves
  <2>3. pc[p] \in {"start", "await"} => sig = "USR1"
    BY <1>8 DEF Deliver, Handled
  <2> QED BY <1>1, <2>1, <2>2, <2>3
<1>9. ASSUME NEW p \in Procs, NEW sig \in {"USR1", "USR2"}, Terminate(p, sig) PROVE LeftOK'
  <2>1. left' = left /\ run' = run /\ sender' = sender
    BY <1>9 DEF Terminate
  <2> QED BY <1>1, <1>9, <2>1, TerminateMoves DEF Back
<1>10. ASSUME Rerun PROVE LeftOK'
  BY <1>10 DEF Rerun
<1>11. CASE UNCHANGED vars
  BY <1>1, <1>11 DEF vars
<1> QED BY <1>2, <1>3, <1>4, <1>5, <1>6, <1>7, <1>8, <1>9, <1>10, <1>11 DEF Next, Step

-----------------------------------------------------------------------------
(* What the queue holds *)

LEMMA QueueTypes ==
    ASSUME TypeOK, NEW k \in Types, NEW i \in DOMAIN queue[k]
    PROVE  queue[k][i] \in Nat
<1>1. queue[k] \in Seq(Pids)
  BY DEF TypeOK
<1>2. queue[k][i] \in Pids
  BY <1>1
<1> QED BY <1>2, SignalRingAssumption DEF Pids

LEMMA QueueStep ==
    ASSUME TypeOK, AtMostOne, PhasesApart, Lap, RightOK, LeftOK, QueueOK, [Next]_vars
    PROVE  QueueOK'
<1>0. /\ 1 \in Procs /\ 2 \in Procs /\ N \in Procs /\ NoPid = 0 /\ N # 1 /\ N # 2
      /\ \A p \in Procs : Pid(p) <= Pid(N) /\ Pid(p) \in Nat
      /\ \A p, q \in Procs : Pid(p) = Pid(q) => p = q
  BY RingFacts, PidFacts, SignalRingAssumption DEF NoPid
<1>1. run' = run => \A q \in Procs : Pid(q)' = Pid(q)
  BY PidStable
<1>2. ASSUME NEW p \in Procs, Start(p) PROVE QueueOK'
  <2>1. run' = run /\ (Told' <=> Told)
    BY <1>0, <1>2, StartMoves DEF Told, TypeOK
  <2>2. CASE p = 1
    BY <1>0, <1>1, <1>2, <2>1, <2>2, StartMoves DEF QueueOK
  <2>3. CASE p # 1
    <3>1. p \in Types /\ Send(p, Pid(p)) /\ Pid(p) \in Pids
      BY <1>2, <2>3, StartMoves
    <3>2. /\ \A l \in Types \ {p} : queue'[l] = queue[l]
          /\ \A i \in DOMAIN queue'[p] :
               (i \in DOMAIN queue[p] /\ queue'[p][i] = queue[p][i]) \/ queue'[p][i] = Pid(p)
      BY <3>1, SendPuts
    <3> QED BY <1>0, <1>1, <2>1, <3>2 DEF QueueOK
  <2> QED BY <2>2, <2>3
<1>3. ASSUME NEW p \in Procs, Learn(p) PROVE QueueOK'
  <2>1. run' = run /\ (Told' <=> Told)
    BY <1>0, <1>3 DEF Learn, Goto, Told, TypeOK
  <2>2. \A k \in Types : \A i \in DOMAIN queue'[k] :
          \E j \in DOMAIN queue[k] : queue'[k][i] = queue[k][j]
    BY <1>3, LearnTakes
  <2> QED BY <1>0, <1>1, <2>1, <2>2 DEF QueueOK
<1>4. ASSUME NEW p \in Procs, Tell(p) PROVE QueueOK'
  <2>1. run' = run /\ Told'
    BY <1>0, <1>4, TellMoves DEF Told, TypeOK
  <2>2. /\ \A l \in Types \ {2} : queue'[l] = queue[l]
        /\ \A i \in DOMAIN queue'[2] :
             (i \in DOMAIN queue[2] /\ queue'[2][i] = queue[2][i]) \/ queue'[2][i] = Pid(1)
    BY <1>4, TellMoves, SendPuts
  <2> QED BY <1>0, <1>1, <2>1, <2>2 DEF QueueOK
<1>5. ASSUME Quiet PROVE QueueOK'
  <2>1. Told' <=> Told
    BY <1>0, <1>5 DEF Quiet, Told
  <2> QED BY <1>0, <1>1, <1>5, <2>1 DEF Quiet, QueueOK
<1>6. ASSUME Rerun PROVE QueueOK'
  <2>1. \A q \in Procs : Pid(N) < Pid(q)' /\ Pid(q)' \in Nat
    BY <1>6, PidGrows DEF Rerun
  <2>2. queue' = queue
    BY <1>6 DEF Rerun
  <2>3. \A k \in Types : \A i \in DOMAIN queue[k] : queue[k][i] \in Nat
    BY QueueTypes
  <2> QED BY <1>0, <2>1, <2>2, <2>3 DEF QueueOK
<1>7. CASE UNCHANGED vars
  BY <1>0, <1>1, <1>7 DEF vars, QueueOK, Told
<1> QED BY <1>2, <1>3, <1>4, <1>5, <1>6, <1>7, QuietSteps DEF Next, Step

LEMMA OnePid2Step ==
    ASSUME TypeOK, AtMostOne, PhasesApart, Lap, Begun, RightOK, LeftOK, QueueOK, OnePid2, [Next]_vars
    PROVE  OnePid2'
<1> USE DEF OnePid2
<1>0. /\ 1 \in Procs /\ 2 \in Procs /\ N \in Procs /\ NoPid = 0 /\ N # 1 /\ N # 2 /\ 2 \in Types
      /\ Pid(1) # Pid(2) /\ Pid(2) # NoPid
  BY RingFacts, PidFacts, SignalRingAssumption DEF NoPid, Types
<1>1. run' = run => Pid(2)' = Pid(2)
  BY PidStable, <1>0
<1>2. ASSUME NEW p \in Procs, Start(p) PROVE OnePid2'
  <2>1. /\ pc[p] = "start" /\ pc'[p] # "start" /\ \A q \in Procs \ {p} : pc'[q] = pc[q]
        /\ right' = right /\ run' = run
    BY <1>2, StartMoves DEF TypeOK
  <2>2. CASE p # 2
    <3>1. queue'[2] = queue[2]
      BY <1>0, <1>2, <2>2, StartMoves, SendPuts
    <3> QED BY <1>0, <1>1, <2>1, <2>2, <3>1
  <2>3. CASE p = 2
    <3>1. Send(2, Pid(2)) /\ Pid(2) \in Pids
      BY <1>0, <1>2, <2>3, StartMoves
    <3>2. \A i \in DOMAIN queue'[2] :
            \/ i \in DOMAIN queue[2] /\ queue'[2][i] = queue[2][i]
            \/ i = Len(queue[2]) + 1
      BY <1>0, <3>1, SendPuts
    <3> QED BY <1>0, <1>1, <2>1, <2>3, <3>2
  <2> QED BY <2>2, <2>3
<1>3. ASSUME NEW p \in Procs, Learn(p) PROVE OnePid2'
  <2>1. /\ pc[p] = "learn" /\ pc'[p] # "start" /\ \A q \in Procs \ {p} : pc'[q] = pc[q]
        /\ run' = run
    BY <1>3 DEF Learn, Goto, TypeOK
  <2>2. CASE RightType(p) # 2
    <3>1. queue'[2] = queue[2] /\ right'[1] = right[1]
      BY <1>0, <1>3, <2>2, LearnTakes, SignalRingAssumption DEF RightType
    <3> QED BY <1>0, <1>1, <2>1, <3>1
  <2>3. CASE RightType(p) = 2
    <3>1. /\ \A i \in DOMAIN queue'[2] : /\ i \in Nat \ {0} /\ i + 1 \in DOMAIN queue[2]
                                         /\ queue'[2][i] = queue[2][i + 1]
          /\ 1 \in DOMAIN queue[2]
          /\ IF p = 1 THEN right'[1] = queue[2][1] ELSE right'[1] = right[1]
      BY <1>0, <1>3, <2>3, LearnTakes
    <3>2. \A i \in Nat \ {0}, j \in Nat \ {0} : i + 1 = j + 1 => i = j
      OBVIOUS
    <3>3. \A i, j \in DOMAIN queue'[2] :
            queue'[2][i] = Pid(2) /\ queue'[2][j] = Pid(2) => i = j
      BY <3>1, <3>2
    <3>4. ASSUME right'[1] = Pid(2), NEW i \in DOMAIN queue'[2] PROVE queue'[2][i] # Pid(2)
      <4>1. CASE p = 1
        <5>1. i + 1 # 1
          BY <3>1
        <5> QED BY <3>1, <3>4, <4>1, <5>1
      <4> QED BY <3>1, <3>4, <4>1
    <3>5. pc'[2] = "start" => pc[2] = "start"
      BY <1>0, <2>1
    <3>6. pc'[2] = "start" => /\ right'[1] # Pid(2)
                              /\ \A i \in DOMAIN queue'[2] : queue'[2][i] # Pid(2)
      BY <3>1, <3>5
    <3> QED BY <1>1, <2>1, <3>3, <3>4, <3>6
  <2> QED BY <2>2, <2>3
<1>4. ASSUME NEW p \in Procs, Tell(p) PROVE OnePid2'
  <2>1. /\ run' = run /\ pc[2] = "tell" /\ pc'[2] = "kill" /\ right' = right
    BY <1>0, <1>4, TellMoves DEF TypeOK
  <2>2. \A i \in DOMAIN queue'[2] :
             (i \in DOMAIN queue[2] /\ queue'[2][i] = queue[2][i]) \/ queue'[2][i] = Pid(1)
    BY <1>4, TellMoves, SendPuts
  <2> QED BY <1>0, <1>1, <2>1, <2>2
<1>5. ASSUME Quiet PROVE OnePid2'
  BY <1>0, <1>1, <1>5 DEF Quiet
<1>6. ASSUME Rerun PROVE OnePid2'
  <2>1. Pid(N) < Pid(2)' /\ Pid(N) \in Nat
    BY <1>0, <1>6, PidGrows, PidFacts DEF Rerun
  <2>2. \A i \in DOMAIN queue[2] : queue[2][i] \in Nat /\ queue[2][i] <= Pid(N)
    BY <1>0, QueueTypes DEF QueueOK
  <2>3. Pid(2)' \in Nat
    BY <1>0, <1>6, PidGrows DEF Rerun
  <2>4. queue' = queue /\ right'[1] = 0
    BY <1>0, <1>6 DEF Rerun
  <2> QED BY <2>1, <2>2, <2>3, <2>4
<1>7. CASE UNCHANGED vars
  BY <1>0, <1>1, <1>7 DEF vars
<1> QED BY <1>2, <1>3, <1>4, <1>5, <1>6, <1>7, QuietSteps DEF Next, Step

\* What one message leaves, and what follows none.
LEMMA OneMessage ==
    /\ \A e : Tail(<<e>>) = <<>> /\ <<e>>[1] = e /\ <<e>> # <<>>
    /\ \A e : Append(<<>>, e) = <<e>>
  OBVIOUS

LEMMA CleanStep ==
    ASSUME TypeOK, AtMostOne, PhasesApart, Lap, Begun, RightOK, LeftOK, CleanQueue, [Next]_vars
    PROVE  CleanQueue'
<1>0. /\ 1 \in Procs /\ 2 \in Procs /\ N \in Procs /\ N # 1 /\ N # 2 /\ 2 \in Types /\ N \in Nat
      /\ \A p \in Procs : Pid(p) # NoPid
      /\ \A p \in Procs \ {1} : p \in Types
  BY RingFacts, PidFacts, SignalRingAssumption DEF Types, Procs
<1>1. run' = run => \A q \in Procs : Pid(q)' = Pid(q)
  BY PidStable
<1>2. \A k \in Types : k \in Procs /\ k - 1 \in Procs /\ k # 1 /\ (k # 2 => k - 1 # 1)
                      /\ k - 1 # N
  BY SignalRingAssumption DEF Types, Procs
<1>3. \A p \in Procs : p # N => p + 1 \in Types /\ (p + 1) - 1 = p
  BY SignalRingAssumption DEF Types, Procs
<1>4. \A p \in Procs : Right(p) \in Procs
  BY RingFacts
<1>5. CASE ~clean /\ clean' = clean
  BY <1>5 DEF CleanQueue
<1>6. ASSUME clean, NEW p \in Procs, Start(p) PROVE CleanQueue'
  <2>1. /\ pc[p] = "start" /\ pc'[p] = (IF p = 1 THEN "learn" ELSE "await")
        /\ \A q \in Procs \ {p} : pc'[q] = pc[q]
        /\ run' = run /\ right' = right /\ clean' = clean
    BY <1>6 DEF Start, Goto, TypeOK
  <2>2. (Told' <=> Told) /\ \A q \in Procs : Learning(q)' <=> Learning(q)
    BY <1>0, <2>1 DEF Told, Learning
  <2>3. /\ \A k \in Types \ {p} : queue'[k] = queue[k]
        /\ p # 1 => queue'[p] = Append(queue[p], Pid(p))
    <3>1. CASE p = 1
      BY <1>6, <3>1, StartMoves
    <3>2. CASE p # 1
      BY <1>6, <3>2, StartMoves, SendPuts
    <3> QED BY <3>1, <3>2
  <2>4. p # 1 => queue[p] = <<>>
    BY <1>0, <1>6, <2>1 DEF CleanQueue
  <2>5. \A q \in Procs : q # N /\ ~Learning(q) => pc'[q + 1] # "start"
    <3>1. \A q \in Procs : q # N => q + 1 \in Procs
      BY <1>2, <1>3
    <3>2. \A q \in Procs : q # N /\ ~Learning(q) => pc[q + 1] # "start"
      BY <1>6 DEF CleanQueue
    <3>3. ASSUME NEW q \in Procs, q # N, ~Learning(q) PROVE pc'[q + 1] # "start"
      <4>1. q + 1 \in Procs /\ pc[q + 1] # "start"
        BY <3>1, <3>2, <3>3
      <4> QED BY <2>1, <4>1
    <3> QED BY <3>3
  <2>6. p # 1 /\ p # 2 => Learning(p - 1)
    <3>1. p # 1 => p - 1 \in Procs /\ p - 1 # N /\ (p - 1) + 1 = p
      BY SignalRingAssumption DEF Procs
    <3>2. \A q \in Procs : q # N /\ ~Learning(q) => pc[q + 1] # "start"
      BY <1>6 DEF CleanQueue
    <3> QED BY <2>1, <3>1, <3>2
  <2>7. p = 2 => Learning(1) /\ Learning(N)
    <3>1. p = 2 => ~Told
      BY <2>1 DEF Told
    <3>2. 1 + 1 = 2
      OBVIOUS
    <3> QED BY <1>0, <1>6, <2>1, <3>1, <3>2 DEF CleanQueue
  <2>8. p # 1 => queue'[p] = <<Pid(p)>>
    BY <2>3, <2>4, OneMessage
  <2>9. \A k \in Types \ {2} : queue'[k]
          = IF pc'[k] = "start" \/ ~Learning(k - 1) THEN <<>> ELSE <<Pid(k)>>
    <3>1. ASSUME NEW k \in Types \ {2}, k # p
          PROVE  queue'[k] = IF pc'[k] = "start" \/ ~Learning(k - 1) THEN <<>> ELSE <<Pid(k)>>
      BY <1>2, <1>6, <2>1, <2>3, <3>1 DEF CleanQueue
    <3>2. ASSUME NEW k \in Types \ {2}, k = p
          PROVE  queue'[k] = IF pc'[k] = "start" \/ ~Learning(k - 1) THEN <<>> ELSE <<Pid(k)>>
      BY <1>2, <2>1, <2>6, <2>8, <3>2
    <3> QED BY <3>1, <3>2
  <2>10. queue'[2] = IF pc'[2] = "start" \/ (~Learning(1) /\ ~Told) \/ ~Learning(N) THEN <<>>
                     ELSE IF ~Learning(1) THEN <<Pid(1)>> ELSE <<Pid(2)>>
    <3>1. CASE p = 2
      BY <2>1, <2>7, <2>8, <3>1
    <3>2. CASE p # 2
      BY <1>0, <1>6, <2>1, <2>3, <3>2 DEF CleanQueue
    <3> QED BY <3>1, <3>2
  <2>11. \A k \in Types : /\ k - 1 \in Procs /\ Pid(k)' = Pid(k)
    BY <1>1, <1>2, <2>1
  <2>12. \A q \in Procs : right'[q] = IF Learning(q) THEN NoPid ELSE Pid(Right(q))
    BY <1>6, <2>1 DEF CleanQueue
  <2>13. ~Learning(N) => Told
    BY <1>6 DEF CleanQueue
  <2>14. \A q \in Procs : right'[q] = IF Learning(q)' THEN NoPid ELSE Pid(Right(q))'
    BY <1>1, <1>4, <2>1, <2>2, <2>12
  <2>15. \A q \in Procs : q # N /\ ~(Learning(q)') => pc'[q + 1] # "start"
    BY <2>2, <2>5
  <2>16. \A k \in Types \ {2} : queue'[k]
          = IF pc'[k] = "start" \/ ~(Learning(k - 1)') THEN <<>> ELSE <<Pid(k)'>>
    BY <2>2, <2>9, <2>11
  <2>17. queue'[2] = IF pc'[2] = "start" \/ (~(Learning(1)') /\ ~(Told')) \/ ~(Learning(N)') THEN <<>>
                     ELSE IF ~(Learning(1)') THEN <<Pid(1)'>> ELSE <<Pid(2)'>>
    BY <1>0, <1>1, <2>1, <2>2, <2>10
  <2>18. ~(Learning(N)') => Told'
    BY <1>0, <2>2, <2>13
  <2> QED BY <2>14, <2>15, <2>16, <2>17, <2>18 DEF CleanQueue
<1>7. ASSUME clean, NEW p \in Procs, Learn(p) PROVE CleanQueue'
  <2> DEFINE k == RightType(p)
  <2>1. /\ pc[p] = "learn" /\ pc'[p] \in {"tell", "kill"} /\ (p = 2 => pc'[p] = "tell")
        /\ \A q \in Procs \ {p} : pc'[q] = pc[q]
        /\ run' = run /\ clean' = clean
    BY <1>7 DEF Learn, Goto, TypeOK
  <2>2. /\ Told' <=> Told
        /\ \A q \in Procs \ {p} : Learning(q)' <=> Learning(q)
        /\ Learning(p) /\ ~(Learning(p)')
        /\ \A q \in Procs : pc'[q] = "start" <=> pc[q] = "start"
    BY <1>0, <2>1 DEF Told, Learning
  <2>3. /\ k \in Types /\ queue[k] # <<>> /\ right'[p] = queue[k][1]
        /\ \A q \in Procs \ {p} : right'[q] = right[q]
        /\ queue'[k] = Tail(queue[k]) /\ \A l \in Types \ {k} : queue'[l] = queue[l]
    BY <1>7, LearnTakes
  <2>4. IF p = N THEN k = 2 /\ Right(p) = 1 ELSE k = p + 1 /\ Right(p) = k /\ k - 1 = p
    BY <1>0, <1>3 DEF RightType, Right
  <2>5. 1 + 1 = 2 /\ 2 - 1 = 1 /\ \A l \in Types, q \in Procs : l = q + 1 <=> l - 1 = q
    BY DEF Types, Procs
  <2>6. ~Learning(1) \/ p = 1
    BY <1>0, <1>7, <2>1, PidFacts DEF Begun, CleanQueue, Others
  <2>7. p = 1 => ~Told
    BY <1>0, <2>1 DEF Begun, Told, Others
  <2> HIDE DEF k
  <2>8. queue[k] = <<Pid(Right(p))>> /\ pc[k] # "start" /\ (p = N => Told)
    <3>1. CASE p = N
      BY <1>0, <1>7, <2>2, <2>3, <2>4, <2>6, <3>1 DEF CleanQueue
    <3>2. CASE p = 1
      BY <1>0, <1>7, <2>2, <2>3, <2>4, <2>5, <3>2 DEF CleanQueue
    <3>3. CASE p # 1 /\ p # N
      <4>1. k # 2 /\ k - 1 = p
        BY <2>4, <2>5, <3>3
      <4> QED BY <1>7, <2>2, <2>3, <2>4, <3>3, <4>1 DEF CleanQueue
    <3> QED BY <3>1, <3>2, <3>3
  <2>9. queue'[k] = <<>> /\ right'[p] = Pid(Right(p))
    BY <2>3, <2>8, OneMessage
  <2>10. \A q \in Procs : right'[q] = IF Learning(q)' THEN NoPid ELSE Pid(Right(q))'
    BY <1>1, <1>4, <1>7, <2>1, <2>2, <2>3, <2>9 DEF CleanQueue
  <2>11. \A q \in Procs : q # N /\ ~(Learning(q)') => pc'[q + 1] # "start"
    BY <1>2, <1>3, <1>7, <2>2, <2>4, <2>8 DEF CleanQueue
  <2>12. \A l \in Types \ {2} : queue'[l]
          = IF pc'[l] = "start" \/ ~(Learning(l - 1)') THEN <<>> ELSE <<Pid(l)'>>
    <3>1. ASSUME NEW l \in Types \ {2}, l # k
          PROVE  queue'[l] = IF pc'[l] = "start" \/ ~(Learning(l - 1)') THEN <<>> ELSE <<Pid(l)'>>
      <4>1. l \in Procs /\ l - 1 \in Procs /\ l - 1 # p
        BY <1>2, <2>4, <2>5, <3>1
      <4> QED BY <1>1, <1>7, <2>1, <2>2, <2>3, <3>1, <4>1 DEF CleanQueue
    <3>2. ASSUME NEW l \in Types \ {2}, l = k
          PROVE  queue'[l] = IF pc'[l] = "start" \/ ~(Learning(l - 1)') THEN <<>> ELSE <<Pid(l)'>>
      BY <2>2, <2>4, <2>9, <3>2
    <3> QED BY <3>1, <3>2
  <2>13. queue'[2] = IF pc'[2] = "start" \/ (~(Learning(1)') /\ ~(Told')) \/ ~(Learning(N)') THEN <<>>
                     ELSE IF ~(Learning(1)') THEN <<Pid(1)'>> ELSE <<Pid(2)'>>
    <3>1. CASE p = N
      BY <2>2, <2>4, <2>9, <3>1
    <3>2. CASE p = 1
      BY <2>2, <2>4, <2>5, <2>7, <2>9, <3>2
    <3>3. CASE p # 1 /\ p # N
      <4>1. k # 2
        BY <2>4, <2>5, <3>3
      <4> QED BY <1>0, <1>1, <1>7, <2>1, <2>2, <2>3, <3>3, <4>1 DEF CleanQueue
    <3> QED BY <3>1, <3>2, <3>3
  <2>14. ~(Learning(N)') => Told'
    BY <1>0, <1>7, <2>2, <2>8 DEF CleanQueue
  <2> QED BY <2>10, <2>11, <2>12, <2>13, <2>14 DEF CleanQueue
<1>8. ASSUME clean, NEW p \in Procs, Tell(p) PROVE CleanQueue'
  <2>1. /\ pc[2] = "tell" /\ pc'[2] = "kill" /\ \A q \in Procs \ {2} : pc'[q] = pc[q]
        /\ run' = run /\ right' = right /\ clean' = clean
    BY <1>8, TellMoves DEF TypeOK
  <2>2. Told' /\ ~Told /\ \A q \in Procs : Learning(q)' <=> Learning(q)
    BY <1>0, <2>1 DEF Told, Learning
  <2>3. /\ \A l \in Types \ {2} : queue'[l] = queue[l]
        /\ queue'[2] = Append(queue[2], Pid(1))
    BY <1>8, TellMoves, SendPuts
  <2>4. ~Learning(1)
    BY <1>0, <1>8, <2>1, PidFacts DEF Begun, CleanQueue, Others
  <2>5. Learning(N) /\ queue[2] = <<>>
    BY <1>8, <2>2, <2>4 DEF CleanQueue
  <2>6. queue'[2] = <<Pid(1)>>
    BY <2>3, <2>5, OneMessage
  <2>7. \A q \in Procs : right'[q] = IF Learning(q)' THEN NoPid ELSE Pid(Right(q))'
    BY <1>1, <1>4, <1>8, <2>1, <2>2 DEF CleanQueue
  <2>8. \A q \in Procs : q # N /\ ~(Learning(q)') => pc'[q + 1] # "start"
    BY <1>2, <1>3, <1>8, <2>1, <2>2 DEF CleanQueue
  <2>9. \A l \in Types \ {2} : queue'[l]
          = IF pc'[l] = "start" \/ ~(Learning(l - 1)') THEN <<>> ELSE <<Pid(l)'>>
    BY <1>1, <1>2, <1>8, <2>1, <2>2, <2>3 DEF CleanQueue
  <2> QED BY <1>0, <1>1, <2>1, <2>2, <2>4, <2>5, <2>6, <2>7, <2>8, <2>9 DEF CleanQueue
<1>9. ASSUME clean, Quiet PROVE CleanQueue'
  <2>1. /\ Told' <=> Told
        /\ \A q \in Procs : Learning(q)' <=> Learning(q)
        /\ \A q \in Procs : pc'[q] = "start" <=> pc[q] = "start"
        /\ UNCHANGED <<run, queue, right, clean>>
    BY <1>0, <1>9 DEF Told, Learning, Quiet
  <2>2. \A q \in Procs : right'[q] = IF Learning(q)' THEN NoPid ELSE Pid(Right(q))'
    BY <1>1, <1>4, <1>9, <2>1 DEF CleanQueue
  <2>3. \A q \in Procs : q # N /\ ~(Learning(q)') => pc'[q + 1] # "start"
    BY <1>2, <1>3, <1>9, <2>1 DEF CleanQueue
  <2>4. \A l \in Types \ {2} : queue'[l]
          = IF pc'[l] = "start" \/ ~(Learning(l - 1)') THEN <<>> ELSE <<Pid(l)'>>
    BY <1>1, <1>2, <1>9, <2>1 DEF CleanQueue
  <2>5. queue'[2] = IF pc'[2] = "start" \/ (~(Learning(1)') /\ ~(Told')) \/ ~(Learning(N)') THEN <<>>
                     ELSE IF ~(Learning(1)') THEN <<Pid(1)'>> ELSE <<Pid(2)'>>
    BY <1>0, <1>1, <1>9, <2>1 DEF CleanQueue
  <2>6. ~(Learning(N)') => Told'
    BY <1>0, <1>9, <2>1 DEF CleanQueue
  <2> QED BY <2>2, <2>3, <2>4, <2>5, <2>6 DEF CleanQueue
<1>10. ASSUME Rerun PROVE CleanQueue'
  <2>1. /\ \A q \in Procs : pc'[q] = "start" /\ right'[q] = NoPid
        /\ clean' => \A k \in Types : queue'[k] = <<>>
    BY <1>10 DEF Rerun
  <2>2. \A q \in Procs : Learning(q)'
    BY <2>1 DEF Learning
  <2> QED BY <1>0, <1>2, <2>1, <2>2 DEF CleanQueue
<1>11. CASE UNCHANGED vars
  BY <1>11 DEF vars, CleanQueue, Learning, Told, Pid
<1>12. ASSUME NEW p \in Procs, Step(p) \/ \E sig \in {"USR1", "USR2"} : Deliver(p, sig) \/ Terminate(p, sig)
       PROVE CleanQueue'
  <2>1. clean' = clean /\ clean \in BOOLEAN
    BY <1>12 DEF Step, Start, Learn, Tell, KillRight, Install, KillLeft, Deliver, Terminate, TypeOK
  <2> QED BY <1>5, <1>6, <1>7, <1>8, <1>9, <1>12, <2>1, QuietSteps DEF Step
<1> QED BY <1>10, <1>11, <1>12 DEF Next

-----------------------------------------------------------------------------
(* The invariants *)

LEMMA InitGood == Init => IInv
<1>1. SUFFICES ASSUME Init PROVE Good
  BY InitTypes DEF IInv
<1>2. /\ \A p \in Procs : /\ pc[p] = "start" /\ round[p] = 0 /\ pending[p] = {}
                          /\ left[p] = NoPid /\ right[p] = NoPid /\ sender[p] = NoPid
      /\ \A k \in Types : queue[k] = <<>> /\ k \in Procs /\ k - 1 \in Procs
      /\ 1 \in Procs /\ 2 \in Procs /\ N \in Procs /\ 2 \in Types
  BY <1>1, RingFacts, SignalRingAssumption DEF Init, Types, Procs
<1>3. \A p \in Procs : Pid(p) # NoPid
  BY <1>1, InitTypes, PidFacts
<1>4. AtMostOne
  BY <1>2 DEF AtMostOne, Holds
<1>5. Lap /\ PhasesApart
  BY <1>2 DEF Lap, PhasesApart, Sent, Back, Others
<1>6. Begun /\ RightOK /\ LeftOK
  BY <1>2, <1>3 DEF Begun, RightOK, LeftOK, Others
<1>7. QueueOK /\ OnePid2
  BY <1>2, <1>3 DEF QueueOK, OnePid2
<1>8. CleanQueue
  BY <1>2 DEF CleanQueue, Learning
<1> QED BY <1>4, <1>5, <1>6, <1>7, <1>8 DEF Good

LEMMA GoodStep == IInv /\ [Next]_vars => IInv'
  BY StepTypes, OneTurnStep, LapStep, PhasesApartStep, BegunStep, RightStep, LeftStep,
     QueueStep, OnePid2Step, CleanStep DEF IInv, Good

LEMMA Invariance == Spec => []IInv
  BY InitGood, GoodStep, PTL DEF Spec

(* The way back begins only after every process has sent its last SIGUSR1,   *)
(* whatever an earlier run left in the queue.                                *)
THEOREM SignalPhases == Spec => []PhasesApart
<1>1. IInv => PhasesApart
  BY DEF IInv, Good
<1> QED BY <1>1, Invariance, PTL

(* Although P1's pid travels in a message of the same type as P2's, each     *)
(* process of a run that found the queue empty learns its own neighbours.    *)
THEOREM SignalNeighbours == Spec => []NeighboursKnown
<1>1. IInv => NeighboursKnown
  BY DEF IInv, Good, NeighboursKnown, CleanQueue, LeftOK
<1> QED BY <1>1, Invariance, PTL

(* A run that found the queue empty and came to the way back leaves it       *)
(* empty, though nothing removes it.                                         *)
THEOREM SignalDrained == Spec => []QueueDrained
<1>1. ASSUME IInv PROVE QueueDrained
  <2>1. SUFFICES ASSUME clean, pc[1] = "rkill" PROVE \A k \in Types : queue[k] = <<>>
    BY DEF QueueDrained
  <2>2. 1 \in Procs /\ N \in Procs /\ \A k \in Types : k \in Procs /\ k - 1 \in Procs
    BY RingFacts, SignalRingAssumption DEF Types, Procs
  <2>3. \A p \in Procs : ~Learning(p)
    BY <1>1, <2>1, <2>2 DEF IInv, Good, PhasesApart, Learning
  <2> QED BY <1>1, <2>1, <2>2, <2>3 DEF IInv, Good, CleanQueue
<1> QED BY <1>1, Invariance, PTL

-----------------------------------------------------------------------------
(* The ring of named semaphores (SemRing), for any number of processes.    *)

\* OneTurn and what makes it inductive: at most one semaphore is up, and by one.
Single ==
    /\ \A p, q \in SemProcs : at[p] = "post" => sem[q] = 0 /\ (at[q] = "post" => q = p)
    /\ \A p \in SemProcs : sem[p] <= 1
    /\ \A p, q \in SemProcs : sem[p] = 1 /\ sem[q] = 1 => p = q

SemInv == SemTypeOK /\ (~doubled => Single)

\* The right neighbour of a process of the ring is another one.
LEMMA RightInRing == \A p \in SemProcs : SemRight(p) \in SemProcs /\ SemRight(p) # p
  BY SemRingAssumption DEF SemProcs, SemRight

\* Types hold at the start and are kept by every step, for any N.
LEMMA SemTypeStep == SemTypeOK /\ [SemNext]_semVars => SemTypeOK'
  <1> SUFFICES ASSUME SemTypeOK, [SemNext]_semVars PROVE SemTypeOK'
    OBVIOUS
  <1> USE SemRingAssumption DEF SemTypeOK, First
  <1>1. ASSUME NEW p \in SemProcs, SemWait(p) PROVE SemTypeOK'
    BY <1>1 DEF SemWait
  <1>2. ASSUME NEW p \in SemProcs, SemPost(p) PROVE SemTypeOK'
    BY <1>2, RightInRing DEF SemPost
  <1>3. ASSUME NEW p \in SemProcs, SemKill(p) PROVE SemTypeOK'
    BY <1>3 DEF SemKill
  <1>4. ASSUME NEW p \in SemProcs, SemStart(p) PROVE SemTypeOK'
    BY <1>4 DEF SemStart
  <1>5. CASE UNCHANGED semVars
    BY <1>5 DEF semVars
  <1> QED
    BY <1>1, <1>2, <1>3, <1>4, <1>5 DEF SemNext

LEMMA SemInvInit == SemInit => SemInv
  <1> SUFFICES ASSUME SemInit PROVE SemInv
    OBVIOUS
  <1>1. SemTypeOK
    <2>1. doubled \in BOOLEAN
      BY DEF SemInit
    <2>2. /\ at \in [SemProcs -> {"wait", "post", "down"}] /\ sem \in [SemProcs -> Nat]
          /\ kills \in 0..MaxKills /\ starts \in 0..MaxStarts
      BY SemRingAssumption DEF SemInit, First
    <2> QED
      BY <2>1, <2>2 DEF SemTypeOK
  <1>2. Single
    BY SemRingAssumption DEF SemInit, Single, First, SemProcs
  <1> QED
    BY <1>1, <1>2 DEF SemInv

LEMMA SemInvStep == SemInv /\ [SemNext]_semVars => SemInv'
  <1> SUFFICES ASSUME SemInv, [SemNext]_semVars PROVE SemInv'
    OBVIOUS
  <1>0. SemTypeOK /\ SemTypeOK'
    BY SemTypeStep DEF SemInv
  <1> SUFFICES ASSUME ~doubled' PROVE Single'
    BY <1>0 DEF SemInv
  <1>1. ASSUME NEW p \in SemProcs, SemWait(p) PROVE Single'
    <2>1. Single
      BY <1>1 DEF SemInv, SemWait
    <2>2. sem[p] = 1 /\ \A q \in SemProcs : (q # p => sem[q] = 0) /\ at[q] # "post"
      BY <1>0, <1>1, <2>1 DEF Single, SemWait, SemTypeOK
    <2> QED
      BY <1>0, <1>1, <2>2 DEF Single, SemWait, SemTypeOK
  <1>2. ASSUME NEW p \in SemProcs, SemPost(p) PROVE Single'
    <2>1. Single
      BY <1>2 DEF SemInv, SemPost
    <2>2. \A q \in SemProcs : sem[q] = 0 /\ (q # p => at[q] # "post")
      BY <1>2, <2>1 DEF Single, SemPost
    <2> QED
      BY <1>0, <1>2, <2>2, RightInRing DEF Single, SemPost, SemTypeOK
  <1>3. ASSUME NEW p \in SemProcs, SemKill(p) PROVE Single'
    BY <1>0, <1>3 DEF SemInv, Single, SemKill, SemTypeOK
  <1>4. ASSUME NEW p \in SemProcs, SemStart(p) PROVE Single'
    <2>1. Single /\ (p = 1 => ~UnderWay) /\ sem' = sem /\ at' = [at EXCEPT ![p] = First(p)]
      BY <1>0, <1>4 DEF SemInv, SemStart, SemTypeOK
    <2>2. CASE p = 1
      <3>1. \A q \in SemProcs : at[q] # "post" /\ sem[q] = 0
        BY <1>0, <2>1, <2>2 DEF UnderWay, SemTypeOK
      <3> QED
        BY <1>0, <2>1, <3>1 DEF Single, SemTypeOK
    <2>3. CASE p # 1
      <3>1. at'[p] = "wait" /\ \A q \in SemProcs : q # p => at'[q] = at[q]
        BY <1>0, <2>1, <2>3 DEF First, SemTypeOK
      <3> QED
        BY <2>1, <3>1 DEF Single
    <2> QED
      BY <2>2, <2>3
  <1>5. CASE UNCHANGED semVars
    BY <1>5 DEF semVars, SemInv, Single
  <1> QED
    BY <1>1, <1>2, <1>3, <1>4, <1>5 DEF SemNext

LEMMA SemInvariance == SemSpec => []SemInv
  BY SemInvInit, SemInvStep, PTL DEF SemSpec

\* The variables of the ring keep their types for any number of processes.
THEOREM RingTypes == SemSpec => []SemTypeOK
  BY SemInvariance, PTL DEF SemInv

\* One process at most has the turn, and no semaphore is up while it has, whatever is
\* stopped and started, but for a P1 that is started while a turn is under way.
THEOREM RingOneTurn == SemSpec => []SemOneTurn
  <1>1. SemInv => SemOneTurn
    BY DEF SemInv, Single, SemOneTurn
  <1> QED
    BY <1>1, SemInvariance, PTL

-----------------------------------------------------------------------------
(* SemRing implements Turns *)

LEMMA RingInit == SemInit => Ring!Init
  BY SemRingAssumption DEF SemInit, Ring!Init, First, Has, SemProcs, Ring!Procs

\* Every step of the ring passes a turn, is a fault, or leaves the turns alone.
LEMMA RingStep == SemTypeOK /\ [SemNext]_semVars => [Ring!Next]_Ring!vars
  <1> SUFFICES ASSUME SemTypeOK, [SemNext]_semVars PROVE [Ring!Next]_Ring!vars
    OBVIOUS
  <1> DEFINE T == [p \in SemProcs |-> sem[p] + Has(p)]
  <1>1. ASSUME NEW p \in SemProcs, SemWait(p) PROVE UNCHANGED Ring!vars
    <2>1. \A q \in SemProcs : sem'[q] + Has(q)' = sem[q] + Has(q)
      BY <1>1 DEF SemWait, Has, SemTypeOK
    <2> QED
      BY <1>1, <2>1 DEF SemWait, Ring!vars
  <1>2. ASSUME NEW p \in SemProcs, SemPost(p) PROVE Ring!Pass(p)
    <2>1. SemRight(p) \in SemProcs /\ SemRight(p) # p /\ Ring!Right(p) = SemRight(p)
      BY RightInRing DEF SemRight, Ring!Right
    <2>2. T[p] > 0
      BY <1>2 DEF SemPost, Has, SemTypeOK
    <2>3. \A q \in SemProcs : sem'[q] + Has(q)'
             = IF q = p THEN T[q] - 1 ELSE IF q = SemRight(p) THEN T[q] + 1 ELSE T[q]
      BY <1>2, <2>1 DEF SemPost, Has, SemTypeOK
    <2>4. T' = [T EXCEPT ![p] = @ - 1, ![SemRight(p)] = @ + 1]
      BY <2>1, <2>3
    <2>5. kills' = kills /\ starts' = starts
      BY <1>2 DEF SemPost
    <2> QED
      BY <2>1, <2>2, <2>4, <2>5 DEF Ring!Pass
  <1>3. ASSUME NEW p \in SemProcs, SemKill(p) PROVE Ring!Fault(p)
    <2>1. kills' + starts' = kills + starts + 1
      BY <1>3 DEF SemKill, SemTypeOK
    <2>2. CASE at[p] = "post"
      <3>1. T[p] > 0
        BY <2>2 DEF Has, SemTypeOK
      <3>2. \A q \in SemProcs : sem'[q] + Has(q)' = IF q = p THEN T[q] - 1 ELSE T[q]
        BY <1>3, <2>2 DEF SemKill, Has, SemTypeOK
      <3>3. T' = [T EXCEPT ![p] = @ - 1]
        BY <3>2
      <3> QED
        BY <2>1, <3>1, <3>3 DEF Ring!Fault
    <2>3. CASE at[p] # "post"
      <3>1. \A q \in SemProcs : sem'[q] + Has(q)' = T[q]
        BY <1>3, <2>3 DEF SemKill, Has, SemTypeOK
      <3>2. T' = T
        BY <3>1
      <3> QED
        BY <2>1, <3>2 DEF Ring!Fault
    <2> QED
      BY <2>2, <2>3
  <1>4. ASSUME NEW p \in SemProcs, SemStart(p) PROVE Ring!Fault(p)
    <2>1. kills' + starts' = kills + starts + 1
      BY <1>4 DEF SemStart, SemTypeOK
    <2>2. CASE p = 1
      <3>1. \A q \in SemProcs : sem'[q] + Has(q)' = IF q = p THEN T[q] + 1 ELSE T[q]
        BY <1>4, <2>2 DEF SemStart, First, Has, SemTypeOK
      <3>2. T' = [T EXCEPT ![p] = @ + 1]
        BY <3>1
      <3> QED
        BY <2>1, <2>2, <3>2 DEF Ring!Fault
    <2>3. CASE p # 1
      <3>1. \A q \in SemProcs : sem'[q] + Has(q)' = T[q]
        BY <1>4, <2>3 DEF SemStart, First, Has, SemTypeOK
      <3>2. T' = T
        BY <3>1
      <3> QED
        BY <2>1, <3>2 DEF Ring!Fault
    <2> QED
      BY <2>2, <2>3
  <1>5. CASE UNCHANGED semVars
    BY <1>5 DEF semVars, Ring!vars, Has
  <1>6. Ring!Procs = SemProcs
    BY DEF SemProcs, Ring!Procs
  <1> QED
    BY <1>1, <1>2, <1>3, <1>4, <1>5, <1>6 DEF SemNext, Ring!Next

\* For any number of processes the ring implements Turns: the turn is passed to the
\* right, and only stopping or starting a process takes one away or adds one.
THEOREM RingImplementsTurns == SemSpec => RingSpec
  <1>1. SemSpec => []SemTypeOK
    BY RingTypes
  <1> QED
    BY <1>1, RingInit, RingStep, PTL DEF SemSpec, RingSpec, Ring!Spec

-----------------------------------------------------------------------------
(* The two processes and their texts (PingPong), for any bounds.           *)

\* There is one turn, and only its holder, or the post on its way, can change a text.
OneBusy ==
    /\ Busy(1) => ~Busy(2)
    /\ \A p \in 1..2 : Busy(p) => S[1] = 0 /\ S[2] = 0
    /\ S[1] = 0 \/ S[2] = 0
    /\ S[1] \in 0..1 /\ S[2] \in 0..1

\* What the numbers are at each place the turn can be.
Counted ==
    /\ place[1] = "inity" => x = 1
    /\ place[1] = "read" => y = x + 1 \/ (x = 1 /\ y = 1)
    /\ place[1] = "write" => a[1] = y + 1
    /\ place[1] = "post" \/ S[2] = 1 \/ place[2] = "read" => x = y + 1
    /\ place[2] = "write" => a[2] = x + 1
    /\ place[2] = "post" \/ S[1] = 1 => y = x + 1

PingInv == PingTypeOK /\ (~twice => OneBusy /\ Counted)

LEMMA PingInvInit == PingInit => PingInv
  <1>1. SUFFICES ASSUME PingInit PROVE PingInv
    OBVIOUS
  <1>2. PingTypeOK
    <2>1. twice \in BOOLEAN
      BY <1>1 DEF PingInit
    <2>2. x \in Values /\ y \in Values /\ stops \in 0..MaxStops /\ restarts \in 0..MaxRestarts
      BY <1>1, PingPongAssumption DEF PingInit, Values
    <2>3. /\ place \in [1..2 -> {"initx", "inity", "read", "write", "post", "wait", "down"}]
          /\ place[2] \notin {"initx", "inity"}
          /\ a \in [1..2 -> Values] /\ S \in [1..2 -> Nat]
      BY <1>1, PingPongAssumption DEF PingInit, Values
    <2>4. QED
      BY <2>1, <2>2, <2>3 DEF PingTypeOK
  <1>3. OneBusy /\ Counted
    BY <1>1 DEF PingInit, OneBusy, Counted, Busy
  <1>4. QED
    BY <1>2, <1>3 DEF PingInv

LEMMA PingTypeStep ==
    ASSUME PingTypeOK, [PingNext]_pingVars
    PROVE  PingTypeOK'
  <1> USE PingPongAssumption DEF PingTypeOK, Values
  <1>1. CASE InitX
    BY <1>1 DEF InitX, PingGoto
  <1>2. CASE InitY
    BY <1>2 DEF InitY, PingGoto
  <1>3. ASSUME NEW p \in 1..2, Read(p) PROVE PingTypeOK'
    BY <1>3 DEF Read, PingGoto
  <1>4. ASSUME NEW p \in 1..2, Write(p) PROVE PingTypeOK'
    BY <1>4 DEF Write, PingGoto
  <1>5. ASSUME NEW p \in 1..2, Post(p) PROVE PingTypeOK'
    BY <1>5 DEF Post, PingGoto
  <1>6. ASSUME NEW p \in 1..2, Wait(p) PROVE PingTypeOK'
    BY <1>6 DEF Wait, PingGoto
  <1>7. ASSUME NEW p \in 1..2, PingKill(p) PROVE PingTypeOK'
    BY <1>7 DEF PingKill
  <1>8. ASSUME NEW p \in 1..2, PingStart(p) PROVE PingTypeOK'
    BY <1>8 DEF PingStart
  <1>9. CASE UNCHANGED pingVars
    BY <1>9 DEF pingVars
  <1>10. QED
    BY <1>1, <1>2, <1>3, <1>4, <1>5, <1>6, <1>7, <1>8, <1>9 DEF PingNext, PingStep

LEMMA PingInvStep ==
    ASSUME PingInv, [PingNext]_pingVars
    PROVE  PingInv'
  <1>0. PingTypeOK /\ PingTypeOK'
    BY PingTypeStep DEF PingInv
  <1>1. SUFFICES ASSUME ~twice' PROVE OneBusy' /\ Counted'
    BY <1>0 DEF PingInv
  <1>2. ~twice
    BY <1>0, <1>1 DEF PingNext, PingStep, InitX, InitY, Read, Write, Post, Wait, PingKill, PingStart, pingVars, PingTypeOK
  <1>3. OneBusy /\ Counted
    BY <1>2 DEF PingInv
  <1> USE DEF OneBusy, Counted, Busy
  <1>4. CASE InitX
    BY <1>0, <1>3, <1>4 DEF InitX, PingGoto, PingTypeOK
  <1>5. CASE InitY
    BY <1>0, <1>3, <1>5 DEF InitY, PingGoto, PingTypeOK
  <1>6. ASSUME NEW p \in 1..2, Read(p) PROVE OneBusy' /\ Counted'
    BY <1>0, <1>3, <1>6 DEF Read, PingGoto, PingTypeOK
  <1>7. ASSUME NEW p \in 1..2, Write(p) PROVE OneBusy' /\ Counted'
    <2>1. CASE p = 1
      BY <1>0, <1>3, <1>7, <2>1 DEF Write, PingGoto, PingTypeOK
    <2>2. CASE p = 2
      BY <1>0, <1>3, <1>7, <2>2 DEF Write, PingGoto, PingTypeOK
    <2>3. QED
      BY <2>1, <2>2
  <1>8. ASSUME NEW p \in 1..2, Post(p) PROVE OneBusy' /\ Counted'
    <2>1. CASE p = 1
      BY <1>0, <1>3, <1>8, <2>1 DEF Post, PingGoto, PingTypeOK
    <2>2. CASE p = 2
      BY <1>0, <1>3, <1>8, <2>2 DEF Post, PingGoto, PingTypeOK
    <2>3. QED
      BY <2>1, <2>2
  <1>9. ASSUME NEW p \in 1..2, Wait(p) PROVE OneBusy' /\ Counted'
    BY <1>0, <1>3, <1>9 DEF Wait, PingGoto, PingTypeOK
  <1>10. ASSUME NEW p \in 1..2, PingKill(p) PROVE OneBusy' /\ Counted'
    BY <1>0, <1>3, <1>10 DEF PingKill, PingTypeOK
  <1>11. ASSUME NEW p \in 1..2, PingStart(p) PROVE OneBusy' /\ Counted'
    <2>1. /\ place[p] = "down"
          /\ p = 1 => ~Busy(2) /\ S[1] = 0 /\ S[2] = 0
          /\ place' = [place EXCEPT ![p] = IF p = 1 THEN "initx" ELSE "wait"]
          /\ a' = [a EXCEPT ![p] = 0] /\ UNCHANGED <<x, y, S>>
      <3>1. p = 1 => ~(Busy(2) \/ S[1] > 0 \/ S[2] > 0)
        <4> HIDE DEF Busy
        <4> QED BY <1>1, <1>11 DEF PingStart
      <3>2. S[1] \in Nat /\ S[2] \in Nat
        BY <1>0 DEF PingTypeOK
      <3>3. QED
        BY <1>11, <3>1, <3>2 DEF PingStart
    <2>2. CASE p = 1
      <3>1. place'[1] = "initx" /\ place'[2] = place[2] /\ a'[2] = a[2] /\ S[1] = 0 /\ S[2] = 0
        BY <1>0, <2>1, <2>2 DEF PingTypeOK
      <3>2. ~Busy(2)
        BY <2>1, <2>2
      <3>3. OneBusy'
        BY <2>1, <3>1, <3>2
      <3>4. QED
        BY <2>1, <3>1, <3>2, <3>3
    <2>3. CASE p = 2
      <3>1. place'[2] = "wait" /\ place'[1] = place[1] /\ a'[1] = a[1] /\ place[2] = "down"
        BY <1>0, <2>1, <2>3 DEF PingTypeOK
      <3>2. QED
        BY <1>3, <2>1, <3>1
    <2>4. QED
      BY <2>2, <2>3
  <1>12. CASE UNCHANGED pingVars
    BY <1>3, <1>12 DEF pingVars
  <1>13. QED
    BY <1>4, <1>5, <1>6, <1>7, <1>8, <1>9, <1>10, <1>11, <1>12 DEF PingNext, PingStep

LEMMA PingInvariance == PingSpec => []PingInv
  BY PingInvInit, PingInvStep, PTL DEF PingSpec

\* No text is read while it is written, wherever the two are stopped and started again,
\* unless P1 is started while P2, or a semaphore, has the turn.
THEOREM ExclusiveTheorem == PingSpec => []Exclusive
  <1>1. PingInv => Exclusive
    BY DEF PingInv, OneBusy, Exclusive
  <1>2. QED
    BY <1>1, PingInvariance, PTL

\* Nor is an increment lost or made twice, under the same condition: a P1 that is started
\* when nobody has the turn begins the count anew.
THEOREM CountsUpTheorem == PingSpec => []CountsUp
  <1>1. PingInv => CountsUp
    BY DEF PingInv, OneBusy, Counted, CountsUp, Busy
  <1>2. QED
    BY <1>1, PingInvariance, PTL

-----------------------------------------------------------------------------
(* The ring of two. *)

LEMMA TwoInit == PingInit => Two!SemInit
  BY DEF PingInit, Two!SemInit, Two!SemProcs, Two!First, Busy

LEMMA TwoStep == PingTypeOK /\ [PingNext]_pingVars => [Two!SemNext]_Two!semVars
  <1> SUFFICES ASSUME PingTypeOK, [PingNext]_pingVars PROVE [Two!SemNext]_Two!semVars
    OBVIOUS
  <1>1. CASE InitX
    BY <1>1 DEF InitX, PingGoto, PingTypeOK, Two!semVars, Busy
  <1>2. CASE InitY
    BY <1>2 DEF InitY, PingGoto, PingTypeOK, Two!semVars, Busy
  <1>3. ASSUME NEW p \in 1..2, Read(p) PROVE UNCHANGED Two!semVars
    BY <1>3 DEF Read, PingGoto, PingTypeOK, Two!semVars, Busy
  <1>4. ASSUME NEW p \in 1..2, Write(p) PROVE UNCHANGED Two!semVars
    BY <1>4 DEF Write, PingGoto, PingTypeOK, Two!semVars, Busy
  <1>5. ASSUME NEW p \in 1..2, Post(p) PROVE Two!SemPost(p)
    <2>1. 3 - p = Two!SemRight(p)
      BY DEF Two!SemRight
    <2>2. QED
      BY <1>5, <2>1 DEF Post, PingGoto, PingTypeOK, Two!SemPost, Busy
  <1>6. ASSUME NEW p \in 1..2, Wait(p) PROVE Two!SemWait(p)
    BY <1>6 DEF Wait, PingGoto, PingTypeOK, Two!SemWait, Busy
  <1>7. ASSUME NEW p \in 1..2, PingKill(p) PROVE Two!SemKill(p)
    BY <1>7 DEF PingKill, PingTypeOK, Two!SemKill, Busy
  <1>8. ASSUME NEW p \in 1..2, PingStart(p) PROVE Two!SemStart(p)
    <2>1. Two!UnderWay <=> Busy(1) \/ Busy(2) \/ S[1] > 0 \/ S[2] > 0
      BY DEF PingTypeOK, Two!UnderWay, Two!SemProcs, Busy
    <2>2. p = 1 => ~Busy(1)
      BY <1>8 DEF PingStart, Busy
    <2>3. QED
      BY <1>8, <2>1, <2>2 DEF PingStart, PingTypeOK, Two!SemStart, Two!First, Busy
  <1>9. CASE UNCHANGED pingVars
    BY <1>9 DEF pingVars, Two!semVars, Busy
  <1>10. QED
    BY <1>1, <1>2, <1>3, <1>4, <1>5, <1>6, <1>7, <1>8, <1>9
       DEF PingNext, PingStep, Two!SemNext, Two!SemProcs

\* The two processes are the semaphore ring for N = 2, texts left out.
THEOREM RingOfTwoTheorem == PingSpec => RingOfTwo
  <1>1. PingInv => PingTypeOK
    BY DEF PingInv
  <1>2. QED
    BY <1>1, TwoInit, TwoStep, PingInvariance, PTL DEF PingSpec, RingOfTwo, Two!SemSpec
=============================================================================

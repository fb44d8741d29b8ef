------------------------------ MODULE SignalRing ------------------------------
(***************************************************************************)
(* Assignment_4/q1: P1.c .. P4.c tell each other their pids over a System  *)
(* V message queue and then send a turn round the ring with signals: three *)
(* times with SIGUSR1 to the right, three times with SIGUSR2 to the left.  *)
(* A process waits for its turn in pause(), which returns only for a       *)
(* signal that is handled while the process is inside it.                  *)
(*                                                                         *)
(* Nothing removes the queue (the msgctl is commented out), so what one    *)
(* run of the four programs leaves there is found by the next.             *)
(***************************************************************************)
EXTENDS Integers, Sequences, FiniteSets

CONSTANTS
    N,          \* processes (4)
    Rounds,     \* turns each way (3)
    MaxRuns     \* bound: times the programs are started

ASSUME SignalRingAssumption ==
    /\ N \in Nat /\ N >= 3
    /\ Rounds \in Nat \ {0}
    /\ MaxRuns \in Nat \ {0}

Procs == 1..N
Types == 2..N                   \* message types in use
Right(p) == IF p = N THEN 1 ELSE p + 1
Left(p) == IF p = 1 THEN N ELSE p - 1
NoPid == 0

VARIABLES
    run,        \* which run of the programs this is; the queue outlives it
    queue,      \* the pids in the messages of each type
    pc, round,  \* where main() is, and j of its for loop
    left, right,\* the pids a process signals
    pending,    \* signals not yet delivered
    sender,     \* si_pid of the pending SIGUSR1
    missed,     \* history: in this run a signal met no pause(), or no handler
    clean       \* history: this run began with an empty queue

vars == <<run, queue, pc, round, left, right, pending, sender, missed, clean>>

Pid(p) == N * run + p           \* every run has pids of its own
Pids == 0..(N * MaxRuns)

Paused == {"await", "pause", "rpause"}
PCs == {"start", "learn", "tell", "kill", "install", "rkill", "done", "dead"} \cup Paused

TypeOK ==
    /\ run \in 0..(MaxRuns - 1)
    /\ queue \in [Types -> Seq(Pids)]
    /\ pc \in [Procs -> PCs] /\ round \in [Procs -> 0..(Rounds - 1)]
    /\ left \in [Procs -> Pids] /\ right \in [Procs -> Pids]
    /\ pending \in [Procs -> SUBSET {"USR1", "USR2"}]
    /\ sender \in [Procs -> Pids]
    /\ missed \in BOOLEAN /\ clean \in BOOLEAN

Init ==
    /\ run = 0 /\ queue = [k \in Types |-> <<>>]
    /\ pc = [p \in Procs |-> "start"] /\ round = [p \in Procs |-> 0]
    /\ left = [p \in Procs |-> NoPid] /\ right = [p \in Procs |-> NoPid]
    /\ pending = [p \in Procs |-> {}] /\ sender = [p \in Procs |-> NoPid]
    /\ missed = FALSE /\ clean = TRUE

Goto(p, from, to) == pc[p] = from /\ pc' = [pc EXCEPT ![p] = to]
Send(k, pid) == queue' = [queue EXCEPT ![k] = Append(@, pid)]

-----------------------------------------------------------------------------
(* Signals *)

Alive(p) == pc[p] \notin {"start", "done", "dead"}

\* kill(): nothing happens to the pid of a process that has gone, and a signal that
\* is pending already is merged.
Signal(from, pid, sig) ==
    LET Hit(p) == Pid(p) = pid /\ Alive(p) IN
    /\ pending' = [p \in Procs |-> IF Hit(p) THEN pending[p] \cup {sig} ELSE pending[p]]
    /\ sender' = [p \in Procs |-> IF Hit(p) /\ sig = "USR1" /\ "USR1" \notin pending[p]
                                  THEN Pid(from) ELSE sender[p]]

Handled(p) == IF pc[p] \in {"rkill", "rpause"} THEN {"USR1", "USR2"} ELSE {"USR1"}

\* Variant of Wake: P1 turns back a round early.
WakeRoundEarly(p) ==
    /\ pc' = [pc EXCEPT ![p] = IF pc[p] = "await" THEN "learn"
                               ELSE IF pc[p] = "rpause" THEN "rkill"
                               ELSE IF p = 1 /\ round[p] + 2 = Rounds THEN "install" ELSE "kill"]
    /\ round' = [round EXCEPT ![p] = IF p = 1 /\ @ + 2 < Rounds THEN @ + 1 ELSE 0]
    /\ UNCHANGED missed

\* What follows each pause(); P1 counts its rounds here, the others after kill().
Wake(p) ==
    LET last == round[p] + 1 = Rounds
        to   == CASE pc[p] = "await" -> "learn"
                  [] pc[p] = "pause" -> (IF p = 1 /\ last THEN "install" ELSE "kill")
                  [] pc[p] = "rpause" -> (IF p = 1 /\ last THEN "done" ELSE "rkill")
    IN  /\ pc' = [pc EXCEPT ![p] = to]
        /\ round' = [round EXCEPT ![p] = IF p # 1 THEN @ ELSE IF last THEN 0 ELSE @ + 1]
        /\ UNCHANGED missed

\* A handler runs; the pause() it interrupts, if the process is in it, returns.
Deliver(p, sig) ==
    /\ sig \in pending[p] /\ sig \in Handled(p)
    /\ pending' = [pending EXCEPT ![p] = @ \ {sig}]
    /\ left' = IF sig = "USR1" THEN [left EXCEPT ![p] = sender[p]] ELSE left
    /\ \/ pc[p] \in Paused /\ Wake(p)
       \/ missed' = TRUE /\ UNCHANGED <<pc, round>>
    /\ UNCHANGED <<run, queue, right, sender, clean>>

\* A SIGUSR2 that comes before sigaction() ends the process.
Terminate(p, sig) ==
    /\ sig \in pending[p] /\ sig \notin Handled(p)
    /\ pc' = [pc EXCEPT ![p] = "dead"]
    /\ pending' = [pending EXCEPT ![p] = {}]
    /\ missed' = TRUE
    /\ UNCHANGED <<run, queue, round, left, right, sender, clean>>

-----------------------------------------------------------------------------
(* main() *)

\* Variants of Start: without the first pause(); with P1 announcing itself as well.
StartNoPause(p) ==
    /\ Goto(p, "start", "learn")
    /\ IF p = 1 THEN UNCHANGED queue ELSE Send(p, Pid(p))
    /\ UNCHANGED <<run, round, left, right, pending, sender, missed, clean>>
StartP1Announces(p) ==
    /\ IF p = 1 THEN Goto(p, "start", "learn") /\ Send(2, Pid(p))
                ELSE Goto(p, "start", "await") /\ Send(p, Pid(p))
    /\ UNCHANGED <<run, round, left, right, pending, sender, missed, clean>>

\* sigaction(SIGUSR1); all but P1 then put their pid in the queue and pause.
Start(p) ==
    /\ IF p = 1 THEN Goto(p, "start", "learn") /\ UNCHANGED queue
                ELSE Goto(p, "start", "await") /\ Send(p, Pid(p))
    /\ UNCHANGED <<run, round, left, right, pending, sender, missed, clean>>

\* msgrcv() of the right neighbour's pid; P1's comes as type 2 as well.
Learn(p) ==
    LET k == IF p = N THEN 2 ELSE p + 1 IN
    /\ Goto(p, "learn", IF p = 2 THEN "tell" ELSE "kill")
    /\ queue[k] # <<>>
    /\ right' = [right EXCEPT ![p] = Head(queue[k])]
    /\ queue' = [queue EXCEPT ![k] = Tail(@)]
    /\ UNCHANGED <<run, round, left, pending, sender, missed, clean>>

\* Variant of Tell: the pid still in the buffer, P3's, goes out.
TellRight(p) ==
    /\ Goto(p, "tell", "kill")
    /\ Send(2, right[p])
    /\ UNCHANGED <<run, round, left, right, pending, sender, missed, clean>>

\* P2 passes on the pid of P1, as type 2.
Tell(p) ==
    /\ Goto(p, "tell", "kill")
    /\ Send(2, left[p])
    /\ UNCHANGED <<run, round, left, right, pending, sender, missed, clean>>

\* The end of one pass of a for loop after its kill().
Looped(p, again, after) ==
    LET last == round[p] + 1 = Rounds IN
    /\ pc' = [pc EXCEPT ![p] = IF p # 1 /\ last THEN after ELSE again]
    /\ round' = [round EXCEPT ![p] = IF p = 1 THEN @ ELSE IF last THEN 0 ELSE @ + 1]

KillRight(p) ==
    /\ pc[p] = "kill"
    /\ Signal(p, right[p], "USR1")
    /\ Looped(p, "pause", "install")
    /\ UNCHANGED <<run, queue, left, right, missed, clean>>

\* sigaction(SIGUSR2): P1 begins the way back, the others wait for it.
Install(p) ==
    /\ Goto(p, "install", IF p = 1 THEN "rkill" ELSE "rpause")
    /\ UNCHANGED <<run, queue, round, left, right, pending, sender, missed, clean>>

\* Variant of KillLeft: j < 2 for j < 3.
KillLeftTwice(p) ==
    /\ pc[p] = "rkill"
    /\ Signal(p, left[p], "USR2")
    /\ IF p # 1 /\ round[p] + 2 = Rounds
       THEN pc' = [pc EXCEPT ![p] = "done"] /\ UNCHANGED round
       ELSE Looped(p, "rpause", "done")
    /\ UNCHANGED <<run, queue, left, right, missed, clean>>

KillLeft(p) ==
    /\ pc[p] = "rkill"
    /\ Signal(p, left[p], "USR2")
    /\ Looped(p, "rpause", "done")
    /\ UNCHANGED <<run, queue, left, right, missed, clean>>

Step(p) == Start(p) \/ Learn(p) \/ Tell(p) \/ KillRight(p) \/ Install(p) \/ KillLeft(p)

\* Everything is stopped, in whatever state, and started again.
Rerun ==
    /\ run + 1 < MaxRuns
    /\ run' = run + 1
    /\ pc' = [p \in Procs |-> "start"] /\ round' = [p \in Procs |-> 0]
    /\ left' = [p \in Procs |-> NoPid] /\ right' = [p \in Procs |-> NoPid]
    /\ pending' = [p \in Procs |-> {}] /\ sender' = [p \in Procs |-> NoPid]
    /\ missed' = FALSE
    /\ clean' = \A k \in Types : queue[k] = <<>>
    /\ UNCHANGED queue

Next ==
    \/ \E p \in Procs : Step(p)
    \/ \E p \in Procs, sig \in {"USR1", "USR2"} : Deliver(p, sig) \/ Terminate(p, sig)
    \/ Rerun

Proceeds(p) == Step(p) \/ \E sig \in {"USR1", "USR2"} : Deliver(p, sig) \/ Terminate(p, sig)

\* The scheduler runs every process that can run.
Spec == Init /\ [][Next]_vars /\ \A p \in Procs : WF_vars(Proceeds(p))

-----------------------------------------------------------------------------
(* Properties *)

\* The turn of process p, and what is on its way to it.
Holds(p) ==
    \/ pc[p] \in {"learn", "tell", "kill", "rkill"}
    \/ p = 1 /\ pc[p] \in {"start", "install"}
Tokens == {<<p, "self">> : p \in {q \in Procs : Holds(q)}}
            \cup {t \in Procs \X {"USR1", "USR2"} : t[2] \in pending[t[1]]}

\* Signals carry one turn: whatever signals are missed, kill a process or are left
\* over from an earlier run, no two processes ever act, or are told to, at a time.
OneTurn == \A a, b \in Tokens : a = b

\* Although the messages with P2's and with P1's pid have the same type, each process
\* of a run that began with an empty queue learns the pids of its own neighbours.
NeighboursKnown ==
    clean => \A p \in Procs : /\ right[p] \in {NoPid, Pid(Right(p))}
                              /\ left[p] \in {NoPid, Pid(Left(p))}

\* The way back begins only after every process has sent its last SIGUSR1.
PhasesApart ==
    (\E p \in Procs : "USR2" \in pending[p] \/ pc[p] \in {"rkill", "done"})
    => \A p \in Procs : /\ "USR1" \notin pending[p]
                        /\ pc[p] \in {"install", "rpause", "rkill", "done", "dead"}

\* A run that began with an empty queue and came to the way back leaves it empty, so
\* that the next run finds no pid of this one.
QueueDrained == (clean /\ pc[1] = "rkill") => \A k \in Types : queue[k] = <<>>

\* A run that began with an empty queue ends, unless a signal is missed: the races
\* of kill() with pause() and with sigaction() are all that can stop the ring.
Completes ==
    \A r \in 0..(MaxRuns - 1) :
        (run = r /\ clean) ~> ((\A p \in Procs : pc[p] = "done") \/ missed \/ run # r)
=============================================================================

------------------------------- MODULE SemRing -------------------------------
(***************************************************************************)
(* Assignment_4/q3: P1.c .. P4.c pass a turn round a ring of named         *)
(* semaphores S12, S23, S34, S41.  P1 posts first and waits then; the      *)
(* others wait first.  Between the two each reads a character from its     *)
(* terminal.                                                               *)
(*                                                                         *)
(* The sem_unlink calls come after an endless loop: the semaphores and     *)
(* their values outlive the processes, which the user stops and starts.    *)
(***************************************************************************)
EXTENDS Integers

CONSTANTS
    Size,       \* processes (4)
    MaxKills,   \* bound: processes stopped from outside
    MaxStarts   \* bound: processes started again

ASSUME SemRingAssumption ==
    /\ Size \in Nat /\ Size >= 2
    /\ MaxKills \in Nat /\ MaxStarts \in Nat

SemProcs == 1..Size
SemRight(p) == IF p = Size THEN 1 ELSE p + 1

VARIABLES
    at,         \* "wait": before sem_wait(); "post": before sem_post(); "down"
    sem,        \* the value of the semaphore process p waits on
    kills, starts,
    doubled     \* history: P1 was started while a turn was under way

semVars == <<at, sem, kills, starts, doubled>>

\* The call a process makes first.
First(p) == IF p = 1 THEN "post" ELSE "wait"

SemTypeOK ==
    /\ at \in [SemProcs -> {"wait", "post", "down"}]
    /\ sem \in [SemProcs -> Nat]
    /\ kills \in 0..MaxKills /\ starts \in 0..MaxStarts /\ doubled \in BOOLEAN

SemInit ==
    /\ at = [p \in SemProcs |-> First(p)]
    /\ sem = [p \in SemProcs |-> 0]            \* sem_open(.., O_CREAT, 0666, 0)
    /\ kills = 0 /\ starts = 0 /\ doubled = FALSE

\* Variants of SemWait and SemPost: a wait that does not wait; the own semaphore.
SemDecrement(p) ==
    /\ at[p] = "wait"
    /\ sem' = [sem EXCEPT ![p] = @ - 1]
    /\ at' = [at EXCEPT ![p] = "post"]
    /\ UNCHANGED <<kills, starts, doubled>>
SemPostOwn(p) ==
    /\ at[p] = "post"
    /\ sem' = [sem EXCEPT ![p] = @ + 1]
    /\ at' = [at EXCEPT ![p] = "wait"]
    /\ UNCHANGED <<kills, starts, doubled>>

SemWait(p) ==
    /\ at[p] = "wait"
    /\ sem[p] > 0
    /\ sem' = [sem EXCEPT ![p] = @ - 1]
    /\ at' = [at EXCEPT ![p] = "post"]
    /\ UNCHANGED <<kills, starts, doubled>>

SemPost(p) ==
    /\ at[p] = "post"
    /\ sem' = [sem EXCEPT ![SemRight(p)] = @ + 1]
    /\ at' = [at EXCEPT ![p] = "wait"]
    /\ UNCHANGED <<kills, starts, doubled>>

SemKill(p) ==
    /\ at[p] # "down" /\ kills < MaxKills
    /\ kills' = kills + 1
    /\ at' = [at EXCEPT ![p] = "down"]
    /\ UNCHANGED <<sem, starts, doubled>>

UnderWay == \E p \in SemProcs : at[p] = "post" \/ sem[p] > 0

\* sem_open() finds the semaphore as it was left.
SemStart(p) ==
    /\ at[p] = "down" /\ starts < MaxStarts
    /\ starts' = starts + 1
    /\ at' = [at EXCEPT ![p] = First(p)]
    /\ doubled' = (doubled \/ (p = 1 /\ UnderWay))
    /\ UNCHANGED <<sem, kills>>

SemNext == \E p \in SemProcs : SemWait(p) \/ SemPost(p) \/ SemKill(p) \/ SemStart(p)

SemSpec == SemInit /\ [][SemNext]_semVars

\* Every process runs, and the user answers every scanf().
SemFairSpec == SemSpec /\ \A p \in SemProcs : WF_semVars(SemWait(p) \/ SemPost(p))

-----------------------------------------------------------------------------
(* Properties *)

Has(p) == IF at[p] = "post" THEN 1 ELSE 0

\* One process at most is between its sem_wait() and its sem_post(), and then no
\* semaphore can be taken, whatever processes are stopped and started again and
\* wherever they were: only a P1 that is started again while another process, or a
\* semaphore, has the turn brings a second one.
SemOneTurn ==
    ~doubled =>
      \A p \in SemProcs : at[p] = "post" =>
         \A q \in SemProcs : sem[q] = 0 /\ (at[q] = "post" => q = p)

\* Until a process is stopped each one gets its turn again and again.
EveryTurn ==
    \A p \in SemProcs : (kills = 0) ~> (at[p] = "post" \/ kills > 0)

\* The ring passes turns and only stopping and starting a process takes away or
\* doubles one: a P1 that is started again brings a turn with it, and whoever is
\* stopped before sem_post() takes one away.
Ring == INSTANCE Turns WITH N <- Size,
    turns <- [p \in SemProcs |-> sem[p] + Has(p)],
    faults <- kills + starts
RingSpec == Ring!Spec
=============================================================================

# CN-Codes: a verification development

CN-Codes is a collection of networked C and C++ programs. Most of them are small
systems: two to nine programs, each a process of its own, that share TCP and raw sockets,
Unix domain sockets over which they pass descriptors (SCM_RIGHTS), System V message queues
and shared memory, named semaphores, and signals. This directory models those systems
in TLA+, checks the models with TLC, and proves theorems about some with TLAPS.

Source paths are relative to `src/`. `PROJECT.json` maps each definition to the lines it
models and lists the runs, the variants of definitions that the properties must refute
(`mutants`), the hazards and the theorems.

* [1 Inventory](#1-inventory)
* [2 Modules, and how they correspond to the code](#2-modules-and-how-they-correspond-to-the-code)
* [3 Runs: what is checked, bounds, fairness](#3-runs-what-is-checked-bounds-fairness)
* [4 Proofs](#4-proofs)
* [5 Findings](#5-findings)
* [6 What is not modelled, and why](#6-what-is-not-modelled-and-why)
* [7 Plan](#7-plan)

## 1 Inventory

The systems are independent of each other: no two of them share a file, a path that both
use at a time, or a function. Inside a system the programs interact as follows.

### Modelled systems

| System | State kept | Operations | Interaction | Hard behaviour | Correct when |
|---|---|---|---|---|---|
| `Unix_Domain_socket/NITW_Rail` station master SM, platforms P1-P3, trains T1.. | SM: `flag[]`, the set of select(); the queue; `./fsock` and its accept queue; the descriptor in flight | SM: select, scan, accept, announce, make `./fsock`, accept, send_fd, recv; platform: msgrcv, connect, recv_fd, report | TCP port per station, message queue by type, Unix socket | announcement before the listener exists; deaths at any point; the queue outlives all; a full queue blocks | a train goes to the platform of its station, and calls do not outlive their train |
| `Mid_Lab_CN/Q1` ESS and ring of clients C1..C4 | shared table `i, cli_num[], pids[]`; each client's neighbour and flags; one TCP session | register, SIGUSR1 to neighbours, SIGUSR2 to the next, hand the session over `socketN`, read and answer a greeting | shared memory, two signals, Unix sockets, TCP | unlocked registration; signals before handlers, merged, or interrupting calls | the session is in one place; every greeting is answered once; the ring closes |
| `Assignment_4/q1` P1-P4 | pids learned, round, queue | tell pid, signal right three times, left three times | queue and SIGUSR1/2, pause() | lost wakeup; signal before handler; leftovers of an earlier run | one turn at a time, right neighbours, the run ends |
| `Assignment_4/q3` P1-P4 | four named semaphores | sem_wait, sem_post | semaphores that outlive processes | stop and start anywhere | one turn, which comes round |
| `Assignment_4/q4` P1, P2 | two texts, two semaphores | read, add one, write, post, wait | shared memory, semaphores | restart of P1 resets both texts | no access at the same time, no increment lost |
| `207110_END_LAB` organiser O, service points SP1, SP2, `test.c` | the word `chance`, the message queue, two Unix listeners, passed descriptors | start-up; set the word, pass the raw socket, spin; read five messages, answer; remove the queue | shared word, Unix sockets, queue filled by a thread | two unsynchronised reads of one word; leftovers in the segment; deaths and restarts of each process; a queue replaced between its users | reads exclude each other, turns go on |
| `DVS` SM, platforms p1, p2, trains | `platformStatus[]`, socket paths, accept queues, the byte stream to each platform | start-up; select, scan, accept, announce, give; recv, getFD, read the train | TCP, Unix *stream* sockets, shared memory | start-up in any order with paths and status left over; announcement and descriptor on one stream; status tested before it is set | each descriptor in one place; trains are served |
| `Internet_Super_Server_Reports` S, S1, clients | listeners never closed, `./fsock`, reports | accept, fork+exec, make `./fsock`, accept, send_fd, five reports | TCP, Unix sockets | S1 races the listener it connects to; SO_REUSEPORT restart; a client or an S1 that dies | the right S1 serves; S and S1 count alike |
| `Raw_Sockets/m_n_server` servers and clients | `nsfd[255]` and its index, a thread per slot, the set of select() | query by datagram, connect, a line for a line; select, accept into a slot, read, convert, send | raw and TCP sockets, threads that are given the address of a slot | the index moves on while threads read their slots; answers cut by buffers of 50 and 100 bytes; resets and SIGPIPE | a connection is read by one thread, answers come in order and in step, a server outlives its clients |
| `Mid_Lab_Prep/Pizza` B, W1, D, C1 | paths `./fsock`, `./c1sock`; descriptors on their way; orders paid | order, pay, pass to packer, pass to delivery, deliver | TCP, two Unix sockets made anew for each order | a path leads to an old listener; second connect() on one socket; two messages in one recv() | paid before passed, passed before delivered |
| `Signals/Mid_exam_Q2_ASK` AT, R1-R3, candidates | sockets at seven paths; AT's poll loop | start-up as a list of listen/accept/connect; answer, pass the candidate on | Unix sockets, TCP | order in which programs are started | AT opens, candidates are answered |

### Systems not modelled (section 6 gives the reason)

| System | State and operations | Hard behaviour | Correct when |
|---|---|---|---|
| `Mid_Questions/Q2` S, S1-S4, C1-C4 | select() over four ports, fork/dup2/exec per ready port | the listener stays ready until the child accepts: a process is forked per select() | one child per client |
| `Mid_Questions/Q3` PS, SS1, SS2, C1, C2 | threads of a server share `sss`, a buffer and a lock that each re-initialises; the server connects back to the client | data race, call-back before the client listens | every client gets the answer to its own request |
| `Raw_Sockets/IP_header`, `Packet_Sniffing` | checksums of headers | odd lengths | the one's complement sum |
| `Raw_Sockets/Central_Service_Provider` | CSP and services, mostly stubs | - | - |
| `Signals/Iterative_Connectionless`, `Connectionless_Services_Fork` | recvfrom/sendto loops, a fork per datagram | children are not waited for | one answer per datagram |
| `Unix_Domain_socket/client_server`, `Sender_Receiver` | one descriptor passed once | file offset shared by both ends | - |
| `Assignment_1`, `Assignment_4/q2`, `fcntl`, `Popen`, `Practice_minro`, `GDB_V1`, `server.c`, `client1.c` | one call each: pipe, dup, popen, poll, O_ASYNC, a thread per client | - | - |
| `end.c`, `J`, `c.c`, archives, binaries, editor settings | one-shot tools, programs that never get past their first call or do not compile, no source text | - | - |

### Hazards

`PROJECT.json` lists them at their lines, each with the properties that cover it. A few more
bite in this code and are covered by no property: descriptors that are never closed, so
that accept() fails with EMFILE after some hundred clients (`NITW_Rail/SM.c:195`,
`Mid_Lab_CN/Q1/C1.c:243`, `Internet_Super_Server_Reports/S.c:100`); `init.c:39` of
Mid_Lab_CN makes a segment of 804 bytes where the clients ask for 808, so that after
`run.sh` every client fails at shmget(); `NITW_Rail/SM.c:164` takes the maximum over
`fd[0..3]` of an array of three; `chance` in END_LAB is not volatile, and the model is of
a build without optimisation; what DVS's platforms send back is read by nobody;
`Assignment_4/q4/P1.c:44` writes six bytes into `st[5]` when the number comes to 10000;
`m_n_server/server.c` has 255 slots and no test, and ends a line of 50 bytes one past its
buffer.

## 2 Modules, and how they correspond to the code

Each system has a module `X` (constants, variables, `TypeOK`, `Init`, an action per system
call or handler, `Next`, `Spec`, properties), a module `MCX` with the constants of its
small instance. Theorems about X are in `XProof`, those about the three rings of Assignment_4 in
`RingsProof` and those about DVS and Interview in `DescriptorsProof`; modules that one proof module
extends have names of their own for what they declare (`semVars`, `PingSpec`, `InterviewTypeOK`). A control variable (`pc`,
`smPc`, `b`, ...) holds the call a program is about to make; an action is that call with
everything up to the next one, its failure being an action or disjunct of its own. Comments
in the modules name what is merged. Payloads are left out unless a property tells them apart.

**Rail** (`SM.c`, `P1.c`-`P3.c`, `T1.c`). `SmSelect .. SmUnnotified` are the calls of SM's
main() and pass_fd(); `flag`, `rfds`, `i`, `j`, `nsfd`, `peer` are its variables. When recv() brings
nothing, `nno[1]` is not initialised (`SM.c:122`), and what the code then takes for a flag is any flag,
none, or out of reach, which ends SM (`SmUnnotified`). `queue[p]`
is the message type p of the System V queue, `listening`/`backlog` the socket `./fsock`,
`fdbuf[p]` the descriptor in flight to p. `PlatReceive .. PlatReportFails` are the platforms,
which differ in a number. Every process can die, by exit(1), by SIGPIPE or killed, and be
started again; the queue stays.

**ESSRing** (`ESS.c`, `C1.c`-`C4.c`). Registration is modelled access by access
(`check, slot, num, pid, inc, store`), so two clients that are launched together really
race on `m->i`. A signal is `pending` until its receiver makes its next call, a second one of
the same kind is merged with the first, and one that finds a blocked call interrupts it
(no SA_RESTART). The two kill() calls with which a client enters the ring are a step each
(`TellLeft`, `TellRight`). The program tests none of the calls after it has joined: each one that
fails is named in `failed` and the turn goes on, with descriptor -1 (`Bad`) where one was to
come. A socket that is never closed stays (`stray`). The ESS accepts once: a second session stays
in its backlog, and is reset when the ESS ends, which it does by SIGPIPE at a write() to a session
that was closed; read() from a session that was reset fails, and write() after that ends the
client too (`Reset`, `WriteBroken`).

**SignalRing** (`Assignment_4/q1`). `pc` follows main(); `pending`, `sender` are signals not
yet delivered; a signal that comes outside pause() is handled and gone (`missed`). Runs of
the four programs follow each other on the same queue.

**Turns, SemRing, PingPong** (`Assignment_4/q3`, `q4`). `Turns` is the abstract promise: a
turn goes from neighbour to neighbour and only faults take or make one. `SemRing` has a
semaphore per process; it implements `Turns` with `turns[p] = sem[p] + Has(p)` and
`faults = kills + starts`. `PingPong` has the two texts and implements `SemRing` with N = 2:
everything a process does between sem_wait() and sem_post() is "post". So the shared-memory
program implements, by way of the ring, the abstract turn. What may break the promise is one thing,
which the history variables `doubled` and `twice` record: P1, which begins without waiting, was
started while somebody, or a semaphore, had the turn. Any other stop or start keeps it.

**TurnTaking** (`O.c`, `SP1.c`, `SP2.c`, `test.c`). `OStart, Listen, Accept, CreateThread` are
the start-up of the organiser, `Connect` and what follows that of a point; `SetChance`,
`SendFd`, `SpinEnds` the organiser's loop; `If`, `ElseIf`, `Spin` the separate reads of
`chance`; the Collector is the thread `put_in_queue()`. `link[s]` is the point's end of its
connection, `stale` the connections of dead points that the organiser will still accept,
`holders` who has the queue that is in use, as opposed to one that `test.c` removed. Any
process may be killed at any place and started again. Word and queue start with anything.

**DVS** (`SM.cpp`, `p1.cpp`, `p2.cpp`). `ListenPorts .. AcceptPlatform` and `PlatStart` are the
start-up: SM exits when a path is still there, a platform that comes too early reads from a
socket without a peer. `stream[p]` is the sequence of two-byte pieces on
the way to platform p, `Taken` what one recv() takes of it: up to the first piece with a
descriptor, which is dropped. `Accepted` says which platforms SM accepts: one as the source
stands, two with the lines it marks UNCOMMENT.

**SuperServer** (`S.c`, `S1.c`, `C1.c`). The S1 forked for client c and the listener made
for it are called c. `fsock` is the listener the path leads to, `own`/`inherited` who keeps
a listener alive, `home` the run of S whose port a client is queued at. S, an S1 or a client
may be killed anywhere; recv() from a client that has gone returns nothing at once, which
S1 reports like a message, and send() to an S that has gone ends an S1 (SIGPIPE).

**MNServer** (`server.c`, `client.c`). `up` and `j` are a server's start-up, `readset` and `ready` its
set of select() before and after the call. `tfd` is what a thread found in its slot of
`nsfd`. Bytes are counted in units of 25, so that a thread's recv() takes two and a client's
four. What is sent is numbered: `req` and `rsp` are the streams there and back. The clients
are bound to one address, so that a reply comes to all that have a raw socket; they are
numbered in the order in which they connect, which loses nothing as they run one program.
`link` is the state of the connection at the server's end: `fin` (the client closed),
`reset`, `pipe` (a send() was answered by a reset), `ended`, `down` (the server died).

**Pizza** (`B.c`, `W1.c`, `D.c`, `C1.c`). B and W1 walk the same six places
(`unlink, bind, listen, accept, send, unlinkagain`) for their path; a queue is that of the
listener the path leads to now, the others being forgotten as nobody accepts there.
`BEnds` and `WEnds` are what the end of a process, by a kill or by SIGPIPE, does to the one
that waits for a descriptor from it: `reset` if it was not accepted yet, and otherwise `eof`, where
recv_fd() returns 0 from a buffer nobody wrote, and the terminal is passed on (`junk`).

**Interview** (`at.c`, `r1.c`-`r3.c`). `AT`, `R1`, `R2`, `R3` are the start-ups as sequences of
`listen`, `accept`, `connect` on named paths, in the order and with the spelling of the source
(`fscok6` is not `fsock6`); `Start(p)` makes the next call; `Loop` is AT's poll loop. `conn` is a
candidate's connection at AT's end. The error of a reset goes to the first call that meets it: to
read() when nothing is left to read, so that write() ends AT by SIGPIPE, and otherwise to write(), the
connection being `broken` for the next pass.

## 3 Runs: what is checked, bounds, fairness

CHECK_DEADLOCK is FALSE where the system really stops: trains, clients and orders are
finite, or the code has a deadlock that a property describes. States are TLC's distinct ones.
Each module has a type invariant, which is proved for every value of the constants; a cfg names
one only where it is what the run has to say (Rail).

| Run | Properties | Instance | States |
|---|---|---|---|
| `rail` | RoutingCorrect, InvitationIsCurrent, StuckOnlyByDeath, FlagsFree, Served | 3 stations, 3 trains (two for one station), queue of 3, one kill, one restart of SM, platforms started again at will | 107,478 |
| `ess_ring` | SessionOnce, GreetingAnswered, RingClosed | 3 clients launched in turn, signals interrupting one kind of call; or two together, all kinds; 2 unread greetings; symmetry in the clients | 282,031 |
| `signal_ring` | OneTurn, NeighboursKnown, PhasesApart, QueueDrained, Completes | N = 4, 3 rounds, 2 runs | 680 |
| `sem_ring` | SemOneTurn, EveryTurn, RingSpec | N = 4, 2 stops, 2 starts | 420 |
| `ping_pong` | Exclusive, CountsUp, Grows, RingOfTwo | numbers to 6, 2 stops, 2 starts | 3,877 |
| `turn_taking` | TurnHeld, CaughtForGood, Rotates | 5 reads as in the code, queue of 3, backlog of 2; any number of deaths and restarts; deadlock checked | 143,638 |
| `dvs` | HungOnlyAfterLoss, OnePlace, Served | 3 trains with one platform, 2 with two; no path or all paths left over, any status | 139,382 |
| `dvs_recv` (violation) | RecvIsAnnouncement | one platform | |
| `super_server` | RightS1, Balanced, Served | 3 clients, 2 messages, one process killed, S started again once | 82,769 |
| `mn_server` | InOrder, InStep, Survives, Answered | 2 servers that share a port, one in its loop and one starting; 2 clients, 2 lines of 2 or 3 units; one fault | 198,557 |
| `pizza` | OneEach, PaidFirst, FirstDelivered | 2 orders, 2 starts of W1, 3 of D, any process ends anywhere | 190,194 |
| `interview` | NoInterview, Opens, Answered | 3 candidates, 1 message, 1 leaves, 1 restart | 121,864 |

Why the bounds are enough. *Rail*: a queue of three is filled by one announcement, so the
blocking msgsnd() of a second train is reached; two trains for one port meet the `flag`;
one kill and one restart reach the invitation left over in the queue. *ESSRing*: with three
clients left and right neighbour differ, and two launched together suffice for every pair of
accesses to `m->i` (a third only repeats the race); the ring being closed is already
non-trivial at three. That two kinds of interrupted call come together with three clients was
checked once (`MaxKinds` of 3, 2,214,094 states) and is left out of the run for its length.
*SignalRing*: N and rounds as in the code, and the second run meets what the first left. *SemRing*: N as in the code; two faults of each kind let a turn be
taken away and made up in either order. *PingPong*: six is past the point where a number
depends on the start, and a bound on it is needed since the code breaks at 10000.
*TurnTaking*: five reads are the code's; a queue of three is both full and empty within a
turn; a backlog of two holds a dead point's connection before a live one, and a third blocks. *DVS*: three trains, two of them at one port, give a train that waits while another is
announced while a third is served. *SuperServer*: two messages (five in the code) are enough
to be received as one, separately, or one after the client has gone; a third client comes to
the listener of the second after that of the first; one death is that of S, of an S1 or of a
client. *MNServer*: with two clients the index moves on while the first thread still has to
read its slot; two and three units are a line that fits a thread's buffer and one that does
not; the fault is a failed accept() or a client stopped. *Pizza*: the second order meets
every leftover of the first; a second W1 and D meet what the end of the first left, and a third D
the second W1 after the second D ended too. *Interview*: three candidates, one for each interviewer; the
socket of an interviewer is full after one.

What the runs show, in a sentence each, is in `about` of `PROJECT.json`. Three results are
worth a reader's time:

* In NITW_Rail a train can come to the wrong platform only after SM was restarted, and SM can
  be left waiting only by a platform's death; but that death needs no kill: a platform that
  is quicker than SM's listen() is refused, exits, and SM waits in accept() for good.
* In the interview system no order of starting the four programs ever leads to an
  interview, since R3 connects to `./fsock6` and R2 listens at `./fscok6`.
* In END_LAB the turns exclude each other although nothing synchronises the reads of
  `chance`, whatever is killed and started again; what breaks is progress: a service point
  that comes to its inner spin stays there.
* In m_n_server a line of more than 50 bytes is answered in parts, of which the client reads
  the first: from then on it is one answer behind, and stopped at such a moment it can take
  the server down by SIGPIPE, with all the other clients.

### Fairness

Weak fairness of each *process* (the disjunction of its actions): an operating system
runs a process that can run. Nothing is assumed of kills, starts, arrivals of trains and
clients, or of which ready process goes first.

Liveness properties have a premise where the code really fails: a missed signal (Completes), a
platform that died (Served of Rail), a point caught in its inner spin (Rotates), an S1 that lost its
race (Served of SuperServer), the end of AT or of a server (Answered). What the
premise names is the hazard itself: the safety property beside it (OneTurn,
StuckOnlyByDeath, CaughtForGood, Survives) says how the code comes there where one can be stated, and the note of
the hazard in `PROJECT.json` says so where none can.

| Specification | Fairness | Justified by |
|---|---|---|
| Rail!FairSpec | SM; each platform | the scheduler; nobody restarts a process |
| SemRing!SemFairSpec, PingPong, SignalRing | each process | the scheduler; in SemRing and PingPong also a user who answers the prompt |
| TurnTaking | organiser, its thread, each service point | the scheduler; packets keep coming from `P1.c`, which sends in an endless loop; not: starts, deaths, removal of the queue |
| DVS | SM, each platform that was started, a train leaves | the scheduler; `t1.cpp` and `t2.cpp` close after ten seconds |
| MNServer | each server, whichever of its threads runs, a client's calls that need no input | the scheduler; not: that a user enters a port or a line |
| SuperServer | S, each S1, each client sends | the scheduler; the client sends five messages in a loop |
| Pizza | each of the four programs, once started | the scheduler |
| Interview | AT's loop; some start-up goes on | the four programs are started once; start-ups are finite, so that none keeps another from going on |
| ESSRing | none | only safety is stated |

## 4 Proofs

tlapm checks every leaf. Constants are arbitrary within the named assumptions
(`RailAssumption`, `SemRingAssumption`, `PingPongAssumption`, `SignalRingAssumption`,
`TurnTakingAssumption`, `PizzaAssumption`, `SuperServerAssumption`, `MNServerAssumption`,
`DVSAssumption`, `InterviewAssumption`, `ESSRingAssumption`), which say that counts are naturals and
that there is at least one (two) of what must be there; for Rail and DVS that `NoTrain` is not a
train and that each train has a station; for MNServer that clients fit the slots of `nsfd[255]`,
that ports are positive and that a line is of one to four units; for ESSRing that the clients are
finitely many, that none is called `NoOne` or `Bad`, and that the name `<<c>>` of a connection is not
that of a session. TLC evaluates each in a run.

**RailProof**: `TypeCorrect`; `RoutingTheorem` and `InvitationTheorem`: RoutingCorrect and
InvitationIsCurrent for any number of stations and trains, any capacity and any deaths.
RoutingCorrect is not inductive: that the descriptor sent is the invited platform's follows
from there being one invitation at a time, for the station in hand. `IInv` is TypeOK and,
until SM is restarted, `Good`: an invitation is for the station being handled (`Current`),
in one place (`OneCall`), not there before the announcement comes to that station
(`NotYetCalled`); the accept queue and the accepted peer are the invited platform, alive
or dead (`BacklogOK`, `PeerOK`); and descriptors belong to the station wherever they are
(`PendingOK, NsfdOK, FdbufOK, ServedOK`). A restart breaks `Good`, as the queue is kept,
which is why the theorems say "until SM is restarted".
`StuckTheorem` (StuckOnlyByDeath) and `FlagsTheorem` (FlagsFree) need three facts more, in `WInv`.
`Flagged`: until a restart, a flag that is set is that of the station served or of one whose platform
has died. `Called`, again until a restart: while SM waits in accept() with nobody connected, the platform
of the station in hand has the call coming, is in connect(), or has died. `Unkilled`: without a
kill SM lives and so does whom it talks to, and a flag or a notice is of the station served.

**RingsProof** on SemRing: `RingTypes`, `RingOneTurn` (SemOneTurn) and `RingImplementsTurns` for
every N >= 2. `SemInv` adds `Single` as long as P1 was not started during a turn (`~doubled`): a
holder excludes tokens and other holders, and tokens are at most one in all. The refinement needs types alone: each step of
a process is a `Pass` or a stutter and each stop or start a `Fault` of the abstract ring.

On PingPong: `ExclusiveTheorem`, `CountsUpTheorem`, and `RingOfTwoTheorem`, which
says that every step of PingPong is a step of SemRing or a stutter. The invariant adds that there
is, again until P1 is started during a turn (`~twice`), one turn (as `Single`) and how x and y differ at each place the turn can be, which CountsUp
states for some of them only.

On SignalRing: `SignalTypes`, `SignalOneTurn` (OneTurn), `SignalPhases` (PhasesApart),
`SignalNeighbours` (NeighboursKnown), `SignalDrained` (QueueDrained) for any N >= 3, any number
of rounds and of runs over one queue. OneTurn is inductive, written without the pairs
(`AtMostOne`). PhasesApart rests on `Lap`: while a turn goes right, the processes it has passed
have sent one more than the others. `Lap` rests on a turn going to the right neighbour or to
nobody, also in a run that found pids of an earlier one in the queue: `RightOK` and `LeftOK`,
and of the queue `QueueOK` and `OnePid2`, since type 2 holds the pid of P2 and then that of P1.
`CleanQueue` says what a queue that was empty holds at each point of the start-up.

**TurnTakingProof**: `TurnTypes`, `TurnTheorem` (TurnHeld), `CaughtTheorem` (CaughtForGood).
TurnHeld becomes inductive with three facts. `Word`: when the organiser is about to send the
descriptor the word is that point's own, and while SP1 spins the word is not 100. `Unused`: a
connection the organiser knows nothing of holds no descriptor. `Waits`: a connection of an
earlier organiser, or one that failed, keeps the present one in accept(), so that a serving
organiser knows the connection of each point that lives. The word and the queue are arbitrary
at the start and deaths and restarts unbounded, so the theorems include any leftover.

**PizzaProof**: `PizzaTypes`, `OneEachTheorem` and `PaidFirstTheorem` for any number of orders and of
starts of W1 and D, whichever process ends when. `Fresh`: a D that has not delivered is one
more than the deliveries. `Heard`: each recv() of B takes a message at least, of which the
customer sends two an order, so `2*passed + recvs + unread <= 2*paid (+ 1 for a choice not yet
paid)`. `Flow`: a descriptor B has passed is at one of five places or has ended with a
process; what W1 passes on after B ended is not one (`~junk`).

**SuperServerProof**: `ServerTypes`, `ServerRightS1` (RightS1), `ServerBalanced` (Balanced) for
any number of clients, messages, starts of S and deaths. In `Counts` what S received and what is
unread add up to the reports made. It holds at accept() since an S1 in a listener's queue has
made none, is there once and is not the one S has (`Queued`, `Accepted`), which rests on S
accepting a client once (`PortOK`) and on names being those of clients accepted (`Forked`,
`InHand`). RightS1 rests on the counting in turn: S goes back to accept() only when the S1 has
gone, so that until S is killed the S1 of the client in hand is the only one (`Alone`).
The 18 actions are first reduced to what they do to these variables (lemma `Steps`).

**MNServerProof**: `TypesTheorem`, `InOrderTheorem` (InOrder), `InStepTheorem` (InStep) and
`SurvivesTheorem` (Survives) for any number of clients, servers, ports, lines and faults. `IInv` follows the
numbered units of a client (`Streams`): on the way there, in a thread and on the way back they are
runs that join (`Flow`), and for a client of short lines all of them are at one place (`Short`).
A read cuts a run in two and a send() joins two (`RunPart`, `RunConcat`). That a client's stream is
in one thread at most is `Accepted` (a slot that was given out has a connection of its own, which
is its thread's) with `Queued` (a connection is in one accept queue, once, or was accepted);
`Linked` says that a client connects once. The slots suffice by a pigeonhole argument (`Room`),
the queries by `Asking`, and accept() does not wait by `Ready`. Survives needs what `Flow` and
`Short` say after the client has gone: each answer lost is a unit it did not read, and one of short
lines leaves at most one send() to make, which is never the second, the one that raises SIGPIPE.

**DescriptorsProof** on DVS: `DVSTypes`, `OnePlaceTheorem` (OnePlace) and `HungOnlyAfterLossTheorem`
(HungOnlyAfterLoss) for any trains, any paths left over and whether one platform or two are
accepted. `DVSInv` says that a train waits in one queue once (`Queued`), that no descriptor of an accepted
train is in two of the places station master, stream, lost (`Apart`) and that each is in one of them
(`Somewhere`); SM finds what select() announced, as nobody else takes a train from a queue (`Scanning`).
What one recv() takes of a stream is `TakenFacts`: announcements only, up to the first descriptor.
A platform hangs only after a loss since, while there is none, p1 and SM are in step
(`InStep`): announcements and descriptors alternate in the stream, which begins with what p1 reads
next and ends with what SM sent last (`Alternates`).

On Interview: `InterviewTypes` and `NoInterviewTheorem` (NoInterview) for any number of candidates,
messages and starts. `Stuck` has the three start-ups wait for each other: nobody listens at `fsock6`, so R3
does not get past its connect() to it and never connects to `fscok5`, so R1 does not get past its
accept() there; and nobody but R2 itself, after that, connects to `fscok6`, where R2 accepts.

**ESSRingProof**: `ESSRingTypes`, `SessionOnceTheorem` (SessionOnce), `GreetingAnsweredTheorem`
(GreetingAnswered) and `RingClosedTheorem` (RingClosed) for any number of clients and any kinds of
interrupted calls. The types already need an argument: `m->i` is loaded and stored without a lock,
and stays within the table since neither it nor a client's loaded value is above the number of clients that
are past their store (`Counted`). SessionOnce becomes inductive as `Tracked`: no session, and no
connection on which nothing was sent, is in two places (`Once`); a client holds a descriptor in its turn
and an accepted connection only in recvmsg() (`Held`); a connection has an owner that is about to
send on it or that a signal ended (`Opened`); nothing is known of a session before it is opened
(`Unused`); and where a session is lost or a turn has none, a call has failed (`Blamed`, `Kept`, `Given`).
With it, `Greeted` says that the exchange is in one of four phases: the ESS writes, the greeting
waits, one client has read it, or its reply waits. RingClosed is about clients launched one after
the other: `Forming` says that at most one is between its launch and its last SIGUSR1 (`Alone`), that
the table names every other one, once (`Tabled`), how far the one that enters has come (`Entering`), that
handlers come before the SIGUSR1s that announce a client (`Handling`), and that each member knows its right neighbour
or has the SIGUSR1 that tells it pending (`Linkage`). Nobody is ended by a write(), which would open the
ring, since the first client alone opens a session and the ESS serves it (`Sole`, which uses
`Greeted`). With the segment that `init.c` makes too
short, every client ends instead (`Failing`).

Only model-checked: liveness (Served, Completes, EveryTurn, Grows, Rotates, FirstDelivered,
Opens, Answered), which is out of the prover's reach, and RecvIsAnnouncement, which does not hold.
Every invariant that a passing run checks is proved.

## 5 Findings

* `dvs_recv`: `DVS/p1.cpp:148` reads up to 1024 bytes of a stream on which announcement and
  descriptor follow each other. If both are there it returns 4 and the descriptor is dropped;
  the comment at line 150 says `2 => train incoming`. The platform then waits for a
  descriptor that is gone.

## 6 What is not modelled, and why

* Parts of modelled systems. DVS: what platforms send back, which nobody reads. Interview: the
  interviewers' loops, to which no run comes, and the
  candidates' own program, which does not compile; J waits for good in the open() of a FIFO.
  Pizza: customers behind the first, who wait in B's queue for good, and a second start of B. ESSRing and SignalRing: death by anything but a signal
  without a handler or SIGPIPE. ESSRing is of an ESS that was started before the clients (otherwise
  the first connect() fails, which nobody tests, and the turn goes round without a session).
  SuperServer is of an S1 at the path that S executes: if execv() failed (`S.c:154`) the child would go
  on to pass_fd() and serve as a second S. MNServer: a server that is killed, and more connections than
  slots. A raw socket needs root: TurnTaking has both cases, MNServer is of a run as root.
* Resources that are merely exhausted (descriptors never closed), buffer overruns and
  out-of-bounds reads (such as the byte past `buffer[50]` of `m_n_server/server.c:37`): their effect
  is on data beside the buffer and depends on the build.
* `Mid_Questions/Q2` and `Q3` and the checksums: planned, below.
* `Raw_Sockets/Central_Service_Provider`: stubs, and a constant in place of the descriptor.
* Sequential exercises of one call (`Assignment_1`, `Assignment_4/q2`, `fcntl`, `Popen`,
  `Practice_minro`, `GDB_V1`, `server.c`, the connectionless servers, `client_server`,
  `Sender_Receiver`): no state that outlives a call or is shared.

## 7 Plan

Done, in this order: Rail (the richest protocol) and its proof; ESSRing; the rings
(Turns, SemRing, SignalRing, PingPong) with refinements and proofs; TurnTaking and its proof;
DVS; SuperServer; Pizza and its proof; Interview; MNServer; the start-up of DVS, and the start-up,
deaths and restarts of TurnTaking, SuperServer and Pizza; the proofs of SuperServer, MNServer, DVS,
Interview and ESSRing.

Next, extending the model:

1. `Mid_Questions/Q3` (Callback): threads that share `sss`, buffer and lock, the connect back
   to the client; one run, a client gets the answer to its own request unless it raced.
   `Mid_Questions/Q2` (ForkServer): select() on listeners the children inherit.
2. Checksums: recursive functions against the one's complement sum over bounded inputs.

Next, proofs: that a run of SignalRing implements a ring whose turn goes back after some rounds. Turns
does not fit: its turn only goes to the right, and starting the programs again takes one and gives
one in the same step.

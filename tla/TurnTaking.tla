------------------------------ MODULE TurnTaking ------------------------------
(***************************************************************************)
(* 207110_END_LAB: an organiser (O.c) gives its raw socket in turn to two  *)
(* service points (SP1.c, SP2.c).  The word "chance" in shared memory says *)
(* whose turn it is: 0 or 1, written by the organiser; a service point     *)
(* that has read five messages writes 100 (SP1) or 200 (SP2).  All three   *)
(* wait by spinning on that word, as compiled without optimisation: every  *)
(* iteration reads it.  A thread of the organiser moves packets from the   *)
(* raw socket to the message queue the service points read.                *)
(*                                                                         *)
(* The segment and the queue outlive the processes, and O.c does not clear *)
(* the word before the service points look at it (the assignment is        *)
(* commented out).  Any process may be killed and started again; test.c    *)
(* removes the queue under the feet of those that use it.                  *)
(***************************************************************************)
EXTENDS Integers

CONSTANTS
    Reads,      \* messages a service point reads in a turn (5)
    QueueCap,   \* messages the System V queue holds
    Backlog     \* connections a listening socket holds before connect() blocks

ASSUME TurnTakingAssumption ==
    Reads \in Nat \ {0} /\ QueueCap \in Nat \ {0} /\ Backlog \in Nat \ {0}

Points == 1..2
Other(s) == 3 - s
Own(s) == s - 1                 \* chance: the turn of point s
Answer(s) == 100 * s            \* chance: point s has ended its turn
Chances == {0, 1, 100, 200}

VARIABLES
    chance,     \* sp_rem->chance
    turn, o,    \* the point the organiser serves, and where main() of O.c is
    thread,     \* put_in_queue()
    raw,        \* rsfd is a socket: only root may open one
    link,       \* usfd of each point, as the point sees it
    stale,      \* connections of points that died, not yet accepted, by address
    fds,        \* descriptors sent to each point and not received
    sp,         \* where main() of each service point is
    read,       \* messages read in this turn: i of the for loop
    queue,      \* messages in the queue
    holders     \* the processes whose msgid names that queue; 0 is the organiser

service == <<chance, fds, sp, read>>
socks == <<link, stale>>
vars == <<service, socks, turn, o, thread, raw, queue, holders>>

Links == {"none", "failed", "queued", "accepted", "eof"}
OPlaces == {"gone", "listen", "accept", "create", "set", "send", "spin"}
SPlaces == {"gone", "msgget", "if", "elseif", "recvfd", "read", "spin"}

TypeOK ==
    /\ chance \in Chances
    /\ turn \in Points /\ o \in OPlaces
    /\ thread \in {"none", "bind", "run"} /\ raw \in BOOLEAN
    /\ link \in [Points -> Links] /\ stale \in [Points -> Nat]
    /\ fds \in [Points -> Nat]
    /\ sp \in [Points -> SPlaces]
    /\ read \in [Points -> 0..Reads]
    /\ queue \in 0..QueueCap /\ holders \subseteq 0..2

\* Nothing runs; the word and the queue are what the last run left.
Init ==
    /\ chance \in Chances
    /\ turn = 1 /\ o = "gone" /\ thread = "none" /\ raw = FALSE
    /\ link = [s \in Points |-> "none"] /\ stale = [s \in Points |-> 0]
    /\ fds = [s \in Points |-> 0]
    /\ sp = [s \in Points |-> "gone"]
    /\ read = [s \in Points |-> 0]
    /\ queue \in 0..QueueCap /\ holders = {}

\* usd_socket1() and usd_socket2() of O.c are called in this order.
Listening(s) ==
    o \notin {"gone", "listen"} \/ (o = "listen" /\ turn = 2 /\ s = 1)

\* The organiser is in its endless loop.
Serving == o \in {"set", "send", "spin"}

-----------------------------------------------------------------------------
(* O.c *)

\* The sockets of a dead organiser: what it has sent can still be received.
Hangup(l) == IF l \in {"queued", "accepted"} THEN "eof" ELSE l

Dies ==
    /\ o' = "gone" /\ thread' = "none"
    /\ link' = [s \in Points |-> Hangup(link[s])]
    /\ stale' = [s \in Points |-> 0]
    /\ holders' = holders \ {0}
    /\ UNCHANGED <<service, turn, raw, queue>>

\* main() up to msgget(); whether socket(SOCK_RAW) will succeed depends on who runs it.
OStart ==
    /\ o = "gone"
    /\ o' = "listen" /\ turn' = 1
    /\ raw' \in BOOLEAN
    /\ holders' = holders \cup {0}
    /\ UNCHANGED <<service, socks, thread, queue>>

\* unlink(), bind() and listen() on the address of one point, then of the other.
Listen ==
    /\ o = "listen"
    /\ o' = IF turn = 1 THEN "listen" ELSE "accept"
    /\ turn' = Other(turn)
    /\ UNCHANGED <<service, socks, thread, raw, queue, holders>>

\* The first connection in the backlog, be its point dead or alive.
Accept ==
    /\ o = "accept"
    /\ \/ /\ stale[turn] > 0
          /\ stale' = [stale EXCEPT ![turn] = @ - 1]
          /\ link' = link
       \/ /\ stale[turn] = 0 /\ link[turn] = "queued"
          /\ link' = [link EXCEPT ![turn] = "accepted"]
          /\ stale' = stale
    /\ o' = IF turn = 1 THEN "accept" ELSE "create"
    /\ turn' = Other(turn)
    /\ UNCHANGED <<service, thread, raw, queue, holders>>

CreateThread ==
    /\ o = "create"
    /\ o' = "set" /\ thread' = "bind"
    /\ UNCHANGED <<service, socks, turn, raw, queue, holders>>

SetChance ==
    /\ o = "set"
    /\ chance' = Own(turn)
    /\ o' = "send"
    /\ UNCHANGED <<socks, turn, thread, raw, fds, sp, read, queue, holders>>

\* Without a raw socket sendmsg() fails with EBADF, which is not looked at.
SendFd ==
    /\ o = "send"
    /\ raw => link[turn] = "accepted"
    /\ fds' = IF raw THEN [fds EXCEPT ![turn] = @ + 1] ELSE fds
    /\ o' = "spin"
    /\ UNCHANGED <<chance, socks, turn, thread, raw, sp, read, queue, holders>>

\* The point behind nusfd has died: SIGPIPE.
SendBroken == o = "send" /\ raw /\ link[turn] # "accepted" /\ Dies

SpinEnds ==
    /\ o = "spin"
    /\ chance = Answer(turn)
    /\ turn' = Other(turn)
    /\ o' = "set"
    /\ UNCHANGED <<service, socks, thread, raw, queue, holders>>

Organiser ==
    Listen \/ Accept \/ CreateThread \/ SetChance \/ SendFd \/ SendBroken \/ SpinEnds

\* put_in_queue(): bind() of what socket() returned, or exit() of the whole process.
Bind ==
    /\ thread = "bind" /\ raw
    /\ thread' = "run"
    /\ UNCHANGED <<service, socks, turn, o, raw, queue, holders>>

BindFails == thread = "bind" /\ ~raw /\ Dies

\* recvfrom() and msgsnd(), which blocks while the queue is full. A msgsnd() to the
\* queue test.c has removed fails and changes nothing.
PutInQueue ==
    /\ thread = "run" /\ 0 \in holders
    /\ queue < QueueCap
    /\ queue' = queue + 1
    /\ UNCHANGED <<service, socks, turn, o, thread, raw, holders>>

Collector == Bind \/ BindFails \/ PutInQueue

-----------------------------------------------------------------------------
(* SP1.c, SP2.c *)

organiser == <<turn, o, thread, raw>>

Goto(s, from, to) == sp[s] = from /\ sp' = [sp EXCEPT ![s] = to]

\* usd_socket(): a connect() that fails is printed, and main() goes on.
Connect(s) ==
    /\ Goto(s, "gone", "msgget")
    /\ Listening(s) => stale[s] < Backlog
    /\ link' = [link EXCEPT ![s] = IF Listening(s) THEN "queued" ELSE "failed"]
    /\ UNCHANGED <<chance, stale, organiser, fds, read, queue, holders>>

MsgGet(s) ==
    /\ Goto(s, "msgget", "if")
    /\ holders' = holders \cup {s}
    /\ UNCHANGED <<chance, socks, organiser, fds, read, queue>>

\* if(sp_rem->chance == 0), in SP2.c == 1 ...
If(s) ==
    /\ Goto(s, "if", IF chance = Own(s) THEN "recvfd" ELSE "elseif")
    /\ UNCHANGED <<chance, socks, organiser, fds, read, queue, holders>>

\* ... else if(sp_rem->chance == 1), which reads the word again.
ElseIf(s) ==
    /\ Goto(s, "elseif", IF chance = Own(Other(s)) THEN "spin" ELSE "if")
    /\ UNCHANGED <<chance, socks, organiser, fds, read, queue, holders>>

\* Variant of Spin: the wait is for the other's answer.
SpinForOther(s) ==
    /\ Goto(s, "spin", "if")
    /\ chance = Answer(Other(s))
    /\ UNCHANGED <<chance, socks, organiser, fds, read, queue, holders>>

\* while(sp_rem->chance != 100): in SP1.c as well as in SP2.c.
Spin(s) ==
    /\ Goto(s, "spin", "if")
    /\ chance = 100
    /\ UNCHANGED <<chance, socks, organiser, fds, read, queue, holders>>

\* Variant of RecvFd: a connection without a descriptor in it does not block.
RecvFdNonBlocking(s) ==
    /\ Goto(s, "recvfd", "read")
    /\ fds' = [fds EXCEPT ![s] = IF @ > 0 THEN @ - 1 ELSE 0]
    /\ UNCHANGED <<chance, socks, organiser, read, queue, holders>>

\* recv_fd() returns a descriptor or, at once, -1 if the connect() failed or the
\* organiser has died; main() does not look at which.
RecvFd(s) ==
    /\ Goto(s, "recvfd", "read")
    /\ fds[s] > 0 \/ link[s] \in {"failed", "eof"}
    /\ fds' = [fds EXCEPT ![s] = IF @ > 0 THEN @ - 1 ELSE 0]
    /\ UNCHANGED <<chance, socks, organiser, read, queue, holders>>

\* msgrcv() waits for a message; on a queue that has been removed it fails at once.
ReadMessage(s) ==
    /\ sp[s] = "read" /\ read[s] < Reads
    /\ s \in holders => queue > 0
    /\ queue' = IF s \in holders THEN queue - 1 ELSE queue
    /\ read' = [read EXCEPT ![s] = @ + 1]
    /\ UNCHANGED <<chance, socks, organiser, fds, sp, holders>>

\* Variant of EndTurn: both points answer 100.
EndTurn100(s) ==
    /\ Goto(s, "read", "if")
    /\ read[s] = Reads
    /\ read' = [read EXCEPT ![s] = 0]
    /\ chance' = 100
    /\ UNCHANGED <<socks, organiser, fds, queue, holders>>

EndTurn(s) ==
    /\ Goto(s, "read", "if")
    /\ read[s] = Reads
    /\ read' = [read EXCEPT ![s] = 0]
    /\ chance' = Answer(s)
    /\ UNCHANGED <<socks, organiser, fds, queue, holders>>

Point(s) ==
    \/ MsgGet(s) \/ If(s) \/ ElseIf(s) \/ Spin(s)
    \/ RecvFd(s) \/ ReadMessage(s) \/ EndTurn(s)

-----------------------------------------------------------------------------
(* The user, who starts and kills the programs, and test.c *)

KillOrganiser == o # "gone" /\ Dies

\* A connection not yet accepted stays in the backlog; the organiser finds out about an
\* accepted one when it next sends.
KillPoint(s) ==
    /\ sp[s] # "gone"
    /\ sp' = [sp EXCEPT ![s] = "gone"]
    /\ link' = [link EXCEPT ![s] = "none"]
    /\ stale' = [stale EXCEPT ![s] = IF link[s] = "queued" THEN @ + 1 ELSE @]
    /\ fds' = [fds EXCEPT ![s] = 0]
    /\ read' = [read EXCEPT ![s] = 0]
    /\ holders' = holders \ {s}
    /\ UNCHANGED <<chance, organiser, queue>>

\* msgctl(IPC_RMID): who starts next creates a new queue.
RemoveQueue ==
    /\ holders' = {} /\ queue' = 0
    /\ UNCHANGED <<service, socks, organiser>>

User ==
    OStart \/ KillOrganiser \/ RemoveQueue \/ \E s \in Points : Connect(s) \/ KillPoint(s)

Next == Organiser \/ Collector \/ (\E s \in Points : Point(s)) \/ User

\* The scheduler runs the three processes and the thread, and packets keep coming: P1.c
\* sends them in an endless loop. Nobody has to start, kill or remove anything.
Spec == Init /\ [][Next]_vars /\ WF_vars(Organiser) /\ WF_vars(Collector)
             /\ \A s \in Points : WF_vars(Point(s))

-----------------------------------------------------------------------------
(* Properties *)

\* While an organiser serves, a service point reads messages only in the turn that
\* organiser gave it and has not taken back, with the descriptor of that turn: whatever
\* word the last run left, whichever process was killed and started again, no two
\* points read at a time and no descriptor of an earlier turn is in flight. (Without
\* one, recv_fd() returns -1 and a point reads on whatever word it finds.)
TurnHeld ==
    \A s \in Points :
      /\ Serving /\ sp[s] = "read" => link[s] = "accepted"
      /\ link[s] = "accepted" /\ sp[s] = "read"
           => o = "spin" /\ turn = s /\ chance = Own(s) /\ fds[s] = 0
      /\ link[s] = "accepted" /\ fds[s] > 0
           => o = "spin" /\ turn = s /\ chance = Own(s) /\ fds[s] = 1

\* The wait of SP1 for the value 100, which only SP1 itself writes, ends with SP1 only.
CaughtForGood == [][sp[1] = "spin" => sp'[1] \in {"spin", "gone"}]_vars

\* SP2 waits for the value 100, which the organiser replaces at once.
Caught(s) == sp[s] = "spin" /\ chance # 100

\* The point waits on a queue made after test.c removed the one the organiser fills.
Starved(s) == sp[s] = "read" /\ s \in holders /\ 0 \notin holders /\ queue = 0

\* The turns go round for ever unless a service point is caught in its spin, one of the
\* two processes dies or the queue is replaced between them: nothing else, no word left
\* over and no order of the reads, stops the organiser.
Rotates ==
    \A s \in Points :
        (o = "spin" /\ turn = s)
          ~> \/ o = "set" /\ turn = Other(s)
             \/ Caught(s) \/ Starved(s) \/ o = "gone" \/ link[s] # "accepted"
=============================================================================

------------------------------ MODULE Interview ------------------------------
(***************************************************************************)
(* Signals/Mid_exam_Q2_ASK: candidates connect to AT (at.c), which answers *)
(* what they send and passes their descriptors to the interviewers R1, R2  *)
(* and R3 in turn.  Before that the four programs connect to each other    *)
(* over the paths of Unix sockets, and a program that connects to a path   *)
(* where nobody listens exits.                                             *)
(*                                                                         *)
(* Start-up is a list of operations per program.  unlink(), bind() and     *)
(* listen() are one: who connects in between is refused, as before the     *)
(* unlink(), except at ./fsock4, where only R2 connects and R2 makes it    *)
(* anew.  The names that the connecting ends bind lead nowhere and are     *)
(* left out, and so are the interviewers' own loops: NoInterview says that *)
(* none of them comes so far.                                              *)
(***************************************************************************)
EXTENDS Integers, Sequences, FiniteSets, Functions

CONSTANTS
    NCandidates,    \* candidates, numbered as AT accepts them, from 0
    Messages,       \* bound: messages the candidates send
    MaxLeaves,      \* bound: candidates that leave
    SocketCap,      \* descriptors an interviewer's socket holds
    MaxStarts       \* bound: interviewers started again

ASSUME InterviewAssumption ==
    /\ NCandidates \in Nat /\ Messages \in Nat /\ MaxLeaves \in Nat
    /\ SocketCap \in Nat /\ MaxStarts \in Nat

Candidates == 0..(NCandidates - 1)
Interviewers == {"R1", "R2", "R3"}
Programs == Interviewers \cup {"AT"}
Paths == {"fsock1", "fsock2", "fsock3", "fsock4", "fscok5", "fsock6", "fscok6"}
ATPaths == {"fsock1", "fsock2", "fsock3"}
Nobody == "nobody"

ServListen(path) == [op |-> "listen", at |-> path]
Accept(path) == [op |-> "accept", at |-> path]
CliConn(path) == [op |-> "connect", at |-> path]

AT == <<ServListen("fsock1"), ServListen("fsock2"), ServListen("fsock3"),
        Accept("fsock1"), Accept("fsock2"), Accept("fsock3")>>
R1 == <<CliConn("fsock1"), ServListen("fsock4"), ServListen("fscok5"),
        Accept("fsock4"), Accept("fscok5"), CliConn("fsock4"), CliConn("fscok5")>>
R2 == <<CliConn("fsock2"), CliConn("fsock4"), ServListen("fsock4"), ServListen("fscok6"),
        Accept("fsock4"), Accept("fscok6"), CliConn("fscok6")>>

\* Variants of R3: the path R2 listens on; and AT after the other interviewers.
R3ToR2 == <<CliConn("fsock3"), CliConn("fscok6"), CliConn("fscok5"), ServListen("fscok6"),
            ServListen("fscok5"), Accept("fscok6"), Accept("fscok5")>>
R3AtLast == <<CliConn("fsock6"), CliConn("fscok5"), CliConn("fsock3"), ServListen("fsock6"),
              ServListen("fscok5"), Accept("fsock6"), Accept("fscok5")>>
R3 == <<CliConn("fsock3"), CliConn("fsock6"), CliConn("fscok5"), ServListen("fsock6"),
        ServListen("fscok5"), Accept("fsock6"), Accept("fscok5")>>

Startup == [p \in Programs |-> CASE p = "AT" -> AT [] p = "R1" -> R1
                                 [] p = "R2" -> R2 [] p = "R3" -> R3]

\* The sockets that listen: program and path.
Sockets == UNION {{<<p, o.at>> : o \in {o \in Range(Startup[p]) : o.op = "listen"}} :
                  p \in Programs}

\* The interviewer AT sends candidate i to.
Room(i) == CASE i % 3 = 0 -> "R1" [] i % 3 = 1 -> "R2" [] i % 3 = 2 -> "R3"

VARIABLES
    pc,         \* the next operation of each program's start-up, 0 when it has ended
    start,      \* which start of the program this is
    bound,      \* whose socket each path leads to
    listening,  \* the sockets that listen by now
    queue,      \* connections to each of them: program and start
    nufd,       \* the start of each interviewer AT has accepted
    early,      \* history: an interviewer found nobody at its path to AT
    arrived,    \* candidates that have connected to the port
    used,       \* of these, those AT has accepted
    conn,       \* what has become of each candidate's connection
    sent,       \* messages the candidates have sent
    unread,     \* of each candidate's, those AT has not read
    ready,      \* rfd: candidates select() has found and AT has not come to
    inbox       \* candidates passed to the accepted start of each interviewer

startVars == <<pc, start, bound, listening, queue, nufd, early>>
loopVars == <<arrived, used, conn, unread, ready, inbox>>
interviewVars == <<startVars, loopVars, sent>>

InterviewTypeOK ==
    /\ pc \in [Programs -> Nat] /\ start \in [Programs -> 1..(MaxStarts + 1)]
    /\ bound \in [Paths -> Programs \cup {Nobody}] /\ listening \in SUBSET Sockets
    /\ queue \in [Sockets -> Seq(Programs \X Nat)]
    /\ nufd \in [Interviewers -> Nat] /\ early \in BOOLEAN
    /\ arrived \in 0..NCandidates /\ used \in 0..arrived
    /\ conn \in [Candidates -> {"open", "closed", "reset", "broken"}]
    /\ sent \in 0..Messages /\ unread \in [Candidates -> 0..Messages]
    /\ ready \in SUBSET Candidates
    /\ inbox \in [Interviewers -> 0..SocketCap]

InterviewInit ==
    /\ pc = [p \in Programs |-> 1] /\ start = [p \in Programs |-> 1]
    /\ bound = [path \in Paths |-> Nobody] /\ listening = {}
    /\ queue = [s \in Sockets |-> <<>>]
    /\ nufd = [r \in Interviewers |-> 0] /\ early = FALSE
    /\ arrived = 0 /\ used = 0 /\ ready = {} /\ sent = 0
    /\ conn = [i \in Candidates |-> "open"] /\ unread = [i \in Candidates |-> 0]
    /\ inbox = [r \in Interviewers |-> 0]

-----------------------------------------------------------------------------
(* Start-up *)

Started(p) == pc[p] > Len(Startup[p])

Step(p, op) ==
    /\ pc[p] \in DOMAIN Startup[p] /\ Startup[p][pc[p]].op = op
    /\ UNCHANGED <<start, loopVars, sent>>
Path(p) == Startup[p][pc[p]].at
Done(p) == pc' = [pc EXCEPT ![p] = @ + 1]

\* What goes with a program that ends: its sockets that listen, and who waits there.
Exit(p) ==
    /\ pc' = [pc EXCEPT ![p] = 0]
    /\ listening' = {s \in listening : s[1] # p}
    /\ queue' = [s \in Sockets |-> IF s[1] = p THEN <<>> ELSE queue[s]]

Listen(p) ==
    /\ Step(p, "listen") /\ Done(p)
    /\ bound' = [bound EXCEPT ![Path(p)] = p]
    /\ listening' = listening \cup {<<p, Path(p)>>}
    /\ UNCHANGED <<queue, nufd, early>>

AcceptNext(p) ==
    LET s == <<p, Path(p)>> IN
    /\ Step(p, "accept") /\ Done(p)
    /\ queue[s] # <<>>
    /\ queue' = [queue EXCEPT ![s] = Tail(@)]
    /\ nufd' = IF p = "AT" THEN [nufd EXCEPT ![Head(queue[s])[1]] = Head(queue[s])[2]] ELSE nufd
    /\ UNCHANGED <<bound, listening, early>>

Connect(p) ==
    LET s == <<bound[Path(p)], Path(p)>> IN
    /\ Step(p, "connect")
    /\ IF s \in listening
       THEN Done(p) /\ queue' = [queue EXCEPT ![s] = Append(@, <<p, start[p]>>)]
                    /\ UNCHANGED <<listening, early>>
       ELSE Exit(p) /\ early' = (early \/ (Path(p) \in ATPaths /\ pc["AT"] # 0))
    /\ UNCHANGED <<bound, nufd>>

Start(p) == Listen(p) \/ AcceptNext(p) \/ Connect(p)

\* An interviewer that has ended is started again.
Restart(r) ==
    /\ pc[r] = 0 /\ start["R1"] + start["R2"] + start["R3"] < 3 + MaxStarts
    /\ pc' = [pc EXCEPT ![r] = 1] /\ start' = [start EXCEPT ![r] = @ + 1]
    /\ UNCHANGED <<bound, listening, queue, nufd, early, loopVars, sent>>

-----------------------------------------------------------------------------
(* Candidates *)

\* Who comes while AT is starting waits in the queue of its port, as if it came later.
Arrive ==
    /\ Started("AT") /\ arrived < NCandidates
    /\ arrived' = arrived + 1
    /\ UNCHANGED <<startVars, used, conn, unread, ready, inbox, sent>>

Send(i) ==
    /\ i < arrived /\ conn[i] = "open" /\ sent < Messages
    /\ sent' = sent + 1
    /\ unread' = [unread EXCEPT ![i] = @ + 1]
    /\ UNCHANGED <<startVars, arrived, used, conn, ready, inbox>>

\* With answers unread the connection is reset at once.
Leave(i) ==
    /\ i < arrived /\ conn[i] = "open"
    /\ Cardinality({j \in Candidates : conn[j] # "open"}) < MaxLeaves
    /\ \E how \in {"closed", "reset"} : conn' = [conn EXCEPT ![i] = how]
    /\ UNCHANGED <<startVars, arrived, used, unread, ready, inbox, sent>>

-----------------------------------------------------------------------------
(* The loop of AT *)

\* The first write after the candidate has left succeeds and brings a reset back, or it takes
\* the error of the reset that came with its leaving.  The next one raises SIGPIPE.
Written(i) == conn' = [conn EXCEPT ![i] = IF @ = "open" THEN @ ELSE "broken"]

\* A newcomer goes before everyone who has something to say.
AcceptCandidate ==
    /\ Started("AT") /\ ready = {}
    /\ used < arrived
    /\ used' = used + 1
    /\ Written(used)
    /\ UNCHANGED <<startVars, arrived, unread, ready, inbox, sent>>

Readable(i) == unread[i] > 0 \/ conn[i] # "open"

\* Variant of SelectReady: the last candidate is left out.
SelectAllButOne ==
    /\ Started("AT") /\ ready = {}
    /\ used = arrived
    /\ ready' = {i \in 0..(used - 2) : Readable(i)}
    /\ ready' # {}
    /\ UNCHANGED <<startVars, arrived, used, conn, unread, inbox, sent>>

\* What select() finds is gone through before it is called again.
SelectReady ==
    /\ Started("AT") /\ ready = {}
    /\ used = arrived
    /\ ready' = {i \in 0..(used - 1) : Readable(i)}
    /\ ready' # {}
    /\ UNCHANGED <<startVars, arrived, used, conn, unread, inbox, sent>>

Ready(i) == Started("AT") /\ i \in ready /\ \A j \in ready : i <= j
There(r) == pc[r] # 0 /\ start[r] = nufd[r]

\* The error of a reset is taken by read(), unless there is still a message to read.
Writable(i) == conn[i] # "broken" /\ (conn[i] = "reset" => unread[i] > 0)

\* read() of a message, or of nothing when the candidate has left, write() of the answer,
\* and send_fd(), which waits when the interviewer's socket is full.
Pass(i) ==
    LET r == Room(i) IN
    /\ Ready(i) /\ ready' = ready \ {i}
    /\ Writable(i) /\ There(r)
    /\ inbox[r] < SocketCap /\ inbox' = [inbox EXCEPT ![r] = @ + 1]
    /\ unread' = [unread EXCEPT ![i] = IF @ > 0 THEN @ - 1 ELSE @]
    /\ Written(i)
    /\ UNCHANGED <<startVars, arrived, used, sent>>

\* Nobody is at the other end of the answer or of the descriptor: SIGPIPE ends AT, and all
\* connections with it.
Broken(i) ==
    /\ Ready(i) /\ ~(Writable(i) /\ There(Room(i)))
    /\ Exit("AT")
    /\ arrived' = 0 /\ used' = 0 /\ ready' = {}
    /\ conn' = [j \in Candidates |-> "open"] /\ unread' = [j \in Candidates |-> 0]
    /\ inbox' = [r \in Interviewers |-> 0]
    /\ UNCHANGED <<start, bound, nufd, early, sent>>

Loop == AcceptCandidate \/ SelectReady \/ \E i \in Candidates : Pass(i) \/ Broken(i)

InterviewNext ==
    \/ \E p \in Programs : Start(p)
    \/ \E r \in Interviewers : Restart(r)
    \/ Arrive \/ Loop
    \/ \E i \in Candidates : Send(i) \/ Leave(i)

\* All four programs are started once, and run.  One fairness for all start-ups is enough:
\* they are finite, so that none can keep the others from going on.
InterviewSpec ==
    /\ InterviewInit /\ [][InterviewNext]_interviewVars
    /\ WF_interviewVars(Loop) /\ WF_interviewVars(\E p \in Programs : Start(p))

-----------------------------------------------------------------------------
(* Properties *)

\* No interviewer ever comes to its loop, in whatever order the programs are started and
\* started again: R3 connects to ./fsock6 while R2 listens at ./fscok6, and R1 waits for
\* R3, and R2 for R1.
NoInterview == \A r \in Interviewers : ~Started(r)

\* AT opens all the same: each interviewer connects to it first, so that only one that is
\* started before AT listens can keep AT from its loop.
Opens == <>(Started("AT") \/ early)

\* What a candidate sends is answered, although newcomers go first and no interviewer reads
\* what AT passes on, until AT has ended or the socket of an interviewer is full.
Answered ==
    \A i \in Candidates :
        unread[i] > 0 ~> (unread[i] = 0 \/ \E r \in Interviewers : inbox[r] = SocketCap)
=============================================================================

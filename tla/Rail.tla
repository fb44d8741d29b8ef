-------------------------------- MODULE Rail --------------------------------
(***************************************************************************)
(* Unix_Domain_socket/NITW_Rail: a station master (SM.c) accepts trains on *)
(* one TCP port per station, announces each train on a System V message    *)
(* queue to every platform (P1.c, P2.c, P3.c) and hands the train's        *)
(* connection, with SCM_RIGHTS over the Unix socket ./fsock, to the        *)
(* platform that connects.  The platform answers "Train reached            *)
(* platform-k" and the station master clears flag[k-1].                    *)
(*                                                                         *)
(* Stations are numbered from 1 as in the messages; the C arrays index     *)
(* them from 0.  The message queue holds messages of type p for platform   *)
(* p, and msgrcv(.., p) takes the oldest of type p, so it is a sequence    *)
(* per platform.  The kernel queue outlives every process.  Every process  *)
(* can be killed, and started again.                                       *)
(***************************************************************************)
EXTENDS Integers, Sequences, FiniteSets

CONSTANTS
    N,          \* number of stations (3 in SM.c)
    Trains,     \* the train processes T1, T2, ...
    NoTrain,    \* no descriptor
    Dest,       \* the station whose port a train connects to (argv[1] of T1.c)
    QueueCap,   \* messages the System V queue holds (msg_qbytes)
    MaxKills,   \* bound: processes killed from outside
    MaxRestarts \* bound: restarts of the station master

Stations == 1..N
SM == 0                     \* the station master, among the processes 0..N
Gone == 0                   \* a connection whose client process has died

ASSUME RailAssumption ==
    /\ N \in Nat \ {0}
    /\ NoTrain \notin Trains
    /\ Dest \in [Trains -> Stations]
    /\ QueueCap \in Nat \ {0}
    /\ MaxKills \in Nat
    /\ MaxRestarts \in Nat

VARIABLES
    train,      \* what has become of each train
    servedBy,   \* the platform whose recv_fd returned the train's descriptor, or 0
    pending,    \* accept queue of each station's TCP port
    flag,       \* SM.c: flag[], 1 while the station's train is being handled
    smPc,       \* SM.c: where main() / pass_fd() is
    rfds,       \* SM.c: the set select() returned
    i,          \* SM.c: the station main() looks at
    j,          \* SM.c: the platform the next announcement is for
    nsfd,       \* SM.c: the accepted train
    queue,      \* the System V queue, by message type
    listening,  \* ./fsock is bound and listening
    backlog,    \* platforms connected to ./fsock and not accepted
    peer,       \* SM.c: the client of nufd
    notify,     \* the platform named by the unread notification on nufd, or 0
    platPc,     \* P1.c: where main() / pass_fd() is
    conn,       \* P1.c: ufd is connected to a live station master
    fdbuf,      \* descriptor in flight to each platform
    kills, smRestarts,  \* failures so far
    everDied    \* processes that have died at least once (history)

smVars   == <<flag, smPc, rfds, i, j, nsfd, peer>>
sockVars == <<listening, backlog, notify, conn, fdbuf>>
failVars == <<kills, smRestarts, everDied>>
vars == <<train, servedBy, pending, queue, platPc, smVars, sockVars, failVars>>

SmStates == {"select", "scan", "announce", "listen", "accept", "sendfd", "recv", "down"}
PlatStates == {"wait", "connect", "recvfd", "report", "down"}

TypeOK ==
    /\ train \in [Trains -> {"away", "queued", "accepted", "lost"}]
    /\ servedBy \in [Trains -> 0..N]
    /\ pending \in [Stations -> Seq(Trains)]
    /\ flag \in [Stations -> {0, 1}]
    /\ smPc \in SmStates
    /\ rfds \in SUBSET Stations
    /\ i \in 1..(N + 1)
    /\ i = N + 1 => smPc \in {"select", "scan", "down"}   \* the for loop is over
    /\ j \in Stations
    /\ nsfd \in Trains \cup {NoTrain}
    /\ queue \in [Stations -> Seq(Nat)]
    /\ listening \in BOOLEAN
    /\ backlog \in Seq(0..N)
    /\ peer \in 0..N
    /\ notify \in 0..N
    /\ platPc \in [Stations -> PlatStates]
    /\ conn \in [Stations -> BOOLEAN]
    /\ fdbuf \in [Stations -> Trains \cup {NoTrain}]
    /\ kills \in 0..MaxKills
    /\ smRestarts \in 0..MaxRestarts
    /\ everDied \in SUBSET (0..N)

Init ==
    /\ train = [t \in Trains |-> "away"]
    /\ servedBy = [t \in Trains |-> 0]
    /\ pending = [s \in Stations |-> <<>>]
    /\ flag = [s \in Stations |-> 0]
    /\ smPc = "select" /\ rfds = {} /\ i = 1 /\ j = 1
    /\ nsfd = NoTrain /\ peer = Gone
    /\ queue = [s \in Stations |-> <<>>]
    /\ listening = FALSE /\ backlog = <<>> /\ notify = 0
    /\ platPc = [s \in Stations |-> "wait"]
    /\ conn = [s \in Stations |-> FALSE]
    /\ fdbuf = [s \in Stations |-> NoTrain]
    /\ kills = 0 /\ smRestarts = 0 /\ everDied = {}

-----------------------------------------------------------------------------
(* Trains: T1.c *)

\* connect() to the station's port and send(): the kernel completes both, with
\* the data, before the station master accepts.
TrainArrive(t) ==
    /\ train[t] = "away"
    /\ smPc # "down"
    /\ train' = [train EXCEPT ![t] = "queued"]
    /\ pending' = [pending EXCEPT ![Dest[t]] = Append(@, t)]
    /\ UNCHANGED <<servedBy, queue, platPc, smVars, sockVars, failVars>>

\* Nobody listens: connect() fails unchecked and send() ends the train.
TrainRefused(t) ==
    /\ train[t] = "away"
    /\ smPc = "down"
    /\ train' = [train EXCEPT ![t] = "lost"]
    /\ UNCHANGED <<servedBy, pending, queue, platPc, smVars, sockVars, failVars>>

-----------------------------------------------------------------------------
(* Station master: SM.c *)

\* select() blocks until some port has a pending train.
SmSelect ==
    /\ smPc = "select"
    /\ rfds' = {s \in Stations : pending[s] # <<>>}
    /\ rfds' # {}
    /\ i' = 1
    /\ smPc' = "scan"
    /\ UNCHANGED <<train, servedBy, pending, queue, platPc, flag, j, nsfd, peer,
                   sockVars, failVars>>

\* The for loop over the stations passes station i over ...
SmSkip ==
    /\ smPc = "scan"
    /\ i \in Stations
    /\ ~(i \in rfds /\ flag[i] = 0)
    /\ i' = i + 1
    /\ UNCHANGED <<train, servedBy, pending, queue, platPc, flag, smPc, rfds, j,
                   nsfd, peer, sockVars, failVars>>

SmScanned ==
    /\ smPc = "scan"
    /\ i \notin Stations
    /\ smPc' = "select"
    /\ UNCHANGED <<train, servedBy, pending, queue, platPc, flag, rfds, i, j,
                   nsfd, peer, sockVars, failVars>>

\* ... or takes its train: flag[i] = 1, accept().
SmTakeTrain ==
    /\ smPc = "scan"
    /\ i \in Stations
    /\ i \in rfds /\ flag[i] = 0
    /\ pending[i] # <<>>
    /\ flag' = [flag EXCEPT ![i] = 1]
    /\ nsfd' = Head(pending[i])
    /\ pending' = [pending EXCEPT ![i] = Tail(@)]
    /\ train' = [train EXCEPT ![nsfd'] = "accepted"]
    /\ j' = 1
    /\ smPc' = "announce"
    /\ UNCHANGED <<servedBy, queue, platPc, rfds, i, peer, sockVars, failVars>>

\* Variants of Text: the text made from the other loop's index, and no mark at all.
TextOfNext(k, s) == IF k = s + 1 THEN k + 9 ELSE k
TextUnmarked(k, s) == k

\* sprintf of j+10 for the platform the train goes to and of j+1 for the others,
\* with j from 0 in the code.
Text(k, s) == IF k = s THEN k + 9 ELSE k

\* Messages in the queue for platforms 1..n.
QueueLen[n \in 0..N] == IF n = 0 THEN 0 ELSE QueueLen[n - 1] + Len(queue[n])

\* Variant of SmAnnounce: j is not set back before the next train.
SmAnnounceNoReset ==
    /\ smPc = "announce"
    /\ QueueLen[N] < QueueCap
    /\ queue' = [queue EXCEPT ![j] = Append(@, Text(j, i))]
    /\ j' = j + 1
    /\ smPc' = IF j = N THEN "listen" ELSE "announce"
    /\ UNCHANGED <<train, servedBy, pending, platPc, flag, rfds, i, nsfd, peer,
                   sockVars, failVars>>

\* msgsnd() to platform j blocks while the queue is full.
SmAnnounce ==
    /\ smPc = "announce"
    /\ QueueLen[N] < QueueCap
    /\ queue' = [queue EXCEPT ![j] = Append(@, Text(j, i))]
    /\ IF j = N THEN smPc' = "listen" /\ UNCHANGED j
                ELSE j' = j + 1 /\ UNCHANGED smPc
    /\ UNCHANGED <<train, servedBy, pending, platPc, flag, rfds, i, nsfd, peer,
                   sockVars, failVars>>

\* serv_listen(): a fresh socket takes over ./fsock; whoever is still in the
\* accept queue of an older one stays there.
SmListen ==
    /\ smPc = "listen"
    /\ listening' = TRUE
    /\ backlog' = <<>>
    /\ smPc' = "accept"
    /\ UNCHANGED <<train, servedBy, pending, queue, platPc, flag, rfds, i, j,
                   nsfd, peer, notify, conn, fdbuf, failVars>>

\* Variant of SmAccept: with O_NONBLOCK it gives up when nobody has connected yet.
SmAcceptNonBlocking ==
    /\ smPc = "accept"
    /\ IF backlog # <<>>
       THEN peer' = Head(backlog) /\ backlog' = Tail(backlog) /\ smPc' = "sendfd"
            /\ UNCHANGED i
       ELSE smPc' = "scan" /\ i' = i + 1 /\ UNCHANGED <<peer, backlog>>
    /\ notify' = 0
    /\ UNCHANGED <<train, servedBy, pending, queue, platPc, flag, rfds, j,
                   nsfd, listening, conn, fdbuf, failVars>>

SmAccept ==
    /\ smPc = "accept"
    /\ backlog # <<>>
    /\ peer' = Head(backlog)
    /\ backlog' = Tail(backlog)
    /\ notify' = 0
    /\ smPc' = "sendfd"
    /\ UNCHANGED <<train, servedBy, pending, queue, platPc, flag, rfds, i, j,
                   nsfd, listening, conn, fdbuf, failVars>>

\* The end of the process: the kernel closes its sockets.
SmDies ==
    /\ smPc' = "down"
    /\ train' = [t \in Trains |->
                   IF train[t] = "queued" THEN "lost" ELSE train[t]]
    /\ pending' = [s \in Stations |-> <<>>]
    /\ listening' = FALSE
    /\ backlog' = <<>>
    /\ peer' = Gone
    /\ notify' = 0
    /\ conn' = [s \in Stations |-> FALSE]
    /\ everDied' = everDied \cup {SM}

\* send_fd() to the accepted platform.
SmSendFd ==
    /\ smPc = "sendfd"
    /\ peer # Gone
    /\ fdbuf' = [fdbuf EXCEPT ![peer] = nsfd]
    /\ smPc' = "recv"
    /\ UNCHANGED <<train, servedBy, pending, queue, platPc, flag, rfds, i, j,
                   nsfd, peer, listening, backlog, notify, conn, failVars>>

\* sendmsg() to a platform that has died raises SIGPIPE.
SmSendFdFails ==
    /\ smPc = "sendfd"
    /\ peer = Gone
    /\ SmDies
    /\ UNCHANGED <<servedBy, queue, platPc, flag, rfds, i, j, nsfd, fdbuf,
                   kills, smRestarts>>

\* Variants of SmNotified: flag[] indexed with k, one too far, and not cleared.
SmNotifiedClears(s, value) ==
    /\ smPc = "recv"
    /\ notify # 0
    /\ flag' = [flag EXCEPT ![s] = value]
    /\ notify' = 0
    /\ listening' = FALSE
    /\ smPc' = "scan"
    /\ i' = i + 1
    /\ UNCHANGED <<train, servedBy, pending, queue, platPc, rfds, j, nsfd, peer,
                   backlog, conn, fdbuf, failVars>>
SmNotifiedNextFlag == SmNotifiedClears(notify + 1, 0)
SmNotifiedKeepsFlag == SmNotifiedClears(notify, 1)

\* recv() of "Train reached platform-k": flag[k-1] = 0, unlink(./fsock), and the
\* for loop goes on with the set select() returned.
SmNotified ==
    /\ smPc = "recv"
    /\ notify # 0
    /\ flag' = [flag EXCEPT ![notify] = 0]
    /\ notify' = 0
    /\ listening' = FALSE
    /\ smPc' = "scan"
    /\ i' = i + 1
    /\ UNCHANGED <<train, servedBy, pending, queue, platPc, rfds, j, nsfd, peer,
                   backlog, conn, fdbuf, failVars>>

\* The platform died without notifying: strtok() and atoi() read an array that
\* recv() left unset.  Either they end the process, or the number they find is
\* no station's, or it clears the flag of whatever station it names.
SmUnnotified ==
    /\ smPc = "recv"
    /\ notify = 0 /\ peer = Gone
    /\ \/ /\ SmDies
          /\ UNCHANGED <<flag, i>>
       \/ /\ \/ UNCHANGED flag
             \/ \E s \in Stations : flag' = [flag EXCEPT ![s] = 0]
          /\ listening' = FALSE
          /\ smPc' = "scan"
          /\ i' = i + 1
          /\ UNCHANGED <<train, pending, backlog, peer, notify, conn, everDied>>
    /\ UNCHANGED <<servedBy, queue, platPc, rfds, j, nsfd, fdbuf, kills, smRestarts>>

SmStep == \/ SmSelect \/ SmSkip \/ SmScanned \/ SmTakeTrain \/ SmAnnounce
          \/ SmListen \/ SmAccept \/ SmSendFd \/ SmSendFdFails
          \/ SmNotified \/ SmUnnotified

-----------------------------------------------------------------------------
(* Platforms: P1.c, P2.c, P3.c, which differ in ID and in the texts *)

\* msgrcv() and strcmp() with the platform's own number: any other text means
\* that the train comes here.
PlatReceive(p) ==
    /\ platPc[p] = "wait"
    /\ queue[p] # <<>>
    /\ queue' = [queue EXCEPT ![p] = Tail(@)]
    /\ platPc' = [platPc EXCEPT ![p] =
                    IF Head(queue[p]) = p THEN "wait" ELSE "connect"]
    /\ UNCHANGED <<train, servedBy, pending, smVars, sockVars, failVars>>

\* cli_conn(): connect() succeeds only on a listening ./fsock.
PlatConnect(p) ==
    /\ platPc[p] = "connect"
    /\ listening
    /\ backlog' = Append(backlog, p)
    /\ conn' = [conn EXCEPT ![p] = TRUE]
    /\ platPc' = [platPc EXCEPT ![p] = "recvfd"]
    /\ UNCHANGED <<train, servedBy, pending, queue, smVars, listening, notify,
                   fdbuf, failVars>>

\* The end of a platform: its connection stays with the station master, dead.
PlatDies(p) ==
    /\ platPc' = [platPc EXCEPT ![p] = "down"]
    /\ conn' = [conn EXCEPT ![p] = FALSE]
    /\ fdbuf' = [fdbuf EXCEPT ![p] = NoTrain]
    /\ backlog' = [k \in DOMAIN backlog |->
                     IF backlog[k] = p THEN Gone ELSE backlog[k]]
    /\ peer' = IF peer = p THEN Gone ELSE peer
    /\ everDied' = everDied \cup {p}

\* connect() fails: exit(1), and the announcement is consumed.
PlatRefused(p) ==
    /\ platPc[p] = "connect"
    /\ ~listening
    /\ PlatDies(p)
    /\ UNCHANGED <<train, servedBy, pending, queue, flag, smPc, rfds, i, j, nsfd,
                   listening, notify, kills, smRestarts>>

PlatRecvFd(p) ==
    /\ platPc[p] = "recvfd"
    /\ fdbuf[p] # NoTrain
    /\ servedBy' = [servedBy EXCEPT ![fdbuf[p]] = p]
    /\ fdbuf' = [fdbuf EXCEPT ![p] = NoTrain]
    /\ platPc' = [platPc EXCEPT ![p] = "report"]
    /\ UNCHANGED <<train, pending, queue, smVars, listening, backlog, notify,
                   conn, failVars>>

\* The station master died: recvmsg() returns 0, which recv_fd() takes for a
\* descriptor; the send() that follows raises SIGPIPE.
PlatRecvNothing(p) ==
    /\ platPc[p] = "recvfd"
    /\ fdbuf[p] = NoTrain /\ ~conn[p]
    /\ PlatDies(p)
    /\ UNCHANGED <<train, servedBy, pending, queue, flag, smPc, rfds, i, j, nsfd,
                   listening, notify, kills, smRestarts>>

\* read() of the train's message and send() of "Train reached platform-p".
PlatReport(p) ==
    /\ platPc[p] = "report"
    /\ conn[p]
    /\ notify' = p
    /\ platPc' = [platPc EXCEPT ![p] = "wait"]
    /\ UNCHANGED <<train, servedBy, pending, queue, smVars, listening, backlog,
                   conn, fdbuf, failVars>>

PlatReportFails(p) ==
    /\ platPc[p] = "report"
    /\ ~conn[p]
    /\ PlatDies(p)
    /\ UNCHANGED <<train, servedBy, pending, queue, flag, smPc, rfds, i, j, nsfd,
                   listening, notify, kills, smRestarts>>

PlatStep(p) == \/ PlatReceive(p) \/ PlatConnect(p) \/ PlatRefused(p)
               \/ PlatRecvFd(p) \/ PlatRecvNothing(p)
               \/ PlatReport(p) \/ PlatReportFails(p)

-----------------------------------------------------------------------------
(* Failures *)

KillSm ==
    /\ smPc # "down" /\ kills < MaxKills
    /\ kills' = kills + 1
    /\ SmDies
    /\ UNCHANGED <<servedBy, queue, platPc, flag, rfds, i, j, nsfd, fdbuf, smRestarts>>

\* main() from the start: flags cleared, the message queue as it was left.
StartSm ==
    /\ smPc = "down" /\ smRestarts < MaxRestarts
    /\ smRestarts' = smRestarts + 1
    /\ flag' = [s \in Stations |-> 0]
    /\ smPc' = "select"
    /\ UNCHANGED <<train, servedBy, pending, queue, platPc, rfds, i, j, nsfd, peer,
                   sockVars, kills, everDied>>

KillPlat(p) ==
    /\ platPc[p] # "down" /\ kills < MaxKills
    /\ kills' = kills + 1
    /\ PlatDies(p)
    /\ UNCHANGED <<train, servedBy, pending, queue, flag, smPc, rfds, i, j, nsfd,
                   listening, notify, smRestarts>>

StartPlat(p) ==
    /\ platPc[p] = "down"
    /\ platPc' = [platPc EXCEPT ![p] = "wait"]
    /\ UNCHANGED <<train, servedBy, pending, queue, smVars, sockVars, failVars>>

Next ==
    \/ \E t \in Trains : TrainArrive(t) \/ TrainRefused(t)
    \/ SmStep
    \/ \E p \in Stations : PlatStep(p)
    \/ KillSm
    \/ StartSm
    \/ \E p \in Stations : KillPlat(p) \/ StartPlat(p)

Spec == Init /\ [][Next]_vars

\* The scheduler runs every process that can run; nothing restarts one.
Fairness == WF_vars(SmStep) /\ \A p \in Stations : WF_vars(PlatStep(p))
FairSpec == Spec /\ Fairness
-----------------------------------------------------------------------------
(* Properties *)

\* Platform p holds, or has yet to read, the announcement of a train for it.
Invited(p) ==
    \/ \E k \in DOMAIN queue[p] : queue[p][k] # p
    \/ platPc[p] \in {"connect", "recvfd", "report"}

\* As long as the station master was never restarted, a platform is given the
\* descriptor of a train only if the train called at that platform's station:
\* what P1.c prints as "Train is coming to platform 1!" is true of the train it
\* then serves, whatever platforms died and came back in between.
RoutingCorrect ==
    smRestarts = 0 =>
      \A t \in Trains : servedBy[t] # 0 => servedBy[t] = Dest[t]

\* An announcement never outlives the train it announces: a platform that is
\* called in, or whose call is still in the queue, is the one of the train the
\* station master is handling at that moment.
InvitationIsCurrent ==
    smRestarts = 0 =>
      \A p \in Stations : Invited(p) =>
         \/ smPc \in {"announce", "listen", "accept", "sendfd", "recv"} /\ i = p
         \/ smPc = "down"

\* The station master waits in the accept() of pass_fd() without a client only
\* while the platform it announced is still going to connect, or has died:
\* there is no other way to lose the call.
StuckOnlyByDeath ==
    (smPc = "accept" /\ backlog = <<>> /\ smRestarts = 0) =>
      \/ \E k \in DOMAIN queue[i] : queue[i][k] # i
      \/ platPc[i] = "connect"
      \/ i \in everDied

\* Back in select() a flag is still set, so that its station is shut from then on,
\* only when somebody was killed and, as long as the station master was not
\* restarted, only when that station's own platform died: no other platform's
\* death, and no connect() that came too early, shuts a station.
FlagsFree ==
    smPc = "select" =>
      \A s \in Stations : flag[s] = 1 =>
         kills > 0 /\ (smRestarts = 0 => s \in everDied)

\* A train that reached its port is served by a platform, unless some process
\* died, be it by exit(1) of a connect() that came before serv_listen().
Served ==
    \A t \in Trains : train[t] = "queued" ~> (servedBy[t] # 0 \/ everDied # {})
=============================================================================

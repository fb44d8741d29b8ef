--------------------------------- MODULE DVS ---------------------------------
(***************************************************************************)
(* DVS: a station master (SM.cpp) accepts trains on the ports of three     *)
(* stations, announces each one ("0") on the Unix stream sockets of the    *)
(* platforms and sends the train's descriptor to the first platform whose  *)
(* platformStatus in shared memory is 0.  A platform (p1.cpp, p2.cpp) that *)
(* reads an announcement reads the descriptor next, sets its status, reads *)
(* from the train until that closes, and clears its status.                *)
(*                                                                         *)
(* Announcement and descriptor travel on one byte stream, two bytes each.  *)
(* A recv() takes what is there up to the first two bytes that carry a     *)
(* descriptor, and drops that descriptor; getFD() takes two bytes.         *)
(***************************************************************************)
EXTENDS Integers, Sequences, FiniteSets

CONSTANTS
    Trains,     \* those of a station are numbered in the order in which they come
    NoTrain,
    Station,    \* the station (port) of each train
    Accepted,   \* the platforms SM.cpp may accept: {{1}} as it stands,
                \* {1, 2} with the lines marked UNCOMMENT
    Left        \* the socket paths an earlier run may have left: nobody unlinks them
CONSTANT
    MaxTrains   \* bound: trains that come, by the number of platforms accepted

ASSUME DVSAssumption ==
    /\ Trains \subseteq Nat /\ Station \in [Trains -> 1..3]
    /\ NoTrain \notin Trains
    /\ Accepted \subseteq SUBSET (1..2)
    /\ Left \subseteq SUBSET (1..3)
    /\ MaxTrains \in [0..2 -> Nat]

Stations == 1..3
Platforms == 1..2               \* p1 and p2; there is no program for the third
Announcement == NoTrain         \* two bytes that carry no descriptor

\* The variables that are local to a block of the code are reset where the block ends.
VARIABLES
    accepted,   \* the platforms SM.cpp accepts
    paths,      \* the socket paths that are there before SM.cpp binds them
    link,       \* the connection of each platform to SM.cpp
    train,      \* what has become of each train
    left,       \* trains that have closed their connection
    pending,    \* accept queue of each station's port
    status,     \* mem->platformStatus[]
    sm, rset,   \* SM.cpp: where watchTrains() / handleTrain() is; the set of select()
    i, k, nsfd, \* SM.cpp: station, platform of the loops; the train being handled
    stream,     \* the byte stream to each platform
    plat,       \* p1.cpp: where main() is
    sz,         \* p1.cpp: what its last recv() returned, in bytes
    nfd,        \* p1.cpp: the train it reads from
    lost        \* history: trains whose descriptor went nowhere

smVars == <<sm, rset, i, k, nsfd>>
platVars == <<plat, sz, nfd>>
setup == <<accepted, paths, link>>
vars == <<setup, train, left, pending, status, smVars, stream, platVars, lost>>

TypeOK ==
    /\ accepted \in Accepted /\ paths \in Left
    /\ link \in [Platforms -> {"none", "failed", "queued", "accepted"}]
    /\ train \in [Trains -> {"away", "queued", "accepted", "served"}]
    /\ left \in SUBSET Trains /\ lost \in SUBSET Trains
    /\ pending \in [Stations -> Seq(Trains)]
    /\ status \in [Stations -> {0, 1}]
    /\ sm \in {"tcp", "unix", "shm", "accept", "select", "scan", "announce", "give", "exited"}
    /\ rset \in SUBSET Stations /\ i \in 1..4 /\ k \in 1..3
    /\ nsfd \in Trains \cup {NoTrain}
    /\ stream \in [Platforms -> Seq(Trains \cup {Announcement})]
    /\ plat \in [Platforms -> {"new", "recv", "if", "ifif", "getfd", "read", "inform", "hung"}]
    /\ sz \in [Platforms -> Nat]
    /\ nfd \in [Platforms -> Trains \cup {NoTrain}]

\* The shared memory outlives a run, with the status of each platform at that moment.
Init ==
    /\ accepted \in Accepted /\ paths \in Left
    /\ link = [p \in Platforms |-> "none"]
    /\ train = [t \in Trains |-> "away"] /\ left = {} /\ lost = {}
    /\ pending = [s \in Stations |-> <<>>]
    /\ \E T \in SUBSET Platforms : status = [s \in Stations |-> IF s \in T THEN 1 ELSE 0]
    /\ sm = "tcp" /\ rset = {} /\ i = 1 /\ k = 1 /\ nsfd = NoTrain
    /\ stream = [p \in Platforms |-> <<>>]
    /\ plat = [p \in Platforms |-> "new"]
    /\ sz = [p \in Platforms |-> 0]
    /\ nfd = [p \in Platforms |-> NoTrain]

-----------------------------------------------------------------------------
(* Trains: t1.cpp, t2.cpp *)

\* A train that comes before its port listens exits.
TrainArrives(t) ==
    /\ train[t] = "away"
    /\ \A u \in Trains : u < t /\ Station[u] = Station[t] => train[u] # "away"
    /\ sm # "exited" /\ (sm = "tcp" => Station[t] < i)
    /\ Cardinality({u \in Trains : train[u] # "away"}) < MaxTrains[Cardinality(accepted)]
    /\ train' = [train EXCEPT ![t] = "queued"]
    /\ pending' = [pending EXCEPT ![Station[t]] = Append(@, t)]
    /\ UNCHANGED <<setup, left, status, smVars, stream, platVars, lost>>

\* Ten seconds later it leaves, whatever has become of it.
TrainLeaves(t) ==
    /\ train[t] # "away" /\ t \notin left
    /\ left' = left \cup {t}
    /\ UNCHANGED <<setup, train, pending, status, smVars, stream, platVars, lost>>

-----------------------------------------------------------------------------
(* Station master: SM.cpp *)

\* A listener for each port ...
ListenPorts ==
    /\ sm = "tcp"
    /\ IF i < 3 THEN i' = i + 1 /\ UNCHANGED sm ELSE i' = 1 /\ sm' = "unix"
    /\ UNCHANGED <<setup, train, left, pending, status, rset, k, nsfd, stream, platVars,
                   lost>>

\* ... then one for each platform's path.  Where bind() finds the path it fails, and
\* listen() after it: both only print.
ListenPaths ==
    /\ sm = "unix"
    /\ IF i < 3 THEN i' = i + 1 /\ UNCHANGED sm ELSE i' = 1 /\ sm' = "shm"
    /\ UNCHANGED <<setup, train, left, pending, status, rset, k, nsfd, stream, platVars,
                   lost>>

InitializeSockets == ListenPorts \/ ListenPaths

\* initializeSHM()
InitializeSHM ==
    /\ sm = "shm" /\ sm' = "accept"
    /\ status' = [s \in Stations |-> 0]
    /\ UNCHANGED <<setup, train, left, pending, rset, i, k, nsfd, stream, platVars, lost>>

\* acceptUConn() for one platform after the other; on a socket that does not listen it
\* fails and SM.cpp exits, which closes whatever has connected to it.
AcceptPlatform ==
    /\ sm = "accept"
    /\ IF k \in paths /\ k \in accepted
       THEN sm' = "exited" /\ k' = 1 /\ UNCHANGED link
       ELSE IF k \in accepted
       THEN /\ link[k] = "queued"
            /\ link' = [link EXCEPT ![k] = "accepted"]
            /\ k' = k + 1 /\ UNCHANGED sm
       ELSE k' = 1 /\ sm' = "select" /\ UNCHANGED link
    /\ UNCHANGED <<accepted, paths, train, left, pending, status, rset, i, nsfd, stream,
                   platVars, lost>>

\* select(); a timeout of it leaves nothing to scan.
Select ==
    /\ sm = "select"
    /\ rset' = {s \in Stations : pending[s] # <<>>} /\ rset' # {}
    /\ sm' = "scan" /\ i' = 1
    /\ UNCHANGED <<setup, train, left, pending, status, k, nsfd, stream, platVars, lost>>

\* isPlatformEmpty()
PlatformEmpty == \E p \in Stations : status[p] = 0

Scanned ==
    /\ sm = "scan" /\ i = 4
    /\ sm' = "select" /\ rset' = {} /\ i' = 1
    /\ UNCHANGED <<setup, train, left, pending, status, k, nsfd, stream, platVars,
                   lost>>

Skip ==
    /\ sm = "scan" /\ i < 4
    /\ i \notin rset \/ ~PlatformEmpty
    /\ i' = i + 1
    /\ UNCHANGED <<setup, train, left, pending, status, sm, rset, k, nsfd, stream,
                   platVars, lost>>

AcceptTrain ==
    /\ sm = "scan" /\ i < 4
    /\ i \in rset /\ PlatformEmpty
    /\ nsfd' = Head(pending[i])
    /\ pending' = [pending EXCEPT ![i] = Tail(@)]
    /\ train' = [train EXCEPT ![nsfd'] = "accepted"]
    /\ sm' = "announce" /\ k' = 1
    /\ UNCHANGED <<setup, left, status, rset, i, stream, platVars, lost>>

\* send() to platform k; it fails, unnoticed, on a socket that is not connected.
Announce ==
    /\ sm = "announce"
    /\ stream' = IF k \in accepted THEN [stream EXCEPT ![k] = Append(@, Announcement)]
                                   ELSE stream
    /\ IF k = 3 THEN sm' = "give" /\ k' = 1 ELSE k' = k + 1 /\ UNCHANGED sm
    /\ UNCHANGED <<setup, train, left, pending, status, rset, i, nsfd, platVars, lost>>

\* Mutant of Give: the train is announced to its platform once more.
GiveAnnounced ==
    /\ sm = "give" /\ status[k] = 0
    /\ IF k \in accepted
       THEN stream' = [stream EXCEPT ![k] = @ \o <<Announcement, nsfd>>] /\ UNCHANGED lost
       ELSE lost' = lost \cup {nsfd} /\ UNCHANGED stream
    /\ sm' = "scan" /\ i' = i + 1 /\ k' = 1 /\ nsfd' = NoTrain
    /\ UNCHANGED <<setup, train, left, pending, status, rset, platVars>>

\* Mutant of Give: no break after the first platform.
GiveWithoutBreak ==
    /\ sm = "give" /\ status[k] = 0
    /\ IF k \in accepted
       THEN stream' = [stream EXCEPT ![k] = Append(@, nsfd)] /\ UNCHANGED lost
       ELSE lost' = lost \cup {nsfd} /\ UNCHANGED stream
    /\ IF k < 3 THEN k' = k + 1 /\ UNCHANGED <<sm, i, nsfd>>
                ELSE sm' = "scan" /\ i' = i + 1 /\ k' = 1 /\ nsfd' = NoTrain
    /\ UNCHANGED <<setup, train, left, pending, status, rset, platVars>>

\* sendTrainFD() to the first platform whose status is 0, connected or not.
Give ==
    /\ sm = "give" /\ status[k] = 0
    /\ IF k \in accepted
       THEN stream' = [stream EXCEPT ![k] = Append(@, nsfd)] /\ UNCHANGED lost
       ELSE lost' = lost \cup {nsfd} /\ UNCHANGED stream
    /\ sm' = "scan" /\ i' = i + 1 /\ k' = 1 /\ nsfd' = NoTrain
    /\ UNCHANGED <<setup, train, left, pending, status, rset, platVars>>

\* No program sets the status of the third platform: the loop always finds one.
Busy ==
    /\ sm = "give" /\ k < 3 /\ status[k] # 0
    /\ k' = k + 1
    /\ UNCHANGED <<setup, train, left, pending, status, sm, rset, i, nsfd, stream,
                   platVars, lost>>

StationMaster ==
    \/ InitializeSockets \/ InitializeSHM \/ AcceptPlatform
    \/ Select \/ Scanned \/ Skip \/ AcceptTrain \/ Announce \/ Give \/ Busy

-----------------------------------------------------------------------------
(* Platforms: p1.cpp, p2.cpp *)

Goto(p, from, to) == plat[p] = from /\ plat' = [plat EXCEPT ![p] = to]

\* main(): connect() to the platform's path, once; when it fails main() goes on.
PlatStart(p) ==
    /\ Goto(p, "new", "recv")
    /\ link' = [link EXCEPT ![p] =
                   IF p \notin paths /\ (sm = "unix" => p < i) /\ sm \notin {"tcp", "exited"}
                   THEN "queued" ELSE "failed"]
    /\ UNCHANGED <<accepted, paths, train, left, pending, status, smVars, stream, sz, nfd,
                   lost>>

\* recv() on the socket that is not connected: -1, which passes for data.
PlatRecvFails(p) ==
    /\ link[p] = "failed"
    /\ Goto(p, "recv", "if")
    /\ UNCHANGED <<setup, train, left, pending, status, smVars, stream, sz, nfd, lost>>

\* getFD() on it: what it returns is no socket, and readFromTrain() never ends.
GetFDFails(p) ==
    /\ link[p] = "failed"
    /\ Goto(p, "getfd", "hung")
    /\ status' = [status EXCEPT ![p] = 1]
    /\ UNCHANGED <<setup, train, left, pending, smVars, stream, sz, nfd, lost>>

\* How many items a recv() of 1024 bytes takes: all, or up to the first descriptor.
Taken(q) ==
    LET fds == {n \in DOMAIN q : q[n] # Announcement}
    IN  IF fds = {} THEN Len(q) ELSE CHOOSE n \in fds : \A m \in fds : n <= m

PlatRecv(p) ==
    LET n == Taken(stream[p]) IN
    /\ Goto(p, "recv", "if")
    /\ stream[p] # <<>>
    /\ stream' = [stream EXCEPT ![p] = SubSeq(@, n + 1, Len(@))]
    /\ sz' = [sz EXCEPT ![p] = 2 * n]
    /\ lost' = lost \cup ({stream[p][n]} \ {Announcement})
    /\ UNCHANGED <<setup, train, left, pending, status, smVars, nfd>>

\* Both programs test platformStatus[0] first, and test again inside: p1 the same
\* word, p2 that p1 is busy and p2 is not.
PlatIf(p) ==
    /\ Goto(p, "if", IF status[1] = 0 THEN "ifif" ELSE "recv")
    /\ sz' = [sz EXCEPT ![p] = 0]
    /\ UNCHANGED <<setup, train, left, pending, status, smVars, stream, nfd, lost>>

PlatIfIf(p) ==
    /\ Goto(p, "ifif", IF (IF p = 1 THEN status[1] = 0 ELSE status[1] # 0 /\ status[2] = 0)
                       THEN "getfd" ELSE "recv")
    /\ UNCHANGED <<setup, train, left, pending, status, smVars, stream, sz, nfd, lost>>

\* getFD(): from two bytes without a descriptor it returns what malloc() left, 0, and
\* readFromTrain() then never sees the end of what is no socket.  p2 reads from 0
\* whatever it got.
GetFD(p) ==
    LET got == Head(stream[p]) IN
    /\ stream[p] # <<>>
    /\ Goto(p, "getfd", IF p = 1 /\ got # Announcement THEN "read" ELSE "hung")
    /\ stream' = [stream EXCEPT ![p] = Tail(@)]
    /\ status' = [status EXCEPT ![p] = 1]
    /\ IF p = 1 /\ got # Announcement
       THEN /\ nfd' = [nfd EXCEPT ![p] = got]
            /\ train' = [train EXCEPT ![got] = "served"]
            /\ UNCHANGED lost
       ELSE lost' = lost \cup ({got} \ {Announcement}) /\ UNCHANGED <<nfd, train>>
    /\ UNCHANGED <<setup, left, pending, smVars, sz>>

\* Mutant of TrainGone: reading ends on the first data, not on the end of the stream.
TrainGoneOnData(p) ==
    /\ Goto(p, "read", "inform")
    /\ nfd[p] \notin left
    /\ UNCHANGED <<setup, train, left, pending, status, smVars, stream, sz, nfd, lost>>

\* readFromTrain() ends when the train has left; informSM() clears the status.
TrainGone(p) ==
    /\ Goto(p, "read", "inform")
    /\ nfd[p] \in left
    /\ UNCHANGED <<setup, train, left, pending, status, smVars, stream, sz, nfd, lost>>

InformSM(p) ==
    /\ Goto(p, "inform", "recv")
    /\ status' = [status EXCEPT ![p] = 0] /\ nfd' = [nfd EXCEPT ![p] = NoTrain]
    /\ UNCHANGED <<setup, train, left, pending, smVars, stream, sz, lost>>

Platform(p) == PlatRecv(p) \/ PlatRecvFails(p) \/ PlatIf(p) \/ PlatIfIf(p) \/ GetFD(p)
               \/ GetFDFails(p) \/ TrainGone(p) \/ InformSM(p)

Next ==
    \/ \E t \in Trains : TrainArrives(t) \/ TrainLeaves(t)
    \/ StationMaster
    \/ \E p \in Platforms : PlatStart(p) \/ Platform(p)

\* Every process that was started runs; a train leaves after ten seconds.
Spec == Init /\ [][Next]_vars /\ WF_vars(StationMaster)
             /\ (\A p \in Platforms : WF_vars(Platform(p)))
             /\ WF_vars(\E t \in Trains : TrainLeaves(t))

-----------------------------------------------------------------------------
(* Properties *)

\* With the one platform that SM.cpp accepts, p1 falls into the endless loop of
\* readFromTrain() only after the descriptor of some train went nowhere: as long as each
\* train finds it free, announcement and descriptor are taken in turn and in step with
\* SM.cpp, however its status changes between SM.cpp's test and the platform's.
\* (With two platforms an announcement alone, of a train for the other, breaks the step.)
\* The only other way is to be started when SM.cpp does not listen.
HungOnlyAfterLoss == accepted = {1} /\ plat[1] = "hung" => lost # {} \/ link[1] = "failed"

\* However the stream is cut, the descriptor of a train is in one place: with the
\* station master, in a stream, with a platform, or gone.
InStream(p, t) == Cardinality({n \in DOMAIN stream[p] : stream[p][n] = t})
Copies(t) ==
    (IF sm \in {"announce", "give"} /\ nsfd = t THEN 1 ELSE 0)
  + InStream(1, t) + InStream(2, t)
  + (IF train[t] = "served" THEN 1 ELSE 0) + (IF t \in lost THEN 1 ELSE 0)
OnePlace == \A t \in Trains :
    Copies(t) = IF train[t] \in {"accepted", "served"} THEN 1 ELSE 0

\* With one platform a train that arrives is served, unless some descriptor is lost.  In
\* particular trains that the station master gives to p1 before that sets its status are
\* served one after the other when the stream is not glued, and so are those that queue
\* before p1 is started, whatever status the last run left.  Only SM.cpp that finds the
\* path of p1, or p1 that comes too early for it or never, lets them wait.
Served == \A t \in Trains :
    (accepted = {1} /\ train[t] = "queued") ~>
        (train[t] = "served" \/ lost # {} \/ 1 \in paths \/ link[1] \in {"none", "failed"})

\* What the comment over the test of sz says, "2 => train incoming": on a connection,
\* recv() returned the two bytes of one announcement.
RecvIsAnnouncement ==
    \A p \in Platforms : plat[p] = "if" /\ link[p] = "accepted" => sz[p] = 2
=============================================================================

--------------------------- MODULE DescriptorsProof ---------------------------
(***************************************************************************)
(* The two systems whose programs hand descriptors to each other, DVS and  *)
(* Interview: types, where a descriptor is, and what each waits for.       *)
(***************************************************************************)
EXTENDS DVS, Interview, SequenceTheorems, FiniteSetTheorems, WellFoundedInduction, TLAPS

-----------------------------------------------------------------------------
(* DVS *)

Handling == sm \in {"announce", "give"}

\* p1 has read an announcement and reads the descriptor next.
Lead == plat[1] \in {"if", "ifif", "getfd"}

\* The scan: what select() found is still there for the stations it has not come to.
Scanning ==
    /\ sm = "scan" => \A s \in rset : s >= i => pending[s] # <<>>
    /\ Handling => i < 4 /\ \A s \in rset : s > i => pending[s] # <<>>

\* A train waits in the queue of its station, once.
Queued ==
    \A s \in Stations : \A m, n \in DOMAIN pending[s] :
        /\ Station[pending[s][n]] = s /\ train[pending[s][n]] = "queued"
        /\ pending[s][m] = pending[s][n] => m = n

\* The descriptors that are with the station master, in a stream, and lost, are those
\* of accepted trains, none of them in two of these places ...
Apart ==
    /\ Handling => nsfd \in Trains /\ train[nsfd] = "accepted" /\ nsfd \notin lost
    /\ \A t \in lost : train[t] = "accepted"
    /\ \A p \in Platforms : \A n \in DOMAIN stream[p] :
         stream[p][n] # Announcement =>
           /\ train[stream[p][n]] = "accepted" /\ stream[p][n] \notin lost
           /\ ~(Handling /\ nsfd = stream[p][n])
    /\ \A p, q \in Platforms : \A m \in DOMAIN stream[p] : \A n \in DOMAIN stream[q] :
         stream[p][m] = stream[q][n] /\ stream[p][m] # Announcement => p = q /\ m = n

\* ... and that of each of them is in one.
Somewhere ==
    \A t \in Trains : train[t] = "accepted" =>
        \/ t \in lost
        \/ Handling /\ nsfd = t
        \/ \E p \in Platforms : \E n \in DOMAIN stream[p] : stream[p][n] = t

DVSInv == TypeOK /\ Scanning /\ Queued /\ Apart /\ Somewhere

\* SM.cpp has announced a train to p1 and has not sent its descriptor yet.
Owing == sm = "give" \/ (sm = "announce" /\ k > 1)

\* Announcements and descriptors take turns in the stream to p1, which begins with what
\* p1 reads next and ends with what SM.cpp sent last.
Alternates ==
    /\ \A n \in 1..(Len(stream[1]) - 1) :
         (stream[1][n] = Announcement) # (stream[1][n + 1] = Announcement)
    /\ IF stream[1] = <<>> THEN Owing = Lead
       ELSE /\ (stream[1][1] = Announcement) = ~Lead
            /\ (stream[1][Len(stream[1])] = Announcement) = Owing

\* SM.cpp is not in watchTrains() yet, or never comes to it.
Before == sm \in {"tcp", "unix", "shm", "accept", "exited"}

Stepping ==
    /\ plat[1] # "hung"
    /\ Alternates
    /\ Before => stream[1] = <<>> /\ plat[1] \in {"new", "recv"}
    /\ sm \notin {"tcp", "unix", "shm", "exited"}
         /\ plat[1] \in {"new", "recv", "if", "ifif", "getfd"} => status[1] = 0
    /\ sm \in {"select", "scan", "announce", "give"} => plat[1] # "new"
    /\ sm \in {"tcp", "unix", "shm"} => k = 1
    /\ sm = "accept" /\ k # 1 => plat[1] # "new"
    /\ plat[1] # "new" => link[1] # "none"

\* As long as no descriptor is lost, p1 and SM.cpp are in step.
InStep ==
    /\ plat[1] = "new" => link[1] = "none"
    /\ accepted = {1} /\ lost = {} /\ link[1] # "failed" => Stepping

\* A set of naturals that is not empty has a least element.
LEMMA Least ==
    ASSUME NEW T, T \subseteq Nat, T # {}
    PROVE  \E x \in T : \A y \in T : x <= y
  <1> DEFINE R == {ss \in Nat \X Nat : ss[1] < ss[2]}
  <1>1. IsWellFoundedOn(R, Nat)
    BY NatLessThanWellFounded DEF OpToRel
  <1>2. ASSUME NEW U, NEW S, IsWellFoundedOn(U, S), T \subseteq S
        PROVE  \E x \in T : \A y \in T : ~ (<<y, x>> \in U)
    BY <1>2, WFMin, Zenon
  <1>3. PICK x \in T : \A y \in T : ~ (<<y, x>> \in R)
    <2> HIDE DEF R
    <2> QED BY <1>1, <1>2
  <1>4. ASSUME NEW y \in T, y < x PROVE FALSE
    <2>1. <<y, x>> \in Nat \X Nat /\ <<y, x>>[1] < <<y, x>>[2]
      BY <1>4
    <2>2. <<y, x>> \in R
      BY <2>1
    <2> QED BY <1>3, <2>2
  <1> QED BY <1>4

LEMMA TakenFacts ==
    ASSUME NEW q \in Seq(Trains \cup {Announcement}), q # <<>>
    PROVE  /\ Taken(q) \in 1..Len(q)
           /\ \A n \in 1..Len(q) : n < Taken(q) => q[n] = Announcement
           /\ q[Taken(q)] = Announcement => \A n \in 1..Len(q) : q[n] = Announcement
  <1> DEFINE fds == {n \in DOMAIN q : q[n] # Announcement}
  <1>1. Len(q) \in Nat /\ Len(q) > 0 /\ DOMAIN q = 1..Len(q)
    OBVIOUS
  <1>2. CASE fds = {}
    BY <1>1, <1>2 DEF Taken
  <1>3. CASE fds # {}
    <2>1. fds \subseteq Nat /\ fds \subseteq 1..Len(q)
      BY <1>1
    <2>2. \E x \in fds : \A y \in fds : x <= y
      BY <1>3, <2>1, Least
    <2>3. Taken(q) = CHOOSE n \in fds : \A m \in fds : n <= m
      BY <1>3 DEF Taken
    <2>4. Taken(q) \in fds /\ \A m \in fds : Taken(q) <= m
      BY <2>2, <2>3
    <2> QED BY <1>1, <2>1, <2>4
  <1> QED BY <1>2, <1>3

LEMMA TypesInit == Init => TypeOK
  BY DVSAssumption DEF Init, TypeOK, Platforms, Stations

LEMMA TypesStep ==
    ASSUME TypeOK, Scanning, Apart, Next
    PROVE  TypeOK'
  <1> USE DVSAssumption DEF TypeOK, setup, smVars, platVars, Goto, Stations, Platforms, Announcement
  <1>1. ASSUME NEW t \in Trains, TrainArrives(t) PROVE TypeOK'
    <2>1. Station[t] \in Stations /\ pending[Station[t]] \in Seq(Trains)
      OBVIOUS
    <2>2. Append(pending[Station[t]], t) \in Seq(Trains)
      BY <2>1
    <2>3. pending' = [pending EXCEPT ![Station[t]] = Append(@, t)] /\ train' = [train EXCEPT ![t] = "queued"]
          /\ UNCHANGED <<setup, left, status, smVars, stream, platVars, lost>>
      BY <1>1 DEF TrainArrives
    <2>4. pending' \in [Stations -> Seq(Trains)]
      BY <2>1, <2>2, <2>3
    <2> QED BY <2>3, <2>4
  <1>2. ASSUME NEW t \in Trains, TrainLeaves(t) PROVE TypeOK'
    BY <1>2 DEF TrainLeaves
  <1>3. ASSUME ListenPorts PROVE TypeOK'
    <2>1. i' \in 1..4 /\ sm' \in {"tcp", "unix", "shm"}
      BY <1>3 DEF ListenPorts
    <2>2. UNCHANGED <<setup, train, left, pending, status, rset, k, nsfd, stream, platVars, lost>>
      BY <1>3 DEF ListenPorts
    <2> QED BY <2>1, <2>2
  <1>4. ASSUME ListenPaths PROVE TypeOK'
    <2>1. i' \in 1..4 /\ sm' \in {"tcp", "unix", "shm"}
      BY <1>4 DEF ListenPaths
    <2>2. UNCHANGED <<setup, train, left, pending, status, rset, k, nsfd, stream, platVars, lost>>
      BY <1>4 DEF ListenPaths
    <2> QED BY <2>1, <2>2
  <1>5. ASSUME InitializeSHM PROVE TypeOK'
    BY <1>5 DEF InitializeSHM
  <1>6. ASSUME AcceptPlatform PROVE TypeOK'
    <2>1. k' \in 1..3 /\ sm' \in {"exited", "accept", "select"}
      BY <1>6 DEF AcceptPlatform
    <2>2. link' \in [Platforms -> {"none", "failed", "queued", "accepted"}]
      BY <1>6 DEF AcceptPlatform
    <2>3. UNCHANGED <<accepted, paths, train, left, pending, status, rset, i, nsfd, stream, platVars, lost>>
      BY <1>6 DEF AcceptPlatform
    <2> QED BY <2>1, <2>2, <2>3
  <1>7. ASSUME Select PROVE TypeOK'
    BY <1>7 DEF Select
  <1>8. ASSUME Scanned PROVE TypeOK'
    BY <1>8 DEF Scanned
  <1>9. ASSUME Skip PROVE TypeOK'
    BY <1>9 DEF Skip
  <1>10. ASSUME AcceptTrain PROVE TypeOK'
    <2>1. i \in Stations /\ pending[i] # <<>> /\ pending[i] \in Seq(Trains)
      BY <1>10 DEF AcceptTrain, Scanning
    <2>2. Head(pending[i]) \in Trains /\ Tail(pending[i]) \in Seq(Trains)
      BY <2>1
    <2>3. /\ nsfd' = Head(pending[i]) /\ pending' = [pending EXCEPT ![i] = Tail(@)]
          /\ train' = [train EXCEPT ![nsfd'] = "accepted"] /\ sm' = "announce" /\ k' = 1
          /\ UNCHANGED <<setup, left, status, rset, i, stream, platVars, lost>>
      BY <1>10 DEF AcceptTrain
    <2>4. pending' \in [Stations -> Seq(Trains)]
      BY <2>1, <2>2, <2>3
    <2>5. train' \in [Trains -> {"away", "queued", "accepted", "served"}] /\ nsfd' \in Trains
      BY <2>2, <2>3
    <2>6. accepted' \in Accepted /\ paths' \in Left /\ left' \in SUBSET Trains
          /\ lost' \in SUBSET Trains /\ rset' \in SUBSET Stations
      BY <2>3
    <2>7. /\ link' \in [Platforms -> {"none", "failed", "queued", "accepted"}]
          /\ status' \in [Stations -> {0, 1}]
          /\ stream' \in [Platforms -> Seq(Trains \cup {Announcement})]
          /\ plat' \in [Platforms -> {"new", "recv", "if", "ifif", "getfd", "read", "inform", "hung"}]
          /\ sz' \in [Platforms -> Nat]
          /\ nfd' \in [Platforms -> Trains \cup {NoTrain}]
      BY <2>3
    <2>8. sm' = "announce" /\ i' \in 1..4 /\ k' \in 1..3
      BY <2>3
    <2> QED BY <2>4, <2>5, <2>6, <2>7, <2>8
  <1>11. ASSUME Announce PROVE TypeOK'
    <2>1. \A p \in Platforms : Append(stream[p], Announcement) \in Seq(Trains \cup {Announcement})
      OBVIOUS
    <2>2. stream' \in [Platforms -> Seq(Trains \cup {Announcement})]
      BY <1>11, <2>1 DEF Announce
    <2>3. k' \in 1..3 /\ sm' \in {"announce", "give"}
      BY <1>11 DEF Announce
    <2>4. UNCHANGED <<setup, train, left, pending, status, rset, i, nsfd, platVars, lost>>
      BY <1>11 DEF Announce
    <2> QED BY <2>2, <2>3, <2>4
  <1>12. ASSUME Give PROVE TypeOK'
    <2>1. nsfd \in Trains /\ i < 4
      BY <1>12 DEF Give, Scanning, Apart, Handling
    <2>2. \A p \in Platforms : Append(stream[p], nsfd) \in Seq(Trains \cup {Announcement})
      BY <2>1
    <2>3. stream' \in [Platforms -> Seq(Trains \cup {Announcement})]
      <3>1. stream' = [stream EXCEPT ![k] = Append(@, nsfd)] \/ stream' = stream
        BY <1>12 DEF Give
      <3>2. stream \in [Platforms -> Seq(Trains \cup {Announcement})]
        OBVIOUS
      <3>3. CASE k \in Platforms /\ stream' = [stream EXCEPT ![k] = Append(@, nsfd)]
        <4> HIDE DEF TypeOK
        <4> QED BY <2>2, <3>2, <3>3
      <3>4. CASE k \notin Platforms /\ stream' = [stream EXCEPT ![k] = Append(@, nsfd)]
        <4>1. stream' = stream
          BY <3>2, <3>4
        <4> QED BY <3>2, <4>1
      <3> QED BY <3>1, <3>2, <3>3, <3>4
    <2>4. k' \in 1..3 /\ sm' = "scan" /\ i' \in 1..4 /\ nsfd' = NoTrain
      BY <1>12, <2>1 DEF Give
    <2>5. lost' \in SUBSET Trains
      <3>1. lost' = lost \cup {nsfd} \/ lost' = lost
        BY <1>12 DEF Give
      <3>2. lost \subseteq Trains
        OBVIOUS
      <3>3. lost' \subseteq Trains
        <4> HIDE DEF TypeOK
        <4> QED BY <2>1, <3>1, <3>2
      <3> QED BY <3>3
    <2>6. UNCHANGED <<setup, train, left, pending, status, rset, platVars>>
      BY <1>12 DEF Give
    <2> QED BY <2>3, <2>4, <2>5, <2>6
  <1>13. ASSUME Busy PROVE TypeOK'
    BY <1>13 DEF Busy
  <1>14. ASSUME NEW p \in Platforms, PlatStart(p) PROVE TypeOK'
    BY <1>14 DEF PlatStart
  <1>15. ASSUME NEW p \in Platforms, PlatRecv(p) PROVE TypeOK'
    <2> DEFINE n == Taken(stream[p])
    <2>1. stream[p] \in Seq(Trains \cup {Announcement}) /\ stream[p] # <<>>
      BY <1>15 DEF PlatRecv
    <2>2. n \in 1..Len(stream[p])
      BY <2>1, TakenFacts
    <2>3. SubSeq(stream[p], n + 1, Len(stream[p])) \in Seq(Trains \cup {Announcement})
      BY <2>1, <2>2
    <2>4. stream[p][n] \in Trains \cup {Announcement}
      BY <2>1, <2>2
    <2>5. /\ stream' = [stream EXCEPT ![p] = SubSeq(@, n + 1, Len(@))]
          /\ sz' = [sz EXCEPT ![p] = 2 * n] /\ lost' = lost \cup ({stream[p][n]} \ {Announcement})
          /\ plat' = [plat EXCEPT ![p] = "if"]
          /\ UNCHANGED <<setup, train, left, pending, status, smVars, nfd>>
      BY <1>15 DEF PlatRecv
    <2> HIDE DEF n
    <2>6. stream' \in [Platforms -> Seq(Trains \cup {Announcement})]
      BY <2>3, <2>5
    <2>7. sz' \in [Platforms -> Nat]
      <3>1. Len(stream[p]) \in Nat
        BY <2>1
      <3>2. 2 * n \in Nat
        BY <2>2, <3>1
      <3> QED BY <2>5, <3>2
    <2>8. lost' \in SUBSET Trains
      <3>1. lost \subseteq Trains
        OBVIOUS
      <3> QED BY <2>4, <2>5, <3>1
    <2> QED BY <2>5, <2>6, <2>7, <2>8
  <1>16. ASSUME NEW p \in Platforms, PlatRecvFails(p) PROVE TypeOK'
    BY <1>16 DEF PlatRecvFails
  <1>17. ASSUME NEW p \in Platforms, PlatIf(p) PROVE TypeOK'
    BY <1>17 DEF PlatIf
  <1>18. ASSUME NEW p \in Platforms, PlatIfIf(p) PROVE TypeOK'
    BY <1>18 DEF PlatIfIf
  <1>19. ASSUME NEW p \in Platforms, GetFD(p) PROVE TypeOK'
    <2>1. stream[p] \in Seq(Trains \cup {Announcement}) /\ stream[p] # <<>>
      BY <1>19 DEF GetFD
    <2>2. Head(stream[p]) \in Trains \cup {Announcement} /\ Tail(stream[p]) \in Seq(Trains \cup {Announcement})
      BY <2>1
    <2>3. stream' = [stream EXCEPT ![p] = Tail(@)] /\ status' = [status EXCEPT ![p] = 1]
          /\ UNCHANGED <<setup, left, pending, smVars, sz>>
      BY <1>19 DEF GetFD
    <2>4. stream' \in [Platforms -> Seq(Trains \cup {Announcement})]
      BY <2>2, <2>3
    <2>5. plat' \in [Platforms -> {"new", "recv", "if", "ifif", "getfd", "read", "inform", "hung"}]
      BY <1>19 DEF GetFD
    <2>6. /\ nfd' \in [Platforms -> Trains \cup {NoTrain}] /\ lost' \in SUBSET Trains
          /\ train' \in [Trains -> {"away", "queued", "accepted", "served"}]
      <3>1. lost \subseteq Trains /\ nfd \in [Platforms -> Trains \cup {NoTrain}]
            /\ train \in [Trains -> {"away", "queued", "accepted", "served"}]
        OBVIOUS
      <3>2. CASE p = 1 /\ Head(stream[p]) # Announcement
        <4>1. /\ nfd' = [nfd EXCEPT ![p] = Head(stream[p])] /\ lost' = lost
              /\ train' = [train EXCEPT ![Head(stream[p])] = "served"]
          BY <1>19, <3>2 DEF GetFD
        <4>2. Head(stream[p]) \in Trains
          BY <2>2, <3>2
        <4> HIDE DEF TypeOK
        <4> QED BY <3>1, <4>1, <4>2
      <3>3. CASE ~(p = 1 /\ Head(stream[p]) # Announcement)
        <4>1. nfd' = nfd /\ train' = train /\ lost' = lost \cup ({Head(stream[p])} \ {Announcement})
          BY <1>19, <3>3 DEF GetFD
        <4> HIDE DEF TypeOK
        <4>2. {Head(stream[p])} \ {Announcement} \subseteq Trains
          BY <2>2
        <4>3. lost' \subseteq Trains
          BY <3>1, <4>1, <4>2
        <4> QED BY <3>1, <4>1, <4>3
      <3> QED BY <3>2, <3>3
    <2> QED BY <2>3, <2>4, <2>5, <2>6
  <1>20. ASSUME NEW p \in Platforms, GetFDFails(p) PROVE TypeOK'
    BY <1>20 DEF GetFDFails
  <1>21. ASSUME NEW p \in Platforms, TrainGone(p) PROVE TypeOK'
    BY <1>21 DEF TrainGone
  <1>22. ASSUME NEW p \in Platforms, InformSM(p) PROVE TypeOK'
    BY <1>22 DEF InformSM
  <1> QED
    BY <1>1, <1>2, <1>3, <1>4, <1>5, <1>6, <1>7, <1>8, <1>9, <1>10, <1>11, <1>12, <1>13, <1>14,
       <1>15, <1>16, <1>17, <1>18, <1>19, <1>20, <1>21, <1>22 DEF Next, StationMaster,
       InitializeSockets, Platform

\* Steps that move no train and no descriptor.
LEMMA Still ==
    ASSUME Queued, Apart, Somewhere, UNCHANGED <<train, pending, stream, lost, nsfd>>,
           Handling' = Handling
    PROVE  Queued' /\ Apart' /\ Somewhere'
  BY DEF Queued, Apart, Somewhere

\* What a platform takes off its stream: announcements, and then one item.
LEMMA TakenOff ==
    ASSUME TypeOK, Queued, Apart, Somewhere, NEW p \in Platforms,
           NEW n \in 1..Len(stream[p]), NEW r \in Seq(Trains \cup {Announcement}),
           \A m \in 1..Len(stream[p]) : m < n => stream[p][m] = Announcement,
           Len(r) = Len(stream[p]) - n, \A m \in 1..Len(r) : r[m] = stream[p][m + n],
           stream' = [stream EXCEPT ![p] = r],
           \/ /\ lost' = lost \cup ({stream[p][n]} \ {Announcement}) /\ train' = train
           \/ /\ stream[p][n] # Announcement /\ lost' = lost
              /\ train' = [train EXCEPT ![stream[p][n]] = "served"],
           UNCHANGED <<pending, sm, nsfd>>
    PROVE  Queued' /\ Apart' /\ Somewhere'
  <1> DEFINE x == stream[p][n]
  <1>1. /\ \A q \in Platforms : stream[q] \in Seq(Trains \cup {Announcement})
        /\ \A q \in Platforms : q # p => stream'[q] = stream[q]
        /\ stream'[p] = r
    BY DEF TypeOK
  <1>2. /\ \A q \in Platforms : Len(stream[q]) \in Nat /\ DOMAIN stream[q] = 1..Len(stream[q])
        /\ Len(r) \in Nat /\ DOMAIN r = 1..Len(r) /\ n \in DOMAIN stream[p]
    BY <1>1
  <1>3. \A m \in DOMAIN r : m + n \in DOMAIN stream[p] /\ m + n # n /\ r[m] = stream[p][m + n]
    BY <1>2
  <1>4. x \in Trains \cup {Announcement}
    BY <1>1, <1>2
  <1>5. x # Announcement =>
          /\ x \notin lost /\ ~(Handling /\ nsfd = x) /\ train[x] = "accepted" /\ x \in Trains
    BY <1>2, <1>4 DEF Apart
  <1>6. \A q \in Platforms : \A m \in DOMAIN stream'[q] : stream'[q][m] # Announcement => stream'[q][m] # x
    <2>1. SUFFICES ASSUME NEW q \in Platforms, NEW m \in DOMAIN stream'[q],
                          stream'[q][m] # Announcement, stream'[q][m] = x
                   PROVE  FALSE
      OBVIOUS
    <2>2. CASE q = p
      BY <1>1, <1>2, <1>3, <2>1, <2>2 DEF Apart
    <2>3. CASE q # p
      BY <1>1, <1>2, <2>1, <2>3 DEF Apart
    <2> QED BY <2>2, <2>3
  <1>7. \A t \in Trains : t # x => train'[t] = train[t] /\ (t \in lost' <=> t \in lost)
    BY <1>5 DEF TypeOK
  <1>8. Handling' = Handling /\ nsfd' = nsfd
    BY DEF Handling
  <1>9. x # Announcement => train'[x] = "served" \/ x \in lost'
    BY <1>4, <1>5 DEF TypeOK
  <1>18. \A t \in lost' : t \in lost \/ (t = x /\ x # Announcement /\ train' = train)
    OBVIOUS
  <1> HIDE DEF x
  <1>10. Queued'
    <2>1. \A s \in Stations : \A m \in DOMAIN pending[s] : pending[s][m] \in Trains
      BY DEF TypeOK
    <2>2. \A s \in Stations : \A m \in DOMAIN pending[s] : train'[pending[s][m]] = "queued"
      BY <1>4, <1>5, <1>7, <2>1 DEF Queued, x
    <2> QED BY <2>2 DEF Queued
  <1>11. \A q \in Platforms : \A m \in DOMAIN stream'[q] :
           \E b \in DOMAIN stream[q] : stream'[q][m] = stream[q][b] /\ b = IF q = p THEN m + n ELSE m
    BY <1>1, <1>3
  <1>12. \A q \in Platforms : \A m \in DOMAIN stream'[q] : stream'[q][m] # Announcement =>
           /\ stream'[q][m] \in Trains
           /\ train'[stream'[q][m]] = "accepted" /\ stream'[q][m] \notin lost'
           /\ ~(Handling' /\ nsfd' = stream'[q][m])
    <2>1. SUFFICES ASSUME NEW q \in Platforms, NEW m \in DOMAIN stream'[q], stream'[q][m] # Announcement
                   PROVE  /\ stream'[q][m] \in Trains
                          /\ train'[stream'[q][m]] = "accepted" /\ stream'[q][m] \notin lost'
                          /\ ~(Handling' /\ nsfd' = stream'[q][m])
      OBVIOUS
    <2>2. PICK b \in DOMAIN stream[q] : stream'[q][m] = stream[q][b]
      BY <1>11
    <2>3. stream[q][b] \in Trains /\ stream[q][b] # x
      BY <1>1, <1>2, <1>6, <2>1, <2>2
    <2> QED BY <1>7, <1>8, <2>1, <2>2, <2>3 DEF Apart
  <1>13. \A q1, q2 \in Platforms : \A m1 \in DOMAIN stream'[q1] : \A m2 \in DOMAIN stream'[q2] :
           stream'[q1][m1] = stream'[q2][m2] /\ stream'[q1][m1] # Announcement => q1 = q2 /\ m1 = m2
    <2>1. SUFFICES ASSUME NEW q1 \in Platforms, NEW q2 \in Platforms,
                          NEW m1 \in DOMAIN stream'[q1], NEW m2 \in DOMAIN stream'[q2],
                          stream'[q1][m1] = stream'[q2][m2], stream'[q1][m1] # Announcement
                   PROVE  q1 = q2 /\ m1 = m2
      OBVIOUS
    <2>2. PICK b1 \in DOMAIN stream[q1] : stream'[q1][m1] = stream[q1][b1] /\ b1 = IF q1 = p THEN m1 + n ELSE m1
      BY <1>11
    <2>3. PICK b2 \in DOMAIN stream[q2] : stream'[q2][m2] = stream[q2][b2] /\ b2 = IF q2 = p THEN m2 + n ELSE m2
      BY <1>11
    <2>4. q1 = q2 /\ b1 = b2
      BY <2>1, <2>2, <2>3 DEF Apart
    <2>5. n \in Int /\ \A q \in Platforms : DOMAIN stream'[q] \subseteq Int
      <3>1. \A q \in Platforms : stream'[q] = r \/ stream'[q] = stream[q]
        BY <1>1
      <3> QED BY <1>2, <3>1
    <2>6. m1 \in Int /\ m2 \in Int
      BY <2>5
    <2>7. CASE q1 = p
      BY <2>2, <2>3, <2>4, <2>5, <2>6, <2>7
    <2>8. CASE q1 # p
      BY <2>2, <2>3, <2>4, <2>8
    <2> QED BY <2>7, <2>8
  <1>14. \A t \in lost' : train'[t] = "accepted"
    <2>1. \A t \in lost : t \in Trains /\ t # x
      BY <1>4, <1>5, DVSAssumption DEF TypeOK, Announcement
    <2>2. \A t \in lost' : t \in Trains
      BY <1>5, <1>18, <2>1
    <2> QED BY <1>5, <1>7, <1>18, <2>1, <2>2 DEF Apart
  <1>15. Handling' => nsfd' \in Trains /\ train'[nsfd'] = "accepted" /\ nsfd' \notin lost'
    <2>1. Handling => nsfd \in Trains /\ nsfd # x
      BY <1>4, <1>5, DVSAssumption DEF Apart, Announcement
    <2> QED BY <1>7, <1>8, <2>1 DEF Apart
  <1>16. Apart'
    BY <1>12, <1>13, <1>14, <1>15 DEF Apart
  <1>17. Somewhere'
    <2>1. SUFFICES ASSUME NEW t \in Trains, train'[t] = "accepted", t \notin lost', ~(Handling' /\ nsfd' = t)
                   PROVE  \E q \in Platforms : \E m \in DOMAIN stream'[q] : stream'[q][m] = t
      BY DEF Somewhere
    <2>2. t # x /\ t # Announcement
      BY <1>4, <1>9, <2>1, DVSAssumption DEF Announcement
    <2>3. PICK q \in Platforms : \E b \in DOMAIN stream[q] : stream[q][b] = t
      BY <1>7, <1>8, <2>1, <2>2 DEF Somewhere
    <2>4. PICK b \in DOMAIN stream[q] : stream[q][b] = t
      BY <2>3
    <2>5. CASE q # p
      BY <1>1, <2>4, <2>5
    <2>6. CASE q = p
      <3>1. b \in 1..Len(stream[p]) /\ ~(b < n) /\ b # n
        BY <1>2, <2>2, <2>4, <2>6 DEF x
      <3>2. b - n \in 1..Len(r) /\ (b - n) + n = b
        BY <1>2, <3>1
      <3>3. r[b - n] = t
        BY <2>4, <2>6, <3>2
      <3> QED BY <1>1, <1>2, <2>6, <3>2, <3>3
    <2> QED BY <2>5, <2>6
  <1> QED BY <1>10, <1>16, <1>17

LEMMA Sent ==
    ASSUME TypeOK, NEW p \in Platforms, NEW x \in Trains \cup {Announcement},
           stream' = [stream EXCEPT ![p] = Append(@, x)]
    PROVE  /\ \A q \in Platforms : \A m \in DOMAIN stream'[q] :
                \/ m \in DOMAIN stream[q] /\ stream'[q][m] = stream[q][m]
                \/ q = p /\ m = Len(stream[p]) + 1 /\ stream'[q][m] = x
           /\ \A q \in Platforms : \A m \in DOMAIN stream[q] :
                m \in DOMAIN stream'[q] /\ stream'[q][m] = stream[q][m]
           /\ Len(stream[p]) + 1 \in DOMAIN stream'[p] /\ stream'[p][Len(stream[p]) + 1] = x
  <1>1. stream[p] \in Seq(Trains \cup {Announcement})
    BY DEF TypeOK
  <1>2. DOMAIN stream[p] = 1..Len(stream[p]) /\ Len(stream[p]) \in Nat
    BY <1>1
  <1> DEFINE r == Append(stream[p], x)
  <1>3. /\ DOMAIN r = 1..(Len(stream[p]) + 1)
        /\ \A m \in 1..Len(stream[p]) : r[m] = stream[p][m]
        /\ r[Len(stream[p]) + 1] = x
    BY <1>1
  <1>4. stream'[p] = r /\ \A q \in Platforms : q # p => stream'[q] = stream[q]
    BY DEF TypeOK
  <1> HIDE DEF r
  <1>5. \A m \in DOMAIN r : m \in 1..Len(stream[p]) \/ m = Len(stream[p]) + 1
    BY <1>2, <1>3
  <1>6. Len(stream[p]) + 1 \in DOMAIN r /\ \A m \in 1..Len(stream[p]) : m \in DOMAIN r
    BY <1>2, <1>3
  <1> QED BY <1>2, <1>3, <1>4, <1>5, <1>6

LEMMA GiveStep ==
    ASSUME TypeOK, Queued, Apart, Somewhere, Give
    PROVE  Queued' /\ Apart' /\ Somewhere'
  <1>1. /\ sm = "give" /\ sm' = "scan" /\ Handling /\ ~Handling' /\ k \in 1..3
        /\ UNCHANGED <<train, pending>> /\ nsfd \in Trains
        /\ train[nsfd] = "accepted" /\ nsfd \notin lost
    BY DEF Give, Handling, Apart, TypeOK
  <1>2. Queued'
    BY <1>1 DEF Queued
  <1>3. CASE k \in accepted
    <2>1. k \in Platforms /\ nsfd \in Trains \cup {Announcement}
      BY <1>1, <1>3, DVSAssumption DEF TypeOK, Platforms
    <2>2. stream' = [stream EXCEPT ![k] = Append(@, nsfd)] /\ lost' = lost
      BY <1>3 DEF Give
    <2>3. /\ \A q \in Platforms : \A m \in DOMAIN stream'[q] :
               \/ m \in DOMAIN stream[q] /\ stream'[q][m] = stream[q][m]
               \/ q = k /\ m = Len(stream[k]) + 1 /\ stream'[q][m] = nsfd
          /\ \A q \in Platforms : \A m \in DOMAIN stream[q] :
               m \in DOMAIN stream'[q] /\ stream'[q][m] = stream[q][m]
          /\ Len(stream[k]) + 1 \in DOMAIN stream'[k] /\ stream'[k][Len(stream[k]) + 1] = nsfd
      BY <2>1, <2>2, Sent
    <2>4. \A q \in Platforms : \A m \in DOMAIN stream[q] : stream[q][m] # Announcement => stream[q][m] # nsfd
      BY <1>1 DEF Apart
    <2>5. nsfd # Announcement
      BY <1>1, DVSAssumption DEF Announcement
    <2>6. \A q1, q2 \in Platforms : \A m1 \in DOMAIN stream'[q1] : \A m2 \in DOMAIN stream'[q2] :
            stream'[q1][m1] = stream'[q2][m2] /\ stream'[q1][m1] # Announcement => q1 = q2 /\ m1 = m2
      <3>1. SUFFICES ASSUME NEW q1 \in Platforms, NEW q2 \in Platforms,
                            NEW m1 \in DOMAIN stream'[q1], NEW m2 \in DOMAIN stream'[q2],
                            stream'[q1][m1] = stream'[q2][m2], stream'[q1][m1] # Announcement
                     PROVE  q1 = q2 /\ m1 = m2
        OBVIOUS
      <3>2. CASE stream'[q1][m1] = nsfd
        <4>1. \A q \in Platforms : \A m \in DOMAIN stream'[q] :
                stream'[q][m] = nsfd => q = k /\ m = Len(stream[k]) + 1
          BY <2>3, <2>4, <2>5
        <4> QED BY <3>1, <3>2, <4>1
      <3>3. CASE stream'[q1][m1] # nsfd
        BY <2>3, <3>1, <3>3 DEF Apart
      <3> QED BY <3>2, <3>3
    <2>7. Apart'
      BY <1>1, <2>2, <2>3, <2>6 DEF Apart
    <2>8. Somewhere'
      BY <1>1, <2>1, <2>2, <2>3 DEF Somewhere
    <2> QED BY <1>2, <2>7, <2>8
  <1>4. CASE k \notin accepted
    <2>1. stream' = stream /\ lost' = lost \cup {nsfd}
      BY <1>4 DEF Give
    <2>2. Apart'
      <3>1. \A p \in Platforms : \A n \in DOMAIN stream'[p] : stream'[p][n] # Announcement =>
              /\ train'[stream'[p][n]] = "accepted" /\ stream'[p][n] \notin lost'
              /\ ~(Handling' /\ nsfd' = stream'[p][n])
        BY <1>1, <2>1 DEF Apart
      <3>2. \A t \in lost' : train'[t] = "accepted"
        BY <1>1, <2>1 DEF Apart
      <3>3. \A p, q \in Platforms : \A m \in DOMAIN stream'[p] : \A n \in DOMAIN stream'[q] :
              stream'[p][m] = stream'[q][n] /\ stream'[p][m] # Announcement => p = q /\ m = n
        BY <2>1 DEF Apart
      <3> QED BY <1>1, <3>1, <3>2, <3>3 DEF Apart
    <2>3. Somewhere'
      BY <1>1, <2>1 DEF Somewhere
    <2> QED BY <1>2, <2>2, <2>3
  <1> QED BY <1>3, <1>4

LEMMA AnnounceStep ==
    ASSUME TypeOK, Queued, Apart, Somewhere, Announce
    PROVE  Queued' /\ Apart' /\ Somewhere'
  <1>1. /\ Handling' = Handling /\ UNCHANGED <<train, pending, nsfd, lost>> /\ k \in 1..3
    BY DEF Announce, Handling, TypeOK
  <1>2. CASE k \in accepted
    <2>1. k \in Platforms
      BY <1>1, <1>2, DVSAssumption DEF TypeOK, Platforms
    <2>2. stream' = [stream EXCEPT ![k] = Append(@, Announcement)]
      BY <1>2 DEF Announce
    <2>3. /\ \A q \in Platforms : \A m \in DOMAIN stream'[q] :
               \/ m \in DOMAIN stream[q] /\ stream'[q][m] = stream[q][m]
               \/ q = k /\ m = Len(stream[k]) + 1 /\ stream'[q][m] = Announcement
          /\ \A q \in Platforms : \A m \in DOMAIN stream[q] :
               m \in DOMAIN stream'[q] /\ stream'[q][m] = stream[q][m]
      BY <2>1, <2>2, Sent
    <2>4. Queued'
      BY <1>1 DEF Queued
    <2>5. Apart'
      BY <1>1, <2>3 DEF Apart
    <2>6. Somewhere'
      BY <1>1, <2>3 DEF Somewhere
    <2> QED BY <2>4, <2>5, <2>6
  <1>3. CASE k \notin accepted
    <2>1. stream' = stream
      BY <1>3 DEF Announce
    <2> QED BY <1>1, <2>1, Still
  <1> QED BY <1>2, <1>3

LEMMA AcceptTrainStep ==
    ASSUME TypeOK, Scanning, Queued, Apart, Somewhere, AcceptTrain
    PROVE  Queued' /\ Apart' /\ Somewhere'
  <1> DEFINE q == pending[i]
             x == Head(q)
  <1>1. /\ i \in Stations /\ q \in Seq(Trains) /\ q # <<>>
    BY DEF AcceptTrain, Scanning, TypeOK, Stations
  <1>2. /\ x = q[1] /\ x \in Trains /\ 1 \in DOMAIN q
        /\ DOMAIN Tail(q) = 1..(Len(q) - 1) /\ DOMAIN q = 1..Len(q) /\ Len(q) \in Nat
        /\ \A m \in 1..(Len(q) - 1) : Tail(q)[m] = q[m + 1]
    BY <1>1
  <1>3. /\ nsfd' = x /\ train' = [train EXCEPT ![x] = "accepted"] /\ sm = "scan" /\ sm' = "announce"
        /\ pending' = [pending EXCEPT ![i] = Tail(q)] /\ UNCHANGED <<stream, lost>>
    BY DEF AcceptTrain
  <1>4. train[x] = "queued" /\ train'[x] = "accepted"
        /\ \A t \in Trains : t # x => train'[t] = train[t]
    BY <1>1, <1>2, <1>3 DEF Queued, TypeOK
  <1>5. /\ pending'[i] = Tail(q) /\ \A s \in Stations : s # i => pending'[s] = pending[s]
    BY <1>1, <1>3 DEF TypeOK
  <1>6. ~Handling /\ Handling'
    BY <1>3 DEF Handling
  <1>7. \A s \in Stations : \A n \in DOMAIN pending[s] : pending[s][n] \in Trains /\ n \in Int
    BY DEF TypeOK
  <1> HIDE DEF x, q
  <1>8. \A s \in Stations : \A n \in DOMAIN pending'[s] :
          \E b \in DOMAIN pending[s] : /\ b = IF s = i THEN n + 1 ELSE n
                                       /\ pending'[s][n] = pending[s][b] /\ pending[s][b] # x /\ n \in Int
    <2>1. SUFFICES ASSUME NEW s \in Stations, NEW n \in DOMAIN pending'[s]
                   PROVE  \E b \in DOMAIN pending[s] :
                            /\ b = IF s = i THEN n + 1 ELSE n
                            /\ pending'[s][n] = pending[s][b] /\ pending[s][b] # x /\ n \in Int
      OBVIOUS
    <2>2. CASE s = i
      <3>1. n \in 1..(Len(q) - 1) /\ n + 1 \in DOMAIN q /\ n + 1 # 1 /\ pending'[s][n] = q[n + 1]
        BY <1>2, <1>5, <2>1, <2>2
      <3>2. q[n + 1] # x
        BY <1>1, <1>2, <3>1 DEF Queued, q
      <3> QED BY <2>2, <3>1, <3>2 DEF q
    <2>3. CASE s # i
      <3>1. n \in DOMAIN pending[s] /\ pending'[s][n] = pending[s][n] /\ n \in Int
        BY <1>5, <1>7, <2>1, <2>3
      <3>2. Station[pending[s][n]] = s /\ Station[x] = i
        BY <1>1, <1>2, <2>1, <3>1 DEF Queued, q
      <3> QED BY <2>3, <3>1, <3>2
    <2> QED BY <2>2, <2>3
  <1>9. Queued'
    <2>1. \A s \in Stations : \A n \in DOMAIN pending'[s] :
            Station[pending'[s][n]] = s /\ train'[pending'[s][n]] = "queued"
      BY <1>4, <1>7, <1>8 DEF Queued
    <2>2. ASSUME NEW s \in Stations, NEW m \in DOMAIN pending'[s], NEW n \in DOMAIN pending'[s],
                 pending'[s][m] = pending'[s][n]
          PROVE  m = n
      <3>1. PICK b1 \in DOMAIN pending[s] : /\ b1 = IF s = i THEN m + 1 ELSE m
                                            /\ pending'[s][m] = pending[s][b1] /\ m \in Int
        BY <1>8
      <3>2. PICK b2 \in DOMAIN pending[s] : /\ b2 = IF s = i THEN n + 1 ELSE n
                                            /\ pending'[s][n] = pending[s][b2] /\ n \in Int
        BY <1>8
      <3>3. pending[s][b1] = pending[s][b2]
        BY <2>2, <3>1, <3>2
      <3>4. b1 = b2
        BY <3>3 DEF Queued
      <3>5. CASE s = i
        BY <3>1, <3>2, <3>4, <3>5
      <3>6. CASE s # i
        BY <3>1, <3>2, <3>4, <3>6
      <3> QED BY <3>5, <3>6
    <2> QED BY <2>1, <2>2 DEF Queued
  <1>10. Apart'
    <2>1. \A p \in Platforms : \A n \in DOMAIN stream[p] :
            stream[p][n] # Announcement => stream[p][n] # x /\ stream[p][n] \in Trains
      BY <1>4 DEF Apart, TypeOK
    <2>2. \A t \in lost : t # x /\ t \in Trains
      BY <1>4 DEF Apart, TypeOK
    <2>3. x \notin lost
      BY <2>2
    <2> QED BY <1>2, <1>3, <1>4, <2>1, <2>2, <2>3 DEF Apart
  <1>11. Somewhere'
    BY <1>3, <1>4, <1>6 DEF Somewhere
  <1> QED BY <1>9, <1>10, <1>11

LEMMA ArrivesStep ==
    ASSUME TypeOK, Queued, Apart, Somewhere, NEW x \in Trains, TrainArrives(x)
    PROVE  Queued' /\ Apart' /\ Somewhere'
  <1> DEFINE z == Station[x]
             q == pending[z]
  <1>1. z \in Stations /\ q \in Seq(Trains)
    BY DVSAssumption DEF TypeOK, Stations
  <1>2. /\ train[x] = "away" /\ train' = [train EXCEPT ![x] = "queued"]
        /\ pending' = [pending EXCEPT ![z] = Append(q, x)] /\ UNCHANGED <<stream, lost, sm, nsfd>>
    BY DEF TrainArrives, smVars
  <1>3. /\ DOMAIN Append(q, x) = 1..(Len(q) + 1) /\ DOMAIN q = 1..Len(q) /\ Len(q) \in Nat
        /\ \A m \in 1..Len(q) : Append(q, x)[m] = q[m]
        /\ Append(q, x)[Len(q) + 1] = x
    BY <1>1
  <1>4. /\ pending'[z] = Append(q, x) /\ \A s \in Stations : s # z => pending'[s] = pending[s]
    BY <1>1, <1>2 DEF TypeOK
  <1>5. train'[x] = "queued" /\ \A t \in Trains : t # x => train'[t] = train[t]
    BY <1>2 DEF TypeOK
  <1>6. Handling' = Handling /\ nsfd' = nsfd
    BY <1>2 DEF Handling
  <1>7. \A s \in Stations : \A n \in DOMAIN pending[s] : pending[s][n] \in Trains /\ pending[s][n] # x
    BY <1>2 DEF TypeOK, Queued
  <1> HIDE DEF z, q
  <1>8. \A s \in Stations : \A n \in DOMAIN pending'[s] :
          \/ n \in DOMAIN pending[s] /\ pending'[s][n] = pending[s][n]
          \/ s = z /\ n = Len(q) + 1 /\ pending'[s][n] = x
    <2>1. \A n \in 1..(Len(q) + 1) : n \in 1..Len(q) \/ n = Len(q) + 1
      BY <1>3
    <2> QED BY <1>3, <1>4, <2>1 DEF q
  <1>9. Queued'
    BY <1>5, <1>7, <1>8 DEF Queued, z
  <1>10. Apart'
    <2>1. \A p \in Platforms : \A n \in DOMAIN stream[p] :
            stream[p][n] # Announcement => stream[p][n] # x /\ stream[p][n] \in Trains
      BY <1>2 DEF Apart, TypeOK
    <2>2. \A t \in lost : t # x /\ t \in Trains
      BY <1>2 DEF Apart, TypeOK
    <2>3. Handling => nsfd # x
      BY <1>2 DEF Apart
    <2> QED BY <1>2, <1>5, <1>6, <2>1, <2>2, <2>3 DEF Apart
  <1>11. Somewhere'
    BY <1>2, <1>5, <1>6 DEF Somewhere
  <1> QED BY <1>9, <1>10, <1>11

LEMMA PlatRecvStep ==
    ASSUME TypeOK, Queued, Apart, Somewhere, NEW p \in Platforms, PlatRecv(p)
    PROVE  Queued' /\ Apart' /\ Somewhere'
  <1> DEFINE q == stream[p]
             n == Taken(q)
             r == SubSeq(q, n + 1, Len(q))
  <1>1. q \in Seq(Trains \cup {Announcement}) /\ q # <<>>
    BY DEF PlatRecv, TypeOK
  <1>2. n \in 1..Len(q) /\ \A m \in 1..Len(q) : m < n => q[m] = Announcement
    BY <1>1, TakenFacts
  <1>3. /\ stream' = [stream EXCEPT ![p] = r] /\ train' = train
        /\ lost' = lost \cup ({q[n]} \ {Announcement}) /\ UNCHANGED <<pending, sm, nsfd>>
    BY DEF PlatRecv, smVars
  <1> HIDE DEF n
  <1>4. /\ r \in Seq(Trains \cup {Announcement}) /\ Len(r) = Len(q) - n
        /\ \A m \in 1..Len(r) : r[m] = q[m + n]
    BY <1>1, <1>2
  <1> HIDE DEF r
  <1> QED BY <1>2, <1>3, <1>4, TakenOff

LEMMA GetFDStep ==
    ASSUME TypeOK, Queued, Apart, Somewhere, NEW p \in Platforms, GetFD(p)
    PROVE  Queued' /\ Apart' /\ Somewhere'
  <1> DEFINE q == stream[p]
             r == Tail(q)
  <1>1. q \in Seq(Trains \cup {Announcement}) /\ q # <<>>
    BY DEF GetFD, TypeOK
  <1>2. /\ r \in Seq(Trains \cup {Announcement}) /\ Len(r) = Len(q) - 1 /\ Len(q) \in Nat /\ Len(q) >= 1
        /\ \A m \in 1..Len(r) : r[m] = q[m + 1]
        /\ Head(q) = q[1]
    BY <1>1
  <1>3. /\ stream' = [stream EXCEPT ![p] = r] /\ UNCHANGED <<pending, sm, nsfd>>
    BY DEF GetFD, smVars
  <1>4. \/ /\ lost' = lost \cup ({q[1]} \ {Announcement}) /\ train' = train
        \/ /\ q[1] # Announcement /\ lost' = lost
           /\ train' = [train EXCEPT ![q[1]] = "served"]
    BY <1>2 DEF GetFD
  <1> HIDE DEF r
  <1>5. 1 \in 1..Len(q) /\ \A m \in 1..Len(q) : ~(m < 1)
    BY <1>2
  <1> QED BY <1>2, <1>3, <1>4, <1>5, TakenOff

LEMMA ScanningStep ==
    ASSUME TypeOK, Scanning, Next
    PROVE  Scanning'
  <1> USE DEF Scanning, Handling, smVars
  <1>1. ASSUME UNCHANGED <<smVars, pending>> PROVE Scanning'
    BY <1>1
  <1>2. ASSUME NEW t \in Trains, TrainArrives(t) PROVE Scanning'
    <2>1. /\ pending' = [pending EXCEPT ![Station[t]] = Append(@, t)] /\ UNCHANGED <<sm, rset, i>>
      BY <1>2 DEF TrainArrives
    <2>2. \A s \in Stations : pending[s] \in Seq(Trains) /\ (pending[s] # <<>> => pending'[s] # <<>>)
      <3>1. SUFFICES ASSUME NEW s \in Stations
                     PROVE  pending[s] \in Seq(Trains) /\ (pending[s] # <<>> => pending'[s] # <<>>)
        OBVIOUS
      <3>2. pending[s] \in Seq(Trains)
        BY DEF TypeOK
      <3>3. Append(pending[s], t) # <<>>
        BY <3>2
      <3>4. pending'[s] = pending[s] \/ pending'[s] = Append(pending[s], t)
        BY <2>1 DEF TypeOK
      <3> QED BY <3>2, <3>3, <3>4
    <2> QED BY <2>1, <2>2 DEF TypeOK
  <1>3. ASSUME ListenPorts \/ ListenPaths \/ InitializeSHM \/ AcceptPlatform PROVE Scanning'
    BY <1>3 DEF ListenPorts, ListenPaths, InitializeSHM, AcceptPlatform
  <1>4. ASSUME Select \/ Scanned \/ Skip PROVE Scanning'
    <2>1. rset \subseteq Stations /\ i \in 1..4
      BY DEF TypeOK
    <2>2. CASE Select
      BY <2>2 DEF Select
    <2>3. CASE Scanned
      BY <2>3 DEF Scanned
    <2>4. CASE Skip
      BY <2>1, <2>4 DEF Skip, Stations
    <2> QED BY <1>4, <2>2, <2>3, <2>4
  <1>5. ASSUME AcceptTrain PROVE Scanning'
    <2>1. /\ sm = "scan" /\ sm' = "announce" /\ i \in Stations /\ UNCHANGED <<i, rset>>
          /\ pending' = [pending EXCEPT ![i] = Tail(@)]
      BY <1>5 DEF AcceptTrain, TypeOK, Stations
    <2>2. \A s \in Stations : s # i => pending'[s] = pending[s]
      BY <2>1 DEF TypeOK
    <2> QED BY <2>1, <2>2 DEF TypeOK, Stations
  <1>6. ASSUME Announce \/ Busy \/ Give PROVE Scanning'
    <2>1. rset \subseteq Stations /\ i \in 1..4
      BY DEF TypeOK
    <2>2. CASE Announce
      BY <2>2 DEF Announce
    <2>3. CASE Busy
      BY <2>3 DEF Busy
    <2>4. CASE Give
      BY <2>1, <2>4 DEF Give, Stations
    <2> QED BY <1>6, <2>2, <2>3, <2>4
  <1>7. ASSUME NEW t \in Trains, TrainLeaves(t) PROVE Scanning'
    BY <1>1, <1>7 DEF TrainLeaves
  <1>8. ASSUME NEW p \in Platforms, PlatStart(p) \/ Platform(p) PROVE Scanning'
    BY <1>1, <1>8 DEF PlatStart, Platform, PlatRecv, PlatRecvFails, PlatIf, PlatIfIf, GetFD,
       GetFDFails, TrainGone, InformSM
  <1> QED
    BY <1>2, <1>3, <1>4, <1>5, <1>6, <1>7, <1>8 DEF Next, StationMaster, InitializeSockets

LEMMA DVSInvInit == Init => DVSInv
  <1> SUFFICES ASSUME Init PROVE DVSInv
    OBVIOUS
  <1>1. TypeOK
    BY TypesInit
  <1>2. Scanning /\ Queued /\ Somewhere
    BY DEF Init, Scanning, Queued, Somewhere, Handling
  <1>3. Apart
    BY DEF Init, Apart, Handling
  <1> QED BY <1>1, <1>2, <1>3 DEF DVSInv

LEMMA DVSInvStep == DVSInv /\ [Next]_vars => DVSInv'
  <1> SUFFICES ASSUME TypeOK, Scanning, Queued, Apart, Somewhere, [Next]_vars PROVE DVSInv'
    BY DEF DVSInv
  <1>1. CASE UNCHANGED vars
    <2>1. TypeOK'
      BY <1>1 DEF TypeOK, vars, setup, smVars, platVars
    <2>2. Scanning'
      BY <1>1 DEF Scanning, Handling, vars, smVars
    <2>3. Queued' /\ Apart' /\ Somewhere'
      BY <1>1, Still DEF Handling, vars, smVars
    <2> QED BY <2>1, <2>2, <2>3 DEF DVSInv
  <1>2. CASE Next
    <2>1. TypeOK' /\ Scanning'
      BY <1>2, TypesStep, ScanningStep
    <2>2. ASSUME NEW t \in Trains, TrainArrives(t) \/ TrainLeaves(t) PROVE Queued' /\ Apart' /\ Somewhere'
      <3>1. CASE TrainArrives(t)
        BY <3>1, ArrivesStep
      <3>2. CASE TrainLeaves(t)
        BY <3>2, Still DEF TrainLeaves, smVars, Handling
      <3> QED BY <2>2, <3>1, <3>2
    <2>3. ASSUME StationMaster PROVE Queued' /\ Apart' /\ Somewhere'
      <3>1. CASE InitializeSockets \/ InitializeSHM \/ AcceptPlatform
        BY <3>1, Still DEF InitializeSockets, ListenPorts, ListenPaths, InitializeSHM,
           AcceptPlatform, Handling
      <3>2. CASE Select \/ Scanned \/ Skip \/ Busy
        BY <3>2, Still DEF Select, Scanned, Skip, Busy, Handling
      <3> QED BY <2>3, <3>1, <3>2, AcceptTrainStep, AnnounceStep, GiveStep DEF StationMaster
    <2>4. ASSUME NEW p \in Platforms, PlatStart(p) \/ Platform(p) PROVE Queued' /\ Apart' /\ Somewhere'
      <3>1. CASE PlatStart(p) \/ PlatRecvFails(p) \/ PlatIf(p) \/ PlatIfIf(p)
                 \/ GetFDFails(p) \/ TrainGone(p) \/ InformSM(p)
        BY <3>1, Still DEF PlatStart, PlatRecvFails, PlatIf, PlatIfIf, GetFDFails, TrainGone,
           InformSM, smVars, Handling
      <3> QED BY <2>4, <3>1, PlatRecvStep, GetFDStep DEF Platform
    <2>5. Queued' /\ Apart' /\ Somewhere'
      BY <1>2, <2>2, <2>3, <2>4 DEF Next
    <2> QED BY <2>1, <2>5 DEF DVSInv
  <1> QED BY <1>1, <1>2

\* Every variable keeps its type, however the programs' steps interleave.
THEOREM DVSTypes == Spec => []TypeOK
  <1>1. DVSInv => TypeOK
    BY DEF DVSInv
  <1> QED BY <1>1, DVSInvInit, DVSInvStep, PTL DEF Spec

\* A descriptor that is at one position of a stream counts once there.
LEMMA InOnePlace == DVSInv => OnePlace
  <1> SUFFICES ASSUME TypeOK, Apart, Somewhere, NEW t \in Trains
               PROVE  Copies(t) = IF train[t] \in {"accepted", "served"} THEN 1 ELSE 0
    BY DEF DVSInv, OnePlace
  <1> DEFINE At(p) == {n \in DOMAIN stream[p] : stream[p][n] = t}
  <1>1. t # Announcement
    BY DVSAssumption DEF Announcement
  <1>2. \A p \in Platforms : At(p) # {} => \E n : At(p) = {n} /\ InStream(p, t) = 1
    <2>1. SUFFICES ASSUME NEW p \in Platforms, NEW n \in At(p)
                   PROVE  At(p) = {n} /\ InStream(p, t) = 1
      OBVIOUS
    <2>2. At(p) = {n}
      BY <1>1, <2>1 DEF Apart
    <2> QED BY <2>2, FS_Singleton DEF InStream
  <1>3. \A p \in Platforms : At(p) = {} => InStream(p, t) = 0
    BY FS_EmptySet DEF InStream
  <1>4. 1 \in Platforms /\ 2 \in Platforms /\ \A p \in Platforms : p = 1 \/ p = 2
    BY DEF Platforms
  <1>5. \A p \in Platforms : At(p) # {} => train[t] = "accepted" /\ t \notin lost /\ ~(Handling /\ nsfd = t)
    BY <1>1 DEF Apart
  <1>6. At(1) = {} \/ At(2) = {}
    BY <1>1, <1>4 DEF Apart
  <1>7. t \in lost => train[t] = "accepted" /\ ~(Handling /\ nsfd = t)
    BY DEF Apart
  <1>8. Handling /\ nsfd = t => train[t] = "accepted"
    BY DEF Apart
  <1>9. train[t] = "accepted" => t \in lost \/ (Handling /\ nsfd = t) \/ At(1) # {} \/ At(2) # {}
    BY <1>4 DEF Somewhere
  <1>10. train[t] \in {"away", "queued", "accepted", "served"}
    BY DEF TypeOK
  <1> HIDE DEF At
  <1>11. Copies(t) = (IF Handling /\ nsfd = t THEN 1 ELSE 0) + InStream(1, t) + InStream(2, t)
                   + (IF train[t] = "served" THEN 1 ELSE 0) + (IF t \in lost THEN 1 ELSE 0)
    BY DEF Copies, Handling
  <1> QED
    BY <1>2, <1>3, <1>4, <1>5, <1>6, <1>7, <1>8, <1>9, <1>10, <1>11

\* OnePlace: however the streams are cut, no descriptor is duplicated and none vanishes.
THEOREM OnePlaceTheorem == Spec => []OnePlace
  BY DVSInvInit, DVSInvStep, InOnePlace, PTL DEF Spec

LEMMA Lasting ==
    ASSUME TypeOK, plat[1] = "new" => link[1] = "none", Next
    PROVE  /\ accepted' = accepted /\ lost \subseteq lost'
           /\ link[1] = "failed" => link'[1] = "failed"
  <1>1. ASSUME NEW t \in Trains, TrainArrives(t) \/ TrainLeaves(t)
        PROVE  accepted' = accepted /\ lost \subseteq lost' /\ link' = link
    BY <1>1 DEF TrainArrives, TrainLeaves, setup
  <1>2. ASSUME StationMaster
        PROVE  accepted' = accepted /\ lost \subseteq lost' /\ (link[1] = "failed" => link'[1] = "failed")
    <2>1. CASE AcceptPlatform
      <3>1. \/ link' = link
            \/ link[k] = "queued" /\ link' = [link EXCEPT ![k] = "accepted"]
        BY <2>1 DEF AcceptPlatform
      <3>2. link \in [Platforms -> {"none", "failed", "queued", "accepted"}] /\ 1 \in Platforms
        BY DEF TypeOK, Platforms
      <3> QED BY <2>1, <3>1, <3>2 DEF AcceptPlatform
    <2>2. CASE InitializeSockets \/ InitializeSHM \/ Select \/ Scanned \/ Skip \/ AcceptTrain \/ Announce \/ Busy
      BY <2>2 DEF InitializeSockets, ListenPorts, ListenPaths, InitializeSHM, Select, Scanned,
         Skip, AcceptTrain, Announce, Busy, setup
    <2>3. CASE Give
      BY <2>3 DEF Give, setup
    <2> QED BY <1>2, <2>1, <2>2, <2>3 DEF StationMaster
  <1>3. ASSUME NEW p \in Platforms, PlatStart(p) \/ Platform(p)
        PROVE  accepted' = accepted /\ lost \subseteq lost' /\ (link[1] = "failed" => link'[1] = "failed")
    <2>1. CASE PlatStart(p)
      <3>1. plat[p] = "new" /\ \E x : link' = [link EXCEPT ![p] = x]
        BY <2>1 DEF PlatStart, Goto
      <3>2. link \in [Platforms -> {"none", "failed", "queued", "accepted"}] /\ 1 \in Platforms
        BY DEF TypeOK, Platforms
      <3> QED BY <2>1, <3>1, <3>2 DEF PlatStart
    <2>2. CASE PlatRecv(p) \/ GetFD(p)
      BY <2>2 DEF PlatRecv, GetFD, setup
    <2>3. CASE PlatRecvFails(p) \/ PlatIf(p) \/ PlatIfIf(p) \/ GetFDFails(p) \/ TrainGone(p) \/ InformSM(p)
      BY <2>3 DEF PlatRecvFails, PlatIf, PlatIfIf, GetFDFails, TrainGone, InformSM, setup
    <2> QED BY <1>3, <2>1, <2>2, <2>3 DEF Platform
  <1> QED BY <1>1, <1>2, <1>3 DEF Next

\* Steps between what is sent to p1 and what p1 reads.
LEMMA StillAlternates ==
    ASSUME Alternates, stream'[1] = stream[1], Owing' = Owing, Lead' = Lead
    PROVE  Alternates'
  BY DEF Alternates

LEMMA NoItems ==
    ASSUME NEW S, NEW q \in Seq(S)
    PROVE  (q = <<>> <=> Len(q) = 0) /\ Len(q) \in Nat
  OBVIOUS

\* What SM.cpp sends next goes on with the turns.
LEMMA SentAlternates ==
    ASSUME TypeOK, Alternates, NEW x \in Trains \cup {Announcement},
           stream' = [stream EXCEPT ![1] = Append(@, x)],
           (x = Announcement) = ~Owing, Owing' = ~Owing, Lead' = Lead
    PROVE  Alternates'
  <1> DEFINE q == stream[1]
             r == Append(q, x)
  <1>1. q \in Seq(Trains \cup {Announcement}) /\ stream'[1] = r
    BY DEF TypeOK, Platforms
  <1>2. /\ Len(q) \in Nat /\ Len(r) = Len(q) + 1 /\ r[Len(q) + 1] = x
        /\ \A n \in 1..Len(q) : r[n] = q[n]
    BY <1>1
  <1>8. (q = <<>> <=> Len(q) = 0) /\ (r = <<>> <=> Len(r) = 0)
    <2>1. r \in Seq(Trains \cup {Announcement})
      BY <1>1
    <2> QED BY <1>1, <2>1, NoItems
  <1>3. /\ \A n \in 1..(Len(q) - 1) : (q[n] = Announcement) # (q[n + 1] = Announcement)
        /\ q = <<>> => Owing = Lead
        /\ q # <<>> => (q[1] = Announcement) = ~Lead /\ (q[Len(q)] = Announcement) = Owing
    BY DEF Alternates
  <1> HIDE DEF q, r
  <1>4. Owing \in BOOLEAN /\ Lead \in BOOLEAN
    BY DEF Owing, Lead
  <1>5. \A n \in 1..(Len(r) - 1) : (r[n] = Announcement) # (r[n + 1] = Announcement)
    <2>1. SUFFICES ASSUME NEW n \in 1..Len(q) PROVE (r[n] = Announcement) # (r[n + 1] = Announcement)
      BY <1>2
    <2>2. CASE n = Len(q)
      <3>1. r[n] = q[Len(q)] /\ r[n + 1] = x /\ q # <<>>
        BY <1>2, <1>8, <2>1, <2>2
      <3> QED BY <1>3, <1>4, <3>1
    <2>3. CASE n # Len(q)
      <3>1. n \in 1..(Len(q) - 1) /\ n + 1 \in 1..Len(q)
        BY <1>2, <2>1, <2>3
      <3> QED BY <1>2, <1>3, <2>1, <3>1
    <2> QED BY <2>2, <2>3
  <1>6. (r[1] = Announcement) = ~Lead
    <2>1. CASE q = <<>>
      <3>1. r[1] = x
        BY <1>2, <1>8, <2>1
      <3> QED BY <1>3, <1>4, <2>1, <3>1
    <2>2. CASE q # <<>>
      <3>1. r[1] = q[1]
        BY <1>2, <1>8, <2>2
      <3> QED BY <1>3, <2>2, <3>1
    <2> QED BY <2>1, <2>2
  <1>7. (r[Len(r)] = Announcement) = ~Owing
    BY <1>2
  <1>9. stream'[1] # <<>>
    BY <1>1, <1>2, <1>8
  <1> QED BY <1>1, <1>5, <1>6, <1>7, <1>9 DEF Alternates

\* So does what p1 reads, one item at a time.
LEMMA ReadAlternates ==
    ASSUME TypeOK, Alternates, stream[1] # <<>>,
           stream'[1] = Tail(stream[1]), Owing' = Owing, Lead' = ~Lead
    PROVE  Alternates'
  <1> DEFINE q == stream[1]
             r == Tail(q)
  <1>1. q \in Seq(Trains \cup {Announcement}) /\ stream'[1] = r /\ q # <<>>
    BY DEF TypeOK, Platforms
  <1>2. /\ Len(q) \in Nat /\ Len(q) >= 1 /\ Len(r) = Len(q) - 1
        /\ \A n \in 1..(Len(q) - 1) : r[n] = q[n + 1]
    BY <1>1
  <1>7. r \in Seq(Trains \cup {Announcement})
    BY <1>1
  <1>8. r = <<>> <=> Len(q) = 1
    <2> HIDE DEF q, r
    <2>1. r = <<>> <=> Len(r) = 0
      BY <1>7, NoItems
    <2> QED BY <1>2, <2>1
  <1>3. /\ \A n \in 1..(Len(q) - 1) : (q[n] = Announcement) # (q[n + 1] = Announcement)
        /\ (q[1] = Announcement) = ~Lead /\ (q[Len(q)] = Announcement) = Owing
    BY <1>1 DEF Alternates
  <1> HIDE DEF q, r
  <1>4. Owing \in BOOLEAN /\ Lead \in BOOLEAN
    BY DEF Owing, Lead
  <1>5. CASE Len(q) = 1
    <2>1. Owing' = Lead'
      BY <1>3, <1>4, <1>5
    <2>2. stream'[1] = <<>>
      BY <1>1, <1>5, <1>8
    <2>3. Len(stream'[1]) = 0
      <3>1. Len(r) = 0
        BY <1>2, <1>5
      <3> QED BY <1>1, <3>1
    <2>4. 1..(0 - 1) = {}
      OBVIOUS
    <2> QED BY <2>1, <2>2, <2>3, <2>4 DEF Alternates
  <1>6. CASE Len(q) > 1
    <2>1. \A n \in 1..(Len(r) - 1) : (r[n] = Announcement) # (r[n + 1] = Announcement)
      <3> SUFFICES ASSUME NEW n \in 1..(Len(r) - 1)
                   PROVE  (r[n] = Announcement) # (r[n + 1] = Announcement)
        OBVIOUS
      <3>1. n \in 1..(Len(q) - 2)
        BY <1>2
      <3>2. /\ n \in 1..(Len(q) - 1) /\ n + 1 \in 1..(Len(q) - 1)
            /\ r[n] = q[n + 1] /\ r[n + 1] = q[(n + 1) + 1]
        BY <1>2, <3>1
      <3> QED BY <1>3, <3>2
    <2>2. r[1] = q[1 + 1] /\ 1 \in 1..(Len(q) - 1)
      BY <1>2, <1>6
    <2>3. (r[1] = Announcement) = ~Lead'
      BY <1>3, <1>4, <2>2
    <2>4. r[Len(r)] = q[Len(q)]
      BY <1>2, <1>6
    <2> QED BY <1>1, <1>2, <1>3, <1>6, <1>8, <2>1, <2>3, <2>4 DEF Alternates
  <1> QED BY <1>2, <1>5, <1>6

\* While no descriptor is lost p1 finds one announcement at a time.
LEMMA OneAnnouncement ==
    ASSUME TypeOK, Alternates, ~Lead, PlatRecv(1), lost' = {}
    PROVE  stream'[1] = Tail(stream[1]) /\ stream' = [stream EXCEPT ![1] = <<>>]
  <1> DEFINE q == stream[1]
             n == Taken(q)
  <1>1. q \in Seq(Trains \cup {Announcement}) /\ q # <<>>
    BY DEF PlatRecv, TypeOK, Platforms
  <1>2. /\ n \in 1..Len(q) /\ \A m \in 1..Len(q) : m < n => q[m] = Announcement
        /\ q[n] = Announcement => \A m \in 1..Len(q) : q[m] = Announcement
    BY <1>1, TakenFacts
  <1>3. /\ stream' = [stream EXCEPT ![1] = SubSeq(q, n + 1, Len(q))]
        /\ lost' = lost \cup ({q[n]} \ {Announcement})
    BY DEF PlatRecv
  <1> HIDE DEF n
  <1>4. q[n] = Announcement
    BY <1>3
  <1>5. Len(q) \in Nat /\ Len(q) >= 1
    BY <1>1
  <1>6. \A m \in 1..(Len(q) - 1) : (q[m] = Announcement) # (q[m + 1] = Announcement)
    BY DEF Alternates
  <1>7. Tail(q) \in Seq(Trains \cup {Announcement}) /\ Len(Tail(q)) = Len(q) - 1
    BY <1>1
  <1> HIDE DEF q
  <1>8. Len(q) = 1
    <2>1. ASSUME Len(q) > 1 PROVE FALSE
      <3>1. 1 \in 1..(Len(q) - 1) /\ 1 \in 1..Len(q) /\ 1 + 1 \in 1..Len(q)
        BY <1>5, <2>1
      <3> QED BY <1>2, <1>4, <1>6, <3>1
    <2>2. \A n1 \in Nat : n1 >= 1 => n1 > 1 \/ n1 = 1
      OBVIOUS
    <2> QED BY <1>5, <2>1, <2>2
  <1>9. n = 1
    BY <1>2, <1>8
  <1>10. SubSeq(q, n + 1, Len(q)) = <<>>
    BY <1>1, <1>8, <1>9
  <1>11. Tail(q) = <<>>
    <2>1. Len(Tail(q)) = 0
      BY <1>7, <1>8
    <2> QED BY <1>7, <2>1, NoItems
  <1>12. stream' = [stream EXCEPT ![1] = <<>>]
    BY <1>3, <1>10
  <1>13. 1 \in DOMAIN stream
    BY DEF TypeOK, Platforms
  <1> QED BY <1>11, <1>12, <1>13 DEF q

LEMMA SteppingStill ==
    ASSUME Stepping, sm' = sm, k' = k, stream'[1] = stream[1], plat'[1] = plat[1],
           status'[1] = status[1], link'[1] = link[1]
    PROVE  Stepping'
  BY DEF Stepping, Alternates, Owing, Lead, Before

LEMMA SteppingMaster ==
    ASSUME TypeOK, Apart, Stepping, StationMaster,
           plat[1] = "new" => link[1] = "none",
           accepted = {1}, lost' = {}
    PROVE  Stepping'
  <1> USE DEF Stepping
  <1>1. 1 \in Platforms /\ 1 \in Stations /\ k \in 1..3
    BY DEF Platforms, Stations, TypeOK
  <1>2. ASSUME stream'[1] = stream[1], plat'[1] = plat[1], ~Owing, ~Owing' PROVE Alternates'
    <2>1. Owing' = Owing /\ Lead' = Lead
      BY <1>2 DEF Owing, Lead
    <2> QED BY <1>2, <2>1, StillAlternates
  <1>3. CASE InitializeSockets
    <2>1. /\ UNCHANGED <<stream, plat, link, status, k>> /\ sm \in {"tcp", "unix"}
          /\ sm' \in {"tcp", "unix", "shm"}
      BY <1>3 DEF InitializeSockets, ListenPorts, ListenPaths, platVars, setup
    <2> QED BY <1>2, <2>1 DEF Before, Owing
  <1>4. CASE InitializeSHM
    <2>1. /\ UNCHANGED <<stream, plat, link, k>> /\ sm = "shm" /\ sm' = "accept"
          /\ status'[1] = 0
      BY <1>1, <1>4 DEF InitializeSHM, platVars, setup
    <2> QED BY <1>2, <2>1 DEF Before, Owing
  <1>5. CASE AcceptPlatform
    <2>1. UNCHANGED <<stream, plat, status>> /\ sm = "accept"
      BY <1>5 DEF AcceptPlatform, platVars
    <2>2. \/ sm' = "exited" /\ link' = link
          \/ /\ link[1] = "queued" /\ link'[1] = "accepted" /\ sm' = sm
          \/ sm' = "select" /\ k # 1 /\ link' = link
      BY <1>1, <1>5 DEF AcceptPlatform, TypeOK, Platforms
    <2>3. plat[1] \in {"new", "recv"} /\ stream[1] = <<>>
      BY <2>1 DEF Before
    <2>4. Alternates'
      BY <1>2, <2>1, <2>2 DEF Owing
    <2> QED BY <2>1, <2>2, <2>3, <2>4 DEF Before
  <1>6. CASE Select \/ Scanned \/ Skip \/ AcceptTrain
    <2>1. /\ UNCHANGED <<stream, plat, link, status>>
          /\ sm \in {"select", "scan"}
          /\ sm' \in {"select", "scan"} \/ (sm' = "announce" /\ k' = 1)
      BY <1>6 DEF Select, Scanned, Skip, AcceptTrain, platVars, setup
    <2> QED BY <1>2, <2>1 DEF Before, Owing
  <1>7. CASE Announce
    <2>1. /\ UNCHANGED <<plat, link, status>> /\ sm = "announce"
          /\ sm' \in {"announce", "give"} /\ Owing' /\ Lead' = Lead
      BY <1>1, <1>7 DEF Announce, platVars, setup, Owing, Lead
    <2>2. CASE k = 1
      <3>1. stream' = [stream EXCEPT ![1] = Append(@, Announcement)] /\ ~Owing
        BY <1>7, <2>1, <2>2 DEF Announce, Owing
      <3>2. Owing' = ~Owing /\ (Announcement = Announcement) = ~Owing
        BY <2>1, <3>1 DEF Owing
      <3>3. Alternates'
        BY <2>1, <3>1, <3>2, SentAlternates
      <3> QED BY <2>1, <3>3 DEF Before
    <2>3. CASE k # 1
      <3>1. stream' = stream /\ Owing
        BY <1>1, <1>7, <2>1, <2>3 DEF Announce, Owing
      <3>2. Owing' = Owing
        BY <2>1, <3>1 DEF Owing
      <3>3. Alternates'
        BY <2>1, <3>1, <3>2, StillAlternates
      <3> QED BY <2>1, <3>1, <3>3 DEF Before
    <2> QED BY <2>2, <2>3
  <1>8. CASE Give
    <2>1. /\ UNCHANGED <<plat, link, status>> /\ sm = "give" /\ sm' = "scan"
          /\ nsfd \in Trains
      BY <1>8 DEF Give, platVars, setup, Apart, Handling
    <2>2. k = 1
      <3>1. k \notin accepted => nsfd \in lost'
        BY <1>8 DEF Give
      <3> QED BY <3>1
    <2>3. stream' = [stream EXCEPT ![1] = Append(@, nsfd)]
      BY <1>8, <2>2 DEF Give
    <2>4. Owing /\ ~Owing' /\ Lead' = Lead /\ nsfd # Announcement
      BY <2>1, DVSAssumption DEF Owing, Lead, Announcement
    <2>5. Owing' = ~Owing /\ (nsfd = Announcement) = ~Owing
      BY <2>4 DEF Owing
    <2>6. Alternates'
      BY <2>1, <2>3, <2>4, <2>5, SentAlternates
    <2> QED BY <2>1, <2>6 DEF Before
  <1>9. CASE Busy
    <2>1. UNCHANGED <<stream, plat, link, status, sm>> /\ sm = "give"
      BY <1>9 DEF Busy, platVars, setup
    <2>2. Owing' = Owing /\ Lead' = Lead
      BY <2>1 DEF Owing, Lead
    <2>3. Alternates'
      BY <2>1, <2>2, StillAlternates
    <2> QED BY <2>1, <2>3 DEF Before
  <1> QED
    BY <1>3, <1>4, <1>5, <1>6, <1>7, <1>8, <1>9 DEF StationMaster

LEMMA SteppingPlatform ==
    ASSUME TypeOK, Stepping, PlatStart(1) \/ Platform(1),
           link[1] # "failed", link'[1] # "failed", lost' = {}
    PROVE  Stepping'
  <1> USE DEF Stepping
  <1>1. /\ 1 \in Platforms /\ 1 \in Stations
        /\ plat \in [Platforms -> {"new", "recv", "if", "ifif", "getfd", "read", "inform", "hung"}]
        /\ status \in [Stations -> {0, 1}]
        /\ link \in [Platforms -> {"none", "failed", "queued", "accepted"}]
        /\ stream \in [Platforms -> Seq(Trains \cup {Announcement})]
    BY DEF Platforms, Stations, TypeOK
  <1>2. Owing \in BOOLEAN /\ Lead \in BOOLEAN /\ (UNCHANGED <<sm, k>> => Owing' = Owing)
    BY DEF Owing, Lead
  <1>3. CASE PlatStart(1)
    <2>1. /\ plat[1] = "new" /\ plat'[1] = "recv" /\ UNCHANGED <<stream, status, sm, k>>
          /\ sm \notin {"tcp", "exited"} /\ link'[1] = "queued"
      BY <1>1, <1>3 DEF PlatStart, Goto, smVars
    <2>2. Lead' = Lead
      BY <2>1 DEF Lead
    <2>3. Alternates'
      BY <1>2, <2>1, <2>2, StillAlternates
    <2> QED BY <2>1, <2>3 DEF Before
  <1>4. CASE PlatRecv(1)
    <2>1. /\ plat[1] = "recv" /\ plat'[1] = "if" /\ UNCHANGED <<status, link, sm, k>>
          /\ stream[1] # <<>>
      BY <1>1, <1>4 DEF PlatRecv, Goto, smVars, setup
    <2>2. ~Lead /\ Lead'
      BY <2>1 DEF Lead
    <2>3. stream'[1] = Tail(stream[1])
      BY <1>4, <2>2, OneAnnouncement
    <2>4. Lead' = ~Lead
      BY <2>2 DEF Lead
    <2>5. Alternates'
      BY <1>2, <2>1, <2>3, <2>4, ReadAlternates
    <2> QED BY <2>1, <2>5 DEF Before
  <1>5. CASE PlatIf(1) \/ PlatIfIf(1)
    <2>1. ~Before /\ status[1] = 0 /\ plat[1] \in {"if", "ifif"} /\ UNCHANGED <<stream, status, link, sm, k>>
      BY <1>5 DEF PlatIf, PlatIfIf, Goto, Before, smVars, setup
    <2>2. plat'[1] \in {"ifif", "getfd"}
      BY <1>1, <1>5, <2>1 DEF PlatIf, PlatIfIf, Goto
    <2>3. Lead' = Lead
      BY <2>1, <2>2 DEF Lead
    <2>4. Alternates'
      BY <1>2, <2>1, <2>3, StillAlternates
    <2> QED BY <2>1, <2>2, <2>4 DEF Before
  <1>6. CASE GetFD(1)
    <2>1. /\ plat[1] = "getfd" /\ UNCHANGED <<link, sm, k>> /\ stream[1] # <<>>
          /\ stream'[1] = Tail(stream[1])
      BY <1>1, <1>6 DEF GetFD, Goto, smVars, setup
    <2>2. Head(stream[1]) # Announcement
      <3>1. Head(stream[1]) = stream[1][1]
        BY <1>1, <2>1
      <3> QED BY <2>1, <3>1 DEF Alternates, Lead
    <2>3. plat'[1] = "read"
      BY <1>1, <1>6, <2>2 DEF GetFD, Goto
    <2>4. Lead' = ~Lead
      BY <2>1, <2>3 DEF Lead
    <2>5. Alternates'
      BY <1>2, <2>1, <2>4, ReadAlternates
    <2> QED BY <2>1, <2>3, <2>5 DEF Before
  <1>7. CASE TrainGone(1) \/ InformSM(1)
    <2>1. /\ UNCHANGED <<stream, link, sm, k>>
          /\ \/ plat[1] = "read" /\ plat'[1] = "inform" /\ status' = status
             \/ plat[1] = "inform" /\ plat'[1] = "recv" /\ status'[1] = 0
      BY <1>1, <1>7 DEF TrainGone, InformSM, Goto, smVars, setup
    <2>2. Lead' = Lead
      BY <2>1 DEF Lead
    <2>3. Alternates'
      BY <1>2, <2>1, <2>2, StillAlternates
    <2> QED BY <2>1, <2>3 DEF Before
  <1>8. ~PlatRecvFails(1) /\ ~GetFDFails(1)
    BY DEF PlatRecvFails, GetFDFails
  <1> QED BY <1>3, <1>4, <1>5, <1>6, <1>7, <1>8 DEF Platform

LEMMA SteppingOther ==
    ASSUME TypeOK, PlatStart(2) \/ Platform(2)
    PROVE  /\ UNCHANGED <<sm, k>> /\ stream'[1] = stream[1] /\ plat'[1] = plat[1]
           /\ status'[1] = status[1] /\ link'[1] = link[1]
  <1>1. /\ status \in [Stations -> {0, 1}] /\ 1 \in Stations /\ 1 \in Platforms
        /\ plat \in [Platforms -> {"new", "recv", "if", "ifif", "getfd", "read", "inform", "hung"}]
        /\ link \in [Platforms -> {"none", "failed", "queued", "accepted"}]
        /\ stream \in [Platforms -> Seq(Trains \cup {Announcement})]
    BY DEF TypeOK, Stations, Platforms
  <1>2. plat'[1] = plat[1] /\ UNCHANGED <<sm, k>>
    BY <1>1 DEF PlatStart, Platform, PlatRecv, PlatRecvFails, PlatIf, PlatIfIf, GetFD, GetFDFails,
       TrainGone, InformSM, Goto, smVars
  <1>3. stream'[1] = stream[1]
    BY <1>1 DEF PlatStart, Platform, PlatRecv, PlatRecvFails, PlatIf, PlatIfIf, GetFD, GetFDFails,
       TrainGone, InformSM
  <1>4. status'[1] = status[1]
    BY <1>1 DEF PlatStart, Platform, PlatRecv, PlatRecvFails, PlatIf, PlatIfIf, GetFD, GetFDFails,
       TrainGone, InformSM
  <1>5. link'[1] = link[1]
    BY <1>1 DEF PlatStart, Platform, PlatRecv, PlatRecvFails, PlatIf, PlatIfIf, GetFD, GetFDFails,
       TrainGone, InformSM, setup
  <1> QED BY <1>2, <1>3, <1>4, <1>5

LEMMA InStepInit == Init => InStep
  <1> SUFFICES ASSUME Init PROVE InStep
    OBVIOUS
  <1>1. /\ plat[1] = "new" /\ link[1] = "none" /\ stream[1] = <<>> /\ sm = "tcp" /\ k = 1
    BY DEF Init, Platforms
  <1>2. ~Owing /\ ~Lead /\ Before
    BY <1>1 DEF Owing, Lead, Before
  <1>3. \A n \in 1..(Len(stream[1]) - 1) : FALSE
    BY <1>1
  <1>4. Alternates
    BY <1>1, <1>2, <1>3 DEF Alternates, Owing, Lead
  <1> QED BY <1>1, <1>2, <1>4 DEF InStep, Stepping

LEMMA InStepStep == DVSInv /\ InStep /\ [Next]_vars => InStep'
  <1> SUFFICES ASSUME TypeOK, Apart, InStep, [Next]_vars PROVE InStep'
    BY DEF DVSInv
  <1>1. CASE UNCHANGED vars
    BY <1>1, SteppingStill DEF InStep, vars, setup, smVars, platVars
  <1>2. CASE Next
    <2>1. plat[1] = "new" => link[1] = "none"
      BY DEF InStep
    <2>2. /\ accepted' = accepted /\ lost \subseteq lost'
          /\ link[1] = "failed" => link'[1] = "failed"
      BY <1>2, <2>1, Lasting
    <2>3. plat'[1] = "new" => link'[1] = "none"
      <3>1. ASSUME plat' = plat, link' = link PROVE plat'[1] = "new" => link'[1] = "none"
        BY <2>1, <3>1
      <3>2. ASSUME NEW t \in Trains, TrainArrives(t) \/ TrainLeaves(t) PROVE plat' = plat /\ link' = link
        BY <3>2 DEF TrainArrives, TrainLeaves, setup, platVars
      <3>3. ASSUME StationMaster PROVE plat'[1] = "new" => link'[1] = "none"
        <4>1. CASE AcceptPlatform
          <5>1. plat' = plat /\ (link' = link \/ (link[k] = "queued" /\ link' = [link EXCEPT ![k] = "accepted"]))
            BY <4>1 DEF AcceptPlatform, platVars
          <5> QED BY <2>1, <5>1 DEF TypeOK, Platforms
        <4>2. CASE ~AcceptPlatform
          <5>1. plat' = plat /\ link' = link
            BY <3>3, <4>2 DEF StationMaster, InitializeSockets, ListenPorts, ListenPaths,
               InitializeSHM, Select, Scanned, Skip, AcceptTrain, Announce, Give, Busy, setup,
               platVars
          <5> QED BY <2>1, <5>1
        <4> QED BY <4>1, <4>2
      <3>4. ASSUME PlatStart(1) \/ Platform(1) PROVE plat'[1] # "new"
        <4>1. plat \in [Platforms -> {"new", "recv", "if", "ifif", "getfd", "read", "inform", "hung"}] /\ 1 \in Platforms
          BY DEF TypeOK, Platforms
        <4> QED BY <3>4, <4>1 DEF PlatStart, Platform, PlatRecv, PlatRecvFails, PlatIf, PlatIfIf,
           GetFD, GetFDFails, TrainGone, InformSM, Goto
      <3>5. ASSUME PlatStart(2) \/ Platform(2) PROVE plat'[1] = plat[1] /\ link'[1] = link[1]
        BY <3>5, SteppingOther
      <3> QED BY <1>2, <2>1, <3>1, <3>2, <3>3, <3>4, <3>5 DEF Next, Platforms
    <2>4. ASSUME accepted' = {1}, lost' = {}, link'[1] # "failed" PROVE Stepping'
      <3>1. accepted = {1} /\ lost = {} /\ link[1] # "failed" /\ Stepping
        BY <2>2, <2>4 DEF InStep
      <3>2. ASSUME NEW t \in Trains, TrainArrives(t) \/ TrainLeaves(t) PROVE Stepping'
        BY <3>1, <3>2, SteppingStill DEF TrainArrives, TrainLeaves, setup, smVars, platVars
      <3>3. ASSUME StationMaster PROVE Stepping'
        BY <2>1, <2>4, <3>1, <3>3, SteppingMaster
      <3>4. ASSUME PlatStart(1) \/ Platform(1) PROVE Stepping'
        BY <2>4, <3>1, <3>4, SteppingPlatform
      <3>5. ASSUME PlatStart(2) \/ Platform(2) PROVE Stepping'
        BY <3>1, <3>5, SteppingOther, SteppingStill
      <3> QED BY <1>2, <3>2, <3>3, <3>4, <3>5 DEF Next, Platforms
    <2> QED BY <2>3, <2>4 DEF InStep
  <1> QED BY <1>1, <1>2

\* HungOnlyAfterLoss: with the one platform that SM.cpp accepts, p1 is caught in
\* readFromTrain() only when some descriptor was lost or its connection failed.
THEOREM HungOnlyAfterLossTheorem == Spec => []HungOnlyAfterLoss
  <1>1. InStep => HungOnlyAfterLoss
    BY DEF InStep, Stepping, HungOnlyAfterLoss
  <1> QED BY <1>1, DVSInvInit, DVSInvStep, InStepInit, InStepStep, PTL DEF Spec

-----------------------------------------------------------------------------
(* Interview *)

\* Nobody listens at ./fsock6, so that R3 gets no further than its connect() to it; so
\* nobody connects to R1 at ./fscok5, nor anybody but R2 itself to R2 at ./fscok6.
Stuck ==
    /\ bound["fsock6"] = Nobody /\ \A s \in listening : s[2] # "fsock6"
    /\ queue[<<"R1", "fscok5">>] = <<>> /\ queue[<<"R2", "fscok6">>] = <<>>
    /\ pc["R1"] <= 5 /\ pc["R2"] <= 6 /\ pc["R3"] <= 2

InterviewInv == InterviewTypeOK /\ (\A c \in Candidates : unread[c] <= sent) /\ Stuck

LEMMA StartupOps ==
    /\ DOMAIN Startup = Programs
    /\ Startup["AT"] = AT /\ Startup["R1"] = R1 /\ Startup["R2"] = R2 /\ Startup["R3"] = R3
    /\ \A p \in Programs : DOMAIN Startup[p] \subseteq Nat
  BY DEF Startup, Programs, Interviewers, AT, R1, R2, R3

LEMMA SocketFacts ==
    /\ \A p \in Programs : \A n \in DOMAIN Startup[p] :
         Startup[p][n].op = "listen" => <<p, Startup[p][n].at>> \in Sockets
    /\ Sockets \subseteq Programs \X Paths
    /\ <<"R1", "fscok5">> \in Sockets /\ <<"R2", "fscok6">> \in Sockets
    /\ \A p \in Programs : \A n \in DOMAIN Startup[p] :
         Startup[p][n].op = "accept" => <<p, Startup[p][n].at>> \in Sockets
  <1>1. \A p \in Programs : \A n \in DOMAIN Startup[p] :
         Startup[p][n].op = "listen" => <<p, Startup[p][n].at>> \in Sockets
    BY DEF Sockets, Range
  <1>2. Sockets \subseteq Programs \X Paths
    BY StartupOps DEF Sockets, Range, Programs, Interviewers, AT, R1, R2, R3, Paths, ServListen,
       Accept, CliConn
  <1>3. /\ R1[3] = ServListen("fscok5") /\ R1[2] = ServListen("fsock4") /\ {2,3} \subseteq DOMAIN R1
        /\ R2[4] = ServListen("fscok6") /\ R2[3] = ServListen("fsock4") /\ {3,4} \subseteq DOMAIN R2
        /\ AT[1] = ServListen("fsock1") /\ AT[2] = ServListen("fsock2") /\ AT[3] = ServListen("fsock3") /\ 1..3 \subseteq DOMAIN AT
        /\ R3[4] = ServListen("fsock6") /\ R3[5] = ServListen("fscok5") /\ {4,5} \subseteq DOMAIN R3
     BY DEF AT, R1, R2, R3
  <1>4. /\ <<"R1", "fscok5">> \in Sockets /\ <<"R2", "fscok6">> \in Sockets
        /\ <<"R1", "fsock4">> \in Sockets /\ <<"R2", "fsock4">> \in Sockets
        /\ <<"AT", "fsock1">> \in Sockets /\ <<"AT", "fsock2">> \in Sockets /\ <<"AT", "fsock3">> \in Sockets
        /\ <<"R3", "fsock6">> \in Sockets /\ <<"R3", "fscok5">> \in Sockets
    BY <1>1, <1>3, StartupOps DEF Programs, Interviewers, ServListen
  <1>5. \A p \in Programs : \A n \in DOMAIN Startup[p] :
         Startup[p][n].op = "accept" => <<p, Startup[p][n].at>> \in Sockets
    <2>1. \A n \in DOMAIN AT : AT[n].op = "accept" => AT[n].at \in {"fsock1", "fsock2", "fsock3"}
      BY DEF AT, ServListen, Accept
    <2>2. \A n \in DOMAIN R1 : R1[n].op = "accept" => R1[n].at \in {"fsock4", "fscok5"}
      BY DEF R1, ServListen, Accept, CliConn
    <2>3. \A n \in DOMAIN R2 : R2[n].op = "accept" => R2[n].at \in {"fsock4", "fscok6"}
      BY DEF R2, ServListen, Accept, CliConn
    <2>4. \A n \in DOMAIN R3 : R3[n].op = "accept" => R3[n].at \in {"fsock6", "fscok5"}
      BY DEF R3, ServListen, Accept, CliConn
    <2> QED
      BY <1>4, <2>1, <2>2, <2>3, <2>4, StartupOps DEF Programs, Interviewers
  <1> QED BY <1>1, <1>2, <1>4, <1>5

\* Which operations come next where the three wait, and who connects to whom.
LEMMA Waits ==
    /\ Len(Startup["R1"]) = 7 /\ Len(Startup["R2"]) = 7 /\ Len(Startup["R3"]) = 7
    /\ R1[5] = Accept("fscok5") /\ R2[6] = Accept("fscok6") /\ R3[2] = CliConn("fsock6")
    /\ \A n \in DOMAIN R1 : R1[n].at # "fsock6" /\ R1[n].at # "fscok6"
                            /\ (R1[n].op = "connect" /\ R1[n].at = "fscok5" => n = 7)
    /\ \A n \in DOMAIN R2 : R2[n].at # "fsock6" /\ R2[n].at # "fscok5"
                            /\ (R2[n].op = "connect" /\ R2[n].at = "fscok6" => n = 7)
    /\ \A n \in DOMAIN R3 : n <= 2 => R3[n].op = "connect" /\ R3[n].at \in {"fsock3", "fsock6"}
    /\ \A n \in DOMAIN AT : AT[n].op # "connect" /\ AT[n].at # "fsock6"
  BY StartupOps DEF AT, R1, R2, R3, ServListen, Accept, CliConn

LEMMA Rooms == \A c \in Candidates : Room(c) \in Interviewers
  BY InterviewAssumption DEF Candidates, Room, Interviewers

\* Each program's start-up before AT's loop, for the types.
LEMMA StartTypes ==
    ASSUME InterviewTypeOK, NEW p \in Programs, Start(p)
    PROVE  InterviewTypeOK'
  <1> USE InterviewAssumption
  <1>1. pc' \in [Programs -> Nat] /\ UNCHANGED <<start, loopVars, sent>>
    <2>1. pc \in [Programs -> Nat]
      BY DEF InterviewTypeOK
    <2>2. UNCHANGED <<start, loopVars, sent>> /\ (Done(p) \/ Exit(p))
      BY DEF Start, Listen, AcceptNext, Connect, Step
    <2> QED
      BY <2>1, <2>2 DEF Done, Exit
  <1>2. CASE Listen(p)
    <2>1. <<p, Path(p)>> \in Sockets
      BY <1>2, SocketFacts DEF Listen, Step, Path
    <2> QED
      BY <1>1, <1>2, <2>1 DEF InterviewTypeOK, Listen, loopVars
  <1>3. CASE AcceptNext(p)
    <2> DEFINE s == <<p, Path(p)>>
    <2>1. s \in Sockets
      BY <1>3, SocketFacts DEF AcceptNext, Step, Path
    <2>2. queue[s] \in Seq(Programs \X Nat) /\ queue[s] # <<>>
      BY <1>3, <2>1 DEF AcceptNext, InterviewTypeOK
    <2>3. Tail(queue[s]) \in Seq(Programs \X Nat) /\ Head(queue[s]) \in Programs \X Nat
      BY <2>2
    <2>4. queue' = [queue EXCEPT ![s] = Tail(queue[s])]
      BY <1>3 DEF AcceptNext
    <2>5. queue' \in [Sockets -> Seq(Programs \X Nat)]
      BY <2>3, <2>4 DEF InterviewTypeOK
    <2>6. nufd' \in [Interviewers -> Nat]
      BY <1>3, <2>3 DEF AcceptNext, InterviewTypeOK
    <2> QED
      BY <1>1, <1>3, <2>5, <2>6 DEF InterviewTypeOK, AcceptNext, loopVars
  <1>4. CASE Connect(p)
    <2> DEFINE s == <<bound[Path(p)], Path(p)>>
    <2>1. CASE s \in listening
      <3>1. s \in Sockets
        BY <2>1 DEF InterviewTypeOK
      <3>2. <<p, start[p]>> \in Programs \X Nat
        BY DEF InterviewTypeOK
      <3>3. Append(queue[s], <<p, start[p]>>) \in Seq(Programs \X Nat)
        BY <3>1, <3>2 DEF InterviewTypeOK
      <3>4. queue' = [queue EXCEPT ![s] = Append(queue[s], <<p, start[p]>>)]
        BY <1>4, <2>1 DEF Connect
      <3>5. queue' \in [Sockets -> Seq(Programs \X Nat)]
        BY <3>3, <3>4 DEF InterviewTypeOK
      <3> QED
        BY <1>1, <1>4, <2>1, <3>5 DEF InterviewTypeOK, Connect, loopVars
    <2>2. CASE s \notin listening
      <3>1. Exit(p) /\ early' \in BOOLEAN
        BY <1>4, <2>2 DEF Connect, InterviewTypeOK
      <3>2. <<>> \in Seq(Programs \X Nat)
        OBVIOUS
      <3>3. queue' \in [Sockets -> Seq(Programs \X Nat)] /\ listening' \in SUBSET Sockets
        BY <3>1, <3>2 DEF InterviewTypeOK, Exit
      <3> QED
        BY <1>1, <1>4, <3>1, <3>3 DEF InterviewTypeOK, Connect, loopVars
    <2> QED
      BY <2>1, <2>2
  <1> QED
    BY <1>2, <1>3, <1>4 DEF Start

LEMMA RestartTypes ==
    ASSUME InterviewTypeOK, NEW r \in Interviewers, Restart(r)
    PROVE  InterviewTypeOK'
  <1>1. start["R1"] \in Nat /\ start["R2"] \in Nat /\ start["R3"] \in Nat
        /\ start["R1"] >= 1 /\ start["R2"] >= 1 /\ start["R3"] >= 1 /\ r \in Programs
    BY InterviewAssumption DEF InterviewTypeOK, Programs, Interviewers
  <1>2. start[r] + 1 \in 1..(MaxStarts + 1)
    <2>1. start["R1"] + start["R2"] + start["R3"] < 3 + MaxStarts
      BY DEF Restart
    <2>2. MaxStarts \in Nat
      BY InterviewAssumption
    <2>3. r = "R1" \/ r = "R2" \/ r = "R3"
      BY DEF Interviewers
    <2>4. start[r] \in Nat /\ start[r] + 1 <= MaxStarts + 1
      BY <1>1, <2>1, <2>2, <2>3
    <2> QED
      BY <2>2, <2>4
  <1>3. start' \in [Programs -> 1..(MaxStarts + 1)] /\ pc' \in [Programs -> Nat]
    BY <1>2 DEF Restart, InterviewTypeOK
  <1>4. UNCHANGED <<bound, listening, queue, nufd, early, loopVars, sent>>
    BY DEF Restart
  <1> QED
    BY <1>3, <1>4 DEF InterviewTypeOK, loopVars

\* Candidates and the loop of AT keep the types, and what is unread was sent.
LEMMA LoopTypes ==
    ASSUME InterviewTypeOK, \A c \in Candidates : unread[c] <= sent,
           Arrive \/ Loop \/ \E c \in Candidates : Send(c) \/ Leave(c)
    PROVE  InterviewTypeOK' /\ \A c \in Candidates : unread'[c] <= sent'
  <1> USE InterviewAssumption
  <1>1. CASE Arrive
    BY <1>1 DEF Arrive, InterviewTypeOK, startVars
  <1>2. ASSUME NEW c \in Candidates, Send(c)
        PROVE  InterviewTypeOK' /\ \A d \in Candidates : unread'[d] <= sent'
    BY <1>2 DEF Send, InterviewTypeOK, startVars
  <1>3. ASSUME NEW c \in Candidates, Leave(c)
        PROVE  InterviewTypeOK' /\ \A d \in Candidates : unread'[d] <= sent'
    BY <1>3 DEF Leave, InterviewTypeOK, startVars
  <1>4. CASE AcceptCandidate
    <2>1. conn' \in [Candidates -> {"open", "closed", "reset", "broken"}]
      BY <1>4 DEF AcceptCandidate, Written, InterviewTypeOK
    <2>2. used' \in 0..arrived' /\ arrived' = arrived
      BY <1>4 DEF AcceptCandidate, InterviewTypeOK
    <2>3. UNCHANGED <<startVars, unread, ready, inbox, sent>>
      BY <1>4 DEF AcceptCandidate
    <2> QED
      BY <2>1, <2>2, <2>3 DEF InterviewTypeOK, startVars
  <1>5. CASE SelectReady
    <2>1. 0..(used - 1) \subseteq Candidates
      BY DEF InterviewTypeOK, Candidates
    <2>2. ready' \in SUBSET Candidates /\ UNCHANGED <<startVars, arrived, used, conn, unread, inbox, sent>>
      BY <1>5, <2>1 DEF SelectReady
    <2> QED
      BY <2>2 DEF InterviewTypeOK, startVars
  <1>6. ASSUME NEW c \in Candidates, Pass(c)
        PROVE  InterviewTypeOK' /\ \A d \in Candidates : unread'[d] <= sent'
    <2>1. inbox' \in [Interviewers -> 0..SocketCap]
      BY <1>6, Rooms DEF Pass, InterviewTypeOK
    <2>2. conn' \in [Candidates -> {"open", "closed", "reset", "broken"}]
      BY <1>6 DEF Pass, Written, InterviewTypeOK
    <2>3. unread' \in [Candidates -> 0..Messages] /\ \A d \in Candidates : unread'[d] <= sent
      BY <1>6 DEF Pass, InterviewTypeOK
    <2>4. ready' \in SUBSET Candidates /\ UNCHANGED <<startVars, arrived, used, sent>>
      BY <1>6 DEF Pass, InterviewTypeOK
    <2> QED
      BY <2>1, <2>2, <2>3, <2>4 DEF InterviewTypeOK, startVars
  <1>7. ASSUME NEW c \in Candidates, Broken(c)
        PROVE  InterviewTypeOK' /\ \A d \in Candidates : unread'[d] <= sent'
    <2>1. <<>> \in Seq(Programs \X Nat)
      OBVIOUS
    <2>2. /\ queue' \in [Sockets -> Seq(Programs \X Nat)] /\ listening' \in SUBSET Sockets
          /\ pc' \in [Programs -> Nat]
      BY <1>7, <2>1 DEF Broken, Exit, InterviewTypeOK
    <2>3. UNCHANGED <<start, bound, nufd, early, sent>>
      BY <1>7 DEF Broken
    <2>4. /\ arrived' \in 0..NCandidates /\ used' \in 0..arrived' /\ ready' \in SUBSET Candidates
          /\ conn' \in [Candidates -> {"open", "closed", "reset", "broken"}]
          /\ unread' \in [Candidates -> 0..Messages] /\ inbox' \in [Interviewers -> 0..SocketCap]
          /\ \A d \in Candidates : unread'[d] <= sent
      BY <1>7 DEF Broken, InterviewTypeOK
    <2> QED
      BY <2>2, <2>3, <2>4 DEF InterviewTypeOK
  <1> QED
    BY <1>1, <1>2, <1>3, <1>4, <1>5, <1>6, <1>7 DEF Loop

LEMMA StuckExit ==
    ASSUME Stuck, NEW p \in Programs, Exit(p), UNCHANGED bound, pc \in [Programs -> Nat]
    PROVE  Stuck'
  BY SocketFacts DEF Stuck, Exit, Programs, Interviewers

\* Start-up keeps the three where they are.
LEMMA StuckStart ==
    ASSUME InterviewTypeOK, Stuck, NEW p \in Programs, Start(p)
    PROVE  Stuck'
  <1> DEFINE n == pc[p]
  <1>1. /\ pc \in [Programs -> Nat] /\ queue \in [Sockets -> Seq(Programs \X Nat)]
        /\ bound \in [Paths -> Programs \cup {Nobody}]
    BY DEF InterviewTypeOK
  <1>2. n \in DOMAIN Startup[p] /\ n \in Nat
    BY <1>1 DEF Start, Listen, AcceptNext, Connect, Step
  <1>3. p = "AT" \/ p = "R1" \/ p = "R2" \/ p = "R3"
    BY DEF Programs, Interviewers
  <1>4. CASE Listen(p)
    <2>1. Startup[p][n].op = "listen" /\ Done(p) /\ UNCHANGED queue
      BY <1>4 DEF Listen, Step
    <2>2. Path(p) # "fsock6"
      BY <1>2, <1>3, <2>1, Waits, StartupOps DEF Stuck, Path
    <2>3. p # "R3" /\ (p = "R1" => n # 5) /\ (p = "R2" => n # 6)
      BY <1>2, <2>1, Waits, StartupOps DEF Stuck, Accept, CliConn
    <2>4. pc' = [pc EXCEPT ![p] = n + 1]
      BY <2>1 DEF Done
    <2>5. pc'["R1"] <= 5 /\ pc'["R2"] <= 6 /\ pc'["R3"] <= 2
      BY <1>1, <1>2, <2>3, <2>4 DEF Stuck, Programs, Interviewers
    <2>6. bound' = [bound EXCEPT ![Path(p)] = p] /\ listening' = listening \cup {<<p, Path(p)>>}
      BY <1>4 DEF Listen
    <2> QED
      BY <1>1, <2>1, <2>2, <2>5, <2>6 DEF Stuck
  <1>5. CASE AcceptNext(p)
    <2> DEFINE s == <<p, Path(p)>>
    <2>1. /\ Startup[p][n].op = "accept" /\ Done(p) /\ UNCHANGED <<bound, listening>>
          /\ queue[s] # <<>> /\ queue' = [queue EXCEPT ![s] = Tail(queue[s])]
      BY <1>5 DEF AcceptNext, Step
    <2>2. s # <<"R1", "fscok5">> /\ s # <<"R2", "fscok6">>
      BY <2>1 DEF Stuck
    <2>3. p # "R3" /\ (p = "R1" => n # 5) /\ (p = "R2" => n # 6)
      BY <1>2, <2>1, <2>2, Waits, StartupOps DEF Stuck, Accept, CliConn, Path
    <2>4. pc' = [pc EXCEPT ![p] = n + 1]
      BY <2>1 DEF Done
    <2>5. pc'["R1"] <= 5 /\ pc'["R2"] <= 6 /\ pc'["R3"] <= 2
      BY <1>1, <1>2, <2>3, <2>4 DEF Stuck, Programs, Interviewers
    <2>6. queue'[<<"R1", "fscok5">>] = <<>> /\ queue'[<<"R2", "fscok6">>] = <<>>
      BY <1>1, <2>1, <2>2, SocketFacts DEF Stuck
    <2> QED
      BY <2>1, <2>5, <2>6 DEF Stuck
  <1>6. CASE Connect(p)
    <2> DEFINE s == <<bound[Path(p)], Path(p)>>
    <2>1. Startup[p][n].op = "connect" /\ UNCHANGED bound
      BY <1>6 DEF Connect, Step
    <2>2. CASE s \notin listening
      <3>1. Exit(p)
        BY <1>6, <2>2 DEF Connect
      <3> QED
        BY <1>1, <2>1, <3>1, StuckExit
    <2>3. CASE s \in listening
      <3>1. Done(p) /\ queue' = [queue EXCEPT ![s] = Append(queue[s], <<p, start[p]>>)]
            /\ UNCHANGED listening
        BY <1>6, <2>3 DEF Connect
      <3>2. Path(p) # "fsock6"
        BY <2>3 DEF Stuck
      <3>3. Path(p) # "fscok5" /\ Path(p) # "fscok6"
        <4>1. CASE p = "AT"
          BY <1>2, <2>1, <4>1, Waits, StartupOps
        <4>2. CASE p = "R1"
          BY <1>2, <2>1, <4>2, Waits, StartupOps DEF Stuck, Path
        <4>3. CASE p = "R2"
          BY <1>2, <2>1, <4>3, Waits, StartupOps DEF Stuck, Path
        <4>4. CASE p = "R3"
          BY <1>2, <2>1, <4>4, Waits, StartupOps DEF Stuck, Path
        <4> QED
          BY <1>3, <4>1, <4>2, <4>3, <4>4
      <3>4. (p = "R1" => n # 5) /\ (p = "R2" => n # 6) /\ (p = "R3" => n # 2)
        BY <1>2, <2>1, <3>2, Waits, StartupOps DEF Path, Accept, CliConn
      <3>5. pc' = [pc EXCEPT ![p] = n + 1]
        BY <3>1 DEF Done
      <3>6. pc'["R1"] <= 5 /\ pc'["R2"] <= 6 /\ pc'["R3"] <= 2
        BY <1>1, <1>2, <3>4, <3>5 DEF Stuck, Programs, Interviewers
      <3>7. s # <<"R1", "fscok5">> /\ s # <<"R2", "fscok6">>
        BY <3>3
      <3>8. queue'[<<"R1", "fscok5">>] = <<>> /\ queue'[<<"R2", "fscok6">>] = <<>>
        BY <1>1, <3>1, <3>7, SocketFacts DEF Stuck
      <3> QED
        BY <2>1, <3>1, <3>6, <3>8 DEF Stuck
    <2> QED
      BY <2>2, <2>3
  <1> QED
    BY <1>4, <1>5, <1>6 DEF Start

LEMMA InterviewInvInit == InterviewInit => InterviewInv
  <1> SUFFICES ASSUME InterviewInit PROVE InterviewInv
    OBVIOUS
  <1>1. InterviewTypeOK
    <2>1. <<>> \in Seq(Programs \X Nat)
      OBVIOUS
    <2> USE InterviewAssumption DEF InterviewInit
    <2>2. /\ pc \in [Programs -> Nat] /\ start \in [Programs -> 1..(MaxStarts + 1)]
          /\ bound \in [Paths -> Programs \cup {Nobody}] /\ listening \in SUBSET Sockets
      OBVIOUS
    <2>3. queue \in [Sockets -> Seq(Programs \X Nat)] /\ nufd \in [Interviewers -> Nat]
      BY <2>1
    <2>4. /\ arrived \in 0..NCandidates /\ used \in 0..arrived /\ sent \in 0..Messages
          /\ ready \in SUBSET Candidates
      OBVIOUS
    <2>6. early \in BOOLEAN
      OBVIOUS
    <2>5. /\ conn \in [Candidates -> {"open", "closed", "reset", "broken"}]
          /\ unread \in [Candidates -> 0..Messages] /\ inbox \in [Interviewers -> 0..SocketCap]
      OBVIOUS
    <2> QED
      BY <2>2, <2>3, <2>4, <2>5, <2>6 DEF InterviewTypeOK
  <1>2. Stuck
    <2>1. queue = [x \in Sockets |-> <<>>] /\ listening = {} /\ bound = [path \in Paths |-> Nobody]
      BY DEF InterviewInit
    <2>2. pc["R1"] = 1 /\ pc["R2"] = 1 /\ pc["R3"] = 1
      BY DEF InterviewInit, Programs, Interviewers
    <2> QED
      BY <2>1, <2>2, SocketFacts DEF Stuck, Paths
  <1> QED
    BY <1>1, <1>2 DEF InterviewInit, InterviewInv

LEMMA InterviewInvStep == InterviewInv /\ [InterviewNext]_interviewVars => InterviewInv'
  <1> SUFFICES ASSUME InterviewInv, [InterviewNext]_interviewVars PROVE InterviewInv'
    OBVIOUS
  <1>0. InterviewTypeOK /\ (\A c \in Candidates : unread[c] <= sent) /\ Stuck
    BY DEF InterviewInv
  <1>1. ASSUME NEW p \in Programs, Start(p) PROVE InterviewInv'
    <2>1. InterviewTypeOK' /\ Stuck'
      BY <1>0, <1>1, StartTypes, StuckStart
    <2>2. UNCHANGED <<unread, sent>>
      BY <1>1 DEF Start, Listen, AcceptNext, Connect, Step, loopVars
    <2> QED
      BY <1>0, <2>1, <2>2 DEF InterviewInv
  <1>2. ASSUME NEW r \in Interviewers, Restart(r) PROVE InterviewInv'
    <2>1. InterviewTypeOK'
      BY <1>0, <1>2, RestartTypes
    <2>2. Stuck'
      BY <1>0, <1>2 DEF Restart, Stuck, InterviewTypeOK, Programs, Interviewers
    <2>3. UNCHANGED <<unread, sent>>
      BY <1>2 DEF Restart, loopVars
    <2> QED
      BY <1>0, <2>1, <2>2, <2>3 DEF InterviewInv
  <1>3. ASSUME Arrive \/ Loop \/ \E c \in Candidates : Send(c) \/ Leave(c) PROVE InterviewInv'
    <2>1. InterviewTypeOK' /\ \A c \in Candidates : unread'[c] <= sent'
      BY <1>0, <1>3, LoopTypes
    <2>2. UNCHANGED <<bound, listening, queue, pc>> \/ (Exit("AT") /\ UNCHANGED bound)
      BY <1>3 DEF Arrive, Loop, Send, Leave, AcceptCandidate, SelectReady, Pass, Broken, startVars
    <2>3. Stuck'
      <3>1. CASE UNCHANGED <<bound, listening, queue, pc>>
        BY <1>0, <3>1 DEF Stuck
      <3>2. CASE Exit("AT") /\ UNCHANGED bound
        BY <1>0, <3>2, StuckExit DEF Programs, InterviewTypeOK
      <3> QED
        BY <2>2, <3>1, <3>2
    <2> QED
      BY <2>1, <2>3 DEF InterviewInv
  <1>4. CASE UNCHANGED interviewVars
    BY <1>0, <1>4 DEF interviewVars, startVars, loopVars, InterviewInv, InterviewTypeOK, Stuck
  <1> QED
    BY <1>1, <1>2, <1>3, <1>4 DEF InterviewNext

LEMMA InterviewInvariance == InterviewSpec => []InterviewInv
  BY InterviewInvInit, InterviewInvStep, PTL DEF InterviewSpec

\* For any candidates and bounds, the start-up and AT's loop keep their types.
THEOREM InterviewTypes == InterviewSpec => []InterviewTypeOK
  <1>1. InterviewInv => InterviewTypeOK
    BY DEF InterviewInv
  <1> QED
    BY <1>1, InterviewInvariance, PTL

\* However often and in whatever order the programs are started, no interviewer comes to
\* its loop.
THEOREM NoInterviewTheorem == InterviewSpec => []NoInterview
  <1>1. InterviewInv => NoInterview
    <2> SUFFICES ASSUME InterviewInv, NEW r \in Interviewers PROVE ~Started(r)
      BY DEF NoInterview
    <2>1. pc["R1"] <= 5 /\ pc["R2"] <= 6 /\ pc["R3"] <= 2 /\ pc[r] \in Nat
      BY DEF InterviewInv, Stuck, InterviewTypeOK, Programs
    <2>2. r = "R1" \/ r = "R2" \/ r = "R3"
      BY DEF Interviewers
    <2>3. pc[r] <= 6 /\ Len(Startup[r]) = 7
      BY <2>1, <2>2, Waits
    <2> QED
      BY <2>1, <2>3 DEF Started
  <1> QED
    BY <1>1, InterviewInvariance, PTL
=============================================================================

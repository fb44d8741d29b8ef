------------------------------ MODULE RailProof ------------------------------
(***************************************************************************)
(* Proofs about Rail, for any number of stations and trains, any capacity  *)
(* of the message queue and any number of kills and restarts.              *)
(*                                                                         *)
(* RoutingCorrect is not inductive: that the descriptor sent to a platform *)
(* is its own train's depends on there being one invitation at a time.     *)
(* Good adds where that invitation is in each phase of the handshake.      *)
(* From it follow, with Called, that the invitation is not lost before the *)
(* station master waits for it, with Unkilled, that nobody dies while      *)
(* connected unless somebody is killed and, with Flagged, that the flags   *)
(* left set are those of platforms that died.                              *)
(***************************************************************************)
EXTENDS Rail, SequenceTheorems, TLAPS

\* A sequence of announcements to platform p calls it in, once at most.
Calls(q, p) == \E k \in DOMAIN q : q[k] # p
Once(q, p)  == \A k, l \in DOMAIN q : q[k] # p /\ q[l] # p => k = l

Calling(p) == Calls(queue[p], p)
InPass(p)  == platPc[p] \in {"connect", "recvfd", "report"}
NoneInvited == \A p \in Stations : ~Invited(p)

Serving == smPc \in {"announce", "listen", "accept", "sendfd", "recv"}

(* An invitation is for the station being handled, ... *)
Current == \A p \in Stations : Invited(p) => (Serving /\ i = p) \/ smPc = "down"

(* ... it is in one place, ... *)
OneCall == \A p \in Stations :
    /\ Calling(p) => ~InPass(p)
    /\ Once(queue[p], p)

(* ... and was not there before the announcement reached station i. *)
NotYetCalled == smPc = "announce" /\ j <= i => NoneInvited

(* The accept queue holds the invited platform, alive or dead, or nothing. *)
BacklogOK ==
    /\ backlog # <<>> => smPc = "accept" /\ Len(backlog) = 1
    /\ \A k \in DOMAIN backlog :
         /\ backlog[k] # Gone => platPc[backlog[k]] = "recvfd"
         /\ backlog[k] = Gone => NoneInvited
    /\ listening => smPc \in {"accept", "sendfd", "recv"}

(* The accepted client is the invited platform, alive or dead. *)
PeerOK ==
    /\ smPc \in {"sendfd", "recv"} =>
         /\ peer = Gone => NoneInvited
         /\ peer # Gone => /\ peer = i
                           /\ platPc[peer] \in {"recvfd", "report"} \/ notify # 0
    /\ smPc = "sendfd" /\ peer # Gone => platPc[peer] = "recvfd"
    /\ notify # 0 => smPc = "recv" /\ NoneInvited

(* Descriptors are those of trains for the station they are queued at, ... *)
PendingOK == \A s \in Stations : \A k \in DOMAIN pending[s] : Dest[pending[s][k]] = s

(* ... held for, ... *)
NsfdOK == smPc \in {"announce", "listen", "accept", "sendfd"} =>
            nsfd \in Trains /\ i \in Stations /\ Dest[nsfd] = i

(* ... sent to ... *)
FdbufOK == \A p \in Stations :
    /\ fdbuf[p] # NoTrain => /\ Dest[fdbuf[p]] = p
                             /\ platPc[p] = "recvfd"
                             /\ smPc \in {"recv", "down"}
    /\ platPc[p] = "report" => smPc \in {"recv", "down"}
    /\ conn[p] => smPc # "down"

(* ... and received at. *)
ServedOK == \A t \in Trains : servedBy[t] # 0 => servedBy[t] = Dest[t]

Good == /\ Current /\ OneCall /\ NotYetCalled /\ BacklogOK /\ PeerOK
        /\ PendingOK /\ NsfdOK /\ FdbufOK /\ ServedOK

IInv == TypeOK /\ (smRestarts = 0 => Good)

-----------------------------------------------------------------------------
(* What the sequences of the model keep *)

LEMMA AppendType ==
    ASSUME NEW S, NEW q \in Seq(S), NEW e \in S
    PROVE  Append(q, e) \in Seq(S)
  OBVIOUS

LEMMA InDomain ==
    ASSUME NEW S, NEW q \in Seq(S), NEW k \in DOMAIN q
    PROVE  q[k] \in S
  OBVIOUS

LEMMA Bounds ==
    ASSUME RailAssumption
    PROVE  /\ 1 \in Stations /\ 1 \in 1..(N + 1) /\ 0 \in 0..N
           /\ Stations \subseteq 0..N
           /\ \A s \in Stations : s + 1 \in 1..(N + 1) /\ s # 0
           /\ \A s \in Stations : s # N => s + 1 \in Stations
  BY DEF RailAssumption, Stations

\* The death of platform p keeps the length of the accept queue.
LEMMA MarkGone ==
    ASSUME NEW q \in Seq(0..N), NEW p \in Stations, RailAssumption
    PROVE  LET r == [k \in DOMAIN q |-> IF q[k] = p THEN Gone ELSE q[k]]
           IN  /\ r \in Seq(0..N)
               /\ Len(r) = Len(q)
               /\ DOMAIN r = DOMAIN q
  <1> DEFINE r == [k \in DOMAIN q |-> IF q[k] = p THEN Gone ELSE q[k]]
  <1>1. DOMAIN q = 1..Len(q) /\ Len(q) \in Nat
    OBVIOUS
  <1>2. \A k \in 1..Len(q) : r[k] \in 0..N
    BY <1>1 DEF Stations, Gone, RailAssumption
  <1>3. r \in [1..Len(q) -> 0..N]
    BY <1>1, <1>2
  <1> QED
    BY <1>1, <1>3

-----------------------------------------------------------------------------
(* Type correctness *)

LEMMA TypeSmDies ==
    ASSUME TypeOK, SmDies, RailAssumption
    PROVE  /\ smPc' \in SmStates /\ smPc' = "down"
           /\ train' \in [Trains -> {"away", "queued", "accepted", "lost"}]
           /\ pending' \in [Stations -> Seq(Trains)]
           /\ listening' \in BOOLEAN
           /\ backlog' \in Seq(0..N)
           /\ peer' \in 0..N
           /\ notify' \in 0..N
           /\ conn' \in [Stations -> BOOLEAN]
           /\ everDied' \in SUBSET (0..N)
  BY EmptySeq, Bounds DEF TypeOK, SmDies, SmStates, Gone, SM

LEMMA TypePlatDies ==
    ASSUME TypeOK, NEW p \in Stations, PlatDies(p), RailAssumption
    PROVE  /\ platPc' \in [Stations -> PlatStates]
           /\ conn' \in [Stations -> BOOLEAN]
           /\ fdbuf' \in [Stations -> Trains \cup {NoTrain}]
           /\ backlog' \in Seq(0..N)
           /\ peer' \in 0..N
           /\ everDied' \in SUBSET (0..N)
  <1>1. backlog' \in Seq(0..N)
    BY MarkGone DEF TypeOK, PlatDies
  <1> QED
    BY <1>1 DEF TypeOK, PlatDies, PlatStates, Gone, Stations, RailAssumption

LEMMA TypeStep ==
    ASSUME TypeOK, [Next]_vars
    PROVE  TypeOK'
  <1> USE RailAssumption DEF TypeOK, vars, smVars, sockVars, failVars
  <1>1. ASSUME NEW t \in Trains, TrainArrive(t) PROVE TypeOK'
    <2>1. Append(pending[Dest[t]], t) \in Seq(Trains)
      BY <1>1, AppendType DEF RailAssumption
    <2> QED
      BY <1>1, <2>1 DEF TrainArrive, RailAssumption
  <1>2. ASSUME NEW t \in Trains, TrainRefused(t) PROVE TypeOK'
    BY <1>2 DEF TrainRefused
  <1>3. CASE SmSelect
    BY <1>3, Bounds DEF SmSelect, SmStates
  <1>4. CASE SmSkip
    BY <1>4, Bounds DEF SmSkip
  <1>5. CASE SmScanned
    BY <1>5 DEF SmScanned, SmStates
  <1>6. CASE SmTakeTrain
    <2>1. Head(pending[i]) \in Trains /\ Tail(pending[i]) \in Seq(Trains)
      BY <1>6, HeadTailProperties DEF SmTakeTrain
    <2>2. train' \in [Trains -> {"away", "queued", "accepted", "lost"}]
      BY <1>6, <2>1 DEF SmTakeTrain
    <2>3. i # N + 1
      BY <1>6 DEF SmTakeTrain, Stations, RailAssumption
    <2>4. flag' \in [Stations -> {0, 1}] /\ pending' \in [Stations -> Seq(Trains)]
      BY <1>6, <2>1 DEF SmTakeTrain
    <2> QED
      BY <1>6, <2>1, <2>2, <2>3, <2>4, Bounds DEF SmTakeTrain, SmStates
  <1>7. CASE SmAnnounce
    <2>1. Text(j, i) \in Nat
      BY DEF Text, Stations, RailAssumption
    <2>2. Append(queue[j], Text(j, i)) \in Seq(Nat)
      BY <2>1, AppendType
    <2> QED
      BY <1>7, <2>2, Bounds DEF SmAnnounce, SmStates
  <1>8. CASE SmListen
    BY <1>8 DEF SmListen, SmStates
  <1>9. CASE SmAccept
    <2>1. Head(backlog) \in 0..N /\ Tail(backlog) \in Seq(0..N)
      BY <1>9, HeadTailProperties DEF SmAccept
    <2> QED
      BY <1>9, <2>1 DEF SmAccept, SmStates, RailAssumption
  <1>10. CASE SmSendFd
    BY <1>10 DEF SmSendFd, SmStates, Stations, Gone
  <1>11. CASE SmSendFdFails
    BY <1>11, TypeSmDies DEF SmSendFdFails
  <1>12. CASE SmNotified
    <2>1. i \in Stations
      BY <1>12 DEF SmNotified, Stations, RailAssumption
    <2> QED
      BY <1>12, <2>1, Bounds DEF SmNotified, SmStates
  <1>13. CASE SmUnnotified
    <2>1. i \in Stations
      BY <1>13 DEF SmUnnotified, Stations, RailAssumption
    <2>2. CASE SmDies
      BY <1>13, <2>1, <2>2, TypeSmDies DEF SmUnnotified
    <2>3. CASE ~SmDies
      <3>1. /\ listening' = FALSE /\ smPc' = "scan" /\ i' = i + 1
            /\ UNCHANGED <<train, pending, backlog, peer, notify, conn, everDied>>
            /\ UNCHANGED <<servedBy, queue, platPc, rfds, j, nsfd, fdbuf, kills, smRestarts>>
            /\ flag' \in [Stations -> {0, 1}]
        BY <1>13, <2>3 DEF SmUnnotified
      <3> QED
        BY <2>1, <3>1, Bounds DEF SmStates
    <2> QED
      BY <2>2, <2>3
  <1>14. ASSUME NEW p \in Stations, PlatReceive(p) PROVE TypeOK'
    <2>1. Tail(queue[p]) \in Seq(Nat)
      BY <1>14, HeadTailProperties DEF PlatReceive
    <2> QED
      BY <1>14, <2>1 DEF PlatReceive, PlatStates
  <1>15. ASSUME NEW p \in Stations, PlatConnect(p) PROVE TypeOK'
    <2>1. Append(backlog, p) \in Seq(0..N)
      BY AppendType DEF Stations, RailAssumption
    <2> QED
      BY <1>15, <2>1 DEF PlatConnect, PlatStates
  <1>16. ASSUME NEW p \in Stations, PlatRefused(p) PROVE TypeOK'
    BY <1>16, TypePlatDies DEF PlatRefused
  <1>17. ASSUME NEW p \in Stations, PlatRecvFd(p) PROVE TypeOK'
    BY <1>17, Bounds DEF PlatRecvFd, PlatStates
  <1>18. ASSUME NEW p \in Stations, PlatRecvNothing(p) PROVE TypeOK'
    BY <1>18, TypePlatDies DEF PlatRecvNothing
  <1>19. ASSUME NEW p \in Stations, PlatReport(p) PROVE TypeOK'
    BY <1>19 DEF PlatReport, PlatStates, Stations, RailAssumption
  <1>20. ASSUME NEW p \in Stations, PlatReportFails(p) PROVE TypeOK'
    BY <1>20, TypePlatDies DEF PlatReportFails
  <1>21. CASE KillSm
    BY <1>21, TypeSmDies DEF KillSm, RailAssumption
  <1>22. CASE StartSm
    BY <1>22 DEF StartSm, SmStates, RailAssumption
  <1>23. ASSUME NEW p \in Stations, KillPlat(p) PROVE TypeOK'
    BY <1>23, TypePlatDies DEF KillPlat, RailAssumption
  <1>24. ASSUME NEW p \in Stations, StartPlat(p) PROVE TypeOK'
    BY <1>24 DEF StartPlat, PlatStates
  <1>25. CASE UNCHANGED vars
    BY <1>25
  <1> QED
    BY <1>1, <1>2, <1>3, <1>4, <1>5, <1>6, <1>7, <1>8, <1>9, <1>10, <1>11, <1>12,
       <1>13, <1>14, <1>15, <1>16, <1>17, <1>18, <1>19, <1>20, <1>21, <1>22,
       <1>23, <1>24, <1>25 DEF Next, SmStep, PlatStep

LEMMA InitType == Init => TypeOK
  <1> SUFFICES ASSUME Init PROVE TypeOK
    OBVIOUS
  <1>2. pending \in [Stations -> Seq(Trains)] /\ queue \in [Stations -> Seq(Nat)]
    BY EmptySeq DEF Init
  <1>3. i \in 1..(N + 1) /\ i # N + 1 /\ j \in Stations
    BY RailAssumption, Bounds DEF Init, RailAssumption
  <1>4. peer \in 0..N /\ notify \in 0..N /\ backlog \in Seq(0..N)
    BY RailAssumption, Bounds, EmptySeq DEF Init, Gone
  <1>5. kills \in 0..MaxKills /\ smRestarts \in 0..MaxRestarts
    BY RailAssumption DEF Init, RailAssumption
  <1>6. /\ train \in [Trains -> {"away", "queued", "accepted", "lost"}]
        /\ servedBy \in [Trains -> 0..N]
    BY RailAssumption, Bounds DEF Init
  <1> QED
    BY <1>2, <1>3, <1>4, <1>5, <1>6 DEF Init, TypeOK, SmStates, PlatStates

\* Every variable keeps its type in every execution, failures included.
THEOREM TypeCorrect == Spec => []TypeOK
  BY InitType, TypeStep, PTL DEF Spec

-----------------------------------------------------------------------------
(* How steps move the invitation *)

LEMMA AppendCalls ==
    ASSUME NEW q \in Seq(Nat), NEW e \in Nat, NEW p
    PROVE  /\ Calls(Append(q, e), p) <=> Calls(q, p) \/ e # p
           /\ Once(q, p) /\ (e = p \/ ~Calls(q, p)) => Once(Append(q, e), p)
  <1>1. DOMAIN Append(q, e) = 1..(Len(q) + 1) /\ DOMAIN q = 1..Len(q)
    OBVIOUS
  <1>2. /\ \A k \in 1..Len(q) : Append(q, e)[k] = q[k]
        /\ Append(q, e)[Len(q) + 1] = e
    OBVIOUS
  <1>3. \A k \in 1..(Len(q) + 1) : k \in 1..Len(q) \/ k = Len(q) + 1
    OBVIOUS
  <1>4. 1..Len(q) \subseteq 1..(Len(q) + 1) /\ Len(q) + 1 \in 1..(Len(q) + 1)
    OBVIOUS
  <1>5. Calls(Append(q, e), p) <=> Calls(q, p) \/ e # p
    BY <1>1, <1>2, <1>3, <1>4 DEF Calls
  <1>6. ASSUME Once(q, p), e = p \/ ~Calls(q, p)
        PROVE  Once(Append(q, e), p)
    BY <1>1, <1>2, <1>3, <1>6 DEF Once, Calls
  <1> QED
    BY <1>5, <1>6

LEMMA TailCalls ==
    ASSUME NEW q \in Seq(Nat), q # <<>>, NEW p
    PROVE  /\ Head(q) = p => (Calls(Tail(q), p) <=> Calls(q, p))
           /\ Head(q) # p => Calls(q, p)
           /\ Head(q) # p /\ Once(q, p) => ~Calls(Tail(q), p)
           /\ Once(q, p) => Once(Tail(q), p)
  <1>1. DOMAIN Tail(q) = 1..(Len(q) - 1) /\ DOMAIN q = 1..Len(q) /\ Len(q) \in Nat \ {0}
    OBVIOUS
  <1>2. (\A k \in 1..(Len(q) - 1) : Tail(q)[k] = q[k + 1]) /\ Head(q) = q[1]
    OBVIOUS
  <1>3. \A k \in 1..Len(q) : k = 1 \/ (k - 1 \in 1..(Len(q) - 1) /\ q[k] = Tail(q)[k - 1])
    BY <1>1, <1>2
  <1>4. \A k \in 1..(Len(q) - 1) : k + 1 \in 1..Len(q) /\ k + 1 # 1
    BY <1>1
  <1>5. 1 \in DOMAIN q
    BY <1>1
  <1>6. Head(q) = p => (Calls(Tail(q), p) <=> Calls(q, p))
    BY <1>1, <1>2, <1>3, <1>4 DEF Calls
  <1>7. Head(q) # p => Calls(q, p)
    BY <1>2, <1>5 DEF Calls
  <1>8. Head(q) # p /\ Once(q, p) => ~Calls(Tail(q), p)
    BY <1>1, <1>2, <1>4, <1>5 DEF Calls, Once
  <1>9. Once(q, p) => Once(Tail(q), p)
    <2>1. ASSUME Once(q, p), NEW k \in DOMAIN Tail(q), NEW l \in DOMAIN Tail(q),
                 Tail(q)[k] # p, Tail(q)[l] # p
          PROVE  k = l
      <3>1. k + 1 \in DOMAIN q /\ l + 1 \in DOMAIN q /\ q[k + 1] # p /\ q[l + 1] # p
        BY <1>1, <1>2, <1>4, <2>1
      <3>2. k + 1 = l + 1
        BY <2>1, <3>1 DEF Once
      <3> QED
        BY <1>1, <3>2
    <2> QED
      BY <2>1 DEF Once
  <1> QED
    BY <1>6, <1>7, <1>8, <1>9

LEMMA InvitedIs == \A p \in Stations : Invited(p) <=> Calling(p) \/ InPass(p)
  BY DEF Invited, Calling, Calls, InPass

\* A step of the station master that announces nothing invites nobody.
LEMMA SameInvited ==
    ASSUME UNCHANGED <<queue, platPc>>
    PROVE  /\ \A p \in Stations : Invited(p)' <=> Invited(p)
           /\ NoneInvited' <=> NoneInvited
           /\ OneCall => OneCall'
  <1>1. \A p \in Stations : Invited(p)' <=> Invited(p)
    BY DEF Invited
  <1>2. OneCall => OneCall'
    BY DEF OneCall, Calling, InPass, Calls, Once
  <1> QED
    BY <1>1, <1>2 DEF NoneInvited

\* A platform that goes back to msgrcv(), or dies, is no longer invited if it was
\* in pass_fd(), and nobody else is invited by that.
LEMMA PlatLeaves ==
    ASSUME TypeOK, OneCall, NEW p \in Stations, NEW x \in {"wait", "down"},
           platPc' = [platPc EXCEPT ![p] = x], UNCHANGED queue
    PROVE  /\ OneCall'
           /\ \A q \in Stations : Invited(q)' => Invited(q)
           /\ NoneInvited => NoneInvited'
           /\ InPass(p) => ~Invited(p)'
           /\ \A q \in Stations : q # p => platPc'[q] = platPc[q]
  <1>1. \A q \in Stations : Calling(q)' <=> Calling(q)
    BY DEF Calling, Calls
  <1>2. \A q \in Stations : q # p => platPc'[q] = platPc[q]
    BY DEF TypeOK
  <1>3. platPc'[p] = x
    BY DEF TypeOK
  <1>4. \A q \in Stations : InPass(q)' => InPass(q) /\ q # p
    BY <1>2, <1>3 DEF InPass
  <1>5. OneCall'
    BY <1>1, <1>4 DEF OneCall, Once
  <1>6. \A q \in Stations : Invited(q)' <=> Calling(q)' \/ InPass(q)'
    BY DEF Invited, Calling, Calls, InPass
  <1>7. \A q \in Stations : Invited(q)' => Invited(q)
    BY <1>1, <1>4, <1>6, InvitedIs
  <1>8. InPass(p) => ~Invited(p)'
    BY <1>1, <1>4, <1>6 DEF OneCall
  <1> QED
    BY <1>2, <1>5, <1>7, <1>8 DEF NoneInvited

\* A platform going on within pass_fd() stays invited.
LEMMA PlatMoves ==
    ASSUME TypeOK, OneCall, NEW p \in Stations, InPass(p),
           NEW x \in {"connect", "recvfd", "report"},
           platPc' = [platPc EXCEPT ![p] = x], UNCHANGED queue
    PROVE  /\ OneCall'
           /\ \A q \in Stations : Invited(q)' <=> Invited(q)
           /\ NoneInvited' <=> NoneInvited
           /\ Invited(p)
           /\ platPc'[p] = x
           /\ \A q \in Stations : q # p => platPc'[q] = platPc[q]
  <1>1. \A q \in Stations : Calling(q)' <=> Calling(q)
    BY DEF Calling, Calls
  <1>2. platPc'[p] = x /\ \A q \in Stations : q # p => platPc'[q] = platPc[q]
    BY DEF TypeOK
  <1>3. \A q \in Stations : InPass(q)' <=> InPass(q)
    BY <1>2 DEF InPass
  <1>4. OneCall'
    BY <1>1, <1>3 DEF OneCall, Once
  <1>5. \A q \in Stations : Invited(q)' <=> Calling(q)' \/ InPass(q)'
    BY DEF Invited, Calling, Calls, InPass
  <1>6. \A q \in Stations : Invited(q)' <=> Invited(q)
    BY <1>1, <1>3, <1>5, InvitedIs
  <1>7. Invited(p)
    BY InvitedIs
  <1> QED
    BY <1>2, <1>4, <1>6, <1>7 DEF NoneInvited

-----------------------------------------------------------------------------
(* Good is preserved while the station master is not restarted *)

LEMMA GoodTrain ==
    ASSUME TypeOK, Good, NEW t \in Trains, TrainArrive(t) \/ TrainRefused(t),
           RailAssumption
    PROVE  Good'
  <1>1. /\ UNCHANGED <<servedBy, queue, platPc, flag, smPc, rfds, i, j, nsfd, peer,
                       listening, backlog, notify, conn, fdbuf>>
    BY DEF TrainArrive, TrainRefused, smVars, sockVars
  <1>2. PendingOK'
    <2>1. CASE TrainRefused(t)
      BY <2>1 DEF Good, PendingOK, TrainRefused
    <2>2. CASE TrainArrive(t)
      <3>1. /\ pending[Dest[t]] \in Seq(Trains) /\ Dest[t] \in Stations
            /\ pending' = [pending EXCEPT ![Dest[t]] = Append(@, t)]
        BY <2>2 DEF TypeOK, TrainArrive, RailAssumption
      <3>2. ASSUME NEW s \in Stations, NEW k \in DOMAIN pending'[s]
            PROVE  Dest[pending'[s][k]] = s
        <4>1. CASE s # Dest[t]
          BY <3>1, <3>2, <4>1 DEF Good, PendingOK, TypeOK
        <4>2. CASE s = Dest[t]
          <5>1. pending'[s] = Append(pending[s], t)
            BY <3>1, <4>2 DEF TypeOK
          <5>2. \/ k \in DOMAIN pending[s] /\ pending'[s][k] = pending[s][k]
                \/ pending'[s][k] = t
            BY <3>1, <3>2, <4>2, <5>1
          <5> QED
            BY <4>2, <5>2 DEF Good, PendingOK
        <4> QED
          BY <4>1, <4>2
      <3> QED
        BY <3>2 DEF PendingOK
    <2> QED
      BY <2>1, <2>2
  <1>3. Current' /\ OneCall' /\ NotYetCalled'
    BY <1>1, SameInvited DEF Good, Current, Serving, NotYetCalled
  <1>4. BacklogOK' /\ PeerOK'
    BY <1>1, SameInvited DEF Good, BacklogOK, PeerOK
  <1>5. NsfdOK' /\ FdbufOK' /\ ServedOK'
    BY <1>1 DEF Good, NsfdOK, FdbufOK, ServedOK
  <1> QED
    BY <1>2, <1>3, <1>4, <1>5 DEF Good

LEMMA GoodSmDies ==
    ASSUME TypeOK, Good, SmDies, UNCHANGED <<servedBy, queue, platPc, fdbuf>>,
           RailAssumption
    PROVE  Good'
  <1>1. Current' /\ OneCall' /\ NotYetCalled'
    BY SameInvited DEF Good, Current, NotYetCalled, SmDies
  <1>2. BacklogOK' /\ PeerOK'
    BY DEF BacklogOK, PeerOK, SmDies
  <1>3. PendingOK' /\ NsfdOK' /\ FdbufOK' /\ ServedOK'
    BY DEF Good, PendingOK, NsfdOK, FdbufOK, ServedOK, SmDies
  <1> QED
    BY <1>1, <1>2, <1>3 DEF Good

LEMMA GoodPlatDies ==
    ASSUME TypeOK, Good, NEW p \in Stations, PlatDies(p),
           UNCHANGED <<servedBy, pending, queue, smPc, i, j, nsfd, listening, notify>>,
           RailAssumption
    PROVE  Good'
  <1>1. platPc' = [platPc EXCEPT ![p] = "down"]
    BY DEF PlatDies
  <1>2. /\ OneCall' /\ (NoneInvited => NoneInvited')
        /\ \A q \in Stations : Invited(q)' => Invited(q)
        /\ InPass(p) => ~Invited(p)'
        /\ \A q \in Stations : q # p => platPc'[q] = platPc[q]
    BY <1>1, PlatLeaves DEF Good
  <1>3. Current' /\ NotYetCalled'
    BY <1>2 DEF Good, Current, Serving, NotYetCalled
  <1>4. InPass(p) => smPc = "down" \/ NoneInvited'
    <2>1. InPass(p) => smPc = "down" \/ i = p
      BY InvitedIs DEF Good, Current
    <2> QED
      BY <1>2, <2>1 DEF Good, Current, NoneInvited
  <1>5. /\ Len(backlog') = Len(backlog) /\ DOMAIN backlog' = DOMAIN backlog
        /\ \A k \in DOMAIN backlog :
             backlog'[k] = IF backlog[k] = p THEN Gone ELSE backlog[k]
    BY MarkGone DEF TypeOK, PlatDies
  <1>6. \A k \in DOMAIN backlog : backlog[k] \in 0..N
    BY DEF TypeOK
  <1>7. BacklogOK'
    <2>1. backlog' # <<>> => smPc = "accept" /\ Len(backlog') = 1
      BY <1>5, MarkGone DEF Good, BacklogOK, TypeOK, PlatDies
    <2>2. ASSUME NEW k \in DOMAIN backlog'
          PROVE  /\ backlog'[k] # Gone => platPc'[backlog'[k]] = "recvfd"
                 /\ backlog'[k] = Gone => NoneInvited'
      <3>1. CASE backlog[k] = p
        <4>1. backlog[k] # Gone
          BY <3>1 DEF Gone, Stations
        <4>2. InPass(p) /\ smPc = "accept"
          BY <1>5, <2>2, <3>1, <4>1 DEF Good, BacklogOK, InPass, TypeOK
        <4> QED
          BY <1>4, <1>5, <2>2, <3>1, <4>2
      <3>2. CASE backlog[k] # p
        BY <1>2, <1>5, <1>6, <2>2, <3>2 DEF Good, BacklogOK, Stations, Gone
      <3> QED
        BY <3>1, <3>2
    <2>3. listening' => smPc' \in {"accept", "sendfd", "recv"}
      BY DEF Good, BacklogOK
    <2> QED
      BY <2>1, <2>2, <2>3 DEF BacklogOK
  <1>8. PeerOK'
    <2>1. notify' # 0 => smPc' = "recv" /\ NoneInvited'
      BY <1>2 DEF Good, PeerOK
    <2>2. CASE peer # p
      <3>1. peer' = peer /\ peer \in 0..N
        BY <2>2 DEF PlatDies, TypeOK
      <3>2. peer # Gone => platPc'[peer] = platPc[peer]
        BY <1>2, <2>2, <3>1 DEF Stations, Gone
      <3> QED
        BY <1>2, <2>1, <3>1, <3>2 DEF Good, PeerOK
    <2>3. CASE peer = p
      <3>1. peer' = Gone /\ peer # Gone
        BY <2>3 DEF PlatDies, Gone, Stations
      <3>2. smPc \in {"sendfd", "recv"} => InPass(p) \/ notify # 0
        BY <2>3, <3>1 DEF Good, PeerOK, InPass
      <3>3. smPc \in {"sendfd", "recv"} => NoneInvited'
        BY <1>2, <1>4, <2>1, <3>2
      <3> QED
        BY <2>1, <3>1, <3>3 DEF PeerOK
    <2> QED
      BY <2>2, <2>3
  <1>9. FdbufOK'
    BY <1>1, <1>2 DEF Good, FdbufOK, PlatDies, TypeOK
  <1>10. PendingOK' /\ NsfdOK' /\ ServedOK'
    BY DEF Good, PendingOK, NsfdOK, ServedOK
  <1> QED
    BY <1>2, <1>3, <1>7, <1>8, <1>9, <1>10 DEF Good

LEMMA GoodSmStep ==
    ASSUME TypeOK, TypeOK', Good, SmStep, RailAssumption
    PROVE  Good'
  <1>1. CASE SmSelect
    <2>1. UNCHANGED <<queue, platPc, servedBy, pending, backlog, listening, notify,
                      conn, fdbuf, peer>> /\ smPc = "select" /\ smPc' = "scan"
      BY <1>1 DEF SmSelect, sockVars
    <2>2. Current' /\ OneCall' /\ NotYetCalled'
      BY <2>1, SameInvited DEF Good, Current, Serving, NotYetCalled
    <2>3. BacklogOK' /\ PeerOK'
      BY <2>1 DEF Good, BacklogOK, PeerOK
    <2> QED
      BY <2>1, <2>2, <2>3 DEF Good, PendingOK, NsfdOK, FdbufOK, ServedOK
  <1>2. CASE SmSkip \/ SmScanned
    <2>1. UNCHANGED <<queue, platPc, servedBy, pending, backlog, listening, notify,
                      conn, fdbuf, peer>> /\ smPc = "scan" /\ smPc' \in {"scan", "select"}
      BY <1>2 DEF SmSkip, SmScanned, sockVars
    <2>2. Current' /\ OneCall' /\ NotYetCalled'
      BY <2>1, SameInvited DEF Good, Current, Serving, NotYetCalled
    <2>3. BacklogOK' /\ PeerOK'
      BY <2>1 DEF Good, BacklogOK, PeerOK
    <2> QED
      BY <2>1, <2>2, <2>3 DEF Good, PendingOK, NsfdOK, FdbufOK, ServedOK
  <1>3. CASE SmTakeTrain
    <2>1. UNCHANGED <<queue, platPc, servedBy, i, backlog, listening, notify, conn,
                      fdbuf, peer>> /\ smPc = "scan" /\ smPc' = "announce"
      BY <1>3 DEF SmTakeTrain, sockVars
    <2>2. Current' /\ OneCall' /\ NotYetCalled'
      BY <2>1, SameInvited DEF Good, Current, Serving, NotYetCalled, NoneInvited
    <2>3. BacklogOK' /\ PeerOK'
      BY <2>1 DEF Good, BacklogOK, PeerOK
    <2>4. i \in Stations /\ pending[i] \in Seq(Trains) /\ pending[i] # <<>>
          /\ nsfd' = Head(pending[i])
          /\ pending' = [pending EXCEPT ![i] = Tail(@)]
      BY <1>3 DEF SmTakeTrain, TypeOK
    <2>5. NsfdOK'
      <3>1. 1 \in DOMAIN pending[i] /\ nsfd' = pending[i][1]
        BY <2>4
      <3>2. nsfd' \in Trains /\ Dest[nsfd'] = i
        BY <2>4, <3>1 DEF Good, PendingOK
      <3> QED
        BY <2>1, <2>4, <3>2 DEF NsfdOK
    <2>6. PendingOK'
      <3>1. ASSUME NEW k \in DOMAIN Tail(pending[i])
            PROVE  k + 1 \in DOMAIN pending[i] /\ Tail(pending[i])[k] = pending[i][k + 1]
        BY <2>4, <3>1
      <3>2. \A s \in Stations : pending'[s] = IF s = i THEN Tail(pending[i]) ELSE pending[s]
        BY <2>4 DEF TypeOK
      <3> QED
        BY <2>4, <3>1, <3>2 DEF Good, PendingOK
    <2> QED
      BY <2>1, <2>2, <2>3, <2>5, <2>6 DEF Good, FdbufOK, ServedOK
  <1>4. CASE SmAnnounce
    <2> DEFINE e == Text(j, i)
    <2>1. /\ UNCHANGED <<platPc, servedBy, pending, i, nsfd, backlog, listening,
                         notify, conn, fdbuf, peer>>
          /\ smPc = "announce" /\ i \in Stations /\ j \in Stations
          /\ queue' = [queue EXCEPT ![j] = Append(@, e)]
          /\ \/ j = N /\ smPc' = "listen"
             \/ j # N /\ j' = j + 1 /\ smPc' = "announce"
      <3>1. i \in Stations /\ j \in Stations
        BY <1>4 DEF SmAnnounce, TypeOK, Stations, RailAssumption
      <3> QED
        BY <1>4, <3>1 DEF SmAnnounce, sockVars
    <2>2. e \in Nat /\ (e # j <=> j = i)
      BY <2>1 DEF Text, Stations, RailAssumption
    <2>3. /\ queue'[j] = Append(queue[j], e) /\ queue[j] \in Seq(Nat)
          /\ \A p \in Stations : p # j => queue'[p] = queue[p]
      BY <2>1 DEF TypeOK
    <2>4. /\ Calls(queue'[j], j) <=> Calling(j) \/ j = i
          /\ Once(queue[j], j) /\ (j # i \/ ~Calling(j)) => Once(queue'[j], j)
      <3>1. /\ Calls(Append(queue[j], e), j) <=> Calls(queue[j], j) \/ e # j
            /\ Once(queue[j], j) /\ (e = j \/ ~Calls(queue[j], j))
                 => Once(Append(queue[j], e), j)
        BY <2>2, <2>3, AppendCalls
      <3> QED
        BY <2>2, <2>3, <3>1 DEF Calling
    <2>5. \A p \in Stations : Calling(p)' <=> Calling(p) \/ (p = j /\ j = i)
      <3>1. ASSUME NEW p \in Stations
            PROVE  Calling(p)' <=> Calls(queue'[p], p)
        BY DEF Calling, Calls
      <3>2. \A p \in Stations : p # j => (Calls(queue'[p], p) <=> Calling(p))
        BY <2>3 DEF Calling
      <3> QED
        BY <2>1, <2>4, <3>1, <3>2
    <2>6. \A p \in Stations : InPass(p)' <=> InPass(p)
      BY <2>1 DEF InPass
    <2>7. \A p \in Stations : Invited(p)' <=> Calling(p)' \/ InPass(p)'
      BY DEF Invited, Calling, Calls, InPass
    <2>8. \A p \in Stations : Invited(p)' <=> Invited(p) \/ (p = j /\ j = i)
      BY <2>5, <2>6, <2>7, InvitedIs
    <2>9. j = i => ~Calling(i) /\ ~InPass(i)
      <3>1. j = i => NoneInvited
        BY <2>1 DEF Good, NotYetCalled, Stations
      <3> QED
        BY <2>1, <3>1, InvitedIs DEF NoneInvited
    <2>10. Current'
      BY <2>1, <2>8 DEF Good, Current, Serving
    <2>11. OneCall'
      <3>1. \A p \in Stations : Once(queue'[p], p)
        BY <2>1, <2>3, <2>4, <2>9 DEF Good, OneCall
      <3>2. \A p \in Stations : Calling(p)' => ~InPass(p)'
        BY <2>5, <2>6, <2>9 DEF Good, OneCall
      <3>3. \A p \in Stations : Once(queue[p], p)' <=> Once(queue'[p], p)
        BY DEF Once
      <3> QED
        BY <3>1, <3>2, <3>3 DEF OneCall
    <2>12. NotYetCalled'
      <3>1. CASE j # N /\ j' <= i
        <4>1. j <= i /\ j # i
          BY <2>1, <3>1 DEF Stations, RailAssumption
        <4> QED
          BY <2>1, <2>8, <4>1 DEF Good, NotYetCalled, NoneInvited
      <3> QED
        BY <2>1, <3>1 DEF NotYetCalled
    <2>13. BacklogOK' /\ PeerOK'
      BY <2>1 DEF Good, BacklogOK, PeerOK
    <2> QED
      BY <2>1, <2>10, <2>11, <2>12, <2>13
         DEF Good, PendingOK, NsfdOK, FdbufOK, ServedOK
  <1>5. CASE SmListen
    <2>1. UNCHANGED <<queue, platPc, servedBy, pending, i, nsfd, notify, conn, fdbuf,
                      peer>> /\ smPc = "listen" /\ smPc' = "accept" /\ backlog' = <<>>
      BY <1>5 DEF SmListen
    <2>2. Current' /\ OneCall' /\ NotYetCalled'
      BY <2>1, SameInvited DEF Good, Current, Serving, NotYetCalled
    <2>3. BacklogOK' /\ PeerOK'
      BY <2>1 DEF Good, BacklogOK, PeerOK
    <2> QED
      BY <2>1, <2>2, <2>3 DEF Good, PendingOK, NsfdOK, FdbufOK, ServedOK
  <1>6. CASE SmAccept
    <2>1. UNCHANGED <<queue, platPc, servedBy, pending, i, nsfd, listening, conn,
                      fdbuf>> /\ smPc = "accept" /\ smPc' = "sendfd"
          /\ backlog # <<>> /\ peer' = Head(backlog) /\ backlog' = Tail(backlog)
          /\ notify' = 0
      BY <1>6 DEF SmAccept
    <2>2. Current' /\ OneCall' /\ NotYetCalled'
      BY <2>1, SameInvited DEF Good, Current, Serving, NotYetCalled
    <2>3. backlog' = <<>> /\ 1 \in DOMAIN backlog /\ peer' = backlog[1]
      <3>1. Len(backlog) = 1 /\ backlog \in Seq(0..N)
        BY <2>1 DEF Good, BacklogOK, TypeOK
      <3>2. Tail(backlog) \in Seq(0..N) /\ Len(Tail(backlog)) = 0
        BY <3>1
      <3>3. 1 \in DOMAIN backlog /\ Head(backlog) = backlog[1]
        BY <3>1
      <3> QED
        BY <2>1, <3>2, <3>3, EmptySeq
    <2>4. BacklogOK'
      BY <2>1, <2>3 DEF Good, BacklogOK
    <2>5. PeerOK'
      <3>1. peer' = Gone => NoneInvited'
        BY <2>1, <2>3, SameInvited DEF Good, BacklogOK
      <3>2. peer' # Gone => peer' \in Stations /\ platPc[peer'] = "recvfd"
        <4>1. peer' \in 0..N
          BY DEF TypeOK
        <4> QED
          BY <2>3, <4>1 DEF Good, BacklogOK, Stations, Gone
      <3>3. peer' # Gone => peer' = i
        BY <2>1, <3>2 DEF Good, Current, Invited
      <3> QED
        BY <2>1, <3>1, <3>2, <3>3 DEF PeerOK
    <2> QED
      BY <2>1, <2>2, <2>4, <2>5 DEF Good, PendingOK, NsfdOK, FdbufOK, ServedOK
  <1>7. CASE SmSendFd
    <2>1. UNCHANGED <<queue, platPc, servedBy, pending, i, peer, notify, listening,
                      backlog, conn>> /\ smPc = "sendfd" /\ smPc' = "recv"
          /\ peer # Gone /\ fdbuf' = [fdbuf EXCEPT ![peer] = nsfd]
      BY <1>7 DEF SmSendFd
    <2>2. Current' /\ OneCall' /\ NotYetCalled'
      BY <2>1, SameInvited DEF Good, Current, Serving, NotYetCalled
    <2>3. BacklogOK' /\ PeerOK'
      BY <2>1, SameInvited DEF Good, BacklogOK, PeerOK
    <2>4. peer = i /\ Dest[nsfd] = i /\ platPc[i] = "recvfd" /\ i \in Stations
      BY <2>1 DEF Good, PeerOK, NsfdOK
    <2>5. FdbufOK'
      BY <2>1, <2>4 DEF Good, FdbufOK, TypeOK
    <2> QED
      BY <2>1, <2>2, <2>3, <2>5 DEF Good, PendingOK, NsfdOK, ServedOK
  <1>8. CASE SmSendFdFails
    BY <1>8, GoodSmDies DEF SmSendFdFails
  <1>9. CASE SmNotified
    <2>1. UNCHANGED <<queue, platPc, servedBy, pending, peer, backlog, conn, fdbuf>>
          /\ smPc = "recv" /\ smPc' = "scan" /\ ~listening' /\ notify' = 0 /\ notify # 0
      BY <1>9 DEF SmNotified
    <2>2. NoneInvited /\ NoneInvited' /\ OneCall'
      BY <2>1, SameInvited DEF Good, PeerOK
    <2>3. Current' /\ NotYetCalled'
      BY <2>1, <2>2 DEF Current, NotYetCalled, NoneInvited
    <2>4. BacklogOK' /\ PeerOK'
      BY <2>1 DEF Good, BacklogOK, PeerOK
    <2>5. FdbufOK'
      BY <2>1, <2>2 DEF Good, FdbufOK, NoneInvited, Invited
    <2> QED
      BY <2>1, <2>2, <2>3, <2>4, <2>5 DEF Good, PendingOK, NsfdOK, ServedOK
  <1>10. CASE SmUnnotified
    <2>1. UNCHANGED <<servedBy, queue, platPc, fdbuf>>
          /\ smPc = "recv" /\ notify = 0 /\ peer = Gone
      BY <1>10 DEF SmUnnotified
    <2>2. CASE SmDies
      BY <2>1, <2>2, GoodSmDies
    <2>3. CASE ~SmDies
      <3>1. UNCHANGED <<pending, backlog, peer, notify, conn>>
            /\ smPc' = "scan" /\ ~listening'
        BY <1>10, <2>3 DEF SmUnnotified
      <3>2. NoneInvited /\ NoneInvited' /\ OneCall'
        BY <2>1, SameInvited DEF Good, PeerOK
      <3>3. Current' /\ NotYetCalled'
        BY <3>1, <3>2 DEF Current, NotYetCalled, NoneInvited
      <3>4. BacklogOK' /\ PeerOK'
        BY <2>1, <3>1 DEF Good, BacklogOK, PeerOK
      <3>5. FdbufOK'
        BY <2>1, <3>1, <3>2 DEF Good, FdbufOK, NoneInvited, Invited
      <3> QED
        BY <2>1, <3>1, <3>2, <3>3, <3>4, <3>5 DEF Good, PendingOK, NsfdOK, ServedOK
    <2> QED
      BY <2>2, <2>3
  <1> QED
    BY <1>1, <1>2, <1>3, <1>4, <1>5, <1>6, <1>7, <1>8, <1>9, <1>10 DEF SmStep

LEMMA GoodPlatStep ==
    ASSUME TypeOK, TypeOK', Good, NEW p \in Stations, PlatStep(p), RailAssumption
    PROVE  Good'
  <1>1. CASE PlatReceive(p)
    <2> DEFINE x == IF Head(queue[p]) = p THEN "wait" ELSE "connect"
    <2>1. /\ UNCHANGED <<servedBy, pending, smPc, i, j, nsfd, peer, listening, backlog,
                         notify, conn, fdbuf>>
          /\ platPc[p] = "wait" /\ queue[p] # <<>> /\ queue[p] \in Seq(Nat)
          /\ queue' = [queue EXCEPT ![p] = Tail(@)]
          /\ platPc' = [platPc EXCEPT ![p] = x]
      BY <1>1 DEF PlatReceive, smVars, sockVars, TypeOK
    <2>2. /\ queue'[p] = Tail(queue[p]) /\ platPc'[p] = x
          /\ \A q \in Stations : q # p => queue'[q] = queue[q] /\ platPc'[q] = platPc[q]
      BY <2>1 DEF TypeOK
    <2>3. /\ x = "wait" => (Calls(queue'[p], p) <=> Calling(p))
          /\ x = "connect" => Calling(p) /\ ~Calls(queue'[p], p)
          /\ Once(queue'[p], p)
      <3>1. /\ Head(queue[p]) = p => (Calls(Tail(queue[p]), p) <=> Calls(queue[p], p))
            /\ Head(queue[p]) # p => Calls(queue[p], p)
            /\ Head(queue[p]) # p /\ Once(queue[p], p) => ~Calls(Tail(queue[p]), p)
            /\ Once(queue[p], p) => Once(Tail(queue[p]), p)
        BY <2>1, TailCalls
      <3> QED
        BY <2>2, <3>1 DEF Good, OneCall, Calling
    <2>4. \A q \in Stations : Calling(q)' <=> Calls(queue'[q], q)
      BY DEF Calling, Calls
    <2>5. \A q \in Stations : Invited(q)' <=> Calling(q)' \/ InPass(q)'
      BY DEF Invited, Calling, Calls, InPass
    <2>6. \A q \in Stations : q # p => /\ Calling(q)' <=> Calling(q)
                                       /\ InPass(q)' <=> InPass(q)
      BY <2>2, <2>4 DEF Calling, InPass
    <2>7. ~InPass(p) /\ (InPass(p)' <=> x = "connect")
      BY <2>1, <2>2 DEF InPass
    <2>8. \A q \in Stations : Invited(q)' <=> Invited(q)
      <3>1. ASSUME NEW q \in Stations, q # p PROVE Invited(q)' <=> Invited(q)
        <4>1. Invited(q)' <=> Calling(q)' \/ InPass(q)'
          BY <2>5
        <4>2. Invited(q) <=> Calling(q) \/ InPass(q)
          BY InvitedIs
        <4>3. (Calling(q)' <=> Calling(q)) /\ (InPass(q)' <=> InPass(q))
          BY <2>6, <3>1
        <4> QED
          BY <4>1, <4>2, <4>3
      <3>2. x = "wait" \/ x = "connect"
        OBVIOUS
      <3>3. Calling(p)' \/ InPass(p)' <=> Calling(p)
        BY <2>3, <2>4, <2>7, <3>2
      <3>4. Invited(p)' <=> Invited(p)
        BY <2>5, <2>7, <3>3, InvitedIs
      <3> QED
        BY <3>1, <3>4
    <2>9. Current' /\ NotYetCalled' /\ (NoneInvited' <=> NoneInvited)
      BY <2>1, <2>8 DEF Good, Current, Serving, NotYetCalled, NoneInvited
    <2>10. OneCall'
      <3>1. \A q \in Stations : Calling(q)' => ~InPass(q)'
        <4>1. \A q \in Stations : Calling(q) => ~InPass(q)
          BY DEF Good, OneCall
        <4>2. Calling(p)' => ~InPass(p)'
          BY <2>3, <2>4, <2>7
        <4>3. ASSUME NEW q \in Stations, q # p PROVE Calling(q)' => ~InPass(q)'
          <5>1. (Calling(q)' <=> Calling(q)) /\ (InPass(q)' <=> InPass(q))
            BY <2>6, <4>3
          <5> QED
            BY <4>1, <5>1
        <4> QED
          BY <4>2, <4>3
      <3>2. \A q \in Stations : Once(queue[q], q)' <=> Once(queue'[q], q)
        BY DEF Once
      <3>3. \A q \in Stations : Once(queue'[q], q)
        BY <2>2, <2>3 DEF Good, OneCall
      <3> QED
        BY <3>1, <3>2, <3>3 DEF OneCall
    <2>11. \A q \in Stations : platPc[q] \in {"recvfd", "report"} => platPc'[q] = platPc[q]
      BY <2>1, <2>2
    <2>12. BacklogOK'
      <3>1. \A k \in DOMAIN backlog : backlog[k] \in 0..N
        BY InDomain DEF TypeOK
      <3> QED
        BY <2>1, <2>9, <2>11, <3>1 DEF Good, BacklogOK, Stations, Gone
    <2>13. PeerOK'
      <3>1. peer # Gone => peer \in Stations
        BY DEF TypeOK, Stations, Gone
      <3> QED
        BY <2>1, <2>9, <2>11, <3>1 DEF Good, PeerOK
    <2>14. FdbufOK'
      BY <2>1, <2>2, <2>11 DEF Good, FdbufOK
    <2> QED
      BY <2>1, <2>9, <2>10, <2>12, <2>13, <2>14 DEF Good, PendingOK, NsfdOK, ServedOK
  <1>2. CASE PlatConnect(p)
    <2>1. /\ UNCHANGED <<servedBy, pending, queue, smPc, i, j, nsfd, peer, listening,
                         notify, fdbuf>>
          /\ platPc[p] = "connect" /\ listening /\ InPass(p)
          /\ platPc' = [platPc EXCEPT ![p] = "recvfd"]
          /\ backlog' = Append(backlog, p)
          /\ conn' = [conn EXCEPT ![p] = TRUE]
      BY <1>2 DEF PlatConnect, smVars, InPass
    <2>2. /\ OneCall' /\ (NoneInvited' <=> NoneInvited) /\ Invited(p)
          /\ \A q \in Stations : Invited(q)' <=> Invited(q)
          /\ platPc'[p] = "recvfd"
          /\ \A q \in Stations : q # p => platPc'[q] = platPc[q]
      BY <2>1, PlatMoves DEF Good
    <2>3. i = p /\ ~NoneInvited /\ smPc \in {"accept", "sendfd", "recv"}
      BY <2>1, <2>2 DEF Good, Current, BacklogOK, NoneInvited
    <2>4. smPc = "accept"
      <3>1. SUFFICES ASSUME smPc \in {"sendfd", "recv"} PROVE FALSE
        BY <2>3
      <3> QED
        BY <2>1, <2>3, <3>1 DEF Good, PeerOK
    <2>5. backlog = <<>>
      <3>1. SUFFICES ASSUME backlog # <<>> PROVE FALSE
        OBVIOUS
      <3>2. 1 \in DOMAIN backlog /\ backlog[1] \in 0..N
        <4>1. Len(backlog) \in Nat \ {0} /\ DOMAIN backlog = 1..Len(backlog)
          BY <3>1, EmptySeq, LenProperties DEF TypeOK
        <4>2. 1 \in DOMAIN backlog /\ backlog \in Seq(0..N)
          BY <4>1 DEF TypeOK
        <4> QED
          BY <4>2, InDomain
      <3>3. backlog[1] # Gone /\ platPc[backlog[1]] = "recvfd"
        BY <2>3, <3>2 DEF Good, BacklogOK
      <3>4. backlog[1] \in Stations /\ backlog[1] # p
        BY <2>1, <3>2, <3>3 DEF Stations, Gone
      <3> QED
        BY <2>3, <2>4, <3>3, <3>4 DEF Good, Current, Invited
    <2>6. Len(backlog') = 1 /\ DOMAIN backlog' = {1} /\ backlog'[1] = p
      BY <2>1, <2>5
    <2>7. BacklogOK'
      BY <2>1, <2>2, <2>4, <2>6 DEF BacklogOK, Gone, Stations
    <2>8. PeerOK' /\ Current' /\ NotYetCalled'
      BY <2>1, <2>2, <2>4 DEF Good, PeerOK, Current, Serving, NotYetCalled
    <2>9. FdbufOK'
      BY <2>1, <2>2, <2>4 DEF Good, FdbufOK, TypeOK
    <2> QED
      BY <2>1, <2>2, <2>7, <2>8, <2>9 DEF Good, PendingOK, NsfdOK, ServedOK
  <1>3. CASE PlatRefused(p) \/ PlatRecvNothing(p) \/ PlatReportFails(p)
    BY <1>3, GoodPlatDies DEF PlatRefused, PlatRecvNothing, PlatReportFails
  <1>4. CASE PlatRecvFd(p)
    <2>1. /\ UNCHANGED <<pending, queue, smPc, i, j, nsfd, peer, listening, backlog,
                         notify, conn>>
          /\ platPc[p] = "recvfd" /\ InPass(p) /\ fdbuf[p] # NoTrain
          /\ platPc' = [platPc EXCEPT ![p] = "report"]
          /\ fdbuf' = [fdbuf EXCEPT ![p] = NoTrain]
          /\ servedBy' = [servedBy EXCEPT ![fdbuf[p]] = p]
      BY <1>4 DEF PlatRecvFd, smVars, InPass
    <2>2. /\ OneCall' /\ (NoneInvited' <=> NoneInvited) /\ Invited(p)
          /\ \A q \in Stations : Invited(q)' <=> Invited(q)
          /\ platPc'[p] = "report"
          /\ \A q \in Stations : q # p => platPc'[q] = platPc[q]
      BY <2>1, PlatMoves DEF Good
    <2>3. smPc \in {"recv", "down"} /\ Dest[fdbuf[p]] = p /\ fdbuf[p] \in Trains
      BY <2>1 DEF Good, FdbufOK, TypeOK
    <2>4. backlog = <<>>
      BY <2>3 DEF Good, BacklogOK
    <2>5. BacklogOK' /\ Current' /\ NotYetCalled'
      BY <2>1, <2>2, <2>4 DEF Good, BacklogOK, Current, Serving, NotYetCalled
    <2>6. PeerOK'
      <3>1. peer # Gone => peer \in Stations
        BY DEF TypeOK, Stations, Gone
      <3> QED
        BY <2>1, <2>2, <2>3, <3>1 DEF Good, PeerOK
    <2>7. FdbufOK'
      BY <2>1, <2>2, <2>3 DEF Good, FdbufOK, TypeOK
    <2>8. ServedOK'
      BY <2>1, <2>3 DEF Good, ServedOK, TypeOK
    <2> QED
      BY <2>1, <2>2, <2>5, <2>6, <2>7, <2>8 DEF Good, PendingOK, NsfdOK
  <1>5. CASE PlatReport(p)
    <2>1. /\ UNCHANGED <<servedBy, pending, queue, smPc, i, j, nsfd, peer, listening,
                         backlog, conn, fdbuf>>
          /\ platPc[p] = "report" /\ InPass(p) /\ conn[p] /\ notify' = p
          /\ platPc' = [platPc EXCEPT ![p] = "wait"]
      BY <1>5 DEF PlatReport, smVars, InPass
    <2>2. /\ OneCall' /\ (NoneInvited => NoneInvited') /\ ~Invited(p)'
          /\ \A q \in Stations : Invited(q)' => Invited(q)
          /\ \A q \in Stations : q # p => platPc'[q] = platPc[q]
      BY <2>1, PlatLeaves DEF Good
    <2>3. smPc = "recv"
      BY <2>1 DEF Good, FdbufOK
    <2>4. i = p
      BY <2>1, <2>3, InvitedIs DEF Good, Current
    <2>5. NoneInvited'
      BY <2>2, <2>3, <2>4 DEF Good, Current, NoneInvited
    <2>6. backlog = <<>>
      BY <2>3 DEF Good, BacklogOK
    <2>7. BacklogOK' /\ Current' /\ NotYetCalled'
      BY <2>1, <2>2, <2>5, <2>6 DEF Good, BacklogOK, Current, NoneInvited, NotYetCalled
    <2>8. PeerOK'
      <3>1. notify' # 0
        BY <2>1 DEF Stations
      <3> QED
        BY <2>1, <2>3, <2>5, <3>1 DEF Good, PeerOK
    <2>9. FdbufOK'
      BY <2>1, <2>2 DEF Good, FdbufOK, TypeOK
    <2> QED
      BY <2>1, <2>2, <2>7, <2>8, <2>9 DEF Good, PendingOK, NsfdOK, ServedOK
  <1> QED
    BY <1>1, <1>2, <1>3, <1>4, <1>5 DEF PlatStep

LEMMA GoodStart ==
    ASSUME TypeOK, Good, NEW p \in Stations, StartPlat(p), RailAssumption
    PROVE  Good'
  <1>1. /\ UNCHANGED <<servedBy, pending, queue, smPc, i, j, nsfd, peer, listening,
                       backlog, notify, conn, fdbuf>>
        /\ platPc[p] = "down" /\ platPc' = [platPc EXCEPT ![p] = "wait"]
    BY DEF StartPlat, smVars, sockVars
  <1>2. /\ OneCall' /\ (NoneInvited => NoneInvited')
        /\ \A q \in Stations : Invited(q)' => Invited(q)
        /\ \A q \in Stations : q # p => platPc'[q] = platPc[q]
    BY <1>1, PlatLeaves DEF Good
  <1>3. \A q \in Stations : platPc[q] \in {"recvfd", "report"} => platPc'[q] = platPc[q]
    BY <1>1, <1>2
  <1>4. Current' /\ NotYetCalled'
    BY <1>1, <1>2 DEF Good, Current, Serving, NotYetCalled
  <1>5. BacklogOK'
    <2>1. \A k \in DOMAIN backlog : backlog[k] \in 0..N
      BY DEF TypeOK
    <2> QED
      BY <1>1, <1>2, <1>3, <2>1 DEF Good, BacklogOK, Stations, Gone
  <1>6. PeerOK'
    <2>1. peer # Gone => peer \in Stations
      BY DEF TypeOK, Stations, Gone
    <2> QED
      BY <1>1, <1>2, <1>3, <2>1 DEF Good, PeerOK
  <1>7. FdbufOK'
    BY <1>1, <1>2, <1>3 DEF Good, FdbufOK, TypeOK
  <1> QED
    BY <1>1, <1>2, <1>4, <1>5, <1>6, <1>7 DEF Good, PendingOK, NsfdOK, ServedOK

LEMMA Inductive ==
    ASSUME IInv, [Next]_vars
    PROVE  IInv'
  <1> USE RailAssumption
  <1>1. TypeOK /\ TypeOK'
    BY TypeStep DEF IInv
  <1>2. SUFFICES ASSUME smRestarts' = 0 PROVE Good'
    BY <1>1 DEF IInv
  <1>3. smRestarts = 0 /\ Good
    <2>1. smRestarts' \in {smRestarts, smRestarts + 1}
      BY DEF Next, vars, failVars, TrainArrive, TrainRefused, SmStep, SmSelect, SmSkip,
         SmScanned, SmTakeTrain, SmAnnounce, SmListen, SmAccept, SmSendFd,
         SmSendFdFails, SmNotified, SmUnnotified, PlatStep, PlatReceive, PlatConnect,
         PlatRefused, PlatRecvFd, PlatRecvNothing, PlatReport, PlatReportFails,
         KillSm, StartSm, KillPlat, StartPlat
    <2>2. smRestarts \in Nat
      BY <1>1 DEF TypeOK, RailAssumption
    <2> QED
      BY <1>2, <2>1, <2>2 DEF IInv
  <1>4. ASSUME NEW t \in Trains, TrainArrive(t) \/ TrainRefused(t) PROVE Good'
    BY <1>1, <1>3, <1>4, GoodTrain
  <1>5. CASE SmStep
    BY <1>1, <1>3, <1>5, GoodSmStep
  <1>6. ASSUME NEW p \in Stations, PlatStep(p) PROVE Good'
    BY <1>1, <1>3, <1>6, GoodPlatStep
  <1>7. CASE KillSm
    BY <1>1, <1>3, <1>7, GoodSmDies DEF KillSm
  <1>8. CASE StartSm
    <2>1. smRestarts' = 1
      BY <1>3, <1>8 DEF StartSm
    <2> QED
      BY <1>2, <2>1
  <1>9. ASSUME NEW p \in Stations, KillPlat(p) PROVE Good'
    BY <1>1, <1>3, <1>9, GoodPlatDies DEF KillPlat
  <1>10. ASSUME NEW p \in Stations, StartPlat(p) PROVE Good'
    BY <1>1, <1>3, <1>10, GoodStart
  <1>11. CASE UNCHANGED vars
    BY <1>3, <1>11 DEF vars, smVars, sockVars, failVars, Good, Current, OneCall, Calling,
       Calls, Once, InPass, Invited, NoneInvited, Serving, NotYetCalled, BacklogOK,
       PeerOK, PendingOK, NsfdOK, FdbufOK, ServedOK
  <1> QED
    BY <1>4, <1>5, <1>6, <1>7, <1>8, <1>9, <1>10, <1>11 DEF Next

LEMMA Initially == Init => IInv
  <1> SUFFICES ASSUME Init PROVE IInv
    OBVIOUS
  <1>1. TypeOK
    BY InitType
  <1>2. NoneInvited
    BY DEF Init, NoneInvited, Invited
  <1>3. Current /\ NotYetCalled
    BY <1>2 DEF Init, Current, NotYetCalled, NoneInvited
  <1>4. OneCall
    BY DEF Init, OneCall, Calling, Calls, Once
  <1>5. BacklogOK /\ PeerOK
    BY DEF Init, BacklogOK, PeerOK
  <1>6. PendingOK /\ NsfdOK /\ FdbufOK /\ ServedOK
    BY DEF Init, PendingOK, NsfdOK, FdbufOK, ServedOK
  <1> QED
    BY <1>1, <1>3, <1>4, <1>5, <1>6 DEF IInv, Good

\* As long as the station master is not restarted, a platform only ever receives the
\* descriptors of trains that called at its own station, whichever platforms die
\* and come back, however the handshakes interleave.
THEOREM RoutingTheorem == Spec => []RoutingCorrect
  <1>1. IInv => RoutingCorrect
    BY DEF IInv, Good, ServedOK, RoutingCorrect
  <1> QED
    BY <1>1, Initially, Inductive, PTL DEF Spec

\* As long as the station master is not restarted, no announcement outlives the train
\* it was made for.
THEOREM InvitationTheorem == Spec => []InvitationIsCurrent
  <1>1. IInv => InvitationIsCurrent
    BY DEF IInv, Good, Current, Serving, InvitationIsCurrent
  <1> QED
    BY <1>1, Initially, Inductive, PTL DEF Spec

-----------------------------------------------------------------------------
(* What the station master waits for, and the flags *)

(* Once station i was announced its platform has the call, unless it died. *)
Summons == \/ smPc = "announce" /\ j > i
           \/ smPc = "listen"
           \/ smPc = "accept" /\ backlog = <<>>
Called == Summons => Calling(i) \/ platPc[i] = "connect" \/ i \in everDied

(* Without a kill the station master lives, and whom it talks to as well: *)
(* the platform that dies in connect() is not connected yet.              *)
Unkilled ==
    kills = 0 =>
      /\ smPc # "down" /\ smRestarts = 0
      /\ smPc \in {"sendfd", "recv"} => peer # Gone
      /\ \A k \in DOMAIN backlog : backlog[k] # Gone
      /\ \A p \in Stations : platPc[p] \in {"recvfd", "report"} => conn[p]
      /\ \A s \in Stations : flag[s] # 0 => Serving /\ s = i
      /\ notify # 0 => notify = i

(* A flag that outlasts its train is that of a station whose platform died: *)
(* it was the client that did not notify.                                  *)
Flagged ==
    /\ notify # 0 => notify = i
    /\ \A s \in Stations :
         flag[s] # 0 => (Serving /\ s = i) \/ s \in everDied \/ smPc = "down"
    /\ \A k \in DOMAIN backlog : backlog[k] = Gone => i \in everDied
    /\ smPc \in {"sendfd", "recv"} /\ peer = Gone => i \in everDied

WInv == IInv /\ (smRestarts = 0 => Called /\ Flagged) /\ Unkilled

\* The station master's own steps: only the announcement of station i summons.
LEMMA CalledSm ==
    ASSUME TypeOK, Good, Called, SmStep, RailAssumption
    PROVE  Called'
  <1>1. CASE SmAnnounce
    <2>1. /\ smPc = "announce" /\ i \in Stations /\ j \in Stations
          /\ UNCHANGED <<i, platPc, everDied>>
          /\ smPc' \in {"announce", "listen"}
          /\ queue' = [queue EXCEPT ![j] = Append(@, Text(j, i))]
      BY <1>1 DEF SmAnnounce, TypeOK, Stations, RailAssumption, failVars
    <2>2. Text(j, i) \in Nat
      BY <2>1 DEF Text, Stations, RailAssumption
    <2>3. queue \in [Stations -> Seq(Nat)]
      BY DEF TypeOK
    <2>4. CASE j = i
      <3>1. queue'[i] = Append(queue[i], Text(i, i)) /\ Text(i, i) # i
        BY <2>1, <2>3, <2>4 DEF Text, Stations, RailAssumption
      <3>2. Calls(queue'[i], i)
        BY <2>1, <2>2, <2>3, <2>4, <3>1, AppendCalls
      <3> QED
        BY <2>1, <3>2 DEF Called, Calling, Calls
    <2>5. CASE j # i
      <3>1. queue'[i] = queue[i]
        BY <2>1, <2>3, <2>5
      <3>2. (Calling(i) \/ platPc[i] = "connect" \/ i \in everDied)
               => (Calling(i) \/ platPc[i] = "connect" \/ i \in everDied)'
        BY <2>1, <3>1 DEF Calling, Calls
      <3>3. Summons' => j > i
        <4>1. CASE j = N
          BY <2>1, <2>5, <4>1 DEF Stations, RailAssumption
        <4>2. CASE j # N
          <5>1. smPc' = "announce" /\ j' = j + 1
            BY <1>1, <4>2, <2>1 DEF SmAnnounce
          <5> QED
            BY <2>1, <2>5, <5>1 DEF Summons, Stations, RailAssumption
        <4> QED
          BY <4>1, <4>2
      <3> QED
        BY <2>1, <3>2, <3>3 DEF Called, Summons
    <2> QED
      BY <2>4, <2>5
  <1>2. CASE SmListen
    <2>1. smPc = "listen" /\ UNCHANGED <<i, queue, platPc, everDied>>
      BY <1>2 DEF SmListen, failVars
    <2> QED
      BY <2>1 DEF Called, Summons, Calling, Calls
  <1>3. CASE SmTakeTrain
    <2>1. smPc' = "announce" /\ j' = 1 /\ i' = i /\ i \in Stations
      BY <1>3 DEF SmTakeTrain
    <2> QED
      BY <2>1 DEF Called, Summons, Stations, RailAssumption
  <1>4. CASE SmSelect \/ SmSkip \/ SmScanned \/ SmAccept \/ SmSendFd \/ SmSendFdFails
             \/ SmNotified \/ SmUnnotified
    <2>1. smPc' \notin {"announce", "listen", "accept"}
      BY <1>4 DEF SmSelect, SmSkip, SmScanned, SmAccept, SmSendFd, SmSendFdFails,
         SmNotified, SmUnnotified, SmDies
    <2> QED
      BY <2>1 DEF Called, Summons
  <1> QED
    BY <1>1, <1>2, <1>3, <1>4 DEF SmStep

\* A platform reads its call, connects and takes its place in the queue, or dies.
LEMMA CalledPlat ==
    ASSUME TypeOK, Good, Called, NEW p \in Stations,
           PlatStep(p) \/ KillPlat(p) \/ StartPlat(p), RailAssumption
    PROVE  Called'
  <1>0. Summons => i \in Stations
    <2>1. i \in 1..(N + 1) /\ (i = N + 1 => smPc \in {"select", "scan", "down"})
      BY DEF TypeOK
    <2>2. Summons => smPc \notin {"select", "scan", "down"}
      BY DEF Summons
    <2> QED
      BY <2>1, <2>2 DEF Stations, RailAssumption
  <1>1. ASSUME PlatDies(p), UNCHANGED <<queue, smPc, i, j>>
        PROVE  Called'
    <2>1. /\ everDied' = everDied \cup {p}
          /\ \A q \in Stations : q # p => platPc'[q] = platPc[q]
      BY <1>1 DEF PlatDies, TypeOK
    <2>2. backlog' = <<>> => backlog = <<>>
      <3>1. Len(backlog') = Len(backlog) /\ backlog' \in Seq(0..N)
        BY <1>1, MarkGone DEF TypeOK, PlatDies
      <3> QED
        BY <3>1, EmptySeq DEF TypeOK
    <2>3. Summons' => Summons
      BY <1>1, <2>2 DEF Summons
    <2> QED
      BY <1>0, <1>1, <2>1, <2>3 DEF Called, Calling, Calls
  <1>2. CASE PlatRefused(p) \/ PlatRecvNothing(p) \/ PlatReportFails(p) \/ KillPlat(p)
    BY <1>1, <1>2 DEF PlatRefused, PlatRecvNothing, PlatReportFails, KillPlat
  <1>3. CASE PlatReceive(p)
    <2>1. /\ platPc[p] = "wait" /\ queue[p] # <<>> /\ UNCHANGED <<smPc, i, j, backlog, everDied>>
          /\ queue' = [queue EXCEPT ![p] = Tail(@)]
          /\ platPc' = [platPc EXCEPT ![p] = IF Head(queue[p]) = p THEN "wait" ELSE "connect"]
      BY <1>3 DEF PlatReceive, smVars, sockVars, failVars
    <2>2. /\ queue'[p] = Tail(queue[p]) /\ queue[p] \in Seq(Nat)
          /\ platPc'[p] = IF Head(queue[p]) = p THEN "wait" ELSE "connect"
          /\ \A q \in Stations : q # p => queue'[q] = queue[q] /\ platPc'[q] = platPc[q]
      BY <2>1 DEF TypeOK
    <2>3. Calls(queue[p], p) => Calls(queue'[p], p) \/ platPc'[p] = "connect"
      BY <2>1, <2>2, TailCalls
    <2>4. Summons' <=> Summons
      BY <2>1 DEF Summons
    <2>5. CASE i = p
      BY <2>1, <2>3, <2>4, <2>5 DEF Called, Calling, Calls
    <2>6. CASE i # p
      BY <1>0, <2>1, <2>2, <2>4, <2>6 DEF Called, Calling, Calls
    <2> QED
      BY <2>5, <2>6
  <1>4. CASE PlatConnect(p)
    <2>1. listening /\ backlog' = Append(backlog, p) /\ smPc' = smPc
      BY <1>4 DEF PlatConnect, smVars
    <2>2. smPc \in {"accept", "sendfd", "recv"}
      BY <2>1 DEF Good, BacklogOK
    <2>3. backlog' # <<>>
      <3>1. backlog \in Seq(0..N)
        BY DEF TypeOK
      <3> QED
        BY <2>1, <3>1
    <2> QED
      BY <2>1, <2>2, <2>3 DEF Called, Summons
  <1>5. CASE PlatRecvFd(p) \/ PlatReport(p) \/ StartPlat(p)
    <2>1. /\ platPc[p] # "connect" /\ UNCHANGED <<queue, smPc, i, j, backlog, everDied>>
          /\ \A q \in Stations : q # p => platPc'[q] = platPc[q]
      BY <1>5 DEF PlatRecvFd, PlatReport, StartPlat, smVars, sockVars, failVars, TypeOK
    <2>2. Summons' <=> Summons
      BY <2>1 DEF Summons
    <2> QED
      BY <1>0, <2>1, <2>2 DEF Called, Calling, Calls
  <1> QED
    BY <1>2, <1>3, <1>4, <1>5 DEF PlatStep

LEMMA CalledStep ==
    ASSUME TypeOK, Good, Called, [Next]_vars, smRestarts' = smRestarts, RailAssumption
    PROVE  Called'
  <1>1. ASSUME NEW t \in Trains, TrainArrive(t) \/ TrainRefused(t) PROVE Called'
    BY <1>1 DEF TrainArrive, TrainRefused, smVars, sockVars, failVars, Called, Summons,
       Calling, Calls
  <1>2. CASE KillSm
    BY <1>2 DEF KillSm, SmDies, Called, Summons
  <1>3. CASE ~StartSm
    BY <1>1, <1>2, <1>3, CalledSm, CalledPlat DEF Next, vars, smVars, sockVars, failVars, Called,
       Summons, Calling, Calls
  <1>4. CASE StartSm
    BY <1>4 DEF StartSm, TypeOK, RailAssumption
  <1> QED
    BY <1>3, <1>4

\* Nothing ends the station master, and flag[] is set for the station being handled only.
LEMMA UnkilledSm ==
    ASSUME TypeOK, Good, Unkilled, SmStep, kills = 0, RailAssumption
    PROVE  Unkilled'
  <1>0. /\ smPc # "down" /\ smRestarts = 0
        /\ smPc \in {"sendfd", "recv"} => peer # Gone
        /\ \A k \in DOMAIN backlog : backlog[k] # Gone
        /\ \A p \in Stations : platPc[p] \in {"recvfd", "report"} => conn[p]
        /\ \A s \in Stations : flag[s] # 0 => Serving /\ s = i
        /\ notify # 0 => notify = i
    BY DEF Unkilled
  <1> USE DEF smVars, sockVars, failVars
  <1>1. CASE SmSelect
    <2>1. smPc = "select" /\ smPc' = "scan"
          /\ UNCHANGED <<smRestarts, peer, backlog, platPc, conn, flag, notify>>
      BY <1>1 DEF SmSelect
    <2>2. notify = 0
      BY <2>1 DEF Good, PeerOK
    <2> QED
      BY <1>0, <2>1, <2>2 DEF Unkilled, Serving
  <1>2. CASE SmSkip \/ SmScanned
    <2>1. smPc = "scan" /\ smPc' \in {"scan", "select"}
          /\ UNCHANGED <<smRestarts, peer, backlog, platPc, conn, flag, notify>>
      BY <1>2 DEF SmSkip, SmScanned
    <2>2. notify = 0
      BY <2>1 DEF Good, PeerOK
    <2> QED
      BY <1>0, <2>1, <2>2 DEF Unkilled, Serving
  <1>3. CASE SmTakeTrain
    <2>1. smPc = "scan" /\ smPc' = "announce" /\ i' = i /\ i \in Stations
          /\ flag' = [flag EXCEPT ![i] = 1]
          /\ UNCHANGED <<smRestarts, peer, backlog, platPc, conn, notify>>
      BY <1>3 DEF SmTakeTrain
    <2>2. \A s \in Stations : s # i => flag'[s] = flag[s]
      BY <2>1 DEF TypeOK
    <2> QED
      BY <1>0, <2>1, <2>2 DEF Unkilled, Serving
  <1>4. CASE SmAnnounce \/ SmListen
    <2>1. smPc \in {"announce", "listen"} /\ smPc' \in {"announce", "listen", "accept"} /\ i' = i
          /\ backlog' \in {backlog, <<>>}
          /\ UNCHANGED <<smRestarts, peer, platPc, conn, flag, notify>>
      BY <1>4 DEF SmAnnounce, SmListen
    <2> QED
      BY <1>0, <2>1 DEF Unkilled, Serving
  <1>5. CASE SmAccept
    <2>1. smPc = "accept" /\ smPc' = "sendfd" /\ i' = i /\ backlog # <<>> /\ notify' = 0
          /\ peer' = Head(backlog) /\ backlog' = Tail(backlog)
          /\ UNCHANGED <<smRestarts, platPc, conn, flag>>
      BY <1>5 DEF SmAccept
    <2>2. 1 \in DOMAIN backlog /\ Head(backlog) = backlog[1] /\ Len(backlog) = 1
      <3>1. backlog \in Seq(0..N)
        BY DEF TypeOK
      <3> QED
        BY <2>1, <3>1, HeadTailProperties DEF Good, BacklogOK
    <2>3. DOMAIN backlog' = {}
      <3>1. backlog \in Seq(0..N)
        BY DEF TypeOK
      <3> QED
        BY <2>1, <2>2, <3>1
    <2> QED
      BY <1>0, <2>1, <2>2, <2>3 DEF Unkilled, Serving
  <1>6. CASE SmSendFd
    <2>1. smPc = "sendfd" /\ smPc' = "recv" /\ i' = i
          /\ UNCHANGED <<smRestarts, peer, backlog, platPc, conn, flag, notify>>
      BY <1>6 DEF SmSendFd
    <2> QED
      BY <1>0, <2>1 DEF Unkilled, Serving
  <1>7. CASE SmNotified
    <2>1. smPc = "recv" /\ smPc' = "scan" /\ notify # 0 /\ notify' = 0
          /\ flag' = [flag EXCEPT ![notify] = 0]
          /\ UNCHANGED <<smRestarts, peer, backlog, platPc, conn>>
      BY <1>7 DEF SmNotified
    <2>2. \A s \in Stations : flag'[s] = 0
      <3>1. notify = i /\ \A s \in Stations : s # i => flag[s] = 0
        BY <1>0, <2>1
      <3> QED
        BY <2>1, <3>1 DEF TypeOK
    <2> QED
      BY <1>0, <2>1, <2>2 DEF Unkilled
  <1>8. ~SmSendFdFails /\ ~SmUnnotified
    BY <1>0 DEF SmSendFdFails, SmUnnotified
  <1> QED
    BY <1>1, <1>2, <1>3, <1>4, <1>5, <1>6, <1>7, <1>8 DEF SmStep

\* A platform that dies without being killed has not been connected yet.
LEMMA UnkilledPlat ==
    ASSUME TypeOK, Good, Unkilled, NEW p \in Stations, PlatStep(p) \/ StartPlat(p), kills = 0,
           RailAssumption
    PROVE  Unkilled'
  <1>0. /\ smPc # "down" /\ smRestarts = 0
        /\ smPc \in {"sendfd", "recv"} => peer # Gone
        /\ \A k \in DOMAIN backlog : backlog[k] # Gone
        /\ \A q \in Stations : platPc[q] \in {"recvfd", "report"} => conn[q]
        /\ \A s \in Stations : flag[s] # 0 => Serving /\ s = i
        /\ notify # 0 => notify = i
    BY DEF Unkilled
  <1> USE DEF smVars, sockVars, failVars
  <1>1. CASE PlatReceive(p) \/ PlatRecvFd(p) \/ StartPlat(p)
    <2>1. /\ UNCHANGED <<smPc, smRestarts, peer, backlog, conn, flag, notify, i>>
          /\ platPc'[p] \notin {"recvfd", "report"} \/ platPc[p] = "recvfd"
          /\ \A q \in Stations : q # p => platPc'[q] = platPc[q]
      BY <1>1 DEF PlatReceive, PlatRecvFd, StartPlat, TypeOK
    <2> QED
      BY <1>0, <2>1 DEF Unkilled, Serving
  <1>2. CASE PlatConnect(p)
    <2>1. /\ UNCHANGED <<smPc, smRestarts, peer, flag, notify, i>>
          /\ backlog' = Append(backlog, p) /\ conn'[p]
          /\ \A q \in Stations : q # p => platPc'[q] = platPc[q] /\ conn'[q] = conn[q]
      BY <1>2 DEF PlatConnect, TypeOK
    <2>2. \A k \in DOMAIN backlog' : \/ (k \in DOMAIN backlog /\ backlog'[k] = backlog[k])
                                     \/ backlog'[k] = p
      <3>1. backlog \in Seq(0..N)
        BY DEF TypeOK
      <3> QED
        BY <2>1, <3>1
    <2>3. p # Gone
      BY DEF Gone, Stations
    <2> QED
      BY <1>0, <2>1, <2>2, <2>3 DEF Unkilled, Serving
  <1>3. CASE PlatRefused(p)
    <2>1. /\ platPc[p] = "connect"
          /\ UNCHANGED <<smPc, smRestarts, flag, notify, i>>
          /\ peer' = (IF peer = p THEN Gone ELSE peer)
          /\ backlog' = [k \in DOMAIN backlog |-> IF backlog[k] = p THEN Gone ELSE backlog[k]]
          /\ platPc'[p] = "down"
          /\ \A q \in Stations : q # p => platPc'[q] = platPc[q] /\ conn'[q] = conn[q]
      BY <1>3 DEF PlatRefused, PlatDies, TypeOK
    <2>2. \A k \in DOMAIN backlog : backlog[k] # p
      BY <1>0, <2>1 DEF Good, BacklogOK
    <2>3. smPc \in {"sendfd", "recv"} => peer # p
      <3>1. ~NoneInvited
        BY <2>1 DEF NoneInvited, Invited
      <3>2. p # Gone
        BY DEF Gone, Stations
      <3> QED
        BY <2>1, <3>1, <3>2 DEF Good, PeerOK
    <2> QED
      BY <1>0, <2>1, <2>2, <2>3 DEF Unkilled, Serving
  <1>4. CASE PlatReport(p)
    <2>1. /\ platPc[p] = "report" /\ notify' = p /\ platPc'[p] = "wait"
          /\ UNCHANGED <<smPc, smRestarts, peer, backlog, conn, flag, i>>
          /\ \A q \in Stations : q # p => platPc'[q] = platPc[q]
      BY <1>4 DEF PlatReport, TypeOK
    <2>2. i = p
      BY <1>0, <2>1 DEF Good, Current, Invited
    <2> QED
      BY <1>0, <2>1, <2>2 DEF Unkilled, Serving
  <1>5. ~PlatRecvNothing(p) /\ ~PlatReportFails(p)
    BY <1>0 DEF PlatRecvNothing, PlatReportFails
  <1> QED
    BY <1>1, <1>2, <1>3, <1>4, <1>5 DEF PlatStep

LEMMA UnkilledStep ==
    ASSUME TypeOK, smRestarts = 0 => Good, Unkilled, [Next]_vars, RailAssumption
    PROVE  Unkilled'
  <1>1. SUFFICES ASSUME kills' = 0 PROVE Unkilled'
    BY DEF Unkilled
  <1>2. ~KillSm /\ \A p \in Stations : ~KillPlat(p)
    BY <1>1 DEF KillSm, KillPlat, TypeOK, RailAssumption
  <1>3. kills = 0
    BY <1>1, <1>2 DEF Next, vars, failVars, TrainArrive, TrainRefused, SmStep, SmSelect, SmSkip,
       SmScanned, SmTakeTrain, SmAnnounce, SmListen, SmAccept, SmSendFd,
       SmSendFdFails, SmNotified, SmUnnotified, PlatStep, PlatReceive, PlatConnect,
       PlatRefused, PlatRecvFd, PlatRecvNothing, PlatReport, PlatReportFails, StartSm, StartPlat
  <1>4. Good /\ ~StartSm
    BY <1>3 DEF Unkilled, StartSm
  <1>5. ASSUME NEW t \in Trains, TrainArrive(t) \/ TrainRefused(t) PROVE Unkilled'
    BY <1>5 DEF TrainArrive, TrainRefused, smVars, sockVars, failVars, Unkilled, Serving
  <1>6. CASE UNCHANGED vars
    BY <1>6 DEF vars, smVars, sockVars, failVars, Unkilled, Serving
  <1> QED
    BY <1>2, <1>3, <1>4, <1>5, <1>6, UnkilledSm, UnkilledPlat DEF Next

\* The flag that SmNotified clears is the one set last; a Gone client was station i's.
LEMMA FlaggedSm ==
    ASSUME TypeOK, Good, Flagged, SmStep, RailAssumption
    PROVE  Flagged'
  <1>0. /\ notify # 0 => notify = i /\ smPc = "recv"
        /\ \A s \in Stations :
             flag[s] # 0 => (Serving /\ s = i) \/ s \in everDied \/ smPc = "down"
        /\ \A k \in DOMAIN backlog : backlog[k] = Gone => i \in everDied
        /\ smPc \in {"sendfd", "recv"} /\ peer = Gone => i \in everDied
    BY DEF Flagged, Good, PeerOK
  <1>00. smPc # "accept" => backlog = <<>>
    BY DEF Good, BacklogOK
  <1> USE DEF smVars, sockVars, failVars
  <1>1. CASE SmSelect \/ SmSkip \/ SmScanned
    <2>1. smPc \in {"select", "scan"} /\ smPc' \in {"select", "scan"} /\ backlog' = <<>>
          /\ UNCHANGED <<flag, notify, everDied>>
      BY <1>00, <1>1 DEF SmSelect, SmSkip, SmScanned
    <2> QED
      BY <1>0, <2>1 DEF Flagged, Serving
  <1>2. CASE SmTakeTrain
    <2>1. smPc = "scan" /\ smPc' = "announce" /\ i' = i /\ i \in Stations /\ backlog' = <<>>
          /\ flag' = [flag EXCEPT ![i] = 1] /\ UNCHANGED <<notify, everDied>>
      BY <1>00, <1>2 DEF SmTakeTrain
    <2>2. \A s \in Stations : s # i => flag'[s] = flag[s]
      BY <2>1 DEF TypeOK
    <2> QED
      BY <1>0, <2>1, <2>2 DEF Flagged, Serving
  <1>3. CASE SmAnnounce \/ SmListen
    <2>1. smPc \in {"announce", "listen"} /\ smPc' \in {"announce", "listen", "accept"} /\ i' = i
          /\ backlog' = <<>> /\ UNCHANGED <<flag, notify, everDied>>
      BY <1>00, <1>3 DEF SmAnnounce, SmListen
    <2> QED
      BY <1>0, <2>1 DEF Flagged, Serving
  <1>4. CASE SmAccept
    <2>1. smPc = "accept" /\ smPc' = "sendfd" /\ i' = i /\ backlog # <<>> /\ notify' = 0
          /\ peer' = Head(backlog) /\ backlog' = Tail(backlog) /\ UNCHANGED <<flag, everDied>>
      BY <1>4 DEF SmAccept
    <2>2. 1 \in DOMAIN backlog /\ Head(backlog) = backlog[1] /\ DOMAIN Tail(backlog) = {}
      <3>1. backlog \in Seq(0..N) /\ Len(backlog) = 1
        BY <2>1 DEF TypeOK, Good, BacklogOK
      <3> QED
        BY <2>1, <3>1, HeadTailProperties
    <2> QED
      BY <1>0, <2>1, <2>2 DEF Flagged, Serving
  <1>5. CASE SmSendFd
    <2>1. smPc = "sendfd" /\ smPc' = "recv" /\ i' = i /\ peer # Gone
          /\ UNCHANGED <<flag, notify, everDied, peer, backlog>>
      BY <1>5 DEF SmSendFd
    <2> QED
      BY <1>0, <2>1 DEF Flagged, Serving
  <1>6. ASSUME SmDies PROVE Flagged'
    BY <1>6 DEF Flagged, SmDies
  <1>7. CASE SmNotified
    <2>1. smPc = "recv" /\ smPc' = "scan" /\ notify = i /\ notify' = 0 /\ backlog' = <<>>
          /\ flag' = [flag EXCEPT ![i] = 0] /\ everDied' = everDied
      BY <1>0, <1>00, <1>7 DEF SmNotified
    <2>2. \A s \in Stations : flag'[s] # 0 => s # i /\ flag[s] # 0
      BY <2>1 DEF TypeOK
    <2> QED
      BY <1>0, <2>1, <2>2 DEF Flagged
  <1>8. CASE SmUnnotified /\ ~SmDies
    <2>1. smPc = "recv" /\ smPc' = "scan" /\ notify' = 0 /\ peer = Gone /\ backlog' = <<>>
          /\ (flag' = flag \/ \E s \in Stations : flag' = [flag EXCEPT ![s] = 0])
          /\ everDied' = everDied
      BY <1>00, <1>8 DEF SmUnnotified
    <2>2. \A s \in Stations : flag'[s] # 0 => flag[s] # 0
      BY <2>1 DEF TypeOK
    <2> QED
      BY <1>0, <2>1, <2>2 DEF Flagged
  <1> QED
    BY <1>1, <1>2, <1>3, <1>4, <1>5, <1>6, <1>7, <1>8 DEF SmStep, SmSendFdFails

\* Only the platform of station i can be in the accept queue, be accepted or notify.
LEMMA FlaggedPlat ==
    ASSUME TypeOK, Good, Flagged, NEW p \in Stations,
           PlatStep(p) \/ KillPlat(p) \/ StartPlat(p), RailAssumption
    PROVE  Flagged'
  <1>0. p # Gone
    BY DEF Gone, Stations
  <1> USE DEF smVars, sockVars, failVars
  <1>1. ASSUME PlatDies(p), UNCHANGED <<flag, smPc, i, notify>>
        PROVE  Flagged'
    <2>1. /\ everDied' = everDied \cup {p} /\ peer' = (IF peer = p THEN Gone ELSE peer)
          /\ backlog' = [k \in DOMAIN backlog |-> IF backlog[k] = p THEN Gone ELSE backlog[k]]
      BY <1>1 DEF PlatDies
    <2>2. ASSUME NEW k \in DOMAIN backlog, backlog[k] = p PROVE i = p
      <3>1. platPc[p] = "recvfd" /\ smPc = "accept"
        BY <1>0, <2>2 DEF Good, BacklogOK, TypeOK
      <3> QED
        BY <3>1 DEF Good, Current, Invited
    <2>3. smPc \in {"sendfd", "recv"} /\ peer = p => i = p
      BY <1>0 DEF Good, PeerOK
    <2>4. \A k \in DOMAIN backlog' : backlog'[k] = Gone => i' \in everDied'
      BY <1>1, <2>1, <2>2 DEF Flagged
    <2>5. smPc' \in {"sendfd", "recv"} /\ peer' = Gone => i' \in everDied'
      BY <1>1, <2>1, <2>3 DEF Flagged
    <2> QED
      BY <1>1, <2>1, <2>4, <2>5 DEF Flagged, Serving
  <1>2. CASE PlatRefused(p) \/ PlatRecvNothing(p) \/ PlatReportFails(p) \/ KillPlat(p)
    BY <1>1, <1>2 DEF PlatRefused, PlatRecvNothing, PlatReportFails, KillPlat
  <1>3. CASE PlatReceive(p) \/ PlatRecvFd(p) \/ StartPlat(p)
    <2>1. UNCHANGED <<flag, smPc, i, notify, peer, backlog, everDied>>
      BY <1>3 DEF PlatReceive, PlatRecvFd, StartPlat
    <2> QED
      BY <2>1 DEF Flagged, Serving
  <1>4. CASE PlatConnect(p)
    <2>1. UNCHANGED <<flag, smPc, i, notify, peer, everDied>> /\ backlog' = Append(backlog, p)
      BY <1>4 DEF PlatConnect
    <2>2. \A k \in DOMAIN backlog' : \/ (k \in DOMAIN backlog /\ backlog'[k] = backlog[k])
                                     \/ backlog'[k] = p
      <3>1. backlog \in Seq(0..N)
        BY DEF TypeOK
      <3> QED
        BY <2>1, <3>1
    <2> QED
      BY <1>0, <2>1, <2>2 DEF Flagged, Serving
  <1>5. CASE PlatReport(p)
    <2>1. UNCHANGED <<flag, smPc, i, peer, backlog, everDied>> /\ notify' = p
          /\ platPc[p] = "report" /\ conn[p]
      BY <1>5 DEF PlatReport
    <2>2. i = p
      BY <2>1 DEF Good, Current, Invited, FdbufOK
    <2> QED
      BY <2>1, <2>2 DEF Flagged, Serving
  <1> QED
    BY <1>2, <1>3, <1>4, <1>5 DEF PlatStep

LEMMA FlaggedStep ==
    ASSUME TypeOK, Good, Flagged, [Next]_vars, smRestarts' = smRestarts, RailAssumption
    PROVE  Flagged'
  <1>1. ASSUME NEW t \in Trains, TrainArrive(t) \/ TrainRefused(t) PROVE Flagged'
    BY <1>1 DEF TrainArrive, TrainRefused, smVars, sockVars, failVars, Flagged, Serving
  <1>2. CASE KillSm
    BY <1>2 DEF KillSm, SmDies, Flagged
  <1>3. CASE UNCHANGED vars
    BY <1>3 DEF vars, smVars, sockVars, failVars, Flagged, Serving
  <1>4. ~StartSm
    BY DEF StartSm, TypeOK, RailAssumption
  <1> QED
    BY <1>1, <1>2, <1>3, <1>4, FlaggedSm, FlaggedPlat DEF Next

LEMMA WInductive ==
    ASSUME WInv, [Next]_vars
    PROVE  WInv'
  <1> USE RailAssumption
  <1>1. IInv' /\ TypeOK /\ TypeOK' /\ (smRestarts = 0 => Good)
    BY Inductive DEF WInv, IInv
  <1>2. Unkilled'
    BY <1>1, UnkilledStep DEF WInv
  <1>3. smRestarts' = 0 => Called' /\ Flagged'
    <2>1. smRestarts' \in {smRestarts, smRestarts + 1}
      BY DEF Next, vars, failVars, TrainArrive, TrainRefused, SmStep, SmSelect, SmSkip,
         SmScanned, SmTakeTrain, SmAnnounce, SmListen, SmAccept, SmSendFd,
         SmSendFdFails, SmNotified, SmUnnotified, PlatStep, PlatReceive, PlatConnect,
         PlatRefused, PlatRecvFd, PlatRecvNothing, PlatReport, PlatReportFails,
         KillSm, StartSm, KillPlat, StartPlat
    <2>2. smRestarts \in Nat
      BY <1>1 DEF TypeOK
    <2>3. smRestarts' = 0 => smRestarts = 0 /\ smRestarts' = smRestarts
      BY <2>1, <2>2
    <2> QED
      BY <1>1, <2>3, CalledStep, FlaggedStep DEF WInv
  <1> QED
    BY <1>1, <1>2, <1>3 DEF WInv

LEMMA WInvariance == Spec => []WInv
  <1>1. Init => WInv
    <2>1. SUFFICES ASSUME Init PROVE WInv
      OBVIOUS
    <2>2. Called /\ Unkilled /\ Flagged
      BY <2>1 DEF Init, Called, Summons, Unkilled, Flagged
    <2> QED
      BY <2>1, <2>2, Initially DEF WInv
  <1> QED
    BY <1>1, WInductive, PTL DEF Spec

\* As long as the station master is not restarted, it waits in the accept() of pass_fd()
\* only for a platform that was called and has yet to connect, or that has died.
THEOREM StuckTheorem == Spec => []StuckOnlyByDeath
  <1>1. WInv => StuckOnlyByDeath
    BY DEF WInv, Called, Summons, Calling, Calls, StuckOnlyByDeath
  <1> QED
    BY <1>1, WInvariance, PTL

\* Back in select(), a flag is set only after a kill and, as long as the station master is
\* not restarted, only for a station whose own platform died: the platform that notifies
\* is the one of the station that was flagged, and garbage for a notification sets none.
THEOREM FlagsTheorem == Spec => []FlagsFree
  <1>1. ASSUME WInv PROVE FlagsFree
    <2>1. SUFFICES ASSUME smPc = "select", NEW s \in Stations, flag[s] = 1
                   PROVE  kills > 0 /\ (smRestarts = 0 => s \in everDied)
      BY DEF FlagsFree
    <2>2. kills # 0
      BY <1>1, <2>1 DEF WInv, Unkilled, Serving
    <2>3. kills \in Nat
      BY <1>1 DEF WInv, IInv, TypeOK
    <2>4. smRestarts = 0 => s \in everDied
      BY <1>1, <2>1 DEF WInv, Flagged, Serving
    <2> QED
      BY <2>2, <2>3, <2>4
  <1> QED
    BY <1>1, WInvariance, PTL

=============================================================================

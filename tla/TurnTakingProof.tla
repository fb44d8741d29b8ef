--------------------------- MODULE TurnTakingProof ---------------------------
(* Proofs about TurnTaking, for every number of reads and every size of the queue  *)
(* and of the backlog.                                                             *)
EXTENDS TurnTaking, TLAPS

\* The strengthening. A connection the organiser knows nothing of holds nothing; what an
\* organiser has accepted, or still has to accept, was made after it listened, so that a
\* point whose connection is broken keeps it from serving; between SetChance and SendFd
\* the word is the organiser's; and SP1 spins on another word than 100.
Unused ==
    \A s \in Points :
        /\ sp[s] = "gone" => link[s] = "none"
        /\ link[s] \in {"none", "queued"} => sp[s] # "read" /\ fds[s] = 0

Waits ==
    \A s \in Points :
        /\ ~Listening(s) => stale[s] = 0 /\ link[s] # "queued"
        /\ link[s] \in {"failed", "eof"} =>
            /\ stale[s] = 0
            /\ o \in {"gone", "listen", "accept"}
            /\ o = "accept" /\ s = 1 => turn = 1

Word ==
    /\ o = "send" => chance = Own(turn)
    /\ sp[1] = "spin" => chance # 100

IInv == TypeOK /\ Unused /\ Waits /\ TurnHeld /\ Word

\* The words the organiser writes and the points answer with are all different.
LEMMA Words ==
    \A s \in Points :
      /\ Own(s) \in {0, 1} /\ Answer(s) \in {100, 200} /\ Other(s) \in Points
      /\ \A r \in Points : (Own(s) = Own(r) => s = r) /\ Own(s) # Answer(r)
      /\ (Answer(s) = 100 <=> s = 1)
      /\ (Other(s) = 1 <=> s = 2) /\ (Other(s) = 2 <=> s = 1)
  BY DEF Points, Own, Answer, Other

LEMMA TypeInit == Init => TypeOK
  <1> SUFFICES ASSUME Init PROVE TypeOK
    OBVIOUS
  <1>1. turn \in Points
    BY DEF Init, Points
  <1>2. link \in [Points -> Links] /\ sp \in [Points -> SPlaces]
    BY DEF Init, Links, SPlaces
  <1>3. /\ stale \in [Points -> Nat] /\ fds \in [Points -> Nat]
        /\ read \in [Points -> 0..Reads]
    BY TurnTakingAssumption DEF Init
  <1>4. QED
    BY <1>1, <1>2, <1>3 DEF Init, TypeOK, OPlaces

LEMMA TypeDies ==
    ASSUME TypeOK, Dies
    PROVE  TypeOK'
  <1>1. link' \in [Points -> Links]
    BY DEF TypeOK, Dies, Hangup, Links
  <1>2. QED
    BY <1>1 DEF TypeOK, Dies, OPlaces, service

\* The actions of the organiser and its thread; then those of a point; then the user's.
LEMMA TypeOrganiser ==
    ASSUME TypeOK, Organiser \/ Collector
    PROVE  TypeOK'
  <1> USE TurnTakingAssumption DEF TypeOK, service, socks
  <1>1. CASE Listen
    BY <1>1, Words DEF Listen, OPlaces
  <1>2. CASE Accept
    <2>1. link' \in [Points -> Links] /\ stale' \in [Points -> Nat]
      BY <1>2 DEF Accept, Links
    <2>2. QED
      BY <1>2, <2>1, Words DEF Accept, OPlaces
  <1>3. CASE CreateThread
    BY <1>3 DEF CreateThread, OPlaces
  <1>4. CASE SetChance
    BY <1>4, Words DEF SetChance, Chances, OPlaces
  <1>5. CASE SendFd
    BY <1>5 DEF SendFd, OPlaces
  <1>6. CASE SendBroken
    BY <1>6, TypeDies DEF SendBroken
  <1>7. CASE SpinEnds
    BY <1>7, Words DEF SpinEnds, OPlaces
  <1>8. CASE Bind
    BY <1>8 DEF Bind
  <1>9. CASE BindFails
    BY <1>9, TypeDies DEF BindFails
  <1>10. CASE PutInQueue
    BY <1>10 DEF PutInQueue
  <1>11. QED
    BY <1>1, <1>2, <1>3, <1>4, <1>5, <1>6, <1>7, <1>8, <1>9, <1>10
       DEF Organiser, Collector

LEMMA TypePoint ==
    ASSUME TypeOK, NEW s \in Points, Point(s)
    PROVE  TypeOK'
  <1> USE TurnTakingAssumption DEF TypeOK, Goto, socks, organiser, SPlaces
  <1>1. CASE MsgGet(s)
    BY <1>1 DEF MsgGet, Points
  <1>2. CASE If(s)
    BY <1>2 DEF If
  <1>3. CASE ElseIf(s)
    BY <1>3 DEF ElseIf
  <1>4. CASE Spin(s)
    BY <1>4 DEF Spin
  <1>5. CASE RecvFd(s)
    BY <1>5 DEF RecvFd
  <1>6. CASE ReadMessage(s)
    BY <1>6 DEF ReadMessage
  <1>7. CASE EndTurn(s)
    BY <1>7, Words DEF EndTurn, Chances
  <1>8. QED
    BY <1>1, <1>2, <1>3, <1>4, <1>5, <1>6, <1>7 DEF Point

LEMMA TypeUser ==
    ASSUME TypeOK, User
    PROVE  TypeOK'
  <1> USE TurnTakingAssumption DEF TypeOK, service, socks, organiser
  <1>1. CASE OStart
    BY <1>1 DEF OStart, OPlaces, Points
  <1>2. CASE KillOrganiser
    BY <1>2, TypeDies DEF KillOrganiser
  <1>3. CASE RemoveQueue
    BY <1>3 DEF RemoveQueue
  <1>4. ASSUME NEW s \in Points, Connect(s) PROVE TypeOK'
    <2>1. link' \in [Points -> Links]
      BY <1>4 DEF Connect, Links
    <2>2. QED
      BY <1>4, <2>1 DEF Connect, Goto, SPlaces
  <1>5. ASSUME NEW s \in Points, KillPoint(s) PROVE TypeOK'
    <2>1. link' \in [Points -> Links] /\ sp' \in [Points -> SPlaces]
      BY <1>5 DEF KillPoint, Links, SPlaces
    <2>2. stale' \in [Points -> Nat] /\ fds' \in [Points -> Nat]
      BY <1>5 DEF KillPoint
    <2>3. read' \in [Points -> 0..Reads]
      <3>1. 0 \in 0..Reads
        OBVIOUS
      <3>2. QED
        BY <1>5, <3>1, Zenon DEF KillPoint
    <2>4. holders' \subseteq 0..2
      BY <1>5, Zenon DEF KillPoint
    <2>5. UNCHANGED <<chance, turn, o, thread, raw, queue>>
      BY <1>5 DEF KillPoint
    <2>6. QED
      BY <2>1, <2>2, <2>3, <2>4, <2>5
  <1>6. QED
    BY <1>1, <1>2, <1>3, <1>4, <1>5 DEF User

LEMMA TypeStep ==
    ASSUME TypeOK, [Next]_vars
    PROVE  TypeOK'
  <1>1. CASE UNCHANGED vars
    BY <1>1 DEF vars, service, socks, TypeOK
  <1>2. QED
    BY <1>1, TypeOrganiser, TypePoint, TypeUser DEF Next

\* Type correctness, for whatever word and queue the last run left and whichever of the
\* processes is killed and started again.
THEOREM TurnTypes == Spec => []TypeOK
  BY TypeInit, TypeStep, PTL DEF Spec

-----------------------------------------------------------------------------

LEMMA InitIInv == Init => IInv
  <1> SUFFICES ASSUME Init PROVE IInv
    OBVIOUS
  <1>1. TypeOK
    BY TypeInit
  <1>2. Unused /\ Waits
    BY DEF Init, Unused, Waits
  <1>3. TurnHeld
    BY DEF Init, TurnHeld, Serving
  <1>4. Word
    BY DEF Init, Word, Points
  <1>5. QED
    BY <1>1, <1>2, <1>3, <1>4 DEF IInv

\* While the organiser does not wait for an answer, no point it has accepted holds or
\* uses a descriptor; and from pthread_create() on it has accepted all that do.
LEMMA Idle ==
    ASSUME IInv, o # "spin", NEW s \in Points, link[s] = "accepted"
    PROVE  fds[s] = 0 /\ sp[s] # "read"
  BY DEF IInv, TypeOK, TurnHeld

LEMMA Linked ==
    ASSUME IInv, o \in {"create", "set", "send", "spin"}, NEW s \in Points,
           sp[s] = "read" \/ fds[s] > 0
    PROVE  link[s] = "accepted"
  <1>1. link[s] \notin {"failed", "eof"}
    BY DEF IInv, Waits
  <1>2. link[s] \notin {"none", "queued"}
    BY DEF IInv, Unused
  <1>3. QED
    BY <1>1, <1>2 DEF IInv, TypeOK, Links

\* The death of the organiser, by whatever cause.
LEMMA DiesIInv ==
    ASSUME IInv, Dies
    PROVE  IInv'
  <1>0. TypeOK /\ TypeOK'
    BY TypeDies DEF IInv
  <1>1. \A s \in Points : /\ link'[s] \notin {"queued", "accepted"}
                          /\ link'[s] = "none" <=> link[s] = "none"
    BY <1>0 DEF Dies, Hangup, TypeOK
  <1>2. Unused'
    BY <1>1 DEF IInv, Dies, Unused, service
  <1>3. Waits'
    BY <1>0, <1>1 DEF Dies, Waits
  <1>4. TurnHeld'
    BY <1>1 DEF Dies, TurnHeld, Serving
  <1>5. Word'
    BY DEF IInv, Dies, Word, service
  <1>6. QED
    BY <1>0, <1>2, <1>3, <1>4, <1>5 DEF IInv

\* Steps that leave the points and their connections alone.
LEMMA OrganiserIInv ==
    ASSUME IInv, Organiser \/ Collector
    PROVE  IInv'
  <1>0. TypeOK /\ TypeOK'
    BY TypeOrganiser DEF IInv
  <1>1. CASE Listen
    <2>1. Unused' /\ Word'
      BY <1>1 DEF IInv, Listen, Unused, Word, service, socks
    <2>2. Waits'
      BY <1>0, <1>1, Words DEF IInv, Listen, Waits, Listening, TypeOK, socks
    <2>3. TurnHeld'
      BY <1>1, Idle DEF Listen, TurnHeld, Serving, service, socks
    <2>4. QED
      BY <1>0, <2>1, <2>2, <2>3 DEF IInv
  <1>2. CASE Accept
    <2>1. \A s \in Points : link'[s] # link[s] =>
              s = turn /\ link[s] = "queued" /\ link'[s] = "accepted"
      BY <1>0, <1>2 DEF Accept, TypeOK
    <2>2. Unused' /\ Word'
      BY <1>2, <2>1 DEF IInv, Accept, Unused, Word, service
    <2>3. \A s \in Points : link'[s] \in {"failed", "eof"} =>
              s # turn /\ link[s] = link'[s] /\ stale'[s] = stale[s]
      BY <1>0, <1>2, <2>1 DEF IInv, Accept, Waits, TypeOK
    <2>4. Waits'
      <3> SUFFICES ASSUME NEW s \in Points PROVE Waits!(s)'
        BY DEF Waits
      <3>1. Listening(s)'
        BY <1>2 DEF Accept, Listening
      <3>2. CASE link'[s] \in {"failed", "eof"}
        <4>1. s = 2 /\ turn = 1
          BY <1>0, <1>2, <2>3, <3>2 DEF IInv, Accept, Waits, TypeOK, Points
        <4>2. o' = "accept"
          BY <1>2, <4>1 DEF Accept
        <4>3. QED
          BY <2>3, <3>1, <3>2, <4>1, <4>2 DEF IInv, Waits
      <3>3. QED
        BY <3>1, <3>2
    <2>5. TurnHeld'
      BY <1>2, <2>1, <2>2, Idle DEF IInv, Unused, Accept, TurnHeld, Serving, service
    <2>6. QED
      BY <1>0, <2>2, <2>4, <2>5 DEF IInv
  <1>3. CASE CreateThread
    <2>1. Unused' /\ Word'
      BY <1>3 DEF IInv, CreateThread, Unused, Word, service, socks
    <2>2. Waits'
      BY <1>3 DEF IInv, CreateThread, Waits, Listening, socks
    <2>3. TurnHeld'
      BY <1>3, Idle, Linked DEF CreateThread, TurnHeld, service, socks
    <2>4. QED
      BY <1>0, <2>1, <2>2, <2>3 DEF IInv
  <1>4. CASE SetChance
    <2>1. Unused'
      BY <1>4 DEF IInv, SetChance, Unused, socks
    <2>2. Waits'
      BY <1>4 DEF IInv, SetChance, Waits, Listening, socks
    <2>3. TurnHeld'
      BY <1>4, Idle, Linked DEF SetChance, TurnHeld, socks
    <2>4. Word'
      BY <1>0, <1>4, Words DEF SetChance, Word, TypeOK
    <2>5. QED
      BY <1>0, <2>1, <2>2, <2>3, <2>4 DEF IInv
  <1>5. CASE SendFd
    <2>1. Unused' /\ Word'
      BY <1>0, <1>5 DEF IInv, SendFd, Unused, Word, socks, TypeOK
    <2>2. Waits'
      BY <1>5 DEF IInv, SendFd, Waits, Listening, socks
    <2>3. \A s \in Points : link[s] = "accepted" => sp[s] # "read" /\ fds[s] = 0
      BY <1>5, Idle DEF SendFd
    <2>4. \A s \in Points : link[s] = "accepted" =>
              fds'[s] = 0 \/ (fds'[s] = 1 /\ s = turn)
      BY <1>0, <1>5, <2>3 DEF SendFd, TypeOK
    <2>5. \A s \in Points : sp[s] # "read"
      BY <1>5, <2>3, Linked DEF SendFd
    <2>6. chance = Own(turn)
      BY <1>5 DEF IInv, Word, SendFd
    <2>7. TurnHeld'
      BY <1>5, <2>4, <2>5, <2>6 DEF SendFd, TurnHeld, socks
    <2>8. QED
      BY <1>0, <2>1, <2>2, <2>7 DEF IInv
  <1>6. CASE SendBroken
    BY <1>6, DiesIInv DEF SendBroken
  <1>7. CASE SpinEnds
    <2>1. Unused' /\ Word'
      BY <1>7 DEF IInv, SpinEnds, Unused, Word, service, socks
    <2>2. Waits'
      BY <1>7 DEF IInv, SpinEnds, Waits, Listening, socks
    <2>3. \A s \in Points : chance # Own(s)
      BY <1>0, <1>7, Words DEF SpinEnds, TypeOK
    <2>4. \A s \in Points : sp[s] # "read" /\ ~(fds[s] > 0)
      BY <1>7, <2>3, Linked DEF IInv, TurnHeld, SpinEnds
    <2>5. TurnHeld'
      BY <1>7, <2>4 DEF SpinEnds, TurnHeld, service, socks
    <2>6. QED
      BY <1>0, <2>1, <2>2, <2>5 DEF IInv
  <1>8. CASE Bind
    BY <1>0, <1>8 DEF IInv, Bind, Unused, Waits, Listening, TurnHeld, Serving, Word,
       service, socks
  <1>9. CASE BindFails
    BY <1>9, DiesIInv DEF BindFails
  <1>10. CASE PutInQueue
    BY <1>0, <1>10 DEF IInv, PutInQueue, Unused, Waits, Listening, TurnHeld, Serving,
       Word, service, socks
  <1>11. QED
    BY <1>1, <1>2, <1>3, <1>4, <1>5, <1>6, <1>7, <1>8, <1>9, <1>10
       DEF Organiser, Collector

\* A step of a point that neither enters nor leaves the loop of reads.
LEMMA QuietPoint ==
    ASSUME IInv, NEW s \in Points, sp[s] \notin {"gone", "read"},
           NEW to \in SPlaces \ {"gone", "read"}, sp' = [sp EXCEPT ![s] = to],
           UNCHANGED <<chance, socks, organiser, fds>>
    PROVE  Unused' /\ Waits' /\ TurnHeld'
  <1>0. \A r \in Points : /\ sp'[r] = "read" <=> sp[r] = "read"
                          /\ sp'[r] = "gone" <=> sp[r] = "gone"
    BY DEF IInv, TypeOK
  <1>1. Unused'
    BY <1>0 DEF IInv, Unused, socks
  <1>2. Waits'
    BY DEF IInv, Waits, Listening, socks, organiser
  <1>3. TurnHeld'
    BY <1>0 DEF IInv, TurnHeld, Serving, socks, organiser
  <1>4. QED
    BY <1>1, <1>2, <1>3

LEMMA PointIInv ==
    ASSUME IInv, NEW s \in Points, Point(s)
    PROVE  IInv'
  <1>0. TypeOK /\ TypeOK'
    BY TypePoint DEF IInv
  <1>1. CASE MsgGet(s)
    <2>1. Unused' /\ Waits' /\ TurnHeld'
      BY <1>1, QuietPoint DEF MsgGet, Goto, SPlaces
    <2>2. Word'
      BY <1>0, <1>1 DEF IInv, MsgGet, Goto, Word, TypeOK, Points, organiser
    <2>3. QED
      BY <1>0, <2>1, <2>2 DEF IInv
  <1>2. CASE If(s)
    <2>1. Unused' /\ Waits' /\ TurnHeld'
      BY <1>2, QuietPoint DEF If, Goto, SPlaces
    <2>2. Word'
      BY <1>0, <1>2 DEF IInv, If, Goto, Word, TypeOK, Points, organiser
    <2>3. QED
      BY <1>0, <2>1, <2>2 DEF IInv
  <1>3. CASE ElseIf(s)
    <2>1. Unused' /\ Waits' /\ TurnHeld'
      BY <1>3, QuietPoint DEF ElseIf, Goto, SPlaces
    <2>2. sp'[1] = "spin" => chance # 100
      <3>1. CASE s = 1
        BY <1>0, <1>3, <3>1, Words DEF ElseIf, Goto, TypeOK, Points
      <3>2. CASE s # 1
        BY <1>0, <1>3, <3>2 DEF IInv, Word, ElseIf, Goto, TypeOK, Points
      <3>3. QED
        BY <3>1, <3>2
    <2>3. Word'
      BY <1>3, <2>2 DEF IInv, ElseIf, Word, organiser
    <2>4. QED
      BY <1>0, <2>1, <2>3 DEF IInv
  <1>4. CASE Spin(s)
    <2>1. Unused' /\ Waits' /\ TurnHeld'
      BY <1>4, QuietPoint DEF Spin, Goto, SPlaces
    <2>2. Word'
      BY <1>0, <1>4 DEF IInv, Spin, Goto, Word, TypeOK, Points, organiser
    <2>3. QED
      BY <1>0, <2>1, <2>2 DEF IInv
  <1>5. CASE RecvFd(s)
    <2>1. /\ \A r \in Points : r # s => sp'[r] = sp[r] /\ fds'[r] = fds[r]
          /\ sp'[s] = "read"
      BY <1>0, <1>5 DEF RecvFd, Goto, TypeOK
    <2>2. link[s] \notin {"none", "queued"}
      BY <1>5 DEF IInv, Unused, RecvFd
    <2>3. Unused'
      BY <1>5, <2>1, <2>2 DEF IInv, Unused, RecvFd, socks
    <2>4. Waits'
      BY <1>5 DEF IInv, RecvFd, Waits, Listening, socks, organiser
    <2>5. link[s] = "accepted" =>
              /\ o = "spin" /\ turn = s /\ chance = Own(s)
              /\ fds'[s] = 0
      BY <1>0, <1>5 DEF IInv, RecvFd, TurnHeld, TypeOK
    <2>6. Serving => link[s] = "accepted"
      BY <1>0, <2>2 DEF IInv, Waits, Serving, TypeOK, Links
    <2>7. TurnHeld'
      BY <1>5, <2>1, <2>5, <2>6 DEF IInv, RecvFd, TurnHeld, Serving, socks, organiser
    <2>8. Word'
      BY <1>0, <1>5 DEF IInv, RecvFd, Goto, Word, TypeOK, Points, organiser
    <2>9. QED
      BY <1>0, <2>3, <2>4, <2>7, <2>8 DEF IInv
  <1>6. CASE ReadMessage(s)
    BY <1>0, <1>6 DEF IInv, ReadMessage, Unused, Waits, Listening, TurnHeld, Serving,
       Word, socks, organiser
  <1>7. CASE EndTurn(s)
    <2>1. \A r \in Points : /\ sp'[r] = "read" <=> sp[r] = "read" /\ r # s
                            /\ sp'[r] = "gone" => sp[r] = "gone"
      BY <1>0, <1>7 DEF EndTurn, Goto, TypeOK
    <2>2. Unused' /\ Waits'
      BY <1>7, <2>1 DEF IInv, EndTurn, Unused, Waits, Listening, socks, organiser
    <2>3. link[s] = "accepted" \/ ~Serving
      BY <1>7 DEF IInv, TurnHeld, EndTurn, Goto
    <2>4. o = "spin" \/ ~Serving
      BY <1>7, <2>3 DEF IInv, TurnHeld, EndTurn, Goto
    <2>5. \A r \in Points :
              link[r] = "accepted" => sp'[r] # "read" /\ ~(fds[r] > 0)
      <3> SUFFICES ASSUME NEW r \in Points, link[r] = "accepted",
                          sp'[r] = "read" \/ fds[r] > 0
                   PROVE  FALSE
        OBVIOUS
      <3>1. o = "spin" /\ turn = r
        BY <2>1 DEF IInv, TurnHeld
      <3>2. link[s] = "accepted"
        BY <2>3, <3>1 DEF Serving
      <3>3. turn = s /\ fds[s] = 0
        BY <1>7, <3>2 DEF IInv, TurnHeld, EndTurn, Goto
      <3>4. QED
        BY <2>1, <3>1, <3>3
    <2>6. Serving => sp'[1] # "read" /\ sp'[2] # "read"
      <3> SUFFICES ASSUME Serving, NEW r \in Points PROVE sp'[r] # "read"
        BY DEF Points
      <3>1. sp'[r] = "read" => link[r] = "accepted"
        BY <2>1 DEF IInv, TurnHeld
      <3>2. QED
        BY <2>5, <3>1
    <2>7. TurnHeld'
      BY <1>7, <2>5, <2>6 DEF EndTurn, TurnHeld, Serving, socks, organiser, Points
    <2>8. sp'[1] = "spin" => chance' # 100
      BY <1>0, <1>7, Words DEF EndTurn, Goto, TypeOK, Points
    <2>9. Word'
      BY <1>7, <2>4, <2>8 DEF EndTurn, Word, Serving, organiser
    <2>10. QED
      BY <1>0, <2>2, <2>7, <2>9 DEF IInv
  <1>8. QED
    BY <1>1, <1>2, <1>3, <1>4, <1>5, <1>6, <1>7 DEF Point

LEMMA UserIInv ==
    ASSUME IInv, User
    PROVE  IInv'
  <1>0. TypeOK /\ TypeOK'
    BY TypeUser DEF IInv
  <1>1. CASE OStart
    <2>1. Unused' /\ Word'
      BY <1>1 DEF IInv, OStart, Unused, Word, service, socks
    <2>2. Waits'
      BY <1>1 DEF IInv, OStart, Waits, Listening, socks
    <2>3. TurnHeld'
      BY <1>1, Idle DEF OStart, TurnHeld, Serving, service, socks
    <2>4. QED
      BY <1>0, <2>1, <2>2, <2>3 DEF IInv
  <1>2. CASE KillOrganiser
    BY <1>2, DiesIInv DEF KillOrganiser
  <1>3. CASE RemoveQueue
    BY <1>0, <1>3 DEF IInv, RemoveQueue, Unused, Waits, Listening, TurnHeld, Serving,
       Word, service, socks, organiser
  <1>4. ASSUME NEW s \in Points, Connect(s) PROVE IInv'
    <2>1. \A r \in Points : /\ sp'[r] = "read" <=> sp[r] = "read" /\ r # s
                            /\ sp'[r] = "gone" <=> sp[r] = "gone" /\ r # s
                            /\ r # s => link'[r] = link[r]
      BY <1>0, <1>4 DEF Connect, Goto, TypeOK
    <2>2. link'[s] = (IF Listening(s) THEN "queued" ELSE "failed") /\ sp[s] = "gone"
      BY <1>0, <1>4 DEF Connect, Goto, TypeOK
    <2>3. link[s] = "none" /\ fds[s] = 0 /\ link'[s] # "accepted"
      BY <2>2 DEF IInv, Unused
    <2>4. Unused'
      BY <1>4, <2>1, <2>2, <2>3 DEF IInv, Unused, Connect
    <2>5. Waits'
      <3>1. \A r \in Points : Listening(r)' <=> Listening(r)
        BY <1>4 DEF Connect, Listening, organiser
      <3>2. ~Listening(s) => o \in {"gone", "listen"} /\ stale[s] = 0
        BY DEF IInv, Waits, Listening
      <3>3. QED
        BY <1>4, <2>1, <2>2, <3>1, <3>2 DEF IInv, Waits, Connect, organiser
    <2>6. TurnHeld'
      BY <1>4, <2>1, <2>3 DEF IInv, TurnHeld, Serving, Connect, organiser
    <2>7. Word'
      BY <1>0, <1>4 DEF IInv, Connect, Goto, Word, TypeOK, Points, organiser
    <2>8. QED
      BY <1>0, <2>4, <2>5, <2>6, <2>7 DEF IInv
  <1>5. ASSUME NEW s \in Points, KillPoint(s) PROVE IInv'
    <2>1. \A r \in Points :
              IF r = s THEN sp'[r] = "gone" /\ link'[r] = "none" /\ fds'[r] = 0
                       ELSE sp'[r] = sp[r] /\ link'[r] = link[r] /\ fds'[r] = fds[r]
      BY <1>0, <1>5 DEF KillPoint, TypeOK
    <2>2. \A r \in Points : stale'[r] # stale[r] => r = s /\ link[r] = "queued"
      BY <1>0, <1>5 DEF KillPoint, TypeOK
    <2>3. Unused'
      BY <2>1 DEF IInv, Unused
    <2>4. Waits'
      <3>1. \A r \in Points : Listening(r)' <=> Listening(r)
        BY <1>5 DEF KillPoint, Listening, organiser
      <3>2. link[s] = "queued" => Listening(s)
        BY DEF IInv, Waits
      <3>3. QED
        BY <1>5, <2>1, <2>2, <3>1, <3>2 DEF IInv, Waits, KillPoint, organiser
    <2>5. TurnHeld'
      BY <1>5, <2>1 DEF IInv, TurnHeld, Serving, KillPoint, organiser
    <2>6. Word'
      BY <1>0, <1>5 DEF IInv, KillPoint, Word, TypeOK, Points, organiser
    <2>7. QED
      BY <1>0, <2>3, <2>4, <2>5, <2>6 DEF IInv
  <1>6. QED
    BY <1>1, <1>2, <1>3, <1>4, <1>5 DEF User

LEMMA StepIInv ==
    ASSUME IInv, [Next]_vars
    PROVE  IInv'
  <1>1. CASE UNCHANGED vars
    <2>1. TypeOK'
      BY <1>1, TypeStep DEF IInv
    <2>2. QED
      BY <1>1, <2>1 DEF IInv, vars, Unused, Waits, Listening, TurnHeld, Serving, Word,
         service, socks
  <1>2. QED
    BY <1>1, OrganiserIInv, PointIInv, UserIInv DEF Next

LEMMA Invariance == Spec => []IInv
  BY InitIInv, StepIInv, PTL DEF Spec

\* The turns exclude each other while an organiser serves: only the point it serves reads
\* messages, with the descriptor of that turn, whatever the last run left in the segment
\* and whichever process was killed and started again.
THEOREM TurnTheorem == Spec => []TurnHeld
  BY Invariance, PTL DEF IInv

\* SP1 never gets out of the spin of its second test (SP1.c:181) alive.
THEOREM CaughtTheorem == Spec => CaughtForGood
  <1>1. IInv /\ [Next]_vars => [sp[1] = "spin" => sp'[1] \in {"spin", "gone"}]_vars
    <2> SUFFICES ASSUME IInv, Next, sp[1] = "spin" PROVE sp'[1] \in {"spin", "gone"}
      BY DEF vars
    <2>0. TypeOK /\ chance # 100
      BY DEF IInv, Word
    <2>1. CASE Organiser
      BY <2>1 DEF Organiser, Listen, Accept, CreateThread, SetChance, SendFd, SendBroken,
         Dies, SpinEnds, service
    <2>2. CASE Collector
      BY <2>2 DEF Collector, Bind, BindFails, Dies, PutInQueue, service
    <2>3. ASSUME NEW s \in Points, Point(s) PROVE sp'[1] = "spin"
      <3>1. CASE s = 1
        BY <2>0, <2>3, <3>1
           DEF Point, MsgGet, If, ElseIf, Spin, RecvFd, ReadMessage, EndTurn, Goto
      <3>2. CASE s # 1
        BY <2>0, <2>3, <3>2
           DEF Point, MsgGet, If, ElseIf, Spin, RecvFd, ReadMessage, EndTurn, Goto,
               TypeOK, Points
      <3>3. QED
        BY <3>1, <3>2
    <2>4. CASE User
      <3>1. CASE OStart \/ KillOrganiser \/ RemoveQueue
        BY <3>1 DEF OStart, KillOrganiser, Dies, RemoveQueue, service
      <3>2. ASSUME NEW s \in Points, Connect(s) \/ KillPoint(s)
            PROVE  sp'[1] \in {"spin", "gone"}
        BY <2>0, <3>2 DEF Connect, Goto, KillPoint, TypeOK, Points
      <3>3. QED
        BY <2>4, <3>1, <3>2 DEF User
    <2>5. QED
      BY <2>1, <2>2, <2>3, <2>4 DEF Next
  <1>2. QED
    BY <1>1, Invariance, PTL DEF Spec, CaughtForGood
=============================================================================

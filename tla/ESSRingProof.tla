---------------------------- MODULE ESSRingProof ----------------------------
(***************************************************************************)
(* ESSRing: types, where the descriptor of a session is, which greeting is *)
(* answered, and how the ring closes.                                      *)
(***************************************************************************)
EXTENDS ESSRing, FiniteSetTheorems, SequenceTheorems, TLAPS

-----------------------------------------------------------------------------
(* Types *)

\* The points of main() before m->i is stored; a client past them is registered.
Early == {"new", "check", "slot", "num", "pid", "inc", "store"}
Registered == {c \in Clients : pc[c] \notin Early}
\* A client adds one to what it loaded: m->i is never above the number of those who stored.
Counted ==
    /\ mi <= Cardinality(Registered)
    /\ \A c \in Clients : tmp[c] <= Cardinality(Registered)

LEMMA Numbers ==
    /\ Cardinality(Clients) \in Nat
    /\ Cardinality(Registered) \in Nat
    /\ Cardinality(Registered) <= Cardinality(Clients)
    /\ \A c \in Clients : c \notin Registered => Cardinality(Registered) < Cardinality(Clients)
  <1>1. IsFiniteSet(Clients)
    BY ESSRingAssumption
  <1>2. Registered \subseteq Clients
    BY DEF Registered
  <1>3. /\ Cardinality(Clients) \in Nat
        /\ Cardinality(Registered) \in Nat
        /\ Cardinality(Registered) <= Cardinality(Clients)
    BY <1>1, <1>2, FS_Subset, FS_CardinalityType
  <1>4. ASSUME NEW c \in Clients, c \notin Registered
        PROVE  Cardinality(Registered) # Cardinality(Clients)
    BY <1>1, <1>2, <1>4, FS_Subset
  <1> QED BY <1>3, <1>4

\* The type invariant by the part of the system it is about.
TableTypes ==
    /\ cast \in SUBSET Clients /\ sequential \in BOOLEAN /\ shm \in {"none", "init", "client"}
    /\ mi \in 0..Cardinality(Clients)
    /\ cliNum \in [Slots -> Clients \cup {NoOne}] /\ pids \in [Slots -> Clients \cup {NoOne}]
ClientTypes ==
    /\ pc \in [Clients -> PCs] /\ idx \in [Clients -> Slots] /\ right \in [Clients -> Slots]
    /\ flag1 \in [Clients -> BOOLEAN] /\ flag2 \in [Clients -> BOOLEAN]
    /\ tmp \in [Clients -> 0..Cardinality(Clients)]
SignalTypes ==
    /\ handles \in [Clients -> SUBSET {"USR1", "USR2"}]
    /\ pending \in [Clients -> SUBSET {"USR1", "USR2"}]
    /\ sender \in [Clients -> Clients \cup {NoOne}]
FdTypes ==
    /\ usfd \in [Clients -> Fds]
    /\ accq \in [Clients -> Seq(Conns)] /\ cur \in [Clients -> Conns]
    /\ stray \in [Clients -> SUBSET Conns]
EssTypes ==
    /\ served \in Fds /\ essPc \in {"accept", "write", "read", "dead"}
    /\ greets \in 0..MaxGreets /\ replies \in BOOLEAN
    /\ failed \subseteq {"accept", "recvfd", "read", "connect", "listen"}

Typed == TableTypes /\ ClientTypes /\ SignalTypes /\ FdTypes /\ EssTypes

LEMMA Parts == TypeOK <=> Typed
  BY DEF TypeOK, Typed, TableTypes, ClientTypes, SignalTypes, FdTypes, EssTypes

LEMMA Signalled ==
    ASSUME SignalTypes, NEW c \in Clients, NEW T, NEW sig \in {"USR1", "USR2"},
           Signal(c, T, sig), handles' = handles
    PROVE  SignalTypes'
  BY DEF Signal, SignalTypes

\* A client that has not stored m->i yet finds a slot for itself.
LEMMA RoomInTable ==
    ASSUME TableTypes, ClientTypes, Counted, NEW c \in Clients, pc[c] \in Early
    PROVE  /\ mi \in Slots /\ mi \in 0..Cardinality(Clients)
           /\ tmp[c] + 1 \in 0..Cardinality(Clients)
  <1>1. c \notin Registered
    BY DEF Registered
  <1>2. /\ Cardinality(Clients) \in Nat /\ Cardinality(Registered) \in Nat
        /\ Cardinality(Registered) < Cardinality(Clients)
    BY <1>1, Numbers
  <1>3. mi \in 0..Cardinality(Clients) /\ tmp[c] \in 0..Cardinality(Clients)
        /\ mi <= Cardinality(Registered) /\ tmp[c] <= Cardinality(Registered)
    BY DEF TableTypes, ClientTypes, Counted
  <1> QED BY <1>2, <1>3 DEF Slots

\* Every step keeps the types.
LEMMA TypesStep ==
    ASSUME Typed, Counted, Next
    PROVE  Typed'
  <1> USE DEF Goto, setup, table, own, sigs, conns, ess
  <1>0. TableTypes /\ ClientTypes /\ SignalTypes /\ FdTypes /\ EssTypes
    BY DEF Typed
  <1>1. ASSUME NEW c \in Clients, Launch(c) PROVE Typed'
    <2>1. TableTypes'
      BY <1>0, <1>1 DEF Launch, TableTypes
    <2>2. ClientTypes'
      BY <1>0, <1>1 DEF Launch, ClientTypes, PCs, Registering, Turn
    <2>3. SignalTypes' /\ FdTypes' /\ EssTypes'
      BY <1>0, <1>1 DEF Launch, SignalTypes, FdTypes, EssTypes
    <2> QED BY <2>1, <2>2, <2>3 DEF Typed
  <1>2. ASSUME NEW c \in Clients, Check(c) PROVE Typed'
    <2>1. ClientTypes'
      BY <1>0, <1>2 DEF Check, ClientTypes, PCs, Registering, Turn
    <2>2. TableTypes' /\ SignalTypes' /\ FdTypes' /\ EssTypes'
      BY <1>0, <1>2 DEF Check, TableTypes, SignalTypes, FdTypes, EssTypes
    <2> QED BY <2>1, <2>2 DEF Typed
  <1>3. ASSUME NEW c \in Clients, TakeSlot(c) PROVE Typed'
    <2>1. TableTypes'
      <3>1. mi' = mi \/ mi' = 0
        BY <1>3 DEF TakeSlot
      <3> QED BY <1>0, <1>3, <3>1, Numbers DEF TakeSlot, TableTypes
    <2>2. ClientTypes'
      <3>1. mi \in Slots
        BY <1>0, <1>3, RoomInTable DEF TakeSlot, Early
      <3> QED BY <1>0, <1>3, <3>1 DEF TakeSlot, ClientTypes, PCs, Registering, Turn
    <2>3. SignalTypes' /\ FdTypes' /\ EssTypes'
      BY <1>0, <1>3 DEF TakeSlot, SignalTypes, FdTypes, EssTypes
    <2> QED BY <2>1, <2>2, <2>3 DEF Typed
  <1>4. ASSUME NEW c \in Clients, PutNumber(c) PROVE Typed'
    <2>1. TableTypes'
      BY <1>0, <1>4 DEF PutNumber, TableTypes
    <2>2. ClientTypes'
      BY <1>0, <1>4 DEF PutNumber, ClientTypes, PCs, Registering, Turn
    <2>3. SignalTypes' /\ FdTypes' /\ EssTypes'
      BY <1>0, <1>4 DEF PutNumber, SignalTypes, FdTypes, EssTypes
    <2> QED BY <2>1, <2>2, <2>3 DEF Typed
  <1>5. ASSUME NEW c \in Clients, PutPid(c) PROVE Typed'
    <2>1. TableTypes'
      BY <1>0, <1>5 DEF PutPid, TableTypes
    <2>2. ClientTypes'
      BY <1>0, <1>5 DEF PutPid, ClientTypes, PCs, Registering, Turn
    <2>3. SignalTypes' /\ FdTypes' /\ EssTypes'
      BY <1>0, <1>5 DEF PutPid, SignalTypes, FdTypes, EssTypes
    <2> QED BY <2>1, <2>2, <2>3 DEF Typed
  <1>6. ASSUME NEW c \in Clients, LoadI(c) PROVE Typed'
    <2>1. ClientTypes'
      <3>1. mi \in 0..Cardinality(Clients)
        BY <1>0 DEF TableTypes
      <3> QED BY <1>0, <1>6, <3>1 DEF LoadI, ClientTypes, PCs, Registering, Turn
    <2>2. TableTypes' /\ SignalTypes' /\ FdTypes' /\ EssTypes'
      BY <1>0, <1>6 DEF LoadI, TableTypes, SignalTypes, FdTypes, EssTypes
    <2> QED BY <2>1, <2>2 DEF Typed
  <1>7. ASSUME NEW c \in Clients, StoreI(c) PROVE Typed'
    <2>1. TableTypes'
      <3>1. mi' \in 0..Cardinality(Clients)
        BY <1>0, <1>7, RoomInTable DEF StoreI, Early
      <3> QED BY <1>0, <1>7, <3>1 DEF StoreI, TableTypes
    <2>2. ClientTypes'
      <3>1. 0 \in 0..Cardinality(Clients)
        BY Numbers
      <3> QED BY <1>0, <1>7, <3>1 DEF StoreI, ClientTypes, PCs, Registering, Turn
    <2>3. SignalTypes' /\ FdTypes' /\ EssTypes'
      BY <1>0, <1>7 DEF StoreI, SignalTypes, FdTypes, EssTypes
    <2> QED BY <2>1, <2>2, <2>3 DEF Typed
  <1>8. ASSUME NEW c \in Clients, BindListen(c) PROVE Typed'
    <2>1. ClientTypes'
      BY <1>0, <1>8 DEF BindListen, ClientTypes, PCs, Registering, Turn
    <2>2. TableTypes' /\ SignalTypes' /\ FdTypes' /\ EssTypes'
      BY <1>0, <1>8 DEF BindListen, TableTypes, SignalTypes, FdTypes, EssTypes
    <2> QED BY <2>1, <2>2 DEF Typed
  <1>9. ASSUME NEW c \in Clients, Install(c) PROVE Typed'
    <2>1. ClientTypes'
      BY <1>0, <1>9 DEF Install, ClientTypes, PCs, Registering, Turn
    <2>2. SignalTypes'
      BY <1>0, <1>9 DEF Install, SignalTypes
    <2>3. TableTypes' /\ FdTypes' /\ EssTypes'
      BY <1>0, <1>9 DEF Install, TableTypes, FdTypes, EssTypes
    <2> QED BY <2>1, <2>2, <2>3 DEF Typed
  <1>10. ASSUME NEW c \in Clients, TellLeft(c) PROVE Typed'
    <2>1. ClientTypes'
      BY <1>0, <1>10 DEF TellLeft, ClientTypes, PCs, Registering, Turn
    <2>2. SignalTypes'
      <3>1. handles' = handles
        BY <1>10 DEF TellLeft
      <3>2. CASE flag1[c]
        BY <1>0, <1>10, <3>1, <3>2, Signalled DEF TellLeft
      <3>3. CASE ~flag1[c]
        BY <1>0, <1>10, <3>1, <3>3 DEF TellLeft, SignalTypes
      <3> QED BY <3>2, <3>3
    <2>3. TableTypes' /\ FdTypes' /\ EssTypes'
      BY <1>0, <1>10 DEF TellLeft, TableTypes, FdTypes, EssTypes
    <2> QED BY <2>1, <2>2, <2>3 DEF Typed
  <1>26. ASSUME NEW c \in Clients, TellRight(c) PROVE Typed'
    <2>1. ClientTypes'
      BY <1>0, <1>26 DEF TellRight, ClientTypes, PCs, Registering, Turn
    <2>2. SignalTypes'
      BY <1>0, <1>26, Signalled DEF TellRight
    <2>3. TableTypes' /\ FdTypes' /\ EssTypes'
      BY <1>0, <1>26 DEF TellRight, TableTypes, FdTypes, EssTypes
    <2> QED BY <2>1, <2>2, <2>3 DEF Typed
  <1>27. ASSUME NEW c \in Clients, WriteBroken(c) PROVE Typed'
    <2>1. ClientTypes'
      BY <1>0, <1>27 DEF WriteBroken, End, ClientTypes, PCs, Registering, Turn
    <2>2. SignalTypes'
      BY <1>0, <1>27 DEF WriteBroken, End, SignalTypes
    <2>3. FdTypes'
      BY <1>0, <1>27 DEF WriteBroken, End, FdTypes, Fds, Conns
    <2>4. EssTypes'
      BY <1>0, <1>27 DEF WriteBroken, End, EssTypes, Fds
    <2>5. TableTypes'
      BY <1>0, <1>27 DEF WriteBroken, End, TableTypes
    <2> QED BY <2>1, <2>2, <2>3, <2>4, <2>5 DEF Typed
  <1>11. ASSUME NEW c \in Clients, BeginTurn(c) PROVE Typed'
    <2>1. ClientTypes'
      BY <1>0, <1>11 DEF BeginTurn, ClientTypes, PCs, Registering, Turn
    <2>2. FdTypes'
      BY <1>0, <1>11 DEF BeginTurn, FdTypes, Fds, Conns
    <2>3. EssTypes'
      BY <1>0, <1>11 DEF BeginTurn, EssTypes, Fds
    <2>4. TableTypes' /\ SignalTypes'
      BY <1>0, <1>11 DEF BeginTurn, TableTypes, SignalTypes
    <2> QED BY <2>1, <2>2, <2>3, <2>4 DEF Typed
  <1>12. ASSUME NEW c \in Clients, Accept(c) PROVE Typed'
    <2>1. ClientTypes'
      BY <1>0, <1>12 DEF Accept, ClientTypes, PCs, Registering, Turn
    <2>2. FdTypes'
      BY <1>0, <1>12 DEF Accept, FdTypes, Fds, Conns
    <2>3. TableTypes' /\ SignalTypes' /\ EssTypes'
      BY <1>0, <1>12 DEF Accept, TableTypes, SignalTypes, EssTypes
    <2> QED BY <2>1, <2>2, <2>3 DEF Typed
  <1>13. ASSUME NEW c \in Clients, RecvFd(c) PROVE Typed'
    <2>1. ClientTypes'
      BY <1>0, <1>13 DEF RecvFd, ClientTypes, PCs, Registering, Turn
    <2>2. FdTypes'
      BY <1>0, <1>13 DEF RecvFd, FdTypes, Fds, Conns
    <2>3. TableTypes' /\ SignalTypes' /\ EssTypes'
      BY <1>0, <1>13 DEF RecvFd, TableTypes, SignalTypes, EssTypes
    <2> QED BY <2>1, <2>2, <2>3 DEF Typed
  <1>14. ASSUME NEW c \in Clients, ReadGreeting(c) PROVE Typed'
    <2>1. ClientTypes'
      BY <1>0, <1>14 DEF ReadGreeting, ClientTypes, PCs, Registering, Turn
    <2>2. EssTypes'
      <3>1. greets' = greets \/ (greets > 0 /\ greets' = greets - 1)
        BY <1>14 DEF ReadGreeting
      <3>2. greets \in 0..MaxGreets /\ MaxGreets \in Nat
        BY <1>0, ESSRingAssumption DEF EssTypes
      <3>3. greets' \in 0..MaxGreets
        BY <3>1, <3>2
      <3> QED BY <1>0, <1>14, <3>3 DEF ReadGreeting, EssTypes
    <2>3. TableTypes' /\ SignalTypes' /\ FdTypes'
      BY <1>0, <1>14 DEF ReadGreeting, TableTypes, SignalTypes, FdTypes
    <2> QED BY <2>1, <2>2, <2>3 DEF Typed
  <1>15. ASSUME NEW c \in Clients, WriteReply(c) PROVE Typed'
    <2>1. ClientTypes'
      BY <1>0, <1>15 DEF WriteReply, ClientTypes, PCs, Registering, Turn
    <2>2. EssTypes'
      BY <1>0, <1>15 DEF WriteReply, EssTypes, Fds
    <2>3. TableTypes' /\ SignalTypes' /\ FdTypes'
      BY <1>0, <1>15 DEF WriteReply, TableTypes, SignalTypes, FdTypes
    <2> QED BY <2>1, <2>2, <2>3 DEF Typed
  <1>16. ASSUME NEW c \in Clients, SignalNext(c) PROVE Typed'
    <2>1. ClientTypes'
      BY <1>0, <1>16 DEF SignalNext, ClientTypes, PCs, Registering, Turn
    <2>2. SignalTypes'
      BY <1>0, <1>16, Signalled DEF SignalNext
    <2>3. TableTypes' /\ FdTypes' /\ EssTypes'
      BY <1>0, <1>16 DEF SignalNext, TableTypes, FdTypes, EssTypes
    <2> QED BY <2>1, <2>2, <2>3 DEF Typed
  <1>17. ASSUME NEW c \in Clients, Connect(c) PROVE Typed'
    <2>1. ClientTypes'
      BY <1>0, <1>17 DEF Connect, ClientTypes, PCs, Registering, Turn
    <2>2. FdTypes'
      <3>1. Open(c) \in Conns /\ accq \in [Clients -> Seq(Conns)]
        BY <1>0 DEF Conns, FdTypes
      <3>2. \A d \in Clients : Append(accq[d], Open(c)) \in Seq(Conns)
        BY <3>1
      <3>3. accq' = accq \/ \E d : accq' = [accq EXCEPT ![d] = Append(@, Open(c))]
        BY <1>17 DEF Connect
      <3>4. accq' \in [Clients -> Seq(Conns)]
        BY <3>1, <3>2, <3>3
      <3> QED BY <1>0, <1>17, <3>4 DEF Connect, FdTypes
    <2>3. EssTypes'
      BY <1>0, <1>17 DEF Connect, EssTypes, Fds
    <2>4. TableTypes' /\ SignalTypes'
      BY <1>0, <1>17 DEF Connect, TableTypes, SignalTypes
    <2> QED BY <2>1, <2>2, <2>3, <2>4 DEF Typed
  <1>18. ASSUME NEW c \in Clients, SendFd(c) PROVE Typed'
    <2>1. ClientTypes'
      BY <1>0, <1>18 DEF SendFd, ClientTypes, PCs, Registering, Turn
    <2>2. FdTypes'
      <3> DEFINE Of(x) == IF x = Open(c) THEN usfd[c] ELSE x
      <3>1. /\ accq \in [Clients -> Seq(Conns)] /\ cur \in [Clients -> Conns]
            /\ stray \in [Clients -> SUBSET Conns] /\ usfd \in [Clients -> Fds]
            /\ Fds \subseteq Conns /\ Bad \in Fds
        BY <1>0 DEF FdTypes, Conns, Fds
      <3>2. /\ accq' = [d \in Clients |-> [n \in DOMAIN accq[d] |-> Of(accq[d][n])]]
            /\ cur' = [d \in Clients |-> Of(cur[d])]
            /\ stray' = [d \in Clients |-> {Of(x) : x \in stray[d]}]
            /\ usfd' = [usfd EXCEPT ![c] = Bad]
        BY <1>18 DEF SendFd
      <3>3. \A x \in Conns : Of(x) \in Conns
        BY <3>1
      <3> HIDE DEF Of
      <3>4. accq' \in [Clients -> Seq(Conns)]
        <4>1. ASSUME NEW d \in Clients
              PROVE  [n \in DOMAIN accq[d] |-> Of(accq[d][n])] \in Seq(Conns)
          <5>1. accq[d] \in Seq(Conns)
            BY <3>1
          <5>2. Len(accq[d]) \in Nat /\ DOMAIN accq[d] = 1..Len(accq[d])
            BY <5>1
          <5>3. \A n \in 1..Len(accq[d]) : accq[d][n] \in Conns
            BY <5>1
          <5> QED BY <3>3, <5>2, <5>3
        <4> QED BY <3>2, <4>1
      <3>5. cur' \in [Clients -> Conns] /\ stray' \in [Clients -> SUBSET Conns]
              /\ usfd' \in [Clients -> Fds]
        BY <3>1, <3>2, <3>3
      <3> QED BY <3>4, <3>5 DEF FdTypes
    <2>3. TableTypes' /\ SignalTypes' /\ EssTypes'
      BY <1>0, <1>18 DEF SendFd, TableTypes, SignalTypes, EssTypes
    <2> QED BY <2>1, <2>2, <2>3 DEF Typed
  <1>19. ASSUME NEW c \in Clients, SendBroken(c) PROVE Typed'
    <2>1. ClientTypes'
      BY <1>0, <1>19 DEF SendBroken, End, ClientTypes, PCs, Registering, Turn
    <2>2. SignalTypes'
      BY <1>0, <1>19 DEF SendBroken, End, SignalTypes
    <2>3. FdTypes'
      BY <1>0, <1>19 DEF SendBroken, End, FdTypes, Fds, Conns
    <2>4. EssTypes'
      BY <1>0, <1>19 DEF SendBroken, End, EssTypes, Fds
    <2>5. TableTypes'
      BY <1>0, <1>19 DEF SendBroken, End, TableTypes
    <2> QED BY <2>1, <2>2, <2>3, <2>4, <2>5 DEF Typed
  <1>20. ASSUME NEW c \in Clients, CloseFd(c) PROVE Typed'
    <2>1. ClientTypes'
      BY <1>0, <1>20 DEF CloseFd, ClientTypes, PCs, Registering, Turn
    <2>2. FdTypes'
      BY <1>0, <1>20 DEF CloseFd, FdTypes, Fds, Conns
    <2>3. TableTypes' /\ SignalTypes' /\ EssTypes'
      BY <1>0, <1>20 DEF CloseFd, TableTypes, SignalTypes, EssTypes
    <2> QED BY <2>1, <2>2, <2>3 DEF Typed
  <1>21. ASSUME NEW c \in Clients, NEW sig \in {"USR1", "USR2"}, Deliver(c, sig) PROVE Typed'
    <2>1. ClientTypes'
      <3>1. right' \in [Clients -> Slots]
        <4>1. NewRight(c, sender[c]) \in Slots
          BY <1>0 DEF NewRight, ClientTypes
        <4>2. right' = right \/ right' = [right EXCEPT ![c] = NewRight(c, sender[c])]
          BY <1>21 DEF Deliver
        <4> QED BY <1>0, <4>1, <4>2 DEF ClientTypes
      <3>2. pc' \in [Clients -> PCs]
        <4>1. pc[c] \in {"accept", "recvfd", "read", "connect"} \/ ~Blocked(c)
          BY DEF Blocked
        <4>2. CASE UNCHANGED pc
          BY <1>0, <4>2 DEF ClientTypes
        <4>3. CASE Blocked(c) /\ Interrupt(c)
          BY <1>0, <4>1, <4>3 DEF Interrupt, ClientTypes, PCs, Turn
        <4> QED BY <1>21, <4>2, <4>3 DEF Deliver
      <3>3. flag2' \in [Clients -> BOOLEAN]
        BY <1>0, <1>21 DEF Deliver, ClientTypes
      <3> QED BY <1>0, <1>21, <3>1, <3>2, <3>3 DEF Deliver, ClientTypes
    <2>2. SignalTypes'
      BY <1>0, <1>21 DEF Deliver, Interrupt, SignalTypes
    <2>3. FdTypes'
      BY <1>0, <1>21 DEF Deliver, Interrupt, FdTypes, Fds, Conns
    <2>4. EssTypes'
      <3>1. failed' = failed \/ (Blocked(c) /\ failed' = failed \cup {pc[c]})
        BY <1>21 DEF Deliver, Interrupt
      <3>2. failed' \subseteq {"accept", "recvfd", "read", "connect", "listen"}
        BY <1>0, <3>1 DEF EssTypes, Blocked
      <3> QED BY <1>0, <1>21, <3>2 DEF Deliver, EssTypes
    <2>5. TableTypes'
      BY <1>0, <1>21 DEF Deliver, Interrupt, TableTypes
    <2> QED BY <2>1, <2>2, <2>3, <2>4, <2>5 DEF Typed
  <1>22. ASSUME NEW c \in Clients, NEW sig \in {"USR1", "USR2"}, Killed(c, sig) PROVE Typed'
    <2>1. ClientTypes'
      BY <1>0, <1>22 DEF Killed, End, ClientTypes, PCs, Registering, Turn
    <2>2. SignalTypes'
      BY <1>0, <1>22 DEF Killed, End, SignalTypes
    <2>3. FdTypes'
      BY <1>0, <1>22 DEF Killed, End, FdTypes, Fds, Conns
    <2>4. EssTypes'
      BY <1>0, <1>22 DEF Killed, End, EssTypes, Fds
    <2>5. TableTypes'
      BY <1>0, <1>22 DEF Killed, End, TableTypes
    <2> QED BY <2>1, <2>2, <2>3, <2>4, <2>5 DEF Typed
  <1>23. ASSUME Greet PROVE Typed'
    <2>1. EssTypes'
      <3>1. greets' \in 0..MaxGreets
        BY <1>0, <1>23, ESSRingAssumption DEF Greet, EssTypes
      <3> QED BY <1>0, <1>23, <3>1 DEF Greet, EssTypes
    <2>2. TableTypes' /\ ClientTypes' /\ SignalTypes' /\ FdTypes'
      BY <1>0, <1>23 DEF Greet, TableTypes, ClientTypes, SignalTypes, FdTypes
    <2> QED BY <2>1, <2>2 DEF Typed
  <1>24. ASSUME TakeReply PROVE Typed'
    <2>1. EssTypes'
      BY <1>0, <1>24 DEF TakeReply, EssTypes, Fds
    <2>2. TableTypes' /\ ClientTypes' /\ SignalTypes' /\ FdTypes'
      BY <1>0, <1>24 DEF TakeReply, TableTypes, ClientTypes, SignalTypes, FdTypes
    <2> QED BY <2>1, <2>2 DEF Typed
  <1>25. ASSUME SessionClosed PROVE Typed'
    <2>1. EssTypes'
      BY <1>0, <1>25 DEF SessionClosed, EssTypes, Fds
    <2>2. TableTypes' /\ ClientTypes' /\ SignalTypes' /\ FdTypes'
      BY <1>0, <1>25 DEF SessionClosed, TableTypes, ClientTypes, SignalTypes, FdTypes
    <2> QED BY <2>1, <2>2 DEF Typed
  <1> QED
    BY <1>1, <1>2, <1>3, <1>4, <1>5, <1>6, <1>7, <1>8, <1>9, <1>10, <1>11, <1>12, <1>13, <1>14,
       <1>15, <1>16, <1>17, <1>18, <1>19, <1>20, <1>21, <1>22, <1>23, <1>24, <1>25, <1>26, <1>27
    DEF Next, ClientStep

\* A client that has stored m->i never comes back to a point before it.
LEMMA Onward ==
    ASSUME Typed, Next
    PROVE  Registered \subseteq Registered'
  <1> USE DEF Typed, ClientTypes, Registered, Early, Goto
  <1>1. ASSUME NEW c \in Clients, Launch(c) PROVE Registered \subseteq Registered'
    BY <1>1 DEF Launch
  <1>2. ASSUME NEW c \in Clients, Check(c) PROVE Registered \subseteq Registered'
    BY <1>2 DEF Check
  <1>3. ASSUME NEW c \in Clients, TakeSlot(c) PROVE Registered \subseteq Registered'
    BY <1>3 DEF TakeSlot
  <1>4. ASSUME NEW c \in Clients, PutNumber(c) PROVE Registered \subseteq Registered'
    BY <1>4 DEF PutNumber
  <1>5. ASSUME NEW c \in Clients, PutPid(c) PROVE Registered \subseteq Registered'
    BY <1>5 DEF PutPid
  <1>6. ASSUME NEW c \in Clients, LoadI(c) PROVE Registered \subseteq Registered'
    BY <1>6 DEF LoadI
  <1>7. ASSUME NEW c \in Clients, StoreI(c) PROVE Registered \subseteq Registered'
    BY <1>7 DEF StoreI
  <1>8. ASSUME NEW c \in Clients, BindListen(c) PROVE Registered \subseteq Registered'
    BY <1>8 DEF BindListen
  <1>9. ASSUME NEW c \in Clients, Install(c) PROVE Registered \subseteq Registered'
    BY <1>9 DEF Install
  <1>10. ASSUME NEW c \in Clients, TellLeft(c) PROVE Registered \subseteq Registered'
    BY <1>10 DEF TellLeft
  <1>26. ASSUME NEW c \in Clients, TellRight(c) PROVE Registered \subseteq Registered'
    BY <1>26 DEF TellRight
  <1>27. ASSUME NEW c \in Clients, WriteBroken(c) PROVE Registered \subseteq Registered'
    BY <1>27 DEF WriteBroken, End
  <1>11. ASSUME NEW c \in Clients, BeginTurn(c) PROVE Registered \subseteq Registered'
    BY <1>11 DEF BeginTurn
  <1>12. ASSUME NEW c \in Clients, Accept(c) PROVE Registered \subseteq Registered'
    BY <1>12 DEF Accept
  <1>13. ASSUME NEW c \in Clients, RecvFd(c) PROVE Registered \subseteq Registered'
    BY <1>13 DEF RecvFd
  <1>14. ASSUME NEW c \in Clients, ReadGreeting(c) PROVE Registered \subseteq Registered'
    BY <1>14 DEF ReadGreeting
  <1>15. ASSUME NEW c \in Clients, WriteReply(c) PROVE Registered \subseteq Registered'
    BY <1>15 DEF WriteReply
  <1>16. ASSUME NEW c \in Clients, SignalNext(c) PROVE Registered \subseteq Registered'
    BY <1>16 DEF SignalNext
  <1>17. ASSUME NEW c \in Clients, Connect(c) PROVE Registered \subseteq Registered'
    BY <1>17 DEF Connect
  <1>18. ASSUME NEW c \in Clients, SendFd(c) PROVE Registered \subseteq Registered'
    BY <1>18 DEF SendFd
  <1>19. ASSUME NEW c \in Clients, SendBroken(c) PROVE Registered \subseteq Registered'
    BY <1>19 DEF SendBroken, End
  <1>20. ASSUME NEW c \in Clients, CloseFd(c) PROVE Registered \subseteq Registered'
    BY <1>20 DEF CloseFd
  <1>21. ASSUME NEW c \in Clients, NEW sig \in {"USR1", "USR2"}, Deliver(c, sig)
         PROVE  Registered \subseteq Registered'
    BY <1>21 DEF Deliver, Interrupt, Blocked
  <1>22. ASSUME NEW c \in Clients, NEW sig \in {"USR1", "USR2"}, Killed(c, sig)
         PROVE  Registered \subseteq Registered'
    BY <1>22 DEF Killed, End
  <1>23. ASSUME Greet PROVE Registered \subseteq Registered'
    BY <1>23 DEF Greet, table
  <1>24. ASSUME TakeReply PROVE Registered \subseteq Registered'
    BY <1>24 DEF TakeReply, table
  <1>25. ASSUME SessionClosed PROVE Registered \subseteq Registered'
    BY <1>25 DEF SessionClosed, table
  <1> QED
    BY <1>1, <1>2, <1>3, <1>4, <1>5, <1>6, <1>7, <1>8, <1>9, <1>10, <1>11, <1>12, <1>13, <1>14,
       <1>15, <1>16, <1>17, <1>18, <1>19, <1>20, <1>21, <1>22, <1>23, <1>24, <1>25, <1>26, <1>27
    DEF Next, ClientStep

LEMMA CountedStep ==
    ASSUME Typed, Counted, Next
    PROVE  Counted'
  <1> DEFINE n == Cardinality(Registered)
             n1 == Cardinality(Registered')
  <1>1. Registered \subseteq Registered'
    BY Onward
  <1>2. IsFiniteSet(Registered')
    <2>1. Registered' \subseteq Clients
      BY DEF Registered
    <2> QED BY <2>1, ESSRingAssumption, FS_Subset
  <1>3. n \in Nat /\ n1 \in Nat /\ n <= n1 /\ (Registered # Registered' => n < n1)
    <2>1. n1 \in Nat
      BY <1>2, FS_CardinalityType
    <2>2. n \in Nat /\ n <= n1 /\ (n = n1 => Registered = Registered')
      BY <1>1, <1>2, FS_Subset, FS_CardinalityType
    <2> QED BY <2>1, <2>2
  <1>4. mi \in Nat /\ mi <= n /\ \A c \in Clients : tmp[c] \in Nat /\ tmp[c] <= n
    BY DEF Counted, Typed, TableTypes, ClientTypes
  <1> HIDE DEF n, n1
  <1>5. ASSUME UNCHANGED <<mi, tmp>> PROVE mi' <= n1 /\ \A c \in Clients : tmp'[c] <= n1
    BY <1>3, <1>4, <1>5
  <1>6. ASSUME NEW c \in Clients, TakeSlot(c) PROVE mi' <= n1 /\ \A d \in Clients : tmp'[d] <= n1
    BY <1>3, <1>4, <1>6 DEF TakeSlot
  <1>7. ASSUME NEW c \in Clients, LoadI(c) PROVE mi' <= n1 /\ \A d \in Clients : tmp'[d] <= n1
    <2>1. mi' = mi /\ \A d \in Clients : tmp'[d] = mi \/ tmp'[d] = tmp[d]
      BY <1>7 DEF LoadI, table, Typed, ClientTypes
    <2> QED BY <1>3, <1>4, <2>1
  <1>8. ASSUME NEW c \in Clients, StoreI(c) PROVE mi' <= n1 /\ \A d \in Clients : tmp'[d] <= n1
    <2>1. mi' = tmp[c] + 1 /\ \A d \in Clients : tmp'[d] = 0 \/ tmp'[d] = tmp[d]
      BY <1>8 DEF StoreI, Typed, ClientTypes
    <2>2. c \notin Registered /\ c \in Registered'
      BY <1>8 DEF StoreI, Goto, Registered, Early, Typed, ClientTypes
    <2>3. n < n1
      BY <1>3, <2>2
    <2> QED BY <1>3, <1>4, <2>1, <2>3
  <1>9. ASSUME NEW c \in Clients, Launch(c) \/ ClientStep(c)
        PROVE  mi' <= n1 /\ \A d \in Clients : tmp'[d] <= n1
    <2>1. CASE TakeSlot(c) \/ LoadI(c) \/ StoreI(c)
      BY <1>6, <1>7, <1>8, <2>1
    <2>2. CASE ~(TakeSlot(c) \/ LoadI(c) \/ StoreI(c))
      <3>1. UNCHANGED <<mi, tmp>>
        BY <1>9, <2>2 DEF ClientStep, Launch, Check, PutNumber, PutPid, BindListen, Install,
             TellLeft, TellRight, BeginTurn, Accept, RecvFd, ReadGreeting, WriteReply,
             WriteBroken, SignalNext, Connect, SendFd, SendBroken, CloseFd, table, own
      <3> QED BY <1>5, <3>1
    <2> QED BY <2>1, <2>2
  <1>10. ASSUME NEW c \in Clients, NEW sig \in {"USR1", "USR2"}, Deliver(c, sig) \/ Killed(c, sig)
         PROVE  mi' <= n1 /\ \A d \in Clients : tmp'[d] <= n1
    <2>1. UNCHANGED <<mi, tmp>>
      BY <1>10 DEF Deliver, Killed, table, own
    <2> QED BY <1>5, <2>1
  <1>11. ASSUME Greet \/ TakeReply \/ SessionClosed
         PROVE  mi' <= n1 /\ \A d \in Clients : tmp'[d] <= n1
    <2>1. UNCHANGED <<mi, tmp>>
      BY <1>11 DEF Greet, TakeReply, SessionClosed, table, own
    <2> QED BY <1>5, <2>1
  <1>12. mi' <= n1 /\ \A d \in Clients : tmp'[d] <= n1
    BY <1>9, <1>10, <1>11 DEF Next
  <1> QED BY <1>12 DEF Counted, n1

LEMMA TypesInit == Init => Typed /\ Counted
  <1> SUFFICES ASSUME Init PROVE Typed /\ Counted
    OBVIOUS
  <1>0. Cardinality(Clients) \in Nat /\ Cardinality(Registered) \in Nat
    BY Numbers
  <1>1. TableTypes
    <2>1. cast \in SUBSET Clients /\ sequential \in BOOLEAN
      BY DEF Init
    <2>2. shm \in {"none", "init", "client"} /\ mi \in 0..Cardinality(Clients)
      BY <1>0 DEF Init
    <2>3. cliNum \in [Slots -> Clients \cup {NoOne}] /\ pids \in [Slots -> Clients \cup {NoOne}]
      BY DEF Init
    <2> QED BY <2>1, <2>2, <2>3 DEF TableTypes
  <1>2. ClientTypes
    <2>1. \A c \in Clients : 0 \in Slots
      <3>1. ASSUME NEW c \in Clients PROVE Cardinality(Clients) # 0
        BY ESSRingAssumption, FS_EmptySet
      <3> QED BY <1>0, <3>1 DEF Slots
    <2>2. "new" \in PCs
      BY DEF PCs
    <2> QED BY <1>0, <2>1, <2>2 DEF Init, ClientTypes
  <1>3. SignalTypes
    BY DEF Init, SignalTypes
  <1>4. FdTypes
    <2>1. <<>> \in Seq(Conns) /\ Bad \in Fds /\ Bad \in Conns
      BY DEF Fds, Conns
    <2> QED BY <2>1 DEF Init, FdTypes
  <1>5. EssTypes
    <2>1. 0 \in 0..MaxGreets
      BY ESSRingAssumption
    <2> QED BY <2>1 DEF Init, EssTypes, Fds
  <1>6. Counted
    BY <1>0 DEF Init, Counted
  <1> QED BY <1>1, <1>2, <1>3, <1>4, <1>5, <1>6 DEF Typed

LEMMA TypesStill ==
    ASSUME Typed, Counted, UNCHANGED vars
    PROVE  Typed' /\ Counted'
  <1> USE DEF vars, setup, table, own, sigs, conns, ess
  <1>1. TableTypes' /\ ClientTypes' /\ SignalTypes' /\ FdTypes' /\ EssTypes'
    BY DEF Typed, TableTypes, ClientTypes, SignalTypes, FdTypes, EssTypes
  <1>2. Registered' = Registered
    BY DEF Registered
  <1>3. Counted'
    BY <1>2 DEF Counted
  <1> QED BY <1>1, <1>3 DEF Typed

\* However the clients are launched, and whatever the signals interrupt, the values keep
\* their types; in particular m->i stays within the table, though m->i++ is not atomic.
THEOREM ESSRingTypes == Spec => []TypeOK
  <1>1. Init => Typed /\ Counted
    BY TypesInit
  <1>2. Typed /\ Counted /\ [Next]_vars => (Typed /\ Counted)'
    BY TypesStep, CountedStep, TypesStill
  <1>3. Typed => TypeOK
    BY Parts
  <1> QED BY <1>1, <1>2, <1>3, PTL DEF Spec

-----------------------------------------------------------------------------
(* Where a session's descriptor, and the connection it is sent on, is *)

Holds(c, x) == \/ usfd[c] = x \/ cur[c] = x \/ x \in stray[c]
               \/ \E k \in DOMAIN accq[c] : accq[c][k] = x
Somewhere(x) == \E c \in Clients : Holds(c, x)
\* The failed calls after which a descriptor may be lost.
Shut == {"connect", "recvfd", "listen"}
\* Client c has not connected to the ESS and, registering or first, may do so.
Fresh(c) == pc[c] \in Registering \cup {"new"} \/ ~flag1[c]

\* What a client holds, accepted, left behind, or finds in its queue differs.
InOnePlace(x) == \A c, d \in Clients :
    /\ usfd[c] = x => /\ usfd[d] = x => c = d
                      /\ cur[d] # x /\ x \notin stray[d]
                      /\ \A k \in DOMAIN accq[d] : accq[d][k] # x
    /\ cur[c] = x => /\ cur[d] = x => c = d
                     /\ x \notin stray[d]
                     /\ \A k \in DOMAIN accq[d] : accq[d][k] # x
    /\ x \in stray[c] => /\ x \in stray[d] => c = d
                         /\ \A k \in DOMAIN accq[d] : accq[d][k] # x
    /\ \A j \in DOMAIN accq[c], k \in DOMAIN accq[d] :
         accq[c][j] = x /\ accq[d][k] = x => c = d /\ j = k

\* No session, and no connection that nothing was sent on, is in two places ...
Once == \A x \in Conns \ {Bad} : InOnePlace(x)
\* ... a client holds a descriptor in its turn and an accepted connection before it ...
Held == \A c \in Clients : /\ usfd[c] # Bad => pc[c] \in Turn
                           /\ cur[c] # Bad => pc[c] = "recvfd"
\* ... a connection that nothing was sent on has an owner that is about to, or was ended ...
Opened == \A c \in Clients : Somewhere(Open(c)) => pc[c] \in {"send", "dead"}
\* ... nothing is known of a session before its client opens it ...
Unused == \A c \in Clients : Fresh(c) => ~Somewhere(c) /\ served # c
\* ... a send that cannot work and an accepted connection left behind have a failed call ...
Blamed == /\ \A c \in Clients : pc[c] = "close" => "connect" \in failed
          /\ \A c \in Clients : stray[c] # {} => "recvfd" \in failed
\* ... and without such a call the session is somewhere, and what is passed on is never Bad.
Kept == failed \cap Shut = {} /\ served # Bad => Somewhere(served)
Given == failed \subseteq {"read"} =>
          \A c \in Clients : /\ pc[c] \in Turn => usfd[c] # Bad
                             /\ pc[c] = "recvfd" => cur[c] # Bad
                             /\ \A k \in DOMAIN accq[c] : accq[c][k] # Bad

Tracked == Once /\ Held /\ Opened /\ Unused /\ Blamed /\ Kept /\ Given

LEMMA Names ==
    /\ Bad \notin Clients /\ Fds \subseteq Conns /\ Bad \in Fds /\ Bad \in Conns
    /\ \A c \in Clients : Open(c) \notin Fds /\ Open(c) \in Conns /\ c \in Fds
    /\ \A c, d \in Clients : Open(c) = Open(d) => c = d
  BY ESSRingAssumption DEF Fds, Conns, Open

(* The steps as the flow of descriptors sees them. *)
Flow == <<usfd, accq, cur, stray>>

\* No connection appears anywhere it was not.
Fewer == \A c \in Clients :
    /\ usfd'[c] \in {usfd[c], Bad} /\ cur'[c] \in {cur[c], Bad}
    /\ stray'[c] \subseteq stray[c]
    /\ \A k \in DOMAIN accq'[c] : k \in DOMAIN accq[c] /\ accq'[c][k] = accq[c][k]

LEMMA OnceFewer ==
    ASSUME Once, Fewer PROVE Once'
  BY DEF Once, InOnePlace, Fewer

LEMMA NoMore ==
    ASSUME Fewer, NEW x, x # Bad, Somewhere(x)' PROVE Somewhere(x)
  BY DEF Fewer, Somewhere, Holds

LEMMA Ended ==
    ASSUME Typed, NEW c \in Clients, End(c)
    PROVE  /\ Fewer
           /\ \A d \in Clients : d # c => /\ pc'[d] = pc[d] /\ usfd'[d] = usfd[d]
                                             /\ cur'[d] = cur[d]
                                          /\ stray'[d] = stray[d] /\ accq'[d] = accq[d]
           /\ pc'[c] = "dead" /\ usfd'[c] = Bad /\ cur'[c] = Bad /\ stray'[c] = {}
              /\ accq'[c] = <<>>
           /\ "listen" \in failed' /\ failed \subseteq failed'
  BY DEF Typed, ClientTypes, FdTypes, End, Fewer

\* What a step that moves no descriptor does to the clients.
Course == \A c \in Clients :
    /\ pc[c] \in Turn => pc'[c] \in Turn
    /\ pc[c] = "recvfd" => pc'[c] = "recvfd"
    /\ pc[c] \in {"send", "dead"} => pc'[c] \in {"send", "dead"}
    /\ Fresh(c)' => Fresh(c)
    /\ pc'[c] = "close" => pc[c] = "close" \/ "connect" \in failed'
    /\ failed' \subseteq {"read"} => /\ pc'[c] \in Turn => pc[c] \in Turn
                                     /\ pc'[c] = "recvfd" => pc[c] = "recvfd"
Quiet == UNCHANGED Flow /\ served' = served /\ failed \subseteq failed' /\ Course

LEMMA SomewhereSame ==
    ASSUME UNCHANGED Flow, NEW x PROVE Somewhere(x)' <=> Somewhere(x)
  BY DEF Flow, Somewhere, Holds

LEMMA TrackedQuiet ==
    ASSUME Tracked, Quiet PROVE Tracked'
  <1> USE DEF Tracked, Quiet
  <1>1. Once' /\ Held'
    BY DEF Once, InOnePlace, Held, Flow, Course
  <1>2. Opened'
    <2>1. \A c \in Clients : Open(c)' = Open(c) /\ (Somewhere(Open(c))' <=> Somewhere(Open(c)))
      BY SomewhereSame DEF Open
    <2> QED BY <2>1 DEF Opened, Course
  <1>3. Unused'
    BY SomewhereSame DEF Unused, Course
  <1>4. Blamed'
    BY DEF Blamed, Course, Flow
  <1>5. Kept'
    BY SomewhereSame DEF Kept
  <1>6. Given'
    BY DEF Given, Course, Flow
  <1> QED BY <1>1, <1>2, <1>3, <1>4, <1>5, <1>6

LEMMA QuietSteps ==
    ASSUME Typed, Held, NEW c \in Clients,
           \/ Launch(c) \/ Check(c) \/ TakeSlot(c) \/ PutNumber(c) \/ PutPid(c) \/ LoadI(c)
           \/ StoreI(c) \/ BindListen(c) \/ Install(c) \/ TellLeft(c)
           \/ TellRight(c) \/ ReadGreeting(c) \/ WriteReply(c) \/ SignalNext(c)
    PROVE  Quiet
  <1> USE DEF Goto, setup, table, own, sigs, conns, ess, Typed, ClientTypes, Fresh,
        Registering, Turn, Course, Quiet, Flow
  <1>1. CASE Launch(c)
    BY <1>1 DEF Launch
  <1>2. CASE Check(c)
    BY <1>2 DEF Check
  <1>3. CASE TakeSlot(c)
    BY <1>3 DEF TakeSlot
  <1>4. CASE PutNumber(c)
    BY <1>4 DEF PutNumber
  <1>5. CASE PutPid(c)
    BY <1>5 DEF PutPid
  <1>6. CASE LoadI(c)
    BY <1>6 DEF LoadI
  <1>7. CASE StoreI(c)
    BY <1>7 DEF StoreI
  <1>8. CASE BindListen(c)
    BY <1>8 DEF BindListen
  <1>9. CASE Install(c)
    BY <1>9 DEF Install
  <1>10. CASE TellLeft(c)
    BY <1>10 DEF TellLeft
  <1>14. CASE TellRight(c)
    BY <1>14 DEF TellRight
  <1>11. CASE ReadGreeting(c)
    BY <1>11 DEF ReadGreeting
  <1>12. CASE WriteReply(c)
    BY <1>12 DEF WriteReply
  <1>13. CASE SignalNext(c)
    BY <1>13 DEF SignalNext
  <1> QED BY <1>1, <1>2, <1>3, <1>4, <1>5, <1>6, <1>7, <1>8, <1>9, <1>10, <1>11, <1>12, <1>13,
           <1>14

LEMMA QuietESS ==
    ASSUME Typed, Greet \/ TakeReply \/ SessionClosed
    PROVE  Quiet
  BY DEF Greet, TakeReply, SessionClosed, Course, Quiet, Flow, own, conns, Fresh

LEMMA QuietWait ==
    ASSUME Typed, Held, NEW c \in Clients, BeginTurn(c), flag1[c]
    PROVE  Quiet
  BY DEF BeginTurn, Course, Quiet, Flow, own, conns, Fresh, Goto, Typed, ClientTypes,
     Registering, Turn

LEMMA QuietConnect ==
    ASSUME Typed, Held, NEW c \in Clients, Connect(c), accq' = accq, "connect" \in failed'
    PROVE  Quiet
  BY DEF Connect, Course, Quiet, Flow, own, ess, conns, Fresh, Goto, Typed, ClientTypes,
     Registering, Turn

LEMMA QuietDeliver ==
    ASSUME Typed, Held, NEW c \in Clients, NEW sig \in {"USR1", "USR2"}, Deliver(c, sig),
           pc[c] = "recvfd" => pc'[c] = "recvfd"
    PROVE  Quiet
  <1> USE DEF Typed, ClientTypes, FdTypes
  <1>1. UNCHANGED <<flag1, accq, served>>
    BY DEF Deliver, ess
  <1>2. CASE UNCHANGED <<pc, usfd, cur, stray, failed>>
    BY <1>1, <1>2 DEF Course, Quiet, Flow, Fresh
  <1>3. CASE Blocked(c) /\ Interrupt(c)
    <2>1. pc[c] \in {"accept", "read", "connect"}
      BY <1>3 DEF Blocked, Interrupt
    <2>2. pc[c] = "accept" => usfd[c] = Bad
      BY DEF Held, Turn
    <2>3. UNCHANGED <<usfd, cur, stray>>
      BY <1>3, <2>1, <2>2 DEF Interrupt
    <2>4. /\ failed' = failed \cup {pc[c]} /\ \A d \in Clients : d # c => pc'[d] = pc[d]
          /\ pc'[c] = IF pc[c] = "accept" THEN "read"
                     ELSE IF pc[c] = "read" THEN "write" ELSE "close"
      BY <1>3, <2>1 DEF Interrupt
    <2>5. Course
      BY <1>1, <2>1, <2>4 DEF Course, Fresh, Registering, Turn
    <2> QED BY <1>1, <2>3, <2>4, <2>5 DEF Quiet, Flow
  <1> QED BY <1>2, <1>3 DEF Deliver

LEMMA TrackedLess ==
    ASSUME Typed, Tracked, NEW c \in Clients, Fewer, flag1' = flag1, served' = served,
           failed \subseteq failed', failed' \cap Shut # {},
           \A d \in Clients : d # c => pc'[d] = pc[d] /\ usfd'[d] = usfd[d] /\ cur'[d] = cur[d],
           usfd'[c] = Bad, cur'[c] = Bad,
           pc'[c] = "dead" \/ (pc'[c] = "loop" /\ pc[c] = "close")
    PROVE  Tracked'
  <1> USE DEF Tracked
  <1>1. Once'
    BY OnceFewer
  <1>2. Held'
    BY DEF Held
  <1>3. Opened'
    <2>1. ASSUME NEW d \in Clients, Somewhere(Open(d))' PROVE pc'[d] \in {"send", "dead"}
      <3>1. Somewhere(Open(d))
        <4>1. Open(d) # Bad
          BY Names
        <4>2. Open(d)' = Open(d)
          BY DEF Open
        <4> QED BY <2>1, <4>1, <4>2, NoMore DEF Somewhere, Holds
      <3> QED BY <3>1 DEF Opened
    <2> QED BY <2>1 DEF Opened
  <1>4. Unused'
    <2>1. ASSUME NEW d \in Clients, Fresh(d)' PROVE Fresh(d)
      BY <2>1 DEF Fresh, Registering
    <2>2. ASSUME NEW d \in Clients, Somewhere(d)' PROVE Somewhere(d)
      BY <2>2, Names, NoMore
    <2> QED BY <2>1, <2>2 DEF Unused
  <1>5. Blamed'
    BY DEF Blamed, Fewer
  <1>6. Kept'
    BY DEF Kept
  <1>7. Given'
    BY DEF Given, Shut
  <1> QED BY <1>1, <1>2, <1>3, <1>4, <1>5, <1>6, <1>7

LEMMA TrackedEnd ==
    ASSUME Typed, Tracked, NEW c \in Clients, End(c), flag1' = flag1, served' = served
    PROVE  Tracked'
  <1>1. "listen" \in failed' \cap Shut
    BY Ended DEF Shut
  <1> QED BY <1>1, Ended, TrackedLess

LEMMA TrackedClose ==
    ASSUME Typed, Tracked, NEW c \in Clients, CloseFd(c)
    PROVE  Tracked'
  <1> USE DEF Typed, ClientTypes, FdTypes
  <1>1. "connect" \in failed' \cap Shut /\ failed' = failed
    BY DEF CloseFd, Goto, Tracked, Blamed, Shut
  <1>2. cur[c] = Bad
    BY DEF CloseFd, Goto, Tracked, Held
  <1>3. Fewer
    BY DEF Fewer, CloseFd, conns
  <1>4. /\ \A d \in Clients : d # c => pc'[d] = pc[d] /\ usfd'[d] = usfd[d] /\ cur'[d] = cur[d]
        /\ usfd'[c] = Bad /\ cur'[c] = Bad /\ pc'[c] = "loop" /\ pc[c] = "close"
        /\ flag1' = flag1 /\ served' = served
    BY <1>2 DEF CloseFd, Goto, conns, own, ess
  <1> QED BY <1>1, <1>3, <1>4, TrackedLess

\* accept() takes the connection at the head of the queue.
Taking(c) ==
    /\ \A d \in Clients : /\ usfd'[d] = usfd[d] /\ stray'[d] = stray[d]
                          /\ d # c => pc'[d] = pc[d] /\ cur'[d] = cur[d] /\ accq'[d] = accq[d]
    /\ pc[c] = "accept" /\ pc'[c] = "recvfd" /\ cur[c] = Bad /\ usfd[c] = Bad
    /\ 1 \in DOMAIN accq[c] /\ cur'[c] = accq[c][1]
    /\ \A k \in DOMAIN accq'[c] :
         k + 1 \in DOMAIN accq[c] /\ k + 1 # 1 /\ accq'[c][k] = accq[c][k + 1]
    /\ \A k \in DOMAIN accq[c] : k # 1 => \E j \in DOMAIN accq'[c] : j + 1 = k
    /\ \A j, k \in DOMAIN accq'[c] : j + 1 = k + 1 => j = k
    /\ UNCHANGED <<flag1, served, failed>>

LEMMA Accepted ==
    ASSUME Typed, Tracked, NEW c \in Clients, Accept(c)
    PROVE  Taking(c)
  <1> USE DEF Typed, ClientTypes, FdTypes
  <1>1. pc[c] = "accept" /\ pc'[c] = "recvfd" /\ cur[c] = Bad /\ usfd[c] = Bad
    BY DEF Accept, Goto, Tracked, Held, Turn
  <1>2. \A d \in Clients : /\ usfd'[d] = usfd[d] /\ stray'[d] = stray[d]
                           /\ d # c => pc'[d] = pc[d] /\ cur'[d] = cur[d] /\ accq'[d] = accq[d]
    BY DEF Accept, Goto
  <1>3. UNCHANGED <<flag1, served, failed>> /\ cur'[c] = Head(accq[c]) /\ accq'[c] = Tail(accq[c])
    BY DEF Accept, own, ess
  <1>4. accq[c] \in Seq(Conns) /\ accq[c] # <<>>
    BY DEF Accept
  <1>5. /\ Len(accq[c]) \in Nat /\ Len(accq[c]) >= 1 /\ DOMAIN accq[c] = 1..Len(accq[c])
        /\ Head(accq[c]) = accq[c][1]
    BY <1>4
  <1>6. /\ DOMAIN Tail(accq[c]) = 1..(Len(accq[c]) - 1)
        /\ \A k \in 1..(Len(accq[c]) - 1) : Tail(accq[c])[k] = accq[c][k + 1]
    BY <1>4, HeadTailProperties
  <1>7. /\ \A k \in DOMAIN accq'[c] : k + 1 \in DOMAIN accq[c] /\ k + 1 # 1
           /\ accq'[c][k] = accq[c][k + 1]
        /\ \A j, k \in DOMAIN accq'[c] : j + 1 = k + 1 => j = k
    BY <1>3, <1>5, <1>6
  <1>8. \A k \in DOMAIN accq[c] : k # 1 => k - 1 \in DOMAIN accq'[c] /\ (k - 1) + 1 = k
    BY <1>3, <1>5, <1>6
  <1> QED BY <1>1, <1>2, <1>3, <1>5, <1>7, <1>8 DEF Taking

LEMMA TrackedAccept ==
    ASSUME Typed, Tracked, NEW c \in Clients, Accept(c)
    PROVE  Tracked'
  <1> USE DEF Tracked, Taking
  <1>0. Taking(c)
    BY Accepted
  <1>1. ASSUME NEW x, x # Bad PROVE Somewhere(x)' <=> Somewhere(x)
    BY <1>0, <1>1 DEF Somewhere, Holds
  <1>2. ASSUME NEW x \in Conns \ {Bad} PROVE InOnePlace(x)'
    <2>0. InOnePlace(x)
      BY DEF Once
    <2>1. ASSUME NEW d \in Clients, NEW e \in Clients, NEW j \in DOMAIN accq'[d],
                 NEW k \in DOMAIN accq'[e],
                 accq'[d][j] = x, accq'[e][k] = x
          PROVE  d = e /\ j = k
      BY <1>0, <2>0, <2>1 DEF InOnePlace
    <2>2. ASSUME NEW d \in Clients, NEW e \in Clients, cur'[d] = x
          PROVE  (cur'[e] = x => d = e) /\ x \notin stray'[e] /\ \A k \in DOMAIN accq'[e] :
             accq'[e][k] # x
      BY <1>0, <2>0, <2>2 DEF InOnePlace
    <2>3. ASSUME NEW d \in Clients, NEW e \in Clients, usfd'[d] = x
          PROVE  (usfd'[e] = x => d = e) /\ cur'[e] # x /\ x \notin stray'[e]
             /\ \A k \in DOMAIN accq'[e] : accq'[e][k] # x
      BY <1>0, <2>0, <2>3 DEF InOnePlace
    <2>4. ASSUME NEW d \in Clients, NEW e \in Clients, x \in stray'[d]
          PROVE  (x \in stray'[e] => d = e) /\ \A k \in DOMAIN accq'[e] : accq'[e][k] # x
      BY <1>0, <2>0, <2>4 DEF InOnePlace
    <2> QED BY <2>1, <2>2, <2>3, <2>4 DEF InOnePlace
  <1>3. Once'
    BY <1>2 DEF Once, Conns, Fds, Open
  <1>4. Held'
    BY <1>0 DEF Held
  <1>5. Opened'
    <2>1. \A d \in Clients : Open(d)' = Open(d) /\ (Somewhere(Open(d))' <=> Somewhere(Open(d)))
      BY <1>1, Names DEF Open
    <2> QED BY <1>0, <2>1 DEF Opened
  <1>6. Unused'
    BY <1>0, <1>1, Names DEF Unused, Fresh, Registering
  <1>7. Blamed'
    BY <1>0 DEF Blamed
  <1>8. Kept'
    BY <1>0, <1>1 DEF Kept
  <1>9. Given'
    BY <1>0 DEF Given, Turn
  <1> QED BY <1>3, <1>4, <1>5, <1>6, <1>7, <1>8, <1>9

LEMMA TrackedRecv ==
    ASSUME Typed, Tracked, NEW c \in Clients, RecvFd(c)
    PROVE  Tracked'
  <1> USE DEF Tracked
  <1>0. /\ \A d \in Clients : /\ stray'[d] = stray[d] /\ accq'[d] = accq[d]
                              /\ d # c => pc'[d] = pc[d] /\ cur'[d] = cur[d] /\ usfd'[d] = usfd[d]
        /\ pc[c] = "recvfd" /\ pc'[c] = "read" /\ usfd[c] = Bad
        /\ cur[c] \in Fds /\ usfd'[c] = cur[c] /\ cur'[c] = Bad
        /\ UNCHANGED <<flag1, served, failed>>
    BY DEF RecvFd, Goto, own, ess, Typed, ClientTypes, FdTypes, Held, Turn
  <1>1. ASSUME NEW x, x # Bad PROVE Somewhere(x)' <=> Somewhere(x)
    BY <1>0, <1>1 DEF Somewhere, Holds
  <1>2. ASSUME NEW x \in Conns \ {Bad} PROVE InOnePlace(x)'
    <2>0. InOnePlace(x)
      BY DEF Once
    <2> QED BY <1>0, <2>0 DEF InOnePlace
  <1>3. Once'
    BY <1>2 DEF Once, Conns, Fds, Open
  <1>4. Held'
    BY <1>0 DEF Held, Turn
  <1>5. Opened'
    <2>1. \A d \in Clients : Open(d)' = Open(d) /\ (Somewhere(Open(d))' <=> Somewhere(Open(d)))
      BY <1>1, Names DEF Open
    <2> QED BY <1>0, <2>1 DEF Opened
  <1>6. Unused'
    BY <1>0, <1>1, Names DEF Unused, Fresh, Registering
  <1>7. Blamed'
    BY <1>0 DEF Blamed
  <1>8. Kept'
    BY <1>0, <1>1 DEF Kept
  <1>9. Given'
    BY <1>0 DEF Given, Turn
  <1> QED BY <1>3, <1>4, <1>5, <1>6, <1>7, <1>8, <1>9

\* recvmsg() interrupted: the connection stays open and is never read.
LEMMA TrackedLost ==
    ASSUME Typed, Tracked, NEW c \in Clients, NEW sig \in {"USR1", "USR2"}, Deliver(c, sig),
           pc[c] = "recvfd", pc'[c] # "recvfd"
    PROVE  Tracked'
  <1> USE DEF Tracked
  <1>0. /\ \A d \in Clients : /\ accq'[d] = accq[d] /\ usfd'[d] = usfd[d]
                              /\ d # c => pc'[d] = pc[d] /\ cur'[d] = cur[d]
                                 /\ stray'[d] = stray[d]
        /\ pc[c] = "recvfd" /\ pc'[c] = "read"
        /\ stray'[c] = stray[c] \cup {cur[c]} /\ cur'[c] = Bad /\ usfd[c] = Bad
        /\ "recvfd" \in failed' /\ failed \subseteq failed' /\ UNCHANGED <<flag1, served>>
    <2>1. Interrupt(c) /\ UNCHANGED <<flag1, served, accq>>
      BY DEF Deliver, ess
    <2>2. usfd[c] = Bad
      BY DEF Held, Turn
    <2> QED BY <2>1, <2>2 DEF Interrupt, Typed, ClientTypes, FdTypes
  <1>1. ASSUME NEW x, x # Bad PROVE Somewhere(x)' <=> Somewhere(x)
    BY <1>0, <1>1 DEF Somewhere, Holds
  <1>2. ASSUME NEW x \in Conns \ {Bad} PROVE InOnePlace(x)'
    <2>0. InOnePlace(x)
      BY DEF Once
    <2> QED BY <1>0, <2>0 DEF InOnePlace
  <1>3. Once'
    BY <1>2 DEF Once, Conns, Fds, Open
  <1>4. Held'
    BY <1>0 DEF Held, Turn
  <1>5. Opened'
    <2>1. \A d \in Clients : Open(d)' = Open(d) /\ (Somewhere(Open(d))' <=> Somewhere(Open(d)))
      BY <1>1, Names DEF Open
    <2> QED BY <1>0, <2>1 DEF Opened
  <1>6. Unused'
    BY <1>0, <1>1, Names DEF Unused, Fresh, Registering
  <1>7. Blamed'
    BY <1>0 DEF Blamed
  <1>8. Kept'
    BY <1>0 DEF Kept, Shut
  <1>9. Given'
    BY <1>0 DEF Given
  <1> QED BY <1>3, <1>4, <1>5, <1>6, <1>7, <1>8, <1>9

LEMMA TrackedFirst ==
    ASSUME Typed, Tracked, NEW c \in Clients, BeginTurn(c), ~flag1[c]
    PROVE  Tracked'
  <1> USE DEF Tracked
  <1>0. /\ \A d \in Clients : /\ accq'[d] = accq[d] /\ cur'[d] = cur[d] /\ stray'[d] = stray[d]
                              /\ d # c => pc'[d] = pc[d] /\ usfd'[d] = usfd[d]
                                 /\ flag1'[d] = flag1[d]
        /\ pc[c] = "loop" /\ pc'[c] = "read" /\ usfd[c] = Bad /\ usfd'[c] = c /\ flag1'[c] = TRUE
        /\ served' \in {served, c} /\ failed' = failed
    BY DEF BeginTurn, Goto, conns, Typed, ClientTypes, FdTypes, Held, Turn
  <1>1. ~Somewhere(c) /\ served # c /\ c # Bad
    BY Names DEF Unused, Fresh
  <1>2. ASSUME NEW x, x # Bad, x # c PROVE Somewhere(x)' <=> Somewhere(x)
    BY <1>0, <1>2 DEF Somewhere, Holds
  <1>3. ASSUME NEW x \in Conns \ {Bad} PROVE InOnePlace(x)'
    <2>0. InOnePlace(x)
      BY DEF Once
    <2>1. CASE x # c
      BY <1>0, <2>0, <2>1 DEF InOnePlace
    <2>2. CASE x = c
      BY <1>0, <1>1, <2>2 DEF InOnePlace, Somewhere, Holds
    <2> QED BY <2>1, <2>2
  <1>4. Once'
    BY <1>3 DEF Once, Conns, Fds, Open
  <1>5. Held'
    BY <1>0 DEF Held, Turn
  <1>6. Opened'
    <2>1. \A d \in Clients : Open(d)' = Open(d) /\ (Somewhere(Open(d))' <=> Somewhere(Open(d)))
      BY <1>2, Names DEF Open, Fds
    <2> QED BY <1>0, <2>1 DEF Opened
  <1>7. Unused'
    <2>1. ASSUME NEW d \in Clients, Fresh(d)' PROVE Fresh(d) /\ d # c
      BY <1>0, <2>1 DEF Fresh, Registering
    <2> QED BY <1>0, <1>2, <2>1, Names DEF Unused
  <1>8. Blamed'
    BY <1>0 DEF Blamed
  <1>9. Kept'
    <2>1. Somewhere(c)'
      BY <1>0 DEF Somewhere, Holds
    <2> QED BY <1>0, <1>1, <1>2, <2>1 DEF Kept
  <1>10. Given'
    BY <1>0, <1>1 DEF Given
  <1> QED BY <1>4, <1>5, <1>6, <1>7, <1>8, <1>9, <1>10

\* connect() puts a connection into the queue of client e, at place n.
Queueing(c, e, n) ==
    /\ \A d \in Clients : /\ usfd'[d] = usfd[d] /\ cur'[d] = cur[d] /\ stray'[d] = stray[d]
                          /\ d # c => pc'[d] = pc[d]
                          /\ d # e => accq'[d] = accq[d]
    /\ pc[c] = "connect" /\ pc'[c] = "send" /\ UNCHANGED <<flag1, served, failed>>
    /\ n \in DOMAIN accq'[e] /\ n \notin DOMAIN accq[e] /\ accq'[e][n] = Open(c)
    /\ \A k \in DOMAIN accq'[e] : k # n => k \in DOMAIN accq[e]
    /\ \A k \in DOMAIN accq[e] : k \in DOMAIN accq'[e] /\ accq'[e][k] = accq[e][k]

LEMMA Enqueued ==
    ASSUME Typed, Tracked, NEW c \in Clients, Connect(c), accq' # accq
    PROVE  \E e \in Clients : \E n \in DOMAIN accq'[e] : Queueing(c, e, n)
  <1> USE DEF Typed, ClientTypes, FdTypes
  <1> DEFINE e == cliNum[right[c]]
  <1>1. /\ pc[c] = "connect" /\ pc'[c] = "send" /\ pc' = [pc EXCEPT ![c] = "send"]
        /\ e # NoOne /\ failed' = failed /\ accq' = [accq EXCEPT ![e] = Append(@, Open(c))]
        /\ UNCHANGED <<usfd, cur, stray, flag1, served>>
    BY DEF Connect, Goto, own, ess
  <1>2. e \in Clients
    BY <1>1 DEF TableTypes
  <1> HIDE DEF e
  <1>3. accq[e] \in Seq(Conns) /\ accq'[e] = Append(accq[e], Open(c))
    BY <1>1, <1>2
  <1> DEFINE n == Len(accq[e]) + 1
  <1>4. /\ DOMAIN accq[e] = 1..Len(accq[e]) /\ DOMAIN accq'[e] = 1..n /\ Len(accq[e]) \in Nat
        /\ accq'[e][n] = Open(c) /\ \A k \in 1..Len(accq[e]) : accq'[e][k] = accq[e][k]
    <2>1. Open(c) \in Conns
      BY Names
    <2> QED BY <1>3, <2>1, AppendProperties
  <1>5. /\ n \in DOMAIN accq'[e] /\ n \notin DOMAIN accq[e] /\ accq'[e][n] = Open(c)
        /\ \A k \in DOMAIN accq'[e] : k # n => k \in DOMAIN accq[e]
        /\ \A k \in DOMAIN accq[e] : k \in DOMAIN accq'[e] /\ accq'[e][k] = accq[e][k]
    <2>1. n \in 1..n /\ n \notin 1..Len(accq[e]) /\ \A k \in 1..n : k # n => k \in 1..Len(accq[e])
      BY <1>4
    <2>2. \A k \in 1..Len(accq[e]) : k \in 1..n
      BY <1>4
    <2> HIDE DEF n
    <2> QED BY <1>4, <2>1, <2>2
  <1>6. \A d \in Clients : /\ usfd'[d] = usfd[d] /\ cur'[d] = cur[d] /\ stray'[d] = stray[d]
                           /\ d # c => pc'[d] = pc[d]
                           /\ d # e => accq'[d] = accq[d]
    BY <1>1
  <1> HIDE DEF n
  <1>7. Queueing(c, e, n)
    BY <1>1, <1>5, <1>6 DEF Queueing
  <1> QED BY <1>2, <1>5, <1>7

LEMMA TrackedConnect ==
    ASSUME Typed, Tracked, NEW c \in Clients, Connect(c), accq' # accq
    PROVE  Tracked'
  <1> USE DEF Tracked, Queueing
  <1>p. PICK e \in Clients : \E n \in DOMAIN accq'[e] : Queueing(c, e, n)
    BY Enqueued
  <1>n. PICK n \in DOMAIN accq'[e] : Queueing(c, e, n)
    BY <1>p
  <1>1. ~Somewhere(Open(c)) /\ Open(c) # Bad
    BY <1>n, Names DEF Opened
  <1>2. ASSUME NEW x, x # Open(c) PROVE Somewhere(x)' <=> Somewhere(x)
    BY <1>n, <1>2 DEF Somewhere, Holds
  <1>3. ASSUME NEW x \in Conns \ {Bad} PROVE InOnePlace(x)'
    <2>0. InOnePlace(x)
      BY DEF Once
    <2>1. CASE x # Open(c)
      BY <1>n, <2>0, <2>1 DEF InOnePlace
    <2>2. CASE x = Open(c)
      <3> HIDE DEF Tracked
      <3>1. \A d \in Clients : /\ usfd'[d] # x /\ cur'[d] # x /\ x \notin stray'[d]
                               /\ \A k \in DOMAIN accq[d] : accq[d][k] # x
        BY <1>n, <1>1, <2>2 DEF Somewhere, Holds
      <3>2. \A d \in Clients : \A k \in DOMAIN accq'[d] : accq'[d][k] = x => d = e /\ k = n
        BY <1>n, <3>1
      <3> QED BY <3>1, <3>2 DEF InOnePlace
    <2> QED BY <2>1, <2>2
  <1>4. Once'
    BY <1>3 DEF Once, Conns, Fds, Open
  <1>5. Held'
    BY <1>n DEF Held, Turn
  <1>6. Opened'
    <2>1. \A d \in Clients : Open(d)' = Open(d)
            /\ (d # c => (Somewhere(Open(d))' <=> Somewhere(Open(d))))
      BY <1>2, Names DEF Open
    <2> QED BY <1>n, <2>1 DEF Opened
  <1>7. Unused'
    BY <1>n, <1>2, Names DEF Unused, Fresh, Registering
  <1>8. Blamed'
    BY <1>n DEF Blamed
  <1>9. Kept'
    <2>1. served # Open(c)
      BY Names DEF Typed, EssTypes
    <2> QED BY <1>n, <1>2, <2>1 DEF Kept
  <1>10. Given'
    <2>1. \A d \in Clients : \A k \in DOMAIN accq'[d] : accq'[d][k] = Open(c)
            \/ (k \in DOMAIN accq[d] /\ accq'[d][k] = accq[d][k])
      BY <1>n
    <2> QED BY <1>n, <1>1, <2>1 DEF Given, Turn
  <1> QED BY <1>4, <1>5, <1>6, <1>7, <1>8, <1>9, <1>10

Handed(c, x) == IF x = Open(c) THEN usfd[c] ELSE x

Handing(c) ==
    /\ \A d \in Clients : /\ cur'[d] = Handed(c, cur[d])
                          /\ stray'[d] = {Handed(c, x) : x \in stray[d]}
                          /\ DOMAIN accq'[d] = DOMAIN accq[d]
                          /\ \A k \in DOMAIN accq[d] : accq'[d][k] = Handed(c, accq[d][k])
                          /\ d # c => pc'[d] = pc[d] /\ usfd'[d] = usfd[d]
    /\ pc[c] = "send" /\ pc'[c] = "loop" /\ usfd'[c] = Bad /\ cur[c] = Bad
    /\ Connected(c) /\ UNCHANGED <<flag1, served, failed>>

LEMMA HandedOver ==
    ASSUME Typed, Tracked, NEW c \in Clients, SendFd(c)
    PROVE  Handing(c)
  <1> USE DEF Typed, ClientTypes, FdTypes
  <1>1. pc[c] = "send" /\ pc'[c] = "loop" /\ \A d \in Clients : d # c => pc'[d] = pc[d]
    BY DEF SendFd, Goto
  <1>2. usfd'[c] = Bad /\ \A d \in Clients : d # c => usfd'[d] = usfd[d]
    BY DEF SendFd
  <1>3. cur[c] = Bad
    BY <1>1 DEF Tracked, Held
  <1>4. ASSUME NEW d \in Clients
        PROVE /\ cur'[d] = Handed(c, cur[d]) /\ stray'[d] = {Handed(c, x) : x \in stray[d]}
              /\ accq'[d] = [k \in DOMAIN accq[d] |-> Handed(c, accq[d][k])]
    BY DEF SendFd, Handed
  <1>5. Connected(c) /\ UNCHANGED <<flag1, served, failed>>
    BY DEF SendFd, own, ess
  <1>6. ASSUME NEW d \in Clients
        PROVE /\ DOMAIN accq'[d] = DOMAIN accq[d]
              /\ \A k \in DOMAIN accq[d] : accq'[d][k] = Handed(c, accq[d][k])
    BY <1>4
  <1> QED BY <1>1, <1>2, <1>3, <1>4, <1>5, <1>6 DEF Handing

LEMMA TrackedSend ==
    ASSUME Typed, Tracked, NEW c \in Clients, SendFd(c)
    PROVE  Tracked'
  <1> USE DEF Tracked
  <1> DEFINE s == usfd[c]
  <1> USE DEF Handing
  <1>0. Handing(c)
    BY HandedOver
  <1>1. s \in Fds /\ Open(c) \notin Fds /\ s # Open(c) /\ Bad # Open(c)
    BY Names DEF Typed, FdTypes
  \* A connection other than the one that is sent on and the descriptor sent stays where it is.
  <1>2. ASSUME NEW x, x # s, x # Bad
        PROVE  \A d \in Clients : /\ usfd'[d] = x => usfd[d] = x
                                  /\ cur'[d] = x => cur[d] = x
                                  /\ x \in stray'[d] => x \in stray[d]
                                  /\ \A k \in DOMAIN accq'[d] : accq'[d][k] = x =>
                                     k \in DOMAIN accq[d] /\ accq[d][k] = x
    BY <1>0, <1>2 DEF Handed
  <1>3. ASSUME s # Bad
        PROVE  \A d \in Clients : /\ usfd'[d] # s
                                  /\ cur'[d] = s => cur[d] = Open(c)
                                  /\ s \in stray'[d] => Open(c) \in stray[d]
                                  /\ \A k \in DOMAIN accq'[d] : accq'[d][k] = s =>
                                     k \in DOMAIN accq[d] /\ accq[d][k] = Open(c)
    <2>1. InOnePlace(s)
      BY <1>1, <1>3, Names DEF Once
    <2>2. \A d \in Clients : /\ d # c => usfd[d] # s
                             /\ cur[d] # s /\ s \notin stray[d] /\ \A k \in DOMAIN accq[d] :
                                accq[d][k] # s
      BY <2>1 DEF InOnePlace
    <2> QED BY <1>0, <1>3, <2>2 DEF Handed
  <1>4. ASSUME NEW x \in Conns \ {Bad} PROVE InOnePlace(x)'
    <2>0. InOnePlace(x) /\ InOnePlace(Open(c))
      BY <1>1, Names DEF Once
    <2>1. CASE x # s
      <3> HIDE DEF s, Tracked
      <3>1. \A d \in Clients : /\ usfd'[d] = x => usfd[d] = x
                               /\ cur'[d] = x => cur[d] = x
                               /\ x \in stray'[d] => x \in stray[d]
                               /\ \A k \in DOMAIN accq'[d] : accq'[d][k] = x =>
                                  k \in DOMAIN accq[d] /\ accq[d][k] = x
        BY <1>2, <2>1
      <3> QED BY <2>0, <3>1 DEF InOnePlace
    <2>2. CASE x = s
      <3> HIDE DEF s, Tracked
      <3>1. \A d \in Clients : /\ usfd'[d] # x
                               /\ cur'[d] = x => cur[d] = Open(c)
                               /\ x \in stray'[d] => Open(c) \in stray[d]
                               /\ \A k \in DOMAIN accq'[d] : accq'[d][k] = x =>
                                  k \in DOMAIN accq[d] /\ accq[d][k] = Open(c)
        BY <1>3, <2>2
      <3> QED BY <2>0, <3>1 DEF InOnePlace
    <2> QED BY <2>1, <2>2
  <1>5. Once'
    BY <1>4 DEF Once, Conns, Fds, Open
  <1>6. ASSUME NEW x, x # Bad, Somewhere(x)' PROVE Somewhere(x)
    <2>1. CASE x = s
      BY <2>1 DEF Somewhere, Holds
    <2>2. CASE x # s
      <3>1. \A d \in Clients : /\ usfd'[d] = x => usfd[d] = x
                               /\ cur'[d] = x => cur[d] = x
                               /\ x \in stray'[d] => x \in stray[d]
                               /\ \A k \in DOMAIN accq'[d] : accq'[d][k] = x =>
                                  k \in DOMAIN accq[d] /\ accq[d][k] = x
        BY <1>2, <1>6, <2>2
      <3> QED BY <1>6, <3>1 DEF Somewhere, Holds
    <2> QED BY <2>1, <2>2
  <1>7. Held'
    BY <1>0, <1>1 DEF Held, Handed
  <1>8. Opened'
    <2>1. ~Somewhere(Open(c))'
      <3>1. \A d \in Clients : /\ usfd'[d] # Open(c) /\ cur'[d] # Open(c)
                                  /\ Open(c) \notin stray'[d]
                               /\ \A k \in DOMAIN accq'[d] : accq'[d][k] # Open(c)
        <4>1. \A x : Handed(c, x) # Open(c)
          BY <1>1 DEF Handed
        <4>2. \A d \in Clients : usfd[d] \in Fds
          BY DEF Typed, FdTypes
        <4> QED BY <1>0, <1>1, <4>1, <4>2
      <3> QED BY <3>1 DEF Somewhere, Holds, Open
    <2>2. ASSUME NEW d \in Clients, Somewhere(Open(d))' PROVE Somewhere(Open(d)) /\ d # c
      <3>1. Open(d) # Bad /\ Open(d)' = Open(d)
        BY Names DEF Open
      <3> QED BY <1>6, <2>1, <2>2, <3>1 DEF Somewhere, Holds
    <2> QED BY <1>0, <2>2 DEF Opened
  <1>9. Unused'
    BY <1>0, <1>6, Names DEF Unused, Fresh, Registering
  <1>10. Blamed'
    BY <1>0 DEF Blamed
  <1>11. Kept'
    <2> SUFFICES ASSUME failed \cap Shut = {}, served # Bad PROVE Somewhere(served)'
      BY <1>0 DEF Kept
    <2>1. CASE served = s
      <3>1. PICK d \in Clients : cur[d] = Open(c) \/ Open(c) \in stray[d]
                                 \/ \E k \in DOMAIN accq[d] : accq[d][k] = Open(c)
        BY <1>0 DEF Connected
      <3>2. cur'[d] = s \/ s \in stray'[d] \/ \E k \in DOMAIN accq'[d] : accq'[d][k] = s
        BY <1>0, <3>1 DEF Handed
      <3> QED BY <1>0, <2>1, <3>2 DEF Somewhere, Holds
    <2>2. CASE served # s
      <3>1. PICK d \in Clients : Holds(d, served)
        BY DEF Kept, Somewhere
      <3>2. served # Open(c)
        BY <1>1 DEF Typed, EssTypes
      <3>3. Holds(d, served)'
        BY <1>0, <2>2, <3>1, <3>2 DEF Holds, Handed
      <3> QED BY <3>3 DEF Somewhere
    <2> QED BY <2>1, <2>2
  <1>12. Given'
    <2> SUFFICES ASSUME failed \subseteq {"read"}
                 PROVE  \A d \in Clients : /\ pc'[d] \in Turn => usfd'[d] # Bad
                                           /\ pc'[d] = "recvfd" => cur'[d] # Bad
                                           /\ \A k \in DOMAIN accq'[d] : accq'[d][k] # Bad
      BY <1>0 DEF Given
    <2>1. s # Bad
      BY <1>0 DEF Given, Turn
    <2> QED BY <1>0, <2>1 DEF Given, Handed, Turn
  <1> QED BY <1>5, <1>7, <1>8, <1>9, <1>10, <1>11, <1>12

LEMMA TrackedStep ==
    ASSUME Typed, Tracked, Next PROVE Tracked'
  <1>0. Held
    BY DEF Tracked
  <1>1. ASSUME NEW c \in Clients, Launch(c) \/ ClientStep(c) PROVE Tracked'
    <2>1. CASE BeginTurn(c)
      <3>1. CASE flag1[c]
        BY <1>0, <2>1, <3>1, QuietWait, TrackedQuiet
      <3>2. CASE ~flag1[c]
        BY <2>1, <3>2, TrackedFirst
      <3> QED BY <3>1, <3>2
    <2>2. CASE Accept(c)
      BY <2>2, TrackedAccept
    <2>3. CASE RecvFd(c)
      BY <2>3, TrackedRecv
    <2>4. CASE Connect(c)
      <3>1. CASE accq' # accq
        BY <2>4, <3>1, TrackedConnect
      <3>2. CASE accq' = accq /\ "connect" \in failed'
        BY <1>0, <2>4, <3>2, QuietConnect, TrackedQuiet
      <3>3. accq' # accq \/ "connect" \in failed'
        <4>1. ASSUME NEW d \in Clients, accq' = [accq EXCEPT ![d] = Append(@, Open(c))]
              PROVE  accq' # accq
          <5>1. accq[d] \in Seq(Conns) /\ accq'[d] = Append(accq[d], Open(c)) /\ Open(c) \in Conns
            BY <4>1, Names DEF Typed, FdTypes
          <5>2. Len(accq[d]) \in Nat /\ Len(accq'[d]) = Len(accq[d]) + 1
            BY <5>1, AppendProperties
          <5> QED BY <5>2
        <4>2. cliNum[right[c]] \in Clients \cup {NoOne}
          BY DEF Typed, TableTypes, ClientTypes
        <4> QED BY <2>4, <4>1, <4>2 DEF Connect
      <3> QED BY <3>1, <3>2, <3>3
    <2>5. CASE SendFd(c)
      BY <2>5, TrackedSend
    <2>6. CASE SendBroken(c) \/ WriteBroken(c)
      BY <2>6, TrackedEnd DEF SendBroken, WriteBroken, own, ess
    <2>7. CASE CloseFd(c)
      BY <2>7, TrackedClose
    <2>8. CASE \/ Launch(c) \/ Check(c) \/ TakeSlot(c) \/ PutNumber(c) \/ PutPid(c) \/ LoadI(c)
               \/ StoreI(c) \/ BindListen(c) \/ Install(c) \/ TellLeft(c)
               \/ TellRight(c) \/ ReadGreeting(c) \/ WriteReply(c) \/ SignalNext(c)
      BY <1>0, <2>8, QuietSteps, TrackedQuiet
    <2> QED BY <1>1, <2>1, <2>2, <2>3, <2>4, <2>5, <2>6, <2>7, <2>8 DEF ClientStep
  <1>2. ASSUME NEW c \in Clients, NEW sig \in {"USR1", "USR2"}, Deliver(c, sig) PROVE Tracked'
    BY <1>0, <1>2, QuietDeliver, TrackedQuiet, TrackedLost
  <1>3. ASSUME NEW c \in Clients, NEW sig \in {"USR1", "USR2"}, Killed(c, sig) PROVE Tracked'
    BY <1>3, TrackedEnd DEF Killed, own, ess
  <1>4. ASSUME Greet \/ TakeReply \/ SessionClosed PROVE Tracked'
    BY <1>4, QuietESS, TrackedQuiet
  <1> QED BY <1>1, <1>2, <1>3, <1>4 DEF Next

LEMMA TrackedInit == Init => Tracked
  <1> SUFFICES ASSUME Init PROVE Tracked
    OBVIOUS
  <1>1. /\ \A c \in Clients : /\ pc[c] = "new" /\ usfd[c] = Bad /\ cur[c] = Bad /\ stray[c] = {}
                              /\ accq[c] = <<>>
        /\ served = Bad /\ failed = {}
    BY DEF Init
  <1>2. \A x : x # Bad => ~Somewhere(x)
    BY <1>1 DEF Somewhere, Holds
  <1>3. Once
    BY <1>1 DEF Once, InOnePlace
  <1>4. Opened /\ Unused
    BY <1>1, <1>2, Names DEF Opened, Unused
  <1>5. Held /\ Blamed /\ Kept /\ Given
    BY <1>1 DEF Held, Blamed, Kept, Given, Turn
  <1> QED BY <1>3, <1>4, <1>5 DEF Tracked

LEMMA TrackedStill == ASSUME Tracked, UNCHANGED vars PROVE Tracked'
  <1>1. Quiet
    BY DEF Quiet, Course, Flow, Fresh, vars, conns, own, ess
  <1> QED BY <1>1, TrackedQuiet

LEMMA AtMostOne ==
    ASSUME NEW S, \A x, y \in S : x = y
    PROVE  /\ Cardinality(S) \in {0, 1}
           /\ S # {} => Cardinality(S) = 1
           /\ S = {} => Cardinality(S) = 0
  <1>1. CASE S = {}
    BY <1>1, FS_EmptySet
  <1>2. CASE S # {}
    <2>1. PICK x : x \in S
      BY <1>2
    <2>2. S = {x}
      BY <2>1
    <2> QED BY <2>2, FS_Singleton
  <1> QED BY <1>1, <1>2

LEMMA CopiesCount ==
    ASSUME Held, NEW s \in Clients, InOnePlace(s), s # Bad
    PROVE  /\ Copies(s) \in {0, 1}
           /\ Somewhere(s) /\ (\A c \in Clients : s \notin stray[c]) => Copies(s) = 1
  <1> DEFINE A == {c \in Clients : pc[c] \in Turn /\ usfd[c] = s}
             P(c) == {k \in DOMAIN accq[c] : accq[c][k] = s}
             B == UNION {{c} \X P(c) : c \in Clients}
             C == {c \in Clients : pc[c] = "recvfd" /\ cur[c] = s}
  <1>1. \A x, y \in A : x = y
    BY DEF InOnePlace
  <1>2. \A x, y \in C : x = y
    BY DEF InOnePlace
  <1>3. \A z \in B : \E c \in Clients : \E k \in DOMAIN accq[c] : z = <<c, k>> /\ accq[c][k] = s
    <2>1. ASSUME NEW z \in B
          PROVE  \E c \in Clients : \E k \in DOMAIN accq[c] : z = <<c, k>> /\ accq[c][k] = s
      <3>1. PICK c \in Clients : z \in {c} \X P(c)
        OBVIOUS
      <3> QED BY <3>1
    <2> QED BY <2>1
  <1>4. \A c \in Clients : \A k \in DOMAIN accq[c] : accq[c][k] = s => <<c, k>> \in B
    OBVIOUS
  <1>c. Copies(s) = Cardinality(A) + Cardinality(B) + Cardinality(C)
    BY DEF Copies
  <1>5. (A = {} /\ B = {}) \/ (A = {} /\ C = {}) \/ (B = {} /\ C = {})
    <2>1. A # {} => C = {}
      BY DEF InOnePlace
    <2>2. A # {} => B = {}
      <3> HIDE DEF B
      <3> QED BY <1>3 DEF InOnePlace
    <2>3. C # {} => B = {}
      <3> HIDE DEF B
      <3> QED BY <1>3 DEF InOnePlace
    <2> QED BY <2>1, <2>2, <2>3
  <1>6. Somewhere(s) /\ (\A c \in Clients : s \notin stray[c]) => A # {} \/ B # {} \/ C # {}
    <2> SUFFICES ASSUME Somewhere(s), \A c \in Clients : s \notin stray[c]
                 PROVE  A # {} \/ B # {} \/ C # {}
      OBVIOUS
    <2>1. PICK c \in Clients : Holds(c, s)
      BY DEF Somewhere
    <2>2. CASE usfd[c] = s
      BY <2>2 DEF Held
    <2>3. CASE cur[c] = s
      BY <2>3 DEF Held
    <2>4. CASE \E k \in DOMAIN accq[c] : accq[c][k] = s
      <3> HIDE DEF B
      <3> QED BY <1>4, <2>4
    <2> QED BY <2>1, <2>2, <2>3, <2>4 DEF Holds
  <1>7. \A x, y \in B : x = y
    <2> HIDE DEF B
    <2>1. ASSUME NEW x \in B, NEW y \in B PROVE x = y
      <3>1. PICK c \in Clients : \E j \in DOMAIN accq[c] : x = <<c, j>> /\ accq[c][j] = s
        BY <1>3
      <3>2. PICK d \in Clients : \E k \in DOMAIN accq[d] : y = <<d, k>> /\ accq[d][k] = s
        BY <1>3
      <3>3. PICK j \in DOMAIN accq[c] : x = <<c, j>> /\ accq[c][j] = s
        BY <3>1
      <3>4. PICK k \in DOMAIN accq[d] : y = <<d, k>> /\ accq[d][k] = s
        BY <3>2
      <3>5. c = d /\ j = k
        BY <3>3, <3>4 DEF InOnePlace
      <3> QED BY <3>3, <3>4, <3>5
    <2> QED BY <2>1
  <1> HIDE DEF A, B, C
  <1>8. /\ Cardinality(A) \in {0, 1} /\ (A # {} => Cardinality(A) = 1)
           /\ (A = {} => Cardinality(A) = 0)
        /\ Cardinality(B) \in {0, 1} /\ (B # {} => Cardinality(B) = 1)
           /\ (B = {} => Cardinality(B) = 0)
        /\ Cardinality(C) \in {0, 1} /\ (C # {} => Cardinality(C) = 1)
           /\ (C = {} => Cardinality(C) = 0)
    BY <1>1, <1>2, <1>7, AtMostOne
  <1> HIDE DEF P
  <1> QED BY <1>c, <1>5, <1>6, <1>8

LEMMA TrackedOnce == Typed /\ Tracked => SessionOnce
  <1> SUFFICES ASSUME Typed, Tracked PROVE SessionOnce
    OBVIOUS
  <1> USE DEF Tracked
  <1>0. ASSUME NEW s \in Clients
        PROVE /\ Copies(s) \in {0, 1}
              /\ Somewhere(s) /\ (\A c \in Clients : s \notin stray[c]) => Copies(s) = 1
    <2>1. s # Bad /\ InOnePlace(s)
      BY Names DEF Once
    <2> QED BY <2>1, CopiesCount
  <1>1. \A s \in Clients : Copies(s) <= 1
    BY <1>0
  <1>2. failed \cap {"connect", "recvfd", "listen"} = {} /\ served # Bad => Copies(served) = 1
    <2> SUFFICES ASSUME failed \cap Shut = {}, served # Bad PROVE Copies(served) = 1
      BY DEF Shut
    <2>1. served \in Clients /\ Somewhere(served)
      BY DEF Typed, EssTypes, Fds, Kept
    <2>2. \A c \in Clients : served \notin stray[c]
      BY DEF Blamed, Shut
    <2> QED BY <1>0, <2>1, <2>2
  <1>3. failed \subseteq {"read"} => \A c \in Clients : pc[c] = "read" => usfd[c] # Bad
    BY DEF Given, Turn
  <1> QED BY <1>1, <1>2, <1>3 DEF SessionOnce

\* SessionOnce: however clients register, signal and are interrupted, no two of them ever
\* have the descriptor of a session, and it is lost only by a call that failed.
THEOREM SessionOnceTheorem == Spec => []SessionOnce
  <1>1. Init => Typed /\ Counted /\ Tracked
    BY TypesInit, TrackedInit
  <1>2. Typed /\ Counted /\ Tracked /\ [Next]_vars => (Typed /\ Counted /\ Tracked)'
    BY TypesStep, CountedStep, TypesStill, TrackedStep, TrackedStill
  <1>3. Typed /\ Counted /\ Tracked => SessionOnce
    BY TrackedOnce
  <1> QED BY <1>1, <1>2, <1>3, PTL DEF Spec

-----------------------------------------------------------------------------
(* Greetings and replies *)

\* A client has read the greeting and not answered it.
Holder == \E c \in Clients : pc[c] = "write" /\ usfd[c] = served
\* The ESS writes, the greeting waits, a client has it, or its reply waits.
Phases == \/ essPc = "write" /\ greets = 0 /\ ~replies /\ ~Holder
          \/ essPc = "read" /\ greets = 1 /\ ~replies /\ ~Holder
          \/ essPc = "read" /\ greets = 0 /\ ~replies /\ Holder
          \/ essPc = "read" /\ greets = 0 /\ replies /\ ~Holder
Live == Somewhere(served) /\ "read" \notin failed /\ served # Bad
Greeted == /\ served = Bad <=> essPc = "accept"
           /\ served = Bad => greets = 0 /\ ~replies
           /\ Live => Phases

\* What a step changes of the exchange with the ESS.
Silent == /\ UNCHANGED ess
          /\ Live' => Live /\ (Holder' <=> Holder)

LEMMA GreetedSilent == ASSUME Greeted, Silent PROVE Greeted'
  BY DEF Greeted, Silent, Phases, ess

\* The same holder, when no descriptor of the session enters or leaves a "write".
LEMMA SilentIf ==
    ASSUME UNCHANGED ess, failed \subseteq failed',
           served # Bad => (Somewhere(served)' => Somewhere(served)),
           \A c \in Clients :
             (pc'[c] = "write" /\ usfd'[c] # Bad) <=> (pc[c] = "write" /\ usfd[c] # Bad),
           \A c \in Clients : pc[c] = "write" => usfd'[c] = usfd[c]
    PROVE  Silent
  <1>1. served' = served /\ (Live' => Live)
    BY DEF Live, ess, Somewhere, Holds
  <1>2. ASSUME served # Bad PROVE Holder' <=> Holder
    BY <1>1, <1>2 DEF Holder
  <1> QED BY <1>1, <1>2 DEF Silent, Live

\* No step but the first turn of a client brings a session into being.
LEMMA NoneNew ==
    ASSUME Typed, Tracked, NEW c \in Clients, NEW x \in Fds, x # Bad, Somewhere(x)',
           Accept(c) \/ RecvFd(c) \/ Connect(c) \/ SendFd(c) \/ CloseFd(c) \/ End(c)
    PROVE  Somewhere(x)
  <1>0. \A d \in Clients : x # Open(d)
    BY Names
  <1>1. CASE Accept(c)
    <2>1. Taking(c)
      BY <1>1, Accepted
    <2> QED BY <2>1 DEF Taking, Somewhere, Holds
  <1>2. CASE RecvFd(c)
    <2>1. \A d \in Clients : /\ stray'[d] = stray[d] /\ accq'[d] = accq[d]
                             /\ usfd'[d] \in {usfd[d], cur[d]} /\ cur'[d] \in {cur[d], Bad}
      BY <1>2 DEF RecvFd, Typed, FdTypes
    <2> QED BY <2>1 DEF Somewhere, Holds
  <1>3. CASE Connect(c)
    <2>1. CASE accq' = accq
      <3>1. UNCHANGED Flow
        BY <1>3, <2>1 DEF Connect, Flow
      <3> QED BY <3>1, SomewhereSame
    <2>2. CASE accq' # accq
      <3>1. PICK b \in Clients : \E n \in DOMAIN accq'[b] : Queueing(c, b, n)
        BY <1>3, <2>2, Enqueued
      <3> QED BY <1>0, <3>1 DEF Queueing, Somewhere, Holds
    <2> QED BY <2>1, <2>2
  <1>4. CASE SendFd(c)
    <2>1. Handing(c)
      BY <1>4, HandedOver
    <2>2. CASE x = usfd[c]
      BY <2>2 DEF Somewhere, Holds
    <2>3. CASE x # usfd[c]
      <3>1. \A y : Handed(c, y) = x => y = x
        BY <2>3 DEF Handed
      <3> QED BY <2>1, <3>1 DEF Handing, Somewhere, Holds
    <2> QED BY <2>2, <2>3
  <1>5. CASE CloseFd(c)
    <2>1. Fewer
      BY <1>5 DEF Fewer, CloseFd, conns, Typed, FdTypes
    <2> QED BY <2>1, NoMore
  <1>6. CASE End(c)
    BY <1>6, Ended, NoMore
  <1> QED BY <1>1, <1>2, <1>3, <1>4, <1>5, <1>6

LEMMA GreetedMoves ==
    ASSUME Typed, Tracked, Greeted, NEW c \in Clients,
           Accept(c) \/ RecvFd(c) \/ Connect(c) \/ SendFd(c) \/ CloseFd(c)
    PROVE  Greeted'
  <1>1. served \in Fds
    BY DEF Typed, EssTypes
  <1>2. served # Bad /\ Somewhere(served)' => Somewhere(served)
    <2>1. served' = served
      BY DEF Accept, RecvFd, Connect, SendFd, CloseFd, ess
    <2> QED BY <1>1, <2>1, NoneNew DEF Somewhere, Holds
  <1>3. UNCHANGED ess /\ failed \subseteq failed'
    BY DEF Accept, RecvFd, Connect, SendFd, CloseFd
  <1>4. ASSUME NEW d \in Clients PROVE /\ pc'[d] = "write" <=> pc[d] = "write"
                                       /\ pc[d] = "write" => usfd'[d] = usfd[d]
    <2> USE DEF Goto, Typed, ClientTypes, FdTypes
    <2>1. CASE Accept(c)
      BY <2>1 DEF Accept
    <2>2. CASE RecvFd(c)
      BY <2>2 DEF RecvFd
    <2>3. CASE Connect(c)
      BY <2>3 DEF Connect
    <2>4. CASE SendFd(c)
      BY <2>4 DEF SendFd
    <2>5. CASE CloseFd(c)
      BY <2>5 DEF CloseFd
    <2> QED BY <2>1, <2>2, <2>3, <2>4, <2>5
  <1> QED BY <1>2, <1>3, <1>4, SilentIf, GreetedSilent

LEMMA GreetedWait ==
    ASSUME Typed, Tracked, Greeted, NEW c \in Clients,
           \/ Launch(c) \/ Check(c) \/ TakeSlot(c) \/ PutNumber(c) \/ PutPid(c) \/ LoadI(c)
           \/ StoreI(c) \/ BindListen(c) \/ Install(c) \/ TellLeft(c) \/ TellRight(c)
           \/ SignalNext(c)
           \/ (BeginTurn(c) /\ flag1[c])
    PROVE  Greeted'
  <1>0. Held
    BY DEF Tracked
  <1>1. Quiet
    BY <1>0, QuietSteps, QuietWait
  <1>2. UNCHANGED ess
    BY DEF Launch, Check, TakeSlot, PutNumber, PutPid, LoadI, StoreI, BindListen, Install,
           TellLeft, TellRight, SignalNext, BeginTurn, ess
  <1>3. ASSUME NEW d \in Clients PROVE pc'[d] = "write" <=> pc[d] = "write"
    BY DEF Goto, Typed, ClientTypes, Launch, Check, TakeSlot, PutNumber, PutPid, LoadI, StoreI,
           BindListen, Install, TellLeft, TellRight, SignalNext, BeginTurn
  <1>4. served' = served /\ usfd' = usfd /\ failed \subseteq failed'
    BY <1>1 DEF Quiet, Flow
  <1>5. Somewhere(served)' => Somewhere(served)
    BY <1>1, <1>4, SomewhereSame DEF Quiet, Somewhere, Holds
  <1> QED BY <1>2, <1>3, <1>4, <1>5, SilentIf, GreetedSilent

LEMMA GreetedEnd ==
    ASSUME Typed, Tracked, Greeted, NEW c \in Clients, End(c), UNCHANGED ess
    PROVE  Greeted'
  <1>1. /\ Fewer /\ failed \subseteq failed' /\ served' = served /\ served \in Fds
        /\ \A d \in Clients : d # c => pc'[d] = pc[d] /\ usfd'[d] = usfd[d] /\ cur'[d] = cur[d]
                                       /\ stray'[d] = stray[d] /\ accq'[d] = accq[d]
        /\ pc'[c] = "dead" /\ usfd'[c] = Bad /\ cur'[c] = Bad /\ stray'[c] = {} /\ accq'[c] = <<>>
    BY Ended DEF ess, Typed, EssTypes
  <1>2. ASSUME Live' PROVE Live /\ (Holder' <=> Holder)
    <2>1. served # Bad /\ Somewhere(served)
      BY <1>1, <1>2, NoMore DEF Live, Somewhere, Holds
    <2>2. InOnePlace(served)
      BY <1>1, <2>1, Names DEF Tracked, Once
    <2>3. PICK d \in Clients : Holds(d, served)'
      BY <1>1, <1>2 DEF Live, Somewhere, Holds
    <2>4. d # c
      BY <1>1, <2>1, <2>3 DEF Holds
    <2>5. Holds(d, served)
      BY <1>1, <2>3, <2>4 DEF Holds
    <2>6. usfd[c] # served
      BY <2>2, <2>4, <2>5 DEF InOnePlace, Holds
    <2>7. Holder' <=> Holder
      BY <1>1, <2>1, <2>6 DEF Holder
    <2> QED BY <1>1, <1>2, <2>1, <2>7 DEF Live
  <1> QED BY <1>2, GreetedSilent DEF Silent

LEMMA GreetedFirst ==
    ASSUME Typed, Tracked, Greeted, NEW c \in Clients, BeginTurn(c), ~flag1[c]
    PROVE  Greeted'
  <1>0. /\ \A d \in Clients : /\ accq'[d] = accq[d] /\ cur'[d] = cur[d] /\ stray'[d] = stray[d]
                              /\ d # c => pc'[d] = pc[d] /\ usfd'[d] = usfd[d]
        /\ pc[c] = "loop" /\ pc'[c] = "read" /\ usfd[c] = Bad /\ usfd'[c] = c
        /\ failed' = failed /\ UNCHANGED <<greets, replies>>
        /\ IF essPc = "accept" THEN served' = c
           /\ essPc' = "write" ELSE UNCHANGED <<served, essPc>>
    BY DEF BeginTurn, Goto, conns, Typed, ClientTypes, FdTypes, Tracked, Held, Turn
  <1>1. ~Somewhere(c) /\ served # c /\ c # Bad
    BY <1>0, Names DEF Tracked, Unused, Fresh
  <1>2. CASE essPc = "accept"
    <2>1. ~Holder'
      BY <1>0, <1>1, <1>2 DEF Holder, Somewhere, Holds
    <2> QED BY <1>0, <1>1, <1>2, <2>1 DEF Greeted, Phases
  <1>3. CASE essPc # "accept"
    <2>1. Somewhere(served)' /\ served # Bad => Somewhere(served)
      BY <1>0, <1>1, <1>3 DEF Somewhere, Holds
    <2>2. Holder' <=> Holder
      BY <1>0, <1>1, <1>3 DEF Holder
    <2>3. Live' => Live
      BY <1>0, <1>3, <2>1 DEF Live, Somewhere, Holds
    <2> QED BY <1>0, <1>3, <2>2, <2>3 DEF Greeted, Phases
  <1> QED BY <1>2, <1>3

LEMMA GreetedRead ==
    ASSUME Typed, Tracked, Greeted, NEW c \in Clients, ReadGreeting(c)
    PROVE  Greeted'
  <1>0. /\ \A d \in Clients : d # c => pc'[d] = pc[d]
        /\ pc[c] = "read" /\ pc'[c] = "write"
        /\ UNCHANGED Flow /\ UNCHANGED <<served, essPc, replies, failed>>
    BY DEF ReadGreeting, Goto, Flow, conns, Typed, ClientTypes
  <1>1. Live' <=> Live
    BY <1>0 DEF Live, Somewhere, Holds, Flow
  <1>2. CASE (usfd[c] = Bad \/ Reset(c)) /\ UNCHANGED greets
    <2>1. served # Bad => (Holder' <=> Holder)
      BY <1>0, <1>2 DEF Holder, Flow, Reset
    <2> QED BY <1>0, <1>1, <1>2, <2>1 DEF Greeted, Phases, Live
  <1>3. CASE usfd[c] = served /\ served # Bad /\ greets > 0 /\ greets' = greets - 1
    <2>1. Holder'
      BY <1>0, <1>3 DEF Holder, Flow
    <2>2. Live => essPc = "read" /\ greets = 1 /\ ~replies
      BY <1>3 DEF Greeted, Phases
    <2> QED BY <1>0, <1>1, <1>3, <2>1, <2>2 DEF Greeted, Phases
  <1> QED BY <1>2, <1>3 DEF ReadGreeting

LEMMA GreetedWrite ==
    ASSUME Typed, Tracked, Greeted, NEW c \in Clients, WriteReply(c)
    PROVE  Greeted'
  <1>0. /\ \A d \in Clients : d # c => pc'[d] = pc[d]
        /\ pc[c] = "write" /\ pc'[c] = "kill"
        /\ UNCHANGED Flow /\ UNCHANGED <<served, essPc, greets, failed>>
        /\ replies' = (replies \/ (usfd[c] = served /\ served # Bad)) /\ replies \in BOOLEAN
    BY DEF WriteReply, Goto, Flow, conns, Typed, ClientTypes, EssTypes
  <1>1. Live' <=> Live
    BY <1>0 DEF Live, Somewhere, Holds, Flow
  <1>2. CASE usfd[c] = served /\ served # Bad
    <2>1. Holder
      BY <1>0, <1>2 DEF Holder
    <2>2. InOnePlace(served)
      BY <1>2, Names DEF Tracked, Once, Typed, EssTypes
    <2>3. ~Holder'
      BY <1>0, <1>2, <2>2 DEF Holder, Flow, InOnePlace
    <2>4. Live => essPc = "read" /\ greets = 0
      BY <2>1 DEF Greeted, Phases
    <2> QED BY <1>0, <1>1, <1>2, <2>3, <2>4 DEF Greeted, Phases
  <1>3. CASE ~(usfd[c] = served /\ served # Bad)
    <2>1. served # Bad => (Holder' <=> Holder)
      BY <1>0, <1>3 DEF Holder, Flow
    <2>2. replies' = replies
      BY <1>0, <1>3
    <2> QED BY <1>0, <1>1, <2>1, <2>2 DEF Greeted, Phases, Live
  <1> QED BY <1>2, <1>3

LEMMA GreetedDeliver ==
    ASSUME Typed, Tracked, Greeted, NEW c \in Clients, NEW sig \in {"USR1", "USR2"},
           Deliver(c, sig)
    PROVE  Greeted'
  <1> USE DEF Typed, ClientTypes, FdTypes
  <1>0. UNCHANGED ess /\ UNCHANGED accq
    BY DEF Deliver
  <1>1. CASE UNCHANGED <<pc, usfd, cur, stray, failed>>
    <2>1. Somewhere(served)' <=> Somewhere(served)
      BY <1>0, <1>1 DEF Somewhere, Holds, ess
    <2> QED BY <1>0, <1>1, <2>1, SilentIf, GreetedSilent
  <1>2. CASE Blocked(c) /\ Interrupt(c)
    <2>1. CASE pc[c] = "read"
      <3>1. "read" \in failed'
        BY <1>2, <2>1 DEF Interrupt
      <3> QED BY <1>0, <3>1, GreetedSilent DEF Silent, Live
    <2>2. CASE pc[c] \in {"accept", "recvfd", "connect"}
      <3>1. usfd' = usfd
        BY <1>2, <2>2 DEF Interrupt, Tracked, Held, Turn
      <3>2. \A d \in Clients : (pc'[d] = "write" <=> pc[d] = "write")
        BY <1>2, <2>2 DEF Interrupt
      <3>3. served # Bad => (Somewhere(served)' => Somewhere(served))
        <4>1. \A d \in Clients : cur'[d] \in {cur[d], Bad}
                /\ stray'[d] \subseteq stray[d] \cup {cur[d]}
          BY <1>2 DEF Interrupt
        <4> QED BY <1>0, <3>1, <4>1 DEF Somewhere, Holds, ess
      <3>4. failed \subseteq failed'
        BY <1>2 DEF Interrupt
      <3> QED BY <1>0, <3>1, <3>2, <3>3, <3>4, SilentIf, GreetedSilent
    <2> QED BY <1>2, <2>1, <2>2 DEF Blocked
  <1> QED BY <1>1, <1>2 DEF Deliver

LEMMA GreetedESS ==
    ASSUME Typed, Greeted, Greet \/ TakeReply \/ SessionClosed
    PROVE  Greeted'
  <1>0. UNCHANGED Flow /\ UNCHANGED <<pc, served, failed>>
    BY DEF Greet, TakeReply, SessionClosed, Flow, conns
  <1>1. (Live' <=> Live) /\ (Holder' <=> Holder)
    BY <1>0 DEF Live, Holder, Somewhere, Holds, Flow
  <1>2. CASE Greet
    BY <1>0, <1>1, <1>2 DEF Greeted, Phases, Greet
  <1>3. CASE TakeReply
    BY <1>0, <1>1, <1>3 DEF Greeted, Phases, TakeReply
  <1>4. CASE SessionClosed
    <2>1. ~Live
      BY <1>4 DEF SessionClosed, SessionOpen, Live, Somewhere, Holds
    <2> QED BY <1>0, <1>1, <1>4, <2>1 DEF Greeted, SessionClosed
  <1> QED BY <1>2, <1>3, <1>4

LEMMA GreetedStep ==
    ASSUME Typed, Tracked, Greeted, Next PROVE Greeted'
  <1>1. ASSUME NEW c \in Clients, Launch(c) \/ ClientStep(c) PROVE Greeted'
    <2>1. CASE BeginTurn(c) /\ ~flag1[c]
      BY <2>1, GreetedFirst
    <2>2. CASE ReadGreeting(c)
      BY <2>2, GreetedRead
    <2>3. CASE WriteReply(c)
      BY <2>3, GreetedWrite
    <2>4. CASE SendBroken(c) \/ WriteBroken(c)
      BY <2>4, GreetedEnd DEF SendBroken, WriteBroken
    <2>5. CASE Accept(c) \/ RecvFd(c) \/ Connect(c) \/ SendFd(c) \/ CloseFd(c)
      BY <2>5, GreetedMoves
    <2>6. CASE \/ Launch(c) \/ Check(c) \/ TakeSlot(c) \/ PutNumber(c) \/ PutPid(c) \/ LoadI(c)
               \/ StoreI(c) \/ BindListen(c) \/ Install(c) \/ TellLeft(c) \/ TellRight(c)
           \/ SignalNext(c)
               \/ (BeginTurn(c) /\ flag1[c])
      BY <2>6, GreetedWait
    <2> QED BY <1>1, <2>1, <2>2, <2>3, <2>4, <2>5, <2>6 DEF ClientStep
  <1>2. ASSUME NEW c \in Clients, NEW sig \in {"USR1", "USR2"}, Deliver(c, sig) \/ Killed(c, sig)
        PROVE Greeted'
    BY <1>2, GreetedDeliver, GreetedEnd DEF Killed
  <1>3. ASSUME Greet \/ TakeReply \/ SessionClosed PROVE Greeted'
    BY <1>3, GreetedESS
  <1> QED BY <1>1, <1>2, <1>3 DEF Next

LEMMA GreetedStill == ASSUME Greeted, UNCHANGED vars PROVE Greeted'
  BY GreetedSilent DEF vars, ess, conns, Silent, Live, Holder, Somewhere, Holds

\* GreetingAnswered: while no read() was interrupted, every greeting is read by the client
\* whose turn it is before that client answers, and answered before the next greeting.
THEOREM GreetingAnsweredTheorem == Spec => []GreetingAnswered
  <1>1. Init => Typed /\ Counted /\ Tracked /\ Greeted
    <2>1. Init => Greeted
      BY DEF Init, Greeted, Live
    <2> QED BY <2>1, TypesInit, TrackedInit
  <1>2. Typed /\ Counted /\ Tracked /\ Greeted /\ [Next]_vars =>
         (Typed /\ Counted /\ Tracked /\ Greeted)'
    BY TypesStep, CountedStep, TypesStill, TrackedStep, TrackedStill, GreetedStep, GreetedStill
  <1>3. Typed /\ Counted /\ Tracked /\ Greeted => GreetingAnswered
    <2> SUFFICES ASSUME Typed, Tracked, Greeted, SessionOpen, "read" \notin failed
                 PROVE  /\ greets > 0 => essPc = "read" /\ ~replies /\ greets = 1
                        /\ \A c \in Clients : pc[c] = "write" /\ usfd[c] = served
                           /\ served # Bad =>
                             greets = 0 /\ ~replies /\ essPc = "read"
      BY DEF GreetingAnswered
    <2>1. CASE served = Bad
      BY <2>1 DEF Greeted
    <2>2. CASE served # Bad
      <3>1. Live
        BY <2>2 DEF Live, SessionOpen, Somewhere, Holds
      <3>2. Phases
        BY <3>1 DEF Greeted
      <3>3. (\E c \in Clients : pc[c] = "write" /\ usfd[c] = served) => Holder
        BY DEF Holder
      <3> QED BY <3>2, <3>3 DEF Phases
    <2> QED BY <2>1, <2>2
  <1> QED BY <1>1, <1>2, <1>3, PTL DEF Spec

-----------------------------------------------------------------------------
(* The ring, when clients are launched one after the other *)

Storing == {"num", "pid", "inc", "store"}
Late == {"bind", "usr1", "usr2", "tell"}
\* A client that its left neighbour has been told of, and those that nobody knows.
Joined(c) == Member(c) \/ pc[c] = "tellright"
Outside == {"new", "check", "slot", "num", "pid", "inc", "store", "bind", "usr1", "usr2", "tell"}
Stored(c) == pc[c] \in Late \/ Joined(c)
\* The client in slot k has told its left neighbour of itself.
InRing(k) == k \in Slots /\ k < mi /\ Joined(pids[k])

\* One client enters at a time, and nobody knows it while it does.
Alone == /\ \A c \in Clients : pc[c] # "dead"
         /\ \A c, d \in Clients : pc[c] \in Registering /\ pc[d] \in Registering => c = d
         /\ \A c \in Clients :
              pc[c] \in Outside => right[c] = 0 /\ pending[c] = {}
\* The used part of the table names each client that is in it once.
Tabled == /\ \A c \in Clients : Stored(c) => idx[c] < mi /\ pids[idx[c]] = c /\ cliNum[idx[c]] = c
          /\ \A k \in Slots : k < mi => pids[k] \in Clients /\ idx[pids[k]] = k /\ Stored(pids[k])
\* What the client that enters has done so far.
Entering == \A c \in Clients :
    /\ pc[c] \in {"new", "check", "slot"} => idx[c] = 0
    /\ pc[c] \in {"slot"} \cup Storing => (flag1[c] <=> mi # 0)
    /\ pc[c] \in Storing => idx[c] = mi
    /\ pc[c] \in {"pid", "inc", "store"} => cliNum[mi] = c
    /\ pc[c] \in {"inc", "store"} => pids[mi] = c
    /\ pc[c] = "store" => tmp[c] = mi
    /\ pc[c] \in Late => idx[c] + 1 = mi /\ (flag1[c] <=> idx[c] # 0)
    /\ pc[c] = "tellright" => idx[c] + 1 = mi /\ flag1[c] /\ idx[c] # 0
\* The handlers installed ...
Handling == \A c \in Clients :
    /\ pc[c] \in {"usr2", "tell"} \/ Joined(c) => "USR1" \in handles[c]
    /\ pc[c] = "tell" \/ Joined(c) => "USR2" \in handles[c]
\* ... and the connection a client sends on.
Sending == \A c \in Clients : pc[c] = "send" => Somewhere(Open(c))
\* A member knows its right neighbour or has its SIGUSR1 pending; the last has none.
Link(c) == LET k == idx[c] + 1 IN
    /\ idx[c] # 0 => flag1[c]
    /\ IF InRing(k) THEN \/ right[c] = k
                         \/ right[c] = 0 /\ "USR1" \in pending[c] /\ sender[c] = pids[k]
                    ELSE right[c] = 0 /\ "USR1" \notin pending[c]
    /\ "USR1" \in pending[c] => /\ sender[c] \in Clients /\ Joined(sender[c])
                                /\ idx[c] # 0 => idx[sender[c]] = k
Linkage == \A c \in Clients : Joined(c) => Link(c)
Forming == shm # "init" /\ Alone /\ Tabled /\ Entering /\ Handling /\ Sending /\ Linkage
\* On the shorter segment of init.c every client fails in shmget().
Failing == shm = "init" /\ \A c \in Clients : pc[c] \in {"new", "dead"} /\ pending[c] = {}
\* One client alone opens a session, the one the ESS serves.
Sole == /\ \A c \in Clients : ~flag1[c] => idx[c] = 0
        /\ served # Bad => \A c \in Clients : pc[c] \notin {"new", "check"} => flag1[c]
        /\ \A s \in Clients : Somewhere(s) => served = s
Ring == sequential => (Forming /\ Sole) \/ Failing

LEMMA RingTypes ==
    ASSUME Typed
    PROVE  /\ mi \in Nat
           /\ \A c \in Clients : idx[c] \in Slots /\ idx[c] \in Nat /\ pc[c] \in PCs
           /\ \A k \in Slots : k \in Nat
  <1>1. \A k \in Slots : k \in Nat
    BY Numbers DEF Slots
  <1>2. mi \in Nat
    BY Numbers DEF Typed, TableTypes
  <1> QED BY <1>1, <1>2 DEF Typed, ClientTypes

\* A connection on which nothing was sent stays open until it is sent on, or its owner ends.
LEMMA OpenStays ==
    ASSUME Typed, Tracked, NEW c \in Clients, NEW e \in Clients, Somewhere(Open(e)),
           \/ Accept(c) \/ RecvFd(c) \/ Connect(c) \/ CloseFd(c) \/ BeginTurn(c)
           \/ SendFd(c) /\ e # c
    PROVE  Somewhere(Open(e))'
  <1>0. \A d \in Clients : usfd[d] # Open(e)
    BY Names DEF Typed, FdTypes
  <1>p. PICK d \in Clients : cur[d] = Open(e) \/ Open(e) \in stray[d]
                             \/ \E k \in DOMAIN accq[d] : accq[d][k] = Open(e)
    BY <1>0 DEF Somewhere, Holds
  <1>1. CASE Accept(c)
    <2>1. Taking(c)
      BY <1>1, Accepted
    <2>2. Bad # Open(e)
      BY Names
    <2> QED BY <1>p, <2>1, <2>2 DEF Taking, Somewhere, Holds, Open
  <1>2. CASE RecvFd(c)
    <2>1. /\ \A b \in Clients : /\ stray'[b] = stray[b] /\ accq'[b] = accq[b]
                                /\ b # c => cur'[b] = cur[b]
          /\ cur[c] \in Fds
      BY <1>2 DEF RecvFd, Typed, FdTypes
    <2>2. Open(e) \notin Fds
      BY Names
    <2> QED BY <1>p, <2>1, <2>2 DEF Somewhere, Holds, Open
  <1>3. CASE Connect(c)
    <2>1. CASE accq' = accq
      <3>1. UNCHANGED Flow
        BY <1>3, <2>1 DEF Connect, Flow
      <3> QED BY <3>1 DEF Flow, Somewhere, Holds, Open
    <2>2. CASE accq' # accq
      <3>1. PICK b \in Clients : \E n \in DOMAIN accq'[b] : Queueing(c, b, n)
        BY <1>3, <2>2, Enqueued
      <3> QED BY <1>p, <3>1 DEF Queueing, Somewhere, Holds, Open
    <2> QED BY <2>1, <2>2
  <1>4. CASE SendFd(c) /\ e # c
    <2>1. Handing(c)
      BY <1>4, HandedOver
    <2>2. Handed(c, Open(e)) = Open(e)
      BY <1>4, Names DEF Handed
    <2> QED BY <1>p, <2>1, <2>2 DEF Handing, Somewhere, Holds, Open
  <1>5. CASE CloseFd(c) \/ BeginTurn(c)
    <2>1. UNCHANGED conns
      BY <1>5 DEF CloseFd, BeginTurn
    <2> QED BY <1>p, <2>1 DEF conns, Somewhere, Holds, Open
  <1> QED BY <1>1, <1>2, <1>3, <1>4, <1>5

\* What the clients in the ring do changes neither the table nor the links.
Looping ==
    /\ UNCHANGED <<sequential, shm, mi, cliNum, pids, idx, right, tmp, handles, sender>>
    /\ \A d \in Clients :
         /\ \/ pc'[d] = pc[d] /\ flag1'[d] = flag1[d]
            \/ /\ Joined(d) /\ Joined(d)' /\ (flag1[d] => flag1'[d])
               /\ pc'[d] # "tellright"
         /\ "USR1" \in pending'[d] <=> "USR1" \in pending[d]
         /\ pending'[d] = pending[d] \/ Joined(d)

LEMMA MembersApart ==
    /\ \A c \in Clients : Joined(c) => pc[c] \notin Outside \cup {"dead"}
    /\ \A c \in Clients : Joined(c)' => pc'[c] \notin Outside \cup {"dead"}
  BY DEF Joined, Member, Outside, Turn

LEMMA FormingLoop ==
    ASSUME Typed, Forming, Looping, Sending'
    PROVE  Forming'
  <1>0. \A d \in Clients : /\ Joined(d)' <=> Joined(d)
                           /\ pc[d] \in Outside \cup {"dead"} => pc'[d] = pc[d]
                              /\ flag1'[d] = flag1[d]
                           /\ pc'[d] \in Registering \cup {"new", "dead"} => pc'[d] = pc[d]
                              /\ flag1'[d] = flag1[d]
    <2>1. \A d \in Clients : Joined(d)' <=> Joined(d)
      BY DEF Looping, Joined, Member
    <2>2. \A d \in Clients : pc'[d] # pc[d] \/ flag1'[d] # flag1[d] =>
            Joined(d) /\ Joined(d)' /\ pc'[d] # "tellright"
      BY DEF Looping
    <2> QED BY <2>1, <2>2, MembersApart DEF Registering, Outside
  <1>s. \A d \in Clients : Stored(d)' <=> Stored(d)
    BY <1>0 DEF Stored, Late, Registering, Outside
  <1>1. Alone'
    BY <1>0, MembersApart DEF Forming, Alone, Looping
  <1>2. Tabled'
    BY <1>s DEF Forming, Tabled, Looping
  <1>3. Entering'
    BY <1>0 DEF Forming, Entering, Looping, Registering, Storing, Late
  <1>4. Handling'
    BY <1>0 DEF Forming, Handling, Looping, Registering
  <1>5. ASSUME NEW k PROVE InRing(k)' <=> InRing(k)
    BY <1>0 DEF InRing, Looping, Forming, Tabled
  <1>6. Linkage'
    <2>1. ASSUME NEW d \in Clients, Joined(d)' PROVE Link(d)'
      <3>1. Link(d)
        BY <1>0, <2>1 DEF Forming, Linkage
      <3>2. flag1[d] => flag1'[d]
        BY DEF Looping
      <3> QED BY <1>0, <1>5, <3>1, <3>2 DEF Link, Looping
    <2> QED BY <2>1 DEF Linkage
  <1> QED BY <1>1, <1>2, <1>3, <1>4, <1>6 DEF Forming, Looping

\* SIGUSR2 goes to a member of the ring.
LEMMA SignalledNext ==
    ASSUME Typed, Forming, NEW c \in Clients, SignalNext(c)
    PROVE  Looping
  <1> USE DEF Goto, Typed, ClientTypes, SignalTypes
  <1>0. /\ mi \in Nat
        /\ \A d \in Clients : idx[d] \in Slots /\ idx[d] \in Nat /\ pc[d] \in PCs
        /\ \A k \in Slots : k \in Nat
    BY RingTypes
  <1>1. /\ pc[c] = "kill" /\ pc'[c] = "connect" /\ \A d \in Clients : d # c => pc'[d] = pc[d]
        /\ UNCHANGED <<sequential, shm, mi, cliNum, pids, idx, right, tmp, handles, flag1>>
    BY DEF SignalNext, table, own, setup
  <1>2. Joined(c) /\ Joined(c)'
    BY <1>1 DEF Joined, Member, Turn
  <1>3. /\ sender' = sender
        /\ \A d \in Clients : "USR1" \in pending'[d] <=> "USR1" \in pending[d]
        /\ \A d \in Clients : pending'[d] = pending[d] \/ d = PidAt(c, right[c])
    <2>1. /\ pending' = [d \in Clients |-> IF d \in {PidAt(c, right[c])} /\ Alive(d)
                                           THEN pending[d] \cup {"USR2"} ELSE pending[d]]
          /\ sender' = [d \in Clients |-> sender[d]]
      BY DEF SignalNext, Signal
    <2> QED BY <2>1
  <1>4. Joined(PidAt(c, right[c]))
    <2>1. CASE InRing(idx[c] + 1) /\ right[c] = idx[c] + 1
      BY <1>0, <2>1, ESSRingAssumption DEF InRing, PidAt, Forming, Tabled
    <2>2. CASE right[c] = 0
      <3>1. idx[c] \in Slots /\ idx[c] < mi /\ 0 \in Slots /\ 0 < mi
        <4>1. idx[c] \in Slots /\ idx[c] < mi /\ idx[c] \in Nat
          BY <1>0, <1>2 DEF Forming, Tabled, Stored
        <4>2. 0 \in Slots
          BY <4>1, Numbers DEF Slots
        <4> QED BY <1>0, <4>1, <4>2
      <3>2. pids[0] \in Clients /\ idx[pids[0]] = 0 /\ Stored(pids[0])
        BY <3>1 DEF Forming, Tabled
      <3>3. PidAt(c, right[c]) = pids[0]
        BY <2>2, <3>1, <3>2, ESSRingAssumption DEF PidAt
      <3>4. pc[pids[0]] \in Late => pids[0] = c
        <4>1. ASSUME pc[pids[0]] \in Late PROVE mi = 1
          BY <3>2, <4>1 DEF Forming, Entering
        <4>2. ASSUME mi = 1 PROVE idx[c] = 0
          BY <1>0, <3>1, <4>2
        <4>3. pids[idx[c]] = c
          BY <1>2 DEF Forming, Tabled, Stored
        <4> QED BY <4>1, <4>2, <4>3
      <3> QED BY <1>2, <3>2, <3>3, <3>4 DEF Stored
    <2>3. right[c] = 0 \/ (InRing(idx[c] + 1) /\ right[c] = idx[c] + 1)
      BY <1>2 DEF Forming, Linkage, Link
    <2> QED BY <2>1, <2>2, <2>3
  <1> QED BY <1>1, <1>2, <1>3, <1>4 DEF Looping

LEMMA LoopSteps ==
    ASSUME Typed, Tracked, Forming, NEW c \in Clients,
           \/ BeginTurn(c) \/ Accept(c) \/ RecvFd(c) \/ ReadGreeting(c) \/ WriteReply(c)
           \/ Connect(c) \/ SendFd(c) \/ CloseFd(c)
    PROVE  Looping
  <1> USE DEF Goto, Typed, ClientTypes, table, setup, own, sigs, Looping, Joined, Member, Turn
  <1>1. CASE BeginTurn(c)
    BY <1>1 DEF BeginTurn
  <1>2. CASE Accept(c)
    BY <1>2 DEF Accept
  <1>3. CASE RecvFd(c)
    BY <1>3 DEF RecvFd
  <1>4. CASE ReadGreeting(c)
    BY <1>4 DEF ReadGreeting
  <1>5. CASE WriteReply(c)
    BY <1>5 DEF WriteReply
  <1>6. CASE Connect(c)
    BY <1>6 DEF Connect
  <1>7. CASE SendFd(c)
    BY <1>7 DEF SendFd
  <1>8. CASE CloseFd(c)
    BY <1>8 DEF CloseFd
  <1> QED BY <1>1, <1>2, <1>3, <1>4, <1>5, <1>6, <1>7, <1>8

LEMMA SendingSteps ==
    ASSUME Typed, Tracked, Forming, NEW c \in Clients,
           \/ BeginTurn(c) \/ Accept(c) \/ RecvFd(c) \/ ReadGreeting(c) \/ WriteReply(c)
           \/ SignalNext(c) \/ Connect(c) \/ SendFd(c) \/ CloseFd(c)
    PROVE  Sending'
  <1> USE DEF Typed, ClientTypes
  <1> SUFFICES ASSUME NEW e \in Clients, pc'[e] = "send" PROVE Somewhere(Open(e))'
    BY DEF Sending, Somewhere, Holds, Open
  <1>1. CASE pc[e] = "send"
    <2>1. Somewhere(Open(e))
      BY <1>1 DEF Forming, Sending
    <2>2. CASE ReadGreeting(c) \/ WriteReply(c) \/ SignalNext(c)
      <3>1. UNCHANGED Flow
        BY <2>2 DEF ReadGreeting, WriteReply, SignalNext, conns, Flow
      <3> QED BY <2>1, <3>1 DEF Flow, Somewhere, Holds, Open
    <2>3. CASE SendFd(c)
      <3>1. e # c
        BY <2>3 DEF SendFd, Goto
      <3> QED BY <2>1, <2>3, <3>1, OpenStays
    <2>4. CASE BeginTurn(c) \/ Accept(c) \/ RecvFd(c) \/ Connect(c) \/ CloseFd(c)
      BY <2>1, <2>4, OpenStays
    <2> QED BY <2>2, <2>3, <2>4
  <1>2. CASE pc[e] # "send"
    <2>1. Connect(c) /\ e = c
      BY <1>2 DEF BeginTurn, Accept, RecvFd, ReadGreeting, WriteReply, SignalNext, Connect,
         SendFd, CloseFd, Goto
    <2>2. \E d \in Clients : accq' = [accq EXCEPT ![d] = Append(@, Open(c))]
      BY <2>1 DEF Connect, Goto, Typed, TableTypes
    <2>3. PICK d \in Clients : accq' = [accq EXCEPT ![d] = Append(@, Open(c))]
      BY <2>2
    <2>4. accq[d] \in Seq(Conns) /\ Open(c) \in Conns /\ accq'[d] = Append(accq[d], Open(c))
      BY <2>3, Names DEF Typed, FdTypes
    <2>5. \E k \in DOMAIN accq'[d] : accq'[d][k] = Open(c)
      <3>1. Len(accq[d]) + 1 \in DOMAIN accq'[d] /\ accq'[d][Len(accq[d]) + 1] = Open(c)
        BY <2>4, AppendProperties
      <3> QED BY <3>1
    <2> QED BY <2>1, <2>5 DEF Somewhere, Holds, Open
  <1> QED BY <1>1, <1>2

LEMMA FormingMembers ==
    ASSUME Typed, Tracked, Forming, NEW c \in Clients,
           \/ BeginTurn(c) \/ Accept(c) \/ RecvFd(c) \/ ReadGreeting(c) \/ WriteReply(c)
           \/ SignalNext(c) \/ Connect(c) \/ SendFd(c) \/ CloseFd(c)
    PROVE  Forming'
  BY SignalledNext, LoopSteps, SendingSteps, FormingLoop

LEMMA FormingESS ==
    ASSUME Typed, Forming, Greet \/ TakeReply \/ SessionClosed
    PROVE  Forming'
  <1>1. Looping
    BY DEF Greet, TakeReply, SessionClosed, Looping, table, setup, own, sigs
  <1>2. Sending'
    BY DEF Greet, TakeReply, SessionClosed, conns, Forming, Sending, Somewhere, Holds, Open
  <1> QED BY <1>1, <1>2, FormingLoop

\* Nobody is ended: a member has both handlers, no other client is signalled, no session
\* but the one served is written to, and a connection is not closed before it is sent on.
LEMMA NobodyEnds ==
    ASSUME Typed, Forming, Sole, NEW c \in Clients
    PROVE  /\ pending[c] \subseteq handles[c]
           /\ ~SendBroken(c) /\ ~WriteBroken(c)
           /\ \A sig \in {"USR1", "USR2"} : ~Killed(c, sig)
  <1>1. pending[c] \subseteq handles[c]
    <2>1. CASE Joined(c)
      BY <2>1 DEF Forming, Handling, Typed, SignalTypes
    <2>2. CASE ~Joined(c)
      BY <2>2 DEF Forming, Alone, Joined, Member, Outside, Registering, Typed, ClientTypes, PCs
    <2> QED BY <2>1, <2>2
  <1>2. ~SendBroken(c)
    <2>1. \A d \in Clients : usfd[d] # Open(c)
      BY Names DEF Typed, FdTypes
    <2> QED BY <2>1 DEF SendBroken, Connected, Forming, Sending, Somewhere, Holds
  <1>3. ~WriteBroken(c)
    <2>1. usfd[c] \in Clients => served = usfd[c]
      BY DEF Sole, Somewhere, Holds
    <2> QED BY <2>1 DEF WriteBroken, Reset, Typed, FdTypes, Fds
  <1> QED BY <1>1, <1>2, <1>3 DEF Killed

LEMMA FormingDeliver ==
    ASSUME Typed, Tracked, Forming, NEW c \in Clients, NEW sig \in {"USR1", "USR2"},
           Deliver(c, sig)
    PROVE  Forming'
  <1> USE DEF Typed, ClientTypes, SignalTypes
  <1>0. /\ mi \in Nat
        /\ \A d \in Clients : idx[d] \in Slots /\ idx[d] \in Nat /\ pc[d] \in PCs
        /\ \A k \in Slots : k \in Nat
    BY RingTypes
  <1>1. Joined(c)
    BY DEF Deliver, Forming, Alone, Joined, Member, Outside, Registering, PCs
  <1>2. /\ UNCHANGED <<sequential, shm, mi, cliNum, pids, idx, flag1, tmp, handles, accq>>
        /\ \A d \in Clients : d # c => pc'[d] = pc[d] /\ pending'[d] = pending[d]
                                       /\ right'[d] = right[d] /\ sender'[d] = sender[d]
        /\ pending'[c] = pending[c] \ {sig}
    BY DEF Deliver, Interrupt, table, setup
  <1>3. /\ Joined(c)' /\ (pc'[c] = "send" => pc[c] = "send")
        /\ pc'[c] = pc[c] \/ pc'[c] \notin Registering
    <2>1. CASE UNCHANGED pc
      BY <1>1, <2>1 DEF Joined, Member
    <2>2. CASE Blocked(c) /\ Interrupt(c)
      <3>1. pc'[c] \in {"read", "write", "close"}
        BY <2>2 DEF Blocked, Interrupt
      <3> QED BY <3>1 DEF Joined, Member, Turn, Registering
    <2> QED BY <2>1, <2>2 DEF Deliver
  <1>4. Sending'
    <2> SUFFICES ASSUME NEW e \in Clients, pc'[e] = "send" PROVE Somewhere(Open(e))'
      BY DEF Sending, Somewhere, Holds, Open
    <2>1. Somewhere(Open(e)) /\ \A d \in Clients : usfd[d] # Open(e)
      BY <1>2, <1>3, Names DEF Forming, Sending, FdTypes
    <2>2. PICK d \in Clients : cur[d] = Open(e) \/ Open(e) \in stray[d]
                               \/ \E k \in DOMAIN accq[d] : accq[d][k] = Open(e)
      BY <2>1 DEF Somewhere, Holds
    <2>3. \A b \in Clients : stray[b] \subseteq stray'[b]
            /\ (cur'[b] = cur[b] \/ cur[b] \in stray'[b])
      BY DEF Deliver, Interrupt, FdTypes
    <2> QED BY <1>2, <2>2, <2>3 DEF Somewhere, Holds, Open
  <1>5. CASE sig = "USR2"
    <2>1. Looping
      BY <1>1, <1>2, <1>3, <1>5 DEF Looping, Deliver, Registering
    <2> QED BY <1>4, <2>1, FormingLoop
  <1>6. CASE sig = "USR1"
    <2>0. \A d \in Clients : /\ Joined(d)' <=> Joined(d)
                             /\ Stored(d)' <=> Stored(d)
                             /\ d # c => pc'[d] = pc[d]
      <3>1. ASSUME NEW d \in Clients PROVE Joined(d)' <=> Joined(d)
        BY <1>1, <1>2, <1>3 DEF Joined, Member
      <3>2. pc[c] \notin Late /\ pc'[c] \notin Late
        BY <1>1, <1>3 DEF Joined, Member, Late, Turn
      <3> QED BY <1>2, <3>1, <3>2 DEF Stored
    <2>c. /\ pc[c] \notin Outside \cup {"dead"} /\ pc'[c] \notin Outside \cup {"dead"}
          /\ pc'[c] = "tellright" => pc[c] = "tellright"
      BY <1>1, <1>3, MembersApart DEF Registering
    <2>1. Alone'
      <3>1. \A d \in Clients : pc'[d] \in Registering => pc[d] \in Registering
        BY <1>2, <1>3
      <3> QED BY <1>2, <2>0, <2>c, <3>1 DEF Forming, Alone
    <2>2. Tabled'
      BY <1>2, <2>0 DEF Forming, Tabled
    <2>3. Entering'
      BY <1>2, <2>0, <2>c DEF Forming, Entering, Outside, Storing, Late
    <2>4. Handling'
      BY <1>2, <2>0, <2>c DEF Forming, Handling, Outside
    <2>5. ASSUME NEW k PROVE InRing(k)' <=> InRing(k)
      BY <1>2, <2>0 DEF InRing, Forming, Tabled
    <2>6. Link(c)'
      <3> DEFINE k == idx[c] + 1
      <3>1. Link(c) /\ "USR1" \in pending[c]
        BY <1>1, <1>6 DEF Forming, Linkage, Deliver
      <3>2. /\ InRing(k) /\ (right[c] = k \/ (right[c] = 0 /\ sender[c] = pids[k]))
            /\ idx[c] # 0 => flag1[c]
        BY <3>1 DEF Link
      <3>3. right'[c] = NewRight(c, sender[c]) /\ "USR1" \notin pending'[c]
        BY <1>2, <1>6 DEF Deliver
      <3>4. k \in Slots /\ k < mi
        BY <3>2 DEF InRing
      <3>5. NewRight(c, sender[c]) = k
        <4>1. CASE flag1[c]
          BY <3>2, <3>4, <4>1 DEF NewRight
        <4>2. CASE ~flag1[c]
          <5>1. k = 1
            BY <1>0, <3>2, <4>2
          <5> QED BY <3>2, <3>4, <4>2, <5>1 DEF NewRight
        <4> QED BY <4>1, <4>2
      <3> QED BY <1>2, <2>5, <3>2, <3>3, <3>5 DEF Link
    <2>7. ASSUME NEW d \in Clients, d # c, Joined(d)' PROVE Link(d)'
      <3>1. Link(d)
        BY <2>0, <2>7 DEF Forming, Linkage
      <3> QED BY <1>2, <2>0, <2>5, <2>7, <3>1 DEF Link
    <2>8. Linkage'
      BY <2>6, <2>7 DEF Linkage
    <2> QED BY <1>2, <1>4, <2>1, <2>2, <2>3, <2>4, <2>8 DEF Forming
  <1> QED BY <1>5, <1>6

\* A client that is entering leaves the part of the table in use and the links alone.
Aside ==
    /\ UNCHANGED <<sequential, mi, right, pending, sender>> /\ shm' # "init"
    /\ \A k \in Slots : k < mi => pids'[k] = pids[k] /\ cliNum'[k] = cliNum[k]
    /\ UNCHANGED Flow
    /\ \A d \in Clients : /\ handles[d] \subseteq handles'[d]
                          /\ Stored(d) => idx'[d] = idx[d]
                          /\ Joined(d) => flag1'[d] = flag1[d] /\ pc'[d] = pc[d]
                          /\ Joined(d)' <=> Joined(d)
                          /\ Stored(d)' <=> Stored(d)

LEMMA AsideKeeps ==
    ASSUME Typed, Forming, Aside
    PROVE  Tabled' /\ Sending' /\ Linkage'
  <1>0. \A d \in Clients : idx[d] \in Slots
    BY RingTypes
  <1>1. Tabled'
    <2>1. ASSUME NEW d \in Clients, Stored(d)'
          PROVE  idx'[d] < mi' /\ pids'[idx'[d]] = d /\ cliNum'[idx'[d]] = d
      BY <1>0, <2>1 DEF Aside, Forming, Tabled
    <2>2. ASSUME NEW k \in Slots, k < mi'
          PROVE  pids'[k] \in Clients /\ (idx[pids[k]])' = k /\ Stored(pids[k])'
      BY <2>2 DEF Aside, Forming, Tabled
    <2> QED BY <2>1, <2>2 DEF Tabled
  <1>2. Sending'
    <2> SUFFICES ASSUME NEW e \in Clients, pc'[e] = "send" PROVE Somewhere(Open(e))'
      BY DEF Sending, Somewhere, Holds, Open
    <2>1. pc[e] = "send"
      BY DEF Aside, Joined, Member, Turn
    <2> QED BY <2>1 DEF Aside, Flow, Forming, Sending, Somewhere, Holds, Open
  <1>3. ASSUME NEW k PROVE /\ InRing(k)' <=> InRing(k)
                           /\ InRing(k) => pids'[k] = pids[k]
    BY DEF InRing, Aside, Forming, Tabled
  <1>4. Linkage'
    <2>1. ASSUME NEW d \in Clients, Joined(d)' PROVE Link(d)'
      <3>1. Joined(d) /\ Stored(d) /\ Link(d)
        BY <2>1 DEF Aside, Forming, Linkage, Stored
      <3>2. idx'[d] = idx[d] /\ flag1'[d] = flag1[d]
        BY <3>1 DEF Aside
      <3>3. UNCHANGED <<right, pending, sender>> /\ \A e \in Clients : Joined(e)' <=> Joined(e)
        BY DEF Aside
      <3>4. "USR1" \in pending[d] => /\ sender[d] \in Clients /\ Joined(sender[d])
                                     /\ idx[d] # 0 => idx[sender[d]] = idx[d] + 1
        BY <3>1 DEF Link
      <3>5. ASSUME "USR1" \in pending[d] PROVE idx'[sender[d]] = idx[sender[d]]
        <4>1. Stored(sender[d]) /\ sender[d] \in Clients
          BY <3>4, <3>5 DEF Stored
        <4> HIDE DEF Stored
        <4> QED BY <4>1 DEF Aside
      <3> QED BY <1>3, <3>1, <3>2, <3>3, <3>4, <3>5 DEF Link
    <2> QED BY <2>1 DEF Linkage
  <1> QED BY <1>1, <1>2, <1>4

LEMMA AloneKeeps ==
    ASSUME Forming, NEW c \in Clients, pc[c] \in Registering \cap Outside, pc'[c] # "dead",
           \A d \in Clients : d # c => pc'[d] = pc[d],
           right' = right, pending' = pending
    PROVE  Alone'
  <1>1. \A d \in Clients : /\ pc'[d] \in Registering => pc[d] \in Registering
                           /\ pc'[d] \in Outside => pc[d] \in Outside
    OBVIOUS
  <1> QED BY <1>1 DEF Forming, Alone

\* With nobody registering, a client that is launched is the only one that enters.
LEMMA FormingLaunch ==
    ASSUME Typed, Forming, sequential, NEW c \in Clients, Launch(c)
    PROVE  Forming'
  <1> USE DEF Typed, ClientTypes
  <1>1. /\ pc[c] = "new" /\ pc'[c] = "check" /\ \A d \in Clients : d # c => pc'[d] = pc[d]
           /\ pc[d] \notin Registering
        /\ shm' # "init" /\ UNCHANGED <<sequential, mi, cliNum, pids, idx, right, flag1, tmp,
           handles, pending, sender>>
        /\ UNCHANGED Flow
    BY DEF Launch, Forming, Goto, setup, own, sigs, conns, Flow
  <1>2. Aside
    BY <1>1 DEF Aside, Joined, Member, Stored, Late, Turn
  <1>3. Alone'
    BY <1>1 DEF Forming, Alone, Registering, Outside
  <1>4. Entering'
    BY <1>1 DEF Forming, Entering, Storing, Late
  <1>5. Handling'
    BY <1>1 DEF Forming, Handling, Joined, Member, Turn
  <1> QED BY <1>1, <1>2, <1>3, <1>4, <1>5, AsideKeeps DEF Forming

LEMMA FormingEnter ==
    ASSUME Typed, Counted, Forming, NEW c \in Clients,
           Check(c) \/ TakeSlot(c) \/ PutNumber(c) \/ PutPid(c) \/ LoadI(c)
    PROVE  Forming'
  <1> USE DEF Typed, ClientTypes, TableTypes
  <1>0. /\ pc[c] \in {"check", "slot", "num", "pid", "inc"} /\ pc'[c] \in {"slot"} \cup Storing
        /\ \A d \in Clients : d # c => pc'[d] = pc[d]
        /\ UNCHANGED <<sequential, shm, right, handles, pending, sender>> /\ UNCHANGED Flow
    BY DEF Check, TakeSlot, PutNumber, PutPid, LoadI, Goto, table, setup, own, sigs, conns,
       Flow, Storing
  <1>1. \A d \in Clients : /\ Joined(d)' <=> Joined(d)
                           /\ Stored(d)' <=> Stored(d)
                           /\ Stored(d) \/ Joined(d) => d # c
    BY <1>0 DEF Joined, Member, Stored, Late, Turn, Storing
  <1>2. mi \in Nat /\ mi \in Slots
    BY <1>0, RingTypes, RoomInTable DEF Early
  <1>3. Alone'
    BY <1>0, AloneKeeps DEF Registering, Outside, Storing
  <1>4. Handling'
    BY <1>0, <1>1 DEF Forming, Handling, Storing
  <1>5. mi' = mi /\ \A d \in Clients : d # c => idx'[d] = idx[d] /\ flag1'[d] = flag1[d]
          /\ tmp'[d] = tmp[d]
    BY DEF Check, TakeSlot, PutNumber, PutPid, LoadI, Goto, table, setup, own, Forming,
       Entering, Storing
  <1>6. ASSUME NEW d \in Clients, d # c PROVE pc[d] \notin Registering
    BY <1>0, <1>6 DEF Forming, Alone, Registering
  <1>7. /\ pc'[c] = "slot" => idx'[c] = 0
        /\ flag1'[c] <=> mi # 0
        /\ pc'[c] \in Storing => idx'[c] = mi
        /\ pc'[c] \in {"pid", "inc", "store"} => cliNum'[mi] = c
        /\ pc'[c] \in {"inc", "store"} => pids'[mi] = c
        /\ pc'[c] = "store" => tmp'[c] = mi
    <2> USE DEF Goto, Storing, Forming, Entering, table, setup, own
    <2>1. CASE Check(c)
      BY <2>1 DEF Check
    <2>2. CASE TakeSlot(c)
      BY <2>2 DEF TakeSlot
    <2>3. CASE PutNumber(c)
      BY <1>2, <2>3 DEF PutNumber
    <2>4. CASE PutPid(c)
      BY <1>2, <2>4 DEF PutPid
    <2>5. CASE LoadI(c)
      BY <2>5 DEF LoadI
    <2> QED BY <2>1, <2>2, <2>3, <2>4, <2>5
  <1>8. \A k \in Slots : k < mi => pids'[k] = pids[k] /\ cliNum'[k] = cliNum[k]
    <2>1. ASSUME PutNumber(c) \/ PutPid(c) PROVE idx[c] = mi
      BY <2>1 DEF PutNumber, PutPid, Goto, Forming, Entering, Storing
    <2>2. \A k \in Slots : k < mi => k # mi
      BY <1>2, RingTypes
    <2> QED BY <2>1, <2>2 DEF Check, TakeSlot, PutNumber, PutPid, LoadI, table
  <1>9. Aside
    BY <1>0, <1>1, <1>5, <1>8 DEF Aside, Forming
  <1>10. Entering'
    <2>1. ASSUME NEW d \in Clients, d # c PROVE pc'[d] = "new" => idx'[d] = 0
      BY <1>0, <1>5, <2>1 DEF Forming, Entering
    <2>2. ASSUME NEW d \in Clients, d # c PROVE pc'[d] \notin Registering
      BY <1>0, <1>6, <2>2
    <2>3. pc'[c] \notin Late /\ pc'[c] \notin {"new", "check", "tellright"}
      BY <1>0 DEF Late, Storing
    <2> QED BY <1>5, <1>7, <2>1, <2>2, <2>3 DEF Entering, Registering, Storing, Late
  <1> QED BY <1>0, <1>3, <1>4, <1>9, <1>10, AsideKeeps DEF Forming

LEMMA FormingInstall ==
    ASSUME Typed, Forming, NEW c \in Clients, BindListen(c) \/ Install(c)
    PROVE  Forming'
  <1> USE DEF Typed, ClientTypes, SignalTypes
  <1>0. /\ pc[c] \in {"bind", "usr1", "usr2"} /\ pc'[c] \in {"usr1", "usr2", "tell"}
        /\ \A d \in Clients : d # c => pc'[d] = pc[d]
        /\ UNCHANGED <<sequential, shm, mi, cliNum, pids, idx, right, flag1, tmp, pending,
           sender>> /\ UNCHANGED Flow
        /\ \A d \in Clients : handles[d] \subseteq handles'[d]
    BY DEF BindListen, Install, Goto, table, setup, own, sigs, conns, Flow
  <1>1. \A d \in Clients : /\ Joined(d)' <=> Joined(d)
                           /\ Stored(d)' <=> Stored(d)
    BY <1>0 DEF Joined, Member, Stored, Late, Turn
  <1>2. Aside
    BY <1>0, <1>1 DEF Aside, Forming, Joined, Member, Turn
  <1>3. Alone'
    BY <1>0, AloneKeeps DEF Registering, Outside
  <1>4. Entering'
    BY <1>0 DEF Forming, Entering, Storing, Late
  <1>5. Handling'
    <2>1. /\ pc'[c] \in {"usr2", "tell"} => "USR1" \in handles'[c]
          /\ pc'[c] = "tell" => "USR2" \in handles'[c]
      BY DEF Forming, Handling, BindListen, Install, Goto
    <2>2. ~Joined(c)'
      BY <1>0 DEF Joined, Member, Turn
    <2> QED BY <1>0, <1>1, <2>1, <2>2 DEF Forming, Handling
  <1> QED BY <1>0, <1>2, <1>3, <1>4, <1>5, AsideKeeps DEF Forming

LEMMA SendingStays ==
    ASSUME Forming, UNCHANGED Flow, \A d \in Clients : pc'[d] = "send" => pc[d] = "send"
    PROVE  Sending'
  <1> SUFFICES ASSUME NEW e \in Clients, pc'[e] = "send" PROVE Somewhere(Open(e))'
    BY DEF Sending, Somewhere, Holds, Open
  <1>1. Somewhere(Open(e))
    BY DEF Forming, Sending
  <1> QED BY <1>1 DEF Flow, Somewhere, Holds, Open

\* The newcomer's slot becomes part of the table.
LEMMA FormingStore ==
    ASSUME Typed, Counted, Forming, NEW c \in Clients, StoreI(c)
    PROVE  Forming'
  <1> USE DEF Typed, ClientTypes
  <1>0. /\ mi \in Nat /\ mi \in Slots /\ \A k \in Slots : k \in Nat
        /\ \A d \in Clients : idx[d] \in Slots /\ idx[d] \in Nat
    BY RingTypes, RoomInTable DEF StoreI, Goto, Early
  <1>1. /\ pc[c] = "store" /\ pc'[c] = "bind" /\ \A d \in Clients : d # c => pc'[d] = pc[d]
        /\ UNCHANGED <<sequential, shm, cliNum, pids, idx, right, flag1, handles, pending,
           sender>> /\ UNCHANGED Flow
        /\ mi' = mi + 1
    BY DEF StoreI, Goto, setup, sigs, conns, Flow, Forming, Entering
  <1>2. idx[c] = mi /\ cliNum[mi] = c /\ pids[mi] = c /\ (flag1[c] <=> mi # 0)
    BY <1>1 DEF Forming, Entering, Storing
  <1>3. \A d \in Clients : /\ Joined(d)' <=> Joined(d)
                           /\ Stored(d)' <=> (Stored(d) \/ d = c)
                           /\ Stored(d) \/ Joined(d) => d # c
    BY <1>1 DEF Joined, Member, Stored, Late, Turn
  <1>p. \A d \in Clients : pc'[d] = "send" => pc[d] = "send"
    BY <1>1
  <1>4. Alone'
    BY <1>1, AloneKeeps DEF Registering, Outside
  <1>5. Tabled'
    <2>1. ASSUME NEW d \in Clients, Stored(d)'
          PROVE  idx[d] < mi + 1 /\ pids[idx[d]] = d /\ cliNum[idx[d]] = d
      BY <1>0, <1>2, <1>3, <2>1 DEF Forming, Tabled
    <2>2. ASSUME NEW k \in Slots, k < mi + 1
          PROVE  pids[k] \in Clients /\ idx[pids[k]] = k /\ Stored(pids[k])'
      <3>1. k = mi \/ k < mi
        BY <1>0, <2>2
      <3>2. CASE k = mi
        BY <1>1, <1>2, <1>3, <3>2
      <3>3. CASE k < mi
        <4>1. pids[k] \in Clients /\ idx[pids[k]] = k /\ Stored(pids[k])
          BY <3>3 DEF Forming, Tabled
        <4>2. pids'[k] = pids[k]
          BY <1>1
        <4> QED BY <1>1, <1>3, <4>1, <4>2
      <3> QED BY <3>1, <3>2, <3>3
    <2> QED BY <1>1, <2>1, <2>2 DEF Tabled
  <1>6. Entering'
    <2>1. ASSUME NEW d \in Clients, d # c
          PROVE  pc'[d] \notin Registering /\ (pc'[d] = "new" => idx'[d] = 0)
      BY <1>1, <2>1 DEF Forming, Alone, Entering, Registering
    <2>2. idx[c] + 1 = mi' /\ (flag1[c] <=> idx[c] # 0)
      BY <1>1, <1>2
    <2> QED BY <1>1, <2>1, <2>2 DEF Entering, Registering, Storing, Late
  <1>7. Handling'
    BY <1>1, <1>3 DEF Forming, Handling
  <1>8. Sending'
    BY <1>p, <1>1, SendingStays
  <1>9. ASSUME NEW k PROVE InRing(k)' <=> InRing(k)
    <2>1. k \in Slots => (k < mi' <=> (k < mi \/ k = mi))
      BY <1>0, <1>1
    <2>2. ~Joined(pids[mi])
      BY <1>2, <1>3
    <2>3. ASSUME k \in Slots, k < mi' PROVE Joined(pids[k])' <=> Joined(pids[k])
      <3>1. pids[k] \in Clients /\ pids'[k] = pids[k]
        BY <1>1, <1>2, <2>1, <2>3 DEF Forming, Tabled
      <3> QED BY <1>3, <3>1
    <2> QED BY <2>1, <2>2, <2>3 DEF InRing
  <1>10. Linkage'
    <2>1. ASSUME NEW d \in Clients, Joined(d)' PROVE Link(d)'
      <3>1. Link(d)
        BY <1>3, <2>1 DEF Forming, Linkage
      <3> QED BY <1>1, <1>3, <1>9, <3>1 DEF Link
    <2> QED BY <2>1 DEF Linkage
  <1> QED BY <1>1, <1>4, <1>5, <1>6, <1>7, <1>8, <1>10 DEF Forming

\* The newcomer joins the ring: its left neighbour learns of it from the signal.
LEMMA FormingTellLeft ==
    ASSUME Typed, Forming, NEW c \in Clients, pending[c] = {}, TellLeft(c)
    PROVE  Forming'
  <1> USE DEF Typed, ClientTypes, SignalTypes
  <1>0. /\ mi \in Nat /\ \A k \in Slots : k \in Nat
        /\ \A d \in Clients : idx[d] \in Slots /\ idx[d] \in Nat
    BY RingTypes
  <1>1. /\ pc[c] = "tell" /\ pc'[c] \in {"loop", "tellright"} /\ \A d \in Clients : d # c => pc'[d] = pc[d]
        /\ UNCHANGED <<sequential, shm, mi, cliNum, pids, idx, right, flag1, tmp, handles>>
           /\ UNCHANGED Flow
    BY DEF TellLeft, Goto, table, setup, own, conns, Flow
  <1>2. /\ idx[c] + 1 = mi /\ (flag1[c] <=> idx[c] # 0) /\ right[c] = 0
        /\ idx[c] < mi /\ pids[idx[c]] = c
    BY <1>1 DEF Forming, Alone, Entering, Tabled, Stored, Late, Outside
  <1>3. \A d \in Clients : /\ Joined(d)' <=> (Joined(d) \/ d = c)
                           /\ Stored(d)' <=> Stored(d)
                           /\ Joined(d) => d # c
    BY <1>1 DEF Joined, Member, Stored, Late, Turn
  <1>4. \A d \in Clients : d # c => (Stored(d) => Joined(d))
    BY <1>1 DEF Forming, Alone, Stored, Late, Registering
  <1>p. \A d \in Clients : pc'[d] = "send" => pc[d] = "send"
    BY <1>1
  \* Who is signalled.
  <1>5. CASE flag1[c]
    <2> DEFINE l == pids[idx[c] - 1]
    <2>1. idx[c] - 1 \in Slots /\ idx[c] - 1 < mi /\ idx[c] # 0
      <3>1. idx[c] \in Slots /\ idx[c] # 0 /\ idx[c] \in Nat
        BY <1>0, <1>2, <1>5
      <3>2. idx[c] - 1 \in Slots
        BY <3>1, Numbers DEF Slots
      <3> QED BY <1>0, <1>2, <3>1, <3>2
    <2>2. l \in Clients /\ idx[l] = idx[c] - 1 /\ Stored(l)
      BY <2>1 DEF Forming, Tabled
    <2>3. l # c /\ Joined(l)
      BY <1>0, <1>4, <2>1, <2>2
    <2>4. PidAt(c, idx[c] - 1) = l
      BY <1>2, <2>1, <2>2, ESSRingAssumption DEF PidAt
    <2> HIDE DEF l
    <2>5. \A d \in Clients :
            /\ pending'[d] = IF d \in {l} /\ Alive(d)
                             THEN pending[d] \cup {"USR1"} ELSE pending[d]
            /\ sender'[d] = IF d \in {l} /\ Alive(d)
               /\ "USR1" \notin pending[d] THEN c ELSE sender[d]
      BY <1>5, <2>4 DEF TellLeft, Signal
    <2>6. Alive(l)
      BY <2>2, <2>3, MembersApart DEF Alive, Outside
    <2>7. \A d \in Clients :
            /\ d \in {l} => pending'[d] = pending[d] \cup {"USR1"}
                               /\ sender'[d] = IF "USR1" \in pending[d] THEN sender[d] ELSE c
            /\ d \notin {l} => pending'[d] = pending[d] /\ sender'[d] = sender[d]
      BY <2>5, <2>6
    <2> QED
      <3>1. Alone'
        <4>1. ASSUME NEW d \in Clients, pc'[d] \in Outside
              PROVE  right'[d] = 0 /\ pending'[d] = {}
          <5>1. d # c
            BY <1>1, <4>1 DEF Outside
          <5>2. pc[d] \in Outside
            BY <1>1, <4>1, <5>1
          <5>3. d \notin {l}
            BY <2>3, <5>2, MembersApart
          <5> QED BY <1>1, <2>7, <5>2, <5>3 DEF Forming, Alone
        <4>2. \A d \in Clients : pc'[d] # "dead"
          BY <1>1 DEF Forming, Alone
        <4>3. \A d, e \in Clients : pc'[d] \in Registering /\ pc'[e] \in Registering => d = e
          BY <1>1 DEF Forming, Alone, Registering
        <4> QED BY <4>1, <4>2, <4>3 DEF Alone
      <3>2. Tabled'
        BY <1>1, <1>3 DEF Forming, Tabled
      <3>3. Entering'
        BY <1>1, <1>2, <1>5 DEF Forming, Entering, Storing, Late
      <3>4. Handling'
        BY <1>1, <1>3 DEF Forming, Handling
      <3>5. Sending'
        BY <1>p, <1>1, SendingStays
      <3>6. ASSUME NEW k \in Slots PROVE InRing(k)' <=> (InRing(k) \/ k = idx[c])
        <4>1. ASSUME k < mi PROVE Joined(pids[k])' <=> (Joined(pids[k]) \/ pids[k] = c)
          BY <1>1, <1>3, <4>1 DEF Forming, Tabled
        <4>2. ASSUME k < mi PROVE pids[k] = c <=> k = idx[c]
          BY <1>2, <4>2 DEF Forming, Tabled
        <4> QED BY <1>1, <1>2, <4>1, <4>2 DEF InRing
      <3>7. Link(c)'
        <4>1. ~(idx'[c] + 1 < mi')
          BY <1>0, <1>1, <1>2
        <4>2. ~InRing(idx[c] + 1)'
          BY <4>1 DEF InRing
        <4>3. "USR1" \notin pending'[c]
          BY <2>3, <2>7
        <4> QED BY <1>1, <1>2, <1>5, <4>2, <4>3 DEF Link
      <3>8. ASSUME NEW d \in Clients, Joined(d) PROVE Link(d)'
        <4>k. PICK k : k = idx[d] + 1
          OBVIOUS
        <4>0. Link(d) /\ d # c
          BY <1>3, <3>8 DEF Forming, Linkage
        <4>1. idx[d] < mi /\ pids[idx[d]] = d
          BY <3>8 DEF Forming, Tabled, Stored
        <4>2. idx[d] < idx[c]
          BY <1>0, <1>2, <4>0, <4>1
        <4>3. CASE k = idx[c]
          <5>1. d = l
            BY <1>0, <2>1, <4>k, <4>1, <4>3 DEF l
          <5>2. ~InRing(k)
            BY <1>2, <1>3, <4>3 DEF InRing
          <5>3. right[d] = 0 /\ "USR1" \notin pending[d] /\ (idx[d] # 0 => flag1[d])
            BY <4>k, <4>0, <5>2 DEF Link
          <5>4. "USR1" \in pending'[d] /\ sender'[d] = c
            BY <2>7, <5>1, <5>3
          <5>5. InRing(k)' /\ pids[k] = c /\ Joined(c)'
            BY <1>0, <1>1, <1>2, <1>3, <3>6, <4>3
          <5> QED BY <1>1, <4>k, <4>3, <5>3, <5>4, <5>5 DEF Link
        <4>4. CASE k # idx[c]
          <5>1. InRing(k)' /\ InRing(k)
            <6>1. k \in Slots /\ k < idx[c] /\ k < mi
              <7>1. k < idx[c] /\ idx[c] \in Slots /\ k \in Nat
                BY <1>0, <4>k, <4>2, <4>4
              <7> QED BY <1>0, <1>2, <7>1, Numbers DEF Slots
            <6>2. pids[k] \in Clients /\ idx[pids[k]] = k /\ Stored(pids[k])
              BY <6>1 DEF Forming, Tabled
            <6>3. pids[k] # c
              BY <4>4, <6>2
            <6>4. InRing(k)
              BY <1>4, <6>1, <6>2, <6>3 DEF InRing
            <6> QED BY <3>6, <6>1, <6>4
          <5>2. /\ idx[d] # 0 => flag1[d]
                /\ right[d] = k \/ (right[d] = 0 /\ "USR1" \in pending[d] /\ sender[d] = pids[k])
                /\ "USR1" \in pending[d] => /\ sender[d] \in Clients /\ Joined(sender[d])
                                            /\ idx[d] # 0 => idx[sender[d]] = k
            BY <4>k, <4>0, <5>1 DEF Link
          <5>3. d # l
            BY <1>0, <2>2, <4>k, <4>4
          <5>4. pending'[d] = pending[d] /\ sender'[d] = sender[d]
            BY <2>7, <5>3
          <5> QED BY <1>1, <1>3, <4>k, <5>1, <5>2, <5>4 DEF Link
        <4> QED BY <4>3, <4>4
      <3>9. Linkage'
        BY <1>3, <3>7, <3>8 DEF Linkage
      <3> QED BY <1>1, <3>1, <3>2, <3>3, <3>4, <3>5, <3>9 DEF Forming
  <1>6. CASE ~flag1[c]
    <2>0. UNCHANGED <<pending, sender>> /\ idx[c] = 0 /\ mi = 1
      BY <1>0, <1>2, <1>6 DEF TellLeft, sigs
    <2>1. \A d \in Clients : ~Joined(d)
      <3>1. ASSUME NEW d \in Clients, Joined(d) PROVE FALSE
        <4>1. idx[d] < mi /\ pids[idx[d]] = d /\ d # c
          BY <1>3, <3>1 DEF Forming, Tabled, Stored
        <4>2. idx[d] = 0
          BY <1>0, <2>0, <4>1
        <4> QED BY <1>2, <2>0, <4>1, <4>2
      <3> QED BY <3>1
    <2>p. pc'[c] = "loop"
      BY <1>6 DEF TellLeft, Goto
    <2>2. Alone'
      BY <1>1, <2>0, <2>p DEF Forming, Alone, Registering, Outside
    <2>3. Tabled'
      BY <1>1, <1>3 DEF Forming, Tabled
    <2>4. Entering'
      BY <1>1, <2>p DEF Forming, Entering, Storing, Late
    <2>5. Handling'
      BY <1>1, <1>3 DEF Forming, Handling
    <2>6. Sending'
      BY <1>p, <1>1, SendingStays
    <2>7. Link(c)'
      <3>1. ~InRing(1)'
        BY <1>1, <2>0 DEF InRing
      <3>2. "USR1" \notin pending'[c]
        BY <2>0
      <3> QED BY <1>1, <1>2, <2>0, <3>1, <3>2 DEF Link
    <2>8. Linkage'
      BY <1>3, <2>1, <2>7 DEF Linkage
    <2> QED BY <1>1, <2>2, <2>3, <2>4, <2>5, <2>6, <2>8 DEF Forming
  <1> QED BY <1>5, <1>6

\* Its second signal, to the first client, changes nothing there: that client knows its
\* neighbour, or has the signal of its neighbour pending, with which this one is merged.
LEMMA FormingTellRight ==
    ASSUME Typed, Forming, NEW c \in Clients, pending[c] = {}, TellRight(c)
    PROVE  Forming'
  <1> USE DEF Typed, ClientTypes, SignalTypes
  <1>0. /\ mi \in Nat /\ \A k \in Slots : k \in Nat
        /\ \A d \in Clients : idx[d] \in Slots /\ idx[d] \in Nat
    BY RingTypes
  <1>1. /\ pc[c] = "tellright" /\ pc'[c] = "loop" /\ \A d \in Clients : d # c => pc'[d] = pc[d]
        /\ UNCHANGED <<sequential, shm, mi, cliNum, pids, idx, right, flag1, tmp, handles>>
           /\ UNCHANGED Flow
    BY DEF TellRight, Goto, table, setup, own, conns, Flow
  <1>2. idx[c] + 1 = mi /\ idx[c] # 0
    BY <1>1 DEF Forming, Entering
  <1>3. \A d \in Clients : (Joined(d)' <=> Joined(d)) /\ (Stored(d)' <=> Stored(d))
    BY <1>1 DEF Joined, Member, Stored, Late, Turn
  <1>4. \A d \in Clients : d # c => (Stored(d) => Joined(d))
    BY <1>1 DEF Forming, Alone, Stored, Late, Registering
  <1>p. \A d \in Clients : pc'[d] = "send" => pc[d] = "send"
    BY <1>1
  <1>5. /\ 0 \in Slots /\ 0 < mi /\ 1 \in Slots /\ 1 < mi
    <2>1. idx[c] \in Slots /\ idx[c] >= 1
      BY <1>0, <1>2
    <2> QED BY <1>2, <2>1, Numbers DEF Slots
  <1>6. PICK f \in Clients : f = pids[0] /\ idx[f] = 0 /\ Stored(f)
    BY <1>5 DEF Forming, Tabled
  <1>7. f # c /\ Joined(f)
    BY <1>2, <1>4, <1>6
  <1>8. right[c] = 0
    <2>1. ~InRing(idx[c] + 1)
      BY <1>0, <1>2 DEF InRing
    <2> QED BY <1>1, <2>1 DEF Forming, Linkage, Link, Joined
  <1>9. PidAt(c, right[c]) = f /\ Alive(f)
    BY <1>5, <1>6, <1>7, <1>8, ESSRingAssumption, MembersApart DEF PidAt, Alive, Outside
  <1>10. \A d \in Clients :
           /\ d # f => pending'[d] = pending[d] /\ sender'[d] = sender[d]
           /\ d = f => /\ pending'[d] = pending[d] \cup {"USR1"}
                       /\ sender'[d] = IF "USR1" \in pending[d] THEN sender[d] ELSE c
    BY <1>9 DEF TellRight, Signal
  <1>11. Alone'
    <2>1. ASSUME NEW d \in Clients, pc'[d] \in Outside
          PROVE  right'[d] = 0 /\ pending'[d] = {}
      <3>1. pc[d] \in Outside
        BY <1>1, <2>1 DEF Outside
      <3>2. d # f
        BY <1>7, <3>1, MembersApart
      <3> QED BY <1>1, <1>10, <3>1, <3>2 DEF Forming, Alone
    <2>2. \A d \in Clients : pc'[d] # "dead"
      BY <1>1 DEF Forming, Alone
    <2>3. \A d, e \in Clients : pc'[d] \in Registering /\ pc'[e] \in Registering => d = e
      BY <1>1 DEF Forming, Alone, Registering
    <2> QED BY <2>1, <2>2, <2>3 DEF Alone
  <1>12. Tabled'
    BY <1>1, <1>3 DEF Forming, Tabled
  <1>13. Entering'
    BY <1>1 DEF Forming, Entering, Storing, Late
  <1>14. Handling'
    BY <1>1, <1>3 DEF Forming, Handling
  <1>15. Sending'
    BY <1>p, <1>1, SendingStays
  <1>16. ASSUME NEW k PROVE InRing(k)' <=> InRing(k)
    BY <1>1, <1>3 DEF InRing, Forming, Tabled
  <1>17. Link(f)'
    <2>1. Link(f)
      BY <1>6, <1>7 DEF Forming, Linkage
    <2>2. InRing(1)
      <3>1. pids[1] \in Clients /\ Stored(pids[1])
        BY <1>5 DEF Forming, Tabled
      <3> QED BY <1>1, <1>4, <1>5, <3>1 DEF InRing, Joined
    <2>3. right[f] = 1 \/ (right[f] = 0 /\ "USR1" \in pending[f] /\ sender[f] = pids[1])
      BY <1>6, <2>1, <2>2 DEF Link
    <2>4. "USR1" \in pending[f] => sender[f] \in Clients /\ Joined(sender[f])
      BY <2>1 DEF Link
    <2>5. Joined(c)
      BY <1>1 DEF Joined
    <2>f. /\ "USR1" \in pending'[f]
          /\ sender'[f] = IF "USR1" \in pending[f] THEN sender[f] ELSE c
      BY <1>6, <1>10
    <2>6. right'[f] = 1 \/ (right'[f] = 0 /\ "USR1" \in pending'[f] /\ sender'[f] = pids'[1])
      BY <1>1, <1>6, <2>f, <2>3
    <2>7. sender'[f] \in Clients /\ Joined(sender[f])'
      BY <1>3, <2>f, <2>4, <2>5
    <2>8. idx'[f] = 0 /\ InRing(1)'
      BY <1>1, <1>6, <1>16, <2>2
    <2> QED BY <2>6, <2>7, <2>8 DEF Link
  <1>18. ASSUME NEW d \in Clients, d # f, Joined(d) PROVE Link(d)'
    <2>1. Link(d)
      BY <1>18 DEF Forming, Linkage
    <2> QED BY <1>1, <1>3, <1>10, <1>16, <1>18, <2>1 DEF Link
  <1>19. Linkage'
    BY <1>3, <1>17, <1>18 DEF Linkage
  <1> QED BY <1>1, <1>11, <1>12, <1>13, <1>14, <1>15, <1>19 DEF Forming

LEMMA FailingStep ==
    ASSUME Typed, Failing, Next PROVE Failing'
  <1> USE DEF Typed, ClientTypes
  <1>1. ASSUME NEW c \in Clients, Launch(c) PROVE Failing'
    BY <1>1 DEF Failing, Launch, Goto, sigs
  <1>2. ASSUME NEW c \in Clients PROVE ~ClientStep(c)
    BY DEF Failing, ClientStep, Check, TakeSlot, PutNumber, PutPid, LoadI, StoreI, BindListen,
       Install,
       TellLeft, TellRight, BeginTurn, Accept, RecvFd, ReadGreeting, WriteReply, WriteBroken,
       SignalNext, Connect, SendFd, SendBroken, CloseFd, Goto
  <1>3. ASSUME NEW c \in Clients, NEW sig \in {"USR1", "USR2"}
        PROVE  ~Deliver(c, sig) /\ ~Killed(c, sig)
    BY DEF Failing, Deliver, Killed
  <1>4. ASSUME Greet \/ TakeReply \/ SessionClosed PROVE Failing'
    BY <1>4 DEF Failing, Greet, TakeReply, SessionClosed, table, sigs
  <1> QED BY <1>1, <1>2, <1>3, <1>4 DEF Next

LEMMA FormingStep ==
    ASSUME Typed, Counted, Tracked, Forming, Sole, sequential, Next PROVE Forming'
  <1>1. ASSUME NEW c \in Clients, Launch(c) PROVE Forming'
    BY <1>1, FormingLaunch
  <1>2. ASSUME NEW c \in Clients, ClientStep(c) PROVE Forming'
    <2>1. CASE Check(c) \/ TakeSlot(c) \/ PutNumber(c) \/ PutPid(c) \/ LoadI(c)
      BY <2>1, FormingEnter
    <2>2. CASE StoreI(c)
      BY <2>2, FormingStore
    <2>3. CASE BindListen(c) \/ Install(c)
      BY <2>3, FormingInstall
    <2>4. CASE TellLeft(c) \/ TellRight(c)
      BY <1>2, <2>4, FormingTellLeft, FormingTellRight DEF ClientStep
    <2>5. CASE \/ BeginTurn(c) \/ Accept(c) \/ RecvFd(c) \/ ReadGreeting(c) \/ WriteReply(c)
               \/ SignalNext(c) \/ Connect(c) \/ SendFd(c) \/ CloseFd(c)
      BY <2>5, FormingMembers
    <2>6. ~SendBroken(c) /\ ~WriteBroken(c)
      BY NobodyEnds
    <2> QED BY <1>2, <2>1, <2>2, <2>3, <2>4, <2>5, <2>6 DEF ClientStep
  <1>3. ASSUME NEW c \in Clients, NEW sig \in {"USR1", "USR2"}, Deliver(c, sig) \/ Killed(c, sig)
        PROVE  Forming'
    BY <1>3, FormingDeliver, NobodyEnds
  <1>4. ASSUME Greet \/ TakeReply \/ SessionClosed PROVE Forming'
    BY <1>4, FormingESS
  <1> QED BY <1>1, <1>2, <1>3, <1>4 DEF Next

\* The first turn of the first client: nobody else has a turn without a descriptor.
LEMMA SoleFirst ==
    ASSUME Typed, Tracked, Greeted, Forming, Sole, NEW c \in Clients, BeginTurn(c), ~flag1[c]
    PROVE  Sole'
  <1> USE DEF Typed, ClientTypes
  <1>1. /\ pc[c] = "loop" /\ idx[c] = 0 /\ served = Bad /\ essPc = "accept" /\ c # Bad
    BY Names DEF BeginTurn, Sole, Greeted
  <1>2. /\ \A d \in Clients : /\ accq'[d] = accq[d] /\ cur'[d] = cur[d] /\ stray'[d] = stray[d]
                              /\ d # c => usfd'[d] = usfd[d] /\ flag1'[d] = flag1[d]
                                          /\ pc'[d] = pc[d]
        /\ usfd'[c] = c /\ flag1'[c] = TRUE /\ served' = c /\ idx' = idx
    BY <1>1 DEF BeginTurn, Goto, conns, FdTypes
  <1>3. idx[c] < mi /\ pids[0] = c /\ mi # 0
    <2>1. idx[c] < mi /\ pids[idx[c]] = c
      BY <1>1 DEF Forming, Tabled, Stored, Joined, Member
    <2> QED BY <1>1, <2>1, RingTypes
  <1>4. ASSUME NEW d \in Clients, d # c, pc[d] \notin {"new", "check"} PROVE flag1[d]
    <2>1. CASE pc[d] \in {"slot"} \cup Storing
      BY <1>3, <2>1 DEF Forming, Entering
    <2>2. CASE pc[d] \notin {"slot"} \cup Storing
      <3>1. Stored(d)
        BY <1>4, <2>2 DEF Forming, Alone, Stored, Late, Joined, Member, Storing, PCs, Registering
      <3>2. pids[idx[d]] = d
        BY <3>1 DEF Forming, Tabled
      <3>3. idx[d] # 0
        BY <1>3, <1>4, <3>2
      <3> QED BY <3>3 DEF Sole
    <2> QED BY <2>1, <2>2
  <1>5. ASSUME NEW s \in Clients, Somewhere(s)' PROVE s = c
    <2>1. ~Somewhere(s)
      BY <1>1, Names DEF Sole
    <2> QED BY <1>2, <1>5, <2>1 DEF Somewhere, Holds
  <1> QED BY <1>2, <1>4, <1>5 DEF Sole

\* Whoever is served has entered the ring, so that a newcomer finds m->i above 0.
LEMMA SoleCheck ==
    ASSUME Typed, Tracked, Forming, Sole, NEW c \in Clients, Check(c)
    PROVE  Sole'
  <1> USE DEF Typed, ClientTypes
  <1>1. /\ pc[c] = "check" /\ UNCHANGED Flow /\ UNCHANGED <<served, idx>>
        /\ \A d \in Clients : d # c => pc'[d] = pc[d] /\ flag1'[d] = flag1[d]
        /\ flag1'[c] = (mi # 0)
    BY DEF Check, Goto, conns, ess, Flow
  <1>2. served # Bad => mi # 0
    <2> SUFFICES ASSUME served # Bad PROVE mi # 0
      OBVIOUS
    <2>1. served \in Clients /\ ~Fresh(served)
      BY DEF Tracked, Unused, EssTypes, Fds
    <2>2. Stored(served)
      BY <2>1 DEF Fresh, Forming, Alone, Stored, Joined, Member, PCs
    <2>3. idx[served] < mi
      BY <2>1, <2>2 DEF Forming, Tabled
    <2> QED BY <2>1, <2>3, RingTypes
  <1>3. idx[c] = 0
    BY <1>1 DEF Forming, Entering
  <1>4. \A s \in Clients : Somewhere(s)' <=> Somewhere(s)
    BY <1>1 DEF Flow, Somewhere, Holds
  <1> QED BY <1>1, <1>2, <1>3, <1>4 DEF Sole

\* What leaves the first clients alone and brings no session into being.
Settled ==
    /\ served' = served /\ flag1' = flag1
    /\ \A c \in Clients : /\ flag1[c] \/ idx'[c] = idx[c]
                          /\ pc'[c] \notin {"new", "check"} => pc[c] \notin {"new", "check"}
    /\ \A s \in Clients : Somewhere(s)' => Somewhere(s)

LEMMA SoleSettled == ASSUME Sole, Settled PROVE Sole'
  BY DEF Sole, Settled

LEMMA SettledClient ==
    ASSUME Typed, Tracked, NEW c \in Clients, Launch(c) \/ ClientStep(c), ~Check(c),
           ~SendBroken(c), ~WriteBroken(c), BeginTurn(c) => flag1[c], shm # "init"
    PROVE  Settled
  <1> USE DEF Typed, ClientTypes, Goto, table, setup, own, ess
  <1>0. Held
    BY DEF Tracked
  <1>1. CASE Accept(c) \/ RecvFd(c) \/ Connect(c) \/ SendFd(c) \/ CloseFd(c)
    <2>1. \A s \in Clients : Somewhere(s)' => Somewhere(s)
      <3>1. ASSUME NEW s \in Clients, Somewhere(s)' PROVE Somewhere(s)
        BY <1>1, <3>1, Names, NoneNew DEF Fds
      <3> QED BY <3>1
    <2>2. UNCHANGED <<served, flag1, idx>>
      BY <1>1 DEF Accept, RecvFd, Connect, SendFd, CloseFd
    <2>3. \A d \in Clients : pc'[d] \notin {"new", "check"} => pc[d] \notin {"new", "check"}
      BY <1>1 DEF Accept, RecvFd, Connect, SendFd, CloseFd
    <2> QED BY <2>1, <2>2, <2>3 DEF Settled
  <1>2. CASE ~(Accept(c) \/ RecvFd(c) \/ Connect(c) \/ SendFd(c) \/ CloseFd(c))
    <2>1. Quiet
      BY <1>0, <1>2, QuietSteps, QuietWait DEF ClientStep
    <2>2. \A s \in Clients : Somewhere(s)' => Somewhere(s)
      BY <2>1, SomewhereSame DEF Quiet
    <2>3. flag1' = flag1
      BY <1>2 DEF ClientStep, Launch, TakeSlot, PutNumber, PutPid, LoadI, StoreI, BindListen,
         Install, TellLeft, TellRight, BeginTurn, ReadGreeting, WriteReply, SignalNext
    <2>4. \A d \in Clients : flag1[d] \/ idx'[d] = idx[d]
      BY <1>2 DEF ClientStep, Launch, Check, TakeSlot, PutNumber, PutPid, LoadI, StoreI,
         BindListen, Install, TellLeft, TellRight, BeginTurn, ReadGreeting, WriteReply, SignalNext
    <2>5. \A d \in Clients : pc'[d] \notin {"new", "check"} => pc[d] \notin {"new", "check"}
      BY <1>2 DEF ClientStep, Launch, Check, TakeSlot, PutNumber, PutPid, LoadI, StoreI,
         BindListen, Install, TellLeft, TellRight, BeginTurn, ReadGreeting, WriteReply, SignalNext
    <2> QED BY <2>1, <2>2, <2>3, <2>4, <2>5 DEF Settled, Quiet
  <1> QED BY <1>1, <1>2

LEMMA SettledDeliver ==
    ASSUME Typed, Tracked, NEW c \in Clients, NEW sig \in {"USR1", "USR2"}, Deliver(c, sig)
    PROVE  Settled
  <1> USE DEF Typed, ClientTypes, FdTypes
  <1>1. UNCHANGED <<served, flag1, idx, accq>>
    BY DEF Deliver, ess
  <1>2. \A d \in Clients : pc'[d] \notin {"new", "check"} => pc[d] \notin {"new", "check"}
    BY DEF Deliver, Interrupt, Blocked
  <1>3. \A d \in Clients : /\ cur'[d] \in {cur[d], Bad} /\ usfd'[d] \in {usfd[d], Bad}
                           /\ stray'[d] \subseteq stray[d] \cup {cur[d]}
    BY DEF Deliver, Interrupt
  <1>4. \A s \in Clients : Somewhere(s)' => Somewhere(s)
    BY <1>1, <1>3, Names DEF Somewhere, Holds
  <1> QED BY <1>1, <1>2, <1>4 DEF Settled

LEMMA SoleStep ==
    ASSUME Typed, Tracked, Greeted, Forming, Sole, Next PROVE Sole'
  <1>1. ASSUME NEW c \in Clients, Launch(c) \/ ClientStep(c) PROVE Sole'
    <2>1. CASE Check(c)
      BY <2>1, SoleCheck
    <2>2. CASE BeginTurn(c) /\ ~flag1[c]
      BY <2>2, SoleFirst
    <2>3. CASE ~Check(c) /\ ~(BeginTurn(c) /\ ~flag1[c])
      BY <1>1, <2>3, NobodyEnds, SettledClient, SoleSettled DEF Forming
    <2> QED BY <2>1, <2>2, <2>3
  <1>2. ASSUME NEW c \in Clients, NEW sig \in {"USR1", "USR2"}, Deliver(c, sig) \/ Killed(c, sig)
        PROVE  Sole'
    BY <1>2, NobodyEnds, SettledDeliver, SoleSettled
  <1>3. ASSUME Greet \/ TakeReply \/ SessionClosed PROVE Sole'
    <2>1. Settled
      BY <1>3 DEF Greet, TakeReply, SessionClosed, Settled, own, conns, Somewhere, Holds
    <2> QED BY <2>1, SoleSettled
  <1> QED BY <1>1, <1>2, <1>3 DEF Next

LEMMA RingStep ==
    ASSUME Typed, Counted, Tracked, Greeted, Ring, Next PROVE Ring'
  <1>1. sequential' = sequential
    <2>1. ASSUME NEW c \in Clients, Launch(c) \/ ClientStep(c) PROVE sequential' = sequential
      BY <2>1 DEF Launch, ClientStep, Check, TakeSlot, PutNumber, PutPid, LoadI, StoreI,
         BindListen, Install,
       TellLeft, TellRight, BeginTurn, Accept, RecvFd, ReadGreeting, WriteReply, WriteBroken,
       SignalNext, Connect, SendFd, SendBroken, CloseFd, table, setup
    <2>2. ASSUME NEW c \in Clients, NEW sig \in {"USR1", "USR2"}, Deliver(c, sig)
                 \/ Killed(c, sig)
          PROVE  sequential' = sequential
      BY <2>2 DEF Deliver, Killed, table, setup
    <2>3. ASSUME Greet \/ TakeReply \/ SessionClosed PROVE sequential' = sequential
      BY <2>3 DEF Greet, TakeReply, SessionClosed, table, setup
    <2> QED BY <2>1, <2>2, <2>3 DEF Next
  <1> QED BY <1>1, FormingStep, SoleStep, FailingStep DEF Ring

LEMMA RingInit == Init => Ring
  <1> SUFFICES ASSUME Init, sequential PROVE (Forming /\ Sole) \/ Failing
    BY DEF Ring
  <1>1. /\ \A c \in Clients : /\ pc[c] = "new" /\ idx[c] = 0 /\ right[c] = 0 /\ pending[c] = {}
                              /\ ~Joined(c) /\ ~Stored(c)
        /\ mi = 0 /\ shm \in {"none", "init"}
    BY DEF Init, Joined, Member, Stored, Late, Turn
  <1>2. Alone /\ Entering
    BY <1>1 DEF Alone, Entering, Registering, Storing, Late
  <1>3. Tabled
    <2>1. \A k \in Slots : ~(k < mi)
      BY <1>1, Numbers DEF Slots
    <2> QED BY <1>1, <2>1 DEF Tabled
  <1>4. Handling /\ Sending /\ Linkage
    BY <1>1 DEF Handling, Sending, Linkage
  <1>5. Sole
    <2>1. \A s \in Clients : ~Somewhere(s)
      BY Names DEF Init, Somewhere, Holds
    <2> QED BY <1>1, <2>1 DEF Init, Sole
  <1> QED BY <1>1, <1>2, <1>3, <1>4, <1>5 DEF Forming, Failing

LEMMA RingStill == ASSUME Typed, Ring, UNCHANGED vars PROVE Ring'
  <1> USE DEF vars, table, setup, own, sigs, conns
  <1>1. Looping
    BY DEF Looping
  <1>2. Forming => Forming'
    BY <1>1, SendingStays, FormingLoop DEF Flow
  <1>3. Failing => Failing'
    BY DEF Failing
  <1>4. Sole => Sole'
    BY DEF Sole, ess, Somewhere, Holds
  <1> QED BY <1>2, <1>3, <1>4 DEF Ring

LEMMA RingIsClosed ==
    ASSUME Typed, Ring PROVE RingClosed
  <1> SUFFICES ASSUME sequential
               PROVE  /\ \A c \in Clients : pending[c] \subseteq handles[c]
                      /\ (/\ \A c \in Clients : Member(c) \/ pc[c] = "new"
                          /\ \A c \in Clients : "USR1" \notin pending[c])
                         => \A c \in Clients : Member(c) =>
                              /\ cliNum[idx[c]] = c /\ pids[idx[c]] = c
                              /\ right[c] = IF idx[c] + 1 = mi THEN 0 ELSE idx[c] + 1
    BY DEF RingClosed
  <1>1. CASE Failing
    BY <1>1 DEF Failing, Member, Turn
  <1>2. CASE Forming /\ Sole
    <2>1. \A c \in Clients : pending[c] \subseteq handles[c]
      BY <1>2, NobodyEnds
    <2>2. ASSUME \A c \in Clients : Member(c) \/ pc[c] = "new",
                 \A c \in Clients : "USR1" \notin pending[c],
                 NEW c \in Clients, Member(c)
          PROVE  /\ cliNum[idx[c]] = c /\ pids[idx[c]] = c
                 /\ right[c] = IF idx[c] + 1 = mi THEN 0 ELSE idx[c] + 1
      <3>0. mi \in Nat /\ mi <= Cardinality(Clients) /\ Cardinality(Clients) \in Nat
            /\ idx[c] \in Slots /\ idx[c] \in Nat
        BY RingTypes, Numbers DEF Typed, TableTypes
      <3>1. idx[c] < mi /\ cliNum[idx[c]] = c /\ pids[idx[c]] = c
        BY <1>2, <2>2 DEF Forming, Tabled, Stored, Joined
      <3>2. IF InRing(idx[c] + 1) THEN right[c] = idx[c] + 1 ELSE right[c] = 0
        BY <1>2, <2>2 DEF Forming, Linkage, Link, Joined
      <3>3. CASE idx[c] + 1 = mi
        BY <3>0, <3>1, <3>2, <3>3 DEF InRing
      <3>4. CASE idx[c] + 1 # mi
        <4>1. idx[c] + 1 \in Slots /\ idx[c] + 1 < mi
          BY <3>0, <3>1, <3>4 DEF Slots
        <4>2. Stored(pids[idx[c] + 1]) /\ pids[idx[c] + 1] \in Clients
          BY <1>2, <4>1 DEF Forming, Tabled
        <4>3. Joined(pids[idx[c] + 1])
          BY <2>2, <4>2 DEF Stored, Late, Joined, Member, Turn
        <4> QED BY <3>1, <3>2, <3>4, <4>1, <4>3 DEF InRing
      <3> QED BY <3>3, <3>4
    <2> QED BY <2>1, <2>2
  <1> QED BY <1>1, <1>2 DEF Ring

\* RingClosed: launched one after the other, no client is ended by a signal it has no handler
\* for, and once the SIGUSR1s are delivered the right neighbours form one ring of all members.
THEOREM RingClosedTheorem == Spec => []RingClosed
  <1>1. Init => Typed /\ Counted /\ Tracked /\ Greeted /\ Ring
    <2>1. Init => Greeted
      BY DEF Init, Greeted, Live
    <2> QED BY <2>1, TypesInit, TrackedInit, RingInit
  <1>2. Typed /\ Counted /\ Tracked /\ Greeted /\ Ring /\ [Next]_vars =>
         (Typed /\ Counted /\ Tracked /\ Greeted /\ Ring)'
    BY TypesStep, CountedStep, TypesStill, TrackedStep, TrackedStill, GreetedStep, GreetedStill,
       RingStep, RingStill
  <1>3. Typed /\ Counted /\ Tracked /\ Greeted /\ Ring => RingClosed
    BY RingIsClosed
  <1> QED BY <1>1, <1>2, <1>3, PTL DEF Spec
=============================================================================

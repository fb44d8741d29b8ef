------------------------------ MODULE PizzaProof ------------------------------
(* Proofs about Pizza, for any number of orders and of starts of W1 and D. *)
EXTENDS Pizza, TLAPS

Count(p) == IF p THEN 1 ELSE 0

\* recv() calls that B has made for the order it is at.
Received == Count(b = "money")
              + 2 * Count(b \in {"unlink", "bind", "listen", "accept", "send"})

\* Each recv() takes a message at least, of which the customer has sent two per order.
Heard == c # "gone" => 2 * passed + Received + avail <= 2 * paid + Count(c = "money")

\* W1 has the customer's descriptor in hand.
Packing == w \in {"unlink", "bind", "listen", "accept", "send"} /\ ~junk

\* A descriptor B has passed is on its way to W1, with it, on its way to D, with it, or
\* delivered, or it has ended with W1 or D.
Flow == delivered + Count(d = "deliver") + Count(dfd = "order") + Count(Packing) + Count(wfd)
          <= passed

\* A D that has not delivered is one more than there were deliveries.
Fresh == delivered <= dn /\ (d \in {"connect", "recvfd", "deliver"} => delivered < dn)

IInv == TypeOK /\ Heard /\ Flow /\ Fresh

LEMMA InitIInv == Init => IInv
  <1> SUFFICES ASSUME Init PROVE IInv
    OBVIOUS
  <1> USE PizzaAssumption DEF Init
  <1>1. TypeOK
    <2>1. c \in {"new", "gone"} /\ paid \in 0..Orders /\ (c = "new" => paid < Orders)
      OBVIOUS
    <2>2. wfd \in BOOLEAN /\ junk \in BOOLEAN /\ glued \in BOOLEAN
      BY Zenon
    <2>3. bq \in Seq(Ws) /\ wq \in Seq(Ds)
      OBVIOUS
    <2>4. QED
      BY <2>1, <2>2, <2>3 DEF TypeOK, Passing, Paths
  <1>2. Heard
    BY DEF Heard, Received, Count
  <1>3. Flow
    BY DEF Flow, Packing, Count
  <1>4. Fresh
    BY DEF Fresh
  <1>5. QED
    BY <1>1, <1>2, <1>3, <1>4 DEF IInv

LEMMA TypeCustomer ==
    ASSUME TypeOK, Customer \/ KillC
    PROVE  TypeOK'
  <1> USE PizzaAssumption DEF TypeOK, Passing, Paths, CGoto, bVars, wVars, dVars, queues
  <1>1. CASE CConnect
    BY <1>1 DEF CConnect
  <1>2. CASE SendChoice
    BY <1>2 DEF SendChoice
  <1>3. CASE SendMoney
    BY <1>3 DEF SendMoney
  <1>4. CASE RecvAnswer
    BY <1>4 DEF RecvAnswer
  <1>5. CASE CLost \/ KillC
    <2>1. CASE CLost
      BY <2>1 DEF CLost
    <2>2. CASE KillC
      BY <2>2 DEF KillC
    <2>3. QED
      BY <1>5, <2>1, <2>2
  <1>6. QED
    BY <1>1, <1>2, <1>3, <1>4, <1>5 DEF Customer

LEMMA TypeBranch ==
    ASSUME TypeOK, Branch \/ KillB
    PROVE  TypeOK'
  <1> USE DEF TypeOK, Passing, Paths, BGoto, cVars, stream, bVars, wVars, dVars, queues
  <1>1. CASE Recv
    <2>1. glued' \in BOOLEAN
      BY <1>1 DEF Recv
    <2>2. QED
      BY <1>1, <2>1 DEF Recv
  <1>2. CASE BStart \/ BCustomer
    <2>1. CASE BStart
      BY <2>1 DEF BStart
    <2>2. CASE BCustomer
      BY <2>2 DEF BCustomer
    <2>3. QED
      BY <1>2, <2>1, <2>2
  <1>3. CASE BUnlink \/ BListen \/ BUnlinkAgain
    <2>1. CASE BUnlink
      BY <2>1 DEF BUnlink
    <2>2. CASE BListen
      BY <2>2 DEF BListen
    <2>3. CASE BUnlinkAgain
      BY <2>3 DEF BUnlinkAgain
    <2>4. QED
      BY <1>3, <2>1, <2>2, <2>3
  <1>4. CASE BBind
    BY <1>4 DEF BBind
  <1>5. CASE BAccept
    BY <1>5 DEF BAccept
  <1>6. CASE BSendFd
    BY <1>6 DEF BSendFd
  <1>7. CASE BEnds
    BY <1>7 DEF BEnds, Closed
  <1>8. QED
    BY <1>1, <1>2, <1>3, <1>4, <1>5, <1>6, <1>7 DEF Branch, BSendBroken, KillB

LEMMA TypePacker ==
    ASSUME TypeOK, Packer \/ KillW \/ StartW
    PROVE  TypeOK'
  <1> USE PizzaAssumption
      DEF TypeOK, Passing, Paths, WGoto, cVars, stream, bVars, dVars, queues
  <1>1. CASE WConnect
    BY <1>1 DEF WConnect
  <1>2. CASE WRecvFd
    <2>1. wfd' \in BOOLEAN /\ junk' \in BOOLEAN
      BY <1>2 DEF WRecvFd
    <2>2. QED
      BY <1>2, <2>1 DEF WRecvFd
  <1>3. CASE WRecvNothing
    <2>1. junk' \in BOOLEAN
      BY <1>3 DEF WRecvNothing
    <2>2. QED
      BY <1>3, <2>1 DEF WRecvNothing
  <1>4. CASE WUnlink \/ WListen \/ WUnlinkAgain
    <2>1. CASE WUnlink
      BY <2>1 DEF WUnlink
    <2>2. CASE WListen
      BY <2>2 DEF WListen
    <2>3. CASE WUnlinkAgain
      BY <2>3 DEF WUnlinkAgain
    <2>4. QED
      BY <1>4, <2>1, <2>2, <2>3
  <1>5. CASE WBind
    BY <1>5 DEF WBind
  <1>6. CASE WAccept
    BY <1>6 DEF WAccept
  <1>7. CASE WSendFd
    BY <1>7 DEF WSendFd
  <1>8. CASE WEnds
    <2>1. wfd' \in BOOLEAN
      BY <1>8, Zenon DEF WEnds
    <2>2. wq' \in Seq(Ds)
      BY <1>8 DEF WEnds
    <2>3. QED
      BY <1>8, <2>1, <2>2 DEF WEnds, Closed
  <1>9. CASE StartW
    BY <1>9 DEF StartW, Ws
  <1>10. QED
    BY <1>1, <1>2, <1>3, <1>4, <1>5, <1>6, <1>7, <1>8, <1>9
       DEF Packer, WReset, WSendBroken, KillW

LEMMA TypeDelivery ==
    ASSUME TypeOK, Delivery \/ KillD \/ StartD
    PROVE  TypeOK'
  <1> USE PizzaAssumption
      DEF TypeOK, Passing, Paths, DGoto, cVars, stream, bVars, wVars
  <1>1. CASE DConnect
    BY <1>1 DEF DConnect
  <1>2. CASE DRecvFd
    BY <1>2 DEF DRecvFd
  <1>3. CASE DRecvNothing \/ DReset
    <2>1. CASE DRecvNothing
      BY <2>1 DEF DRecvNothing
    <2>2. CASE DReset
      BY <2>2 DEF DReset
    <2>3. QED
      BY <1>3, <2>1, <2>2
  <1>4. CASE Deliver \/ DeliverNobody
    <2>1. CASE Deliver
      BY <2>1 DEF Deliver
    <2>2. CASE DeliverNobody
      BY <2>2 DEF DeliverNobody
    <2>3. QED
      BY <1>4, <2>1, <2>2
  <1>5. CASE KillD
    BY <1>5 DEF KillD
  <1>6. CASE StartD
    BY <1>6 DEF StartD, Ds, dVars
  <1>7. QED
    BY <1>1, <1>2, <1>3, <1>4, <1>5, <1>6 DEF Delivery

\* Type correctness, whichever process ends and is started again.
THEOREM PizzaTypes == Spec => []TypeOK
  <1>1. Init => TypeOK
    BY InitIInv DEF IInv
  <1>2. TypeOK /\ [Next]_vars => TypeOK'
    <2> SUFFICES ASSUME TypeOK, [Next]_vars PROVE TypeOK'
      OBVIOUS
    <2>1. CASE UNCHANGED vars
      BY <2>1 DEF vars, cVars, stream, bVars, wVars, dVars, queues, TypeOK
    <2>2. QED
      BY <2>1, TypeCustomer, TypeBranch, TypePacker, TypeDelivery DEF Next, User
  <1>3. QED
    BY <1>1, <1>2, PTL DEF Spec

-----------------------------------------------------------------------------
LEMMA HeardStep ==
    ASSUME TypeOK, Heard, [Next]_vars
    PROVE  Heard'
  <1> USE DEF TypeOK, Heard, Received, Count, cVars, stream, bVars, wVars, dVars, Passing
  <1>1. CASE Customer \/ KillC
    <2>1. CASE CConnect
      BY <2>1 DEF CConnect, CGoto
    <2>2. CASE SendChoice
      BY <2>2 DEF SendChoice, CGoto
    <2>3. CASE SendMoney
      BY <2>3 DEF SendMoney, CGoto
    <2>4. CASE RecvAnswer
      BY <2>4 DEF RecvAnswer, CGoto
    <2>5. CASE CLost \/ KillC
      BY <2>5 DEF CLost, KillC, CGoto
    <2>6. QED
      BY <1>1, <2>1, <2>2, <2>3, <2>4, <2>5 DEF Customer
  <1>2. CASE Recv
    BY <1>2 DEF Recv
  <1>3. CASE (Branch /\ ~Recv) \/ KillB
    <2>1. CASE BStart \/ BCustomer
      BY <2>1 DEF BStart, BCustomer, BGoto
    <2>2. CASE BUnlink \/ BBind \/ BListen \/ BAccept
      BY <2>2 DEF BUnlink, BBind, BListen, BAccept, BGoto
    <2>3. CASE BSendFd
      BY <2>3 DEF BSendFd, BGoto
    <2>4. CASE BUnlinkAgain
      BY <2>4 DEF BUnlinkAgain, BGoto
    <2>5. CASE BEnds
      BY <2>5 DEF BEnds
    <2>6. QED
      BY <1>3, <2>1, <2>2, <2>3, <2>4, <2>5 DEF Branch, BSendBroken, KillB
  <1>4. CASE UNCHANGED <<cVars, stream, bVars>>
    BY <1>4
  <1>5. CASE Packer \/ KillW \/ StartW
    BY <1>4, <1>5
       DEF Packer, WGoto, WConnect, WRecvFd, WRecvNothing, WUnlink, WBind, WListen, WAccept,
           WSendFd, WUnlinkAgain, WReset, WSendBroken, WEnds, KillW, StartW
  <1>6. CASE Delivery \/ KillD \/ StartD
    BY <1>4, <1>6
       DEF Delivery, DGoto, DConnect, DRecvFd, DRecvNothing, DReset, Deliver, DeliverNobody,
           KillD, StartD
  <1>7. QED
    BY <1>1, <1>2, <1>3, <1>4, <1>5, <1>6 DEF Next, User, vars

LEMMA FlowStep ==
    ASSUME TypeOK, Flow, [Next]_vars
    PROVE  Flow'
  <1> USE DEF TypeOK, Flow, Packing, Count, bVars, wVars, dVars, Passing
  <1>1. CASE Customer \/ KillC
    BY <1>1 DEF Customer, CConnect, SendChoice, SendMoney, RecvAnswer, CLost, KillC, CGoto
  <1>2. CASE Branch \/ KillB
    <2>1. CASE BSendFd
      BY <2>1 DEF BSendFd, BGoto
    <2>2. CASE BEnds
      BY <2>2 DEF BEnds
    <2>3. CASE Recv
      BY <2>3 DEF Recv
    <2>4. CASE BStart \/ BCustomer \/ BUnlink \/ BBind \/ BListen \/ BAccept \/ BUnlinkAgain
      BY <2>4 DEF BStart, BCustomer, BUnlink, BBind, BListen, BAccept, BUnlinkAgain, BGoto
    <2>5. QED
      BY <1>2, <2>1, <2>2, <2>3, <2>4 DEF Branch, BSendBroken, KillB
  <1>3. CASE Packer \/ KillW \/ StartW
    <2>1. CASE WConnect
      BY <2>1 DEF WConnect, WGoto
    <2>2. CASE WRecvFd
      BY <2>2 DEF WRecvFd, WGoto
    <2>3. CASE WRecvNothing
      BY <2>3 DEF WRecvNothing, WGoto
    <2>4. CASE WUnlink \/ WBind \/ WListen \/ WAccept
      BY <2>4 DEF WUnlink, WBind, WListen, WAccept, WGoto
    <2>5. CASE WSendFd
      BY <2>5 DEF WSendFd, WGoto
    <2>6. CASE WUnlinkAgain
      BY <2>6 DEF WUnlinkAgain, WGoto
    <2>7. CASE WEnds
      BY <2>7 DEF WEnds
    <2>8. CASE StartW
      BY <2>8 DEF StartW
    <2>9. QED
      BY <1>3, <2>1, <2>2, <2>3, <2>4, <2>5, <2>6, <2>7, <2>8
         DEF Packer, WReset, WSendBroken, KillW
  <1>4. CASE Delivery \/ KillD \/ StartD
    <2>1. CASE DConnect
      BY <2>1 DEF DConnect, DGoto
    <2>2. CASE DRecvFd
      BY <2>2 DEF DRecvFd, DGoto
    <2>3. CASE DRecvNothing \/ DReset
      BY <2>3 DEF DRecvNothing, DReset, DGoto
    <2>4. CASE Deliver
      BY <2>4 DEF Deliver, DGoto
    <2>5. CASE DeliverNobody
      BY <2>5 DEF DeliverNobody, DGoto
    <2>6. CASE KillD \/ StartD
      BY <2>6 DEF KillD, StartD, DGoto
    <2>7. QED
      BY <1>4, <2>1, <2>2, <2>3, <2>4, <2>5, <2>6 DEF Delivery
  <1>5. CASE UNCHANGED vars
    BY <1>5 DEF vars
  <1>6. QED
    BY <1>1, <1>2, <1>3, <1>4, <1>5 DEF Next, User

LEMMA FreshStep ==
    ASSUME TypeOK, Fresh, [Next]_vars
    PROVE  Fresh'
  <1> USE DEF TypeOK, Fresh, Ds, dVars
  <1>1. CASE Delivery \/ KillD \/ StartD
    BY <1>1 DEF Delivery, DGoto, DConnect, DRecvFd, DRecvNothing, DReset, Deliver,
                DeliverNobody, KillD, StartD
  <1>2. CASE WEnds
    BY <1>2 DEF WEnds
  <1>3. CASE UNCHANGED dVars
    BY <1>3
  <1>4. CASE Customer \/ KillC
    BY <1>3, <1>4
       DEF Customer, CConnect, SendChoice, SendMoney, RecvAnswer, CLost, KillC, CGoto
  <1>5. CASE Branch \/ KillB
    BY <1>3, <1>5
       DEF Branch, BGoto, BStart, BCustomer, Recv, BUnlink, BBind, BListen, BAccept, BSendFd,
           BUnlinkAgain, BSendBroken, KillB, BEnds
  <1>6. CASE (Packer \/ KillW \/ StartW) /\ ~WEnds
    BY <1>3, <1>6
       DEF Packer, WGoto, WConnect, WRecvFd, WRecvNothing, WUnlink, WBind, WListen, WAccept,
           WSendFd, WUnlinkAgain, WReset, WSendBroken, KillW, StartW
  <1>7. QED
    BY <1>1, <1>2, <1>3, <1>4, <1>5, <1>6 DEF Next, User, vars

LEMMA Invariance == Spec => []IInv
  <1>1. Init => Heard /\ Flow /\ Fresh
    BY InitIInv DEF IInv
  <1>2. TypeOK /\ Heard /\ Flow /\ Fresh /\ [Next]_vars => (Heard /\ Flow /\ Fresh)'
    BY HeardStep, FlowStep, FreshStep
  <1>3. TypeOK /\ Heard /\ Flow /\ Fresh => IInv
    BY DEF IInv
  <1>4. QED
    BY PizzaTypes, <1>1, <1>2, <1>3, PTL DEF Spec

\* A D process delivers once at most, however often it is stopped and started.
THEOREM OneEachTheorem == Spec => []OneEach
  <1>1. IInv => OneEach
    BY DEF IInv, Fresh, OneEach
  <1>2. QED
    BY <1>1, Invariance, PTL

\* No order of a customer who is there goes to the packer before it is paid, and nothing
\* is delivered that was not passed on.
THEOREM PaidFirstTheorem == Spec => []PaidFirst
  <1>1. ASSUME IInv PROVE PaidFirst
    <2>1. delivered <= passed
      BY <1>1 DEF IInv, TypeOK, Flow, Count
    <2>2. ASSUME c # "gone" PROVE passed <= paid
      <3>1. 2 * passed <= 2 * paid + 1
        BY <1>1, <2>2 DEF IInv, TypeOK, Heard, Received, Count
      <3>2. QED
        BY <1>1, <3>1 DEF IInv, TypeOK
    <2>3. QED
      BY <2>1, <2>2 DEF PaidFirst
  <1>2. QED
    BY <1>1, Invariance, PTL
=============================================================================

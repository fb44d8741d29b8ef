-------------------------------- MODULE Pizza --------------------------------
(***************************************************************************)
(* Mid_Lab_Prep/Pizza: the branch (B.c) accepts one customer (C1.c), takes *)
(* the choice and the money of each order and passes the customer's        *)
(* descriptor to the packer (W1.c) at the path ./fsock; that passes it to  *)
(* the delivery person (D.c) at ./c1sock, who answers the customer.  For   *)
(* each order B and W1 make their path anew and unlink it afterwards; W1   *)
(* connects with a new socket each time and D always with the same one, on *)
(* which a second connect() fails for ever.                                *)
(*                                                                         *)
(* A path leads to the listener bound last.  Listeners of earlier orders   *)
(* stay open and nobody accepts there: who is in the queue of one is       *)
(* forgotten here, and waits until its owner ends.  The end of a process   *)
(* resets the connections it has not accepted; on one it has accepted      *)
(* recvmsg() returns nothing, and the descriptor is what malloc() left in  *)
(* the buffer: 0, the terminal.                                            *)
(***************************************************************************)
EXTENDS Integers, Sequences

CONSTANTS
    Orders,     \* the customer's orders: argc - 1
    MaxWs,      \* bound: times W1 is started
    MaxDs       \* bound: times D is started

ASSUME PizzaAssumption == Orders \in Nat /\ MaxWs \in Nat /\ MaxDs \in Nat

Ws == 1..MaxWs                  \* the processes W1, one after the other
Ds == 1..MaxDs                  \* the processes D

VARIABLES
    c, paid,    \* where the customer is, orders it has paid
    avail,      \* messages of the customer that B has not received
    answers,    \* answers the customer has not received
    b,          \* where B is
    fsock,      \* the path ./fsock
    bq, bufd,   \* the W1s in the queue of B's listener, and the one accepted last
    passed,     \* descriptors B has sent
    wn, w,      \* which W1 this is, and where it is
    wfd,        \* whether a descriptor is on its way to W1
    junk,       \* whether W1 has the terminal in hand and not the customer
    c1sock,     \* the path ./c1sock
    wq, nufd,   \* the Ds in the queue of W1's listener, and the one accepted last
    dn, d,      \* which D this is, and where it is
    dfd,        \* what is on its way to D
    keep,       \* who of W1 and D has the customer's descriptor, which nobody closes
    delivered,  \* answers D has sent to the customer
    glued       \* history: B received two messages as one

cVars == <<c, paid>>
stream == <<avail, glued>>
bVars == <<b, fsock, bufd, passed>>
wVars == <<wn, w, junk, c1sock, nufd>>
dVars == <<dn, d, delivered>>
queues == <<bq, wq>>
vars == <<cVars, stream, answers, bVars, wVars, dVars, queues, wfd, dfd, keep>>

Paths == {"none", "bound", "listening"}
Passing == {"unlink", "bind", "listen", "accept", "send", "unlinkagain"}

TypeOK ==
    /\ c \in {"new", "choice", "money", "wait", "gone"} /\ paid \in 0..Orders
    /\ (c \in {"new", "choice", "money"} => paid < Orders)
    /\ avail \in Nat /\ answers \in Nat
    /\ b \in {"new", "customer", "choice", "money", "down"} \cup Passing
    /\ w \in {"connect", "recvfd", "reset", "eof", "down"} \cup Passing
    /\ d \in {"connect", "recvfd", "reset", "eof", "deliver", "spin", "down"}
    /\ fsock \in Paths /\ c1sock \in Paths
    /\ bq \in Seq(Ws) /\ bufd \in Ws \cup {0} /\ wn \in Ws \cup {0}
    /\ wq \in Seq(Ds) /\ nufd \in Ds \cup {0} /\ dn \in Ds \cup {0}
    /\ (w # "down" => wn \in Ws) /\ (d # "down" => dn \in Ds)
    /\ wfd \in BOOLEAN /\ junk \in BOOLEAN /\ glued \in BOOLEAN
    /\ dfd \in {"none", "order", "junk"}
    /\ keep \subseteq {"W", "D"}
    /\ passed \in Nat /\ delivered \in Nat

\* Nothing runs.  What an earlier run left at the paths is unlinked before it is bound.
Init ==
    /\ c = (IF Orders = 0 THEN "gone" ELSE "new") /\ paid = 0
    /\ avail = 0 /\ glued = FALSE /\ answers = 0
    /\ b = "new" /\ fsock = "none" /\ bq = <<>> /\ bufd = 0 /\ passed = 0
    /\ wn = 0 /\ w = "down" /\ junk = FALSE /\ c1sock = "none" /\ wq = <<>> /\ nufd = 0
    /\ dn = 0 /\ d = "down" /\ delivered = 0
    /\ wfd = FALSE /\ dfd = "none" /\ keep = {}

-----------------------------------------------------------------------------
(* Customer: C1.c *)

\* Somebody has the other end of the customer's connection.
Connected == b # "down" \/ keep # {} \/ wfd \/ dfd = "order"

CGoto(from, to) ==
    /\ c = from /\ c' = to
    /\ UNCHANGED <<bVars, wVars, dVars, queues, wfd, dfd, keep, glued>>

\* A customer that comes too early is not connected and ends with its first send(): the
\* one who is served is the first in B's accept queue.
CConnect ==
    /\ CGoto("new", "choice")
    /\ b \notin {"new", "down"}
    /\ UNCHANGED <<paid, avail, answers>>

SendChoice ==
    /\ CGoto("choice", "money")
    /\ Connected
    /\ avail' = avail + 1
    /\ UNCHANGED <<paid, answers>>

\* After a second, which is all that keeps the two messages apart.
SendMoney ==
    /\ CGoto("money", "wait")
    /\ Connected
    /\ paid' = paid + 1 /\ avail' = avail + 1
    /\ UNCHANGED answers

RecvAnswer ==
    /\ CGoto("wait", IF paid = Orders THEN "gone" ELSE "choice")
    /\ answers > 0 /\ answers' = answers - 1
    /\ UNCHANGED <<paid, avail>>

\* When nobody has the connection any more recv() returns and a send() ends the customer.
CLost ==
    /\ c \notin {"new", "gone"} /\ CGoto(c, "gone")
    /\ ~Connected
    /\ UNCHANGED <<paid, avail, answers>>

KillC ==
    /\ c \notin {"new", "gone"} /\ CGoto(c, "gone")
    /\ UNCHANGED <<paid, avail, answers>>

Customer == CConnect \/ SendChoice \/ SendMoney \/ RecvAnswer \/ CLost

-----------------------------------------------------------------------------
(* Branch: B.c *)

\* Variant of Recv: the money is not waited for.
RecvChoiceOnly ==
    /\ b \in {"choice", "money"} /\ b' = "unlink"
    /\ avail > 0 \/ c = "gone"
    /\ avail' = 0
    /\ glued' = (glued \/ avail > 1)
    /\ UNCHANGED <<cVars, answers, fsock, bufd, passed, wVars, dVars, queues, wfd, dfd, keep>>

\* recv() of the choice, then of the money: what is there, or nothing at once when the
\* customer has gone.
Recv ==
    /\ b \in {"choice", "money"} /\ b' = (IF b = "choice" THEN "money" ELSE "unlink")
    /\ avail > 0 \/ c = "gone"
    /\ avail' = 0
    /\ glued' = (glued \/ avail > 1)
    /\ UNCHANGED <<cVars, answers, fsock, bufd, passed, wVars, dVars, queues, wfd, dfd, keep>>

BGoto(from, to) ==
    /\ b = from /\ b' = to
    /\ UNCHANGED <<cVars, stream, answers, wVars, wq, dVars, dfd, keep>>

BStart == BGoto("new", "customer") /\ UNCHANGED <<fsock, bq, bufd, passed, wfd>>
BCustomer ==
    /\ BGoto("customer", "choice")
    /\ c # "new"
    /\ UNCHANGED <<fsock, bq, bufd, passed, wfd>>
BUnlink == BGoto("unlink", "bind") /\ fsock' = "none" /\ UNCHANGED <<bq, bufd, passed, wfd>>
BBind ==
    /\ BGoto("bind", "listen")
    /\ fsock' = "bound" /\ bq' = <<>>
    /\ UNCHANGED <<bufd, passed, wfd>>
BListen == BGoto("listen", "accept") /\ fsock' = "listening" /\ UNCHANGED <<bq, bufd, passed, wfd>>
BAccept ==
    /\ BGoto("accept", "send")
    /\ bq # <<>> /\ bufd' = Head(bq) /\ bq' = Tail(bq)
    /\ UNCHANGED <<fsock, passed, wfd>>
BSendFd ==
    /\ BGoto("send", "unlinkagain")
    /\ bufd = wn /\ w # "down"
    /\ wfd' = TRUE /\ passed' = passed + 1
    /\ UNCHANGED <<fsock, bq, bufd>>
BUnlinkAgain ==
    /\ BGoto("unlinkagain", "choice")
    /\ fsock' = "none"
    /\ UNCHANGED <<bq, bufd, passed, wfd>>

Closed(path) == IF path = "none" THEN "none" ELSE "bound"

\* What the end of B leaves: a W1 that waits for a descriptor has no peer.
BEnds ==
    /\ b' = "down"
    /\ fsock' = Closed(fsock)
    /\ w' = IF w = "recvfd" /\ ~wfd
            THEN (IF b = "send" /\ bufd = wn THEN "eof" ELSE "reset") ELSE w
    /\ UNCHANGED <<cVars, stream, answers, bufd, passed, wn, junk, c1sock, nufd, dVars, queues,
                   wfd, dfd, keep>>

\* sendmsg() to a W1 that has ended since ends B.
BSendBroken == b = "send" /\ ~(bufd = wn /\ w # "down") /\ BEnds
KillB == b \notin {"new", "down"} /\ BEnds

Branch == BStart \/ BCustomer \/ Recv \/ BUnlink \/ BBind \/ BListen \/ BAccept \/ BSendFd
          \/ BSendBroken \/ BUnlinkAgain

-----------------------------------------------------------------------------
(* Packer: W1.c *)

WGoto(from, to) ==
    /\ w = from /\ w' = to
    /\ UNCHANGED <<cVars, stream, answers, bVars, wn, dVars>>

\* connect() in a loop, until it succeeds: W1 may find the listener it was at before.
WConnect ==
    /\ WGoto("connect", "recvfd")
    /\ fsock = "listening"
    /\ bq' = Append(bq, wn)
    /\ UNCHANGED <<junk, c1sock, nufd, wq, wfd, dfd, keep>>
WRecvFd ==
    /\ WGoto("recvfd", "unlink")
    /\ wfd /\ wfd' = FALSE
    /\ junk' = FALSE /\ keep' = keep \cup {"W"}
    /\ UNCHANGED <<c1sock, nufd, queues, dfd>>
WRecvNothing ==
    /\ WGoto("eof", "unlink")
    /\ junk' = TRUE
    /\ UNCHANGED <<c1sock, nufd, queues, wfd, dfd, keep>>
WUnlink ==
    /\ WGoto("unlink", "bind")
    /\ c1sock' = "none"
    /\ UNCHANGED <<junk, nufd, queues, wfd, dfd, keep>>
WBind ==
    /\ WGoto("bind", "listen")
    /\ c1sock' = "bound" /\ wq' = <<>>
    /\ UNCHANGED <<junk, nufd, bq, wfd, dfd, keep>>

\* Variant of WListen: the path is unlinked before anyone can have come.
WListenUnlinks ==
    /\ WGoto("listen", "accept")
    /\ c1sock' = "none"
    /\ UNCHANGED <<junk, nufd, queues, wfd, dfd, keep>>
WListen ==
    /\ WGoto("listen", "accept")
    /\ c1sock' = "listening"
    /\ UNCHANGED <<junk, nufd, queues, wfd, dfd, keep>>
WAccept ==
    /\ WGoto("accept", "send")
    /\ wq # <<>> /\ nufd' = Head(wq) /\ wq' = Tail(wq)
    /\ UNCHANGED <<junk, c1sock, bq, wfd, dfd, keep>>
WSendFd ==
    /\ WGoto("send", "unlinkagain")
    /\ nufd = dn /\ d # "down"
    /\ dfd' = IF junk THEN "junk" ELSE "order"
    /\ UNCHANGED <<junk, c1sock, nufd, queues, wfd, keep>>
WUnlinkAgain ==
    /\ WGoto("unlinkagain", "connect")
    /\ c1sock' = "none"
    /\ UNCHANGED <<junk, nufd, queues, wfd, dfd, keep>>

\* What the end of W1 leaves: a D that waits for a descriptor has no peer.
WEnds ==
    /\ w' = "down"
    /\ wfd' = FALSE /\ keep' = keep \ {"W"}
    /\ c1sock' = Closed(c1sock) /\ wq' = <<>>
    /\ d' = IF d = "recvfd" /\ dfd = "none"
            THEN (IF w = "send" /\ nufd = dn THEN "eof" ELSE "reset") ELSE d
    /\ UNCHANGED <<cVars, stream, answers, bVars, bq, wn, junk, nufd, dn, delivered, dfd>>

\* recv_fd() fails; sendmsg() to a D that has ended since ends W1.
WReset == w = "reset" /\ WEnds
WSendBroken == w = "send" /\ ~(nufd = dn /\ d # "down") /\ WEnds
KillW == w # "down" /\ WEnds

StartW ==
    /\ w = "down" /\ w' = "connect"
    /\ wn < MaxWs /\ wn' = wn + 1
    /\ UNCHANGED <<cVars, stream, answers, bVars, junk, c1sock, nufd, dVars, queues, wfd, dfd,
                   keep>>

Packer == WConnect \/ WRecvFd \/ WRecvNothing \/ WUnlink \/ WBind \/ WListen \/ WAccept
          \/ WSendFd \/ WUnlinkAgain \/ WReset \/ WSendBroken

-----------------------------------------------------------------------------
(* Delivery person: D.c *)

DGoto(from, to) ==
    /\ d = from /\ d' = to
    /\ UNCHANGED <<cVars, stream, bVars, wVars, bq, wfd>>

DConnect ==
    /\ DGoto("connect", "recvfd")
    /\ c1sock = "listening"
    /\ wq' = Append(wq, dn)
    /\ UNCHANGED <<answers, dn, delivered, dfd, keep>>

\* The terminal is no socket: send() on it fails, and D goes back to connect().
DRecvFd ==
    /\ dfd # "none" /\ dfd' = "none"
    /\ DGoto("recvfd", IF dfd = "order" THEN "deliver" ELSE "spin")
    /\ keep' = IF dfd = "order" THEN keep \cup {"D"} ELSE keep
    /\ UNCHANGED <<answers, dn, delivered, wq>>
DRecvNothing == DGoto("eof", "spin") /\ UNCHANGED <<answers, dn, delivered, wq, dfd, keep>>
DReset == DGoto("reset", "down") /\ UNCHANGED <<answers, dn, delivered, wq, dfd, keep>>

\* Variant of Deliver: a new socket for each order.
DeliverAgain ==
    /\ c # "gone"
    /\ DGoto("deliver", "connect")
    /\ answers' = answers + 1 /\ delivered' = delivered + 1
    /\ UNCHANGED <<dn, wq, dfd, keep>>

\* send() to the customer, and back to connect(), which finds the socket connected.
Deliver ==
    /\ c # "gone"
    /\ DGoto("deliver", "spin")
    /\ answers' = answers + 1 /\ delivered' = delivered + 1
    /\ UNCHANGED <<dn, wq, dfd, keep>>

\* To a customer who has gone the first send() succeeds, and the next ends D.
DeliverNobody ==
    /\ c = "gone"
    /\ \E to \in {"spin", "down"} : DGoto("deliver", to)
    /\ keep' = IF d' = "down" THEN keep \ {"D"} ELSE keep
    /\ UNCHANGED <<answers, dn, delivered, wq, dfd>>

Delivery == DConnect \/ DRecvFd \/ DRecvNothing \/ DReset \/ Deliver \/ DeliverNobody

KillD ==
    /\ d # "down" /\ DGoto(d, "down")
    /\ dfd' = "none" /\ keep' = keep \ {"D"}
    /\ UNCHANGED <<answers, dn, delivered, wq>>

StartD ==
    /\ DGoto("down", "connect")
    /\ dn < MaxDs /\ dn' = dn + 1
    /\ UNCHANGED <<answers, delivered, wq, dfd, keep>>

User == KillC \/ KillB \/ KillW \/ StartW \/ KillD \/ StartD

Next == Customer \/ Branch \/ Packer \/ Delivery \/ User

\* Every process that was started runs.
Spec == Init /\ [][Next]_vars /\ WF_vars(Customer) /\ WF_vars(Branch) /\ WF_vars(Packer)
             /\ WF_vars(Delivery)

-----------------------------------------------------------------------------
(* Properties *)

\* A D process delivers once at most: connect() on the socket of its first delivery
\* never succeeds again, so that a second order needs a second D.
OneEach == delivered <= dn

\* While the customer is there no order goes to the packer before it is paid, however
\* B's recv() calls cut the stream and whichever process ends, and nothing is delivered
\* that was not passed on.
PaidFirst == delivered <= passed /\ (c # "gone" => passed <= paid)

\* The first order is delivered, unless B took choice and money for one message or a
\* process does not run or was started again: no order of the three processes' steps at
\* the two paths stops it.
Disturbed ==
    \/ "down" \in {b, w, d}
    \/ c = "gone" \/ wn > 1 \/ dn > 1
FirstDelivered == (paid > 0) ~> (delivered > 0 \/ glued \/ Disturbed)
=============================================================================

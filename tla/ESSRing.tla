------------------------------- MODULE ESSRing -------------------------------
(***************************************************************************)
(* Mid_Lab_CN/Q1: a server (ESS.c) that serves one TCP session, and        *)
(* clients (C1.c .. C4.c, which differ in their number) that form a ring   *)
(* in shared memory and pass the session's descriptor around it, each      *)
(* greeting read and answered by the client that holds it.                 *)
(*                                                                         *)
(* A client enters the shared table, listens on its own socketN and sends  *)
(* SIGUSR1 to its neighbours.  SIGUSR2 tells the next client that its turn *)
(* has come; the descriptor follows over socketN.  A signal is delivered   *)
(* before its receiver makes another call, and since the handlers are      *)
(* installed without SA_RESTART it interrupts a blocked accept(),          *)
(* recvmsg(), read() or connect().                                         *)
(***************************************************************************)
EXTENDS Integers, Sequences, FiniteSets

CONSTANTS
    Clients,    \* client processes; a client's name is its number and its pid
    NoOne,      \* an empty slot of the shared table
    Bad,        \* the descriptor -1
    Together,   \* bound: clients that the user launches at the same time
    MaxGreets,  \* bound: unread greetings on the session
    MaxKinds    \* bound: kinds of calls that signals interrupt, by the number of clients

ASSUME ESSRingAssumption ==
    /\ IsFiniteSet(Clients)
    /\ NoOne \notin Clients /\ Bad \notin Clients
    /\ \A c \in Clients : <<c>> \notin Clients \cup {Bad}
    /\ Together \in Nat
    /\ MaxGreets \in Nat \ {0}
    /\ MaxKinds \in [0..Cardinality(Clients) -> Nat]

Slots == 0..(Cardinality(Clients) - 1)
Backlog == 1                    \* listen(usfd1, 1)

\* A session is named by the client that opened it.
Fds == Clients \cup {Bad}

\* A connection on which client c has sent nothing yet; afterwards a connection
\* stands for the descriptor sent on it, Bad if it was closed with none.
Open(c) == <<c>>
Conns == Fds \cup {Open(c) : c \in Clients}

VARIABLES
    cast,       \* the clients the user launches
    sequential, \* whether each one has entered the ring before the next is launched
    shm,        \* who created the shared segment: nobody yet, init.c or a client
    mi, cliNum, pids,           \* struct msg: i, cli_num[], pids[]
    pc,         \* where each client's main() is
    idx, right, flag1, flag2,   \* the client's globals
    tmp,        \* m->i as loaded by m->i++
    usfd,       \* the descriptor of the session, or Bad
    handles,    \* the signals whose handler is installed
    pending,    \* the signals not yet delivered
    sender,     \* si_pid of the pending SIGUSR1
    accq,       \* connections waiting at each client's socketN: what they carry
    cur,        \* what the accepted connection carries
    stray,      \* what was accepted and, recvmsg() interrupted, is never read nor closed
    served,     \* ESS.c: the session it accepted, or Bad
    essPc,      \* ESS.c: its next call on that session
    greets,     \* unread greetings on that session
    replies,    \* unread replies on it: one read() of the ESS takes them all
    failed      \* history: the calls that failed, "listen" for a socket that closed in the
                \* accept queue of a client that a signal ended

setup  == <<cast, sequential>>
table  == <<setup, shm, mi, cliNum, pids>>
own    == <<idx, right, flag1, tmp, handles>>
sigs   == <<pending, sender>>
conns  == <<accq, cur, stray>>
ess    == <<served, essPc, greets, replies>>
vars == <<table, pc, own, flag2, usfd, sigs, conns, ess, failed>>

Registering == {"check", "slot", "num", "pid", "inc", "store", "bind", "usr1",
                "usr2", "tell", "tellright"}
Turn == {"read", "write", "kill", "connect", "send", "close"}
PCs == {"new", "loop", "accept", "recvfd", "dead"} \cup Registering \cup Turn

TypeOK ==
    /\ cast \in SUBSET Clients /\ sequential \in BOOLEAN
    /\ shm \in {"none", "init", "client"}
    /\ mi \in 0..Cardinality(Clients)
    /\ cliNum \in [Slots -> Clients \cup {NoOne}]
    /\ pids \in [Slots -> Clients \cup {NoOne}]
    /\ pc \in [Clients -> PCs]
    /\ idx \in [Clients -> Slots] /\ right \in [Clients -> Slots]
    /\ flag1 \in [Clients -> BOOLEAN] /\ flag2 \in [Clients -> BOOLEAN]
    /\ tmp \in [Clients -> 0..Cardinality(Clients)]
    /\ usfd \in [Clients -> Fds]
    /\ handles \in [Clients -> SUBSET {"USR1", "USR2"}]
    /\ pending \in [Clients -> SUBSET {"USR1", "USR2"}]
    /\ sender \in [Clients -> Clients \cup {NoOne}]
    /\ accq \in [Clients -> Seq(Conns)]
    /\ cur \in [Clients -> Conns]
    /\ stray \in [Clients -> SUBSET Conns]
    /\ served \in Fds
    /\ essPc \in {"accept", "write", "read", "dead"}
    /\ greets \in 0..MaxGreets /\ replies \in BOOLEAN
    /\ failed \subseteq {"accept", "recvfd", "read", "connect", "listen"}

Init ==
    /\ \/ sequential = TRUE /\ cast = Clients
       \/ sequential = FALSE /\ cast \in {S \in SUBSET Clients : Cardinality(S) = Together}
    /\ shm \in {"none", "init"}
    /\ mi = 0
    /\ cliNum = [s \in Slots |-> NoOne] /\ pids = [s \in Slots |-> NoOne]
    /\ pc = [c \in Clients |-> "new"]
    /\ idx = [c \in Clients |-> 0] /\ right = [c \in Clients |-> 0]
    /\ flag1 = [c \in Clients |-> FALSE] /\ flag2 = [c \in Clients |-> TRUE]
    /\ tmp = [c \in Clients |-> 0]
    /\ usfd = [c \in Clients |-> Bad]
    /\ handles = [c \in Clients |-> {}] /\ pending = [c \in Clients |-> {}]
    /\ sender = [c \in Clients |-> NoOne]
    /\ accq = [c \in Clients |-> <<>>] /\ cur = [c \in Clients |-> Bad]
    /\ stray = [c \in Clients |-> {}]
    /\ served = Bad /\ essPc = "accept" /\ greets = 0 /\ replies = FALSE
    /\ failed = {}

Goto(c, from, to) == pc[c] = from /\ pc' = [pc EXCEPT ![c] = to]

-----------------------------------------------------------------------------
(* Entering the ring: main() up to the loop *)

\* shmget() of the whole struct msg fails on the shorter segment init.c makes.
Launch(c) ==
    /\ c \in cast
    /\ sequential => \A d \in Clients : pc[d] \notin Registering
    /\ IF shm = "init" THEN Goto(c, "new", "dead") ELSE Goto(c, "new", "check")
    /\ shm' = IF shm = "none" THEN "client" ELSE shm
    /\ UNCHANGED <<setup, mi, cliNum, pids, own, flag2, usfd, sigs, conns, ess,
                   failed>>

Check(c) ==
    /\ Goto(c, "check", "slot")
    /\ flag1' = [flag1 EXCEPT ![c] = mi # 0]
    /\ UNCHANGED <<table, idx, right, tmp, handles, flag2, usfd, sigs, conns, ess,
                   failed>>

TakeSlot(c) ==
    /\ Goto(c, "slot", "num")
    /\ IF flag1[c] THEN idx' = [idx EXCEPT ![c] = mi] /\ UNCHANGED mi
                   ELSE mi' = 0 /\ UNCHANGED idx
    /\ UNCHANGED <<setup, shm, cliNum, pids, right, flag1, tmp, handles, flag2, usfd, sigs,
                   conns, ess, failed>>

PutNumber(c) ==
    /\ Goto(c, "num", "pid")
    /\ cliNum' = [cliNum EXCEPT ![idx[c]] = c]
    /\ UNCHANGED <<setup, shm, mi, pids, own, flag2, usfd, sigs, conns, ess, failed>>

PutPid(c) ==
    /\ Goto(c, "pid", "inc")
    /\ pids' = [pids EXCEPT ![idx[c]] = c]
    /\ UNCHANGED <<setup, shm, mi, cliNum, own, flag2, usfd, sigs, conns, ess, failed>>

\* m->i++ is a load and a store.
LoadI(c) ==
    /\ Goto(c, "inc", "store")
    /\ tmp' = [tmp EXCEPT ![c] = mi]
    /\ UNCHANGED <<table, idx, right, flag1, handles, flag2, usfd, sigs, conns, ess,
                   failed>>

StoreI(c) ==
    /\ Goto(c, "store", "bind")
    /\ mi' = tmp[c] + 1
    /\ tmp' = [tmp EXCEPT ![c] = 0]
    /\ UNCHANGED <<setup, shm, cliNum, pids, idx, right, flag1, handles, flag2, usfd,
                   sigs, conns, ess, failed>>

BindListen(c) ==
    /\ Goto(c, "bind", "usr1")
    /\ UNCHANGED <<table, own, flag2, usfd, sigs, conns, ess, failed>>

Listening(c) ==
    pc[c] \in {"usr1", "usr2", "tell", "tellright", "loop", "accept", "recvfd"} \cup Turn

\* sigaction() of hd_P1 and of hd_P2.
Install(c) ==
    /\ \/ /\ Goto(c, "usr1", "usr2")
          /\ handles' = [handles EXCEPT ![c] = @ \cup {"USR1"}]
       \/ /\ Goto(c, "usr2", "tell")
          /\ handles' = [handles EXCEPT ![c] = @ \cup {"USR2"}]
    /\ UNCHANGED <<table, idx, right, flag1, tmp, flag2, usfd, sigs, conns, ess,
                   failed>>

Alive(c) == pc[c] \notin {"new", "dead"}

\* kill(): a signal that is already pending is merged with it, sender included.
Signal(from, targets, sig) ==
    /\ pending' = [d \in Clients |-> IF d \in targets /\ Alive(d)
                                     THEN pending[d] \cup {sig} ELSE pending[d]]
    /\ sender' = [d \in Clients |->
                    IF d \in targets /\ Alive(d) /\ sig = "USR1" /\ "USR1" \notin pending[d]
                    THEN from ELSE sender[d]]

\* pids[k]; pids[-1] lies in cli_num[] and is 0, and kill(0, ..) signals the
\* client's own process group, which holds only itself.
PidAt(c, k) == IF k \in Slots /\ pids[k] # NoOne THEN pids[k] ELSE c

\* All but the first client send SIGUSR1 to the left neighbour ...
TellLeft(c) ==
    /\ IF flag1[c] THEN Goto(c, "tell", "tellright") /\ Signal(c, {PidAt(c, idx[c] - 1)}, "USR1")
                   ELSE Goto(c, "tell", "loop") /\ UNCHANGED sigs
    /\ UNCHANGED <<table, own, flag2, usfd, conns, ess, failed>>

\* ... and then to slot right_idx, which is 0 unless a signal has changed it by now.
TellRight(c) ==
    /\ Goto(c, "tellright", "loop")
    /\ Signal(c, {PidAt(c, right[c])}, "USR1")
    /\ UNCHANGED <<table, own, flag2, usfd, conns, ess, failed>>

-----------------------------------------------------------------------------
(* Signals *)

\* Variant of NewRight: i == idx for i == idx + 1.
NewRightSelf(c, from) ==
    IF idx[c] < mi /\ pids[idx[c]] = from THEN idx[c] ELSE right[c]

\* hd_P1: what the signal of the client in slot k changes.
NewRight(c, from) ==
    LET found == {k \in Slots : k < mi /\ pids[k] = from}
    IN  IF ~flag1[c] THEN (IF 1 \in found THEN 1 ELSE right[c])
                     ELSE (IF idx[c] + 1 \in found THEN idx[c] + 1 ELSE right[c])

\* The calls of the loop that block, and whether they do.
Blocked(c) ==
    \/ pc[c] = "accept" /\ accq[c] = <<>>
    \/ pc[c] = "recvfd" /\ cur[c] \notin Fds
    \/ pc[c] = "read" /\ usfd[c] # Bad /\ greets = 0 /\ usfd[c] = served
    \/ pc[c] = "read" /\ usfd[c] # Bad /\ usfd[c] # served /\ essPc # "dead"
    \/ /\ pc[c] = "connect" /\ cliNum[right[c]] # NoOne
       /\ Len(accq[cliNum[right[c]]]) > Backlog

\* What a failed call leaves: accept() and recvmsg() a bad descriptor, read() an
\* unread greeting, connect() a socket on which nothing can be sent.
Interrupt(c) ==
    /\ pc' = [pc EXCEPT ![c] = CASE pc[c] \in {"accept", "recvfd"} -> "read"
                                 [] pc[c] = "read" -> "write"
                                 [] pc[c] = "connect" -> "close"]
    /\ usfd' = [usfd EXCEPT ![c] = IF pc[c] \in {"accept", "recvfd"} THEN Bad ELSE @]
    /\ IF pc[c] = "recvfd"
       THEN stray' = [stray EXCEPT ![c] = @ \cup {cur[c]}] /\ cur' = [cur EXCEPT ![c] = Bad]
       ELSE UNCHANGED <<stray, cur>>
    /\ failed' = failed \cup {pc[c]}

\* A signal is delivered: its handler runs, and the call the client is blocked
\* in, if it is already in it, fails with EINTR.
Deliver(c, sig) ==
    /\ sig \in pending[c]
    /\ sig \in handles[c]
    /\ pending' = [pending EXCEPT ![c] = @ \ {sig}]
    /\ IF sig = "USR1"
       THEN /\ right' = [right EXCEPT ![c] = NewRight(c, sender[c])]
            /\ sender' = [sender EXCEPT ![c] = NoOne]
            /\ UNCHANGED flag2
       ELSE flag2' = [flag2 EXCEPT ![c] = TRUE] /\ UNCHANGED <<right, sender>>
    /\ \/ UNCHANGED <<pc, usfd, cur, stray, failed>>
       \/ /\ Blocked(c) /\ Interrupt(c)
          /\ Cardinality(failed') <= MaxKinds[Cardinality(cast)]
    /\ UNCHANGED <<table, idx, flag1, tmp, handles, accq, ess>>

\* The end of a process closes what it holds, its accept queue included.
End(c) ==
    /\ pc' = [pc EXCEPT ![c] = "dead"]
    /\ usfd' = [usfd EXCEPT ![c] = Bad]
    /\ accq' = [accq EXCEPT ![c] = <<>>]
    /\ cur' = [cur EXCEPT ![c] = Bad]
    /\ stray' = [stray EXCEPT ![c] = {}]
    /\ failed' = failed \cup {"listen"}

\* Without a handler the signal ends the process.
Killed(c, sig) ==
    /\ sig \in pending[c]
    /\ sig \notin handles[c]
    /\ End(c)
    /\ pending' = [pending EXCEPT ![c] = {}]
    /\ UNCHANGED <<table, own, flag2, sender, ess>>

-----------------------------------------------------------------------------
(* The loop: one turn *)

\* c's session was reset or refused, since the ESS ended without accepting it.
Reset(c) == essPc = "dead" /\ usfd[c] \notin {Bad, served}

\* Variant of BeginTurn: flag1 = 1 is forgotten after connect().
BeginTurnReconnects(c) ==
    /\ pc[c] = "loop" /\ flag2[c]
    /\ flag2' = [flag2 EXCEPT ![c] = FALSE]
    /\ IF flag1[c]
       THEN Goto(c, "loop", "accept") /\ UNCHANGED <<usfd, served, essPc>>
       ELSE /\ Goto(c, "loop", "read")
            /\ usfd' = [usfd EXCEPT ![c] = c]
            /\ IF essPc = "accept" THEN served' = c /\ essPc' = "write"
                                   ELSE UNCHANGED <<served, essPc>>
    /\ UNCHANGED <<table, own, sigs, conns, greets, replies, failed>>

\* The first client connects to the ESS; the others wait for the descriptor.  The ESS
\* accepts once: a later connection waits in its backlog until the ESS has ended, and
\* from then on it is reset or refused.
BeginTurn(c) ==
    /\ pc[c] = "loop" /\ flag2[c]
    /\ flag2' = [flag2 EXCEPT ![c] = FALSE]
    /\ IF flag1[c]
       THEN Goto(c, "loop", "accept") /\ UNCHANGED <<usfd, flag1, served, essPc>>
       ELSE /\ Goto(c, "loop", "read")
            /\ usfd' = [usfd EXCEPT ![c] = c]
            /\ flag1' = [flag1 EXCEPT ![c] = TRUE]
            /\ IF essPc = "accept" THEN served' = c /\ essPc' = "write"
                                   ELSE UNCHANGED <<served, essPc>>
    /\ UNCHANGED <<table, idx, right, tmp, handles, sigs, conns, greets, replies,
                   failed>>

Accept(c) ==
    /\ Goto(c, "accept", "recvfd")
    /\ accq[c] # <<>>
    /\ cur' = [cur EXCEPT ![c] = Head(accq[c])]
    /\ accq' = [accq EXCEPT ![c] = Tail(@)]
    /\ UNCHANGED <<table, own, flag2, usfd, sigs, stray, ess, failed>>

\* recv_fd(): -1 from a connection that was closed with nothing sent.
RecvFd(c) ==
    /\ Goto(c, "recvfd", "read")
    /\ cur[c] \in Fds
    /\ usfd' = [usfd EXCEPT ![c] = cur[c]]
    /\ cur' = [cur EXCEPT ![c] = Bad]
    /\ UNCHANGED <<table, own, flag2, sigs, accq, stray, ess, failed>>

\* Variant of ReadGreeting: the descriptor is O_NONBLOCK.
ReadGreetingNonBlocking(c) ==
    /\ Goto(c, "read", "write")
    /\ \/ usfd[c] = Bad /\ UNCHANGED greets
       \/ usfd[c] = served /\ served # Bad
          /\ greets' = IF greets > 0 THEN greets - 1 ELSE 0
    /\ UNCHANGED <<table, own, flag2, usfd, sigs, conns, served, essPc, replies,
                   failed>>

ReadGreeting(c) ==
    /\ Goto(c, "read", "write")
    /\ \/ usfd[c] = Bad /\ UNCHANGED greets
       \/ usfd[c] = served /\ served # Bad /\ greets > 0 /\ greets' = greets - 1
       \/ Reset(c) /\ UNCHANGED greets
    /\ UNCHANGED <<table, own, flag2, usfd, sigs, conns, served, essPc, replies,
                   failed>>

\* A reset that no read() has reported yet is an error of the first write().
WriteReply(c) ==
    /\ Goto(c, "write", "kill")
    /\ Reset(c) => "read" \in failed
    /\ replies' = (replies \/ (usfd[c] = served /\ served # Bad))
    /\ UNCHANGED <<table, own, flag2, usfd, sigs, conns, served, essPc, greets,
                   failed>>

\* Otherwise write() after a reset ends the client with SIGPIPE.
WriteBroken(c) ==
    /\ pc[c] = "write" /\ Reset(c)
    /\ End(c)
    /\ pending' = [pending EXCEPT ![c] = {}]
    /\ UNCHANGED <<table, own, flag2, sender, ess>>

SignalNext(c) ==
    /\ Goto(c, "kill", "connect")
    /\ Signal(c, {PidAt(c, right[c])}, "USR2")
    /\ UNCHANGED <<table, own, flag2, usfd, conns, ess, failed>>

\* connect() to the socket of the right neighbour of the moment ...
Connect(c) ==
    LET d == cliNum[right[c]] IN
    /\ IF d # NoOne /\ Listening(d)
       THEN /\ Goto(c, "connect", "send")
            /\ Len(accq[d]) <= Backlog
            /\ accq' = [accq EXCEPT ![d] = Append(@, Open(c))]
            /\ UNCHANGED failed
       ELSE /\ Goto(c, "connect", "close")
            /\ failed' = failed \cup {"connect"}
            /\ UNCHANGED accq
    /\ UNCHANGED <<table, own, flag2, usfd, sigs, cur, stray, ess>>

Connected(c) ==
    \E d \in Clients : cur[d] = Open(c) \/ Open(c) \in stray[d]
                       \/ \E k \in DOMAIN accq[d] : accq[d][k] = Open(c)

\* ... send_fd() on it and close() of both ...
SendFd(c) ==
    LET Sent(x) == IF x = Open(c) THEN usfd[c] ELSE x IN
    /\ Goto(c, "send", "loop")
    /\ Connected(c)
    /\ accq' = [d \in Clients |-> [k \in DOMAIN accq[d] |-> Sent(accq[d][k])]]
    /\ cur' = [d \in Clients |-> Sent(cur[d])]
    /\ stray' = [d \in Clients |-> {Sent(x) : x \in stray[d]}]
    /\ usfd' = [usfd EXCEPT ![c] = Bad]
    /\ UNCHANGED <<table, own, flag2, sigs, ess, failed>>

\* ... which ends the client with SIGPIPE if the other one is gone ...
SendBroken(c) ==
    /\ pc[c] = "send" /\ ~Connected(c)
    /\ End(c)
    /\ pending' = [pending EXCEPT ![c] = {}]
    /\ UNCHANGED <<table, own, flag2, sender, ess>>

\* ... and is refused, without a signal, on a socket that was never connected.
CloseFd(c) ==
    /\ Goto(c, "close", "loop")
    /\ usfd' = [usfd EXCEPT ![c] = Bad]
    /\ UNCHANGED <<table, own, flag2, sigs, conns, ess, failed>>

-----------------------------------------------------------------------------
(* ESS.c *)

\* Some process holds the other end of the session.
SessionOpen ==
    \E c \in Clients : \/ usfd[c] = served \/ cur[c] = served \/ served \in stray[c]
                       \/ \E k \in DOMAIN accq[c] : accq[c][k] = served

Greet ==
    /\ essPc = "write" /\ SessionOpen /\ greets < MaxGreets
    /\ greets' = greets + 1
    /\ essPc' = "read"
    /\ UNCHANGED <<table, pc, own, flag2, usfd, sigs, conns, served, replies, failed>>

TakeReply ==
    /\ essPc = "read" /\ replies
    /\ replies' = FALSE
    /\ essPc' = "write"
    /\ UNCHANGED <<table, pc, own, flag2, usfd, sigs, conns, served, greets, failed>>

\* Once the other end is closed read() returns 0, and so does write() until the reset
\* has come back: after that it ends the ESS with SIGPIPE.
SessionClosed ==
    /\ ~SessionOpen
    /\ \/ essPc = "read" /\ ~replies /\ essPc' = "write"
       \/ essPc = "write" /\ essPc' \in {"read", "dead"}
    /\ UNCHANGED <<table, pc, own, flag2, usfd, sigs, conns, served, greets, replies, failed>>

\* The kernel delivers what is pending before a client returns from a call.
ClientStep(c) ==
  /\ pending[c] = {}
  /\ \/ Check(c) \/ TakeSlot(c) \/ PutNumber(c) \/ PutPid(c) \/ LoadI(c)
     \/ StoreI(c) \/ BindListen(c) \/ Install(c) \/ TellLeft(c)
     \/ TellRight(c) \/ BeginTurn(c) \/ Accept(c) \/ RecvFd(c) \/ ReadGreeting(c)
     \/ WriteReply(c) \/ WriteBroken(c) \/ SignalNext(c)
     \/ Connect(c) \/ SendFd(c) \/ SendBroken(c) \/ CloseFd(c)

Next ==
    \/ \E c \in Clients : Launch(c) \/ ClientStep(c)
    \/ \E c \in Clients, sig \in {"USR1", "USR2"} : Deliver(c, sig) \/ Killed(c, sig)
    \/ Greet \/ TakeReply \/ SessionClosed

Spec == Init /\ [][Next]_vars

-----------------------------------------------------------------------------
(* Properties *)

\* The places where the descriptor of session s is: with a client in its turn, in
\* a connection not accepted yet, or in one accepted and not read yet.
Copies(s) ==
    Cardinality({c \in Clients : pc[c] \in Turn /\ usfd[c] = s})
  + Cardinality(UNION {{c} \X {k \in DOMAIN accq[c] : accq[c][k] = s} : c \in Clients})
  + Cardinality({c \in Clients : pc[c] = "recvfd" /\ cur[c] = s})

\* However clients register, signal and are interrupted, the descriptor of a session
\* is in one place at most, so that no two clients talk to the ESS at a time.  The one
\* the ESS serves is lost only after a connect() failed, a recvmsg() was interrupted or
\* a client was ended by a signal, and a turn begins without a descriptor only after
\* one of these or an interrupted accept().
SessionOnce ==
    /\ \A s \in Clients : Copies(s) <= 1
    /\ failed \cap {"connect", "recvfd", "listen"} = {} /\ served # Bad => Copies(served) = 1
    /\ failed \subseteq {"read"} => \A c \in Clients : pc[c] = "read" => usfd[c] # Bad

\* Unless a read() of it was interrupted, a greeting is read by the client whose
\* turn it is before that client answers, and answered before the next greeting.
GreetingAnswered ==
    (SessionOpen /\ "read" \notin failed) =>
      /\ greets > 0 => essPc = "read" /\ ~replies /\ greets = 1
      /\ \A c \in Clients :
           pc[c] = "write" /\ usfd[c] = served /\ served # Bad =>
             greets = 0 /\ ~replies /\ essPc = "read"

Member(c) == pc[c] \in {"loop", "accept", "recvfd"} \cup Turn

\* Clients launched one after the other: no signal reaches a client before its handler
\* is installed, which would end it, and when the SIGUSR1s are delivered each client's
\* right neighbour is the one that came after it, the last one's the first.
RingClosed ==
    sequential =>
      /\ \A c \in Clients : pending[c] \subseteq handles[c]
      /\ (/\ \A c \in Clients : Member(c) \/ pc[c] = "new"
          /\ \A c \in Clients : "USR1" \notin pending[c])
         => \A c \in Clients : Member(c) =>
              /\ cliNum[idx[c]] = c /\ pids[idx[c]] = c
              /\ right[c] = IF idx[c] + 1 = mi THEN 0 ELSE idx[c] + 1
=============================================================================

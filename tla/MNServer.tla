------------------------------- MODULE MNServer -------------------------------
(***************************************************************************)
(* Raw_Sockets/m_n_server: each server (server.c) listens on a range of    *)
(* ports, which ranges of other servers may overlap, and on a raw socket.  *)
(* A client (client.c) asks all servers for their ports by one datagram,   *)
(* reads one of the replies, connects to a port the user enters and sends  *)
(* line after line, reading once after each.  A server has one thread per  *)
(* connection, which finds its descriptor in nsfd[], converts what it      *)
(* reads and sends it back.                                                *)
(*                                                                         *)
(* Bytes are counted in units of 25: a line is some units, a thread's      *)
(* recv() takes 50 bytes and a client's 100.  What a client sends is       *)
(* numbered, and the conversion of a unit keeps its number.                *)
(***************************************************************************)
EXTENDS Integers, Sequences, FiniteSets

CONSTANTS
    N,          \* clients, numbered in the order in which they call connect()
    Servers,
    None,       \* no server, no client; the descriptor -1
    First, Last,\* the ports of each server
    Running,    \* the servers that are in their loop before the first client starts
    Lines,      \* the lengths of the lines a user enters, in units
    MaxLines,   \* bound: lines of all clients together
    MaxFaults   \* bound: clients that the user stops and calls of accept() that fail

ASSUME MNServerAssumption ==
    /\ N \in 1..254             \* int nsfd[255]
    /\ None \notin 1..N /\ None \notin Servers
    /\ First \in [Servers -> Nat \ {0}] /\ Last \in [Servers -> Nat \ {0}]
    /\ Running \subseteq Servers
    /\ Lines \subseteq 1..4
    /\ MaxLines \in Nat /\ MaxFaults \in Nat

Clients == 1..N
Ports == UNION {First[s]..Last[s] : s \in Servers}
Raw == 0                        \* rsfd, beside the ports, in the set of select()
Watched(s) == {Raw} \cup First[s]..Last[s]
Slots == 0..(N - 1)
ThreadRecv == 2                 \* recv(fd, buffer, 50, 0)
ClientRecv == 4                 \* recv(sfd, buffer, 100, 0)

VARIABLES
    pc,         \* client.c: where main() is
    conn,       \* the server that a client is connected to
    link,       \* the server's end of that connection
    sent, got,  \* units sent and units read by each client
    lines,      \* lines sent by all clients
    req, rsp,   \* units on the way to the thread, and back to the client
    replied,    \* whether a reply is there on the client's raw socket
    long,       \* history: clients that sent a line longer than a thread's buffer
    up,         \* server.c: where main() is
    j,          \* the port it makes a listener for next
    asked,      \* queries on each server's raw socket
    readset,    \* what select() watches
    ready,      \* what it returned and has not been looked at
    lq,         \* accept queue of each listener
    nsfd, ind,  \* descriptors accepted, and how many
    fails,      \* clients stopped and calls of accept() that have failed
    tpc,        \* func1, func2, func3: where the thread of each slot is
    tfd, buf    \* its descriptor and its buffer

input == <<pc, sent, got, lines, replied, long>>
netVars == <<conn, link, req, rsp>>
mainVars == <<up, j, asked, readset, ready, lq, nsfd, ind, fails>>
threads == <<tpc, tfd, buf>>
vars == <<input, netVars, mainVars, threads>>

TypeOK ==
    /\ pc \in [Clients -> {"new", "query", "reply", "port", "input", "recv", "gone"}]
    /\ conn \in [Clients -> Servers \cup {None}]
    /\ link \in [Clients -> {"none", "open", "fin", "pipe", "reset", "ended", "down"}]
    /\ sent \in [Clients -> Nat] /\ got \in [Clients -> Nat]
    /\ lines \in 0..MaxLines
    /\ req \in [Clients -> Seq(Nat)] /\ rsp \in [Clients -> Seq(Nat)]
    /\ replied \in [Clients -> BOOLEAN] /\ long \in SUBSET Clients
    /\ up \in [Servers -> {"listen", "raw", "loop", "dead"}]
    /\ j \in [Servers -> Nat] /\ asked \in [Servers -> 0..N]
    /\ readset \in [Servers -> SUBSET ({Raw} \cup Ports)]
    /\ ready \in [Servers -> SUBSET ({Raw} \cup Ports)]
    /\ \A s \in Servers : readset[s] \subseteq Watched(s) /\ ready[s] \subseteq Watched(s)
    /\ lq \in [Servers -> [Ports -> Seq(Clients)]]
    /\ nsfd \in [Servers -> [Slots -> Clients \cup {None}]]
    /\ ind \in [Servers -> 0..N] /\ fails \in 0..MaxFaults
    /\ tpc \in [Servers -> [Slots -> {"none", "start", "recv", "send", "exit"}]]
    /\ tfd \in [Servers -> [Slots -> Clients \cup {None}]]
    /\ buf \in [Servers -> [Slots -> Seq(Nat)]]

Init ==
    /\ pc = [c \in Clients |-> "new"]
    /\ conn = [c \in Clients |-> None] /\ link = [c \in Clients |-> "none"]
    /\ sent = [c \in Clients |-> 0] /\ got = [c \in Clients |-> 0]
    /\ lines = 0
    /\ req = [c \in Clients |-> <<>>] /\ rsp = [c \in Clients |-> <<>>]
    /\ replied = [c \in Clients |-> FALSE] /\ long = {}
    /\ up = [s \in Servers |-> IF s \in Running THEN "loop" ELSE "listen"]
    /\ j = [s \in Servers |-> IF s \in Running THEN Last[s] + 1 ELSE First[s]]
    /\ asked = [s \in Servers |-> 0]
    /\ readset = [s \in Servers |-> IF s \in Running THEN Watched(s) ELSE {}]
    /\ ready = [s \in Servers |-> {}]
    /\ lq = [s \in Servers |-> [p \in Ports |-> <<>>]]
    /\ nsfd = [s \in Servers |-> [n \in Slots |-> None]]
    /\ ind = [s \in Servers |-> 0] /\ fails = 0
    /\ tpc = [s \in Servers |-> [n \in Slots |-> "none"]]
    /\ tfd = [s \in Servers |-> [n \in Slots |-> None]]
    /\ buf = [s \in Servers |-> [n \in Slots |-> <<>>]]

Goto(c, from, to) == pc[c] = from /\ pc' = [pc EXCEPT ![c] = to]
AtMost(n, seq) == IF Len(seq) < n THEN Len(seq) ELSE n

-----------------------------------------------------------------------------
(* server.c: main() *)

\* One listener after another; SO_REUSEADDR | SO_REUSEPORT lets two servers share a port.
Listen(s) ==
    /\ up[s] = "listen"
    /\ j' = [j EXCEPT ![s] = @ + 1]
    /\ up' = IF j[s] = Last[s] THEN [up EXCEPT ![s] = "raw"] ELSE up
    /\ UNCHANGED <<asked, readset, ready, lq, nsfd, ind, fails, input, netVars, threads>>

Listening(s, p) == up[s] # "dead" /\ p \in First[s]..(j[s] - 1)

BindRaw(s) ==
    /\ up[s] = "raw"
    /\ up' = [up EXCEPT ![s] = "loop"]
    /\ readset' = [readset EXCEPT ![s] = Watched(s)]
    /\ UNCHANGED <<j, asked, ready, lq, nsfd, ind, fails, input, netVars, threads>>

Active(s) == {x \in Watched(s) : IF x = Raw THEN asked[s] > 0 ELSE lq[s][x] # <<>>}

\* Variant of Select: the else branches with FD_SET() are left out.
SelectOnce(s) ==
    /\ up[s] = "loop" /\ ready[s] = {}
    /\ readset[s] \cap Active(s) # {}
    /\ ready' = [ready EXCEPT ![s] = readset[s] \cap Active(s)]
    /\ readset' = [readset EXCEPT ![s] = readset[s] \cap Active(s)]
    /\ UNCHANGED <<up, j, asked, lq, nsfd, ind, fails, input, netVars, threads>>

\* select(), and the FD_SET() of all that it did not return.
Select(s) ==
    /\ up[s] = "loop" /\ ready[s] = {}
    /\ readset[s] \cap Active(s) # {}
    /\ ready' = [ready EXCEPT ![s] = readset[s] \cap Active(s)]
    /\ readset' = [readset EXCEPT ![s] = Watched(s)]
    /\ UNCHANGED <<up, j, asked, lq, nsfd, ind, fails, input, netVars, threads>>

\* All clients are bound to 127.0.0.3, where the reply goes: each of them gets it.
HandleQuery(s) ==
    /\ up[s] = "loop" /\ Raw \in ready[s]
    /\ asked' = [asked EXCEPT ![s] = @ - 1]
    /\ replied' = [c \in Clients |-> replied[c] \/ pc[c] \notin {"new", "gone"}]
    /\ ready' = [ready EXCEPT ![s] = @ \ {Raw}]
    /\ UNCHANGED <<up, j, readset, lq, nsfd, ind, fails, pc, sent, got, lines, long,
                   netVars, threads>>

\* The loop over the listeners looks at the lowest port first.
NextReady(s, p) ==
    /\ up[s] = "loop" /\ Raw \notin ready[s]
    /\ p \in ready[s] /\ \A q \in ready[s] : p <= q
    /\ ready' = [ready EXCEPT ![s] = @ \ {p}]

\* accept() into nsfd[ind], a thread that is given the address of that slot, and ind++.
Accept(s, p) ==
    /\ NextReady(s, p)
    /\ lq' = [lq EXCEPT ![s][p] = Tail(@)]
    /\ nsfd' = [nsfd EXCEPT ![s][ind[s]] = Head(lq[s][p])]
    /\ ind' = [ind EXCEPT ![s] = @ + 1]
    /\ tpc' = [tpc EXCEPT ![s][ind[s]] = "start"]
    /\ UNCHANGED <<up, j, asked, readset, fails, tfd, buf, input, netVars>>

\* accept() returns -1: the slot is left for the next one, the connection in its queue.
AcceptFails(s, p) ==
    /\ NextReady(s, p)
    /\ fails < MaxFaults /\ fails' = fails + 1
    /\ nsfd' = [nsfd EXCEPT ![s][ind[s]] = None]
    /\ UNCHANGED <<up, j, asked, readset, lq, ind, input, netVars, threads>>

-----------------------------------------------------------------------------
(* server.c: the thread of slot n; func1, func2 and func3 differ in the conversion *)

\* Variant of ThreadStart: one variable for all threads instead of a slot for each.
ThreadStartShared(s, n) ==
    /\ tpc[s][n] = "start"
    /\ tfd' = [tfd EXCEPT ![s][n] = nsfd[s][ind[s] - 1]]
    /\ tpc' = [tpc EXCEPT ![s][n] = "recv"]
    /\ UNCHANGED <<buf, input, netVars, mainVars>>

\* int fd = *(int*)arg
ThreadStart(s, n) ==
    /\ tpc[s][n] = "start"
    /\ tfd' = [tfd EXCEPT ![s][n] = nsfd[s][n]]
    /\ tpc' = [tpc EXCEPT ![s][n] = "recv"]
    /\ UNCHANGED <<buf, input, netVars, mainVars>>

\* Variant of ThreadRead: a buffer of half the size.
ThreadReadLess(s, n) ==
    LET c == tfd[s][n] IN
    /\ tpc[s][n] = "recv" /\ req[c] # <<>>
    /\ buf' = [buf EXCEPT ![s][n] = SubSeq(req[c], 1, 1)]
    /\ req' = [req EXCEPT ![c] = Tail(@)]
    /\ tpc' = [tpc EXCEPT ![s][n] = "send"]
    /\ UNCHANGED <<tfd, conn, link, rsp, input, mainVars>>

\* recv() takes what is there, up to the size of the buffer ...
ThreadRead(s, n) ==
    LET c == tfd[s][n]
        m == AtMost(ThreadRecv, req[c])
    IN  /\ tpc[s][n] = "recv" /\ req[c] # <<>>
        /\ buf' = [buf EXCEPT ![s][n] = SubSeq(req[c], 1, m)]
        /\ req' = [req EXCEPT ![c] = SubSeq(@, m + 1, Len(@))]
        /\ tpc' = [tpc EXCEPT ![s][n] = "send"]
        /\ UNCHANGED <<tfd, conn, link, rsp, input, mainVars>>

\* ... or finds that the client has gone.  A reset is reported once, as an error, and
\* the thread tries again; otherwise recv() returns 0 and the thread ends.
ThreadEnd(s, n) ==
    LET c == tfd[s][n] IN
    /\ tpc[s][n] = "recv" /\ req[c] = <<>> /\ link[c] # "open"
    /\ IF link[c] = "reset"
       THEN link' = [link EXCEPT ![c] = "ended"] /\ UNCHANGED tpc
       ELSE tpc' = [tpc EXCEPT ![s][n] = "exit"] /\ UNCHANGED link
    /\ UNCHANGED <<tfd, buf, conn, req, rsp, input, mainVars>>

\* send() of the converted bytes.
ThreadSend(s, n) ==
    LET c == tfd[s][n] IN
    /\ tpc[s][n] = "send" /\ link[c] = "open"
    /\ rsp' = [rsp EXCEPT ![c] = @ \o buf[s][n]]
    /\ buf' = [buf EXCEPT ![s][n] = <<>>]
    /\ tpc' = [tpc EXCEPT ![s][n] = "recv"]
    /\ UNCHANGED <<tfd, conn, link, req, input, mainVars>>

\* send() to a client that has gone: nothing comes of the first one but a reset, a reset
\* that was not reported yet is an error ...
ThreadSendLost(s, n) ==
    LET c == tfd[s][n] IN
    /\ tpc[s][n] = "send" /\ link[c] \in {"fin", "reset"}
    /\ link' = [link EXCEPT ![c] = IF @ = "fin" THEN "pipe" ELSE "ended"]
    /\ buf' = [buf EXCEPT ![s][n] = <<>>]
    /\ tpc' = [tpc EXCEPT ![s][n] = "recv"]
    /\ UNCHANGED <<tfd, conn, req, rsp, input, mainVars>>

\* ... and then SIGPIPE ends the server, with all its threads and connections.
Sigpipe(s, n) ==
    /\ tpc[s][n] = "send" /\ link[tfd[s][n]] \in {"pipe", "ended"}
    /\ up' = [up EXCEPT ![s] = "dead"]
    /\ link' = [c \in Clients |-> IF conn[c] = s THEN "down" ELSE link[c]]
    /\ req' = [c \in Clients |-> IF conn[c] = s THEN <<>> ELSE req[c]]
    /\ lq' = [lq EXCEPT ![s] = [p \in Ports |-> <<>>]]
    /\ asked' = [asked EXCEPT ![s] = 0]
    /\ ready' = [ready EXCEPT ![s] = {}]
    /\ tpc' = [tpc EXCEPT ![s] = [k \in Slots |-> "exit"]]
    /\ buf' = [buf EXCEPT ![s] = [k \in Slots |-> <<>>]]
    /\ UNCHANGED <<j, readset, nsfd, ind, fails, tfd, conn, rsp, input>>

-----------------------------------------------------------------------------
(* client.c *)

\* socket() and bind() to 127.0.0.3: from here on replies reach it, whoever asked.
Start(c) ==
    /\ Goto(c, "new", "query")
    /\ UNCHANGED <<sent, got, lines, replied, long, netVars, mainVars, threads>>

\* sendto() 127.0.0.1, where the raw sockets of all servers are bound.
Query(c) ==
    /\ Goto(c, "query", "reply")
    /\ asked' = [s \in Servers |-> asked[s] + (IF up[s] = "loop" THEN 1 ELSE 0)]
    /\ UNCHANGED <<sent, got, lines, replied, long, netVars, up, j, readset, ready, lq,
                   nsfd, ind, fails, threads>>

\* One recvfrom(): the loop over the servers is commented out.
ReadReply(c) ==
    /\ Goto(c, "reply", "port")
    /\ replied[c]
    /\ UNCHANGED <<sent, got, lines, replied, long, netVars, mainVars, threads>>

\* connect() to the port that the user enters: to any server that listens there, or to
\* none, which only prints a message.
Connect(c, p) ==
    /\ Goto(c, "port", "input")
    /\ \A d \in 1..(c - 1) : pc[d] \in {"input", "recv", "gone"}
    /\ \/ \E s \in Servers :
            /\ Listening(s, p)
            /\ conn' = [conn EXCEPT ![c] = s]
            /\ link' = [link EXCEPT ![c] = "open"]
            /\ lq' = [lq EXCEPT ![s][p] = Append(@, c)]
       \/ /\ \A s \in Servers : ~Listening(s, p)
          /\ UNCHANGED <<conn, link, lq>>
    /\ UNCHANGED <<sent, got, lines, replied, long, req, rsp, up, j, asked, readset,
                   ready, nsfd, ind, fails, threads>>

\* The kernel closes what the process had; answers that were not read make it a reset.
Gone(c) ==
    /\ link' = [link EXCEPT ![c] = IF @ # "open" THEN @
                                   ELSE IF rsp[c] = <<>> THEN "fin" ELSE "reset"]
    /\ rsp' = [rsp EXCEPT ![c] = <<>>]
    /\ replied' = [replied EXCEPT ![c] = FALSE]
    /\ UNCHANGED <<sent, got, lines, long, conn, req, up, j, asked, readset, ready, lq,
                   nsfd, ind, threads>>

\* The user enters a line of m units.
SendLine(c, m) ==
    /\ link[c] = "open" /\ lines < MaxLines
    /\ Goto(c, "input", "recv")
    /\ lines' = lines + 1
    /\ sent' = [sent EXCEPT ![c] = @ + m]
    /\ req' = [req EXCEPT ![c] = @ \o [k \in 1..m |-> sent[c] + k]]
    /\ long' = IF m > ThreadRecv THEN long \cup {c} ELSE long
    /\ UNCHANGED <<got, replied, conn, link, rsp, mainVars, threads>>

\* A line for a server that has gone is lost at first, and later ends the client by
\* SIGPIPE, as the first one does on a socket that was never connected.
SendNowhere(c) ==
    /\ link[c] \in {"none", "down"} /\ lines < MaxLines
    /\ \/ /\ link[c] = "down" /\ Goto(c, "input", "recv")
          /\ lines' = lines + 1
          /\ UNCHANGED <<sent, got, replied, long, netVars, mainVars, threads>>
       \/ Goto(c, "input", "gone") /\ Gone(c) /\ UNCHANGED fails

\* One recv(), which returns at once when the server has gone.
ReadAnswer(c) ==
    LET m == AtMost(ClientRecv, rsp[c]) IN
    /\ Goto(c, "recv", "input")
    /\ rsp[c] # <<>> \/ link[c] = "down"
    /\ got' = [got EXCEPT ![c] = @ + m]
    /\ rsp' = [rsp EXCEPT ![c] = SubSeq(@, m + 1, Len(@))]
    /\ UNCHANGED <<sent, lines, replied, long, conn, link, req, mainVars, threads>>

\* There is no way out of the loop but a signal.  (To stop a client that is not connected
\* is as good as to enter no port.)
Kill(c) ==
    /\ pc[c] \in {"input", "recv"}
    /\ fails < MaxFaults /\ fails' = fails + 1
    /\ pc' = [pc EXCEPT ![c] = "gone"]
    /\ Gone(c)

-----------------------------------------------------------------------------
Main(s) ==
    \/ Listen(s) \/ BindRaw(s) \/ Select(s) \/ HandleQuery(s)
    \/ \E p \in Ports : Accept(s, p) \/ AcceptFails(s, p)

Thread(s, n) ==
    \/ ThreadStart(s, n) \/ ThreadRead(s, n) \/ ThreadEnd(s, n) \/ ThreadSend(s, n)
    \/ ThreadSendLost(s, n) \/ Sigpipe(s, n)

Client(c) == Query(c) \/ ReadReply(c) \/ ReadAnswer(c)

User(c) ==
    \/ Start(c) \/ Kill(c) \/ \E p \in Ports : Connect(c, p)
    \/ SendNowhere(c) \/ \E m \in Lines : SendLine(c, m)

Server(s) == Main(s) \/ \E n \in Slots : Thread(s, n)

Next ==
    \/ \E s \in Servers : Server(s)
    \/ \E c \in Clients : Client(c) \/ User(c)

\* Every process runs, whichever of its threads; what the user does, the user may not do.
Fairness ==
    /\ \A s \in Servers : WF_vars(Server(s))
    /\ \A c \in Clients : WF_vars(Client(c))

Spec == Init /\ [][Next]_vars /\ Fairness

-----------------------------------------------------------------------------
(* Properties *)

\* The units of client c that a thread has read and not sent back.
Held(c) == {t \in Servers \X Slots : tfd[t[1]][t[2]] = c /\ buf[t[1]][t[2]] # <<>>}

\* What a connected client has not read yet of what it sent is on its way to one thread,
\* in that thread, and on its way back, in the order it was sent, and nothing twice: no
\* two threads of a server ever read one connection, however accepts and threads overlap.
InOrder ==
    \A c \in Clients : (link[c] = "open") =>
      /\ Cardinality(Held(c)) <= 1
      /\ LET b == IF Held(c) = {} THEN <<>>
                  ELSE LET t == CHOOSE t \in Held(c) : TRUE IN buf[t[1]][t[2]]
         IN  rsp[c] \o b \o req[c] = [k \in 1..(sent[c] - got[c]) |-> got[c] + k]

\* A client that only sends lines a thread reads at once is never behind: when it asks
\* for the next line, what it printed was the whole answer to the last one.
InStep ==
    \A c \in Clients :
      (pc[c] = "input" /\ link[c] = "open" /\ c \notin long) => got[c] = sent[c]

\* A server outlives its clients, wherever they are stopped, unless one that left more
\* than one unit unanswered had sent a line longer than a thread reads at once.
Survives ==
    \A s \in Servers :
      up[s] = "dead" =>
        \E c \in long : conn[c] = s /\ pc[c] = "gone" /\ sent[c] - got[c] > 1

\* Nobody waits for good: a recv() of a client returns, and so does the recvfrom() of one
\* whose query a server got, unless that server ends, whatever calls of accept() failed.
Waits(c) == pc[c] = "recv" \/ (pc[c] = "reply" /\ \E s \in Servers : asked[s] > 0)
Answered ==
    \A c \in Clients :
      Waits(c) ~> (pc[c] \notin {"recv", "reply"} \/ \E s \in Servers : up[s] = "dead")
=============================================================================

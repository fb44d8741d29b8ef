----------------------------- MODULE SuperServer -----------------------------
(***************************************************************************)
(* Internet_Super_Server_Reports: S.c accepts a client, forks and executes *)
(* S1.c, makes a listener at the path ./fsock, accepts S1 there, sends it  *)
(* the client's descriptor and reads the reports S1 makes of what the      *)
(* client sends, before it accepts the next client.                        *)
(*                                                                         *)
(* S and the S1 it forked race: S makes the path anew (unlink, bind,       *)
(* listen) while S1 connects to it once and exits when that fails.  No     *)
(* listener is ever closed, so that a path not yet unlinked leads to the   *)
(* one of the client before.  S1 inherits S's listeners, the one of the    *)
(* port included: the option that is set is SO_REUSEPORT, and a killed S   *)
(* is started again although an S1 left behind still holds the old port.   *)
(* Clients and S1s are killed as well.                                     *)
(***************************************************************************)
EXTENDS Integers, Sequences

CONSTANTS
    NClients,   \* clients, numbered as they connect
    Messages,   \* messages a client sends, reports S1 makes, reports S reads (5)
    MaxStarts,  \* bound: times S is started again
    MaxDeaths   \* bound: processes killed, S among them

ASSUME SuperServerAssumption ==
    /\ NClients \in Nat /\ Messages \in Nat \ {0}
    /\ MaxStarts \in Nat /\ MaxDeaths \in Nat

Clients == 1..NClients
None == 0
Runs == 1..(MaxStarts + 1)

\* The S1 forked for client c, and the listener made for it, are called c as well.
VARIABLES
    run,        \* which start of S this is
    s,          \* where S is
    cur,        \* the client S has in hand: nsfd
    nufd,       \* the S1 that S has accepted
    got,        \* i in func()
    own,        \* listeners S holds
    port,       \* the accept queue of port 8000, of each run of S
    home,       \* the run of S whose port a client is connected to, 0 for none
    sent,       \* messages a client has sent
    avail,      \* of these, those nobody has received
    quit,       \* clients that were killed
    fsock,      \* the listener the path ./fsock leads to
    csock,      \* whether the path ./csock is there
    listening,  \* listeners that listen
    backlog,    \* the S1s in the queue of a listener
    s1,         \* where each S1 is
    inherited,  \* the listeners each S1 has from S
    has,        \* the client whose descriptor was sent to each S1
    made,       \* reports S1 has made: i in S_func()
    report,     \* of these, those S has not read
    raced,      \* history: some S1 came to connect() and did not find its listener
    deaths      \* processes killed so far

sVars == <<run, s, cur, nufd, got, own, port>>
clientVars == <<home, sent, avail, quit>>
pathVars == <<fsock, csock, listening, backlog>>
s1Vars == <<s1, inherited, has, made, report>>
vars == <<sVars, clientVars, pathVars, s1Vars, raced, deaths>>

TypeOK ==
    /\ run \in Runs /\ got \in 0..Messages /\ own \in SUBSET Clients
    /\ s \in {"down", "accept", "unlink", "bind", "listen", "acceptu", "send", "func"}
    /\ {cur, nufd, fsock} \subseteq Clients \cup {None} /\ csock \in BOOLEAN
    /\ port \in [Runs -> Seq(Clients)] /\ backlog \in [Clients -> Seq(Clients)]
    /\ home \in [Clients -> Runs \cup {0}]
    /\ s1 \in [Clients -> {"none", "unlink", "bind", "connect", "recvfd", "serve", "gone"}]
    /\ inherited \in [Clients -> SUBSET Clients] /\ listening \in SUBSET Clients
    /\ has \in [Clients -> Clients \cup {None}]
    /\ \A f \in {sent, avail, made, report} : f \in [Clients -> 0..Messages]
    /\ raced \in BOOLEAN /\ quit \in SUBSET Clients /\ deaths \in 0..MaxDeaths

Init ==
    /\ run = 1 /\ s = "accept" /\ cur = None /\ nufd = None /\ got = 0 /\ own = {}
    /\ port = [r \in Runs |-> <<>>] /\ home = [c \in Clients |-> 0]
    /\ sent = [c \in Clients |-> 0] /\ avail = [c \in Clients |-> 0]
    /\ fsock = None /\ csock = FALSE /\ listening = {}
    /\ backlog = [c \in Clients |-> <<>>]
    /\ s1 = [c \in Clients |-> "none"] /\ inherited = [c \in Clients |-> {}]
    /\ has = [c \in Clients |-> None]
    /\ made = [c \in Clients |-> 0] /\ report = [c \in Clients |-> 0]
    /\ raced = FALSE /\ quit = {} /\ deaths = 0

\* A socket is open as long as some process holds it.
S1Alive(c) == s1[c] \notin {"none", "gone"}
Open(l) == l \in own \/ \E c \in Clients : S1Alive(c) /\ l \in inherited[c]
PortOpen(r) == (s # "down" /\ r = run) \/ \E c \in Clients : S1Alive(c) /\ home[c] = r

-----------------------------------------------------------------------------
(* Clients: C1.c, C2.c *)

\* With SO_REUSEPORT any open socket of the port may get the connection.
ClientConnects(c) ==
    /\ home[c] = 0 /\ \A b \in 1..(c - 1) : home[b] # 0
    /\ \E r \in Runs :
         /\ PortOpen(r)
         /\ home' = [home EXCEPT ![c] = r]
         /\ port' = [port EXCEPT ![r] = Append(@, c)]
    /\ UNCHANGED <<run, s, cur, nufd, got, own, sent, avail, quit, pathVars, s1Vars, raced, deaths>>

ClientSends(c) ==
    /\ home[c] # 0 /\ sent[c] < Messages /\ c \notin quit
    /\ sent' = [sent EXCEPT ![c] = @ + 1]
    /\ avail' = [avail EXCEPT ![c] = @ + 1]
    /\ UNCHANGED <<sVars, home, quit, pathVars, s1Vars, raced, deaths>>

Ended(c) == sent[c] = Messages \/ c \in quit

-----------------------------------------------------------------------------
(* S.c *)

\* Variant of Accept: clients that wait are accepted before any is passed on.
AcceptAll ==
    /\ s = "accept" /\ port[run] # <<>>
    /\ cur' = Head(port[run])
    /\ port' = [port EXCEPT ![run] = Tail(@)]
    /\ s1' = [s1 EXCEPT ![cur'] = "unlink"]
    /\ inherited' = [inherited EXCEPT ![cur'] = own]
    /\ s' = IF port'[run] = <<>> THEN "unlink" ELSE "accept"
    /\ UNCHANGED <<run, nufd, got, own, clientVars, pathVars, has, made, report, raced, deaths>>

\* accept(), fork() and, in the child, execv(), which keeps every descriptor
\* (of an S1 that is where S looks for it).
Accept ==
    /\ s = "accept" /\ port[run] # <<>>
    /\ cur' = Head(port[run])
    /\ port' = [port EXCEPT ![run] = Tail(@)]
    /\ s1' = [s1 EXCEPT ![cur'] = "unlink"]
    /\ inherited' = [inherited EXCEPT ![cur'] = own]
    /\ s' = "unlink"
    /\ UNCHANGED <<run, nufd, got, own, clientVars, pathVars, has, made, report, raced, deaths>>

SGoto(from, to) == s = from /\ s' = to /\ UNCHANGED <<run, port, clientVars, raced, deaths>>

\* serv_listen()
Unlink ==
    /\ SGoto("unlink", "bind")
    /\ fsock' = None
    /\ UNCHANGED <<cur, nufd, got, own, csock, listening, backlog, s1Vars>>
Bind ==
    /\ SGoto("bind", "listen")
    /\ fsock' = cur /\ own' = own \cup {cur}
    /\ UNCHANGED <<cur, nufd, got, csock, listening, backlog, s1Vars>>
Listen ==
    /\ SGoto("listen", "acceptu")
    /\ listening' = listening \cup {cur}
    /\ UNCHANGED <<cur, nufd, got, own, fsock, csock, backlog, s1Vars>>

AcceptS1 ==
    /\ SGoto("acceptu", "send")
    /\ backlog[cur] # <<>>
    /\ nufd' = Head(backlog[cur])
    /\ backlog' = [backlog EXCEPT ![cur] = Tail(@)]
    /\ UNCHANGED <<cur, got, own, fsock, csock, listening, s1Vars>>

SendFd ==
    /\ SGoto("send", "func")
    /\ S1Alive(nufd)
    /\ has' = [has EXCEPT ![nufd] = cur]
    /\ UNCHANGED <<cur, nufd, got, own, pathVars, s1, inherited, made, report>>

\* What only S held is closed when it ends, and reports on their way are lost.
Down ==
    /\ s' = "down" /\ own' = {} /\ cur' = None /\ nufd' = None /\ got' = 0
    /\ report' = [c \in Clients |-> 0]
    /\ UNCHANGED <<run, port, clientVars, pathVars, s1, inherited, has, made, raced>>

\* The S1 it has accepted was killed: SIGPIPE.
SendBroken == s = "send" /\ ~S1Alive(nufd) /\ Down /\ UNCHANGED deaths

\* Variant of ReadReport: i < 4 in func().
ReadReportShort ==
    /\ s = "func" /\ report[nufd] > 0
    /\ report' = [report EXCEPT ![nufd] = @ - 1]
    /\ IF got + 2 >= Messages
       THEN s' = "accept" /\ cur' = None /\ nufd' = None /\ got' = 0
       ELSE got' = got + 1 /\ UNCHANGED <<s, cur, nufd>>
    /\ UNCHANGED <<run, own, port, clientVars, pathVars, s1, inherited, has, made, raced, deaths>>

\* One recv() of func(): of a report or, when S1 has gone, of nothing.
ReadReport ==
    /\ s = "func" /\ (report[nufd] > 0 \/ ~S1Alive(nufd))
    /\ report' = [report EXCEPT ![nufd] = IF @ > 0 THEN @ - 1 ELSE 0]
    /\ IF got + 1 = Messages
       THEN s' = "accept" /\ cur' = None /\ nufd' = None /\ got' = 0
       ELSE got' = got + 1 /\ UNCHANGED <<s, cur, nufd>>
    /\ UNCHANGED <<run, own, port, clientVars, pathVars, s1, inherited, has, made, raced, deaths>>

S == Accept \/ Unlink \/ Bind \/ Listen \/ AcceptS1 \/ SendFd \/ SendBroken \/ ReadReport

Start ==
    /\ s = "down" /\ run <= MaxStarts
    /\ s' = "accept" /\ run' = run + 1
    /\ UNCHANGED <<cur, nufd, got, own, port, clientVars, pathVars, s1Vars, raced, deaths>>

-----------------------------------------------------------------------------
(* S1.c *)

S1Goto(c, from, to) == s1[c] = from /\ s1' = [s1 EXCEPT ![c] = to]

\* cli_conn()
S1Unlink(c) ==
    /\ S1Goto(c, "unlink", "bind")
    /\ csock' = FALSE
    /\ UNCHANGED <<sVars, clientVars, fsock, listening, backlog, inherited, has, made,
                   report, raced, deaths>>
S1Bind(c) ==
    /\ S1Goto(c, "bind", IF csock THEN "gone" ELSE "connect")
    /\ csock' = TRUE
    /\ UNCHANGED <<sVars, clientVars, fsock, listening, backlog, inherited, has, made,
                   report, raced, deaths>>
S1Connect(c) ==
    LET found == fsock \in listening /\ Open(fsock) IN
    /\ S1Goto(c, "connect", IF found THEN "recvfd" ELSE "gone")
    /\ backlog' = IF found THEN [backlog EXCEPT ![fsock] = Append(@, c)] ELSE backlog
    /\ raced' = (raced \/ ~found \/ fsock # c)
    /\ UNCHANGED <<sVars, clientVars, fsock, csock, listening, inherited, has, made, report, deaths>>

S1RecvFd(c) ==
    /\ S1Goto(c, "recvfd", "serve")
    /\ has[c] # None
    /\ UNCHANGED <<sVars, clientVars, pathVars, inherited, has, made, report, raced, deaths>>

\* The connection to S is closed: recvmsg() returns 0, and the first send() ends S1.
S1Dropped(c) ==
    /\ S1Goto(c, "recvfd", "gone")
    /\ has[c] = None /\ c # nufd
    /\ \A l \in Clients : Open(l) => \A n \in DOMAIN backlog[l] : backlog[l][n] # c
    /\ UNCHANGED <<sVars, clientVars, pathVars, inherited, has, made, report, raced, deaths>>

\* Variant of Report: the end of the client is not taken for a message.
ReportNoEnd(c) ==
    LET h == has[c]
        last == made[c] + 1 = Messages
    IN
    /\ S1Goto(c, "serve", IF c # nufd \/ last THEN "gone" ELSE "serve")
    /\ avail[h] > 0
    /\ avail' = [avail EXCEPT ![h] = 0]
    /\ IF c = nufd
       THEN /\ made' = [made EXCEPT ![c] = @ + 1] /\ report' = [report EXCEPT ![c] = @ + 1]
       ELSE UNCHANGED <<made, report>>
    /\ UNCHANGED <<sVars, home, sent, quit, pathVars, inherited, has, raced, deaths>>

\* S_func(): recv() of what is there, or of nothing once the client has gone, and send(),
\* which ends S1 when S is no longer there.
Report(c) ==
    LET h == has[c]
        last == made[c] + 1 = Messages
    IN
    /\ S1Goto(c, "serve", IF c # nufd \/ last THEN "gone" ELSE "serve")
    /\ avail[h] > 0 \/ Ended(h)
    /\ avail' = [avail EXCEPT ![h] = 0]
    /\ IF c = nufd
       THEN /\ made' = [made EXCEPT ![c] = @ + 1] /\ report' = [report EXCEPT ![c] = @ + 1]
       ELSE UNCHANGED <<made, report>>
    /\ UNCHANGED <<sVars, home, sent, quit, pathVars, inherited, has, raced, deaths>>

S1(c) == S1Unlink(c) \/ S1Bind(c) \/ S1Connect(c) \/ S1RecvFd(c) \/ S1Dropped(c) \/ Report(c)

-----------------------------------------------------------------------------
(* Processes that are killed *)

Kill == deaths < MaxDeaths /\ deaths' = deaths + 1

KillS == Kill /\ s # "down" /\ Down

KillS1(c) ==
    /\ Kill
    /\ S1Alive(c) /\ s1' = [s1 EXCEPT ![c] = "gone"]
    /\ UNCHANGED <<sVars, clientVars, pathVars, inherited, has, made, report, raced>>

KillClient(c) ==
    /\ Kill
    /\ home[c] # 0 /\ ~Ended(c) /\ quit' = quit \cup {c}
    /\ UNCHANGED <<sVars, home, sent, avail, pathVars, s1Vars, raced>>

Next ==
    \/ \E c \in Clients : ClientConnects(c) \/ ClientSends(c) \/ S1(c)
    \/ S \/ Start \/ KillS
    \/ \E c \in Clients : KillS1(c) \/ KillClient(c)

\* Every process runs; a client sends all its messages.
Spec == Init /\ [][Next]_vars /\ WF_vars(S)
             /\ \A c \in Clients : WF_vars(S1(c)) /\ WF_vars(ClientSends(c))

-----------------------------------------------------------------------------
(* Properties *)

\* A client is served by one S1 only, and that is the one forked for it.  Only after S
\* was killed may the descriptor go to an S1 that the killed S left behind and that
\* comes to the new listener first.
RightS1 ==
    /\ \A c, d \in Clients : has[c] # None /\ has[c] = has[d] => c = d
    /\ run = 1 => \A c \in Clients : has[c] \in {None, c}

\* An S1 that was killed before it had made its reports.
Cut(c) == s1[c] = "gone" /\ made[c] < Messages

\* S and S1 count alike, although the messages of a client may come all at once or not
\* at all: S reads all reports of a client and goes on only when there are no more. It
\* counts what is not there only for an S1 that was cut short.
Balanced ==
    /\ s = "func" => \/ got + report[nufd] = made[nufd]
                     \/ got + report[nufd] > made[nufd] /\ Cut(nufd)
    /\ s # "func" => \A c \in Clients : report[c] = 0

\* A client that S has in its queue is served in full, unless S ends, its S1 is killed, or
\* some S1 is killed or too early before S has accepted it: nothing else stops the server,
\* not a client that dies in the middle nor an S1 cut short while it serves.
Served ==
    \A c \in Clients :
        (home[c] = 1) ~> \/ made[c] = Messages \/ Cut(c)
                         \/ raced \/ \E d \in Clients : Cut(d) /\ has[d] = None
                         \/ s = "down" \/ run > 1
=============================================================================

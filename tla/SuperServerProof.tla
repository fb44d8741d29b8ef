-------------------------- MODULE SuperServerProof --------------------------
(***************************************************************************)
(* Proofs about SuperServer, for any number of clients, of messages, of    *)
(* starts of S and of processes killed.                                    *)
(*                                                                         *)
(* That S and S1 count alike depends on S having accepted an S1 that has   *)
(* made no report yet: on where the S1s in a listener's queue are (Queued) *)
(* and on S accepting each client once (PortOK).  That the descriptor goes *)
(* to the S1 forked for it, as long as S was not killed, depends in turn   *)
(* on the counting: S goes on only when that S1 has gone (Alone).          *)
(***************************************************************************)
EXTENDS SuperServer, SequenceTheorems, TLAPS

(* Of the counters only that they are numbers: their bounds are part of    *)
(* the invariant.                                                          *)
Typed ==
    /\ run \in Runs /\ got \in Nat /\ own \in SUBSET Clients
    /\ s \in {"down", "accept", "unlink", "bind", "listen", "acceptu", "send", "func"}
    /\ cur \in Clients \cup {None} /\ nufd \in Clients \cup {None}
    /\ fsock \in Clients \cup {None} /\ csock \in BOOLEAN
    /\ port \in [Runs -> Seq(Clients)] /\ backlog \in [Clients -> Seq(Clients)]
    /\ home \in [Clients -> Runs \cup {0}]
    /\ s1 \in [Clients -> {"none", "unlink", "bind", "connect", "recvfd", "serve", "gone"}]
    /\ inherited \in [Clients -> SUBSET Clients] /\ listening \in SUBSET Clients
    /\ has \in [Clients -> Clients \cup {None}]
    /\ sent \in [Clients -> Nat] /\ avail \in [Clients -> Nat]
    /\ made \in [Clients -> Nat] /\ report \in [Clients -> Nat]
    /\ raced \in BOOLEAN /\ quit \in SUBSET Clients /\ deaths \in 0..MaxDeaths

(* A client waits in one place of one port, and has no S1 yet. *)
PortOK ==
    /\ \A r \in Runs : \A i \in DOMAIN port[r] :
         /\ home[port[r][i]] = r /\ s1[port[r][i]] = "none"
         /\ \A j \in DOMAIN port[r] : port[r][i] = port[r][j] => i = j
    /\ \A c \in Clients : home[c] = 0 => s1[c] = "none"

(* What bears a client's name was made when S accepted it. *)
Forked ==
    /\ cur # None => s1[cur] # "none"
    /\ fsock # None => s1[fsock] # "none"
    /\ \A c \in Clients : /\ has[c] # None => s1[has[c]] # "none"
                          /\ backlog[c] # <<>> => s1[c] # "none"

(* S has a client in hand, whose descriptor nobody else was sent. *)
InHand ==
    /\ s \in {"accept", "down"} => cur = None
    /\ s \notin {"accept", "down"} => cur # None
    /\ s \in {"unlink", "bind", "listen", "acceptu", "send"} => \A c \in Clients : has[c] # cur
    /\ \A c, d \in Clients : has[c] # None /\ has[c] = has[d] => c = d

(* An S1 in the queue of a listener is there once, and waits or was killed. *)
Waiting(c) == s1[c] \in {"recvfd", "gone"} /\ has[c] = None
Queued ==
    /\ \A l \in Clients : \A i \in DOMAIN backlog[l] :
         /\ Waiting(backlog[l][i]) /\ backlog[l][i] # nufd
         /\ \A m \in Clients : \A j \in DOMAIN backlog[m] :
              backlog[l][i] = backlog[m][j] => l = m /\ i = j
    /\ \A c \in Clients : has[c] # None => s1[c] \in {"recvfd", "serve", "gone"}

(* The S1 that S has accepted. *)
Accepted ==
    /\ nufd # None <=> s \in {"send", "func"}
    /\ s = "send" => Waiting(nufd)
    /\ s = "func" => s1[nufd] \in {"recvfd", "serve", "gone"}

(* The counters. *)
Counts ==
    /\ \A c \in Clients : /\ made[c] > 0 => s1[c] \in {"serve", "gone"}
                          /\ made[c] <= Messages
                          /\ made[c] = Messages => s1[c] = "gone"
                          /\ avail[c] <= sent[c] /\ sent[c] <= Messages
    /\ s # "func" => got = 0
    /\ got < Messages
    /\ \A c \in Clients : s # "func" \/ c # nufd => report[c] = 0
    /\ s = "func" => \/ got + report[nufd] = made[nufd]
                     \/ (report[nufd] = 0 /\ got > made[nufd] /\ Cut(nufd))

(* Until S is killed, the S1 of the client in hand is the only one. *)
Alone ==
    run = 1 =>
      /\ s # "down" => /\ \A c \in Clients : S1Alive(c) => c = cur
                       /\ cur # None => \A i \in DOMAIN backlog[cur] : backlog[cur][i] = cur
                       /\ nufd \in {None, cur}
      /\ \A c \in Clients : has[c] \in {None, c}

Good == PortOK /\ Forked /\ InHand /\ Queued /\ Accepted /\ Counts /\ Alone
IInv == Typed /\ Good

-----------------------------------------------------------------------------
(* Queues *)

LEMMA TailIs ==
    ASSUME NEW T, NEW q \in Seq(T), q # <<>>
    PROVE  /\ 1 \in DOMAIN q /\ Head(q) = q[1] /\ Head(q) \in T /\ Tail(q) \in Seq(T)
           /\ \A i \in DOMAIN Tail(q) : /\ i \in Nat \ {0} /\ i + 1 \in DOMAIN q
                                        /\ Tail(q)[i] = q[i + 1]
<1>1. /\ Head(q) \in T /\ Tail(q) \in Seq(T) /\ Len(Tail(q)) = Len(q) - 1
      /\ \A i \in 1..Len(Tail(q)) : Tail(q)[i] = q[i + 1]
  BY HeadTailProperties
<1>2. /\ DOMAIN q = 1..Len(q) /\ Len(q) \in Nat \ {0} /\ DOMAIN Tail(q) = 1..Len(Tail(q))
  BY <1>1, LenProperties, EmptySeq
<1> QED BY <1>1, <1>2

LEMMA AppendIs ==
    ASSUME NEW T, NEW q \in Seq(T), NEW e \in T
    PROVE  /\ Append(q, e) \in Seq(T) /\ Append(q, e) # <<>>
           /\ \A i \in DOMAIN Append(q, e) : \/ (i \in DOMAIN q /\ Append(q, e)[i] = q[i])
                                            \/ (i = Len(q) + 1 /\ Append(q, e)[i] = e)
  OBVIOUS

-----------------------------------------------------------------------------
(* Types *)

LEMMA InitTyped == Init => Typed
<1>1. SUFFICES ASSUME Init PROVE Typed
  OBVIOUS
<1>2. 1 \in Runs /\ 0 \in 0..MaxDeaths
  BY SuperServerAssumption DEF Runs
<1>3. <<>> \in Seq(Clients)
  OBVIOUS
<1> QED BY <1>1, <1>2, <1>3 DEF Init, Typed

LEMMA Counted ==
    ASSUME NEW f \in [Clients -> Nat], NEW c \in Clients
    PROVE  [f EXCEPT ![c] = @ + 1] \in [Clients -> Nat]
<1>1. f[c] + 1 \in Nat
  OBVIOUS
<1> QED BY <1>1

LEMMA KillTyped == ASSUME deaths \in 0..MaxDeaths, Kill PROVE deaths' \in 0..MaxDeaths
  BY SuperServerAssumption DEF Kill

LEMMA StepTyped == ASSUME Typed, InHand, Accepted, [Next]_vars PROVE Typed'
<1> USE DEF Typed
<1>1. ASSUME NEW c \in Clients, ClientConnects(c) PROVE Typed'
  <2>1. PICK r \in Runs : /\ home' = [home EXCEPT ![c] = r]
                          /\ port' = [port EXCEPT ![r] = Append(@, c)]
    BY <1>1 DEF ClientConnects
  <2>2. port[r] \in Seq(Clients)
    OBVIOUS
  <2>3. Append(port[r], c) \in Seq(Clients)
    BY <2>2
  <2> QED BY <1>1, <2>1, <2>3 DEF ClientConnects, pathVars, s1Vars
<1>2. ASSUME NEW c \in Clients, ClientSends(c) PROVE Typed'
  <2>2. sent' \in [Clients -> Nat] /\ avail' \in [Clients -> Nat]
    BY <1>2, Counted DEF ClientSends
  <2> QED BY <1>2, <2>2 DEF ClientSends, sVars, pathVars, s1Vars
<1>3. ASSUME Accept PROVE Typed'
  <2>1. port[run] \in Seq(Clients) /\ port[run] # <<>>
    BY <1>3 DEF Accept
  <2>2. Head(port[run]) \in Clients /\ Tail(port[run]) \in Seq(Clients)
    BY <2>1, HeadTailProperties
  <2>3. /\ cur' \in Clients /\ port' \in [Runs -> Seq(Clients)]
        /\ s' = "unlink"
    BY <1>3, <2>2 DEF Accept
  <2>4. s1' \in [Clients -> {"none", "unlink", "bind", "connect", "recvfd", "serve", "gone"}]
    BY <1>3 DEF Accept
  <2>5. inherited' \in [Clients -> SUBSET Clients]
    BY <1>3 DEF Accept
  <2> QED BY <1>3, <2>3, <2>4, <2>5 DEF Accept, clientVars, pathVars
<1>4. ASSUME Unlink PROVE Typed'
  BY <1>4 DEF Unlink, SGoto, clientVars, s1Vars
<1>5. ASSUME Bind PROVE Typed'
  <2>1. cur \in Clients
    BY <1>5 DEF Bind, SGoto, InHand
  <2> QED BY <1>5, <2>1 DEF Bind, SGoto, clientVars, s1Vars
<1>6. ASSUME Listen PROVE Typed'
  <2>1. cur \in Clients
    BY <1>6 DEF Listen, SGoto, InHand
  <2> QED BY <1>6, <2>1 DEF Listen, SGoto, clientVars, s1Vars
<1>7. ASSUME AcceptS1 PROVE Typed'
  <2>1. cur \in Clients /\ backlog[cur] # <<>>
    BY <1>7 DEF AcceptS1, SGoto, InHand
  <2>2. Head(backlog[cur]) \in Clients /\ Tail(backlog[cur]) \in Seq(Clients)
    BY <2>1, HeadTailProperties
  <2>3. nufd' \in Clients /\ backlog' \in [Clients -> Seq(Clients)]
    BY <1>7, <2>2 DEF AcceptS1
  <2> QED BY <1>7, <2>3 DEF AcceptS1, SGoto, clientVars, s1Vars
<1>8. ASSUME SendFd PROVE Typed'
  BY <1>8 DEF SendFd, SGoto, clientVars, pathVars
<1>9. ASSUME Down, deaths' \in 0..MaxDeaths PROVE Typed'
  <2>1. report' \in [Clients -> Nat]
    BY <1>9 DEF Down
  <2> QED BY <1>9, <2>1 DEF Down, clientVars, pathVars
<1>10. ASSUME SendBroken \/ KillS PROVE Typed'
  <2>1. CASE SendBroken
    BY <1>9, <2>1 DEF SendBroken
  <2>2. CASE KillS
    BY <1>9, <2>2, KillTyped DEF KillS
  <2> QED BY <1>10, <2>1, <2>2
<1>11. ASSUME ReadReport PROVE Typed'
  <2>1. report' \in [Clients -> Nat]
    <3>1. nufd \in Clients
      BY <1>11 DEF ReadReport, Accepted
    <3>2. (IF report[nufd] > 0 THEN report[nufd] - 1 ELSE 0) \in Nat
      BY <3>1
    <3> QED BY <1>11, <3>1, <3>2 DEF ReadReport
  <2>2. got' \in Nat
    BY <1>11 DEF ReadReport
  <2> QED BY <1>11, <2>1, <2>2 DEF ReadReport, clientVars, pathVars
<1>12. ASSUME Start PROVE Typed'
  <2>1. run' \in Runs
    BY <1>12, SuperServerAssumption DEF Start, Runs
  <2> QED BY <1>12, <2>1 DEF Start, clientVars, pathVars, s1Vars
<1>13. ASSUME NEW c \in Clients, S1Unlink(c) PROVE Typed'
  BY <1>13 DEF S1Unlink, S1Goto, sVars, clientVars
<1>14. ASSUME NEW c \in Clients, S1Bind(c) PROVE Typed'
  BY <1>14 DEF S1Bind, S1Goto, sVars, clientVars
<1>15. ASSUME NEW c \in Clients, S1Connect(c) PROVE Typed'
  <2> DEFINE found == fsock \in listening /\ Open(fsock)
  <2>1. backlog' \in [Clients -> Seq(Clients)]
    <3>1. CASE found
      <4>1. fsock \in Clients /\ backlog[fsock] \in Seq(Clients)
        BY <3>1
      <4>2. Append(backlog[fsock], c) \in Seq(Clients)
        BY <4>1
      <4> QED BY <1>15, <3>1, <4>2 DEF S1Connect
    <3>2. CASE ~found
      BY <1>15, <3>2 DEF S1Connect
    <3> QED BY <3>1, <3>2
  <2>2. s1' \in [Clients -> {"none", "unlink", "bind", "connect", "recvfd", "serve", "gone"}]
    BY <1>15 DEF S1Connect, S1Goto
  <2>3. raced' \in BOOLEAN
    BY <1>15 DEF S1Connect
  <2> QED BY <1>15, <2>1, <2>2, <2>3 DEF S1Connect, sVars, clientVars
<1>16. ASSUME NEW c \in Clients, S1RecvFd(c) PROVE Typed'
  BY <1>16 DEF S1RecvFd, S1Goto, sVars, clientVars, pathVars
<1>17. ASSUME NEW c \in Clients, S1Dropped(c) PROVE Typed'
  BY <1>17 DEF S1Dropped, S1Goto, sVars, clientVars, pathVars
<1>18. ASSUME NEW c \in Clients, Report(c) PROVE Typed'
  <2>1. avail' \in [Clients -> Nat]
    BY <1>18 DEF Report
  <2>2. made' \in [Clients -> Nat] /\ report' \in [Clients -> Nat]
    <3>1. CASE c = nufd
      <4>1. /\ made' = [made EXCEPT ![c] = @ + 1]
            /\ report' = [report EXCEPT ![c] = @ + 1]
        BY <1>18, <3>1 DEF Report
      <4> QED BY <4>1, Counted
    <3>2. CASE c # nufd
      <4>1. made' = made /\ report' = report
        BY <1>18, <3>2 DEF Report
      <4> QED BY <4>1
    <3> QED BY <3>1, <3>2
  <2>3. s1' \in [Clients -> {"none", "unlink", "bind", "connect", "recvfd", "serve", "gone"}]
    BY <1>18 DEF Report, S1Goto
  <2> QED BY <1>18, <2>1, <2>2, <2>3 DEF Report, sVars, pathVars
<1>19. ASSUME NEW c \in Clients, KillS1(c) PROVE Typed'
  <2>1. deaths' \in 0..MaxDeaths
    BY <1>19, KillTyped DEF KillS1
  <2> QED BY <1>19, <2>1 DEF KillS1, sVars, clientVars, pathVars
<1>20. ASSUME NEW c \in Clients, KillClient(c) PROVE Typed'
  <2>1. deaths' \in 0..MaxDeaths
    BY <1>20, KillTyped DEF KillClient
  <2> QED BY <1>20, <2>1 DEF KillClient, sVars, pathVars, s1Vars
<1>21. CASE UNCHANGED vars
  BY <1>21 DEF vars, sVars, clientVars, pathVars, s1Vars
<1> QED BY <1>1, <1>2, <1>3, <1>4, <1>5, <1>6, <1>7, <1>8, <1>10, <1>11, <1>12, <1>13, <1>14,
           <1>15, <1>16, <1>17, <1>18, <1>19, <1>20, <1>21 DEF Next, S, S1

-----------------------------------------------------------------------------
(* The steps, as far as the invariant sees them *)

\* ClientSends, KillClient: messages are there that nobody has received.
Feeds ==
    /\ UNCHANGED <<run, s, cur, nufd, got, port, home, s1, has, made, report, backlog, fsock>>
    /\ \A c \in Clients :
         \/ (sent'[c] = sent[c] /\ avail'[c] = avail[c])
         \/ (sent[c] < Messages /\ sent'[c] = sent[c] + 1 /\ avail'[c] = avail[c] + 1)

\* Unlink, Bind, Listen.
Prepares ==
    /\ s \in {"unlink", "bind", "listen"} /\ s' \in {"bind", "listen", "acceptu"}
    /\ fsock' \in {fsock, None, cur}
    /\ UNCHANGED <<run, cur, nufd, got, port, home, sent, avail, s1, has, made, report, backlog>>

\* S1Unlink, S1Bind, S1RecvFd, S1Dropped, KillS1: an S1 goes on, or goes.
Moves(c) ==
    /\ \/ (S1Alive(c) /\ s1'[c] = "gone")
       \/ (s1[c] \in {"unlink", "bind"} /\ s1'[c] \in {"bind", "connect"})
       \/ (s1[c] = "recvfd" /\ has[c] # None /\ s1'[c] = "serve")
    /\ \A d \in Clients \ {c} : s1'[d] = s1[d]
    /\ UNCHANGED <<run, s, cur, nufd, got, port, home, sent, avail, has, made, report, backlog, fsock>>

\* S1Connect: it waits in the queue of a listener, or goes.
Connects(c) ==
    /\ s1[c] = "connect" /\ \A d \in Clients \ {c} : s1'[d] = s1[d]
    /\ \/ (s1'[c] = "gone" /\ backlog' = backlog)
       \/ (s1'[c] = "recvfd" /\ fsock # None /\ backlog' = [backlog EXCEPT ![fsock] = Append(@, c)])
    /\ UNCHANGED <<run, s, cur, nufd, got, port, home, sent, avail, has, made, report, fsock>>

\* Report.
Reports(c) ==
    /\ s1[c] = "serve" /\ \A d \in Clients \ {c} : s1'[d] = s1[d]
    /\ s1'[c] = IF c # nufd \/ made[c] + 1 = Messages THEN "gone" ELSE "serve"
    /\ \A d \in Clients : avail'[d] \in {0, avail[d]}
    /\ IF c = nufd THEN /\ made' = [made EXCEPT ![c] = @ + 1]
                        /\ report' = [report EXCEPT ![c] = @ + 1]
                   ELSE UNCHANGED <<made, report>>
    /\ UNCHANGED <<run, s, cur, nufd, got, port, home, sent, has, backlog, fsock>>

LEMMA Steps ==
    ASSUME Typed, [Next]_vars
    PROVE  \/ Feeds \/ \E c \in Clients : ClientConnects(c)
           \/ Accept \/ Prepares \/ AcceptS1 \/ SendFd \/ (s # "down" /\ Down) \/ ReadReport \/ Start
           \/ \E c \in Clients : Moves(c) \/ Connects(c) \/ Reports(c)
<1> USE DEF Typed
<1>1. ASSUME NEW c \in Clients, ClientSends(c) PROVE Feeds
  <2>1. UNCHANGED <<run, s, cur, nufd, got, port, home, s1, has, made, report, backlog, fsock>>
    BY <1>1 DEF ClientSends, sVars, pathVars, s1Vars
  <2>2. \A d \in Clients \ {c} : sent'[d] = sent[d] /\ avail'[d] = avail[d]
    BY <1>1 DEF ClientSends
  <2>3. sent[c] < Messages /\ sent'[c] = sent[c] + 1 /\ avail'[c] = avail[c] + 1
    BY <1>1 DEF ClientSends
  <2> QED BY <2>1, <2>2, <2>3 DEF Feeds
<1>2. ASSUME Unlink \/ Bind \/ Listen PROVE Prepares
  BY <1>2 DEF Unlink, Bind, Listen, SGoto, clientVars, s1Vars, Prepares
<1>3. ASSUME SendBroken PROVE s # "down" /\ Down
  BY <1>3 DEF SendBroken
<1>4. ASSUME KillS PROVE s # "down" /\ Down
  BY <1>4 DEF KillS
<1>5. ASSUME NEW c \in Clients, S1Unlink(c) PROVE Moves(c)
  BY <1>5 DEF S1Unlink, S1Goto, sVars, clientVars, Moves
<1>6. ASSUME NEW c \in Clients, S1Bind(c) PROVE Moves(c)
  BY <1>6 DEF S1Bind, S1Goto, sVars, clientVars, Moves, S1Alive
<1>7. ASSUME NEW c \in Clients, S1Connect(c) PROVE Connects(c)
  <2>1. fsock \in listening => fsock # None
    BY DEF Clients, None
  <2> QED BY <1>7, <2>1 DEF S1Connect, S1Goto, sVars, clientVars, Connects
<1>8. ASSUME NEW c \in Clients, S1RecvFd(c) PROVE Moves(c)
  BY <1>8 DEF S1RecvFd, S1Goto, sVars, clientVars, pathVars, Moves
<1>9. ASSUME NEW c \in Clients, S1Dropped(c) PROVE Moves(c)
  BY <1>9 DEF S1Dropped, S1Goto, sVars, clientVars, pathVars, Moves, S1Alive
<1>10. ASSUME NEW c \in Clients, Report(c) PROVE Reports(c)
  <2>1. \A d \in Clients : avail'[d] \in {0, avail[d]}
    BY <1>10 DEF Report
  <2>2. s1'[c] = (IF c # nufd \/ made[c] + 1 = Messages THEN "gone" ELSE "serve")
    BY <1>10 DEF Report, S1Goto
  <2> QED BY <1>10, <2>1, <2>2 DEF Report, S1Goto, sVars, pathVars, Reports
<1>11. ASSUME NEW c \in Clients, KillS1(c) PROVE Moves(c)
  <2>1. S1Alive(c) /\ s1'[c] = "gone" /\ \A d \in Clients \ {c} : s1'[d] = s1[d]
    BY <1>11 DEF KillS1
  <2> QED BY <1>11, <2>1 DEF KillS1, sVars, clientVars, pathVars, Moves
<1>12. ASSUME NEW c \in Clients, KillClient(c) PROVE Feeds
  <2>1. UNCHANGED <<run, s, cur, nufd, got, port, home, s1, has, made, report, backlog, fsock>>
    BY <1>12 DEF KillClient, sVars, pathVars, s1Vars
  <2>2. sent' = sent /\ avail' = avail
    BY <1>12 DEF KillClient
  <2> QED BY <2>1, <2>2 DEF Feeds
<1>13. CASE UNCHANGED vars
  <2>1. UNCHANGED <<run, s, cur, nufd, got, port, home, s1, has, made, report, backlog, fsock>>
    BY <1>13 DEF vars, sVars, clientVars, pathVars, s1Vars
  <2>2. sent' = sent /\ avail' = avail
    BY <1>13 DEF vars, clientVars
  <2> QED BY <2>1, <2>2 DEF Feeds
<1> QED BY <1>1, <1>2, <1>3, <1>4, <1>5, <1>6, <1>7, <1>8, <1>9, <1>10, <1>11, <1>12, <1>13
           DEF Next, S, S1

-----------------------------------------------------------------------------
(* What each step preserves *)

LEMMA InitGood == Init => Good
<1>1. SUFFICES ASSUME Init PROVE Good
  OBVIOUS
<1>2. None \notin Clients /\ Messages \in Nat \ {0}
  BY SuperServerAssumption DEF None, Clients
<1>3. PortOK /\ Forked /\ InHand
  BY <1>1 DEF Init, PortOK, Forked, InHand
<1>4. Queued /\ Accepted /\ Counts
  BY <1>1, <1>2 DEF Init, Queued, Accepted, Counts
<1>5. Alone
  BY <1>1 DEF Init, Alone, S1Alive
<1> QED BY <1>3, <1>4, <1>5 DEF Good

LEMMA Entries ==
    ASSUME Typed
    PROVE  \A l \in Clients : /\ backlog[l] \in Seq(Clients)
                              /\ \A i \in DOMAIN backlog[l] : i \in Nat /\ backlog[l][i] \in Clients
<1>1. SUFFICES ASSUME NEW l \in Clients
               PROVE  /\ backlog[l] \in Seq(Clients)
                      /\ \A i \in DOMAIN backlog[l] : i \in Nat /\ backlog[l][i] \in Clients
  OBVIOUS
<1>2. backlog[l] \in Seq(Clients)
  BY DEF Typed
<1> QED BY <1>2

LEMMA FeedsGood == ASSUME Typed, Good, Feeds PROVE Good'
<1> USE DEF Typed, Good, Feeds
<1>1. PortOK' /\ Forked' /\ InHand'
  BY DEF PortOK, Forked, InHand
<1>2. Queued' /\ Accepted'
  BY DEF Queued, Accepted, Waiting
<1>3. Counts'
  <2>1. \A c \in Clients : avail'[c] <= sent'[c] /\ sent'[c] <= Messages
    <3>1. ASSUME NEW c \in Clients PROVE avail'[c] <= sent'[c] /\ sent'[c] <= Messages
      <4>1. /\ avail[c] \in Nat /\ sent[c] \in Nat /\ Messages \in Nat
            /\ avail[c] <= sent[c] /\ sent[c] <= Messages
        BY SuperServerAssumption DEF Counts
      <4>2. \/ (sent'[c] = sent[c] /\ avail'[c] = avail[c])
            \/ (sent[c] < Messages /\ sent'[c] = sent[c] + 1 /\ avail'[c] = avail[c] + 1)
        OBVIOUS
      <4> HIDE DEF Feeds, Typed, Good
      <4> QED BY <4>1, <4>2
    <3> QED BY <3>1
  <2>2. UNCHANGED <<s, nufd, got, s1, made, report>>
    OBVIOUS
  <2> HIDE DEF Feeds
  <2> QED BY <2>1, <2>2 DEF Counts, Cut
<1>4. Alone'
  BY DEF Alone, S1Alive
<1> QED BY <1>1, <1>2, <1>3, <1>4

LEMMA ClientConnectsGood ==
    ASSUME Typed, Good, NEW c \in Clients, ClientConnects(c) PROVE Good'
<1> USE DEF Typed, Good
<1>1. PICK r \in Runs : /\ home' = [home EXCEPT ![c] = r]
                        /\ port' = [port EXCEPT ![r] = Append(@, c)]
  BY DEF ClientConnects
<1>2. home[c] = 0 /\ s1[c] = "none" /\ 0 \notin Runs
  BY DEF ClientConnects, PortOK, Runs
<1>3. UNCHANGED <<run, s, cur, nufd, got, sent, avail, s1, has, made, report, backlog, fsock>>
  BY DEF ClientConnects, pathVars, s1Vars
<1>4. PortOK'
  <2>1. /\ port'[r] = Append(port[r], c)
        /\ \A q \in Runs \ {r} : port'[q] = port[q]
        /\ home'[c] = r /\ \A d \in Clients \ {c} : home'[d] = home[d]
    BY <1>1
  <2>2. port[r] \in Seq(Clients)
    OBVIOUS
  <2>3. \A i \in DOMAIN port'[r] : \/ (i \in DOMAIN port[r] /\ port'[r][i] = port[r][i])
                                   \/ (i = Len(port[r]) + 1 /\ port'[r][i] = c)
    <3>1. \A i \in DOMAIN Append(port[r], c) :
             \/ (i \in DOMAIN port[r] /\ Append(port[r], c)[i] = port[r][i])
             \/ (i = Len(port[r]) + 1 /\ Append(port[r], c)[i] = c)
      BY <2>2, AppendIs
    <3> QED BY <3>1, <2>1
  <2>4. \A q \in Runs : \A i \in DOMAIN port[q] : port[q][i] \in Clients /\ port[q][i] # c
    <3>1. \A q \in Runs : port[q] \in Seq(Clients)
      OBVIOUS
    <3>2. \A q \in Runs : \A i \in DOMAIN port[q] : port[q][i] \in Clients
      BY <3>1
    <3> QED BY <3>2, <1>2 DEF PortOK
  <2>5. ASSUME NEW q \in Runs, NEW i \in DOMAIN port'[q]
        PROVE  /\ home'[port'[q][i]] = q /\ s1'[port'[q][i]] = "none"
               /\ \A j \in DOMAIN port'[q] : port'[q][i] = port'[q][j] => i = j
    <3>1. CASE q # r
      <4>1. port'[q] = port[q]
        BY <3>1, <2>1
      <4>2. i \in DOMAIN port[q] /\ port[q][i] \in Clients \ {c}
        BY <4>1, <2>4
      <4>3. home[port[q][i]] = q /\ s1[port[q][i]] = "none"
        BY <4>2 DEF PortOK
      <4>4. \A j \in DOMAIN port[q] : port[q][i] = port[q][j] => i = j
        BY <4>2 DEF PortOK
      <4>5. s1' = s1
        BY <1>3
      <4> HIDE DEF Typed, Good
      <4> QED BY <4>1, <4>2, <4>3, <4>4, <4>5, <2>1
    <3>2. CASE q = r
      <4>0. /\ s1' = s1
            /\ \A k \in DOMAIN port[r] : /\ port[r][k] \in Clients \ {c}
                                         /\ home[port[r][k]] = r /\ s1[port[r][k]] = "none"
            /\ \A k, l \in DOMAIN port[r] : port[r][k] = port[r][l] => k = l
        <5>1. s1' = s1 /\ PortOK
          BY <1>3
        <5>2. \A k \in DOMAIN port[r] : port[r][k] \in Clients \ {c}
          BY <2>4
        <5> HIDE DEF Typed, Good
        <5>3. /\ \A k \in DOMAIN port[r] : home[port[r][k]] = r /\ s1[port[r][k]] = "none"
              /\ \A k, l \in DOMAIN port[r] : port[r][k] = port[r][l] => k = l
          BY <5>1 DEF PortOK
        <5> QED BY <5>1, <5>2, <5>3
      <4> HIDE DEF Typed, Good
      <4>1. home'[port'[r][i]] = r /\ s1'[port'[r][i]] = "none"
        BY <3>2, <2>1, <2>3, <4>0, <1>2
      <4>2. ASSUME NEW j \in DOMAIN port'[r], port'[r][i] = port'[r][j] PROVE i = j
        BY <4>2, <4>0, <3>2, <2>3
      <4> QED BY <4>1, <4>2, <3>2
    <3> QED BY <3>1, <3>2
  <2>6. \A d \in Clients : home'[d] = 0 => s1'[d] = "none"
    BY <2>1, <1>2, <1>3 DEF PortOK
  <2> QED BY <2>5, <2>6 DEF PortOK
<1>5. Forked' /\ InHand'
  BY <1>3 DEF Forked, InHand
<1>6. Queued' /\ Accepted'
  BY <1>3 DEF Queued, Accepted, Waiting
<1>7. Counts'
  BY <1>3 DEF Counts, Cut
<1>8. Alone'
  BY <1>3 DEF Alone, S1Alive
<1> QED BY <1>4, <1>5, <1>6, <1>7, <1>8

LEMMA AcceptGood == ASSUME Typed, Good, Accept PROVE Good'
<1> USE DEF Typed, Good
<1> DEFINE c == Head(port[run])
<1>1. /\ s = "accept" /\ s' = "unlink" /\ cur' = c /\ port[run] # <<>>
      /\ port' = [port EXCEPT ![run] = Tail(@)] /\ s1' = [s1 EXCEPT ![c] = "unlink"]
      /\ UNCHANGED <<run, nufd, got, home, sent, avail, has, made, report, backlog, fsock>>
  BY DEF Accept, clientVars, pathVars
<1>2. port[run] \in Seq(Clients)
  OBVIOUS
<1>3. /\ 1 \in DOMAIN port[run] /\ c = port[run][1] /\ c \in Clients
      /\ \A i \in DOMAIN Tail(port[run]) : /\ i \in Nat \ {0} /\ i + 1 \in DOMAIN port[run]
                                           /\ Tail(port[run])[i] = port[run][i + 1]
  BY <1>1, <1>2, TailIs
<1>4. home[c] = run /\ s1[c] = "none" /\ run # 0 /\ c # None /\ None \notin Clients
  BY <1>3 DEF PortOK, Runs, Clients, None
<1>5. s1'[c] = "unlink" /\ \A d \in Clients \ {c} : s1'[d] = s1[d]
  BY <1>1, <1>3
<1>6. nufd = None /\ cur = None
  BY <1>1 DEF Accepted, InHand
<1> HIDE DEF c
<1>7. PortOK'
  <2>1. port'[run] = Tail(port[run]) /\ \A r \in Runs \ {run} : port'[r] = port[r]
    BY <1>1
  <2>2. \A r \in Runs : \A i \in DOMAIN port[r] : port[r][i] \in Clients
    <3>1. \A r \in Runs : port[r] \in Seq(Clients)
      OBVIOUS
    <3> QED BY <3>1
  <2>3. \A r \in Runs : \A i \in DOMAIN port'[r] :
           \E j \in DOMAIN port[r] : port'[r][i] = port[r][j] /\ port[r][j] # c
    <3>1. ASSUME NEW i \in DOMAIN port'[run]
          PROVE  \E j \in DOMAIN port[run] : port'[run][i] = port[run][j] /\ port[run][j] # c
      <4>1. i \in Nat \ {0} /\ i + 1 \in DOMAIN port[run] /\ port'[run][i] = port[run][i + 1]
        BY <1>3, <2>1
      <4>2. port[run][i + 1] # port[run][1]
        <5>1. i + 1 # 1
          BY <4>1
        <5> QED BY <5>1, <4>1, <1>3 DEF PortOK
      <4> QED BY <4>1, <4>2, <1>3
    <3>2. ASSUME NEW r \in Runs \ {run}, NEW i \in DOMAIN port[r] PROVE port[r][i] # c
      BY <1>4 DEF PortOK
    <3>3. ASSUME NEW r \in Runs, NEW i \in DOMAIN port'[r]
          PROVE  \E j \in DOMAIN port[r] : port'[r][i] = port[r][j] /\ port[r][j] # c
      <4>1. CASE r = run
        BY <4>1, <3>1, <3>3
      <4>2. CASE r # run
        BY <4>2, <3>2, <3>3, <2>1
      <4> QED BY <4>1, <4>2
    <3> QED BY <3>3
  <2>4. \A r \in Runs : \A i, j \in DOMAIN port'[r] : port'[r][i] = port'[r][j] => i = j
    <3>1. ASSUME NEW i \in DOMAIN port'[run], NEW j \in DOMAIN port'[run],
                 port'[run][i] = port'[run][j]
          PROVE  i = j
      <4>1. i \in Nat /\ j \in Nat /\ i + 1 = j + 1
        BY <3>1, <1>3, <2>1 DEF PortOK
      <4> QED BY <4>1
    <3>2. ASSUME NEW r \in Runs \ {run}, NEW i \in DOMAIN port'[r], NEW j \in DOMAIN port'[r],
                 port'[r][i] = port'[r][j]
          PROVE  i = j
      BY <3>2, <2>1 DEF PortOK
    <3> QED BY <3>1, <3>2
  <2>5. \A r \in Runs : \A i \in DOMAIN port'[r] : home'[port'[r][i]] = r /\ s1'[port'[r][i]] = "none"
    <3>1. ASSUME NEW r \in Runs, NEW i \in DOMAIN port'[r]
          PROVE  home'[port'[r][i]] = r /\ s1'[port'[r][i]] = "none"
      <4>1. PICK j \in DOMAIN port[r] : port'[r][i] = port[r][j] /\ port[r][j] # c
        BY <3>1, <2>3
      <4>2. port[r][j] \in Clients \ {c} /\ home[port[r][j]] = r /\ s1[port[r][j]] = "none"
        BY <4>1, <2>2 DEF PortOK
      <4>3. home' = home
        BY <1>1
      <4> QED BY <4>1, <4>2, <4>3, <1>5
    <3> QED BY <3>1
  <2>6. \A d \in Clients : home'[d] = 0 => s1'[d] = "none"
    <3>1. home' = home /\ \A d \in Clients : home[d] = 0 => s1[d] = "none"
      BY <1>1 DEF PortOK
    <3> HIDE DEF Typed, Good
    <3> QED BY <3>1, <1>4, <1>5
  <2> HIDE DEF Typed, Good
  <2> QED BY <2>4, <2>5, <2>6 DEF PortOK
<1>8. Forked'
  BY <1>1, <1>3, <1>5 DEF Forked
<1>9. InHand'
  BY <1>1, <1>4 DEF InHand, Forked
<1>10. Queued'
  <2>1. \A l \in Clients : \A i \in DOMAIN backlog[l] : backlog[l][i] \in Clients \ {c}
    <3>1. \A l \in Clients : backlog[l] \in Seq(Clients)
      OBVIOUS
    <3>2. \A l \in Clients : \A i \in DOMAIN backlog[l] : backlog[l][i] \in Clients
      BY <3>1
    <3> QED BY <3>2, <1>4 DEF Queued, Waiting
  <2>2. backlog' = backlog /\ has' = has /\ nufd' = nufd
    BY <1>1
  <2>3. \A d \in Clients : has[d] # None => d # c
    BY <1>4 DEF Queued
  <2> HIDE DEF Typed
  <2> QED BY <2>1, <2>2, <2>3, <1>5 DEF Queued, Waiting, Good
<1>11. Accepted'
  BY <1>1, <1>6 DEF Accepted
<1>12. Counts'
  BY <1>1, <1>3, <1>4, <1>5, SuperServerAssumption DEF Counts
<1>13. Alone'
  <2>1. ASSUME run = 1, NEW d \in Clients, S1Alive(d)' PROVE d = c
    BY <2>1, <1>1, <1>4, <1>5, <1>6 DEF Alone, S1Alive
  <2>2. DOMAIN backlog[c] = {}
    <3>1. backlog[c] = <<>>
      BY <1>3, <1>4 DEF Forked
    <3> QED BY <3>1
  <2> QED BY <1>1, <1>3, <1>6, <2>1, <2>2 DEF Alone
<1> QED BY <1>7, <1>8, <1>9, <1>10, <1>11, <1>12, <1>13

LEMMA PreparesGood == ASSUME Typed, Good, Prepares PROVE Good'
<1> USE DEF Typed, Good
<1>1. /\ s \in {"unlink", "bind", "listen"} /\ s' \in {"bind", "listen", "acceptu"}
      /\ fsock' \in {fsock, None, cur}
      /\ UNCHANGED <<run, cur, nufd, got, port, home, sent, avail, s1, has, made, report, backlog>>
  BY DEF Prepares
<1>2. PortOK' /\ Forked' /\ InHand'
  BY <1>1 DEF PortOK, Forked, InHand
<1>3. Queued' /\ Accepted'
  BY <1>1 DEF Queued, Accepted, Waiting
<1>4. Counts' /\ Alone'
  BY <1>1 DEF Counts, Cut, Alone, S1Alive
<1> QED BY <1>2, <1>3, <1>4

LEMMA AcceptS1Good == ASSUME Typed, Good, AcceptS1 PROVE Good'
<1> USE DEF Typed, Good
<1> DEFINE x == Head(backlog[cur])
<1>1. /\ s = "acceptu" /\ s' = "send" /\ backlog[cur] # <<>> /\ nufd' = x
      /\ backlog' = [backlog EXCEPT ![cur] = Tail(@)]
      /\ UNCHANGED <<run, cur, got, port, home, sent, avail, s1, has, made, report, fsock>>
  BY DEF AcceptS1, SGoto, clientVars, s1Vars
<1>2. cur \in Clients /\ backlog[cur] \in Seq(Clients) /\ None \notin Clients
  <2>1. cur \in Clients /\ None \notin Clients
    BY <1>1 DEF InHand, Clients, None
  <2> QED BY <2>1, Entries
<1>3. /\ 1 \in DOMAIN backlog[cur] /\ x = backlog[cur][1] /\ x \in Clients
      /\ \A i \in DOMAIN Tail(backlog[cur]) :
           /\ i \in Nat \ {0} /\ i + 1 \in DOMAIN backlog[cur]
           /\ Tail(backlog[cur])[i] = backlog[cur][i + 1]
  BY <1>1, <1>2, TailIs
<1>4. backlog'[cur] = Tail(backlog[cur]) /\ \A l \in Clients \ {cur} : backlog'[l] = backlog[l]
  BY <1>1, <1>2
<1>5. Waiting(x)
  BY <1>2, <1>3 DEF Queued
<1>6. \A l \in Clients : \A i \in DOMAIN backlog'[l] :
        \E j \in DOMAIN backlog[l] :
           /\ backlog'[l][i] = backlog[l][j] /\ backlog[l][j] # x
           /\ j = (IF l = cur THEN i + 1 ELSE i) /\ i \in Nat
  <2>1. ASSUME NEW i \in DOMAIN backlog'[cur]
        PROVE  /\ i \in Nat /\ i + 1 \in DOMAIN backlog[cur]
               /\ backlog'[cur][i] = backlog[cur][i + 1] /\ backlog[cur][i + 1] # x
    <3>1. i \in Nat \ {0} /\ i + 1 \in DOMAIN backlog[cur] /\ backlog'[cur][i] = backlog[cur][i + 1]
      BY <1>3, <1>4
    <3>2. i + 1 # 1
      BY <3>1
    <3>3. backlog[cur][i + 1] # backlog[cur][1]
      BY <3>1, <3>2, <1>2, <1>3 DEF Queued
    <3> QED BY <3>1, <3>3, <1>3
  <2>2. ASSUME NEW l \in Clients \ {cur}, NEW i \in DOMAIN backlog[l]
        PROVE  i \in Nat /\ backlog[l][i] # x
    <3>2. i \in Nat
      BY Entries
    <3>3. backlog[l][i] # backlog[cur][1]
      BY <1>2, <1>3 DEF Queued
    <3> QED BY <3>2, <3>3, <1>3
  <2> HIDE DEF Typed, Good, x
  <2>3. ASSUME NEW l \in Clients, NEW i \in DOMAIN backlog'[l]
        PROVE  \E j \in DOMAIN backlog[l] :
                  /\ backlog'[l][i] = backlog[l][j] /\ backlog[l][j] # x
                  /\ j = (IF l = cur THEN i + 1 ELSE i) /\ i \in Nat
    <3>1. CASE l = cur
      BY <2>1, <3>1
    <3>2. CASE l # cur
      BY <2>2, <3>2, <1>4
    <3> QED BY <3>1, <3>2
  <2> QED BY <2>3
<1> HIDE DEF x
<1>7. PortOK' /\ InHand'
  BY <1>1, <1>2 DEF PortOK, InHand
<1>8. Forked'
  <2>1. \A c \in Clients : backlog'[c] # <<>> => backlog[c] # <<>>
    BY <1>1, <1>4
  <2> QED BY <1>1, <2>1 DEF Forked
<1>9. Queued'
  <2>1. ASSUME NEW l \in Clients, NEW i \in DOMAIN backlog'[l]
        PROVE  /\ s1'[backlog'[l][i]] \in {"recvfd", "gone"} /\ has'[backlog'[l][i]] = None
               /\ backlog'[l][i] # nufd'
               /\ \A m \in Clients : \A k \in DOMAIN backlog'[m] :
                    backlog'[l][i] = backlog'[m][k] => l = m /\ i = k
    <3>1. PICK j \in DOMAIN backlog[l] :
             /\ backlog'[l][i] = backlog[l][j] /\ backlog[l][j] # x
             /\ j = (IF l = cur THEN i + 1 ELSE i) /\ i \in Nat
      BY <1>6
    <3>2. /\ s1'[backlog'[l][i]] \in {"recvfd", "gone"} /\ has'[backlog'[l][i]] = None
          /\ backlog'[l][i] # nufd'
      <4>1. Waiting(backlog[l][j])
        BY <3>1 DEF Queued
      <4>2. nufd' = x /\ s1' = s1 /\ has' = has
        BY <1>1
      <4> HIDE DEF Typed, Good
      <4> QED BY <4>1, <4>2, <3>1 DEF Waiting
    <3>3. ASSUME NEW m \in Clients, NEW k \in DOMAIN backlog'[m], backlog'[l][i] = backlog'[m][k]
          PROVE  l = m /\ i = k
      <4>1. PICK n \in DOMAIN backlog[m] : /\ backlog'[m][k] = backlog[m][n]
                                           /\ n = (IF m = cur THEN k + 1 ELSE k) /\ k \in Nat
        BY <1>6
      <4>2. backlog[l][j] = backlog[m][n] => l = m /\ j = n
        BY DEF Queued
      <4> HIDE DEF Typed, Good
      <4> QED BY <4>1, <4>2, <3>1, <3>3
    <3> QED BY <3>2, <3>3
  <2>2. \A c \in Clients : has'[c] # None => s1'[c] \in {"recvfd", "serve", "gone"}
    BY <1>1 DEF Queued
  <2> HIDE DEF Typed, Good
  <2> QED BY <2>1, <2>2 DEF Queued, Waiting
<1>10. Accepted'
  BY <1>1, <1>2, <1>3, <1>5 DEF Accepted, Waiting
<1>11. Counts'
  BY <1>1 DEF Counts, Cut
<1>12. Alone'
  <2>1. ASSUME run = 1 PROVE x = cur /\ \A i \in DOMAIN backlog'[cur] : backlog'[cur][i] = cur
    <3>1. \A i \in DOMAIN backlog[cur] : backlog[cur][i] = cur
      BY <2>1, <1>1, <1>2 DEF Alone
    <3> HIDE DEF Typed, Good
    <3> QED BY <3>1, <1>2, <1>3, <1>6
  <2> QED BY <1>1, <2>1 DEF Alone, S1Alive
<1> QED BY <1>7, <1>8, <1>9, <1>10, <1>11, <1>12

LEMMA SendFdGood == ASSUME Typed, Good, SendFd PROVE Good'
<1> USE DEF Typed, Good
<1>1. /\ s = "send" /\ s' = "func" /\ S1Alive(nufd) /\ has' = [has EXCEPT ![nufd] = cur]
      /\ UNCHANGED <<run, cur, nufd, got, port, home, sent, avail, s1, made, report, fsock, backlog>>
  BY DEF SendFd, SGoto, clientVars, pathVars
<1>2. /\ nufd \in Clients /\ cur \in Clients /\ None \notin Clients
      /\ Waiting(nufd) /\ s1[nufd] = "recvfd"
  BY <1>1 DEF Accepted, InHand, Waiting, S1Alive, Clients, None
<1>3. has'[nufd] = cur /\ \A c \in Clients \ {nufd} : has'[c] = has[c]
  BY <1>1, <1>2
<1>4. \A c \in Clients : has[c] # cur
  BY <1>1 DEF InHand
<1>5. PortOK' /\ Forked'
  <2>1. PortOK'
    BY <1>1 DEF PortOK
  <2>2. s1[cur] # "none"
    BY <1>2 DEF Forked
  <2>3. UNCHANGED <<cur, fsock, s1, backlog>>
    BY <1>1
  <2>4. Forked
    OBVIOUS
  <2> HIDE DEF Typed, Good
  <2> QED BY <2>1, <2>2, <2>3, <2>4, <1>2, <1>3 DEF Forked
<1>6. InHand'
  BY <1>1, <1>2, <1>3, <1>4 DEF InHand
<1>7. Queued'
  <2>1. \A l \in Clients : \A i \in DOMAIN backlog[l] : backlog[l][i] \in Clients \ {nufd}
    <3>1. \A l \in Clients : backlog[l] \in Seq(Clients)
      OBVIOUS
    <3>2. \A l \in Clients : \A i \in DOMAIN backlog[l] : backlog[l][i] \in Clients
      BY <3>1
    <3> QED BY <3>2 DEF Queued
  <2> HIDE DEF Typed
  <2> QED BY <1>1, <1>2, <1>3, <2>1 DEF Queued, Waiting
<1>8. Accepted'
  BY <1>1, <1>2 DEF Accepted
<1>9. Counts'
  <2>1. made[nufd] = 0 /\ report[nufd] = 0 /\ got = 0
    <3>1. got = 0 /\ report[nufd] = 0 /\ ~(made[nufd] > 0) /\ made[nufd] \in Nat
      BY <1>1, <1>2 DEF Counts
    <3> HIDE DEF Typed, Good
    <3> QED BY <3>1
  <2> QED BY <1>1, <1>2, <2>1 DEF Counts
<1>10. Alone'
  BY <1>1, <1>2, <1>3 DEF Alone, S1Alive
<1> QED BY <1>5, <1>6, <1>7, <1>8, <1>9, <1>10

LEMMA DownGood == ASSUME Typed, Good, s # "down", Down PROVE Good'
<1> USE DEF Typed, Good
<1>1. /\ s' = "down" /\ cur' = None /\ nufd' = None /\ got' = 0
      /\ report' = [c \in Clients |-> 0]
      /\ UNCHANGED <<run, port, home, sent, avail, s1, has, made, fsock, backlog>>
  BY DEF Down, clientVars, pathVars
<1>2. PortOK' /\ Forked' /\ InHand'
  BY <1>1 DEF PortOK, Forked, InHand
<1>3. Queued'
  <2>1. \A l \in Clients : \A i \in DOMAIN backlog[l] : backlog[l][i] # None
    <3>1. \A l \in Clients : backlog[l] \in Seq(Clients)
      OBVIOUS
    <3>2. \A l \in Clients : \A i \in DOMAIN backlog[l] : backlog[l][i] \in Clients
      BY <3>1
    <3> QED BY <3>2 DEF Clients, None
  <2> QED BY <1>1, <2>1 DEF Queued, Waiting
<1>4. Accepted'
  BY <1>1 DEF Accepted
<1>5. Counts'
  BY <1>1, SuperServerAssumption DEF Counts
<1>6. Alone'
  BY <1>1 DEF Alone
<1> QED BY <1>2, <1>3, <1>4, <1>5, <1>6

LEMMA ReadReportGood == ASSUME Typed, Good, ReadReport PROVE Good'
<1> USE DEF Typed, Good
<1>1. /\ s = "func" /\ (report[nufd] > 0 \/ ~S1Alive(nufd))
      /\ report' = [report EXCEPT ![nufd] = IF @ > 0 THEN @ - 1 ELSE 0]
      /\ UNCHANGED <<run, port, home, sent, avail, s1, has, made, fsock, backlog>>
  BY DEF ReadReport, clientVars, pathVars
<1>2. /\ nufd \in Clients /\ s1[nufd] \in {"recvfd", "serve", "gone"}
      /\ Messages \in Nat \ {0} /\ None \notin Clients
  BY <1>1, SuperServerAssumption DEF Accepted, Clients, None
<1>3. /\ report'[nufd] = (IF report[nufd] > 0 THEN report[nufd] - 1 ELSE 0)
      /\ \A c \in Clients \ {nufd} : report'[c] = report[c]
  BY <1>1, <1>2
<1>4. /\ got \in Nat /\ got < Messages /\ made[nufd] \in Nat /\ report[nufd] \in Nat
      /\ made[nufd] <= Messages /\ (made[nufd] = Messages => s1[nufd] = "gone")
      /\ \/ got + report[nufd] = made[nufd]
         \/ report[nufd] = 0 /\ got > made[nufd] /\ Cut(nufd)
  BY <1>1, <1>2 DEF Counts
<1>5. \A c \in Clients : c # nufd => report'[c] = 0
  BY <1>3 DEF Counts
<1>6. PortOK'
  BY <1>1 DEF PortOK
<1>7. \A l \in Clients : \A i \in DOMAIN backlog[l] : backlog[l][i] # None
  <2>1. \A l \in Clients : backlog[l] \in Seq(Clients)
    OBVIOUS
  <2>2. \A l \in Clients : \A i \in DOMAIN backlog[l] : backlog[l][i] \in Clients
    BY <2>1
  <2> QED BY <2>2, <1>2
<1>8. CASE got + 1 = Messages
  <2>1. s' = "accept" /\ cur' = None /\ nufd' = None /\ got' = 0
    BY <1>8 DEF ReadReport
  <2>2. report'[nufd] = 0 /\ ~S1Alive(nufd)
    <3>1. report[nufd] <= 1 /\ (report[nufd] = 1 => made[nufd] = Messages)
      <4> HIDE DEF Typed, Good
      <4> QED BY <1>2, <1>4, <1>8
    <3> QED BY <3>1, <1>1, <1>3, <1>4 DEF S1Alive
  <2>3. Forked' /\ InHand'
    BY <1>1, <2>1 DEF Forked, InHand
  <2>4. Queued'
    BY <1>1, <1>7, <2>1 DEF Queued, Waiting
  <2>5. Accepted'
    BY <2>1 DEF Accepted
  <2>6. Counts'
    BY <1>1, <1>2, <1>5, <2>1, <2>2 DEF Counts
  <2>7. Alone'
    BY <1>1, <1>2, <2>1, <2>2 DEF Alone, S1Alive
  <2> QED BY <1>6, <2>3, <2>4, <2>5, <2>6, <2>7
<1>9. CASE got + 1 # Messages
  <2>1. got' = got + 1 /\ UNCHANGED <<s, cur, nufd>>
    BY <1>9 DEF ReadReport
  <2>2. Forked' /\ InHand'
    BY <1>1, <2>1 DEF Forked, InHand
  <2>3. Queued' /\ Accepted'
    BY <1>1, <2>1 DEF Queued, Waiting, Accepted
  <2>4. Counts'
    <3>1. got' < Messages
      BY <1>2, <1>4, <1>9, <2>1
    <3>2. \/ got' + report'[nufd] = made[nufd]
          \/ report'[nufd] = 0 /\ got' > made[nufd] /\ Cut(nufd)
      <4>1. CASE report[nufd] > 0
        <5> HIDE DEF Typed, Good
        <5> QED BY <4>1, <1>3, <1>4, <2>1
      <4>2. CASE ~(report[nufd] > 0)
        <5>1. s1[nufd] = "gone" /\ report[nufd] = 0
          BY <4>2, <1>1, <1>2, <1>4 DEF S1Alive
        <5>2. made[nufd] <= got
          BY <5>1, <1>4
        <5> QED BY <5>1, <5>2, <1>2, <1>3, <1>4, <2>1 DEF Cut
      <4> QED BY <4>1, <4>2
    <3>3. UNCHANGED <<s, nufd, s1, made, sent, avail>>
      BY <1>1, <2>1
    <3> QED BY <1>1, <1>5, <3>1, <3>2, <3>3 DEF Counts, Cut
  <2>5. Alone'
    BY <1>1, <2>1 DEF Alone, S1Alive
  <2> QED BY <1>6, <2>2, <2>3, <2>4, <2>5
<1> QED BY <1>8, <1>9

LEMMA StartGood == ASSUME Typed, Good, Start PROVE Good'
<1> USE DEF Typed, Good
<1>1. /\ s = "down" /\ s' = "accept" /\ run' = run + 1
      /\ UNCHANGED <<cur, nufd, got, port, home, sent, avail, s1, has, made, report, fsock, backlog>>
  BY DEF Start, clientVars, pathVars, s1Vars
<1>2. run' # 1
  BY <1>1 DEF Runs
<1>3. PortOK' /\ Forked' /\ InHand'
  BY <1>1 DEF PortOK, Forked, InHand
<1>4. Queued' /\ Accepted'
  BY <1>1 DEF Queued, Accepted, Waiting
<1>5. Counts' /\ Alone'
  BY <1>1, <1>2 DEF Counts, Cut, Alone
<1> QED BY <1>3, <1>4, <1>5

LEMMA MovesGood == ASSUME Typed, Good, NEW c \in Clients, Moves(c) PROVE Good'
<1> USE DEF Typed, Good
<1>1. /\ \A d \in Clients \ {c} : s1'[d] = s1[d]
      /\ UNCHANGED <<run, s, cur, nufd, got, port, home, sent, avail, has, made, report, backlog, fsock>>
  BY DEF Moves
<1>2. /\ S1Alive(c) /\ s1'[c] # "none"
      /\ s1[c] \in {"recvfd", "serve"} => s1'[c] \in {"serve", "gone"}
      /\ s1[c] = "serve" => s1'[c] = "gone"
      /\ has[c] # None => s1'[c] \in {"serve", "gone"}
      /\ s1[c] = "recvfd" /\ has[c] = None => s1'[c] = "gone"
  BY DEF Moves, S1Alive, Queued
<1>3. s1[c] \notin {"none", "gone"}
  BY <1>2 DEF S1Alive
<1>4. PortOK'
  <2>1. \A r \in Runs : \A i \in DOMAIN port[r] : port[r][i] \in Clients \ {c}
    <3>1. \A r \in Runs : port[r] \in Seq(Clients)
      OBVIOUS
    <3>2. \A r \in Runs : \A i \in DOMAIN port[r] : port[r][i] \in Clients
      BY <3>1
    <3> QED BY <3>2, <1>3 DEF PortOK
  <2>2. PortOK /\ UNCHANGED <<port, home>>
    BY <1>1
  <2> HIDE DEF Typed, Good
  <2> QED BY <2>1, <2>2, <1>1, <1>3 DEF PortOK
<1>5. Forked' /\ InHand'
  BY <1>1, <1>2 DEF Forked, InHand
<1>6. Queued'
  <2>1. \A l \in Clients : \A i \in DOMAIN backlog[l] : backlog[l][i] \in Clients
    BY Entries
  <2>2. Queued /\ UNCHANGED <<backlog, has, nufd>>
    BY <1>1
  <2> HIDE DEF Typed, Good
  <2> QED BY <2>1, <2>2, <1>1, <1>2, <1>3 DEF Queued, Waiting
<1>7. Accepted'
  <2>1. Accepted /\ nufd \in Clients \cup {None} /\ None \notin Clients /\ UNCHANGED <<nufd, s, has>>
    BY <1>1 DEF Clients, None
  <2> HIDE DEF Typed, Good
  <2> QED BY <2>1, <1>1, <1>2, <1>3 DEF Accepted, Waiting
<1>8. Counts'
  <2>1. /\ Counts /\ Accepted /\ nufd \in Clients \cup {None}
        /\ UNCHANGED <<s, nufd, got, sent, avail, made, report>>
    BY <1>1
  <2>2. ASSUME NEW d \in Clients
        PROVE  /\ made[d] > 0 => s1'[d] \in {"serve", "gone"}
               /\ made[d] = Messages => s1'[d] = "gone"
               /\ s1[d] = "gone" => s1'[d] = "gone"
    BY <1>1, <1>2, <1>3 DEF Counts
  <2>3. s = "func" => nufd \in Clients
    BY DEF Accepted
  <2> HIDE DEF Typed, Good
  <2> QED BY <2>1, <2>2, <2>3 DEF Counts, Cut
<1>9. Alone'
  BY <1>1, <1>2 DEF Alone, S1Alive
<1> QED BY <1>4, <1>5, <1>6, <1>7, <1>8, <1>9

LEMMA ConnectsGood == ASSUME Typed, Good, NEW c \in Clients, Connects(c) PROVE Good'
<1> USE DEF Typed, Good
<1>1. /\ s1[c] = "connect" /\ \A d \in Clients \ {c} : s1'[d] = s1[d]
      /\ s1'[c] \in {"recvfd", "gone"}
      /\ UNCHANGED <<run, s, cur, nufd, got, port, home, sent, avail, has, made, report, fsock>>
  BY DEF Connects
<1>2. has[c] = None
  BY <1>1 DEF Queued
<1>3. nufd # c
  <2>1. None \notin Clients
    BY DEF Clients, None
  <2> QED BY <1>1, <2>1 DEF Accepted, Waiting
<1>4. made[c] = 0
  <2>1. made[c] \in Nat /\ ~(made[c] > 0)
    BY <1>1 DEF Counts
  <2> HIDE DEF Typed, Good
  <2> QED BY <2>1
<1>5. \A l \in Clients : /\ backlog[l] \in Seq(Clients)
                         /\ \A i \in DOMAIN backlog[l] : /\ i \in Nat /\ backlog[l][i] \in Clients
                                                         /\ backlog[l][i] # c
  BY <1>1, Entries DEF Queued, Waiting
\* Where an entry of a queue comes from.
<1>6. \A l \in Clients : \A i \in DOMAIN backlog'[l] :
        \/ (i \in DOMAIN backlog[l] /\ backlog'[l][i] = backlog[l][i])
        \/ (l = fsock /\ i = Len(backlog[l]) + 1 /\ backlog'[l][i] = c /\ s1'[c] = "recvfd")
  <2>1. CASE backlog' = backlog
    BY <2>1
  <2>2. CASE /\ s1'[c] = "recvfd" /\ fsock # None
             /\ backlog' = [backlog EXCEPT ![fsock] = Append(@, c)]
    <3>1. fsock \in Clients /\ backlog[fsock] \in Seq(Clients)
      BY <2>2
    <3>2. /\ backlog'[fsock] = Append(backlog[fsock], c)
          /\ \A l \in Clients \ {fsock} : backlog'[l] = backlog[l]
      BY <2>2, <3>1
    <3>3. \A i \in DOMAIN Append(backlog[fsock], c) :
             \/ (i \in DOMAIN backlog[fsock] /\ Append(backlog[fsock], c)[i] = backlog[fsock][i])
             \/ (i = Len(backlog[fsock]) + 1 /\ Append(backlog[fsock], c)[i] = c)
      BY <3>1, AppendIs
    <3> HIDE DEF Typed, Good
    <3>4. ASSUME NEW l \in Clients, NEW i \in DOMAIN backlog'[l]
          PROVE  \/ (i \in DOMAIN backlog[l] /\ backlog'[l][i] = backlog[l][i])
                 \/ (l = fsock /\ i = Len(backlog[l]) + 1 /\ backlog'[l][i] = c /\ s1'[c] = "recvfd")
      <4>1. CASE l = fsock
        BY <4>1, <3>2, <3>3, <2>2
      <4>2. CASE l # fsock
        BY <4>2, <3>2
      <4> QED BY <4>1, <4>2
    <3> QED BY <3>4
  <2> QED BY <2>1, <2>2 DEF Connects
<1>7. PortOK'
  <2>1. \A r \in Runs : \A i \in DOMAIN port[r] : port[r][i] \in Clients \ {c}
    <3>1. \A r \in Runs : port[r] \in Seq(Clients)
      OBVIOUS
    <3>2. \A r \in Runs : \A i \in DOMAIN port[r] : port[r][i] \in Clients
      BY <3>1
    <3> QED BY <3>2, <1>1 DEF PortOK
  <2>2. PortOK /\ UNCHANGED <<port, home>>
    BY <1>1
  <2> HIDE DEF Typed, Good
  <2> QED BY <2>1, <2>2, <1>1 DEF PortOK
<1>8. Forked'
  <2>1. \A l \in Clients : backlog'[l] # <<>> => s1[l] # "none"
    <3>1. ASSUME NEW l \in Clients, backlog'[l] # backlog[l] PROVE s1[l] # "none"
      <4>1. l = fsock /\ fsock # None
        BY <3>1 DEF Connects
      <4> QED BY <4>1 DEF Forked
    <3> QED BY <3>1 DEF Forked
  <2>2. Forked /\ UNCHANGED <<cur, fsock, has>>
    BY <1>1
  <2>3. \A d \in Clients : s1[d] # "none" => s1'[d] # "none"
    BY <1>1
  <2>4. cur \in Clients \cup {None} /\ fsock \in Clients \cup {None} /\ \A d \in Clients : has[d] \in Clients \cup {None}
    OBVIOUS
  <2> HIDE DEF Typed, Good
  <2> QED BY <2>1, <2>2, <2>3, <2>4 DEF Forked
<1>9. InHand'
  BY <1>1 DEF InHand
<1>10. Queued'
  <2>0. Queued /\ UNCHANGED <<has, nufd>>
    BY <1>1
  <2> HIDE DEF Typed, Good
  <2>1. ASSUME NEW l \in Clients, NEW i \in DOMAIN backlog'[l]
        PROVE  /\ s1'[backlog'[l][i]] \in {"recvfd", "gone"} /\ has'[backlog'[l][i]] = None
               /\ backlog'[l][i] # nufd'
    <3>1. CASE i \in DOMAIN backlog[l] /\ backlog'[l][i] = backlog[l][i]
      BY <3>1, <2>0, <1>1, <1>5 DEF Queued, Waiting
    <3>2. CASE backlog'[l][i] = c /\ s1'[c] = "recvfd"
      BY <3>2, <2>0, <1>2, <1>3
    <3> QED BY <3>1, <3>2, <1>6
  <2>2. ASSUME NEW l \in Clients, NEW i \in DOMAIN backlog'[l],
               NEW m \in Clients, NEW j \in DOMAIN backlog'[m], backlog'[l][i] = backlog'[m][j]
        PROVE  l = m /\ i = j
    <3>1. CASE backlog'[l][i] = c
      BY <3>1, <2>2, <1>5, <1>6
    <3>2. CASE backlog'[l][i] # c
      <4>1. /\ i \in DOMAIN backlog[l] /\ backlog'[l][i] = backlog[l][i]
            /\ j \in DOMAIN backlog[m] /\ backlog'[m][j] = backlog[m][j]
        BY <3>2, <2>2, <1>6
      <4>2. backlog[l][i] = backlog[m][j] => l = m /\ i = j
        BY <4>1, <2>0 DEF Queued
      <4> QED BY <4>1, <4>2, <2>2
    <3> QED BY <3>1, <3>2
  <2>3. \A d \in Clients : has'[d] # None => s1'[d] \in {"recvfd", "serve", "gone"}
    BY <2>0, <1>1, <1>2 DEF Queued
  <2> QED BY <2>1, <2>2, <2>3 DEF Queued, Waiting
<1>11. Accepted'
  <2>1. Accepted /\ nufd \in Clients \cup {None} /\ None \notin Clients /\ UNCHANGED <<nufd, s, has>>
    BY <1>1 DEF Clients, None
  <2> HIDE DEF Typed, Good
  <2> QED BY <2>1, <1>1, <1>3 DEF Accepted, Waiting
<1>12. Counts'
  <2>1. /\ Counts /\ UNCHANGED <<s, nufd, got, sent, avail, made, report>>
        /\ nufd \in Clients \cup {None} /\ Messages # 0
    BY <1>1, SuperServerAssumption
  <2>2. s = "func" => nufd \in Clients
    BY DEF Accepted
  <2> HIDE DEF Typed, Good
  <2> QED BY <2>1, <2>2, <1>1, <1>3, <1>4 DEF Counts, Cut
<1>13. Alone'
  <2>1. ASSUME run = 1, s # "down" PROVE c = cur
    BY <2>1, <1>1 DEF Alone, S1Alive
  <2>2. ASSUME run = 1, s # "down", NEW d \in Clients, S1Alive(d)' PROVE d = cur
    BY <2>1, <2>2, <1>1 DEF Alone, S1Alive
  <2>3. ASSUME run = 1, s # "down", cur # None, NEW i \in DOMAIN backlog'[cur]
        PROVE  backlog'[cur][i] = cur
    <3>1. cur \in Clients /\ \A j \in DOMAIN backlog[cur] : backlog[cur][j] = cur
      BY <2>3 DEF Alone
    <3> HIDE DEF Typed, Good
    <3> QED BY <2>1, <2>3, <3>1, <1>6
  <2> QED BY <2>2, <2>3, <1>1 DEF Alone
<1> QED BY <1>7, <1>8, <1>9, <1>10, <1>11, <1>12, <1>13

LEMMA ReportsGood == ASSUME Typed, Good, NEW c \in Clients, Reports(c) PROVE Good'
<1> USE DEF Typed, Good
<1>1. /\ s1[c] = "serve" /\ s1'[c] \in {"serve", "gone"} /\ \A d \in Clients \ {c} : s1'[d] = s1[d]
      /\ UNCHANGED <<run, s, cur, nufd, got, port, home, sent, has, backlog, fsock>>
  BY DEF Reports
<1>2. PortOK'
  <2>1. \A r \in Runs : \A i \in DOMAIN port[r] : port[r][i] \in Clients \ {c}
    <3>1. \A r \in Runs : port[r] \in Seq(Clients)
      OBVIOUS
    <3>2. \A r \in Runs : \A i \in DOMAIN port[r] : port[r][i] \in Clients
      BY <3>1
    <3> QED BY <3>2, <1>1 DEF PortOK
  <2>2. PortOK /\ UNCHANGED <<port, home>>
    BY <1>1
  <2> HIDE DEF Typed, Good
  <2> QED BY <2>1, <2>2, <1>1 DEF PortOK
<1>3. Forked' /\ InHand'
  BY <1>1 DEF Forked, InHand
<1>4. Queued'
  <2>1. \A l \in Clients : \A i \in DOMAIN backlog[l] : backlog[l][i] \in Clients
    BY Entries
  <2>2. Queued /\ UNCHANGED <<backlog, has, nufd>>
    BY <1>1
  <2> HIDE DEF Typed, Good
  <2> QED BY <2>1, <2>2, <1>1 DEF Queued, Waiting
<1>5. nufd = c => s = "func"
  BY <1>1 DEF Accepted, Waiting, Clients, None
<1>6. Accepted'
  <2>1. Accepted /\ nufd \in Clients \cup {None} /\ None \notin Clients /\ UNCHANGED <<nufd, s, has>>
    BY <1>1 DEF Clients, None
  <2> HIDE DEF Typed, Good
  <2> QED BY <2>1, <1>1, <1>5 DEF Accepted, Waiting
<1>7. Counts'
  <2>1. /\ Counts /\ UNCHANGED <<s, nufd, got, sent>> /\ Messages \in Nat \ {0}
        /\ got \in Nat /\ \A d \in Clients : /\ made[d] \in Nat /\ report[d] \in Nat
                                             /\ sent[d] \in Nat /\ avail[d] \in Nat
    BY <1>1, SuperServerAssumption
  <2>2. s = "func" => nufd \in Clients
    BY DEF Accepted
  <2>3. \A d \in Clients : avail'[d] \in {0, avail[d]}
    BY DEF Reports
  <2>4. made[c] < Messages /\ made[c] # Messages
    <3> HIDE DEF Typed, Good
    <3>1. made[c] <= Messages /\ made[c] # Messages
      BY <1>1, <2>1 DEF Counts
    <3> QED BY <3>1, <2>1
  <2>5. CASE c = nufd
    <3>1. /\ made'[c] = made[c] + 1 /\ report'[c] = report[c] + 1
          /\ \A d \in Clients \ {c} : made'[d] = made[d] /\ report'[d] = report[d]
          /\ made[c] + 1 = Messages => s1'[c] = "gone"
      BY <2>5 DEF Reports
    <3>2. got + report[c] = made[c]
      BY <1>1, <1>5, <2>5 DEF Counts, Cut
    <3> HIDE DEF Typed, Good
    <3>3. \A d \in Clients : /\ made'[d] > 0 => s1'[d] \in {"serve", "gone"}
                             /\ made'[d] <= Messages
                             /\ made'[d] = Messages => s1'[d] = "gone"
      BY <1>1, <2>1, <2>4, <3>1 DEF Counts
    <3>4. \A d \in Clients : avail'[d] <= sent'[d] /\ sent'[d] <= Messages
      BY <2>1, <2>3 DEF Counts
    <3>5. got' + report'[nufd'] = made'[nufd'] /\ s' = "func"
      BY <1>5, <2>1, <2>5, <3>1, <3>2
    <3>6. \A d \in Clients : d # nufd' => report'[d] = 0
      BY <2>1, <2>5, <3>1 DEF Counts
    <3>7. got' < Messages
      BY <2>1 DEF Counts
    <3> QED BY <3>3, <3>4, <3>5, <3>6, <3>7 DEF Counts
  <2>6. CASE c # nufd
    <3>1. made' = made /\ report' = report
      BY <2>6 DEF Reports
    <3> HIDE DEF Typed, Good
    <3>2. \A d \in Clients : /\ made'[d] > 0 => s1'[d] \in {"serve", "gone"}
                             /\ made'[d] <= Messages
                             /\ made'[d] = Messages => s1'[d] = "gone"
      BY <1>1, <2>1, <2>4, <3>1 DEF Counts
    <3>3. \A d \in Clients : avail'[d] <= sent'[d] /\ sent'[d] <= Messages
      BY <2>1, <2>3 DEF Counts
    <3> QED BY <2>1, <2>2, <2>6, <1>1, <3>1, <3>2, <3>3 DEF Counts, Cut
  <2> QED BY <2>5, <2>6
<1>8. Alone'
  BY <1>1 DEF Alone, S1Alive
<1> QED BY <1>2, <1>3, <1>4, <1>6, <1>7, <1>8

-----------------------------------------------------------------------------
(* Theorems *)

LEMMA Invariance == Spec => []IInv
<1>1. Init => IInv
  BY InitTyped, InitGood DEF IInv
<1>2. ASSUME IInv, [Next]_vars PROVE IInv'
  <2>1. Typed /\ Good /\ InHand /\ Accepted
    BY <1>2 DEF IInv, Good
  <2>2. Typed'
    BY <1>2, <2>1, StepTyped
  <2>3. Good'
    BY <1>2, <2>1, Steps, FeedsGood, ClientConnectsGood, AcceptGood, PreparesGood, AcceptS1Good,
       SendFdGood, DownGood, ReadReportGood, StartGood, MovesGood, ConnectsGood, ReportsGood
  <2> QED BY <2>2, <2>3 DEF IInv
<1> QED BY <1>1, <1>2, PTL DEF Spec

\* Every variable keeps its type; the counters of messages and of reports, of the client,
\* of S1 and of S, never pass the number that C1.c sends.
THEOREM ServerTypes == Spec => []TypeOK
<1>1. IInv => TypeOK
  <2>1. SUFFICES ASSUME IInv PROVE TypeOK
    OBVIOUS
  <2>2. Messages \in Nat \ {0} /\ Typed /\ Counts
    BY <2>1, SuperServerAssumption DEF IInv, Good
  <2>3. got \in 0..Messages
    BY <2>2 DEF Typed, Counts
  <2>4. ASSUME NEW c \in Clients
        PROVE  /\ sent[c] \in 0..Messages /\ avail[c] \in 0..Messages
               /\ made[c] \in 0..Messages /\ report[c] \in 0..Messages
    <3>1. /\ sent[c] \in Nat /\ avail[c] \in Nat /\ made[c] \in Nat /\ report[c] \in Nat
          /\ got \in Nat
      BY <2>2 DEF Typed
    <3>2. avail[c] <= sent[c] /\ sent[c] <= Messages /\ made[c] <= Messages
      BY <2>2 DEF Counts
    <3>3. report[c] = 0 \/ got + report[c] = made[c]
      BY <2>2 DEF Counts
    <3> QED BY <2>2, <3>1, <3>2, <3>3
  <2>5. \A f \in {sent, avail, made, report} : f \in [Clients -> 0..Messages]
    <3>1. /\ sent \in [Clients -> Nat] /\ avail \in [Clients -> Nat]
          /\ made \in [Clients -> Nat] /\ report \in [Clients -> Nat]
      BY <2>2 DEF Typed
    <3> QED BY <2>4, <3>1
  <2> QED BY <2>2, <2>3, <2>5 DEF Typed, TypeOK
<1> QED BY <1>1, Invariance, PTL

\* No client's descriptor is sent to two S1s, and while S has not been killed each goes to
\* the S1 that was forked for that client.
THEOREM ServerRightS1 == Spec => []RightS1
<1>1. IInv => RightS1
  BY DEF IInv, Good, InHand, Alone, RightS1
<1> QED BY <1>1, Invariance, PTL

\* func() of S and S_func() of S1 count the same reports, and none is left over when S
\* goes on to the next client.
THEOREM ServerBalanced == Spec => []Balanced
<1>1. IInv => Balanced
  <2>1. SUFFICES ASSUME IInv PROVE Balanced
    OBVIOUS
  <2>2. Typed /\ Counts /\ Accepted
    BY <2>1 DEF IInv, Good
  <2>3. s = "func" => nufd \in Clients
    BY <2>2 DEF Typed, Accepted
  <2>4. ASSUME s = "func"
        PROVE  \/ got + report[nufd] = made[nufd]
               \/ got + report[nufd] > made[nufd] /\ Cut(nufd)
    <3>1. got \in Nat /\ report[nufd] \in Nat /\ made[nufd] \in Nat
      BY <2>2, <2>3, <2>4 DEF Typed
    <3>2. \/ got + report[nufd] = made[nufd]
          \/ report[nufd] = 0 /\ got > made[nufd] /\ Cut(nufd)
      BY <2>2, <2>4 DEF Counts
    <3> QED BY <3>1, <3>2
  <2>5. s # "func" => \A c \in Clients : report[c] = 0
    BY <2>2 DEF Counts
  <2> QED BY <2>4, <2>5 DEF Balanced
<1> QED BY <1>1, Invariance, PTL
=============================================================================

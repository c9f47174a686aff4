----------------------------- MODULE EgNetProofs -----------------------------
(***************************************************************************)
(* AnswersAreRead, HeadersGenuine and InOrder hold for any number of       *)
(* senders, sockets and frames, any messages within MessageAssumption and  *)
(* DataAssumption, and however the network cuts the stream.                *)
(***************************************************************************)
EXTENDS EgNet, SequenceTheorems, TLAPS

Callers == Senders \cup {Main}

Labels ==
    {"idle", "socket", "connect", "connecting", "spawn", "assert", "done", "send", "sending"}

Connections == {"none", "open", "up", "closed", "reset", "failed"}

\* The globals and the locals of the callers are of their types; 0 is no socket.
CallerTypes ==
    /\ sockfd \in 0..MaxSockets
    /\ net_state \in {0, 1}
    /\ conn \in [0..MaxSockets -> Connections]
    /\ conn[0] = "none"
    /\ pc \in [Callers -> Labels]
    /\ fd \in [Callers -> 0..MaxSockets]

\* A sender is in reconnect only once net_state is 0, and that is for good.
SendersIdle ==
    net_state = 1 => \A p \in Senders : pc[p] \in {"idle", "send", "sending"}

\* When net_state is 0 eg_net_init has given up and there is no receiver.
Disconnected == net_state = 0 => pc[Main] = "done" /\ thread = "none"

\* The receiver is the last thing that eg_net_init makes.
AfterInit ==
    /\ thread # "none" => pc[Main] = "done"
    /\ pc[Main] \notin {"idle", "send", "sending"}

\* A connection is made once: while net_state is 1 only sockfd was ever opened.
OneSocket ==
    /\ net_state = 1 => \A s \in Sockets : conn[s] # "none" => s = sockfd
    /\ pc[Main] = "socket" => sockfd = 0

\* Whatever was sent went out on a socket that was opened.
AskedOpened == \A s \in asked : s \in Sockets /\ conn[s] # "none"

NetInv ==
    CallerTypes /\ SendersIdle /\ Disconnected /\ AfterInit /\ OneSocket /\ AskedOpened

USE DEF Callers

\* The globals start out as their initialisers say.
LEMMA NetInit == Init => NetInv
<1> USE CallerAssumption, BoundAssumption
<1> SUFFICES ASSUME Init PROVE NetInv
  OBVIOUS
<1>1. CallerTypes
  BY DEF Init, CallerTypes, Sockets, Labels, Connections
<1>2. SendersIdle /\ Disconnected /\ AfterInit /\ OneSocket /\ AskedOpened
  BY DEF Init, SendersIdle, Disconnected, AfterInit, OneSocket, AskedOpened, Sockets
<1> QED BY <1>1, <1>2 DEF NetInv

\* Opening a socket: eg_net_init opens the first one, and a sender opens one only
\* when there is no receiver and never will be.
LEMMA NetSocket ==
    ASSUME NetInv, NEW p \in Callers, Socket(p)
    PROVE  NetInv'
<1> USE CallerAssumption, BoundAssumption DEF NetInv
<1>1. thread = "none"
  BY DEF Socket, SendersIdle, Disconnected, AfterInit, CallerTypes
<1>2. /\ pc' \in [Callers -> Labels]
      /\ \A q \in Callers : q # p => pc'[q] = pc[q]
      /\ pc[p] = "socket" /\ pc'[p] \in {"connect", GiveUp(p)}
      /\ UNCHANGED <<net_state, fd, asked, thread>>
  BY DEF Socket, Goto, GiveUp, CallerTypes, receiver, Labels
<1>3. /\ sockfd' \in 0..MaxSockets
      /\ conn' \in [0..MaxSockets -> Connections]
      /\ \A s \in 0..MaxSockets : conn'[s] # conn[s] => conn'[s] = "open" /\ s = sockfd'
      /\ conn'[0] = "none"
  BY DEF Socket, Goto, CallerTypes, Sockets, Connections
<1>4. CallerTypes'
  BY <1>2, <1>3 DEF CallerTypes
<1>5. AskedOpened'
  BY <1>2, <1>3 DEF AskedOpened, Sockets
<1>6. CASE p = Main
  <2>1. net_state = 1
    BY <1>2, <1>6 DEF Disconnected, CallerTypes
  <2>2. \A s \in Sockets : conn[s] = "none"
    BY <1>2, <1>6, <2>1 DEF OneSocket, Sockets
  <2>3. OneSocket'
    BY <1>2, <1>3, <1>6, <2>2 DEF OneSocket, GiveUp, Sockets
  <2> QED
    BY <1>1, <1>2, <1>4, <1>5, <1>6, <2>1, <2>3 DEF GiveUp, SendersIdle, Disconnected,
       AfterInit
<1>7. CASE p # Main
  <2>1. net_state = 0 /\ pc[Main] = "done" /\ pc'[Main] = "done"
    BY <1>2, <1>7 DEF SendersIdle, Disconnected, CallerTypes
  <2> QED
    BY <1>1, <1>2, <1>4, <1>5, <2>1 DEF SendersIdle, Disconnected, AfterInit, OneSocket
<1> QED BY <1>6, <1>7

\* The steps of a connect, and a send that finds the client disconnected.
LEMMA NetConnect ==
    ASSUME NetInv, NEW p \in Callers,
           Connect(p) \/ Connected(p) \/ ConnectFails(p) \/ SendReconnects(p)
    PROVE  NetInv'
<1> USE CallerAssumption, BoundAssumption DEF NetInv
<1>1. CASE Connect(p)
  <2>1. CallerTypes'
    BY <1>1 DEF Connect, Goto, CallerTypes, Labels
  <2> QED
    BY <1>1, <2>1 DEF Connect, Goto, receiver, CallerTypes, SendersIdle, Disconnected,
       AfterInit, OneSocket, AskedOpened
<1>2. CASE Connected(p)
  <2>1. CallerTypes'
    BY <1>2 DEF Connected, Goto, CallerTypes, Labels, Connections
  <2>2. /\ \A s \in 0..MaxSockets : conn'[s] # "none" <=> conn[s] # "none"
        /\ UNCHANGED <<sockfd, net_state, asked, thread>>
        /\ pc'[Main] = "socket" => pc[Main] = "socket"
    BY <1>2 DEF Connected, Goto, CallerTypes, receiver
  <2>3. OneSocket' /\ AskedOpened'
    BY <2>2 DEF OneSocket, AskedOpened, Sockets
  <2> QED
    BY <1>2, <2>1, <2>2, <2>3 DEF Connected, Goto, CallerTypes, SendersIdle, Disconnected,
       AfterInit
<1>3. CASE ConnectFails(p)
  <2>1. CallerTypes'
    BY <1>3 DEF ConnectFails, Goto, GiveUp, CallerTypes, Labels
  <2> QED
    BY <1>3, <2>1 DEF ConnectFails, Goto, GiveUp, receiver, CallerTypes, SendersIdle,
       Disconnected, AfterInit, OneSocket, AskedOpened
<1>4. CASE SendReconnects(p)
  <2>1. CallerTypes'
    BY <1>4 DEF SendReconnects, Goto, CallerTypes, Labels
  <2> QED
    BY <1>4, <2>1 DEF SendReconnects, Goto, receiver, CallerTypes, SendersIdle,
       Disconnected, AfterInit, OneSocket, AskedOpened
<1> QED BY <1>1, <1>2, <1>3, <1>4

\* The end of eg_net_init, and the steps of a send that found the client connected.
LEMMA NetSend ==
    ASSUME NetInv,
           Spawn \/ \E p \in Callers : Send(p) \/ SendOn(p) \/ Sent(p) \/ SendFails(p)
    PROVE  NetInv'
<1> USE CallerAssumption, BoundAssumption DEF NetInv
<1>1. CASE Spawn
  <2>1. CallerTypes'
    BY <1>1 DEF Spawn, Goto, CallerTypes, Labels
  <2>2. net_state = 1
    BY <1>1 DEF Spawn, Disconnected, CallerTypes
  <2> QED
    BY <1>1, <2>1, <2>2 DEF Spawn, Goto, CallerTypes, SendersIdle, Disconnected,
       AfterInit, OneSocket, AskedOpened
<1>2. ASSUME NEW p \in Callers, Send(p) \/ SendOn(p) \/ Sent(p) \/ SendFails(p)
      PROVE  NetInv'
  <2>1. /\ UNCHANGED <<sockfd, net_state, conn, thread>>
        /\ p # Main
        /\ \E label \in {"idle", "send", "sending"} : pc' = [pc EXCEPT ![p] = label]
    BY <1>2 DEF Send, SendOn, Sent, SendFails, Goto, receiver, AfterInit
  <2>2. fd' \in [Callers -> 0..MaxSockets]
    BY <1>2 DEF Send, SendOn, Sent, SendFails, CallerTypes
  <2>3. CallerTypes'
    BY <2>1, <2>2 DEF CallerTypes, Labels
  <2>4. AskedOpened'
    <3>1. CASE Sent(p)
      <4>1. asked' = asked \cup {fd[p]} /\ conn[fd[p]] # "none"
        BY <3>1 DEF Sent
      <4>2. fd[p] \in Sockets
        BY <4>1 DEF CallerTypes, Sockets
      <4> QED BY <2>1, <4>1, <4>2 DEF AskedOpened
    <3>2. CASE Send(p) \/ SendOn(p) \/ SendFails(p)
      BY <2>1, <3>2 DEF Send, SendOn, SendFails, AskedOpened
    <3> QED BY <1>2, <3>1, <3>2
  <2> QED
    BY <2>1, <2>3, <2>4 DEF CallerTypes, SendersIdle, Disconnected, AfterInit, OneSocket
<1> QED BY <1>1, <1>2

\* The server, the network and the receiver only end connections.
LEMMA NetReceive ==
    ASSUME NetInv,
           \/ \E s \in Sockets : ServerSends(s) \/ Arrive(s) \/ PeerCloses(s) \/ PeerResets(s)
           \/ Receive
    PROVE  NetInv'
<1> USE CallerAssumption, BoundAssumption DEF NetInv
<1>1. /\ UNCHANGED <<sockfd, net_state, pc, fd, asked>>
      /\ thread' = "none" <=> thread = "none"
      /\ conn' \in [0..MaxSockets -> Connections]
      /\ \A s \in 0..MaxSockets : conn'[s] # "none" <=> conn[s] # "none"
  <2>1. CASE \E s \in Sockets : ServerSends(s) \/ Arrive(s)
    BY <2>1 DEF ServerSends, Arrive, callers, receiver, CallerTypes
  <2>2. ASSUME NEW r \in Sockets, PeerCloses(r) \/ PeerResets(r)
        PROVE  /\ UNCHANGED <<sockfd, net_state, pc, fd, asked, thread>>
               /\ conn' \in [0..MaxSockets -> Connections]
               /\ \A s \in 0..MaxSockets : conn'[s] # "none" <=> conn[s] # "none"
    <3>1. /\ UNCHANGED <<sockfd, net_state, pc, fd, asked, thread>>
          /\ conn[r] \notin {"none", "open"}
      BY <2>2 DEF PeerCloses, PeerResets, callers, receiver
    <3>2. PICK c \in {"closed", "reset"} : conn' = [conn EXCEPT ![r] = c]
      BY <2>2 DEF PeerCloses, PeerResets
    <3> QED BY <3>1, <3>2 DEF CallerTypes, Sockets, Connections
  <2>3. CASE \E r \in Sockets : PeerCloses(r) \/ PeerResets(r)
    BY <2>2, <2>3
  <2>4. CASE RecvHead
    BY <2>4 DEF RecvHead, callers, CallerTypes
  <2>5. CASE RecvHeadEnd
    BY <2>5 DEF RecvHeadEnd, vars, CallerTypes
  <2>6. CASE RecvBody
    BY <2>6 DEF RecvBody, callers, CallerTypes
  <2>7. CASE RecvError
    BY <2>7 DEF RecvError, callers, CallerTypes, Connections
  <2> QED BY <2>1, <2>3, <2>4, <2>5, <2>6, <2>7 DEF Receive
<1>2. CallerTypes'
  BY <1>1 DEF CallerTypes
<1>3. OneSocket' /\ AskedOpened'
  BY <1>1 DEF OneSocket, AskedOpened, Sockets
<1> QED
  BY <1>1, <1>2, <1>3 DEF SendersIdle, Disconnected, AfterInit

\* Every step preserves the invariant.
LEMMA NetNext == NetInv /\ [Next]_vars => NetInv'
<1> SUFFICES ASSUME NetInv, [Next]_vars PROVE NetInv'
  OBVIOUS
<1>1. CASE \E p \in Callers : Caller(p)
  BY <1>1, NetSocket, NetConnect, NetSend DEF Caller
<1>2. CASE Spawn
  BY <1>2, NetSend
<1>3. CASE \/ \E s \in Sockets : ServerSends(s) \/ Arrive(s) \/ PeerCloses(s) \/ PeerResets(s)
           \/ Receive
  BY <1>3, NetReceive
<1>4. CASE UNCHANGED vars
  BY <1>4 DEF vars, NetInv, CallerTypes, SendersIdle, Disconnected, AfterInit, OneSocket,
     AskedOpened
<1> QED BY <1>1, <1>2, <1>3, <1>4 DEF Next

\* For any number of senders and sockets, and although sockfd and net_state are read
\* and written without a lock, net_thread_entry keeps the only connection that was
\* ever opened, and all that eg_tcp_send has sent went out on it.
THEOREM AnswersCorrect == Spec => []AnswersAreRead
<1>1. NetInv => AnswersAreRead
  <2> SUFFICES ASSUME NetInv, thread # "none"
               PROVE  asked \subseteq {sockfd} /\ \A s \in Sockets : conn[s] # "none" => s = sockfd
    BY DEF AnswersAreRead
  <2>1. net_state = 1
    BY DEF NetInv, Disconnected, CallerTypes
  <2> QED BY <2>1 DEF NetInv, OneSocket, AskedOpened
<1> QED BY <1>1, NetInit, NetNext, PTL DEF Spec

-----------------------------------------------------------------------------
(* The stream *)

Unit == [frame : Nat, part : Nat]

Handled == [frame : Nat, part : Nat, whole : BOOLEAN]

StreamTypes ==
    /\ frames \in Seq(Messages)
    /\ flight \in [Sockets -> Seq(Unit)]
    /\ wire \in [Sockets -> Seq(Unit)]
    /\ cut \in BOOLEAN
    /\ thread \in {"none", "head", "body"}
    /\ head \in Seq(Unit)
    /\ handled \in Seq(Handled)

\* What has been sent on socket s and not been received yet.
Stream(s) == wire[s] \o flight[s]

\* The units of frame f when fs are the messages that were sent.
FrameUnits(fs, f) == Size(fs[f])

\* Position i of the units belongs to a frame that was sent, and is followed by the
\* rest of that frame as far as the units go.
RunAt(fs, units, i) ==
    LET f == units[i].frame
        p == units[i].part
        n == FrameUnits(fs, f)
    IN  /\ f \in 1..Len(fs) /\ p \in 1..n
        /\ \A k \in 0..(n - p) :
            i + k <= Len(units) => units[i + k] = [frame |-> f, part |-> p + k]

Runs(fs, units) == \A i \in 1..Len(units) : RunAt(fs, units, i)

\* The last of the units ends a frame.
Complete(fs, units) ==
    units # << >> =>
        units[Len(units)].part = FrameUnits(fs, units[Len(units)].frame)

\* What is on a connection is what was sent; unless the connection was reset, it ends
\* with a frame.
StreamsRun ==
    \A s \in Sockets :
        /\ Runs(frames, Stream(s))
        /\ conn[s] \notin {"reset", "failed"} => Complete(frames, Stream(s))

\* The unit u begins a frame, or is in the header of a CMD_CONNECT frame.
Genuine(fs, u) ==
    /\ u.frame \in 1..Len(fs)
    /\ u.part = 1 \/ (u.part \in 2..9 /\ fs[u.frame].cmd = CMD_CONNECT)

\* The receiver has a socket; while it is at the body, it has a header of digits.
ReceiverReads ==
    /\ pc[Main] \in {"connect", "connecting", "spawn"} => sockfd \in Sockets
    /\ thread = "none" => handled = << >>
    /\ thread # "none" => sockfd \in Sockets
    /\ thread = "body" =>
        /\ Len(head) = 14 /\ Runs(frames, head) /\ Genuine(frames, head[1])

HandledGenuine == \A i \in 1..Len(handled) : Genuine(frames, handled[i])

HeaderInv == StreamTypes /\ StreamsRun /\ ReceiverReads /\ HandledGenuine

-----------------------------------------------------------------------------
(* Sequences *)

\* What is left of a sequence once its first m elements were taken.
LEMMA SuffixLemma ==
    ASSUME NEW S, NEW w \in Seq(S), NEW m \in 0..Len(w)
    PROVE  /\ SubSeq(w, m + 1, Len(w)) \in Seq(S)
           /\ Len(SubSeq(w, m + 1, Len(w))) = Len(w) - m
           /\ \A i \in 1..(Len(w) - m) : SubSeq(w, m + 1, Len(w))[i] = w[m + i]
<1>1. Len(w) \in Nat /\ \A i \in 1..Len(w) : w[i] \in S
  BY LenProperties, ElementOfSeq
<1>2. \A i \in (m + 1)..Len(w) : w[i] \in S
  BY <1>1
<1>3. m + 1 \in Int /\ Len(w) \in Int
  BY <1>1
<1> QED BY <1>1, <1>2, <1>3, SubSeqProperties

\* The first m elements.
LEMMA PrefixLemma ==
    ASSUME NEW S, NEW w \in Seq(S), NEW m \in 0..Len(w)
    PROVE  /\ SubSeq(w, 1, m) \in Seq(S)
           /\ Len(SubSeq(w, 1, m)) = m
           /\ \A i \in 1..m : SubSeq(w, 1, m)[i] = w[i]
<1>1. Len(w) \in Nat /\ \A i \in 1..Len(w) : w[i] \in S
  BY LenProperties, ElementOfSeq
<1>2. \A i \in 1..m : w[i] \in S
  BY <1>1
<1>3. m \in Int /\ 1 \in Int
  BY <1>1
<1> QED BY <1>1, <1>2, <1>3, SubSeqProperties

\* The units of a whole frame.
LEMMA UnitsLemma ==
    ASSUME NEW f \in Nat, NEW n \in Nat
    PROVE  /\ Units(f, 1, n) \in Seq(Unit) /\ Len(Units(f, 1, n)) = n
           /\ \A i \in 1..n : Units(f, 1, n)[i] = [frame |-> f, part |-> i]
<1>1. Units(f, 1, n) = [i \in 1..n |-> [frame |-> f, part |-> i]]
  BY DEF Units
<1>2. Units(f, 1, n) \in [1..n -> Unit]
  BY <1>1 DEF Unit
<1>3. Units(f, 1, n) \in Seq(Unit)
  BY <1>2, SeqDef
<1>4. Len(Units(f, 1, n)) = n
  BY <1>2, <1>3, LenProperties
<1> QED BY <1>1, <1>3, <1>4

\* A stream is what has arrived and then what is on its way.
LEMMA StreamLemma ==
    ASSUME StreamTypes, NEW s \in Sockets
    PROVE  /\ wire[s] \in Seq(Unit) /\ flight[s] \in Seq(Unit) /\ Stream(s) \in Seq(Unit)
           /\ Len(wire[s]) \in Nat /\ Len(flight[s]) \in Nat /\ Len(Stream(s)) \in Nat
           /\ Len(Stream(s)) = Len(wire[s]) + Len(flight[s])
           /\ Len(wire[s]) <= Len(Stream(s))
           /\ \A i \in 1..Len(Stream(s)) : Stream(s)[i] \in Unit
           /\ \A i \in 1..Len(wire[s]) : Stream(s)[i] = wire[s][i]
           /\ \A i \in 1..Len(flight[s]) : Stream(s)[Len(wire[s]) + i] = flight[s][i]
<1> DEFINE w == wire[s]
           f == flight[s]
           st == w \o f
<1>1. w \in Seq(Unit) /\ f \in Seq(Unit) /\ Stream(s) = st
  BY DEF StreamTypes, Stream
<1> HIDE DEF w, f
<1>2. /\ st \in Seq(Unit) /\ Len(st) = Len(w) + Len(f)
      /\ Len(w) \in Nat /\ Len(f) \in Nat
      /\ \A i \in 1..(Len(w) + Len(f)) : st[i] = IF i <= Len(w) THEN w[i] ELSE f[i - Len(w)]
  BY <1>1, ConcatProperties, LenProperties
<1> HIDE DEF st
<1>3. Len(st) \in Nat /\ Len(w) <= Len(st) /\ \A i \in 1..Len(st) : st[i] \in Unit
  BY <1>2, ElementOfSeq
<1>4. \A i \in 1..Len(w) : st[i] = w[i]
  BY <1>2
<1>5. ASSUME NEW i \in 1..Len(f) PROVE st[Len(w) + i] = f[i]
  <2>1. Len(w) + i \in 1..(Len(w) + Len(f)) /\ ~(Len(w) + i <= Len(w)) /\ Len(w) + i - Len(w) = i
    BY <1>2
  <2> QED BY <1>2, <2>1
<1> QED BY <1>1, <1>2, <1>3, <1>4, <1>5 DEF w, f

-----------------------------------------------------------------------------
(* Digits *)

\* A header has 14 characters and a trailer 8.
LEMMA UnitCounts == HeadUnits = 14 /\ TailUnits = 8
  BY DEF HeadUnits, TailUnits, MSG_HEAD_str

\* A frame is its header, its data and its trailer, all of them digits.
LEMMA TextLemma ==
    ASSUME NEW m \in Messages
    PROVE  /\ Size(m) \in Nat /\ Size(m) >= 22 /\ Len(m.data) \in Nat
           /\ Size(m) = 22 + Len(m.data)
           /\ \A i \in 1..14 : Text(m)[i] = Header(m)[i]
           /\ \A i \in 1..Size(m) : Text(m)[i] \in 0..15
<1> DEFINE h == Header(m)
           d == m.data
           t == <<0, 3, 0, 0, 14, 7, 0, 4>>
           D == 0..15
<1>1. m.cmd \in 0..255 /\ d \in Seq(D) /\ Len(d) \in Nat
  BY MessageAssumption, LenProperties
<1> DEFINE l == Len(d) \div 2
<1>2. l \in 0..256
  <2>1. PICK k \in 0..256 : Len(d) = 2 * k
    BY MessageAssumption
  <2>2. (2 * k) \div 2 = k
    OBVIOUS
  <2> QED BY <2>1, <2>2
<1>3. h = <<0, 1, 0, 1, 0, 1, 0, 1, m.cmd \div 16, m.cmd % 16,
            l \div 4096, (l \div 256) % 16, (l \div 16) % 16, l % 16>>
  BY DEF Header
<1> HIDE DEF l
<1>4. m.cmd \div 16 \in D /\ m.cmd % 16 \in D
  <2>1. PICK c \in 0..255 : c = m.cmd
    BY <1>1
  <2>2. c \div 16 \in D /\ c % 16 \in D
    OBVIOUS
  <2> QED BY <2>1, <2>2
<1>5. l \div 4096 \in D /\ (l \div 256) % 16 \in D /\ (l \div 16) % 16 \in D /\ l % 16 \in D
  BY <1>2
<1>6. h \in Seq(D) /\ Len(h) = 14
  BY <1>3, <1>4, <1>5
<1>7. t \in Seq(D) /\ Len(t) = 8
  OBVIOUS
<1> HIDE DEF h, d, t, D
<1>8. /\ h \o d \in Seq(D) /\ Len(h \o d) = 14 + Len(d)
      /\ \A i \in 1..14 : (h \o d)[i] = h[i]
  <2>1. /\ h \o d \in Seq(D) /\ Len(h \o d) = Len(h) + Len(d)
        /\ \A i \in 1..(Len(h) + Len(d)) :
                (h \o d)[i] = IF i <= Len(h) THEN h[i] ELSE d[i - Len(h)]
    BY <1>1, <1>6, ConcatProperties
  <2> QED BY <1>1, <1>6, <2>1
<1> DEFINE a == h \o d
<1> HIDE DEF a
<1>9. /\ a \o t \in Seq(D) /\ Len(a \o t) = 14 + Len(d) + 8
      /\ \A i \in 1..14 : (a \o t)[i] = a[i]
  <2>1. a \in Seq(D) /\ Len(a) = 14 + Len(d)
    BY <1>8 DEF a
  <2>2. /\ a \o t \in Seq(D) /\ Len(a \o t) = Len(a) + Len(t)
        /\ \A i \in 1..(Len(a) + Len(t)) :
                (a \o t)[i] = IF i <= Len(a) THEN a[i] ELSE t[i - Len(a)]
    <3>1. a \in Seq(D) /\ t \in Seq(D)
      BY <1>7, <2>1
    <3> QED BY <3>1, ConcatProperties
  <2> QED BY <1>1, <1>7, <2>1, <2>2
<1>10. Text(m) = a \o t /\ Size(m) = 14 + Len(d) + 8
  BY UnitCounts DEF Text, Size, a, t, h, d
<1>11. ASSUME NEW i \in 1..14 PROVE Text(m)[i] = h[i]
  BY <1>8, <1>9, <1>10 DEF a
<1>12. \A i \in 1..Size(m) : Text(m)[i] \in D
  BY <1>9, <1>10, ElementOfSeq
<1>13. Size(m) \in Nat /\ Size(m) >= 22 /\ Size(m) = 22 + Len(d)
  BY <1>1, <1>10
<1> QED BY <1>1, <1>11, <1>12, <1>13 DEF h, d, D

\* The digits of the header of a message.
LEMMA HeaderLemma ==
    ASSUME NEW m \in Messages
    PROVE  /\ \A i \in 1..8 : Header(m)[i] = MSG_HEAD_str[i]
           /\ Header(m)[1] = 0 /\ Header(m)[2] = 1 /\ Header(m)[3] = 0 /\ Header(m)[4] = 1
           /\ Header(m)[5] = 0 /\ Header(m)[6] = 1 /\ Header(m)[7] = 0 /\ Header(m)[8] = 1
           /\ Header(m)[9] = m.cmd \div 16 /\ Header(m)[10] = m.cmd % 16
           /\ 2 * (4096 * Header(m)[11] + 256 * Header(m)[12] + 16 * Header(m)[13]
                     + Header(m)[14]) = Len(m.data)
<1> DEFINE l == Len(m.data) \div 2
<1>1. l \in 0..256 /\ Len(m.data) = 2 * l
  <2>1. PICK k \in 0..256 : Len(m.data) = 2 * k
    BY MessageAssumption
  <2>2. (2 * k) \div 2 = k
    OBVIOUS
  <2> QED BY <2>1, <2>2
<1>2. Header(m) = <<0, 1, 0, 1, 0, 1, 0, 1, m.cmd \div 16, m.cmd % 16,
            l \div 4096, (l \div 256) % 16, (l \div 16) % 16, l % 16>>
  BY DEF Header
<1> HIDE DEF l
<1>3. 4096 * (l \div 4096) + 256 * ((l \div 256) % 16) + 16 * ((l \div 16) % 16) + (l % 16) = l
  BY <1>1
<1>4. /\ Header(m)[11] = l \div 4096 /\ Header(m)[12] = (l \div 256) % 16
      /\ Header(m)[13] = (l \div 16) % 16 /\ Header(m)[14] = l % 16
  BY <1>2
<1>5. \A i \in 1..8 : Header(m)[i] = MSG_HEAD_str[i]
  BY <1>2 DEF MSG_HEAD_str
<1> QED BY <1>1, <1>2, <1>3, <1>4, <1>5

\* A CMD_CONNECT is the only command whose digits are those of the magic.
LEMMA CommandLemma ==
    ASSUME NEW c \in 0..255, c \div 16 = 0, c % 16 = 1
    PROVE  c = 1
  OBVIOUS

\* Where the magic is read in a frame.
LEMMA MagicLemma ==
    ASSUME NEW m \in Messages, NEW p \in 1..Size(m),
           \A i \in 1..8 : p + i - 1 <= Size(m) => Text(m)[p + i - 1] = MSG_HEAD_str[i]
    PROVE  p = 1 \/ (p \in 2..9 /\ m.cmd = CMD_CONNECT)
<1>1. p \in Nat /\ Size(m) \in Nat /\ Size(m) >= 22 /\ m.cmd \in 0..255
  BY TextLemma, MessageAssumption
<1>2. p <= 9
  <2> SUFFICES ASSUME p \in 10..Size(m) PROVE FALSE
    BY <1>1
  <2>1. PICK i \in 1..8 : p + i - 1 <= Size(m) /\ Text(m)[p + i - 1] # MSG_HEAD_str[i]
    BY DataAssumption
  <2> QED BY <2>1
<1>3. /\ MSG_HEAD_str[1] = 0 /\ MSG_HEAD_str[2] = 1 /\ MSG_HEAD_str[3] = 0
      /\ MSG_HEAD_str[4] = 1 /\ MSG_HEAD_str[5] = 0 /\ MSG_HEAD_str[6] = 1
      /\ MSG_HEAD_str[7] = 0 /\ MSG_HEAD_str[8] = 1
  BY DEF MSG_HEAD_str
<1>4. \A i \in 1..8 : \A q \in 1..14 : q = p + i - 1 => Header(m)[q] = MSG_HEAD_str[i]
  <2> SUFFICES ASSUME NEW i \in 1..8, NEW q \in 1..14, q = p + i - 1
               PROVE  Header(m)[q] = MSG_HEAD_str[i]
    OBVIOUS
  <2>1. Text(m)[q] = Header(m)[q]
    BY TextLemma
  <2>2. q <= Size(m)
    BY <1>1
  <2> QED BY <2>1, <2>2
<1>5. /\ Header(m)[2] = 1 /\ Header(m)[4] = 1 /\ Header(m)[6] = 1 /\ Header(m)[8] = 1
      /\ Header(m)[9] = m.cmd \div 16 /\ Header(m)[10] = m.cmd % 16
  BY HeaderLemma
<1>6. p \notin {2, 4, 6, 8}
  <2>1. \A q \in 1..14 : q = p => Header(m)[q] = 0
    BY <1>1, <1>3, <1>4
  <2> QED BY <1>5, <2>1
<1>7. ASSUME p # 1 PROVE m.cmd = 1
  <2>1. p \in {3, 5, 7, 9}
    BY <1>1, <1>2, <1>6, <1>7
  <2>2. 10 - p \in {1, 3, 5, 7} /\ 11 - p \in {2, 4, 6, 8}
    BY <2>1
  <2>3. Header(m)[9] = MSG_HEAD_str[10 - p] /\ Header(m)[10] = MSG_HEAD_str[11 - p]
    <3>1. 9 = p + (10 - p) - 1 /\ 10 = p + (11 - p) - 1 /\ 10 - p \in 1..8 /\ 11 - p \in 1..8
      BY <2>1
    <3> QED BY <1>4, <3>1
  <2>4. Header(m)[9] = 0 /\ Header(m)[10] = 1
    BY <1>3, <2>2, <2>3
  <2> QED BY <1>1, <1>5, <2>4, CommandLemma
<1> QED BY <1>1, <1>2, <1>7 DEF CMD_CONNECT

-----------------------------------------------------------------------------
(* Runs of units *)

\* What a unit of a stream tells of the units behind it.
LEMMA RunsLemma ==
    ASSUME NEW fs \in Seq(Messages), NEW w \in Seq(Unit), Runs(fs, w), NEW i \in 1..Len(w)
    PROVE  /\ w[i].frame \in 1..Len(fs) /\ fs[w[i].frame] \in Messages
           /\ w[i].part \in 1..FrameUnits(fs, w[i].frame)
           /\ w[i].frame \in Nat /\ w[i].part \in Nat
           /\ FrameUnits(fs, w[i].frame) \in Nat /\ FrameUnits(fs, w[i].frame) >= 22
           /\ \A k \in 0..(FrameUnits(fs, w[i].frame) - w[i].part) :
                i + k <= Len(w) => w[i + k] = [frame |-> w[i].frame, part |-> w[i].part + k]
<1>1. RunAt(fs, w, i)
  BY DEF Runs
<1>2. /\ w[i].frame \in 1..Len(fs) /\ w[i].part \in 1..FrameUnits(fs, w[i].frame)
      /\ \A k \in 0..(FrameUnits(fs, w[i].frame) - w[i].part) :
            i + k <= Len(w) => w[i + k] = [frame |-> w[i].frame, part |-> w[i].part + k]
  BY <1>1 DEF RunAt
<1>3. w[i] \in Unit
  BY ElementOfSeq
<1>4. fs[w[i].frame] \in Messages
  BY <1>2, ElementOfSeq
<1>5. FrameUnits(fs, w[i].frame) \in Nat /\ FrameUnits(fs, w[i].frame) >= 22
  BY <1>4, TextLemma DEF FrameUnits
<1> QED BY <1>2, <1>3, <1>4, <1>5 DEF Unit

\* A part of a stream.
LEMMA RunsPart ==
    ASSUME NEW fs \in Seq(Messages), NEW w \in Seq(Unit), Runs(fs, w), NEW v, NEW m \in Nat,
           Len(v) \in Nat, \A i \in 1..Len(v) : m + i \in 1..Len(w) /\ v[i] = w[m + i]
    PROVE  Runs(fs, v)
<1> SUFFICES ASSUME NEW i \in 1..Len(v) PROVE RunAt(fs, v, i)
  BY DEF Runs
<1> DEFINE j == m + i
           f == w[j].frame
           p == w[j].part
           n == FrameUnits(fs, f)
<1>1. Len(w) \in Nat /\ j \in 1..Len(w) /\ v[i] = w[j]
  BY LenProperties
<1>2. /\ f \in 1..Len(fs) /\ p \in 1..n /\ n \in Nat /\ p \in Nat
      /\ \A k \in 0..(n - p) : j + k <= Len(w) => w[j + k] = [frame |-> f, part |-> p + k]
  BY <1>1, RunsLemma
<1>3. v[i].frame = f /\ v[i].part = p /\ FrameUnits(fs, v[i].frame) = n
  BY <1>1
<1> HIDE DEF f, p, n
<1>4. ASSUME NEW k \in 0..(n - p), i + k <= Len(v)
      PROVE  v[i + k] = [frame |-> f, part |-> p + k]
  <2>1. k \in Nat /\ i + k \in 1..Len(v)
    BY <1>2, <1>4
  <2>2. j + k = m + (i + k)
    BY <2>1
  <2>3. m + (i + k) \in 1..Len(w) /\ v[i + k] = w[m + (i + k)]
    BY <2>1
  <2>4. j + k <= Len(w)
    BY <1>1, <2>2, <2>3
  <2> QED BY <1>2, <2>2, <2>3, <2>4
<1> QED BY <1>2, <1>3, <1>4 DEF RunAt

\* What was sent before ends with a frame, so that the units behind it begin anew.
LEMMA RunsConcat ==
    ASSUME NEW fs \in Seq(Messages), NEW v \in Seq(Unit), Runs(fs, v), Complete(fs, v),
           NEW w \in Seq(Unit), Runs(fs, w)
    PROVE  Runs(fs, v \o w)
<1> DEFINE x == v \o w
<1>1. /\ Len(v) \in Nat /\ Len(w) \in Nat /\ Len(x) = Len(v) + Len(w)
      /\ v = << >> => Len(v) = 0
  BY LenProperties, ConcatProperties, EmptySeq
<1>2. /\ \A i \in 1..Len(v) : x[i] = v[i]
      /\ \A i \in 1..Len(w) : x[Len(v) + i] = w[i]
  <2>1. \A i \in 1..(Len(v) + Len(w)) : x[i] = IF i <= Len(v) THEN v[i] ELSE w[i - Len(v)]
    BY ConcatProperties
  <2> HIDE DEF x
  <2>2. ASSUME NEW i \in 1..Len(v) PROVE x[i] = v[i]
    BY <1>1, <2>1
  <2>3. ASSUME NEW i \in 1..Len(w) PROVE x[Len(v) + i] = w[i]
    <3>1. /\ Len(v) + i \in 1..(Len(v) + Len(w))
          /\ ~(Len(v) + i <= Len(v)) /\ Len(v) + i - Len(v) = i
      BY <1>1
    <3> QED BY <2>1, <3>1
  <2> QED BY <2>2, <2>3
<1> HIDE DEF x
<1>3. ASSUME NEW i \in 1..Len(v) PROVE RunAt(fs, x, i)
  <2> DEFINE f == v[i].frame
             p == v[i].part
             n == FrameUnits(fs, f)
  <2>1. /\ f \in 1..Len(fs) /\ p \in 1..n /\ n \in Nat /\ p \in Nat
        /\ \A k \in 0..(n - p) : i + k <= Len(v) => v[i + k] = [frame |-> f, part |-> p + k]
    BY <1>3, RunsLemma
  <2>2. x[i].frame = f /\ x[i].part = p /\ FrameUnits(fs, x[i].frame) = n
    BY <1>2
  <2>3. Len(v) >= 1 /\ v # << >>
    BY <1>1
  <2>4. ASSUME v[Len(v)].frame = f PROVE v[Len(v)].part = n
    BY <2>3, <2>4 DEF Complete
  <2> HIDE DEF f, p, n
  <2>5. ASSUME NEW k \in 0..(n - p), i + k <= Len(x)
        PROVE  x[i + k] = [frame |-> f, part |-> p + k]
    <3>1. i + k <= Len(v)
      <4> SUFFICES ASSUME i + k > Len(v) PROVE FALSE
        BY <1>1, <2>1
      <4>1. PICK l \in 0..(n - p) : i + l = Len(v) /\ l < k
        <5>1. Len(v) - i \in 0..(n - p) /\ i + (Len(v) - i) = Len(v) /\ Len(v) - i < k
          BY <1>1, <2>1
        <5> QED BY <5>1
      <4>2. v[Len(v)] = [frame |-> f, part |-> p + l]
        <5>1. i + l <= Len(v)
          BY <1>1, <4>1
        <5>2. v[i + l] = [frame |-> f, part |-> p + l]
          BY <2>1, <5>1
        <5> QED BY <4>1, <5>2
      <4>3. v[Len(v)].frame = f /\ v[Len(v)].part = p + l
        BY <4>2
      <4> QED BY <2>1, <2>4, <4>1, <4>3
    <3>2. i + k \in 1..Len(v)
      BY <1>1, <2>1, <3>1
    <3> QED BY <1>2, <2>1, <3>1, <3>2
  <2> QED BY <2>1, <2>2, <2>5 DEF RunAt
<1>4. ASSUME NEW j \in 1..Len(w) PROVE RunAt(fs, x, Len(v) + j)
  <2> DEFINE f == w[j].frame
             p == w[j].part
             n == FrameUnits(fs, f)
             i == Len(v) + j
  <2>1. /\ f \in 1..Len(fs) /\ p \in 1..n /\ n \in Nat /\ p \in Nat
        /\ \A k \in 0..(n - p) : j + k <= Len(w) => w[j + k] = [frame |-> f, part |-> p + k]
    BY <1>4, RunsLemma
  <2>2. x[i].frame = f /\ x[i].part = p /\ FrameUnits(fs, x[i].frame) = n
    BY <1>2
  <2> HIDE DEF f, p, n
  <2>3. ASSUME NEW k \in 0..(n - p), i + k <= Len(x)
        PROVE  x[i + k] = [frame |-> f, part |-> p + k]
    <3>1. k \in Nat /\ j \in Nat /\ j >= 1
      BY <1>1, <2>1
    <3>2. i + k = Len(v) + (j + k) /\ j + k <= Len(w) /\ j + k \in 1..Len(w)
      BY <1>1, <2>3, <3>1
    <3>3. x[Len(v) + (j + k)] = w[j + k]
      BY <1>2, <3>2
    <3> QED BY <2>1, <3>2, <3>3
  <2> QED BY <2>1, <2>2, <2>3 DEF RunAt
<1>5. ASSUME NEW i \in 1..Len(x) PROVE RunAt(fs, x, i)
  <2>1. CASE i <= Len(v)
    BY <1>1, <1>3, <2>1
  <2>2. CASE i > Len(v)
    <3>1. i - Len(v) \in 1..Len(w) /\ Len(v) + (i - Len(v)) = i
      BY <1>1, <2>2
    <3>2. RunAt(fs, x, Len(v) + (i - Len(v)))
      BY <1>4, <3>1
    <3> QED BY <3>1, <3>2
  <2> QED BY <1>1, <2>1, <2>2
<1> QED BY <1>5 DEF Runs, x

\* A frame that the server sends, and what it sent before.
LEMMA RunsSends ==
    ASSUME NEW fs \in Seq(Messages), NEW m \in Messages
    PROVE  LET gs == Append(fs, m)
               u == Units(Len(fs) + 1, 1, Size(m))
           IN  /\ gs \in Seq(Messages) /\ Len(gs) = Len(fs) + 1
               /\ \A g \in 1..Len(fs) : gs[g] = fs[g] /\ g \in 1..Len(gs)
               /\ u \in Seq(Unit) /\ u # << >> /\ Runs(gs, u) /\ Complete(gs, u)
               /\ \A w \in Seq(Unit) : Runs(fs, w) => Runs(gs, w)
<1> DEFINE gs == Append(fs, m)
           f == Len(fs) + 1
           n == Size(m)
           u == Units(f, 1, n)
<1>1. /\ gs \in Seq(Messages) /\ Len(gs) = f /\ gs[f] = m /\ Len(fs) \in Nat
      /\ \A g \in 1..Len(fs) : gs[g] = fs[g]
  BY AppendProperties, LenProperties
<1>2. f \in Nat /\ n \in Nat /\ n >= 1 /\ f \in 1..f
  BY <1>1, TextLemma
<1>3. \A g \in 1..Len(fs) : gs[g] = fs[g] /\ g \in 1..Len(gs)
  BY <1>1
<1> HIDE DEF gs
<1>4. FrameUnits(gs, f) = n
  BY <1>1 DEF FrameUnits
<1> HIDE DEF n
<1>5. /\ u \in Seq(Unit) /\ Len(u) = n
      /\ \A i \in 1..n : u[i] = [frame |-> f, part |-> i]
  BY <1>2, UnitsLemma
<1> HIDE DEF u, f
<1>6. Runs(gs, u)
  <2> SUFFICES ASSUME NEW i \in 1..n PROVE RunAt(gs, u, i)
    BY <1>5 DEF Runs
  <2>1. u[i].frame = f /\ u[i].part = i
    BY <1>5
  <2>2. \A k \in 0..(n - i) : i + k \in 1..n
    BY <1>2
  <2>3. \A k \in 0..(n - i) : u[i + k] = [frame |-> f, part |-> i + k]
    BY <1>5, <2>2
  <2> QED BY <1>1, <1>2, <1>4, <2>1, <2>3 DEF RunAt
<1>7. u # << >> /\ Complete(gs, u)
  <2>1. u # << >>
    BY <1>2, <1>5, EmptySeq
  <2>2. u[n].frame = f /\ u[n].part = n
    BY <1>2, <1>5
  <2> QED BY <1>4, <1>5, <2>1, <2>2 DEF Complete
<1>8. ASSUME NEW w \in Seq(Unit), Runs(fs, w) PROVE Runs(gs, w)
  <2> SUFFICES ASSUME NEW i \in 1..Len(w) PROVE RunAt(gs, w, i)
    BY DEF Runs
  <2>1. RunAt(fs, w, i)
    BY <1>8 DEF Runs
  <2>2. w[i].frame \in 1..Len(fs)
    BY <2>1 DEF RunAt
  <2>3. /\ FrameUnits(gs, w[i].frame) = FrameUnits(fs, w[i].frame)
        /\ w[i].frame \in 1..Len(gs)
    BY <1>3, <2>2 DEF FrameUnits
  <2> QED BY <2>1, <2>3 DEF RunAt
<1> QED BY <1>1, <1>3, <1>5, <1>6, <1>7, <1>8 DEF gs, u, f, n

\* The last of two sequences decides how both together end.
LEMMA CompleteConcat ==
    ASSUME NEW fs, NEW v \in Seq(Unit), NEW w \in Seq(Unit), w # << >>, Complete(fs, w)
    PROVE  Complete(fs, v \o w)
<1>1. /\ Len(v) \in Nat /\ Len(w) \in Nat /\ Len(v \o w) = Len(v) + Len(w) /\ Len(w) >= 1
      /\ \A i \in 1..(Len(v) + Len(w)) : (v \o w)[i] = IF i <= Len(v) THEN v[i] ELSE w[i - Len(v)]
  BY LenProperties, ConcatProperties, EmptySeq
<1>2. PICK j \in 1..(Len(v) + Len(w)) :
        j = Len(v) + Len(w) /\ ~(j <= Len(v)) /\ j - Len(v) = Len(w)
  BY <1>1
<1>3. (v \o w)[j] = w[Len(w)]
  BY <1>1, <1>2
<1>4. (v \o w)[Len(v \o w)] = w[Len(w)]
  BY <1>1, <1>2, <1>3
<1> QED BY <1>4 DEF Complete

\* The digits of a header, whatever it is.
LEMMA DigitLemma ==
    ASSUME frames \in Seq(Messages), NEW w \in Seq(Unit), Runs(frames, w), Len(w) = 14
    PROVE  BodyUnits(w) \in Nat
<1>1. ASSUME NEW i \in 1..14 PROVE Digit(w[i]) \in 0..15
  <2>1. frames[w[i].frame] \in Messages /\ w[i].part \in 1..FrameUnits(frames, w[i].frame)
    BY RunsLemma
  <2> QED BY <2>1, TextLemma DEF Digit, FrameUnits
<1>2. \A i \in 1..14 : \E d \in 0..15 : d = Digit(w[i])
  BY <1>1
<1> HIDE DEF Digit
<1>3. PICK a \in 0..15 : a = Digit(w[11])
  BY <1>2
<1>4. PICK b \in 0..15 : b = Digit(w[12])
  BY <1>2
<1>5. PICK c \in 0..15 : c = Digit(w[13])
  BY <1>2
<1>6. PICK d \in 0..15 : d = Digit(w[14])
  BY <1>2
<1>7. BodyUnits(w) = (4096 * a + 256 * b + 16 * c + d) * 2 + 8
  BY <1>3, <1>4, <1>5, <1>6, UnitCounts DEF BodyUnits, HeadLength
<1> QED BY <1>7

\* Whatever passes the test of the header begins a frame, or is in the header of a
\* CMD_CONNECT.
LEMMA MatchLemma ==
    ASSUME frames \in Seq(Messages), NEW w \in Seq(Unit), Runs(frames, w), HeadMatches(w)
    PROVE  Len(w) = 14 /\ Genuine(frames, w[1])
<1> DEFINE f == w[1].frame
           p == w[1].part
           m == frames[f]
<1>1. Len(w) = 14 /\ \A i \in 1..8 : Digit(w[i]) = MSG_HEAD_str[i]
  <2>1. Len(MSG_HEAD_str) = 8
    BY DEF MSG_HEAD_str
  <2> QED BY <2>1, UnitCounts DEF HeadMatches
<1>2. /\ f \in 1..Len(frames) /\ m \in Messages /\ p \in 1..Size(m) /\ p \in Nat /\ Size(m) \in Nat
      /\ \A k \in 0..(Size(m) - p) : 1 + k <= 14 => w[1 + k] = [frame |-> f, part |-> p + k]
  <2>1. 1 \in 1..Len(w)
    BY <1>1
  <2>2. FrameUnits(frames, f) = Size(m)
    BY DEF FrameUnits
  <2>3. /\ f \in 1..Len(frames) /\ m \in Messages /\ p \in 1..FrameUnits(frames, f)
        /\ p \in Nat /\ FrameUnits(frames, f) \in Nat
        /\ \A k \in 0..(FrameUnits(frames, f) - p) :
                1 + k <= Len(w) => w[1 + k] = [frame |-> f, part |-> p + k]
    BY <2>1, RunsLemma
  <2> HIDE DEF f, p, m
  <2> QED BY <1>1, <2>2, <2>3
<1> HIDE DEF f, p
<1>3. ASSUME NEW i \in 1..8, p + i - 1 <= Size(m)
      PROVE  Text(m)[p + i - 1] = MSG_HEAD_str[i]
  <2>1. PICK k \in 0..(Size(m) - p) : k = i - 1 /\ 1 + k = i /\ p + k = p + i - 1
    BY <1>2, <1>3
  <2>2. w[i] = [frame |-> f, part |-> p + i - 1]
    BY <1>2, <2>1
  <2>3. w[i].frame = f /\ w[i].part = p + i - 1
    BY <2>2
  <2> QED BY <1>1, <2>3 DEF Digit
<1>4. p = 1 \/ (p \in 2..9 /\ m.cmd = CMD_CONNECT)
  <2> HIDE DEF m
  <2> QED BY <1>2, <1>3, MagicLemma
<1> QED BY <1>1, <1>2, <1>4 DEF Genuine, f, p

-----------------------------------------------------------------------------
(* HeaderInv *)

\* A step that leaves the streams and the receiver alone, and resets nothing.
LEMMA SameStreams ==
    ASSUME HeaderInv, UNCHANGED <<frames, flight, wire, cut, thread, head, handled>>,
           thread # "none" => sockfd' = sockfd,
           pc'[Main] \in {"connect", "connecting", "spawn"} => sockfd' \in Sockets,
           \A s \in Sockets : conn[s] \in {"reset", "failed"} => conn'[s] = conn[s]
    PROVE  HeaderInv'
<1>1. \A s : Stream(s)' = Stream(s)
  BY DEF Stream
<1>2. StreamTypes' /\ HandledGenuine'
  BY DEF HeaderInv, StreamTypes, HandledGenuine
<1>3. StreamsRun'
  BY <1>1 DEF HeaderInv, StreamsRun
<1>4. ReceiverReads'
  BY DEF HeaderInv, ReceiverReads
<1> QED BY <1>2, <1>3, <1>4 DEF HeaderInv

\* A header stays what it is when more frames are sent.
LEMMA GenuineSends ==
    ASSUME NEW fs, NEW gs, Len(fs) \in Nat, \A g \in 1..Len(fs) : gs[g] = fs[g] /\ g \in 1..Len(gs),
           NEW u, Genuine(fs, u)
    PROVE  Genuine(gs, u)
  BY DEF Genuine

\* The server sends a frame.
LEMMA HeaderSends ==
    ASSUME HeaderInv, NEW s \in Sockets, ServerSends(s)
    PROVE  HeaderInv'
<1>1. StreamTypes /\ frames \in Seq(Messages) /\ Len(frames) \in Nat
  BY LenProperties DEF HeaderInv, StreamTypes
<1>2. PICK m \in Messages :
        /\ frames' = Append(frames, m)
        /\ flight' = [flight EXCEPT ![s] = @ \o Units(Len(frames) + 1, 1, Size(m))]
  BY DEF ServerSends
<1> DEFINE u == Units(Len(frames) + 1, 1, Size(m))
<1>3. UNCHANGED <<sockfd, pc, conn, wire, cut, thread, head, handled>> /\ conn[s] = "up"
  BY DEF ServerSends, callers, receiver
<1>4. /\ frames' \in Seq(Messages) /\ Len(frames') = Len(frames) + 1
      /\ \A g \in 1..Len(frames) : frames'[g] = frames[g] /\ g \in 1..Len(frames')
      /\ u \in Seq(Unit) /\ u # << >> /\ Runs(frames', u) /\ Complete(frames', u)
      /\ \A w \in Seq(Unit) : Runs(frames, w) => Runs(frames', w)
  BY <1>1, <1>2, RunsSends
<1> HIDE DEF u
<1>5. /\ flight'[s] = flight[s] \o u
      /\ \A r \in Sockets : r # s => flight'[r] = flight[r]
      /\ flight' \in [Sockets -> Seq(Unit)]
  <2>1. flight[s] \o u \in Seq(Unit)
    BY <1>1, <1>4, ConcatProperties, StreamLemma
  <2> QED BY <1>1, <1>2, <2>1 DEF StreamTypes, u
<1>6. StreamTypes'
  BY <1>1, <1>3, <1>4, <1>5 DEF StreamTypes
<1>7. /\ Stream(s)' = Stream(s) \o u
      /\ \A r \in Sockets : r # s => Stream(r)' = Stream(r)
  <2>1. wire[s] \o (flight[s] \o u) = (wire[s] \o flight[s]) \o u
    <3> DEFINE w == wire[s]
               g == flight[s]
    <3>1. w \in Seq(Unit) /\ g \in Seq(Unit)
      BY <1>1, StreamLemma
    <3> HIDE DEF w, g
    <3>2. w \o (g \o u) = (w \o g) \o u
      BY <1>4, <3>1, ConcatAssociative, SMTT(60)
    <3> QED BY <3>2 DEF w, g
  <2> QED BY <1>3, <1>5, <2>1 DEF Stream
<1>8. \A r \in Sockets :
        Stream(r) \in Seq(Unit) /\ Runs(frames, Stream(r)) /\ Runs(frames', Stream(r))
  BY <1>1, <1>4, StreamLemma DEF HeaderInv, StreamsRun
<1>9. ASSUME NEW w \in Seq(Unit), Runs(frames, w), Complete(frames, w) PROVE Complete(frames', w)
  <2> SUFFICES ASSUME w # << >>
               PROVE  FrameUnits(frames', w[Len(w)].frame) = FrameUnits(frames, w[Len(w)].frame)
    BY <1>9 DEF Complete
  <2>1. Len(w) \in 1..Len(w)
    BY LenProperties, EmptySeq
  <2>2. w[Len(w)].frame \in 1..Len(frames)
    BY <1>1, <1>9, <2>1, RunsLemma
  <2> QED BY <1>4, <2>2 DEF FrameUnits
<1>10. Runs(frames', Stream(s) \o u) /\ Complete(frames', Stream(s) \o u)
  <2>1. Complete(frames, Stream(s))
    BY <1>3 DEF HeaderInv, StreamsRun
  <2>2. Complete(frames', Stream(s))
    BY <1>8, <1>9, <2>1
  <2> QED BY <1>4, <1>8, <2>2, RunsConcat, CompleteConcat
<1>11. StreamsRun'
  <2>1. ASSUME NEW r \in Sockets
        PROVE  /\ Runs(frames', Stream(r)')
               /\ conn'[r] \notin {"reset", "failed"} => Complete(frames', Stream(r)')
    <3>1. CASE r = s
      BY <1>7, <1>10, <3>1
    <3>2. CASE r # s
      BY <1>3, <1>7, <1>8, <1>9, <3>2 DEF HeaderInv, StreamsRun
    <3> QED BY <3>1, <3>2
  <2> QED BY <2>1 DEF StreamsRun
<1>12. ReceiverReads'
  <2>1. thread = "body" => Runs(frames', head) /\ Genuine(frames', head[1])
    BY <1>1, <1>4, GenuineSends DEF HeaderInv, ReceiverReads, StreamTypes
  <2> QED BY <1>3, <2>1 DEF HeaderInv, ReceiverReads
<1>13. HandledGenuine'
  BY <1>1, <1>3, <1>4, GenuineSends DEF HeaderInv, HandledGenuine
<1> QED BY <1>6, <1>11, <1>12, <1>13 DEF HeaderInv

\* A segment arrives: the stream is the same.  A reset cuts it short.
LEMMA HeaderArrives ==
    ASSUME NetInv, HeaderInv, NEW s \in Sockets, Arrive(s) \/ PeerResets(s)
    PROVE  HeaderInv'
<1>1. StreamTypes /\ frames \in Seq(Messages)
  BY DEF HeaderInv, StreamTypes
<1>2. UNCHANGED <<sockfd, pc, frames, thread, head, handled>>
  BY DEF Arrive, PeerResets, callers, receiver
<1>3. /\ wire[s] \in Seq(Unit) /\ flight[s] \in Seq(Unit) /\ Stream(s) \in Seq(Unit)
      /\ Len(wire[s]) \in Nat /\ Len(flight[s]) \in Nat /\ Len(Stream(s)) \in Nat
      /\ Len(wire[s]) <= Len(Stream(s))
      /\ \A i \in 1..Len(wire[s]) : Stream(s)[i] = wire[s][i]
      /\ Runs(frames, Stream(s))
  BY <1>1, StreamLemma DEF HeaderInv, StreamsRun
<1>4. /\ StreamTypes'
      /\ \A r \in Sockets : r # s => Stream(r)' = Stream(r) /\ conn'[r] = conn[r]
      /\ Runs(frames, Stream(s)')
      /\ conn'[s] # "reset" => Stream(s)' = Stream(s) /\ conn'[s] = conn[s]
  <2>1. CASE Arrive(s)
    <3>1. PICK n \in 1..Len(flight[s]) :
            /\ cut' = (cut \/ ~WholeFrames(flight[s], n))
            /\ wire' = [wire EXCEPT ![s] = @ \o SubSeq(flight[s], 1, n)]
            /\ flight' = [flight EXCEPT ![s] = SubSeq(@, n + 1, Len(@))]
      BY <2>1 DEF Arrive
    <3> DEFINE w == wire[s]
               f == flight[s]
               a == SubSeq(f, 1, n)
               b == SubSeq(f, n + 1, Len(f))
    <3>2. a \in Seq(Unit) /\ b \in Seq(Unit) /\ w \in Seq(Unit) /\ f \in Seq(Unit)
      BY <1>3, <3>1, PrefixLemma, SuffixLemma
    <3>3. a \o b = SubSeq(f, 1, Len(f))
      <4>1. 1 \in 1..(Len(f) + 1) /\ n \in (1 - 1)..Len(f) /\ Len(f) \in n..Len(f)
        BY <1>3, <3>1
      <4> QED BY <3>2, <4>1, ConcatAdjacentSubSeq
    <3>4. SubSeq(f, 1, Len(f)) = f
      BY <3>2, SubSeqFull
    <3>5. /\ wire'[s] = w \o a /\ flight'[s] = b
          /\ \A r \in Sockets : r # s => wire'[r] = wire[r] /\ flight'[r] = flight[r]
      BY <1>1, <3>1 DEF StreamTypes
    <3>6. w \o a \in Seq(Unit)
      BY <3>2, ConcatProperties
    <3>7. wire' \in [Sockets -> Seq(Unit)] /\ flight' \in [Sockets -> Seq(Unit)]
      BY <1>1, <3>1, <3>2, <3>6 DEF StreamTypes
    <3>8. cut' \in BOOLEAN /\ conn' = conn
      BY <2>1, <3>1 DEF Arrive
    <3>9. StreamTypes'
      BY <1>1, <1>2, <3>7, <3>8 DEF StreamTypes
    <3> HIDE DEF w, f, a, b
    <3>10. (w \o a) \o b = w \o (a \o b)
      BY <3>2, ConcatAssociative, SMTT(60)
    <3>11. Stream(s)' = Stream(s)
      BY <3>3, <3>4, <3>5, <3>10 DEF Stream, w, f
    <3>12. \A r \in Sockets : r # s => Stream(r)' = Stream(r)
      BY <3>5 DEF Stream
    <3> QED BY <1>3, <3>8, <3>9, <3>11, <3>12
  <2>2. CASE PeerResets(s)
    <3>1. /\ flight' = [flight EXCEPT ![s] = << >>] /\ UNCHANGED <<wire, cut>>
          /\ conn' = [conn EXCEPT ![s] = "reset"] /\ conn[s] \in {"up", "closed"}
      BY <2>2 DEF PeerResets
    <3>2. << >> \in Seq(Unit)
      BY EmptySeq
    <3>3. /\ flight' \in [Sockets -> Seq(Unit)] /\ flight'[s] = << >>
          /\ \A r \in Sockets : r # s => flight'[r] = flight[r]
      BY <1>1, <3>1, <3>2 DEF StreamTypes
    <3>4. StreamTypes'
      BY <1>1, <1>2, <3>1, <3>3 DEF StreamTypes
    <3>5. wire[s] \o << >> = wire[s]
      BY <1>3, ConcatEmptySeq
    <3>6. Stream(s)' = wire[s]
      BY <3>1, <3>3, <3>5 DEF Stream
    <3>7. \A r \in Sockets : r # s => Stream(r)' = Stream(r)
      BY <3>1, <3>3 DEF Stream
    <3>8. Runs(frames, wire[s])
      <4>1. \A i \in 1..Len(wire[s]) : 0 + i \in 1..Len(Stream(s)) /\ wire[s][i] = Stream(s)[0 + i]
        BY <1>3
      <4> QED BY <1>1, <1>3, <4>1, RunsPart
    <3>9. conn'[s] = "reset" /\ \A r \in Sockets : r # s => conn'[r] = conn[r]
      BY <3>1, BoundAssumption DEF NetInv, CallerTypes, Sockets
    <3> QED BY <3>4, <3>6, <3>7, <3>8, <3>9
  <2> QED BY <2>1, <2>2
<1>5. StreamsRun'
  <2>1. ASSUME NEW r \in Sockets
        PROVE  /\ Runs(frames, Stream(r)')
               /\ conn'[r] \notin {"reset", "failed"} => Complete(frames, Stream(r)')
    <3>1. CASE r = s
      BY <1>4, <3>1 DEF HeaderInv, StreamsRun
    <3>2. CASE r # s
      BY <1>4, <3>2 DEF HeaderInv, StreamsRun
    <3> QED BY <3>1, <3>2
  <2> QED BY <1>2, <2>1 DEF StreamsRun
<1>6. ReceiverReads' /\ HandledGenuine'
  BY <1>2 DEF HeaderInv, ReceiverReads, HandledGenuine
<1> QED BY <1>4, <1>5, <1>6 DEF HeaderInv

\* recv takes m units.
LEMMA TakeLemma ==
    ASSUME HeaderInv, sockfd \in Sockets, NEW m \in 0..Len(wire[sockfd]),
           wire' = [wire EXCEPT ![sockfd] = SubSeq(@, m + 1, Len(@))],
           UNCHANGED <<sockfd, conn, frames, flight>>
    PROVE  wire' \in [Sockets -> Seq(Unit)] /\ StreamsRun'
<1> DEFINE s == sockfd
           w == wire[s]
           v == SubSeq(w, m + 1, Len(w))
           f == flight[s]
<1>1. StreamTypes /\ frames \in Seq(Messages)
  BY DEF HeaderInv, StreamTypes
<1>2. /\ w \in Seq(Unit) /\ f \in Seq(Unit) /\ Stream(s) \in Seq(Unit)
      /\ Len(w) \in Nat /\ Len(f) \in Nat /\ Len(Stream(s)) = Len(w) + Len(f)
      /\ \A i \in 1..Len(w) : Stream(s)[i] = w[i]
      /\ \A i \in 1..Len(f) : Stream(s)[Len(w) + i] = f[i]
  BY <1>1, StreamLemma
<1>3. /\ v \in Seq(Unit) /\ Len(v) = Len(w) - m
      /\ \A i \in 1..(Len(w) - m) : v[i] = w[m + i]
  BY <1>2, SuffixLemma
<1>4. /\ wire' \in [Sockets -> Seq(Unit)] /\ wire'[s] = v
      /\ \A r \in Sockets : r # s => wire'[r] = wire[r]
  BY <1>1, <1>3 DEF StreamTypes
<1>5. Stream(s)' = v \o f /\ \A r \in Sockets : r # s => Stream(r)' = Stream(r)
  BY <1>4 DEF Stream
<1> HIDE DEF v, f, w
<1>6. /\ Len(v \o f) = Len(v) + Len(f)
      /\ \A i \in 1..(Len(v) + Len(f)) : (v \o f)[i] = IF i <= Len(v) THEN v[i] ELSE f[i - Len(v)]
  BY <1>2, <1>3, ConcatProperties
<1>7. m \in Nat /\ m <= Len(w)
  BY <1>2 DEF w
<1>8. ASSUME NEW i \in 1..Len(v \o f)
      PROVE  m + i \in 1..Len(Stream(s)) /\ (v \o f)[i] = Stream(s)[m + i]
  <2>1. m + i \in 1..(Len(w) + Len(f))
    BY <1>2, <1>3, <1>6, <1>7
  <2>2. CASE i <= Len(v)
    <3>1. i \in 1..(Len(w) - m) /\ m + i \in 1..Len(w) /\ i \in 1..(Len(v) + Len(f))
      BY <1>2, <1>3, <1>6, <1>7, <2>2
    <3> QED BY <1>2, <1>3, <1>6, <2>1, <2>2, <3>1
  <2>3. CASE ~(i <= Len(v))
    <3>1. /\ i - Len(v) \in 1..Len(f) /\ m + i = Len(w) + (i - Len(v))
          /\ i \in 1..(Len(v) + Len(f))
      BY <1>2, <1>3, <1>6, <1>7, <2>3
    <3> QED BY <1>2, <1>6, <2>1, <2>3, <3>1
  <2> QED BY <2>2, <2>3
<1>9. /\ Len(Stream(s)') \in Nat /\ Len(Stream(s)) \in Nat
      /\ m + Len(Stream(s)') = Len(Stream(s)) /\ Stream(s)' \in Seq(Unit)
  BY <1>2, <1>3, <1>5, <1>6, <1>7, ConcatProperties
<1>10. \A i \in 1..Len(Stream(s)') :
            m + i \in 1..Len(Stream(s)) /\ Stream(s)'[i] = Stream(s)[m + i]
  BY <1>5, <1>8
<1>11. Runs(frames, Stream(s)')
  <2>1. Runs(frames, Stream(s))
    BY DEF HeaderInv, StreamsRun
  <2> QED BY <1>1, <1>2, <1>7, <1>9, <1>10, <2>1, RunsPart
<1>12. ASSUME Complete(frames, Stream(s)) PROVE Complete(frames, Stream(s)')
  <2> SUFFICES ASSUME Stream(s)' # << >>
               PROVE  /\ Stream(s) # << >>
                      /\ Stream(s)'[Len(Stream(s)')] = Stream(s)[Len(Stream(s))]
    BY <1>12 DEF Complete
  <2>1. Len(Stream(s)') \in 1..Len(Stream(s)')
    BY <1>9, EmptySeq
  <2>2. Stream(s)'[Len(Stream(s)')] = Stream(s)[m + Len(Stream(s)')]
    BY <1>10, <2>1
  <2>3. Len(Stream(s)) >= 1
    BY <1>7, <1>9, <2>1
  <2> QED BY <1>9, <2>2, <2>3, EmptySeq
<1>13. StreamsRun'
  <2>1. ASSUME NEW r \in Sockets
        PROVE  /\ Runs(frames', Stream(r)')
               /\ conn'[r] \notin {"reset", "failed"} => Complete(frames', Stream(r)')
    <3>1. CASE r = s
      BY <1>11, <1>12, <3>1 DEF HeaderInv, StreamsRun
    <3>2. CASE r # s
      BY <1>5, <3>2 DEF HeaderInv, StreamsRun
    <3> QED BY <3>1, <3>2
  <2> QED BY <2>1 DEF StreamsRun
<1> QED BY <1>4, <1>13

\* The receiver takes at most what it asks for, and what it takes begins the stream.
LEMMA RecvLemma ==
    ASSUME HeaderInv, sockfd \in Sockets, NEW n \in Nat, Take(n)
    PROVE  \E m \in 0..Len(wire[sockfd]) :
            /\ m = Least(n, Len(wire[sockfd]))
            /\ wire' = [wire EXCEPT ![sockfd] = SubSeq(@, m + 1, Len(@))]
            /\ Received(n) = SubSeq(wire[sockfd], 1, m)
            /\ Received(n) \in Seq(Unit) /\ Len(Received(n)) = m
            /\ \A i \in 1..m : /\ Received(n)[i] = wire[sockfd][i]
                               /\ Received(n)[i] = Stream(sockfd)[i]
                               /\ i \in 1..Len(Stream(sockfd))
<1> DEFINE s == sockfd
           w == wire[s]
           m == Least(n, Len(w))
<1>1. /\ w \in Seq(Unit) /\ Len(w) \in Nat /\ Len(w) <= Len(Stream(s)) /\ Len(Stream(s)) \in Nat
      /\ \A i \in 1..Len(w) : Stream(s)[i] = w[i]
  BY StreamLemma DEF HeaderInv
<1> HIDE DEF w
<1>2. m \in 0..Len(w)
  BY <1>1 DEF Least
<1>3. /\ wire' = [wire EXCEPT ![s] = SubSeq(@, m + 1, Len(@))]
      /\ Received(n) = SubSeq(w, 1, m)
  BY DEF Take, Received, w
<1> HIDE DEF m
<1>4. /\ SubSeq(w, 1, m) \in Seq(Unit) /\ Len(SubSeq(w, 1, m)) = m
      /\ \A i \in 1..m : SubSeq(w, 1, m)[i] = w[i]
  BY <1>1, <1>2, PrefixLemma
<1>5. \A i \in 1..m : i \in 1..Len(w) /\ i \in 1..Len(Stream(s))
  BY <1>1, <1>2
<1> QED BY <1>1, <1>2, <1>3, <1>4, <1>5 DEF w, m

\* The first recv: what it takes for a header is one, or in a CMD_CONNECT.
LEMMA HeaderRecvHead ==
    ASSUME HeaderInv, RecvHead
    PROVE  HeaderInv'
<1> DEFINE s == sockfd
           got == Received(HeadUnits)
<1>1. /\ StreamTypes /\ s \in Sockets /\ thread = "head" /\ HeadUnits \in Nat /\ Take(HeadUnits)
      /\ UNCHANGED <<sockfd, pc, conn, frames, flight, cut, handled>>
      /\ IF HeadMatches(got) THEN thread' = "body" /\ head' = got
         ELSE UNCHANGED <<thread, head>>
  BY UnitCounts DEF HeaderInv, ReceiverReads, RecvHead, callers, server
<1>2. PICK m \in 0..Len(wire[s]) :
        /\ wire' = [wire EXCEPT ![s] = SubSeq(@, m + 1, Len(@))]
        /\ got \in Seq(Unit) /\ Len(got) = m
        /\ \A i \in 1..m : got[i] = Stream(s)[i] /\ i \in 1..Len(Stream(s))
  BY <1>1, RecvLemma
<1>3. wire' \in [Sockets -> Seq(Unit)] /\ StreamsRun'
  BY <1>1, <1>2, TakeLemma
<1> HIDE DEF got
<1>4. Runs(frames, got)
  <2>1. frames \in Seq(Messages) /\ Stream(s) \in Seq(Unit) /\ Runs(frames, Stream(s))
    BY <1>1, StreamLemma DEF HeaderInv, StreamTypes, StreamsRun
  <2>2. \A i \in 1..Len(got) : 0 + i \in 1..Len(Stream(s)) /\ got[i] = Stream(s)[0 + i]
    BY <1>2
  <2>3. Len(got) \in Nat
    BY <1>2, LenProperties
  <2> QED BY <2>1, <2>2, <2>3, RunsPart
<1>5. HandledGenuine'
  BY <1>1 DEF HeaderInv, HandledGenuine
<1>6. CASE HeadMatches(got)
  <2>1. thread' = "body" /\ head' = got
    BY <1>1, <1>6
  <2>2. Len(got) = 14 /\ Genuine(frames, got[1])
    BY <1>1, <1>2, <1>4, <1>6, MatchLemma DEF StreamTypes
  <2>3. ReceiverReads'
    BY <1>1, <1>4, <2>1, <2>2 DEF HeaderInv, ReceiverReads
  <2>4. StreamTypes'
    BY <1>1, <1>2, <1>3, <2>1 DEF StreamTypes
  <2> QED BY <1>3, <1>5, <2>3, <2>4 DEF HeaderInv
<1>7. CASE ~HeadMatches(got)
  <2>1. UNCHANGED <<thread, head>>
    BY <1>1, <1>7
  <2>2. ReceiverReads'
    BY <1>1, <2>1 DEF HeaderInv, ReceiverReads
  <2>3. StreamTypes'
    BY <1>1, <1>3, <2>1 DEF StreamTypes
  <2> QED BY <1>3, <1>5, <2>2, <2>3 DEF HeaderInv
<1> QED BY <1>6, <1>7

\* The second recv and the call of eg_tcp_main_proc.
LEMMA HeaderRecvBody ==
    ASSUME HeaderInv, RecvBody
    PROVE  HeaderInv'
<1> DEFINE s == sockfd
           h == Handling(Received(BodyUnits(head)))
<1>1. /\ StreamTypes /\ s \in Sockets /\ thread = "body" /\ Take(BodyUnits(head))
      /\ UNCHANGED <<sockfd, pc, conn, frames, flight, cut>>
      /\ thread' = "head" /\ head' = << >> /\ handled' = Append(handled, h)
  BY DEF HeaderInv, ReceiverReads, RecvBody, callers, server
<1>2. /\ frames \in Seq(Messages) /\ handled \in Seq(Handled) /\ Len(handled) \in Nat
      /\ head \in Seq(Unit) /\ Len(head) = 14 /\ Runs(frames, head) /\ Genuine(frames, head[1])
  BY <1>1, LenProperties DEF HeaderInv, ReceiverReads, StreamTypes
<1>3. BodyUnits(head) \in Nat
  BY <1>2, DigitLemma
<1>4. PICK m \in 0..Len(wire[s]) : wire' = [wire EXCEPT ![s] = SubSeq(@, m + 1, Len(@))]
  BY <1>1, <1>3, RecvLemma
<1>5. wire' \in [Sockets -> Seq(Unit)] /\ StreamsRun'
  BY <1>1, <1>4, TakeLemma
<1>6. h \in Handled /\ h.frame = head[1].frame /\ h.part = head[1].part
  <2>1. head[1] \in Unit
    <3>1. 1 \in 1..Len(head)
      BY <1>2
    <3> QED BY <1>2, <3>1, ElementOfSeq
  <2> QED BY <2>1 DEF Handling, Handled, Unit
<1> HIDE DEF h
<1>7. /\ handled' \in Seq(Handled) /\ Len(handled') = Len(handled) + 1
      /\ \A i \in 1..Len(handled) : handled'[i] = handled[i]
      /\ handled'[Len(handled) + 1] = h
  BY <1>1, <1>2, <1>6, AppendProperties
<1>8. StreamTypes'
  <2>1. << >> \in Seq(Unit)
    BY EmptySeq
  <2> QED BY <1>1, <1>5, <1>7, <2>1 DEF StreamTypes
<1>9. ReceiverReads'
  BY <1>1 DEF HeaderInv, ReceiverReads
<1>10. HandledGenuine'
  <2> SUFFICES ASSUME NEW i \in 1..Len(handled') PROVE Genuine(frames, handled'[i])
    BY <1>1 DEF HandledGenuine
  <2>1. i \in 1..Len(handled) \/ i = Len(handled) + 1
    <3> DEFINE n == Len(handled)
    <3>1. n \in Nat /\ i \in 1..(n + 1)
      BY <1>2, <1>7
    <3> HIDE DEF n
    <3>2. i \in 1..n \/ i = n + 1
      BY <3>1
    <3> QED BY <3>2 DEF n
  <2>2. CASE i \in 1..Len(handled)
    BY <1>7, <2>2 DEF HeaderInv, HandledGenuine
  <2>3. CASE i = Len(handled) + 1
    BY <1>2, <1>6, <1>7, <2>3 DEF Genuine
  <2> QED BY <2>1, <2>2, <2>3
<1> QED BY <1>5, <1>8, <1>9, <1>10 DEF HeaderInv

\* recv fails: only the connection and the receiver's place change.
LEMMA HeaderRecvError ==
    ASSUME NetInv, HeaderInv, RecvError
    PROVE  HeaderInv'
<1>1. /\ thread # "none" /\ thread' = "head" /\ head' = << >> /\ conn[sockfd] = "reset"
      /\ UNCHANGED <<sockfd, pc, frames, flight, wire, cut, handled>>
      /\ conn' = [conn EXCEPT ![sockfd] = "failed"]
  BY DEF RecvError, callers, server
<1>2. \A s : Stream(s)' = Stream(s)
  BY <1>1 DEF Stream
<1>3. << >> \in Seq(Unit)
  BY EmptySeq
<1>4. StreamTypes' /\ HandledGenuine'
  BY <1>1, <1>3 DEF HeaderInv, StreamTypes, HandledGenuine
<1>5. \A s \in Sockets : conn[s] \in {"reset", "failed"} => conn'[s] \in {"reset", "failed"}
  BY <1>1, BoundAssumption DEF NetInv, CallerTypes, Sockets
<1>6. StreamsRun'
  BY <1>1, <1>2, <1>5 DEF HeaderInv, StreamsRun
<1>7. ReceiverReads'
  BY <1>1 DEF HeaderInv, ReceiverReads
<1> QED BY <1>4, <1>6, <1>7 DEF HeaderInv

\* Nothing was sent at first.
LEMMA HeaderInit == Init => HeaderInv
<1> SUFFICES ASSUME Init PROVE HeaderInv
  OBVIOUS
<1>1. << >> \in Seq(Unit) /\ << >> \in Seq(Messages) /\ << >> \in Seq(Handled)
      /\ Len(<< >>) = 0
  BY EmptySeq
<1>2. StreamTypes
  BY <1>1 DEF Init, StreamTypes
<1>3. \A s \in Sockets : Stream(s) = << >>
  <2>1. << >> \o << >> = << >>
    BY <1>1, ConcatEmptySeq
  <2> QED BY <2>1 DEF Init, Stream
<1>4. StreamsRun /\ HandledGenuine
  BY <1>1, <1>3 DEF Init, StreamsRun, Runs, Complete, HandledGenuine
<1>5. ReceiverReads
  BY <1>1, CallerAssumption DEF Init, ReceiverReads
<1> QED BY <1>2, <1>4, <1>5 DEF HeaderInv

\* A caller replaces sockfd only when there is no receiver.
LEMMA HeaderCaller ==
    ASSUME NetInv, HeaderInv, Spawn \/ \E p \in Callers : Caller(p)
    PROVE  HeaderInv'
<1> USE CallerAssumption, BoundAssumption
<1>1. CASE Spawn
  <2>1. /\ pc[Main] = "spawn" /\ thread = "none" /\ pc'[Main] \in {"done", "assert"}
        /\ UNCHANGED <<sockfd, conn, frames, flight, wire, cut, head, handled>>
        /\ thread' \in {"none", "head"}
    BY <1>1 DEF Spawn, Goto, server, NetInv, AfterInit, CallerTypes
  <2>2. \A s : Stream(s)' = Stream(s)
    BY <2>1 DEF Stream
  <2>3. StreamTypes' /\ StreamsRun' /\ HandledGenuine'
    BY <2>1, <2>2 DEF HeaderInv, StreamTypes, StreamsRun, HandledGenuine
  <2>4. ReceiverReads'
    BY <2>1 DEF HeaderInv, ReceiverReads
  <2> QED BY <2>3, <2>4 DEF HeaderInv
<1>2. ASSUME NEW p \in Callers, Caller(p) PROVE HeaderInv'
  <2>1. UNCHANGED <<frames, flight, wire, cut, thread, head, handled>>
    BY <1>2 DEF Caller, Socket, Connect, Connected, ConnectFails, SendReconnects, Send,
       SendOn, Sent, SendFails, server, receiver
  <2>2. CASE Socket(p)
    <3>1. thread = "none"
      BY <2>2 DEF Socket, NetInv, CallerTypes, SendersIdle, Disconnected, AfterInit
    <3>2. pc[Main] \in {"connect", "connecting", "spawn"} => p = Main
      BY <2>2 DEF Socket, NetInv, CallerTypes, SendersIdle, Disconnected
    <3>3. pc'[Main] \in {"connect", "connecting", "spawn"} => sockfd' \in Sockets
      BY <2>2, <3>2 DEF Socket, Goto, GiveUp, NetInv, CallerTypes
    <3>4. \A s \in Sockets : conn[s] \in {"reset", "failed"} => conn'[s] = conn[s]
      BY <2>2 DEF Socket, NetInv, CallerTypes, Sockets
    <3> QED BY <2>1, <3>1, <3>3, <3>4, SameStreams
  <2>3. CASE \/ Connect(p) \/ Connected(p) \/ ConnectFails(p) \/ SendReconnects(p)
             \/ Send(p) \/ SendOn(p) \/ Sent(p) \/ SendFails(p)
    <3>1. sockfd' = sockfd
      BY <2>3 DEF Connect, Connected, ConnectFails, SendReconnects, Send, SendOn, Sent, SendFails
    <3>2. pc'[Main] \in {"connect", "connecting", "spawn"} =>
            pc[Main] \in {"connect", "connecting", "spawn"}
      BY <2>3 DEF Connect, Connected, ConnectFails, SendReconnects, Send, SendOn, Sent,
         SendFails, Goto, GiveUp, NetInv, CallerTypes
    <3>3. \A s \in Sockets : conn[s] \in {"reset", "failed"} => conn'[s] = conn[s]
      BY <2>3 DEF Connect, Connected, ConnectFails, SendReconnects, Send, SendOn, Sent,
         SendFails, NetInv, CallerTypes, Sockets
    <3> QED BY <2>1, <3>1, <3>2, <3>3, SameStreams DEF HeaderInv, ReceiverReads
  <2> QED BY <1>2, <2>2, <2>3 DEF Caller
<1> QED BY <1>1, <1>2

\* Every step preserves the invariant.
LEMMA HeaderNext == NetInv /\ HeaderInv /\ [Next]_vars => HeaderInv'
<1> SUFFICES ASSUME NetInv, HeaderInv, [Next]_vars PROVE HeaderInv'
  OBVIOUS
<1>1. CASE Spawn \/ \E p \in Callers : Caller(p)
  BY <1>1, HeaderCaller
<1>2. CASE \E s \in Sockets : ServerSends(s) \/ Arrive(s) \/ PeerResets(s)
  BY <1>2, HeaderSends, HeaderArrives
<1>3. CASE UNCHANGED vars \/ RecvHeadEnd \/ \E s \in Sockets : PeerCloses(s)
  <2>1. UNCHANGED <<sockfd, pc, frames, flight, wire, cut, thread, head, handled>>
    BY <1>3 DEF RecvHeadEnd, PeerCloses, vars, callers, server, receiver
  <2>2. \A s \in Sockets : conn[s] \in {"reset", "failed"} => conn'[s] = conn[s]
    BY <1>3, BoundAssumption DEF RecvHeadEnd, PeerCloses, vars, NetInv, CallerTypes, Sockets
  <2> QED BY <2>1, <2>2, SameStreams DEF HeaderInv, ReceiverReads
<1>4. CASE RecvHead \/ RecvBody \/ RecvError
  BY <1>4, HeaderRecvHead, HeaderRecvBody, HeaderRecvError
<1> QED BY <1>1, <1>2, <1>3, <1>4 DEF Next, Receive

\* However TCP cuts the stream, and for all messages whose data does not contain the
\* magic: what net_thread_entry takes for a header is one, or begins inside the header
\* of a CMD_CONNECT.
THEOREM HeadersCorrect == Spec => []HeadersGenuine
<1>1. HeaderInv => HeadersGenuine
  BY DEF HeaderInv, HandledGenuine, Genuine, HeadersGenuine
<1> QED BY <1>1, NetInit, NetNext, HeaderInit, HeaderNext, PTL DEF Spec

-----------------------------------------------------------------------------
(* Frames *)

\* Nothing is sent on a connection before it is made.
NothingSent ==
    /\ \A s \in Sockets : conn[s] \in {"none", "open"} => wire[s] = << >> /\ flight[s] = << >>
    /\ (\A s \in Sockets : conn[s] \in {"none", "open"}) => frames = << >>

\* The frame that position i of the units belongs to is here up to its last unit,
\* and is followed by the next frame or by nothing.
FrameAt(fs, units, i) ==
    LET f == units[i].frame
        p == units[i].part
        n == FrameUnits(fs, f)
    IN  /\ f \in 1..Len(fs) /\ p \in 1..n
        /\ \A k \in 0..(n - p) :
            i + k <= Len(units) /\ units[i + k] = [frame |-> f, part |-> p + k]
        /\ p = n /\ i < Len(units) => units[i + 1] = [frame |-> f + 1, part |-> 1]

Framed(fs, units) == \A i \in 1..Len(units) : FrameAt(fs, units, i)

\* The unit that the receiver must be given next.
Expected ==
    [frame |-> Len(handled) + 1, part |-> IF thread = "body" THEN 15 ELSE 1]

\* The last frame of which something is on its way, or else has arrived, or else
\* was handled.
LastFrame(s) ==
    IF flight[s] # << >> THEN flight[s][Len(flight[s])].frame
    ELSE IF wire[s] # << >> THEN wire[s][Len(wire[s])].frame
    ELSE Len(handled)

\* As long as no segment has ended inside a frame, the stream continues where the
\* receiver is.
InStep ==
    (net_state = 1 /\ ~cut /\ sockfd \in Sockets) =>
        /\ Framed(frames, wire[sockfd]) /\ Framed(frames, flight[sockfd])
        /\ wire[sockfd] # << >> => wire[sockfd][1] = Expected
        /\ wire[sockfd] = << >> =>
            thread # "body" /\ (flight[sockfd] # << >> => flight[sockfd][1] = Expected)
        /\ (wire[sockfd] # << >> /\ flight[sockfd] # << >>) =>
            flight[sockfd][1] =
                [frame |-> wire[sockfd][Len(wire[sockfd])].frame + 1, part |-> 1]
        /\ conn[sockfd] = "up" => Len(frames) = LastFrame(sockfd)
        /\ thread = "body" => head = Units(Len(handled) + 1, 1, 14)
        /\ InOrder
OrderInv == NothingSent /\ InStep

-----------------------------------------------------------------------------
(* Framed sequences *)

\* What a unit of a framed sequence tells of the units behind it.
LEMMA FramedLemma ==
    ASSUME NEW fs \in Seq(Messages), NEW w \in Seq(Unit), Framed(fs, w), NEW i \in 1..Len(w)
    PROVE  /\ w[i].frame \in 1..Len(fs) /\ w[i].part \in 1..FrameUnits(fs, w[i].frame)
           /\ w[i].frame \in Nat /\ w[i].part \in Nat
           /\ FrameUnits(fs, w[i].frame) \in Nat /\ FrameUnits(fs, w[i].frame) >= 22
           /\ w[i] = [frame |-> w[i].frame, part |-> w[i].part]
           /\ \A k \in 0..(FrameUnits(fs, w[i].frame) - w[i].part) :
                /\ i + k \in 1..Len(w)
                /\ w[i + k] = [frame |-> w[i].frame, part |-> w[i].part + k]
           /\ w[i].part = FrameUnits(fs, w[i].frame) /\ i < Len(w) =>
                w[i + 1] = [frame |-> w[i].frame + 1, part |-> 1]
<1>1. FrameAt(fs, w, i)
  BY DEF Framed
<1>2. /\ w[i].frame \in 1..Len(fs) /\ w[i].part \in 1..FrameUnits(fs, w[i].frame)
      /\ \A k \in 0..(FrameUnits(fs, w[i].frame) - w[i].part) :
                /\ i + k <= Len(w)
                /\ w[i + k] = [frame |-> w[i].frame, part |-> w[i].part + k]
      /\ w[i].part = FrameUnits(fs, w[i].frame) /\ i < Len(w) =>
                w[i + 1] = [frame |-> w[i].frame + 1, part |-> 1]
  BY <1>1 DEF FrameAt
<1>3. w[i] \in Unit /\ Len(w) \in Nat
  BY ElementOfSeq, LenProperties
<1>4. FrameUnits(fs, w[i].frame) \in Nat /\ FrameUnits(fs, w[i].frame) >= 22
  <2>1. fs[w[i].frame] \in Messages
    BY <1>2, ElementOfSeq
  <2> QED BY <2>1, TextLemma DEF FrameUnits
<1>5. ASSUME NEW k \in 0..(FrameUnits(fs, w[i].frame) - w[i].part) PROVE i + k \in 1..Len(w)
  <2>1. i + k <= Len(w)
    BY <1>2
  <2>2. k \in Nat /\ i \in Nat /\ i >= 1
    OBVIOUS
  <2> QED BY <1>3, <2>1, <2>2
<1>6. w[i].frame \in Nat /\ w[i].part \in Nat /\ w[i] = [frame |-> w[i].frame, part |-> w[i].part]
  BY <1>3 DEF Unit
<1> QED BY <1>2, <1>4, <1>5, <1>6

\* What is left of framed units once some were taken is framed.
LEMMA FramedSuffix ==
    ASSUME NEW fs \in Seq(Messages), NEW w \in Seq(Unit), Framed(fs, w), NEW m \in 0..Len(w),
           NEW v, Len(v) = Len(w) - m, \A i \in 1..(Len(w) - m) : v[i] = w[m + i]
    PROVE  Framed(fs, v)
<1> SUFFICES ASSUME NEW i \in 1..Len(v) PROVE FrameAt(fs, v, i)
  BY DEF Framed
<1> DEFINE j == m + i
           f == w[j].frame
           p == w[j].part
           n == FrameUnits(fs, f)
<1>1. Len(w) \in Nat
  BY LenProperties
<1>2. j \in 1..Len(w) /\ v[i] = w[j]
  BY <1>1
<1>3. /\ f \in 1..Len(fs) /\ p \in 1..n /\ n \in Nat /\ p \in Nat
      /\ \A k \in 0..(n - p) : j + k \in 1..Len(w) /\ w[j + k] = [frame |-> f, part |-> p + k]
      /\ p = n /\ j < Len(w) => w[j + 1] = [frame |-> f + 1, part |-> 1]
  BY <1>2, FramedLemma
<1> HIDE DEF f, p, n
<1>4. ASSUME NEW k \in 0..(n - p)
      PROVE  i + k <= Len(v) /\ v[i + k] = [frame |-> f, part |-> p + k]
  <2>1. j + k \in 1..Len(w) /\ w[j + k] = [frame |-> f, part |-> p + k]
    BY <1>3
  <2>2. j + k = m + (i + k) /\ i + k \in 1..(Len(w) - m)
    BY <1>1, <1>3, <2>1
  <2> QED BY <1>1, <2>1, <2>2
<1>5. ASSUME p = n, i < Len(v) PROVE v[i + 1] = [frame |-> f + 1, part |-> 1]
  <2>1. j < Len(w) /\ j + 1 = m + (i + 1) /\ i + 1 \in 1..(Len(w) - m)
    BY <1>1, <1>5
  <2>2. w[j + 1] = [frame |-> f + 1, part |-> 1]
    BY <1>3, <1>5, <2>1
  <2> QED BY <2>1, <2>2
<1>6. v[i].frame = f /\ v[i].part = p /\ FrameUnits(fs, v[i].frame) = n
  BY <1>2 DEF f, p, n
<1> QED BY <1>3, <1>4, <1>5, <1>6 DEF FrameAt

\* So is what comes before the end of a frame.
LEMMA FramedPrefix ==
    ASSUME NEW fs \in Seq(Messages), NEW w \in Seq(Unit), Framed(fs, w), NEW m \in 1..Len(w),
           WholeFrames(w, m),
           NEW v, Len(v) = m, \A i \in 1..m : v[i] = w[i]
    PROVE  Framed(fs, v)
<1> SUFFICES ASSUME NEW i \in 1..Len(v) PROVE FrameAt(fs, v, i)
  BY DEF Framed
<1> DEFINE f == w[i].frame
           p == w[i].part
           n == FrameUnits(fs, f)
<1>1. Len(w) \in Nat
  BY LenProperties
<1>2. i \in 1..Len(w) /\ v[i] = w[i] /\ i \in 1..m
  BY <1>1
<1>3. /\ f \in 1..Len(fs) /\ p \in 1..n /\ n \in Nat /\ p \in Nat
      /\ \A k \in 0..(n - p) : i + k \in 1..Len(w) /\ w[i + k] = [frame |-> f, part |-> p + k]
      /\ p = n /\ i < Len(w) => w[i + 1] = [frame |-> f + 1, part |-> 1]
  BY <1>2, FramedLemma
<1> HIDE DEF f, p, n
<1>4. ASSUME NEW k \in 0..(n - p)
      PROVE  i + k <= Len(v) /\ v[i + k] = [frame |-> f, part |-> p + k]
  <2>1. i + k \in 1..Len(w) /\ w[i + k] = [frame |-> f, part |-> p + k]
    BY <1>3
  <2>2. i + k <= m
    <3> SUFFICES ASSUME i + k > m PROVE FALSE
      BY <1>1, <1>2, <1>3
    <3>1. m # Len(w)
      BY <1>1, <1>2, <1>3, <2>1
    <3>2. w[m + 1].part = 1
      BY <3>1 DEF WholeFrames
    <3>3. m + 1 - i \in 0..(n - p) /\ i + (m + 1 - i) = m + 1 /\ m + 1 - i >= 1
      BY <1>1, <1>2, <1>3
    <3>4. w[i + (m + 1 - i)] = [frame |-> f, part |-> p + (m + 1 - i)]
      BY <1>3, <3>3
    <3>5. w[m + 1].part = p + (m + 1 - i)
      BY <3>3, <3>4
    <3> QED BY <1>3, <3>2, <3>3, <3>5
  <2>3. i + k \in 1..m
    BY <1>1, <1>2, <2>1, <2>2
  <2> QED BY <1>1, <2>1, <2>2, <2>3
<1>5. ASSUME p = n, i < Len(v) PROVE v[i + 1] = [frame |-> f + 1, part |-> 1]
  BY <1>1, <1>2, <1>3, <1>5
<1>6. v[i].frame = f /\ v[i].part = p /\ FrameUnits(fs, v[i].frame) = n
  BY <1>2 DEF f, p, n
<1> QED BY <1>3, <1>4, <1>5, <1>6 DEF FrameAt

\* Framed units may be joined where the next frame begins.
LEMMA FramedConcat ==
    ASSUME NEW fs \in Seq(Messages), NEW v \in Seq(Unit), Framed(fs, v),
           NEW w \in Seq(Unit), Framed(fs, w),
           v # << >> /\ w # << >> => w[1] = [frame |-> v[Len(v)].frame + 1, part |-> 1]
    PROVE  Framed(fs, v \o w)
<1> DEFINE x == v \o w
<1>1. /\ Len(v) \in Nat /\ Len(w) \in Nat /\ Len(x) = Len(v) + Len(w)
      /\ v = << >> => Len(v) = 0
      /\ w = << >> => Len(w) = 0
  BY LenProperties, ConcatProperties, EmptySeq
<1>2. /\ \A i \in 1..Len(v) : x[i] = v[i]
      /\ \A i \in 1..Len(w) : x[Len(v) + i] = w[i]
  <2>1. \A i \in 1..(Len(v) + Len(w)) : x[i] = IF i <= Len(v) THEN v[i] ELSE w[i - Len(v)]
    BY ConcatProperties
  <2>2. \A i \in 1..Len(v) : i \in 1..(Len(v) + Len(w)) /\ i <= Len(v)
    BY <1>1
  <2>3. \A i \in 1..Len(w) : /\ Len(v) + i \in 1..(Len(v) + Len(w))
                             /\ ~(Len(v) + i <= Len(v)) /\ Len(v) + i - Len(v) = i
    BY <1>1
  <2> HIDE DEF x
  <2>4. ASSUME NEW i \in 1..Len(v) PROVE x[i] = v[i]
    BY <2>1, <2>2
  <2>5. ASSUME NEW i \in 1..Len(w) PROVE x[Len(v) + i] = w[i]
    <3>1. /\ Len(v) + i \in 1..(Len(v) + Len(w))
          /\ ~(Len(v) + i <= Len(v)) /\ Len(v) + i - Len(v) = i
      BY <2>3
    <3> QED BY <2>1, <3>1
  <2> QED BY <2>4, <2>5
<1> HIDE DEF x
<1>3. ASSUME NEW i \in 1..Len(v) PROVE FrameAt(fs, x, i)
  <2> DEFINE f == v[i].frame
             p == v[i].part
             n == FrameUnits(fs, f)
  <2>1. /\ f \in 1..Len(fs) /\ p \in 1..n /\ n \in Nat /\ p \in Nat
        /\ \A k \in 0..(n - p) : i + k \in 1..Len(v) /\ v[i + k] = [frame |-> f, part |-> p + k]
        /\ p = n /\ i < Len(v) => v[i + 1] = [frame |-> f + 1, part |-> 1]
    BY <1>3, FramedLemma
  <2>2. x[i] = v[i]
    BY <1>2
  <2>3. x[i].frame = f /\ x[i].part = p /\ FrameUnits(fs, x[i].frame) = n
    BY <2>2
  <2>4. i = Len(v) => v[Len(v)].frame = f
    OBVIOUS
  <2> HIDE DEF f, p, n
  <2>5. \A k \in 0..(n - p) : i + k <= Len(x) /\ x[i + k] = [frame |-> f, part |-> p + k]
    BY <1>1, <1>2, <2>1
  <2>6. ASSUME p = n, i < Len(x) PROVE x[i + 1] = [frame |-> f + 1, part |-> 1]
    <3>1. CASE i < Len(v)
      <4>1. i + 1 \in 1..Len(v)
        BY <1>1, <3>1
      <4> QED BY <1>2, <2>1, <2>6, <3>1, <4>1
    <3>2. CASE i = Len(v)
      <4>1. 1 \in 1..Len(w) /\ v # << >> /\ w # << >>
        BY <1>1, <2>6, <3>2
      <4>2. x[Len(v) + 1] = w[1]
        BY <1>2, <4>1
      <4> QED BY <2>4, <3>2, <4>1, <4>2
    <3> QED BY <1>1, <3>1, <3>2
  <2> QED BY <2>1, <2>3, <2>5, <2>6 DEF FrameAt
<1>4. ASSUME NEW j \in 1..Len(w) PROVE FrameAt(fs, x, Len(v) + j)
  <2> DEFINE f == w[j].frame
             p == w[j].part
             n == FrameUnits(fs, f)
             i == Len(v) + j
  <2>1. /\ f \in 1..Len(fs) /\ p \in 1..n /\ n \in Nat /\ p \in Nat
        /\ \A k \in 0..(n - p) : j + k \in 1..Len(w) /\ w[j + k] = [frame |-> f, part |-> p + k]
        /\ p = n /\ j < Len(w) => w[j + 1] = [frame |-> f + 1, part |-> 1]
    BY <1>4, FramedLemma
  <2>2. x[i] = w[j]
    BY <1>2
  <2>3. x[i].frame = f /\ x[i].part = p /\ FrameUnits(fs, x[i].frame) = n
    BY <2>2
  <2> HIDE DEF f, p, n
  <2>4. ASSUME NEW k \in 0..(n - p)
        PROVE  i + k <= Len(x) /\ x[i + k] = [frame |-> f, part |-> p + k]
    <3>1. j + k \in 1..Len(w) /\ w[j + k] = [frame |-> f, part |-> p + k]
      BY <2>1
    <3>2. k \in Int /\ j \in Int /\ Len(v) \in Int
      BY <1>1, <2>1
    <3>3. i + k = Len(v) + (j + k)
      BY <3>2
    <3>4. x[Len(v) + (j + k)] = w[j + k] /\ Len(v) + (j + k) <= Len(x)
      BY <1>1, <1>2, <3>1
    <3> QED BY <3>1, <3>3, <3>4
  <2>5. ASSUME p = n, i < Len(x) PROVE x[i + 1] = [frame |-> f + 1, part |-> 1]
    <3>1. i + 1 = Len(v) + (j + 1) /\ j + 1 \in 1..Len(w) /\ j < Len(w)
      <4>1. j \in Nat /\ j >= 1 /\ j <= Len(w) /\ Len(v) + j < Len(v) + Len(w)
        BY <1>1, <2>5
      <4> QED BY <1>1, <4>1
    <3> QED BY <1>2, <2>1, <2>5, <3>1
  <2> QED BY <2>1, <2>3, <2>4, <2>5 DEF FrameAt
<1>5. ASSUME NEW i \in 1..Len(x) PROVE FrameAt(fs, x, i)
  <2>1. CASE i <= Len(v)
    BY <1>1, <1>3, <2>1
  <2>2. CASE i > Len(v)
    <3>1. i - Len(v) \in 1..Len(w) /\ Len(v) + (i - Len(v)) = i
      BY <1>1, <2>2
    <3>2. FrameAt(fs, x, Len(v) + (i - Len(v)))
      BY <1>4, <3>1
    <3> QED BY <3>1, <3>2
  <2> QED BY <1>1, <2>1, <2>2
<1> QED BY <1>5 DEF Framed, x

\* A frame that the server sends is framed, and leaves framed what it sent before.
LEMMA FramedSends ==
    ASSUME NEW fs \in Seq(Messages), NEW m \in Messages
    PROVE  /\ Framed(Append(fs, m), Units(Len(fs) + 1, 1, Size(m)))
           /\ \A w \in Seq(Unit) : Framed(fs, w) => Framed(Append(fs, m), w)
<1> DEFINE gs == Append(fs, m)
           f == Len(fs) + 1
           n == Size(m)
           u == Units(f, 1, n)
<1>1. /\ gs \in Seq(Messages) /\ Len(gs) = f /\ gs[f] = m /\ Len(fs) \in Nat
      /\ \A g \in 1..Len(fs) : gs[g] = fs[g]
  BY AppendProperties, LenProperties
<1>2. f \in Nat /\ n \in Nat /\ n >= 1 /\ f \in 1..f
  BY <1>1, TextLemma
<1> HIDE DEF gs
<1>3. FrameUnits(gs, f) = n
  BY <1>1 DEF FrameUnits
<1> HIDE DEF n
<1>4. /\ u \in Seq(Unit) /\ Len(u) = n
      /\ \A i \in 1..n : u[i] = [frame |-> f, part |-> i]
  BY <1>2, UnitsLemma
<1> HIDE DEF u, f
<1>5. Framed(gs, u)
  <2> SUFFICES ASSUME NEW i \in 1..n PROVE FrameAt(gs, u, i)
    BY <1>4 DEF Framed
  <2>1. u[i].frame = f /\ u[i].part = i
    BY <1>4
  <2>2. \A k \in 0..(n - i) : i + k \in 1..n
    BY <1>2
  <2>3. \A k \in 0..(n - i) : i + k <= Len(u) /\ u[i + k] = [frame |-> f, part |-> i + k]
    BY <1>2, <1>4, <2>2
  <2> QED BY <1>1, <1>2, <1>3, <1>4, <2>1, <2>3 DEF FrameAt
<1>6. ASSUME NEW w \in Seq(Unit), Framed(fs, w) PROVE Framed(gs, w)
  <2> SUFFICES ASSUME NEW i \in 1..Len(w) PROVE FrameAt(gs, w, i)
    BY DEF Framed
  <2>1. FrameAt(fs, w, i)
    BY <1>6 DEF Framed
  <2>2. w[i].frame \in 1..Len(fs)
    BY <2>1 DEF FrameAt
  <2>3. /\ FrameUnits(gs, w[i].frame) = FrameUnits(fs, w[i].frame)
        /\ w[i].frame \in 1..Len(gs)
    BY <1>1, <2>2 DEF FrameUnits, f
  <2> QED BY <2>1, <2>3 DEF FrameAt
<1> QED BY <1>5, <1>6 DEF gs, u, f, n

-----------------------------------------------------------------------------
(* OrderInv *)

\* The first and the last unit of what has arrived and of what is on its way.
LEMMA EndsLemma ==
    ASSUME NEW w \in Seq(Unit)
    PROVE  /\ Len(w) \in Nat
           /\ w # << >> => Len(w) >= 1 /\ 1 \in 1..Len(w) /\ Len(w) \in 1..Len(w)
           /\ w = << >> => Len(w) = 0
           /\ Len(w) = 0 => w = << >>
  BY EmptySeq, LenProperties

\* Where a receiver is running the client is connected and has one socket.
LEMMA ReceiverSocket ==
    ASSUME NetInv, HeaderInv, OrderInv, thread # "none"
    PROVE  net_state = 1 /\ sockfd \in Sockets
  BY DEF NetInv, CallerTypes, Disconnected, HeaderInv, ReceiverReads

\* A step that leaves the streams, the receiver and the connections alone.
LEMMA SameOrder ==
    ASSUME OrderInv, UNCHANGED <<sockfd, conn, frames, flight, wire, cut, head, handled>>,
           thread' = thread \/ (thread = "none" /\ thread' = "head"),
           net_state' = 1 => net_state = 1
    PROVE  OrderInv'
<1>1. NothingSent'
  BY DEF OrderInv, NothingSent
<1>2. Expected' = Expected /\ (thread' = "body" <=> thread = "body")
  BY DEF Expected
<1>3. InStep'
  BY <1>2 DEF OrderInv, InStep, LastFrame, InOrder
<1> QED BY <1>1, <1>3 DEF OrderInv

\* eg_net_init opens its socket when there is none.
LEMMA OrderSocket ==
    ASSUME NetInv, HeaderInv, OrderInv, NEW p \in Callers, Socket(p)
    PROVE  OrderInv'
<1> USE CallerAssumption, BoundAssumption
<1>1. /\ UNCHANGED <<net_state, frames, flight, wire, cut, thread, head, handled>>
      /\ pc[p] = "socket"
  BY DEF Socket, server, receiver
<1>2. thread = "none" /\ handled = << >>
  BY <1>1 DEF NetInv, CallerTypes, SendersIdle, Disconnected, AfterInit, HeaderInv, ReceiverReads
<1>3. net_state = 1 => p = Main
  BY <1>1 DEF NetInv, SendersIdle
<1>4. /\ sockfd' \in 0..MaxSockets
      /\ \A s \in Sockets : s # sockfd' => conn'[s] = conn[s]
      /\ sockfd' \in Sockets => conn[sockfd'] = "none" /\ conn'[sockfd'] = "open"
  BY DEF Socket, NetInv, CallerTypes, Sockets
<1>5. net_state = 1 => \A s \in Sockets : conn[s] = "none"
  <2>1. \A s \in Sockets : s # 0
    BY DEF Sockets
  <2> QED BY <1>1, <1>3, <2>1 DEF NetInv, OneSocket
<1>6. NothingSent'
  BY <1>1, <1>4 DEF OrderInv, NothingSent
<1>7. InStep'
  <2> SUFFICES ASSUME net_state = 1, sockfd' \in Sockets PROVE InStep'
    BY <1>1 DEF InStep
  <2> DEFINE s == sockfd'
  <2>1. wire'[s] = << >> /\ flight'[s] = << >> /\ conn'[s] # "up"
    BY <1>1, <1>4 DEF OrderInv, NothingSent
  <2>2. Len(<< >>) = 0
    BY EmptySeq
  <2>3. Framed(frames', << >>)
    BY <2>2 DEF Framed
  <2>4. InOrder' /\ thread' = "none"
    BY <1>1, <1>2, <2>2 DEF InOrder
  <2> QED BY <2>1, <2>3, <2>4 DEF InStep
<1> QED BY <1>6, <1>7 DEF OrderInv

\* The connection of eg_net_init begins with nothing sent and nothing handled.
LEMMA OrderConnected ==
    ASSUME NetInv, HeaderInv, OrderInv, NEW p \in Callers, Connected(p)
    PROVE  OrderInv'
<1> USE CallerAssumption, BoundAssumption
<1> DEFINE s == fd[p]
<1>1. /\ UNCHANGED <<sockfd, net_state, frames, flight, wire, cut, thread, head, handled>>
      /\ pc[p] = "connecting" /\ conn[s] = "open" /\ conn' = [conn EXCEPT ![s] = "up"]
  BY DEF Connected, server, receiver
<1>2. /\ s \in Sockets /\ conn'[s] = "up"
      /\ \A r \in Sockets : r # s => conn'[r] = conn[r]
  BY <1>1 DEF NetInv, CallerTypes, Sockets
<1>3. net_state = 1 => p = Main /\ s = sockfd
  BY <1>1, <1>2 DEF NetInv, SendersIdle, OneSocket
<1>4. NothingSent'
  BY <1>1, <1>2 DEF OrderInv, NothingSent
<1>5. InStep'
  <2> SUFFICES ASSUME net_state = 1, ~cut PROVE InStep'
    BY <1>1 DEF InStep
  <2>1. s = sockfd /\ pc[Main] = "connecting" /\ thread = "none" /\ handled = << >>
    BY <1>1, <1>3 DEF NetInv, AfterInit, HeaderInv, ReceiverReads
  <2>2. wire[s] = << >> /\ flight[s] = << >> /\ frames = << >>
    BY <1>1, <1>2, <2>1 DEF NetInv, OneSocket, OrderInv, NothingSent
  <2>3. Len(frames') = LastFrame(sockfd)'
    BY <1>1, <2>1, <2>2 DEF LastFrame
  <2> QED BY <1>1, <1>2, <2>1, <2>2, <2>3 DEF OrderInv, InStep, Expected, InOrder
<1> QED BY <1>4, <1>5 DEF OrderInv

\* The frame that the server sends follows the last one.
LEMMA OrderSends ==
    ASSUME NetInv, HeaderInv, OrderInv, NEW s \in Sockets, ServerSends(s)
    PROVE  OrderInv'
<1> USE BoundAssumption
<1> DEFINE w == wire[s]
           f == flight[s]
<1>1. StreamTypes /\ frames \in Seq(Messages) /\ Len(frames) \in Nat
      /\ w \in Seq(Unit) /\ f \in Seq(Unit)
  BY LenProperties, StreamLemma DEF HeaderInv, StreamTypes
<1>2. PICK m \in Messages :
        /\ frames' = Append(frames, m)
        /\ flight' = [flight EXCEPT ![s] = @ \o Units(Len(frames) + 1, 1, Size(m))]
  BY DEF ServerSends
<1> DEFINE n == Size(m)
           u == Units(Len(frames) + 1, 1, n)
<1>3. /\ UNCHANGED <<sockfd, net_state, pc, conn, wire, cut, thread, head, handled>>
      /\ conn[s] = "up"
  BY DEF ServerSends, callers, receiver
<1>4. n \in Nat /\ n >= 1 /\ Len(frames) + 1 \in Nat
  BY <1>1, TextLemma
<1>5. /\ u \in Seq(Unit) /\ Len(u) = n
      /\ \A i \in 1..n : u[i] = [frame |-> Len(frames) + 1, part |-> i]
  <2> HIDE DEF n
  <2> QED BY <1>4, UnitsLemma
<1>6. Len(frames') = Len(frames) + 1 /\ frames' \in Seq(Messages)
  BY <1>1, <1>2, <1>3, AppendProperties
<1>7. /\ Framed(frames', u)
      /\ \A x \in Seq(Unit) : Framed(frames, x) => Framed(frames', x)
  BY <1>1, <1>2, <1>3, FramedSends
<1>8. flight'[s] = f \o u /\ \A r \in Sockets : r # s => flight'[r] = flight[r]
  BY <1>1, <1>2 DEF StreamTypes
<1> HIDE DEF u, n
<1>9. NothingSent'
  BY <1>3, <1>8 DEF OrderInv, NothingSent
<1>10. InStep'
  <2> SUFFICES ASSUME net_state = 1, ~cut PROVE InStep'
    BY <1>3 DEF InStep
  <2>1. s = sockfd
    BY <1>3 DEF NetInv, OneSocket
  <2>2. /\ Framed(frames, w) /\ Framed(frames, f)
        /\ w # << >> => w[1] = Expected
        /\ w = << >> => thread # "body" /\ (f # << >> => f[1] = Expected)
        /\ w # << >> /\ f # << >> => f[1] = [frame |-> w[Len(w)].frame + 1, part |-> 1]
        /\ Len(frames) = LastFrame(s)
        /\ thread = "body" => head = Units(Len(handled) + 1, 1, 14)
        /\ InOrder
    BY <1>3, <2>1 DEF OrderInv, InStep
  <2>3. /\ f # << >> => f[Len(f)].frame = Len(frames)
        /\ f = << >> /\ w # << >> => w[Len(w)].frame = Len(frames)
        /\ f = << >> /\ w = << >> => Len(handled) = Len(frames)
    BY <2>2 DEF LastFrame
  <2> HIDE DEF w, f
  <2>4. /\ u[1] = [frame |-> Len(frames) + 1, part |-> 1]
        /\ u[n] = [frame |-> Len(frames) + 1, part |-> n] /\ u # << >>
    BY <1>4, <1>5, EndsLemma
  <2>5. Framed(frames', f \o u)
    BY <1>1, <1>5, <1>6, <1>7, <2>2, <2>3, <2>4, FramedConcat
  <2>6. Framed(frames', w)
    BY <1>1, <1>7, <2>2
  <2>7. /\ f \o u # << >> /\ Len(f \o u) = Len(f) + n
        /\ (f \o u)[1] = IF f = << >> THEN u[1] ELSE f[1]
        /\ (f \o u)[Len(f) + n] = u[n]
    <3>1. /\ Len(f \o u) = Len(f) + n /\ f \o u \in Seq(Unit)
          /\ \A i \in 1..(Len(f) + n) : (f \o u)[i] = IF i <= Len(f) THEN f[i] ELSE u[i - Len(f)]
      BY <1>1, <1>5, ConcatProperties
    <3>2. Len(f) \in Nat /\ (f # << >> <=> Len(f) >= 1)
      BY <1>1, EndsLemma
    <3>3. /\ 1 \in 1..(Len(f) + n) /\ Len(f) + n \in 1..(Len(f) + n)
          /\ ~(Len(f) + n <= Len(f)) /\ Len(f) + n - Len(f) = n
          /\ f = << >> => ~(1 <= Len(f)) /\ 1 - Len(f) = 1
          /\ f # << >> => 1 <= Len(f)
      BY <1>4, <3>2, EmptySeq
    <3>4. f \o u # << >>
      BY <1>4, <3>1, <3>2, EndsLemma
    <3>5. (f \o u)[1] = IF f = << >> THEN u[1] ELSE f[1]
      <4>1. CASE f = << >>
        BY <3>1, <3>3, <4>1
      <4>2. CASE f # << >>
        BY <3>1, <3>3, <4>2
      <4> QED BY <4>1, <4>2
    <3>6. (f \o u)[Len(f) + n] = u[n]
      <4>1. PICK j \in 1..(Len(f) + n) : j = Len(f) + n /\ ~(j <= Len(f)) /\ j - Len(f) = n
        BY <1>4, <3>2
      <4>2. (f \o u)[j] = u[j - Len(f)]
        BY <3>1, <4>1
      <4> QED BY <4>1, <4>2
    <3> QED BY <3>1, <3>4, <3>5, <3>6
  <2>8. wire'[s] = w /\ flight'[s] = f \o u /\ sockfd' = s
    BY <1>3, <1>8, <2>1 DEF w
  <2>9. Expected' = Expected
    BY <1>3 DEF Expected
  <2>10. w = << >> => (f \o u)[1] = Expected
    BY <2>2, <2>3, <2>4, <2>7 DEF Expected
  <2>11. w # << >> => (f \o u)[1] = [frame |-> w[Len(w)].frame + 1, part |-> 1]
    BY <2>2, <2>3, <2>4, <2>7
  <2>12. Len(frames') = LastFrame(sockfd)'
    <3>1. (f \o u)[Len(f \o u)].frame = Len(frames) + 1
      BY <2>4, <2>7
    <3> QED BY <1>6, <2>7, <2>8, <3>1 DEF LastFrame
  <2>13. InOrder'
    BY <1>3, <2>2 DEF InOrder
  <2> QED BY <1>3, <2>2, <2>5, <2>6, <2>8, <2>9, <2>10, <2>11, <2>12, <2>13 DEF InStep
<1> QED BY <1>9, <1>10 DEF OrderInv

\* A segment that ends with a frame arrives.
LEMMA OrderArrives ==
    ASSUME NetInv, HeaderInv, OrderInv, NEW s \in Sockets, Arrive(s)
    PROVE  OrderInv'
<1> DEFINE w == wire[s]
           f == flight[s]
<1>1. StreamTypes /\ frames \in Seq(Messages) /\ w \in Seq(Unit) /\ f \in Seq(Unit)
  BY StreamLemma DEF HeaderInv, StreamTypes
<1>2. PICK n \in 1..Len(f) :
        /\ cut' = (cut \/ ~WholeFrames(f, n))
        /\ wire' = [wire EXCEPT ![s] = @ \o SubSeq(f, 1, n)]
        /\ flight' = [flight EXCEPT ![s] = SubSeq(@, n + 1, Len(@))]
  BY DEF Arrive
<1> DEFINE a == SubSeq(f, 1, n)
           b == SubSeq(f, n + 1, Len(f))
<1>3. UNCHANGED <<sockfd, net_state, pc, conn, frames, thread, head, handled>>
  BY DEF Arrive, callers, receiver
<1>4. /\ wire'[s] = w \o a /\ flight'[s] = b
      /\ \A r \in Sockets : r # s => wire'[r] = wire[r] /\ flight'[r] = flight[r]
  BY <1>1, <1>2 DEF StreamTypes
<1>5. /\ f # << >> /\ Len(f) \in Nat /\ Len(f) >= 1 /\ n \in 0..Len(f)
  BY <1>1, <1>2, EndsLemma
<1>6. conn[s] \notin {"none", "open"}
  BY <1>5 DEF OrderInv, NothingSent
<1>7. NothingSent'
  BY <1>3, <1>4, <1>6 DEF OrderInv, NothingSent
<1>8. /\ a \in Seq(Unit) /\ Len(a) = n /\ \A i \in 1..n : a[i] = f[i]
      /\ b \in Seq(Unit) /\ Len(b) = Len(f) - n
      /\ \A i \in 1..(Len(f) - n) : b[i] = f[n + i]
  <2> HIDE DEF f
  <2> QED BY <1>1, <1>5, PrefixLemma, SuffixLemma
<1>9. InStep'
  <2> SUFFICES ASSUME net_state = 1, ~cut' PROVE InStep'
    BY <1>3 DEF InStep
  <2>1. s = sockfd /\ ~cut /\ WholeFrames(f, n)
    BY <1>1, <1>2, <1>6 DEF NetInv, OneSocket, StreamTypes
  <2>2. /\ Framed(frames, w) /\ Framed(frames, f)
        /\ w # << >> => w[1] = Expected
        /\ w = << >> => thread # "body" /\ f[1] = Expected
        /\ w # << >> => f[1] = [frame |-> w[Len(w)].frame + 1, part |-> 1]
        /\ conn[s] = "up" => Len(frames) = f[Len(f)].frame
        /\ thread = "body" => head = Units(Len(handled) + 1, 1, 14)
        /\ InOrder
    BY <1>5, <2>1 DEF OrderInv, InStep, LastFrame
  <2>3. wire'[sockfd'] = w \o a /\ flight'[sockfd'] = b /\ conn'[sockfd'] = conn[s]
    BY <1>3, <1>4, <2>1
  <2> HIDE DEF w, f, a, b
  <2>4. Framed(frames, a) /\ Framed(frames, b)
    BY <1>1, <1>5, <1>8, <2>1, <2>2, FramedPrefix, FramedSuffix
  <2>5. a[1] = f[1] /\ a[n] = f[n] /\ a # << >>
    BY <1>5, <1>8, EndsLemma
  <2>6. Framed(frames, w \o a)
    BY <1>1, <1>8, <2>2, <2>4, <2>5, FramedConcat
  <2>7. /\ Len(w \o a) = Len(w) + n /\ w \o a # << >>
        /\ (w \o a)[1] = IF w = << >> THEN a[1] ELSE w[1]
        /\ (w \o a)[Len(w \o a)] = a[n]
    <3>1. /\ Len(w \o a) = Len(w) + n /\ w \o a \in Seq(Unit)
          /\ \A i \in 1..(Len(w) + n) : (w \o a)[i] = IF i <= Len(w) THEN w[i] ELSE a[i - Len(w)]
      BY <1>1, <1>8, ConcatProperties
    <3>2. Len(w) \in Nat /\ (w # << >> => Len(w) >= 1) /\ (w = << >> => Len(w) = 0)
      BY <1>1, EndsLemma
    <3>3. /\ 1 \in 1..(Len(w) + n)
          /\ w = << >> => ~(1 <= Len(w)) /\ 1 - Len(w) = 1
          /\ w # << >> => 1 <= Len(w)
      BY <1>5, <3>2
    <3>4. w \o a # << >>
      BY <1>5, <3>1, <3>2, EndsLemma
    <3>5. (w \o a)[1] = IF w = << >> THEN a[1] ELSE w[1]
      <4>1. CASE w = << >>
        BY <3>1, <3>3, <4>1
      <4>2. CASE w # << >>
        BY <3>1, <3>3, <4>2
      <4> QED BY <4>1, <4>2
    <3>6. (w \o a)[Len(w) + n] = a[n]
      <4>1. PICK j \in 1..(Len(w) + n) : j = Len(w) + n /\ ~(j <= Len(w)) /\ j - Len(w) = n
        BY <1>5, <3>2
      <4>2. (w \o a)[j] = a[j - Len(w)]
        BY <3>1, <4>1
      <4> QED BY <4>1, <4>2
    <3> QED BY <3>1, <3>4, <3>5, <3>6
  <2>8. (w \o a)[1] = Expected
    BY <2>2, <2>5, <2>7
  <2>9. ASSUME b # << >>
        PROVE  /\ b[1] = [frame |-> f[n].frame + 1, part |-> 1]
               /\ b[Len(b)] = f[Len(f)]
    <3>1. Len(b) >= 1 /\ n < Len(f) /\ n \in 1..Len(f)
      BY <1>5, <1>8, <2>9, EndsLemma
    <3>2. f[n + 1].part = 1
      BY <1>5, <2>1, <3>1 DEF WholeFrames
    <3> DEFINE p == f[n].part
               N == FrameUnits(frames, f[n].frame)
    <3>3. /\ p \in 1..N /\ N \in Nat
          /\ \A k \in 0..(N - p) : f[n + k] = [frame |-> f[n].frame, part |-> p + k]
          /\ p = N => f[n + 1] = [frame |-> f[n].frame + 1, part |-> 1]
      BY <1>1, <2>2, <3>1, FramedLemma
    <3> HIDE DEF p, N
    <3>4. p = N
      <4> SUFFICES ASSUME p # N PROVE FALSE
        OBVIOUS
      <4>1. 1 \in 0..(N - p) /\ p >= 1 /\ p \in Nat
        BY <3>3
      <4>2. f[n + 1] = [frame |-> f[n].frame, part |-> p + 1]
        BY <3>3, <4>1
      <4>3. f[n + 1].part = p + 1
        BY <4>2
      <4> QED BY <3>2, <4>1, <4>3
    <3>5. b[1] = f[n + 1]
      BY <1>5, <1>8, <3>1
    <3>6. b[Len(b)] = f[Len(f)]
      <4>1. PICK j \in 1..(Len(f) - n) : j = Len(b) /\ n + j = Len(f)
        <5>1. Len(b) = Len(f) - n /\ n \in Nat /\ Len(f) \in Nat /\ Len(b) >= 1
          BY <1>5, <1>8, <3>1
        <5> QED BY <5>1
      <4>2. b[j] = f[n + j]
        BY <1>8
      <4> QED BY <4>1, <4>2
    <3> QED BY <3>3, <3>4, <3>5, <3>6
  <2>10. b = << >> => f[n] = f[Len(f)]
    <3> SUFFICES ASSUME b = << >> PROVE n = Len(f)
      OBVIOUS
    <3>1. Len(b) = 0
      BY EmptySeq
    <3> QED BY <1>5, <1>8, <3>1
  <2>11. conn[s] = "up" => Len(frames) = LastFrame(sockfd)'
    BY <2>2, <2>3, <2>5, <2>7, <2>9, <2>10 DEF LastFrame
  <2>12. (b # << >>) =>
            b[1] = [frame |-> (w \o a)[Len(w \o a)].frame + 1, part |-> 1]
    BY <2>5, <2>7, <2>9
  <2>13. Expected' = Expected
    BY <1>3 DEF Expected
  <2>14. InOrder'
    BY <1>3, <2>1, <2>2 DEF InOrder
  <2> QED BY <1>3, <2>2, <2>3, <2>4, <2>6, <2>7, <2>8, <2>11, <2>12, <2>13, <2>14 DEF InStep
<1> QED BY <1>7, <1>9 DEF OrderInv

\* The connection ends.
LEMMA OrderEnds ==
    ASSUME NetInv, HeaderInv, OrderInv, NEW s \in Sockets, PeerCloses(s) \/ PeerResets(s)
    PROVE  OrderInv'
<1>1. /\ UNCHANGED <<sockfd, net_state, pc, frames, wire, cut, thread, head, handled>>
      /\ conn[s] \in {"up", "closed"}
  BY DEF PeerCloses, PeerResets, callers, server, receiver
<1>2. PICK c \in {"closed", "reset"} : conn' = [conn EXCEPT ![s] = c]
  BY DEF PeerCloses, PeerResets
<1>3. /\ conn'[s] \in {"closed", "reset"}
      /\ \A r \in Sockets : r # s => conn'[r] = conn[r]
  BY <1>2 DEF NetInv, CallerTypes, Sockets
<1>4. /\ flight'[s] = flight[s] \/ flight'[s] = << >>
      /\ \A r \in Sockets : r # s => flight'[r] = flight[r]
  BY DEF PeerCloses, PeerResets, server, HeaderInv, StreamTypes
<1>5. NothingSent'
  BY <1>1, <1>3, <1>4 DEF OrderInv, NothingSent
<1>6. InStep'
  <2> SUFFICES ASSUME net_state = 1, ~cut, sockfd \in Sockets PROVE InStep'
    BY <1>1 DEF InStep
  <2>1. s = sockfd
    BY <1>1 DEF NetInv, OneSocket
  <2>2. Framed(frames, << >>)
    <3>1. Len(<< >>) = 0
      BY EmptySeq
    <3> QED BY <3>1 DEF Framed
  <2>3. Framed(frames, flight'[s])
    BY <1>4, <2>1, <2>2 DEF OrderInv, InStep
  <2>4. Expected' = Expected /\ sockfd' = s
    BY <1>1, <2>1 DEF Expected
  <2>5. InOrder'
    BY <1>1 DEF OrderInv, InStep, InOrder
  <2> QED BY <1>1, <1>3, <1>4, <2>1, <2>3, <2>4, <2>5 DEF OrderInv, InStep
<1> QED BY <1>5, <1>6 DEF OrderInv

\* What InStep says of the receiver's stream.
LEMMA InStepFacts ==
    ASSUME InStep, net_state = 1, ~cut, sockfd \in Sockets
    PROVE  LET w == wire[sockfd]
               f == flight[sockfd]
           IN  /\ Framed(frames, w) /\ Framed(frames, f)
               /\ w # << >> => w[1] = Expected
               /\ w = << >> => thread # "body" /\ (f # << >> => f[1] = Expected)
               /\ w # << >> /\ f # << >> =>
                    f[1] = [frame |-> w[Len(w)].frame + 1, part |-> 1]
               /\ conn[sockfd] = "up" => Len(frames) = LastFrame(sockfd)
               /\ thread = "body" => head = Units(Len(handled) + 1, 1, 14)
               /\ \A i \in 1..Len(handled) : handled[i] = [frame |-> i, part |-> 1, whole |-> TRUE]
  BY DEF InStep, InOrder

\* Taking units from one socket leaves the others alone.
LEMMA NothingSentTake ==
    ASSUME HeaderInv, OrderInv, sockfd \in Sockets, NEW v,
           wire[sockfd] # << >> \/ AtEnd,
           wire' = [wire EXCEPT ![sockfd] = v],
           UNCHANGED <<sockfd, conn, frames, flight>>
    PROVE  NothingSent'
<1>1. conn[sockfd] \notin {"none", "open"}
  BY DEF AtEnd, OrderInv, NothingSent
<1>2. \A s \in Sockets : s # sockfd => wire'[s] = wire[s]
  BY DEF HeaderInv, StreamTypes
<1> QED BY <1>1, <1>2 DEF OrderInv, NothingSent

\* The header of a whole frame: it passes the test, and its length is the frame's.
LEMMA WholeHeader ==
    ASSUME frames \in Seq(Messages), NEW f \in 1..Len(frames)
    PROVE  LET u == Units(f, 1, 14)
           IN  /\ u \in Seq(Unit) /\ u[1].frame = f /\ u[1].part = 1
               /\ HeadMatches(u) /\ BodyUnits(u) = Len(frames[f].data) + 8
<1> DEFINE u == Units(f, 1, 14)
           m == frames[f]
           H == Header(m)
<1>1. m \in Messages
  BY ElementOfSeq
<1>2. f \in Nat /\ 14 \in Nat
  OBVIOUS
<1>3. u \in Seq(Unit) /\ Len(u) = 14 /\ \A i \in 1..14 : u[i] = [frame |-> f, part |-> i]
  BY <1>2, UnitsLemma
<1> HIDE DEF u
<1>4. \A i \in 1..14 : u[i].frame = f /\ u[i].part = i
  BY <1>3
<1>5. ASSUME NEW i \in 1..14 PROVE Digit(u[i]) = H[i]
  <2>1. Digit(u[i]) = Text(m)[i]
    BY <1>4 DEF Digit
  <2>2. Text(m)[i] = H[i]
    BY <1>1, TextLemma
  <2> QED BY <2>1, <2>2
<1>6. \A i \in 1..14 : Digit(u[i]) = H[i]
  BY <1>5
<1>7. Len(MSG_HEAD_str) = 8 /\ \A i \in 1..8 : H[i] = MSG_HEAD_str[i]
  BY <1>1, HeaderLemma DEF MSG_HEAD_str
<1>8. HeadMatches(u)
  BY <1>3, <1>6, <1>7, UnitCounts DEF HeadMatches
<1>9. BodyUnits(u) = (4096 * H[11] + 256 * H[12] + 16 * H[13] + H[14]) * 2 + 8
  BY <1>6, UnitCounts DEF BodyUnits, HeadLength
<1>10. BodyUnits(u) = Len(m.data) + 8
  <2>1. \A i \in 1..14 : H[i] \in 0..15
    <3>1. \A i \in 1..14 : i \in 1..Size(m)
      BY <1>1, TextLemma
    <3> QED BY <1>1, <3>1, TextLemma
  <2>2. \A i \in 1..14 : \E d \in 0..15 : d = H[i]
    BY <2>1
  <2> HIDE DEF H
  <2>3. PICK a \in 0..15 : a = H[11]
    BY <2>2
  <2>4. PICK b \in 0..15 : b = H[12]
    BY <2>2
  <2>5. PICK c \in 0..15 : c = H[13]
    BY <2>2
  <2>6. PICK d \in 0..15 : d = H[14]
    BY <2>2
  <2>7. 2 * (4096 * a + 256 * b + 16 * c + d) = Len(m.data)
    <3>1. 2 * (4096 * H[11] + 256 * H[12] + 16 * H[13] + H[14]) = Len(m.data)
      BY <1>1, HeaderLemma DEF H
    <3> QED BY <2>3, <2>4, <2>5, <2>6, <3>1
  <2>8. BodyUnits(u) = (4096 * a + 256 * b + 16 * c + d) * 2 + 8
    BY <1>9, <2>3, <2>4, <2>5, <2>6
  <2>9. (4096 * a + 256 * b + 16 * c + d) * 2 = 2 * (4096 * a + 256 * b + 16 * c + d)
    OBVIOUS
  <2> QED BY <2>7, <2>8, <2>9
<1> QED BY <1>3, <1>4, <1>8, <1>10 DEF u

\* The first recv gets the whole header of the next frame.
LEMMA OrderRecvHead ==
    ASSUME NetInv, HeaderInv, OrderInv, RecvHead
    PROVE  OrderInv'
<1> DEFINE s == sockfd
           w == wire[s]
           f == flight[s]
           got == Received(HeadUnits)
           h == Len(handled) + 1
<1>1. /\ thread = "head" /\ w # << >> /\ HeadUnits = 14 /\ HeadUnits \in Nat /\ Take(HeadUnits)
      /\ UNCHANGED <<sockfd, net_state, pc, conn, frames, flight, cut, handled>>
      /\ IF HeadMatches(got) THEN thread' = "body" /\ head' = got
         ELSE UNCHANGED <<thread, head>>
  BY UnitCounts DEF RecvHead, callers, server
<1>2. /\ net_state = 1 /\ s \in Sockets /\ StreamTypes /\ frames \in Seq(Messages)
      /\ Len(handled) \in Nat
  BY <1>1, ReceiverSocket, LenProperties DEF HeaderInv, StreamTypes
<1>3. w \in Seq(Unit) /\ f \in Seq(Unit) /\ Len(w) \in Nat /\ Len(w) >= 1
  BY <1>1, <1>2, StreamLemma, EndsLemma
<1>4. PICK m \in 0..Len(w) :
        /\ m = Least(HeadUnits, Len(w))
        /\ wire' = [wire EXCEPT ![s] = SubSeq(w, m + 1, Len(w))]
        /\ got \in Seq(Unit) /\ Len(got) = m
        /\ \A i \in 1..m : got[i] = w[i]
  BY <1>1, <1>2, RecvLemma
<1> DEFINE v == SubSeq(w, m + 1, Len(w))
<1>5. NothingSent'
  <2> HIDE DEF w
  <2>1. wire' = [wire EXCEPT ![s] = v]
    BY <1>4
  <2> HIDE DEF v
  <2> QED BY <1>1, <1>2, <2>1, NothingSentTake DEF w
<1>6. wire'[s] = v
  BY <1>2, <1>4 DEF StreamTypes
<1>7. InStep'
  <2> SUFFICES ASSUME ~cut PROVE InStep'
    BY <1>1 DEF InStep
  <2>1. /\ Framed(frames, w) /\ Framed(frames, f) /\ w[1] = [frame |-> h, part |-> 1]
        /\ f # << >> => f[1] = [frame |-> w[Len(w)].frame + 1, part |-> 1]
        /\ conn[s] = "up" =>
            Len(frames) = IF f # << >> THEN f[Len(f)].frame ELSE w[Len(w)].frame
        /\ \A i \in 1..Len(handled) : handled[i] = [frame |-> i, part |-> 1, whole |-> TRUE]
    BY <1>1, <1>2, InStepFacts DEF OrderInv, Expected, LastFrame
  <2> HIDE DEF w, f, got, h
  <2>2. w[1].frame = h /\ w[1].part = 1 /\ 1 \in 1..Len(w)
    BY <1>3, <2>1
  <2>3. /\ h \in 1..Len(frames)
        /\ \A k \in 0..14 : 1 + k \in 1..Len(w) /\ w[1 + k] = [frame |-> h, part |-> 1 + k]
    <3> DEFINE N == FrameUnits(frames, w[1].frame)
    <3>1. /\ N \in Nat /\ N >= 22 /\ w[1].frame \in 1..Len(frames)
          /\ \A k \in 0..(N - w[1].part) :
                /\ 1 + k \in 1..Len(w)
                /\ w[1 + k] = [frame |-> w[1].frame, part |-> w[1].part + k]
      BY <1>2, <1>3, <2>1, <2>2, FramedLemma
    <3> HIDE DEF N
    <3>2. \A k \in 0..14 : k \in 0..(N - w[1].part)
      BY <2>2, <3>1
    <3> QED BY <2>2, <3>1, <3>2
  <2>4. \A i \in 1..15 : i \in 1..Len(w) /\ w[i] = [frame |-> h, part |-> i]
    <3> SUFFICES ASSUME NEW i \in 1..15
                 PROVE  i \in 1..Len(w) /\ w[i] = [frame |-> h, part |-> i]
      OBVIOUS
    <3>1. i - 1 \in 0..14 /\ 1 + (i - 1) = i
      OBVIOUS
    <3> QED BY <2>3, <3>1
  <2>5. m = 14 /\ Len(w) >= 15
    BY <1>1, <1>3, <1>4, <2>4 DEF Least
  <2>6. h \in Nat /\ got = Units(h, 1, 14)
    <3> DEFINE u == Units(h, 1, 14)
    <3>1. h \in Nat /\ 14 \in Nat
      BY <1>2 DEF h
    <3>2. u \in Seq(Unit) /\ Len(u) = 14 /\ \A i \in 1..14 : u[i] = [frame |-> h, part |-> i]
      BY <3>1, UnitsLemma
    <3> HIDE DEF u
    <3>3. Len(got) = Len(u) /\ \A i \in 1..Len(got) : got[i] = u[i]
      <4>1. Len(got) = 14 /\ \A i \in 1..14 : got[i] = w[i]
        BY <1>4, <2>5
      <4>2. \A i \in 1..14 : i \in 1..15
        OBVIOUS
      <4>3. \A i \in 1..14 : w[i] = [frame |-> h, part |-> i]
        BY <2>4, <4>2
      <4> QED BY <3>2, <4>1, <4>3
    <3>4. got = u
      BY <1>4, <3>2, <3>3, SeqEqual
    <3> QED BY <3>1, <3>4 DEF u
  <2>7. HeadMatches(got)
    BY <1>2, <2>3, <2>6, WholeHeader
  <2>8. thread' = "body" /\ head' = Units(h, 1, 14)
    BY <1>1, <2>6, <2>7
  <2>9. /\ v \in Seq(Unit) /\ Len(v) = Len(w) - 14
        /\ \A i \in 1..(Len(w) - 14) : v[i] = w[14 + i]
    BY <1>3, <1>4, <2>5, SuffixLemma
  <2>10. Framed(frames, v)
    <3>1. 14 \in 0..Len(w)
      BY <1>3, <2>5
    <3> HIDE DEF v
    <3> QED BY <1>2, <1>3, <2>1, <2>9, <3>1, FramedSuffix
  <2> HIDE DEF v
  <2>11. v # << >> /\ v[1] = [frame |-> h, part |-> 15]
    BY <1>3, <2>4, <2>5, <2>9, EndsLemma
  <2>12. v[Len(v)] = w[Len(w)]
    <3>1. PICK j \in 1..(Len(w) - 14) : j = Len(v) /\ 14 + j = Len(w)
      BY <1>3, <2>5, <2>9
    <3> QED BY <2>9, <3>1
  <2>13. Expected' = [frame |-> h, part |-> 15] /\ head' = Units(Len(handled') + 1, 1, 14)
    BY <1>1, <2>8 DEF Expected, h
  <2>14. wire'[sockfd'] = v /\ flight'[sockfd'] = f /\ conn'[sockfd'] = conn[s]
    BY <1>1, <1>6 DEF f
  <2>15. conn[s] = "up" => Len(frames') = LastFrame(sockfd)'
    BY <1>1, <2>1, <2>11, <2>12, <2>14 DEF LastFrame
  <2>16. InOrder'
    BY <1>1, <2>1 DEF InOrder
  <2> QED
    BY <1>1, <2>1, <2>8, <2>10, <2>11, <2>12, <2>13, <2>14, <2>15, <2>16 DEF InStep
<1> QED BY <1>5, <1>7 DEF OrderInv

\* The data of a frame with l digits, and its trailer.
LEMMA BodyLemma ==
    ASSUME NEW f \in Nat, NEW l \in Nat
    PROVE  LET u == Units(f, 15, 22 + l)
           IN  /\ u \in Seq(Unit) /\ Len(u) = l + 8
               /\ \A i \in 1..(l + 8) : u[i] = [frame |-> f, part |-> 14 + i]
<1> DEFINE u == Units(f, 15, 22 + l)
<1>1. u = [i \in 1..(l + 8) |-> [frame |-> f, part |-> 14 + i]]
  <2>1. u = [i \in 1..(22 + l + 1 - 15) |-> [frame |-> f, part |-> 15 - 1 + i]]
    BY DEF Units
  <2>2. 22 + l + 1 - 15 = l + 8
    OBVIOUS
  <2>3. \A i \in 1..(l + 8) : [frame |-> f, part |-> 15 - 1 + i] = [frame |-> f, part |-> 14 + i]
    OBVIOUS
  <2> HIDE DEF u
  <2> QED BY <2>1, <2>2, <2>3
<1> HIDE DEF u
<1>2. u \in [1..(l + 8) -> Unit]
  BY <1>1 DEF Unit
<1>3. l + 8 \in Nat
  OBVIOUS
<1>4. u \in Seq(Unit)
  BY <1>2, <1>3, SeqDef
<1>5. Len(u) = l + 8
  BY <1>2, <1>3, <1>4, LenProperties
<1> QED BY <1>1, <1>4, <1>5 DEF u

\* The second recv gets all of the data of the frame, and its trailer.
LEMMA OrderRecvBody ==
    ASSUME NetInv, HeaderInv, OrderInv, RecvBody
    PROVE  OrderInv'
<1> DEFINE s == sockfd
           w == wire[s]
           f == flight[s]
           n == BodyUnits(head)
           got == Received(n)
           h == Len(handled) + 1
           l == Len(frames[h].data)
<1>1. /\ thread = "body" /\ thread' = "head" /\ Take(n) /\ (w # << >> \/ AtEnd)
      /\ UNCHANGED <<sockfd, net_state, pc, conn, frames, flight, cut>>
      /\ handled' = Append(handled, Handling(got))
  BY DEF RecvBody, callers, server
<1>2. /\ net_state = 1 /\ s \in Sockets /\ StreamTypes /\ frames \in Seq(Messages)
      /\ Len(handled) \in Nat /\ handled \in Seq(Handled) /\ h \in Nat
  BY <1>1, ReceiverSocket, LenProperties DEF HeaderInv, StreamTypes
<1>3. w \in Seq(Unit) /\ f \in Seq(Unit) /\ Len(w) \in Nat
  BY <1>1, <1>2, StreamLemma, EndsLemma
<1>4. n \in Nat
  BY <1>1, <1>2, DigitLemma DEF HeaderInv, ReceiverReads, StreamTypes
<1> HIDE DEF n
<1>5. PICK m \in 0..Len(w) :
        /\ m = Least(n, Len(w))
        /\ wire' = [wire EXCEPT ![s] = SubSeq(w, m + 1, Len(w))]
        /\ got \in Seq(Unit) /\ Len(got) = m
        /\ \A i \in 1..m : got[i] = w[i]
  BY <1>1, <1>2, <1>4, RecvLemma
<1> DEFINE v == SubSeq(w, m + 1, Len(w))
<1>6. NothingSent'
  <2> HIDE DEF w
  <2>1. wire' = [wire EXCEPT ![s] = v]
    BY <1>5
  <2> HIDE DEF v
  <2> QED BY <1>1, <1>2, <2>1, NothingSentTake DEF w
<1>7. wire'[s] = v
  BY <1>2, <1>5 DEF StreamTypes
<1>8. InStep'
  <2> SUFFICES ASSUME ~cut PROVE InStep'
    BY <1>1 DEF InStep
  <2>1. /\ Framed(frames, w) /\ Framed(frames, f)
        /\ w # << >> /\ w[1] = [frame |-> h, part |-> 15]
        /\ f # << >> => f[1] = [frame |-> w[Len(w)].frame + 1, part |-> 1]
        /\ conn[s] = "up" =>
            Len(frames) = IF f # << >> THEN f[Len(f)].frame ELSE w[Len(w)].frame
        /\ head = Units(h, 1, 14)
        /\ \A i \in 1..Len(handled) : handled[i] = [frame |-> i, part |-> 1, whole |-> TRUE]
    BY <1>1, <1>2, InStepFacts DEF OrderInv, Expected, LastFrame
  <2>2. w[1].frame = h /\ w[1].part = 15 /\ 1 \in 1..Len(w)
    BY <1>3, <2>1, EndsLemma
  <2>3. h \in 1..Len(frames)
    <3> HIDE DEF w, h
    <3>1. w[1].frame \in 1..Len(frames)
      BY <1>2, <1>3, <2>1, <2>2, FramedLemma
    <3> QED BY <2>2, <3>1
  <2>4. l \in Nat /\ Size(frames[h]) = 22 + l
    <3>1. frames[h] \in Messages
      BY <1>2, <2>3, ElementOfSeq
    <3> QED BY <3>1, TextLemma
  <2>5. n = l + 8 /\ head[1].frame = h /\ head[1].part = 1
    <3> HIDE DEF h
    <3> QED BY <1>2, <2>1, <2>3, WholeHeader DEF n
  <2>6. FrameUnits(frames, h) = 22 + l
    BY <2>4 DEF FrameUnits
  <2> HIDE DEF w, f, got, l, h
  <2>7. \A k \in 0..(l + 7) : 1 + k \in 1..Len(w) /\ w[1 + k] = [frame |-> h, part |-> 15 + k]
    <3>1. \A k \in 0..(FrameUnits(frames, w[1].frame) - w[1].part) :
            /\ 1 + k \in 1..Len(w)
            /\ w[1 + k] = [frame |-> w[1].frame, part |-> w[1].part + k]
      BY <1>2, <1>3, <2>1, <2>2, FramedLemma
    <3>2. FrameUnits(frames, w[1].frame) = 22 + l
      BY <2>2, <2>6
    <3>3. FrameUnits(frames, w[1].frame) - w[1].part = l + 7
      <4> HIDE DEF FrameUnits
      <4> QED BY <2>2, <2>4, <3>2
    <3>4. \A k \in 0..(l + 7) :
            /\ 1 + k \in 1..Len(w)
            /\ w[1 + k] = [frame |-> w[1].frame, part |-> w[1].part + k]
      BY <3>1, <3>3
    <3> QED BY <2>2, <3>4
  <2>8. \A i \in 1..(l + 8) : i \in 1..Len(w) /\ w[i] = [frame |-> h, part |-> 14 + i]
    <3> SUFFICES ASSUME NEW i \in 1..(l + 8)
                 PROVE  i \in 1..Len(w) /\ w[i] = [frame |-> h, part |-> 14 + i]
      OBVIOUS
    <3>1. i - 1 \in 0..(l + 7) /\ 1 + (i - 1) = i /\ 15 + (i - 1) = 14 + i
      BY <2>4
    <3> QED BY <2>7, <3>1
  <2>9. m = l + 8 /\ l + 8 \in 1..Len(w) /\ l + 8 \in Nat
    <3>1. l + 8 \in 1..(l + 8)
      BY <2>4
    <3>2. l + 8 \in 1..Len(w)
      BY <2>8, <3>1
    <3> QED BY <1>3, <1>5, <2>4, <2>5, <3>2 DEF Least
  <2>10. got = Units(h, 15, 22 + l)
    <3> DEFINE u == Units(h, 15, 22 + l)
    <3>1. /\ u \in Seq(Unit) /\ Len(u) = l + 8
          /\ \A i \in 1..(l + 8) : u[i] = [frame |-> h, part |-> 14 + i]
      BY <1>2, <2>4, BodyLemma
    <3> HIDE DEF u
    <3>2. Len(got) = Len(u) /\ \A i \in 1..Len(got) : got[i] = u[i]
      BY <1>5, <2>8, <2>9, <3>1
    <3>3. got = u
      BY <1>5, <3>1, <3>2, SeqEqual
    <3> QED BY <3>3 DEF u
  <2>11. Handling(got) = [frame |-> h, part |-> 1, whole |-> TRUE]
    <3>1. /\ HeadUnits = 14 /\ HeadUnits + 1 = 15
          /\ head = Units(h, 1, HeadUnits) /\ got = Units(h, HeadUnits + 1, Size(frames[h]))
      BY <2>1, <2>4, <2>10, UnitCounts
    <3>2. Handling(got) =
            [frame |-> h, part |-> 1,
             whole |-> /\ head = Units(h, 1, HeadUnits)
                       /\ got = Units(h, HeadUnits + 1, Size(frames[h]))]
      BY <2>5 DEF Handling
    <3> QED BY <3>1, <3>2
  <2>12. /\ Len(handled') = Len(handled) + 1
         /\ \A i \in 1..Len(handled) : handled'[i] = handled[i]
         /\ handled'[Len(handled) + 1] = [frame |-> h, part |-> 1, whole |-> TRUE]
    <3>1. [frame |-> h, part |-> 1, whole |-> TRUE] \in Handled
      BY <1>2 DEF Handled
    <3> QED BY <1>1, <1>2, <2>11, <3>1, AppendProperties
  <2>13. InOrder'
    <3> SUFFICES ASSUME NEW i \in 1..Len(handled')
                 PROVE  handled'[i] = [frame |-> i, part |-> 1, whole |-> TRUE]
      BY DEF InOrder
    <3>1. i \in 1..Len(handled) \/ i = Len(handled) + 1
      BY <1>2, <2>12
    <3> QED BY <2>1, <2>12, <3>1 DEF h
  <2>14. /\ v \in Seq(Unit) /\ Len(v) = Len(w) - m
         /\ \A i \in 1..(Len(w) - m) : v[i] = w[m + i]
    BY <1>3, <1>5, SuffixLemma
  <2> HIDE DEF v
  <2>15. Framed(frames, v)
    BY <1>2, <1>3, <1>5, <2>1, <2>14, FramedSuffix
  <2>16. Expected' = [frame |-> h + 1, part |-> 1] /\ Len(handled') = h
    BY <1>1, <2>12 DEF Expected, h
  <2>17. /\ m \in 1..Len(w) /\ w[m].frame = h /\ w[m].part = 22 + l
    <3>1. l + 8 \in 1..(l + 8) /\ 14 + (l + 8) = 22 + l
      BY <2>4
    <3>2. w[l + 8] = [frame |-> h, part |-> 14 + (l + 8)]
      BY <2>8, <3>1
    <3> QED BY <2>9, <3>1, <3>2
  <2>18. ASSUME v # << >>
         PROVE  v[1] = [frame |-> h + 1, part |-> 1] /\ v[Len(v)] = w[Len(w)]
    <3>1. Len(v) >= 1 /\ Len(v) \in Nat
      BY <2>14, <2>18, EndsLemma
    <3>2. m < Len(w) /\ 1 \in 1..(Len(w) - m)
      BY <1>3, <1>5, <2>14, <3>1
    <3>3. w[m + 1] = [frame |-> h + 1, part |-> 1]
      BY <1>2, <1>3, <2>1, <2>6, <2>17, <3>2, FramedLemma
    <3>4. PICK j \in 1..(Len(w) - m) : j = Len(v) /\ m + j = Len(w)
      <4>1. Len(v) = Len(w) - m /\ m \in Nat /\ Len(w) \in Nat /\ Len(v) >= 1
        BY <1>3, <1>5, <2>14, <3>1
      <4> QED BY <4>1
    <3> QED BY <2>14, <3>2, <3>3, <3>4
  <2>19. v = << >> => w[Len(w)].frame = h
    <3> SUFFICES ASSUME v = << >> PROVE m = Len(w)
      BY <2>17
    <3>1. Len(v) = 0
      BY EmptySeq
    <3> QED BY <1>3, <1>5, <2>14, <3>1
  <2>20. wire'[sockfd'] = v /\ flight'[sockfd'] = f /\ conn'[sockfd'] = conn[s]
    BY <1>1, <1>7 DEF f
  <2>21. conn[s] = "up" => Len(frames') = LastFrame(sockfd)'
    BY <1>1, <2>1, <2>16, <2>18, <2>19, <2>20 DEF LastFrame
  <2> QED
    BY <1>1, <2>1, <2>13, <2>15, <2>16, <2>18, <2>19, <2>20, <2>21 DEF InStep
<1> QED BY <1>6, <1>8 DEF OrderInv

\* A recv that fails finds nothing that has arrived, so no frame was begun.
LEMMA OrderRecvError ==
    ASSUME NetInv, HeaderInv, OrderInv, RecvError
    PROVE  OrderInv'
<1>1. /\ thread # "none" /\ thread' = "head" /\ wire[sockfd] = << >> /\ conn[sockfd] = "reset"
      /\ UNCHANGED <<sockfd, net_state, pc, frames, flight, wire, cut, handled>>
      /\ conn' = [conn EXCEPT ![sockfd] = "failed"]
  BY DEF RecvError, callers, server
<1>2. net_state = 1 /\ sockfd \in Sockets
  BY <1>1, ReceiverSocket
<1>3. conn'[sockfd] = "failed" /\ \A s \in Sockets : s # sockfd => conn'[s] = conn[s]
  BY <1>1, <1>2 DEF NetInv, CallerTypes, Sockets
<1>4. NothingSent'
  BY <1>1, <1>2, <1>3 DEF OrderInv, NothingSent
<1>5. InStep'
  <2> SUFFICES ASSUME ~cut PROVE InStep'
    BY <1>1 DEF InStep
  <2>1. thread # "body"
    BY <1>1, <1>2 DEF OrderInv, InStep
  <2>2. Expected' = Expected
    BY <1>1, <2>1 DEF Expected
  <2> QED BY <1>1, <1>2, <1>3, <2>1, <2>2 DEF OrderInv, InStep, InOrder
<1> QED BY <1>4, <1>5 DEF OrderInv

\* Nothing is open at first.
LEMMA OrderInit == Init => OrderInv
<1> SUFFICES ASSUME Init PROVE OrderInv
  OBVIOUS
<1>1. NothingSent
  BY BoundAssumption DEF Init, NothingSent, Sockets
<1>2. InStep
  BY DEF Init, InStep, Sockets
<1> QED BY <1>1, <1>2 DEF OrderInv

\* Every step preserves the invariant.
LEMMA OrderNext == NetInv /\ HeaderInv /\ OrderInv /\ [Next]_vars => OrderInv'
<1> SUFFICES ASSUME NetInv, HeaderInv, OrderInv, [Next]_vars PROVE OrderInv'
  OBVIOUS
<1>1. ASSUME NEW p \in Callers, Caller(p) PROVE OrderInv'
  <2>1. CASE \/ Connect(p) \/ ConnectFails(p) \/ SendReconnects(p)
             \/ Send(p) \/ SendOn(p) \/ Sent(p) \/ SendFails(p)
    <3>1. UNCHANGED <<sockfd, conn, frames, flight, wire, cut, thread, head, handled>>
      BY <2>1 DEF Connect, ConnectFails, SendReconnects, Send, SendOn, Sent, SendFails,
         server, receiver
    <3>2. net_state' = 1 => net_state = 1
      BY <2>1 DEF Connect, ConnectFails, SendReconnects, Send, SendOn, Sent, SendFails
    <3> QED BY <3>1, <3>2, SameOrder
  <2> QED BY <1>1, <2>1, OrderSocket, OrderConnected DEF Caller
<1>2. CASE Spawn
  <2>1. /\ thread = "none" /\ thread' \in {"none", "head"}
        /\ UNCHANGED <<sockfd, net_state, conn, frames, flight, wire, cut, head, handled>>
    BY <1>2 DEF Spawn, Goto, server, NetInv, AfterInit, CallerTypes
  <2> QED BY <2>1, SameOrder
<1>3. CASE \E s \in Sockets : ServerSends(s) \/ Arrive(s) \/ PeerCloses(s) \/ PeerResets(s)
  BY <1>3, OrderSends, OrderArrives, OrderEnds
<1>4. CASE UNCHANGED vars \/ RecvHeadEnd
  <2>1. UNCHANGED vars
    BY <1>4 DEF RecvHeadEnd
  <2> QED BY <2>1, SameOrder DEF vars
<1>5. CASE RecvHead \/ RecvBody \/ RecvError
  BY <1>5, OrderRecvHead, OrderRecvBody, OrderRecvError
<1> QED BY <1>1, <1>2, <1>3, <1>4, <1>5 DEF Next, Receive

\* As long as no segment ends inside a frame, eg_tcp_main_proc is called for every
\* frame that the server sends before the connection is lost, in order, once, and
\* with all of its data: for frames of any length, however many arrive at once.
THEOREM FramesInOrder == Spec => []InOrder
<1>1. NetInv /\ HeaderInv /\ OrderInv => InOrder
  <2> SUFFICES ASSUME NetInv, HeaderInv, OrderInv PROVE InOrder
    OBVIOUS
  <2>1. CASE net_state = 1 /\ sockfd \in Sockets
    BY <2>1 DEF OrderInv, InStep, InOrder
  <2>2. CASE thread = "none"
    <3>1. handled = << >> /\ Len(<< >>) = 0
      BY <2>2, EmptySeq DEF HeaderInv, ReceiverReads
    <3> QED BY <3>1 DEF InOrder
  <2> QED BY <2>1, <2>2, ReceiverSocket
<1> QED
  BY <1>1, NetInit, NetNext, HeaderInit, HeaderNext, OrderInit, OrderNext, PTL DEF Spec
=============================================================================

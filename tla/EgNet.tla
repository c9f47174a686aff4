-------------------------------- MODULE EgNet --------------------------------
(***************************************************************************)
(* The TCP client of app/sys/eg_net.c: eg_net_init connects and starts the *)
(* thread that receives, other threads send, and a send that finds the     *)
(* client disconnected reconnects.  sockfd and net_state are globals that  *)
(* no lock protects: each access is a step of its own.                     *)
(*                                                                         *)
(* The stream is a sequence of units, each a character of a frame; the     *)
(* characters are hexadecimal digits.  getByte and array_data are taken to *)
(* be large enough for what is stored in them.                             *)
(***************************************************************************)
EXTENDS Integers, Sequences

CONSTANTS
    Senders,       \* threads that call eg_tcp_send
    Main,          \* the thread that calls eg_net_init
    Messages,      \* what the server may send: a command and the digits of the data
    MaxSockets,    \* bound: sockets that are opened
    MaxFrames      \* bound: frames that the server sends

ASSUME CallerAssumption == Main \notin Senders
ASSUME BoundAssumption == MaxSockets \in Nat /\ MaxFrames \in Nat

\* Two digits for each byte of data, and no more bytes than array_data holds.
ASSUME MessageAssumption ==
    \A m \in Messages :
        /\ m.cmd \in 0..255 /\ m.data \in Seq(0..15)
        /\ \E l \in 0..256 : Len(m.data) = 2 * l

VARIABLES
    sockfd,        \* the global; 0 is no socket
    net_state,     \* the global: 0 after a connect failed
    conn,          \* the state of each socket
    pc,            \* where each caller is
    fd,            \* the socket that each caller's connect works on
    asked,         \* the sockets on which something was sent to the server
    frames,        \* history: the messages that the server sent, each in a frame
    flight,        \* units on their way, per socket
    wire,          \* units that have arrived, per socket
    cut,           \* history: a segment has ended inside a frame
    thread,        \* net_thread_entry: "none", or the recv it is at
    head,          \* the header in getByte, while its body is received
    handled        \* history: the calls of eg_tcp_main_proc

callers == <<sockfd, net_state, pc, fd>>
server == <<frames, flight, cut>>
receiver == <<thread, head, handled>>
vars ==
    <<sockfd, net_state, conn, pc, fd, asked, frames, flight, wire, cut, thread, head, handled>>

Sockets == 1..MaxSockets

-----------------------------------------------------------------------------
(* Frames *)

MSG_HEAD_str == <<0, 1, 0, 1, 0, 1, 0, 1>>
CMD_CONNECT == 1
HeadUnits == Len(MSG_HEAD_str) + 6
TailUnits == 8

\* The magic, the command, and how many bytes of data there are.
Header(m) ==
    LET l == Len(m.data) \div 2
    IN  <<0, 1, 0, 1, 0, 1, 0, 1, m.cmd \div 16, m.cmd % 16,
          l \div 4096, (l \div 256) % 16, (l \div 16) % 16, l % 16>>

\* A frame, with the trailer that every frame written out in eg_net.c has.
Text(m) == (Header(m) \o m.data) \o <<0, 3, 0, 0, 14, 7, 0, 4>>

Size(m) == HeadUnits + Len(m.data) + TailUnits

\* The data is taken not to contain the magic: it is not found anywhere behind the
\* first digit of a command.
ASSUME DataAssumption ==
    \A m \in Messages : \A p \in 10..Size(m) :
        \E i \in 1..8 : p + i - 1 <= Size(m) /\ Text(m)[p + i - 1] # MSG_HEAD_str[i]

Units(f, first, last) == [i \in 1..(last + 1 - first) |-> [frame |-> f, part |-> first - 1 + i]]

Init ==
    /\ sockfd = 0 /\ net_state = 1
    /\ conn = [s \in 0..MaxSockets |-> "none"]
    /\ pc = [p \in Senders \cup {Main} |-> IF p = Main THEN "socket" ELSE "idle"]
    /\ fd = [p \in Senders \cup {Main} |-> 0]
    /\ asked = {}
    /\ frames = << >>
    /\ flight = [s \in Sockets |-> << >>] /\ wire = [s \in Sockets |-> << >>]
    /\ cut = FALSE
    /\ thread = "none" /\ head = << >> /\ handled = << >>

-----------------------------------------------------------------------------
(* Connecting: eg_net_init by Main, reconnect by a sender *)

Goto(p, label) == pc' = [pc EXCEPT ![p] = label]

\* Where a caller goes when it gives up: eg_net_init returns for good, a sender may
\* call eg_tcp_send again.
GiveUp(p) == IF p = Main THEN "done" ELSE "idle"

\* sockfd = socket(...), the lowest socket that was not opened before; none is closed.
Socket(p) ==
    /\ pc[p] = "socket"
    /\ \/ /\ \E s \in Sockets :
                /\ conn[s] = "none"
                /\ \A r \in 1..(s - 1) : conn[r] # "none"
                /\ sockfd' = s
                /\ conn' = [conn EXCEPT ![s] = "open"]
          /\ Goto(p, "connect")
       \/ sockfd' = 0 /\ Goto(p, GiveUp(p)) /\ UNCHANGED conn
    /\ UNCHANGED <<net_state, fd, asked, server, wire, receiver>>

\* connect(sockfd, ...) reads the global, which another caller may have replaced.
Connect(p) ==
    /\ pc[p] = "connect"
    /\ fd' = [fd EXCEPT ![p] = sockfd]
    /\ Goto(p, "connecting")
    /\ UNCHANGED <<sockfd, net_state, conn, asked, server, wire, receiver>>

\* connect succeeds on a socket that is not connected yet.  reconnect leaves
\* net_state alone.
Connected(p) ==
    /\ pc[p] = "connecting"
    /\ conn[fd[p]] = "open"
    /\ conn' = [conn EXCEPT ![fd[p]] = "up"]
    /\ Goto(p, IF p = Main THEN "spawn" ELSE "idle")
    /\ UNCHANGED <<sockfd, net_state, fd, asked, server, wire, receiver>>

\* connect may fail on any socket.
ConnectFails(p) ==
    /\ pc[p] = "connecting"
    /\ net_state' = 0
    /\ Goto(p, GiveUp(p))
    /\ UNCHANGED <<sockfd, conn, fd, asked, server, wire, receiver>>

\* The end of eg_net_init: the receiving thread; or there is none, and the assertion
\* fails or, in a release build, is empty.
Spawn ==
    /\ pc[Main] = "spawn"
    /\ \/ thread' = "head" /\ Goto(Main, "done")
       \/ thread' = "none" /\ \E label \in {"assert", "done"} : Goto(Main, label)
    /\ UNCHANGED <<sockfd, net_state, conn, fd, asked, server, wire, head, handled>>

-----------------------------------------------------------------------------
(* eg_tcp_send *)

SendReconnects(p) ==
    /\ p \in Senders /\ pc[p] = "idle"
    /\ net_state = 0
    /\ Goto(p, "socket")
    /\ UNCHANGED <<sockfd, net_state, conn, fd, asked, server, wire, receiver>>

\* The test of net_state lets the caller send, whatever becomes of net_state.
Send(p) ==
    /\ p \in Senders /\ pc[p] = "idle"
    /\ net_state = 1
    /\ Goto(p, "send")
    /\ UNCHANGED <<sockfd, net_state, conn, fd, asked, server, wire, receiver>>

\* send(sockfd, ...) reads the global.
SendOn(p) ==
    /\ pc[p] = "send"
    /\ fd' = [fd EXCEPT ![p] = sockfd]
    /\ Goto(p, "sending")
    /\ UNCHANGED <<sockfd, net_state, conn, asked, server, wire, receiver>>

Sent(p) ==
    /\ pc[p] = "sending"
    /\ conn[fd[p]] \in {"up", "closed"}
    /\ asked' = asked \cup {fd[p]}
    /\ Goto(p, "idle")
    /\ UNCHANGED <<sockfd, net_state, conn, fd, server, wire, receiver>>

\* Mutant: after a failed send the client is taken to be disconnected.
SendFailsDisconnects(p) ==
    /\ pc[p] = "sending"
    /\ net_state' = 0
    /\ Goto(p, "idle")
    /\ UNCHANGED <<sockfd, conn, fd, asked, server, wire, receiver>>

\* A send may fail on any socket; the caller is told, and that is all.
SendFails(p) ==
    /\ pc[p] = "sending"
    /\ Goto(p, "idle")
    /\ UNCHANGED <<sockfd, net_state, conn, fd, asked, server, wire, receiver>>

-----------------------------------------------------------------------------
(* The server and the network *)

ServerSends(s) ==
    /\ conn[s] = "up" /\ Len(frames) < MaxFrames
    /\ \E m \in Messages :
        /\ frames' = Append(frames, m)
        /\ flight' = [flight EXCEPT ![s] = @ \o Units(Len(frames) + 1, 1, Size(m))]
    /\ UNCHANGED <<callers, conn, asked, wire, cut, receiver>>

\* The first n of the units end with a frame.
WholeFrames(units, n) == n = Len(units) \/ units[n + 1].part = 1

\* A segment arrives; TCP may cut the stream anywhere.
Arrive(s) ==
    /\ \E n \in 1..Len(flight[s]) :
        /\ cut' = (cut \/ ~WholeFrames(flight[s], n))
        /\ wire' = [wire EXCEPT ![s] = @ \o SubSeq(flight[s], 1, n)]
        /\ flight' = [flight EXCEPT ![s] = SubSeq(@, n + 1, Len(@))]
    /\ UNCHANGED <<callers, conn, asked, frames, receiver>>

\* The server closes the connection after what it has sent, or the connection is
\* reset and what has not arrived is lost.
PeerCloses(s) ==
    /\ conn[s] = "up"
    /\ conn' = [conn EXCEPT ![s] = "closed"]
    /\ UNCHANGED <<callers, asked, server, wire, receiver>>

PeerResets(s) ==
    /\ conn[s] \in {"up", "closed"}
    /\ conn' = [conn EXCEPT ![s] = "reset"]
    /\ flight' = [flight EXCEPT ![s] = << >>]
    /\ UNCHANGED <<callers, asked, frames, wire, cut, receiver>>

-----------------------------------------------------------------------------
(* net_thread_entry *)

Least(m, n) == IF m < n THEN m ELSE n

\* recv returns what has arrived, up to what was asked for.
Received(n) == SubSeq(wire[sockfd], 1, Least(n, Len(wire[sockfd])))

Take(n) ==
    wire' = [wire EXCEPT ![sockfd] = SubSeq(@, Least(n, Len(@)) + 1, Len(@))]

\* recv returns 0 at the end of the stream, and after a reset was reported.
AtEnd ==
    /\ wire[sockfd] = << >>
    /\ \/ conn[sockfd] = "closed" /\ flight[sockfd] = << >>
       \/ conn[sockfd] = "failed"

\* The character that a unit stands for.
Digit(unit) == Text(frames[unit.frame])[unit.part]

\* Mutant: the magic is not compared.
HeadAnything(got) == Len(got) = HeadUnits

\* The test of the header: complete, and it begins with the magic.
HeadMatches(got) ==
    Len(got) = HeadUnits /\ \A i \in 1..Len(MSG_HEAD_str) : Digit(got[i]) = MSG_HEAD_str[i]

\* len, as the four digits behind the command say.
HeadLength(got) ==
    4096 * Digit(got[11]) + 256 * Digit(got[12]) + 16 * Digit(got[13]) + Digit(got[14])

\* Mutant: the trailer is left in the stream.
BodyNoTrailer(got) == HeadLength(got) * 2

\* What the second recv asks for.
BodyUnits(got) == HeadLength(got) * 2 + TailUnits

\* The first recv.  A header that does not match is dropped, and the loop goes on
\* with whatever follows it.
RecvHead ==
    /\ thread = "head" /\ wire[sockfd] # << >>
    /\ Take(HeadUnits)
    /\ LET got == Received(HeadUnits) IN
       IF HeadMatches(got)
       THEN thread' = "body" /\ head' = got
       ELSE UNCHANGED <<thread, head>>
    /\ UNCHANGED <<callers, conn, asked, server, handled>>

\* At the end of the stream the loop spins: 0 is not the length of a header.
RecvHeadEnd == thread = "head" /\ AtEnd /\ UNCHANGED vars

\* A call of eg_tcp_main_proc, which changes nothing: where the header began, and
\* whether header and data are those of one frame.
Handling(got) ==
    LET f == head[1].frame
    IN  [frame |-> f, part |-> head[1].part,
         whole |-> /\ head = Units(f, 1, HeadUnits)
                   /\ got = Units(f, HeadUnits + 1, Size(frames[f]))]

\* The second recv and eg_tcp_main_proc: how much was received is not looked at.
\* The loop begins again by clearing getByte.
RecvBody ==
    /\ thread = "body" /\ (wire[sockfd] # << >> \/ AtEnd)
    /\ Take(BodyUnits(head))
    /\ handled' = Append(handled, Handling(Received(BodyUnits(head))))
    /\ thread' = "head" /\ head' = << >>
    /\ UNCHANGED <<callers, conn, asked, server>>

\* Either recv fails, once what has arrived is read: the loop starts again.
RecvError ==
    /\ thread # "none"
    /\ wire[sockfd] = << >> /\ conn[sockfd] = "reset"
    /\ conn' = [conn EXCEPT ![sockfd] = "failed"]
    /\ thread' = "head" /\ head' = << >>
    /\ UNCHANGED <<callers, asked, server, wire, handled>>

-----------------------------------------------------------------------------

Receive == RecvHead \/ RecvHeadEnd \/ RecvBody \/ RecvError

Caller(p) ==
    \/ Socket(p) \/ Connect(p) \/ Connected(p) \/ ConnectFails(p)
    \/ SendReconnects(p) \/ Send(p) \/ SendOn(p) \/ Sent(p) \/ SendFails(p)

Next ==
    \/ \E p \in Senders \cup {Main} : Caller(p)
    \/ Spawn
    \/ \E s \in Sockets : ServerSends(s) \/ Arrive(s) \/ PeerCloses(s) \/ PeerResets(s)
    \/ Receive

Spec == Init /\ [][Next]_vars

\* eg_net_init returns, what was sent arrives or is lost, and the receiver runs.
Fairness ==
    /\ WF_vars(Caller(Main)) /\ WF_vars(Spawn)
    /\ \A s \in Sockets : WF_vars(Arrive(s))
    /\ WF_vars(Receive)

FairSpec == Spec /\ Fairness

-----------------------------------------------------------------------------
(* Properties *)

\* net_thread_entry keeps its connection.  As long as it runs, however init, senders
\* and reconnects have raced, no other socket was ever opened: a header and its body
\* are read from one connection, and whatever was sent to the server went out on that
\* connection, so that the answer is read.  (Without the thread, when eg_net_init has
\* failed, a caller that was past its test of net_state may send on a connection that
\* another one's reconnect has made, and nobody reads the answer.)
AnswersAreRead ==
    thread # "none" =>
        asked \subseteq {sockfd} /\ \A s \in Sockets : conn[s] # "none" => s = sockfd

\* As long as the stream is cut between frames only, eg_tcp_main_proc is called for
\* the frames in the order in which they were sent, each with all of its data, also
\* when several arrive at once and when the connection ends between two of them.
InOrder ==
    ~cut => \A i \in 1..Len(handled) : handled[i] = [frame |-> i, part |-> 1, whole |-> TRUE]

\* However the stream is cut, what net_thread_entry takes for a header is the header of
\* a frame, or else it begins inside the header of a CMD_CONNECT frame, whose command
\* continues the magic: no other frame can be misread, if no data contains the magic.
HeadersGenuine ==
    \A i \in 1..Len(handled) :
        \/ handled[i].part = 1
        \/ handled[i].part \in 2..9 /\ frames[handled[i].frame].cmd = CMD_CONNECT

\* As long as the stream is cut between frames only, every frame is handled at last,
\* unless the connection is reset or eg_net_init could not make the receiver.
AllHandled ==
    \A f \in 1..MaxFrames :
        Len(frames) >= f ~>
            \/ Len(handled) >= f
            \/ cut
            \/ conn[sockfd] \in {"reset", "failed"}
            \/ thread = "none" /\ pc[Main] \in {"assert", "done"}
=============================================================================

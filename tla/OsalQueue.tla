------------------------------ MODULE OsalQueue ------------------------------
(***************************************************************************)
(* The message queues of osal/osal_queue.c over osal/linux/os_core.c.      *)
(*                                                                         *)
(* A queue is a POSIX message queue that is opened by name: mq_open finds   *)
(* the queue that an earlier run of the program made, with its messages    *)
(* and its attributes, because the program never unlinks it.  osal_queue_t *)
(* is only the descriptor and the size that the caller asked for.  Tasks   *)
(* of the program share one such queue and block in it with or without a   *)
(* timeout; signals interrupt them, and the program may crash and be       *)
(* started again.                                                          *)
(***************************************************************************)
EXTENDS Integers, Sequences, FiniteSets

CONSTANTS
    Tasks,         \* threads of the program
    Depth,         \* max_msgs with which the queue is created
    Sizes,         \* msg_size with which it is created; differs between versions
    Lengths,       \* lengths of messages
    Timeouts,      \* timeouts of calls, in ticks
    MaxTime,       \* bound: the clock stops
    MaxSends,      \* bound: calls of osal_queue_send
    MaxCrashes     \* bound: crashes of the program

ASSUME QueueAssumption ==
    /\ Depth \in Nat \ {0} /\ Sizes \subseteq Nat \ {0}
    /\ Lengths \subseteq Nat /\ Timeouts \subseteq Nat
    /\ Tasks \cap {"queue", "application", "lost"} = {}
    /\ MaxTime \in Nat /\ MaxSends \in Nat /\ MaxCrashes \in Nat

VARIABLES
    clock,         \* the clock of the deadlines
    mq,            \* the kernel's queue: mq_msgsize (0: there is none) and messages
    queue,         \* the program's osal_queue_t: its msg_size, or 0 for NULL
    call,          \* the call that each task is in
    crashes,       \* how often the program has crashed
    sent,          \* history: what osal_queue_send has said of each message
    received,      \* history: how often osal_queue_recv has returned each message
    lost           \* history: messages that were taken and never returned

vars == <<clock, mq, queue, call, crashes, sent, received, lost>>

Forever == -1
Ids == 1..MaxSends
Message == [id : Ids, len : Lengths]

\* No message: that of a call that has none.
NoMessage == [id |-> 0, len |-> 0]
Idle == [pc |-> "idle", msg |-> NoMessage, size |-> 0, timeout |-> Forever, deadline |-> Forever]

TypeOK ==
    /\ clock \in 0..MaxTime
    /\ mq \in [msgsize : Sizes \cup {0}, msgs : SUBSET Message]
    /\ queue \in Sizes \cup {0}
    /\ call \in [Tasks -> [pc : {"idle", "send", "sent", "recv", "return"},
                           msg : Message \cup {NoMessage},
                           size : Sizes \cup {0},
                           timeout : Timeouts \cup {Forever},
                           deadline : 0..MaxTime \cup {Forever}]]
    /\ crashes \in 0..MaxCrashes
    /\ sent \in [Ids -> {"unsent", "calling", "SUCCESS", "TIMEOUT", "crashed"}]
    /\ received \in [Ids -> Nat]
    /\ lost \subseteq [msg : Message, why : {"crashed", "empty"}]

Init ==
    /\ clock = 0
    /\ mq = [msgsize |-> 0, msgs |-> {}]
    /\ queue = 0
    /\ call = [t \in Tasks |-> Idle]
    /\ crashes = 0
    /\ sent = [m \in Ids |-> "unsent"]
    /\ received = [m \in Ids |-> 0]
    /\ lost = {}

-----------------------------------------------------------------------------
(* osal_queue_create, osal_queue_delete *)

\* mq_open with O_CREAT and without O_EXCL: a queue of that name is taken as it is.
Opened(size) == IF mq.msgsize = 0 THEN [mq EXCEPT !.msgsize = size] ELSE mq

\* A create that fails frees what it has allocated and changes nothing.
Create ==
    /\ queue = 0
    /\ \E size \in Sizes : queue' = size /\ mq' = Opened(size)
    /\ UNCHANGED <<clock, call, crashes, sent, received, lost>>

\* mq_close: calls in progress keep the kernel's queue, and its messages stay.
Delete ==
    /\ queue # 0
    /\ queue' = 0
    /\ UNCHANGED <<clock, mq, call, crashes, sent, received, lost>>

-----------------------------------------------------------------------------
(* osal_queue_send *)

\* The absolute time up to which a call waits (os_millisec_2_timespec).
Deadline(timeout) == IF timeout = Forever THEN Forever ELSE clock + timeout

Expired(t) == call[t].deadline # Forever /\ clock >= call[t].deadline

Goto(t, c) == call' = [call EXCEPT ![t] = c]

\* The next message; a timeout ends while the clock still runs.
Send(t) ==
    /\ call[t].pc = "idle" /\ queue # 0
    /\ \E m \in Ids, len \in Lengths, timeout \in Timeouts \cup {Forever} :
        /\ sent[m] = "unsent" /\ \A k \in 1..(m - 1) : sent[k] # "unsent"
        /\ Deadline(timeout) <= MaxTime
        /\ Goto(t, [pc |-> "send", msg |-> [id |-> m, len |-> len],
                    size |-> 0, timeout |-> timeout, deadline |-> Deadline(timeout)])
        /\ sent' = [sent EXCEPT ![m] = "calling"]
    /\ UNCHANGED <<clock, mq, queue, crashes, received, lost>>

Fits(t) == call[t].msg.len <= mq.msgsize
Full == Cardinality(mq.msgs) >= Depth

\* The status: whatever the error was, it is a timeout.
SendReturns(t, status) ==
    /\ sent' = [sent EXCEPT ![call[t].msg.id] = status]
    /\ Goto(t, Idle)

\* mq_send or mq_timedsend succeeds.
SendPuts(t) ==
    /\ call[t].pc = "send" /\ Fits(t) /\ ~Full
    /\ mq' = [mq EXCEPT !.msgs = @ \cup {call[t].msg}]
    /\ call' = [call EXCEPT ![t].pc = "sent"]
    /\ UNCHANGED <<clock, queue, crashes, sent, received, lost>>

SendDone(t) ==
    /\ call[t].pc = "sent"
    /\ SendReturns(t, "SUCCESS")
    /\ UNCHANGED <<clock, mq, queue, crashes, received, lost>>

\* EMSGSIZE at once, ETIMEDOUT if the queue is full up to the deadline.
SendFails(t) ==
    /\ call[t].pc = "send"
    /\ ~Fits(t) \/ (Full /\ Expired(t))
    /\ SendReturns(t, "TIMEOUT")
    /\ UNCHANGED <<clock, mq, queue, crashes, received, lost>>

\* A signal ends the wait, with or without a timeout: EINTR is not retried.
SendInterrupted(t) ==
    /\ call[t].pc = "send" /\ Fits(t) /\ Full
    /\ SendReturns(t, "TIMEOUT")
    /\ UNCHANGED <<clock, mq, queue, crashes, received, lost>>

-----------------------------------------------------------------------------
(* osal_queue_recv *)

Recv(t) ==
    /\ call[t].pc = "idle" /\ queue # 0
    /\ \E timeout \in Timeouts \cup {Forever} :
        /\ Deadline(timeout) <= MaxTime
        /\ Goto(t, [pc |-> "recv", msg |-> NoMessage, size |-> queue,
                    timeout |-> timeout, deadline |-> Deadline(timeout)])
    /\ UNCHANGED <<clock, mq, queue, crashes, sent, received, lost>>

\* The buffer may be smaller than the kernel's message size, which is that of the
\* first create.
BufferFits(t) == call[t].size >= mq.msgsize

\* mq_receive or mq_timedreceive succeeds.  Which message comes first depends on the
\* priorities with which they were sent.
RecvTakes(t) ==
    /\ call[t].pc = "recv" /\ BufferFits(t)
    /\ \E m \in mq.msgs :
        /\ mq' = [mq EXCEPT !.msgs = @ \ {m}]
        /\ call' = [call EXCEPT ![t].pc = "return", ![t].msg = m]
    /\ UNCHANGED <<clock, queue, crashes, sent, received, lost>>

\* Mutant: a message of one byte is taken for none.
ReturnedSome(timeout, len) == timeout = Forever \/ len > 1

\* Whether the status is SUCCESS.  With a timeout, a message of no bytes is taken for
\* none although it was received.
Returned(timeout, len) == timeout = Forever \/ len > 0

RecvReturns(t) ==
    /\ call[t].pc = "return"
    /\ IF Returned(call[t].timeout, call[t].msg.len)
       THEN /\ received' = [received EXCEPT ![call[t].msg.id] = @ + 1]
            /\ UNCHANGED lost
       ELSE /\ lost' = lost \cup {[msg |-> call[t].msg, why |-> "empty"]}
            /\ UNCHANGED received
    /\ Goto(t, Idle)
    /\ UNCHANGED <<clock, mq, queue, crashes, sent>>

\* EMSGSIZE at once, ETIMEDOUT if the queue is empty up to the deadline: the status
\* is TIMEOUT, or ERROR_UNDEFINED without a timeout.
RecvFails(t) ==
    /\ call[t].pc = "recv"
    /\ ~BufferFits(t) \/ (mq.msgs = {} /\ Expired(t))
    /\ Goto(t, Idle)
    /\ UNCHANGED <<clock, mq, queue, crashes, sent, received, lost>>

\* Mutant: the time to wait starts again after a signal.
RetryFromNow(t) == clock + call[t].timeout

\* The deadline with which a wait that was interrupted goes on.
RetryDeadline(t) == call[t].deadline

\* A signal ends a wait without a timeout; one with a timeout is taken up again, which
\* fails if the descriptor has been closed meanwhile.
RecvInterrupted(t) ==
    /\ call[t].pc = "recv" /\ BufferFits(t) /\ mq.msgs = {}
    /\ IF call[t].timeout = Forever \/ queue = 0 THEN Goto(t, Idle)
       ELSE call' = [call EXCEPT ![t].deadline = RetryDeadline(t)]
    /\ UNCHANGED <<clock, mq, queue, crashes, sent, received, lost>>

-----------------------------------------------------------------------------
(* The rest of the world *)

\* The program dies; the kernel's queue does not.
Crash ==
    /\ crashes < MaxCrashes
    /\ crashes' = crashes + 1
    /\ queue' = 0
    /\ call' = [t \in Tasks |-> Idle]
    /\ sent' = [m \in Ids |-> IF sent[m] = "calling" THEN "crashed" ELSE sent[m]]
    /\ lost' = lost \cup {[msg |-> call[t].msg, why |-> "crashed"] :
                            t \in {u \in Tasks : call[u].pc = "return"}}
    /\ UNCHANGED <<clock, mq, received>>

Tick == clock < MaxTime /\ clock' = clock + 1
        /\ UNCHANGED <<mq, queue, call, crashes, sent, received, lost>>

\* What a task inside a call does when no signal interrupts it.
Progress(t) ==
    \/ SendPuts(t) \/ SendDone(t) \/ SendFails(t)
    \/ RecvTakes(t) \/ RecvReturns(t) \/ RecvFails(t)

Next ==
    \/ Create \/ Delete \/ Crash \/ Tick
    \/ \E t \in Tasks : Send(t) \/ Recv(t) \/ Progress(t)
                        \/ SendInterrupted(t) \/ RecvInterrupted(t)

Spec == Init /\ [][Next]_vars

\* Tasks inside a call run, and time passes.
FairSpec == Spec /\ WF_vars(Tick) /\ \A t \in Tasks : WF_vars(Progress(t))

-----------------------------------------------------------------------------
(* Properties *)

\* Where message m is: in the kernel's queue, taken by a call that has not returned,
\* returned to the application, or lost.
Places(m) ==
    {p \in {"queue"} : \E k \in mq.msgs : k.id = m}
    \cup {t \in Tasks : call[t].pc = "return" /\ call[t].msg.id = m}
    \cup {p \in {"application"} : received[m] > 0}
    \cup {p \in {"lost"} : \E k \in lost : k.msg.id = m}

\* What may be known of a message by what osal_queue_send has reported of it.
PlacesOf(status, places) ==
    CASE status = "SUCCESS" -> \E p \in places : places = {p}
      [] status \in {"calling", "crashed"} -> \A p, q \in places : p = q
      [] OTHER -> places = {}

\* Whatever is interrupted, deleted, opened again or restarted: a message whose send
\* reported SUCCESS is in exactly one place - it waits in the queue, also for the next
\* run of the program, or was received, once - and one whose send reported a timeout
\* is never received.  It is lost only with a task that died between taking and
\* returning it, or if it has no bytes (os_queue_delete, osal_queue_recv).
ExactlyOnce ==
    /\ \A m \in Ids : received[m] <= 1 /\ PlacesOf(sent[m], Places(m))
    /\ \A k \in lost : k.why = "crashed" \/ k.msg.len = 0

\* A call with a timeout returns, however often it is interrupted, and whether or not
\* the queue is deleted meanwhile (the comment "when msg queue is full, return after
\* timeout", osal_queue.c:71).
TimedCallsReturn ==
    \A t \in Tasks :
        (call[t].pc \in {"send", "recv"} /\ call[t].timeout # Forever) ~> call[t].pc = "idle"
=============================================================================

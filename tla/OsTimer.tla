------------------------------- MODULE OsTimer -------------------------------
(***************************************************************************)
(* The software timer service of osal/linux/os_timer.c, together with the  *)
(* osal_timer_* wrappers of osal/osal_timer.c.                             *)
(*                                                                         *)
(* Application threads (Clients) create, start, stop, change and delete    *)
(* timers.  Every distinct priority has one service thread (a thread_node) *)
(* that sleeps on its condition variable until the head of its timer queue *)
(* is due and then runs the handler of that timer WITHOUT holding          *)
(* __timer_mutex.  A handler may call the API itself.                      *)
(*                                                                         *)
(* Everything done between a lock and the matching unlock of __timer_mutex *)
(* (or the pthread_cond_wait that releases it) is one action.  What the    *)
(* code does outside the mutex is an action of its own: reading the clock  *)
(* in __timer_settime, broadcasting after the unlock, reading              *)
(* timer->event in thread_expire_timer, running the handler, storing       *)
(* *timerid in os_timer_add, and clearing the id variable after a delete.  *)
(*                                                                         *)
(* Milliseconds and timespecs are natural numbers of clock ticks.          *)
(***************************************************************************)
EXTENDS Integers, Sequences, FiniteSets, SequencesExt

CONSTANTS
    TimerMax,     \* TIMER_MAX: slots of __timer_array
    ThreadMax,    \* THREAD_MAXNODES: slots of thread_array
    Clients,      \* application threads; client c owns the id variable id[c]
    Prios,        \* priorities timers are created with
    Periods,      \* values of millisec (> 0; the API refuses others)
    MaxTime,      \* bound: the clock stops here
    ClientOps,    \* the calls an application thread makes
    HandlerOps    \* the calls a timer handler makes on its own timer

Timers == 1..TimerMax
Nodes == 1..ThreadMax
Actors == Clients \cup Nodes
Null == 0

Ops == {"add", "del", "start", "stop", "period", "change"}

ASSUME SizeAssumption ==
    /\ TimerMax \in Nat \ {0}
    /\ ThreadMax \in Nat \ {0}
    /\ MaxTime \in Nat
ASSUME ClientAssumption == Null \notin Clients /\ Clients \cap Nodes = {}
ASSUME PeriodAssumption == Periods \subseteq Nat \ {0}
ASSUME OpsAssumption == ClientOps \subseteq Ops /\ HandlerOps \subseteq Ops \ {"add"}

VARIABLES
    clock,        \* CLOCK_MONOTONIC
    timer,        \* __timer_array
    node,         \* thread_array, with the state of the thread it describes
    timerFree,    \* timer_free_list
    threadFree,   \* thread_free_list
    call,         \* the API call each actor is executing
    id            \* the timer id variable of each client

vars == <<clock, timer, node, timerFree, threadFree, call, id>>

-----------------------------------------------------------------------------
(* Types *)

RefCount == Int   \* an int in the code: nothing there keeps it from going negative

TimerNode == [inuse : {"FREE", "INUSE", "DELETED"}, refcount : RefCount,
              armed : BOOLEAN, thread : Nodes \cup {Null}, interval : Nat,
              expiry : Nat, millisec : Nat, type : {"oneshot", "interval"},
              event : Clients \cup {Null}]

\* pc: "none"      no pthread runs this node
\*     "run"       about to enter the outer loop of thread_func with the mutex
\*     "wait"      in pthread_cond_wait,  "timedwait" in pthread_cond_timedwait
\*     "call"      in thread_expire_timer, mutex released, timer->event not read
\*     "handler"   the handler of client `owner' is running
ThreadNode == [prio : Prios \cup {Null}, queue : Seq(Timers),
               current : Timers \cup {Null},
               pc : {"none", "run", "wait", "timedwait", "call", "handler"},
               now : Nat, deadline : Nat, owner : Clients \cup {Null}]

\* pc names the step an actor is about to take inside its API call, next the
\* step that follows the return of __timer_settime.
Call == [pc : {"idle", "add", "start", "period", "clock", "settime", "wake",
               "store", "delwait", "delwoken", "forget"},
         next : {"idle", "store", "period"}, tid : Timers \cup {Null},
         millisec : Nat, type : {"oneshot", "interval"}, value : Nat,
         interval : Nat, now : Nat, thread : Nodes \cup {Null}]

TypeOK ==
    /\ clock \in 0..MaxTime
    /\ timer \in [Timers -> TimerNode]
    /\ node \in [Nodes -> ThreadNode]
    /\ timerFree \in Seq(Timers)
    /\ threadFree \in Seq(Nodes)
    /\ call \in [Actors -> Call]
    /\ id \in [Clients -> Timers \cup {Null}]

\* Which locals are set at which step of a call.
CallLocals ==
    \A a \in Actors :
        /\ call[a].pc \notin {"idle", "forget"} => call[a].tid \in Timers
        /\ call[a].pc \in {"wake", "delwait", "delwoken"} => call[a].thread \in Nodes

\* Which locals are set at which step of a service thread, and that only a
\* running handler calls the API from it.
ServiceLocals ==
    \A n \in Nodes :
        /\ call[n].pc # "idle" => node[n].pc = "handler"
        /\ node[n].pc \in {"call", "handler"} =>
            node[n].current \in Timers /\ timer[node[n].current].event \in Clients
        /\ node[n].pc = "handler" => node[n].owner \in Clients

\* A timer in use, or on a queue, has a thread and the handler of some client.
HandlersKnown ==
    /\ \A t \in Timers : timer[t].inuse = "INUSE" =>
        timer[t].event \in Clients /\ timer[t].thread \in Nodes
    /\ \A n \in Nodes : \A i \in 1..Len(node[n].queue) :
        timer[node[n].queue[i]].event \in Clients

Distinct(list) == \A i, j \in 1..Len(list) : list[i] = list[j] => i = j

\* The free list of thread nodes holds nodes without a thread, once each.
FreeThreads ==
    /\ Distinct(threadFree)
    /\ \A i \in 1..Len(threadFree) : node[threadFree[i]].pc = "none"

-----------------------------------------------------------------------------
(* Lists *)

\* list_unlink_ip: the list without t, the list itself when t is not on it.
Without(list, t) ==
    IF \E i \in 1..Len(list) : list[i] = t
    THEN RemoveAt(list, CHOOSE i \in 1..Len(list) : list[i] = t)
    ELSE list

\* Mutant: the timer stays linked.
StillLinked(t) == node

\* The thread nodes once t is off whatever timer queue it was on.
Unlinked(t) == [n \in Nodes |-> [node[n] EXCEPT !.queue = Without(@, t)]]

\* Mutant: every timer is appended.
QueueTail(queue, tm, expiry) == Len(queue) + 1

\* The place __timer_thread_queue_timer inserts at: before the first timer
\* that expires strictly later, at the tail when there is none.
QueuePos(queue, tm, expiry) ==
    CHOOSE i \in 1..(Len(queue) + 1) :
        /\ i <= Len(queue) => expiry < tm[queue[i]].expiry
        /\ \A j \in 1..(i - 1) : expiry >= tm[queue[j]].expiry

-----------------------------------------------------------------------------
(* Initial state: init_module, and no call in progress *)

NewTimer == [inuse |-> "FREE", refcount |-> 0, armed |-> FALSE,
             thread |-> Null, interval |-> 0, expiry |-> 0, millisec |-> 0,
             type |-> "interval", event |-> Null]

NewThread == [prio |-> Null, queue |-> << >>, current |-> Null, pc |-> "none",
              now |-> 0, deadline |-> 0, owner |-> Null]

NoCall == [pc |-> "idle", next |-> "idle", tid |-> Null, millisec |-> 0,
           type |-> "interval", value |-> 0, interval |-> 0, now |-> 0,
           thread |-> Null]

Init ==
    /\ clock = 0
    /\ timer = [t \in Timers |-> NewTimer]
    /\ node = [n \in Nodes |-> NewThread]
    /\ timerFree = [i \in Timers |-> i]
    /\ threadFree = [i \in Nodes |-> i]
    /\ call = [a \in Actors |-> NoCall]
    /\ id = [c \in Clients |-> Null]

-----------------------------------------------------------------------------
(* Helpers of the API *)

\* timer_valid
Valid(t) == timer[t].inuse = "INUSE"

\* The client whose timer actor a works on: itself, or the one whose handler
\* node a is running.
Owner(a) == IF a \in Clients THEN a ELSE node[a].owner

\* Actor a begins the call op.  A call with id 0 returns an error at once and
\* changes nothing, so it is not an action.
Calls(a, op) ==
    /\ call[a].pc = "idle"
    /\ \/ a \in Clients /\ op \in ClientOps
       \/ a \in Nodes /\ op \in HandlerOps /\ node[a].pc = "handler"
    /\ id[Owner(a)] # Null

Goto(a, pc) == call' = [call EXCEPT ![a].pc = pc]
Return(a) == call' = [call EXCEPT ![a] = NoCall]

\* Mutants: the broadcast reaches nobody who waits on this condition.
WakeNoNode(ns, n) == ns
WakeNoDeleter(cs, n) == cs

\* pthread_cond_broadcast(&thread->cond) on node n, given the thread nodes ns
\* and the calls cs: the service thread and the deleters waiting there wake up.
WakeNode(ns, n) ==
    [ns EXCEPT ![n].pc = IF @ \in {"wait", "timedwait"} THEN "run" ELSE @]

WakeDeleters(cs, n) ==
    [a \in Actors |->
        IF cs[a].pc = "delwait" /\ cs[a].thread = n
        THEN [cs[a] EXCEPT !.pc = "delwoken"] ELSE cs[a]]

\* __timer_dealloc: the record of a slot that goes back to the free list, and
\* that list.
Dealloc(tm) == [tm EXCEPT !.refcount = 0, !.inuse = "FREE", !.thread = Null]

\* Mutant: the slot is appended without being unlinked first.
AppendNoUnlink(t) == Append(timerFree, t)

FreeList(t) == Append(Without(timerFree, t), t)

-----------------------------------------------------------------------------
(* os_timer_add *)

\* Mutant: a running thread is never found.
MatchNone(p) == {}

\* __timer_thread_find_matching: the active nodes of priority p.
Matching(p) == {n \in Nodes : node[n].pc # "none" /\ node[n].prio = p}

\* The arguments of one call of os_timer_add and the its derived from them.
AddArgs(t, ms, type, stopped) ==
    LET value == IF stopped THEN 0 ELSE ms
    IN  [NoCall EXCEPT !.pc = "add", !.next = "store", !.tid = t,
                       !.millisec = ms, !.type = type, !.value = value,
                       !.interval = IF type = "oneshot" THEN 0 ELSE value]

\* Mutant: the slot stays on the free list.
AllocNoUnlink == UNCHANGED timerFree

\* __timer_alloc takes the first free slot off the list.
AllocTimer == timerFree' = Tail(timerFree)

\* What __timer_create leaves in the slot it hands out.
Created(tm, c, n) ==
    [tm EXCEPT !.inuse = "INUSE", !.refcount = 1, !.event = c,
               !.armed = FALSE, !.thread = n]

\* __timer_create succeeds and the service thread of this priority runs.
CreateOnThread(c, p) ==
    \E n \in Matching(p), ms \in Periods, type \in {"oneshot", "interval"},
       stopped \in BOOLEAN :
        LET t == Head(timerFree) IN
        /\ timer' = [timer EXCEPT ![t] = Created(@, c, n)]
        /\ AllocTimer
        /\ call' = [call EXCEPT ![c] = AddArgs(t, ms, type, stopped)]
        /\ UNCHANGED <<clock, node, threadFree, id>>

\* __timer_create succeeds with a node from the free list: __timer_thread_alloc
\* and __timer_thread_start.
CreateAndSpawn(c, p) ==
    /\ Matching(p) = {}
    /\ threadFree # << >>
    /\ \E ms \in Periods, type \in {"oneshot", "interval"}, stopped \in BOOLEAN :
        LET t == Head(timerFree)
            n == Head(threadFree)
        IN  /\ timer' = [timer EXCEPT ![t] = Created(@, c, n)]
            /\ AllocTimer
            /\ node' = [node EXCEPT ![n] = [NewThread EXCEPT !.prio = p, !.pc = "run"]]
            /\ threadFree' = Tail(threadFree)
            /\ call' = [call EXCEPT ![c] = AddArgs(t, ms, type, stopped)]
            /\ UNCHANGED <<clock, id>>

\* unlock_bail of __timer_create: no node is free, or pthread_create failed and
\* the node goes back to the tail of its list; so does the timer slot.
CreateBails(c, p) ==
    LET t == Head(timerFree) IN
    /\ Matching(p) = {}
    /\ timer' = [timer EXCEPT ![t] = Dealloc([@ EXCEPT !.event = c])]
    /\ timerFree' = Append(Tail(timerFree), t)
    /\ threadFree' = IF threadFree = << >> THEN << >>
                     ELSE Append(Tail(threadFree), Head(threadFree))
    /\ UNCHANGED <<clock, node, call, id>>

\* The first critical section of os_timer_add.  The documentation asks for an
\* unused id variable (note 6).  An exhausted pool returns -1: no change.
Add(c) ==
    /\ call[c].pc = "idle"
    /\ "add" \in ClientOps
    /\ id[c] = Null
    /\ timerFree # << >>
    /\ \E p \in Prios :
        CreateOnThread(c, p) \/ CreateAndSpawn(c, p) \/ CreateBails(c, p)

\* The second one: type and millisec are recorded.
AddRecord(c) ==
    LET t == call[c].tid IN
    /\ call[c].pc = "add"
    /\ IF Valid(t)
       THEN /\ timer' = [timer EXCEPT ![t].type = call[c].type,
                                      ![t].millisec = call[c].millisec]
            /\ Goto(c, "clock")
       ELSE Return(c) /\ UNCHANGED timer
    /\ UNCHANGED <<clock, node, timerFree, threadFree, id>>

\* *timerid = tid, after __timer_settime has returned.
AddStore(c) ==
    /\ call[c].pc = "store"
    /\ id' = [id EXCEPT ![c] = call[c].tid]
    /\ Return(c)
    /\ UNCHANGED <<clock, timer, node, timerFree, threadFree>>

-----------------------------------------------------------------------------
(* os_timer_start / os_timer_reset, os_timer_stop, os_timer_settime and      *)
(* osal_timer_change                                                         *)

\* The critical section of os_timer_start on timer t: its is read.
StartSection(a, t) ==
    /\ IF Valid(t)
       THEN call' = [call EXCEPT ![a] =
                [NoCall EXCEPT !.pc = "clock", !.tid = t,
                    !.value = timer[t].millisec,
                    !.interval = IF timer[t].type = "oneshot" THEN 0
                                 ELSE timer[t].millisec]]
       ELSE Return(a)
    /\ UNCHANGED <<clock, timer, node, timerFree, threadFree, id>>

Start(a) == Calls(a, "start") /\ StartSection(a, id[Owner(a)])

\* os_timer_stop: __timer_settime with a zero value, no section of its own.
Stop(a) ==
    /\ Calls(a, "stop")
    /\ call' = [call EXCEPT ![a] =
            [NoCall EXCEPT !.pc = "clock", !.tid = id[Owner(a)]]]
    /\ UNCHANGED <<clock, timer, node, timerFree, threadFree, id>>

\* The critical section of os_timer_settime: the new period is recorded.
PeriodSection(t, ms) ==
    timer' = IF Valid(t) THEN [timer EXCEPT ![t].millisec = ms] ELSE timer

Period(a) ==
    /\ Calls(a, "period")
    /\ \E ms \in Periods : PeriodSection(id[Owner(a)], ms)
    /\ UNCHANGED <<clock, node, timerFree, threadFree, call, id>>

\* osal_timer_change: os_timer_stop, then os_timer_settime, then
\* os_timer_start, whatever each of them returned.
Change(a) ==
    /\ Calls(a, "change")
    /\ \E ms \in Periods :
        call' = [call EXCEPT ![a] =
            [NoCall EXCEPT !.pc = "clock", !.next = "period",
                           !.tid = id[Owner(a)], !.millisec = ms]]
    /\ UNCHANGED <<clock, timer, node, timerFree, threadFree, id>>

ChangePeriod(a) ==
    /\ call[a].pc = "period"
    /\ PeriodSection(call[a].tid, call[a].millisec)
    /\ Goto(a, "start")
    /\ UNCHANGED <<clock, node, timerFree, threadFree, id>>

ChangeStart(a) == call[a].pc = "start" /\ StartSection(a, call[a].tid)

-----------------------------------------------------------------------------
(* __timer_settime *)

\* The clock is read before the mutex is taken.
ReadClock(a) ==
    /\ call[a].pc = "clock"
    /\ call' = [call EXCEPT ![a].pc = "settime", ![a].now = clock]
    /\ UNCHANGED <<clock, timer, node, timerFree, threadFree, id>>

\* Mutant: os_timer_add takes the result of a successful call for an error.
ContinueInverted(a, ok) ==
    IF call[a].next = "idle" \/ (call[a].next = "store" /\ ok)
    THEN NoCall
    ELSE [call[a] EXCEPT !.pc = call[a].next]

\* How the call goes on once __timer_settime has returned.
Continue(a, ok) ==
    IF call[a].next = "idle" \/ (call[a].next = "store" /\ ~ok)
    THEN NoCall
    ELSE [call[a] EXCEPT !.pc = call[a].next]

\* it_value is zero: the timer is taken off its queue and disarmed.
SettimeDisarm(a) ==
    LET t == call[a].tid IN
    /\ call[a].pc = "settime"
    /\ Valid(t)
    /\ call[a].value = 0
    /\ timer' = [timer EXCEPT ![t].interval = call[a].interval,
                              ![t].armed = FALSE]
    /\ node' = Unlinked(t)
    /\ call' = [call EXCEPT ![a] = Continue(a, TRUE)]
    /\ UNCHANGED <<clock, timerFree, threadFree, id>>

\* Mutant: the thread is woken only when it had no timer to wait for.
WakeupWhenEmpty(queue, pos) == queue = << >>

\* The result of __timer_thread_queue_timer: timer became the head of the queue.
NeedsWakeup(queue, pos) == pos = 1

\* The timer is queued again; only an insertion at the head of the queue makes
\* the caller broadcast, and it does so after the unlock.
SettimeArm(a) ==
    LET t == call[a].tid
        n == timer[t].thread
        expiry == call[a].now + call[a].value
        queue == Without(node[n].queue, t)
        pos == QueuePos(queue, timer, expiry)
    IN  /\ call[a].pc = "settime"
        /\ Valid(t)
        /\ call[a].value # 0
        /\ timer' = [timer EXCEPT ![t].interval = call[a].interval,
                                  ![t].armed = TRUE, ![t].expiry = expiry]
        /\ node' = [Unlinked(t) EXCEPT ![n].queue = InsertAt(queue, pos, t)]
        /\ call' = [call EXCEPT ![a] =
                IF NeedsWakeup(queue, pos)
                THEN [call[a] EXCEPT !.pc = "wake", !.thread = n]
                ELSE Continue(a, TRUE)]
        /\ UNCHANGED <<clock, timerFree, threadFree, id>>

\* The timer was deleted meanwhile.  addref and delref bracket the check, so a
\* slot that is already free is deallocated again and moves to the tail.
SettimeInvalid(a) ==
    LET t == call[a].tid IN
    /\ call[a].pc = "settime"
    /\ ~Valid(t)
    /\ IF timer[t].refcount = 0
       THEN /\ timer' = [timer EXCEPT ![t] = Dealloc(@)]
            /\ node' = Unlinked(t)
            /\ timerFree' = FreeList(t)
       ELSE UNCHANGED <<timer, node, timerFree>>
    /\ call' = [call EXCEPT ![a] = Continue(a, FALSE)]
    /\ UNCHANGED <<clock, threadFree, id>>

\* __timer_thread_wakeup
Wakeup(a) ==
    /\ call[a].pc = "wake"
    /\ node' = WakeNode(node, call[a].thread)
    /\ call' = WakeDeleters([call EXCEPT ![a] = Continue(a, TRUE)], call[a].thread)
    /\ UNCHANGED <<clock, timer, timerFree, threadFree, id>>

-----------------------------------------------------------------------------
(* os_timer_del *)

\* Mutant: a handler is taken for another thread.
ServicedByAny(a, n, t) == node[n].current = t

\* The timer is being serviced by another thread.
BeingServiced(a, n, t) == node[n].current = t /\ n # a

\* Mutant: the reference is not dropped.
DeletedNoDelref(tm) == [tm EXCEPT !.inuse = "DELETED"]

\* The slot after a delete: marked, and the reference __timer_create took dropped;
\* timer_delref deallocates it at zero.
Deleted(tm) ==
    IF tm.refcount = 1 THEN Dealloc(tm)
    ELSE [tm EXCEPT !.inuse = "DELETED", !.refcount = tm.refcount - 1]

\* Remove the timer from whatever queue it is on and deallocate it.
DeleteFinish(a, t) ==
    /\ timer' = [timer EXCEPT ![t] = Deleted(@)]
    /\ timerFree' = IF timer[t].refcount = 1
                    THEN FreeList(t)
                    ELSE Without(timerFree, t)
    /\ node' = Unlinked(t)
    /\ Goto(a, "forget")

\* The while loop on the condition variable of the timer's thread.
DeleteWait(a, t, n) ==
    /\ call' = [call EXCEPT ![a] =
            [NoCall EXCEPT !.pc = "delwait", !.tid = t, !.thread = n]]
    /\ UNCHANGED <<timer, node, timerFree>>

\* The thread is looked at only when the timer is armed.
MustWait(a, t) ==
    /\ timer[t].armed
    /\ timer[t].thread # Null
    /\ BeingServiced(a, timer[t].thread, t)

Delete(a) ==
    LET t == id[Owner(a)] IN
    /\ Calls(a, "del")
    /\ IF ~Valid(t) THEN Goto(a, "forget") /\ UNCHANGED <<timer, node, timerFree>>
       ELSE IF MustWait(a, t) THEN DeleteWait(a, t, timer[t].thread)
       ELSE DeleteFinish(a, t)
    /\ UNCHANGED <<clock, threadFree, id>>

\* Mutant: an if in place of the while loop.
DeleteResumeNoRecheck(a) ==
    /\ call[a].pc = "delwoken"
    /\ DeleteFinish(a, call[a].tid)
    /\ UNCHANGED <<clock, threadFree, id>>

\* After pthread_cond_wait only the loop condition is evaluated again.
DeleteResume(a) ==
    LET t == call[a].tid
        n == call[a].thread
    IN  /\ call[a].pc = "delwoken"
        /\ IF BeingServiced(a, n, t) THEN DeleteWait(a, t, n) ELSE DeleteFinish(a, t)
        /\ UNCHANGED <<clock, threadFree, id>>

\* The caller clears its id variable once os_timer_del has returned (note 5).
Forget(a) ==
    /\ call[a].pc = "forget"
    /\ id' = [id EXCEPT ![Owner(a)] = Null]
    /\ Return(a)
    /\ UNCHANGED <<clock, timer, node, timerFree, threadFree>>

-----------------------------------------------------------------------------
(* thread_func *)

\* Mutant: the operands of the subtraction are swapped.
NextExpirySwapped(expiry, interval, now) ==
    expiry + interval * ((expiry - now + interval - 1) \div interval)

\* Mutant: a period that ends now is left out as well.
NextExpiryLater(expiry, interval, now) ==
    expiry + interval * ((now - expiry) \div interval + 1)

\* The expiry time of a periodic timer after it fired: one interval later, and
\* as many more as are needed for it not to be before now.
NextExpiry(expiry, interval, now) ==
    LET missed == (now - expiry + interval - 1) \div interval
    IN  expiry + interval * (IF missed > 1 THEN missed ELSE 1)

\* The record of timer t once it has been taken off the queue as due.
Fired(tm, now) ==
    IF tm.interval = 0 THEN tm
    ELSE [tm EXCEPT !.expiry = NextExpiry(@, tm.interval, now)]

\* Mutant: a periodic timer is not queued again.
NotRequeued(queue, tm, t) == Tail(queue)

\* The queue of a node whose head fires: a periodic timer is queued again.
Requeued(queue, tm, t) ==
    IF tm[t].interval = 0 THEN Tail(queue)
    ELSE InsertAt(Tail(queue), QueuePos(Tail(queue), tm, tm[t].expiry), t)

\* The head is due at time now: the inner loop up to the unlock in
\* thread_expire_timer.
ServeDue(n, now) ==
    LET t == Head(node[n].queue)
        tm == [timer EXCEPT ![t] = Fired(@, now)]
    IN  /\ node[n].queue # << >>
        /\ now >= timer[t].expiry
        /\ timer' = tm
        /\ node' = [node EXCEPT ![n].queue = Requeued(@, tm, t),
                                ![n].current = t, ![n].owner = Null,
                                ![n].pc = "call", ![n].now = now]

\* Nothing is due at time now: wait for the head's expiry time or for a signal.
ServeWait(n, now) ==
    /\ IF node[n].queue = << >>
       THEN node' = [node EXCEPT ![n].current = Null, ![n].owner = Null,
                                 ![n].pc = "wait", ![n].now = 0, ![n].deadline = 0]
       ELSE /\ now < timer[Head(node[n].queue)].expiry
            /\ node' = [node EXCEPT ![n].current = Null, ![n].owner = Null,
                           ![n].pc = "timedwait", ![n].now = 0,
                           ![n].deadline = timer[Head(node[n].queue)].expiry]
    /\ UNCHANGED timer

\* The outer loop: the clock is read afresh.
Run(n) ==
    /\ node[n].pc = "run"
    /\ ServeDue(n, clock) \/ ServeWait(n, clock)
    /\ UNCHANGED <<clock, timerFree, threadFree, call, id>>

\* thread_expire_timer reads timer->event after it has released the mutex.
CallHandler(n) ==
    /\ node[n].pc = "call"
    /\ node' = [node EXCEPT ![n].pc = "handler",
                            ![n].owner = timer[node[n].current].event]
    /\ UNCHANGED <<clock, timer, timerFree, threadFree, call, id>>

\* The handler has returned: current_timer is cleared, deleters are woken, and
\* the inner loop goes on with the time read before the handler ran.
HandlerReturn(n) ==
    /\ node[n].pc = "handler"
    /\ call[n].pc = "idle"
    /\ call' = WakeDeleters(call, n)
    /\ ServeDue(n, node[n].now) \/ ServeWait(n, node[n].now)
    /\ UNCHANGED <<clock, timerFree, threadFree, id>>

\* pthread_cond_timedwait returns because its deadline has passed.
Timeout(n) ==
    /\ node[n].pc = "timedwait"
    /\ clock >= node[n].deadline
    /\ node' = [node EXCEPT ![n].pc = "run"]
    /\ UNCHANGED <<clock, timer, timerFree, threadFree, call, id>>

\* POSIX lets a wait on a condition variable return without a signal.
SpuriousWakeup(n) ==
    /\ node[n].pc \in {"wait", "timedwait"}
    /\ node' = [node EXCEPT ![n].pc = "run"]
    /\ UNCHANGED <<clock, timer, timerFree, threadFree, call, id>>

Tick ==
    /\ clock < MaxTime
    /\ clock' = clock + 1
    /\ UNCHANGED <<timer, node, timerFree, threadFree, call, id>>

-----------------------------------------------------------------------------
(* Specification *)

Begin(a) == Start(a) \/ Stop(a) \/ Period(a) \/ Change(a) \/ Delete(a)

\* The steps of a call in progress.
CallStep(a) ==
    \/ ChangePeriod(a) \/ ChangeStart(a)
    \/ ReadClock(a) \/ SettimeDisarm(a) \/ SettimeArm(a) \/ SettimeInvalid(a)
    \/ Wakeup(a) \/ DeleteResume(a) \/ Forget(a)

AddStep(c) == AddRecord(c) \/ AddStore(c)

ServiceStep(n) == Run(n) \/ CallHandler(n) \/ Timeout(n)

Next ==
    \/ \E c \in Clients : Add(c) \/ AddStep(c)
    \/ \E a \in Actors : Begin(a) \/ CallStep(a)
    \/ \E n \in Nodes : ServiceStep(n) \/ HandlerReturn(n) \/ SpuriousWakeup(n)
    \/ Tick

Spec == Init /\ [][Next]_vars

\* Threads inside the library and service threads keep running, time passes, and
\* a handler eventually returns; nothing forces an application to make a call.
Fairness ==
    /\ WF_vars(Tick)
    /\ \A c \in Clients : WF_vars(AddStep(c))
    /\ \A a \in Actors : WF_vars(CallStep(a))
    /\ \A n \in Nodes : WF_vars(ServiceStep(n)) /\ SF_vars(HandlerReturn(n))

FairSpec == Spec /\ Fairness
-----------------------------------------------------------------------------
(* Safety *)

\* Every slot of __timer_array is on exactly one list it belongs on: the free
\* list holds the FREE slots once each, and a service thread's queue holds, once
\* each, only armed timers in use that belong to that thread.  The lists share
\* one pair of links per slot, so a slot on two lists would corrupt both
\* (list_append / list_unlink_ip in every critical section).
ListsExact ==
    /\ Distinct(timerFree)
    /\ \A t \in Timers : timer[t].inuse = "FREE" <=> t \in ToSet(timerFree)
    /\ \A n \in Nodes :
        /\ Distinct(node[n].queue)
        /\ \A t \in ToSet(node[n].queue) :
            Valid(t) /\ timer[t].armed /\ timer[t].thread = n

\* No slot is ever lost: outside the mutex it is either in use with the one
\* reference of its creator, or free with none (timer_delref, __timer_dealloc).
\* The documentation promises 256 timers per process, os_timer.c:1074-1075.
PoolConserved ==
    \A t \in Timers :
        \/ timer[t].inuse = "INUSE" /\ timer[t].refcount = 1
        \/ timer[t].inuse = "FREE" /\ timer[t].refcount = 0

\* "Expire the timers in chronological order" (thread_func): each queue is
\* sorted by expiry time.
QueueSorted ==
    \A n \in Nodes : \A i, j \in 1..Len(node[n].queue) :
        i < j => timer[node[n].queue[i]].expiry <= timer[node[n].queue[j]].expiry

\* A service thread never oversleeps: while it waits it is due to wake no later
\* than its first timer expires, unless the broadcast that will wake it is still
\* to be made by a thread that has left the mutex ("Insertions at the head of
\* the queue must wake up the thread", thread_func).
NoLostWakeup ==
    \A n \in Nodes :
        (node[n].pc \in {"wait", "timedwait"} /\ node[n].queue # << >>) =>
            \/ node[n].pc = "timedwait"
               /\ node[n].deadline <= timer[Head(node[n].queue)].expiry
            \/ \E a \in Actors : call[a].pc = "wake" /\ call[a].thread = n

\* A running periodic timer is always on the queue of its thread, also while its
\* own handler runs, so it cannot silently stop (requeueing in thread_func).
PeriodicQueued ==
    \A t \in Timers :
        (Valid(t) /\ timer[t].armed /\ timer[t].interval # 0) =>
            t \in ToSet(node[timer[t].thread].queue)

\* Timers of one priority share one service thread, and the free list of thread
\* nodes holds exactly the nodes without a thread (__timer_thread_find_matching,
\* __timer_thread_alloc, __timer_thread_dealloc).
OneThreadPerPrio ==
    /\ \A m, n \in Nodes :
        (node[m].pc # "none" /\ node[n].pc # "none" /\ node[m].prio = node[n].prio)
            => m = n
    /\ FreeThreads
    /\ \A n \in Nodes : node[n].pc = "none" => n \in ToSet(threadFree)
    /\ \A t \in Timers : Valid(t) =>
        timer[t].thread # Null /\ node[timer[t].thread].pc # "none"

\* From the moment a timer is taken as due until its handler has returned, the
\* slot stays that same live timer of this thread, and the handler that runs is
\* the one it was created with: "If timer is currently being serviced, wait for
\* it to finish" (__timer_delete, os_timer.c:861).
ServicedIntact ==
    \A n \in Nodes :
        LET t == node[n].current IN
        node[n].pc \in {"call", "handler"} =>
            /\ Valid(t)
            /\ timer[t].thread = n
            /\ node[n].pc = "handler" => node[n].owner = timer[t].event

\* A stored timer id names a live timer created by the owner of the variable, up
\* to the return of the os_timer_del whose caller is about to clear it.
IdsLive ==
    \A c \in Clients :
        (/\ id[c] # Null
         /\ \A a \in Actors : call[a].pc = "forget" => Owner(a) # c) =>
            Valid(id[c]) /\ timer[id[c]].event = c

\* No timer is out of reach: the id of every live timer is in the variable of the
\* client that created it, or that client is still inside os_timer_add, which arms
\* the timer before it stores the id (os_timer.c:1170).
TimersReachable ==
    \A t \in Timers : Valid(t) =>
        LET c == timer[t].event IN
        \/ id[c] = t
        \/ call[c].tid = t /\ call[c].next = "store"

-----------------------------------------------------------------------------
(* What the service promises *)

\* The timer in a slot as an application sees it: it runs while it is on a queue.
Queued(t) == \E n \in Nodes : t \in ToSet(node[n].queue)

SlotView(t) ==
    IF ~Valid(t)
    THEN [state |-> "free", owner |-> Null, thread |-> Null, due |-> 0, period |-> 0]
    ELSE [state |-> IF Queued(t) THEN "running" ELSE "idle",
          owner |-> timer[t].event, thread |-> timer[t].thread,
          due |-> IF Queued(t) THEN timer[t].expiry ELSE 0,
          period |-> IF Queued(t) THEN timer[t].interval ELSE 0]

\* What a thread serves: the handler is that of the timer until it was called.
ServingView(n) ==
    CASE node[n].pc = "call" ->
            [timer |-> node[n].current, owner |-> timer[node[n].current].event]
      [] node[n].pc = "handler" -> [timer |-> node[n].current, owner |-> node[n].owner]
      [] OTHER -> [timer |-> Null, owner |-> Null]

Service == INSTANCE TimerService
    WITH Threads <- Nodes, None <- Null, time <- clock,
         slot <- [t \in Timers |-> SlotView(t)],
         serving <- [n \in Nodes |-> ServingView(n)]

\* With lists, a mutex that is released in between, condition variables and calls
\* that overtake each other, the timer service is the simple one of TimerService, for
\* applications that do not stop timers and do not delete them from handlers.
ImplementsService == Service!Spec

\* A timer is served when it is due and not before, though thread_func compares with
\* a time that it has read before the last handler ran, and the earliest one of its
\* thread comes first.  A one-shot timer is then off the queue; a periodic one is
\* due again a whole number of periods later, and only periods that are over were
\* left out (the inner loop of thread_func).
ServesDue ==
    [][\A n \in Nodes : node[n].pc # "call" /\ node'[n].pc = "call" =>
        LET t == node'[n].current IN
        /\ timer[t].expiry <= clock
        /\ \A u \in ToSet(node[n].queue) : timer[t].expiry <= timer[u].expiry
        /\ IF timer[t].interval = 0 THEN t \notin ToSet(node'[n].queue)
           ELSE Service!NextDue(timer[t].expiry, timer[t].interval, timer'[t].expiry)]_vars

-----------------------------------------------------------------------------
(* Liveness *)

\* A timer that is due is eventually taken off the queue to be served, or
\* stopped, restarted or deleted by somebody: it never stays due for ever.
DueIsServed ==
    \A n \in Nodes, t \in Timers :
        (t \in ToSet(node[n].queue) /\ timer[t].expiry <= clock)
            ~> (\/ node[n].current = t
                \/ t \notin ToSet(node[n].queue)
                \/ timer[t].expiry > clock)

\* os_timer_del returns: a deleter waiting for the handler to finish is woken
\* when it has, and a handler deleting its own timer does not wait for itself.
DeleteReturns ==
    \A a \in Actors :
        call[a].pc \in {"delwait", "delwoken"} ~> call[a].pc = "idle"
=============================================================================

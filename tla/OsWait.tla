------------------------------- MODULE OsWait --------------------------------
(***************************************************************************)
(* Timed waits.  A thread of the timer service knows when its first timer  *)
(* is due on the monotonic clock, but pthread_cond_timedwait waits for the *)
(* wall clock: thread_func reads both clocks, one after the other, and     *)
(* converts.  A task that takes a semaphore (osal/osal_sem.c over          *)
(* os_sem_wait) computes its deadline on the wall clock right away.  The   *)
(* wall clock may be set while they wait.                                  *)
(***************************************************************************)
EXTENDS OsClock

CONSTANTS
    Tasks,         \* threads that take and release the semaphore
    Millis,        \* periods and timeouts in milliseconds
    Ticks,         \* by how much time may advance in a step, in nanoseconds
    Ahead, Back,   \* by how much the wall clock may be set ahead or back
    WallStarts,    \* what the wall clock may show at first
    MaxMono,       \* bound: the monotonic clock stops
    MaxSettings,   \* bound: how often the wall clock is set
    MaxCount       \* bound: permits of the semaphore

ASSUME WaitAssumption ==
    /\ Millis \subseteq Nat /\ Ticks \subseteq Nat /\ Ahead \subseteq Nat
    /\ Back \subseteq Nat /\ WallStarts \subseteq Nat /\ MaxMono \in Nat /\ MaxSettings \in Nat /\ MaxCount \in Nat

VARIABLES
    mono, wall,    \* CLOCK_MONOTONIC and CLOCK_REALTIME
    settings,      \* how often the wall clock was set
    pc,            \* where the service thread is
    expirytime,    \* when its first timer is due, a timespec
    now,           \* its local variable: the time that is left
    abstime,       \* until when it waits, a timespec
    due,           \* history: when the timer is due
    slack,         \* history: time between the two clocks' readings, and set back since
    sem,           \* the semaphore: its count
    take           \* each task's osal_sem_take

service == <<pc, expirytime, now, abstime, due, slack>>
vars == <<mono, wall, settings, pc, expirytime, now, abstime, due, slack, sem, take>>

Forever == -1
Zero == [tv_sec |-> 0, tv_nsec |-> 0]
NoTake == [pc |-> "idle", timeout |-> 0, deadline |-> Zero, since |-> 0]

TypeOK ==
    /\ mono \in Nat /\ wall \in Nat /\ settings \in 0..MaxSettings
    /\ pc \in {"idle", "loop", "mono", "wall", "wait", "handler"}
    /\ expirytime \in Timespec /\ now \in Timespec /\ abstime \in Timespec
    /\ due \in Nat /\ slack \in Nat
    /\ sem \in 0..MaxCount
    /\ take \in [Tasks -> [pc : {"idle", "wait"}, timeout : Millis \cup {0, Forever},
                           deadline : Timespec, since : Nat]]

Init ==
    /\ mono = 0 /\ wall \in WallStarts /\ settings = 0
    /\ pc = "idle" /\ expirytime = Zero /\ now = Zero /\ abstime = Zero
    /\ due = 0 /\ slack = 0
    /\ sem = 0
    /\ take = [t \in Tasks |-> NoTake]

-----------------------------------------------------------------------------
(* The service thread *)

\* __timer_settime: the expiry time of a relative timer.
Arm ==
    /\ pc = "idle"
    /\ \E ms \in Millis :
        /\ expirytime' = timespec_add(clock_gettime(mono), ms2ts(ms))
        /\ due' = mono + ms * 1000000
    /\ pc' = "loop"
    /\ UNCHANGED <<mono, wall, settings, now, abstime, slack, sem, take>>

\* thread_func: a timer that is due is served, or the thread goes to wait.
Loop ==
    /\ pc = "loop"
    /\ pc' = IF timespec_compare(clock_gettime(mono), expirytime) < 0 THEN "mono" ELSE "handler"
    /\ UNCHANGED <<mono, wall, settings, expirytime, now, abstime, due, slack, sem, take>>

\* The time that is left; it is negative if the timer became due meanwhile.
ReadMono ==
    /\ pc = "mono"
    /\ now' = timespec_sub(expirytime, clock_gettime(mono))
    /\ slack' = 0
    /\ pc' = "wall"
    /\ UNCHANGED <<mono, wall, settings, expirytime, abstime, due, sem, take>>

\* The wall clock is read after the monotonic one, and the thread goes to sleep.
ReadWall ==
    /\ pc = "wall"
    /\ abstime' = timespec_add(clock_gettime(wall), now)
    /\ pc' = "wait"
    /\ UNCHANGED <<mono, wall, settings, expirytime, now, due, slack, sem, take>>

\* pthread_cond_timedwait returns at the deadline, or spuriously before it.
Wake ==
    /\ pc = "wait"
    /\ pc' = "loop"
    /\ UNCHANGED <<mono, wall, settings, expirytime, now, abstime, due, slack, sem, take>>

HandlerReturns ==
    /\ pc = "handler"
    /\ pc' = "idle"
    /\ UNCHANGED <<mono, wall, settings, expirytime, now, abstime, due, slack, sem, take>>

-----------------------------------------------------------------------------
(* osal_sem_take, osal_sem_release *)

\* os_sem_wait: with a timeout of 0 the call does not wait.
TakeBegins(t) ==
    /\ take[t].pc = "idle"
    /\ \E timeout \in Millis \cup {0, Forever} :
        take' = [take EXCEPT ![t] =
            [pc |-> "wait", timeout |-> timeout, since |-> wall,
             deadline |-> IF timeout \in {0, Forever} THEN Zero
                          ELSE os_millisec_2_timespec(gettimeofday(wall), timeout)]]
    /\ UNCHANGED <<mono, wall, settings, service, sem>>

\* SUCCESS
TakeSucceeds(t) ==
    /\ take[t].pc = "wait" /\ sem > 0
    /\ sem' = sem - 1
    /\ take' = [take EXCEPT ![t] = NoTake]
    /\ UNCHANGED <<mono, wall, settings, service>>

\* Whether the kernel lets a wait end: at once, at its deadline, or never.
TimedOut(t) ==
    CASE take[t].timeout = 0 -> TRUE
      [] take[t].timeout = Forever -> FALSE
      [] OTHER -> Ns(take[t].deadline) <= wall

\* EAGAIN or ETIMEDOUT: -1, which osal_sem_take reports as ERROR_UNDEFINED.
TakeFails(t) ==
    /\ take[t].pc = "wait" /\ sem = 0 /\ TimedOut(t)
    /\ take' = [take EXCEPT ![t] = NoTake]
    /\ UNCHANGED <<mono, wall, settings, service, sem>>

\* A signal ends a wait without a timeout; one with a timeout is taken up again with
\* the same deadline.
TakeInterrupted(t) ==
    /\ take[t].pc = "wait" /\ sem = 0 /\ take[t].timeout = Forever
    /\ take' = [take EXCEPT ![t] = NoTake]
    /\ UNCHANGED <<mono, wall, settings, service, sem>>

Release ==
    /\ sem < MaxCount
    /\ sem' = sem + 1
    /\ UNCHANGED <<mono, wall, settings, service, take>>

-----------------------------------------------------------------------------
(* The clocks *)

Tick ==
    /\ mono < MaxMono
    /\ \E d \in Ticks :
        /\ mono' = mono + d
        /\ wall' = wall + d
        /\ slack' = IF pc = "wall" THEN slack + d ELSE slack
    /\ UNCHANGED <<settings, pc, expirytime, now, abstime, due, sem, take>>

SetWall ==
    /\ settings < MaxSettings
    /\ settings' = settings + 1
    /\ \/ \E d \in Ahead :
           /\ wall' = wall + d
           /\ UNCHANGED slack
       \/ \E d \in Back :
           /\ d <= wall
           /\ wall' = wall - d
           /\ slack' = IF pc = "wait" THEN slack + d ELSE slack
    /\ UNCHANGED <<mono, pc, expirytime, now, abstime, due, sem, take>>

Next ==
    \/ Arm \/ Loop \/ ReadMono \/ ReadWall \/ Wake \/ HandlerReturns
    \/ \E t \in Tasks : TakeBegins(t) \/ TakeSucceeds(t) \/ TakeFails(t) \/ TakeInterrupted(t)
    \/ Release \/ Tick \/ SetWall

Spec == Init /\ [][Next]_vars

-----------------------------------------------------------------------------
(* Properties *)

\* No handler is called before its timer is due, whatever happens to the wall clock
\* while the thread waits: the thread looks at the monotonic clock again.
NotEarly == pc = "handler" => mono >= due

\* A service thread does not sleep longer than until its timer is due, plus the time
\* that passed between its two readings and what the wall clock was set back.
OversleepBounded == pc = "wait" => Ns(abstime) - wall <= due - mono + slack

\* osal_sem_take gives up when the timeout has passed on the wall clock since the
\* call, not later and at most a microsecond early.
TakeDeadline ==
    \A t \in Tasks :
        (take[t].pc = "wait" /\ take[t].timeout \notin {0, Forever}) =>
            LET left == Ns(take[t].deadline) - (take[t].since + take[t].timeout * 1000000)
            IN  -1000 < left /\ left <= 0
=============================================================================

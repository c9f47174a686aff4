---------------------------- MODULE TimerService -----------------------------
(***************************************************************************)
(* What osal/linux/os_timer.c promises to applications that do not stop    *)
(* timers and do not delete them from handlers: no mutex, no queues, no    *)
(* condition variables.  A timer is created idle, started, and served by   *)
(* its thread when it is due; a timer that is deleted is not being served. *)
(***************************************************************************)
EXTENDS Integers

CONSTANTS
    Timers,     \* the timers there are
    Threads,    \* the threads that call handlers
    Clients,    \* whose timers these are
    None        \* no timer, no thread, no client

VARIABLES
    time,       \* the time
    slot,       \* each timer, what it is and when it is due
    serving     \* the timer whose handler each thread calls, and whose it is

vars == <<time, slot, serving>>

Unused == [state |-> "free", owner |-> None, thread |-> None, due |-> 0, period |-> 0]

Nothing == [timer |-> None, owner |-> None]

Init ==
    /\ time = 0
    /\ slot = [t \in Timers |-> Unused]
    /\ serving = [n \in Threads |-> Nothing]

Create(t) ==
    /\ slot[t].state = "free"
    /\ \E c \in Clients, n \in Threads :
        slot' = [slot EXCEPT ![t].state = "idle", ![t].owner = c, ![t].thread = n]
    /\ UNCHANGED <<time, serving>>

\* Started, or started again, with whatever period.
Start(t) ==
    /\ slot[t].state # "free"
    /\ slot' = [slot EXCEPT ![t].state = "running",
                            ![t].due = slot'[t].due, ![t].period = slot'[t].period]
    /\ slot'[t].due \in Nat /\ slot'[t].period \in Nat
    /\ UNCHANGED <<time, serving>>

\* When a periodic timer is due next: a whole number of periods later, and the
\* periods that are left out are over.
NextDue(due, period, next) ==
    \E k \in 1..next :
        /\ next = due + k * period
        /\ k = 1 \/ due + (k - 1) * period < time

\* Thread n is done with the timer it served before, if any, and begins with t:
\* its own, due, and none of its others is due earlier.
Serve(n, t) ==
    /\ slot[t].state = "running" /\ slot[t].thread = n
    /\ slot[t].due <= time
    /\ \A u \in Timers :
        slot[u].state = "running" /\ slot[u].thread = n => slot[t].due <= slot[u].due
    /\ \/ /\ slot[t].period = 0
          /\ slot' = [slot EXCEPT ![t].state = "idle", ![t].due = 0]
       \/ /\ slot[t].period # 0
          /\ slot' = [slot EXCEPT ![t].due = slot'[t].due]
          /\ NextDue(slot[t].due, slot[t].period, slot'[t].due)
    /\ serving' = [serving EXCEPT ![n] = [timer |-> t, owner |-> slot[t].owner]]
    /\ UNCHANGED time

Finish(n) ==
    /\ serving[n] # Nothing
    /\ serving' = [serving EXCEPT ![n] = Nothing]
    /\ UNCHANGED <<time, slot>>

Delete(t) ==
    /\ slot[t].state # "free"
    /\ \A n \in Threads : serving[n].timer # t
    /\ slot' = [slot EXCEPT ![t] = Unused]
    /\ UNCHANGED <<time, serving>>

Tick == time' = time + 1 /\ UNCHANGED <<slot, serving>>

Next ==
    \/ \E t \in Timers : Create(t) \/ Start(t) \/ Delete(t)
    \/ \E n \in Threads : Finish(n) \/ \E t \in Timers : Serve(n, t)
    \/ Tick

Spec == Init /\ [][Next]_vars
=============================================================================

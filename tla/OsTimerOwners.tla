---------------------------- MODULE OsTimerOwners ----------------------------
(***************************************************************************)
(* Who owns the slots of __timer_array: no slot is lost, stored ids name   *)
(* live timers and every live timer can be reached, provided one thread at *)
(* a time deletes a client's timer; and when nobody stops a timer, the     *)
(* timer a thread services outlives its handler.  The specification itself *)
(* promises neither to every application: the runs TimerDeleteTwice and    *)
(* TimerDeleteStopped show what happens without these conditions.          *)
(*                                                                         *)
(* Then when timers are served, which needs no condition, and what both    *)
(* together come to: the refinement of TimerService.                       *)
(***************************************************************************)
EXTENDS OsTimerProofs

\* Handlers do not delete; or clients do not, and all timers have one priority.
OneDeleter ==
    \/ "del" \notin HandlerOps
    \/ "del" \notin ClientOps /\ \A p, q \in Prios : p = q

MayDelete(a) ==
    \/ a \in Clients /\ "del" \in ClientOps
    \/ a \in Nodes /\ "del" \in HandlerOps

WaitingToDelete == {"delwait", "delwoken"}
Deleting == WaitingToDelete \cup {"forget"}
Adding == {"add", "clock", "settime", "wake", "store"}

\* Inside os_timer_add the timer is live, its creator's own, and in no variable.
AddsOwn ==
    \A a \in Actors :
        /\ call[a].pc \in {"add", "store"} => call[a].next = "store"
        /\ call[a].next = "store" =>
            /\ a \in Clients /\ id[a] = Null
            /\ call[a].pc \in Adding /\ call[a].tid \in Timers
            /\ Valid(call[a].tid) /\ timer[call[a].tid].event = a

\* Inside os_timer_del the timer is the one in the variable, and live until the
\* caller goes on to clear that variable; then its owner has none.
DeletesOwn ==
    \A a \in Actors : call[a].pc \in Deleting =>
        /\ MayDelete(a)
        /\ id[Owner(a)] # Null
        /\ call[a].pc \in WaitingToDelete =>
            /\ call[a].tid = id[Owner(a)]
            /\ Valid(call[a].tid) /\ timer[call[a].tid].event = Owner(a)
        /\ call[a].pc = "forget" =>
            \A t \in Timers : Valid(t) => timer[t].event # Owner(a)

\* A running service thread has one of the priorities timers are created with.
PriosKnown == \A n \in Nodes : node[n].pc # "none" => node[n].prio \in Prios

OwnerInv ==
    PoolConserved /\ IdsLive /\ TimersReachable /\ AddsOwn /\ DeletesOwn /\ PriosKnown
-----------------------------------------------------------------------------
(* What a step may leave alone *)

\* Slot u stays in the state it is in, and a live timer keeps its creator.
SameOwner(u) ==
    /\ timer'[u].inuse = timer[u].inuse
    /\ timer[u].inuse = "INUSE" => timer'[u].event = timer[u].event

\* Actor b stays inside os_timer_add, inside the wait of os_timer_del, or outside
\* of both calls.
KeepsCall(b) ==
    \/ call'[b] = call[b]
    \/ /\ call[b].next = "store" /\ call'[b].next = "store"
       /\ call'[b].tid = call[b].tid /\ call'[b].pc \in Adding
    \/ /\ call[b].next # "store" /\ call'[b].next # "store"
       /\ call[b].pc \notin Deleting
       /\ call'[b].pc \notin Deleting \cup {"add", "store"}
    \/ /\ call[b].pc \in WaitingToDelete /\ call'[b].pc \in WaitingToDelete
       /\ call'[b].tid = call[b].tid /\ call'[b].next \in {call[b].next, "idle"}

\* Inside a call a node works for the client whose handler it runs.
LEMMA OwnerKnown ==
    ASSUME TypeInv, NEW a \in Actors, call[a].pc # "idle"
    PROVE  /\ Owner(a) \in Clients
           /\ a \in Nodes => node[a].pc = "handler"
           /\ id[Owner(a)] \in Timers \cup {Null}
  BY CallerLemma DEF TypeInv, TypeOK

\* Two threads that may both delete the timer of one client are the same thread.
LEMMA OneDeleterLemma ==
    ASSUME OneDeleter, TypeInv, ServiceInv, PriosKnown,
           NEW a \in Actors, NEW b \in Actors, MayDelete(a), MayDelete(b),
           Owner(a) = Owner(b),
           a \in Nodes => node[a].pc = "handler",
           b \in Nodes => node[b].pc = "handler"
    PROVE  a = b
<1>1. CASE "del" \notin HandlerOps
  BY <1>1 DEF MayDelete, Owner
<1>2. CASE "del" \notin ClientOps /\ \A p, q \in Prios : p = q
  <2>1. a \in Nodes /\ b \in Nodes
    BY <1>2 DEF MayDelete
  <2>2. node[a].prio = node[b].prio
    BY <1>2, <2>1 DEF PriosKnown
  <2> QED BY <2>1, <2>2 DEF ServiceInv, OneThreadPerPrio
<1> QED BY <1>1, <1>2 DEF OneDeleter

\* The invariant needs no more of a step than this.
LEMMA OwnerStep ==
    ASSUME TypeInv, OwnerInv, ListInv', id' = id,
           timer' \in [Timers -> TimerNode],
           \A u \in Timers : SameOwner(u),
           \A b \in Actors : KeepsCall(b),
           \A b \in Actors : call[b].pc \in Deleting => Owner(b)' = Owner(b),
           PriosKnown'
    PROVE  OwnerInv'
<1>1. /\ \A u \in Timers : Valid(u)' <=> Valid(u)
      /\ \A u \in Timers : Valid(u) => timer'[u].event = timer[u].event
  BY DEF SameOwner, Valid
<1>2. PoolConserved'
  BY DEF OwnerInv, PoolConserved, SameOwner, ListInv, RefsExact
<1>3. \A b \in Actors :
        /\ call'[b].next = "store" =>
            call[b].next = "store" /\ call'[b].tid = call[b].tid /\ call'[b].pc \in Adding
        /\ call[b].next = "store" => call'[b].next = "store" /\ call'[b].tid = call[b].tid
        /\ call'[b].pc \in {"add", "store"} => call'[b].next = "store"
  BY DEF KeepsCall, OwnerInv, AddsOwn, WaitingToDelete, Adding
<1>4. \A b \in Actors :
        /\ call'[b].pc \in WaitingToDelete =>
            call[b].pc \in WaitingToDelete /\ call'[b].tid = call[b].tid
        /\ call'[b].pc = "forget" <=> call[b].pc = "forget"
  BY DEF KeepsCall, OwnerInv, AddsOwn, Adding, WaitingToDelete, Deleting
<1>5. AddsOwn'
  BY <1>1, <1>3 DEF OwnerInv, AddsOwn
<1>6. \A b \in Actors : call[b].pc \in WaitingToDelete => call[b].tid \in Timers
  BY DEF TypeInv, CallLocals, WaitingToDelete
<1>7. DeletesOwn'
  <2> SUFFICES ASSUME NEW a \in Actors, call'[a].pc \in Deleting
               PROVE  /\ MayDelete(a)
                      /\ id[Owner(a)'] # Null
                      /\ call'[a].pc \in WaitingToDelete =>
                          /\ call'[a].tid = id[Owner(a)']
                          /\ Valid(call[a].tid)' /\ timer'[call'[a].tid].event = Owner(a)'
                      /\ call'[a].pc = "forget" =>
                          \A t \in Timers : Valid(t)' => timer'[t].event # Owner(a)'
    BY DEF DeletesOwn, MayDelete, Valid
  <2>1. call[a].pc \in Deleting /\ Owner(a)' = Owner(a)
    BY <1>4 DEF Deleting
  <2>2. MayDelete(a) /\ id[Owner(a)'] # Null
    BY <2>1 DEF OwnerInv, DeletesOwn
  <2>3. ASSUME call'[a].pc \in WaitingToDelete
        PROVE  /\ call'[a].tid = id[Owner(a)']
               /\ Valid(call[a].tid)' /\ timer'[call'[a].tid].event = Owner(a)'
    <3>1. /\ call[a].pc \in WaitingToDelete /\ call'[a].tid = call[a].tid
          /\ call[a].tid \in Timers
      BY <1>4, <1>6, <2>3
    <3>2. call[a].tid = id[Owner(a)] /\ Valid(call[a].tid) /\ timer[call[a].tid].event = Owner(a)
      BY <2>1, <3>1 DEF OwnerInv, DeletesOwn
    <3> QED BY <1>1, <2>1, <3>1, <3>2 DEF Valid
  <2>4. ASSUME call'[a].pc = "forget"
        PROVE  \A t \in Timers : Valid(t)' => timer'[t].event # Owner(a)'
    <3>1. \A t \in Timers : Valid(t) => timer[t].event # Owner(a)
      BY <1>4, <2>1, <2>4 DEF OwnerInv, DeletesOwn
    <3> QED BY <1>1, <2>1, <3>1
  <2> QED BY <2>2, <2>3, <2>4
<1>8. IdsLive'
  <2> SUFFICES ASSUME NEW c \in Clients, id[c] # Null,
                      \A a \in Actors : call'[a].pc = "forget" => Owner(a)' # c
               PROVE  Valid(id[c])' /\ timer'[id[c]].event = c
    BY DEF IdsLive, Valid, Owner
  <2>1. \A a \in Actors : call[a].pc = "forget" => Owner(a) # c
    BY <1>4 DEF Deleting
  <2>2. id[c] \in Timers
    BY DEF TypeInv, TypeOK
  <2> QED BY <1>1, <2>1, <2>2 DEF OwnerInv, IdsLive, Valid
<1>9. TimersReachable'
  <2> SUFFICES ASSUME NEW t \in Timers, Valid(t)
               PROVE  \/ id[timer[t].event] = t
                      \/ /\ call'[timer[t].event].tid = t
                         /\ call'[timer[t].event].next = "store"
    BY <1>1 DEF TimersReachable, Valid
  <2>1. timer[t].event \in Actors
    BY DEF TypeInv, HandlersKnown, Actors, Valid
  <2> QED BY <1>3, <2>1 DEF OwnerInv, TimersReachable
<1> QED BY <1>2, <1>5, <1>7, <1>8, <1>9 DEF OwnerInv

\* The steps of a call that neither create, store nor delete.
LEMMA QuietCalls ==
    ASSUME TypeInv, OwnerInv, NEW a \in Actors,
           \/ a \in Clients /\ AddRecord(a)
           \/ Start(a) \/ Stop(a) \/ Period(a) \/ Change(a)
           \/ ChangePeriod(a) \/ ChangeStart(a) \/ ReadClock(a)
    PROVE  /\ UNCHANGED <<node, id>>
           /\ \A u \in Timers : SameOwner(u)
           /\ \A b \in Actors : KeepsCall(b)
<1>1. call \in [Actors -> Call] /\ timer \in [Timers -> TimerNode] /\ call[a] \in Call
  BY DEF TypeInv, TypeOK
<1>2. UNCHANGED <<node, id>>
  BY DEF AddRecord, Start, StartSection, Stop, Period, Change,
         ChangePeriod, ChangeStart, ReadClock
<1>3. \E t, ms, ty :
            \/ timer' = timer
            \/ timer' = [timer EXCEPT ![t].millisec = ms]
            \/ timer' = [timer EXCEPT ![t].type = ty, ![t].millisec = ms]
  BY Zenon DEF AddRecord, Start, StartSection, Stop, Period, PeriodSection,
         Change, ChangePeriod, ChangeStart, ReadClock
<1>4. \A u \in Timers : SameOwner(u)
  BY <1>1, <1>3 DEF SameOwner, TimerNode
<1>5. \A k : call' = [call EXCEPT ![a] = k] => \A b \in Actors : b # a => KeepsCall(b)
  BY <1>1 DEF KeepsCall
<1>6. call[a].pc \notin Adding => call[a].next # "store"
  BY DEF OwnerInv, AddsOwn
<1>7. NoCall.next = "idle" /\ NoCall.pc = "idle"
  BY DEF NoCall
<1>8. CASE AddRecord(a)
  <2>1. call[a].pc = "add" /\ call[a].next = "store" /\ Valid(call[a].tid)
    BY <1>8 DEF AddRecord, OwnerInv, AddsOwn
  <2> DEFINE k == [call[a] EXCEPT !.pc = "clock"]
  <2>2. call' = [call EXCEPT ![a] = k]
    BY <1>8, <2>1 DEF AddRecord, Goto
  <2>3. k.next = "store" /\ k.tid = call[a].tid /\ k.pc = "clock"
    BY <1>1, <2>1 DEF Call
  <2> HIDE DEF k
  <2>4. KeepsCall(a)
    BY <1>1, <2>1, <2>2, <2>3 DEF KeepsCall, Adding
  <2> QED BY <1>2, <1>4, <1>5, <2>2, <2>4
<1>9. ASSUME NEW t, StartSection(a, t), call[a].pc \in {"idle", "start"}
      PROVE  \A b \in Actors : KeepsCall(b)
  <2>1. PICK k : /\ call' = [call EXCEPT ![a] = k]
                 /\ k.next = "idle" /\ k.pc \in {"idle", "clock"}
    <3> DEFINE k == [NoCall EXCEPT !.pc = "clock", !.tid = t,
                        !.value = timer[t].millisec,
                        !.interval = IF timer[t].type = "oneshot" THEN 0
                                     ELSE timer[t].millisec]
    <3>1. k.next = "idle" /\ k.pc = "clock"
      BY DEF NoCall
    <3> HIDE DEF k
    <3>2. call' = [call EXCEPT ![a] = k] \/ call' = [call EXCEPT ![a] = NoCall]
      BY <1>9 DEF StartSection, Return, k
    <3> QED BY <1>7, <3>1, <3>2
  <2>2. KeepsCall(a)
    BY <1>1, <1>6, <1>9, <2>1 DEF KeepsCall, Adding, Deleting, WaitingToDelete
  <2> QED BY <1>5, <2>1, <2>2
<1>10. CASE Start(a) \/ ChangeStart(a)
  BY <1>2, <1>4, <1>9, <1>10 DEF Start, ChangeStart, Calls
<1>11. CASE Period(a)
  BY <1>2, <1>4, <1>11 DEF Period, KeepsCall
<1>12. CASE Stop(a) \/ Change(a)
  <2>1. PICK k : /\ call' = [call EXCEPT ![a] = k]
                 /\ k.next \in {"idle", "period"} /\ k.pc = "clock"
    <3> DEFINE r(ms) == [NoCall EXCEPT !.pc = "clock", !.next = "period",
                                       !.tid = id[Owner(a)], !.millisec = ms]
               s == [NoCall EXCEPT !.pc = "clock", !.tid = id[Owner(a)]]
    <3>1. /\ \A ms : r(ms).next = "period" /\ r(ms).pc = "clock"
          /\ s.next = "idle" /\ s.pc = "clock"
      BY DEF NoCall
    <3> HIDE DEF r, s
    <3>2. call' = [call EXCEPT ![a] = s] \/ \E ms : call' = [call EXCEPT ![a] = r(ms)]
      BY <1>12 DEF Stop, Change, r, s
    <3> QED BY <3>1, <3>2
  <2>2. call[a].pc = "idle"
    BY <1>12 DEF Stop, Change, Calls
  <2>3. KeepsCall(a)
    BY <1>1, <1>6, <2>1, <2>2 DEF KeepsCall, Adding, Deleting, WaitingToDelete
  <2> QED BY <1>2, <1>4, <1>5, <2>1, <2>3
<1>13. CASE ChangePeriod(a) \/ ReadClock(a)
  <2>1. PICK k \in Call : /\ call' = [call EXCEPT ![a] = k]
                 /\ k.next = call[a].next /\ k.tid = call[a].tid
                 /\ \/ call[a].pc = "period" /\ k.pc = "start"
                    \/ call[a].pc = "clock" /\ k.pc = "settime"
    <3> DEFINE r == [call[a] EXCEPT !.pc = "settime", !.now = clock]
               s == [call[a] EXCEPT !.pc = "start"]
    <3>1. /\ r \in Call /\ r.next = call[a].next /\ r.tid = call[a].tid /\ r.pc = "settime"
          /\ s \in Call /\ s.next = call[a].next /\ s.tid = call[a].tid /\ s.pc = "start"
      <4>1. clock \in Nat
        BY SizeAssumption DEF TypeInv, TypeOK
      <4> QED BY <1>1, <4>1 DEF Call
    <3>2. \/ call[a].pc = "period" /\ call' = [call EXCEPT ![a] = s]
          \/ call[a].pc = "clock" /\ call' = [call EXCEPT ![a] = r]
      BY <1>13 DEF ChangePeriod, ReadClock, Goto
    <3> HIDE DEF r, s
    <3> QED BY <3>1, <3>2
  <2>2. KeepsCall(a)
    BY <1>1, <1>6, <2>1 DEF KeepsCall, Adding, Deleting, WaitingToDelete
  <2> QED BY <1>2, <1>4, <1>5, <2>1, <2>2
<1> QED BY <1>8, <1>10, <1>11, <1>12, <1>13

\* A step that leaves every service thread where it is.
SameThread(n) ==
    /\ node'[n].prio = node[n].prio
    /\ node'[n].pc = node[n].pc
    /\ node'[n].owner = node[n].owner
    /\ node'[n].current = node[n].current
    /\ node'[n].now = node[n].now

\* Then every call works for the client it worked for.
LEMMA OwnersStay ==
    ASSUME PriosKnown, \A n \in Nodes : SameThread(n)
    PROVE  PriosKnown' /\ \A b \in Actors : Owner(b)' = Owner(b)
  BY DEF PriosKnown, SameThread, Owner, Actors

\* Taking a timer off the queues, and queueing it on one, moves no thread.
LEMMA UnlinkThreads ==
    ASSUME TypeOK, NEW t \in Timers, node' \in [Nodes -> ThreadNode],
           \/ node' = Unlinked(t)
           \/ \E n \in Nodes, q \in Seq(Timers) : node' = [Unlinked(t) EXCEPT ![n].queue = q]
    PROVE  \A n \in Nodes : SameThread(n)
<1> DEFINE U == Unlinked(t)
<1>1. U \in [Nodes -> ThreadNode]
  BY UnlinkedLemma DEF TypeOK
<1>2. ASSUME NEW n \in Nodes
      PROVE  /\ U[n].prio = node[n].prio /\ U[n].pc = node[n].pc
             /\ U[n].owner = node[n].owner /\ U[n].current = node[n].current
             /\ U[n].now = node[n].now
  <2>1. U[n] = [node[n] EXCEPT !.queue = Without(node[n].queue, t)] /\ node[n] \in ThreadNode
    BY UnlinkedLemma DEF TypeOK
  <2> HIDE DEF U
  <2> QED BY <2>1 DEF ThreadNode
<1> HIDE DEF U
<1>3. CASE node' = U
  BY <1>2, <1>3 DEF SameThread
<1>4. ASSUME NEW m \in Nodes, NEW q \in Seq(Timers), node' = [U EXCEPT ![m].queue = q]
      PROVE  \A n \in Nodes : SameThread(n)
  BY <1>1, <1>2, <1>4 DEF SameThread, ThreadNode
<1> QED BY <1>3, <1>4 DEF U

\* __timer_settime moves no thread.
LEMMA SettimeThreads ==
    ASSUME TypeInv, NEW a \in Actors, node' \in [Nodes -> ThreadNode],
           SettimeDisarm(a) \/ SettimeArm(a) \/ SettimeInvalid(a)
    PROVE  \A n \in Nodes : SameThread(n)
<1> DEFINE t == call[a].tid
<1>1. /\ timer \in [Timers -> TimerNode] /\ call[a] \in Call /\ TypeOK
      /\ t \in Timers /\ timer[t] \in TimerNode
  BY DEF TypeInv, TypeOK, CallLocals, SettimeDisarm, SettimeArm, SettimeInvalid
<1>2. CASE SettimeArm(a)
  <2> DEFINE n == timer[t].thread
             expiry == call[a].now + call[a].value
             q == Without(node[n].queue, t)
             pos == QueuePos(q, timer, expiry)
             w == InsertAt(q, pos, t)
  <2>1. node' = [Unlinked(t) EXCEPT ![n].queue = w] /\ timer[t].inuse = "INUSE"
    BY <1>2 DEF SettimeArm, Valid
  <2>2. n \in Nodes /\ expiry \in Nat
    BY <1>1, <2>1 DEF TypeInv, HandlersKnown, Call
  <2> HIDE DEF t, n, expiry
  <2>3. w \in Seq(Timers)
    <3>1. q \in Seq(Timers)
      BY <1>1, <2>2, QueueTypes, WithoutLemma
    <3> HIDE DEF q
    <3>2. pos \in 1..(Len(q) + 1)
      BY <1>1, <2>2, <3>1, QueuePosLemma
    <3> HIDE DEF pos
    <3> QED BY <1>1, <3>1, <3>2, TimerInsertLemma
  <2> HIDE DEF w
  <2> QED BY <1>1, <2>1, <2>2, <2>3, UnlinkThreads
<1>3. CASE SettimeDisarm(a) \/ SettimeInvalid(a)
  <2>1. node' = Unlinked(t) \/ node' = node
    BY <1>3 DEF SettimeDisarm, SettimeInvalid
  <2> HIDE DEF t
  <2> QED BY <1>1, <2>1, UnlinkThreads DEF SameThread
<1> QED BY <1>2, <1>3

\* __timer_settime keeps every slot in the state it is in: a deleted one has been
\* freed already, so os_timer_add never finds its own timer gone.
LEMMA QuietSettime ==
    ASSUME TypeInv, ListInv, OwnerInv, NEW a \in Actors, node' \in [Nodes -> ThreadNode],
           SettimeDisarm(a) \/ SettimeArm(a) \/ SettimeInvalid(a)
    PROVE  /\ id' = id
           /\ \A n \in Nodes : SameThread(n)
           /\ \A u \in Timers : SameOwner(u)
           /\ \A b \in Actors : KeepsCall(b)
<1> DEFINE t == call[a].tid
<1>1. /\ call \in [Actors -> Call] /\ timer \in [Timers -> TimerNode] /\ call[a] \in Call
      /\ call[a].pc = "settime" /\ t \in Timers /\ timer[t] \in TimerNode /\ TypeOK
  BY DEF TypeInv, TypeOK, CallLocals, SettimeDisarm, SettimeArm, SettimeInvalid
<1>2. id' = id
  BY DEF SettimeDisarm, SettimeArm, SettimeInvalid
<1>3. \A k : call' = [call EXCEPT ![a] = k] => \A b \in Actors : b # a => KeepsCall(b)
  BY <1>1 DEF KeepsCall
<1>4. ASSUME NEW k, call' = [call EXCEPT ![a] = k],
             \/ k = Continue(a, TRUE)
             \/ k.pc = "wake" /\ k.next = call[a].next /\ k.tid = t
      PROVE  \A b \in Actors : KeepsCall(b)
  <2>1. call'[a] = k
    BY <1>1, <1>4
  <2>2. CASE k.pc = "wake" /\ k.next = call[a].next /\ k.tid = t
    BY <1>1, <1>3, <1>4, <2>1, <2>2 DEF KeepsCall, Adding, Deleting, WaitingToDelete
  <2>3. CASE k = Continue(a, TRUE)
    <3>1. \/ call[a].next = "store" /\ k.next = "store" /\ k.tid = t /\ k.pc = "store"
          \/ /\ call[a].next # "store" /\ k.next # "store"
             /\ k.pc \in {"idle", "period"}
      BY <1>1, <2>3 DEF Continue, NoCall, Call
    <3> QED BY <1>1, <1>3, <1>4, <2>1, <3>1 DEF KeepsCall, Adding, Deleting, WaitingToDelete
  <2> QED BY <1>4, <2>2, <2>3
<1>8. \A n \in Nodes : SameThread(n)
  BY SettimeThreads
<1>5. CASE SettimeDisarm(a)
  <2>1. /\ timer' = [timer EXCEPT ![t].interval = call[a].interval, ![t].armed = FALSE]
        /\ node' = Unlinked(t) /\ call' = [call EXCEPT ![a] = Continue(a, TRUE)]
    BY <1>5 DEF SettimeDisarm
  <2>2. \A u \in Timers : SameOwner(u)
    BY <1>1, <2>1 DEF SameOwner, TimerNode
  <2> QED BY <1>2, <1>4, <1>8, <2>1, <2>2
<1>6. CASE SettimeArm(a)
  <2> DEFINE n == timer[t].thread
             expiry == call[a].now + call[a].value
             r == [call[a] EXCEPT !.pc = "wake", !.thread = n]
  <2>1. /\ timer' = [timer EXCEPT ![t].interval = call[a].interval,
                                  ![t].armed = TRUE, ![t].expiry = expiry]
        /\ call' = [call EXCEPT ![a] = r] \/ call' = [call EXCEPT ![a] = Continue(a, TRUE)]
    BY <1>6 DEF SettimeArm
  <2>2. \A u \in Timers : SameOwner(u)
    <3> HIDE DEF expiry
    <3> QED BY <1>1, <2>1 DEF SameOwner, TimerNode
  <2>3. r.pc = "wake" /\ r.next = call[a].next /\ r.tid = t
    BY <1>1 DEF Call
  <2> HIDE DEF n, expiry, r
  <2> QED BY <1>2, <1>4, <1>8, <2>1, <2>2, <2>3
<1>7. CASE SettimeInvalid(a)
  <2>1. timer[t].inuse = "FREE" /\ timer[t].refcount = 0
    BY <1>1, <1>7 DEF SettimeInvalid, Valid, OwnerInv, PoolConserved
  <2>2. /\ timer' = [timer EXCEPT ![t] = Dealloc(@)] /\ node' = Unlinked(t)
        /\ call' = [call EXCEPT ![a] = Continue(a, FALSE)]
    BY <1>7, <2>1 DEF SettimeInvalid
  <2>3. Dealloc(timer[t]).inuse = "FREE"
    BY <1>1, DeallocLemma
  <2>4. \A u \in Timers : SameOwner(u)
    BY <1>1, <2>1, <2>2, <2>3 DEF SameOwner
  <2>5. call[a].next # "store"
    BY <2>1 DEF OwnerInv, AddsOwn, Valid
  <2>6. Continue(a, FALSE).next # "store" /\ Continue(a, FALSE).pc \in {"idle", "period"}
    BY <1>1, <2>5 DEF Continue, NoCall, Call
  <2>7. KeepsCall(a)
    <3>1. call'[a] = Continue(a, FALSE)
      BY <1>1, <2>2
    <3> QED BY <1>1, <2>5, <2>6, <3>1 DEF KeepsCall, Deleting, WaitingToDelete
  <2> QED BY <1>2, <1>3, <1>8, <2>2, <2>4, <2>7
<1> QED BY <1>5, <1>6, <1>7

\* A broadcast moves waiting deleters on, and no other call but the caller's.
LEMMA WakeupKeeps ==
    ASSUME TypeInv, NEW cs \in [Actors -> Call], NEW n, call' = WakeDeleters(cs, n),
           NEW b \in Actors, cs[b] = call[b]
    PROVE  KeepsCall(b)
<1>1. WakeDeleters(cs, n)[b] = IF cs[b].pc = "delwait" /\ cs[b].thread = n
                               THEN [cs[b] EXCEPT !.pc = "delwoken"] ELSE cs[b]
  BY DEF WakeDeleters
<1>2. cs[b] \in Call
  OBVIOUS
<1> QED BY <1>1, <1>2 DEF KeepsCall, WaitingToDelete, Call

\* __timer_thread_wakeup
LEMMA OwnerWakeup ==
    ASSUME TypeInv, OwnerInv, ListInv', NEW a \in Actors, Wakeup(a)
    PROVE  OwnerInv'
<1> DEFINE m == call[a].thread
           cs == [call EXCEPT ![a] = Continue(a, TRUE)]
<1>1. /\ node \in [Nodes -> ThreadNode] /\ call \in [Actors -> Call] /\ m \in Nodes
      /\ timer \in [Timers -> TimerNode] /\ call[a] \in Call
  BY DEF TypeInv, TypeOK, CallLocals, Wakeup
<1>2. /\ UNCHANGED <<timer, id>> /\ call[a].pc = "wake"
      /\ node' = WakeNode(node, m) /\ call' = WakeDeleters(cs, m)
  BY DEF Wakeup
<1>3. cs \in [Actors -> Call] /\ cs[a] = Continue(a, TRUE)
      /\ \A b \in Actors : b # a => cs[b] = call[b]
  BY <1>1, ContinueLemma
<1>4. \/ call[a].next = "store" /\ cs[a].next = "store" /\ cs[a].tid = call[a].tid
         /\ cs[a].pc = "store"
      \/ call[a].next # "store" /\ cs[a].next # "store" /\ cs[a].pc \in {"idle", "period"}
  BY <1>1, <1>3 DEF Continue, NoCall, Call
<1> HIDE DEF m, cs
<1>5. \A n \in Nodes : /\ node'[n].prio = node[n].prio /\ node'[n].owner = node[n].owner
                       /\ node'[n].pc = "none" <=> node[n].pc = "none"
  BY <1>1, <1>2 DEF WakeNode, ThreadNode
<1>6. KeepsCall(a)
  <2>1. call'[a] = cs[a]
    BY <1>1, <1>2, <1>3, <1>4 DEF WakeDeleters
  <2> QED BY <1>2, <1>4, <2>1 DEF KeepsCall, Adding, Deleting, WaitingToDelete
<1>7. \A b \in Actors : KeepsCall(b)
  BY <1>2, <1>3, <1>6, WakeupKeeps
<1>8. PriosKnown' /\ \A b \in Actors : Owner(b)' = Owner(b)
  BY <1>5 DEF OwnerInv, PriosKnown, Owner, Actors
<1>9. \A u \in Timers : SameOwner(u)
  BY <1>2 DEF SameOwner
<1> QED BY <1>1, <1>2, <1>7, <1>8, <1>9, OwnerStep

\* A service thread changes its own node and the expiry time of the timer it takes.
LEMMA ServeKeeps ==
    ASSUME TypeInv, NEW n \in Nodes, NEW now \in Nat, ServeDue(n, now) \/ ServeWait(n, now)
    PROVE  /\ timer' \in [Timers -> TimerNode]
           /\ \A u \in Timers :
                /\ SameOwner(u)
                /\ timer'[u].armed = timer[u].armed
                /\ timer'[u].thread = timer[u].thread
                /\ timer'[u].millisec = timer[u].millisec
                /\ timer'[u].event = timer[u].event
           /\ \A m \in Nodes : m # n => node'[m] = node[m]
           /\ node'[n].prio = node[n].prio
           /\ \/ /\ node'[n].pc = "call" /\ node[n].queue # << >>
                 /\ node'[n].current = Head(node[n].queue)
              \/ node'[n].pc \in Waiting
<1>1. /\ timer \in [Timers -> TimerNode] /\ node \in [Nodes -> ThreadNode] /\ TypeOK
      /\ node[n] \in ThreadNode /\ node[n].queue \in Seq(Timers)
  BY QueueTypes DEF TypeInv, TypeOK
<1>2. CASE ServeDue(n, now)
  <2> DEFINE t == Head(node[n].queue)
             tm == [timer EXCEPT ![t] = Fired(@, now)]
             w == Requeued(node[n].queue, tm, t)
  <2>1. /\ timer' = [timer EXCEPT ![t] = Fired(@, now)] /\ node[n].queue # << >>
        /\ node' = [node EXCEPT ![n].queue = w, ![n].current = t, ![n].owner = Null,
                                ![n].pc = "call", ![n].now = now]
    BY <1>2 DEF ServeDue
  <2>2. t \in Timers
    BY <1>1, <2>1, HeadLemma
  <2>3. timer[t] \in TimerNode
    BY <1>1, <2>2
  <2>4. /\ Fired(timer[t], now) \in TimerNode
        /\ Fired(timer[t], now).event = timer[t].event
        /\ Fired(timer[t], now).inuse = timer[t].inuse
        /\ Fired(timer[t], now).thread = timer[t].thread
    BY <2>3, FiredLemma
  <2>5. /\ Fired(timer[t], now).armed = timer[t].armed
        /\ Fired(timer[t], now).millisec = timer[t].millisec
    BY <2>3 DEF Fired, TimerNode
  <2> HIDE DEF t
  <2>6. timer' \in [Timers -> TimerNode] /\ timer'[t] = Fired(timer[t], now)
        /\ \A u \in Timers : u # t => timer'[u] = timer[u]
    BY <1>1, <2>1, <2>2, <2>4
  <2>7. \A u \in Timers : /\ SameOwner(u)
                          /\ timer'[u].armed = timer[u].armed
                          /\ timer'[u].thread = timer[u].thread
                          /\ timer'[u].millisec = timer[u].millisec
                          /\ timer'[u].event = timer[u].event
    BY <2>4, <2>5, <2>6 DEF SameOwner
  <2> HIDE DEF w
  <2>8. /\ \A m \in Nodes : m # n => node'[m] = node[m]
        /\ node'[n].prio = node[n].prio /\ node'[n].pc = "call" /\ node'[n].current = t
    BY <1>1, <2>1 DEF ThreadNode
  <2> QED BY <2>1, <2>6, <2>7, <2>8 DEF t
<1>3. CASE ServeWait(n, now)
  <2>1. timer' = timer /\ \A u \in Timers : SameOwner(u)
    BY <1>3 DEF ServeWait, SameOwner
  <2>2. ASSUME NEW pc \in Waiting, NEW d,
               node' = [node EXCEPT ![n].current = Null, ![n].owner = Null,
                                    ![n].pc = pc, ![n].now = 0, ![n].deadline = d]
        PROVE  /\ \A m \in Nodes : m # n => node'[m] = node[m]
               /\ node'[n].prio = node[n].prio /\ node'[n].pc \in Waiting
    BY <1>1, <2>2 DEF ThreadNode
  <2>3. /\ \A m \in Nodes : m # n => node'[m] = node[m]
        /\ node'[n].prio = node[n].prio /\ node'[n].pc \in Waiting
    <3>1. "wait" \in Waiting /\ "timedwait" \in Waiting
      BY DEF Waiting
    <3>2. CASE node[n].queue = << >>
      BY <1>3, <2>2, <3>1, <3>2 DEF ServeWait
    <3>3. CASE node[n].queue # << >>
      BY <1>3, <2>2, <3>1, <3>3 DEF ServeWait
    <3> QED BY <3>2, <3>3
  <2> QED BY <1>1, <2>1, <2>3
<1> QED BY <1>2, <1>3

\* The steps of a service thread.
LEMMA OwnerThread ==
    ASSUME TypeInv, OwnerInv, ListInv', NEW n \in Nodes,
           ServiceStep(n) \/ HandlerReturn(n) \/ SpuriousWakeup(n)
    PROVE  OwnerInv'
<1>1. /\ node \in [Nodes -> ThreadNode] /\ node[n] \in ThreadNode /\ clock \in Nat
      /\ call \in [Actors -> Call] /\ n \in Actors /\ timer \in [Timers -> TimerNode]
  BY SizeAssumption DEF TypeInv, TypeOK, Actors
<1>2. call[n].pc = "idle" /\ node[n].pc # "none" /\ id' = id
  BY DEF TypeInv, ServiceLocals, ServiceStep, Run, CallHandler, Timeout,
         HandlerReturn, SpuriousWakeup
<1>3. \A b \in Actors : KeepsCall(b)
  <2>1. CASE HandlerReturn(n)
    BY <1>1, <2>1, WakeupKeeps DEF HandlerReturn
  <2>2. CASE ServiceStep(n) \/ SpuriousWakeup(n)
    BY <2>2 DEF ServiceStep, Run, CallHandler, Timeout, SpuriousWakeup, KeepsCall
  <2> QED BY <2>1, <2>2
<1>4. /\ timer' \in [Timers -> TimerNode] /\ \A u \in Timers : SameOwner(u)
      /\ \A m \in Nodes : m # n => node'[m] = node[m]
      /\ node'[n].prio = node[n].prio
  <2>1. CASE Run(n) \/ HandlerReturn(n)
    <3>1. PICK now \in Nat : ServeDue(n, now) \/ ServeWait(n, now)
      BY <1>1, <2>1 DEF Run, HandlerReturn, ThreadNode
    <3> QED BY <3>1, ServeKeeps
  <2>2. CASE CallHandler(n)
    BY <1>1, <2>2 DEF CallHandler, ThreadNode, SameOwner
  <2>3. CASE Timeout(n) \/ SpuriousWakeup(n)
    BY <1>1, <2>3 DEF Timeout, SpuriousWakeup, ThreadNode, SameOwner
  <2> QED BY <2>1, <2>2, <2>3 DEF ServiceStep
<1>5. \A b \in Actors : call[b].pc \in Deleting => Owner(b)' = Owner(b)
  BY <1>2, <1>4 DEF Owner, Actors, Deleting, WaitingToDelete
<1>6. PriosKnown'
  BY <1>2, <1>4 DEF OwnerInv, PriosKnown
<1> QED BY <1>2, <1>3, <1>4, <1>5, <1>6, OwnerStep

\* The timer in an owner's variable is deleted, and nobody else's.
LEMMA OwnerFinish ==
    ASSUME OneDeleter, TypeInv, ListInv, ServiceInv, OwnerInv, ListInv', TypeOK',
           NEW a \in Actors, MayDelete(a), NEW t \in Timers, t = id[Owner(a)],
           Valid(t), timer[t].event = Owner(a), Owner(a) \in Clients,
           call[a].next # "store", a \in Nodes => node[a].pc = "handler",
           DeleteFinish(a, t), id' = id
    PROVE  OwnerInv'
<1> DEFINE c == Owner(a)
<1>1. /\ timer \in [Timers -> TimerNode] /\ timer[t] \in TimerNode /\ TypeOK
      /\ call \in [Actors -> Call] /\ call[a] \in Call /\ t # Null
      /\ node' \in [Nodes -> ThreadNode] /\ timer' \in [Timers -> TimerNode]
  BY DEF TypeInv, TypeOK, Timers, Null
<1>2. timer[t].refcount = 1 /\ timer[t].inuse = "INUSE"
  BY DEF OwnerInv, PoolConserved, Valid
<1>3. /\ timer' = [timer EXCEPT ![t] = Deleted(@)] /\ node' = Unlinked(t)
      /\ call' = [call EXCEPT ![a].pc = "forget"]
  BY DEF DeleteFinish, Goto
<1>4. Deleted(timer[t]).inuse = "FREE"
  BY <1>1, <1>2, SlotRecords
<1>5. /\ timer'[t].inuse = "FREE" /\ \A u \in Timers : u # t => timer'[u] = timer[u]
      /\ ~Valid(t)' /\ \A u \in Timers : Valid(u)' => u # t /\ Valid(u) /\ timer'[u] = timer[u]
      /\ \A u \in Timers : u # t /\ Valid(u) => Valid(u)'
  BY <1>1, <1>3, <1>4 DEF Valid
<1>6. /\ call'[a].pc = "forget" /\ call'[a].next # "store"
      /\ \A b \in Actors : b # a => call'[b] = call[b]
  BY <1>1, <1>3 DEF Call
<1>7. PriosKnown' /\ \A b \in Actors : Owner(b)' = Owner(b)
  <2>1. \A n \in Nodes : SameThread(n)
    BY <1>1, <1>3, UnlinkThreads
  <2> QED BY <2>1, OwnersStay DEF OwnerInv
<1>8. \A b \in Actors : b # a /\ call[b].pc \in Deleting => Owner(b) # c
  <2> SUFFICES ASSUME NEW b \in Actors, call[b].pc \in Deleting, Owner(b) = c PROVE a = b
    OBVIOUS
  <2>1. MayDelete(b) /\ PriosKnown
    BY DEF OwnerInv, DeletesOwn
  <2>2. b \in Nodes => node[b].pc = "handler"
    BY OwnerKnown DEF Deleting, WaitingToDelete
  <2> QED BY <2>1, <2>2, OneDeleterLemma
<1>9. call[c].next # "store" /\ c \in Actors
  BY <1>1 DEF OwnerInv, AddsOwn, Actors
<1>10. PoolConserved'
  <2>1. \A u \in Timers : timer'[u].inuse \in {"INUSE", "FREE"}
    BY <1>5 DEF OwnerInv, PoolConserved
  <2> QED BY <2>1 DEF PoolConserved, ListInv, RefsExact
<1>11. AddsOwn'
  <2> SUFFICES ASSUME NEW b \in Actors, b # a
               PROVE  /\ call[b].pc \in {"add", "store"} => call[b].next = "store"
                      /\ call[b].next = "store" =>
                            /\ b \in Clients /\ id[b] = Null
                            /\ call[b].pc \in Adding /\ call[b].tid \in Timers
                            /\ timer'[call[b].tid].inuse = "INUSE"
                            /\ timer'[call[b].tid].event = b
    BY <1>6 DEF AddsOwn, Valid
  <2>1. call[b].next = "store" => call[b].tid # t
    BY <1>9 DEF OwnerInv, AddsOwn
  <2> QED BY <1>5, <2>1 DEF OwnerInv, AddsOwn, Valid
<1>12. DeletesOwn'
  <2> SUFFICES ASSUME NEW b \in Actors, call'[b].pc \in Deleting
               PROVE  /\ MayDelete(b)
                      /\ id[Owner(b)] # Null
                      /\ call'[b].pc \in WaitingToDelete =>
                          /\ call'[b].tid = id[Owner(b)]
                          /\ timer'[call'[b].tid].inuse = "INUSE"
                          /\ timer'[call'[b].tid].event = Owner(b)
                      /\ call'[b].pc = "forget" =>
                          \A u \in Timers : Valid(u)' => timer'[u].event # Owner(b)
    BY <1>7 DEF DeletesOwn, MayDelete, Valid
  <2>1. CASE b = a
    <3>1. ASSUME NEW u \in Timers, Valid(u)', timer'[u].event = c PROVE FALSE
      <4>1. Valid(u) /\ u # t /\ timer[u].event = c
        BY <1>5, <3>1
      <4>2. id[c] = u
        BY <1>9, <4>1 DEF OwnerInv, TimersReachable
      <4> QED BY <4>1, <4>2
    <3> QED BY <1>1, <1>6, <2>1, <3>1 DEF WaitingToDelete
  <2>2. CASE b # a
    <3>1. call'[b] = call[b] /\ Owner(b) # c
      BY <1>6, <1>8, <2>2
    <3>2. call[b].pc \in WaitingToDelete => call[b].tid \in Timers /\ call[b].tid # t
      BY <3>1 DEF OwnerInv, DeletesOwn, WaitingToDelete, Deleting, TypeInv, CallLocals
    <3> QED BY <1>5, <3>1, <3>2 DEF OwnerInv, DeletesOwn, Valid
  <2> QED BY <2>1, <2>2
<1>13. IdsLive'
  <2> SUFFICES ASSUME NEW d \in Clients, id[d] # Null,
                      \A b \in Actors : call'[b].pc = "forget" => Owner(b) # d
               PROVE  Valid(id[d])' /\ timer'[id[d]].event = d
    BY <1>7 DEF IdsLive, Valid
  <2>1. d # c /\ \A b \in Actors : call[b].pc = "forget" => Owner(b) # d
    BY <1>6
  <2>2. id[d] \in Timers /\ Valid(id[d]) /\ timer[id[d]].event = d
    BY <2>1 DEF OwnerInv, IdsLive, TypeInv, TypeOK
  <2> QED BY <1>5, <2>1, <2>2 DEF Valid
<1>14. TimersReachable'
  <2> SUFFICES ASSUME NEW u \in Timers, Valid(u)'
               PROVE  \/ id[timer'[u].event] = u
                      \/ /\ call'[timer'[u].event].tid = u
                         /\ call'[timer'[u].event].next = "store"
    BY DEF TimersReachable
  <2>1. Valid(u) /\ timer'[u] = timer[u] /\ timer[u].event \in Actors
    BY <1>5 DEF TypeInv, HandlersKnown, Valid, Actors
  <2> QED BY <1>6, <2>1 DEF OwnerInv, TimersReachable
<1> QED BY <1>7, <1>10, <1>11, <1>12, <1>13, <1>14 DEF OwnerInv

\* os_timer_del: the caller finds its own timer live, for no other thread deletes it.
LEMMA OwnerDelete ==
    ASSUME OneDeleter, TypeInv, ListInv, ServiceInv, OwnerInv, ListInv', TypeOK',
           NEW a \in Actors, Delete(a) \/ DeleteResume(a)
    PROVE  OwnerInv'
<1> DEFINE c == Owner(a)
<1>1. /\ call \in [Actors -> Call] /\ timer \in [Timers -> TimerNode] /\ call[a] \in Call
      /\ id' = id
  BY DEF TypeInv, TypeOK, Delete, DeleteResume
<1>2. CASE Delete(a)
  <2> DEFINE t == id[c]
  <2>1. Calls(a, "del") /\ call[a].pc = "idle" /\ MayDelete(a) /\ "del" \in Ops
    BY <1>2 DEF Delete, Calls, MayDelete, Ops
  <2>2. c \in Clients /\ t \in Timers /\ (a \in Nodes => node[a].pc = "handler")
    BY <2>1, CallerLemma
  <2>3. \A b \in Actors : call[b].pc \in Deleting => Owner(b) # c
    <3> SUFFICES ASSUME NEW b \in Actors, call[b].pc \in Deleting, Owner(b) = c PROVE FALSE
      OBVIOUS
    <3>1. MayDelete(b) /\ PriosKnown
      BY DEF OwnerInv, DeletesOwn
    <3>2. b \in Nodes => node[b].pc = "handler"
      BY OwnerKnown DEF Deleting, WaitingToDelete
    <3>3. a = b
      BY <2>1, <2>2, <3>1, <3>2, OneDeleterLemma
    <3> QED BY <2>1, <3>3 DEF Deleting, WaitingToDelete
  <2>4. Valid(t) /\ timer[t].event = c /\ t # Null
    BY <2>2, <2>3 DEF OwnerInv, IdsLive, Deleting, Null, Timers
  <2>5. call[a].next # "store"
    BY <2>1 DEF OwnerInv, AddsOwn, Adding
  <2>6. CASE DeleteFinish(a, t)
    BY <1>1, <2>1, <2>2, <2>4, <2>5, <2>6, OwnerFinish
  <2>7. ASSUME NEW n, DeleteWait(a, t, n) PROVE OwnerInv'
    <3> DEFINE k == [NoCall EXCEPT !.pc = "delwait", !.tid = t, !.thread = n]
    <3>1. k.pc = "delwait" /\ k.tid = t /\ k.next = "idle"
      BY DEF NoCall
    <3>2. call' = [call EXCEPT ![a] = k] /\ UNCHANGED <<timer, node>>
      BY <2>7 DEF DeleteWait
    <3> HIDE DEF k
    <3>3. call'[a] = k /\ \A b \in Actors : b # a => call'[b] = call[b]
      BY <1>1, <3>2
    <3>4. \A b \in Actors : Owner(b)' = Owner(b)
      BY <3>2 DEF Owner
    <3>5. PoolConserved' /\ PriosKnown'
      BY <3>2 DEF OwnerInv, PoolConserved, PriosKnown
    <3>6. AddsOwn'
      BY <1>1, <3>1, <3>2, <3>3 DEF OwnerInv, AddsOwn, Valid
    <3>7. DeletesOwn'
      <4> SUFFICES ASSUME NEW b \in Actors, call'[b].pc \in Deleting
                   PROVE  /\ MayDelete(b)
                          /\ id[Owner(b)] # Null
                          /\ call'[b].pc \in WaitingToDelete =>
                              /\ call'[b].tid = id[Owner(b)]
                              /\ timer[call'[b].tid].inuse = "INUSE"
                              /\ timer[call'[b].tid].event = Owner(b)
                          /\ call'[b].pc = "forget" =>
                              \A u \in Timers : Valid(u) => timer[u].event # Owner(b)
        BY <1>1, <3>2, <3>4 DEF DeletesOwn, MayDelete, Valid
      <4>1. CASE b = a
        BY <2>1, <2>4, <3>1, <3>3, <4>1 DEF Valid
      <4>2. CASE b # a
        BY <3>3, <4>2 DEF OwnerInv, DeletesOwn, Valid
      <4> QED BY <4>1, <4>2
    <3>8. IdsLive'
      <4> SUFFICES ASSUME NEW d \in Clients, id[d] # Null,
                          \A b \in Actors : call'[b].pc = "forget" => Owner(b) # d
                   PROVE  Valid(id[d]) /\ timer[id[d]].event = d
        BY <1>1, <3>2, <3>4 DEF IdsLive, Valid
      <4> QED BY <2>1, <3>3 DEF OwnerInv, IdsLive
    <3>9. TimersReachable'
      <4> SUFFICES ASSUME NEW u \in Timers, Valid(u)
                   PROVE  \/ id[timer[u].event] = u
                          \/ /\ call'[timer[u].event].tid = u
                             /\ call'[timer[u].event].next = "store"
        BY <1>1, <3>2 DEF TimersReachable, Valid
      <4>1. timer[u].event \in Actors
        BY DEF TypeInv, HandlersKnown, Valid, Actors
      <4> QED BY <2>5, <3>3, <4>1 DEF OwnerInv, TimersReachable
    <3> QED BY <3>5, <3>6, <3>7, <3>8, <3>9 DEF OwnerInv
  <2> QED BY <1>2, <2>4, <2>6, <2>7 DEF Delete
<1>3. CASE DeleteResume(a)
  <2> DEFINE t == call[a].tid
  <2>1. call[a].pc = "delwoken" /\ call[a].pc \in WaitingToDelete
    BY <1>3 DEF DeleteResume, WaitingToDelete
  <2>2. /\ MayDelete(a) /\ t = id[c] /\ Valid(t) /\ timer[t].event = c
        /\ call[a].next # "store"
    BY <2>1 DEF OwnerInv, DeletesOwn, AddsOwn, Adding, Deleting
  <2>3. c \in Clients /\ t \in Timers /\ (a \in Nodes => node[a].pc = "handler")
    BY <2>1, OwnerKnown DEF TypeInv, CallLocals
  <2>4. CASE DeleteFinish(a, t)
    BY <1>1, <2>2, <2>3, <2>4, OwnerFinish
  <2>5. ASSUME NEW n, DeleteWait(a, t, n) PROVE OwnerInv'
    <3> DEFINE k == [NoCall EXCEPT !.pc = "delwait", !.tid = t, !.thread = n]
    <3>1. k.pc = "delwait" /\ k.tid = t /\ k.next = "idle"
      BY DEF NoCall
    <3>2. call' = [call EXCEPT ![a] = k] /\ UNCHANGED <<timer, node>>
      BY <2>5 DEF DeleteWait
    <3> HIDE DEF k
    <3>3. \A b \in Actors : KeepsCall(b)
      BY <1>1, <2>1, <3>1, <3>2 DEF KeepsCall, WaitingToDelete
    <3>4. /\ PriosKnown' /\ \A b \in Actors : Owner(b)' = Owner(b)
          /\ \A u \in Timers : SameOwner(u)
      BY <3>2 DEF OwnerInv, PriosKnown, Owner, SameOwner
    <3> QED BY <1>1, <3>2, <3>3, <3>4, OwnerStep
  <2> QED BY <1>3, <2>4, <2>5 DEF DeleteResume
<1> QED BY <1>2, <1>3

\* The caller of os_timer_del clears its variable, which named no live timer.
LEMMA OwnerForget ==
    ASSUME OneDeleter, TypeInv, ServiceInv, OwnerInv, NEW a \in Actors, Forget(a)
    PROVE  OwnerInv'
<1> DEFINE c == Owner(a)
<1>1. /\ call \in [Actors -> Call] /\ call[a].pc = "forget" /\ call[a].pc \in Deleting
      /\ id \in [Clients -> Timers \cup {Null}] /\ UNCHANGED <<timer, node>>
      /\ id' = [id EXCEPT ![c] = Null] /\ call' = [call EXCEPT ![a] = NoCall]
  BY DEF TypeInv, TypeOK, Forget, Return, Deleting
<1>2. c \in Clients /\ (a \in Nodes => node[a].pc = "handler")
  BY <1>1, OwnerKnown
<1>3. /\ MayDelete(a) /\ id[c] # Null /\ \A t \in Timers : Valid(t) => timer[t].event # c
  BY <1>1 DEF OwnerInv, DeletesOwn
<1>4. /\ id'[c] = Null /\ \A d \in Clients : d # c => id'[d] = id[d]
      /\ call'[a].pc = "idle" /\ call'[a].next = "idle"
      /\ \A b \in Actors : b # a => call'[b] = call[b]
  BY <1>1, <1>2 DEF NoCall
<1>5. \A b \in Actors : Owner(b)' = Owner(b)
  BY <1>1 DEF Owner
<1>6. \A b \in Actors : b # a /\ call[b].pc \in Deleting => Owner(b) \in Clients \ {c}
  <2> SUFFICES ASSUME NEW b \in Actors, call[b].pc \in Deleting, b # a
               PROVE  Owner(b) \in Clients \ {c}
    OBVIOUS
  <2>1. MayDelete(b) /\ PriosKnown
    BY DEF OwnerInv, DeletesOwn
  <2>2. Owner(b) \in Clients /\ (b \in Nodes => node[b].pc = "handler")
    BY OwnerKnown DEF Deleting, WaitingToDelete
  <2> QED BY <1>2, <1>3, <2>1, <2>2, OneDeleterLemma
<1>7. PoolConserved' /\ PriosKnown'
  BY <1>1 DEF OwnerInv, PoolConserved, PriosKnown
<1>8. AddsOwn'
  BY <1>1, <1>4 DEF OwnerInv, AddsOwn, Valid
<1>9. DeletesOwn'
  <2> SUFFICES ASSUME NEW b \in Actors, call'[b].pc \in Deleting
               PROVE  /\ MayDelete(b)
                      /\ id'[Owner(b)] # Null
                      /\ call'[b].pc \in WaitingToDelete =>
                          /\ call'[b].tid = id'[Owner(b)]
                          /\ timer[call'[b].tid].inuse = "INUSE"
                          /\ timer[call'[b].tid].event = Owner(b)
                      /\ call'[b].pc = "forget" =>
                          \A u \in Timers : Valid(u) => timer[u].event # Owner(b)
    BY <1>1, <1>5 DEF DeletesOwn, MayDelete, Valid
  <2>1. b # a /\ call'[b] = call[b]
    BY <1>4 DEF Deleting, WaitingToDelete
  <2>2. id'[Owner(b)] = id[Owner(b)]
    BY <1>4, <1>6, <2>1
  <2> QED BY <2>1, <2>2 DEF OwnerInv, DeletesOwn, Valid
<1>10. IdsLive'
  <2> SUFFICES ASSUME NEW d \in Clients, id'[d] # Null,
                      \A b \in Actors : call'[b].pc = "forget" => Owner(b) # d
               PROVE  Valid(id'[d]) /\ timer[id'[d]].event = d
    BY <1>1, <1>5 DEF IdsLive, Valid
  <2>1. d # c /\ id'[d] = id[d]
    BY <1>4
  <2>2. \A b \in Actors : call[b].pc = "forget" => Owner(b) # d
    BY <1>4, <2>1
  <2> QED BY <2>1, <2>2 DEF OwnerInv, IdsLive
<1>11. TimersReachable'
  <2> SUFFICES ASSUME NEW u \in Timers, Valid(u)
               PROVE  \/ id'[timer[u].event] = u
                      \/ /\ call'[timer[u].event].tid = u
                         /\ call'[timer[u].event].next = "store"
    BY <1>1 DEF TimersReachable, Valid
  <2>1. timer[u].event \in Clients /\ timer[u].event \in Actors /\ timer[u].event # c
    BY <1>3 DEF TypeInv, HandlersKnown, Valid, Actors
  <2>2. call[a].next # "store"
    BY <1>1 DEF OwnerInv, AddsOwn, Adding
  <2> QED BY <1>4, <2>1, <2>2 DEF OwnerInv, TimersReachable
<1> QED BY <1>7, <1>8, <1>9, <1>10, <1>11 DEF OwnerInv

\* The slot os_timer_add takes, and what the step leaves of the rest.
LEMMA AddSlot ==
    ASSUME TypeInv, ListInv, NEW c \in Clients, Add(c)
    PROVE  LET t == Head(timerFree) IN
           /\ t \in Timers /\ timer[t].inuse = "FREE" /\ id' = id /\ id[c] = Null
           /\ call[c].pc = "idle"
           /\ \A u \in Timers : u # t => timer'[u] = timer[u]
           /\ \/ /\ call' = call /\ node' = node /\ timer'[t].inuse = "FREE"
              \/ /\ timer'[t].inuse = "INUSE" /\ timer'[t].event = c /\ ~timer'[t].armed
                 /\ \E k : /\ call' = [call EXCEPT ![c] = k]
                           /\ k.pc = "add" /\ k.next = "store" /\ k.tid = t /\ k.millisec # 0
                 /\ \A n \in Nodes :
                        \/ node'[n] = node[n]
                        \/ node[n].pc = "none" /\ node'[n].pc = "run" /\ node'[n].prio \in Prios
<1> DEFINE t == Head(timerFree)
<1>1. /\ TypeOK /\ timerFree # << >> /\ timerFree \in Seq(Timers) /\ Distinct(timerFree)
      /\ timer \in [Timers -> TimerNode] /\ node \in [Nodes -> ThreadNode]
      /\ threadFree \in Seq(Nodes)
  BY QueueTypes DEF TypeInv, TypeOK, Add, ListInv, ListsExact
<1>2. t \in Timers /\ t \in ToSet(timerFree)
  BY <1>1, TailSet
<1>3. id' = id /\ id[c] = Null /\ call[c].pc = "idle"
  BY DEF Add, CreateOnThread, CreateAndSpawn, CreateBails
<1> HIDE DEF t
<1>4. timer[t].inuse = "FREE" /\ timer[t] \in TimerNode
  BY <1>1, <1>2 DEF ListInv, ListsExact
<1>5. ASSUME NEW n, timer' = [timer EXCEPT ![t] = Created(@, c, n)]
      PROVE  /\ timer'[t].inuse = "INUSE" /\ timer'[t].event = c /\ ~timer'[t].armed
             /\ \A u \in Timers : u # t => timer'[u] = timer[u]
  BY <1>1, <1>2, <1>4, <1>5 DEF Created, TimerNode
<1>6. ASSUME NEW ms \in Periods, NEW type, NEW stopped,
             call' = [call EXCEPT ![c] = AddArgs(t, ms, type, stopped)]
      PROVE  \E k : /\ call' = [call EXCEPT ![c] = k]
                    /\ k.pc = "add" /\ k.next = "store" /\ k.tid = t /\ k.millisec # 0
  <2>1. /\ AddArgs(t, ms, type, stopped).pc = "add"
        /\ AddArgs(t, ms, type, stopped).next = "store"
        /\ AddArgs(t, ms, type, stopped).tid = t
        /\ AddArgs(t, ms, type, stopped).millisec = ms
    BY DEF AddArgs, NoCall
  <2> QED BY <1>6, <2>1, PeriodAssumption
<1>7. ASSUME NEW p \in Prios, CreateOnThread(c, p)
      PROVE  /\ timer'[t].inuse = "INUSE" /\ timer'[t].event = c /\ ~timer'[t].armed
             /\ \A u \in Timers : u # t => timer'[u] = timer[u]
             /\ \E k : /\ call' = [call EXCEPT ![c] = k]
                       /\ k.pc = "add" /\ k.next = "store" /\ k.tid = t /\ k.millisec # 0
             /\ node' = node
  <2>1. PICK n, ms, type, stopped :
            /\ ms \in Periods /\ timer' = [timer EXCEPT ![t] = Created(@, c, n)]
            /\ call' = [call EXCEPT ![c] = AddArgs(t, ms, type, stopped)]
            /\ node' = node
    BY <1>7 DEF CreateOnThread, t
  <2> QED BY <1>5, <1>6, <2>1
<1>8. ASSUME NEW p \in Prios, CreateAndSpawn(c, p)
      PROVE  /\ timer'[t].inuse = "INUSE" /\ timer'[t].event = c /\ ~timer'[t].armed
             /\ \A u \in Timers : u # t => timer'[u] = timer[u]
             /\ \E k : /\ call' = [call EXCEPT ![c] = k]
                       /\ k.pc = "add" /\ k.next = "store" /\ k.tid = t /\ k.millisec # 0
             /\ \A n \in Nodes :
                    \/ node'[n] = node[n]
                    \/ node[n].pc = "none" /\ node'[n].pc = "run" /\ node'[n].prio \in Prios
  <2> DEFINE m == Head(threadFree)
             new == [NewThread EXCEPT !.prio = p, !.pc = "run"]
  <2>1. PICK ms, type, stopped :
            /\ ms \in Periods /\ timer' = [timer EXCEPT ![t] = Created(@, c, m)]
            /\ call' = [call EXCEPT ![c] = AddArgs(t, ms, type, stopped)]
            /\ node' = [node EXCEPT ![m] = new]
            /\ threadFree # << >>
    BY <1>8 DEF CreateAndSpawn, t
  <2>2. new.prio = p /\ new.pc = "run"
    BY DEF NewThread
  <2>3. m = threadFree[1] /\ 1 \in 1..Len(threadFree) /\ m \in Nodes
    BY <1>1, <2>1, EmptySeq, LenProperties, ElementOfSeq, HeadTailProperties
  <2>4. node[m].pc = "none"
    BY <2>3 DEF TypeInv, FreeThreads
  <2> HIDE DEF m, new
  <2>5. \A n \in Nodes :
            \/ node'[n] = node[n]
            \/ node[n].pc = "none" /\ node'[n].pc = "run" /\ node'[n].prio \in Prios
    BY <1>1, <2>1, <2>2, <2>3, <2>4
  <2> QED BY <1>5, <1>6, <2>1, <2>5
<1>9. ASSUME NEW p \in Prios, CreateBails(c, p)
      PROVE  /\ call' = call /\ node' = node /\ timer'[t].inuse = "FREE"
             /\ \A u \in Timers : u # t => timer'[u] = timer[u]
  <2>1. /\ timer' = [timer EXCEPT ![t] = Dealloc([@ EXCEPT !.event = c])]
        /\ call' = call /\ node' = node
    BY <1>9 DEF CreateBails, t
  <2>2. Dealloc([timer[t] EXCEPT !.event = c]).inuse = "FREE"
    BY <1>4, SlotRecords
  <2> QED BY <1>1, <1>2, <2>1, <2>2
<1>10. PICK p \in Prios : CreateOnThread(c, p) \/ CreateAndSpawn(c, p) \/ CreateBails(c, p)
  BY DEF Add
<1> QED BY <1>2, <1>3, <1>4, <1>7, <1>8, <1>9, <1>10 DEF t

\* os_timer_add creates a timer for a client that has none.
LEMMA OwnerAdd ==
    ASSUME TypeInv, ListInv, OwnerInv, ListInv', TypeOK', NEW c \in Clients, Add(c)
    PROVE  OwnerInv'
<1> DEFINE t == Head(timerFree)
<1>1. /\ t \in Timers /\ timer[t].inuse = "FREE" /\ id' = id /\ id[c] = Null
      /\ call[c].pc = "idle" /\ c \in Actors
      /\ \A u \in Timers : u # t => timer'[u] = timer[u]
      /\ call \in [Actors -> Call] /\ timer' \in [Timers -> TimerNode]
  BY AddSlot DEF TypeInv, TypeOK, Actors
<1>2. CASE call' = call /\ node' = node /\ timer'[t].inuse = "FREE"
  <2>1. \A u \in Timers : SameOwner(u)
    BY <1>1, <1>2 DEF SameOwner
  <2>2. \A b \in Actors : KeepsCall(b) /\ Owner(b)' = Owner(b)
    BY <1>2 DEF KeepsCall, Owner
  <2>3. PriosKnown'
    BY <1>2 DEF OwnerInv, PriosKnown
  <2> QED BY <1>1, <2>1, <2>2, <2>3, OwnerStep
<1>3. ASSUME timer'[t].inuse = "INUSE", timer'[t].event = c,
             NEW k, call' = [call EXCEPT ![c] = k],
             k.pc = "add", k.next = "store", k.tid = t,
             \A n \in Nodes :
                \/ node'[n] = node[n]
                \/ node[n].pc = "none" /\ node'[n].pc = "run" /\ node'[n].prio \in Prios
      PROVE  OwnerInv'
  <2> HIDE DEF t
  <2>1. call'[c] = k /\ \A b \in Actors : b # c => call'[b] = call[b]
    BY <1>1, <1>3
  <2>2. \A b \in Actors : call[b].pc # "idle" => Owner(b)' = Owner(b)
    BY <1>3 DEF Owner, TypeInv, ServiceLocals, Actors
  <2>3. /\ ~Valid(t) /\ \A u \in Timers : u # t => (Valid(u)' <=> Valid(u))
        /\ \A u \in Timers : Valid(u) => u # t /\ timer'[u] = timer[u] /\ Valid(u)'
    BY <1>1, <1>3 DEF Valid
  <2>4. PoolConserved'
    <3>1. \A u \in Timers : timer'[u].inuse \in {"INUSE", "FREE"}
      BY <1>1, <1>3 DEF OwnerInv, PoolConserved
    <3> QED BY <3>1 DEF PoolConserved, ListInv, RefsExact
  <2>5. PriosKnown'
    BY <1>3 DEF OwnerInv, PriosKnown
  <2>6. AddsOwn'
    <3> SUFFICES ASSUME NEW b \in Actors
                 PROVE  /\ call'[b].pc \in {"add", "store"} => call'[b].next = "store"
                        /\ call'[b].next = "store" =>
                            /\ b \in Clients /\ id[b] = Null
                            /\ call'[b].pc \in Adding /\ call'[b].tid \in Timers
                            /\ timer'[call'[b].tid].inuse = "INUSE"
                            /\ timer'[call'[b].tid].event = b
      BY <1>1 DEF AddsOwn, Valid
    <3>1. CASE b = c
      BY <1>1, <1>3, <2>1, <3>1 DEF Adding
    <3>2. CASE b # c
      BY <1>1, <2>1, <2>3, <3>2 DEF OwnerInv, AddsOwn, Valid
    <3> QED BY <3>1, <3>2
  <2>7. DeletesOwn'
    <3> SUFFICES ASSUME NEW b \in Actors, call'[b].pc \in Deleting
                 PROVE  /\ MayDelete(b)
                        /\ id[Owner(b)'] # Null
                        /\ call'[b].pc \in WaitingToDelete =>
                            /\ call'[b].tid = id[Owner(b)']
                            /\ timer'[call'[b].tid].inuse = "INUSE"
                            /\ timer'[call'[b].tid].event = Owner(b)'
                        /\ call'[b].pc = "forget" =>
                            \A u \in Timers : Valid(u)' => timer'[u].event # Owner(b)'
      BY <1>1 DEF DeletesOwn, MayDelete, Valid
    <3>1. call'[b] = call[b] /\ call[b].pc \in Deleting /\ Owner(b)' = Owner(b)
      BY <1>3, <2>1, <2>2 DEF Deleting, WaitingToDelete
    <3>2. id[Owner(b)] # Null /\ Owner(b) # c /\ MayDelete(b)
      BY <1>1, <3>1 DEF OwnerInv, DeletesOwn
    <3>3. ASSUME call[b].pc \in WaitingToDelete
          PROVE  /\ call[b].tid = id[Owner(b)]
                 /\ timer'[call[b].tid].inuse = "INUSE"
                 /\ timer'[call[b].tid].event = Owner(b)
      <4>1. /\ call[b].tid \in Timers /\ Valid(call[b].tid) /\ call[b].tid = id[Owner(b)]
            /\ timer[call[b].tid].event = Owner(b)
        BY <3>1, <3>3 DEF OwnerInv, DeletesOwn, TypeInv, CallLocals, WaitingToDelete
      <4> QED BY <2>3, <4>1 DEF Valid
    <3>4. ASSUME call[b].pc = "forget", NEW u \in Timers, Valid(u)'
          PROVE  timer'[u].event # Owner(b)
      <4>1. CASE u = t
        BY <1>3, <3>2, <4>1
      <4>2. CASE u # t
        BY <1>1, <2>3, <3>1, <3>4, <4>2 DEF OwnerInv, DeletesOwn
      <4> QED BY <4>1, <4>2
    <3> QED BY <3>1, <3>2, <3>3, <3>4
  <2>8. IdsLive'
    <3> SUFFICES ASSUME NEW d \in Clients, id[d] # Null,
                        \A b \in Actors : call'[b].pc = "forget" => Owner(b)' # d
                 PROVE  timer'[id[d]].inuse = "INUSE" /\ timer'[id[d]].event = d
      BY <1>1 DEF IdsLive, Valid
    <3>1. \A b \in Actors : call[b].pc = "forget" => Owner(b) # d
      BY <1>1, <2>1, <2>2
    <3>2. id[d] \in Timers /\ Valid(id[d]) /\ timer[id[d]].event = d
      BY <3>1 DEF OwnerInv, IdsLive, TypeInv, TypeOK
    <3> QED BY <2>3, <3>2 DEF Valid
  <2>9. TimersReachable'
    <3> SUFFICES ASSUME NEW u \in Timers, Valid(u)'
                 PROVE  \/ id[timer'[u].event] = u
                        \/ /\ call'[timer'[u].event].tid = u
                           /\ call'[timer'[u].event].next = "store"
      BY <1>1 DEF TimersReachable
    <3>1. CASE u = t
      BY <1>3, <2>1, <3>1
    <3>2. CASE u # t
      <4>1. Valid(u) /\ timer'[u] = timer[u] /\ timer[u].event \in Actors
        BY <1>1, <2>3, <3>2 DEF TypeInv, HandlersKnown, Valid, Actors
      <4>2. call[c].next # "store"
        BY <1>1 DEF OwnerInv, AddsOwn, Adding
      <4> QED BY <2>1, <4>1, <4>2 DEF OwnerInv, TimersReachable
    <3> QED BY <3>1, <3>2
  <2> QED BY <2>4, <2>5, <2>6, <2>7, <2>8, <2>9 DEF OwnerInv
<1> QED BY <1>2, <1>3, AddSlot

\* os_timer_add stores the id of the live timer it created.
LEMMA OwnerStore ==
    ASSUME TypeInv, OwnerInv, NEW c \in Clients, AddStore(c)
    PROVE  OwnerInv'
<1> DEFINE t == call[c].tid
<1>1. /\ call \in [Actors -> Call] /\ c \in Actors /\ call[c].pc = "store"
      /\ id \in [Clients -> Timers \cup {Null}] /\ UNCHANGED <<timer, node>>
      /\ id' = [id EXCEPT ![c] = t] /\ call' = [call EXCEPT ![c] = NoCall]
  BY DEF TypeInv, TypeOK, AddStore, Return, Actors
<1>2. /\ call[c].next = "store" /\ id[c] = Null /\ t \in Timers /\ Valid(t)
      /\ timer[t].event = c
  BY <1>1 DEF OwnerInv, AddsOwn
<1> HIDE DEF t
<1>3. /\ id'[c] = t /\ \A d \in Clients : d # c => id'[d] = id[d]
      /\ call'[c].pc = "idle" /\ call'[c].next = "idle"
      /\ \A b \in Actors : b # c => call'[b] = call[b]
  BY <1>1, <1>2 DEF NoCall
<1>4. \A b \in Actors : Owner(b)' = Owner(b)
  BY <1>1 DEF Owner
<1>5. \A b \in Actors : call[b].pc \in Deleting => Owner(b) \in Clients \ {c}
  BY <1>2, OwnerKnown DEF OwnerInv, DeletesOwn, Deleting, WaitingToDelete
<1>6. PoolConserved' /\ PriosKnown'
  BY <1>1 DEF OwnerInv, PoolConserved, PriosKnown
<1>7. AddsOwn'
  BY <1>1, <1>3 DEF OwnerInv, AddsOwn, Valid
<1>8. DeletesOwn'
  <2> SUFFICES ASSUME NEW b \in Actors, call'[b].pc \in Deleting
               PROVE  /\ MayDelete(b)
                      /\ id'[Owner(b)] # Null
                      /\ call'[b].pc \in WaitingToDelete =>
                          /\ call'[b].tid = id'[Owner(b)]
                          /\ timer[call'[b].tid].inuse = "INUSE"
                          /\ timer[call'[b].tid].event = Owner(b)
                      /\ call'[b].pc = "forget" =>
                          \A u \in Timers : Valid(u) => timer[u].event # Owner(b)
    BY <1>1, <1>4 DEF DeletesOwn, MayDelete, Valid
  <2>1. b # c /\ call'[b] = call[b]
    BY <1>3 DEF Deleting, WaitingToDelete
  <2>2. id'[Owner(b)] = id[Owner(b)]
    BY <1>3, <1>5, <2>1
  <2> QED BY <2>1, <2>2 DEF OwnerInv, DeletesOwn, Valid
<1>9. IdsLive'
  <2> SUFFICES ASSUME NEW d \in Clients, id'[d] # Null,
                      \A b \in Actors : call'[b].pc = "forget" => Owner(b) # d
               PROVE  Valid(id'[d]) /\ timer[id'[d]].event = d
    BY <1>1, <1>4 DEF IdsLive, Valid
  <2>1. CASE d = c
    BY <1>2, <1>3, <2>1
  <2>2. CASE d # c
    <3>1. id'[d] = id[d] /\ \A b \in Actors : call[b].pc = "forget" => Owner(b) # d
      BY <1>1, <1>3, <2>2
    <3> QED BY <3>1 DEF OwnerInv, IdsLive
  <2> QED BY <2>1, <2>2
<1>10. TimersReachable'
  <2> SUFFICES ASSUME NEW u \in Timers, Valid(u)
               PROVE  \/ id'[timer[u].event] = u
                      \/ /\ call'[timer[u].event].tid = u
                         /\ call'[timer[u].event].next = "store"
    BY <1>1 DEF TimersReachable, Valid
  <2>1. timer[u].event \in Clients /\ timer[u].event \in Actors
    BY DEF TypeInv, HandlersKnown, Valid, Actors
  <2>2. id[timer[u].event] = u \/ (call[timer[u].event].tid = u
                                    /\ call[timer[u].event].next = "store")
    BY DEF OwnerInv, TimersReachable
  <2>3. u # Null
    BY DEF Timers, Null
  <2> QED BY <1>2, <1>3, <2>1, <2>2, <2>3 DEF t
<1> QED BY <1>6, <1>7, <1>8, <1>9, <1>10 DEF OwnerInv

\* At first there is no timer and no call.
LEMMA OwnerInit == Init => OwnerInv
  BY DEF Init, OwnerInv, PoolConserved, IdsLive, TimersReachable, AddsOwn, DeletesOwn, PriosKnown,
         NewTimer, NewThread, NoCall, Valid, Deleting, WaitingToDelete

\* Every step keeps the invariant.
LEMMA OwnerNext ==
    ASSUME OneDeleter
    PROVE  TypeInv /\ ListInv /\ ServiceInv /\ OwnerInv /\ [Next]_vars => OwnerInv'
<1> SUFFICES ASSUME TypeInv, ListInv, ServiceInv, OwnerInv, [Next]_vars PROVE OwnerInv'
  OBVIOUS
<1>1. TypeOK /\ TypeOK' /\ ListInv'
  BY TypeNext, ListNext DEF TypeInv
<1>2. timer' \in [Timers -> TimerNode] /\ node' \in [Nodes -> ThreadNode]
  BY <1>1 DEF TypeOK
<1>3. ASSUME id' = id, \A u \in Timers : SameOwner(u), \A b \in Actors : KeepsCall(b),
             \A n \in Nodes : SameThread(n)
      PROVE  OwnerInv'
  <2>1. PriosKnown' /\ \A b \in Actors : Owner(b)' = Owner(b)
    BY <1>3, OwnersStay DEF OwnerInv
  <2> QED BY <1>1, <1>2, <1>3, <2>1, OwnerStep
<1>4. ASSUME NEW a \in Actors,
             \/ a \in Clients /\ AddRecord(a)
             \/ Start(a) \/ Stop(a) \/ Period(a) \/ Change(a)
             \/ ChangePeriod(a) \/ ChangeStart(a) \/ ReadClock(a)
      PROVE  OwnerInv'
  <2>1. UNCHANGED <<node, id>> /\ (\A u \in Timers : SameOwner(u))
        /\ \A b \in Actors : KeepsCall(b)
    BY <1>4, QuietCalls
  <2> QED BY <1>3, <2>1 DEF SameThread
<1>5. ASSUME NEW c \in Clients, Add(c) \/ AddStep(c) PROVE OwnerInv'
  <2>1. c \in Actors
    BY DEF Actors
  <2> QED BY <1>1, <1>4, <1>5, <2>1, OwnerAdd, OwnerStore DEF AddStep
<1>6. ASSUME NEW a \in Actors, Begin(a) PROVE OwnerInv'
  BY <1>1, <1>4, <1>6, OwnerDelete DEF Begin
<1>7. ASSUME NEW a \in Actors, CallStep(a) PROVE OwnerInv'
  <2>1. CASE SettimeDisarm(a) \/ SettimeArm(a) \/ SettimeInvalid(a)
    BY <1>2, <1>3, <2>1, QuietSettime
  <2> QED BY <1>1, <1>4, <1>7, <2>1, OwnerWakeup, OwnerDelete, OwnerForget DEF CallStep
<1>8. ASSUME NEW n \in Nodes, ServiceStep(n) \/ HandlerReturn(n) \/ SpuriousWakeup(n)
      PROVE  OwnerInv'
  BY <1>1, <1>8, OwnerThread
<1>9. CASE Tick \/ UNCHANGED vars
  <2>1. UNCHANGED <<timer, node, call, id>>
    BY <1>9 DEF Tick, vars
  <2> QED BY <1>3, <2>1 DEF SameOwner, KeepsCall, SameThread
<1> QED BY <1>5, <1>6, <1>7, <1>8, <1>9 DEF Next

-----------------------------------------------------------------------------
(* When nobody stops a timer *)

\* Only clients delete, and no call disarms a timer.
NoStops ==
    /\ "del" \notin HandlerOps
    /\ \A op \in {"stop", "change"} : op \notin ClientOps /\ op \notin HandlerOps

Serving == {"call", "handler"}

\* A timer that node n services is live, n's own, and armed, so that os_timer_del
\* looks at its thread.
ServesLive(n) ==
    LET t == node[n].current IN
    node[n].pc \in Serving =>
        /\ Valid(t) /\ timer[t].thread = n /\ timer[t].armed
        /\ node[n].pc = "handler" => node[n].owner = timer[t].event

Settling == {"clock", "settime"}

\* Only os_timer_add passes a zero value, and before its timer was ever armed;
\* any other call is about the live timer in its owner's variable; a deleter
\* waits on the thread of its timer.
CallsLive(a) ==
    LET t == call[a].tid IN
    /\ call[a].pc \notin {"start", "period"} /\ call[a].next # "period"
    /\ call[a].pc = "add" => call[a].millisec # 0
    /\ call[a].pc \in Settling \cup {"add"} /\ call[a].next = "store" => ~timer[t].armed
    /\ call[a].pc \in Settling /\ call[a].next # "store" =>
        /\ call[a].value # 0
        /\ t = id[Owner(a)] /\ Valid(t) /\ timer[t].event = Owner(a)
    /\ call[a].pc \in WaitingToDelete => call[a].thread = timer[t].thread

\* Timer t has a period, or its creator is about to record it.
HasPeriod(t) ==
    Valid(t) => \/ timer[t].millisec # 0
                \/ call[timer[t].event].pc = "add" /\ call[timer[t].event].tid = t

ServicedInv ==
    /\ \A n \in Nodes : ServesLive(n)
    /\ \A a \in Actors : CallsLive(a)
    /\ \A t \in Timers : HasPeriod(t)

\* What keeps a serviced timer as it is.
LEMMA ServesKept ==
    ASSUME TypeInv, NEW n \in Nodes, ServesLive(n),
           node'[n].pc \in Serving =>
                /\ node'[n].pc = node[n].pc /\ node'[n].current = node[n].current
                /\ node'[n].owner = node[n].owner,
           \A u \in Timers : node[n].pc \in Serving /\ node[n].current = u /\ Valid(u) =>
                /\ timer'[u].inuse = "INUSE" /\ timer'[u].thread = timer[u].thread
                /\ timer'[u].event = timer[u].event
                /\ timer[u].armed => timer'[u].armed
    PROVE  ServesLive(n)'
<1>1. node[n].pc \in Serving => node[n].current \in Timers
  BY DEF TypeInv, ServiceLocals, Serving
<1> QED BY <1>1 DEF ServesLive, Valid

\* What keeps the call of actor b as it is.
LEMMA CallKept ==
    ASSUME TypeInv, OwnerInv, NEW b \in Actors, CallsLive(b),
           \/ call'[b] = call[b]
           \/ /\ call[b].pc \in WaitingToDelete /\ call'[b].pc \in WaitingToDelete
              /\ call'[b].tid = call[b].tid /\ call'[b].thread = call[b].thread
              /\ call'[b].next = call[b].next,
           call[b].pc # "idle" => Owner(b)' = Owner(b),
           call[b].pc \in Settling \cup {"add"} /\ call[b].next = "store"
                /\ ~timer[call[b].tid].armed => ~timer'[call[b].tid].armed,
           call[b].pc \in WaitingToDelete /\ Valid(call[b].tid) =>
                timer'[call[b].tid].thread = timer[call[b].tid].thread,
           call[b].pc \in Settling /\ call[b].next # "store" /\ Valid(call[b].tid)
                /\ call[b].tid = id[Owner(b)] /\ timer[call[b].tid].event = Owner(b) =>
                    /\ id'[Owner(b)] = id[Owner(b)] /\ timer'[call[b].tid].inuse = "INUSE"
                    /\ timer'[call[b].tid].event = timer[call[b].tid].event
    PROVE  CallsLive(b)'
<1>1. call[b].pc \in WaitingToDelete => Valid(call[b].tid)
  BY DEF OwnerInv, DeletesOwn, Deleting
<1>2. CASE call'[b] = call[b]
  <2>1. /\ call'[b].pc \notin {"start", "period"} /\ call'[b].next # "period"
        /\ call'[b].pc = "add" => call'[b].millisec # 0
        /\ call'[b].pc \in Settling \cup {"add"} /\ call'[b].next = "store" =>
                ~timer'[call'[b].tid].armed
        /\ call'[b].pc \in WaitingToDelete => call'[b].thread = timer'[call'[b].tid].thread
    BY <1>1, <1>2 DEF CallsLive
  <2>2. call'[b].pc \in Settling /\ call'[b].next # "store" =>
            /\ call'[b].value # 0 /\ call'[b].tid = id'[Owner(b)']
            /\ timer'[call'[b].tid].inuse = "INUSE" /\ timer'[call'[b].tid].event = Owner(b)'
    BY <1>2 DEF CallsLive, Settling
  <2> QED BY <2>1, <2>2 DEF CallsLive, Valid
<1>3. CASE /\ call[b].pc \in WaitingToDelete /\ call'[b].pc \in WaitingToDelete
           /\ call'[b].tid = call[b].tid /\ call'[b].thread = call[b].thread
           /\ call'[b].next = call[b].next
  BY <1>1, <1>3 DEF CallsLive, WaitingToDelete, Settling
<1> QED BY <1>2, <1>3

\* What keeps the period of timer t set.
LEMMA PeriodKept ==
    ASSUME NEW t \in Timers, HasPeriod(t),
           Valid(t)' => Valid(t),
           Valid(t) =>
            \/ timer'[t].millisec # 0
            \/ /\ timer'[t].millisec = timer[t].millisec
               /\ timer'[t].event = timer[t].event
               /\ call[timer[t].event].pc = "add" /\ call[timer[t].event].tid = t =>
                    /\ call'[timer[t].event].pc = "add" /\ call'[timer[t].event].tid = t
    PROVE  HasPeriod(t)'
  BY DEF HasPeriod, Valid

\* Without handlers that delete, deleters are clients.
LEMMA ClientsDelete ==
    ASSUME NoStops, OwnerInv, NEW a \in Actors, call[a].pc \in Deleting
    PROVE  a \in Clients /\ Owner(a) = a
  BY DEF OwnerInv, DeletesOwn, MayDelete, NoStops, Owner

\* A handler that runs works on the timer its thread services.
LEMMA HandlerOwns ==
    ASSUME TypeInv, OwnerInv, ServicedInv, NEW n \in Nodes, node[n].pc = "handler",
           id[node[n].owner] # Null
    PROVE  /\ id[node[n].owner] = node[n].current /\ Valid(node[n].current)
           /\ timer[node[n].current].event = node[n].owner
<1> DEFINE t == node[n].current
           c == node[n].owner
<1>1. t \in Timers /\ c \in Clients /\ c \in Actors
  BY DEF TypeInv, ServiceLocals, Actors
<1>2. Valid(t) /\ c = timer[t].event
  BY DEF ServicedInv, ServesLive, Serving
<1>3. call[c].next # "store"
  BY <1>1 DEF OwnerInv, AddsOwn
<1> QED BY <1>1, <1>2, <1>3 DEF OwnerInv, TimersReachable

\* The timer a caller finds in its variable is live and the caller's own.
LEMMA CallerOwns ==
    ASSUME NoStops, TypeInv, OwnerInv, ServicedInv, NEW a \in Actors, NEW op \in Ops, Calls(a, op)
    PROVE  /\ Owner(a) \in Clients /\ id[Owner(a)] \in Timers /\ Valid(id[Owner(a)])
           /\ timer[id[Owner(a)]].event = Owner(a) /\ call[Owner(a)].next # "store"
           /\ call[a].pc = "idle" /\ call[a].next # "store"
<1>1. Owner(a) \in Clients /\ id[Owner(a)] \in Timers /\ id[Owner(a)] # Null
  BY CallerLemma DEF Timers, Null
<1>2. call[a].pc = "idle" /\ call[a].next # "store" /\ call[Owner(a)].next # "store"
  BY <1>1 DEF Calls, OwnerInv, AddsOwn, Adding, Actors
<1>3. CASE a \in Nodes
  <2>1. node[a].pc = "handler" /\ Owner(a) = node[a].owner
    BY <1>3, CallerLemma, ClientAssumption DEF Owner
  <2> QED BY <1>1, <1>2, <1>3, <2>1, HandlerOwns
<1>4. CASE a \in Clients
  <2>1. Owner(a) = a
    BY <1>4 DEF Owner
  <2>2. \A b \in Actors : call[b].pc = "forget" => Owner(b) # a
    BY <1>2, <1>4, ClientsDelete DEF Deleting
  <2> QED BY <1>1, <1>2, <1>4, <2>1, <2>2 DEF OwnerInv, IdsLive
<1> QED BY <1>1, <1>2, <1>3, <1>4 DEF Actors

\* A step that leaves of slot u all but its times.
SameUse(u) ==
    /\ timer'[u].inuse = timer[u].inuse
    /\ timer'[u].event = timer[u].event
    /\ timer'[u].thread = timer[u].thread
    /\ timer'[u].armed = timer[u].armed

\* A step of actor a that moves no thread and leaves the use of every slot alone.
LEMMA ServicedLocal ==
    ASSUME TypeInv, OwnerInv, ServicedInv, id' = id,
           \A n \in Nodes : SameThread(n), \A u \in Timers : SameUse(u),
           NEW a \in Actors, CallsLive(a)', \A b \in Actors : b # a => call'[b] = call[b],
           \A t \in Timers : HasPeriod(t)'
    PROVE  ServicedInv'
<1>1. \A n \in Nodes : ServesLive(n)'
  BY ServesKept DEF ServicedInv, SameUse, SameThread, Valid
<1>2. ASSUME NEW b \in Actors, b # a PROVE CallsLive(b)'
  <2>1. CallsLive(b) /\ call'[b] = call[b] /\ Owner(b)' = Owner(b)
    BY <1>2, OwnersStay DEF ServicedInv, OwnerInv
  <2>2. call[b].pc \in Settling \cup WaitingToDelete \cup {"add"} => call[b].tid \in Timers
    BY DEF TypeInv, CallLocals, Settling, WaitingToDelete
  <2> QED BY <2>1, <2>2, CallKept DEF SameUse, Valid
<1> QED BY <1>1, <1>2 DEF ServicedInv

\* The calls that neither queue nor delete a timer.  The ones that disarm are not made.
LEMMA ServicedCalls ==
    ASSUME NoStops, TypeInv, OwnerInv, ServicedInv, NEW a \in Actors,
           \/ a \in Clients /\ AddRecord(a)
           \/ Start(a) \/ Stop(a) \/ Period(a) \/ Change(a)
           \/ ChangePeriod(a) \/ ChangeStart(a) \/ ReadClock(a)
    PROVE  ServicedInv'
<1>1. call \in [Actors -> Call] /\ timer \in [Timers -> TimerNode] /\ call[a] \in Call
      /\ CallsLive(a) /\ \A t \in Timers : HasPeriod(t)
  BY DEF TypeInv, TypeOK, ServicedInv
<1>2. ~Stop(a) /\ ~Change(a) /\ ~ChangePeriod(a) /\ ~ChangeStart(a)
  BY <1>1 DEF Stop, Change, ChangePeriod, ChangeStart, Calls, NoStops, CallsLive
<1>3. UNCHANGED <<node, id>> /\ \A n \in Nodes : SameThread(n)
  BY <1>2 DEF AddRecord, Start, StartSection, Period, ReadClock, SameThread
<1>4. CASE AddRecord(a)
  <2> DEFINE t == call[a].tid
             k == [call[a] EXCEPT !.pc = "clock"]
  <2>1. call[a].pc = "add" /\ call[a].next = "store" /\ t \in Timers /\ Valid(t)
        /\ timer[t] \in TimerNode
    BY <1>1, <1>4 DEF AddRecord, OwnerInv, AddsOwn
  <2>2. /\ timer' = [timer EXCEPT ![t].type = call[a].type, ![t].millisec = call[a].millisec]
        /\ call' = [call EXCEPT ![a] = k]
    BY <1>4, <2>1 DEF AddRecord, Goto
  <2>3. k.next = "store" /\ k.tid = call[a].tid /\ k.pc = "clock"
    BY <1>1, <2>1 DEF Call
  <2>4. /\ \A u \in Timers : SameUse(u)
        /\ \A u \in Timers : u # t => timer'[u] = timer[u]
        /\ timer'[t].millisec = call[a].millisec
    BY <1>1, <2>1, <2>2 DEF SameUse, TimerNode
  <2> HIDE DEF k
  <2>5. call'[a] = k /\ \A b \in Actors : b # a => call'[b] = call[b]
    BY <1>1, <2>2
  <2>6. CallsLive(a)'
    <3>1. ~timer'[t].armed
      BY <1>1, <2>1, <2>4 DEF CallsLive, SameUse
    <3> QED BY <2>3, <2>5, <3>1 DEF CallsLive, Settling, WaitingToDelete
  <2>7. ASSUME NEW u \in Timers PROVE HasPeriod(u)'
    <3>1. CASE u = t
      BY <1>1, <2>1, <2>4, <3>1 DEF CallsLive, HasPeriod
    <3>2. CASE u # t
      <4>1. Valid(u) => timer[u].event \in Actors
        BY DEF TypeInv, HandlersKnown, Valid, Actors
      <4>2. timer'[u] = timer[u] /\ HasPeriod(u)
        BY <1>1, <2>4, <3>2
      <4> QED BY <2>5, <3>2, <4>1, <4>2 DEF HasPeriod, Valid
    <3> QED BY <3>1, <3>2
  <2> QED BY <1>3, <2>4, <2>5, <2>6, <2>7, ServicedLocal
<1>5. CASE Period(a)
  <2> DEFINE t == id[Owner(a)]
  <2>1. Calls(a, "period") /\ "period" \in Ops /\ call' = call
    BY <1>5 DEF Period, Ops
  <2>2. t \in Timers /\ Valid(t)
    BY <2>1, CallerOwns
  <2>3. PICK ms \in Periods : timer' = [timer EXCEPT ![t].millisec = ms]
    BY <1>5, <2>2 DEF Period, PeriodSection
  <2> HIDE DEF t
  <2>4. /\ \A u \in Timers : SameUse(u)
        /\ \A u \in Timers : timer'[u].millisec # 0 \/ timer'[u].millisec = timer[u].millisec
    BY <1>1, <2>2, <2>3, PeriodAssumption DEF SameUse, TimerNode
  <2>5. \A u \in Timers : HasPeriod(u)'
    BY <1>1, <2>1, <2>4 DEF HasPeriod, SameUse, Valid
  <2>6. CallsLive(a)'
    <3>1. Owner(a)' = Owner(a) /\ call[a].pc = "idle"
      BY <1>3, <2>1 DEF Owner, Calls
    <3> QED BY <1>1, <2>1, <3>1 DEF CallsLive, Settling, WaitingToDelete
  <2> QED BY <1>3, <2>1, <2>4, <2>5, <2>6, ServicedLocal
<1>6. CASE Start(a)
  <2> DEFINE t == id[Owner(a)]
             k == [NoCall EXCEPT !.pc = "clock", !.tid = t, !.value = timer[t].millisec,
                        !.interval = IF timer[t].type = "oneshot" THEN 0
                                     ELSE timer[t].millisec]
  <2>1. Calls(a, "start") /\ "start" \in Ops /\ timer' = timer
    BY <1>6 DEF Start, StartSection, Ops
  <2>2. /\ t \in Timers /\ Valid(t) /\ timer[t].event = Owner(a) /\ Owner(a) \in Clients
        /\ call[Owner(a)].next # "store" /\ call[a].pc = "idle"
    BY <2>1, CallerOwns
  <2>3. call' = [call EXCEPT ![a] = k]
    BY <1>6, <2>2 DEF Start, StartSection
  <2>4. k.pc = "clock" /\ k.tid = t /\ k.value = timer[t].millisec /\ k.next = "idle"
    BY DEF NoCall
  <2>5. timer[t].millisec # 0
    BY <1>1, <2>2 DEF HasPeriod, OwnerInv, AddsOwn, Actors
  <2> HIDE DEF k
  <2>6. call'[a] = k /\ \A b \in Actors : b # a => call'[b] = call[b]
    BY <1>1, <2>3
  <2>7. CallsLive(a)'
    <3>1. Owner(a)' = Owner(a) /\ id' = id
      BY <1>3 DEF Owner
    <3> QED BY <2>1, <2>2, <2>4, <2>5, <2>6, <3>1
            DEF CallsLive, Settling, WaitingToDelete, Valid
  <2>8. ASSUME NEW u \in Timers PROVE HasPeriod(u)'
    <3>1. Valid(u) => timer[u].event \in Actors
      BY DEF TypeInv, HandlersKnown, Valid, Actors
    <3> QED BY <1>1, <2>1, <2>2, <2>6, <3>1 DEF HasPeriod, Valid
  <2>9. \A u \in Timers : SameUse(u)
    BY <2>1 DEF SameUse
  <2> QED BY <1>3, <2>6, <2>7, <2>8, <2>9, ServicedLocal
<1>7. CASE ReadClock(a)
  <2> DEFINE k == [call[a] EXCEPT !.pc = "settime", !.now = clock]
  <2>1. call[a].pc = "clock" /\ call' = [call EXCEPT ![a] = k] /\ timer' = timer
    BY <1>7 DEF ReadClock
  <2>2. /\ k.pc = "settime" /\ k.tid = call[a].tid /\ k.value = call[a].value
        /\ k.next = call[a].next
    BY <1>1 DEF Call
  <2> HIDE DEF k
  <2>3. call'[a] = k /\ \A b \in Actors : b # a => call'[b] = call[b]
    BY <1>1, <2>1
  <2>4. CallsLive(a)'
    <3>1. Owner(a)' = Owner(a) /\ id' = id
      BY <1>3 DEF Owner
    <3> QED BY <1>1, <2>1, <2>2, <2>3, <3>1 DEF CallsLive, Settling, WaitingToDelete, Valid
  <2>5. ASSUME NEW u \in Timers PROVE HasPeriod(u)'
    <3>1. Valid(u) => timer[u].event \in Actors
      BY DEF TypeInv, HandlersKnown, Valid, Actors
    <3> QED BY <1>1, <2>1, <2>3, <3>1 DEF HasPeriod, Valid
  <2>6. \A u \in Timers : SameUse(u)
    BY <2>1 DEF SameUse
  <2> QED BY <1>3, <2>3, <2>4, <2>5, <2>6, ServicedLocal
<1> QED BY <1>2, <1>4, <1>5, <1>6, <1>7

\* What a call in __timer_settime works on: its own timer, which is live.
LEMMA SettlingOwns ==
    ASSUME TypeInv, OwnerInv, ServicedInv, NEW a \in Actors, call[a].pc \in Settling
    PROVE  /\ Valid(call[a].tid)
           /\ \A b \in Actors : b # a /\ call[b].next = "store" => call[b].tid # call[a].tid
<1> DEFINE t == call[a].tid
<1>1. t \in Timers /\ t # Null
  BY DEF TypeInv, CallLocals, Settling, Timers, Null
<1>2. \A b \in Actors : call[b].next = "store" =>
        b \in Clients /\ id[b] = Null /\ Valid(call[b].tid) /\ timer[call[b].tid].event = b
  BY DEF OwnerInv, AddsOwn
<1>3. CASE call[a].next = "store"
  BY <1>2, <1>3
<1>4. CASE call[a].next # "store"
  <2>1. Valid(t) /\ t = id[Owner(a)] /\ timer[t].event = Owner(a)
    BY <1>4 DEF ServicedInv, CallsLive
  <2> QED BY <1>1, <1>2, <2>1
<1> QED BY <1>3, <1>4

\* __timer_settime arms the timer, or leaves one alone that is not armed yet.
LEMMA ServicedSettime ==
    ASSUME TypeInv, ListInv, OwnerInv, ServicedInv, NEW a \in Actors,
           node' \in [Nodes -> ThreadNode],
           SettimeDisarm(a) \/ SettimeArm(a) \/ SettimeInvalid(a)
    PROVE  ServicedInv'
<1> DEFINE t == call[a].tid
<1>1. /\ call \in [Actors -> Call] /\ timer \in [Timers -> TimerNode] /\ call[a] \in Call
      /\ call[a].pc = "settime" /\ t \in Timers /\ timer[t] \in TimerNode
      /\ CallsLive(a) /\ call[a].pc \in Settling
  BY DEF TypeInv, TypeOK, CallLocals, SettimeDisarm, SettimeArm, SettimeInvalid, ServicedInv,
         Settling
<1>2. id' = id /\ \A n \in Nodes : SameThread(n)
  BY QuietSettime
<1>3. Valid(t) /\ \A b \in Actors : b # a /\ call[b].next = "store" => call[b].tid # t
  BY <1>1, SettlingOwns
<1>4. ASSUME NEW k, call' = [call EXCEPT ![a] = k],
             \/ k = Continue(a, TRUE)
             \/ k.pc = "wake" /\ k.next = call[a].next /\ k.tid = t
      PROVE  /\ CallsLive(a)'
             /\ \A b \in Actors : b # a => call'[b] = call[b]
             /\ \A b \in Actors : call[b].pc = "add" => b # a
  <2>1. call'[a] = k /\ \A b \in Actors : b # a => call'[b] = call[b]
    BY <1>1, <1>4
  <2>2. k.pc \in {"wake", "idle", "store"} /\ k.next # "period"
    BY <1>1, <1>4 DEF Continue, CallsLive, NoCall, Call
  <2>3. CallsLive(a)'
    BY <2>1, <2>2 DEF CallsLive, Settling, WaitingToDelete
  <2> QED BY <1>1, <2>1, <2>3
<1>5. ASSUME NEW k, call' = [call EXCEPT ![a] = k],
             \A u \in Timers : /\ timer'[u].inuse = timer[u].inuse
                               /\ timer'[u].event = timer[u].event
                               /\ timer'[u].millisec = timer[u].millisec
      PROVE  \A u \in Timers : HasPeriod(u)'
  <2> SUFFICES ASSUME NEW u \in Timers PROVE HasPeriod(u)'
    OBVIOUS
  <2>1. Valid(u) => timer[u].event \in Actors
    BY DEF TypeInv, HandlersKnown, Valid, Actors
  <2> QED BY <1>1, <1>5, <2>1 DEF HasPeriod, Valid, ServicedInv
<1>6. CASE SettimeDisarm(a)
  <2>1. /\ timer' = [timer EXCEPT ![t].interval = call[a].interval, ![t].armed = FALSE]
        /\ call' = [call EXCEPT ![a] = Continue(a, TRUE)] /\ call[a].value = 0
    BY <1>6 DEF SettimeDisarm
  <2>2. ~timer[t].armed /\ timer[t].armed \in BOOLEAN
    BY <1>1, <2>1 DEF CallsLive, TimerNode
  <2>3. \A u \in Timers : /\ timer'[u].inuse = timer[u].inuse
                          /\ timer'[u].event = timer[u].event
                          /\ timer'[u].millisec = timer[u].millisec
                          /\ timer'[u].thread = timer[u].thread
                          /\ u # t => timer'[u] = timer[u]
    BY <1>1, <2>1 DEF TimerNode
  <2>4. timer'[t].armed = FALSE
    BY <1>1, <2>1 DEF TimerNode
  <2>5. \A u \in Timers : SameUse(u)
    BY <2>2, <2>3, <2>4 DEF SameUse
  <2> QED BY <1>2, <1>4, <1>5, <2>1, <2>3, <2>5, ServicedLocal
<1>7. CASE SettimeArm(a)
  <2> DEFINE expiry == call[a].now + call[a].value
             r == [call[a] EXCEPT !.pc = "wake", !.thread = timer[t].thread]
  <2>1. /\ timer' = [timer EXCEPT ![t].interval = call[a].interval,
                                  ![t].armed = TRUE, ![t].expiry = expiry]
        /\ call' = [call EXCEPT ![a] = r] \/ call' = [call EXCEPT ![a] = Continue(a, TRUE)]
    BY <1>7 DEF SettimeArm
  <2>2. r.pc = "wake" /\ r.next = call[a].next /\ r.tid = t
    BY <1>1 DEF Call
  <2> HIDE DEF r, expiry
  <2>3. \A u \in Timers : /\ timer'[u].inuse = timer[u].inuse
                          /\ timer'[u].event = timer[u].event
                          /\ timer'[u].millisec = timer[u].millisec
                          /\ timer'[u].thread = timer[u].thread
                          /\ timer[u].armed => timer'[u].armed
                          /\ u # t => timer'[u] = timer[u]
    BY <1>1, <2>1 DEF TimerNode
  <2>4. /\ CallsLive(a)'
        /\ \A b \in Actors : b # a => call'[b] = call[b]
        /\ \A b \in Actors : call[b].pc = "add" => b # a
        /\ \A u \in Timers : HasPeriod(u)'
    <3>1. PICK k : /\ call' = [call EXCEPT ![a] = k]
                   /\ \/ k = Continue(a, TRUE)
                      \/ k.pc = "wake" /\ k.next = call[a].next /\ k.tid = t
      BY <2>1, <2>2
    <3>2. \A u \in Timers : HasPeriod(u)'
      BY <1>5, <2>3, <3>1
    <3>3. QED
      BY <1>4, <3>1, <3>2
  <2>5. \A n \in Nodes : ServesLive(n)'
    BY <1>2, <2>3, ServesKept DEF ServicedInv, SameThread, Valid
  <2>6. ASSUME NEW b \in Actors, b # a PROVE CallsLive(b)'
    <3>1. CallsLive(b) /\ call'[b] = call[b] /\ Owner(b)' = Owner(b)
      BY <1>2, <2>4, <2>6, OwnersStay DEF ServicedInv, OwnerInv
    <3>2. call[b].pc \in Settling \cup WaitingToDelete \cup {"add"} => call[b].tid \in Timers
      BY DEF TypeInv, CallLocals, Settling, WaitingToDelete
    <3> QED BY <1>2, <1>3, <2>3, <2>6, <3>1, <3>2, CallKept DEF Valid
  <2> QED BY <2>4, <2>5, <2>6 DEF ServicedInv
<1> QED BY <1>3, <1>6, <1>7 DEF SettimeInvalid

\* What a broadcast leaves of a call.
LEMMA WokenKept ==
    ASSUME NEW cs \in [Actors -> Call], NEW n, call' = WakeDeleters(cs, n),
           NEW b \in Actors, cs[b] = call[b]
    PROVE  \/ call'[b] = call[b]
           \/ /\ call[b].pc \in WaitingToDelete /\ call'[b].pc \in WaitingToDelete
              /\ call'[b].tid = call[b].tid /\ call'[b].thread = call[b].thread
              /\ call'[b].next = call[b].next
<1>1. WakeDeleters(cs, n)[b] = IF cs[b].pc = "delwait" /\ cs[b].thread = n
                               THEN [cs[b] EXCEPT !.pc = "delwoken"] ELSE cs[b]
  BY DEF WakeDeleters
<1>2. cs[b] \in Call
  OBVIOUS
<1> QED BY <1>1, <1>2 DEF WaitingToDelete, Call

\* Calls and periods after a step that leaves slots and variables alone, wakes
\* deleters, and moves the call of a (if any) out of os_timer_add's first steps.
LEMMA ServicedWake ==
    ASSUME TypeInv, OwnerInv, ServicedInv, id' = id,
           \A u \in Timers : SameUse(u) /\ timer'[u].millisec = timer[u].millisec,
           NEW S \in SUBSET Actors,
           \A a \in S : CallsLive(a)' /\ call[a].pc # "add",
           \A b \in Actors \ S :
                /\ call[b].pc # "idle" => Owner(b)' = Owner(b)
                /\ \/ call'[b] = call[b]
                   \/ /\ call[b].pc \in WaitingToDelete /\ call'[b].pc \in WaitingToDelete
                      /\ call'[b].tid = call[b].tid /\ call'[b].thread = call[b].thread
                      /\ call'[b].next = call[b].next,
           \A n \in Nodes : ServesLive(n)'
    PROVE  ServicedInv'
<1>1. ASSUME NEW b \in Actors \ S PROVE CallsLive(b)'
  <2>1. CallsLive(b)
    BY DEF ServicedInv
  <2>2. call[b].pc \in Settling \cup WaitingToDelete \cup {"add"} => call[b].tid \in Timers
    BY DEF TypeInv, CallLocals, Settling, WaitingToDelete
  <2> QED BY <2>1, <2>2, CallKept DEF SameUse, Valid
<1>2. ASSUME NEW u \in Timers PROVE HasPeriod(u)'
  <2>1. Valid(u) => timer[u].event \in Actors
    BY DEF TypeInv, HandlersKnown, Valid, Actors
  <2>2. \A b \in Actors : call[b].pc = "add" => call'[b] = call[b]
    BY DEF WaitingToDelete
  <2> QED BY <2>1, <2>2 DEF HasPeriod, Valid, SameUse, ServicedInv
<1> QED BY <1>1, <1>2 DEF ServicedInv

\* __timer_thread_wakeup
LEMMA ServicedWakeup ==
    ASSUME TypeInv, OwnerInv, ServicedInv, NEW a \in Actors, Wakeup(a)
    PROVE  ServicedInv'
<1> DEFINE m == call[a].thread
           cs == [call EXCEPT ![a] = Continue(a, TRUE)]
<1>1. /\ node \in [Nodes -> ThreadNode] /\ call \in [Actors -> Call] /\ m \in Nodes
      /\ call[a] \in Call /\ CallsLive(a)
  BY DEF TypeInv, TypeOK, CallLocals, Wakeup, ServicedInv
<1>2. /\ UNCHANGED <<timer, id>> /\ call[a].pc = "wake"
      /\ node' = WakeNode(node, m) /\ call' = WakeDeleters(cs, m)
  BY DEF Wakeup
<1>3. cs \in [Actors -> Call] /\ cs[a] = Continue(a, TRUE)
      /\ \A b \in Actors : b # a => cs[b] = call[b]
  BY <1>1, ContinueLemma
<1>4. cs[a].next # "period" /\ cs[a].pc \in {"idle", "store"}
  BY <1>1, <1>3 DEF Continue, NoCall, Call, CallsLive
<1> HIDE DEF m, cs
<1>5. \A n \in Nodes : /\ node'[n].current = node[n].current /\ node'[n].owner = node[n].owner
                       /\ node'[n].pc \in Serving => node'[n].pc = node[n].pc
  BY <1>1, <1>2 DEF WakeNode, ThreadNode, Serving
<1>6. CallsLive(a)'
  <2>1. call'[a] = cs[a]
    BY <1>1, <1>2, <1>3, <1>4 DEF WakeDeleters
  <2> QED BY <1>4, <2>1 DEF CallsLive, Settling, WaitingToDelete
<1>7. \A b \in Actors : Owner(b)' = Owner(b)
  BY <1>5 DEF Owner, Actors
<1>8. \A n \in Nodes : ServesLive(n)'
  BY <1>2, <1>5, ServesKept DEF ServicedInv, Valid
<1>9. \A u \in Timers : SameUse(u) /\ timer'[u].millisec = timer[u].millisec
  BY <1>2 DEF SameUse
<1>10. \A b \in Actors \ {a} :
        /\ Owner(b)' = Owner(b)
        /\ \/ call'[b] = call[b]
           \/ /\ call[b].pc \in WaitingToDelete /\ call'[b].pc \in WaitingToDelete
              /\ call'[b].tid = call[b].tid /\ call'[b].thread = call[b].thread
              /\ call'[b].next = call[b].next
  BY <1>2, <1>3, <1>7, WokenKept
<1>11. {a} \in SUBSET Actors /\ \A x \in {a} : CallsLive(x)' /\ call[x].pc # "add"
  BY <1>2, <1>6
<1> QED BY <1>2, <1>8, <1>9, <1>10, <1>11, ServicedWake

\* The steps of a service thread: a timer taken as due is live, armed and its own.
LEMMA ServicedThread ==
    ASSUME TypeInv, ListInv, OwnerInv, ServicedInv, NEW n \in Nodes,
           ServiceStep(n) \/ HandlerReturn(n) \/ SpuriousWakeup(n)
    PROVE  ServicedInv'
<1>1. /\ node \in [Nodes -> ThreadNode] /\ node[n] \in ThreadNode /\ clock \in Nat
      /\ call \in [Actors -> Call] /\ n \in Actors /\ node[n].queue \in Seq(Timers)
  BY SizeAssumption, QueueTypes DEF TypeInv, TypeOK, Actors
<1>2. call[n].pc = "idle" /\ id' = id
  BY DEF TypeInv, ServiceLocals, ServiceStep, Run, CallHandler, Timeout,
         HandlerReturn, SpuriousWakeup
<1>3. \A b \in Actors :
        \/ call'[b] = call[b]
        \/ /\ call[b].pc \in WaitingToDelete /\ call'[b].pc \in WaitingToDelete
           /\ call'[b].tid = call[b].tid /\ call'[b].thread = call[b].thread
           /\ call'[b].next = call[b].next
  <2>1. CASE HandlerReturn(n)
    BY <1>1, <2>1, WokenKept DEF HandlerReturn
  <2>2. CASE ServiceStep(n) \/ SpuriousWakeup(n)
    BY <2>2 DEF ServiceStep, Run, CallHandler, Timeout, SpuriousWakeup
  <2> QED BY <2>1, <2>2
<1>4. ASSUME \A u \in Timers : SameUse(u) /\ timer'[u].millisec = timer[u].millisec,
             \A m \in Nodes : m # n => node'[m] = node[m], ServesLive(n)'
      PROVE  ServicedInv'
  <2>1. \A m \in Nodes : ServesLive(m)'
    BY <1>4, ServesKept DEF ServicedInv, SameUse, Valid
  <2>2. \A b \in Actors : call[b].pc # "idle" => Owner(b)' = Owner(b)
    BY <1>2, <1>4 DEF Owner, Actors
  <2>3. {} \in SUBSET Actors /\ \A b \in {} : CallsLive(b)' /\ call[b].pc # "add"
    OBVIOUS
  <2> QED BY <1>2, <1>3, <1>4, <2>1, <2>2, <2>3, ServicedWake
<1>5. CASE Run(n) \/ HandlerReturn(n)
  <2>1. PICK now \in Nat : ServeDue(n, now) \/ ServeWait(n, now)
    BY <1>1, <1>5 DEF Run, HandlerReturn, ThreadNode
  <2>2. /\ \A u \in Timers :
            /\ SameOwner(u)
            /\ timer'[u].armed = timer[u].armed
            /\ timer'[u].thread = timer[u].thread
            /\ timer'[u].millisec = timer[u].millisec
            /\ timer'[u].event = timer[u].event
        /\ \A m \in Nodes : m # n => node'[m] = node[m]
        /\ \/ /\ node'[n].pc = "call" /\ node[n].queue # << >>
              /\ node'[n].current = Head(node[n].queue)
           \/ node'[n].pc \in Waiting
    BY <2>1, ServeKeeps
  <2>3. \A u \in Timers : SameUse(u) /\ timer'[u].millisec = timer[u].millisec
    BY <2>2 DEF SameUse, SameOwner
  <2>4. ServesLive(n)'
    <3>1. CASE node'[n].pc \in Waiting
      BY <3>1 DEF ServesLive, Waiting, Serving
    <3>2. CASE /\ node'[n].pc = "call" /\ node[n].queue # << >>
               /\ node'[n].current = Head(node[n].queue)
      <4> DEFINE t == Head(node[n].queue)
      <4>1. t \in Timers /\ t \in ToSet(node[n].queue)
        <5>1. Distinct(node[n].queue)
          BY DEF ListInv, ListsExact
        <5> QED BY <1>1, <3>2, <5>1, TailSet
      <4>2. Valid(t) /\ timer[t].armed /\ timer[t].thread = n
        BY <4>1 DEF ListInv, ListsExact
      <4> QED BY <2>3, <3>2, <4>1, <4>2 DEF ServesLive, SameUse, Valid
    <3> QED BY <2>2, <3>1, <3>2
  <2> QED BY <1>4, <2>2, <2>3, <2>4
<1>6. CASE CallHandler(n) \/ Timeout(n) \/ SpuriousWakeup(n)
  <2>1. timer' = timer
    BY <1>6 DEF CallHandler, Timeout, SpuriousWakeup
  <2>2. \A m \in Nodes : m # n => node'[m] = node[m]
    BY <1>1, <1>6 DEF CallHandler, Timeout, SpuriousWakeup
  <2>3. ServesLive(n)'
    <3>1. CASE CallHandler(n)
      <4>1. /\ node[n].pc = "call" /\ node'[n].pc = "handler"
            /\ node'[n].current = node[n].current
            /\ node'[n].owner = timer[node[n].current].event
        BY <1>1, <3>1 DEF CallHandler, ThreadNode
      <4> QED BY <2>1, <4>1 DEF ServicedInv, ServesLive, Serving, Valid
    <3>2. CASE Timeout(n) \/ SpuriousWakeup(n)
      <4>1. node'[n].pc = "run"
        BY <1>1, <3>2 DEF Timeout, SpuriousWakeup, ThreadNode
      <4> QED BY <4>1 DEF ServesLive, Serving
    <3> QED BY <1>6, <3>1, <3>2
  <2>4. \A u \in Timers : SameUse(u) /\ timer'[u].millisec = timer[u].millisec
    BY <2>1 DEF SameUse
  <2> QED BY <1>4, <2>2, <2>3, <2>4
<1> QED BY <1>5, <1>6 DEF ServiceStep

\* A timer that no thread services is deleted by its owner.
LEMMA ServicedFinish ==
    ASSUME NoStops, TypeInv, OwnerInv, ServicedInv, TypeOK',
           NEW a \in Actors, a \in Clients, NEW t \in Timers, t = id[a],
           Valid(t), timer[t].event = a, call[a].pc \in {"idle", "delwoken"},
           \A n \in Nodes : node[n].pc \in Serving => node[n].current # t,
           DeleteFinish(a, t), id' = id
    PROVE  ServicedInv'
<1>1. /\ timer \in [Timers -> TimerNode] /\ timer[t] \in TimerNode /\ TypeOK
      /\ call \in [Actors -> Call] /\ call[a] \in Call /\ t # Null
      /\ node' \in [Nodes -> ThreadNode]
  BY DEF TypeInv, TypeOK, Timers, Null
<1>2. /\ timer' = [timer EXCEPT ![t] = Deleted(@)] /\ node' = Unlinked(t)
      /\ call' = [call EXCEPT ![a].pc = "forget"]
  BY DEF DeleteFinish, Goto
<1>3. /\ timer'[t].inuse # "INUSE" /\ \A u \in Timers : u # t => timer'[u] = timer[u]
  BY <1>1, <1>2, DeletedLemma
<1>4. /\ call'[a].pc = "forget" /\ call'[a].next = call[a].next
      /\ \A b \in Actors : b # a => call'[b] = call[b]
  BY <1>1, <1>2 DEF Call
<1>5. \A n \in Nodes : SameThread(n)
  BY <1>1, <1>2, UnlinkThreads
<1>6. \A b \in Actors : Owner(b)' = Owner(b)
  BY <1>5, OwnersStay DEF OwnerInv
<1>7. \A n \in Nodes : ServesLive(n)'
  BY <1>3, <1>5, ServesKept DEF ServicedInv, SameThread, Valid
<1>8. CallsLive(a)'
  BY <1>4 DEF ServicedInv, CallsLive, Settling, WaitingToDelete
<1>9. ASSUME NEW b \in Actors, b # a PROVE CallsLive(b)'
  <2>1. CallsLive(b) /\ call'[b] = call[b]
    BY <1>4, <1>9 DEF ServicedInv
  <2>2. call[b].pc \in Settling \cup WaitingToDelete \cup {"add"} => call[b].tid \in Timers
    BY DEF TypeInv, CallLocals, Settling, WaitingToDelete
  <2>3. call[b].next = "store" => call[b].tid # t
    BY <1>9 DEF OwnerInv, AddsOwn
  <2>4. call[b].pc \in WaitingToDelete => call[b].tid # t
    BY <1>9, ClientsDelete DEF OwnerInv, DeletesOwn, Deleting
  <2>5. call[b].pc \in Settling /\ call[b].next # "store" => call[b].tid # t
    <3> SUFFICES ASSUME call[b].pc \in Settling, call[b].next # "store", call[b].tid = t
                 PROVE  FALSE
      OBVIOUS
    <3>1. Owner(b) = a /\ call[b].pc # "idle"
      BY <2>1 DEF CallsLive, Settling
    <3>2. b \in Nodes /\ node[b].pc = "handler" /\ node[b].owner = a
      BY <1>9, <3>1, OwnerKnown DEF Owner, Actors
    <3>3. node[b].current = t
      BY <1>1, <3>2, HandlerOwns
    <3> QED BY <3>2, <3>3 DEF Serving
  <2> QED BY <1>3, <1>6, <2>1, <2>2, <2>3, <2>4, <2>5, CallKept DEF Valid
<1>10. ASSUME NEW u \in Timers PROVE HasPeriod(u)'
  <2>1. Valid(u) => timer[u].event \in Actors
    BY DEF TypeInv, HandlersKnown, Valid, Actors
  <2> QED BY <1>3, <1>4, <2>1 DEF HasPeriod, Valid, ServicedInv
<1> QED BY <1>7, <1>8, <1>9, <1>10 DEF ServicedInv

\* os_timer_del waits while another thread services the timer: an armed timer has
\* its thread looked at, and a timer that is being serviced is armed.
LEMMA DeleteUnserved ==
    ASSUME NoStops, TypeInv, OwnerInv, ServicedInv, NEW a \in Actors,
           Delete(a) \/ DeleteResume(a)
    PROVE  /\ a \in Clients /\ call[a].pc \in {"idle", "delwoken"}
           /\ \E t \in Timers :
                /\ t = id[a] /\ Valid(t) /\ timer[t].event = a
                /\ \/ DeleteWait(a, t, timer[t].thread)
                   \/ /\ DeleteFinish(a, t)
                      /\ \A n \in Nodes : node[n].pc \in Serving => node[n].current # t
<1>1. CASE Delete(a)
  <2> DEFINE t == id[a]
  <2>1. Calls(a, "del") /\ "del" \in Ops /\ a \in Clients /\ Owner(a) = a
    BY <1>1 DEF Delete, Calls, Ops, NoStops, Owner
  <2>2. t \in Timers /\ Valid(t) /\ timer[t].event = a /\ call[a].pc = "idle"
    BY <2>1, CallerOwns
  <2>3. CASE MustWait(a, t)
    BY <1>1, <2>1, <2>2, <2>3 DEF Delete
  <2>4. CASE ~MustWait(a, t)
    <3>1. DeleteFinish(a, t)
      BY <1>1, <2>1, <2>2, <2>4 DEF Delete
    <3>2. \A n \in Nodes : node[n].pc \in Serving => node[n].current # t
      <4> SUFFICES ASSUME NEW n \in Nodes, node[n].pc \in Serving, node[n].current = t
                   PROVE  FALSE
        OBVIOUS
      <4>1. timer[t].armed /\ timer[t].thread = n
        BY DEF ServicedInv, ServesLive
      <4>2. n # a /\ n # Null
        BY <2>1, ClientAssumption DEF Nodes, Null
      <4> QED BY <2>4, <4>1, <4>2 DEF MustWait, BeingServiced
    <3> QED BY <2>1, <2>2, <3>1, <3>2
  <2> QED BY <2>3, <2>4
<1>2. CASE DeleteResume(a)
  <2> DEFINE t == call[a].tid
  <2>1. call[a].pc = "delwoken" /\ call[a].pc \in WaitingToDelete /\ call[a].pc \in Deleting
    BY <1>2 DEF DeleteResume, WaitingToDelete, Deleting
  <2>2. a \in Clients /\ Owner(a) = a
    BY <2>1, ClientsDelete
  <2>3. t = id[a] /\ Valid(t) /\ timer[t].event = a /\ t \in Timers
    BY <2>1, <2>2 DEF OwnerInv, DeletesOwn, TypeInv, CallLocals
  <2>4. call[a].thread = timer[t].thread
    BY <2>1 DEF ServicedInv, CallsLive
  <2>5. CASE BeingServiced(a, timer[t].thread, t)
    BY <1>2, <2>1, <2>2, <2>3, <2>4, <2>5 DEF DeleteResume
  <2>6. CASE ~BeingServiced(a, timer[t].thread, t)
    <3>1. DeleteFinish(a, t)
      BY <1>2, <2>4, <2>6 DEF DeleteResume
    <3>2. \A n \in Nodes : node[n].pc \in Serving => node[n].current # t
      <4> SUFFICES ASSUME NEW n \in Nodes, node[n].pc \in Serving, node[n].current = t
                   PROVE  FALSE
        OBVIOUS
      <4>1. timer[t].thread = n
        BY DEF ServicedInv, ServesLive
      <4>2. n # a
        BY <2>2, ClientAssumption
      <4> QED BY <2>6, <4>1, <4>2 DEF BeingServiced
    <3> QED BY <2>1, <2>2, <2>3, <3>1, <3>2
  <2> QED BY <2>5, <2>6
<1> QED BY <1>1, <1>2

\* So os_timer_del keeps the invariant, whether it waits or is done.
LEMMA ServicedDelete ==
    ASSUME NoStops, TypeInv, OwnerInv, ServicedInv, TypeOK', NEW a \in Actors,
           Delete(a) \/ DeleteResume(a)
    PROVE  ServicedInv'
<1>1. /\ call \in [Actors -> Call] /\ id' = id
  BY DEF TypeInv, TypeOK, Delete, DeleteResume
<1>2. ASSUME NEW t \in Timers, call[a].pc \in {"idle", "delwoken"},
             DeleteWait(a, t, timer[t].thread)
      PROVE  ServicedInv'
  <2> DEFINE k == [NoCall EXCEPT !.pc = "delwait", !.tid = t, !.thread = timer[t].thread]
  <2>1. k.pc = "delwait" /\ k.tid = t /\ k.next = "idle" /\ k.thread = timer[t].thread
    BY DEF NoCall
  <2>2. call' = [call EXCEPT ![a] = k] /\ UNCHANGED <<timer, node>>
    BY <1>2 DEF DeleteWait
  <2> HIDE DEF k
  <2>3. call'[a] = k /\ \A b \in Actors : b # a => call'[b] = call[b]
    BY <1>1, <2>2
  <2>4. CallsLive(a)'
    BY <2>1, <2>2, <2>3 DEF CallsLive, Settling, WaitingToDelete
  <2>5. ASSUME NEW u \in Timers PROVE HasPeriod(u)'
    <3>1. Valid(u) => timer[u].event \in Actors
      BY DEF TypeInv, HandlersKnown, Valid, Actors
    <3> QED BY <1>2, <2>2, <2>3, <3>1 DEF HasPeriod, Valid, ServicedInv
  <2>6. (\A u \in Timers : SameUse(u)) /\ \A n \in Nodes : SameThread(n)
    BY <2>2 DEF SameUse, SameThread
  <2> QED BY <1>1, <2>3, <2>4, <2>5, <2>6, ServicedLocal
<1> QED BY <1>1, <1>2, ServicedFinish, DeleteUnserved

\* os_timer_add takes a slot that no thread services and no call is about.
LEMMA ServicedAdd ==
    ASSUME TypeInv, ListInv, OwnerInv, ServicedInv, NEW c \in Clients, Add(c)
    PROVE  ServicedInv'
<1> DEFINE t == Head(timerFree)
<1>1. /\ t \in Timers /\ timer[t].inuse = "FREE" /\ id' = id /\ id[c] = Null
      /\ call[c].pc = "idle" /\ c \in Actors
      /\ \A u \in Timers : u # t => timer'[u] = timer[u]
      /\ call \in [Actors -> Call]
  BY AddSlot DEF TypeInv, TypeOK, Actors
<1>2. /\ \/ call' = call /\ node' = node /\ timer'[t].inuse = "FREE"
         \/ /\ timer'[t].inuse = "INUSE" /\ timer'[t].event = c /\ ~timer'[t].armed
            /\ \E k : /\ call' = [call EXCEPT ![c] = k]
                      /\ k.pc = "add" /\ k.next = "store" /\ k.tid = t /\ k.millisec # 0
            /\ \A n \in Nodes :
                   \/ node'[n] = node[n]
                   \/ node[n].pc = "none" /\ node'[n].pc = "run" /\ node'[n].prio \in Prios
  BY AddSlot
<1> HIDE DEF t
<1>3. \A u \in Timers : Valid(u) => u # t /\ timer'[u] = timer[u]
  BY <1>1 DEF Valid
<1>4. \A n \in Nodes : node'[n] = node[n] \/ (node[n].pc = "none" /\ node'[n].pc = "run")
  BY <1>2
<1>5. \A b \in Actors : call[b].pc # "idle" => Owner(b)' = Owner(b)
  BY <1>4 DEF Owner, TypeInv, ServiceLocals, Actors
<1>6. \A n \in Nodes : ServesLive(n)'
  <2> SUFFICES ASSUME NEW n \in Nodes PROVE ServesLive(n)'
    OBVIOUS
  <2>1. CASE node'[n] = node[n]
    BY <1>3, <2>1, ServesKept DEF ServicedInv, Valid
  <2>2. CASE node'[n].pc = "run"
    BY <2>2 DEF ServesLive, Serving
  <2> QED BY <1>4, <2>1, <2>2
<1>7. ASSUME NEW b \in Actors, call'[b] = call[b] PROVE CallsLive(b)'
  <2>1. CallsLive(b)
    BY DEF ServicedInv
  <2>2. call[b].pc \in Settling \cup WaitingToDelete \cup {"add"} => call[b].tid \in Timers
    BY DEF TypeInv, CallLocals, Settling, WaitingToDelete
  <2>3. call[b].next = "store" => Valid(call[b].tid)
    BY DEF OwnerInv, AddsOwn
  <2> QED BY <1>1, <1>3, <1>5, <1>7, <2>1, <2>2, <2>3, CallKept DEF Valid
<1>8. CASE call' = call /\ node' = node /\ timer'[t].inuse = "FREE"
  <2>1. \A u \in Timers : HasPeriod(u)'
    BY <1>1, <1>3, <1>8 DEF HasPeriod, Valid, ServicedInv
  <2> QED BY <1>6, <1>7, <1>8, <2>1 DEF ServicedInv
<1>9. ASSUME timer'[t].inuse = "INUSE", timer'[t].event = c, ~timer'[t].armed,
             NEW k, call' = [call EXCEPT ![c] = k],
             k.pc = "add", k.next = "store", k.tid = t, k.millisec # 0
      PROVE  ServicedInv'
  <2>1. call'[c] = k /\ \A b \in Actors : b # c => call'[b] = call[b]
    BY <1>1, <1>9
  <2>2. CallsLive(c)'
    BY <1>9, <2>1 DEF CallsLive, Settling, WaitingToDelete
  <2>3. ASSUME NEW u \in Timers PROVE HasPeriod(u)'
    <3>1. CASE u = t
      BY <1>9, <2>1, <3>1 DEF HasPeriod
    <3>2. CASE u # t
      <4>1. Valid(u) => timer[u].event \in Actors
        BY DEF TypeInv, HandlersKnown, Valid, Actors
      <4> QED BY <1>1, <2>1, <3>2, <4>1 DEF HasPeriod, Valid, ServicedInv
    <3> QED BY <3>1, <3>2
  <2> QED BY <1>6, <1>7, <2>1, <2>2, <2>3 DEF ServicedInv
<1> QED BY <1>2, <1>8, <1>9

\* A variable is set by os_timer_add, or cleared once os_timer_del has returned:
\* no other call is then about a timer of its owner.
LEMMA ServicedVariable ==
    ASSUME NoStops, TypeInv, OwnerInv, ServicedInv, NEW a \in Actors,
           Forget(a) \/ (a \in Clients /\ AddStore(a))
    PROVE  ServicedInv'
<1>1. /\ call \in [Actors -> Call] /\ id \in [Clients -> Timers \cup {Null}]
      /\ UNCHANGED <<timer, node>> /\ call' = [call EXCEPT ![a] = NoCall]
      /\ call[a].pc \in {"forget", "store"}
  BY DEF TypeInv, TypeOK, Forget, AddStore, Return
<1>2. a \in Clients /\ Owner(a) = a
  BY ClientsDelete DEF Forget, AddStore, Deleting, Owner
<1>3. \A d \in Clients : d # a => id'[d] = id[d]
  BY <1>1, <1>2 DEF Forget, AddStore
<1>4. /\ call'[a].pc = "idle" /\ call'[a].next = "idle"
      /\ \A b \in Actors : b # a => call'[b] = call[b]
  BY <1>1 DEF NoCall
<1>5. \A b \in Actors : Owner(b)' = Owner(b)
  BY <1>1 DEF Owner
<1>6. \A n \in Nodes : ServesLive(n)'
  BY <1>1 DEF ServicedInv, ServesLive, Valid
<1>7. CallsLive(a)'
  BY <1>4 DEF CallsLive, Settling, WaitingToDelete
<1>8. ASSUME NEW b \in Actors, b # a PROVE CallsLive(b)'
  <2>1. CallsLive(b) /\ call'[b] = call[b]
    BY <1>4, <1>8 DEF ServicedInv
  <2>2. ASSUME call[b].pc \in Settling, call[b].next # "store"
        PROVE  id'[Owner(b)] = id[Owner(b)]
    <3>1. /\ call[b].tid \in Timers /\ call[b].tid # Null /\ Valid(call[b].tid)
          /\ timer[call[b].tid].event = Owner(b) /\ id[Owner(b)] = call[b].tid
      BY <2>1, <2>2 DEF CallsLive, TypeInv, CallLocals, Settling, Timers, Null
    <3>2. Owner(b) \in Clients
      BY <2>2, OwnerKnown DEF Settling
    <3>3. Owner(b) # a
      BY <1>1, <1>2, <3>1 DEF OwnerInv, DeletesOwn, AddsOwn, Deleting
    <3> QED BY <1>3, <3>2, <3>3
  <2> QED BY <1>1, <1>5, <2>1, <2>2, CallKept DEF Valid
<1>9. ASSUME NEW u \in Timers PROVE HasPeriod(u)'
  <2>1. Valid(u) => timer[u].event \in Actors
    BY DEF TypeInv, HandlersKnown, Valid, Actors
  <2> QED BY <1>1, <1>4, <2>1 DEF HasPeriod, Valid, ServicedInv
<1> QED BY <1>6, <1>7, <1>8, <1>9 DEF ServicedInv

\* At first nothing is serviced.
LEMMA ServicedInit == Init => ServicedInv
  BY DEF Init, ServicedInv, ServesLive, CallsLive, HasPeriod, NewTimer, NewThread, NoCall, Valid,
         Serving, Settling, WaitingToDelete

\* Every step keeps the invariant.
LEMMA ServicedNext ==
    ASSUME NoStops
    PROVE  TypeInv /\ ListInv /\ OwnerInv /\ ServicedInv /\ [Next]_vars => ServicedInv'
<1> SUFFICES ASSUME TypeInv, ListInv, OwnerInv, ServicedInv, [Next]_vars PROVE ServicedInv'
  OBVIOUS
<1>1. TypeOK' /\ node' \in [Nodes -> ThreadNode]
  BY TypeNext DEF TypeInv, TypeOK
<1>2. ASSUME NEW c \in Clients, Add(c) \/ AddStep(c) PROVE ServicedInv'
  <2>1. c \in Actors
    BY DEF Actors
  <2> QED BY <1>2, <2>1, ServicedAdd, ServicedCalls, ServicedVariable DEF AddStep
<1>3. ASSUME NEW a \in Actors, Begin(a) PROVE ServicedInv'
  BY <1>1, <1>3, ServicedCalls, ServicedDelete DEF Begin
<1>4. ASSUME NEW a \in Actors, CallStep(a) PROVE ServicedInv'
  BY <1>1, <1>4, ServicedCalls, ServicedSettime, ServicedWakeup, ServicedDelete,
     ServicedVariable DEF CallStep
<1>5. ASSUME NEW n \in Nodes, ServiceStep(n) \/ HandlerReturn(n) \/ SpuriousWakeup(n)
      PROVE  ServicedInv'
  BY <1>5, ServicedThread
<1>6. CASE Tick \/ UNCHANGED vars
  <2>1. UNCHANGED <<timer, node, call, id>>
    BY <1>6 DEF Tick, vars
  <2> QED BY <2>1 DEF ServicedInv, ServesLive, CallsLive, HasPeriod, Valid, Owner
<1> QED BY <1>2, <1>3, <1>4, <1>5, <1>6 DEF Next

-----------------------------------------------------------------------------
(* Theorems *)

\* No slot of the pool is ever lost: when one thread at a time deletes a client's
\* timer, every slot is in use with one reference or free with none.
THEOREM PoolKept == ASSUME OneDeleter PROVE Spec => []PoolConserved
<1>1. TypeInv /\ ListInv /\ ServiceInv /\ OwnerInv /\ [Next]_vars => OwnerInv'
  BY OwnerNext
<1>2. OwnerInv => PoolConserved
  BY DEF OwnerInv
<1> QED BY TypeInit, TypeNext, ListInit, ListNext, ServiceInit, ServiceNext, OwnerInit,
           <1>1, <1>2, PTL DEF Spec

\* Under the same condition a stored id names a live timer of its owner until the
\* os_timer_del that deletes it has returned and the variable is cleared.
THEOREM StoredIdsLive == ASSUME OneDeleter PROVE Spec => []IdsLive
<1>1. TypeInv /\ ListInv /\ ServiceInv /\ OwnerInv /\ [Next]_vars => OwnerInv'
  BY OwnerNext
<1>2. OwnerInv => IdsLive
  BY DEF OwnerInv
<1> QED BY TypeInit, TypeNext, ListInit, ListNext, ServiceInit, ServiceNext, OwnerInit,
           <1>1, <1>2, PTL DEF Spec

\* And no live timer is out of reach: its creator's variable holds its id, or its
\* creator is still inside os_timer_add.
THEOREM NoTimerLost == ASSUME OneDeleter PROVE Spec => []TimersReachable
<1>1. TypeInv /\ ListInv /\ ServiceInv /\ OwnerInv /\ [Next]_vars => OwnerInv'
  BY OwnerNext
<1>2. OwnerInv => TimersReachable
  BY DEF OwnerInv
<1> QED BY TypeInit, TypeNext, ListInit, ListNext, ServiceInit, ServiceNext, OwnerInit,
           <1>1, <1>2, PTL DEF Spec

\* When only clients delete and nobody stops or changes a timer, the timer a thread
\* has taken as due stays that live timer until its handler has returned: os_timer_del
\* waits for it, on the right thread, however often it is woken meanwhile.
THEOREM ServicedKept == ASSUME NoStops PROVE Spec => []ServicedIntact
<1>1. OneDeleter
  BY DEF NoStops, OneDeleter
<1>2. TypeInv /\ ListInv /\ ServiceInv /\ OwnerInv /\ [Next]_vars => OwnerInv'
  BY <1>1, OwnerNext
<1>3. TypeInv /\ ListInv /\ OwnerInv /\ ServicedInv /\ [Next]_vars => ServicedInv'
  BY ServicedNext
<1>4. ServicedInv => ServicedIntact
  BY DEF ServicedInv, ServesLive, ServicedIntact, Serving
<1> QED BY TypeInit, TypeNext, ListInit, ListNext, ServiceInit, ServiceNext, OwnerInit,
           ServicedInit, <1>2, <1>3, <1>4, PTL DEF Spec
-----------------------------------------------------------------------------
(* When timers are served *)

\* The time a thread goes on with after a handler was read before.
NowKnown == \A n \in Nodes : node[n].pc \in Serving => node[n].now <= clock

\* Multiples grow with the factor.
LEMMA Multiples ==
    ASSUME NEW i \in Nat \ {0}, NEW k \in Nat
    PROVE  k * i \in Nat /\ k <= k * i /\ (k - 1) * i = k * i - i
  OBVIOUS

\* A quotient is rounded up: the multiple before it is below the dividend.
LEMMA RoundedUp ==
    ASSUME NEW x \in Nat, NEW i \in Nat \ {0}, NEW m \in Int, m = (x + i - 1) \div i
    PROVE  (m - 1) * i < x \/ m <= 1
  OBVIOUS

\* A periodic timer that was due at time now is due again a whole number of periods
\* later, and only periods that were over at that time are left out.
LEMMA NextExpiryDue ==
    ASSUME NEW e \in Nat, NEW i \in Nat \ {0}, NEW now \in Nat, e <= now,
           clock \in Nat, now <= clock
    PROVE  NextExpiry(e, i, now) \in Nat /\ Service!NextDue(e, i, NextExpiry(e, i, now))
<1>1. PICK x \in Nat : x = now - e
  OBVIOUS
<1>2. PICK m \in Int : m = (x + i - 1) \div i
  OBVIOUS
<1>3. PICK k \in Nat : k = IF m > 1 THEN m ELSE 1
  BY <1>2
<1>4. PICK next : next = NextExpiry(e, i, now)
  OBVIOUS
<1>5. next = e + i * k
  BY <1>1, <1>2, <1>3, <1>4 DEF NextExpiry
<1>6. k \in 1..next /\ next \in Nat /\ next = e + k * i
  BY <1>3, <1>5, Multiples
<1>7. k = 1 \/ e + (k - 1) * i < clock
  <2>1. (m - 1) * i < x \/ m <= 1
    BY <1>2, RoundedUp
  <2>2. (k - 1) * i \in Int /\ (k = m \/ k = 1)
    BY <1>3
  <2>3. k # 1 => (k - 1) * i < x
    BY <1>3, <2>1
  <2>4. QED
    BY <1>1, <2>2, <2>3
<1>8. QED
  BY <1>4, <1>6, <1>7 DEF Service!NextDue

\* The step with which a thread takes its first timer, or goes to sleep.
LEMMA NowServe ==
    ASSUME TypeInv, NEW n \in Nodes, NEW now \in Nat, ServeDue(n, now) \/ ServeWait(n, now)
    PROVE  node'[n].pc \in Serving => node'[n].now = now
<1>1. node \in [Nodes -> ThreadNode] /\ node[n] \in ThreadNode
  BY DEF TypeInv, TypeOK
<1>2. CASE ServeWait(n, now)
  <2>1. ASSUME NEW pc \in Waiting, NEW d,
               node' = [node EXCEPT ![n].current = Null, ![n].owner = Null,
                                    ![n].pc = pc, ![n].now = 0, ![n].deadline = d]
        PROVE  node'[n].pc \in Waiting
    BY <1>1, <2>1 DEF ThreadNode
  <2>2. "wait" \in Waiting /\ "timedwait" \in Waiting
    BY DEF Waiting
  <2>3. CASE node[n].queue = << >>
    BY <1>2, <2>1, <2>2, <2>3 DEF ServeWait, Waiting, Serving
  <2>4. CASE node[n].queue # << >>
    BY <1>2, <2>1, <2>2, <2>4 DEF ServeWait, Waiting, Serving
  <2>5. QED
    BY <2>3, <2>4
<1>3. CASE ServeDue(n, now)
  <2>1. \E w, t : node' = [node EXCEPT ![n].queue = w, ![n].current = t, ![n].owner = Null,
                                       ![n].pc = "call", ![n].now = now]
    BY <1>3 DEF ServeDue
  <2>2. QED
    BY <1>1, <2>1 DEF ThreadNode
<1>4. QED
  BY <1>2, <1>3

\* What a step does to thread n: it stays where it is, it is woken or started, it calls
\* the handler, or it looks at its queue with the time it knows.
ThreadServes(n, now) ==
    /\ now = clock \/ (node[n].pc = "handler" /\ now = node[n].now)
    /\ ServeDue(n, now) \/ ServeWait(n, now)

ThreadMoves(n) ==
    \/ SameThread(n)
    \/ node'[n].pc = "run" /\ node[n].pc \notin Serving
    \/ CallHandler(n)
    \/ \E now \in Nat : ThreadServes(n, now)

\* No step does anything else to a thread.
LEMMA ThreadSteps ==
    ASSUME TypeInv, ListInv, [Next]_vars
    PROVE  clock' >= clock /\ \A n \in Nodes : ThreadMoves(n)
<1>1. /\ TypeOK /\ TypeOK' /\ clock \in Nat /\ node \in [Nodes -> ThreadNode]
      /\ node' \in [Nodes -> ThreadNode] /\ clock >= clock
  BY TypeNext, SizeAssumption DEF TypeInv, TypeOK
<1> DEFINE Goal == clock' >= clock /\ \A n \in Nodes : ThreadMoves(n)
<1>2. ASSUME clock' >= clock, \A n \in Nodes : SameThread(n) PROVE Goal
  BY <1>2 DEF ThreadMoves
<1>3. ASSUME NEW c \in Clients, Add(c) PROVE Goal
  <2>1. clock' = clock
    BY <1>3 DEF Add, CreateOnThread, CreateAndSpawn, CreateBails
  <2>2. \A n \in Nodes : node'[n] = node[n] \/ (node[n].pc = "none" /\ node'[n].pc = "run")
    BY <1>3, AddSlot
  <2>3. QED
    BY <1>1, <2>1, <2>2 DEF Serving, ThreadMoves, SameThread
<1>4. ASSUME UNCHANGED node, clock' >= clock PROVE Goal
  BY <1>2, <1>4 DEF SameThread
<1>5. ASSUME NEW c \in Clients, AddStep(c) PROVE Goal
  BY <1>1, <1>4, <1>5 DEF AddStep, AddRecord, AddStore
<1>6. ASSUME NEW a \in Actors, NEW t \in Timers, DeleteFinish(a, t), clock' = clock
      PROVE  Goal
  BY <1>1, <1>2, <1>6, UnlinkThreads DEF DeleteFinish
<1>7. ASSUME NEW a \in Actors, Begin(a) PROVE Goal
  <2>1. CASE Delete(a)
    <3> DEFINE t == id[Owner(a)]
    <3>1. Calls(a, "del") /\ clock' = clock
      BY <2>1 DEF Delete
    <3>2. t \in Timers
      BY <3>1, CallerLemma DEF Ops
    <3>3. UNCHANGED node \/ DeleteFinish(a, t)
      BY <2>1 DEF Delete, DeleteWait
    <3>4. QED
      BY <1>1, <1>4, <1>6, <3>1, <3>2, <3>3
  <2>2. CASE Start(a) \/ Stop(a) \/ Period(a) \/ Change(a)
    BY <1>1, <1>4, <2>2 DEF Start, StartSection, Stop, Period, Change
  <2>3. QED
    BY <1>7, <2>1, <2>2 DEF Begin
<1>8. ASSUME NEW a \in Actors, CallStep(a) PROVE Goal
  <2>1. CASE SettimeDisarm(a) \/ SettimeArm(a) \/ SettimeInvalid(a)
    <3>1. \A n \in Nodes : SameThread(n)
      BY <1>1, <2>1, SettimeThreads
    <3>2. QED
      BY <1>1, <1>2, <2>1, <3>1 DEF SettimeDisarm, SettimeArm, SettimeInvalid
  <2>2. CASE DeleteResume(a)
    <3>1. call[a].tid \in Timers /\ clock' = clock
      BY <2>2 DEF DeleteResume, TypeInv, CallLocals
    <3>2. UNCHANGED node \/ DeleteFinish(a, call[a].tid)
      BY <2>2 DEF DeleteResume, DeleteWait
    <3>3. QED
      BY <1>1, <1>4, <1>6, <3>1, <3>2
  <2>3. CASE Wakeup(a)
    <3>1. clock' = clock /\ node' = WakeNode(node, call[a].thread)
      BY <2>3 DEF Wakeup
    <3>2. \A n \in Nodes : SameThread(n) \/ (node'[n].pc = "run" /\ node[n].pc \in Waiting)
      BY <1>1, <3>1 DEF WakeNode, ThreadNode, SameThread, Waiting
    <3>3. QED
      BY <1>1, <3>1, <3>2 DEF Serving, ThreadMoves, Waiting
  <2>4. CASE ChangePeriod(a) \/ ChangeStart(a) \/ ReadClock(a) \/ Forget(a)
    BY <1>1, <1>4, <2>4 DEF ChangePeriod, ChangeStart, StartSection, ReadClock, Forget
  <2>5. QED
    BY <1>8, <2>1, <2>2, <2>3, <2>4 DEF CallStep
<1>9. ASSUME NEW n \in Nodes, ServiceStep(n) \/ HandlerReturn(n) \/ SpuriousWakeup(n)
      PROVE  Goal
  <2>1. clock' = clock /\ node[n] \in ThreadNode
    BY <1>1, <1>9 DEF ServiceStep, Run, CallHandler, Timeout, HandlerReturn, SpuriousWakeup
  <2>2. ASSUME \A m \in Nodes : m # n => node'[m] = node[m], ThreadMoves(n) PROVE Goal
    BY <1>1, <2>1, <2>2 DEF ThreadMoves, SameThread
  <2>3. CASE Run(n) \/ HandlerReturn(n)
    <3>1. PICK now \in Nat : ThreadServes(n, now)
      BY <1>1, <2>1, <2>3 DEF Run, HandlerReturn, ThreadNode, ThreadServes
    <3>2. \A m \in Nodes : m # n => node'[m] = node[m]
      BY <3>1, ServeKeeps DEF ThreadServes
    <3>3. QED
      BY <2>2, <3>1, <3>2 DEF ThreadMoves
  <2>4. CASE CallHandler(n)
    <3>1. \A m \in Nodes : m # n => node'[m] = node[m]
      BY <1>1, <2>4 DEF CallHandler
    <3>2. QED
      BY <2>2, <2>4, <3>1 DEF ThreadMoves
  <2>5. CASE Timeout(n) \/ SpuriousWakeup(n)
    <3>1. /\ \A m \in Nodes : m # n => node'[m] = node[m]
          /\ node'[n].pc = "run" /\ node[n].pc \in Waiting
      BY <1>1, <2>5 DEF Timeout, SpuriousWakeup, ThreadNode, Waiting
    <3>2. QED
      BY <2>2, <3>1 DEF Serving, Waiting, ThreadMoves
  <2>6. QED
    BY <1>9, <2>3, <2>4, <2>5 DEF ServiceStep
<1>10. CASE Tick \/ UNCHANGED vars
  <2>1. UNCHANGED node /\ clock' >= clock
    BY <1>1, <1>10 DEF Tick, vars
  <2>2. QED
    BY <1>4, <2>1
<1>11. QED
  BY <1>3, <1>5, <1>7, <1>8, <1>9, <1>10 DEF Next

\* Every step keeps the times that threads go on with in the past.
LEMMA NowNext == TypeInv /\ ListInv /\ NowKnown /\ [Next]_vars => NowKnown'
<1> SUFFICES ASSUME TypeInv, ListInv, NowKnown, [Next]_vars, NEW n \in Nodes,
                    node'[n].pc \in Serving
             PROVE  node'[n].now <= clock'
  BY DEF NowKnown
<1>1. /\ clock \in Int /\ clock' \in Int /\ node'[n].now \in Int /\ node[n].now \in Int
      /\ node[n] \in ThreadNode /\ node \in [Nodes -> ThreadNode]
  <2>1. TypeOK /\ TypeOK'
    BY TypeNext DEF TypeInv
  <2>2. /\ clock \in Int /\ clock' \in Int
        /\ node \in [Nodes -> ThreadNode] /\ node' \in [Nodes -> ThreadNode]
    BY <2>1, SizeAssumption DEF TypeOK
  <2>3. QED
    BY <2>2 DEF ThreadNode
<1>2. clock' >= clock /\ ThreadMoves(n)
  BY ThreadSteps
<1>3. CASE SameThread(n)
  BY <1>1, <1>2, <1>3 DEF SameThread, NowKnown
<1>4. CASE CallHandler(n)
  <2>1. node'[n].now = node[n].now /\ node[n].pc \in Serving
    BY <1>1, <1>4 DEF CallHandler, ThreadNode, Serving
  <2>2. QED
    BY <1>1, <1>2, <2>1 DEF NowKnown
<1>5. ASSUME NEW now \in Nat, ThreadServes(n, now) PROVE node'[n].now <= clock'
  <2>1. node'[n].now = now
    BY <1>5, NowServe DEF ThreadServes
  <2>2. now <= clock
    BY <1>1, <1>5 DEF ThreadServes, NowKnown, Serving
  <2>3. QED
    BY <1>1, <1>2, <2>1, <2>2
<1>6. QED
  BY <1>2, <1>3, <1>4, <1>5 DEF ThreadMoves, Serving

\* The step with which a thread takes its first timer as due.
LEMMA DueStep ==
    ASSUME TypeInv, ListInv, ServiceInv, NEW n \in Nodes, NEW now \in Nat, now <= clock,
           ServeDue(n, now)
    PROVE  LET q == node[n].queue
               t == Head(q)
           IN  /\ t \in Timers /\ t \in ToSet(q) /\ timer'[t] \in TimerNode
               /\ node'[n].pc = "call" /\ node'[n].current = t
               /\ \A m \in Nodes : m # n => node'[m] = node[m]
               /\ timer[t].expiry <= clock
               /\ \A u \in ToSet(q) : timer[t].expiry <= timer[u].expiry
               /\ \A u \in Timers : u # t => timer'[u] = timer[u]
               /\ timer'[t].inuse = timer[t].inuse /\ timer'[t].thread = timer[t].thread
               /\ timer'[t].event = timer[t].event /\ timer'[t].interval = timer[t].interval
               /\ IF timer[t].interval = 0
                  THEN ToSet(node'[n].queue) = ToSet(q) \ {t}
                  ELSE /\ ToSet(node'[n].queue) = ToSet(q)
                       /\ Service!NextDue(timer[t].expiry, timer[t].interval, timer'[t].expiry)
<1> DEFINE q == node[n].queue
           t == Head(q)
           tm == [timer EXCEPT ![t] = Fired(@, now)]
           w == Requeued(q, tm, t)
<1>1. /\ node \in [Nodes -> ThreadNode] /\ timer \in [Timers -> TimerNode] /\ clock \in Nat
      /\ node[n] \in ThreadNode /\ q \in Seq(Timers) /\ Distinct(q) /\ Sorted(q, timer)
  BY QueueTypes, SizeAssumption
     DEF TypeInv, TypeOK, ListInv, ListsExact, ServiceInv, QueueSorted, Sorted
<1>2. /\ q # << >> /\ timer' = tm /\ now >= timer[t].expiry
      /\ node' = [node EXCEPT ![n].queue = w, ![n].current = t, ![n].owner = Null,
                              ![n].pc = "call", ![n].now = now]
  BY DEF ServeDue
<1>3. t \in Timers /\ t \in ToSet(q) /\ timer[t] \in TimerNode
  BY <1>1, <1>2, TailSet
<1>4. /\ Fired(timer[t], now) \in TimerNode
      /\ Fired(timer[t], now).inuse = timer[t].inuse
      /\ Fired(timer[t], now).thread = timer[t].thread
      /\ Fired(timer[t], now).event = timer[t].event
      /\ Fired(timer[t], now).interval = timer[t].interval
  BY <1>3, FiredLemma
<1>5. /\ tm \in [Timers -> TimerNode]
      /\ \A u \in Timers : u # t => tm[u] = timer[u]
      /\ tm[t] = Fired(timer[t], now)
  BY <1>1, <1>3, <1>4
<1>6. /\ ToSet(q) \ {t} \subseteq ToSet(w) /\ ToSet(w) \subseteq ToSet(q)
      /\ tm[t].interval # 0 => t \in ToSet(w)
  BY <1>1, <1>2, <1>5, SortedRequeued, RequeuedSet
<1>7. tm[t].interval = 0 => ToSet(w) = ToSet(q) \ {t}
  BY <1>1, <1>2, TailSet DEF Requeued
<1>8. /\ node'[n].queue = w /\ node'[n].pc = "call" /\ node'[n].current = t
      /\ \A m \in Nodes : m # n => node'[m] = node[m]
  <2> HIDE DEF w, t
  <2> QED BY <1>1, <1>2 DEF ThreadNode
<1>9. \A u \in ToSet(q) : timer[t].expiry <= timer[u].expiry
  <2> SUFFICES ASSUME NEW i \in 1..Len(q) PROVE timer[t].expiry <= timer[q[i]].expiry
    BY <1>1, ToSetLemma
  <2>1. t = q[1] /\ Len(q) \in Nat /\ q[i] \in Timers
    BY <1>1, <1>2, HeadLemma
  <2>2. timer[t].expiry \in Nat
    BY <1>3 DEF TimerNode
  <2> HIDE DEF q, t
  <2>3. CASE i = 1
    BY <2>1, <2>2, <2>3
  <2>4. CASE i # 1
    BY <1>1, <2>1, <2>4 DEF Sorted
  <2>5. QED
    BY <2>3, <2>4
<1> HIDE DEF q, t, w, tm
<1>10. timer[t].expiry <= clock
  BY <1>1, <1>2, <1>3 DEF TimerNode
<1>11. ASSUME timer[t].interval # 0
       PROVE  Service!NextDue(timer[t].expiry, timer[t].interval, timer'[t].expiry)
  <2>1. PICK e \in Nat, i \in Nat \ {0} : e = timer[t].expiry /\ i = timer[t].interval
    BY <1>3, <1>11 DEF TimerNode
  <2>2. Service!NextDue(e, i, NextExpiry(e, i, now))
    BY <1>1, <1>2, <2>1, NextExpiryDue
  <2>3. timer'[t].expiry = NextExpiry(e, i, now)
    <3>1. PICK x : x = NextExpiry(e, i, now)
      OBVIOUS
    <3>2. Fired(timer[t], now) = [timer[t] EXCEPT !.expiry = x]
      BY <2>1, <3>1 DEF Fired
    <3>3. [timer[t] EXCEPT !.expiry = x].expiry = x
      BY <1>3 DEF TimerNode
    <3>4. QED
      BY <1>2, <1>5, <3>1, <3>2, <3>3
  <2>4. QED
    BY <2>1, <2>2, <2>3
<1>12. /\ timer'[t].inuse = timer[t].inuse /\ timer'[t].thread = timer[t].thread
       /\ timer'[t].event = timer[t].event /\ timer'[t].interval = timer[t].interval
       /\ timer'[t] \in TimerNode /\ \A u \in Timers : u # t => timer'[u] = timer[u]
  BY <1>2, <1>4, <1>5
<1>13. IF timer[t].interval = 0 THEN ToSet(node'[n].queue) = ToSet(q) \ {t}
       ELSE /\ ToSet(node'[n].queue) = ToSet(q)
            /\ Service!NextDue(timer[t].expiry, timer[t].interval, timer'[t].expiry)
  <2>1. tm[t].interval = timer[t].interval
    BY <1>4, <1>5
  <2>2. CASE timer[t].interval = 0
    BY <1>7, <1>8, <2>1, <2>2
  <2>3. CASE timer[t].interval # 0
    BY <1>3, <1>6, <1>8, <1>11, <2>1, <2>3
  <2>4. QED
    BY <2>2, <2>3
<1>14. QED
  BY <1>3, <1>8, <1>9, <1>10, <1>12, <1>13 DEF q, t

\* A thread begins to serve a timer only by taking the first one of its queue, with a
\* time that is not in the future.
LEMMA TakesDue ==
    ASSUME TypeInv, ListInv, NowKnown, [Next]_vars, NEW n \in Nodes,
           node[n].pc # "call", node'[n].pc = "call"
    PROVE  \E now \in Nat : now <= clock /\ ServeDue(n, now)
<1>1. clock \in Nat /\ node \in [Nodes -> ThreadNode] /\ node[n] \in ThreadNode
  BY SizeAssumption DEF TypeInv, TypeOK
<1>2. PICK now \in Nat : ThreadServes(n, now)
  BY ThreadSteps DEF ThreadMoves, SameThread, CallHandler
<1>3. now <= clock
  BY <1>1, <1>2 DEF ThreadServes, NowKnown, Serving
<1>4. ~ServeWait(n, now)
  <2>1. CASE node[n].queue = << >>
    BY <1>1, <2>1 DEF ServeWait, ThreadNode
  <2>2. CASE node[n].queue # << >>
    BY <1>1, <2>2 DEF ServeWait, ThreadNode
  <2>3. QED
    BY <2>1, <2>2
<1>5. QED
  BY <1>2, <1>3, <1>4 DEF ThreadServes

\* A timer is served when it is due and not before, and the earliest one of its thread
\* first, for every interleaving of calls, handlers and clock reads; a one-shot timer is
\* served once, a periodic one keeps its rhythm (thread_func).
THEOREM ServedWhenDue == Spec => ServesDue
<1> DEFINE Taken(n) ==
        LET t == node'[n].current IN
        /\ timer[t].expiry <= clock
        /\ \A u \in ToSet(node[n].queue) : timer[t].expiry <= timer[u].expiry
        /\ IF timer[t].interval = 0 THEN t \notin ToSet(node'[n].queue)
           ELSE Service!NextDue(timer[t].expiry, timer[t].interval, timer'[t].expiry)
<1>1. ASSUME TypeInv, ListInv, ServiceInv, NowKnown, [Next]_vars, NEW n \in Nodes,
             node[n].pc # "call", node'[n].pc = "call"
      PROVE  Taken(n)
  <2>1. PICK now \in Nat : now <= clock /\ ServeDue(n, now)
    BY <1>1, TakesDue
  <2> DEFINE t == Head(node[n].queue)
  <2>2. /\ node'[n].current = t /\ timer[t].expiry <= clock
        /\ \A u \in ToSet(node[n].queue) : timer[t].expiry <= timer[u].expiry
        /\ IF timer[t].interval = 0 THEN ToSet(node'[n].queue) = ToSet(node[n].queue) \ {t}
           ELSE Service!NextDue(timer[t].expiry, timer[t].interval, timer'[t].expiry)
    BY <1>1, <2>1, DueStep
  <2> HIDE DEF t
  <2>3. QED
    BY <2>2
<1>2. TypeInv /\ ListInv /\ ServiceInv /\ NowKnown /\ [Next]_vars
        => [\A n \in Nodes : node[n].pc # "call" /\ node'[n].pc = "call" => Taken(n)]_vars
  BY <1>1
<1>3. Init => NowKnown
  BY DEF Init, NowKnown, NewThread, Serving
<1>4. QED
  BY TypeInit, TypeNext, ListInit, ListNext, ServiceInit, ServiceNext, NowNext, <1>2, <1>3, PTL
     DEF Spec, ServesDue
-----------------------------------------------------------------------------
(* The promise of TimerService *)

\* What the application sees of slot u depends on no more than this.
LEMMA SlotKept ==
    ASSUME NEW u \in Timers, timer'[u].inuse = timer[u].inuse,
           Valid(u) => timer'[u].event = timer[u].event /\ timer'[u].thread = timer[u].thread,
           Queued(u)' <=> Queued(u),
           Queued(u) => /\ timer'[u].expiry = timer[u].expiry
                        /\ timer'[u].interval = timer[u].interval
    PROVE  SlotView(u)' = SlotView(u)
<1>1. CASE ~Valid(u)
  BY <1>1 DEF SlotView, Valid
<1>2. CASE Valid(u) /\ Queued(u)
  BY <1>2 DEF SlotView, Valid
<1>3. CASE Valid(u) /\ ~Queued(u)
  BY <1>3 DEF SlotView, Valid
<1>4. QED
  BY <1>1, <1>2, <1>3

\* What it sees of a thread that does not move, or that moves without serving.
LEMMA ServingKept ==
    ASSUME NEW n \in Nodes,
           SameThread(n) \/ (node[n].pc \notin Serving /\ node'[n].pc \notin Serving),
           node[n].pc = "call" =>
                timer'[node[n].current].event = timer[node[n].current].event
    PROVE  ServingView(n)' = ServingView(n)
<1>1. CASE node[n].pc = "call"
  BY <1>1 DEF ServingView, SameThread, Serving
<1>2. CASE node[n].pc = "handler"
  BY <1>2 DEF ServingView, SameThread, Serving
<1>3. CASE node[n].pc \notin Serving
  <2>1. node'[n].pc \notin Serving
    BY <1>3 DEF SameThread
  <2>2. QED
    BY <1>3, <2>1 DEF ServingView, Serving
<1>4. QED
  BY <1>1, <1>2, <1>3 DEF Serving

\* The queue a timer is on is that of its own thread.
LEMMA QueuedOn ==
    ASSUME ListInv, NEW t \in Timers
    PROVE  /\ Queued(t) => Valid(t) /\ timer[t].armed
           /\ \A n \in Nodes : t \in ToSet(node[n].queue) => timer[t].thread = n
           /\ Queued(t) /\ timer[t].thread \in Nodes => t \in ToSet(node[timer[t].thread].queue)
  BY DEF ListInv, ListsExact, Queued

\* The timer a thread serves is a live one.
LEMMA ServedValid ==
    ASSUME TypeInv, ServicedInv, NEW n \in Nodes, node[n].pc \in Serving
    PROVE  /\ node[n].current \in Timers /\ Valid(node[n].current)
           /\ timer[node[n].current].thread = n
  BY DEF TypeInv, ServiceLocals, ServicedInv, ServesLive, Serving

\* A step that nobody can see.
LEMMA SeenSame ==
    ASSUME clock' = clock, \A u \in Timers : SlotView(u)' = SlotView(u),
           \A n \in Nodes : ServingView(n)' = ServingView(n)
    PROVE  UNCHANGED Service!vars
  BY DEF Service!vars

\* Slots whose use and times are left alone, on queues that hold what they held.
LEMMA QuietSlots ==
    ASSUME NEW u \in Timers, SameSlot(u), Valid(u) => timer'[u].event = timer[u].event,
           \A n \in Nodes : u \in ToSet(node'[n].queue) <=> u \in ToSet(node[n].queue)
    PROVE  SlotView(u)' = SlotView(u)
<1>1. Queued(u)' <=> Queued(u)
  BY DEF Queued
<1>2. QED
  BY <1>1, SlotKept DEF SameSlot

\* What is seen of a slot.
View(s, c, n, d, p) == [state |-> s, owner |-> c, thread |-> n, due |-> d, period |-> p]

\* The records that creating, starting and serving a timer leave.
ViewCreated(r, c, n) == [r EXCEPT !.state = "idle", !.owner = c, !.thread = n]
ViewStarted(r, d, p) == [r EXCEPT !.state = "running", !.due = d, !.period = p]
ViewServed(r) == [r EXCEPT !.state = "idle", !.due = 0]
ViewDue(r, d) == [r EXCEPT !.due = d]

\* What creating and starting a timer does to it.
LEMMA ViewChanges ==
    ASSUME NEW s, NEW c, NEW n, NEW d, NEW p, NEW r, r = View(s, c, n, d, p), NEW y, NEW z
    PROVE  /\ ViewCreated(r, y, z) = View("idle", y, z, d, p)
           /\ ViewStarted(r, y, z) = View("running", c, n, y, z)
<1>1. PICK r1, r2 : r1 = [r EXCEPT !.state = "idle"] /\ r2 = [r EXCEPT !.state = "running"]
  OBVIOUS
<1>2. r1 = View("idle", c, n, d, p) /\ r2 = View("running", c, n, d, p)
  BY <1>1 DEF View
<1>3. PICK r3, r4 : r3 = [r1 EXCEPT !.owner = y] /\ r4 = [r2 EXCEPT !.due = y]
  OBVIOUS
<1>4. r3 = View("idle", y, n, d, p) /\ r4 = View("running", c, n, y, p)
  BY <1>2, <1>3 DEF View
<1>5. /\ [r3 EXCEPT !.thread = z] = View("idle", y, z, d, p)
      /\ [r4 EXCEPT !.period = z] = View("running", c, n, y, z)
  BY <1>4 DEF View
<1>6. ViewCreated(r, y, z) = View("idle", y, z, d, p)
  BY <1>1, <1>3, <1>5 DEF ViewCreated
<1>7. ViewStarted(r, y, z) = View("running", c, n, y, z)
  BY <1>1, <1>3, <1>5 DEF ViewStarted
<1>8. QED
  BY <1>6, <1>7

\* What serving it does.
LEMMA ViewsServed ==
    ASSUME NEW s, NEW c, NEW n, NEW d, NEW p, NEW r, r = View(s, c, n, d, p), NEW y
    PROVE  ViewServed(r) = View("idle", c, n, 0, p) /\ ViewDue(r, y) = View(s, c, n, y, p)
<1>1. PICK r1 : r1 = [r EXCEPT !.state = "idle"]
  OBVIOUS
<1>2. r1 = View("idle", c, n, d, p)
  BY <1>1 DEF View
<1>3. [r1 EXCEPT !.due = 0] = View("idle", c, n, 0, p)
  BY <1>2 DEF View
<1>4. [r EXCEPT !.due = y] = View(s, c, n, y, p)
  BY DEF View
<1>5. QED
  BY <1>1, <1>3, <1>4 DEF ViewServed, ViewDue

\* What is seen of a slot that is free, idle, or running.
LEMMA Views ==
    ASSUME NEW t \in Timers
    PROVE  /\ ~Valid(t) => SlotView(t) = View("free", Null, Null, 0, 0)
           /\ Valid(t) /\ ~Queued(t) =>
                SlotView(t) = View("idle", timer[t].event, timer[t].thread, 0, 0)
           /\ Valid(t) /\ Queued(t) =>
                SlotView(t) = View("running", timer[t].event, timer[t].thread,
                                   timer[t].expiry, timer[t].interval)
  BY DEF SlotView, View

\* The same after a step.
LEMMA ViewsAfter ==
    ASSUME NEW t \in Timers
    PROVE  /\ timer'[t].inuse # "INUSE" => SlotView(t)' = View("free", Null, Null, 0, 0)
           /\ timer'[t].inuse = "INUSE" /\ ~Queued(t)' =>
                SlotView(t)' = View("idle", timer'[t].event, timer'[t].thread, 0, 0)
           /\ timer'[t].inuse = "INUSE" /\ Queued(t)' =>
                SlotView(t)' = View("running", timer'[t].event, timer'[t].thread,
                                    timer'[t].expiry, timer'[t].interval)
  BY DEF SlotView, View, Valid

\* os_timer_add takes a free slot for a client, or changes nothing that is seen.
LEMMA SeenCreate ==
    ASSUME TypeInv, TypeInv', ListInv, ListInv', ServiceInv, ServicedInv, NEW c \in Clients, Add(c)
    PROVE  [Service!Next]_(Service!vars)
<1>1. PICK t \in Timers :
      /\ timer[t].inuse = "FREE"
      /\ \A u \in Timers : u # t => timer'[u] = timer[u]
      /\ \/ /\ node' = node /\ timer'[t].inuse = "FREE"
         \/ /\ timer'[t].inuse = "INUSE" /\ timer'[t].event = c /\ ~timer'[t].armed
            /\ \A n \in Nodes :
                   node'[n] = node[n] \/ (node[n].pc = "none" /\ node'[n].pc = "run")
  BY AddSlot
<1>2. clock' = clock
  BY DEF Add, CreateOnThread, CreateAndSpawn, CreateBails
<1>3. \A n \in Nodes : ServingView(n)' = ServingView(n)
  <2> SUFFICES ASSUME NEW n \in Nodes PROVE ServingView(n)' = ServingView(n)
    OBVIOUS
  <2>1. node[n].pc \in Serving => node[n].current \in Timers /\ node[n].current # t
    BY <1>1, ServedValid DEF Valid
  <2>2. SameThread(n) \/ (node[n].pc \notin Serving /\ node'[n].pc \notin Serving)
    BY <1>1 DEF SameThread, Serving
  <2>3. QED
    BY <1>1, <2>1, <2>2, ServingKept DEF Serving
<1>4. ASSUME NEW u \in Timers, u # t PROVE SlotView(u)' = SlotView(u)
  <2>1. ASSUME NEW n \in Nodes PROVE u \in ToSet(node'[n].queue) <=> u \in ToSet(node[n].queue)
    <3>1. CASE node'[n] = node[n]
      BY <3>1
    <3>2. CASE node[n].pc = "none"
      <4>1. Valid(u) => timer[u].thread # n
        BY <3>2 DEF ServiceInv, OneThreadPerPrio
      <4>2. u \notin ToSet(node[n].queue)
        BY <4>1 DEF ListInv, ListsExact
      <4>3. u \notin ToSet(node'[n].queue)
        BY <1>1, <1>4, <4>1 DEF ListInv, ListsExact, Valid
      <4>4. QED
        BY <4>2, <4>3
    <3>3. QED
      BY <1>1, <3>1, <3>2
  <2>2. QED
    BY <1>1, <1>4, <2>1, QuietSlots DEF SameSlot
<1>5. CASE timer'[t].inuse = "FREE"
  <2>1. SlotView(t)' = SlotView(t)
    BY <1>1, <1>5 DEF SlotView, Valid
  <2>2. QED
    BY <1>2, <1>3, <1>4, <2>1, SeenSame
<1>6. CASE timer'[t].inuse = "INUSE"
  <2>1. timer'[t].thread \in Nodes /\ timer'[t].event = c /\ ~timer'[t].armed
    BY <1>1, <1>6 DEF TypeInv, HandlersKnown
  <2>2. ~Queued(t)'
    BY <1>1, <2>1 DEF ListInv, ListsExact, Queued
  <2>3. PICK n \in Nodes : n = timer'[t].thread
    BY <2>1
  <2>4. SlotView(t) = View("free", Null, Null, 0, 0)
    BY <1>1, Views DEF Valid
  <2>5. SlotView(t)' = ViewCreated(SlotView(t), c, n)
    <3>1. SlotView(t)' = View("idle", c, n, 0, 0)
      BY <1>6, <2>1, <2>2, <2>3, ViewsAfter
    <3>2. ViewCreated(SlotView(t), c, n) = View("idle", c, n, 0, 0)
      BY <2>4, ViewChanges
    <3>3. QED
      BY <3>1, <3>2
  <2>6. Service!Create(t)
    <3> DEFINE s == [u \in Timers |-> SlotView(u)]
    <3>1. s[t].state = "free"
      BY <2>4 DEF View
    <3>2. s' = [s EXCEPT ![t].state = "idle", ![t].owner = c, ![t].thread = n]
      BY <1>4, <2>5 DEF ViewCreated
    <3>3. QED
      BY <1>2, <1>3, <3>1, <3>2 DEF Service!Create
  <2>7. QED
    BY <1>1, <2>6 DEF Service!Next
<1>7. QED
  BY <1>1, <1>5, <1>6

\* __timer_settime starts the timer of its caller, whatever that timer does; the one
\* that passes a zero value is about a timer that was never started.
LEMMA SeenStart ==
    ASSUME TypeInv, TypeInv', ListInv, OwnerInv, ServicedInv, NEW a \in Actors,
           SettimeDisarm(a) \/ SettimeArm(a) \/ SettimeInvalid(a)
    PROVE  [Service!Next]_(Service!vars)
<1>1. PICK t \in Timers : t = call[a].tid
  BY DEF TypeInv, CallLocals, SettimeDisarm, SettimeArm, SettimeInvalid
<1>2. /\ TypeOK /\ timer \in [Timers -> TimerNode] /\ node \in [Nodes -> ThreadNode]
      /\ node' \in [Nodes -> ThreadNode] /\ timer[t] \in TimerNode /\ call[a] \in Call
  BY DEF TypeInv, TypeOK
<1>3. call[a].pc = "settime" /\ call[a].pc \in Settling /\ clock' = clock
  BY DEF SettimeDisarm, SettimeArm, SettimeInvalid, Settling
<1>4. Valid(t) /\ CallsLive(a)
  BY <1>1, <1>3, SettlingOwns DEF ServicedInv
<1>5. \A n \in Nodes : SameThread(n)
  BY <1>2, SettimeThreads
<1>6. ASSUME \A u \in Timers : timer'[u].event = timer[u].event, NEW n \in Nodes
      PROVE  ServingView(n)' = ServingView(n)
  <2>1. node[n].pc = "call" => node[n].current \in Timers
    BY ServedValid DEF Serving
  <2>2. QED
    BY <1>5, <1>6, <2>1, ServingKept
<1>7. CASE SettimeDisarm(a)
  <2>1. /\ timer' = [timer EXCEPT ![t].interval = call[a].interval, ![t].armed = FALSE]
        /\ node' = Unlinked(t) /\ call[a].value = 0
    BY <1>1, <1>7 DEF SettimeDisarm
  <2>2. ~timer[t].armed
    BY <1>1, <1>3, <1>4, <2>1 DEF CallsLive
  <2>3. \A n \in Nodes : ToSet(node'[n].queue) = ToSet(node[n].queue) \ {t}
    BY <1>2, <2>1, UnlinkedSet
  <2>4. ~Queued(t) /\ ~Queued(t)'
    BY <2>2, <2>3, QueuedOn DEF Queued
  <2>5. \A u \in Timers : /\ timer'[u].inuse = timer[u].inuse
                          /\ timer'[u].event = timer[u].event
                          /\ timer'[u].thread = timer[u].thread
                          /\ u # t => timer'[u] = timer[u]
    BY <1>2, <2>1 DEF TimerNode
  <2>6. SlotView(t)' = SlotView(t)
    BY <2>4, <2>5, SlotKept
  <2>7. \A u \in Timers : u # t => SlotView(u)' = SlotView(u)
    BY <2>3, <2>5, QuietSlots DEF SameSlot
  <2>8. QED
    BY <1>3, <1>6, <2>5, <2>6, <2>7, SeenSame
<1>8. CASE SettimeArm(a)
  <2> DEFINE n == timer[t].thread
             expiry == call[a].now + call[a].value
             q == Without(node[n].queue, t)
             pos == QueuePos(q, timer, expiry)
             w == InsertAt(q, pos, t)
  <2>1. /\ timer' = [timer EXCEPT ![t].interval = call[a].interval,
                                  ![t].armed = TRUE, ![t].expiry = expiry]
        /\ node' = [Unlinked(t) EXCEPT ![n].queue = w]
    BY <1>1, <1>8 DEF SettimeArm
  <2>2. n \in Nodes /\ expiry \in Nat
    BY <1>2, <1>4 DEF TypeInv, HandlersKnown, Valid, Call
  <2> HIDE DEF n, expiry
  <2>3. q \in Seq(Timers) /\ Distinct(q) /\ ToSet(q) = ToSet(node[n].queue) \ {t}
    BY <1>2, <2>2, QueueTypes, WithoutLemma, WithoutSet DEF ListInv, ListsExact
  <2> HIDE DEF q
  <2>4. ToSet(w) = ToSet(q) \cup {t}
    <3>1. pos \in 1..(Len(q) + 1)
      BY <1>2, <2>2, <2>3, QueuePosLemma
    <3>2. QED
      BY <2>3, <3>1, InsertSet
  <2> HIDE DEF w
  <2>5. \A m \in Nodes : \A u \in Timers :
            u # t => (u \in ToSet(node'[m].queue) <=> u \in ToSet(node[m].queue))
    <3> DEFINE U == Unlinked(t)
    <3>1. U \in [Nodes -> ThreadNode] /\ \A m \in Nodes : ToSet(U[m].queue) = ToSet(node[m].queue) \ {t}
      BY <1>2, UnlinkedLemma, UnlinkedSet DEF TypeOK
    <3> HIDE DEF U
    <3>2. node'[n].queue = w /\ \A m \in Nodes : m # n => node'[m] = U[m]
      BY <2>1, <2>2, <3>1 DEF U, ThreadNode
    <3>3. QED
      BY <2>3, <2>4, <3>1, <3>2
  <2>6. Queued(t)'
    <3>1. node'[n].queue = w
      BY <1>2, <2>1, <2>2, UnlinkedLemma DEF ThreadNode
    <3>2. QED
      BY <2>2, <2>4, <3>1 DEF Queued
  <2>7. /\ timer'[t].inuse = timer[t].inuse /\ timer'[t].thread = timer[t].thread
        /\ timer'[t].expiry \in Nat /\ timer'[t].interval \in Nat
        /\ \A u \in Timers : u # t => timer'[u] = timer[u]
        /\ \A u \in Timers : timer'[u].event = timer[u].event
    BY <1>2, <2>1, <2>2 DEF TimerNode, Call
  <2>8. ASSUME NEW u \in Timers, u # t PROVE SlotView(u)' = SlotView(u)
    BY <2>5, <2>7, <2>8, QuietSlots DEF SameSlot
  <2>9. \A m \in Nodes : ServingView(m)' = ServingView(m)
    BY <1>6, <2>7
  <2>10. Service!Start(t)
    <3>1. PICK d \in Nat, p \in Nat : d = timer'[t].expiry /\ p = timer'[t].interval
      BY <2>7
    <3>2. SlotView(t)' = View("running", timer[t].event, timer[t].thread, d, p)
      BY <1>4, <2>6, <2>7, <3>1, ViewsAfter DEF Valid
    <3>3. /\ SlotView(t).state # "free"
          /\ ViewStarted(SlotView(t), d, p) =
                View("running", timer[t].event, timer[t].thread, d, p)
      <4>1. PICK x, e, i : x # "free" /\
                SlotView(t) = View(x, timer[t].event, timer[t].thread, e, i)
        BY <1>4, Views
      <4>2. SlotView(t).state # "free"
        BY <4>1 DEF View
      <4>3. ViewStarted(SlotView(t), d, p) =
                View("running", timer[t].event, timer[t].thread, d, p)
        BY <4>1, ViewChanges
      <4>4. QED
        BY <4>2, <4>3
    <3> DEFINE s == [u \in Timers |-> SlotView(u)]
    <3>4. s' = [s EXCEPT ![t].state = "running", ![t].due = d, ![t].period = p]
      BY <2>8, <3>2, <3>3 DEF ViewStarted
    <3>5. s'[t].due = d /\ s'[t].period = p
      BY <3>2 DEF View
    <3>6. QED
      BY <1>3, <2>9, <3>3, <3>4, <3>5 DEF Service!Start
  <2>11. QED
    BY <2>10 DEF Service!Next
<1>9. QED
  BY <1>1, <1>4, <1>7, <1>8 DEF SettimeInvalid

\* os_timer_del frees a slot whose timer no thread serves, or waits.
LEMMA SeenDelete ==
    ASSUME NoStops, TypeInv, TypeInv', ListInv, ListInv', OwnerInv, ServicedInv, NEW a \in Actors,
           Delete(a) \/ DeleteResume(a)
    PROVE  [Service!Next]_(Service!vars)
<1>1. clock' = clock
  BY DEF Delete, DeleteResume
<1>2. PICK t \in Timers :
        /\ Valid(t)
        /\ \/ DeleteWait(a, t, timer[t].thread)
           \/ /\ DeleteFinish(a, t)
              /\ \A n \in Nodes : node[n].pc \in Serving => node[n].current # t
  BY DeleteUnserved
<1>3. CASE DeleteWait(a, t, timer[t].thread)
  <2>1. UNCHANGED <<clock, timer, node>>
    BY <1>1, <1>3 DEF DeleteWait
  <2>2. /\ \A u \in Timers : SlotView(u)' = SlotView(u)
        /\ \A n \in Nodes : ServingView(n)' = ServingView(n)
    BY <2>1 DEF SlotView, ServingView, Valid, Queued
  <2>3. QED
    BY <1>1, <2>2, SeenSame
<1>4. CASE /\ DeleteFinish(a, t)
           /\ \A n \in Nodes : node[n].pc \in Serving => node[n].current # t
  <2>1. /\ timer \in [Timers -> TimerNode] /\ timer[t] \in TimerNode /\ TypeOK
        /\ node' \in [Nodes -> ThreadNode]
    BY DEF TypeInv, TypeOK
  <2>2. timer' = [timer EXCEPT ![t] = Deleted(@)] /\ node' = Unlinked(t)
    BY <1>4 DEF DeleteFinish
  <2>3. /\ timer'[t].inuse # "INUSE" /\ \A u \in Timers : u # t => timer'[u] = timer[u]
    BY <2>1, <2>2, DeletedLemma
  <2>4. \A n \in Nodes : SameThread(n)
    BY <2>1, <2>2, UnlinkThreads
  <2>5. \A n \in Nodes : ToSet(node'[n].queue) = ToSet(node[n].queue) \ {t}
    BY <2>1, <2>2, UnlinkedSet
  <2>6. \A u \in Timers : u # t => SlotView(u)' = SlotView(u)
    BY <2>3, <2>5, QuietSlots DEF SameSlot
  <2>7. ASSUME NEW n \in Nodes
        PROVE  ServingView(n)' = ServingView(n) /\ ServingView(n).timer # t
    <3>1. node[n].pc \in Serving => node[n].current \in Timers /\ node[n].current # t
      BY <1>4, ServedValid
    <3>2. ServingView(n)' = ServingView(n)
      BY <2>3, <2>4, <3>1, ServingKept DEF Serving
    <3>3. t # Null
      BY DEF Timers, Null
    <3>4. QED
      BY <3>1, <3>2, <3>3 DEF ServingView, Serving
  <2>8. SlotView(t)' = Service!Unused
    BY <2>3, ViewsAfter DEF View, Service!Unused
  <2>9. SlotView(t).state # "free"
    BY <1>2, Views DEF View
  <2>10. Service!Delete(t)
    BY <1>1, <2>6, <2>7, <2>8, <2>9 DEF Service!Delete
  <2>11. QED
    BY <2>10 DEF Service!Next
<1>5. QED
  BY <1>2, <1>3, <1>4

\* A thread takes its first timer, which is the one that is due first.
LEMMA SeenServe ==
    ASSUME TypeInv, TypeInv', ListInv, ListInv', ServiceInv, ServicedInv, NEW n \in Nodes,
           NEW now \in Nat, now <= clock, ServeDue(n, now), clock' = clock
    PROVE  [Service!Next]_(Service!vars)
<1>1. PICK t \in Timers : t = Head(node[n].queue)
  BY DueStep
<1>2. /\ t \in ToSet(node[n].queue) /\ timer'[t] \in TimerNode
      /\ node'[n].pc = "call" /\ node'[n].current = t
      /\ \A m \in Nodes : m # n => node'[m] = node[m]
      /\ timer[t].expiry <= clock
      /\ \A u \in ToSet(node[n].queue) : timer[t].expiry <= timer[u].expiry
      /\ \A u \in Timers : u # t => timer'[u] = timer[u]
      /\ timer'[t].inuse = timer[t].inuse /\ timer'[t].thread = timer[t].thread
      /\ timer'[t].event = timer[t].event /\ timer'[t].interval = timer[t].interval
  BY <1>1, DueStep
<1>3. IF timer[t].interval = 0 THEN ToSet(node'[n].queue) = ToSet(node[n].queue) \ {t}
      ELSE /\ ToSet(node'[n].queue) = ToSet(node[n].queue)
           /\ Service!NextDue(timer[t].expiry, timer[t].interval, timer'[t].expiry)
  BY <1>1, DueStep
<1>4. Valid(t) /\ timer[t].thread = n /\ Queued(t)
  BY <1>2 DEF ListInv, ListsExact, Queued
<1>5. ASSUME NEW u \in Timers, u # t PROVE SlotView(u)' = SlotView(u)
  <2>1. ASSUME NEW m \in Nodes
        PROVE  u \in ToSet(node'[m].queue) <=> u \in ToSet(node[m].queue)
    BY <1>2, <1>3, <1>5
  <2>2. QED
    BY <1>2, <1>5, <2>1, QuietSlots DEF SameSlot
<1>6. ASSUME NEW m \in Nodes, m # n PROVE ServingView(m)' = ServingView(m)
  <2>1. node[m].pc = "call" => node[m].current \in Timers
    BY ServedValid DEF Serving
  <2>2. SameThread(m)
    BY <1>2, <1>6 DEF SameThread
  <2>3. QED
    BY <1>2, <2>1, <2>2, ServingKept
<1>7. ServingView(n)' = [timer |-> t, owner |-> timer[t].event]
  BY <1>2 DEF ServingView
<1>8. PICK c, d, i : c = timer[t].event /\ d = timer[t].expiry /\ i = timer[t].interval
  OBVIOUS
<1>9. SlotView(t) = View("running", c, n, d, i)
  BY <1>4, <1>8, Views
<1> DEFINE s == [u \in Timers |-> SlotView(u)]
           g == [m \in Nodes |-> ServingView(m)]
<1>10. /\ s[t].state = "running" /\ s[t].thread = n /\ s[t].due = d /\ s[t].period = i
       /\ s[t].owner = c
  BY <1>9 DEF View
<1>11. s[t].due <= clock
  BY <1>2, <1>8, <1>10
<1>12. \A u \in Timers : s[u].state = "running" /\ s[u].thread = n => s[t].due <= s[u].due
  <2> SUFFICES ASSUME NEW u \in Timers, s[u].state = "running", s[u].thread = n
               PROVE  s[t].due <= s[u].due
    OBVIOUS
  <2>1. Valid(u) /\ Queued(u)
    <3>1. SlotView(u).state = "running"
      OBVIOUS
    <3>2. QED
      BY <3>1, Views DEF View
  <2>2. SlotView(u) = View("running", timer[u].event, timer[u].thread, timer[u].expiry,
                           timer[u].interval)
    BY <2>1, Views
  <2>3. timer[u].thread = n /\ s[u].due = timer[u].expiry
    BY <2>2 DEF View
  <2>4. u \in ToSet(node[n].queue)
    BY <2>1, <2>3, QueuedOn
  <2>5. QED
    BY <1>2, <1>8, <1>10, <2>3, <2>4
<1>13. g' = [g EXCEPT ![n] = [timer |-> t, owner |-> s[t].owner]]
  BY <1>6, <1>7, <1>8, <1>10
<1>14. CASE i = 0
  <2>1. ~Queued(t)'
    <3>1. \A m \in Nodes : t \in ToSet(node'[m].queue) => m = n
      BY <1>2, <1>4 DEF ListInv, ListsExact
    <3>2. QED
      BY <1>3, <1>8, <1>14, <3>1 DEF Queued
  <2>2. SlotView(t)' = View("idle", c, n, 0, 0)
    BY <1>2, <1>4, <1>8, <2>1, ViewsAfter DEF Valid
  <2>3. ViewServed(SlotView(t)) = View("idle", c, n, 0, 0)
    BY <1>9, <1>14, ViewsServed
  <2>4. s' = [s EXCEPT ![t].state = "idle", ![t].due = 0]
    BY <1>5, <2>2, <2>3 DEF ViewServed
  <2>5. Service!Serve(n, t)
    BY <1>10, <1>11, <1>12, <1>13, <1>14, <2>4 DEF Service!Serve
  <2>6. QED
    BY <2>5 DEF Service!Next
<1>15. CASE i # 0
  <2>1. Queued(t)'
    BY <1>2, <1>3, <1>8, <1>15 DEF Queued
  <2>2. PICK e : e = timer'[t].expiry
    OBVIOUS
  <2>3. SlotView(t)' = View("running", c, n, e, i)
    BY <1>2, <1>4, <1>8, <2>1, <2>2, ViewsAfter DEF Valid
  <2>4. ViewDue(SlotView(t), e) = View("running", c, n, e, i)
    BY <1>9, ViewsServed
  <2>5. s' = [s EXCEPT ![t].due = e] /\ s'[t].due = e
    BY <1>5, <2>3, <2>4 DEF ViewDue, View
  <2>6. Service!NextDue(s[t].due, s[t].period, e)
    BY <1>3, <1>8, <1>10, <1>15, <2>2
  <2>7. Service!Serve(n, t)
    BY <1>10, <1>11, <1>12, <1>13, <1>15, <2>5, <2>6 DEF Service!Serve
  <2>8. QED
    BY <2>7 DEF Service!Next
<1>16. QED
  BY <1>14, <1>15

\* A thread that finds nothing due is done with the timer it served, if any.
LEMMA SeenFinish ==
    ASSUME TypeInv, TypeInv', ServicedInv, NEW n \in Nodes, NEW now \in Nat, ServeWait(n, now),
           clock' = clock
    PROVE  [Service!Next]_(Service!vars)
<1>1. timer' = timer
  BY DEF ServeWait
<1>2. node \in [Nodes -> ThreadNode] /\ node[n] \in ThreadNode
  BY DEF TypeInv, TypeOK
<1>3. /\ \A m \in Nodes : m # n => node'[m] = node[m]
      /\ node'[n].queue = node[n].queue /\ node'[n].pc \in Waiting
  <2>1. ASSUME NEW pc \in Waiting, NEW d,
               node' = [node EXCEPT ![n].current = Null, ![n].owner = Null,
                                    ![n].pc = pc, ![n].now = 0, ![n].deadline = d]
        PROVE  /\ \A m \in Nodes : m # n => node'[m] = node[m]
               /\ node'[n].queue = node[n].queue /\ node'[n].pc \in Waiting
    BY <1>2, <2>1 DEF ThreadNode
  <2>2. "wait" \in Waiting /\ "timedwait" \in Waiting
    BY DEF Waiting
  <2>3. CASE node[n].queue = << >>
    BY <2>1, <2>2, <2>3 DEF ServeWait
  <2>4. CASE node[n].queue # << >>
    BY <2>1, <2>2, <2>4 DEF ServeWait
  <2>5. QED
    BY <2>3, <2>4
<1>4. \A u \in Timers : SlotView(u)' = SlotView(u)
  BY <1>1, <1>3, QuietSlots DEF SameSlot
<1>5. \A m \in Nodes : m # n => ServingView(m)' = ServingView(m)
  BY <1>1, <1>3, ServingKept DEF SameThread
<1>6. ServingView(n)' = Service!Nothing
  BY <1>3 DEF ServingView, Service!Nothing, Waiting
<1>7. CASE node[n].pc \in Serving
  <2>1. node[n].current \in Timers /\ Null \notin Timers
    BY <1>7, ServedValid DEF Timers, Null
  <2>2. ServingView(n) # Service!Nothing
    BY <1>7, <2>1 DEF ServingView, Service!Nothing, Serving
  <2>3. Service!Finish(n)
    BY <1>4, <1>5, <1>6, <2>2 DEF Service!Finish
  <2>4. QED
    BY <2>3 DEF Service!Next
<1>8. CASE node[n].pc \notin Serving
  <2>1. ServingView(n)' = ServingView(n)
    BY <1>6, <1>8 DEF ServingView, Service!Nothing, Serving
  <2>2. QED
    BY <1>4, <1>5, <2>1, SeenSame
<1>9. QED
  BY <1>7, <1>8

\* A step that leaves the slots alone but for their next period, and of the threads
\* moves at most ones that serve nothing.
LEMMA SeenNothing ==
    ASSUME TypeInv, ServicedInv, clock' = clock,
           \A u \in Timers : SameSlot(u) /\ timer'[u].event = timer[u].event,
           \A n \in Nodes :
                /\ node'[n].queue = node[n].queue
                /\ SameThread(n) \/ (node[n].pc \notin Serving /\ node'[n].pc \notin Serving)
    PROVE  UNCHANGED Service!vars
<1>1. \A u \in Timers : SlotView(u)' = SlotView(u)
  BY QuietSlots
<1>2. ASSUME NEW n \in Nodes PROVE ServingView(n)' = ServingView(n)
  <2>1. node[n].pc = "call" => node[n].current \in Timers
    BY ServedValid DEF Serving
  <2>2. QED
    BY <2>1, ServingKept
<1>3. QED
  BY <1>1, <1>2, SeenSame

\* Every step of the code is a step of TimerService, or none.
LEMMA SeenNext ==
    ASSUME NoStops, TypeInv, TypeInv', ListInv, ListInv', ServiceInv, OwnerInv, ServicedInv,
           NowKnown, [Next]_vars
    PROVE  [Service!Next]_(Service!vars)
<1> DEFINE Goal == [Service!Next]_(Service!vars)
<1>1. /\ timer \in [Timers -> TimerNode] /\ node \in [Nodes -> ThreadNode] /\ clock \in Nat
      /\ \A t \in Timers : timer[t] \in TimerNode
      /\ \A n \in Nodes : node[n] \in ThreadNode
  BY SizeAssumption DEF TypeInv, TypeOK
<1>2. ASSUME UNCHANGED <<clock, node>>,
             \A u \in Timers : SameSlot(u) /\ timer'[u].event = timer[u].event
      PROVE  Goal
  BY <1>2, SeenNothing DEF SameThread
<1>3. ASSUME UNCHANGED <<clock, node, timer>> PROVE Goal
  BY <1>2, <1>3 DEF SameSlot
<1>4. ASSUME NEW t \in Timers, NEW ms, PeriodSection(t, ms), UNCHANGED <<clock, node>> PROVE Goal
  <2>1. \A u \in Timers : SameSlot(u) /\ timer'[u].event = timer[u].event
    BY <1>1, <1>4 DEF PeriodSection, SameSlot, TimerNode
  <2>2. QED
    BY <1>2, <1>4, <2>1
<1>5. ASSUME NEW c \in Clients, Add(c) PROVE Goal
  BY <1>5, SeenCreate
<1>6. ASSUME NEW c \in Clients, AddStep(c) PROVE Goal
  <2>1. CASE AddRecord(c)
    <3>1. PICK t \in Timers : t = call[c].tid
      BY <2>1 DEF AddRecord, TypeInv, CallLocals, Actors
    <3>2. /\ UNCHANGED <<clock, node>>
          /\ \/ timer' = timer
             \/ timer' = [timer EXCEPT ![t].type = call[c].type, ![t].millisec = call[c].millisec]
      BY <2>1, <3>1 DEF AddRecord
    <3>3. \A u \in Timers : SameSlot(u) /\ timer'[u].event = timer[u].event
      BY <1>1, <3>2 DEF SameSlot, TimerNode
    <3>4. QED
      BY <1>2, <3>2, <3>3
  <2>2. CASE AddStore(c)
    BY <1>3, <2>2 DEF AddStore
  <2>3. QED
    BY <1>6, <2>1, <2>2 DEF AddStep
<1>7. ASSUME NEW a \in Actors, Begin(a) PROVE Goal
  <2>1. CASE Delete(a)
    BY <2>1, SeenDelete
  <2>2. CASE Start(a) \/ Stop(a) \/ Change(a)
    BY <1>3, <2>2 DEF Start, StartSection, Stop, Change
  <2>3. CASE Period(a)
    <3>1. id[Owner(a)] \in Timers
      BY <2>3, CallerLemma DEF Period, Ops
    <3>2. QED
      BY <1>4, <2>3, <3>1 DEF Period
  <2>4. QED
    BY <1>7, <2>1, <2>2, <2>3 DEF Begin
<1>8. ASSUME NEW a \in Actors, CallStep(a) PROVE Goal
  <2>1. CASE SettimeDisarm(a) \/ SettimeArm(a) \/ SettimeInvalid(a)
    BY <2>1, SeenStart
  <2>2. CASE DeleteResume(a)
    BY <2>2, SeenDelete
  <2>3. CASE Wakeup(a)
    <3>1. UNCHANGED <<clock, timer>> /\ node' = WakeNode(node, call[a].thread)
      BY <2>3 DEF Wakeup
    <3>2. \A n \in Nodes :
            /\ node'[n].queue = node[n].queue
            /\ SameThread(n) \/ (node[n].pc \notin Serving /\ node'[n].pc \notin Serving)
      BY <1>1, <3>1 DEF WakeNode, ThreadNode, SameThread, Serving
    <3>3. QED
      BY <3>1, <3>2, SeenNothing DEF SameSlot
  <2>4. CASE ChangePeriod(a)
    <3>1. call[a].tid \in Timers
      BY <2>4 DEF ChangePeriod, TypeInv, CallLocals
    <3>2. QED
      BY <1>4, <2>4, <3>1 DEF ChangePeriod
  <2>5. CASE ChangeStart(a) \/ ReadClock(a) \/ Forget(a)
    BY <1>3, <2>5 DEF ChangeStart, StartSection, ReadClock, Forget
  <2>6. QED
    BY <1>8, <2>1, <2>2, <2>3, <2>4, <2>5 DEF CallStep
<1>9. ASSUME NEW n \in Nodes, ServiceStep(n) \/ HandlerReturn(n) \/ SpuriousWakeup(n)
      PROVE  Goal
  <2>1. clock' = clock /\ node[n] \in ThreadNode
    BY <1>1, <1>9 DEF ServiceStep, Run, CallHandler, Timeout, HandlerReturn, SpuriousWakeup
  <2>2. CASE Run(n) \/ HandlerReturn(n)
    <3>1. PICK now \in Nat : now <= clock /\ (ServeDue(n, now) \/ ServeWait(n, now))
      BY <1>1, <2>2 DEF Run, HandlerReturn, ThreadNode, NowKnown, Serving
    <3>2. QED
      BY <2>1, <3>1, SeenServe, SeenFinish
  <2>3. CASE CallHandler(n)
    <3>1. /\ timer' = timer /\ node[n].pc = "call"
          /\ \A m \in Nodes : m # n => node'[m] = node[m]
          /\ node'[n].pc = "handler" /\ node'[n].owner = timer[node[n].current].event
          /\ node'[n].current = node[n].current /\ node'[n].queue = node[n].queue
      BY <1>1, <2>3 DEF CallHandler, ThreadNode
    <3>2. \A u \in Timers : SlotView(u)' = SlotView(u)
      BY <3>1, QuietSlots DEF SameSlot
    <3>3. \A m \in Nodes : ServingView(m)' = ServingView(m)
      <4>1. ServingView(n)' = ServingView(n)
        BY <3>1 DEF ServingView
      <4>2. \A m \in Nodes : m # n => ServingView(m)' = ServingView(m)
        BY <3>1, ServingKept DEF SameThread
      <4>3. QED
        BY <4>1, <4>2
    <3>4. QED
      BY <2>1, <3>2, <3>3, SeenSame
  <2>4. CASE Timeout(n) \/ SpuriousWakeup(n)
    <3>1. UNCHANGED <<clock, timer>> /\ node' = [node EXCEPT ![n].pc = "run"]
      BY <2>4 DEF Timeout, SpuriousWakeup
    <3>2. node[n].pc \notin Serving
      BY <2>4 DEF Timeout, SpuriousWakeup, Serving
    <3>3. \A m \in Nodes :
            /\ node'[m].queue = node[m].queue
            /\ SameThread(m) \/ (node[m].pc \notin Serving /\ node'[m].pc \notin Serving)
      BY <1>1, <3>1, <3>2 DEF ThreadNode, SameThread, Serving
    <3>4. QED
      BY <3>1, <3>3, SeenNothing DEF SameSlot
  <2>5. QED
    BY <1>9, <2>2, <2>3, <2>4 DEF ServiceStep
<1>10. CASE Tick
  <2>1. UNCHANGED <<timer, node>> /\ clock' = clock + 1
    BY <1>10 DEF Tick
  <2>2. /\ \A u \in Timers : SlotView(u)' = SlotView(u)
        /\ \A n \in Nodes : ServingView(n)' = ServingView(n)
    BY <2>1 DEF SlotView, ServingView, Valid, Queued
  <2>3. Service!Tick
    BY <2>1, <2>2 DEF Service!Tick
  <2>4. QED
    BY <2>3 DEF Service!Next
<1>11. CASE UNCHANGED vars
  BY <1>3, <1>11 DEF vars
<1>12. QED
  BY <1>5, <1>6, <1>7, <1>8, <1>9, <1>10, <1>11 DEF Next

\* The initial states are those of TimerService.
LEMMA SeenInit == Init => Service!Init
<1> SUFFICES ASSUME Init PROVE Service!Init
  OBVIOUS
<1>1. /\ clock = 0 /\ \A t \in Timers : timer[t].inuse = "FREE"
      /\ \A n \in Nodes : node[n].pc = "none"
  BY DEF Init, NewTimer, NewThread
<1>2. \A t \in Timers : SlotView(t) = Service!Unused
  BY <1>1, Views DEF Valid, View, Service!Unused
<1>3. \A n \in Nodes : ServingView(n) = Service!Nothing
  BY <1>1 DEF ServingView, Service!Nothing
<1>4. QED
  BY <1>1, <1>2, <1>3 DEF Service!Init

\* When only clients delete and nobody stops or changes a timer, the service behaves,
\* for every number of timers, threads and clients and every order of their steps, like
\* the one of TimerService, which has no mutex, no queues and no condition variables.
THEOREM ServiceImplemented == ASSUME NoStops PROVE Spec => ImplementsService
<1>1. OneDeleter
  BY DEF NoStops, OneDeleter
<1>2. TypeInv /\ ListInv /\ ServiceInv /\ OwnerInv /\ [Next]_vars => OwnerInv'
  BY <1>1, OwnerNext
<1>3. TypeInv /\ ListInv /\ OwnerInv /\ ServicedInv /\ [Next]_vars => ServicedInv'
  BY ServicedNext
<1>4. Init => NowKnown
  BY DEF Init, NowKnown, NewThread, Serving
<1>5. TypeInv /\ TypeInv' /\ ListInv /\ ListInv' /\ ServiceInv /\ OwnerInv /\ ServicedInv
        /\ NowKnown /\ [Next]_vars => [Service!Next]_(Service!vars)
  BY SeenNext
<1>6. QED
  BY TypeInit, TypeNext, ListInit, ListNext, ServiceInit, ServiceNext, OwnerInit, ServicedInit,
     NowNext, SeenInit, <1>2, <1>3, <1>4, <1>5, PTL DEF Spec, ImplementsService, Service!Spec
=============================================================================

---------------------------- MODULE OsTimerProofs ----------------------------
(***************************************************************************)
(* Proofs about OsTimer for every size of the pools, every set of clients, *)
(* priorities and periods, and every choice of the calls that clients and  *)
(* handlers make: type correctness, that the lists stay exact, and what    *)
(* the service threads rely on (sorted queues, no lost wakeup, periodic    *)
(* timers that stay queued, and one thread per priority).                  *)
(***************************************************************************)
EXTENDS OsTimer, SequenceTheorems, WellFoundedInduction, TLAPS

-----------------------------------------------------------------------------
(* Lists *)

\* RemoveAt drops the element at position k and shifts the later ones.
LEMMA RemoveAtLemma ==
    ASSUME NEW S, NEW s \in Seq(S), NEW k \in 1..Len(s)
    PROVE  /\ RemoveAt(s, k) \in Seq(S)
           /\ Len(RemoveAt(s, k)) = Len(s) - 1
           /\ \A i \in 1..(Len(s) - 1) :
                RemoveAt(s, k)[i] = IF i < k THEN s[i] ELSE s[i + 1]
<1> DEFINE l == SubSeq(s, 1, k - 1)
           r == SubSeq(s, k + 1, Len(s))
<1>1. Len(s) \in Nat /\ \A i \in 1..Len(s) : s[i] \in S
  BY LenProperties, ElementOfSeq
<1>2. /\ l \in Seq(S) /\ Len(l) = k - 1
      /\ \A i \in 1..(k - 1) : l[i] = s[i]
  <2>1. \A i \in 1..(k - 1) : s[i] \in S
    BY <1>1
  <2> HIDE DEF l
  <2> QED BY <1>1, <2>1, SubSeqProperties DEF l
<1>3. /\ r \in Seq(S) /\ Len(r) = Len(s) - k
      /\ \A i \in 1..(Len(s) - k) : r[i] = s[k + i]
  <2>1. \A i \in (k + 1)..Len(s) : s[i] \in S
    BY <1>1
  <2> HIDE DEF r
  <2> QED BY <1>1, <2>1, SubSeqProperties DEF r
<1>4. RemoveAt(s, k) = l \o r
  BY DEF RemoveAt
<1> HIDE DEF l, r
<1>5. /\ l \o r \in Seq(S)
      /\ Len(l \o r) = Len(l) + Len(r)
      /\ \A i \in 1..(Len(l) + Len(r)) :
            (l \o r)[i] = IF i <= Len(l) THEN l[i] ELSE r[i - Len(l)]
  BY <1>2, <1>3, ConcatProperties
<1> QED BY <1>1, <1>2, <1>3, <1>4, <1>5

\* InsertAt puts e at position k and shifts the elements from there on.
LEMMA InsertAtLemma ==
    ASSUME NEW S, NEW s \in Seq(S), NEW e \in S, NEW k \in 1..(Len(s) + 1)
    PROVE  /\ InsertAt(s, k, e) \in Seq(S)
           /\ Len(InsertAt(s, k, e)) = Len(s) + 1
           /\ \A i \in 1..(Len(s) + 1) :
                InsertAt(s, k, e)[i] = IF i < k THEN s[i]
                                       ELSE IF i = k THEN e ELSE s[i - 1]
<1> DEFINE l == SubSeq(s, 1, k - 1)
           r == SubSeq(s, k, Len(s))
           m == l \o <<e>>
<1>1. Len(s) \in Nat /\ \A i \in 1..Len(s) : s[i] \in S
  BY LenProperties, ElementOfSeq
<1>2. /\ l \in Seq(S) /\ Len(l) = k - 1
      /\ \A i \in 1..(k - 1) : l[i] = s[i]
  <2>1. \A i \in 1..(k - 1) : s[i] \in S
    BY <1>1
  <2> HIDE DEF l
  <2> QED BY <1>1, <2>1, SubSeqProperties DEF l
<1>3. /\ r \in Seq(S) /\ Len(r) = Len(s) - k + 1
      /\ \A i \in 1..(Len(s) - k + 1) : r[i] = s[k + i - 1]
  <2>1. \A i \in k..Len(s) : s[i] \in S
    BY <1>1
  <2> HIDE DEF r
  <2> QED BY <1>1, <2>1, SubSeqProperties DEF r
<1>4. InsertAt(s, k, e) = m \o r
  BY DEF InsertAt
<1>5. m = Append(l, e)
  BY <1>2, AppendIsConcat
<1> HIDE DEF l, r, m
<1>6. /\ m \in Seq(S) /\ Len(m) = k
      /\ \A i \in 1..k : m[i] = IF i < k THEN s[i] ELSE e
  BY <1>1, <1>2, <1>5, AppendProperties
<1>7. /\ m \o r \in Seq(S)
      /\ Len(m \o r) = Len(m) + Len(r)
      /\ \A i \in 1..(Len(m) + Len(r)) :
            (m \o r)[i] = IF i <= Len(m) THEN m[i] ELSE r[i - Len(m)]
  BY <1>3, <1>6, ConcatProperties
<1> QED BY <1>1, <1>3, <1>4, <1>6, <1>7

\* The same for lists of timers.
LEMMA TimerInsertLemma ==
    ASSUME NEW v \in Seq(Timers), NEW t \in Timers, NEW i \in 1..(Len(v) + 1)
    PROVE  /\ InsertAt(v, i, t) \in Seq(Timers)
           /\ Len(InsertAt(v, i, t)) = Len(v) + 1
           /\ \A j \in 1..(Len(v) + 1) :
                InsertAt(v, i, t)[j] = IF j < i THEN v[j]
                                       ELSE IF j = i THEN t ELSE v[j - 1]
  BY InsertAtLemma

\* A non-empty set of natural numbers has a least element.
LEMMA LeastNat ==
    ASSUME NEW T \in SUBSET Nat, T # {}
    PROVE  \E m \in T : \A k \in T : m <= k
<1>1. \E x \in T : \A y \in T : ~(<<y, x>> \in OpToRel(<, Nat))
  BY WFMin, NatLessThanWellFounded
<1>2. OpToRel(<, Nat) = {ss \in Nat \X Nat : ss[1] < ss[2]}
  BY Zenon DEF OpToRel
<1>3. \E x \in T : \A y \in T : ~(<<y, x>> \in {ss \in Nat \X Nat : ss[1] < ss[2]})
  BY <1>1, <1>2, Zenon
<1>4. PICK x \in T : \A y \in T : ~(<<y, x>> \in {ss \in Nat \X Nat : ss[1] < ss[2]})
  BY <1>3
<1>5. \A y \in T : ~(y < x)
  <2> TAKE y \in T
  <2>1. <<y, x>> \in Nat \X Nat /\ <<y, x>>[1] = y /\ <<y, x>>[2] = x
    OBVIOUS
  <2> QED BY <1>4, <2>1
<1> QED BY <1>5

\* QueuePos is a position of the list or just behind it: no earlier timer
\* expires later, and the timer at that position does.
LEMMA QueuePosLemma ==
    ASSUME NEW q \in Seq(Timers), NEW tm \in [Timers -> TimerNode], NEW e \in Nat
    PROVE  /\ QueuePos(q, tm, e) \in 1..(Len(q) + 1)
           /\ QueuePos(q, tm, e) <= Len(q) => e < tm[q[QueuePos(q, tm, e)]].expiry
           /\ \A j \in 1..(QueuePos(q, tm, e) - 1) : e >= tm[q[j]].expiry
<1> DEFINE T == {i \in 1..(Len(q) + 1) : i <= Len(q) => e < tm[q[i]].expiry}
           P(i) == /\ i <= Len(q) => e < tm[q[i]].expiry
                   /\ \A j \in 1..(i - 1) : e >= tm[q[j]].expiry
<1>1. Len(q) \in Nat /\ \A i \in 1..Len(q) : tm[q[i]].expiry \in Nat
  BY LenProperties, ElementOfSeq DEF TimerNode
<1>2. T \in SUBSET Nat /\ Len(q) + 1 \in T
  BY <1>1
<1>3. PICK m \in T : \A k \in T : m <= k
  BY <1>2, LeastNat
<1>4. m \in 1..(Len(q) + 1) /\ P(m)
  <2>1. ASSUME NEW j \in 1..(m - 1)
        PROVE  e >= tm[q[j]].expiry
    <3>1. j \in 1..Len(q) /\ j \notin T
      BY <1>1, <1>3
    <3> QED BY <1>1, <3>1
  <2> QED BY <1>3, <2>1
<1>5. QueuePos(q, tm, e) = CHOOSE i \in 1..(Len(q) + 1) : P(i)
  BY DEF QueuePos
<1> HIDE DEF P, T
<1>6. QueuePos(q, tm, e) \in 1..(Len(q) + 1) /\ P(QueuePos(q, tm, e))
  BY <1>4, <1>5
<1> QED BY <1>6 DEF P

\* Without is the list itself, or the list less one position that held t.
LEMMA WithoutLemma ==
    ASSUME NEW S, NEW s \in Seq(S), NEW t
    PROVE  /\ Without(s, t) \in Seq(S)
           /\ \/ /\ Without(s, t) = s
                 /\ \A i \in 1..Len(s) : s[i] # t
              \/ \E k \in 1..Len(s) :
                    /\ s[k] = t
                    /\ Len(Without(s, t)) = Len(s) - 1
                    /\ \A i \in 1..(Len(s) - 1) :
                        Without(s, t)[i] = IF i < k THEN s[i] ELSE s[i + 1]
<1>1. CASE \A i \in 1..Len(s) : s[i] # t
  BY <1>1 DEF Without
<1>2. CASE \E i \in 1..Len(s) : s[i] = t
  <2> DEFINE k == CHOOSE i \in 1..Len(s) : s[i] = t
  <2>1. k \in 1..Len(s) /\ s[k] = t
    BY <1>2
  <2>2. Without(s, t) = RemoveAt(s, k)
    BY <1>2 DEF Without
  <2> HIDE DEF k
  <2> QED BY <2>1, <2>2, RemoveAtLemma
<1> QED BY <1>1, <1>2

-----------------------------------------------------------------------------
(* Type correctness *)

TypeInv == TypeOK /\ CallLocals /\ ServiceLocals /\ HandlersKnown /\ FreeThreads

\* Taking a timer off the queues keeps the nodes well typed and puts no timer
\* on a queue that was not on it.
LEMMA UnlinkedLemma ==
    ASSUME node \in [Nodes -> ThreadNode], NEW t
    PROVE  /\ Unlinked(t) \in [Nodes -> ThreadNode]
           /\ \A n \in Nodes :
                /\ Unlinked(t)[n] = [node[n] EXCEPT !.queue = Without(node[n].queue, t)]
                /\ Unlinked(t)[n].queue = Without(node[n].queue, t)
                /\ \A i \in 1..Len(Without(node[n].queue, t)) :
                    \E j \in 1..Len(node[n].queue) :
                        Without(node[n].queue, t)[i] = node[n].queue[j]
<1> SUFFICES ASSUME NEW n \in Nodes
             PROVE  /\ [node[n] EXCEPT !.queue = Without(node[n].queue, t)] \in ThreadNode
                    /\ [node[n] EXCEPT !.queue = Without(node[n].queue, t)].queue
                            = Without(node[n].queue, t)
                    /\ \A i \in 1..Len(Without(node[n].queue, t)) :
                        \E j \in 1..Len(node[n].queue) :
                            Without(node[n].queue, t)[i] = node[n].queue[j]
  BY DEF Unlinked
<1> DEFINE q == node[n].queue
           w == Without(q, t)
<1>1. q \in Seq(Timers)
  BY DEF ThreadNode
<1>2. /\ w \in Seq(Timers)
      /\ \/ /\ w = q
            /\ \A i \in 1..Len(q) : q[i] # t
         \/ \E k \in 1..Len(q) :
                /\ q[k] = t
                /\ Len(w) = Len(q) - 1
                /\ \A i \in 1..(Len(q) - 1) : w[i] = IF i < k THEN q[i] ELSE q[i + 1]
  <2> HIDE DEF q
  <2> QED BY <1>1, WithoutLemma
<1>3. Len(q) \in Nat /\ Len(w) \in Nat
  BY <1>1, <1>2, LenProperties
<1>4. \A i \in 1..Len(w) : \E j \in 1..Len(q) : w[i] = q[j]
  <2> HIDE DEF w, q
  <2> QED BY <1>2, <1>3
<1>5. [node[n] EXCEPT !.queue = w] \in ThreadNode /\ [node[n] EXCEPT !.queue = w].queue = w
  <2> HIDE DEF w
  <2> QED BY <1>2 DEF ThreadNode
<1> QED BY <1>4, <1>5

\* The records the initial state and the actions build from constants.
LEMMA RecordTypes ==
    /\ NewTimer \in TimerNode
    /\ NewThread \in ThreadNode
    /\ NoCall \in Call
<1>1. << >> \in Seq(Timers)
  BY EmptySeq
<1>2. 0 \in RefCount
  BY DEF RefCount
<1> QED BY <1>1, <1>2 DEF NewTimer, TimerNode, NewThread, ThreadNode, NoCall, Call

\* What __timer_create leaves in the slot of a timer.
LEMMA CreatedLemma ==
    ASSUME NEW tm \in TimerNode, NEW c \in Clients, NEW n \in Nodes
    PROVE  /\ Created(tm, c, n) \in TimerNode
           /\ Created(tm, c, n).event = c
           /\ Created(tm, c, n).thread = n
<1>1. 1 \in RefCount
  BY DEF RefCount
<1> QED BY <1>1 DEF Created, TimerNode

\* What __timer_dealloc leaves there: the handler is not erased.
LEMMA DeallocLemma ==
    ASSUME NEW tm \in TimerNode
    PROVE  /\ Dealloc(tm) \in TimerNode
           /\ Dealloc(tm).event = tm.event
           /\ Dealloc(tm).inuse = "FREE"
<1>1. 0 \in RefCount
  BY DEF RefCount
<1> QED BY <1>1 DEF Dealloc, TimerNode

\* What a delete leaves there.
LEMMA DeletedLemma ==
    ASSUME NEW tm \in TimerNode
    PROVE  /\ Deleted(tm) \in TimerNode
           /\ Deleted(tm).event = tm.event
           /\ Deleted(tm).inuse # "INUSE"
<1>1. CASE tm.refcount = 1
  BY <1>1, DeallocLemma DEF Deleted
<1>2. CASE tm.refcount # 1
  <2> DEFINE j == tm.refcount - 1
  <2>1. j \in RefCount
    BY DEF TimerNode, RefCount
  <2>2. Deleted(tm) = [tm EXCEPT !.inuse = "DELETED", !.refcount = j]
    BY <1>2 DEF Deleted
  <2> HIDE DEF j
  <2> QED BY <2>1, <2>2 DEF TimerNode
<1> QED BY <1>1, <1>2

\* Init satisfies the invariant.
LEMMA TypeInit == Init => TypeInv
<1> SUFFICES ASSUME Init PROVE TypeInv
  OBVIOUS
<1>1. timerFree \in Seq(Timers) /\ threadFree \in Seq(Nodes)
  <2>1. [i \in 1..TimerMax |-> i] \in Seq(1..TimerMax)
    BY IsASeq, SizeAssumption
  <2>2. [i \in 1..ThreadMax |-> i] \in Seq(1..ThreadMax)
    BY IsASeq, SizeAssumption
  <2> QED BY <2>1, <2>2 DEF Init, Timers, Nodes
<1>2. TypeOK
  BY <1>1, RecordTypes, SizeAssumption DEF Init, TypeOK, Null
<1>3. CallLocals /\ ServiceLocals /\ HandlersKnown
  BY EmptySeq DEF Init, CallLocals, ServiceLocals, HandlersKnown, Actors,
                  NewTimer, NewThread, NoCall
<1>4. FreeThreads
  <2>1. Len(threadFree) = ThreadMax
    BY IsASeq, LenProperties, SizeAssumption DEF Init, Nodes
  <2> QED BY <2>1 DEF Init, FreeThreads, Distinct, NewThread, Nodes
<1> QED BY <1>2, <1>3, <1>4 DEF TypeInv

\* The record a call gets when __timer_settime has returned is well typed and
\* waits for no thread.
LEMMA ContinueLemma ==
    ASSUME call \in [Actors -> Call], NEW a \in Actors, NEW ok \in BOOLEAN
    PROVE  /\ Continue(a, ok) \in Call
           /\ Continue(a, ok).pc \in {"idle", "store", "period"}
           /\ Continue(a, ok).pc # "idle" => Continue(a, ok).tid = call[a].tid
  BY RecordTypes DEF Continue, NoCall, Call, Null

\* A step of actor a keeps the invariant when it keeps the types, gives a call
\* record with the locals that its next step needs, loses no registered handler,
\* leaves the service threads where they are and queues only known timers.
LEMMA ActorStep ==
    ASSUME TypeInv, TypeOK', FreeThreads',
           NEW a \in Actors, NEW k \in Call, call' = [call EXCEPT ![a] = k],
           k.pc \notin {"idle", "forget"} => k.tid \in Timers,
           k.pc \in {"wake", "delwait", "delwoken"} => k.thread \in Nodes,
           a \in Nodes /\ k.pc # "idle" => node[a].pc = "handler",
           \A u \in Timers :
                /\ timer[u].event \in Clients => timer'[u].event \in Clients
                /\ timer'[u].inuse = "INUSE" =>
                    timer'[u].event \in Clients /\ timer'[u].thread \in Nodes,
           \A n \in Nodes : /\ node'[n].pc = node[n].pc
                            /\ node'[n].current = node[n].current
                            /\ node'[n].owner = node[n].owner,
           \A n \in Nodes : \A i \in 1..Len(node'[n].queue) :
                \/ \E j \in 1..Len(node[n].queue) : node'[n].queue[i] = node[n].queue[j]
                \/ timer'[node'[n].queue[i]].event \in Clients
    PROVE  TypeInv'
<1>1. CallLocals'
  BY DEF TypeInv, TypeOK, CallLocals
<1>2. ServiceLocals'
  BY DEF TypeInv, TypeOK, ServiceLocals, Actors
<1>3. HandlersKnown'
  <2>1. \A n \in Nodes : \A i \in 1..Len(node[n].queue) : node[n].queue[i] \in Timers
    BY ElementOfSeq DEF TypeInv, TypeOK, ThreadNode
  <2> QED BY <2>1 DEF TypeInv, TypeOK, HandlersKnown
<1> QED BY <1>1, <1>2, <1>3 DEF TypeInv

\* The same for a step that changes no thread node.
LEMMA ActorStepSameNodes ==
    ASSUME TypeInv, TypeOK', UNCHANGED <<node, threadFree>>,
           NEW a \in Actors, NEW k \in Call, call' = [call EXCEPT ![a] = k],
           k.pc \notin {"idle", "forget"} => k.tid \in Timers,
           k.pc \in {"wake", "delwait", "delwoken"} => k.thread \in Nodes,
           a \in Nodes /\ k.pc # "idle" => node[a].pc = "handler",
           \A u \in Timers :
                /\ timer[u].event \in Clients => timer'[u].event \in Clients
                /\ timer'[u].inuse = "INUSE" =>
                    timer'[u].event \in Clients /\ timer'[u].thread \in Nodes
    PROVE  TypeInv'
<1>1. FreeThreads'
  BY DEF TypeInv, FreeThreads, Distinct
<1>2. \A n \in Nodes : /\ node'[n].pc = node[n].pc
                       /\ node'[n].current = node[n].current
                       /\ node'[n].owner = node[n].owner
  OBVIOUS
<1>3. \A n \in Nodes : \A i \in 1..Len(node'[n].queue) :
            \E j \in 1..Len(node[n].queue) : node'[n].queue[i] = node[n].queue[j]
  OBVIOUS
<1> QED BY <1>1, <1>2, <1>3, ActorStep

\* The same for a step that changes only the call record of a, and possibly an
\* id variable.
LEMMA CallOnlyStep ==
    ASSUME TypeInv, UNCHANGED <<clock, timer, node, timerFree, threadFree>>,
           id' \in [Clients -> Timers \cup {Null}],
           NEW a \in Actors, NEW k \in Call, call' = [call EXCEPT ![a] = k],
           k.pc \notin {"idle", "forget"} => k.tid \in Timers,
           k.pc \in {"wake", "delwait", "delwoken"} => k.thread \in Nodes,
           a \in Nodes /\ k.pc # "idle" => node[a].pc = "handler"
    PROVE  TypeInv'
<1>1. TypeOK'
  BY DEF TypeInv, TypeOK
<1> QED BY <1>1, ActorStepSameNodes DEF TypeInv, HandlersKnown

\* An actor that begins a call, or is inside one, works for a client and, when it
\* is a service thread, runs a handler.
LEMMA CallerLemma ==
    ASSUME TypeInv, NEW a \in Actors,
           call[a].pc # "idle" \/ \E op \in Ops : Calls(a, op)
    PROVE  /\ Owner(a) \in Clients
           /\ a \in Nodes => node[a].pc = "handler"
           /\ (\E op \in Ops : Calls(a, op)) => id[Owner(a)] \in Timers
           /\ id \in [Clients -> Timers \cup {Null}]
<1>1. a \in Nodes => node[a].pc = "handler"
  BY ClientAssumption DEF TypeInv, ServiceLocals, Calls
<1>2. Owner(a) \in Clients
  BY <1>1 DEF TypeInv, ServiceLocals, Owner, Actors
<1> QED BY <1>1, <1>2 DEF TypeInv, TypeOK, Calls

\* Every step of os_timer_add keeps the invariant.
LEMMA TypeAdd ==
    ASSUME TypeInv, NEW c \in Clients, Add(c) \/ AddStep(c)
    PROVE  TypeInv'
<1>1. c \in Actors /\ c \notin Nodes
  BY ClientAssumption DEF Actors
<1>2. ASSUME NEW t \in Timers, NEW n \in Nodes
      PROVE  /\ Created(timer[t], c, n) \in TimerNode
             /\ Created(timer[t], c, n).event = c
             /\ Created(timer[t], c, n).thread = n
  <2>1. timer[t] \in TimerNode
    BY DEF TypeInv, TypeOK
  <2> QED BY <2>1, CreatedLemma
<1>3. ASSUME NEW t \in Timers, NEW ms \in Periods, NEW ty \in {"oneshot", "interval"},
             NEW st \in BOOLEAN
      PROVE  /\ AddArgs(t, ms, ty, st) \in Call
             /\ AddArgs(t, ms, ty, st).pc = "add"
             /\ AddArgs(t, ms, ty, st).tid = t
  BY PeriodAssumption, RecordTypes DEF AddArgs, Call, NoCall
<1>4. ASSUME NEW p \in Prios, Add(c), CreateOnThread(c, p) PROVE TypeInv'
  <2>1. Head(timerFree) \in Timers /\ Tail(timerFree) \in Seq(Timers)
    BY <1>4, HeadTailProperties DEF Add, TypeInv, TypeOK
  <2>2. PICK n \in Matching(p), ms \in Periods, ty \in {"oneshot", "interval"},
             st \in BOOLEAN :
             /\ timer' = [timer EXCEPT ![Head(timerFree)] = Created(@, c, n)]
             /\ timerFree' = Tail(timerFree)
             /\ call' = [call EXCEPT ![c] = AddArgs(Head(timerFree), ms, ty, st)]
             /\ UNCHANGED <<clock, node, threadFree, id>>
    BY <1>4 DEF CreateOnThread, AllocTimer
  <2>3. n \in Nodes
    BY DEF Matching
  <2>4. TypeOK'
    BY <1>1, <1>2, <1>3, <2>1, <2>2, <2>3 DEF TypeInv, TypeOK
  <2>5. \A u \in Timers :
            /\ timer[u].event \in Clients => timer'[u].event \in Clients
            /\ timer'[u].inuse = "INUSE" =>
                timer'[u].event \in Clients /\ timer'[u].thread \in Nodes
    BY <1>2, <2>1, <2>2, <2>3 DEF TypeInv, TypeOK, HandlersKnown
  <2> DEFINE k == AddArgs(Head(timerFree), ms, ty, st)
  <2>6. k \in Call /\ k.pc = "add" /\ k.tid \in Timers
    BY <1>3, <2>1
  <2>7. call' = [call EXCEPT ![c] = k] /\ UNCHANGED <<node, threadFree>>
    BY <2>2
  <2> HIDE DEF k
  <2> QED BY <1>1, <2>4, <2>5, <2>6, <2>7, ActorStepSameNodes
<1>5. ASSUME NEW p \in Prios, Add(c), CreateAndSpawn(c, p) PROVE TypeInv'
  <2> DEFINE t == Head(timerFree)
             n == Head(threadFree)
             new == [NewThread EXCEPT !.prio = p, !.pc = "run"]
  <2>1. /\ t \in Timers /\ Tail(timerFree) \in Seq(Timers)
        /\ n \in Nodes /\ Tail(threadFree) \in Seq(Nodes)
        /\ Len(Tail(threadFree)) = Len(threadFree) - 1
        /\ \A i \in 1..Len(Tail(threadFree)) : Tail(threadFree)[i] = threadFree[i + 1]
    BY <1>5, HeadTailProperties DEF Add, CreateAndSpawn, AllocTimer, TypeInv, TypeOK
  <2>2. PICK ms \in Periods, ty \in {"oneshot", "interval"}, st \in BOOLEAN :
             /\ timer' = [timer EXCEPT ![t] = Created(@, c, n)]
             /\ timerFree' = Tail(timerFree)
             /\ node' = [node EXCEPT ![n] = new]
             /\ threadFree' = Tail(threadFree)
             /\ call' = [call EXCEPT ![c] = AddArgs(t, ms, ty, st)]
             /\ UNCHANGED <<clock, id>>
    BY <1>5 DEF CreateAndSpawn, AllocTimer
  <2>3. new \in ThreadNode /\ new.pc = "run" /\ new.queue = << >>
    BY RecordTypes DEF NewThread, ThreadNode
  <2>4. Len(threadFree) \in Nat \ {0} /\ n = threadFree[1]
    BY <1>5, EmptySeq, LenProperties DEF CreateAndSpawn, AllocTimer, TypeInv, TypeOK
  <2> HIDE DEF new, t, n
  <2>5. TypeOK'
    BY <1>1, <1>2, <1>3, <2>1, <2>2, <2>3 DEF TypeInv, TypeOK
  <2>6. CallLocals'
    BY <1>1, <1>3, <2>1, <2>2 DEF TypeInv, TypeOK, CallLocals
  <2>7. FreeThreads'
    <3>1. \A i \in 1..Len(threadFree) : threadFree[i] \in Nodes
      BY ElementOfSeq DEF TypeInv, TypeOK
    <3> QED BY <2>1, <2>2, <2>3, <2>4, <3>1 DEF TypeInv, TypeOK, FreeThreads, Distinct
  <2>8. ServiceLocals'
    <3>1. node[n].pc = "none"
      BY <2>4 DEF TypeInv, FreeThreads
    <3>2. \A m \in Nodes : call'[m] = call[m]
      BY <1>1, <2>2 DEF TypeInv, TypeOK, Actors
    <3>3. \A u \in Timers : timer[u].event \in Clients => timer'[u].event \in Clients
      BY <1>2, <2>1, <2>2 DEF TypeInv, TypeOK
    <3> QED BY <2>1, <2>2, <2>3, <3>1, <3>2, <3>3 DEF TypeInv, TypeOK, ServiceLocals
  <2>9. HandlersKnown'
    <3>1. \A m \in Nodes : \A i \in 1..Len(node[m].queue) : node[m].queue[i] \in Timers
      BY ElementOfSeq DEF TypeInv, TypeOK, ThreadNode
    <3>2. \A m \in Nodes : m # n => node'[m] = node[m]
      BY <2>2 DEF TypeInv, TypeOK
    <3>3. Len(node'[n].queue) = 0
      BY <2>1, <2>2, <2>3, EmptySeq DEF TypeInv, TypeOK
    <3> QED BY <1>2, <2>1, <2>2, <3>1, <3>2, <3>3 DEF TypeInv, TypeOK, HandlersKnown
  <2> QED BY <2>5, <2>6, <2>7, <2>8, <2>9 DEF TypeInv
<1>6. ASSUME NEW p \in Prios, Add(c), CreateBails(c, p) PROVE TypeInv'
  <2> DEFINE t == Head(timerFree)
             r == Dealloc([timer[t] EXCEPT !.event = c])
  <2>1. t \in Timers /\ Tail(timerFree) \in Seq(Timers)
    BY <1>6, HeadTailProperties DEF Add, TypeInv, TypeOK
  <2>2. threadFree' \in Seq(Nodes) /\ FreeThreads'
    <3>1. CASE threadFree = << >>
      BY <1>6, <3>1 DEF CreateBails, TypeInv, TypeOK, FreeThreads, Distinct
    <3>2. CASE threadFree # << >>
      <4> DEFINE f == Tail(threadFree)
                 n == Head(threadFree)
      <4>1. /\ f \in Seq(Nodes) /\ n \in Nodes
            /\ Len(f) = Len(threadFree) - 1
            /\ \A i \in 1..Len(f) : f[i] = threadFree[i + 1]
        BY <3>2, HeadTailProperties DEF TypeInv, TypeOK
      <4>2. Len(threadFree) \in Nat \ {0} /\ n = threadFree[1]
        BY <3>2, EmptySeq, LenProperties DEF TypeInv, TypeOK
      <4>3. threadFree' = Append(f, n) /\ node' = node
        BY <1>6, <3>2 DEF CreateBails
      <4> HIDE DEF f, n
      <4>4. /\ threadFree' \in Seq(Nodes)
            /\ Len(threadFree') = Len(f) + 1
            /\ \A i \in 1..Len(f) : threadFree'[i] = f[i]
            /\ threadFree'[Len(f) + 1] = n
        BY <4>1, <4>3, AppendProperties
      <4>5. /\ Len(threadFree') = Len(threadFree)
            /\ \A i \in 1..(Len(threadFree) - 1) : threadFree'[i] = threadFree[i + 1]
            /\ threadFree'[Len(threadFree)] = threadFree[1]
        <5>1. Len(f) \in Nat /\ Len(f) = Len(threadFree) - 1 /\ Len(f) + 1 = Len(threadFree)
          BY <4>1, <4>2
        <5>2. Len(threadFree') = Len(threadFree)
          BY <4>4, <5>1
        <5>3. threadFree'[Len(threadFree)] = threadFree[1]
          BY <4>2, <4>4, <5>1
        <5>4. \A i \in 1..(Len(threadFree) - 1) : threadFree'[i] = threadFree[i + 1]
          BY <4>1, <4>4, <5>1
        <5> QED BY <5>2, <5>3, <5>4
      <4>6. Distinct(threadFree)'
        BY <4>1, <4>2, <4>4, <4>5 DEF TypeInv, FreeThreads, Distinct
      <4> QED BY <4>1, <4>2, <4>3, <4>4, <4>5, <4>6 DEF TypeInv, FreeThreads
    <3> QED BY <3>1, <3>2
  <2>3. timerFree' \in Seq(Timers)
    BY <1>6, <2>1, AppendProperties DEF CreateBails
  <2>4. r \in TimerNode /\ r.event = c /\ r.inuse = "FREE"
    <3>1. timer[t] \in TimerNode
      BY <2>1 DEF TypeInv, TypeOK
    <3>2. [timer[t] EXCEPT !.event = c] \in TimerNode /\ [timer[t] EXCEPT !.event = c].event = c
      BY <3>1 DEF TimerNode
    <3> QED BY <3>2, DeallocLemma
  <2>5. timer' = [timer EXCEPT ![t] = r] /\ UNCHANGED <<clock, node, call, id>>
    BY <1>6 DEF CreateBails
  <2>6. call' = [call EXCEPT ![c] = call[c]] /\ call[c] \in Call /\ call[c].pc = "idle"
    BY <1>1, <1>6, <2>5 DEF TypeInv, TypeOK, Add
  <2> HIDE DEF t, r
  <2>7. TypeOK'
    BY <2>1, <2>2, <2>3, <2>4, <2>5 DEF TypeInv, TypeOK
  <2>8. \A u \in Timers :
            /\ timer[u].event \in Clients => timer'[u].event \in Clients
            /\ timer'[u].inuse = "INUSE" =>
                timer'[u].event \in Clients /\ timer'[u].thread \in Nodes
    BY <2>1, <2>4, <2>5 DEF TypeInv, TypeOK, HandlersKnown
  <2>9. \A n \in Nodes : \A i \in 1..Len(node'[n].queue) :
            \E j \in 1..Len(node[n].queue) : node'[n].queue[i] = node[n].queue[j]
    BY <2>5
  <2> QED BY <1>1, <2>2, <2>5, <2>6, <2>7, <2>8, <2>9, ActorStep
<1>7. ASSUME AddRecord(c) PROVE TypeInv'
  <2> DEFINE t == call[c].tid
             r == [timer[t] EXCEPT !.type = call[c].type, !.millisec = call[c].millisec]
  <2>1. t \in Timers /\ call[c] \in Call /\ timer[t] \in TimerNode
    BY <1>1, <1>7 DEF AddRecord, TypeInv, TypeOK, CallLocals
  <2>2. CASE Valid(t)
    <3>1. r \in TimerNode /\ r.event = timer[t].event /\ r.inuse = timer[t].inuse
          /\ r.thread = timer[t].thread
      BY <2>1 DEF TimerNode, Call
    <3>2. timer' = [timer EXCEPT ![t] = r] /\ call' = [call EXCEPT ![c] = [call[c] EXCEPT !.pc = "clock"]]
          /\ UNCHANGED <<clock, node, timerFree, threadFree, id>>
      BY <1>7, <2>2 DEF AddRecord, Goto
    <3> DEFINE k == [call[c] EXCEPT !.pc = "clock"]
    <3>3. k \in Call /\ k.pc = "clock" /\ k.tid \in Timers
      BY <2>1 DEF Call
    <3> HIDE DEF r, k
    <3>4. TypeOK'
      BY <1>1, <2>1, <3>1, <3>2, <3>3 DEF TypeInv, TypeOK, k
    <3>5. \A u \in Timers :
            /\ timer[u].event \in Clients => timer'[u].event \in Clients
            /\ timer'[u].inuse = "INUSE" =>
                timer'[u].event \in Clients /\ timer'[u].thread \in Nodes
      BY <2>1, <3>1, <3>2 DEF TypeInv, TypeOK, HandlersKnown
    <3> QED BY <1>1, <3>2, <3>3, <3>4, <3>5, ActorStepSameNodes DEF k
  <2>3. CASE ~Valid(t)
    <3>1. call' = [call EXCEPT ![c] = NoCall] /\ UNCHANGED <<clock, timer, node, timerFree, threadFree, id>>
      BY <1>7, <2>3 DEF AddRecord, Return
    <3>2. NoCall \in Call /\ NoCall.pc = "idle"
      BY RecordTypes DEF NoCall
    <3>3. TypeOK'
      BY <1>1, <3>1, <3>2 DEF TypeInv, TypeOK
    <3> QED BY <1>1, <3>1, <3>2, <3>3, ActorStepSameNodes DEF TypeInv, HandlersKnown
  <2> QED BY <2>2, <2>3
<1>8. ASSUME AddStore(c) PROVE TypeInv'
  <2>1. /\ call' = [call EXCEPT ![c] = NoCall]
        /\ id' = [id EXCEPT ![c] = call[c].tid]
        /\ UNCHANGED <<clock, timer, node, timerFree, threadFree>>
    BY <1>8 DEF AddStore, Return
  <2>2. NoCall \in Call /\ NoCall.pc = "idle"
    BY RecordTypes DEF NoCall
  <2>3. call[c].tid \in Timers
    BY <1>1, <1>8 DEF AddStore, TypeInv, CallLocals
  <2>4. TypeOK'
    BY <1>1, <2>1, <2>2, <2>3 DEF TypeInv, TypeOK
  <2> QED BY <1>1, <2>1, <2>2, <2>4, ActorStepSameNodes DEF TypeInv, HandlersKnown
<1> QED BY <1>4, <1>5, <1>6, <1>7, <1>8 DEF Add, AddStep

\* The first step of os_timer_start, and the last call of osal_timer_change.
LEMMA TypeStart ==
    ASSUME TypeInv, NEW a \in Actors, NEW t \in Timers, StartSection(a, t),
           a \in Nodes => node[a].pc = "handler"
    PROVE  TypeInv'
<1> DEFINE k == IF Valid(t)
                THEN [NoCall EXCEPT !.pc = "clock", !.tid = t, !.value = timer[t].millisec,
                        !.interval = IF timer[t].type = "oneshot" THEN 0
                                     ELSE timer[t].millisec]
                ELSE NoCall
<1>1. call' = [call EXCEPT ![a] = k]
      /\ UNCHANGED <<clock, timer, node, timerFree, threadFree, id>>
  BY DEF StartSection, Return
<1>2. timer[t].millisec \in Nat
  BY DEF TypeInv, TypeOK, TimerNode
<1>3. k \in Call /\ k.pc \in {"idle", "clock"} /\ (k.pc = "clock" => k.tid = t)
  <2>1. CASE Valid(t)
    BY <1>2, <2>1 DEF NoCall, Call, Null
  <2>2. CASE ~Valid(t)
    BY <2>2, RecordTypes DEF NoCall
  <2> QED BY <2>1, <2>2
<1> HIDE DEF k
<1>4. id' \in [Clients -> Timers \cup {Null}]
  BY <1>1 DEF TypeInv, TypeOK
<1> QED BY <1>1, <1>3, <1>4, CallOnlyStep

\* The critical section of os_timer_settime keeps types, handlers and threads.
LEMMA PeriodLemma ==
    ASSUME TypeInv, NEW t \in Timers, NEW ms \in Nat, PeriodSection(t, ms)
    PROVE  /\ timer' \in [Timers -> TimerNode]
           /\ \A u \in Timers :
                /\ timer[u].event \in Clients => timer'[u].event \in Clients
                /\ timer'[u].inuse = "INUSE" =>
                    timer'[u].event \in Clients /\ timer'[u].thread \in Nodes
<1>1. CASE Valid(t)
  <2> DEFINE r == [timer[t] EXCEPT !.millisec = ms]
  <2>1. timer[t] \in TimerNode
    BY DEF TypeInv, TypeOK
  <2>2. r \in TimerNode /\ r.event = timer[t].event /\ r.inuse = timer[t].inuse
        /\ r.thread = timer[t].thread
    BY <2>1 DEF TimerNode
  <2>3. timer' = [timer EXCEPT ![t] = r]
    BY <1>1 DEF PeriodSection
  <2> HIDE DEF r
  <2> QED BY <2>2, <2>3 DEF TypeInv, TypeOK, HandlersKnown
<1>2. CASE ~Valid(t)
  BY <1>2 DEF PeriodSection, TypeInv, TypeOK, HandlersKnown
<1> QED BY <1>1, <1>2

\* Starting a call other than os_timer_del keeps the invariant.
LEMMA TypeBegin ==
    ASSUME TypeInv, NEW a \in Actors, Start(a) \/ Stop(a) \/ Period(a) \/ Change(a)
    PROVE  TypeInv'
<1>1. /\ \E op \in Ops : Calls(a, op)
      /\ call[a].pc = "idle"
  BY DEF Start, Stop, Period, Change, Ops, Calls
<1>2. /\ id[Owner(a)] \in Timers
      /\ a \in Nodes => node[a].pc = "handler"
      /\ id \in [Clients -> Timers \cup {Null}]
  BY <1>1, CallerLemma
<1> DEFINE t == id[Owner(a)]
<1> HIDE DEF t
<1>3. t \in Timers
  BY <1>2 DEF t
<1>4. CASE Start(a)
  BY <1>2, <1>3, <1>4, TypeStart DEF Start, t
<1>5. CASE Stop(a)
  <2> DEFINE k == [NoCall EXCEPT !.pc = "clock", !.tid = t]
  <2>1. call' = [call EXCEPT ![a] = k]
        /\ UNCHANGED <<clock, timer, node, timerFree, threadFree, id>>
    BY <1>5 DEF Stop, t
  <2>2. k \in Call /\ k.pc = "clock" /\ k.tid = t
    BY <1>3 DEF NoCall, Call, Null
  <2> HIDE DEF k
  <2> QED BY <1>2, <1>3, <2>1, <2>2, CallOnlyStep
<1>6. CASE Change(a)
  <2>1. PICK ms \in Periods :
            call' = [call EXCEPT ![a] = [NoCall EXCEPT !.pc = "clock",
                            !.next = "period", !.tid = t, !.millisec = ms]]
    BY <1>6 DEF Change, t
  <2> DEFINE k == [NoCall EXCEPT !.pc = "clock", !.next = "period", !.tid = t, !.millisec = ms]
  <2>2. k \in Call /\ k.pc = "clock" /\ k.tid = t
    BY <1>3, PeriodAssumption DEF NoCall, Call, Null
  <2>3. UNCHANGED <<clock, timer, node, timerFree, threadFree, id>>
    BY <1>6 DEF Change
  <2> HIDE DEF k
  <2> QED BY <1>2, <1>3, <2>1, <2>2, <2>3, CallOnlyStep DEF k
<1>7. CASE Period(a)
  <2>1. PICK ms \in Periods : PeriodSection(t, ms)
    BY <1>7 DEF Period, t
  <2>2. UNCHANGED <<clock, node, timerFree, threadFree, call, id>>
    BY <1>7 DEF Period
  <2>3. ms \in Nat
    BY PeriodAssumption
  <2>4. /\ timer' \in [Timers -> TimerNode]
        /\ \A u \in Timers :
            /\ timer[u].event \in Clients => timer'[u].event \in Clients
            /\ timer'[u].inuse = "INUSE" =>
                timer'[u].event \in Clients /\ timer'[u].thread \in Nodes
    BY <1>3, <2>1, <2>3, PeriodLemma
  <2>5. call[a] \in Call /\ call' = [call EXCEPT ![a] = call[a]]
    BY <2>2 DEF TypeInv, TypeOK
  <2>6. TypeOK'
    BY <2>2, <2>4 DEF TypeInv, TypeOK
  <2> QED BY <1>1, <2>2, <2>4, <2>5, <2>6, ActorStepSameNodes
<1> QED BY <1>4, <1>5, <1>6, <1>7

\* An actor's step that unlinks timer t from the queues, and may queue it on its
\* thread again, keeps the invariant if the slot's new record does.
LEMMA UnlinkStep ==
    ASSUME TypeInv, UNCHANGED <<clock, threadFree, id>>, timerFree' \in Seq(Timers),
           NEW t \in Timers, NEW r \in TimerNode, timer' = [timer EXCEPT ![t] = r],
           r.event = timer[t].event,
           r.inuse = "INUSE" => timer[t].inuse = "INUSE" /\ r.thread = timer[t].thread,
           NEW a \in Actors, NEW k \in Call, call' = [call EXCEPT ![a] = k],
           k.pc \notin {"idle", "forget"} => k.tid \in Timers,
           k.pc \in {"wake", "delwait", "delwoken"} => k.thread \in Nodes,
           a \in Nodes /\ k.pc # "idle" => node[a].pc = "handler",
           \/ node' = Unlinked(t)
           \/ \E n \in Nodes : \E i \in 1..(Len(Without(node[n].queue, t)) + 1) :
                /\ timer[t].inuse = "INUSE"
                /\ node' = [Unlinked(t) EXCEPT ![n].queue =
                                InsertAt(Without(node[n].queue, t), i, t)]
    PROVE  TypeInv'
<1> DEFINE U == Unlinked(t)
           w(n) == Without(node[n].queue, t)
<1>1. /\ U \in [Nodes -> ThreadNode]
      /\ \A n \in Nodes :
            /\ U[n] = [node[n] EXCEPT !.queue = w(n)]
            /\ U[n].queue = w(n)
            /\ \A i \in 1..Len(w(n)) :
                \E j \in 1..Len(node[n].queue) : w(n)[i] = node[n].queue[j]
  BY UnlinkedLemma DEF TypeInv, TypeOK
<1> HIDE DEF U
<1>2. \A n \in Nodes : /\ U[n].pc = node[n].pc
                       /\ U[n].current = node[n].current
                       /\ U[n].owner = node[n].owner
  BY <1>1 DEF TypeInv, TypeOK, ThreadNode
<1>3. \A u \in Timers :
        /\ timer[u].event \in Clients => timer'[u].event \in Clients
        /\ timer'[u].inuse = "INUSE" =>
            timer'[u].event \in Clients /\ timer'[u].thread \in Nodes
  BY DEF TypeInv, TypeOK, HandlersKnown
<1>4. CASE node' = U
  <2>1. TypeOK'
    BY <1>1, <1>4 DEF TypeInv, TypeOK
  <2>2. FreeThreads'
    <3>1. \A i \in 1..Len(threadFree) : threadFree[i] \in Nodes
      BY ElementOfSeq DEF TypeInv, TypeOK
    <3> QED BY <1>2, <1>4, <3>1 DEF TypeInv, FreeThreads, Distinct
  <2>3. \A n \in Nodes : \A i \in 1..Len(node'[n].queue) :
            \/ \E j \in 1..Len(node[n].queue) : node'[n].queue[i] = node[n].queue[j]
            \/ timer'[node'[n].queue[i]].event \in Clients
    BY <1>1, <1>4
  <2>4. \A n \in Nodes : /\ node'[n].pc = node[n].pc
                         /\ node'[n].current = node[n].current
                         /\ node'[n].owner = node[n].owner
    BY <1>2, <1>4
  <2> QED BY <1>3, <2>1, <2>2, <2>3, <2>4, ActorStep
<1>5. ASSUME NEW n \in Nodes, NEW i \in 1..(Len(w(n)) + 1),
             timer[t].inuse = "INUSE",
             node' = [U EXCEPT ![n].queue = InsertAt(w(n), i, t)]
      PROVE  TypeInv'
  <2> DEFINE q == InsertAt(w(n), i, t)
  <2>1. w(n) \in Seq(Timers) /\ Len(w(n)) \in Nat
    BY <1>1, LenProperties DEF ThreadNode
  <2>2. /\ q \in Seq(Timers)
        /\ Len(q) = Len(w(n)) + 1
        /\ \A j \in 1..(Len(w(n)) + 1) :
            q[j] = IF j < i THEN w(n)[j] ELSE IF j = i THEN t ELSE w(n)[j - 1]
    <3>1. \A v \in Seq(Timers) : \A h \in 1..(Len(v) + 1) :
            /\ InsertAt(v, h, t) \in Seq(Timers)
            /\ Len(InsertAt(v, h, t)) = Len(v) + 1
            /\ \A j \in 1..(Len(v) + 1) :
                InsertAt(v, h, t)[j] = IF j < h THEN v[j] ELSE IF j = h THEN t ELSE v[j - 1]
      BY TimerInsertLemma
    <3> HIDE DEF w
    <3> QED BY <2>1, <3>1
  <2> HIDE DEF q
  <2>3. node' = [U EXCEPT ![n] = [U[n] EXCEPT !.queue = q]]
    BY <1>1, <1>5 DEF q
  <2>4. [U[n] EXCEPT !.queue = q] \in ThreadNode /\ [U[n] EXCEPT !.queue = q].queue = q
        /\ [U[n] EXCEPT !.queue = q].pc = U[n].pc
        /\ [U[n] EXCEPT !.queue = q].current = U[n].current
        /\ [U[n] EXCEPT !.queue = q].owner = U[n].owner
    <3>1. U[n] \in ThreadNode
      BY <1>1
    <3> QED BY <2>2, <3>1 DEF ThreadNode
  <2>5. TypeOK'
    BY <1>1, <2>3, <2>4 DEF TypeInv, TypeOK
  <2>6. \A m \in Nodes : /\ node'[m].pc = node[m].pc
                         /\ node'[m].current = node[m].current
                         /\ node'[m].owner = node[m].owner
    BY <1>1, <1>2, <2>3, <2>4
  <2>7. FreeThreads'
    <3>1. \A j \in 1..Len(threadFree) : threadFree[j] \in Nodes
      BY ElementOfSeq DEF TypeInv, TypeOK
    <3> QED BY <2>6, <3>1 DEF TypeInv, FreeThreads, Distinct
  <2>8. timer'[t].event \in Clients
    BY <1>5 DEF TypeInv, TypeOK, HandlersKnown
  <2>9. \A m \in Nodes : \A j \in 1..Len(node'[m].queue) :
            \/ \E l \in 1..Len(node[m].queue) : node'[m].queue[j] = node[m].queue[l]
            \/ timer'[node'[m].queue[j]].event \in Clients
    <3> SUFFICES ASSUME NEW m \in Nodes, NEW j \in 1..Len(node'[m].queue)
                 PROVE  \/ \E l \in 1..Len(node[m].queue) : node'[m].queue[j] = node[m].queue[l]
                        \/ timer'[node'[m].queue[j]].event \in Clients
      OBVIOUS
    <3>1. CASE m # n
      <4>1. node'[m].queue = w(m)
        BY <1>1, <2>3, <3>1
      <4> QED BY <1>1, <4>1
    <3>2. CASE m = n
      <4>1. node'[m].queue = q
        BY <1>1, <2>3, <2>4, <3>2
      <4>2. q[j] = t \/ \E l \in 1..Len(w(n)) : q[j] = w(n)[l]
        <5> HIDE DEF w
        <5>1. j \in 1..(Len(w(n)) + 1)
          BY <2>2, <4>1
        <5>2. CASE j < i
          BY <2>1, <2>2, <5>1, <5>2
        <5>3. CASE j = i
          BY <2>1, <2>2, <5>1, <5>3
        <5>4. CASE j > i
          BY <2>1, <2>2, <5>1, <5>4
        <5> QED BY <5>1, <5>2, <5>3, <5>4
      <4> QED BY <1>1, <2>8, <3>2, <4>1, <4>2
    <3> QED BY <3>1, <3>2
  <2> QED BY <1>3, <2>5, <2>6, <2>7, <2>9, ActorStep
<1> QED BY <1>4, <1>5 DEF U

\* Putting the slot t back at the tail of a list of slots.
LEMMA RelinkLemma ==
    ASSUME TypeOK, NEW t \in Timers
    PROVE  /\ Without(timerFree, t) \in Seq(Timers)
           /\ Append(Without(timerFree, t), t) \in Seq(Timers)
<1>1. Without(timerFree, t) \in Seq(Timers)
  BY WithoutLemma DEF TypeOK
<1> QED BY <1>1, AppendProperties

\* Every step of __timer_settime up to its unlock keeps the invariant.
LEMMA TypeSettime ==
    ASSUME TypeInv, NEW a \in Actors,
           ReadClock(a) \/ SettimeDisarm(a) \/ SettimeArm(a) \/ SettimeInvalid(a)
    PROVE  TypeInv'
<1> DEFINE t == call[a].tid
<1>1. call[a] \in Call /\ call[a].pc \in {"clock", "settime"}
  BY DEF ReadClock, SettimeDisarm, SettimeArm, SettimeInvalid, TypeInv, TypeOK
<1>2. t \in Timers /\ (a \in Nodes => node[a].pc = "handler")
  BY <1>1, CallerLemma DEF TypeInv, CallLocals
<1>3. timer[t] \in TimerNode
  BY <1>2 DEF TypeInv, TypeOK
<1>4. \A ok \in BOOLEAN :
        /\ Continue(a, ok) \in Call
        /\ Continue(a, ok).pc \in {"idle", "store", "period"}
        /\ Continue(a, ok).pc # "idle" => Continue(a, ok).tid = t
  BY ContinueLemma DEF TypeInv, TypeOK
<1> HIDE DEF t
<1>5. CASE ReadClock(a)
  <2> DEFINE k == [call[a] EXCEPT !.pc = "settime", !.now = clock]
  <2>1. clock \in Nat
    BY SizeAssumption DEF TypeInv, TypeOK
  <2>2. k \in Call /\ k.pc = "settime" /\ k.tid = t
    BY <1>1, <2>1 DEF Call, t
  <2>3. call' = [call EXCEPT ![a] = k]
        /\ UNCHANGED <<clock, timer, node, timerFree, threadFree, id>>
    BY <1>5 DEF ReadClock
  <2>4. id' \in [Clients -> Timers \cup {Null}]
    BY <2>3 DEF TypeInv, TypeOK
  <2> HIDE DEF k
  <2> QED BY <1>2, <2>2, <2>3, <2>4, CallOnlyStep
<1>6. CASE SettimeDisarm(a)
  <2> DEFINE r == [timer[t] EXCEPT !.interval = call[a].interval, !.armed = FALSE]
             k == Continue(a, TRUE)
  <2>1. r \in TimerNode /\ r.event = timer[t].event /\ r.inuse = timer[t].inuse
        /\ r.thread = timer[t].thread
    BY <1>1, <1>3 DEF TimerNode, Call
  <2>2. /\ timer' = [timer EXCEPT ![t] = r]
        /\ node' = Unlinked(t)
        /\ call' = [call EXCEPT ![a] = k]
        /\ UNCHANGED <<clock, timerFree, threadFree, id>>
    BY <1>6 DEF SettimeDisarm, t
  <2>3. timerFree' \in Seq(Timers)
    BY <2>2 DEF TypeInv, TypeOK
  <2>4. k \in Call /\ k.pc \in {"idle", "store", "period"} /\ (k.pc # "idle" => k.tid = t)
    BY <1>4
  <2> HIDE DEF r, k
  <2> QED BY <1>2, <2>1, <2>2, <2>3, <2>4, UnlinkStep
<1>7. CASE SettimeInvalid(a)
  <2> DEFINE k == Continue(a, FALSE)
  <2>1. k \in Call /\ k.pc \in {"idle", "store", "period"} /\ (k.pc # "idle" => k.tid = t)
    BY <1>4
  <2>2. call' = [call EXCEPT ![a] = k] /\ UNCHANGED <<clock, threadFree, id>>
    BY <1>7 DEF SettimeInvalid
  <2>3. CASE timer[t].refcount = 0
    <3> DEFINE r == Dealloc(timer[t])
    <3>1. /\ timer' = [timer EXCEPT ![t] = r]
          /\ node' = Unlinked(t)
          /\ timerFree' = Append(Without(timerFree, t), t)
      BY <1>7, <2>3 DEF SettimeInvalid, FreeList, t
    <3>2. r \in TimerNode /\ r.event = timer[t].event /\ r.inuse = "FREE"
      BY <1>3, DeallocLemma
    <3>3. timerFree' \in Seq(Timers)
      BY <1>2, <3>1, RelinkLemma DEF TypeInv
    <3> HIDE DEF r, k
    <3> QED BY <1>2, <2>1, <2>2, <3>1, <3>2, <3>3, UnlinkStep
  <2>4. CASE timer[t].refcount # 0
    <3>1. UNCHANGED <<timer, node, timerFree>>
      BY <1>7, <2>4 DEF SettimeInvalid, FreeList, t
    <3>2. id' \in [Clients -> Timers \cup {Null}]
      BY <2>2 DEF TypeInv, TypeOK
    <3> HIDE DEF k
    <3> QED BY <1>2, <2>1, <2>2, <3>1, <3>2, CallOnlyStep
  <2> QED BY <2>3, <2>4
<1>8. CASE SettimeArm(a)
  <2> DEFINE n == timer[t].thread
             expiry == call[a].now + call[a].value
             queue == Without(node[n].queue, t)
             pos == QueuePos(queue, timer, expiry)
             r == [timer[t] EXCEPT !.interval = call[a].interval,
                                   !.armed = TRUE, !.expiry = expiry]
             k == IF pos = 1 THEN [call[a] EXCEPT !.pc = "wake", !.thread = n]
                  ELSE Continue(a, TRUE)
  <2>1. /\ timer' = [timer EXCEPT ![t] = r]
        /\ node' = [Unlinked(t) EXCEPT ![n].queue = InsertAt(queue, pos, t)]
        /\ call' = [call EXCEPT ![a] = k]
        /\ UNCHANGED <<clock, timerFree, threadFree, id>>
        /\ timer[t].inuse = "INUSE"
    BY <1>8 DEF SettimeArm, NeedsWakeup, Valid, t
  <2>2. n \in Nodes
    BY <1>2, <2>1 DEF TypeInv, HandlersKnown
  <2>3. expiry \in Nat
    BY <1>1 DEF Call
  <2>4. r \in TimerNode /\ r.event = timer[t].event /\ r.inuse = timer[t].inuse
        /\ r.thread = timer[t].thread
    <3> HIDE DEF expiry
    <3> QED BY <1>1, <1>3, <2>3 DEF TimerNode, Call
  <2>5. queue \in Seq(Timers)
    BY <2>2, WithoutLemma DEF TypeInv, TypeOK, ThreadNode
  <2>6. pos \in 1..(Len(queue) + 1)
    <3> HIDE DEF queue, expiry
    <3> QED BY <2>3, <2>5, QueuePosLemma DEF TypeInv, TypeOK
  <2> HIDE DEF pos, expiry, r
  <2>7. /\ k \in Call
        /\ k.pc \in {"idle", "store", "period", "wake"}
        /\ k.pc # "idle" => k.tid = t
        /\ k.pc = "wake" => k.thread = n
    <3>1. CASE pos = 1
      BY <1>1, <2>2, <3>1 DEF Call, t
    <3>2. CASE pos # 1
      BY <1>4, <3>2
    <3> QED BY <3>1, <3>2
  <2>8. timerFree' \in Seq(Timers)
    BY <2>1 DEF TypeInv, TypeOK
  <2>9. \E m \in Nodes : \E i \in 1..(Len(Without(node[m].queue, t)) + 1) :
            /\ timer[t].inuse = "INUSE"
            /\ node' = [Unlinked(t) EXCEPT ![m].queue =
                            InsertAt(Without(node[m].queue, t), i, t)]
    BY <2>1, <2>2, <2>6
  <2> HIDE DEF k, n
  <2> QED BY <1>2, <2>1, <2>2, <2>4, <2>7, <2>8, <2>9, UnlinkStep
<1> QED BY <1>5, <1>6, <1>7, <1>8

\* Every step of os_timer_del, and the clearing of the id variable, keeps it.
LEMMA TypeDelete ==
    ASSUME TypeInv, NEW a \in Actors, Delete(a) \/ DeleteResume(a) \/ Forget(a)
    PROVE  TypeInv'
<1>1. call[a] \in Call
  BY DEF TypeInv, TypeOK
<1>2. call[a].pc # "idle" \/ \E op \in Ops : Calls(a, op)
  BY DEF Delete, DeleteResume, Forget, Ops
<1>3. /\ Owner(a) \in Clients
      /\ a \in Nodes => node[a].pc = "handler"
      /\ (\E op \in Ops : Calls(a, op)) => id[Owner(a)] \in Timers
      /\ id \in [Clients -> Timers \cup {Null}]
  BY <1>2, CallerLemma
<1>4. ASSUME NEW t \in Timers, DeleteFinish(a, t), UNCHANGED <<clock, threadFree, id>>
      PROVE  TypeInv'
  <2> DEFINE r == Deleted(timer[t])
             k == [call[a] EXCEPT !.pc = "forget"]
  <2>1. timer[t] \in TimerNode
    BY DEF TypeInv, TypeOK
  <2>2. r \in TimerNode /\ r.event = timer[t].event /\ r.inuse # "INUSE"
    BY <2>1, DeletedLemma
  <2>3. /\ timer' = [timer EXCEPT ![t] = r]
        /\ node' = Unlinked(t)
        /\ call' = [call EXCEPT ![a] = k]
    BY <1>4 DEF DeleteFinish, Goto
  <2>4. timerFree' \in Seq(Timers)
    BY <1>4, RelinkLemma DEF DeleteFinish, FreeList, TypeInv
  <2>5. k \in Call /\ k.pc = "forget"
    BY <1>1 DEF Call
  <2> HIDE DEF r, k
  <2> QED BY <1>3, <1>4, <2>2, <2>3, <2>4, <2>5, UnlinkStep
<1>5. ASSUME NEW t \in Timers, NEW n \in Nodes, DeleteWait(a, t, n),
             UNCHANGED <<clock, threadFree, id>>
      PROVE  TypeInv'
  <2> DEFINE k == [NoCall EXCEPT !.pc = "delwait", !.tid = t, !.thread = n]
  <2>1. k \in Call /\ k.pc = "delwait" /\ k.tid = t /\ k.thread = n
    BY DEF NoCall, Call, Null
  <2>2. call' = [call EXCEPT ![a] = k] /\ UNCHANGED <<timer, node, timerFree>>
    BY <1>5 DEF DeleteWait
  <2> HIDE DEF k
  <2> QED BY <1>3, <1>5, <2>1, <2>2, CallOnlyStep
<1>6. CASE Delete(a)
  <2> DEFINE t == id[Owner(a)]
  <2>1. t \in Timers
    BY <1>3, <1>6 DEF Delete, Ops
  <2>2. CASE ~Valid(t)
    <3> DEFINE k == [call[a] EXCEPT !.pc = "forget"]
    <3>1. k \in Call /\ k.pc = "forget"
      BY <1>1 DEF Call
    <3>2. call' = [call EXCEPT ![a] = k]
          /\ UNCHANGED <<clock, timer, node, timerFree, threadFree, id>>
      BY <1>6, <2>2 DEF Delete, Goto
    <3> HIDE DEF k
    <3> QED BY <1>3, <3>1, <3>2, CallOnlyStep
  <2>3. CASE Valid(t) /\ MustWait(a, t)
    <3>1. timer[t].thread \in Nodes
      BY <2>1, <2>3 DEF Valid, TypeInv, HandlersKnown
    <3> QED BY <1>5, <1>6, <2>1, <2>3, <3>1 DEF Delete
  <2>4. CASE Valid(t) /\ ~MustWait(a, t)
    BY <1>4, <1>6, <2>1, <2>4 DEF Delete
  <2> QED BY <2>2, <2>3, <2>4
<1>7. CASE DeleteResume(a)
  <2>1. call[a].tid \in Timers /\ call[a].thread \in Nodes
    BY <1>7 DEF DeleteResume, TypeInv, CallLocals
  <2> QED BY <1>4, <1>5, <1>7, <2>1 DEF DeleteResume
<1>8. CASE Forget(a)
  <2>1. /\ call' = [call EXCEPT ![a] = NoCall]
        /\ id' = [id EXCEPT ![Owner(a)] = Null]
        /\ UNCHANGED <<clock, timer, node, timerFree, threadFree>>
    BY <1>8 DEF Forget, Return
  <2>2. NoCall \in Call /\ NoCall.pc = "idle"
    BY RecordTypes DEF NoCall
  <2>3. id' \in [Clients -> Timers \cup {Null}]
    BY <1>3, <2>1
  <2> QED BY <2>1, <2>2, <2>3, CallOnlyStep
<1> QED BY <1>6, <1>7, <1>8

\* A broadcast changes nothing of a call but that waiting deleters are woken.
LEMMA WakeDeletersLemma ==
    ASSUME NEW cs \in [Actors -> Call], NEW n
    PROVE  /\ WakeDeleters(cs, n) \in [Actors -> Call]
           /\ \A a \in Actors :
                /\ WakeDeleters(cs, n)[a].tid = cs[a].tid
                /\ WakeDeleters(cs, n)[a].thread = cs[a].thread
                /\ \/ WakeDeleters(cs, n)[a].pc = cs[a].pc
                   \/ cs[a].pc = "delwait" /\ WakeDeleters(cs, n)[a].pc = "delwoken"
<1> DEFINE k(a) == IF cs[a].pc = "delwait" /\ cs[a].thread = n
                   THEN [cs[a] EXCEPT !.pc = "delwoken"] ELSE cs[a]
<1>1. WakeDeleters(cs, n) = [a \in Actors |-> k(a)]
  BY DEF WakeDeleters
<1>2. ASSUME NEW a \in Actors
      PROVE  /\ k(a) \in Call
             /\ k(a).tid = cs[a].tid
             /\ k(a).thread = cs[a].thread
             /\ k(a).pc = cs[a].pc \/ (cs[a].pc = "delwait" /\ k(a).pc = "delwoken")
  <2>1. cs[a] \in Call
    OBVIOUS
  <2> QED BY <2>1 DEF Call
<1> HIDE DEF k
<1> QED BY <1>1, <1>2

\* A step of the service thread of node n keeps the invariant when its new record
\* has the locals its next step needs and queues only known timers.
LEMMA NodeStep ==
    ASSUME TypeInv, TypeOK', UNCHANGED threadFree,
           NEW n \in Nodes, NEW r \in ThreadNode, node' = [node EXCEPT ![n] = r],
           node[n].pc # "none",
           \A a \in Actors :
                /\ call'[a].tid = call[a].tid
                /\ call'[a].thread = call[a].thread
                /\ \/ call'[a].pc = call[a].pc
                   \/ call[a].pc = "delwait" /\ call'[a].pc = "delwoken",
           call[n].pc = "idle" \/ r.pc = "handler",
           r.pc \in {"call", "handler"} =>
                r.current \in Timers /\ timer'[r.current].event \in Clients,
           r.pc = "handler" => r.owner \in Clients,
           \A u \in Timers :
                /\ timer[u].event \in Clients => timer'[u].event \in Clients
                /\ timer'[u].inuse = "INUSE" =>
                    timer'[u].event \in Clients /\ timer'[u].thread \in Nodes,
           \A i \in 1..Len(r.queue) : timer'[r.queue[i]].event \in Clients
    PROVE  TypeInv'
<1>1. CallLocals'
  BY DEF TypeInv, CallLocals
<1>2. \A m \in Nodes : m # n => node'[m] = node[m]
  BY DEF TypeInv, TypeOK
<1>3. node'[n] = r
  BY DEF TypeInv, TypeOK
<1>4. ServiceLocals'
  <2> SUFFICES ASSUME NEW m \in Nodes
               PROVE  /\ call'[m].pc # "idle" => node'[m].pc = "handler"
                      /\ node'[m].pc \in {"call", "handler"} =>
                            node'[m].current \in Timers
                            /\ timer'[node'[m].current].event \in Clients
                      /\ node'[m].pc = "handler" => node'[m].owner \in Clients
    BY DEF ServiceLocals
  <2>1. CASE m = n
    BY <1>3, <2>1 DEF Actors
  <2>2. CASE m # n
    BY <1>2, <2>2 DEF TypeInv, ServiceLocals, Actors
  <2> QED BY <2>1, <2>2
<1>5. HandlersKnown'
  <2>1. \A m \in Nodes : \A i \in 1..Len(node[m].queue) : node[m].queue[i] \in Timers
    BY ElementOfSeq DEF TypeInv, TypeOK, ThreadNode
  <2>2. \A m \in Nodes : \A i \in 1..Len(node'[m].queue) :
            timer'[node'[m].queue[i]].event \in Clients
    BY <1>2, <1>3, <2>1 DEF TypeInv, HandlersKnown
  <2> QED BY <2>2 DEF HandlersKnown
<1>6. FreeThreads'
  <2>1. \A i \in 1..Len(threadFree) : threadFree[i] \in Nodes
    BY ElementOfSeq DEF TypeInv, TypeOK
  <2> QED BY <1>2, <2>1 DEF TypeInv, FreeThreads, Distinct
<1> QED BY <1>1, <1>4, <1>5, <1>6 DEF TypeInv

\* NextExpiry is a time.
LEMMA NextExpiryType ==
    ASSUME NEW e \in Nat, NEW i \in Nat \ {0}, NEW now \in Nat
    PROVE  NextExpiry(e, i, now) \in Nat
<1> DEFINE m == (now - e + i - 1) \div i
           f == IF m > 1 THEN m ELSE 1
<1>1. m \in Int
  OBVIOUS
<1> HIDE DEF m
<1>2. f \in Nat
  BY <1>1
<1> HIDE DEF f
<1>3. e + i * f \in Nat
  BY <1>2
<1> QED BY <1>3 DEF NextExpiry, f, m

\* Firing a timer changes nothing of it but its expiry time.
LEMMA FiredLemma ==
    ASSUME NEW tm \in TimerNode, NEW now \in Nat
    PROVE  /\ Fired(tm, now) \in TimerNode
           /\ Fired(tm, now).event = tm.event
           /\ Fired(tm, now).inuse = tm.inuse
           /\ Fired(tm, now).thread = tm.thread
           /\ Fired(tm, now).interval = tm.interval
<1>1. CASE tm.interval = 0
  BY <1>1 DEF Fired
<1>2. CASE tm.interval # 0
  <2> DEFINE e == NextExpiry(tm.expiry, tm.interval, now)
  <2>1. e \in Nat
    BY <1>2, NextExpiryType DEF TimerNode
  <2>2. Fired(tm, now) = [tm EXCEPT !.expiry = e]
    BY <1>2 DEF Fired
  <2> HIDE DEF e
  <2> QED BY <2>1, <2>2 DEF TimerNode
<1> QED BY <1>1, <1>2

\* The queue after its head fired holds timers that were on it.
LEMMA RequeuedLemma ==
    ASSUME NEW q \in Seq(Timers), q # << >>, NEW tm \in [Timers -> TimerNode]
    PROVE  /\ Head(q) \in Timers
           /\ Requeued(q, tm, Head(q)) \in Seq(Timers)
           /\ \A i \in 1..Len(Requeued(q, tm, Head(q))) :
                \E j \in 1..Len(q) : Requeued(q, tm, Head(q))[i] = q[j]
<1> DEFINE t == Head(q)
           v == Tail(q)
           pos == QueuePos(v, tm, tm[t].expiry)
           x == InsertAt(v, pos, t)
<1>1. /\ t \in Timers /\ v \in Seq(Timers)
      /\ Len(v) = Len(q) - 1
      /\ \A i \in 1..Len(v) : v[i] = q[i + 1]
  BY HeadTailProperties
<1>2. Len(q) \in Nat \ {0} /\ t = q[1]
  BY EmptySeq, LenProperties
<1>3. tm[t].expiry \in Nat
  BY <1>1 DEF TimerNode
<1> HIDE DEF t, v
<1>4. pos \in 1..(Len(v) + 1)
  BY <1>1, <1>3, QueuePosLemma
<1> HIDE DEF pos
<1>5. /\ x \in Seq(Timers)
      /\ Len(x) = Len(v) + 1
      /\ \A j \in 1..(Len(v) + 1) :
            x[j] = IF j < pos THEN v[j] ELSE IF j = pos THEN t ELSE v[j - 1]
  BY <1>1, <1>4, TimerInsertLemma
<1> HIDE DEF x
<1>6. \A i \in 1..Len(v) : \E j \in 1..Len(q) : v[i] = q[j]
  <2> TAKE i \in 1..Len(v)
  <2>1. i + 1 \in 1..Len(q) /\ v[i] = q[i + 1]
    BY <1>1, <1>2
  <2> QED BY <2>1
<1>7. \A i \in 1..Len(x) : \E j \in 1..Len(q) : x[i] = q[j]
  <2> SUFFICES ASSUME NEW i \in 1..Len(x) PROVE \E j \in 1..Len(q) : x[i] = q[j]
    OBVIOUS
  <2>1. Len(v) \in Nat
    BY <1>1, LenProperties
  <2>2. CASE i < pos
    <3>1. x[i] = v[i] /\ i \in 1..Len(v)
      BY <1>4, <1>5, <2>1, <2>2
    <3> QED BY <1>6, <3>1
  <2>3. CASE i = pos
    BY <1>2, <1>4, <1>5, <2>1, <2>3
  <2>4. CASE i > pos
    <3>1. x[i] = v[i - 1] /\ i - 1 \in 1..Len(v)
      BY <1>4, <1>5, <2>1, <2>4
    <3> QED BY <1>6, <3>1
  <2> QED BY <1>4, <1>5, <2>1, <2>2, <2>3, <2>4
<1>8. Requeued(q, tm, t) = IF tm[t].interval = 0 THEN v ELSE x
  BY DEF Requeued, t, v, pos, x
<1>9. CASE tm[t].interval = 0
  BY <1>1, <1>6, <1>8, <1>9 DEF t
<1>10. CASE tm[t].interval # 0
  BY <1>1, <1>5, <1>7, <1>8, <1>10 DEF t
<1> QED BY <1>9, <1>10

\* Serving a due timer, or going to sleep, keeps the invariant.
LEMMA TypeServe ==
    ASSUME TypeInv, NEW n \in Nodes, NEW now \in Nat,
           ServeDue(n, now) \/ ServeWait(n, now),
           UNCHANGED <<clock, timerFree, threadFree, id>>,
           node[n].pc # "none", call[n].pc = "idle",
           call' \in [Actors -> Call],
           \A a \in Actors :
                /\ call'[a].tid = call[a].tid
                /\ call'[a].thread = call[a].thread
                /\ \/ call'[a].pc = call[a].pc
                   \/ call[a].pc = "delwait" /\ call'[a].pc = "delwoken"
    PROVE  TypeInv'
<1>1. node[n] \in ThreadNode /\ node[n].queue \in Seq(Timers)
  BY DEF TypeInv, TypeOK, ThreadNode
<1>2. CASE ServeDue(n, now)
  <2> DEFINE q == node[n].queue
             t == Head(q)
             tm == [timer EXCEPT ![t] = Fired(timer[t], now)]
             x == Requeued(q, tm, t)
             r == [node[n] EXCEPT !.queue = x, !.current = t, !.owner = Null,
                                  !.pc = "call", !.now = now]
  <2>1. /\ q # << >>
        /\ timer' = tm
        /\ node' = [node EXCEPT ![n] = r]
    BY <1>2 DEF ServeDue
  <2>2. t \in Timers
    BY <1>1, <2>1, HeadTailProperties
  <2>3. Len(q) \in Nat \ {0} /\ t = q[1]
    BY <1>1, <2>1, EmptySeq, LenProperties
  <2>4. timer[t] \in TimerNode
    BY <2>2 DEF TypeInv, TypeOK
  <2> HIDE DEF t
  <2>5. /\ tm \in [Timers -> TimerNode]
        /\ \A u \in Timers : /\ tm[u].event = timer[u].event
                             /\ tm[u].inuse = timer[u].inuse
                             /\ tm[u].thread = timer[u].thread
    <3> DEFINE f == Fired(timer[t], now)
    <3>1. f \in TimerNode /\ f.event = timer[t].event /\ f.inuse = timer[t].inuse
          /\ f.thread = timer[t].thread
      BY <2>4, FiredLemma
    <3> HIDE DEF f
    <3>2. tm = [timer EXCEPT ![t] = f]
      BY DEF f
    <3> QED BY <2>2, <3>1, <3>2 DEF TypeInv, TypeOK
  <2> HIDE DEF tm
  <2>6. /\ x \in Seq(Timers)
        /\ \A i \in 1..Len(x) : \E j \in 1..Len(q) : x[i] = q[j]
    BY <1>1, <2>1, <2>5, RequeuedLemma DEF t
  <2> HIDE DEF x
  <2>7. r \in ThreadNode /\ r.pc = "call" /\ r.current = t /\ r.queue = x
    BY <1>1, <2>2, <2>6 DEF ThreadNode
  <2> HIDE DEF r
  <2>8. TypeOK'
    BY <2>1, <2>5, <2>7 DEF TypeInv, TypeOK
  <2>9. \A u \in Timers :
            /\ timer[u].event \in Clients => timer'[u].event \in Clients
            /\ timer'[u].inuse = "INUSE" =>
                timer'[u].event \in Clients /\ timer'[u].thread \in Nodes
    BY <2>1, <2>5 DEF TypeInv, HandlersKnown
  <2>10. \A j \in 1..Len(q) : q[j] \in Timers /\ timer[q[j]].event \in Clients
    BY <1>1, ElementOfSeq DEF TypeInv, HandlersKnown
  <2>11. \A i \in 1..Len(r.queue) : timer'[r.queue[i]].event \in Clients
    BY <2>6, <2>7, <2>9, <2>10
  <2>12. timer'[r.current].event \in Clients /\ r.current \in Timers
    BY <2>2, <2>3, <2>7, <2>9, <2>10
  <2> QED BY <2>1, <2>7, <2>8, <2>9, <2>11, <2>12, NodeStep
<1>3. CASE ServeWait(n, now)
  <2> DEFINE pc == IF node[n].queue = << >> THEN "wait" ELSE "timedwait"
             d == IF node[n].queue = << >> THEN 0 ELSE timer[Head(node[n].queue)].expiry
             r == [node[n] EXCEPT !.current = Null, !.owner = Null, !.pc = pc,
                                  !.now = 0, !.deadline = d]
  <2>1. timer' = timer /\ node' = [node EXCEPT ![n] = r]
    BY <1>3 DEF ServeWait
  <2>2. d \in Nat /\ pc \in {"wait", "timedwait"}
    BY <1>1, HeadTailProperties DEF TypeInv, TypeOK, TimerNode
  <2> HIDE DEF pc, d
  <2>3. r \in ThreadNode /\ r.pc = pc /\ r.queue = node[n].queue
    BY <1>1, <2>2 DEF ThreadNode
  <2> HIDE DEF r
  <2>4. TypeOK'
    BY <2>1, <2>3 DEF TypeInv, TypeOK
  <2>5. \A i \in 1..Len(r.queue) : timer'[r.queue[i]].event \in Clients
    BY <2>1, <2>3 DEF TypeInv, HandlersKnown
  <2>6. \A u \in Timers :
            /\ timer[u].event \in Clients => timer'[u].event \in Clients
            /\ timer'[u].inuse = "INUSE" =>
                timer'[u].event \in Clients /\ timer'[u].thread \in Nodes
    BY <2>1 DEF TypeInv, HandlersKnown
  <2> QED BY <2>1, <2>2, <2>3, <2>4, <2>5, <2>6, NodeStep
<1> QED BY <1>2, <1>3

\* Every step of a service thread keeps the invariant.
LEMMA TypeService ==
    ASSUME TypeInv, NEW n \in Nodes,
           ServiceStep(n) \/ HandlerReturn(n) \/ SpuriousWakeup(n)
    PROVE  TypeInv'
<1>1. n \in Actors /\ node[n] \in ThreadNode /\ call \in [Actors -> Call]
  BY DEF Actors, TypeInv, TypeOK
<1>2. CASE Run(n)
  <2>1. clock \in Nat /\ call[n].pc = "idle"
    BY <1>2, SizeAssumption DEF Run, TypeInv, TypeOK, ServiceLocals
  <2> QED BY <1>1, <1>2, <2>1, TypeServe DEF Run
<1>3. CASE HandlerReturn(n)
  <2>1. node[n].now \in Nat
    BY <1>1 DEF ThreadNode
  <2>2. /\ call' \in [Actors -> Call]
        /\ \A a \in Actors :
            /\ call'[a].tid = call[a].tid
            /\ call'[a].thread = call[a].thread
            /\ \/ call'[a].pc = call[a].pc
               \/ call[a].pc = "delwait" /\ call'[a].pc = "delwoken"
    BY <1>1, <1>3, WakeDeletersLemma DEF HandlerReturn
  <2> QED BY <1>3, <2>1, <2>2, TypeServe DEF HandlerReturn
<1>4. CASE CallHandler(n)
  <2> DEFINE t == node[n].current
             r == [node[n] EXCEPT !.pc = "handler", !.owner = timer[t].event]
  <2>1. t \in Timers /\ timer[t].event \in Clients
    BY <1>4 DEF CallHandler, TypeInv, ServiceLocals
  <2>2. r \in ThreadNode /\ r.pc = "handler" /\ r.owner = timer[t].event
        /\ r.current = t /\ r.queue = node[n].queue
    BY <1>1, <2>1 DEF ThreadNode
  <2>3. node' = [node EXCEPT ![n] = r]
        /\ UNCHANGED <<clock, timer, timerFree, threadFree, call, id>>
    BY <1>4 DEF CallHandler
  <2> HIDE DEF r
  <2>4. TypeOK'
    BY <2>2, <2>3 DEF TypeInv, TypeOK
  <2>5. \A i \in 1..Len(r.queue) : timer'[r.queue[i]].event \in Clients
    BY <2>2, <2>3 DEF TypeInv, HandlersKnown
  <2>6. \A u \in Timers :
            /\ timer[u].event \in Clients => timer'[u].event \in Clients
            /\ timer'[u].inuse = "INUSE" =>
                timer'[u].event \in Clients /\ timer'[u].thread \in Nodes
    BY <2>3 DEF TypeInv, HandlersKnown
  <2>7. node[n].pc # "none"
    BY <1>4 DEF CallHandler
  <2> QED BY <2>1, <2>2, <2>3, <2>4, <2>5, <2>6, <2>7, NodeStep
<1>5. CASE Timeout(n) \/ SpuriousWakeup(n)
  <2> DEFINE r == [node[n] EXCEPT !.pc = "run"]
  <2>1. r \in ThreadNode /\ r.pc = "run" /\ r.queue = node[n].queue
    BY <1>1 DEF ThreadNode
  <2>2. /\ node' = [node EXCEPT ![n] = r]
        /\ UNCHANGED <<clock, timer, timerFree, threadFree, call, id>>
        /\ node[n].pc \in {"wait", "timedwait"}
    BY <1>5 DEF Timeout, SpuriousWakeup
  <2> HIDE DEF r
  <2>3. TypeOK'
    BY <2>1, <2>2 DEF TypeInv, TypeOK
  <2>4. \A i \in 1..Len(r.queue) : timer'[r.queue[i]].event \in Clients
    BY <2>1, <2>2 DEF TypeInv, HandlersKnown
  <2>5. \A u \in Timers :
            /\ timer[u].event \in Clients => timer'[u].event \in Clients
            /\ timer'[u].inuse = "INUSE" =>
                timer'[u].event \in Clients /\ timer'[u].thread \in Nodes
    BY <2>2 DEF TypeInv, HandlersKnown
  <2>6. call[n].pc = "idle"
    BY <2>2 DEF TypeInv, ServiceLocals
  <2> QED BY <2>1, <2>2, <2>3, <2>4, <2>5, <2>6, NodeStep
<1> QED BY <1>2, <1>3, <1>4, <1>5 DEF ServiceStep

\* The broadcast after __timer_settime has released the mutex keeps it.
LEMMA TypeWakeup ==
    ASSUME TypeInv, NEW a \in Actors, Wakeup(a)
    PROVE  TypeInv'
<1> DEFINE n == call[a].thread
           t == call[a].tid
           k == Continue(a, TRUE)
           cs == [call EXCEPT ![a] = k]
<1>1. /\ call[a].pc = "wake" /\ n \in Nodes /\ t \in Timers
      /\ a \in Nodes => node[a].pc = "handler"
  BY CallerLemma DEF Wakeup, TypeInv, CallLocals
<1>2. k \in Call /\ k.pc \in {"idle", "store", "period"} /\ (k.pc # "idle" => k.tid = t)
  BY ContinueLemma DEF TypeInv, TypeOK
<1>3. /\ node' = [node EXCEPT ![n].pc = IF @ \in {"wait", "timedwait"} THEN "run" ELSE @]
      /\ call' = WakeDeleters(cs, n)
      /\ UNCHANGED <<clock, timer, timerFree, threadFree, id>>
  BY DEF Wakeup, WakeNode
<1> HIDE DEF n, t, k
<1>4. cs \in [Actors -> Call]
  BY <1>2 DEF TypeInv, TypeOK
<1>5. cs[a] = k /\ \A b \in Actors : b # a => cs[b] = call[b]
  BY DEF TypeInv, TypeOK
<1> HIDE DEF cs
<1> DEFINE r == [node[n] EXCEPT !.pc = IF node[n].pc \in {"wait", "timedwait"}
                                       THEN "run" ELSE node[n].pc]
<1>6. node' = [node EXCEPT ![n] = r]
  BY <1>3
<1>7. node[n] \in ThreadNode
  BY <1>1 DEF TypeInv, TypeOK
<1>8. /\ r \in ThreadNode /\ r.current = node[n].current /\ r.owner = node[n].owner
      /\ r.queue = node[n].queue
      /\ r.pc = node[n].pc \/ (r.pc = "run" /\ node[n].pc \in {"wait", "timedwait"})
  BY <1>7 DEF ThreadNode
<1> HIDE DEF r
<1>9. /\ call' \in [Actors -> Call]
      /\ \A b \in Actors :
            /\ call'[b].tid = cs[b].tid
            /\ call'[b].thread = cs[b].thread
            /\ \/ call'[b].pc = cs[b].pc
               \/ cs[b].pc = "delwait" /\ call'[b].pc = "delwoken"
  BY <1>1, <1>3, <1>4, WakeDeletersLemma
<1>10. TypeOK'
  BY <1>3, <1>6, <1>8, <1>9 DEF TypeInv, TypeOK
<1>11. CallLocals'
  BY <1>1, <1>2, <1>9, <1>5 DEF TypeInv, CallLocals
<1>12. \A m \in Nodes :
        /\ node'[m].current = node[m].current /\ node'[m].owner = node[m].owner
        /\ node'[m].queue = node[m].queue
        /\ node'[m].pc = node[m].pc
           \/ (node'[m].pc = "run" /\ node[m].pc \in {"wait", "timedwait"})
  BY <1>1, <1>6, <1>8 DEF TypeInv, TypeOK
<1>13. ServiceLocals'
  <2>1. \A m \in Nodes : call'[m].pc # "idle" => node[m].pc = "handler"
    BY <1>1, <1>2, <1>9, <1>5 DEF TypeInv, ServiceLocals, Actors
  <2> QED BY <1>3, <1>12, <2>1 DEF TypeInv, ServiceLocals
<1>14. HandlersKnown'
  BY <1>3, <1>12 DEF TypeInv, HandlersKnown
<1>15. FreeThreads'
  <2>1. \A i \in 1..Len(threadFree) : threadFree[i] \in Nodes
    BY ElementOfSeq DEF TypeInv, TypeOK
  <2> QED BY <1>3, <1>12, <2>1 DEF TypeInv, FreeThreads, Distinct
<1> QED BY <1>10, <1>11, <1>13, <1>14, <1>15 DEF TypeInv

\* The second and third call of osal_timer_change keep it.
LEMMA TypeChange ==
    ASSUME TypeInv, NEW a \in Actors, ChangePeriod(a) \/ ChangeStart(a)
    PROVE  TypeInv'
<1> DEFINE t == call[a].tid
<1>1. call[a] \in Call /\ call[a].pc \in {"period", "start"}
  BY DEF ChangePeriod, ChangeStart, TypeInv, TypeOK
<1>2. t \in Timers /\ (a \in Nodes => node[a].pc = "handler")
  BY <1>1, CallerLemma DEF TypeInv, CallLocals
<1>3. CASE ChangeStart(a)
  BY <1>2, <1>3, TypeStart DEF ChangeStart
<1>4. CASE ChangePeriod(a)
  <2> DEFINE k == [call[a] EXCEPT !.pc = "start"]
  <2>1. k \in Call /\ k.pc = "start" /\ k.tid = t
    BY <1>1 DEF Call
  <2>2. /\ PeriodSection(t, call[a].millisec)
        /\ call' = [call EXCEPT ![a] = k]
        /\ UNCHANGED <<clock, node, timerFree, threadFree, id>>
    BY <1>4 DEF ChangePeriod, Goto
  <2>3. call[a].millisec \in Nat
    BY <1>1 DEF Call
  <2>4. /\ timer' \in [Timers -> TimerNode]
        /\ \A u \in Timers :
            /\ timer[u].event \in Clients => timer'[u].event \in Clients
            /\ timer'[u].inuse = "INUSE" =>
                timer'[u].event \in Clients /\ timer'[u].thread \in Nodes
    BY <1>2, <2>2, <2>3, PeriodLemma
  <2> HIDE DEF k, t
  <2>5. TypeOK'
    BY <2>1, <2>2, <2>4 DEF TypeInv, TypeOK
  <2> QED BY <1>2, <2>1, <2>2, <2>4, <2>5, ActorStepSameNodes
<1> QED BY <1>3, <1>4

\* The invariant is inductive.
LEMMA TypeNext == TypeInv /\ [Next]_vars => TypeInv'
<1> SUFFICES ASSUME TypeInv, [Next]_vars PROVE TypeInv'
  OBVIOUS
<1>1. ASSUME NEW c \in Clients, Add(c) \/ AddStep(c) PROVE TypeInv'
  BY <1>1, TypeAdd
<1>2. ASSUME NEW a \in Actors, Begin(a) PROVE TypeInv'
  BY <1>2, TypeBegin, TypeDelete DEF Begin
<1>3. ASSUME NEW a \in Actors, CallStep(a) PROVE TypeInv'
  BY <1>3, TypeChange, TypeSettime, TypeWakeup, TypeDelete DEF CallStep
<1>4. ASSUME NEW n \in Nodes, ServiceStep(n) \/ HandlerReturn(n) \/ SpuriousWakeup(n)
      PROVE  TypeInv'
  BY <1>4, TypeService
<1>5. CASE Tick
  <2>1. clock' \in 0..MaxTime /\ UNCHANGED <<timer, node, timerFree, threadFree, call, id>>
    BY <1>5, SizeAssumption DEF Tick, TypeInv, TypeOK
  <2> QED BY <2>1 DEF TypeInv, TypeOK, CallLocals, ServiceLocals, HandlersKnown,
                      FreeThreads, Distinct
<1>6. CASE UNCHANGED vars
  BY <1>6 DEF vars, TypeInv, TypeOK, CallLocals, ServiceLocals, HandlersKnown,
              FreeThreads, Distinct
<1> QED BY <1>1, <1>2, <1>3, <1>4, <1>5, <1>6 DEF Next

\* Type correctness: every reachable state of the timer service is well typed,
\* whatever calls clients and handlers make and in whatever order, in particular
\* no list of os_timer.c ever holds anything but slots of its array, and every
\* pointer a step follows is set when it follows it.
THEOREM TypeCorrect == Spec => []TypeOK
<1>1. TypeInv => TypeOK
  BY DEF TypeInv
<1> QED BY TypeInit, TypeNext, <1>1, PTL DEF Spec

-----------------------------------------------------------------------------
(* The lists stay exact, deletes that race included *)


\* What the reference count says of a slot outside the mutex: one reference in
\* use, none when free, fewer than none once it was deleted a second time.
RefsExact ==
    \A t \in Timers :
        /\ timer[t].inuse = "INUSE" => timer[t].refcount = 1
        /\ timer[t].inuse = "FREE" => timer[t].refcount = 0
        /\ timer[t].inuse = "DELETED" => timer[t].refcount < 0

ListInv == ListsExact /\ RefsExact

-----------------------------------------------------------------------------
(* What the list operations do to the set of elements *)

\* Membership of ToSet by position.
LEMMA ToSetLemma ==
    ASSUME NEW S, NEW s \in Seq(S)
    PROVE  \A e : e \in ToSet(s) <=> \E i \in 1..Len(s) : s[i] = e
<1>1. DOMAIN s = 1..Len(s)
  BY LenProperties
<1> QED BY <1>1 DEF ToSet

\* Without takes t off a list without duplicates.
LEMMA WithoutSet ==
    ASSUME NEW S, NEW s \in Seq(S), Distinct(s), NEW t
    PROVE  /\ Distinct(Without(s, t))
           /\ ToSet(Without(s, t)) = ToSet(s) \ {t}
<1> DEFINE w == Without(s, t)
<1>1. /\ w \in Seq(S)
      /\ \/ w = s /\ \A i \in 1..Len(s) : s[i] # t
         \/ \E k \in 1..Len(s) :
                /\ s[k] = t
                /\ Len(w) = Len(s) - 1
                /\ \A i \in 1..(Len(s) - 1) : w[i] = IF i < k THEN s[i] ELSE s[i + 1]
  BY WithoutLemma
<1> HIDE DEF w
<1>2. Len(s) \in Nat /\ Len(w) \in Nat
  BY <1>1, LenProperties
<1>3. \A e : (e \in ToSet(s) <=> \E i \in 1..Len(s) : s[i] = e)
             /\ (e \in ToSet(w) <=> \E i \in 1..Len(w) : w[i] = e)
  BY <1>1, ToSetLemma
<1>4. CASE w = s /\ \A i \in 1..Len(s) : s[i] # t
  BY <1>3, <1>4 DEF w
<1>5. ASSUME NEW k \in 1..Len(s), s[k] = t, Len(w) = Len(s) - 1,
             \A i \in 1..(Len(s) - 1) : w[i] = IF i < k THEN s[i] ELSE s[i + 1]
      PROVE  Distinct(w) /\ ToSet(w) = ToSet(s) \ {t}
  <2>1. Distinct(w)
    BY <1>2, <1>5 DEF Distinct
  <2>2. \A i \in 1..Len(w) : w[i] # t /\ \E j \in 1..Len(s) : s[j] = w[i]
    BY <1>2, <1>5 DEF Distinct
  <2>3. ASSUME NEW j \in 1..Len(s), s[j] # t
        PROVE  \E i \in 1..Len(w) : w[i] = s[j]
    <3>1. CASE j < k
      <4>1. j \in 1..Len(w) /\ w[j] = s[j]
        BY <1>2, <1>5, <3>1
      <4> QED BY <4>1
    <3>2. CASE j > k
      <4>1. j - 1 \in 1..Len(w) /\ w[j - 1] = s[j]
        BY <1>2, <1>5, <3>2
      <4> QED BY <4>1
    <3> QED BY <1>2, <1>5, <2>3, <3>1, <3>2
  <2>4. \A e : e \in ToSet(w) <=> e \in ToSet(s) \ {t}
    BY <1>3, <2>2, <2>3
  <2> QED BY <2>1, <2>4
<1> QED BY <1>1, <1>4, <1>5 DEF w

\* InsertAt adds an element that was not there.
LEMMA InsertSet ==
    ASSUME NEW v \in Seq(Timers), Distinct(v), NEW t \in Timers, t \notin ToSet(v),
           NEW i \in 1..(Len(v) + 1)
    PROVE  /\ Distinct(InsertAt(v, i, t))
           /\ ToSet(InsertAt(v, i, t)) = ToSet(v) \cup {t}
<1> DEFINE w == InsertAt(v, i, t)
<1>1. /\ w \in Seq(Timers) /\ Len(w) = Len(v) + 1
      /\ \A j \in 1..(Len(v) + 1) : w[j] = IF j < i THEN v[j] ELSE IF j = i THEN t ELSE v[j - 1]
  BY TimerInsertLemma
<1> HIDE DEF w
<1>2. Len(v) \in Nat
  BY LenProperties
<1>3. \A e : (e \in ToSet(v) <=> \E j \in 1..Len(v) : v[j] = e)
             /\ (e \in ToSet(w) <=> \E j \in 1..Len(w) : w[j] = e)
  BY <1>1, ToSetLemma
<1>4. \A j \in 1..Len(w) :
        \/ j < i /\ j \in 1..Len(v) /\ w[j] = v[j]
        \/ j = i /\ w[j] = t
        \/ j > i /\ j - 1 \in 1..Len(v) /\ w[j] = v[j - 1]
  BY <1>1, <1>2
<1>5. Distinct(w)
  <2>1. \A j \in 1..Len(v) : v[j] # t
    BY <1>3
  <2> SUFFICES ASSUME NEW j \in 1..Len(w), NEW k \in 1..Len(w), w[j] = w[k]
               PROVE  j = k
    BY DEF Distinct
  <2> QED BY <1>2, <1>4, <2>1 DEF Distinct
<1>6. ASSUME NEW j \in 1..Len(v) PROVE \E k \in 1..Len(w) : w[k] = v[j]
  <2>1. CASE j < i
    <3>1. j \in 1..Len(w) /\ w[j] = v[j]
      BY <1>1, <1>2, <2>1
    <3> QED BY <3>1
  <2>2. CASE j >= i
    <3>1. j + 1 \in 1..Len(w) /\ w[j + 1] = v[j]
      BY <1>1, <1>2, <2>2
    <3> QED BY <3>1
  <2> QED BY <1>2, <2>1, <2>2
<1>7. i \in 1..Len(w) /\ w[i] = t
  BY <1>1, <1>2
<1>8. \A e : e \in ToSet(w) <=> e \in ToSet(v) \cup {t}
  BY <1>3, <1>4, <1>6, <1>7
<1> QED BY <1>5, <1>8 DEF w

\* Append does so at the end.
LEMMA AppendSet ==
    ASSUME NEW S, NEW v \in Seq(S), Distinct(v), NEW t \in S, t \notin ToSet(v)
    PROVE  /\ Append(v, t) \in Seq(S)
           /\ Distinct(Append(v, t))
           /\ ToSet(Append(v, t)) = ToSet(v) \cup {t}
<1> DEFINE w == Append(v, t)
<1>1. /\ w \in Seq(S) /\ Len(w) = Len(v) + 1
      /\ \A j \in 1..Len(v) : w[j] = v[j]
      /\ w[Len(v) + 1] = t
  BY AppendProperties
<1> HIDE DEF w
<1>2. Len(v) \in Nat
  BY LenProperties
<1>3. \A e : (e \in ToSet(v) <=> \E j \in 1..Len(v) : v[j] = e)
             /\ (e \in ToSet(w) <=> \E j \in 1..Len(w) : w[j] = e)
  BY <1>1, ToSetLemma
<1>4. Distinct(w)
  <2>1. \A j \in 1..Len(v) : v[j] # t
    BY <1>3
  <2>2. \A j \in 1..Len(w) : j \in 1..Len(v) \/ j = Len(v) + 1
    BY <1>1, <1>2
  <2> QED BY <1>1, <1>2, <2>1, <2>2 DEF Distinct
<1>5. \A j \in 1..Len(w) : j \in 1..Len(v) \/ j = Len(v) + 1
  BY <1>1, <1>2
<1>6. \A j \in 1..Len(v) : j \in 1..Len(w)
  BY <1>1, <1>2
<1>7. Len(v) + 1 \in 1..Len(w)
  BY <1>1, <1>2
<1>8. \A e : e \in ToSet(w) <=> e \in ToSet(v) \cup {t}
  BY <1>1, <1>3, <1>5, <1>6, <1>7
<1> QED BY <1>4, <1>8 DEF w

\* Tail drops the head of a list without duplicates.
LEMMA TailSet ==
    ASSUME NEW S, NEW s \in Seq(S), s # << >>, Distinct(s)
    PROVE  /\ Tail(s) \in Seq(S) /\ Head(s) \in S /\ Head(s) \in ToSet(s)
           /\ Distinct(Tail(s))
           /\ ToSet(Tail(s)) = ToSet(s) \ {Head(s)}
<1> DEFINE w == Tail(s)
<1>1. /\ w \in Seq(S) /\ Len(w) = Len(s) - 1 /\ Head(s) \in S
      /\ \A j \in 1..Len(w) : w[j] = s[j + 1]
  BY HeadTailProperties
<1>2. Len(s) \in Nat \ {0} /\ Head(s) = s[1]
  BY EmptySeq, LenProperties
<1> HIDE DEF w
<1>3. \A e : (e \in ToSet(s) <=> \E j \in 1..Len(s) : s[j] = e)
             /\ (e \in ToSet(w) <=> \E j \in 1..Len(w) : w[j] = e)
  BY <1>1, ToSetLemma
<1>4. Distinct(w)
  BY <1>1, <1>2 DEF Distinct
<1>5. \A j \in 1..Len(w) : w[j] # s[1] /\ \E k \in 1..Len(s) : s[k] = w[j]
  BY <1>1, <1>2 DEF Distinct
<1>6. ASSUME NEW j \in 1..Len(s), s[j] # s[1] PROVE \E k \in 1..Len(w) : w[k] = s[j]
  <2>1. j - 1 \in 1..Len(w) /\ w[j - 1] = s[j]
    BY <1>1, <1>2, <1>6
  <2> QED BY <2>1
<1>7. \A e : e \in ToSet(w) <=> e \in ToSet(s) \ {s[1]}
  BY <1>3, <1>5, <1>6
<1>8. s[1] \in ToSet(s)
  BY <1>2, <1>3
<1> QED BY <1>1, <1>2, <1>4, <1>7, <1>8 DEF w
-----------------------------------------------------------------------------
(* Steps *)

\* The position-free form of ListsExact.
LEMMA QueueTypes ==
    ASSUME TypeOK
    PROVE  /\ timerFree \in Seq(Timers)
           /\ \A n \in Nodes : node[n] \in ThreadNode /\ node[n].queue \in Seq(Timers)
           /\ \A t \in Timers : timer[t] \in TimerNode
<1>1. node \in [Nodes -> ThreadNode] /\ timer \in [Timers -> TimerNode]
      /\ timerFree \in Seq(Timers)
  BY DEF TypeOK
<1>2. \A n \in Nodes : node[n] \in ThreadNode
  BY <1>1
<1>3. \A n \in Nodes : node[n].queue \in Seq(Timers)
  BY <1>2 DEF ThreadNode
<1> QED BY <1>1, <1>2, <1>3

\* A step that touches neither the lists nor what they depend on.
LEMMA SameLists ==
    ASSUME ListInv, timerFree' = timerFree,
           \A u \in Timers : /\ timer'[u].inuse = timer[u].inuse
                            /\ timer'[u].refcount = timer[u].refcount
                            /\ timer'[u].armed = timer[u].armed
                            /\ timer'[u].thread = timer[u].thread,
           \A n \in Nodes : node'[n].queue = node[n].queue,
           TypeOK
    PROVE  ListInv'
<1>1. RefsExact'
  BY DEF ListInv, RefsExact
<1>2. \A n \in Nodes : \A t \in ToSet(node[n].queue) : t \in Timers
  BY QueueTypes, ToSetLemma, ElementOfSeq
<1>3. ListsExact'
  BY <1>2 DEF ListInv, ListsExact, Valid, Distinct
<1> QED BY <1>1, <1>3 DEF ListInv

\* A step that changes one slot and takes it off, or puts it on, the lists.
LEMMA ListStep ==
    ASSUME TypeOK, ListInv, NEW t \in Timers,
           \A u \in Timers : u # t => timer'[u] = timer[u],
           timer'[t].inuse = "INUSE" => timer'[t].refcount = 1,
           timer'[t].inuse = "FREE" => timer'[t].refcount = 0,
           timer'[t].inuse = "DELETED" => timer'[t].refcount < 0,
           Distinct(timerFree'),
           \A u \in Timers : u # t => (u \in ToSet(timerFree') <=> u \in ToSet(timerFree)),
           t \in ToSet(timerFree') <=> timer'[t].inuse = "FREE",
           \A n \in Nodes :
                /\ Distinct(node'[n].queue)
                /\ ToSet(node'[n].queue) \subseteq ToSet(node[n].queue) \cup {t}
                /\ t \in ToSet(node'[n].queue) =>
                    timer'[t].inuse = "INUSE" /\ timer'[t].armed /\ timer'[t].thread = n
    PROVE  ListInv'
<1>1. RefsExact'
  BY DEF ListInv, RefsExact
<1>2. \A n \in Nodes : \A u \in ToSet(node[n].queue) : u \in Timers
  BY QueueTypes, ToSetLemma, ElementOfSeq
<1>3. \A u \in Timers : timer'[u].inuse = "FREE" <=> u \in ToSet(timerFree')
  BY DEF ListInv, ListsExact
<1>4. ASSUME NEW n \in Nodes, NEW u \in ToSet(node'[n].queue)
      PROVE  timer'[u].inuse = "INUSE" /\ timer'[u].armed /\ timer'[u].thread = n
  BY <1>2, <1>4 DEF ListInv, ListsExact, Valid
<1>5. ListsExact'
  BY <1>3, <1>4 DEF ListsExact, Valid
<1> QED BY <1>1, <1>5 DEF ListInv

\* A timer that is not in use is on no queue.
LEMMA NotQueued ==
    ASSUME ListInv, NEW t \in Timers, timer[t].inuse # "INUSE"
    PROVE  \A n \in Nodes : t \notin ToSet(node[n].queue)
  BY DEF ListInv, ListsExact, Valid

\* The records that creating, freeing and deleting a timer leave.
LEMMA SlotRecords ==
    ASSUME NEW tm \in TimerNode
    PROVE  /\ \A c \in Clients, n \in Nodes :
                Created(tm, c, n).inuse = "INUSE" /\ Created(tm, c, n).refcount = 1
           /\ \A c \in Clients : /\ Dealloc([tm EXCEPT !.event = c]).inuse = "FREE"
                                 /\ Dealloc([tm EXCEPT !.event = c]).refcount = 0
           /\ Dealloc(tm).inuse = "FREE" /\ Dealloc(tm).refcount = 0
           /\ tm.refcount = 1 => Deleted(tm) = Dealloc(tm)
           /\ tm.refcount # 1 => /\ Deleted(tm).inuse = "DELETED"
                                 /\ Deleted(tm).refcount = tm.refcount - 1
  BY DEF TimerNode, Created, Dealloc, Deleted

\* The queues after a timer has been taken off them.
LEMMA UnlinkedSet ==
    ASSUME TypeOK, ListInv, NEW t \in Timers
    PROVE  \A n \in Nodes : /\ Distinct(Unlinked(t)[n].queue)
                            /\ ToSet(Unlinked(t)[n].queue) = ToSet(node[n].queue) \ {t}
<1> SUFFICES ASSUME NEW n \in Nodes
             PROVE  /\ Distinct(Without(node[n].queue, t))
                    /\ ToSet(Without(node[n].queue, t)) = ToSet(node[n].queue) \ {t}
  BY UnlinkedLemma DEF TypeOK
<1>1. node[n].queue \in Seq(Timers) /\ Distinct(node[n].queue)
  BY QueueTypes DEF ListInv, ListsExact
<1> QED BY <1>1, WithoutSet

\* The free list after a slot has been returned to it.
LEMMA FreeListSet ==
    ASSUME TypeOK, ListInv, NEW t \in Timers
    PROVE  /\ Distinct(FreeList(t)) /\ ToSet(FreeList(t)) = ToSet(timerFree) \cup {t}
           /\ Distinct(Without(timerFree, t))
           /\ ToSet(Without(timerFree, t)) = ToSet(timerFree) \ {t}
<1> DEFINE w == Without(timerFree, t)
<1>1. timerFree \in Seq(Timers) /\ Distinct(timerFree)
  BY QueueTypes DEF ListInv, ListsExact
<1>2. Distinct(w) /\ ToSet(w) = ToSet(timerFree) \ {t}
  BY <1>1, WithoutSet
<1>3. w \in Seq(Timers)
  BY <1>1, WithoutLemma
<1>4. FreeList(t) = Append(w, t)
  BY DEF FreeList
<1> HIDE DEF w
<1>5. Distinct(Append(w, t)) /\ ToSet(Append(w, t)) = ToSet(w) \cup {t}
  BY <1>2, <1>3, AppendSet
<1> QED BY <1>2, <1>4, <1>5 DEF w

\* os_timer_add takes the first free slot off the list, or puts it back last.
LEMMA ListAdd ==
    ASSUME TypeInv, ListInv, NEW c \in Clients, Add(c)
    PROVE  ListInv'
<1> DEFINE t == Head(timerFree)
           f == Tail(timerFree)
<1>1. TypeOK /\ timerFree # << >> /\ timerFree \in Seq(Timers) /\ Distinct(timerFree)
  BY QueueTypes DEF TypeInv, Add, ListInv, ListsExact
<1>2. /\ f \in Seq(Timers) /\ t \in Timers /\ t \in ToSet(timerFree)
      /\ Distinct(f) /\ ToSet(f) = ToSet(timerFree) \ {t}
  BY <1>1, TailSet
<1> HIDE DEF t, f
<1>3. timer[t].inuse = "FREE" /\ timer[t] \in TimerNode
  BY <1>1, <1>2, QueueTypes DEF ListInv, ListsExact
<1>4. \A n \in Nodes : t \notin ToSet(node[n].queue) /\ Distinct(node[n].queue)
  BY <1>2, <1>3, NotQueued DEF ListInv, ListsExact
<1>5. ASSUME NEW n \in Nodes, timer' = [timer EXCEPT ![t] = Created(@, c, n)],
             timerFree' = f,
             \A m \in Nodes : node'[m].queue = node[m].queue \/ node'[m].queue = << >>
      PROVE  ListInv'
  <2>1. /\ \A u \in Timers : u # t => timer'[u] = timer[u]
        /\ timer'[t].inuse = "INUSE" /\ timer'[t].refcount = 1
    BY <1>1, <1>2, <1>3, <1>5, SlotRecords DEF TypeOK
  <2>2. Distinct(<< >>) /\ ToSet(<< >>) = {}
    BY EmptySeq DEF Distinct, ToSet
  <2>3. \A m \in Nodes :
            /\ Distinct(node'[m].queue)
            /\ ToSet(node'[m].queue) \subseteq ToSet(node[m].queue) \cup {t}
            /\ t \notin ToSet(node'[m].queue)
    BY <1>4, <1>5, <2>2
  <2> QED BY <1>1, <1>2, <1>5, <2>1, <2>3, ListStep
<1>6. ASSUME NEW p \in Prios, CreateOnThread(c, p) PROVE ListInv'
  <2>1. PICK n \in Matching(p) :
            /\ timer' = [timer EXCEPT ![t] = Created(@, c, n)]
            /\ timerFree' = f /\ node' = node
    BY <1>6 DEF CreateOnThread, AllocTimer, t, f
  <2>2. n \in Nodes
    BY DEF Matching
  <2> QED BY <1>5, <2>1, <2>2
<1>7. ASSUME NEW p \in Prios, CreateAndSpawn(c, p) PROVE ListInv'
  <2> DEFINE n == Head(threadFree)
             new == [NewThread EXCEPT !.prio = p, !.pc = "run"]
  <2>1. n \in Nodes
    BY <1>7, HeadTailProperties DEF CreateAndSpawn, TypeInv, TypeOK
  <2>2. /\ timer' = [timer EXCEPT ![t] = Created(@, c, n)]
        /\ timerFree' = f /\ node' = [node EXCEPT ![n] = new]
    BY <1>7 DEF CreateAndSpawn, AllocTimer, t, f
  <2>3. new.queue = << >>
    BY DEF NewThread
  <2> HIDE DEF n, new
  <2>4. \A m \in Nodes : node'[m].queue = node[m].queue \/ node'[m].queue = << >>
    BY <1>1, <2>2, <2>3 DEF TypeOK
  <2> QED BY <1>5, <2>1, <2>2, <2>4
<1>8. ASSUME NEW p \in Prios, CreateBails(c, p) PROVE ListInv'
  <2>1. /\ timer' = [timer EXCEPT ![t] = Dealloc([timer[t] EXCEPT !.event = c])]
        /\ timerFree' = Append(f, t) /\ node' = node
    BY <1>8 DEF CreateBails, t, f
  <2>2. /\ \A u \in Timers : u # t => timer'[u] = timer[u]
        /\ timer'[t].inuse = "FREE" /\ timer'[t].refcount = 0
    BY <1>1, <1>2, <1>3, <2>1, SlotRecords DEF TypeOK
  <2>3. Distinct(timerFree') /\ ToSet(timerFree') = ToSet(f) \cup {t}
    BY <1>2, <2>1, AppendSet
  <2> QED BY <1>1, <1>2, <1>4, <2>1, <2>2, <2>3, ListStep
<1> QED BY <1>6, <1>7, <1>8 DEF Add

\* The calls that only read, or only write the period or their own locals.
LEMMA ListCalls ==
    ASSUME TypeInv, ListInv, NEW a \in Actors,
           \/ a \in Clients /\ AddStep(a)
           \/ Start(a) \/ Stop(a) \/ Period(a) \/ Change(a)
           \/ ChangePeriod(a) \/ ChangeStart(a) \/ ReadClock(a) \/ Wakeup(a) \/ Forget(a)
    PROVE  ListInv'
<1>1. TypeOK /\ timer \in [Timers -> TimerNode] /\ \A u \in Timers : timer[u] \in TimerNode
  BY QueueTypes DEF TypeInv, TypeOK
<1>2. ASSUME NEW t, NEW ms, NEW ty,
             \/ timer' = timer
             \/ timer' = [timer EXCEPT ![t].millisec = ms]
             \/ timer' = [timer EXCEPT ![t].type = ty, ![t].millisec = ms]
      PROVE  \A u \in Timers : /\ timer'[u].inuse = timer[u].inuse
                               /\ timer'[u].refcount = timer[u].refcount
                               /\ timer'[u].armed = timer[u].armed
                               /\ timer'[u].thread = timer[u].thread
  BY <1>1, <1>2 DEF TimerNode
<1>3. ASSUME NEW n, node' = WakeNode(node, n)
      PROVE  \A m \in Nodes : node'[m].queue = node[m].queue
  BY <1>1, <1>3 DEF WakeNode, TypeOK, ThreadNode
<1>4. timerFree' = timerFree
  BY DEF AddStep, AddRecord, AddStore, Start, StartSection, Stop, Period, Change,
         ChangePeriod, ChangeStart, ReadClock, Wakeup, Forget
<1>5. \A m \in Nodes : node'[m].queue = node[m].queue
  BY <1>3 DEF AddStep, AddRecord, AddStore, Start, StartSection, Stop, Period, Change,
              ChangePeriod, ChangeStart, ReadClock, Wakeup, Forget
<1>6. \E t, ms, ty :
            \/ timer' = timer
            \/ timer' = [timer EXCEPT ![t].millisec = ms]
            \/ timer' = [timer EXCEPT ![t].type = ty, ![t].millisec = ms]
  BY Zenon DEF AddStep, AddRecord, AddStore, Start, StartSection, Stop, Period, PeriodSection,
         Change, ChangePeriod, ChangeStart, ReadClock, Wakeup, Forget
<1>7. \A u \in Timers : /\ timer'[u].inuse = timer[u].inuse
                        /\ timer'[u].refcount = timer[u].refcount
                        /\ timer'[u].armed = timer[u].armed
                        /\ timer'[u].thread = timer[u].thread
  BY <1>2, <1>6
<1> QED BY <1>1, <1>4, <1>5, <1>7, SameLists

\* __timer_settime moves one timer between the lists, or frees a slot again that
\* is free already.
LEMMA ListSettime ==
    ASSUME TypeInv, ListInv, NEW a \in Actors,
           SettimeDisarm(a) \/ SettimeArm(a) \/ SettimeInvalid(a)
    PROVE  ListInv'
<1> DEFINE t == call[a].tid
<1>1. TypeOK /\ t \in Timers /\ timer[t] \in TimerNode /\ timer \in [Timers -> TimerNode]
  BY QueueTypes DEF SettimeDisarm, SettimeArm, SettimeInvalid, TypeInv, TypeOK, CallLocals
<1>2. \A n \in Nodes : /\ Distinct(Unlinked(t)[n].queue)
                       /\ ToSet(Unlinked(t)[n].queue) = ToSet(node[n].queue) \ {t}
  BY <1>1, UnlinkedSet
<1>3. Distinct(timerFree)
      /\ \A u \in Timers : timer[u].inuse = "FREE" <=> u \in ToSet(timerFree)
  BY DEF ListInv, ListsExact
<1>4. CASE SettimeDisarm(a)
  <2>1. /\ timer[t].inuse = "INUSE" /\ timerFree' = timerFree /\ node' = Unlinked(t)
        /\ timer' = [timer EXCEPT ![t].interval = call[a].interval, ![t].armed = FALSE]
    BY <1>4 DEF SettimeDisarm, Valid
  <2>2. /\ \A u \in Timers : u # t => timer'[u] = timer[u]
        /\ timer'[t].inuse = "INUSE" /\ timer'[t].refcount = timer[t].refcount
    BY <1>1, <2>1 DEF TimerNode
  <2>3. timer[t].refcount = 1
    BY <1>1, <2>1 DEF ListInv, RefsExact
  <2> HIDE DEF t
  <2> QED BY <1>1, <1>2, <1>3, <2>1, <2>2, <2>3, ListStep
<1>5. CASE SettimeArm(a)
  <2> DEFINE n == timer[t].thread
             expiry == call[a].now + call[a].value
             q == Without(node[n].queue, t)
             pos == QueuePos(q, timer, expiry)
  <2>1. /\ timer[t].inuse = "INUSE" /\ timerFree' = timerFree
        /\ timer' = [timer EXCEPT ![t].interval = call[a].interval,
                                  ![t].armed = TRUE, ![t].expiry = expiry]
        /\ node' = [Unlinked(t) EXCEPT ![n].queue = InsertAt(q, pos, t)]
    BY <1>5 DEF SettimeArm, Valid
  <2>2. /\ \A u \in Timers : u # t => timer'[u] = timer[u]
        /\ timer'[t].inuse = "INUSE" /\ timer'[t].refcount = timer[t].refcount
        /\ timer'[t].armed /\ timer'[t].thread = n
    BY <1>1, <2>1 DEF TimerNode
  <2>3. timer[t].refcount = 1
    BY <1>1, <2>1 DEF ListInv, RefsExact
  <2>4. n \in Nodes
    BY <1>1, <2>1 DEF TypeInv, HandlersKnown
  <2>5. call[a] \in Call
    BY DEF TypeInv, TypeOK
  <2>6. expiry \in Nat
    BY <2>5 DEF Call
  <2>7. Unlinked(t) \in [Nodes -> ThreadNode] /\ Unlinked(t)[n].queue = q
    BY <1>1, <2>4, UnlinkedLemma DEF TypeOK
  <2>8. Unlinked(t)[n] \in ThreadNode
    BY <2>4, <2>7
  <2>9. q \in Seq(Timers)
    BY <2>7, <2>8 DEF ThreadNode
  <2>10. Distinct(q) /\ ToSet(q) = ToSet(node[n].queue) \ {t}
    BY <1>2, <2>4, <2>7
  <2> HIDE DEF q, n, expiry
  <2>11. pos \in 1..(Len(q) + 1)
    BY <1>1, <2>6, <2>9, QueuePosLemma
  <2> DEFINE w == InsertAt(q, pos, t)
  <2> HIDE DEF pos
  <2>12. Distinct(w) /\ ToSet(w) = ToSet(q) \cup {t}
    BY <1>1, <2>9, <2>10, <2>11, InsertSet
  <2> HIDE DEF w, t
  <2>13. /\ node'[n].queue = w
         /\ \A m \in Nodes : m # n => node'[m] = Unlinked(t)[m]
    BY <2>1, <2>4, <2>7, <2>8 DEF w, ThreadNode
  <2>14. \A m \in Nodes :
            /\ Distinct(node'[m].queue)
            /\ ToSet(node'[m].queue) \subseteq ToSet(node[m].queue) \cup {t}
            /\ t \in ToSet(node'[m].queue) => m = n
    BY <1>2, <2>10, <2>12, <2>13
  <2> QED BY <1>1, <1>3, <2>1, <2>2, <2>3, <2>14, ListStep
<1>6. CASE SettimeInvalid(a)
  <2>1. timer[t].inuse # "INUSE"
    BY <1>6 DEF SettimeInvalid, Valid
  <2>2. CASE timer[t].refcount = 0
    <3>1. timer[t].inuse = "FREE"
      BY <1>1, <2>1, <2>2 DEF ListInv, RefsExact, TimerNode
    <3>2. /\ timer' = [timer EXCEPT ![t] = Dealloc(@)]
          /\ node' = Unlinked(t) /\ timerFree' = FreeList(t)
      BY <1>6, <2>2 DEF SettimeInvalid
    <3>3. /\ \A u \in Timers : u # t => timer'[u] = timer[u]
          /\ timer'[t].inuse = "FREE" /\ timer'[t].refcount = 0
      BY <1>1, <3>2, SlotRecords
    <3>4. Distinct(timerFree') /\ ToSet(timerFree') = ToSet(timerFree) \cup {t}
      BY <1>1, <3>2, FreeListSet
    <3> HIDE DEF t
    <3> QED BY <1>1, <1>2, <3>2, <3>3, <3>4, ListStep
  <2>3. CASE timer[t].refcount # 0
    <3>1. UNCHANGED <<timer, node, timerFree>>
      BY <1>6, <2>3 DEF SettimeInvalid
    <3> QED BY <1>1, <3>1, SameLists
  <2> QED BY <2>2, <2>3
<1> QED BY <1>4, <1>5, <1>6

\* os_timer_del frees the slot; a second delete of the same timer takes it off
\* the free list for good.
LEMMA ListDelete ==
    ASSUME TypeInv, ListInv, NEW a \in Actors, Delete(a) \/ DeleteResume(a)
    PROVE  ListInv'
<1>1. TypeOK
  BY DEF TypeInv
<1>2. ASSUME UNCHANGED <<timer, node, timerFree>> PROVE ListInv'
  BY <1>1, <1>2, SameLists
<1>3. ASSUME NEW t \in Timers, DeleteFinish(a, t) PROVE ListInv'
  <2>1. timer[t] \in TimerNode /\ timer \in [Timers -> TimerNode]
    BY <1>1, QueueTypes DEF TypeOK
  <2>2. \A n \in Nodes : /\ Distinct(Unlinked(t)[n].queue)
                         /\ ToSet(Unlinked(t)[n].queue) = ToSet(node[n].queue) \ {t}
    BY <1>1, UnlinkedSet
  <2>3. timer' = [timer EXCEPT ![t] = Deleted(@)] /\ node' = Unlinked(t)
    BY <1>3 DEF DeleteFinish
  <2>4. \A u \in Timers : u # t => timer'[u] = timer[u]
    BY <2>1, <2>3
  <2>5. timer'[t] = Deleted(timer[t])
    BY <2>1, <2>3
  <2>6. CASE timer[t].refcount = 1
    <3>1. timerFree' = FreeList(t)
      BY <1>3, <2>6 DEF DeleteFinish
    <3>2. timer'[t].inuse = "FREE" /\ timer'[t].refcount = 0
      BY <2>1, <2>5, <2>6, SlotRecords
    <3>3. Distinct(timerFree') /\ ToSet(timerFree') = ToSet(timerFree) \cup {t}
      BY <1>1, <3>1, FreeListSet
    <3> QED BY <1>1, <2>2, <2>3, <2>4, <3>2, <3>3, ListStep
  <2>7. CASE timer[t].refcount # 1
    <3>1. timerFree' = Without(timerFree, t)
      BY <1>3, <2>7 DEF DeleteFinish
    <3>2. timer[t].refcount \in Int /\ timer[t].refcount <= 0
      BY <2>1, <2>7 DEF ListInv, RefsExact, TimerNode, RefCount
    <3>3. timer'[t].inuse = "DELETED" /\ timer'[t].refcount = timer[t].refcount - 1
      BY <2>1, <2>5, <2>7, SlotRecords
    <3>4. timer'[t].refcount < 0
      BY <3>2, <3>3
    <3>5. Distinct(timerFree') /\ ToSet(timerFree') = ToSet(timerFree) \ {t}
      BY <1>1, <3>1, FreeListSet
    <3> QED BY <1>1, <2>2, <2>3, <2>4, <3>3, <3>4, <3>5, ListStep
  <2> QED BY <2>6, <2>7
<1>4. CASE Delete(a)
  <2>1. id[Owner(a)] \in Timers
    BY <1>4, CallerLemma DEF Delete, Ops
  <2> QED BY <1>2, <1>3, <1>4, <2>1 DEF Delete, DeleteWait
<1>5. CASE DeleteResume(a)
  <2>1. call[a].tid \in Timers
    BY <1>5 DEF DeleteResume, TypeInv, CallLocals
  <2> QED BY <1>2, <1>3, <1>5, <2>1 DEF DeleteResume, DeleteWait
<1> QED BY <1>4, <1>5

\* A due timer leaves the head of its queue and, when it is periodic, goes back
\* to its place in it.
LEMMA RequeuedSet ==
    ASSUME NEW q \in Seq(Timers), q # << >>, Distinct(q),
           NEW tm \in [Timers -> TimerNode]
    PROVE  /\ Distinct(Requeued(q, tm, Head(q)))
           /\ ToSet(Requeued(q, tm, Head(q))) \subseteq ToSet(q)
<1> DEFINE t == Head(q)
           v == Tail(q)
<1>1. /\ v \in Seq(Timers) /\ t \in Timers /\ t \in ToSet(q)
      /\ Distinct(v) /\ ToSet(v) = ToSet(q) \ {t}
  BY TailSet
<1> HIDE DEF t, v
<1>2. CASE tm[t].interval = 0
  <2>1. Requeued(q, tm, t) = v
    BY <1>2 DEF Requeued, v
  <2> QED BY <1>1, <2>1 DEF t
<1>3. CASE tm[t].interval # 0
  <2> DEFINE pos == QueuePos(v, tm, tm[t].expiry)
  <2>1. Requeued(q, tm, t) = InsertAt(v, pos, t)
    BY <1>3 DEF Requeued, v
  <2>2. tm[t].expiry \in Nat
    BY <1>1 DEF TimerNode
  <2>3. pos \in 1..(Len(v) + 1)
    BY <1>1, <2>2, QueuePosLemma
  <2> HIDE DEF pos
  <2>4. Distinct(InsertAt(v, pos, t)) /\ ToSet(InsertAt(v, pos, t)) = ToSet(v) \cup {t}
    BY <1>1, <2>3, InsertSet
  <2> QED BY <1>1, <2>1, <2>4 DEF t
<1> QED BY <1>2, <1>3

\* A service thread keeps the lists exact, whatever time it compares with.
LEMMA ListServe ==
    ASSUME TypeInv, ListInv, NEW n \in Nodes, NEW now \in Nat,
           ServeDue(n, now) \/ ServeWait(n, now), timerFree' = timerFree
    PROVE  ListInv'
<1>1. /\ TypeOK /\ node \in [Nodes -> ThreadNode] /\ timer \in [Timers -> TimerNode]
      /\ node[n] \in ThreadNode /\ node[n].queue \in Seq(Timers)
      /\ Distinct(node[n].queue)
  BY QueueTypes DEF TypeInv, TypeOK, ListInv, ListsExact
<1>2. CASE ServeDue(n, now)
  <2> DEFINE q == node[n].queue
             t == Head(q)
             tm == [timer EXCEPT ![t] = Fired(@, now)]
             w == Requeued(q, tm, t)
  <2>1. /\ q # << >> /\ timer' = tm
        /\ node' = [node EXCEPT ![n].queue = w, ![n].current = t, ![n].owner = Null,
                                ![n].pc = "call", ![n].now = now]
    BY <1>2 DEF ServeDue
  <2>2. t \in Timers /\ t \in ToSet(q)
    BY <1>1, <2>1, TailSet
  <2>3. timer[t] \in TimerNode
    BY <1>1, <2>2
  <2>4. /\ Fired(timer[t], now) \in TimerNode
        /\ Fired(timer[t], now).inuse = timer[t].inuse
        /\ Fired(timer[t], now).thread = timer[t].thread
    BY <2>3, FiredLemma
  <2>5. /\ Fired(timer[t], now).refcount = timer[t].refcount
        /\ Fired(timer[t], now).armed = timer[t].armed
    BY <2>3 DEF Fired, TimerNode
  <2>6. tm \in [Timers -> TimerNode]
    BY <1>1, <2>2, <2>4
  <2>7. Distinct(w) /\ ToSet(w) \subseteq ToSet(q)
    BY <1>1, <2>1, <2>6, RequeuedSet
  <2>8. /\ node'[n].queue = w
        /\ \A m \in Nodes : m # n => node'[m] = node[m]
    <3> HIDE DEF w, t
    <3> QED BY <1>1, <2>1 DEF ThreadNode
  <2>9. /\ \A u \in Timers : u # t => timer'[u] = timer[u]
        /\ timer'[t] = Fired(timer[t], now)
    BY <1>1, <2>1, <2>2
  <2>10. timer[t].inuse = "INUSE" /\ timer[t].refcount = 1 /\ timer[t].armed /\ timer[t].thread = n
    BY <2>2 DEF ListInv, ListsExact, RefsExact, Valid
  <2> HIDE DEF w, t, tm, q
  <2>11. \A m \in Nodes :
            /\ Distinct(node'[m].queue)
            /\ ToSet(node'[m].queue) \subseteq ToSet(node[m].queue) \cup {t}
            /\ t \in ToSet(node'[m].queue) => m = n
    BY <2>2, <2>7, <2>8 DEF ListInv, ListsExact, Valid, q
  <2>12. Distinct(timerFree) /\ t \notin ToSet(timerFree)
    BY <2>2, <2>10 DEF ListInv, ListsExact
  <2> QED BY <1>1, <2>2, <2>4, <2>5, <2>9, <2>10, <2>11, <2>12, ListStep
<1>3. CASE ServeWait(n, now)
  <2>1. PICK r : node' = [node EXCEPT ![n] = r] /\ r.queue = node[n].queue
    <3> DEFINE x == [node[n] EXCEPT !.current = Null, !.owner = Null, !.pc = "wait",
                                    !.now = 0, !.deadline = 0]
               y == [node[n] EXCEPT !.current = Null, !.owner = Null, !.pc = "timedwait",
                        !.now = 0, !.deadline = timer[Head(node[n].queue)].expiry]
    <3>1. x.queue = node[n].queue /\ y.queue = node[n].queue
      BY <1>1 DEF ThreadNode
    <3>2. node' = [node EXCEPT ![n] = x] \/ node' = [node EXCEPT ![n] = y]
      BY <1>3 DEF ServeWait
    <3> HIDE DEF x, y
    <3> QED BY <3>1, <3>2
  <2>2. timer' = timer /\ \A m \in Nodes : node'[m].queue = node[m].queue
    BY <1>1, <1>3, <2>1 DEF ServeWait
  <2> QED BY <1>1, <2>2, SameLists
<1> QED BY <1>2, <1>3

\* The other steps of service threads leave the lists alone.
LEMMA ListService ==
    ASSUME TypeInv, ListInv, NEW n \in Nodes,
           ServiceStep(n) \/ HandlerReturn(n) \/ SpuriousWakeup(n)
    PROVE  ListInv'
<1>1. TypeOK /\ node \in [Nodes -> ThreadNode] /\ node[n] \in ThreadNode /\ clock \in Nat
  BY SizeAssumption DEF TypeInv, TypeOK
<1>2. CASE Run(n)
  BY <1>1, <1>2, ListServe DEF Run
<1>3. CASE HandlerReturn(n)
  <2>1. node[n].now \in Nat
    BY <1>1 DEF ThreadNode
  <2> QED BY <1>3, <2>1, ListServe DEF HandlerReturn
<1>4. CASE CallHandler(n) \/ Timeout(n) \/ SpuriousWakeup(n)
  <2>1. PICK r : node' = [node EXCEPT ![n] = r] /\ r.queue = node[n].queue
    <3> DEFINE x == [node[n] EXCEPT !.pc = "handler",
                                    !.owner = timer[node[n].current].event]
               y == [node[n] EXCEPT !.pc = "run"]
    <3>1. x.queue = node[n].queue /\ y.queue = node[n].queue
      BY <1>1 DEF ThreadNode
    <3>2. node' = [node EXCEPT ![n] = x] \/ node' = [node EXCEPT ![n] = y]
      BY <1>4 DEF CallHandler, Timeout, SpuriousWakeup
    <3> HIDE DEF x, y
    <3> QED BY <3>1, <3>2
  <2>2. /\ timer' = timer /\ timerFree' = timerFree
        /\ \A m \in Nodes : node'[m].queue = node[m].queue
    BY <1>1, <1>4, <2>1 DEF CallHandler, Timeout, SpuriousWakeup
  <2> QED BY <1>1, <2>2, SameLists
<1> QED BY <1>2, <1>3, <1>4 DEF ServiceStep

\* All slots are free at first.
LEMMA ListInit == Init => ListInv
<1> SUFFICES ASSUME Init PROVE ListInv
  OBVIOUS
<1>1. TypeOK
  BY TypeInit DEF TypeInv
<1>2. timerFree = [i \in 1..TimerMax |-> i] /\ TimerMax \in Nat
  BY SizeAssumption DEF Init, Timers
<1>3. Len(timerFree) = TimerMax
  BY <1>1, <1>2, LenProperties DEF TypeOK
<1>4. Distinct(timerFree) /\ ToSet(timerFree) = Timers
  BY <1>2, <1>3 DEF Distinct, ToSet, Timers
<1>5. \A n \in Nodes : node[n].queue = << >>
  BY DEF Init, NewThread
<1>6. Distinct(<< >>) /\ ToSet(<< >>) = {}
  BY EmptySeq DEF Distinct, ToSet
<1>7. \A t \in Timers : timer[t].inuse = "FREE" /\ timer[t].refcount = 0
  BY DEF Init, NewTimer
<1> QED BY <1>4, <1>5, <1>6, <1>7 DEF ListInv, ListsExact, RefsExact

\* Together with the types the invariant is inductive.
LEMMA ListNext == TypeInv /\ ListInv /\ [Next]_vars => ListInv'
<1> SUFFICES ASSUME TypeInv, ListInv, [Next]_vars PROVE ListInv'
  OBVIOUS
<1>1. ASSUME NEW c \in Clients, Add(c) \/ AddStep(c) PROVE ListInv'
  <2>1. c \in Actors
    BY DEF Actors
  <2> QED BY <1>1, <2>1, ListAdd, ListCalls
<1>2. ASSUME NEW a \in Actors, Begin(a) PROVE ListInv'
  BY <1>2, ListCalls, ListDelete DEF Begin
<1>3. ASSUME NEW a \in Actors, CallStep(a) PROVE ListInv'
  BY <1>3, ListCalls, ListSettime, ListDelete DEF CallStep
<1>4. ASSUME NEW n \in Nodes, ServiceStep(n) \/ HandlerReturn(n) \/ SpuriousWakeup(n)
      PROVE  ListInv'
  BY <1>4, ListService
<1>5. CASE Tick \/ UNCHANGED vars
  <2>1. UNCHANGED <<timer, node, timerFree>> /\ TypeOK
    BY <1>5 DEF Tick, vars, TypeInv
  <2> QED BY <2>1, SameLists
<1> QED BY <1>1, <1>2, <1>3, <1>4, <1>5 DEF Next

\* The lists of os_timer.c stay exact: no slot is ever on the free list and on a
\* queue, on two queues, or on one list twice, and what is on the free list is
\* what is free.  This holds for every mixture of calls, calls that come after
\* their timer was deleted and second deletes included.
THEOREM ListsCorrect == Spec => []ListsExact
<1>1. ListInv => ListsExact
  BY DEF ListInv
<1> QED BY TypeInit, TypeNext, ListInit, ListNext, <1>1, PTL DEF Spec

-----------------------------------------------------------------------------
(* What the service threads rely on: sorted queues, no lost wakeup, periodic
   timers that stay queued, and one thread per priority *)

\* The queue q is sorted by the expiry times in tm.
Sorted(q, tm) ==
    \A i, j \in 1..Len(q) : i < j => tm[q[i]].expiry <= tm[q[j]].expiry

\* A step that leaves what the queues depend on of slot u as it is.
SameSlot(u) ==
    /\ timer'[u].inuse = timer[u].inuse
    /\ timer'[u].armed = timer[u].armed
    /\ timer'[u].thread = timer[u].thread
    /\ timer'[u].interval = timer[u].interval
    /\ timer'[u].expiry = timer[u].expiry

\* A step that leaves thread node n as it is, up to the locals of its thread.
SameNode(n) ==
    /\ node'[n].prio = node[n].prio
    /\ node'[n].pc = node[n].pc
    /\ node'[n].queue = node[n].queue
    /\ node'[n].deadline = node[n].deadline

\* A step after which every broadcast that was to be made still is.
KeepsWakes ==
    \A b \in Actors : call[b].pc = "wake" =>
        call'[b].pc = "wake" /\ call'[b].thread = call[b].thread

Waiting == {"wait", "timedwait"}

\* NoLostWakeup for one node.
WakesInTime(n) ==
    (node[n].pc \in Waiting /\ node[n].queue # << >>) =>
        \/ node[n].pc = "timedwait"
           /\ node[n].deadline <= timer[Head(node[n].queue)].expiry
        \/ \E a \in Actors : call[a].pc = "wake" /\ call[a].thread = n

ServiceInv ==
    QueueSorted /\ NoLostWakeup /\ PeriodicQueued /\ OneThreadPerPrio

-----------------------------------------------------------------------------
(* Sorted queues *)

\* What the first element of a queue is.
LEMMA HeadLemma ==
    ASSUME NEW q \in Seq(Timers)
    PROVE  /\ Len(q) \in Nat
           /\ q # << >> => Head(q) = q[1] /\ Len(q) >= 1 /\ q[1] \in Timers
           /\ q = << >> => Len(q) = 0
           /\ \A i \in 1..Len(q) : q[i] \in Timers
  BY EmptySeq, LenProperties, ElementOfSeq, HeadTailProperties

\* Taking a timer off a sorted queue leaves it sorted, with no earlier head.
LEMMA SortedWithout ==
    ASSUME NEW q \in Seq(Timers), NEW tm \in [Timers -> TimerNode], Sorted(q, tm), NEW t
    PROVE  /\ Sorted(Without(q, t), tm)
           /\ Without(q, t) # << >> =>
                q # << >> /\ tm[Head(q)].expiry <= tm[Head(Without(q, t))].expiry
<1> DEFINE w == Without(q, t)
<1>1. /\ w \in Seq(Timers)
      /\ \/ w = q /\ \A i \in 1..Len(q) : q[i] # t
         \/ \E k \in 1..Len(q) :
                /\ q[k] = t
                /\ Len(w) = Len(q) - 1
                /\ \A i \in 1..(Len(q) - 1) : w[i] = IF i < k THEN q[i] ELSE q[i + 1]
  BY WithoutLemma
<1> HIDE DEF w
<1>2. /\ Len(q) \in Nat /\ Len(w) \in Nat
      /\ \A i \in 1..Len(q) : q[i] \in Timers /\ tm[q[i]].expiry \in Nat
      /\ q # << >> => Head(q) = q[1] /\ Len(q) >= 1
      /\ w # << >> => Head(w) = w[1] /\ Len(w) >= 1
      /\ q = << >> => Len(q) = 0
  BY <1>1, HeadLemma DEF TimerNode
<1>3. CASE w = q
  BY <1>2, <1>3 DEF w
<1>4. ASSUME NEW k \in 1..Len(q), Len(w) = Len(q) - 1,
             \A i \in 1..(Len(q) - 1) : w[i] = IF i < k THEN q[i] ELSE q[i + 1]
      PROVE  /\ Sorted(w, tm)
             /\ w # << >> => q # << >> /\ tm[Head(q)].expiry <= tm[Head(w)].expiry
  <2>1. ASSUME NEW i \in 1..Len(w), NEW j \in 1..Len(w), i < j
        PROVE  tm[w[i]].expiry <= tm[w[j]].expiry
    <3> DEFINE l(x) == IF x < k THEN x ELSE x + 1
    <3>1. l(i) \in 1..Len(q) /\ l(j) \in 1..Len(q) /\ l(i) < l(j)
      BY <1>2, <1>4, <2>1
    <3>2. w[i] = q[l(i)] /\ w[j] = q[l(j)]
      BY <1>2, <1>4, <2>1
    <3> QED BY <3>1, <3>2 DEF Sorted
  <2>2. ASSUME w # << >> PROVE q # << >> /\ tm[q[1]].expiry <= tm[w[1]].expiry
    <3>1. Len(q) >= 2 /\ (w[1] = q[1] \/ w[1] = q[2])
      BY <1>2, <1>4, <2>2
    <3> QED BY <1>2, <3>1 DEF Sorted
  <2>3. Sorted(w, tm)
    BY <2>1 DEF Sorted
  <2> QED BY <1>2, <2>2, <2>3
<1> QED BY <1>1, <1>3, <1>4 DEF w

\* Inserting where QueuePos says keeps a queue sorted.
LEMMA SortedInsert ==
    ASSUME NEW q \in Seq(Timers), NEW tm \in [Timers -> TimerNode], Sorted(q, tm),
           NEW e \in Nat, NEW t \in Timers, NEW tn \in [Timers -> TimerNode],
           tn[t].expiry = e, \A i \in 1..Len(q) : tn[q[i]].expiry = tm[q[i]].expiry
    PROVE  LET w == InsertAt(q, QueuePos(q, tm, e), t)
           IN  /\ Sorted(w, tn)
               /\ w # << >>
               /\ QueuePos(q, tm, e) # 1 => q # << >> /\ Head(w) = Head(q)
<1> DEFINE p == QueuePos(q, tm, e)
           w == InsertAt(q, p, t)
<1>1. /\ p \in 1..(Len(q) + 1)
      /\ p <= Len(q) => e < tm[q[p]].expiry
      /\ \A j \in 1..(p - 1) : e >= tm[q[j]].expiry
  BY QueuePosLemma
<1> HIDE DEF p
<1>2. /\ w \in Seq(Timers) /\ Len(w) = Len(q) + 1
      /\ \A j \in 1..(Len(q) + 1) :
            w[j] = IF j < p THEN q[j] ELSE IF j = p THEN t ELSE q[j - 1]
  BY <1>1, TimerInsertLemma
<1> HIDE DEF w
<1>3. /\ Len(q) \in Nat
      /\ \A i \in 1..Len(q) : q[i] \in Timers /\ tm[q[i]].expiry \in Nat
      /\ q # << >> => Head(q) = q[1] /\ Len(q) >= 1
      /\ w # << >> => Head(w) = w[1]
      /\ q = << >> => Len(q) = 0
      /\ w = << >> => Len(w) = 0
  BY <1>2, HeadLemma DEF TimerNode
<1>4. \A j \in 1..Len(w) :
        \/ j < p /\ j \in 1..Len(q) /\ w[j] = q[j]
        \/ j = p /\ w[j] = t
        \/ j > p /\ j - 1 \in 1..Len(q) /\ w[j] = q[j - 1]
  BY <1>1, <1>2, <1>3
<1>5. ASSUME p <= Len(q), NEW j \in p..Len(q) PROVE e <= tm[q[j]].expiry
  <2>1. tm[q[p]].expiry <= tm[q[j]].expiry
    BY <1>1, <1>3, <1>5 DEF Sorted
  <2>2. tm[q[p]].expiry \in Nat /\ tm[q[j]].expiry \in Nat
    BY <1>1, <1>3, <1>5
  <2> QED BY <1>1, <1>5, <2>1, <2>2
<1>6. ASSUME NEW i \in 1..Len(w), NEW j \in 1..Len(w), i < j
      PROVE  tn[w[i]].expiry <= tn[w[j]].expiry
  <2>1. CASE i = p
    <3>1. j - 1 \in p..Len(q) /\ w[j] = q[j - 1] /\ w[i] = t /\ j - 1 \in 1..Len(q)
      BY <1>1, <1>3, <1>4, <1>6, <2>1
    <3> QED BY <1>1, <1>3, <1>5, <3>1
  <2>2. CASE j = p
    <3>1. i \in 1..(p - 1) /\ w[i] = q[i] /\ w[j] = t /\ i \in 1..Len(q)
      BY <1>1, <1>3, <1>4, <1>6, <2>2
    <3> QED BY <1>1, <1>3, <3>1
  <2>3. CASE i # p /\ j # p
    <3> DEFINE l(x) == IF x < p THEN x ELSE x - 1
    <3>1. l(i) \in 1..Len(q) /\ l(j) \in 1..Len(q) /\ l(i) < l(j)
      BY <1>1, <1>3, <1>4, <1>6, <2>3
    <3>2. w[i] = q[l(i)] /\ w[j] = q[l(j)]
      BY <1>1, <1>3, <1>4, <2>3
    <3> QED BY <1>3, <3>1, <3>2 DEF Sorted
  <2> QED BY <2>1, <2>2, <2>3
<1>7. Sorted(w, tn)
  BY <1>6 DEF Sorted
<1>8. w # << >> /\ (p # 1 => q # << >> /\ Head(w) = Head(q))
  BY <1>1, <1>2, <1>3
<1> QED BY <1>7, <1>8 DEF w, p

\* So does taking the head off.
LEMMA SortedTail ==
    ASSUME NEW q \in Seq(Timers), q # << >>, NEW tm, Sorted(q, tm)
    PROVE  Sorted(Tail(q), tm) /\ \A i \in 1..Len(Tail(q)) : Tail(q)[i] = q[i + 1]
<1>1. /\ Len(Tail(q)) = Len(q) - 1 /\ Len(q) \in Nat
      /\ \A i \in 1..Len(Tail(q)) : Tail(q)[i] = q[i + 1]
  BY HeadTailProperties, LenProperties
<1> QED BY <1>1 DEF Sorted

-----------------------------------------------------------------------------
(* What steps leave alone *)

\* An actor that is not about to broadcast, and changes only its own call.
LEMMA OwnCall ==
    ASSUME call \in [Actors -> Call], NEW a \in Actors, call[a].pc # "wake",
           NEW k, call' = [call EXCEPT ![a] = k]
    PROVE  KeepsWakes
  BY DEF KeepsWakes

\* The calls that only read, or only write the period or their own locals.
LEMMA CallsKeep ==
    ASSUME TypeInv, NEW a \in Actors,
           \/ a \in Clients /\ AddStep(a)
           \/ Start(a) \/ Stop(a) \/ Period(a) \/ Change(a)
           \/ ChangePeriod(a) \/ ChangeStart(a) \/ ReadClock(a) \/ Forget(a)
    PROVE  /\ UNCHANGED <<node, threadFree>>
           /\ \A u \in Timers : SameSlot(u)
           /\ KeepsWakes
<1>1. call \in [Actors -> Call] /\ timer \in [Timers -> TimerNode]
  BY DEF TypeInv, TypeOK
<1>2. UNCHANGED <<node, threadFree>>
  BY DEF AddStep, AddRecord, AddStore, Start, StartSection, Stop, Period, Change,
         ChangePeriod, ChangeStart, ReadClock, Forget
<1>3. \E t, ms, ty :
            \/ timer' = timer
            \/ timer' = [timer EXCEPT ![t].millisec = ms]
            \/ timer' = [timer EXCEPT ![t].type = ty, ![t].millisec = ms]
  BY Zenon DEF AddStep, AddRecord, AddStore, Start, StartSection, Stop, Period, PeriodSection,
         Change, ChangePeriod, ChangeStart, ReadClock, Forget
<1>4. \A u \in Timers : SameSlot(u)
  BY <1>1, <1>3 DEF SameSlot, TimerNode
<1>5. call[a].pc # "wake"
  BY DEF AddStep, AddRecord, AddStore, Start, Stop, Period, Change, Calls,
         ChangePeriod, ChangeStart, ReadClock, Forget
<1>6. call' = call \/ \E k : call' = [call EXCEPT ![a] = k]
  BY DEF AddStep, AddRecord, AddStore, Start, StartSection, Stop, Period, Change, Goto, Return,
         ChangePeriod, ChangeStart, ReadClock, Forget
<1>7. KeepsWakes
  BY <1>1, <1>5, <1>6, OwnCall DEF KeepsWakes
<1> QED BY <1>2, <1>4, <1>7

\* The nodes once timer t is off its queue.
LEMMA UnlinkKeeps ==
    ASSUME TypeOK, NEW t \in Timers
    PROVE  \A n \in Nodes :
            /\ Unlinked(t)[n].queue = Without(node[n].queue, t)
            /\ Unlinked(t)[n].prio = node[n].prio
            /\ Unlinked(t)[n].pc = node[n].pc
            /\ Unlinked(t)[n].deadline = node[n].deadline
<1> SUFFICES ASSUME NEW n \in Nodes
             PROVE  /\ Unlinked(t)[n].queue = Without(node[n].queue, t)
                    /\ Unlinked(t)[n].prio = node[n].prio
                    /\ Unlinked(t)[n].pc = node[n].pc
                    /\ Unlinked(t)[n].deadline = node[n].deadline
  OBVIOUS
<1>1. Unlinked(t)[n] = [node[n] EXCEPT !.queue = Without(node[n].queue, t)]
  BY UnlinkedLemma DEF TypeOK
<1>2. node[n] \in ThreadNode
  BY DEF TypeOK
<1> QED BY <1>1, <1>2 DEF ThreadNode

-----------------------------------------------------------------------------
(* What the parts of the invariant need of a step *)

\* The broadcast that a waiting thread is owed is still owed.
LEMMA StillWakes ==
    ASSUME NEW n \in Nodes, WakesInTime(n), KeepsWakes,
           node'[n].pc = node[n].pc, node'[n].deadline = node[n].deadline,
           node'[n].queue # << >> =>
                node[n].queue # << >>
                /\ (node[n].deadline <= timer[Head(node[n].queue)].expiry =>
                     node[n].deadline <= timer'[Head(node'[n].queue)].expiry)
    PROVE  WakesInTime(n)'
  BY DEF WakesInTime, KeepsWakes

\* A step that takes no node's thread away and no slot's thread.
LEMMA ThreadsStay ==
    ASSUME OneThreadPerPrio, TypeOK, threadFree' = threadFree,
           \A n \in Nodes : /\ node'[n].prio = node[n].prio
                            /\ node'[n].pc = "none" <=> node[n].pc = "none",
           \A u \in Timers : timer'[u].inuse = "INUSE" =>
                timer[u].inuse = "INUSE" /\ timer'[u].thread = timer[u].thread
    PROVE  OneThreadPerPrio'
<1>1. \A i \in 1..Len(threadFree) : threadFree[i] \in Nodes
  BY ElementOfSeq DEF TypeOK
<1>2. FreeThreads'
  BY <1>1 DEF OneThreadPerPrio, FreeThreads, Distinct
<1>3. \A t \in Timers : timer[t].thread \in Nodes \cup {Null}
  BY DEF TypeOK, TimerNode
<1>4. \A t \in Timers : Valid(t)' =>
            timer'[t].thread # Null /\ node'[timer'[t].thread].pc # "none"
  BY <1>3 DEF OneThreadPerPrio, Valid
<1> QED BY <1>2, <1>4 DEF OneThreadPerPrio

\* A step that changes neither slots nor nodes, nor what is owed to waiting threads.
LEMMA QuietStep ==
    ASSUME TypeOK, ServiceInv, threadFree' = threadFree,
           \A u \in Timers : SameSlot(u), KeepsWakes,
           \A n \in Nodes :
                /\ node'[n].queue = node[n].queue /\ node'[n].prio = node[n].prio
                /\ SameNode(n) \/ node'[n].pc \notin Waiting
                /\ node'[n].pc = "none" <=> node[n].pc = "none"
    PROVE  ServiceInv'
<1>1. \A n \in Nodes : \A i \in 1..Len(node[n].queue) : node[n].queue[i] \in Timers
  BY QueueTypes, HeadLemma
<1>2. QueueSorted'
  BY <1>1 DEF ServiceInv, QueueSorted, SameSlot
<1>3. ASSUME NEW n \in Nodes PROVE WakesInTime(n)'
  <2>1. CASE node'[n].pc \notin Waiting
    BY <2>1 DEF WakesInTime
  <2>2. CASE SameNode(n)
    <3>1. WakesInTime(n)
      BY DEF ServiceInv, NoLostWakeup, WakesInTime, Waiting
    <3>2. node[n].queue # << >> => Head(node[n].queue) \in Timers
      BY QueueTypes, HeadLemma
    <3> QED BY <2>2, <3>1, <3>2, StillWakes DEF SameNode, SameSlot
  <2> QED BY <2>1, <2>2
<1>4. NoLostWakeup'
  BY <1>3 DEF NoLostWakeup, WakesInTime, Waiting
<1>5. \A t \in Timers : timer[t].thread \in Nodes \cup {Null}
  BY DEF TypeOK, TimerNode
<1>6. PeriodicQueued'
  BY <1>5 DEF ServiceInv, PeriodicQueued, OneThreadPerPrio, Valid, SameSlot
<1>7. OneThreadPerPrio'
  BY ThreadsStay DEF ServiceInv, SameSlot
<1> QED BY <1>2, <1>4, <1>6, <1>7 DEF ServiceInv

-----------------------------------------------------------------------------
(* Steps *)

\* The broadcast after an insertion at the head: the thread it was owed to runs.
LEMMA ServiceWakeup ==
    ASSUME TypeInv, ServiceInv, NEW a \in Actors, Wakeup(a)
    PROVE  ServiceInv'
<1> DEFINE m == call[a].thread
           cs == [call EXCEPT ![a] = Continue(a, TRUE)]
<1>1. TypeOK /\ node \in [Nodes -> ThreadNode] /\ call \in [Actors -> Call] /\ m \in Nodes
  BY DEF TypeInv, TypeOK, CallLocals, Wakeup
<1>2. /\ UNCHANGED <<clock, timer, timerFree, threadFree, id>>
      /\ node' = WakeNode(node, m) /\ call' = WakeDeleters(cs, m) /\ call[a].pc = "wake"
  BY DEF Wakeup
<1>3. cs \in [Actors -> Call]
  BY <1>1, ContinueLemma
<1> HIDE DEF m
<1>4. \A n \in Nodes :
        /\ node'[n].queue = node[n].queue /\ node'[n].prio = node[n].prio
        /\ node'[n].deadline = node[n].deadline
        /\ n # m => node'[n].pc = node[n].pc
        /\ n = m => node'[n].pc \notin Waiting
        /\ node'[n].pc = "none" <=> node[n].pc = "none"
  BY <1>1, <1>2 DEF WakeNode, ThreadNode, Waiting
<1>5. ASSUME NEW b \in Actors, call[b].pc = "wake", b # a
      PROVE  call'[b].pc = "wake" /\ call'[b].thread = call[b].thread
  <2>1. cs[b] = call[b]
    BY <1>1, <1>5
  <2> HIDE DEF cs
  <2> QED BY <1>2, <1>3, <1>5, <2>1, WakeDeletersLemma
<1>6. \A n \in Nodes : \A i \in 1..Len(node[n].queue) : node[n].queue[i] \in Timers
  BY <1>1, QueueTypes, HeadLemma
<1>7. QueueSorted'
  BY <1>2, <1>4 DEF ServiceInv, QueueSorted
<1>8. ASSUME NEW n \in Nodes PROVE WakesInTime(n)'
  <2>1. CASE n = m
    BY <1>4, <2>1 DEF WakesInTime
  <2>2. CASE n # m
    <3>1. WakesInTime(n)
      BY DEF ServiceInv, NoLostWakeup, WakesInTime, Waiting
    <3>2. /\ node'[n].pc = node[n].pc /\ node'[n].queue = node[n].queue
          /\ node'[n].deadline = node[n].deadline /\ timer' = timer
      BY <1>2, <1>4, <2>2
    <3>3. ASSUME NEW b \in Actors, call[b].pc = "wake", call[b].thread = n
          PROVE  call'[b].pc = "wake" /\ call'[b].thread = n
      <4>1. b # a
        BY <2>2, <3>3 DEF m
      <4> QED BY <1>5, <3>3, <4>1
    <3>4. (\E b \in Actors : call[b].pc = "wake" /\ call[b].thread = n)
            => \E b \in Actors : call'[b].pc = "wake" /\ call'[b].thread = n
      BY <3>3
    <3> QED BY <3>1, <3>2, <3>4 DEF WakesInTime
  <2> QED BY <2>1, <2>2
<1>9. NoLostWakeup'
  BY <1>8 DEF NoLostWakeup, WakesInTime, Waiting
<1>10. \A t \in Timers : timer[t].thread \in Nodes \cup {Null}
  BY <1>1 DEF TypeOK, TimerNode
<1>11. PeriodicQueued'
  BY <1>2, <1>4, <1>10 DEF ServiceInv, PeriodicQueued, OneThreadPerPrio, Valid
<1>12. OneThreadPerPrio'
  BY <1>1, <1>2, <1>4, ThreadsStay DEF ServiceInv
<1> QED BY <1>7, <1>9, <1>11, <1>12 DEF ServiceInv

\* A timer is taken off its queue because it is disarmed, deleted or free already.
LEMMA UnlinkService ==
    ASSUME TypeOK, ServiceInv, NEW t \in Timers, node' = Unlinked(t), KeepsWakes,
           threadFree' = threadFree, timer' \in [Timers -> TimerNode],
           \A u \in Timers : u # t => timer'[u] = timer[u],
           timer'[t].expiry = timer[t].expiry,
           timer'[t].inuse = "INUSE" =>
                timer[t].inuse = "INUSE" /\ timer'[t].thread = timer[t].thread
                /\ ~timer'[t].armed,
           ListInv
    PROVE  ServiceInv'
<1>1. \A n \in Nodes :
        /\ node'[n].queue = Without(node[n].queue, t)
        /\ node'[n].prio = node[n].prio
        /\ node'[n].pc = node[n].pc
        /\ node'[n].deadline = node[n].deadline
  BY UnlinkKeeps
<1>2. /\ timer \in [Timers -> TimerNode] /\ \A n \in Nodes : node[n].queue \in Seq(Timers)
      /\ \A n \in Nodes : \A i \in 1..Len(node[n].queue) : node[n].queue[i] \in Timers
  BY QueueTypes, HeadLemma DEF TypeOK
<1>3. \A u \in Timers : timer'[u].expiry = timer[u].expiry
  OBVIOUS
<1>4. ASSUME NEW n \in Nodes
      PROVE  /\ Sorted(node'[n].queue, timer)
             /\ node'[n].queue \in Seq(Timers)
             /\ node'[n].queue # << >> =>
                    /\ node[n].queue # << >>
                    /\ timer[Head(node[n].queue)].expiry <= timer[Head(node'[n].queue)].expiry
  <2>1. Sorted(node[n].queue, timer)
    BY DEF ServiceInv, QueueSorted, Sorted
  <2> QED BY <1>1, <1>2, <2>1, SortedWithout, WithoutLemma
<1>5. QueueSorted'
  <2>1. \A n \in Nodes : \A i \in 1..Len(node'[n].queue) : node'[n].queue[i] \in Timers
    BY <1>4, HeadLemma
  <2> QED BY <1>3, <1>4, <2>1 DEF QueueSorted, Sorted
<1>6. ASSUME NEW n \in Nodes PROVE WakesInTime(n)'
  <2>1. WakesInTime(n)
    BY DEF ServiceInv, NoLostWakeup, WakesInTime, Waiting
  <2>2. ASSUME node'[n].queue # << >>, node[n].deadline <= timer[Head(node[n].queue)].expiry
        PROVE  node[n].deadline <= timer'[Head(node'[n].queue)].expiry
    <3>1. /\ Head(node[n].queue) \in Timers /\ Head(node'[n].queue) \in Timers
          /\ node[n] \in ThreadNode
      BY <1>2, <1>4, <2>2, HeadLemma DEF TypeOK
    <3>2. node[n].deadline \in Nat /\ \A u \in Timers : timer[u].expiry \in Nat
      BY <1>2, <3>1 DEF ThreadNode, TimerNode
    <3> QED BY <1>3, <1>4, <2>2, <3>1, <3>2
  <2> QED BY <1>1, <1>4, <2>1, <2>2, StillWakes
<1>7. NoLostWakeup'
  BY <1>6 DEF NoLostWakeup, WakesInTime, Waiting
<1>8. \A u \in Timers : timer[u].thread \in Nodes \cup {Null}
  BY <1>2 DEF TimerNode
<1>9. ASSUME NEW u \in Timers, u # t, Valid(u), timer[u].armed, timer[u].interval # 0
      PROVE  u \in ToSet(node'[timer[u].thread].queue)
  <2>1. u \in ToSet(node[timer[u].thread].queue) /\ timer[u].thread \in Nodes
    BY <1>8, <1>9 DEF ServiceInv, PeriodicQueued, OneThreadPerPrio
  <2> QED BY <1>9, <2>1, UnlinkedSet
<1>10. PeriodicQueued'
  BY <1>9 DEF PeriodicQueued, Valid
<1>11. OneThreadPerPrio'
  BY <1>1, ThreadsStay DEF ServiceInv
<1> QED BY <1>5, <1>7, <1>10, <1>11 DEF ServiceInv

\* The timer is disarmed, or __timer_settime finds it deleted.
LEMMA ServiceDisarm ==
    ASSUME TypeInv, ListInv, ServiceInv, NEW a \in Actors,
           SettimeDisarm(a) \/ SettimeInvalid(a), TypeOK'
    PROVE  ServiceInv'
<1> DEFINE t == call[a].tid
<1>1. /\ TypeOK /\ t \in Timers /\ timer[t] \in TimerNode /\ timer \in [Timers -> TimerNode]
      /\ call \in [Actors -> Call] /\ timer' \in [Timers -> TimerNode]
  BY QueueTypes DEF SettimeDisarm, SettimeInvalid, TypeInv, TypeOK, CallLocals
<1>2. KeepsWakes /\ threadFree' = threadFree
  BY <1>1, OwnCall DEF SettimeDisarm, SettimeInvalid
<1>3. CASE SettimeDisarm(a)
  <2>1. /\ timer[t].inuse = "INUSE" /\ node' = Unlinked(t)
        /\ timer' = [timer EXCEPT ![t].interval = call[a].interval, ![t].armed = FALSE]
    BY <1>3 DEF SettimeDisarm, Valid
  <2>2. /\ \A u \in Timers : u # t => timer'[u] = timer[u]
        /\ timer'[t].expiry = timer[t].expiry /\ timer'[t].thread = timer[t].thread
        /\ ~timer'[t].armed
    BY <1>1, <2>1 DEF TimerNode
  <2> HIDE DEF t
  <2> QED BY <1>1, <1>2, <2>1, <2>2, UnlinkService
<1>4. CASE SettimeInvalid(a)
  <2>1. timer[t].inuse # "INUSE"
    BY <1>4 DEF SettimeInvalid, Valid
  <2>2. CASE timer[t].refcount = 0
    <3>1. timer' = [timer EXCEPT ![t] = Dealloc(@)] /\ node' = Unlinked(t)
      BY <1>4, <2>2 DEF SettimeInvalid
    <3>2. Dealloc(timer[t]).inuse = "FREE" /\ Dealloc(timer[t]).expiry = timer[t].expiry
      BY <1>1 DEF Dealloc, TimerNode
    <3>3. /\ \A u \in Timers : u # t => timer'[u] = timer[u]
          /\ timer'[t].expiry = timer[t].expiry /\ timer'[t].inuse # "INUSE"
      BY <1>1, <3>1, <3>2
    <3> HIDE DEF t
    <3> QED BY <1>1, <1>2, <3>1, <3>3, UnlinkService
  <2>3. CASE timer[t].refcount # 0
    <3>1. UNCHANGED <<timer, node>>
      BY <1>4, <2>3 DEF SettimeInvalid
    <3> QED BY <1>1, <1>2, <3>1, QuietStep DEF SameSlot, SameNode
  <2> QED BY <2>2, <2>3
<1> QED BY <1>3, <1>4

\* os_timer_del waits, or takes the timer off its queue.
LEMMA ServiceDelete ==
    ASSUME TypeInv, ListInv, ServiceInv, NEW a \in Actors,
           Delete(a) \/ DeleteResume(a), TypeOK'
    PROVE  ServiceInv'
<1>1. /\ TypeOK /\ timer \in [Timers -> TimerNode] /\ call \in [Actors -> Call]
      /\ timer' \in [Timers -> TimerNode]
  BY DEF TypeInv, TypeOK
<1>2. call' = call \/ \E k : call' = [call EXCEPT ![a] = k]
  BY DEF Delete, DeleteResume, DeleteFinish, DeleteWait, Goto
<1>3. KeepsWakes /\ threadFree' = threadFree
  <2>1. call[a].pc # "wake"
    BY DEF Delete, DeleteResume, Calls
  <2> QED BY <1>1, <1>2, <2>1, OwnCall DEF Delete, DeleteResume, KeepsWakes
<1>4. ASSUME UNCHANGED <<timer, node>> PROVE ServiceInv'
  BY <1>1, <1>3, <1>4, QuietStep DEF SameSlot, SameNode
<1>5. ASSUME NEW t \in Timers, DeleteFinish(a, t) PROVE ServiceInv'
  <2>1. timer' = [timer EXCEPT ![t] = Deleted(@)] /\ node' = Unlinked(t)
    BY <1>5 DEF DeleteFinish
  <2>2. Deleted(timer[t]).inuse # "INUSE" /\ Deleted(timer[t]).expiry = timer[t].expiry
    <3>1. timer[t] \in TimerNode
      BY <1>1
    <3>2. Deleted(timer[t]).inuse # "INUSE"
      BY <3>1, DeletedLemma
    <3>3. Deleted(timer[t]).expiry = timer[t].expiry
      BY <3>1 DEF Deleted, Dealloc, TimerNode
    <3> QED BY <3>2, <3>3
  <2>3. /\ \A u \in Timers : u # t => timer'[u] = timer[u]
        /\ timer'[t].expiry = timer[t].expiry /\ timer'[t].inuse # "INUSE"
    BY <1>1, <2>1, <2>2
  <2> QED BY <1>1, <1>3, <2>1, <2>3, UnlinkService
<1>6. CASE Delete(a)
  <2>1. id[Owner(a)] \in Timers
    BY <1>6, CallerLemma DEF Delete, Ops
  <2> QED BY <1>4, <1>5, <1>6, <2>1 DEF Delete, DeleteWait
<1>7. CASE DeleteResume(a)
  <2>1. call[a].tid \in Timers
    BY <1>7 DEF DeleteResume, TypeInv, CallLocals
  <2> QED BY <1>4, <1>5, <1>7, <2>1 DEF DeleteResume, DeleteWait
<1> QED BY <1>6, <1>7

\* A timer is queued.  When it became the head of the queue a broadcast follows;
\* when it did not, the head is the one the thread already knows.
LEMMA ServiceArm ==
    ASSUME TypeInv, ListInv, ServiceInv, NEW a \in Actors, SettimeArm(a), TypeOK'
    PROVE  ServiceInv'
<1> DEFINE t == call[a].tid
           n == timer[t].thread
           expiry == call[a].now + call[a].value
           q == Without(node[n].queue, t)
           pos == QueuePos(q, timer, expiry)
           w == InsertAt(q, pos, t)
           k == IF NeedsWakeup(q, pos) THEN [call[a] EXCEPT !.pc = "wake", !.thread = n]
                ELSE Continue(a, TRUE)
<1>1. /\ TypeOK /\ t \in Timers /\ timer[t] \in TimerNode /\ timer \in [Timers -> TimerNode]
      /\ call \in [Actors -> Call] /\ call[a] \in Call /\ timer' \in [Timers -> TimerNode]
      /\ node \in [Nodes -> ThreadNode] /\ node' \in [Nodes -> ThreadNode]
  BY QueueTypes DEF SettimeArm, TypeInv, TypeOK, CallLocals
<1>2. /\ timer[t].inuse = "INUSE" /\ threadFree' = threadFree /\ call[a].pc = "settime"
      /\ timer' = [timer EXCEPT ![t].interval = call[a].interval,
                                ![t].armed = TRUE, ![t].expiry = expiry]
      /\ node' = [Unlinked(t) EXCEPT ![n].queue = w]
      /\ call' = [call EXCEPT ![a] = k]
  BY DEF SettimeArm, Valid
<1>3. /\ \A u \in Timers : u # t => timer'[u] = timer[u]
      /\ timer'[t].inuse = "INUSE" /\ timer'[t].thread = n /\ timer'[t].expiry = expiry
  BY <1>1, <1>2 DEF TimerNode
<1>4. n \in Nodes /\ expiry \in Nat
  BY <1>1, <1>2 DEF TypeInv, HandlersKnown, Call
<1>5. KeepsWakes
  <2> HIDE DEF k
  <2> QED BY <1>1, <1>2, OwnCall
<1>6. pos = 1 => call'[a].pc = "wake" /\ call'[a].thread = n
  <2>1. pos = 1 => k.pc = "wake" /\ k.thread = n
    BY <1>1 DEF NeedsWakeup, Call
  <2> HIDE DEF k, pos
  <2> QED BY <1>1, <1>2, <2>1
<1> HIDE DEF k
<1>7. /\ \A m \in Nodes : /\ node[m].queue \in Seq(Timers)
                           /\ Without(node[m].queue, t) \in Seq(Timers)
                           /\ Sorted(node[m].queue, timer)
                           /\ Sorted(Without(node[m].queue, t), timer)
                           /\ t \notin ToSet(Without(node[m].queue, t))
                           /\ ToSet(Without(node[m].queue, t)) = ToSet(node[m].queue) \ {t}
  <2> SUFFICES ASSUME NEW m \in Nodes
               PROVE  /\ node[m].queue \in Seq(Timers)
                      /\ Without(node[m].queue, t) \in Seq(Timers)
                      /\ Sorted(node[m].queue, timer)
                      /\ Sorted(Without(node[m].queue, t), timer)
                      /\ ToSet(Without(node[m].queue, t)) = ToSet(node[m].queue) \ {t}
    OBVIOUS
  <2> HIDE DEF t
  <2>1. node[m].queue \in Seq(Timers) /\ Distinct(node[m].queue)
    BY <1>1, QueueTypes DEF ListInv, ListsExact
  <2>2. Sorted(node[m].queue, timer)
    BY DEF ServiceInv, QueueSorted, Sorted
  <2> QED BY <1>1, <2>1, <2>2, SortedWithout, WithoutLemma, WithoutSet
<1>8. \A m \in Nodes : \A i \in 1..Len(Without(node[m].queue, t)) :
            timer'[Without(node[m].queue, t)[i]].expiry = timer[Without(node[m].queue, t)[i]].expiry
  <2> SUFFICES ASSUME NEW m \in Nodes, NEW i \in 1..Len(Without(node[m].queue, t))
               PROVE  Without(node[m].queue, t)[i] \in Timers \ {t}
    BY <1>3
  <2> DEFINE v == Without(node[m].queue, t)
  <2>1. v \in Seq(Timers) /\ t \notin ToSet(v)
    BY <1>7
  <2> HIDE DEF v, t
  <2>2. ASSUME NEW j \in 1..Len(v) PROVE v[j] \in Timers \ {t}
    BY <2>1, <2>2, HeadLemma, ToSetLemma
  <2> QED BY <2>2 DEF v
<1>9. /\ node'[n].queue = w
      /\ \A m \in Nodes : m # n => node'[m].queue = Without(node[m].queue, t)
      /\ \A m \in Nodes : /\ node'[m].prio = node[m].prio
                          /\ node'[m].pc = node[m].pc
                          /\ node'[m].deadline = node[m].deadline
  <2> DEFINE U == Unlinked(t)
  <2>1. \A m \in Nodes : U[m].queue = Without(node[m].queue, t) /\ U[m].prio = node[m].prio
                         /\ U[m].pc = node[m].pc /\ U[m].deadline = node[m].deadline
    BY <1>1, UnlinkKeeps
  <2>2. U \in [Nodes -> ThreadNode] /\ node' = [U EXCEPT ![n].queue = w]
    BY <1>1, <1>2, UnlinkedLemma
  <2>3. U[n] \in ThreadNode
    BY <1>4, <2>2
  <2> HIDE DEF U, w, n, t
  <2> QED BY <1>4, <2>1, <2>2, <2>3 DEF ThreadNode
<1>10. q \in Seq(Timers) /\ Sorted(q, timer)
       /\ \A i \in 1..Len(q) : timer'[q[i]].expiry = timer[q[i]].expiry
  BY <1>4, <1>7, <1>8
<1>11. /\ Sorted(w, timer') /\ w # << >>
       /\ pos # 1 => q # << >> /\ Head(w) = Head(q)
  <2> HIDE DEF q, n, expiry, t
  <2> QED BY <1>1, <1>3, <1>4, <1>10, SortedInsert
<1>12. QueueSorted'
  <2>1. ASSUME NEW m \in Nodes PROVE Sorted(node'[m].queue, timer')
    <3>1. CASE m = n
      BY <1>9, <1>11, <3>1
    <3>2. CASE m # n
      <4> DEFINE v == Without(node[m].queue, t)
      <4>1. /\ Sorted(v, timer) /\ node'[m].queue = v
            /\ \A i \in 1..Len(v) : timer'[v[i]].expiry = timer[v[i]].expiry
        BY <1>7, <1>8, <1>9, <3>2
      <4> HIDE DEF v
      <4> QED BY <4>1 DEF Sorted
    <3> QED BY <3>1, <3>2
  <2> QED BY <2>1 DEF QueueSorted, Sorted
<1>13. ASSUME NEW m \in Nodes PROVE WakesInTime(m)'
  <2> DEFINE v == Without(node[m].queue, t)
  <2>1. WakesInTime(m)
    BY DEF ServiceInv, NoLostWakeup, WakesInTime, Waiting
  <2>2. v # << >> =>
            /\ node[m].queue # << >>
            /\ timer[Head(node[m].queue)].expiry <= timer[Head(v)].expiry
    BY <1>1, <1>7, SortedWithout
  <2>3. v # << >> => timer'[Head(v)].expiry = timer[Head(v)].expiry /\ Head(v) \in Timers
    BY <1>7, <1>8, HeadLemma
  <2>4. node[m].queue # << >> => Head(node[m].queue) \in Timers
    BY <1>7, HeadLemma
  <2>5. node[m].deadline \in Nat /\ \A u \in Timers : timer[u].expiry \in Nat
    BY <1>1 DEF ThreadNode, TimerNode
  <2>6. CASE m = n /\ pos = 1
    BY <1>6, <2>6 DEF WakesInTime
  <2>7. CASE m # n \/ pos # 1
    <3>1. node'[m].queue # << >> => v # << >> /\ Head(node'[m].queue) = Head(v)
      BY <1>9, <1>11, <2>7
    <3> HIDE DEF v
    <3> QED BY <1>5, <1>9, <2>1, <2>2, <2>3, <2>4, <2>5, <3>1, StillWakes
  <2> QED BY <2>6, <2>7
<1>14. NoLostWakeup'
  BY <1>13 DEF NoLostWakeup, WakesInTime, Waiting
<1>15. ToSet(w) = ToSet(q) \cup {t}
  <2>1. Distinct(q) /\ t \notin ToSet(q)
    BY <1>1, <1>4, <1>7, WithoutSet DEF ListInv, ListsExact
  <2>2. pos \in 1..(Len(q) + 1)
    BY <1>1, <1>4, <1>10, QueuePosLemma
  <2> HIDE DEF q, pos, t
  <2> QED BY <1>1, <1>10, <2>1, <2>2, InsertSet
<1>16. ASSUME NEW u \in Timers, Valid(u)', timer'[u].armed, timer'[u].interval # 0
       PROVE  u \in ToSet(node'[timer'[u].thread].queue)
  <2>1. CASE u = t
    BY <1>3, <1>9, <1>15, <2>1
  <2>2. CASE u # t
    <3>1. timer'[u] = timer[u]
      BY <1>3, <2>2
    <3>2. u \in ToSet(node[timer[u].thread].queue) /\ timer[u].thread \in Nodes
      BY <1>1, <1>16, <3>1 DEF ServiceInv, PeriodicQueued, OneThreadPerPrio, Valid, TimerNode
    <3>3. u \in ToSet(Without(node[timer[u].thread].queue, t))
      BY <1>7, <2>2, <3>2
    <3>4. timer[u].thread = n => ToSet(w) = ToSet(Without(node[timer[u].thread].queue, t)) \cup {t}
      BY <1>15
    <3> HIDE DEF w, t, n
    <3> QED BY <1>9, <3>1, <3>2, <3>3, <3>4
  <2> QED BY <2>1, <2>2
<1>17. PeriodicQueued'
  BY <1>16 DEF PeriodicQueued
<1>18. OneThreadPerPrio'
  BY <1>1, <1>2, <1>3, <1>9, ThreadsStay DEF ServiceInv
<1> QED BY <1>12, <1>14, <1>17, <1>18 DEF ServiceInv

\* os_timer_add: the thread that serves the new timer's priority is found, or one
\* is made of a node that has none.
LEMMA ServiceAdd ==
    ASSUME TypeInv, ListInv, ServiceInv, NEW c \in Clients, Add(c), TypeOK'
    PROVE  ServiceInv'
<1> DEFINE t == Head(timerFree)
<1>1. /\ TypeOK /\ timerFree # << >> /\ timerFree \in Seq(Timers) /\ Distinct(timerFree)
      /\ timer \in [Timers -> TimerNode] /\ node \in [Nodes -> ThreadNode]
      /\ threadFree \in Seq(Nodes) /\ c \in Actors /\ call \in [Actors -> Call]
      /\ call[c].pc # "wake"
  BY QueueTypes DEF TypeInv, TypeOK, Add, ListInv, ListsExact, Actors
<1>2. t \in Timers /\ t \in ToSet(timerFree)
  BY <1>1, TailSet
<1> HIDE DEF t
<1>3. timer[t].inuse = "FREE" /\ timer[t] \in TimerNode
  BY <1>1, <1>2 DEF ListInv, ListsExact
<1>4. \A m \in Nodes : \A i \in 1..Len(node[m].queue) : node[m].queue[i] \in Timers \ {t}
  <2> SUFFICES ASSUME NEW m \in Nodes, NEW i \in 1..Len(node[m].queue)
               PROVE  node[m].queue[i] \in Timers \ {t}
    OBVIOUS
  <2>1. node[m].queue \in Seq(Timers) /\ t \notin ToSet(node[m].queue)
    BY <1>1, <1>2, <1>3, QueueTypes, NotQueued
  <2> QED BY <2>1, HeadLemma, ToSetLemma
<1>5. ASSUME NEW n \in Nodes, timer' = [timer EXCEPT ![t] = Created(@, c, n)]
      PROVE  /\ \A u \in Timers : u # t => timer'[u] = timer[u]
             /\ timer'[t].inuse = "INUSE" /\ timer'[t].thread = n /\ ~timer'[t].armed
  BY <1>1, <1>2, <1>3, <1>5 DEF Created, TimerNode
<1>6. ASSUME NEW k, call' = [call EXCEPT ![c] = k] PROVE KeepsWakes
  BY <1>1, <1>6, OwnCall
<1>7. ASSUME KeepsWakes, \A u \in Timers : u # t => timer'[u] = timer[u],
             timer'[t].inuse = "INUSE" => ~timer'[t].armed,
             \A m \in Nodes :
                \/ node'[m] = node[m]
                \/ /\ node[m].pc = "none"
                   /\ node'[m].queue = << >> /\ node'[m].pc \notin Waiting,
             OneThreadPerPrio'
      PROVE  ServiceInv'
  <2>1. QueueSorted'
    <3> SUFFICES ASSUME NEW m \in Nodes, NEW i \in 1..Len(node'[m].queue),
                        NEW j \in 1..Len(node'[m].queue), i < j
                 PROVE  timer'[node'[m].queue[i]].expiry <= timer'[node'[m].queue[j]].expiry
      BY DEF QueueSorted
    <3>1. Len(<< >>) = 0
      BY EmptySeq
    <3>2. node'[m] = node[m]
      BY <1>7, <3>1
    <3> QED BY <1>4, <1>7, <3>2 DEF ServiceInv, QueueSorted
  <2>2. ASSUME NEW m \in Nodes PROVE WakesInTime(m)'
    <3>1. WakesInTime(m)
      BY DEF ServiceInv, NoLostWakeup, WakesInTime, Waiting
    <3>2. node[m].queue # << >> => Head(node[m].queue) \in Timers \ {t}
      BY <1>1, <1>4, QueueTypes, HeadLemma
    <3>3. CASE node'[m].pc \notin Waiting
      BY <3>3 DEF WakesInTime
    <3>4. CASE node'[m] = node[m]
      BY <1>7, <3>1, <3>2, <3>4, StillWakes
    <3> QED BY <1>7, <3>3, <3>4
  <2>3. NoLostWakeup'
    BY <2>2 DEF NoLostWakeup, WakesInTime, Waiting
  <2>4. PeriodicQueued'
    <3> SUFFICES ASSUME NEW u \in Timers, Valid(u)', timer'[u].armed, timer'[u].interval # 0
                 PROVE  u \in ToSet(node'[timer'[u].thread].queue)
      BY DEF PeriodicQueued
    <3>1. u # t /\ timer'[u] = timer[u]
      BY <1>7 DEF Valid
    <3>2. /\ timer[u].thread \in Nodes /\ node[timer[u].thread].pc # "none"
          /\ u \in ToSet(node[timer[u].thread].queue)
      BY <1>1, <3>1 DEF ServiceInv, PeriodicQueued, OneThreadPerPrio, Valid, TimerNode
    <3> QED BY <1>7, <3>1, <3>2
  <2> QED BY <1>7, <2>1, <2>3, <2>4 DEF ServiceInv
<1>8. ASSUME NEW p \in Prios, CreateOnThread(c, p) PROVE ServiceInv'
  <2>1. PICK n \in Matching(p) :
            /\ timer' = [timer EXCEPT ![t] = Created(@, c, n)]
            /\ UNCHANGED <<node, threadFree>>
            /\ \E k : call' = [call EXCEPT ![c] = k]
    BY <1>8 DEF CreateOnThread, t
  <2>2. n \in Nodes /\ node[n].pc # "none"
    BY DEF Matching
  <2>3. OneThreadPerPrio'
    <3>1. FreeThreads' /\ n # Null
      BY <2>1, <2>2 DEF ServiceInv, OneThreadPerPrio, FreeThreads, Distinct, Null, Nodes
    <3>2. \A u \in Timers : Valid(u)' =>
                timer'[u].thread # Null /\ node'[timer'[u].thread].pc # "none"
      BY <1>5, <2>1, <2>2, <3>1 DEF ServiceInv, OneThreadPerPrio, Valid
    <3> QED BY <2>1, <3>1, <3>2 DEF ServiceInv, OneThreadPerPrio
  <2> QED BY <1>5, <1>6, <1>7, <2>1, <2>2, <2>3
<1>9. ASSUME NEW p \in Prios, CreateAndSpawn(c, p) PROVE ServiceInv'
  <2> DEFINE n == Head(threadFree)
             new == [NewThread EXCEPT !.prio = p, !.pc = "run"]
  <2>1. /\ Matching(p) = {} /\ threadFree # << >>
        /\ timer' = [timer EXCEPT ![t] = Created(@, c, n)]
        /\ node' = [node EXCEPT ![n] = new] /\ threadFree' = Tail(threadFree)
        /\ \E k : call' = [call EXCEPT ![c] = k]
    BY <1>9 DEF CreateAndSpawn, t
  <2>2. Distinct(threadFree)
    BY DEF ServiceInv, OneThreadPerPrio, FreeThreads
  <2>3. /\ n \in Nodes /\ n \in ToSet(threadFree) /\ Tail(threadFree) \in Seq(Nodes)
        /\ Distinct(Tail(threadFree)) /\ ToSet(Tail(threadFree)) = ToSet(threadFree) \ {n}
    BY <1>1, <2>1, <2>2, TailSet
  <2>4. \A m \in Nodes : node[m].pc = "none" <=> m \in ToSet(threadFree)
    BY <1>1, ToSetLemma DEF ServiceInv, OneThreadPerPrio, FreeThreads
  <2>5. new.prio = p /\ new.pc = "run" /\ new.queue = << >>
    BY DEF NewThread
  <2> HIDE DEF n, new
  <2>6. node'[n] = new /\ \A m \in Nodes : m # n => node'[m] = node[m]
    BY <1>1, <2>1, <2>3
  <2>7. \A m \in Nodes : node'[m].pc = "none" <=> m \in ToSet(threadFree')
    BY <2>1, <2>3, <2>4, <2>5, <2>6
  <2>8. FreeThreads'
    <3>1. \A i \in 1..Len(threadFree') : threadFree'[i] \in Nodes /\ threadFree'[i] \in ToSet(threadFree')
      BY <2>1, <2>3, ElementOfSeq, ToSetLemma
    <3> QED BY <2>1, <2>3, <2>7, <3>1 DEF FreeThreads
  <2>9. \A l, m \in Nodes :
            (node'[l].pc # "none" /\ node'[m].pc # "none" /\ node'[l].prio = node'[m].prio) => l = m
    BY <2>1, <2>5, <2>6 DEF ServiceInv, OneThreadPerPrio, Matching
  <2>10. \A u \in Timers : Valid(u)' =>
                timer'[u].thread # Null /\ node'[timer'[u].thread].pc # "none"
    <3>1. n # Null
      BY <2>3 DEF Null, Nodes
    <3>2. \A u \in Timers : timer[u].thread \in Nodes \cup {Null}
      BY <1>1 DEF TimerNode
    <3>3. /\ \A u \in Timers : u # t => timer'[u] = timer[u]
          /\ timer'[t].thread = n
      BY <1>5, <2>1, <2>3
    <3>4. node'[n].pc # "none"
      BY <2>5, <2>6
    <3>5. ASSUME NEW u \in Timers, u # t, Valid(u)
          PROVE  timer[u].thread # Null /\ node'[timer[u].thread].pc # "none"
      <4>1. /\ timer[u].thread # Null /\ node[timer[u].thread].pc # "none"
            /\ timer[u].thread \in Nodes
        BY <3>2, <3>5 DEF ServiceInv, OneThreadPerPrio
      <4> QED BY <2>6, <3>4, <4>1
    <3> QED BY <3>1, <3>3, <3>4, <3>5 DEF Valid
  <2>11. OneThreadPerPrio'
    BY <2>7, <2>8, <2>9, <2>10 DEF OneThreadPerPrio
  <2>12. \A m \in Nodes :
            \/ node'[m] = node[m]
            \/ node[m].pc = "none" /\ node'[m].queue = << >> /\ node'[m].pc \notin Waiting
    BY <2>3, <2>4, <2>5, <2>6 DEF Waiting
  <2> QED BY <1>5, <1>6, <1>7, <2>1, <2>3, <2>11, <2>12
<1>10. ASSUME NEW p \in Prios, CreateBails(c, p) PROVE ServiceInv'
  <2>1. /\ timer' = [timer EXCEPT ![t] = Dealloc([timer[t] EXCEPT !.event = c])]
        /\ UNCHANGED <<node, call>>
        /\ threadFree' = IF threadFree = << >> THEN << >>
                         ELSE Append(Tail(threadFree), Head(threadFree))
    BY <1>10 DEF CreateBails, t
  <2>2. /\ \A u \in Timers : u # t => timer'[u] = timer[u]
        /\ timer'[t].inuse = "FREE"
    BY <1>1, <1>2, <1>3, <2>1, SlotRecords
  <2>3. KeepsWakes
    BY <2>1 DEF KeepsWakes
  <2>4. /\ threadFree' \in Seq(Nodes) /\ Distinct(threadFree')
        /\ ToSet(threadFree') = ToSet(threadFree)
    <3>1. CASE threadFree = << >>
      BY <1>1, <2>1, <3>1 DEF ServiceInv, OneThreadPerPrio, FreeThreads
    <3>2. CASE threadFree # << >>
      <4> DEFINE n == Head(threadFree)
                 f == Tail(threadFree)
      <4>1. Distinct(threadFree)
        BY DEF ServiceInv, OneThreadPerPrio, FreeThreads
      <4>2. /\ n \in Nodes /\ n \in ToSet(threadFree) /\ f \in Seq(Nodes)
            /\ Distinct(f) /\ ToSet(f) = ToSet(threadFree) \ {n}
        BY <1>1, <3>2, <4>1, TailSet
      <4>3. threadFree' = Append(f, n)
        BY <2>1, <3>2
      <4> HIDE DEF n, f
      <4>4. /\ Append(f, n) \in Seq(Nodes) /\ Distinct(Append(f, n))
            /\ ToSet(Append(f, n)) = ToSet(f) \cup {n}
        BY <4>2, AppendSet
      <4> QED BY <4>2, <4>3, <4>4
    <3> QED BY <3>1, <3>2
  <2>5. OneThreadPerPrio'
    <3>1. \A i \in 1..Len(threadFree') : threadFree'[i] \in ToSet(threadFree)
      BY <2>4, ToSetLemma
    <3>2. \A m \in ToSet(threadFree) : node[m].pc = "none"
      BY <1>1, ToSetLemma DEF ServiceInv, OneThreadPerPrio, FreeThreads
    <3>3. FreeThreads'
      BY <2>1, <2>4, <3>1, <3>2 DEF FreeThreads
    <3>4. \A u \in Timers : Valid(u)' =>
                timer'[u].thread # Null /\ node'[timer'[u].thread].pc # "none"
      BY <2>1, <2>2 DEF ServiceInv, OneThreadPerPrio, Valid
    <3> QED BY <2>1, <2>4, <3>3, <3>4 DEF ServiceInv, OneThreadPerPrio
  <2> QED BY <1>7, <2>1, <2>2, <2>3, <2>5
<1> QED BY <1>8, <1>9, <1>10 DEF Add

\* The queue after its head fired is sorted, and a periodic timer is on it again.
LEMMA SortedRequeued ==
    ASSUME NEW q \in Seq(Timers), q # << >>, Distinct(q), Sorted(q, timer),
           NEW tm \in [Timers -> TimerNode],
           \A u \in Timers : u # Head(q) => tm[u] = timer[u],
           timer \in [Timers -> TimerNode]
    PROVE  LET w == Requeued(q, tm, Head(q))
           IN  /\ Sorted(w, tm)
               /\ ToSet(q) \ {Head(q)} \subseteq ToSet(w)
               /\ tm[Head(q)].interval # 0 => Head(q) \in ToSet(w)
<1> DEFINE t == Head(q)
           v == Tail(q)
           e == tm[t].expiry
           pos == QueuePos(v, tm, e)
<1>1. /\ v \in Seq(Timers) /\ t \in Timers /\ Distinct(v) /\ ToSet(v) = ToSet(q) \ {t}
  BY TailSet
<1>2. e \in Nat
  BY <1>1 DEF TimerNode
<1>3. Sorted(v, timer)
  BY SortedTail
<1>4. Requeued(q, tm, t) = IF tm[t].interval = 0 THEN v ELSE InsertAt(v, pos, t)
  BY DEF Requeued
<1> HIDE DEF v, t
<1>5. \A i \in 1..Len(v) : v[i] \in Timers \ {t}
  BY <1>1, HeadLemma, ToSetLemma
<1>6. Sorted(v, tm)
  BY <1>3, <1>5 DEF Sorted, t
<1>7. pos \in 1..(Len(v) + 1)
  BY <1>1, <1>2, QueuePosLemma
<1>8. ToSet(InsertAt(v, pos, t)) = ToSet(v) \cup {t}
  <2> HIDE DEF pos
  <2> QED BY <1>1, <1>7, InsertSet
<1>9. Sorted(InsertAt(v, pos, t), tm)
  BY <1>1, <1>2, <1>6, SortedInsert
<1> HIDE DEF pos
<1> QED BY <1>1, <1>4, <1>6, <1>8, <1>9 DEF t

\* The head of a queue is taken as due.
LEMMA ServiceDue ==
    ASSUME TypeInv, ListInv, ServiceInv, NEW n \in Nodes, NEW now \in Nat,
           node[n].pc # "none", ServeDue(n, now), threadFree' = threadFree, KeepsWakes
    PROVE  ServiceInv'
<1> DEFINE q == node[n].queue
           t == Head(q)
           tm == [timer EXCEPT ![t] = Fired(@, now)]
           w == Requeued(q, tm, t)
<1>1. /\ TypeOK /\ node \in [Nodes -> ThreadNode] /\ timer \in [Timers -> TimerNode]
      /\ node[n] \in ThreadNode /\ q \in Seq(Timers) /\ Distinct(q) /\ Sorted(q, timer)
  BY QueueTypes DEF TypeInv, TypeOK, ListInv, ListsExact, ServiceInv, QueueSorted, Sorted
<1>2. /\ q # << >> /\ timer' = tm
      /\ node' = [node EXCEPT ![n].queue = w, ![n].current = t, ![n].owner = Null,
                              ![n].pc = "call", ![n].now = now]
  BY DEF ServeDue
<1>3. t \in Timers /\ t \in ToSet(q)
  BY <1>1, <1>2, TailSet
<1>4. timer[t].thread = n
  BY <1>3 DEF ListInv, ListsExact
<1>5. /\ Fired(timer[t], now) \in TimerNode
      /\ Fired(timer[t], now).inuse = timer[t].inuse
      /\ Fired(timer[t], now).thread = timer[t].thread
  BY <1>1, <1>3, FiredLemma
<1>6. /\ tm \in [Timers -> TimerNode]
      /\ \A u \in Timers : u # t => tm[u] = timer[u]
      /\ tm[t] = Fired(timer[t], now)
  BY <1>1, <1>3, <1>5
<1>7. /\ Sorted(w, tm)
      /\ ToSet(q) \ {t} \subseteq ToSet(w)
      /\ tm[t].interval # 0 => t \in ToSet(w)
  BY <1>1, <1>2, <1>6, SortedRequeued
<1>8. /\ node'[n].queue = w /\ node'[n].pc = "call" /\ node'[n].prio = node[n].prio
      /\ \A m \in Nodes : m # n => node'[m] = node[m]
  <2> HIDE DEF w, t
  <2> QED BY <1>1, <1>2 DEF ThreadNode
<1> HIDE DEF w, tm, t, q
<1>9. ASSUME NEW m \in Nodes, m # n
      PROVE  \A i \in 1..Len(node[m].queue) : node[m].queue[i] \in Timers \ {t}
  <2>1. node[m].queue \in Seq(Timers) /\ t \notin ToSet(node[m].queue)
    BY <1>1, <1>4, <1>9, QueueTypes DEF ListInv, ListsExact
  <2> QED BY <2>1, HeadLemma, ToSetLemma
<1>10. QueueSorted'
  <2>1. ASSUME NEW m \in Nodes PROVE Sorted(node'[m].queue, timer')
    <3>1. CASE m = n
      BY <1>2, <1>7, <1>8, <3>1
    <3>2. CASE m # n
      <4> DEFINE v == node[m].queue
      <4>1. Sorted(v, timer) /\ node'[m].queue = v
        BY <1>8, <3>2 DEF ServiceInv, QueueSorted, Sorted
      <4>2. \A i \in 1..Len(v) : timer'[v[i]] = timer[v[i]]
        BY <1>2, <1>6, <1>9, <3>2
      <4> HIDE DEF v
      <4> QED BY <4>1, <4>2 DEF Sorted
    <3> QED BY <3>1, <3>2
  <2> QED BY <2>1 DEF QueueSorted, Sorted
<1>11. ASSUME NEW m \in Nodes PROVE WakesInTime(m)'
  <2>1. CASE m = n
    BY <1>8, <2>1 DEF WakesInTime, Waiting
  <2>2. CASE m # n
    <3>1. WakesInTime(m)
      BY DEF ServiceInv, NoLostWakeup, WakesInTime, Waiting
    <3>2. node[m].queue # << >> => Head(node[m].queue) \in Timers \ {t}
      BY <1>1, <1>9, <2>2, QueueTypes, HeadLemma
    <3> QED BY <1>2, <1>6, <1>8, <2>2, <3>1, <3>2, StillWakes
  <2> QED BY <2>1, <2>2
<1>12. NoLostWakeup'
  BY <1>11 DEF NoLostWakeup, WakesInTime, Waiting
<1>13. PeriodicQueued'
  <2> SUFFICES ASSUME NEW u \in Timers, Valid(u)', timer'[u].armed, timer'[u].interval # 0
               PROVE  u \in ToSet(node'[timer'[u].thread].queue)
    BY DEF PeriodicQueued
  <2>1. CASE u = t
    <3>1. timer'[t].thread = n /\ tm[t].interval # 0
      BY <1>2, <1>4, <1>5, <1>6, <2>1
    <3> QED BY <1>7, <1>8, <2>1, <3>1
  <2>2. CASE u # t
    <3>1. timer'[u] = timer[u]
      BY <1>2, <1>6, <2>2
    <3>2. u \in ToSet(node[timer[u].thread].queue) /\ timer[u].thread \in Nodes
      BY <1>1, <3>1 DEF ServiceInv, PeriodicQueued, OneThreadPerPrio, Valid, TimerNode
    <3> QED BY <1>7, <1>8, <2>2, <3>1, <3>2 DEF q
  <2> QED BY <2>1, <2>2
<1>14. OneThreadPerPrio'
  BY <1>1, <1>2, <1>5, <1>6, <1>8, ThreadsStay DEF ServiceInv
<1> QED BY <1>10, <1>12, <1>13, <1>14 DEF ServiceInv

\* Nothing is due: the thread sleeps no longer than to the expiry of its first timer.
LEMMA ServiceSleep ==
    ASSUME TypeInv, ServiceInv, NEW n \in Nodes, NEW now \in Nat,
           node[n].pc # "none", ServeWait(n, now), threadFree' = threadFree, KeepsWakes
    PROVE  ServiceInv'
<1>1. /\ TypeOK /\ node \in [Nodes -> ThreadNode] /\ node[n] \in ThreadNode
      /\ timer' = timer /\ timer \in [Timers -> TimerNode]
  BY DEF TypeInv, TypeOK, ServeWait
<1>2. /\ \A m \in Nodes : m # n => node'[m] = node[m]
      /\ node'[n].queue = node[n].queue /\ node'[n].prio = node[n].prio
      /\ node'[n].pc \in Waiting
      /\ node[n].queue # << >> => /\ node'[n].pc = "timedwait"
                                  /\ node'[n].deadline = timer[Head(node[n].queue)].expiry
  <2>1. CASE node[n].queue = << >>
    BY <1>1, <2>1 DEF ServeWait, ThreadNode, Waiting
  <2>2. CASE node[n].queue # << >>
    <3> DEFINE e == timer[Head(node[n].queue)].expiry
    <3>1. node' = [node EXCEPT ![n].current = Null, ![n].owner = Null,
                               ![n].pc = "timedwait", ![n].now = 0, ![n].deadline = e]
      BY <2>2 DEF ServeWait
    <3> HIDE DEF e
    <3>2. node'[n].deadline = e /\ node'[n].pc = "timedwait"
          /\ node'[n].queue = node[n].queue /\ node'[n].prio = node[n].prio
          /\ \A m \in Nodes : m # n => node'[m] = node[m]
      BY <1>1, <3>1 DEF ThreadNode
    <3> QED BY <2>2, <3>2 DEF e, Waiting
  <2> QED BY <2>1, <2>2
<1>3. QueueSorted'
  BY <1>1, <1>2 DEF ServiceInv, QueueSorted
<1>4. ASSUME NEW m \in Nodes PROVE WakesInTime(m)'
  <2>1. CASE m = n
    <3>1. node[n].queue # << >> => timer[Head(node[n].queue)].expiry \in Nat
      BY <1>1, QueueTypes, HeadLemma DEF TimerNode
    <3> QED BY <1>1, <1>2, <2>1, <3>1 DEF WakesInTime
  <2>2. CASE m # n
    <3>1. WakesInTime(m)
      BY DEF ServiceInv, NoLostWakeup, WakesInTime, Waiting
    <3> QED BY <1>1, <1>2, <2>2, <3>1, StillWakes
  <2> QED BY <2>1, <2>2
<1>5. NoLostWakeup'
  BY <1>4 DEF NoLostWakeup, WakesInTime, Waiting
<1>6. \A t \in Timers : timer[t].thread \in Nodes \cup {Null}
  BY <1>1 DEF TimerNode
<1>7. PeriodicQueued'
  BY <1>1, <1>2, <1>6 DEF ServiceInv, PeriodicQueued, OneThreadPerPrio, Valid
<1>8. OneThreadPerPrio'
  BY <1>1, <1>2, ThreadsStay DEF ServiceInv, Waiting
<1> QED BY <1>3, <1>5, <1>7, <1>8 DEF ServiceInv

\* The steps of a service thread.
LEMMA ServiceThread ==
    ASSUME TypeInv, ListInv, ServiceInv, NEW n \in Nodes,
           ServiceStep(n) \/ HandlerReturn(n) \/ SpuriousWakeup(n)
    PROVE  ServiceInv'
<1>1. /\ TypeOK /\ node \in [Nodes -> ThreadNode] /\ node[n] \in ThreadNode /\ clock \in Nat
      /\ call \in [Actors -> Call]
  BY SizeAssumption DEF TypeInv, TypeOK
<1>2. CASE Run(n)
  <2>1. KeepsWakes /\ threadFree' = threadFree /\ node[n].pc # "none"
    BY <1>2 DEF Run, KeepsWakes
  <2> QED BY <1>1, <1>2, <2>1, ServiceDue, ServiceSleep DEF Run
<1>3. CASE HandlerReturn(n)
  <2>1. KeepsWakes
    BY <1>1, <1>3, WakeDeletersLemma DEF HandlerReturn, KeepsWakes
  <2>2. node[n].now \in Nat /\ threadFree' = threadFree /\ node[n].pc # "none"
    BY <1>1, <1>3 DEF HandlerReturn, ThreadNode
  <2> QED BY <1>3, <2>1, <2>2, ServiceDue, ServiceSleep DEF HandlerReturn
<1>4. CASE CallHandler(n) \/ Timeout(n) \/ SpuriousWakeup(n)
  <2>1. node[n].pc # "none" /\ UNCHANGED <<timer, threadFree, call>>
    BY <1>4 DEF CallHandler, Timeout, SpuriousWakeup
  <2>2. /\ \A m \in Nodes : m # n => node'[m] = node[m]
        /\ node'[n].queue = node[n].queue /\ node'[n].prio = node[n].prio
        /\ node'[n].pc \in {"handler", "run"}
    <3>1. CASE CallHandler(n)
      BY <1>1, <3>1 DEF CallHandler, ThreadNode
    <3>2. CASE Timeout(n) \/ SpuriousWakeup(n)
      BY <1>1, <3>2 DEF Timeout, SpuriousWakeup, ThreadNode
    <3> QED BY <1>4, <3>1, <3>2
  <2>3. KeepsWakes /\ \A u \in Timers : SameSlot(u)
    BY <2>1 DEF KeepsWakes, SameSlot
  <2>4. \A m \in Nodes :
            /\ node'[m].queue = node[m].queue /\ node'[m].prio = node[m].prio
            /\ SameNode(m) \/ node'[m].pc \notin Waiting
            /\ node'[m].pc = "none" <=> node[m].pc = "none"
    BY <2>1, <2>2 DEF SameNode, Waiting
  <2> QED BY <1>1, <2>1, <2>3, <2>4, QuietStep
<1> QED BY <1>2, <1>3, <1>4 DEF ServiceStep

\* No thread runs at first.
LEMMA ServiceInit == Init => ServiceInv
<1> SUFFICES ASSUME Init PROVE ServiceInv
  OBVIOUS
<1>1. TypeOK
  BY TypeInit DEF TypeInv
<1>2. \A n \in Nodes : node[n].queue = << >> /\ node[n].pc = "none"
  BY DEF Init, NewThread
<1>3. \A t \in Timers : timer[t].inuse = "FREE"
  BY DEF Init, NewTimer
<1>4. threadFree = [i \in 1..ThreadMax |-> i] /\ ThreadMax \in Nat
  BY SizeAssumption DEF Init, Nodes
<1>5. Len(threadFree) = ThreadMax
  BY <1>1, <1>4, LenProperties DEF TypeOK
<1>6. Distinct(threadFree) /\ ToSet(threadFree) = Nodes
      /\ \A i \in 1..Len(threadFree) : threadFree[i] \in Nodes
  BY <1>4, <1>5 DEF Distinct, ToSet, Nodes
<1>7. OneThreadPerPrio
  BY <1>2, <1>3, <1>6 DEF OneThreadPerPrio, FreeThreads, Valid
<1>8. QueueSorted
  <2>1. Len(<< >>) = 0
    BY EmptySeq
  <2> QED BY <1>2, <2>1 DEF QueueSorted
<1>9. NoLostWakeup /\ PeriodicQueued
  BY <1>2, <1>3 DEF NoLostWakeup, PeriodicQueued, Valid
<1> QED BY <1>7, <1>8, <1>9 DEF ServiceInv

\* Together with the types and the exact lists the invariant is inductive.
LEMMA ServiceNext == TypeInv /\ ListInv /\ ServiceInv /\ [Next]_vars => ServiceInv'
<1> SUFFICES ASSUME TypeInv, ListInv, ServiceInv, [Next]_vars PROVE ServiceInv'
  OBVIOUS
<1>1. TypeOK /\ TypeOK'
  BY TypeNext DEF TypeInv
<1>2. ASSUME UNCHANGED <<node, threadFree>>, \A u \in Timers : SameSlot(u), KeepsWakes
      PROVE  ServiceInv'
  <2>1. \A m \in Nodes :
            /\ node'[m].queue = node[m].queue /\ node'[m].prio = node[m].prio
            /\ SameNode(m) \/ node'[m].pc \notin Waiting
            /\ node'[m].pc = "none" <=> node[m].pc = "none"
    BY <1>2 DEF SameNode
  <2> QED BY <1>1, <1>2, <2>1, QuietStep
<1>3. ASSUME NEW c \in Clients, Add(c) \/ AddStep(c) PROVE ServiceInv'
  <2>1. c \in Actors
    BY DEF Actors
  <2> QED BY <1>1, <1>2, <1>3, <2>1, ServiceAdd, CallsKeep
<1>4. ASSUME NEW a \in Actors, Begin(a) PROVE ServiceInv'
  BY <1>1, <1>2, <1>4, CallsKeep, ServiceDelete DEF Begin
<1>5. ASSUME NEW a \in Actors, CallStep(a) PROVE ServiceInv'
  BY <1>1, <1>2, <1>5, CallsKeep, ServiceDisarm, ServiceArm, ServiceWakeup, ServiceDelete
     DEF CallStep
<1>6. ASSUME NEW n \in Nodes, ServiceStep(n) \/ HandlerReturn(n) \/ SpuriousWakeup(n)
      PROVE  ServiceInv'
  BY <1>6, ServiceThread
<1>7. CASE Tick \/ UNCHANGED vars
  <2>1. UNCHANGED <<timer, node, threadFree, call>>
    BY <1>7 DEF Tick, vars
  <2>2. KeepsWakes /\ \A u \in Timers : SameSlot(u)
    BY <2>1 DEF KeepsWakes, SameSlot
  <2> QED BY <1>2, <2>1, <2>2
<1> QED BY <1>3, <1>4, <1>5, <1>6, <1>7 DEF Next

-----------------------------------------------------------------------------
(* Theorems *)

\* Timers expire in chronological order: the queue a service thread takes its head
\* from is sorted by expiry time, also after a restart with a clock value that was
\* read before the mutex was taken, and after a periodic timer was queued again.
THEOREM QueuesSorted == Spec => []QueueSorted
<1>1. ServiceInv => QueueSorted
  BY DEF ServiceInv
<1> QED BY TypeInit, TypeNext, ListInit, ListNext, ServiceInit, ServiceNext, <1>1, PTL DEF Spec

\* No wakeup is lost: a thread that waits past the expiry of its first timer is
\* owed a broadcast by a caller that has left the mutex and not yet made it.
THEOREM WakeupsKept == Spec => []NoLostWakeup
<1>1. ServiceInv => NoLostWakeup
  BY DEF ServiceInv
<1> QED BY TypeInit, TypeNext, ListInit, ListNext, ServiceInit, ServiceNext, <1>1, PTL DEF Spec

\* A periodic timer that is armed is on the queue of its thread, whoever stops,
\* restarts or changes it while its handler runs.
THEOREM PeriodicTimersQueued == Spec => []PeriodicQueued
<1>1. ServiceInv => PeriodicQueued
  BY DEF ServiceInv
<1> QED BY TypeInit, TypeNext, ListInit, ListNext, ServiceInit, ServiceNext, <1>1, PTL DEF Spec

\* No two service threads have the same priority, every live timer has a running
\* thread, and a thread node is on the free list exactly when no thread runs it.
THEOREM ThreadsByPriority == Spec => []OneThreadPerPrio
<1>1. ServiceInv => OneThreadPerPrio
  BY DEF ServiceInv
<1> QED BY TypeInit, TypeNext, ListInit, ListNext, ServiceInit, ServiceNext, <1>1, PTL DEF Spec
=============================================================================

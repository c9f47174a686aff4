----------------------------- MODULE OsWaitProofs ----------------------------
(***************************************************************************)
(* The timespec arithmetic is exact for every value, and so the timed      *)
(* waits of OsWait keep their deadlines for every choice of its constants. *)
(***************************************************************************)
EXTENDS OsWait, TLAPS

\* clock_gettime loses nothing of the clock, and its nanoseconds are in range.
LEMMA ClockExact ==
    ASSUME NEW c \in Nat
    PROVE  clock_gettime(c) \in Timespec /\ Ns(clock_gettime(c)) = c
  <1>1. /\ c \div 1000000000 \in Int
        /\ c % 1000000000 \in Nat /\ c % 1000000000 < 1000000000
        /\ c = ((c \div 1000000000) * 1000000000) + (c % 1000000000)
    BY SMT
  <1> QED BY <1>1, SMT DEF clock_gettime, Timespec, Ns

\* ms2ts is exact.
LEMMA MillisExact ==
    ASSUME NEW ms \in Nat
    PROVE  ms2ts(ms) \in Timespec /\ Ns(ms2ts(ms)) = ms * 1000000
  <1>1. /\ ms \div 1000 \in Int
        /\ ms % 1000 \in Nat /\ ms % 1000 < 1000
        /\ ms = ((ms \div 1000) * 1000) + (ms % 1000)
    BY SMT
  <1> QED BY <1>1, SMT DEF ms2ts, Timespec, Ns

\* timespec_add carries: the sum is in range and exact.
LEMMA AddExact ==
    ASSUME NEW a \in Timespec, NEW b \in Timespec
    PROVE  timespec_add(a, b) \in Timespec /\ Ns(timespec_add(a, b)) = Ns(a) + Ns(b)
  BY SMT DEF timespec_add, Timespec, Ns

\* timespec_sub borrows: the difference is in range and exact, also when negative.
LEMMA SubExact ==
    ASSUME NEW a \in Timespec, NEW b \in Timespec
    PROVE  timespec_sub(a, b) \in Timespec /\ Ns(timespec_sub(a, b)) = Ns(a) - Ns(b)
  BY SMT DEF timespec_sub, Timespec, Ns

\* timespec_compare orders timespecs as the times they stand for.
LEMMA CompareExact ==
    ASSUME NEW a \in Timespec, NEW b \in Timespec
    PROVE  timespec_compare(a, b) < 0 <=> Ns(a) < Ns(b)
  BY SMT DEF timespec_compare, Timespec, Ns

\* The deadline of os_sem_wait and of the queues is in range, and is what was asked
\* for but for the fraction of a microsecond that gettimeofday drops.
LEMMA DeadlineExact ==
    ASSUME NEW c \in Nat, NEW ms \in Nat
    PROVE  LET d == os_millisec_2_timespec(gettimeofday(c), ms)
           IN  /\ d \in Timespec
               /\ c + ms * 1000000 - 1000 < Ns(d)
               /\ Ns(d) <= c + ms * 1000000
  <1> DEFINE s == c \div 1000000000
             f == c % 1000000000
             u == f \div 1000
             q == ms \div 1000
             r == ms % 1000
             t == r * 1000 + u
             carry == IF t >= 1000000 THEN 1 ELSE 0
             usec == IF carry = 1 THEN t % 1000000 ELSE t
             d == os_millisec_2_timespec(gettimeofday(c), ms)
  <1>1. s \in Nat /\ f \in Nat /\ f < 1000000000 /\ c = s * 1000000000 + f
    BY SMT
  <1>2. q \in Nat /\ r \in Nat /\ r < 1000 /\ ms = q * 1000 + r
    BY SMT
  <1>3. d = [tv_sec |-> s + q + carry, tv_nsec |-> usec * 1000]
    BY SMT DEF os_millisec_2_timespec, gettimeofday
  <1> HIDE DEF s, f, q, r
  <1>4. u \in Nat /\ u < 1000000 /\ u * 1000 <= f /\ f < u * 1000 + 1000
    BY <1>1, SMT
  <1> HIDE DEF u
  <1>5. t \in Nat /\ t < 1999000 /\ carry \in {0, 1}
    BY <1>2, <1>4, SMT
  <1>6. usec \in Nat /\ usec < 1000000 /\ usec = t - carry * 1000000
    BY <1>5, SMT
  <1> HIDE DEF usec, carry, d
  <1>7. usec * 1000 \in Nat /\ usec * 1000 < 1000000000 /\ s + q + carry \in Int
    BY <1>1, <1>2, <1>5, <1>6, SMT
  <1>8. d \in Timespec /\ Ns(d) = (s + q + carry) * 1000000000 + usec * 1000
    BY <1>3, <1>7, SMT DEF Timespec, Ns
  <1>9. Ns(d) = c - f + u * 1000 + ms * 1000000
    BY <1>1, <1>2, <1>4, <1>5, <1>6, <1>8, SMT
  <1>10. c + ms * 1000000 - 1000 < Ns(d) /\ Ns(d) <= c + ms * 1000000
    BY <1>1, <1>2, <1>4, <1>9, SMT
  <1> QED BY <1>8, <1>10, SMT DEF d

-----------------------------------------------------------------------------

\* The timespec that thread_func compares and subtracts is the time the timer is due.
ExpiryExact == pc # "idle" => Ns(expirytime) = due

\* Between its two readings the thread holds the time that was left at the first one.
LeftExact == pc = "wall" => Ns(now) = due - mono + slack

IInv ==
    /\ TypeOK /\ NotEarly /\ OversleepBounded /\ TakeDeadline
    /\ ExpiryExact /\ LeftExact

\* A deadline that a task waits for is right.
Right(c) ==
    (c.pc = "wait" /\ c.timeout \notin {0, Forever}) =>
        LET left == Ns(c.deadline) - (c.since + c.timeout * 1000000)
        IN  -1000 < left /\ left <= 0

Calls == [pc : {"idle", "wait"}, timeout : Millis \cup {0, Forever},
          deadline : Timespec, since : Nat]

\* The deadline of a call that has none.
LEMMA ZeroTyped == Zero \in Timespec
  BY SMT DEF Zero, Timespec

\* A timespec stands for a whole number of nanoseconds.
LEMMA NsInt ==
    ASSUME NEW ts \in Timespec
    PROVE  Ns(ts) \in Int
  BY SMT DEF Ns, Timespec

\* At the start nothing waits.
LEMMA InitHolds == Init => IInv
  <1> SUFFICES ASSUME Init PROVE IInv
    BY SMT
  <1>1. NoTake \in Calls /\ NoTake.pc = "idle"
    BY ZeroTyped, SMT DEF NoTake, Calls
  <1>2. TypeOK
    BY <1>1, ZeroTyped, WaitAssumption, SMT DEF Init, TypeOK, Calls
  <1>3. TakeDeadline
    BY <1>1, SMT DEF Init, TakeDeadline
  <1>4. NotEarly /\ OversleepBounded /\ ExpiryExact /\ LeftExact
    BY SMT DEF Init, NotEarly, OversleepBounded, ExpiryExact, LeftExact
  <1> QED BY <1>2, <1>3, <1>4, SMT DEF IInv

\* A step that gives one task a right call keeps all of them right.
LEMMA TakeStep ==
    ASSUME IInv, NEW t \in Tasks, NEW c \in Calls, Right(c),
           take' = [take EXCEPT ![t] = c],
           UNCHANGED <<mono, wall, settings, service>>,
           sem' \in 0..MaxCount
    PROVE  IInv'
  <1>1. TypeOK'
    BY SMT DEF IInv, TypeOK, Calls, service
  <1>2. TakeDeadline'
    <2> SUFFICES ASSUME NEW u \in Tasks PROVE Right(take'[u])
      BY SMT DEF TakeDeadline, Right
    <2>1. take \in [Tasks -> Calls] /\ Right(take[u])
      BY SMT DEF IInv, TypeOK, TakeDeadline, Right, Calls
    <2>2. CASE u = t
      BY <2>1, <2>2, Zenon
    <2>3. CASE u # t
      <3>1. take'[u] = take[u]
        BY <2>1, <2>3, Zenon
      <3> QED BY <2>1, <3>1, Zenon
    <2> QED BY <2>2, <2>3, SMT
  <1>3. NotEarly' /\ OversleepBounded' /\ ExpiryExact' /\ LeftExact'
    BY SMT DEF IInv, NotEarly, OversleepBounded, ExpiryExact, LeftExact, service, Ns
  <1> QED BY <1>1, <1>2, <1>3, SMT DEF IInv

\* The steps of the service thread, whose timespecs are exact.
LEMMA ServiceStep ==
    ASSUME IInv, Arm \/ Loop \/ ReadMono \/ ReadWall \/ Wake \/ HandlerReturns
    PROVE  IInv'
  <1>a. /\ mono \in Nat /\ wall \in Nat /\ due \in Nat /\ slack \in Nat
        /\ expirytime \in Timespec /\ now \in Timespec /\ abstime \in Timespec
    BY SMT DEF IInv, TypeOK
  <1>b. Ns(expirytime) \in Int /\ Ns(now) \in Int /\ Ns(abstime) \in Int
    BY <1>a, NsInt, SMT
  <1>c. /\ clock_gettime(mono) \in Timespec /\ Ns(clock_gettime(mono)) = mono
        /\ clock_gettime(wall) \in Timespec /\ Ns(clock_gettime(wall)) = wall
    BY <1>a, ClockExact, SMT
  <1>d. TakeDeadline'
    BY SMT DEF IInv, TakeDeadline, Arm, Loop, ReadMono, ReadWall, Wake, HandlerReturns
  <1>1. CASE Arm
    <2> PICK ms \in Millis :
            /\ expirytime' = timespec_add(clock_gettime(mono), ms2ts(ms))
            /\ due' = mono + ms * 1000000
      BY <1>1, SMT DEF Arm
    <2>1. ms \in Nat /\ ms * 1000000 \in Nat
      BY WaitAssumption, SMT
    <2>2. ms2ts(ms) \in Timespec /\ Ns(ms2ts(ms)) = ms * 1000000
      BY <2>1, MillisExact, SMT
    <2>3. expirytime' \in Timespec /\ Ns(expirytime') = due'
      BY <1>c, <2>2, AddExact, SMT
    <2>4. due' \in Nat
      BY <1>a, <2>1, SMT
    <2>5. TypeOK'
      BY <1>1, <2>3, <2>4, SMT DEF IInv, TypeOK, Arm
    <2>6. NotEarly' /\ OversleepBounded' /\ LeftExact'
      BY <1>1, SMT DEF Arm, NotEarly, OversleepBounded, LeftExact
    <2>7. ExpiryExact'
      BY <2>3, SMT DEF ExpiryExact
    <2> QED BY <1>d, <2>5, <2>6, <2>7, SMT DEF IInv
  <1>2. CASE Loop
    <2>1. Ns(expirytime) = due
      BY <1>2, SMT DEF IInv, ExpiryExact, Loop
    <2>2. timespec_compare(clock_gettime(mono), expirytime) < 0 <=> mono < due
      BY <1>a, <1>c, <2>1, CompareExact, SMT
    <2>3. (pc' = "mono" /\ mono < due) \/ (pc' = "handler" /\ mono >= due)
      BY <1>2, <1>a, <2>2, SMT DEF Loop
    <2>4. UNCHANGED <<mono, wall, settings, expirytime, now, abstime, due, slack, sem, take>>
      BY <1>2, SMT DEF Loop
    <2>5. TypeOK'
      BY <2>3, <2>4, SMT DEF IInv, TypeOK
    <2>6. NotEarly' /\ OversleepBounded' /\ LeftExact' /\ ExpiryExact'
      BY <1>b, <2>1, <2>3, <2>4, SMT DEF NotEarly, OversleepBounded, LeftExact, ExpiryExact
    <2> QED BY <1>d, <2>5, <2>6, SMT DEF IInv
  <1>3. CASE ReadMono
    <2>1. Ns(expirytime) = due
      BY <1>3, SMT DEF IInv, ExpiryExact, ReadMono
    <2>2. now' \in Timespec /\ Ns(now') = due - mono
      BY <1>3, <1>a, <1>c, <2>1, SubExact, SMT DEF ReadMono
    <2>3. /\ pc' = "wall" /\ slack' = 0
          /\ UNCHANGED <<mono, wall, settings, expirytime, abstime, due, sem, take>>
      BY <1>3, SMT DEF ReadMono
    <2>4. TypeOK'
      BY <2>2, <2>3, SMT DEF IInv, TypeOK
    <2>5. NotEarly' /\ OversleepBounded' /\ LeftExact' /\ ExpiryExact'
      BY <1>a, <2>1, <2>2, <2>3, SMT DEF NotEarly, OversleepBounded, LeftExact, ExpiryExact
    <2> QED BY <1>d, <2>4, <2>5, SMT DEF IInv
  <1>4. CASE ReadWall
    <2>1. Ns(expirytime) = due /\ Ns(now) = due - mono + slack
      BY <1>4, SMT DEF IInv, ExpiryExact, LeftExact, ReadWall
    <2>2. abstime' \in Timespec /\ Ns(abstime') = wall + Ns(now)
      BY <1>4, <1>a, <1>c, AddExact, SMT DEF ReadWall
    <2>3. /\ pc' = "wait"
          /\ UNCHANGED <<mono, wall, settings, expirytime, now, due, slack, sem, take>>
      BY <1>4, SMT DEF ReadWall
    <2>4. TypeOK'
      BY <2>2, <2>3, SMT DEF IInv, TypeOK
    <2>5. NotEarly' /\ OversleepBounded' /\ LeftExact' /\ ExpiryExact'
      BY <1>a, <1>b, <2>1, <2>2, <2>3, SMT DEF NotEarly, OversleepBounded, LeftExact, ExpiryExact
    <2> QED BY <1>d, <2>4, <2>5, SMT DEF IInv
  <1>5. CASE Wake \/ HandlerReturns
    <2>1. /\ pc \in {"wait", "handler"} /\ pc' \in {"loop", "idle"}
          /\ UNCHANGED <<mono, wall, settings, expirytime, now, abstime, due, slack, sem, take>>
      BY <1>5, SMT DEF Wake, HandlerReturns
    <2>2. TypeOK'
      BY <2>1, SMT DEF IInv, TypeOK
    <2>3. NotEarly' /\ OversleepBounded' /\ LeftExact' /\ ExpiryExact'
      BY <2>1, SMT DEF IInv, NotEarly, OversleepBounded, LeftExact, ExpiryExact
    <2> QED BY <1>d, <2>2, <2>3, SMT DEF IInv
  <1> QED BY <1>1, <1>2, <1>3, <1>4, <1>5, SMT

\* What the wall clock is set back is added to slack, and the bound is kept.
LEMMA Shift ==
    ASSUME NEW a \in Int, NEW left \in Int, NEW w \in Int, NEW w2 \in Int,
           NEW s \in Int, NEW s2 \in Int,
           a - w <= left + s, w2 + s2 >= w + s
    PROVE  a - w2 <= left + s2
  BY SMT

\* The clocks: time that passes between the two readings, and a wall clock that is set
\* back during the wait, are what slack counts.
LEMMA ClockStep ==
    ASSUME IInv, Tick \/ SetWall
    PROVE  IInv'
  <1>a. /\ mono \in Nat /\ wall \in Nat /\ due \in Nat /\ slack \in Nat
        /\ settings \in 0..MaxSettings /\ MaxSettings \in Nat
    BY WaitAssumption, SMT DEF IInv, TypeOK
  <1>b. Ns(now) \in Int /\ Ns(abstime) \in Int
    BY NsInt, SMT DEF IInv, TypeOK
  <1>c. UNCHANGED <<pc, expirytime, now, abstime, due, sem, take>>
    BY SMT DEF Tick, SetWall
  <1>d. TakeDeadline' /\ ExpiryExact'
    BY <1>c, SMT DEF IInv, TakeDeadline, ExpiryExact
  <1>1. CASE Tick
    <2> PICK d \in Ticks : /\ mono' = mono + d /\ wall' = wall + d
                           /\ slack' = IF pc = "wall" THEN slack + d ELSE slack
      BY <1>1, SMT DEF Tick
    <2>1. d \in Nat
      BY WaitAssumption, SMT
    <2>2. mono' \in Nat /\ wall' \in Nat /\ slack' \in Nat /\ settings' = settings
      BY <1>1, <1>a, <2>1, SMT DEF Tick
    <2>3. TypeOK'
      BY <1>c, <2>2, SMT DEF IInv, TypeOK
    <2>4. NotEarly' /\ OversleepBounded' /\ LeftExact'
      BY <1>a, <1>b, <1>c, <2>1, <2>2, SMT DEF IInv, NotEarly, OversleepBounded, LeftExact
    <2> QED BY <1>d, <2>3, <2>4, SMT DEF IInv
  <1>2. CASE SetWall
    <2>1. /\ mono' = mono /\ settings' \in 0..MaxSettings
          /\ wall' \in Nat /\ slack' \in Nat
          /\ pc = "wait" => wall' + slack' >= wall + slack
          /\ pc # "wait" => slack' = slack
      BY <1>2, <1>a, WaitAssumption, SMT DEF SetWall
    <2>2. TypeOK'
      BY <1>c, <2>1, SMT DEF IInv, TypeOK
    <2>3. NotEarly' /\ LeftExact'
      BY <1>a, <1>b, <1>c, <2>1, SMT DEF IInv, NotEarly, LeftExact
    <2>4. OversleepBounded'
      <3> SUFFICES ASSUME pc = "wait" PROVE Ns(abstime) - wall' <= due - mono + slack'
        BY <1>c, <2>1, SMT DEF OversleepBounded
      <3>1. Ns(abstime) - wall <= due - mono + slack
        BY SMT DEF IInv, OversleepBounded
      <3>2. /\ wall' + slack' >= wall + slack
            /\ wall' \in Nat /\ slack' \in Nat
        BY <2>1, SMT
      <3> DEFINE left == due - mono
                 a == Ns(abstime)
      <3>3. left \in Int /\ a \in Int /\ a - wall <= left + slack
        BY <1>a, <1>b, <3>1, SMT
      <3>5. wall \in Int /\ slack \in Int /\ wall' \in Int /\ slack' \in Int
        BY <1>a, <3>2, SMT
      <3> HIDE DEF left, a
      <3>4. a - wall' <= left + slack'
        BY <3>2, <3>3, <3>5, Shift, Zenon
      <3> QED BY <3>4, SMT DEF left, a
    <2> QED BY <1>d, <2>2, <2>3, <2>4, SMT DEF IInv
  <1> QED BY <1>1, <1>2, SMT

\* osal_sem_take and osal_sem_release.
LEMMA SemaphoreStep ==
    ASSUME IInv,
           \/ Release
           \/ \E t \in Tasks : TakeBegins(t) \/ TakeSucceeds(t) \/ TakeFails(t)
                               \/ TakeInterrupted(t)
    PROVE  IInv'
  <1>a. NoTake \in Calls /\ Right(NoTake)
    <2>1. NoTake \in Calls /\ NoTake.pc = "idle"
      BY ZeroTyped, SMT DEF NoTake, Calls
    <2> QED BY <2>1, SMT DEF Right
  <1>b. sem \in 0..MaxCount /\ wall \in Nat /\ MaxCount \in Nat
    BY WaitAssumption, SMT DEF IInv, TypeOK
  <1>1. CASE Release
    <2>1. sem' \in 0..MaxCount /\ UNCHANGED <<mono, wall, settings, service, take>>
      BY <1>1, <1>b, SMT DEF Release
    <2>2. TypeOK'
      BY <2>1, SMT DEF IInv, TypeOK, service
    <2>3. TakeDeadline'
      BY <2>1, SMT DEF IInv, TakeDeadline
    <2>4. NotEarly' /\ OversleepBounded' /\ LeftExact' /\ ExpiryExact'
      BY <2>1, SMT DEF IInv, NotEarly, OversleepBounded, LeftExact, ExpiryExact, service
    <2> QED BY <2>2, <2>3, <2>4, SMT DEF IInv
  <1>2. ASSUME NEW t \in Tasks, TakeBegins(t) PROVE IInv'
    <2> PICK timeout \in Millis \cup {0, Forever} :
            take' = [take EXCEPT ![t] =
                [pc |-> "wait", timeout |-> timeout, since |-> wall,
                 deadline |-> IF timeout \in {0, Forever} THEN Zero
                              ELSE os_millisec_2_timespec(gettimeofday(wall), timeout)]]
      BY <1>2, Zenon DEF TakeBegins
    <2> DEFINE dl == IF timeout \in {0, Forever} THEN Zero
                     ELSE os_millisec_2_timespec(gettimeofday(wall), timeout)
               c == [pc |-> "wait", timeout |-> timeout, since |-> wall, deadline |-> dl]
    <2>1. timeout \notin {0, Forever} => timeout \in Nat
      BY WaitAssumption, SMT
    <2>2. timeout \notin {0, Forever} =>
            /\ dl \in Timespec
            /\ wall + timeout * 1000000 - 1000 < Ns(dl)
            /\ Ns(dl) <= wall + timeout * 1000000
      <3> SUFFICES ASSUME timeout \notin {0, Forever}
                   PROVE  /\ dl \in Timespec
                          /\ wall + timeout * 1000000 - 1000 < Ns(dl)
                          /\ Ns(dl) <= wall + timeout * 1000000
        BY SMT
      <3>1. dl = os_millisec_2_timespec(gettimeofday(wall), timeout) /\ timeout \in Nat
        BY <2>1, SMT
      <3> HIDE DEF dl
      <3> QED BY <1>b, <3>1, DeadlineExact, SMT
    <2>3. dl \in Timespec
      BY <2>2, ZeroTyped, SMT
    <2>4. take' = [take EXCEPT ![t] = c]
      BY SMT
    <2> HIDE DEF dl
    <2>5. c \in Calls
      BY <1>b, <2>3, SMT DEF Calls
    <2>6. c.pc = "wait" /\ c.timeout = timeout /\ c.since = wall /\ c.deadline = dl
      BY SMT
    <2> HIDE DEF c
    <2>7. Ns(dl) \in Int
      BY <2>3, NsInt, SMT
    <2>8. Right(c)
      BY <1>b, <2>1, <2>2, <2>6, <2>7, SMT DEF Right
    <2>9. UNCHANGED <<mono, wall, settings, service>> /\ sem' \in 0..MaxCount
      BY <1>2, <1>b, SMT DEF TakeBegins
    <2> QED BY <2>4, <2>5, <2>8, <2>9, TakeStep, Zenon
  <1>3. ASSUME NEW t \in Tasks, TakeSucceeds(t) \/ TakeFails(t) \/ TakeInterrupted(t)
        PROVE  IInv'
    <2>1. /\ take' = [take EXCEPT ![t] = NoTake]
          /\ UNCHANGED <<mono, wall, settings, service>>
      BY <1>3, SMT DEF TakeSucceeds, TakeFails, TakeInterrupted
    <2>2. sem' \in 0..MaxCount
      BY <1>3, <1>b, SMT DEF TakeSucceeds, TakeFails, TakeInterrupted
    <2> QED BY <1>a, <2>1, <2>2, TakeStep, Zenon
  <1> QED BY <1>1, <1>2, <1>3, SMT

\* A step of something else.
LEMMA Unchanged ==
    ASSUME IInv, UNCHANGED vars
    PROVE  IInv'
  <1>1. TypeOK'
    BY SMT DEF IInv, TypeOK, vars
  <1>2. TakeDeadline'
    BY SMT DEF IInv, TakeDeadline, vars
  <1>3. NotEarly' /\ OversleepBounded' /\ LeftExact' /\ ExpiryExact'
    BY SMT DEF IInv, NotEarly, OversleepBounded, LeftExact, ExpiryExact, vars
  <1> QED BY <1>1, <1>2, <1>3, SMT DEF IInv

\* All parts of the inductive invariant hold always.
LEMMA Invariance == Spec => []IInv
  <1>1. IInv /\ [Next]_vars => IInv'
    <2> SUFFICES ASSUME IInv, [Next]_vars PROVE IInv'
      BY SMT
    <2> QED BY ServiceStep, SemaphoreStep, ClockStep, Unchanged, Zenon DEF Next
  <1> QED BY InitHolds, <1>1, PTL DEF Spec

\* For every period and clock: no handler is called before its timer is due, although
\* thread_func converts the deadline to a wall clock that is set while it waits.
THEOREM NeverEarly == Spec => []NotEarly
  BY Invariance, PTL DEF IInv

\* For every period and clock: a service thread sleeps past its first timer by no more
\* than the time between its two clock readings and what the wall clock is set back.
THEOREM SleepBounded == Spec => []OversleepBounded
  BY Invariance, PTL DEF IInv

\* For every timeout and time of day: the deadline of osal_sem_take is the time of the
\* call plus the timeout, less than a microsecond early and never late.
THEOREM DeadlineCorrect == Spec => []TakeDeadline
  BY Invariance, PTL DEF IInv

\* Every timespec that is passed to the kernel is normalised: with tv_nsec out of range
\* the wait would fail at once with EINVAL.
THEOREM WaitTypeCorrect == Spec => []TypeOK
  BY Invariance, PTL DEF IInv
=============================================================================

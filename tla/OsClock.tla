------------------------------- MODULE OsClock -------------------------------
(***************************************************************************)
(* Times as the C code represents them, and the arithmetic on them: the    *)
(* timespec helpers of osal/linux/os_timer.c and the deadlines of          *)
(* osal/linux/os_core.c.  A clock is its count of nanoseconds.             *)
(***************************************************************************)
EXTENDS Integers

Timespec == [tv_sec : Int, tv_nsec : {n \in Nat : n < 1000000000}]

\* The nanoseconds that a timespec stands for.
Ns(ts) == ts.tv_sec * 1000000000 + ts.tv_nsec

\* clock_gettime and gettimeofday, which cuts off to microseconds.
clock_gettime(clock) ==
    [tv_sec |-> clock \div 1000000000, tv_nsec |-> clock % 1000000000]

gettimeofday(clock) ==
    [tv_sec |-> clock \div 1000000000, tv_usec |-> (clock % 1000000000) \div 1000]

-----------------------------------------------------------------------------

ms2ts(ms) == [tv_sec |-> ms \div 1000, tv_nsec |-> (ms % 1000) * 1000000]

\* Mutant: only the seconds are compared.
compare_seconds(left, right) ==
    IF left.tv_sec < right.tv_sec THEN -1
    ELSE IF left.tv_sec > right.tv_sec THEN 1 ELSE 0

timespec_compare(left, right) ==
    IF left.tv_sec < right.tv_sec \/ (left.tv_sec = right.tv_sec /\ left.tv_nsec < right.tv_nsec)
    THEN -1
    ELSE IF left = right THEN 0 ELSE 1

\* Mutant: nothing is carried into the seconds.
add_no_carry(left, right) ==
    [tv_sec |-> left.tv_sec + right.tv_sec, tv_nsec |-> left.tv_nsec + right.tv_nsec]

timespec_add(left, right) ==
    LET nsec == left.tv_nsec + right.tv_nsec
        carry == IF nsec >= 1000000000 THEN 1 ELSE 0
    IN  [tv_sec |-> left.tv_sec + right.tv_sec + carry, tv_nsec |-> nsec - carry * 1000000000]

\* Mutant: the seconds are not decremented.
sub_no_borrow(left, right) ==
    LET nsec == left.tv_nsec - right.tv_nsec
    IN  [tv_sec |-> left.tv_sec - right.tv_sec,
         tv_nsec |-> IF nsec < 0 THEN nsec + 1000000000 ELSE nsec]

timespec_sub(left, right) ==
    LET nsec == left.tv_nsec - right.tv_nsec
        borrow == IF nsec < 0 THEN 1 ELSE 0
    IN  [tv_sec |-> left.tv_sec - right.tv_sec - borrow, tv_nsec |-> nsec + borrow * 1000000000]

\* Mutant: a sum of exactly one second is not carried.
deadline_off_by_one(now, timeout) ==
    LET usec == (timeout % 1000) * 1000 + now.tv_usec
        carry == IF usec > 1000000 THEN 1 ELSE 0
    IN  [tv_sec |-> now.tv_sec + timeout \div 1000 + carry,
         tv_nsec |-> (usec - carry * 1000000) * 1000]

\* Mutant: the carry is cut off and not added to the seconds.
deadline_no_carry(now, timeout) ==
    LET usec == (timeout % 1000) * 1000 + now.tv_usec
    IN  [tv_sec |-> now.tv_sec + timeout \div 1000, tv_nsec |-> (usec % 1000000) * 1000]

\* The deadline timeout milliseconds after now (os_sem_wait has the same code).
os_millisec_2_timespec(now, timeout) ==
    LET usec == (timeout % 1000) * 1000 + now.tv_usec
        carry == IF usec >= 1000000 THEN 1 ELSE 0
    IN  [tv_sec |-> now.tv_sec + timeout \div 1000 + carry,
         tv_nsec |-> (IF carry = 1 THEN usec % 1000000 ELSE usec) * 1000]
=============================================================================

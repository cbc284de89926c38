-------------------------------- MODULE Pbs ---------------------------------
(***************************************************************************)
(* The arithmetic of the priority-based scheduler: calculate_RBI(),        *)
(* minOf(), maxOf() of kernel/proc.c and the dynamic priority computed in  *)
(* scheduler() and set_priority().                                         *)
(*                                                                         *)
(* RTime, STime, WTime, STATIC_PRIO and DYNAMIC_PRIO are uint and RBI is   *)
(* int.  A 32-bit word is represented by its signed value, so a uint of    *)
(* 2^31 or more is a negative number here.                                 *)
(***************************************************************************)
EXTENDS Integers

MAX_PRIO == 100
DEFAULT_PRIO == 50
DEFAULT_RBI == 100
NOTFOUND == -1
INT_MAX == 2147483647
HALF == 65536       \* 2^16

minOf(a, b) == IF a < b THEN a ELSE b
maxOf(a, b) == IF a > b THEN a ELSE b

\* a < b for words compared as uint.
ULess(a, b) == IF (a < 0) = (b < 0) THEN a < b ELSE b < 0

\* (n mod 2^32) / d * 50 mod 2^32, for -HALF < n < 0 and 0 < d < 2^15:
\* division and product in two halves of 16 bits.
WrappedIndex(n, d) ==
    LET hi == HALF - 1
        qhi == hi \div d
        qlo == ((hi % d) * HALF + (HALF + n)) \div d
        lo == qlo * 50
        top == (qhi * 50 + lo \div HALF) % HALF
    IN  (IF top < HALF \div 2 THEN top ELSE top - HALF) * HALF + (lo % HALF)

calculate_RBI(r, s, w) ==
    LET n == 3 * r - s - w
        d == r + w + s + 1
    IN  IF r = 0 /\ s = 0 THEN DEFAULT_RBI
        ELSE maxOf(IF n < 0 THEN WrappedIndex(n, d) ELSE (n \div d) * 50, 0)

\* STATIC_PRIO + RBI as uint, converted to int.
Add32(static, rbi) ==
    IF rbi <= INT_MAX - static THEN static + rbi
    ELSE (rbi - INT_MAX) + (static - INT_MAX) - 2

DynamicPrio(static, r, s, w) == minOf(Add32(static, calculate_RBI(r, s, w)), MAX_PRIO)
=============================================================================

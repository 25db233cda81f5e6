------------------------------- MODULE Division -------------------------------
(***************************************************************************)
(* The 64-bit division routines of lib/arithmetic.c, for words of Width    *)
(* bits instead of 32: a long number has 2 * Width bits.  Every expression *)
(* keeps the width of its C type.                                          *)
(***************************************************************************)
EXTENDS Integers, SequencesExt

CONSTANT Width                  \* a power of two up to 32

VARIABLE dividend

Base == 2^Width
Long == 0..(Base * Base - 1)
AsWord(x) == x % Base           \* conversion to uint32_t
AsLong(x) == x % (Base * Base)  \* conversion to uint64_t
Signed(x, size) == IF x % size >= size \div 2 THEN (x % size) - size ELSE x % size
Trap == -1                      \* the divide error #DE

\* The instruction: it traps when the quotient has more than a word.
divl(n, d) ==
  IF d = 0 \/ n \div d >= Base THEN Trap ELSE n \div d

\* nlz: halves the shift from Width / 2 down to 1.
nlz(x) ==
  LET Shift(acc, k) ==
        IF acc.x <= 2^(Width - k) - 1
        THEN [n |-> acc.n + k, x |-> AsWord(acc.x * 2^k)] ELSE acc
      steps == [i \in 1..(CHOOSE k \in 1..5 : Width = 2^k) |-> Width \div 2^i]
  IN FoldLeft(Shift, [n |-> 0, x |-> x], steps).n

\* Fault: the estimate of the quotient is not corrected.
udiv64_estimate(n, d) ==
  IF d \div Base = 0
  THEN AsLong(divl(Base * ((n \div Base) % d) + AsWord(n), d)
                + Base * ((n \div Base) \div d))
  ELSE IF n < d THEN 0
  ELSE LET s == nlz(d \div Base)
       IN divl(n \div 2, AsLong(d * 2^s) \div Base) \div 2^(Width - 1 - s)

udiv64(n, d) ==
  IF d \div Base = 0
  THEN AsLong(divl(Base * ((n \div Base) % d) + AsWord(n), d)
                + Base * ((n \div Base) \div d))
  ELSE IF n < d THEN 0
  ELSE LET s == nlz(d \div Base)
           q == divl(n \div 2, AsLong(d * 2^s) \div Base) \div 2^(Width - 1 - s)
       IN IF AsLong(n - (q - 1) * d) < d THEN AsLong(q - 1) ELSE q

\* umod64, whose result is a uint32_t.
umod64(n, d) == AsWord(n - d * udiv64(n, d))

\* sdiv64 of two long numbers in two's complement, and smod64, whose result
\* is an int32_t.
sdiv64(n, d) ==
  LET Abs(x) == IF x >= 0 THEN AsLong(x) ELSE AsLong(-x)
      q == Signed(udiv64(Abs(n), Abs(d)), Base * Base)
  IN IF (n < 0) = (d < 0) THEN q ELSE Signed(-q, Base * Base)
smod64(n, d) == Signed(n - d * sdiv64(n, d), Base)

\* The program divides anything by anything.
DivisionInit == dividend \in Long
DivisionNext == dividend' = AsLong(dividend + 1)
DivisionSpec == DivisionInit /\ [][DivisionNext]_dividend
-----------------------------------------------------------------------------
\* The quotient the hardware would give, rounded towards zero.
Truncated(n, d) ==
  LET Abs(x) == IF x >= 0 THEN x ELSE -x
  IN IF (n < 0) = (d < 0) THEN Abs(n) \div Abs(d) ELSE -(Abs(n) \div Abs(d))

\* For every dividend and divisor udiv64 and sdiv64 give the exact quotient,
\* rounded towards zero, without a trap (the one signed quotient that does not
\* fit wraps around).  umod64 and smod64 give the exact remainder if and only if
\* it fits in a word: their result types have 32 bits, although their comments
\* and those of the routines that GCC calls promise a 64-bit remainder.
DivisionExact ==
  \A d \in Long \ {0} :
    LET n == dividend
        sn == Signed(n, Base * Base)
        sd == Signed(d, Base * Base)
        sq == Truncated(sn, sd)
        sr == sn - sq * sd
    IN /\ udiv64(n, d) = n \div d
       /\ (umod64(n, d) = n % d) = (n % d < Base)
       /\ sdiv64(sn, sd) = Signed(sq, Base * Base)
       /\ (smod64(sn, sd) = sr) = (-(Base \div 2) <= sr /\ sr < Base \div 2)
=============================================================================

------------------------------- MODULE Divide -------------------------------
(***************************************************************************)
(* The 64-bit division of lib/arithmetic.c, for words of 2 * Half bits     *)
(* (Half is 32 in the code).  Signed numbers are in two's complement.      *)
(***************************************************************************)
EXTENDS Integers

CONSTANT Half     \* bits in half a word, a power of two

ASSUME DivideAssumption == Half \in Nat /\ \E k \in 0..Half : Half = 2^k

Radix == 2^Half
Word == 0..(Radix * Radix - 1)
Trap == -1        \* #DE, the divide error

Low(x) == x % Radix
High(x) == x \div Radix
Wrap(x) == x % (Radix * Radix)
Signed(x) == IF x < (Radix * Radix) \div 2 THEN x ELSE x - Radix * Radix

\* The DIVL instruction: the quotient must fit in half a word.
divl(n, d) == IF d = 0 \/ n \div d >= Radix THEN Trap ELSE n \div d

\* Leading zeros of half a word, by halving: shifts of Half/2, ..., 2, 1 bits.
nlz(x) ==
  LET from[k \in 0..Half] ==      \* what the steps of k bits and fewer count
        [y \in 0..(Radix - 1) |->
           IF k = 0 THEN 0
           ELSE IF y < 2^(Half - k) THEN k + from[k \div 2][Low(y * 2^k)]
           ELSE from[k \div 2][y]]
  IN from[Half \div 2][x]

udiv64_low(n, d) == divl(Radix * (High(n) % d) + Low(n), d) + Radix * (High(n) \div d)

\* Fault: the estimate is not corrected.
udiv64_high_estimate(n, d) ==
  LET s == nlz(High(d))
  IN IF n < d THEN 0 ELSE divl(n \div 2, High(Wrap(d * 2^s))) \div 2^(Half - 1 - s)

udiv64_high(n, d) ==
  LET s == nlz(High(d))
      q == divl(n \div 2, High(Wrap(d * 2^s))) \div 2^(Half - 1 - s)
  IN IF n < d THEN 0
     ELSE IF Wrap(n - Wrap(q - 1) * d) < d THEN Wrap(q - 1) ELSE q

udiv64(n, d) == IF High(d) = 0 THEN udiv64_low(n, d) ELSE udiv64_high(n, d)

\* Returns uint32_t: only the low half of the remainder.
umod64(n, d) == Low(Wrap(n - d * udiv64(n, d)))

Abs(x) == IF Signed(x) >= 0 THEN x ELSE Wrap(-x)

sdiv64(n, d) ==
  LET q == udiv64(Abs(n), Abs(d))
  IN IF (Signed(n) < 0) = (Signed(d) < 0) THEN q ELSE Wrap(-q)

\* Returns int32_t, which the caller extends with its sign.
smod64(n, d) ==
  LET r == Low(Wrap(n - d * sdiv64(n, d)))
  IN IF r < Radix \div 2 THEN r ELSE Wrap(r - Radix)
-----------------------------------------------------------------------------
\* Division that truncates towards zero.
Quotient(n, d) ==
  LET q == (IF n < 0 THEN -n ELSE n) \div (IF d < 0 THEN -d ELSE d)
  IN IF (n < 0) = (d < 0) THEN q ELSE -q
Remainder(n, d) == n - d * Quotient(n, d)

\* Division by every divisor but zero is exact and never traps (the smallest
\* number divided by -1 overflows in C); a remainder is right if it fits in
\* the half word that the functions return.
DivisionRight(n, d) ==
  d # 0 =>
    /\ udiv64(n, d) = n \div d
    /\ n % d < Radix => umod64(n, d) = n % d
    /\ ~(Signed(d) = -1 /\ Signed(n) = -(Radix * Radix) \div 2) =>
         Signed(sdiv64(n, d)) = Quotient(Signed(n), Signed(d))
    /\ LET r == Remainder(Signed(n), Signed(d)) IN
       -(Radix \div 2) <= r /\ r < Radix \div 2 => Signed(smod64(n, d)) = r

\* "Divides unsigned 64-bit N by unsigned 64-bit D and returns the remainder."
RemainderRight(n, d) == d # 0 => umod64(n, d) = n % d
=============================================================================

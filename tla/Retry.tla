------------------------------- MODULE Retry --------------------------------
(***************************************************************************)
(* util/retry.go: the delays between two attempts.  A Duration is a signed *)
(* integer that wraps around past MaxDuration, 2^63 - 1 in the program.    *)
(***************************************************************************)
EXTENDS Integers

CONSTANT MaxDuration

ASSUME DurationAssumption == MaxDuration \in Nat \ {0}

\* The two's complement value of n.
Wrap(n) == LET half == MaxDuration + 1 IN ((n + half) % (2 * half)) - half

\* The delay doubled, at most max; also when the double overflows, which the
\* backoffs of the program, 250 ms to 5 s, are far from.
NextRetryDelay(current, min, max) ==
    LET lo == IF min <= 0 THEN 1 ELSE min
        hi == IF max < lo THEN lo ELSE max
        next == Wrap(current * 2)
    IN  IF current <= 0 THEN lo
        ELSE IF next > hi \/ next < current THEN hi ELSE next

\* The delays a draw of the generator can give: base and up to a fifth of it
\* more or less.  Small bases stay as they are.
JitterRetryDelay(base) ==
    LET maxJitter == base \div 5
    IN  IF base <= 0 \/ maxJitter <= 0 THEN {base}
        ELSE {base + d : d \in -maxJitter .. maxJitter}

=============================================================================

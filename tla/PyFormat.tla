------------------------------ MODULE PyFormat ------------------------------
(***************************************************************************)
(* Python's fixed-point formatting f'{x:.Nf}' on the scaled integers the  *)
(* models use.  x is n / d for integers n and d > 0, already multiplied   *)
(* by 10^N, so the digits printed are the integer nearest n / d.  x is a  *)
(* double: when n / d is exactly halfway between two integers the double  *)
(* nearest to it may lie on either side (and an exact binary tie goes to   *)
(* the even neighbour), so a tie may print either neighbour.               *)
(***************************************************************************)
EXTENDS Integers

\* The integers f'{n/d:.0f}' may print, for d > 0 (\div is floor division).
RoundDiv(n, d) ==
    LET q == n \div d
        r == n % d
    IN  IF 2 * r < d THEN {q}
        ELSE IF 2 * r > d THEN {q + 1}
        ELSE {q, q + 1}

\* Absolute value.
AbsVal(x) == IF x < 0 THEN -x ELSE x
=============================================================================

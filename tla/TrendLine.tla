------------------------------ MODULE TrendLine ------------------------------
(***************************************************************************)
(* The linear trend of plot_retry_overhead.py (lines 57-62; lines 68-73   *)
(* of plot_retry_graphs.py fit the same points and print the slope only): *)
(* np.polyfit(retry_rates, impact_pct, 1) and the legend label             *)
(*   f'Linear Trend: y={z[0]:.1f}x+{z[1]:.1f}'.                            *)
(* A first-order least-squares fit has the closed form used below; the    *)
(* points are the script's (lines 7 and 9) as exact scaled integers:      *)
(* retry rates in hundredths of a percent, overheads in tenths.            *)
(***************************************************************************)
EXTENDS Integers, Sequences, PyFormat

\* Lines 7 and 9.
retry_rates == <<0, 15, 155, 185, 215, 130>>
impact_pct == <<0, 5, 36, 52, 66, 26>>

\* The sum of F(i) over the indices of a sequence of length n.
SumTo(n, F(_)) ==
    LET s[j \in 0..n] == IF j = 0 THEN 0 ELSE s[j - 1] + F(j)
    IN  s[n]

\* np.polyfit(xs, ys, 1): slope = num / den and intercept = (Sy - slope Sx)
\* / n, with num = n Sxy - Sx Sy and den = n Sxx - Sx^2 (scaled units).
Fit(xs, ys) ==
    LET n == Len(xs)
        Sx == SumTo(n, LAMBDA j : xs[j])
        Sy == SumTo(n, LAMBDA j : ys[j])
        Sxy == SumTo(n, LAMBDA j : xs[j] * ys[j])
        Sxx == SumTo(n, LAMBDA j : xs[j] * xs[j])
    IN  [n |-> n, sx |-> Sx, sy |-> Sy,
         num |-> n * Sxy - Sx * Sy, den |-> n * Sxx - Sx * Sx]

\* The digits of f'{z[0]:.1f}': slope in percent per percent is
\* 10 * num / den, so its tenths are 100 * num / den.
SlopeDigits(z) == RoundDiv(100 * z.num, z.den)

\* The digits of f'{z[1]:.1f}': the intercept in tenths of a percent is
\* (sy * den - num * sx) / (n * den).
InterceptDigits(z) == RoundDiv(z.sy * z.den - z.num * z.sx, z.n * z.den)

CONSTANT NoFit

VARIABLES
    z,      \* the coefficients polyfit returned, or NoFit
    label   \* the legend text's two numbers, or NoFit

vars == <<z, label>>

Init == z = NoFit /\ label = NoFit

\* Line 58: z = np.polyfit(retry_rates, impact_pct, 1)
Polyfit ==
    /\ z = NoFit
    /\ z' = Fit(retry_rates, impact_pct)
    /\ UNCHANGED label

\* Lines 59-61: p = np.poly1d(z) and the legend label of the trend line.
TrendLabel ==
    /\ z # NoFit /\ label = NoFit
    /\ \E m \in SlopeDigits(z), b \in InterceptDigits(z) :
          label' = [slope |-> m, intercept |-> b]
    /\ UNCHANGED z

Next == Polyfit \/ TrendLabel

Spec == Init /\ [][Next]_vars

-----------------------------------------------------------------------------
\* The label reads as an equation: the literal '+' of the format string is
\* followed by a non-negative number, never by "-".
InterceptSignWellFormed ==
    label # NoFit => label.intercept >= 0
=============================================================================

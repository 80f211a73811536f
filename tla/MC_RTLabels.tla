---------------------------- MODULE MC_RTLabels ----------------------------
EXTENDS RTLabels

\* Times around the K/M boundary and the rounding ties, and the scripts'
\* own extremes (461807.93 s and 32578977.20 s, to the second).
MCValues ==
    {0, 50, 461807, 999499, 999500, 999949, 999950, 999960, 999999,
     1000000, 1004999, 1005000, 32578977}
=============================================================================

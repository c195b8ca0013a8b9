---- MODULE MCSessions ----
\* Constants for Sessions.  Requests are interchangeable.
EXTENDS Sessions, TLC

MCSymmetry == Permutations(Calls)

====

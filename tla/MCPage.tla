------------------------------- MODULE MCPage -------------------------------
(* Instances of Page for TLC: two indicators, and a call that fails next to   *)
(* overlapping calls of showDetail, of loadList, or one call of each.         *)
EXTENDS Page

CONSTANTS i1, i2

Size(r1, r2, details, loads, errs) ==
    [rows |-> [i \in Ioc |-> IF i = i1 THEN r1 ELSE r2], details |-> details, loads |-> loads,
     errors |-> errs]

MCSizes == {Size(1, 0, 2, 0, 1), Size(0, 0, 0, 2, 1), Size(0, 0, 1, 1, 1)}

\* One indicator, one call of showDetail at a time.
MCFailureSizes == {Size(1, 0, 1, 1, 1)}
=============================================================================

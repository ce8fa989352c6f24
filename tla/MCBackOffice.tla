---------------------------- MODULE MCBackOffice -----------------------------
(***************************************************************************)
(* TLC instance of BackOffice.                                             *)
(***************************************************************************)
EXTENDS BackOffice

CONSTANTS reference, meters, METERS, notice, j1, j2, boss, ann, k1, p1,
          r1, r2, e1, e2, s1, s2

(* Two tables whose header rows differ in case only, one of customers.     *)
MCHeader == [t \in {meters, METERS} |-> IF t = meters THEN "lower" ELSE "upper"]
MCSignature == [h \in {"lower", "upper"} |-> "same"]

(* PROPOSED_CRITERIA in small, and a decision for "ml" in any case.        *)
MCProposed == [mode |-> "auto", minHours |-> 3, minGain |-> 5, retrain |-> 1]
MCCustom == {[mode |-> "ml", minHours |-> 2, minGain |-> 0, retrain |-> 1]}

(* A plant whose rating is patched; a battery that may report a state of   *)
(* charge below its limit; a derate below zero in the second hour.         *)
MCRatings == [plant |-> {1, 2}, load |-> {2}]
MCLimits == {[import |-> 1, export |-> 0]}
MCSocs == {-1, 1}
MCDerates == {[pct |-> -50, from |-> 2, to |-> 2]}
=============================================================================

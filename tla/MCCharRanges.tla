---------------------------- MODULE MCCharRanges ----------------------------
(* An instance of CharRanges for TLC: five chars around two surrogates, and  *)
(* every list of up to MaxRanges ranges.                                    *)
EXTENDS CharRanges

CONSTANT MaxRanges

MCInputs == UNION {[1 .. n -> RangeType] : n \in 0 .. MaxRanges}
=============================================================================

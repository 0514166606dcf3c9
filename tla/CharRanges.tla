------------------------------ MODULE CharRanges ------------------------------
(***************************************************************************)
(* The character classes of a schema: Chars::from_ranges sorts the ranges  *)
(* it is given and merges them in place with two cursors, and size and nth *)
(* count the characters.  Two classes with the same characters have to     *)
(* come out as the same ranges, because the ranges are serialized into the *)
(* salt.  (crates/seed/src/expr/chars.rs)                                  *)
(*                                                                         *)
(* A char is a Unicode scalar value: a number up to MaxChar that is not a  *)
(* surrogate.  Sequences count from 1.                                     *)
(***************************************************************************)
EXTENDS Integers, Sequences, FiniteSets

CONSTANTS
    SurLo, SurHi,    \* the first and the last surrogate: 0xD800 and 0xDFFF
    MaxChar,         \* char::MAX
    Inputs           \* the lists of ranges from_ranges is called with

ASSUME CharAssumption ==
    /\ SurLo \in Nat /\ SurHi \in Nat /\ MaxChar \in Nat
    /\ 0 < SurLo /\ SurLo <= SurHi /\ SurHi < MaxChar

Chars == 0 .. (SurLo - 1) \cup (SurHi + 1) .. MaxChar

(* Every range the parser makes has its bounds in order. (parse.rs 421) *)
RangeType == {r \in [start : Chars, end : Chars] : r.start <= r.end}

ASSUME InputAssumption == Inputs \subseteq Seq(RangeType)

VARIABLES
    input,     \* the list of ranges from_ranges was called with
    ranges,    \* the vector it works on
    i,         \* the range being extended
    j,         \* the next range to look at
    pc         \* "sort", "merge", "drain", "done" or "panic"

vars == <<input, ranges, i, j, pc>>

(* A slip: the surrogates are forgotten. *)
NextNumber(c) == c + 1

(* next_char: the char after c, which there is for every c but MaxChar. *)
HasNext(c) == c # MaxChar
NextChar(c) == IF c = SurLo - 1 THEN SurHi + 1 ELSE c + 1

Greater(m, n) == IF m >= n THEN m ELSE n

Init ==
    /\ input \in Inputs
    /\ ranges = input
    /\ i = 1
    /\ j = 2
    /\ pc = "sort"

(* sort_unstable_by_key: any order in which the starts ascend. *)
SortedByStart(s) == \A a, b \in DOMAIN s : a <= b => s[a].start <= s[b].start

Sort ==
    /\ pc = "sort"
    /\ \E p \in [DOMAIN ranges -> DOMAIN ranges] :
          /\ \A a \in DOMAIN ranges : \E b \in DOMAIN ranges : p[b] = a
          /\ ranges' = [a \in DOMAIN ranges |-> ranges[p[a]]]
          /\ SortedByStart(ranges')
    /\ pc' = "merge"
    /\ UNCHANGED <<input, i, j>>

(* Range j begins inside range i, or right after it. *)
Touches == NextChar(ranges[i].end) >= ranges[j].start

(* A slip: a range inside range i cuts it short. *)
ExtendToEnd ==
    /\ pc = "merge"
    /\ j <= Len(ranges)
    /\ HasNext(ranges[i].end)
    /\ Touches
    /\ ranges' = [ranges EXCEPT ![i].end = ranges[j].end]
    /\ j' = j + 1
    /\ UNCHANGED <<input, i, pc>>

Extend ==
    /\ pc = "merge"
    /\ j <= Len(ranges)
    /\ HasNext(ranges[i].end)
    /\ Touches
    /\ ranges' = [ranges EXCEPT ![i].end = Greater(@, ranges[j].end)]
    /\ j' = j + 1
    /\ UNCHANGED <<input, i, pc>>

(* Slips: the ranges are not swapped; the second cursor stays. *)
AdvanceWithoutSwap ==
    /\ pc = "merge"
    /\ j <= Len(ranges)
    /\ HasNext(ranges[i].end)
    /\ ~ Touches
    /\ i' = i + 1
    /\ j' = j + 1
    /\ UNCHANGED <<input, ranges, pc>>

AdvanceOneCursor ==
    /\ pc = "merge"
    /\ j <= Len(ranges)
    /\ HasNext(ranges[i].end)
    /\ ~ Touches
    /\ ranges' = [ranges EXCEPT ![i + 1] = ranges[j], ![j] = ranges[i + 1]]
    /\ i' = i + 1
    /\ UNCHANGED <<input, j, pc>>

(* Range j is apart from range i: it becomes range i + 1. *)
Advance ==
    /\ pc = "merge"
    /\ j <= Len(ranges)
    /\ HasNext(ranges[i].end)
    /\ ~ Touches
    /\ ranges' = [ranges EXCEPT ![i + 1] = ranges[j], ![j] = ranges[i + 1]]
    /\ i' = i + 1
    /\ j' = j + 1
    /\ UNCHANGED <<input, pc>>

(* The loop ends: no range is left, or range i reaches the last char. *)
EndLoop ==
    /\ pc = "merge"
    /\ j <= Len(ranges) => ~ HasNext(ranges[i].end)
    /\ pc' = "drain"
    /\ UNCHANGED <<input, ranges, i, j>>

Drain ==
    /\ pc = "drain"
    /\ i <= Len(ranges)
    /\ ranges' = SubSeq(ranges, 1, i)
    /\ pc' = "done"
    /\ UNCHANGED <<input, i, j>>

(* drain(1..) of an empty vector is out of bounds. *)
DrainPanics ==
    /\ pc = "drain"
    /\ i > Len(ranges)
    /\ pc' = "panic"
    /\ UNCHANGED <<input, ranges, i, j>>

Next == Sort \/ Extend \/ Advance \/ EndLoop \/ Drain \/ DrainPanics

Spec == Init /\ [][Next]_vars

-----------------------------------------------------------------------------
(* size and nth of one range, and of the whole class *)

Within(c, r) == r.start <= c /\ c <= r.end

RangeSize(r) ==
    LET count == r.end - r.start + 1
    IN  IF r.start < SurLo /\ SurHi < r.end THEN count - (SurHi - SurLo + 1) ELSE count

(* A slip: the surrogates are counted. *)
RangeNthOfNumbers(r, n) == r.start + n

RangeNth(r, n) ==
    LET res == r.start + n
    IN  IF r.start < SurLo /\ SurLo <= res THEN res + (SurHi - SurLo + 1) ELSE res

(* SizeUpTo[k]: the number of characters in the first k ranges *)
SizeUpTo[k \in 0 .. Len(ranges)] ==
    IF k = 0 THEN 0 ELSE SizeUpTo[k - 1] + RangeSize(ranges[k])

Size == SizeUpTo[Len(ranges)]

(* The range that holds the n-th character is the first that n is within. *)
Nth(n) ==
    LET k == CHOOSE k \in DOMAIN ranges : SizeUpTo[k - 1] <= n /\ n < SizeUpTo[k]
    IN  RangeNth(ranges[k], n - SizeUpTo[k - 1])

-----------------------------------------------------------------------------
(* Properties *)

(* Every variable has its type; the second cursor is ahead of the first. *)
TypeOK ==
    /\ input \in Seq(RangeType)
    /\ ranges \in Seq(RangeType)
    /\ i \in Nat \ {0}
    /\ j \in Nat
    /\ i < j
    /\ pc \in {"sort", "merge", "drain", "done", "panic"}

(* The class that comes out has the characters of the ranges that went in,  *)
(* across the surrogate gap as anywhere. (chars.rs 44-60)                   *)
SameCharacters ==
    pc = "done" =>
        \A c \in Chars :
            (\E k \in DOMAIN ranges : Within(c, ranges[k]))
                <=> (\E k \in DOMAIN input : Within(c, input[k]))

(* Its ranges are in order and apart: between two there is a character that *)
(* is in neither, so that equal classes have equal ranges and equal salts.  *)
(* (46-57)                                                                  *)
Apart ==
    pc = "done" =>
        \A a, b \in DOMAIN ranges :
            a < b => \E c \in Chars : ranges[a].end < c /\ c < ranges[b].start

(* nth counts every character of the class once, in order, and size is how  *)
(* many there are: no password of the class is unreachable or comes twice.  *)
(* (63-76, 90-113)                                                          *)
NthCountsTheClass ==
    pc = "done" =>
        LET class == {c \in Chars : \E k \in DOMAIN input : Within(c, input[k])}
        IN  /\ Size = Cardinality(class)
            /\ {Nth(n) : n \in 0 .. (Size - 1)} = class
            /\ \A n \in 1 .. (Size - 1) : Nth(n - 1) < Nth(n)

(* from_ranges panics for an empty list of ranges and for no other. (59)    *)
PanicsIfEmpty == pc = "panic" => input = <<>>

(* The loop invariant the proofs rest on.  Ranges 1 .. i are in order and   *)
(* apart, and with ranges j .. Len(ranges), which are still sorted, they    *)
(* have the characters of the input; what is between them is stale.         *)
Covers(c, S) == \E k \in S : Within(c, ranges[k])
Given(c) == \E k \in DOMAIN input : Within(c, input[k])
Live == 1 .. i \cup j .. Len(ranges)
Gap(a, b) == \E c \in Chars : ranges[a].end < c /\ c < ranges[b].start

LoopInv ==
    /\ pc = "sort" => ranges = input /\ i = 1 /\ j = 2
    /\ pc \in {"merge", "drain"} /\ ranges # <<>> =>
         /\ i < j /\ i <= Len(ranges) /\ j <= Len(ranges) + 1
         /\ \A a, b \in 1 .. i : a < b => Gap(a, b)
    /\ pc = "merge" /\ ranges # <<>> =>
         /\ \A a \in j .. Len(ranges) : ranges[i].start <= ranges[a].start
         /\ \A a, b \in j .. Len(ranges) : a <= b => ranges[a].start <= ranges[b].start
         /\ \A c \in Chars : Covers(c, Live) <=> Given(c)
    /\ pc = "drain" /\ ranges # <<>> =>
         \A c \in Chars : Covers(c, 1 .. i) <=> Given(c)
    /\ pc \in {"merge", "drain"} /\ ranges = <<>> => input = <<>>
    /\ pc = "panic" => input = <<>>
    /\ SameCharacters
    /\ Apart

=============================================================================

--------------------------- MODULE CharRanges_proofs ---------------------------
(* Proofs about from_ranges, for every alphabet, every surrogate gap and any  *)
(* number of ranges: it keeps the characters, its result is canonical, and   *)
(* size and nth count it.                                                     *)
EXTENDS CharRanges, Recursion, FiniteSetTheorems, TLAPS

(* next_char skips no character. *)
LEMMA NextCharIsNext ==
    ASSUME NEW e \in Chars, HasNext(e)
    PROVE  /\ NextChar(e) \in Chars
           /\ e < NextChar(e)
           /\ \A c \in Chars : e < c => NextChar(e) <= c
BY CharAssumption DEF Chars, HasNext, NextChar

(* The last char has no char after it. *)
LEMMA LastChar ==
    ASSUME NEW e \in Chars, ~ HasNext(e), NEW c \in Chars
    PROVE  c <= e
BY CharAssumption DEF Chars, HasNext

LEMMA CharsAreNat == Chars \subseteq Nat
BY CharAssumption DEF Chars

LEMMA RangeBounds ==
    ASSUME NEW r \in RangeType
    PROVE  r.start \in Chars /\ r.end \in Chars /\ r.start \in Nat /\ r.end \in Nat /\ r.start <= r.end
BY CharsAreNat DEF RangeType

(* What Extend makes of a range is a range. *)
LEMMA ExtendedRange ==
    ASSUME NEW r \in RangeType, NEW s \in RangeType
    PROVE  [r EXCEPT !.end = Greater(@, s.end)] \in RangeType
<1>1. /\ r.start \in Nat /\ r.end \in Nat /\ s.end \in Nat
      /\ r.start <= r.end
      /\ r.end \in Chars /\ s.end \in Chars /\ r.start \in Chars
  BY RangeBounds
<1>2. [r EXCEPT !.end = Greater(@, s.end)] = [start |-> r.start, end |-> Greater(r.end, s.end)]
  BY DEF RangeType
<1>3. Greater(r.end, s.end) \in Chars /\ r.start <= Greater(r.end, s.end)
  BY <1>1 DEF Greater
<1> QED
  BY <1>1, <1>2, <1>3 DEF RangeType

(* A range that touches an earlier one makes one range with it. *)
LEMMA TouchingRangesMerge ==
    ASSUME NEW r \in RangeType, NEW s \in RangeType,
           HasNext(r.end), NextChar(r.end) >= s.start, r.start <= s.start
    PROVE  LET m == [r EXCEPT !.end = Greater(@, s.end)]
           IN  /\ m \in RangeType
               /\ m.start = r.start
               /\ \A c \in Chars : Within(c, m) <=> Within(c, r) \/ Within(c, s)
<1> DEFINE m == [r EXCEPT !.end = Greater(@, s.end)]
<1>1. /\ r.start \in Nat /\ r.end \in Nat /\ s.start \in Nat /\ s.end \in Nat
      /\ r.start <= r.end /\ s.start <= s.end
      /\ r.end \in Chars /\ s.end \in Chars /\ r.start \in Chars
  BY RangeBounds
<1>2. m.start = r.start /\ m.end = Greater(r.end, s.end)
  BY DEF RangeType
<1>3. m \in RangeType
  BY ExtendedRange
<1>4. ASSUME NEW c \in Chars
      PROVE  Within(c, m) <=> Within(c, r) \/ Within(c, s)
  <2>1. c \in Nat
    BY CharsAreNat
  <2>2. ~ Within(c, r) /\ r.end < c => s.start <= c
    <3>1. r.end < c => NextChar(r.end) <= c
      BY <1>1, NextCharIsNext
    <3>2. NextChar(r.end) \in Nat
      BY <1>1, NextCharIsNext, CharsAreNat
    <3> QED
      BY <1>1, <2>1, <3>1, <3>2
  <2> HIDE DEF m
  <2> QED
    BY <1>1, <1>2, <2>1, <2>2 DEF Within, Greater
<1> QED
  BY <1>2, <1>3, <1>4

(* Sorting does not change which characters there are. *)
LEMMA SortKeepsCharacters ==
    ASSUME NEW s \in Seq(RangeType), NEW p \in [DOMAIN s -> DOMAIN s],
           \A a \in DOMAIN s : \E b \in DOMAIN s : p[b] = a,
           NEW c
    PROVE  LET t == [a \in DOMAIN s |-> s[p[a]]]
           IN  (\E k \in DOMAIN t : Within(c, t[k])) <=> (\E k \in DOMAIN s : Within(c, s[k]))
OBVIOUS

-----------------------------------------------------------------------------
(* The type invariant *)

THEOREM TypeCorrect == Spec => []TypeOK
<1>1. Init => TypeOK
  BY InputAssumption DEF Init, TypeOK
<1>2. TypeOK /\ [Next]_vars => TypeOK'
  <2> SUFFICES ASSUME TypeOK, [Next]_vars
               PROVE  TypeOK'
    OBVIOUS
  <2> USE DEF TypeOK
  <2>1. CASE Sort
    <3>1. PICK p \in [DOMAIN ranges -> DOMAIN ranges] :
             ranges' = [a \in DOMAIN ranges |-> ranges[p[a]]]
      BY <2>1 DEF Sort
    <3>2. ranges' \in Seq(RangeType)
      BY <3>1
    <3> QED
      BY <2>1, <3>2 DEF Sort
  <2>2. CASE Extend
    <3>1. i \in DOMAIN ranges /\ j \in DOMAIN ranges
      BY <2>2 DEF Extend
    <3>2. ranges[i] \in RangeType /\ ranges[j] \in RangeType
      BY <3>1
    <3>3. [ranges[i] EXCEPT !.end = Greater(@, ranges[j].end)] \in RangeType
      BY <3>2, ExtendedRange
    <3>4. ranges' = [ranges EXCEPT ![i] = [ranges[i] EXCEPT !.end = Greater(@, ranges[j].end)]]
      BY <2>2 DEF Extend
    <3>5. ranges' \in Seq(RangeType)
      BY <3>1, <3>3, <3>4
    <3> QED
      BY <2>2, <3>5 DEF Extend
  <2>3. CASE Advance
    <3>1. i + 1 \in DOMAIN ranges /\ j \in DOMAIN ranges
      BY <2>3 DEF Advance
    <3>2. ranges' \in Seq(RangeType)
      BY <2>3, <3>1 DEF Advance
    <3> QED
      BY <2>3, <3>2 DEF Advance
  <2>4. CASE EndLoop
    BY <2>4 DEF EndLoop
  <2>5. CASE Drain
    BY <2>5 DEF Drain
  <2>6. CASE DrainPanics
    BY <2>6 DEF DrainPanics
  <2>7. CASE UNCHANGED vars
    BY <2>7 DEF vars
  <2> QED
    BY <2>1, <2>2, <2>3, <2>4, <2>5, <2>6, <2>7 DEF Next
<1> QED
  BY <1>1, <1>2, PTL DEF Spec
-----------------------------------------------------------------------------
(* The loop invariant, one action at a time *)

LEMMA SortInv ==
    ASSUME TypeOK, LoopInv, Sort
    PROVE  LoopInv'
<1>1. PICK p \in [DOMAIN ranges -> DOMAIN ranges] :
         /\ \A a \in DOMAIN ranges : \E b \in DOMAIN ranges : p[b] = a
         /\ ranges' = [a \in DOMAIN ranges |-> ranges[p[a]]]
         /\ SortedByStart(ranges')
  BY DEF Sort
<1>2. /\ pc = "sort" /\ pc' = "merge"
      /\ ranges = input /\ input' = input
      /\ i = 1 /\ i' = 1 /\ j = 2 /\ j' = 2
  BY DEF Sort, LoopInv
<1>3. /\ ranges \in Seq(RangeType)
      /\ Len(ranges') = Len(ranges)
      /\ DOMAIN ranges' = 1 .. Len(ranges)
      /\ DOMAIN ranges = 1 .. Len(ranges)
      /\ Len(ranges) \in Nat
      /\ ranges = <<>> <=> Len(ranges) = 0
      /\ ranges' = <<>> <=> Len(ranges) = 0
  BY <1>1 DEF TypeOK
<1>4. \A c : (\E k \in DOMAIN ranges' : Within(c, ranges'[k]))
               <=> (\E k \in DOMAIN ranges : Within(c, ranges[k]))
  BY <1>1, <1>3, SortKeepsCharacters
<1>5. ranges' # <<>> => Live' = DOMAIN ranges'
  BY <1>2, <1>3 DEF Live
<1>6. \A a, b \in 1 .. i' : ~ (a < b)
  BY <1>2
<1>7. ranges' # <<>> => \A c \in Chars : Covers(c, Live)' <=> Given(c)'
  BY <1>2, <1>4, <1>5 DEF Covers, Given
<1>8. ranges' # <<>> =>
         /\ i' < j' /\ i' <= Len(ranges') /\ j' <= Len(ranges') + 1
         /\ \A a \in j' .. Len(ranges') : ranges'[i'].start <= ranges'[a].start
         /\ \A a, b \in j' .. Len(ranges') : a <= b => ranges'[a].start <= ranges'[b].start
  <2> SUFFICES ASSUME Len(ranges) # 0
               PROVE  /\ 1 < 2 /\ 1 <= Len(ranges) /\ 2 <= Len(ranges) + 1
                      /\ \A a \in 2 .. Len(ranges) : ranges'[1].start <= ranges'[a].start
                      /\ \A a, b \in 2 .. Len(ranges) : a <= b => ranges'[a].start <= ranges'[b].start
    BY <1>2, <1>3
  <2>1. \A a, b \in 1 .. Len(ranges) : a <= b => ranges'[a].start <= ranges'[b].start
    BY <1>1, <1>3 DEF SortedByStart
  <2>2. 1 <= Len(ranges) /\ 1 \in 1 .. Len(ranges) /\ 2 .. Len(ranges) \subseteq 1 .. Len(ranges)
    BY <1>3
  <2> QED
    BY <1>3, <2>1, <2>2
<1>9. ranges' = <<>> => input' = <<>>
  BY <1>2, <1>3
<1> QED
  BY <1>2, <1>6, <1>7, <1>8, <1>9 DEF LoopInv, SameCharacters, Apart

(* What the invariant says while the loop runs over at least one range *)
LEMMA MergeFacts ==
    ASSUME TypeOK, LoopInv, pc = "merge", ranges # <<>>
    PROVE  /\ i \in Nat /\ j \in Nat /\ Len(ranges) \in Nat
           /\ 1 <= i /\ i < j /\ i <= Len(ranges) /\ j <= Len(ranges) + 1
           /\ DOMAIN ranges = 1 .. Len(ranges)
           /\ \A k \in DOMAIN ranges :
                /\ ranges[k] \in RangeType
                /\ ranges[k].start \in Nat /\ ranges[k].end \in Nat
                /\ ranges[k].start \in Chars /\ ranges[k].end \in Chars
                /\ ranges[k].start <= ranges[k].end
           /\ \A a, b \in 1 .. i : a < b => Gap(a, b)
           /\ \A a \in j .. Len(ranges) : ranges[i].start <= ranges[a].start
           /\ \A a, b \in j .. Len(ranges) : a <= b => ranges[a].start <= ranges[b].start
           /\ \A c \in Chars : Covers(c, Live) <=> Given(c)
<1>1. ranges \in Seq(RangeType)
  BY DEF TypeOK
<1>2. DOMAIN ranges = 1 .. Len(ranges) /\ Len(ranges) \in Nat
  BY <1>1
<1>3. \A k \in DOMAIN ranges : ranges[k] \in RangeType
  BY <1>1
<1> QED
  BY <1>2, <1>3, RangeBounds DEF TypeOK, LoopInv

LEMMA ExtendInv ==
    ASSUME TypeOK, LoopInv, Extend
    PROVE  LoopInv'
<1>1. pc = "merge" /\ pc' = "merge" /\ ranges # <<>> /\ j <= Len(ranges)
  BY DEF Extend, TypeOK
<1> DEFINE m == [ranges[i] EXCEPT !.end = Greater(@, ranges[j].end)]
<1>2. /\ ranges' = [ranges EXCEPT ![i] = m]
      /\ i' = i /\ j' = j + 1 /\ input' = input
      /\ HasNext(ranges[i].end) /\ NextChar(ranges[i].end) >= ranges[j].start
  BY DEF Extend, Touches
<1>3. i \in DOMAIN ranges /\ j \in DOMAIN ranges /\ ranges[i].start <= ranges[j].start
  BY <1>1, MergeFacts
<1>4. /\ m \in RangeType
      /\ m.start = ranges[i].start
      /\ \A c \in Chars : Within(c, m) <=> Within(c, ranges[i]) \/ Within(c, ranges[j])
  BY <1>1, <1>2, <1>3, MergeFacts, TouchingRangesMerge
<1> HIDE DEF m
<1>5. /\ Len(ranges') = Len(ranges)
      /\ DOMAIN ranges' = DOMAIN ranges
      /\ ranges'[i] = m
      /\ \A k \in DOMAIN ranges : k # i => ranges'[k] = ranges[k]
      /\ ranges' # <<>>
  BY <1>1, <1>2, <1>3 DEF TypeOK
<1>6. /\ i' < j' /\ i' <= Len(ranges') /\ j' <= Len(ranges') + 1
  BY <1>1, <1>2, <1>5, MergeFacts
<1>7. ASSUME NEW a \in 1 .. i', NEW b \in 1 .. i', a < b
      PROVE  Gap(a, b)'
  <2>1. /\ a \in 1 .. i /\ b \in 1 .. i
        /\ a \in DOMAIN ranges /\ b \in DOMAIN ranges /\ a # i
    BY <1>1, <1>2, <1>7, MergeFacts
  <2>2. ranges'[a] = ranges[a] /\ ranges'[b].start = ranges[b].start
    BY <1>4, <1>5, <2>1
  <2>3. Gap(a, b)
    BY <1>1, <1>7, <2>1, MergeFacts
  <2> QED
    BY <2>2, <2>3 DEF Gap
<1>8. ASSUME NEW a \in j' .. Len(ranges')
      PROVE  /\ a \in j .. Len(ranges) /\ ranges'[a] = ranges[a]
             /\ ranges'[i'].start <= ranges'[a].start
  BY <1>1, <1>2, <1>4, <1>5, MergeFacts
<1>9. \A a, b \in j' .. Len(ranges') : a <= b => ranges'[a].start <= ranges'[b].start
  BY <1>1, <1>8, MergeFacts
<1>10. ASSUME NEW c \in Chars
       PROVE  Covers(c, Live)' <=> Given(c)'
  <2>1. Live = Live' \cup {j}
    BY <1>1, <1>2, <1>5, MergeFacts DEF Live
  <2>2. i \in Live' /\ Live' \subseteq DOMAIN ranges /\ j \notin Live'
    BY <1>1, <1>2, <1>5, MergeFacts DEF Live
  <2>3. \A k \in Live' : k # i => ranges'[k] = ranges[k]
    BY <1>5, <2>2
  <2>4. Covers(c, Live)' <=> Covers(c, Live)
    BY <1>4, <1>5, <2>1, <2>2, <2>3 DEF Covers
  <2>5. Given(c)' <=> Given(c)
    BY <1>2 DEF Given
  <2> QED
    BY <1>1, <2>4, <2>5, MergeFacts
<1> QED
  BY <1>1, <1>5, <1>6, <1>7, <1>8, <1>9, <1>10 DEF LoopInv, SameCharacters, Apart

LEMMA AdvanceInv ==
    ASSUME TypeOK, LoopInv, Advance
    PROVE  LoopInv'
<1>1. pc = "merge" /\ pc' = "merge" /\ ranges # <<>> /\ j <= Len(ranges)
  BY DEF Advance, TypeOK
<1>2. /\ ranges' = [ranges EXCEPT ![i + 1] = ranges[j], ![j] = ranges[i + 1]]
      /\ i' = i + 1 /\ j' = j + 1 /\ input' = input
      /\ HasNext(ranges[i].end) /\ ~ (NextChar(ranges[i].end) >= ranges[j].start)
  BY DEF Advance, Touches
<1>3. i \in DOMAIN ranges /\ j \in DOMAIN ranges /\ i + 1 \in DOMAIN ranges
  BY <1>1, MergeFacts
<1>4. /\ Len(ranges') = Len(ranges)
      /\ DOMAIN ranges' = DOMAIN ranges
      /\ ranges'[i + 1] = ranges[j]
      /\ \A k \in DOMAIN ranges : k # i + 1 /\ k # j => ranges'[k] = ranges[k]
      /\ ranges' # <<>>
  BY <1>1, <1>2, <1>3 DEF TypeOK
<1>5. /\ i' < j' /\ i' <= Len(ranges') /\ j' <= Len(ranges') + 1
  BY <1>1, <1>2, <1>4, MergeFacts
<1>6. /\ NextChar(ranges[i].end) \in Chars
      /\ ranges[i].end < NextChar(ranges[i].end)
      /\ NextChar(ranges[i].end) < ranges[j].start
  <2>1. /\ NextChar(ranges[i].end) \in Chars
        /\ ranges[i].end < NextChar(ranges[i].end)
    BY <1>1, <1>2, <1>3, MergeFacts, NextCharIsNext
  <2>2. NextChar(ranges[i].end) \in Nat /\ ranges[j].start \in Nat
    BY <1>1, <1>3, <2>1, MergeFacts, CharsAreNat
  <2> QED
    BY <1>2, <2>1, <2>2
<1>7. ASSUME NEW a \in 1 .. i', NEW b \in 1 .. i', a < b
      PROVE  Gap(a, b)'
  <2>1. /\ a \in 1 .. i /\ a \in DOMAIN ranges /\ a # i + 1 /\ a # j
    BY <1>1, <1>2, <1>7, MergeFacts
  <2>2. ranges'[a] = ranges[a]
    BY <1>4, <2>1
  <2>3. CASE b = i + 1
    <3>1. ranges'[b].start = ranges[j].start
      BY <1>4, <2>3
    <3>2. CASE a = i
      BY <1>6, <2>2, <3>1, <3>2 DEF Gap
    <3>3. CASE a # i
      <4>1. a < i /\ i \in 1 .. i
        BY <1>1, <2>1, <3>3, MergeFacts
      <4>2. PICK c \in Chars : ranges[a].end < c /\ c < ranges[i].start
        BY <1>1, <2>1, <4>1, MergeFacts DEF Gap
      <4>3. j \in j .. Len(ranges) /\ ranges[i].start <= ranges[j].start
        BY <1>1, MergeFacts
      <4>4. c < ranges[j].start
        BY <1>1, <1>3, <4>2, <4>3, MergeFacts, CharsAreNat
      <4> QED
        BY <2>2, <3>1, <4>2, <4>4 DEF Gap
    <3> QED
      BY <3>2, <3>3
  <2>4. CASE b # i + 1
    <3>1. b \in 1 .. i /\ b \in DOMAIN ranges /\ b # j
      BY <1>1, <1>2, <2>4, MergeFacts
    <3>2. ranges'[b] = ranges[b]
      BY <1>4, <2>4, <3>1
    <3>3. Gap(a, b)
      BY <1>1, <1>7, <2>1, <3>1, MergeFacts
    <3> QED
      BY <2>2, <3>2, <3>3 DEF Gap
  <2> QED
    BY <2>3, <2>4
<1>8. ASSUME NEW a \in j' .. Len(ranges')
      PROVE  /\ a \in j .. Len(ranges) /\ ranges'[a] = ranges[a]
             /\ ranges'[i'].start <= ranges'[a].start
  <2>1. a \in j .. Len(ranges) /\ j \in j .. Len(ranges) /\ j <= a /\ a # j /\ a # i + 1 /\ a \in DOMAIN ranges
    BY <1>1, <1>2, <1>4, MergeFacts
  <2>2. ranges'[a] = ranges[a] /\ ranges'[i'] = ranges[j]
    BY <1>2, <1>4, <2>1
  <2> QED
    BY <1>1, <2>1, <2>2, MergeFacts
<1>9. \A a, b \in j' .. Len(ranges') : a <= b => ranges'[a].start <= ranges'[b].start
  BY <1>1, <1>8, MergeFacts
<1>10. ASSUME NEW c \in Chars
       PROVE  Covers(c, Live)' <=> Given(c)'
  <2>1. Live' = 1 .. i \cup {i + 1} \cup (j + 1) .. Len(ranges)
    BY <1>1, <1>2, <1>4, MergeFacts DEF Live
  <2>2. Live = 1 .. i \cup {j} \cup (j + 1) .. Len(ranges)
    BY <1>1, MergeFacts DEF Live
  <2>3. \A k \in 1 .. i \cup (j + 1) .. Len(ranges) : ranges'[k] = ranges[k]
    BY SMTT(30), <1>1, <1>4, MergeFacts
  <2>4. Covers(c, Live)' <=> Covers(c, Live)
    BY <1>4, <2>1, <2>2, <2>3 DEF Covers
  <2>5. Given(c)' <=> Given(c)
    BY <1>2 DEF Given
  <2> QED
    BY <1>1, <2>4, <2>5, MergeFacts
<1> QED
  BY <1>1, <1>4, <1>5, <1>7, <1>8, <1>9, <1>10 DEF LoopInv, SameCharacters, Apart

LEMMA EndLoopInv ==
    ASSUME TypeOK, LoopInv, EndLoop
    PROVE  LoopInv'
<1>1. pc = "merge" /\ pc' = "drain" /\ UNCHANGED <<input, ranges, i, j>>
  BY DEF EndLoop
<1>2. ASSUME ranges # <<>>, NEW c \in Chars
      PROVE  Covers(c, 1 .. i) <=> Given(c)
  <2>1. Covers(c, Live) <=> Given(c)
    BY <1>1, <1>2, MergeFacts
  <2>2. CASE j > Len(ranges)
    <3>1. Live = 1 .. i
      BY <1>1, <1>2, <2>2, MergeFacts DEF Live
    <3> QED
      BY <2>1, <3>1
  <2>3. CASE j <= Len(ranges)
    <3>1. i \in DOMAIN ranges /\ i \in 1 .. i /\ ~ HasNext(ranges[i].end)
      BY <1>1, <1>2, <2>3, MergeFacts DEF EndLoop
    <3>2. \A k \in j .. Len(ranges) : Within(c, ranges[k]) => Within(c, ranges[i])
      <4> SUFFICES ASSUME NEW k \in j .. Len(ranges), Within(c, ranges[k])
                   PROVE  Within(c, ranges[i])
        OBVIOUS
      <4>1. c <= ranges[i].end
        BY <1>1, <1>2, <3>1, MergeFacts, LastChar
      <4>2. ranges[i].start <= ranges[k].start /\ ranges[k].start <= c
        BY <1>1, <1>2, MergeFacts DEF Within
      <4>3. ranges[k].start \in Nat /\ ranges[i].start \in Nat /\ c \in Nat
        BY <1>1, <1>2, <3>1, MergeFacts, CharsAreNat
      <4> QED
        BY <4>1, <4>2, <4>3 DEF Within
    <3>3. Covers(c, Live) <=> Covers(c, 1 .. i)
      BY <3>1, <3>2 DEF Covers, Live
    <3> QED
      BY <2>1, <3>3
  <2> QED
    BY <1>1, <1>2, <2>2, <2>3, MergeFacts
<1> QED
  BY <1>1, <1>2 DEF LoopInv, Covers, Given, Gap, SameCharacters, Apart

LEMMA DrainInv ==
    ASSUME TypeOK, LoopInv, Drain
    PROVE  LoopInv'
<1>1. /\ pc = "drain" /\ pc' = "done" /\ i <= Len(ranges)
      /\ ranges' = SubSeq(ranges, 1, i) /\ input' = input
  BY DEF Drain
<1>2. ranges \in Seq(RangeType) /\ i \in Nat /\ 1 <= i /\ ranges # <<>>
  BY <1>1 DEF TypeOK
<1>3. /\ DOMAIN ranges' = 1 .. i
      /\ \A k \in 1 .. i : ranges'[k] = ranges[k]
  BY <1>1, <1>2
<1>4. \A c \in Chars : Covers(c, 1 .. i) <=> Given(c)
  BY <1>1, <1>2 DEF LoopInv
<1>5. SameCharacters'
  BY <1>1, <1>3, <1>4 DEF SameCharacters, Covers, Given
<1>6. Apart'
  BY <1>1, <1>2, <1>3 DEF Apart, LoopInv, Gap
<1> QED
  BY <1>1, <1>5, <1>6 DEF LoopInv

(* The loop of from_ranges keeps its invariant. *)
THEOREM LoopCorrect == Spec => []LoopInv
<1>1. Init => LoopInv
  BY DEF Init, LoopInv, SameCharacters, Apart
<1>2. TypeOK /\ LoopInv /\ [Next]_vars => LoopInv'
  <2> SUFFICES ASSUME TypeOK, LoopInv, [Next]_vars
               PROVE  LoopInv'
    OBVIOUS
  <2>1. CASE DrainPanics
    BY <2>1 DEF DrainPanics, LoopInv, SameCharacters, Apart, TypeOK
  <2>2. CASE UNCHANGED vars
    BY <2>2 DEF vars, LoopInv, SameCharacters, Apart, Covers, Given, Live, Gap
  <2> QED
    BY <2>1, <2>2, SortInv, ExtendInv, AdvanceInv, EndLoopInv, DrainInv DEF Next
<1> QED
  BY <1>1, <1>2, TypeCorrect, PTL DEF Spec

(* A character class has exactly the characters of the ranges it is made of. *)
THEOREM ClassKeepsCharacters == Spec => []SameCharacters
<1>1. LoopInv => SameCharacters
  BY DEF LoopInv
<1> QED
  BY <1>1, LoopCorrect, PTL

(* Its ranges are in order and none touches the next. *)
THEOREM ClassIsCanonical == Spec => []Apart
<1>1. LoopInv => Apart
  BY DEF LoopInv
<1> QED
  BY <1>1, LoopCorrect, PTL

(* Only an empty list of ranges makes from_ranges panic. *)
THEOREM OnlyEmptyPanics == Spec => []PanicsIfEmpty
<1>1. LoopInv => PanicsIfEmpty
  BY DEF LoopInv, PanicsIfEmpty
<1> QED
  BY <1>1, LoopCorrect, PTL

-----------------------------------------------------------------------------
(* size and nth *)

(* nth of one range counts its characters, across the surrogate gap. *)
LEMMA RangeIsCounted ==
    ASSUME NEW r \in RangeType
    PROVE  /\ RangeSize(r) \in Nat \ {0}
           /\ \A x \in 0 .. RangeSize(r) - 1 :
                 RangeNth(r, x) \in Chars /\ Within(RangeNth(r, x), r)
           /\ \A x, y \in 0 .. RangeSize(r) - 1 : x < y => RangeNth(r, x) < RangeNth(r, y)
           /\ \A c \in Chars : Within(c, r) => \E x \in 0 .. RangeSize(r) - 1 : RangeNth(r, x) = c
<1>1. /\ r.start \in Nat /\ r.end \in Nat /\ r.start <= r.end
      /\ r.start \in Chars /\ r.end \in Chars
  BY RangeBounds
<1>2. RangeSize(r) \in Nat \ {0}
  BY <1>1, CharAssumption DEF RangeSize, Chars
<1>3. ASSUME NEW x \in 0 .. RangeSize(r) - 1
      PROVE  RangeNth(r, x) \in Chars /\ Within(RangeNth(r, x), r)
  BY <1>1, CharAssumption DEF RangeSize, RangeNth, Chars, Within
<1>4. ASSUME NEW x \in 0 .. RangeSize(r) - 1, NEW y \in 0 .. RangeSize(r) - 1, x < y
      PROVE  RangeNth(r, x) < RangeNth(r, y)
  BY <1>1, <1>2, <1>4, CharAssumption DEF RangeNth
<1>5. ASSUME NEW c \in Chars, Within(c, r)
      PROVE  \E x \in 0 .. RangeSize(r) - 1 : RangeNth(r, x) = c
  <2> DEFINE gap == SurHi - SurLo + 1
             x == IF r.start < SurLo /\ SurLo <= c THEN c - gap - r.start ELSE c - r.start
  <2>1. c \in Nat /\ r.start <= c /\ c <= r.end
    BY <1>5, CharsAreNat DEF Within
  <2>2. x \in 0 .. RangeSize(r) - 1
    BY <1>1, <2>1, CharAssumption DEF RangeSize, Chars
  <2>3. RangeNth(r, x) = c
    BY <1>1, <2>1, CharAssumption DEF RangeNth, Chars
  <2> QED
    BY <2>2, <2>3
<1> QED
  BY <1>2, <1>3, <1>4, <1>5

(* The sums are what their recursion says. *)
LEMMA SumsOfSizes ==
    ASSUME ranges \in Seq(RangeType)
    PROVE  /\ SizeUpTo \in [0 .. Len(ranges) -> Nat]
           /\ SizeUpTo[0] = 0
           /\ \A k \in 1 .. Len(ranges) : SizeUpTo[k] = SizeUpTo[k - 1] + RangeSize(ranges[k])
<1> DEFINE n == Len(ranges)
           size == [k \in 1 .. n |-> RangeSize(ranges[k])]
<1>1. n \in Nat
  OBVIOUS
<1>2. \A k \in 1 .. n : size[k] \in Nat
  BY RangeIsCounted
<1> DEFINE step == [k \in 1 .. n |-> [a \in Nat |-> a + size[k]]]
           g == SizeUpTo
<1>3. step \in [1 .. n -> [Nat -> Nat]]
  <2> HIDE DEF n, size
  <2> QED
    BY <1>2
<1>4. \E f \in [0 .. n -> Nat] : IsIteration(f, 0, n, step)
  <2> HIDE DEF n, step
  <2>1. 0 \in Nat
    OBVIOUS
  <2> QED
    BY <1>1, <1>3, <2>1, IterationExists, Zenon
<1>5. PICK f \in [0 .. n -> Nat] : IsIteration(f, 0, n, step)
  BY <1>4
<1>6. ASSUME NEW k \in 1 .. n
      PROVE  f[k] = f[k - 1] + RangeSize(ranges[k])
  <2> HIDE DEF n
  <2>1. f[k - 1] \in Nat
    BY <1>1
  <2>2. step[k][f[k - 1]] = f[k - 1] + size[k]
    BY <2>1
  <2> QED
    BY <1>5, <2>2 DEF IsIteration
<1>7. f = [k \in 0 .. n |-> IF k = 0 THEN 0 ELSE f[k - 1] + RangeSize(ranges[k])]
  <2> HIDE DEF n, step
  <2> QED
    BY <1>1, <1>5, <1>6 DEF IsIteration
<1>8. g = [k \in 0 .. n |-> IF k = 0 THEN 0 ELSE g[k - 1] + RangeSize(ranges[k])]
  <2> HIDE DEF step
  <2> QED
    BY <1>7 DEF SizeUpTo
<1> HIDE DEF g, n
<1>9. g[0] = 0 /\ \A k \in 1 .. n : g[k] = g[k - 1] + RangeSize(ranges[k])
  BY <1>1, <1>8
<1>10. g \in [0 .. n -> Nat]
  <2>1. g = [k \in 0 .. n |-> g[k]]
    BY <1>8
  <2>2. ASSUME NEW k \in 1 .. n, g[k - 1] \in Nat
        PROVE  g[k] \in Nat
    BY <1>2, <1>9, <2>2
  <2>3. g[0] \in Nat
    BY <1>9
  <2> QED
    BY <1>1, <2>1, <2>2, <2>3, IterationType
<1> QED
  BY <1>9, <1>10 DEF g, n

(* The sums rise from range to range. *)
LEMMA SumsRise ==
    ASSUME ranges \in Seq(RangeType),
           NEW a \in 0 .. Len(ranges), NEW b \in 0 .. Len(ranges), a <= b
    PROVE  SizeUpTo[a] <= SizeUpTo[b]
<1> DEFINE n == Len(ranges)
           S == {k \in 0 .. n : a <= k => SizeUpTo[a] <= SizeUpTo[k]}
<1>1. n \in Nat /\ \A k \in 1 .. n : RangeSize(ranges[k]) \in Nat
  BY RangeIsCounted
<1>2. SizeUpTo \in [0 .. n -> Nat]
  BY SumsOfSizes
<1>3. 0 \in S
  BY <1>1, <1>2
<1>4. ASSUME NEW k \in 1 .. n, k - 1 \in S
      PROVE  k \in S
  <2> HIDE DEF n
  <2>1. SizeUpTo[k] = SizeUpTo[k - 1] + RangeSize(ranges[k])
    BY SumsOfSizes DEF n
  <2>2. CASE k = a
    BY <1>1, <1>2, <2>2
  <2>3. CASE k # a
    BY SMTT(30), <1>1, <1>2, <1>4, <2>1, <2>3
  <2> QED
    BY <2>2, <2>3
<1>5. 0 .. n \subseteq S
  <2> HIDE DEF n, S
  <2> QED
    BY <1>1, <1>3, <1>4, IntervalInduction
<1> QED
  BY <1>5

(* The range that holds the n-th character *)
Holds(k, n) == SizeUpTo[k - 1] <= n /\ n < SizeUpTo[k]

LEMMA OneRangeHolds ==
    ASSUME ranges \in Seq(RangeType), NEW n \in 0 .. Size - 1
    PROVE  /\ \E k \in DOMAIN ranges : Holds(k, n)
           /\ \A k, l \in DOMAIN ranges : Holds(k, n) /\ Holds(l, n) => k = l
<1> DEFINE m == Len(ranges)
           S == {k \in 0 .. m : n < SizeUpTo[k]}
<1>1. m \in Nat /\ DOMAIN ranges = 1 .. m
  OBVIOUS
<1>2. SizeUpTo \in [0 .. m -> Nat] /\ SizeUpTo[0] = 0
  BY SumsOfSizes
<1>3. Size = SizeUpTo[m] /\ Size \in Nat
  BY <1>1, <1>2 DEF Size
<1>4. m \in S
  BY <1>1, <1>3
<1>5. \E k \in DOMAIN ranges : Holds(k, n)
  <2> HIDE DEF m
  <2>1. PICK k \in S : \A l \in S : k <= l
    <3>1. S \in SUBSET Nat
      BY <1>1
    <3> HIDE DEF S
    <3> QED
      BY <1>4, <3>1, LeastExists
  <2>2. k # 0
    BY <1>2
  <2>3. k - 1 \in 0 .. m /\ k - 1 \notin S
    BY <1>1, <2>1, <2>2
  <2>4. Holds(k, n)
    BY <1>2, <1>3, <2>3 DEF Holds
  <2> QED
    BY <1>1, <2>2, <2>4
<1>6. ASSUME NEW k \in DOMAIN ranges, NEW l \in DOMAIN ranges, Holds(k, n), Holds(l, n), k < l
      PROVE  FALSE
  <2>1. k \in 0 .. m /\ l - 1 \in 0 .. m /\ k <= l - 1
    BY <1>1, <1>6
  <2>2. SizeUpTo[k] <= SizeUpTo[l - 1]
    BY <2>1, SumsRise
  <2> HIDE DEF m
  <2> QED
    BY <1>2, <1>3, <1>6, <2>1, <2>2 DEF Holds
<1> QED
  BY <1>1, <1>5, <1>6

(* What nth finds: the range, and the place in it. *)
LEMMA NthIs ==
    ASSUME ranges \in Seq(RangeType), NEW n \in 0 .. Size - 1, NEW k \in DOMAIN ranges, Holds(k, n)
    PROVE  /\ Nth(n) = RangeNth(ranges[k], n - SizeUpTo[k - 1])
           /\ n - SizeUpTo[k - 1] \in 0 .. RangeSize(ranges[k]) - 1
           /\ Nth(n) \in Chars
           /\ Within(Nth(n), ranges[k])
<1>1. (CHOOSE l \in DOMAIN ranges : SizeUpTo[l - 1] <= n /\ n < SizeUpTo[l]) = k
  BY OneRangeHolds DEF Holds
<1>2. Nth(n) = RangeNth(ranges[k], n - SizeUpTo[k - 1])
  BY <1>1 DEF Nth
<1>3. k - 1 \in 0 .. Len(ranges) /\ k \in 1 .. Len(ranges) /\ k \in 0 .. Len(ranges)
  OBVIOUS
<1>4. SizeUpTo[k - 1] \in Nat /\ SizeUpTo[k] = SizeUpTo[k - 1] + RangeSize(ranges[k])
  BY <1>3, SumsOfSizes
<1>5. Len(ranges) \in Nat /\ Size \in Nat
  BY SumsOfSizes DEF Size
<1>6. ranges[k] \in RangeType /\ RangeSize(ranges[k]) \in Nat
  BY RangeIsCounted
<1>7. n - SizeUpTo[k - 1] \in 0 .. RangeSize(ranges[k]) - 1
  BY <1>4, <1>5, <1>6 DEF Holds
<1> QED
  BY <1>2, <1>6, <1>7, RangeIsCounted

(* nth and size count the class. *)
LEMMA DoneCounts ==
    ASSUME TypeOK, SameCharacters, Apart
    PROVE  NthCountsTheClass
<1> SUFFICES ASSUME pc = "done" PROVE NthCountsTheClass
  BY DEF NthCountsTheClass
<1> DEFINE class == {c \in Chars : \E k \in DOMAIN input : Within(c, input[k])}
           f == [n \in 1 .. Size |-> Nth(n - 1)]
<1>1. ranges \in Seq(RangeType) /\ DOMAIN ranges = 1 .. Len(ranges) /\ Len(ranges) \in Nat
  BY DEF TypeOK
<1>2. Size \in Nat
  BY <1>1, SumsOfSizes DEF Size
<1>3. \A c \in Chars : (\E k \in DOMAIN ranges : Within(c, ranges[k])) <=> c \in class
  BY DEF SameCharacters
<1>4. ASSUME NEW n \in 0 .. Size - 1
      PROVE  Nth(n) \in class /\ Nth(n) \in Nat
  <2>1. PICK k \in DOMAIN ranges : Holds(k, n)
    BY <1>1, OneRangeHolds
  <2>2. Nth(n) \in Chars /\ Within(Nth(n), ranges[k])
    BY <1>1, <2>1, NthIs
  <2> QED
    BY <1>3, <2>2, CharsAreNat
<1>5. ASSUME NEW x \in 0 .. Size - 1, NEW y \in 0 .. Size - 1, x < y
      PROVE  Nth(x) < Nth(y)
  <2>1. PICK k \in DOMAIN ranges : Holds(k, x)
    BY <1>1, OneRangeHolds
  <2>2. PICK l \in DOMAIN ranges : Holds(l, y)
    BY <1>1, OneRangeHolds
  <2>3. Within(Nth(x), ranges[k]) /\ Within(Nth(y), ranges[l])
    BY <1>1, <2>1, <2>2, NthIs
  <2>4. Nth(x) \in Nat /\ Nth(y) \in Nat
    BY <1>4
  <2>5. CASE k = l
    <3>1. SizeUpTo[k - 1] \in Nat
      BY <1>1, SumsOfSizes
    <3>2. x - SizeUpTo[k - 1] < y - SizeUpTo[k - 1]
      BY <1>2, <1>5, <3>1
    <3> QED
      BY SMTT(30), <1>1, <2>1, <2>2, <2>5, <3>2, NthIs, RangeIsCounted
  <2>6. CASE k < l
    <3>1. \E c \in Chars : ranges[k].end < c /\ c < ranges[l].start
      BY <2>6 DEF Apart
    <3>2. ranges[k] \in RangeType /\ ranges[l] \in RangeType
      BY <1>1
    <3>3. ranges[k].end \in Nat /\ ranges[l].start \in Nat
      BY <3>2, RangeBounds
    <3> QED
      BY <2>3, <2>4, <3>1, <3>3, CharsAreNat DEF Within
  <2>7. CASE l < k
    <3>1. l \in 0 .. Len(ranges) /\ k - 1 \in 0 .. Len(ranges) /\ l <= k - 1
      BY <1>1, <2>7
    <3>2. SizeUpTo[l] <= SizeUpTo[k - 1]
      BY <1>1, <3>1, SumsRise
    <3>3. SizeUpTo[l] \in Nat /\ SizeUpTo[k - 1] \in Nat
      BY <1>1, <3>1, SumsOfSizes
    <3> QED
      BY <1>2, <1>5, <2>1, <2>2, <3>2, <3>3 DEF Holds
  <2> QED
    BY <1>1, <2>5, <2>6, <2>7
<1>6. ASSUME NEW c \in class
      PROVE  \E n \in 0 .. Size - 1 : Nth(n) = c
  <2>1. PICK k \in DOMAIN ranges : Within(c, ranges[k])
    BY <1>3
  <2>2. PICK x \in 0 .. RangeSize(ranges[k]) - 1 : RangeNth(ranges[k], x) = c
    BY <1>1, <2>1, RangeIsCounted
  <2> DEFINE n == SizeUpTo[k - 1] + x
  <2>3. k - 1 \in 0 .. Len(ranges) /\ k \in 0 .. Len(ranges) /\ Len(ranges) \in 0 .. Len(ranges) /\ k <= Len(ranges)
    BY <1>1
  <2>4. /\ SizeUpTo[k - 1] \in Nat /\ SizeUpTo[k] = SizeUpTo[k - 1] + RangeSize(ranges[k])
        /\ RangeSize(ranges[k]) \in Nat
    BY <1>1, <2>3, SumsOfSizes, RangeIsCounted
  <2>5. SizeUpTo[k] <= Size
    BY <1>1, <2>3, SumsRise DEF Size
  <2>6. Holds(k, n)
    BY <2>4 DEF Holds
  <2>7. n \in 0 .. Size - 1
    BY <1>2, <2>4, <2>5
  <2>8. n - SizeUpTo[k - 1] = x
    BY <2>4
  <2>9. Nth(n) = c
    BY <1>1, <2>2, <2>6, <2>7, <2>8, NthIs
  <2> QED
    BY <2>7, <2>9
<1>7. f \in [1 .. Size -> class]
  BY <1>2, <1>4
<1>8. ASSUME NEW x \in 1 .. Size, NEW y \in 1 .. Size, f[x] = f[y]
      PROVE  x = y
  <2>1. x - 1 \in 0 .. Size - 1 /\ y - 1 \in 0 .. Size - 1
    BY <1>2
  <2>2. Nth(x - 1) = Nth(y - 1) /\ Nth(x - 1) \in Nat
    BY <1>4, <1>8, <2>1
  <2>3. ~ (x - 1 < y - 1) /\ ~ (y - 1 < x - 1)
    BY <1>5, <2>1, <2>2
  <2> QED
    BY <1>2, <2>3
<1>9. ASSUME NEW c \in class
      PROVE  \E x \in 1 .. Size : f[x] = c
  <2>1. PICK n \in 0 .. Size - 1 : Nth(n) = c
    BY <1>6
  <2>2. n + 1 \in 1 .. Size /\ (n + 1) - 1 = n
    BY <1>2
  <2> QED
    BY <2>1, <2>2
<1>10. Size = Cardinality(class)
  <2> HIDE DEF f, class
  <2>1. f \in Bijection(1 .. Size, class)
    BY <1>7, <1>8, <1>9 DEF Bijection, Injection, Surjection, IsInjective
  <2> QED
    BY <1>2, <2>1, FS_CountingElements DEF ExistsBijection
<1>11. {Nth(n) : n \in 0 .. (Size - 1)} = class
  BY <1>4, <1>6
<1>12. \A n \in 1 .. (Size - 1) : Nth(n - 1) < Nth(n)
  <2> SUFFICES ASSUME NEW n \in 1 .. Size - 1 PROVE Nth(n - 1) < Nth(n)
    OBVIOUS
  <2>1. n - 1 \in 0 .. Size - 1 /\ n \in 0 .. Size - 1 /\ n - 1 < n
    BY <1>2
  <2> QED
    BY <1>5, <2>1
<1> QED
  BY <1>10, <1>11, <1>12 DEF NthCountsTheClass

(* Every character of a class has one number below its size, in order. *)
THEOREM NthCounts == Spec => []NthCountsTheClass
<1> QED
  BY DoneCounts, TypeCorrect, ClassKeepsCharacters, ClassIsCanonical, PTL

=============================================================================

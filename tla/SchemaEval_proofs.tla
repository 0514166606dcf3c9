--------------------------- MODULE SchemaEval_proofs ---------------------------
(*****************************************************************************)
(* Proofs about the evaluation of schemas, for any schema, any width of the  *)
(* integers and any word lists: what is measured is written, each index      *)
(* below the size writes another derivation, and where no closed form        *)
(* saturates the size counts them.  The word lists come first, for any bytes: *)
(* however the words are given, a list has each of them once and in order,   *)
(* and its hash stands for them.                                             *)
(*****************************************************************************)
EXTENDS SchemaEval, Recursion, FiniteSetTheorems, TLAPS

-----------------------------------------------------------------------------
(* The order of words, and of the ranks in a finite set *)

Word == Seq(Byte)

(* What a word is, position by position *)
LEMMA WordIs ==
    ASSUME NEW v \in Word
    PROVE  /\ DOMAIN v = 1 .. Len(v) /\ Len(v) \in Nat /\ v = [j \in 1 .. Len(v) |-> v[j]]
           /\ \A j \in DOMAIN v : v[j] \in Int
<1>1. /\ DOMAIN v = 1 .. Len(v) /\ Len(v) \in Nat /\ v = [j \in 1 .. Len(v) |-> v[j]]
      /\ \A j \in DOMAIN v : v[j] \in Byte
  BY DEF Word
<1>2. Byte \subseteq Int
  BY DEF Byte
<1> QED
  BY <1>1, <1>2

(* Of two words that differ the first difference decides. *)
LEMMA PrecedesOneWay ==
    ASSUME NEW v \in Word, NEW w \in Word, Precedes(v, w)
    PROVE  ~ Precedes(w, v)
<1> SUFFICES ASSUME Precedes(w, v) PROVE FALSE
  OBVIOUS
<1>1. PICK i \in DOMAIN w : /\ \A j \in 1 .. i - 1 : j \in DOMAIN v /\ v[j] = w[j]
                            /\ i \in DOMAIN v => v[i] < w[i]
  BY DEF Precedes
<1>2. PICK k \in DOMAIN v : /\ \A j \in 1 .. k - 1 : j \in DOMAIN w /\ w[j] = v[j]
                            /\ k \in DOMAIN w => w[k] < v[k]
  BY DEF Precedes
<1>3. DOMAIN v = 1 .. Len(v) /\ DOMAIN w = 1 .. Len(w) /\ Len(v) \in Nat /\ Len(w) \in Nat
  BY WordIs
<1>4. \A j \in DOMAIN v : v[j] \in Int
  BY WordIs
<1>5. \A j \in DOMAIN w : w[j] \in Int
  BY WordIs
<1>6. CASE i < k
  <2>1. i \in 1 .. k - 1
    BY <1>3, <1>6
  <2>2. i \in DOMAIN v
    BY <1>3, <2>1
  <2> QED
    BY <1>1, <1>2, <1>4, <1>5, <2>1, <2>2
<1>7. CASE k < i
  <2>1. k \in 1 .. i - 1
    BY <1>3, <1>7
  <2>2. k \in DOMAIN w
    BY <1>3, <2>1
  <2> QED
    BY <1>1, <1>2, <1>4, <1>5, <2>1, <2>2
<1>8. CASE i = k
  BY <1>1, <1>2, <1>4, <1>5, <1>8
<1> QED
  BY <1>3, <1>6, <1>7, <1>8

(* The order of words is transitive. *)
LEMMA PrecedesOnwards ==
    ASSUME NEW v \in Word, NEW w \in Word, NEW x \in Word, Precedes(v, w), Precedes(w, x)
    PROVE  Precedes(v, x)
<1>1. PICK i \in DOMAIN w : /\ \A j \in 1 .. i - 1 : j \in DOMAIN v /\ v[j] = w[j]
                            /\ i \in DOMAIN v => v[i] < w[i]
  BY DEF Precedes
<1>2. PICK k \in DOMAIN x : /\ \A j \in 1 .. k - 1 : j \in DOMAIN w /\ w[j] = x[j]
                            /\ k \in DOMAIN w => w[k] < x[k]
  BY DEF Precedes
<1>3. /\ DOMAIN v = 1 .. Len(v) /\ Len(v) \in Nat /\ DOMAIN w = 1 .. Len(w) /\ Len(w) \in Nat
      /\ DOMAIN x = 1 .. Len(x) /\ Len(x) \in Nat
  BY WordIs
<1>4. \A j \in DOMAIN v : v[j] \in Int
  BY WordIs
<1>5. \A j \in DOMAIN w : w[j] \in Int
  BY WordIs
<1>6. \A j \in DOMAIN x : x[j] \in Int
  BY WordIs
<1>7. CASE i < k
  <2>1. i \in 1 .. k - 1 /\ i \in DOMAIN x
    BY <1>3, <1>7
  <2>2. \A j \in 1 .. i - 1 : j \in DOMAIN v /\ v[j] = x[j]
    BY <1>1, <1>2, <1>3, <1>7
  <2>3. i \in DOMAIN v => v[i] < x[i]
    BY <1>1, <1>2, <2>1
  <2> QED
    BY <2>1, <2>2, <2>3 DEF Precedes
<1>8. CASE k <= i
  <2>2. \A j \in 1 .. k - 1 : j \in DOMAIN v /\ v[j] = x[j]
    BY <1>1, <1>2, <1>3, <1>8
  <2>3. k \in DOMAIN w
    BY <1>3, <1>8
  <2>4. k \in DOMAIN v => v[k] < x[k]
    <3>1. CASE k = i
      BY <1>1, <1>2, <1>4, <1>5, <1>6, <2>3, <3>1
    <3>2. CASE k # i
      <4>1. k \in 1 .. i - 1
        BY <1>3, <1>8, <3>2
      <4> QED
        BY <1>1, <1>2, <2>3, <4>1
    <3> QED
      BY <3>1, <3>2
  <2> QED
    BY <2>2, <2>4 DEF Precedes
<1> QED
  BY <1>3, <1>7, <1>8

(* Of two words one precedes the other. *)
LEMMA PrecedesEitherWay ==
    ASSUME NEW v \in Word, NEW w \in Word, v # w
    PROVE  Precedes(v, w) \/ Precedes(w, v)
<1> DEFINE S == {i \in Nat : i \in DOMAIN v \cup DOMAIN w
                             /\ (i \in DOMAIN v \cap DOMAIN w => v[i] # w[i])}
<1>1. /\ DOMAIN v = 1 .. Len(v) /\ Len(v) \in Nat /\ v = [j \in 1 .. Len(v) |-> v[j]]
      /\ DOMAIN w = 1 .. Len(w) /\ Len(w) \in Nat /\ w = [j \in 1 .. Len(w) |-> w[j]]
  BY WordIs
<1>2. \A j \in DOMAIN v : v[j] \in Int
  BY WordIs
<1>3. \A j \in DOMAIN w : w[j] \in Int
  BY WordIs
<1>4. S # {}
  <2> SUFFICES ASSUME S = {} PROVE FALSE
    OBVIOUS
  <2>1. \A i \in Nat : i \in DOMAIN v \cup DOMAIN w =>
            i \in DOMAIN v \cap DOMAIN w /\ v[i] = w[i]
    OBVIOUS
  <2>2. Len(v) = Len(w)
    <3>1. Len(v) > 0 => Len(v) \in DOMAIN w
      BY <1>1, <2>1
    <3>2. Len(w) > 0 => Len(w) \in DOMAIN v
      BY <1>1, <2>1
    <3>3. Len(v) <= Len(w) /\ Len(w) <= Len(v)
      BY <1>1, <3>1, <3>2
    <3>4. Len(v) \in Nat /\ Len(w) \in Nat
      BY <1>1
    <3> QED
      BY <3>3, <3>4
  <2>3. \A j \in 1 .. Len(v) : v[j] = w[j]
    BY <1>1, <2>1
  <2> QED
    BY <1>1, <2>2, <2>3
<1>5. PICK i \in S : \A y \in S : i <= y
  <2> HIDE DEF S
  <2>1. S \in SUBSET Nat
    BY DEF S
  <2> QED
    BY <1>4, <2>1, LeastExists
<1>6. \A j \in 1 .. i - 1 : j \in DOMAIN v /\ j \in DOMAIN w /\ v[j] = w[j]
  <2> SUFFICES ASSUME NEW j \in 1 .. i - 1
               PROVE  j \in DOMAIN v /\ j \in DOMAIN w /\ v[j] = w[j]
    OBVIOUS
  <2>1. j \in Nat /\ ~ (i <= j)
    BY <1>5
  <2>2. j \in DOMAIN v \cup DOMAIN w
    BY <1>1, <1>5, <2>1
  <2>3. j \notin S
    BY <1>5, <2>1
  <2> QED
    BY <2>1, <2>2, <2>3
<1>7. CASE i \in DOMAIN v /\ i \in DOMAIN w
  <2>1. v[i] # w[i]
    BY <1>5, <1>7
  <2>2. v[i] < w[i] \/ w[i] < v[i]
    BY <1>2, <1>3, <1>7, <2>1
  <2> QED
    BY <1>6, <1>7, <2>2 DEF Precedes
<1>8. CASE i \notin DOMAIN v
  <2>1. i \in DOMAIN w
    BY <1>5, <1>8
  <2> QED
    BY <1>6, <1>8, <2>1 DEF Precedes
<1>9. CASE i \notin DOMAIN w
  <2>1. i \in DOMAIN v
    BY <1>5, <1>9
  <2> QED
    BY <1>6, <1>9, <2>1 DEF Precedes
<1> QED
  BY <1>7, <1>8, <1>9

-----------------------------------------------------------------------------
(* Sums, and what is joined of words *)

(* The running sums of a sequence of numbers *)
IsSums(sum, numbers) ==
    /\ sum \in [0 .. Len(numbers) -> Nat] /\ sum[0] = 0
    /\ \A k \in 1 .. Len(numbers) : sum[k] = sum[k - 1] + numbers[k]

(* Sums, which Dict defines by recursion, are the running sums. *)
LEMMA SumsAre ==
    ASSUME NEW n \in Nat, NEW numbers, Len(numbers) = n, \A k \in 1 .. n : numbers[k] \in Nat
    PROVE  IsSums(Sums(numbers), numbers)
<1> DEFINE step == [k \in 1 .. n |-> [x \in Nat |-> x + numbers[k]]]
           sum == Sums(numbers)
<1>1. n \in Nat /\ \A k \in 1 .. n : numbers[k] \in Nat
  OBVIOUS
<1>2. step \in [1 .. n -> [Nat -> Nat]] /\ 0 \in Nat
  BY <1>1
<1>3. PICK f \in [0 .. n -> Nat] : IsIteration(f, 0, n, step)
  <2> HIDE DEF step
  <2> QED
    BY <1>1, <1>2, IterationExists, Zenon
<1>4. \A k \in 1 .. n : k - 1 \in 0 .. n /\ f[k - 1] \in Nat
  <2> HIDE DEF step
  <2> QED
    BY <1>1, <1>3
<1>5. f = [k \in 0 .. n |-> IF k = 0 THEN 0 ELSE f[k - 1] + numbers[k]]
  <2>1. \A k \in 1 .. n : f[k] = f[k - 1] + numbers[k]
    BY <1>3, <1>4 DEF IsIteration
  <2>2. f[0] = 0
    <3> HIDE DEF step
    <3> QED
      BY <1>3 DEF IsIteration
  <2> HIDE DEF step
  <2>3. \A k \in 0 .. n : f[k] = IF k = 0 THEN 0 ELSE f[k - 1] + numbers[k]
    BY <1>1, <2>1, <2>2
  <2> QED
    BY <1>3, <2>3
<1>6. sum = [k \in 0 .. n |-> IF k = 0 THEN 0 ELSE sum[k - 1] + numbers[k]]
  BY <1>5 DEF Sums
<1> HIDE DEF sum
<1>7. sum[0] = 0
  BY <1>1, <1>6
<1>8. \A k \in 1 .. n : sum[k] = sum[k - 1] + numbers[k]
  BY <1>1, <1>6
<1>9. sum \in [0 .. n -> Nat]
  <2>1. sum = [k \in 0 .. n |-> sum[k]]
    BY <1>6
  <2>2. \A k \in 1 .. n : sum[k - 1] \in Nat => sum[k] \in Nat
    BY <1>1, <1>8
  <2>3. sum[0] \in Nat
    BY <1>7
  <2> QED
    BY <2>1, <2>2, <2>3, IterationType, Zenon
<1> QED
  BY <1>7, <1>8, <1>9 DEF IsSums, sum

(* What two words are one after the other, position by position *)
LEMMA ConcatIs ==
    ASSUME NEW v \in Word, NEW w \in Word
    PROVE  /\ v \o w \in Word /\ <<>> \o w = w /\ Len(v \o w) = Len(v) + Len(w)
           /\ \A x \in 1 .. Len(v) : (v \o w)[x] = v[x]
           /\ \A x \in 1 .. Len(w) : (v \o w)[Len(v) + x] = w[x]
BY DEF Word

(* The texts that the words make one after the other *)
IsJoining(text, words, n) == Joining(Byte, text, words, n)

(* The joining of a sequence of words *)
LEMMA FlattenSeqJoins ==
    ASSUME NEW n \in Nat, NEW words, Len(words) = n, n = 0 => words = <<>>,
           \A k \in 1 .. n : words[k] \in Word
    PROVE  \E text : IsJoining(text, words, n) /\ FlattenSeq(words) = text[n]
<1>1. \A k \in 1 .. n : words[k] \in Seq(Byte)
  BY DEF Word
<1>2. AreWords(Byte, words, n)
  BY <1>1 DEF AreWords
<1>3. \E text : Joining(Byte, text, words, n) /\ FlattenSeq(words) = text[n]
  BY ONLY <1>2, FlattenSeqIs
<1> QED
  BY <1>3, Zenon DEF IsJoining

(* Where each of the words lies *)
LEMMA JoiningIs ==
    ASSUME NEW n \in Nat, NEW words, \A k \in 1 .. n : words[k] \in Word,
           NEW text, IsJoining(text, words, n)
    PROVE  Joined(text, words, n)
<1>1. \A k \in 1 .. n : words[k] \in Seq(Byte)
  BY DEF Word
<1>2. Joining(Byte, text, words, n)
  BY DEF IsJoining, Joining, Word
<1> QED
  BY <1>1, <1>2, JoiningPlaces

(* The spans of words that lie one after the other find each of them. *)
LEMMA SpansFindTheWords ==
    ASSUME NEW n \in Nat, NEW words, Len(words) = n, DOMAIN words = 1 .. n, n = 0 => words = <<>>,
           \A k \in 1 .. n : words[k] \in Word
    PROVE  /\ FlattenSeq(words) \in Word
           /\ Spans(words) = [k \in 1 .. n |-> Spans(words)[k]]
           /\ \A k \in 1 .. n :
                 /\ Spans(words)[k] \in Nat \X Nat
                 /\ Spans(words)[k][1] <= Spans(words)[k][2]
                 /\ Spans(words)[k][2] <= Len(FlattenSeq(words))
                 /\ WordAt(FlattenSeq(words), Spans(words)[k]) = words[k]
<1> DEFINE lengths == [k \in DOMAIN words |-> Len(words[k])]
           end == Sums(lengths)
<1>1. PICK text : IsJoining(text, words, n) /\ FlattenSeq(words) = text[n]
  BY FlattenSeqJoins
<1>2. n \in Nat /\ DOMAIN words = 1 .. n /\ \A k \in 1 .. n : words[k] \in Word /\ Len(words[k]) \in Nat
  BY WordIs
<1>3. (\A k \in 1 .. n : lengths[k] \in Nat) /\ Len(lengths) = n
  BY <1>2
<1>4. IsSums(end, lengths)
  <2> HIDE DEF lengths
  <2> QED
    BY <1>3, SumsAre
<1>5. \A k \in 0 .. n : text[k] \in Word /\ Len(text[k]) \in Nat
  <2>1. text \in [0 .. n -> Word]
    BY <1>1 DEF IsJoining, Joining, Word
  <2> QED
    BY <2>1, WordIs
<1>6. \A k \in 1 .. n : k - 1 \in 0 .. n /\ k \in 0 .. n
  BY <1>2
<1>7. Joined(text, words, n)
  BY <1>1, JoiningIs
<1>8. \A k \in 0 .. n : end[k] = Len(text[k])
  <2> DEFINE S == {k \in 0 .. n : end[k] = Len(text[k])}
  <2>1. 0 \in S
    <3>1. text[0] = <<>> /\ end[0] = 0 /\ 0 \in 0 .. n
      BY <1>1, <1>2, <1>4 DEF IsJoining, Joining, IsSums
    <3> HIDE DEF end
    <3> QED
      BY <3>1
  <2>2. ASSUME NEW k \in 1 .. n, k - 1 \in S
        PROVE  k \in S
    <3>1. end[k] = end[k - 1] + Len(words[k])
      BY <1>2, <1>3, <1>4 DEF IsSums
    <3>2. Len(text[k]) = Len(text[k - 1]) + Len(words[k])
      BY <1>7 DEF Joined
    <3> QED
      BY <1>6, <2>2, <3>1, <3>2
  <2>3. 0 .. n \subseteq S
    <3> HIDE DEF S, end
    <3> QED
      BY <1>2, <2>1, <2>2, IntervalInduction
  <2> QED
    BY <2>3
<1>9. Spans(words) = [k \in 1 .. n |-> <<end[k - 1], end[k]>>]
  BY <1>2 DEF Spans
<1> HIDE DEF end, lengths
<1>10. ASSUME NEW k \in 1 .. n
      PROVE  /\ Spans(words)[k] = <<Len(text[k - 1]), Len(text[k])>>
             /\ Len(text[k - 1]) \in Nat /\ Len(text[k]) \in Nat
             /\ Len(text[k - 1]) <= Len(text[k]) /\ Len(text[k]) <= Len(text[n])
             /\ SubSeq(text[n], Len(text[k - 1]) + 1, Len(text[k])) = words[k]
  <2>1. Spans(words)[k] = <<Len(text[k - 1]), Len(text[k])>>
    BY <1>6, <1>8, <1>9
  <2>2. Len(text[k]) = Len(text[k - 1]) + Len(words[k])
    BY <1>7 DEF Joined
  <2>3. Len(text[k]) <= Len(text[n]) /\ \A x \in 1 .. Len(text[k]) : text[n][x] = text[k][x]
    <3>1. \A m \in 0 .. n : \A j \in 0 .. m :
              /\ Len(text[j]) <= Len(text[m])
              /\ \A x \in 1 .. Len(text[j]) : text[m][x] = text[j][x]
      BY <1>7 DEF Joined
    <3>2. n \in 0 .. n /\ k \in 0 .. n
      BY <1>2
    <3> QED
      BY <3>1, <3>2
  <2>4. \A x \in 1 .. Len(words[k]) : text[k][Len(text[k - 1]) + x] = words[k][x]
    BY <1>7 DEF Joined
  <2> DEFINE a == Len(text[k - 1])
             b == Len(text[k])
             whole == text[n]
             w == words[k]
  <2>5. a \in Nat /\ b \in Nat /\ Len(w) \in Nat /\ b = a + Len(w) /\ b <= Len(whole)
    BY <1>2, <1>5, <1>6, <2>2, <2>3
  <2>6. whole \in Seq(Byte) /\ w \in Seq(Byte)
    BY <1>2, <1>5 DEF Word
  <2>7. \A x \in 1 .. Len(w) : whole[a + x] = w[x]
    <3> SUFFICES ASSUME NEW x \in 1 .. Len(w) PROVE whole[a + x] = w[x]
      OBVIOUS
    <3>1. a + x \in 1 .. b
      <4> HIDE DEF a, b, w
      <4> QED
        BY <2>5
    <3> QED
      BY <2>3, <2>4, <3>1
  <2>8. SubSeq(whole, a + 1, b) = w
    <3> HIDE DEF a, b, whole, w
    <3>1. SubSeq(whole, a + 1, b) = [x \in 1 .. Len(w) |-> whole[a + x]]
      BY <2>5, <2>6
    <3>2. w = [x \in 1 .. Len(w) |-> w[x]]
      BY <2>6
    <3> QED
      BY <2>7, <3>1, <3>2
  <2>9. a <= b
    <3> HIDE DEF a, b, w
    <3> QED
      BY <2>5
  <2> QED
    BY <2>1, <2>5, <2>8, <2>9
<1>11. FlattenSeq(words) \in Word
  BY <1>1, <1>2, <1>5
<1>12. Spans(words) = [k \in 1 .. n |-> Spans(words)[k]]
  BY <1>9
<1>13. ASSUME NEW k \in 1 .. n
       PROVE  /\ Spans(words)[k] \in Nat \X Nat
              /\ Spans(words)[k][1] <= Spans(words)[k][2]
              /\ Spans(words)[k][2] <= Len(FlattenSeq(words))
              /\ WordAt(FlattenSeq(words), Spans(words)[k]) = words[k]
  <2> DEFINE a == Len(text[k - 1])
             b == Len(text[k])
  <2>1. /\ Spans(words)[k] = <<a, b>> /\ a \in Nat /\ b \in Nat /\ a <= b
        /\ b <= Len(text[n]) /\ SubSeq(text[n], a + 1, b) = words[k]
    BY <1>10
  <2> HIDE DEF a, b
  <2> QED
    BY <1>1, <2>1 DEF WordAt
<1> QED
  BY <1>11, <1>12, <1>13

-----------------------------------------------------------------------------
(* Words in order *)

(* A finite set of words is in order. *)
LEMMA SomeWordPrecedes ==
    ASSUME NEW W, W \subseteq Word, IsFiniteSet(W)
    PROVE  Orders({p \in W \X W : Precedes(p[1], p[2])}, W)
<1>1. \A v, w \in W : Precedes(v, w) => ~ Precedes(w, v)
  BY PrecedesOneWay
<1>2. \A v, w, x \in W : Precedes(v, w) /\ Precedes(w, x) => Precedes(v, x)
  BY PrecedesOnwards
<1>3. \A v, w \in W : v # w => Precedes(v, w) \/ Precedes(w, v)
  BY PrecedesEitherWay
<1> QED
  BY <1>1, <1>2, <1>3 DEF Orders

(* The words of W in the order of str, each of them once *)
InOrder(words, W) ==
    /\ W \subseteq Word \ {<<>>} /\ IsFiniteSet(W)
    /\ words = [i \in DOMAIN words |-> words[i]]
    /\ Ascends(words, {p \in W \X W : Precedes(p[1], p[2])}, W)

(* A set of words has only one order. *)
LEMMA OneOrder ==
    ASSUME NEW W, NEW a, NEW b, InOrder(a, W), InOrder(b, W)
    PROVE  a = b
<1>1. Orders({p \in W \X W : Precedes(p[1], p[2])}, W)
  BY SomeWordPrecedes DEF InOrder
<1> QED
  BY <1>1, AscendsOneWay DEF InOrder

(* What a list of words in order is *)
LEMMA InOrderIs ==
    ASSUME NEW W, NEW a, InOrder(a, W)
    PROVE  /\ a \in Seq(Word) /\ Len(a) = Cardinality(W) /\ Cardinality(W) \in Nat
           /\ DOMAIN a = 1 .. Cardinality(W) /\ ToSet(a) = W
           /\ \A i \in 1 .. Cardinality(W) : a[i] \in W
           /\ \A i, j \in 1 .. Cardinality(W) : a[i] = a[j] => i = j
<1> DEFINE n == Cardinality(W)
           R == {p \in W \X W : Precedes(p[1], p[2])}
<1>1. n \in Nat
  BY FS_CardinalityType DEF InOrder
<1>2. DOMAIN a = 1 .. n /\ a = [i \in DOMAIN a |-> a[i]]
  BY DEF InOrder, Ascends
<1>3. (\A i \in 1 .. n : a[i] \in W) /\ \A k \in W : \E i \in 1 .. n : a[i] = k
  BY <1>2 DEF InOrder, Ascends
<1>4. W \subseteq Word
  BY DEF InOrder
<1>5. a \in [1 .. n -> Word]
  <2> HIDE DEF n
  <2> QED
    BY <1>2, <1>3, <1>4
<1>6. a \in Seq(Word) /\ Len(a) = n
  <2> HIDE DEF n
  <2> QED
    BY <1>1, <1>5
<1>7. ToSet(a) = W
  BY <1>2, <1>3 DEF ToSet
<1>8. ASSUME NEW i \in 1 .. n, NEW j \in 1 .. n, a[i] = a[j]
      PROVE  i = j
  <2>1. \A k, m \in 1 .. n : k < m => <<a[k], a[m]>> \in R
    BY <1>2 DEF InOrder, Ascends
  <2>2. \A v \in W : ~ Precedes(v, v)
    BY <1>4, PrecedesOneWay
  <2>3. a[i] \in W
    BY <1>3
  <2>4. <<a[i], a[j]>> \notin R /\ <<a[j], a[i]>> \notin R
    BY <1>8, <2>2, <2>3
  <2> QED
    BY <1>1, <2>1, <2>4
<1> QED
  BY <1>1, <1>2, <1>3, <1>6, <1>7, <1>8

(* Spans that lie in a text *)
LieIn(text, spans) ==
    /\ text \in Word /\ IsFiniteSet(spans) /\ spans \subseteq Nat \X Nat
    /\ \A s \in spans : s[1] <= s[2] /\ s[2] <= Len(text)

(* What a span of a text is *)
LEMMA WordAtIs ==
    ASSUME NEW text, NEW spans, LieIn(text, spans), NEW s \in spans
    PROVE  /\ WordAt(text, s) \in Word /\ Len(WordAt(text, s)) = s[2] - s[1]
           /\ s[1] \in Nat /\ s[2] \in Nat /\ s = <<s[1], s[2]>>
<1>1. /\ text \in Seq(Byte) /\ s[1] \in Nat /\ s[2] \in Nat /\ s[1] <= s[2] /\ s[2] <= Len(text)
      /\ s = <<s[1], s[2]>>
  BY DEF LieIn, Word
<1> DEFINE a == s[1]
           b == s[2]
<1>2. SubSeq(text, a + 1, b) \in Seq(Byte) /\ Len(SubSeq(text, a + 1, b)) = b - a
  <2>1. text \in Seq(Byte) /\ a \in Nat /\ b \in Nat /\ a <= b /\ b <= Len(text)
    BY <1>1
  <2> HIDE DEF a, b
  <2> QED
    BY <2>1
<1> QED
  BY <1>1, <1>2 DEF WordAt, Word

(* The words that spans mark, the empty ones left out *)
Marked(text, spans) == {WordAt(text, s) : s \in {x \in spans : x[1] < x[2]}}

(* Canonicalize sorts the spans by their words and keeps one of each,       *)
(* without the empty ones: what it keeps are the words in order.            *)
LEMMA CanonicalWords ==
    ASSUME NEW text, NEW spans, LieIn(text, spans)
    PROVE  InOrder([i \in DOMAIN Canonicalize(text, spans) |->
                       WordAt(text, Canonicalize(text, spans)[i])], Marked(text, spans))
<1> DEFINE filled == {x \in spans : x[1] < x[2]}
           D == Dedup(text, filled)
           w(s) == WordAt(text, s)
           W == Marked(text, spans)
           Before(r, s) == \/ Precedes(w(r), w(s))
                           \/ w(r) = w(s) /\ r[1] < s[1]
           R == {p \in D \X D : Before(p[1], p[2])}
           order == Canonicalize(text, spans)
           words == [i \in DOMAIN order |-> w(order[i])]
<1>1. /\ D \subseteq filled /\ filled \subseteq spans
      /\ IsFiniteSet(spans) /\ IsFiniteSet(filled) /\ IsFiniteSet(D)
  <2>1. D \subseteq filled /\ filled \subseteq spans
    BY DEF Dedup
  <2>2. IsFiniteSet(spans)
    BY DEF LieIn
  <2> HIDE DEF D, filled
  <2> QED
    BY <2>1, <2>2, FS_Subset
<1>2. \A s \in spans : w(s) \in Word /\ Len(w(s)) = s[2] - s[1] /\ s[1] \in Nat /\ s[2] \in Nat
                       /\ s = <<s[1], s[2]>>
  BY WordAtIs
<1>3. ASSUME NEW r \in D, NEW s \in D, w(r) = w(s)
      PROVE  r = s
  <2>1. r[1] <= s[1] /\ s[1] <= r[1]
    BY <1>1, <1>3 DEF Dedup
  <2>2. r \in spans /\ s \in spans
    BY <1>1
  <2>3. r[1] \in Nat /\ s[1] \in Nat /\ r[2] \in Nat /\ s[2] \in Nat /\ r[2] - r[1] = s[2] - s[1]
    BY <1>2, <1>3, <2>2
  <2>4. r[1] = s[1] /\ r[2] = s[2]
    BY <2>1, <2>3
  <2> QED
    BY <1>2, <2>2, <2>4
<1>4. ASSUME NEW s \in filled
      PROVE  \E r \in D : w(r) = w(s)
  <2> DEFINE S == {r[1] : r \in {x \in filled : w(x) = w(s)}}
  <2>1. S \in SUBSET Nat /\ S # {}
    <3>1. s[1] \in S
      OBVIOUS
    <3>2. S \subseteq Nat
      BY <1>1, <1>2
    <3> QED
      BY <3>1, <3>2
  <2>2. PICK m \in S : \A y \in S : m <= y
    <3> HIDE DEF S
    <3> QED
      BY <2>1, LeastExists
  <2>3. PICK r \in filled : w(r) = w(s) /\ m = r[1]
    BY <2>2
  <2>4. \A x \in filled : w(r) = w(x) => r[1] <= x[1]
    BY <2>2, <2>3
  <2> QED
    BY <2>3, <2>4 DEF Dedup
<1>5. W = {w(s) : s \in D}
  BY <1>1, <1>4 DEF Marked
<1>6. W \subseteq Word \ {<<>>}
  <2> SUFFICES ASSUME NEW s \in filled PROVE w(s) \in Word /\ w(s) # <<>>
    BY DEF Marked
  <2>1. s \in spans /\ s[1] < s[2]
    OBVIOUS
  <2>2. w(s) \in Word /\ Len(w(s)) = s[2] - s[1] /\ s[1] \in Nat /\ s[2] \in Nat
    BY <1>2, <2>1
  <2>3. Len(w(s)) # 0
    BY <2>1, <2>2
  <2>4. Len(<<>>) = 0
    OBVIOUS
  <2> QED
    BY <2>2, <2>3, <2>4
<1>7. Orders(R, D)
  <2>1. \A r \in D : w(r) \in Word
    BY <1>1, <1>2
  <2>2. ASSUME NEW r \in D, NEW s \in D
        PROVE  <<r, s>> \in R <=> Precedes(w(r), w(s))
    <3>1. ~ (w(r) = w(s) /\ r[1] < s[1])
      BY <1>1, <1>2, <1>3
    <3> QED
      BY <3>1
  <2>3. \A r, s \in D : <<r, s>> \in R => <<s, r>> \notin R
    BY <2>1, <2>2, PrecedesOneWay
  <2>4. \A q, r, s \in D : <<q, r>> \in R /\ <<r, s>> \in R => <<q, s>> \in R
    BY <2>1, <2>2, PrecedesOnwards
  <2>5. \A r, s \in D : r # s => <<r, s>> \in R \/ <<s, r>> \in R
    BY <1>3, <2>1, <2>2, PrecedesEitherWay
  <2> HIDE DEF R, D
  <2> QED
    BY <1>1, <2>3, <2>4, <2>5 DEF Orders
<1>8. order = [i \in 1 .. Cardinality(D) |-> CHOOSE k \in D : RankIn(R, D, k) = i - 1]
  <2>1. \A k \in D : {j \in D : <<j, k>> \in R} = {r \in D : Before(r, k)}
    OBVIOUS
  <2>2. order = [i \in 1 .. Cardinality(D) |->
                    CHOOSE s \in D : Cardinality({r \in D : Before(r, s)}) = i - 1]
    BY DEF Canonicalize, Sorted
  <2>3. ASSUME NEW k \in D
        PROVE  RankIn(R, D, k) = Cardinality({r \in D : Before(r, k)})
    BY <2>1 DEF RankIn
  <2> DEFINE byCount(i) == CHOOSE s \in D : Cardinality({r \in D : Before(r, s)}) = i - 1
             byRank(i) == CHOOSE k \in D : RankIn(R, D, k) = i - 1
  <2>4. \A i : byCount(i) = byRank(i)
    <3> HIDE DEF R, D, Before
    <3> QED
      BY <2>3
  <2>5. order = [i \in 1 .. Cardinality(D) |-> byCount(i)]
    BY <2>2
  <2>6. order = [i \in 1 .. Cardinality(D) |-> byRank(i)]
    <3> HIDE DEF order, D, byRank, byCount
    <3> QED
      BY <2>4, <2>5
  <2> QED
    BY <2>6
<1>9. Ascends(order, R, D) /\ Cardinality(D) \in Nat
  <2> HIDE DEF order, R, D
  <2> QED
    BY <1>7, <1>8, RankedAscends
<1>10. Cardinality(W) = Cardinality(D) /\ IsFiniteSet(W)
  <2> DEFINE f == [s \in D |-> w(s)]
  <2>1. f \in Bijection(D, W)
    <3>1. f \in [D -> W]
      BY <1>5
    <3>2. \A r, s \in D : f[r] = f[s] => r = s
      BY <1>3
    <3>3. \A x \in W : \E s \in D : f[s] = x
      BY <1>5
    <3> HIDE DEF f, D, W
    <3> QED
      BY <3>1, <3>2, <3>3 DEF Bijection, Injection, Surjection, IsInjective
  <2>2. ExistsBijection(D, W)
    <3> HIDE DEF f, D, W
    <3> QED
      BY <2>1 DEF ExistsBijection
  <2> HIDE DEF D, W
  <2> QED
    BY <1>1, <2>2, FS_Bijection
<1>11. Ascends(words, {p \in W \X W : Precedes(p[1], p[2])}, W)
  <2>1. DOMAIN words = 1 .. Cardinality(W) /\ DOMAIN order = DOMAIN words
    <3> HIDE DEF D, W, order, R
    <3> QED
      BY <1>9, <1>10 DEF Ascends
  <2>2. \A i \in DOMAIN order : order[i] \in D
    <3> HIDE DEF D, order, R
    <3> QED
      BY <1>9 DEF Ascends
  <2>3. \A k \in D : \E i \in DOMAIN order : order[i] = k
    <3> HIDE DEF D, order, R
    <3> QED
      BY <1>9 DEF Ascends
  <2>4. \A i, j \in DOMAIN order : i < j => <<order[i], order[j]>> \in R
    <3> HIDE DEF D, order, R
    <3> QED
      BY <1>9 DEF Ascends
  <2>5. \A i \in DOMAIN words : words[i] = w(order[i]) /\ words[i] \in W
    BY <1>5, <2>1, <2>2
  <2>6. \A k \in W : \E i \in DOMAIN words : words[i] = k
    <3> HIDE DEF D, order, W
    <3> QED
      BY <1>5, <2>1, <2>3
  <2>7. ASSUME NEW i \in DOMAIN words, NEW j \in DOMAIN words, i < j
        PROVE  Precedes(words[i], words[j])
    <3>1. Before(order[i], order[j]) /\ order[i] \in D /\ order[j] \in D
      BY <2>1, <2>2, <2>4, <2>7
    <3>2. ~ (w(order[i]) = w(order[j]) /\ order[i][1] < order[j][1])
      <4> DEFINE a == order[i]
                 b == order[j]
      <4>1. a \in D /\ b \in D
        BY <3>1
      <4> HIDE DEF a, b, D
      <4>2. ~ (w(a) = w(b) /\ a[1] < b[1])
        BY <1>1, <1>2, <1>3, <4>1
      <4> QED
        BY <4>2 DEF a, b
    <3> QED
      BY <2>5, <3>1, <3>2
  <2> HIDE DEF words, W
  <2> QED
    BY <2>1, <2>5, <2>6, <2>7 DEF Ascends
<1> QED
  BY <1>6, <1>10, <1>11 DEF InOrder

-----------------------------------------------------------------------------
(* The words of a text *)

(* What lies between separators, by its first and its last position *)
Gaps(text, sep) ==
    {s \in (0 .. Len(text)) \X (0 .. Len(text)) :
        s[1] <= s[2] /\ Between(text, sep, s[1] + 1, s[2])}

(* Split gives the gaps between the separators. *)
LEMMA SplitIs ==
    ASSUME NEW text \in Word, NEW sep
    PROVE  Split(text, sep) = Gaps(text, sep)
<1> DEFINE n == Len(text)
           cuts == {0, n + 1} \cup {i \in DOMAIN text : text[i] = sep}
           above(a) == {b \in cuts : b > a}
           next == [a \in cuts \ {n + 1} |-> Min(above(a))]
<1>1. n \in Nat /\ DOMAIN text = 1 .. n
  BY WordIs
<1>2. cuts \subseteq 0 .. n + 1 /\ n + 1 \in cuts /\ 0 \in cuts
  BY <1>1
<1>3. \A i \in 1 .. n : i \in cuts <=> text[i] = sep
  BY <1>1
<1> HIDE DEF cuts
<1>4. ASSUME NEW a \in cuts \ {n + 1}
      PROVE  next[a] \in cuts /\ next[a] > a /\ \A b \in cuts : b > a => next[a] <= b
  <2>1. above(a) \in SUBSET Nat /\ above(a) # {}
    <3>1. n \in Nat /\ a \in 0 .. n + 1 /\ a # n + 1
      BY <1>1, <1>2, <1>4
    <3> HIDE DEF n
    <3>2. n + 1 \in above(a)
      BY <1>2, <3>1
    <3>3. \A b \in cuts : b \in Nat
      BY <1>2, <3>1
    <3> QED
      BY <3>2, <3>3
  <2>2. Min(above(a)) \in above(a) /\ \A y \in above(a) : Min(above(a)) <= y
    <3> HIDE DEF above
    <3> QED
      BY <2>1, LeastIsMin
  <2> QED
    BY <2>2
<1>5. DOMAIN next = cuts \ {n + 1}
  OBVIOUS
<1>6. Split(text, sep) = {<<a, next[a] - 1>> : a \in DOMAIN next}
  BY DEF Split, cuts
<1> HIDE DEF next, n
<1>7. ASSUME NEW a \in DOMAIN next
      PROVE  <<a, next[a] - 1>> \in Gaps(text, sep)
  <2> DEFINE b == next[a]
  <2>1. b \in cuts /\ b > a /\ \A c \in cuts : c > a => b <= c
    BY <1>4, <1>5
  <2> HIDE DEF b
  <2>2. a \in 0 .. n /\ b \in 1 .. n + 1
    <3>1. n \in Nat
      BY <1>1
    <3>2. a \in 0 .. n + 1 /\ a # n + 1 /\ b \in 0 .. n + 1 /\ b > a
      BY <1>2, <1>5, <2>1
    <3> QED
      BY <3>1, <3>2
  <2>3. a + 1 = 1 \/ text[(a + 1) - 1] = sep
    BY <1>1, <1>3, <1>5, <2>2
  <2>4. b - 1 = n \/ text[(b - 1) + 1] = sep
    BY <1>1, <1>3, <2>1, <2>2
  <2>5. \A k \in a + 1 .. b - 1 : text[k] # sep
    BY <1>1, <1>3, <2>1, <2>2
  <2>6. Between(text, sep, a + 1, b - 1)
    BY <2>3, <2>4, <2>5 DEF Between, n
  <2> QED
    BY <1>1, <2>1, <2>2, <2>6 DEF Gaps, n, b
<1>8. ASSUME NEW s \in Gaps(text, sep)
      PROVE  \E a \in DOMAIN next : s = <<a, next[a] - 1>>
  <2> DEFINE a == s[1]
             b == s[2] + 1
  <2>1. a \in 0 .. n /\ b \in 1 .. n + 1 /\ a < b /\ s = <<a, b - 1>>
    BY <1>1 DEF Gaps, n
  <2>2. Between(text, sep, a + 1, b - 1)
    BY <1>1 DEF Gaps, n
  <2> HIDE DEF a, b
  <2>3. /\ a + 1 = 1 \/ text[(a + 1) - 1] = sep
        /\ b - 1 = n \/ text[(b - 1) + 1] = sep
        /\ \A k \in a + 1 .. b - 1 : text[k] # sep
    BY <2>2 DEF Between, n
  <2>4. a \in cuts /\ a # n + 1
    BY <1>1, <1>2, <1>3, <2>1, <2>3
  <2>5. b \in cuts
    BY <1>1, <1>2, <1>3, <2>1, <2>3
  <2>6. \A c \in cuts : c > a => b <= c
    <3> SUFFICES ASSUME NEW c \in cuts, c > a, c < b PROVE FALSE
      BY <1>1, <1>2, <2>1
    <3>1. c \in 1 .. n /\ c \in a + 1 .. b - 1
      BY <1>1, <1>2, <2>1
    <3> QED
      BY <1>3, <2>3, <3>1
  <2>7. a \in DOMAIN next
    BY <1>5, <2>4
  <2>8. next[a] = b
    <3>1. next[a] \in cuts /\ next[a] > a /\ \A c \in cuts : c > a => next[a] <= c
      BY <1>4, <2>4
    <3>2. next[a] <= b /\ b <= next[a]
      BY <2>1, <2>5, <2>6, <3>1
    <3> DEFINE c == next[a]
    <3>3. c \in 0 .. n + 1 /\ b \in 0 .. n + 1 /\ n \in Nat /\ c <= b /\ b <= c
      BY <1>1, <1>2, <2>5, <3>1, <3>2
    <3> HIDE DEF c
    <3>4. c = b
      BY <3>3
    <3> QED
      BY <3>4 DEF c
  <2> QED
    BY <2>1, <2>7, <2>8
<1> QED
  BY <1>6, <1>7, <1>8

(* The gaps are spans of the text. *)
LEMMA GapsLieIn ==
    ASSUME NEW text \in Word, NEW sep
    PROVE  LieIn(text, Gaps(text, sep))
<1>1. Len(text) \in Nat
  BY WordIs
<1>2. IsFiniteSet(Gaps(text, sep))
  <2>1. IsFiniteSet(0 .. Len(text))
    <3>1. 0 \in Int /\ Len(text) \in Int
      BY <1>1
    <3> QED
      BY ONLY <3>1, FS_Interval
  <2>2. IsFiniteSet((0 .. Len(text)) \X (0 .. Len(text)))
    BY <2>1, FS_Product
  <2>3. Gaps(text, sep) \subseteq (0 .. Len(text)) \X (0 .. Len(text))
    BY DEF Gaps
  <2> QED
    BY <2>2, <2>3, FS_Subset
<1> QED
  BY <1>1, <1>2 DEF LieIn, Gaps

(* Split at a separator, a text has the words that lie between separators. *)
LEMMA SepWords ==
    ASSUME NEW text \in Word, NEW sep
    PROVE  Marked(text, Gaps(text, sep))
           = {SubSeq(text, p[1], p[2]) : p \in
                {q \in {x \in (DOMAIN text) \X (DOMAIN text) : x[1] <= x[2]} :
                    Between(text, sep, q[1], q[2])}}
<1> DEFINE P == {q \in {x \in (DOMAIN text) \X (DOMAIN text) : x[1] <= x[2]} :
                    Between(text, sep, q[1], q[2])}
           G == {x \in Gaps(text, sep) : x[1] < x[2]}
<1>1. Len(text) \in Nat /\ DOMAIN text = 1 .. Len(text)
  BY WordIs
<1>2. ASSUME NEW s \in G
      PROVE  <<s[1] + 1, s[2]>> \in P /\ WordAt(text, s) = SubSeq(text, s[1] + 1, s[2])
  BY <1>1 DEF Gaps, WordAt
<1>3. ASSUME NEW p \in P
      PROVE  <<p[1] - 1, p[2]>> \in G /\ WordAt(text, <<p[1] - 1, p[2]>>) = SubSeq(text, p[1], p[2])
  <2> DEFINE a == p[1] - 1
             b == p[2]
             n == Len(text)
             s == <<a, b>>
  <2>1. /\ p[1] \in 1 .. Len(text) /\ p[2] \in 1 .. Len(text) /\ p[1] <= p[2]
        /\ Between(text, sep, p[1], p[2])
    BY <1>1
  <2>2. a + 1 = p[1] /\ a \in 0 .. n /\ b \in 0 .. n /\ a < b /\ a <= b
    BY <1>1, <2>1
  <2>3. Between(text, sep, a + 1, b)
    BY <2>1, <2>2
  <2> HIDE DEF a, b
  <2>4. s \in Gaps(text, sep) /\ s[1] < s[2]
    BY <2>2, <2>3 DEF Gaps
  <2>5. WordAt(text, s) = SubSeq(text, a + 1, b)
    BY DEF WordAt
  <2> QED
    BY <2>2, <2>4, <2>5 DEF a, b
<1>4. ASSUME NEW w \in Marked(text, Gaps(text, sep))
      PROVE  \E p \in P : w = SubSeq(text, p[1], p[2])
  <2>1. PICK s \in G : w = WordAt(text, s)
    BY DEF Marked
  <2>2. <<s[1] + 1, s[2]>> \in P /\ w = SubSeq(text, s[1] + 1, s[2])
    BY <1>2, <2>1
  <2> DEFINE p == <<s[1] + 1, s[2]>>
  <2>3. p \in P /\ w = SubSeq(text, p[1], p[2])
    BY <2>2
  <2> QED
    BY <2>3
<1>5. ASSUME NEW p \in P
      PROVE  SubSeq(text, p[1], p[2]) \in Marked(text, Gaps(text, sep))
  BY <1>3 DEF Marked
<1> QED
  BY <1>4, <1>5

(* Split into lines and trimmed, it has the words that lie between          *)
(* newlines, blanks aside.                                                  *)
LEMMA LineWords ==
    ASSUME NEW text \in Word
    PROVE  /\ LieIn(text, {Trim(text, s) : s \in Split(text, Newline)})
           /\ Marked(text, {Trim(text, s) : s \in Split(text, Newline)})
              = {SubSeq(text, p[1], p[2]) : p \in
                   {q \in {x \in (DOMAIN text) \X (DOMAIN text) : x[1] <= x[2]} :
                       IsWord(text, q[1], q[2])}}
<1> DEFINE P == {q \in {x \in (DOMAIN text) \X (DOMAIN text) : x[1] <= x[2]} :
                    IsWord(text, q[1], q[2])}
           G == Gaps(text, Newline)
           T == {Trim(text, s) : s \in Split(text, Newline)}
           black(s) == {i \in s[1] + 1 .. s[2] : text[i] \notin Whitespace}
           n == Len(text)
<1>1. n \in Nat /\ DOMAIN text = 1 .. n
  BY WordIs
<1>2. LieIn(text, G)
  BY GapsLieIn
<1>3. T = {Trim(text, s) : s \in G}
  BY SplitIs
<1>4. \A s \in G : s[1] \in 0 .. n /\ s[2] \in 0 .. n /\ s[1] <= s[2] /\ s = <<s[1], s[2]>>
                   /\ Between(text, Newline, s[1] + 1, s[2])
  BY <1>1 DEF Gaps
<1>5. ASSUME NEW s \in G, black(s) = {}
      PROVE  Trim(text, s) = <<s[1], s[1]>>
  BY <1>5 DEF Trim
<1>6. ASSUME NEW s \in G, black(s) # {}
      PROVE  \E i, j \in black(s) : /\ Trim(text, s) = <<i - 1, j>>
                                    /\ \A k \in black(s) : i <= k /\ k <= j
  <2>1. black(s) \in SUBSET Nat /\ black(s) \in SUBSET (1 .. n)
    BY <1>1, <1>4
  <2>2. Min(black(s)) \in black(s) /\ \A k \in black(s) : Min(black(s)) <= k
    <3> HIDE DEF black
    <3> QED
      BY <1>6, <2>1, LeastIsMin
  <2>3. Max(black(s)) \in black(s) /\ \A k \in black(s) : k <= Max(black(s))
    <3> HIDE DEF black
    <3> QED
      BY <1>1, <1>6, <2>1, GreatestIsMax
  <2>4. Trim(text, s) = <<Min(black(s)) - 1, Max(black(s))>>
    BY <1>6 DEF Trim
  <2> HIDE DEF black
  <2> QED
    BY <2>2, <2>3, <2>4
<1>7. \A s \in G : \A k \in black(s) : k \in 1 .. n /\ s[1] + 1 <= k /\ k <= s[2] /\ text[k] \notin Whitespace
  BY <1>1, <1>4
<1>8. ASSUME NEW s \in G
      PROVE  /\ Trim(text, s) \in Nat \X Nat
             /\ Trim(text, s)[1] <= Trim(text, s)[2] /\ Trim(text, s)[2] <= n
  <2>1. CASE black(s) = {}
    <3>1. s[1] \in Nat /\ s[1] <= n
      BY <1>1, <1>4
    <3> QED
      BY <1>5, <2>1, <3>1
  <2>2. CASE black(s) # {}
    <3>1. PICK i, j \in black(s) : Trim(text, s) = <<i - 1, j>> /\ i <= j
      BY <1>6, <2>2
    <3>2. i \in 1 .. n /\ j \in 1 .. n
      BY <1>7
    <3> QED
      BY <1>1, <3>1, <3>2
  <2> QED
    BY <2>1, <2>2
<1>9. IsFiniteSet(T)
  <2>1. IsFiniteSet(G)
    BY <1>2 DEF LieIn
  <2>2. IsFiniteSet({Trim(text, s) : s \in G})
    <3> DEFINE f == [s \in G |-> Trim(text, s)]
               image == {Trim(text, s) : s \in G}
    <3>1. f \in Surjection(G, image)
      BY DEF Surjection
    <3> HIDE DEF f, G, image
    <3>2. IsFiniteSet(image)
      BY <2>1, <3>1, FS_Surjection
    <3> QED
      BY <3>2 DEF image
  <2> QED
    BY <1>3, <2>2
<1>10. LieIn(text, T)
  <2> HIDE DEF G
  <2>1. \A t \in T : t \in Nat \X Nat /\ t[1] <= t[2] /\ t[2] <= n
    BY <1>3, <1>8
  <2> HIDE DEF T
  <2> QED
    BY <1>9, <2>1 DEF LieIn
<1>11. ASSUME NEW w \in Marked(text, T)
       PROVE  \E p \in P : w = SubSeq(text, p[1], p[2])
  <2>1. PICK t \in T : t[1] < t[2] /\ w = WordAt(text, t)
    BY DEF Marked
  <2>2. PICK s \in G : t = Trim(text, s)
    BY <1>3
  <2>3. black(s) # {}
    <3> SUFFICES ASSUME black(s) = {} PROVE FALSE
      OBVIOUS
    <3>1. t = <<s[1], s[1]>> /\ s[1] \in Nat
      BY <1>4, <1>5, <2>2
    <3> QED
      BY <2>1, <3>1
  <2>4. PICK i, j \in black(s) : t = <<i - 1, j>> /\ \A k \in black(s) : i <= k /\ k <= j
    BY <1>6, <2>2, <2>3
  <2>5. /\ i \in 1 .. n /\ s[1] + 1 <= i /\ i <= s[2] /\ text[i] \notin Whitespace
        /\ j \in 1 .. n /\ s[1] + 1 <= j /\ j <= s[2] /\ text[j] \notin Whitespace
    BY <1>7
  <2>6. /\ s[1] \in 0 .. n /\ s[2] \in 0 .. n /\ s[1] <= s[2]
        /\ Between(text, Newline, s[1] + 1, s[2])
    BY <1>4
  <2>7. \A k \in (s[1] + 1 .. i - 1) \cup (j + 1 .. s[2]) : text[k] \in Whitespace
    <3> SUFFICES ASSUME NEW k \in (s[1] + 1 .. i - 1) \cup (j + 1 .. s[2]), text[k] \notin Whitespace
                 PROVE  FALSE
      OBVIOUS
    <3>1. k \in s[1] + 1 .. s[2] /\ (k < i \/ j < k)
      BY <1>1, <2>5, <2>6
    <3>2. k \in black(s)
      BY <3>1
    <3>3. i <= k /\ k <= j
      BY <2>4, <3>2
    <3> HIDE DEF black, G
    <3> QED
      BY <1>1, <2>5, <2>6, <3>1, <3>3
  <2>8. s[1] + 1 \in 1 .. i /\ s[2] \in j .. n /\ i <= j
    <3>1. i <= j
      <4> HIDE DEF black
      <4> QED
        BY <2>4
    <3> QED
      BY <1>1, <2>5, <2>6, <3>1
  <2>9. IsWord(text, i, j)
    BY <2>5, <2>6, <2>7, <2>8 DEF IsWord
  <2>10. <<i, j>> \in P
    BY <1>1, <2>5, <2>8, <2>9
  <2>11. w = SubSeq(text, i, j)
    <3>1. (i - 1) + 1 = i
      BY <2>5
    <3>2. t[1] = i - 1 /\ t[2] = j
      <4> HIDE DEF black
      <4> QED
        BY <2>4
    <3> QED
      BY <2>1, <3>1, <3>2 DEF WordAt
  <2> DEFINE p == <<i, j>>
  <2>12. p \in P /\ w = SubSeq(text, p[1], p[2])
    BY <2>10, <2>11
  <2> HIDE DEF p, P
  <2> QED
    BY <2>12
<1>12. ASSUME NEW p \in P
       PROVE  SubSeq(text, p[1], p[2]) \in Marked(text, T)
  <2> DEFINE i == p[1]
             j == p[2]
  <2>1. i \in 1 .. n /\ j \in 1 .. n /\ i <= j /\ IsWord(text, i, j)
    BY <1>1
  <2> HIDE DEF i, j
  <2>2. /\ text[i] \notin Whitespace /\ text[j] \notin Whitespace
        /\ \E first \in 1 .. i, last \in j .. n :
              /\ Between(text, Newline, first, last)
              /\ \A k \in (first .. i - 1) \cup (j + 1 .. last) : text[k] \in Whitespace
    BY <2>1 DEF IsWord
  <2>3. PICK first \in 1 .. i, last \in j .. n :
              /\ Between(text, Newline, first, last)
              /\ \A k \in (first .. i - 1) \cup (j + 1 .. last) : text[k] \in Whitespace
    BY <2>2
  <2> DEFINE s == <<first - 1, last>>
  <2>4. s \in G
    <3>1. (first - 1) + 1 = first /\ first - 1 \in 0 .. n /\ last \in 0 .. n /\ first - 1 <= last
      BY <1>1, <2>1
    <3> QED
      BY <2>3, <3>1 DEF Gaps
  <2>5. black(s) = {k \in first .. last : text[k] \notin Whitespace}
    <3>1. (first - 1) + 1 = first
      BY <1>1, <2>1
    <3> QED
      BY <3>1
  <2>6. i \in black(s) /\ j \in black(s)
    BY <1>1, <2>1, <2>2, <2>5
  <2>7. \A k \in black(s) : i <= k /\ k <= j
    <3> SUFFICES ASSUME NEW k \in black(s) PROVE i <= k /\ k <= j
      OBVIOUS
    <3>1. k \in first .. last /\ text[k] \notin Whitespace
      BY <2>5
    <3>2. k \notin first .. i - 1 /\ k \notin j + 1 .. last
      BY <2>3, <3>1
    <3> HIDE DEF black, G, s
    <3> QED
      BY <1>1, <2>1, <3>1, <3>2
  <2>8. PICK a, b \in black(s) : Trim(text, s) = <<a - 1, b>> /\ \A k \in black(s) : a <= k /\ k <= b
    BY <1>6, <2>4, <2>6
  <2>9. a = i /\ b = j
    <3>1. a <= i /\ i <= a /\ b <= j /\ j <= b /\ a \in 1 .. n /\ b \in 1 .. n
      BY <1>7, <2>4, <2>6, <2>7, <2>8
    <3> HIDE DEF black, G, s
    <3> QED
      BY <1>1, <2>1, <3>1
  <2>10. <<i - 1, j>> \in T
    <3>1. Trim(text, s) = <<i - 1, j>>
      BY <2>8, <2>9
    <3> HIDE DEF G, s
    <3> QED
      BY <1>3, <2>4, <3>1
  <2>11. i - 1 < j /\ (i - 1) + 1 = i
    BY <1>1, <2>1
  <2>12. WordAt(text, <<i - 1, j>>) = SubSeq(text, i, j)
    BY <2>11 DEF WordAt
  <2>13. SubSeq(text, i, j) \in Marked(text, T)
    <3> DEFINE t == <<i - 1, j>>
    <3>1. t \in T /\ t[1] < t[2] /\ WordAt(text, t) = SubSeq(text, i, j)
      BY <2>10, <2>11, <2>12
    <3> HIDE DEF t, T
    <3> QED
      BY <3>1 DEF Marked
  <2> QED
    BY <2>13 DEF i, j
<1>13. Marked(text, T) = {SubSeq(text, p[1], p[2]) : p \in P}
  <2> HIDE DEF P, T
  <2> QED
    BY <1>11, <1>12
<1> QED
  BY <1>10, <1>13

-----------------------------------------------------------------------------
(* The lists *)

(* The text that is hashed *)
Text(words) == FlattenSeq([i \in DOMAIN words |-> Line(words[i])])

(* A word list as its users see it: the words of W in order, and their hash *)
Lists(d, W) == InOrder(d.words, W) /\ d.hash = Text(d.words)

(* The list of a text and some spans lists the words that are at the spans. *)
LEMMA CanonicalList ==
    ASSUME NEW text, NEW spans, LieIn(text, spans)
    PROVE  Lists(View(BoxDict(text, Canonicalize(text, spans))), Marked(text, spans))
<1> DEFINE order == Canonicalize(text, spans)
           words == [i \in DOMAIN order |-> WordAt(text, order[i])]
<1>1. InOrder(words, Marked(text, spans))
  BY CanonicalWords
<1> HIDE DEF order
<1>2. View(BoxDict(text, order)) = [words |-> words, hash |-> Hash(text, order)]
  BY DEF View, Words, BoxDict
<1>3. Hash(text, order) = Text(words)
  <2>1. Hash(text, order) = FlattenSeq([i \in DOMAIN order |-> Line(WordAt(text, order[i]))])
    BY DEF Hash
  <2>2. [i \in DOMAIN order |-> Line(WordAt(text, order[i]))] = [i \in DOMAIN words |-> Line(words[i])]
    OBVIOUS
  <2> QED
    BY <2>1, <2>2 DEF Text
<1> HIDE DEF words
<1>4. Lists([words |-> words, hash |-> Hash(text, order)], Marked(text, spans))
  BY <1>1, <1>3 DEF Lists
<1> QED
  BY <1>2, <1>4 DEF order

(* What a sequence of words is *)
LEMMA WordsAreNumbered ==
    ASSUME NEW words \in Seq(Word)
    PROVE  /\ Len(words) \in Nat /\ DOMAIN words = 1 .. Len(words)
           /\ Len(words) = 0 => words = <<>>
           /\ \A k \in 1 .. Len(words) : words[k] \in Word
OBVIOUS

(* The list of an iterator has its words, without the empty one. *)
LEMMA IterList ==
    ASSUME NEW words \in Seq(Word)
    PROVE  Lists(View(FromIter(words)), ToSet(words) \ {<<>>})
<1> DEFINE n == Len(words)
           text == FlattenSeq(words)
           spans == Spans(words)
           marks == ToSet(spans)
           order == Canonicalize(text, marks)
           found == [i \in DOMAIN order |-> WordAt(text, order[i])]
<1>1. /\ n \in Nat /\ DOMAIN words = 1 .. n /\ (n = 0 => words = <<>>)
      /\ \A k \in 1 .. n : words[k] \in Word
  BY WordsAreNumbered
<1>2. /\ text \in Word /\ DOMAIN spans = 1 .. n
      /\ \A k \in 1 .. n : /\ spans[k] \in Nat \X Nat
                           /\ spans[k][1] <= spans[k][2] /\ spans[k][2] <= Len(text)
                           /\ WordAt(text, spans[k]) = words[k]
  BY <1>1, SpansFindTheWords
<1>3. marks = {spans[k] : k \in 1 .. n}
  BY <1>2 DEF ToSet
<1>4. IsFiniteSet(marks)
  <2> DEFINE f == [k \in 1 .. n |-> spans[k]]
  <2>1. f \in Surjection(1 .. n, marks)
    <3>1. f \in [1 .. n -> marks] /\ \A s \in marks : \E k \in 1 .. n : f[k] = s
      <4> HIDE DEF spans, n
      <4> QED
        BY <1>3
    <3> HIDE DEF f, marks, n
    <3> QED
      BY <3>1 DEF Surjection
  <2>2. IsFiniteSet(1 .. n)
    <3>1. 1 \in Int /\ n \in Int
      BY <1>1
    <3> QED
      BY ONLY <3>1, FS_Interval
  <2> HIDE DEF f, marks, n
  <2> QED
    BY <2>1, <2>2, FS_Surjection
<1> HIDE DEF spans, text, n
<1>5. LieIn(text, marks)
  BY <1>2, <1>3, <1>4 DEF LieIn
<1>6. Marked(text, marks) = ToSet(words) \ {<<>>}
  <2>1. ToSet(words) = {words[k] : k \in 1 .. n}
    BY <1>1 DEF ToSet
  <2>2. ASSUME NEW k \in 1 .. n
        PROVE  words[k] # <<>> <=> spans[k][1] < spans[k][2]
    <3>1. LieIn(text, marks) /\ spans[k] \in marks
      BY <1>3, <1>5
    <3>2. /\ Len(words[k]) = spans[k][2] - spans[k][1] /\ spans[k][1] \in Nat /\ spans[k][2] \in Nat
      BY <1>2, <3>1, WordAtIs
    <3>3. spans[k][1] <= spans[k][2] /\ words[k] \in Seq(Byte)
      BY <1>1, <1>2 DEF Word
    <3>4. words[k] = <<>> <=> Len(words[k]) = 0
      BY <3>3
    <3> QED
      BY <3>2, <3>3, <3>4
  <2>3. Marked(text, marks) = {WordAt(text, spans[k]) : k \in {i \in 1 .. n : spans[i][1] < spans[i][2]}}
    BY <1>3 DEF Marked
  <2> HIDE DEF marks
  <2> QED
    BY <1>2, <2>1, <2>2, <2>3
<1>7. InOrder(found, ToSet(words) \ {<<>>})
  <2>1. InOrder(found, Marked(text, marks))
    BY <1>5, CanonicalWords
  <2> QED
    BY <1>6, <2>1
<1>8. FromIter(words) = BoxDict(FlattenSeq(found), Spans(found))
  BY DEF FromIter, Compact, text, spans
<1> HIDE DEF found
<1>9. found \in Seq(Word) /\ found = [i \in DOMAIN found |-> found[i]]
  BY <1>7, InOrderIs DEF InOrder
<1> DEFINE m == Len(found)
           kept == FlattenSeq(found)
           where == Spans(found)
<1>10. /\ m \in Nat /\ DOMAIN found = 1 .. m /\ (m = 0 => found = <<>>)
       /\ \A k \in 1 .. m : found[k] \in Word
  BY <1>9, WordsAreNumbered
<1>11. DOMAIN where = 1 .. m /\ \A k \in 1 .. m : WordAt(kept, where[k]) = found[k]
  BY <1>10, SpansFindTheWords
<1>12. [i \in DOMAIN where |-> WordAt(kept, where[i])] = found
  <2> HIDE DEF where, kept, m
  <2> QED
    BY <1>9, <1>10, <1>11
<1>13. Hash(kept, where) = Text(found)
  <2>1. [i \in DOMAIN where |-> Line(WordAt(kept, where[i]))] = [i \in DOMAIN found |-> Line(found[i])]
    <3> HIDE DEF where, kept, m
    <3> QED
      BY <1>10, <1>11
  <2> QED
    BY <2>1 DEF Hash, Text
<1>14. View(FromIter(words)) = [words |-> found, hash |-> Text(found)]
  <2> HIDE DEF where, kept
  <2>1. View(BoxDict(kept, where)) = [words |-> [i \in DOMAIN where |-> WordAt(kept, where[i])],
                                      hash |-> Hash(kept, where)]
    BY DEF View, Words, BoxDict
  <2> QED
    BY <1>8, <1>12, <1>13, <2>1 DEF kept, where
<1> QED
  BY <1>7, <1>14 DEF Lists

(* A source that Dict's constructors take *)
IsSource(s) ==
    CASE s.kind = "lines" -> s.text \in Seq(Byte)
      [] s.kind = "sep" -> s.text \in Seq(Byte) /\ s.sep \in Byte
      [] OTHER -> s.kind = "iter" /\ s.words \in Seq(Seq(Byte))

(* However a word list is given, what Load makes of it has its words, each  *)
(* once and in order, and their text as hash.                               *)
LEMMA LoadLists ==
    ASSUME NEW s, IsSource(s)
    PROVE  Lists(Load(s), WordsIn(s))
<1>1. CASE s.kind = "lines"
  <2>1. s.text \in Word
    BY <1>1 DEF IsSource, Word
  <2>2. Load(s) = View(FromLines(s.text))
    BY <1>1 DEF Load
  <2>3. Lists(View(FromLines(s.text)), Marked(s.text, {Trim(s.text, x) : x \in Split(s.text, Newline)}))
    BY <2>1, LineWords, CanonicalList DEF FromLines
  <2>4. WordsIn(s) = Marked(s.text, {Trim(s.text, x) : x \in Split(s.text, Newline)})
    BY <1>1, <2>1, LineWords DEF WordsIn
  <2> QED
    BY <2>2, <2>3, <2>4
<1>2. CASE s.kind = "sep"
  <2>1. s.text \in Word
    BY <1>2 DEF IsSource, Word
  <2>2. Load(s) = View(FromSep(s.text, s.sep))
    BY <1>2 DEF Load
  <2>3. Lists(View(FromSep(s.text, s.sep)), Marked(s.text, Gaps(s.text, s.sep)))
    BY <2>1, SplitIs, GapsLieIn, CanonicalList DEF FromSep
  <2>4. WordsIn(s) = Marked(s.text, Gaps(s.text, s.sep))
    BY <1>2, <2>1, SepWords DEF WordsIn
  <2> QED
    BY <2>2, <2>3, <2>4
<1>3. CASE s.kind # "lines" /\ s.kind # "sep"
  <2>1. s.kind = "iter" /\ s.words \in Seq(Word)
    BY <1>3 DEF IsSource, Word
  <2>2. Load(s) = View(FromIter(s.words)) /\ WordsIn(s) = ToSet(s.words) \ {<<>>}
    BY <2>1 DEF Load, WordsIn
  <2> QED
    BY <2>1, <2>2, IterList
<1> QED
  BY <1>1, <1>2, <1>3

-----------------------------------------------------------------------------
(* The hash: escaped words in lines are told apart *)

(* No code begins another one. *)
IsCode(C) ==
    /\ C \subseteq Word
    /\ \A c \in C : Len(c) > 0
    /\ \A c, d \in C : c # d => \E x \in 1 .. Len(c) : x <= Len(d) /\ c[x] # d[x]

(* What is joined of codes comes apart in one way. *)
LEMMA CodesComeApart ==
    ASSUME NEW C, IsCode(C), NEW a \in Seq(C), NEW b \in Seq(C), FlattenSeq(a) = FlattenSeq(b)
    PROVE  a = b
<1> DEFINE m == Len(a)
           n == Len(b)
<1>1. /\ m \in Nat /\ n \in Nat /\ (m = 0 => a = <<>>) /\ (n = 0 => b = <<>>)
      /\ \A k \in 1 .. m : a[k] \in C
      /\ \A k \in 1 .. n : b[k] \in C
  OBVIOUS
<1>2. \A c \in C : c \in Word /\ Len(c) \in Nat /\ Len(c) > 0
  BY WordIs DEF IsCode
<1>3. PICK ta : IsJoining(ta, a, m) /\ FlattenSeq(a) = ta[m]
  <2>1. \A k \in 1 .. m : a[k] \in Word
    BY <1>1, <1>2
  <2> QED
    BY <1>1, <2>1, FlattenSeqJoins
<1>4. PICK tb : IsJoining(tb, b, n) /\ FlattenSeq(b) = tb[n]
  <2>1. \A k \in 1 .. n : b[k] \in Word
    BY <1>1, <1>2
  <2> QED
    BY <1>1, <2>1, FlattenSeqJoins
<1>5. Joined(ta, a, m)
  <2>1. \A k \in 1 .. m : a[k] \in Word
    BY <1>1, <1>2
  <2> QED
    BY <1>1, <1>3, <2>1, JoiningIs
<1>6. Joined(tb, b, n)
  <2>1. \A k \in 1 .. n : b[k] \in Word
    BY <1>1, <1>2
  <2> QED
    BY <1>1, <1>4, <2>1, JoiningIs
<1>7. (\A k \in 0 .. m : ta[k] \in Word /\ Len(ta[k]) \in Nat) /\ \A k \in 0 .. n : tb[k] \in Word /\ Len(tb[k]) \in Nat
  <2>1. ta \in [0 .. m -> Word] /\ tb \in [0 .. n -> Word]
    BY <1>3, <1>4 DEF IsJoining, Joining, Word
  <2> QED
    BY <2>1, WordIs
<1>8. ta[0] = <<>> /\ tb[0] = <<>> /\ ta[m] = tb[n]
  BY <1>3, <1>4 DEF IsJoining, Joining, Word
<1> HIDE DEF m, n
<1>9. ASSUME NEW k \in Nat, k \in 1 .. m, k \in 1 .. n, Len(ta[k - 1]) = Len(tb[k - 1])
      PROVE  a[k] = b[k] /\ Len(ta[k]) = Len(tb[k])
  <2> DEFINE p == Len(ta[k - 1])
             c == a[k]
             d == b[k]
  <2>1. c \in C /\ d \in C /\ Len(c) \in Nat /\ Len(d) \in Nat /\ p \in Nat
    <3>1. k - 1 \in 0 .. m
      BY <1>1, <1>9
    <3> QED
      BY <1>1, <1>2, <1>7, <1>9, <3>1
  <2>2. Len(ta[k]) = p + Len(c) /\ Len(tb[k]) = p + Len(d)
    BY <1>5, <1>6, <1>9 DEF Joined
  <2>3. c = d
    <3> SUFFICES ASSUME c # d PROVE FALSE
      OBVIOUS
    <3>1. PICK x \in 1 .. Len(c) : x <= Len(d) /\ c[x] # d[x]
      BY <2>1 DEF IsCode
    <3>2. x \in 1 .. Len(d) /\ p + x \in 1 .. p + Len(c) /\ p + x \in 1 .. p + Len(d)
      <4> HIDE DEF p, c, d
      <4> QED
        BY <2>1, <3>1
    <3>3. ta[k][p + x] = c[x] /\ tb[k][p + x] = d[x]
      BY <1>5, <1>6, <1>9, <3>1, <3>2 DEF Joined
    <3>4. ta[m][p + x] = ta[k][p + x]
      <4>1. p + x \in 1 .. Len(ta[k])
        BY <2>2, <3>2
      <4>3. m \in 0 .. m /\ k \in 0 .. m
        BY <1>1, <1>9
      <4>2. \A i \in 0 .. m : \A j \in 0 .. i :
               \A y \in 1 .. Len(ta[j]) : ta[i][y] = ta[j][y]
        BY <1>5 DEF Joined
      <4> QED
        BY <4>1, <4>2, <4>3
    <3>5. tb[n][p + x] = tb[k][p + x]
      <4>1. p + x \in 1 .. Len(tb[k])
        BY <2>2, <3>2
      <4>3. n \in 0 .. n /\ k \in 0 .. n
        BY <1>1, <1>9
      <4>2. \A i \in 0 .. n : \A j \in 0 .. i :
               \A y \in 1 .. Len(tb[j]) : tb[i][y] = tb[j][y]
        BY <1>6 DEF Joined
      <4> QED
        BY <4>1, <4>2, <4>3
    <3> QED
      BY <1>8, <3>1, <3>3, <3>4, <3>5
  <2> QED
    BY <2>2, <2>3
<1> DEFINE S == {k \in Nat : k <= m /\ k <= n =>
                    /\ Len(ta[k]) = Len(tb[k])
                    /\ \A j \in 1 .. k : a[j] = b[j]}
<1>10. 0 \in S
  BY <1>8
<1>11. ASSUME NEW k \in Nat, k \in S
       PROVE  k + 1 \in S
  <2> SUFFICES ASSUME k + 1 <= m, k + 1 <= n
               PROVE  /\ Len(ta[k + 1]) = Len(tb[k + 1])
                      /\ \A j \in 1 .. k + 1 : a[j] = b[j]
    OBVIOUS
  <2>1. k <= m /\ k <= n /\ k + 1 \in 1 .. m /\ k + 1 \in 1 .. n /\ (k + 1) - 1 = k /\ k + 1 \in Nat
    BY <1>1
  <2>2. Len(ta[k]) = Len(tb[k]) /\ \A j \in 1 .. k : a[j] = b[j]
    BY <1>11, <2>1
  <2>3. a[k + 1] = b[k + 1] /\ Len(ta[k + 1]) = Len(tb[k + 1])
    BY <1>9, <2>1, <2>2
  <2>4. \A j \in 1 .. k + 1 : j \in 1 .. k \/ j = k + 1
    OBVIOUS
  <2> QED
    BY <2>2, <2>3, <2>4
<1>12. Nat \subseteq S
  <2> HIDE DEF S
  <2> QED
    BY <1>10, <1>11, SetInduction
<1>13. m = n
  <2>1. ~ (m < n)
    <3> SUFFICES ASSUME m < n PROVE FALSE
      OBVIOUS
    <3>1. Len(ta[m]) = Len(tb[m])
      BY <1>1, <1>12
    <3>2. m + 1 \in 1 .. n /\ (m + 1) - 1 = m /\ m + 1 \in 0 .. n /\ n \in 0 .. n /\ m \in 0 .. n
      BY <1>1
    <3>3. Len(tb[m + 1]) = Len(tb[m]) + Len(b[m + 1]) /\ Len(tb[m + 1]) <= Len(tb[n])
      BY <1>6, <3>2 DEF Joined
    <3>4. Len(tb[m]) \in Nat /\ Len(tb[n]) \in Nat /\ Len(b[m + 1]) \in Nat /\ Len(b[m + 1]) > 0
      BY <1>1, <1>2, <1>7, <3>2
    <3>5. Len(tb[m]) = Len(tb[n])
      BY <1>8, <3>1
    <3> DEFINE x == Len(tb[m])
               y == Len(b[m + 1])
    <3>6. x + y <= x /\ x \in Nat /\ y \in Nat /\ y > 0
      BY <3>3, <3>4, <3>5
    <3> HIDE DEF x, y
    <3> QED
      BY <3>6
  <2>2. ~ (n < m)
    <3> SUFFICES ASSUME n < m PROVE FALSE
      OBVIOUS
    <3>1. Len(ta[n]) = Len(tb[n])
      BY <1>1, <1>12
    <3>2. n + 1 \in 1 .. m /\ (n + 1) - 1 = n /\ n + 1 \in 0 .. m /\ m \in 0 .. m /\ n \in 0 .. m
      BY <1>1
    <3>3. Len(ta[n + 1]) = Len(ta[n]) + Len(a[n + 1]) /\ Len(ta[n + 1]) <= Len(ta[m])
      BY <1>5, <3>2 DEF Joined
    <3>4. Len(ta[n]) \in Nat /\ Len(ta[m]) \in Nat /\ Len(a[n + 1]) \in Nat /\ Len(a[n + 1]) > 0
      BY <1>1, <1>2, <1>7, <3>2
    <3>5. Len(ta[n]) = Len(ta[m])
      BY <1>8, <3>1
    <3> DEFINE x == Len(ta[n])
               y == Len(a[n + 1])
    <3>6. x + y <= x /\ x \in Nat /\ y \in Nat /\ y > 0
      BY <3>3, <3>4, <3>5
    <3> HIDE DEF x, y
    <3> QED
      BY <3>6
  <2> QED
    BY <1>1, <2>1, <2>2
<1>14. \A k \in 1 .. m : a[k] = b[k]
  BY <1>1, <1>12, <1>13
<1>15. a = [k \in 1 .. m |-> a[k]] /\ b = [k \in 1 .. n |-> b[k]]
  BY DEF m, n
<1> QED
  BY <1>13, <1>14, <1>15

(* Joined words have the bytes that the words have. *)
LEMMA JoiningKeeps ==
    ASSUME NEW B, NEW n \in Nat, NEW words, NEW text, IsJoining(text, words, n),
           \A k \in 1 .. n : words[k] \in Seq(B)
    PROVE  text[n] \in Seq(B)
<1>1. Joining(Byte, text, words, n)
  BY DEF IsJoining, Joining, Word
<1> QED
  BY <1>1, JoiningOver

EscapeCodes == {Escape(b) : b \in Byte}

(* What a byte is escaped as *)
LEMMA EscapeIs ==
    ASSUME NEW b \in Byte
    PROVE  \/ Escape(b) = <<b>> /\ b \notin {92, 10, 13, 9}
           \/ Escape(b) = <<92, 92>> /\ b = 92
           \/ Escape(b) = <<92, 110>> /\ b = 10
           \/ Escape(b) = <<92, 114>> /\ b = 13
           \/ Escape(b) = <<92, 116>> /\ b = 9
BY DEF Escape, Backslash, Newline

(* No escape begins another one, and none has a newline. *)
LEMMA EscapesAreCodes ==
    /\ IsCode(EscapeCodes)
    /\ \A b \in Byte : Escape(b) \in Seq(Byte \ {10})
    /\ \A b, c \in Byte : Escape(b) = Escape(c) => b = c
<1>1. ASSUME NEW b \in Byte
      PROVE  Escape(b) \in Seq(Byte \ {10}) /\ Escape(b) \in Word /\ Len(Escape(b)) > 0
  <2>1. CASE Escape(b) = <<b>> /\ b \notin {92, 10, 13, 9}
    BY <2>1 DEF Word
  <2>2. ASSUME NEW x \in {92, 110, 114, 116}, Escape(b) = <<92, x>>
        PROVE  Escape(b) \in Seq(Byte \ {10}) /\ Escape(b) \in Word /\ Len(Escape(b)) > 0
    <3>1. 92 \in Byte \ {10} /\ x \in Byte \ {10}
      BY DEF Byte
    <3> QED
      BY <2>2, <3>1 DEF Word
  <2> QED
    BY <2>1, <2>2, EscapeIs
<1>2. ASSUME NEW b \in Byte, NEW c \in Byte, b # c
      PROVE  /\ Escape(b) # Escape(c)
             /\ \E x \in 1 .. Len(Escape(b)) : x <= Len(Escape(c)) /\ Escape(b)[x] # Escape(c)[x]
  <2>1. PICK v : v = Escape(b)
    OBVIOUS
  <2>2. PICK w : w = Escape(c)
    OBVIOUS
  <2>3. \/ v = <<b>> /\ b # 92
        \/ /\ v[1] = 92 /\ Len(v) = 2
           /\ \/ v[2] = 92 /\ b = 92
              \/ v[2] = 110 /\ b = 10
              \/ v[2] = 114 /\ b = 13
              \/ v[2] = 116 /\ b = 9
    BY <2>1, EscapeIs
  <2>4. \/ w = <<c>> /\ c # 92
        \/ /\ w[1] = 92 /\ Len(w) = 2
           /\ \/ w[2] = 92 /\ c = 92
              \/ w[2] = 110 /\ c = 10
              \/ w[2] = 114 /\ c = 13
              \/ w[2] = 116 /\ c = 9
    BY <2>2, EscapeIs
  <2>5. \E x \in 1 .. Len(v) : x <= Len(w) /\ v[x] # w[x]
    <3>1. CASE v = <<b>> \/ w = <<c>>
      <4>1. Len(v) >= 1 /\ Len(w) >= 1 /\ v[1] # w[1] /\ Len(v) \in Nat
        BY SMTT(30), <1>2, <2>3, <2>4, <3>1
      <4> QED
        BY <4>1
    <3>2. CASE v # <<b>> /\ w # <<c>>
      BY <1>2, <2>3, <2>4, <3>2
    <3> QED
      BY <3>1, <3>2
  <2> QED
    BY <2>1, <2>2, <2>5
<1>3. IsCode(EscapeCodes)
  <2>1. \A c \in EscapeCodes : c \in Word /\ Len(c) > 0
    BY <1>1 DEF EscapeCodes
  <2>2. ASSUME NEW c \in EscapeCodes, NEW d \in EscapeCodes, c # d
        PROVE  \E x \in 1 .. Len(c) : x <= Len(d) /\ c[x] # d[x]
    <3>1. PICK b, e \in Byte : c = Escape(b) /\ d = Escape(e)
      BY DEF EscapeCodes
    <3>2. b # e
      BY <2>2, <3>1
    <3> QED
      BY <1>2, <3>1, <3>2
  <2> QED
    BY <2>1, <2>2 DEF IsCode
<1> QED
  BY <1>1, <1>2, <1>3

Escaped(word) == FlattenSeq([i \in DOMAIN word |-> Escape(word[i])])

(* What a word is escaped as *)
LEMMA EscapedIs ==
    ASSUME NEW w \in Word
    PROVE  /\ [i \in DOMAIN w |-> Escape(w[i])] \in Seq(EscapeCodes)
           /\ Escaped(w) \in Seq(Byte \ {10}) /\ Escaped(w) \in Word
<1> DEFINE n == Len(w)
           codes == [i \in DOMAIN w |-> Escape(w[i])]
<1>1. n \in Nat /\ DOMAIN w = 1 .. n /\ \A i \in 1 .. n : w[i] \in Byte
  BY DEF Word
<1> HIDE DEF n
<1>2. codes \in [1 .. n -> EscapeCodes]
  BY <1>1 DEF EscapeCodes
<1>3. codes \in Seq(EscapeCodes) /\ Len(codes) = n
  BY <1>1, <1>2
<1>4. \A k \in 1 .. n : codes[k] \in Seq(Byte \ {10}) /\ codes[k] \in Word
  <2>1. \A k \in 1 .. n : codes[k] = Escape(w[k])
    BY <1>1
  <2>2. EscapeCodes \subseteq Word
    BY EscapesAreCodes DEF IsCode
  <2> HIDE DEF codes
  <2> QED
    BY <1>1, <1>2, <2>1, <2>2, EscapesAreCodes
<1>5. n = 0 => codes = <<>>
  BY <1>3
<1> HIDE DEF codes
<1>6. PICK text : IsJoining(text, codes, n) /\ FlattenSeq(codes) = text[n]
  BY <1>1, <1>3, <1>4, <1>5, FlattenSeqJoins
<1>7. text[n] \in Seq(Byte \ {10})
  BY <1>1, <1>4, <1>6, JoiningKeeps
<1>8. text[n] \in Seq(Byte)
  BY <1>1, <1>4, <1>6, JoiningKeeps DEF Word
<1> QED
  BY <1>3, <1>6, <1>7, <1>8 DEF Escaped, Word, codes

(* A word is told from what it is escaped as. *)
LEMMA EscapedNames ==
    ASSUME NEW v \in Word, NEW w \in Word, Escaped(v) = Escaped(w)
    PROVE  v = w
<1> DEFINE a == [i \in DOMAIN v |-> Escape(v[i])]
           b == [i \in DOMAIN w |-> Escape(w[i])]
<1>1. a \in Seq(EscapeCodes) /\ b \in Seq(EscapeCodes) /\ FlattenSeq(a) = FlattenSeq(b)
  BY EscapedIs DEF Escaped
<1>2. a = b
  <2> HIDE DEF a, b
  <2> QED
    BY <1>1, CodesComeApart, EscapesAreCodes
<1>3. /\ v = [i \in DOMAIN v |-> v[i]] /\ (\A i \in DOMAIN v : v[i] \in Byte)
      /\ w = [i \in DOMAIN w |-> w[i]] /\ (\A i \in DOMAIN w : w[i] \in Byte)
  BY DEF Word
<1>4. DOMAIN v = DOMAIN w
  <2>1. DOMAIN a = DOMAIN v /\ DOMAIN b = DOMAIN w
    OBVIOUS
  <2> HIDE DEF a, b
  <2> QED
    BY <1>2, <2>1
<1>5. ASSUME NEW i \in DOMAIN v
      PROVE  v[i] = w[i]
  <2>1. a[i] = Escape(v[i]) /\ b[i] = Escape(w[i])
    BY <1>4
  <2> HIDE DEF a, b
  <2> QED
    BY <1>2, <1>3, <1>4, <2>1, EscapesAreCodes
<1> QED
  BY <1>3, <1>4, <1>5

LineCodes == {Line(w) : w \in Word}

(* The line of a word ends with its only newline. *)
LEMMA LineIs ==
    ASSUME NEW w \in Word
    PROVE  /\ Line(w) \in Word /\ Len(Escaped(w)) \in Nat /\ Len(Line(w)) = Len(Escaped(w)) + 1
           /\ Line(w)[Len(Line(w))] = 10
           /\ \A x \in 1 .. Len(Escaped(w)) : Line(w)[x] = Escaped(w)[x] /\ Line(w)[x] # 10
<1> DEFINE e == Escaped(w)
<1>1. Line(w) = e \o <<10>>
  BY DEF Line, Escaped, Newline
<1>2. e \in Seq(Byte \ {10}) /\ e \in Seq(Byte)
  BY EscapedIs DEF Word
<1>3. 10 \in Byte
  BY DEF Byte
<1> HIDE DEF e
<1>4. /\ e \o <<10>> \in Seq(Byte) /\ Len(e) \in Nat /\ Len(e \o <<10>>) = Len(e) + 1
      /\ (e \o <<10>>)[Len(e) + 1] = 10
      /\ \A x \in 1 .. Len(e) : (e \o <<10>>)[x] = e[x]
  BY <1>2, <1>3
<1>5. \A x \in 1 .. Len(e) : e[x] # 10
  BY <1>2
<1> QED
  BY <1>1, <1>4, <1>5 DEF e, Word

(* A word is told from its line, and no line begins another one. *)
LEMMA LineNames ==
    /\ IsCode(LineCodes)
    /\ \A v, w \in Word : Line(v) = Line(w) => v = w
<1>1. ASSUME NEW v \in Word, NEW w \in Word, v # w
      PROVE  \E x \in 1 .. Len(Line(v)) : x <= Len(Line(w)) /\ Line(v)[x] # Line(w)[x]
  <2> DEFINE d == Escaped(v)
             e == Escaped(w)
             p == Line(v)
             q == Line(w)
  <2>1. d \in Word /\ e \in Word /\ d # e
    BY <1>1, EscapedIs, EscapedNames
  <2>2. /\ Len(d) \in Nat /\ Len(p) = Len(d) + 1 /\ p[Len(p)] = 10
        /\ \A x \in 1 .. Len(d) : p[x] = d[x] /\ p[x] # 10
    BY LineIs
  <2>3. /\ Len(e) \in Nat /\ Len(q) = Len(e) + 1 /\ q[Len(q)] = 10
        /\ \A x \in 1 .. Len(e) : q[x] = e[x] /\ q[x] # 10
    BY LineIs
  <2> HIDE DEF d, e, p, q
  <2>4. CASE Len(d) < Len(e)
    <3>1. Len(p) \in 1 .. Len(p) /\ Len(p) <= Len(q) /\ Len(p) \in 1 .. Len(e)
      BY <2>2, <2>3, <2>4
    <3>2. p[Len(p)] # q[Len(p)]
      BY <2>2, <2>3, <3>1
    <3> QED
      BY <3>1, <3>2 DEF p, q
  <2>5. CASE Len(e) < Len(d)
    <3>1. Len(q) \in 1 .. Len(p) /\ Len(q) <= Len(q) /\ Len(q) \in 1 .. Len(d)
      BY <2>2, <2>3, <2>5
    <3>2. p[Len(q)] # q[Len(q)]
      BY <2>2, <2>3, <3>1
    <3> QED
      BY <3>1, <3>2 DEF p, q
  <2>6. CASE Len(d) = Len(e)
    <3>1. PICK x \in 1 .. Len(d) : d[x] # e[x]
      <4>1. d = [x \in 1 .. Len(d) |-> d[x]] /\ e = [x \in 1 .. Len(e) |-> e[x]]
        BY <2>1, WordIs
      <4> QED
        BY <2>1, <2>6, <4>1
    <3>2. x \in 1 .. Len(e) /\ x \in 1 .. Len(p) /\ x <= Len(q)
      BY <2>2, <2>3, <2>6
    <3>3. p[x] # q[x]
      BY <2>2, <2>3, <3>1, <3>2
    <3> QED
      BY <3>2, <3>3 DEF p, q
  <2> QED
    BY <2>2, <2>3, <2>4, <2>5, <2>6
<1>2. \A v, w \in Word : Line(v) = Line(w) => v = w
  BY <1>1
<1>3. ASSUME NEW v \in Word
      PROVE  Line(v) \in Word /\ Len(Line(v)) > 0
  BY LineIs
<1>4. IsCode(LineCodes)
  <2>1. \A c \in LineCodes : c \in Word /\ Len(c) > 0
    BY <1>3 DEF LineCodes
  <2>2. ASSUME NEW c \in LineCodes, NEW d \in LineCodes, c # d
        PROVE  \E x \in 1 .. Len(c) : x <= Len(d) /\ c[x] # d[x]
    <3>1. PICK v, w \in Word : c = Line(v) /\ d = Line(w)
      BY DEF LineCodes
    <3>2. v # w
      BY <2>2, <3>1
    <3> QED
      BY <1>1, <3>1, <3>2
  <2> QED
    BY <2>1, <2>2 DEF IsCode
<1> QED
  BY <1>2, <1>4

(* Two lists of words that are hashed alike are the same. *)
LEMMA TextNames ==
    ASSUME NEW a \in Seq(Word), NEW b \in Seq(Word), Text(a) = Text(b)
    PROVE  a = b
<1> DEFINE c == [i \in DOMAIN a |-> Line(a[i])]
           d == [i \in DOMAIN b |-> Line(b[i])]
<1>1. /\ DOMAIN a = 1 .. Len(a) /\ Len(a) \in Nat /\ \A i \in 1 .. Len(a) : a[i] \in Word
      /\ DOMAIN b = 1 .. Len(b) /\ Len(b) \in Nat /\ \A i \in 1 .. Len(b) : b[i] \in Word
      /\ a = [i \in 1 .. Len(a) |-> a[i]] /\ b = [i \in 1 .. Len(b) |-> b[i]]
  OBVIOUS
<1>2. c \in [1 .. Len(a) -> LineCodes] /\ d \in [1 .. Len(b) -> LineCodes]
  BY <1>1 DEF LineCodes
<1>3. c \in Seq(LineCodes) /\ d \in Seq(LineCodes)
  <2> DEFINE m == Len(a)
             n == Len(b)
  <2>1. c \in [1 .. m -> LineCodes] /\ d \in [1 .. n -> LineCodes] /\ m \in Nat /\ n \in Nat
    BY <1>1, <1>2
  <2> HIDE DEF c, d, m, n
  <2> QED
    BY <2>1
<1>4. c = d
  <2>1. FlattenSeq(c) = FlattenSeq(d)
    BY DEF Text
  <2> HIDE DEF c, d
  <2> QED
    BY <1>3, <2>1, CodesComeApart, LineNames
<1>5. DOMAIN a = DOMAIN b
  <2>1. DOMAIN c = DOMAIN a /\ DOMAIN d = DOMAIN b
    OBVIOUS
  <2> HIDE DEF c, d
  <2> QED
    BY <1>4, <2>1
<1>6. ASSUME NEW i \in DOMAIN a
      PROVE  a[i] = b[i]
  <2>1. c[i] = Line(a[i]) /\ d[i] = Line(b[i]) /\ a[i] \in Word /\ b[i] \in Word
    BY <1>1, <1>5
  <2> HIDE DEF c, d
  <2> QED
    BY <1>4, <2>1, LineNames
<1> QED
  BY <1>1, <1>5, <1>6

-----------------------------------------------------------------------------
(* Arithmetic: powers that saturate, and square and multiply *)

(* f is what c becomes when the functions of step are applied in turn. *)
IsEndless(f, c, step) == f[0] = c /\ \A k \in Nat \ {0} : f[k] = step[k][f[k - 1]]

(* The same without an end *)
LEMMA EndlessIteration ==
    ASSUME NEW A, NEW c \in A, NEW step \in [Nat -> [A -> A]]
    PROVE  \E f \in [Nat -> A] : IsEndless(f, c, step)
<1> DEFINE upto(n) == [k \in 1 .. n |-> step[k]]
           F(n) == CHOOSE f \in [0 .. n -> A] : IsIteration(f, c, n, upto(n))
           g == [k \in Nat |-> F(k)[k]]
<1>1. ASSUME NEW n \in Nat
      PROVE  /\ F(n) \in [0 .. n -> A] /\ F(n)[0] = c
             /\ \A k \in 1 .. n : F(n)[k] = step[k][F(n)[k - 1]]
  <2>1. upto(n) \in [1 .. n -> [A -> A]]
    OBVIOUS
  <2>2. \E f \in [0 .. n -> A] : IsIteration(f, c, n, upto(n))
    <3> HIDE DEF upto
    <3> QED
      BY <2>1, IterationExists, Zenon
  <2>3. F(n) \in [0 .. n -> A] /\ IsIteration(F(n), c, n, upto(n))
    <3> HIDE DEF upto
    <3> QED
      BY <2>2
  <2>4. \A k \in 1 .. n : upto(n)[k] = step[k]
    OBVIOUS
  <2> HIDE DEF F, upto
  <2> QED
    BY <2>3, <2>4 DEF IsIteration
<1> HIDE DEF F
<1>2. ASSUME NEW n \in Nat, n # 0
      PROVE  F(n)[n - 1] = F(n - 1)[n - 1]
  <2> DEFINE S == {k \in 0 .. n - 1 : F(n)[k] = F(n - 1)[k]}
  <2>1. n - 1 \in Nat
    BY <1>2
  <2>2. 0 \in S
    BY <1>1, <2>1
  <2>3. ASSUME NEW k \in 1 .. n - 1, k - 1 \in S
        PROVE  k \in S
    <3>1. k \in 1 .. n /\ k \in 0 .. n - 1
      BY <2>1
    <3>2. F(n)[k] = step[k][F(n)[k - 1]] /\ F(n - 1)[k] = step[k][F(n - 1)[k - 1]]
      BY <1>1, <2>1, <3>1
    <3> QED
      BY <2>3, <3>1, <3>2
  <2>4. 0 .. n - 1 \subseteq S
    <3> HIDE DEF S
    <3> QED
      BY <2>1, <2>2, <2>3, IntervalInduction
  <2> QED
    BY <2>1, <2>4
<1>3. g \in [Nat -> A]
  BY <1>1
<1>4. g[0] = c
  BY <1>1
<1>5. ASSUME NEW k \in Nat \ {0}
      PROVE  g[k] = step[k][g[k - 1]]
  <2>1. k - 1 \in Nat /\ k \in 1 .. k
    OBVIOUS
  <2>2. F(k)[k] = step[k][F(k)[k - 1]] /\ F(k)[k - 1] = F(k - 1)[k - 1]
    BY <1>1, <1>2, <2>1
  <2> QED
    BY <2>1, <2>2
<1> HIDE DEF g
<1> QED
  BY <1>3, <1>4, <1>5 DEF IsEndless

(* What a product is, and that it is not less than its factors *)
LEMMA TimesIs ==
    ASSUME NEW a \in Nat, NEW b \in Nat
    PROVE  /\ a * b \in Nat /\ (b # 0 => a <= a * b) /\ (a # 0 => b <= a * b)
           /\ (a # 0 /\ b # 0 => a * b # 0)
OBVIOUS

(* A product rises with its factors. *)
LEMMA TimesRises ==
    ASSUME NEW a \in Nat, NEW b \in Nat, NEW c \in Nat, a <= b
    PROVE  a * c <= b * c /\ c * a <= c * b
<1>1. b - a \in Nat /\ (b - a) * c \in Nat
  OBVIOUS
<1>2. b * c = a * c + (b - a) * c /\ c * b = b * c /\ c * a = a * c
  OBVIOUS
<1>3. a * c \in Nat
  OBVIOUS
<1> QED
  BY <1>1, <1>2, <1>3

(* The order of factors is nothing. *)
LEMMA TimesAssociates ==
    ASSUME NEW a \in Int, NEW b \in Int, NEW c \in Int
    PROVE  (a * b) * c = a * (b * c) /\ a * b = b * a /\ a * (b * c) = (a * c) * b
OBVIOUS

(* What saturates is the lesser of the two, and to saturate twice is to     *)
(* saturate once.                                                           *)
LEMMA AtMostIs ==
    ASSUME NEW m \in Nat, NEW x \in Nat
    PROVE  /\ AtMost(m, x) \in Nat /\ AtMost(m, x) <= m /\ AtMost(m, x) <= x
           /\ AtMost(m, x) = m \/ AtMost(m, x) = x
           /\ (m # 0 /\ x # 0 => AtMost(m, x) # 0)
           /\ (x <= m => AtMost(m, x) = x)
           /\ (AtMost(m, x) < m => AtMost(m, x) = x)
           /\ AtMost(m, AtMost(m, x)) = AtMost(m, x)
           /\ AtMost(m, AtMost(m + 1, x)) = AtMost(m, x)
BY DEF AtMost

(* What saturates before a product saturates in it. *)
LEMMA AtMostTimes ==
    ASSUME NEW m \in Nat, NEW x \in Nat, NEW y \in Nat
    PROVE  /\ AtMost(m, AtMost(m, x) * y) = AtMost(m, x * y)
           /\ AtMost(m, x * AtMost(m, y)) = AtMost(m, x * y)
           /\ AtMost(m, AtMost(m, x) * AtMost(m, y)) = AtMost(m, x * y)
<1>1. ASSUME NEW a \in Nat, NEW b \in Nat
      PROVE  AtMost(m, AtMost(m, a) * b) = AtMost(m, a * b)
  <2>1. CASE a <= m
    BY <2>1 DEF AtMost
  <2>2. CASE a > m /\ b = 0
    BY <2>2 DEF AtMost
  <2>3. CASE a > m /\ b # 0
    <3>1. m <= m * b /\ a <= a * b /\ m * b \in Nat /\ a * b \in Nat
      BY <2>3, TimesIs
    <3>2. AtMost(m, a) = m
      BY <2>3 DEF AtMost
    <3> DEFINE p == m * b
               q == a * b
    <3>3. p \in Nat /\ q \in Nat /\ m <= p /\ a <= q /\ a > m
      BY <2>3, <3>1
    <3> HIDE DEF p, q
    <3>4. AtMost(m, p) = m /\ AtMost(m, q) = m
      BY <3>3 DEF AtMost
    <3> QED
      BY <3>2, <3>4 DEF p, q
  <2> QED
    BY <2>1, <2>2, <2>3
<1>2. AtMost(m, x) \in Nat /\ AtMost(m, y) \in Nat
  BY AtMostIs
<1>3. AtMost(m, y * x) = AtMost(m, x * y) /\ x * AtMost(m, y) = AtMost(m, y) * x
  <2>1. x * y = y * x /\ x * AtMost(m, y) = AtMost(m, y) * x
    BY <1>2, TimesAssociates
  <2> QED
    BY <2>1
<1>4. AtMost(m, x * AtMost(m, y)) = AtMost(m, x * y)
  BY <1>1, <1>3
<1>5. AtMost(m, AtMost(m, x) * AtMost(m, y)) = AtMost(m, x * AtMost(m, y))
  BY <1>1, <1>2
<1> QED
  BY <1>1, <1>4, <1>5

(* The powers of a number *)
Power(b) == CHOOSE f \in [Nat -> Nat] : f[0] = 1 /\ \A k \in Nat \ {0} : f[k] = f[k - 1] * b

(* The power is what its recursion says. *)
LEMMA PowerIs ==
    ASSUME NEW b \in Nat
    PROVE  /\ Power(b) \in [Nat -> Nat] /\ Power(b)[0] = 1
           /\ \A k \in Nat \ {0} : Power(b)[k] = Power(b)[k - 1] * b
<1> DEFINE step == [k \in Nat |-> [x \in Nat |-> x * b]]
<1>1. step \in [Nat -> [Nat -> Nat]]
  BY TimesIs
<1>2. 1 \in Nat
  OBVIOUS
<1>3. PICK f \in [Nat -> Nat] : IsEndless(f, 1, step)
  <2> HIDE DEF step
  <2> QED
    BY <1>1, <1>2, EndlessIteration
<1>4. \A k \in Nat \ {0} : f[k] = f[k - 1] * b
  <2> SUFFICES ASSUME NEW k \in Nat \ {0} PROVE f[k] = f[k - 1] * b
    OBVIOUS
  <2>1. k - 1 \in Nat
    OBVIOUS
  <2>2. f[k - 1] \in Nat
    BY <2>1
  <2>3. step[k][f[k - 1]] = f[k - 1] * b
    BY <2>2
  <2> QED
    BY <1>3, <2>3 DEF IsEndless
<1>5. \E h \in [Nat -> Nat] : h[0] = 1 /\ \A k \in Nat \ {0} : h[k] = h[k - 1] * b
  BY <1>3, <1>4 DEF IsEndless
<1> QED
  BY <1>5 DEF Power

(* The recursion of the power, at one exponent *)
LEMMA PowerNext ==
    ASSUME NEW b \in Nat, NEW k \in Nat
    PROVE  /\ Power(b)[k] \in Nat /\ Power(b)[0] = 1
           /\ Power(b)[k + 1] = Power(b)[k] * b
           /\ (k # 0 => Power(b)[k] = Power(b)[k - 1] * b)
<1>1. (k + 1) - 1 = k /\ k + 1 \in Nat \ {0}
  OBVIOUS
<1> QED
  BY <1>1, PowerIs

(* Powers rises, and strictly so above 1. *)
LEMMA PowerRises ==
    ASSUME NEW b \in Nat, b # 0, NEW j \in Nat, NEW k \in Nat, j <= k
    PROVE  Power(b)[j] # 0 /\ Power(b)[j] <= Power(b)[k] /\ (b > 1 /\ j < k => Power(b)[j] < Power(b)[k])
<1>1. ASSUME NEW i \in Nat, Power(b)[i] # 0
      PROVE  /\ Power(b)[i + 1] # 0 /\ Power(b)[i] <= Power(b)[i + 1]
             /\ (b > 1 => Power(b)[i] < Power(b)[i + 1])
  <2> DEFINE p == Power(b)[i]
  <2>1. p \in Nat /\ p # 0 /\ Power(b)[i + 1] = p * b
    BY <1>1, PowerNext
  <2> HIDE DEF p
  <2>2. p * b # 0 /\ p <= p * b
    BY <2>1, TimesIs
  <2>3. b > 1 => p < p * b
    <3> SUFFICES ASSUME b > 1 PROVE p < p * b
      OBVIOUS
    <3>1. p * 2 <= p * b
      BY <2>1, TimesRises
    <3>2. p * b \in Nat
      BY <2>1, TimesIs
    <3> QED
      BY <2>1, <3>1, <3>2
  <2> QED
    BY <2>1, <2>2, <2>3 DEF p
<1> DEFINE N == {i \in Nat : Power(b)[i] # 0}
           S == {d \in Nat : /\ Power(b)[j] <= Power(b)[j + d]
                             /\ (b > 1 /\ d # 0 => Power(b)[j] < Power(b)[j + d])}
<1>2. Nat \subseteq N
  <2>1. 0 \in N
    <3>1. Power(b)[0] = 1
      BY PowerIs
    <3> QED
      BY <3>1
  <2>2. \A i \in Nat : i \in N => i + 1 \in N
    BY <1>1
  <2> HIDE DEF N
  <2> QED
    BY <2>1, <2>2, SetInduction
<1>3. \A i \in Nat : Power(b)[i] \in Nat /\ Power(b)[i] # 0
  BY <1>2, PowerIs
<1>4. 0 \in S
  <2>1. j + 0 = j
    OBVIOUS
  <2>2. Power(b)[j] \in Nat
    BY <1>3
  <2> QED
    BY <2>1, <2>2
<1>5. ASSUME NEW d \in Nat, d \in S
      PROVE  d + 1 \in S
  <2>1. j + (d + 1) = (j + d) + 1 /\ j + d \in Nat /\ j + (d + 1) \in Nat
    OBVIOUS
  <2> DEFINE x == Power(b)[j]
             y == Power(b)[j + d]
             z == Power(b)[j + (d + 1)]
  <2>2. x \in Nat /\ y \in Nat /\ z \in Nat /\ x <= y /\ y <= z /\ (b > 1 => y < z)
    BY <1>1, <1>3, <1>5, <2>1
  <2>3. d + 1 \in Nat
    OBVIOUS
  <2> HIDE DEF x, y, z
  <2>4. x <= z /\ (b > 1 => x < z)
    BY <2>2
  <2> QED
    BY <2>3, <2>4 DEF x, z
<1>6. Nat \subseteq S
  <2> HIDE DEF S
  <2> QED
    BY <1>4, <1>5, SetInduction
<1>7. k - j \in Nat /\ j + (k - j) = k
  OBVIOUS
<1>8. k - j \in S
  BY <1>6, <1>7
<1> QED
  BY <1>3, <1>7, <1>8

(* Powers is Power as far as it does not saturate. *)
LEMMA PowersIs ==
    ASSUME NEW m \in Nat \ {0}, NEW b \in Nat, NEW n \in Nat
    PROVE  Powers(m, b)[n] = AtMost(m, Power(b)[n])
<1> DEFINE f == [k \in Nat |-> AtMost(m, Power(b)[k])]
           power == Powers(m, b)
<1>1. \A k \in Nat : k # 0 => k - 1 \in Nat
  OBVIOUS
<1>2. ASSUME NEW k \in Nat
      PROVE  f[k] = IF k = 0 THEN 1 ELSE AtMost(m, f[k - 1] * b)
  <2>1. CASE k = 0
    <3>1. Power(b)[0] = 1
      BY PowerIs
    <3> QED
      BY <2>1, <3>1 DEF AtMost
  <2>2. CASE k # 0
    <3>1. k - 1 \in Nat
      BY <2>2
    <3>2. Power(b)[k] = Power(b)[k - 1] * b /\ Power(b)[k - 1] \in Nat
      BY <2>2, <3>1, PowerNext
    <3>3. AtMost(m, AtMost(m, Power(b)[k - 1]) * b) = AtMost(m, Power(b)[k])
      <4>1. AtMost(m, AtMost(m, Power(b)[k - 1]) * b) = AtMost(m, Power(b)[k - 1] * b)
        BY ZenonT(30), <3>2, AtMostTimes
      <4> QED
        BY <3>2, <4>1, Zenon
    <3> QED
      BY <2>2, <3>1, <3>3
  <2> QED
    BY <2>1, <2>2
<1>3. f = [k \in Nat |-> IF k = 0 THEN 1 ELSE AtMost(m, f[k - 1] * b)]
  BY <1>2
<1>4. power = [k \in Nat |-> IF k = 0 THEN 1 ELSE AtMost(m, power[k - 1] * b)]
  <2> HIDE DEF f
  <2> QED
    BY <1>3 DEF Powers
<1> HIDE DEF power
<1> DEFINE S == {k \in Nat : power[k] = f[k]}
<1>5. 0 \in S
  BY <1>2, <1>4
<1>6. ASSUME NEW k \in Nat, k \in S
      PROVE  k + 1 \in S
  <2>1. (k + 1) - 1 = k /\ k + 1 # 0 /\ k + 1 \in Nat
    OBVIOUS
  <2>2. power[k + 1] = AtMost(m, power[k] * b)
    BY <1>4, <2>1
  <2>3. f[k + 1] = AtMost(m, f[k] * b)
    <3> HIDE DEF f
    <3> QED
      BY <1>2, <2>1
  <2> HIDE DEF f
  <2> QED
    BY <1>6, <2>1, <2>2, <2>3
<1>7. Nat \subseteq S
  <2> HIDE DEF S
  <2> QED
    BY <1>5, <1>6, SetInduction
<1>8. power[n] = f[n]
  <2> HIDE DEF f
  <2> QED
    BY <1>7
<1> QED
  BY <1>8 DEF power

(* What square and multiply rests on *)
LEMMA PowerOfSquare ==
    ASSUME NEW b \in Nat, NEW n \in Nat
    PROVE  Power(b * b)[n] = Power(b)[2 * n]
<1> DEFINE S == {k \in Nat : Power(b * b)[k] = Power(b)[2 * k]}
<1>1. b * b \in Nat
  OBVIOUS
<1>2. 0 \in S
  <2>1. Power(b * b)[0] = 1 /\ Power(b)[0] = 1
    BY <1>1, PowerNext
  <2> QED
    BY <2>1
<1>3. ASSUME NEW k \in Nat, k \in S
      PROVE  k + 1 \in S
  <2>1. 2 * k \in Nat /\ 2 * k + 1 \in Nat /\ 2 * (k + 1) = (2 * k + 1) + 1 /\ k + 1 \in Nat
    OBVIOUS
  <2>2. Power(b)[2 * k + 1] = Power(b)[2 * k] * b /\ Power(b)[2 * k] \in Nat
    BY <2>1, PowerNext
  <2>3. Power(b)[(2 * k + 1) + 1] = Power(b)[2 * k + 1] * b
    BY <2>1, PowerNext
  <2>4. Power(b * b)[k + 1] = Power(b * b)[k] * (b * b)
    BY <1>1, PowerNext
  <2>5. Power(b * b)[k] = Power(b)[2 * k]
    BY <1>3
  <2> DEFINE p == Power(b)[2 * k]
  <2>6. (p * b) * b = p * (b * b)
    BY <2>2, TimesAssociates
  <2>7. Power(b * b)[k + 1] = Power(b)[2 * (k + 1)]
    BY <2>1, <2>2, <2>3, <2>4, <2>5, <2>6, Zenon
  <2> QED
    BY <2>1, <2>7
<1>4. Nat \subseteq S
  <2> HIDE DEF S
  <2> QED
    BY <1>2, <1>3, SetInduction
<1> QED
  BY <1>4

(* A base that saturates makes powers that saturate. *)
LEMMA PowerOfAtMost ==
    ASSUME NEW m \in Nat, NEW b \in Nat, NEW n \in Nat
    PROVE  AtMost(m, Power(AtMost(m, b))[n]) = AtMost(m, Power(b)[n])
<1> DEFINE c == AtMost(m, b)
           S == {k \in Nat : AtMost(m, Power(c)[k]) = AtMost(m, Power(b)[k])}
<1>1. c \in Nat
  BY AtMostIs
<1> HIDE DEF c
<1>2. 0 \in S
  <2>1. Power(c)[0] = 1 /\ Power(b)[0] = 1
    BY <1>1, PowerNext
  <2> QED
    BY <2>1
<1>3. ASSUME NEW k \in Nat, k \in S
      PROVE  k + 1 \in S
  <2> DEFINE p == Power(c)[k]
             q == Power(b)[k]
  <2>1. p \in Nat /\ q \in Nat /\ Power(c)[k + 1] = p * c /\ Power(b)[k + 1] = q * b
    BY <1>1, PowerNext
  <2>2. AtMost(m, p) = AtMost(m, q)
    BY <1>3
  <2> HIDE DEF p, q
  <2>3. AtMost(m, p * c) = AtMost(m, AtMost(m, p) * c)
    BY <1>1, <2>1, AtMostTimes
  <2>4. AtMost(m, AtMost(m, q) * AtMost(m, b)) = AtMost(m, q * b)
    BY <2>1, AtMostTimes
  <2>5. AtMost(m, p * c) = AtMost(m, q * b)
    BY <2>2, <2>3, <2>4, Zenon DEF c
  <2>6. k + 1 \in Nat
    OBVIOUS
  <2> QED
    BY <2>1, <2>5, <2>6
<1>4. Nat \subseteq S
  <2> HIDE DEF S
  <2> QED
    BY <1>2, <1>3, SetInduction
<1> QED
  BY <1>4 DEF c

(* One turn of the loop keeps the power that is left to multiply with. *)
LEMMA SquareStep ==
    ASSUME NEW res \in Nat, NEW b \in Nat, NEW n \in Nat, n # 0
    PROVE  AtMost(MaxU, (IF n % 2 = 1 THEN SatMul(res, b) ELSE res) * Power(SatMul(b, b))[n \div 2])
           = AtMost(MaxU, res * Power(b)[n])
<1> DEFINE h == n \div 2
           p == Power(SatMul(b, b))[h]
           q == Power(b)[2 * h]
           M == MaxU
<1>1. MaxU \in Nat
  BY WidthAssumption
<1>2. h \in Nat /\ 2 * h \in Nat /\ (n % 2 = 1 => n = 2 * h + 1) /\ (n % 2 # 1 => n = 2 * h)
  OBVIOUS
<1> HIDE DEF h
<1>3. b * b \in Nat /\ SatMul(b, b) \in Nat
  BY <1>1, TimesIs, AtMostIs DEF SatMul
<1>4. p \in Nat /\ q \in Nat
  BY <1>2, <1>3, PowerNext
<1>5. AtMost(M, p) = AtMost(M, q)
  <2>1. AtMost(M, Power(AtMost(M, b * b))[h]) = AtMost(M, Power(b * b)[h])
    BY <1>1, <1>2, <1>3, PowerOfAtMost
  <2>2. Power(b * b)[h] = Power(b)[2 * h]
    BY <1>2, PowerOfSquare
  <2> QED
    BY <2>1, <2>2, Zenon DEF SatMul
<1> HIDE DEF p, M
<1>6. CASE n % 2 = 1
  <2>1. Power(b)[n] = q * b
    <3>1. Power(b)[2 * h + 1] = Power(b)[2 * h] * b
      BY <1>2, PowerNext
    <3> QED
      BY <1>2, <1>6, <3>1
  <2> HIDE DEF q
  <2>2. res * b \in Nat
    BY TimesIs
  <2>3. AtMost(M, AtMost(M, res * b) * p) = AtMost(M, (res * b) * p)
    BY <1>1, <1>4, <2>2, AtMostTimes DEF M
  <2>4. AtMost(M, (res * b) * p) = AtMost(M, (res * b) * AtMost(M, p))
    BY <1>1, <1>4, <2>2, AtMostTimes DEF M
  <2>5. AtMost(M, (res * b) * AtMost(M, q)) = AtMost(M, (res * b) * q)
    BY <1>1, <1>4, <2>2, AtMostTimes DEF M
  <2>6. (res * b) * q = res * (q * b)
    <3>1. (res * b) * q = res * (b * q) /\ b * q = q * b
      BY <1>4, TimesAssociates
    <3> QED
      BY <3>1
  <2>7. AtMost(M, AtMost(M, res * b) * p) = AtMost(M, res * Power(b)[n])
    BY <1>5, <2>1, <2>3, <2>4, <2>5, <2>6, Zenon
  <2> QED
    BY <1>6, <2>7 DEF M, SatMul, p, h
<1>7. CASE n % 2 # 1
  <2>1. Power(b)[n] = q
    BY <1>2, <1>7
  <2> HIDE DEF q
  <2>2. AtMost(M, res * p) = AtMost(M, res * AtMost(M, p))
    BY <1>1, <1>4, AtMostTimes DEF M
  <2>3. AtMost(M, res * AtMost(M, q)) = AtMost(M, res * q)
    BY <1>1, <1>4, AtMostTimes DEF M
  <2>4. AtMost(M, res * p) = AtMost(M, res * Power(b)[n])
    BY <1>5, <2>1, <2>2, <2>3, Zenon
  <2> QED
    BY <1>7, <2>4 DEF M, p, h
<1> QED
  BY <1>6, <1>7

(* u256_saturating_pow: the power, or U256::MAX where that is less *)
LEMMA SatPowIs ==
    ASSUME NEW base \in Nat, NEW n \in Nat
    PROVE  SatPow(base, n) = AtMost(MaxU, Power(base)[n])
<1> DEFINE A == [base : Nat, n : Nat, res : 0 .. MaxU]
           c == [base |-> base, n |-> n, res |-> 1]
           step == [k \in 1 .. n |-> [s \in A |-> SquareAndMultiply(s)]]
           loop == CHOOSE g : g = [k \in 0 .. n |-> IF k = 0 THEN c ELSE SquareAndMultiply(g[k - 1])]
<1>1. MaxU \in Nat /\ 1 <= MaxU /\ c \in A
  BY WidthAssumption
<1>2. ASSUME NEW s \in A
      PROVE  SquareAndMultiply(s) \in A
  <2>1. s.base * s.base \in Nat /\ s.res * s.base \in Nat /\ s.n \div 2 \in Nat
    <3>1. s.base \in Nat /\ s.res \in Nat /\ s.n \in Nat
      BY <1>1
    <3> QED
      BY <3>1, TimesIs
  <2>2. SatMul(s.base, s.base) \in Nat /\ SatMul(s.res, s.base) \in 0 .. MaxU
    BY <1>1, <2>1, AtMostIs DEF SatMul
  <2> QED
    BY <2>1, <2>2 DEF SquareAndMultiply
<1>3. step \in [1 .. n -> [A -> A]]
  BY <1>2
<1>4. PICK f \in [0 .. n -> A] : IsIteration(f, c, n, step)
  <2> HIDE DEF step, A, c
  <2> QED
    BY <1>1, <1>3, IterationExists, Zenon
<1>5. ASSUME NEW k \in 1 .. n
      PROVE  f[k - 1] \in A /\ f[k] = SquareAndMultiply(f[k - 1])
  <2>1. k - 1 \in 0 .. n
    OBVIOUS
  <2>2. f[k - 1] \in A
    <3> HIDE DEF A, step
    <3> QED
      BY <2>1
  <2> HIDE DEF A
  <2> QED
    BY <1>4, <2>2 DEF IsIteration
<1>6. f[0] = c
  <2> HIDE DEF c, step, A
  <2> QED
    BY <1>4 DEF IsIteration
<1> HIDE DEF step
<1>7. f = [k \in 0 .. n |-> IF k = 0 THEN c ELSE SquareAndMultiply(f[k - 1])]
  <2>1. \A k \in 0 .. n : f[k] = IF k = 0 THEN c ELSE SquareAndMultiply(f[k - 1])
    <3> HIDE DEF A, c
    <3> QED
      BY <1>5, <1>6
  <2> HIDE DEF A, c
  <2> QED
    BY <2>1
<1>8. loop = [k \in 0 .. n |-> IF k = 0 THEN c ELSE SquareAndMultiply(loop[k - 1])]
  <2> HIDE DEF A, c
  <2> QED
    BY <1>7
<1>9. SatPow(base, n) = loop[n].res
  BY DEF SatPow
<1> HIDE DEF loop
<1>10. loop[0] = c /\ \A k \in 1 .. n : loop[k] = SquareAndMultiply(loop[k - 1])
  <2> HIDE DEF c
  <2> QED
    BY <1>8
<1>11. loop \in [0 .. n -> A]
  <2>1. loop = [k \in 0 .. n |-> loop[k]]
    <3> HIDE DEF c
    <3> QED
      BY <1>8
  <2>2. loop[0] \in A
    <3> HIDE DEF c, A
    <3> QED
      BY <1>1, <1>10
  <2>3. \A k \in 1 .. n : loop[k - 1] \in A => loop[k] \in A
    <3> HIDE DEF c, A
    <3> QED
      BY <1>2, <1>10
  <2> HIDE DEF c, A
  <2> QED
    BY <2>1, <2>2, <2>3, IterationType, Zenon
<1> DEFINE left(s) == AtMost(MaxU, s.res * Power(s.base)[s.n])
           S == {k \in 0 .. n : loop[k].n <= n - k /\ left(loop[k]) = left(c)}
<1>12. 0 \in S
  <2>1. loop[0].n = n
    BY <1>10
  <2> HIDE DEF c, left
  <2> QED
    BY <1>10, <2>1
<1>13. ASSUME NEW k \in 1 .. n, k - 1 \in S
       PROVE  k \in S
  <2>1. PICK s \in A : s = loop[k - 1]
    <3> HIDE DEF A
    <3>1. k - 1 \in 0 .. n
      OBVIOUS
    <3> QED
      BY <1>11, <3>1
  <2>2. s.n <= n - (k - 1) /\ left(s) = left(c)
    <3> HIDE DEF left, c
    <3> QED
      BY <1>13, <2>1
  <2>3. s.res \in Nat /\ s.base \in Nat /\ s.n \in Nat
    BY <1>1
  <2>4. loop[k] = SquareAndMultiply(s)
    BY <1>10, <2>1
  <2> SUFFICES loop[k].n <= n - k /\ left(loop[k]) = left(c)
    OBVIOUS
  <2>5. CASE s.n = 0
    <3>1. loop[k] = s
      BY <2>4, <2>5 DEF SquareAndMultiply
    <3>2. s.n <= n - k
      BY <2>5
    <3> HIDE DEF left, c, A
    <3> QED
      BY <2>2, <3>1, <3>2, Zenon
  <2>6. CASE s.n # 0
    <3> DEFINE t == [base |-> SatMul(s.base, s.base), n |-> s.n \div 2,
                     res |-> IF s.n % 2 = 1 THEN SatMul(s.res, s.base) ELSE s.res]
    <3>1. loop[k] = t
      BY <2>4, <2>6 DEF SquareAndMultiply
    <3>2. t.n <= n - k
      <4> DEFINE x == s.n
      <4>1. x \in Nat /\ x # 0 /\ x <= n - (k - 1)
        BY <2>2, <2>3, <2>6
      <4> HIDE DEF x
      <4>2. x \div 2 <= n - k
        BY <4>1
      <4> QED
        BY <4>2 DEF x
    <3>3. left(t) = left(s)
      <4>1. left(t) = AtMost(MaxU, (IF s.n % 2 = 1 THEN SatMul(s.res, s.base) ELSE s.res)
                                   * Power(SatMul(s.base, s.base))[s.n \div 2])
        OBVIOUS
      <4> QED
        BY ZenonT(30), <2>3, <2>6, <4>1, SquareStep
    <3> HIDE DEF left, c, t, A
    <3> QED
      BY <2>2, <3>1, <3>2, <3>3, Zenon
  <2> QED
    BY <2>5, <2>6
<1>14. 0 .. n \subseteq S
  <2> HIDE DEF S
  <2> QED
    BY <1>12, <1>13, IntervalInduction
<1>15. loop[n].n = 0 /\ left(loop[n]) = left(c) /\ loop[n] \in A
  <2>1. n \in S /\ n \in 0 .. n
    BY <1>14
  <2>2. loop[n] \in A
    <3> HIDE DEF A
    <3> QED
      BY <1>11, <2>1
  <2> DEFINE x == loop[n].n
  <2>3. x <= n - n /\ left(loop[n]) = left(c)
    <3> HIDE DEF left, c
    <3> QED
      BY <2>1
  <2>4. x \in Nat
    BY <2>2
  <2> HIDE DEF x, left, c, A
  <2>5. x = 0
    BY <2>3, <2>4
  <2> QED
    BY <2>2, <2>3, <2>5 DEF x
<1>16. left(c) = AtMost(MaxU, Power(base)[n])
  <2>1. Power(base)[n] \in Nat
    BY PowerNext
  <2>2. 1 * Power(base)[n] = Power(base)[n]
    BY <2>1
  <2>3. c.res = 1 /\ c.base = base /\ c.n = n
    OBVIOUS
  <2> HIDE DEF c
  <2> QED
    BY <2>2, <2>3
<1>17. left(loop[n]) = loop[n].res
  <2> DEFINE b == loop[n].base
             r == loop[n].res
  <2>1. b \in Nat /\ r \in 0 .. MaxU
    BY <1>15
  <2>2. Power(b)[0] = 1
    BY <2>1, PowerNext
  <2> HIDE DEF b, r
  <2>3. AtMost(MaxU, r * 1) = r
    BY <1>1, <2>1 DEF AtMost
  <2> QED
    BY <1>15, <2>2, <2>3 DEF b, r
<1> QED
  BY <1>9, <1>15, <1>16, <1>17

(* The power as the arithmetic has it *)
Capped(b, k) == AtMost(MaxU, Power(b)[k])

(* SatPow, by squares that saturate, is the power that saturates. *)
LEMMA CappedIs ==
    ASSUME NEW b \in Nat, b # 0, NEW k \in Nat
    PROVE  /\ Capped(b, k) \in 1 .. MaxU
           /\ Capped(b, k + 1) = AtMost(MaxU, Capped(b, k) * b)
           /\ SatPow(b, k) = Capped(b, k)
<1>1. MaxU \in Nat /\ MaxU # 0
  BY WidthAssumption
<1>2. Power(b)[k] \in Nat /\ Power(b)[k + 1] = Power(b)[k] * b
  BY PowerNext
<1>3. Power(b)[k] # 0
  BY PowerRises
<1>4. SatPow(b, k) = Capped(b, k)
  BY SatPowIs DEF Capped
<1> DEFINE p == Power(b)[k]
<1>5. p \in Nat /\ p # 0
  BY <1>2, <1>3
<1>6. Capped(b, k) = AtMost(MaxU, p) /\ Capped(b, k + 1) = AtMost(MaxU, p * b)
  BY <1>2 DEF Capped
<1> HIDE DEF p
<1>7. AtMost(MaxU, p) \in 1 .. MaxU
  BY <1>1, <1>5, AtMostIs
<1>8. AtMost(MaxU, AtMost(MaxU, p) * b) = AtMost(MaxU, p * b)
  BY <1>1, <1>5, AtMostTimes
<1> QED
  BY <1>4, <1>6, <1>7, <1>8

(* What the loop of Count takes off its index in d turns *)
Turns(b, min) == CHOOSE f \in [Nat -> Nat] :
    f[0] = 0 /\ \A k \in Nat \ {0} : f[k] = f[k - 1] + Capped(b, min + (k - 1))

(* The recursion of the turns *)
LEMMA TurnsAre ==
    ASSUME NEW b \in Nat, b # 0, NEW min \in Nat, NEW d \in Nat
    PROVE  /\ Turns(b, min)[d] \in Nat /\ Turns(b, min)[0] = 0
           /\ Turns(b, min)[d + 1] = Turns(b, min)[d] + Capped(b, min + d)
<1> DEFINE step == [k \in Nat |-> [x \in Nat |->
                       IF k = 0 THEN x ELSE x + Capped(b, min + (k - 1))]]
<1>1. ASSUME NEW k \in Nat
      PROVE  Capped(b, min + k) \in Nat
  <2>1. min + k \in Nat
    OBVIOUS
  <2>2. Capped(b, min + k) \in 1 .. MaxU
    BY <2>1, CappedIs
  <2> QED
    BY <2>2
<1>2. step \in [Nat -> [Nat -> Nat]]
  <2> SUFFICES ASSUME NEW k \in Nat, NEW x \in Nat
               PROVE  (IF k = 0 THEN x ELSE x + Capped(b, min + (k - 1))) \in Nat
    OBVIOUS
  <2>1. CASE k = 0
    BY <2>1
  <2>2. CASE k # 0
    <3>1. k - 1 \in Nat
      BY <2>2
    <3>2. Capped(b, min + (k - 1)) \in Nat
      BY <1>1, <3>1
    <3> QED
      BY <2>2, <3>2
  <2> QED
    BY <2>1, <2>2
<1>3. PICK f \in [Nat -> Nat] : IsEndless(f, 0, step)
  <2>1. 0 \in Nat
    OBVIOUS
  <2> HIDE DEF step
  <2> QED
    BY <1>2, <2>1, EndlessIteration, Zenon
<1>4. f[0] = 0
  <2> HIDE DEF step
  <2> QED
    BY <1>3 DEF IsEndless
<1>5. ASSUME NEW k \in Nat \ {0}
      PROVE  f[k] = f[k - 1] + Capped(b, min + (k - 1))
  <2>1. k - 1 \in Nat
    OBVIOUS
  <2>2. f[k - 1] \in Nat
    BY <2>1
  <2>3. step[k][f[k - 1]] = f[k - 1] + Capped(b, min + (k - 1))
    BY <2>2
  <2>4. f[k] = step[k][f[k - 1]]
    <3> HIDE DEF step
    <3> QED
      BY <1>3 DEF IsEndless
  <2> QED
    BY <2>3, <2>4
<1>6. \E h \in [Nat -> Nat] : h[0] = 0 /\ \A k \in Nat \ {0} : h[k] = h[k - 1] + Capped(b, min + (k - 1))
  BY <1>4, <1>5
<1> DEFINE t == Turns(b, min)
<1>7. t \in [Nat -> Nat] /\ t[0] = 0 /\ \A k \in Nat \ {0} : t[k] = t[k - 1] + Capped(b, min + (k - 1))
  BY <1>6 DEF Turns
<1> HIDE DEF t
<1>8. (d + 1) - 1 = d /\ d + 1 \in Nat \ {0}
  OBVIOUS
<1>9. t[d] \in Nat /\ t[0] = 0 /\ t[d + 1] = t[d] + Capped(b, min + d)
  BY <1>7, <1>8
<1> QED
  BY <1>9 DEF t

(* More turns take more. *)
LEMMA TurnsRise ==
    ASSUME NEW b \in Nat, b # 0, NEW min \in Nat, NEW d \in Nat, NEW e \in Nat, d <= e
    PROVE  Turns(b, min)[d] <= Turns(b, min)[e]
<1> DEFINE t == Turns(b, min)
           S == {k \in Nat : t[d] <= t[d + k]}
<1>1. \A k \in Nat : t[k] \in Nat /\ t[k] <= t[k + 1]
  <2> SUFFICES ASSUME NEW k \in Nat PROVE t[k] \in Nat /\ t[k] <= t[k + 1]
    OBVIOUS
  <2>1. t[k] \in Nat /\ t[k + 1] = t[k] + Capped(b, min + k) /\ Capped(b, min + k) \in Nat
    <3>1. min + k \in Nat
      OBVIOUS
    <3>2. Capped(b, min + k) \in 1 .. MaxU
      BY <3>1, CappedIs
    <3>3. Turns(b, min)[k] \in Nat /\ Turns(b, min)[k + 1] = Turns(b, min)[k] + Capped(b, min + k)
      BY TurnsAre
    <3> QED
      BY <3>2, <3>3
  <2> HIDE DEF t
  <2> QED
    BY <2>1
<1> HIDE DEF t
<1>2. 0 \in S
  <2>1. d + 0 = d
    OBVIOUS
  <2> QED
    BY <1>1, <2>1
<1>3. ASSUME NEW k \in Nat, k \in S
      PROVE  k + 1 \in S
  <2>1. d + (k + 1) = (d + k) + 1 /\ d + k \in Nat /\ d + (k + 1) \in Nat /\ k + 1 \in Nat
    OBVIOUS
  <2>2. t[d] \in Nat /\ t[d + k] \in Nat /\ t[d + (k + 1)] \in Nat
        /\ t[d] <= t[d + k] /\ t[d + k] <= t[d + (k + 1)]
    BY <1>1, <1>3, <2>1
  <2>3. t[d] <= t[d + (k + 1)]
    BY <2>2
  <2> QED
    BY <2>1, <2>3
<1>4. Nat \subseteq S
  <2> HIDE DEF S
  <2> QED
    BY <1>2, <1>3, SetInduction
<1>5. e - d \in Nat /\ d + (e - d) = e
  OBVIOUS
<1>6. e - d \in S
  BY <1>4, <1>5
<1> QED
  BY <1>5, <1>6 DEF t

(* They telescope, and where nothing saturates they do so exactly. *)
LEMMA TurnsTelescope ==
    ASSUME NEW b \in Nat, b # 0, NEW min \in Nat, NEW d \in Nat
    PROVE  /\ Capped(b, min + d) <= Turns(b, min)[d] * (b - 1) + Capped(b, min)
           /\ Power(b)[min + d] <= MaxU =>
                 Power(b)[min + d] = Turns(b, min)[d] * (b - 1) + Power(b)[min]
<1> DEFINE t == Turns(b, min)
           S == {k \in Nat : /\ Capped(b, min + k) <= t[k] * (b - 1) + Capped(b, min)
                             /\ Power(b)[min + k] <= MaxU =>
                                   Power(b)[min + k] = t[k] * (b - 1) + Power(b)[min]}
<1>1. MaxU \in Nat
  BY WidthAssumption
<1>2. \A k \in Nat : min + k \in Nat
  OBVIOUS
<1>3. \A k \in Nat : t[k] \in Nat /\ t[k + 1] = t[k] + Capped(b, min + k) /\ t[0] = 0
  BY TurnsAre
<1> HIDE DEF t
<1>4. 0 \in S
  <2>1. min + 0 = min /\ t[0] = 0 /\ 0 * (b - 1) = 0
    BY <1>3
  <2>2. Capped(b, min) \in Nat /\ Power(b)[min] \in Nat
    BY CappedIs, PowerNext
  <2>3. 0 + Capped(b, min) = Capped(b, min) /\ 0 + Power(b)[min] = Power(b)[min]
        /\ Capped(b, min) <= Capped(b, min)
    BY <2>2
  <2> QED
    BY <2>1, <2>3
<1>5. ASSUME NEW k \in Nat, k \in S
      PROVE  k + 1 \in S
  <2> DEFINE x == Capped(b, min + k)
             y == Capped(b, min + (k + 1))
             p == Power(b)[min + k]
             q == Power(b)[min + (k + 1)]
             u == t[k]
             v == t[k + 1]
             a == Capped(b, min)
             z == Power(b)[min]
  <2>1. min + k \in Nat /\ min + (k + 1) = (min + k) + 1 /\ k + 1 \in Nat
    BY <1>2
  <2>2. /\ x \in 1 .. MaxU /\ y = AtMost(MaxU, x * b) /\ x = AtMost(MaxU, p)
        /\ p \in Nat /\ q = p * b /\ u \in Nat /\ v = u + x
    BY <1>3, <2>1, CappedIs, PowerNext DEF Capped
  <2>3. x <= u * (b - 1) + a /\ (p <= MaxU => p = u * (b - 1) + z)
    BY <1>5
  <2>4. a \in Nat /\ z \in Nat
    BY CappedIs, PowerNext
  <2> HIDE DEF x, y, p, q, u, v, a, z
  <2>5. x * b \in Nat /\ y <= x * b
    <3>1. x \in Nat
      BY <1>1, <2>2
    <3>2. x * b \in Nat
      BY <3>1, TimesIs
    <3> QED
      BY <1>1, <2>2, <3>2, AtMostIs
  <2>6. v * (b - 1) = u * (b - 1) + x * (b - 1) /\ x * b = x * (b - 1) + x
    BY <1>1, <2>2
  <2>7. y <= v * (b - 1) + a
    <3> DEFINE f == u * (b - 1)
               g == x * (b - 1)
               h == x * b
    <3>1. f \in Int /\ g \in Int /\ h \in Nat /\ y <= h /\ h = g + x /\ x <= f + a /\ x \in Int
          /\ y \in Int
      <4>1. b - 1 \in Int /\ x \in Int /\ u \in Int
        BY <1>1, <2>2
      <4>2. y \in Int
        BY <1>1, <2>2, <2>5, AtMostIs
      <4> QED
        BY <2>3, <2>5, <2>6, <4>1, <4>2
    <3> HIDE DEF f, g, h
    <3>2. y <= (f + g) + a
      BY <2>4, <3>1
    <3> QED
      BY <2>6, <3>2 DEF f, g
  <2>8. q <= MaxU => q = v * (b - 1) + z
    <3> SUFFICES ASSUME q <= MaxU PROVE q = v * (b - 1) + z
      OBVIOUS
    <3>1. p <= q
      BY <2>2, TimesIs
    <3>2. q \in Nat
      BY <2>2, TimesIs
    <3>3. p <= MaxU
      BY <1>1, <2>2, <3>1, <3>2
    <3>4. x = p
      BY <1>1, <2>2, <3>3, AtMostIs
    <3> DEFINE f == u * (b - 1)
               g == x * (b - 1)
    <3>5. f \in Int /\ g \in Int /\ p = f + z /\ q = g + x
      <4>1. b - 1 \in Int /\ x \in Int /\ u \in Int
        BY <1>1, <2>2
      <4> QED
        BY <2>2, <2>3, <2>6, <3>3, <3>4, <4>1
    <3> HIDE DEF f, g
    <3>6. q = (f + g) + z
      BY <2>2, <2>4, <3>4, <3>5
    <3> QED
      BY <2>6, <3>6 DEF f, g
  <2> QED
    BY <2>1, <2>7, <2>8 DEF y, v, a, q, z
<1>6. Nat \subseteq S
  <2> HIDE DEF S
  <2> QED
    BY <1>4, <1>5, SetInduction
<1> QED
  BY <1>6 DEF t

(* Where there is one item, each turn takes one. *)
LEMMA TurnsOfOne ==
    ASSUME NEW min \in Nat, NEW d \in Nat
    PROVE  Turns(1, min)[d] = d
<1> DEFINE t == Turns(1, min)
           S == {k \in Nat : t[k] = k}
<1>1. \A k \in Nat : Capped(1, k) = 1
  <2> DEFINE P == {k \in Nat : Power(1)[k] = 1}
  <2>1. 0 \in P
    BY PowerNext
  <2>2. \A k \in Nat : k \in P => k + 1 \in P
    <3> SUFFICES ASSUME NEW k \in Nat, Power(1)[k] = 1 PROVE Power(1)[k + 1] = 1
      OBVIOUS
    <3>1. Power(1)[k + 1] = Power(1)[k] * 1
      BY PowerNext
    <3> QED
      BY <3>1
  <2>3. Nat \subseteq P
    <3> HIDE DEF P
    <3> QED
      BY <2>1, <2>2, SetInduction
  <2> QED
    BY <2>3, WidthAssumption DEF Capped, AtMost
<1>2. \A k \in Nat : t[k] \in Nat /\ t[k + 1] = t[k] + Capped(1, min + k) /\ t[0] = 0
  <2>1. 1 \in Nat /\ 1 # 0
    OBVIOUS
  <2> QED
    BY ONLY <2>1, min \in Nat, TurnsAre
<1> HIDE DEF t
<1>3. \A k \in Nat : t[k + 1] = t[k] + 1 /\ t[0] = 0
  BY <1>1, <1>2
<1>4. Nat \subseteq S
  <2>1. 0 \in S /\ \A k \in Nat : k \in S => k + 1 \in S
    BY <1>3
  <2> HIDE DEF S
  <2> QED
    BY <2>1, SetInduction
<1> QED
  BY <1>4 DEF t

-----------------------------------------------------------------------------
(* Sizes, and the closed form of a count *)

Reasons == {"none", "overflow", "remainder", "unknown dictionary", "empty dictionary", "no words",
            "unknown generator"}

(* A size is positive, or there is a panic instead. *)
Sizes == {s \in [n : 0 .. MaxU, panic : Reasons] : s.n = 0 <=> s.panic # "none"}

(* What results of size there are *)
LEMMA SizeIs ==
    /\ \A n \in 1 .. MaxU : Size(n) \in Sizes /\ Size(n).n = n /\ Size(n).panic = "none"
    /\ \A why \in Reasons \ {"none"} : Panics(why) \in Sizes /\ Panics(why).panic = why
    /\ \A s \in Sizes : s.panic = "none" => s.n \in 1 .. MaxU
    /\ \A s, t \in Sizes : Then(s, t) \in Sizes
    /\ \A s, t : Then(s, t).panic = "none" => s.panic = "none" /\ Then(s, t) = t
<1>1. MaxU \in Nat /\ 1 <= MaxU
  BY WidthAssumption
<1>2. \A n \in 1 .. MaxU : Size(n) \in Sizes /\ Size(n).n = n /\ Size(n).panic = "none"
  BY <1>1 DEF Size, Sizes, Reasons
<1>3. \A why \in Reasons \ {"none"} : Panics(why) \in Sizes /\ Panics(why).panic = why
  <2> SUFFICES ASSUME NEW why \in Reasons, why # "none"
               PROVE  Panics(why) \in Sizes /\ Panics(why).panic = why
    OBVIOUS
  <2> QED
    BY <1>1 DEF Panics, Sizes
<1>4. \A s \in Sizes : s.panic = "none" => s.n \in 1 .. MaxU
  BY <1>1 DEF Sizes
<1>5. \A s, t \in Sizes : Then(s, t) \in Sizes
  BY DEF Then
<1>6. \A s, t : Then(s, t).panic = "none" => s.panic = "none" /\ Then(s, t) = t
  BY DEF Then
<1> QED
  BY <1>2, <1>3, <1>4, <1>5, <1>6

(* The closed form: no more than what the turns of the loop take in all *)
LEMMA CountSizeIs ==
    ASSUME NEW b \in 1 .. MaxU, NEW max \in 0 .. MaxCount, NEW min \in 0 .. max
    PROVE  /\ CountSize(b, min, max) \in Sizes
           /\ CountSize(b, min, max).panic = "none" =>
                 /\ CountSize(b, min, max).n <= Turns(b, min)[max - min + 1]
                 /\ Power(b)[max + 1] <= MaxU =>
                       CountSize(b, min, max).n = Turns(b, min)[max - min + 1]
<1> DEFINE s == CountSize(b, min, max)
           e == max - min + 1
           x == Capped(b, max + 1)
           y == Capped(b, min)
           t == Turns(b, min)[e]
<1>1. /\ MaxU \in Nat /\ MaxCount \in 1 .. MaxU /\ b \in Nat /\ b # 0 /\ b <= MaxU
      /\ min \in Nat /\ max \in Nat /\ max <= MaxCount /\ e \in Nat /\ e # 0
      /\ max + 1 \in Nat /\ min + e = max + 1 /\ 1 <= e
  BY WidthAssumption
<1>2. /\ x \in 1 .. MaxU /\ y \in 1 .. MaxU /\ t \in Nat
      /\ SatPow(b, max + 1) = x /\ SatPow(b, min) = y
  BY <1>1, CappedIs, TurnsAre
<1>3. x <= t * (b - 1) + y /\ (Power(b)[max + 1] <= MaxU => Power(b)[max + 1] = t * (b - 1) + Power(b)[min])
  <2>1. /\ Capped(b, min + e) <= t * (b - 1) + y
        /\ Power(b)[min + e] <= MaxU => Power(b)[min + e] = t * (b - 1) + Power(b)[min]
    <3> HIDE DEF e
    <3> QED
      BY <1>1, TurnsTelescope
  <2> HIDE DEF e, t, y
  <2> QED
    BY <1>1, <2>1
<1>4. CASE b = 1
  <2>1. t = e
    <3> HIDE DEF e
    <3> QED
      BY <1>1, <1>4, TurnsOfOne
  <2>2. s = IF e > MaxCount THEN Panics("overflow") ELSE Size(e)
    BY <1>4 DEF CountSize
  <2>3. CASE e > MaxCount
    <3>1. Panics("overflow") \in Sizes /\ Panics("overflow").panic = "overflow"
      BY SizeIs DEF Reasons
    <3> QED
      BY <2>2, <2>3, <3>1
  <2>4. CASE ~ (e > MaxCount)
    <3>1. e \in 1 .. MaxU
      <4> HIDE DEF e
      <4> QED
        BY <1>1, <2>4
    <3>2. s \in Sizes /\ s.n = e
      <4> HIDE DEF e, s
      <4>1. s = Size(e)
        BY <2>2, <2>4
      <4> QED
        BY <3>1, <4>1, SizeIs
    <3>3. e <= e
      BY <1>1
    <3> HIDE DEF e, s
    <3> QED
      BY <2>1, <3>2, <3>3 DEF e, s
  <2> QED
    BY <2>3, <2>4
<1>5. CASE b # 1
  <2>1. s = IF max + 1 > MaxCount THEN Panics("overflow")
            ELSE IF x = MaxU /\ y = MaxU THEN Size(MaxU)
            ELSE IF (x - y) % (b - 1) # 0 THEN Panics("remainder")
            ELSE Size((x - y) \div (b - 1))
    BY <1>2, <1>5 DEF CountSize
  <2>2. Panics("overflow") \in Sizes /\ Panics("remainder") \in Sizes
        /\ Panics("overflow").panic = "overflow" /\ Panics("remainder").panic = "remainder"
    BY SizeIs DEF Reasons
  <2>3. y <= t
    <3>1. Turns(b, min)[1] <= t
      <4>1. 1 \in Nat
        OBVIOUS
      <4> HIDE DEF e
      <4> QED
        BY <1>1, <4>1, TurnsRise
    <3>2. Turns(b, min)[1] = y
      <4>1. PICK d \in Nat : d = 0
        OBVIOUS
      <4>2. Turns(b, min)[0] = 0 /\ Turns(b, min)[d + 1] = Turns(b, min)[d] + Capped(b, min + d)
        BY <1>1, TurnsAre
      <4>3. d + 1 = 1 /\ min + d = min
        BY <1>1, <4>1
      <4>4. Turns(b, min)[1] = 0 + y
        BY <4>1, <4>2, <4>3
      <4> HIDE DEF y
      <4> QED
        BY <1>2, <4>4
    <3> QED
      BY <3>1, <3>2
  <2>4. /\ Power(b)[min] \in Nat /\ Power(b)[max + 1] \in Nat
        /\ Power(b)[min] < Power(b)[max + 1]
    <3>1. min < max + 1 /\ min <= max + 1 /\ b > 1
      BY <1>1, <1>5
    <3> QED
      BY <1>1, <3>1, PowerRises, PowerNext
  <2>5. /\ x = AtMost(MaxU, Power(b)[max + 1]) /\ y = AtMost(MaxU, Power(b)[min])
    BY DEF Capped
  <2> DEFINE p == Power(b)[max + 1]
             q == Power(b)[min]
  <2> HIDE DEF p, q, x, y, t, s, e
  <2>6. (x = MaxU /\ y = MaxU) \/ y < x
    BY <1>1, <2>4, <2>5 DEF AtMost, p, q
  <2>7. CASE max + 1 > MaxCount
    BY <2>1, <2>2, <2>7 DEF s
  <2>8. CASE ~ (max + 1 > MaxCount) /\ x = MaxU /\ y = MaxU
    <3>1. s = Size(MaxU) /\ MaxU \in 1 .. MaxU
      BY <1>1, <2>1, <2>8
    <3>2. s \in Sizes /\ s.n = MaxU
      BY <3>1, SizeIs
    <3>3. p <= MaxU => FALSE
      BY <1>1, <2>4, <2>5, <2>8 DEF AtMost, p, q
    <3> QED
      BY <2>3, <2>8, <3>2, <3>3 DEF s, t, e, p
  <2>9. CASE ~ (max + 1 > MaxCount) /\ ~ (x = MaxU /\ y = MaxU) /\ (x - y) % (b - 1) # 0
    BY <2>1, <2>2, <2>9 DEF s
  <2>10. CASE ~ (max + 1 > MaxCount) /\ ~ (x = MaxU /\ y = MaxU) /\ (x - y) % (b - 1) = 0
    <3> DEFINE d == x - y
               c == b - 1
               r == d \div c
    <3>1. d \in Nat /\ d # 0 /\ c \in Nat /\ c # 0 /\ d <= MaxU /\ d % c = 0
      BY <1>1, <1>2, <1>5, <2>6, <2>10
    <3>2. d <= t * c
      <4> DEFINE g == t * c
      <4>1. x <= g + y /\ g \in Int
        BY <1>1, <1>2, <1>3
      <4> HIDE DEF g, c
      <4>2. d <= g
        BY <1>2, <4>1
      <4> QED
        BY <4>2 DEF g
    <3>3. s = Size(r)
      BY <2>1, <2>10
    <3>4. p <= MaxU => d = t * c
      <4> SUFFICES ASSUME p <= MaxU PROVE d = t * c
        OBVIOUS
      <4>1. p = t * c + q
        BY <1>3 DEF p, q
      <4>2. x = p /\ y = q
        BY <1>1, <2>4, <2>5 DEF AtMost, p, q
      <4> DEFINE g == t * c
      <4>3. g \in Int
        BY <1>1, <1>2
      <4> HIDE DEF g, c
      <4>4. p = g + q
        BY <4>1 DEF g
      <4>5. d = g
        BY <2>4, <4>2, <4>3, <4>4 DEF p, q
      <4> QED
        BY <4>5 DEF g
    <3> HIDE DEF d, c
    <3>5. d = r * c /\ r \in Nat
      BY <3>1
    <3> HIDE DEF r
    <3>6. r # 0 /\ r <= d
      <4>1. r # 0
        BY <3>1, <3>5
      <4> QED
        BY <3>1, <3>5, <4>1, TimesIs
    <3>7. r <= t
      <4> SUFFICES ASSUME t < r PROVE FALSE
        BY <1>2, <3>5
      <4>1. t + 1 <= r /\ t + 1 \in Nat
        BY <1>2, <3>5
      <4>2. (t + 1) * c <= r * c
        BY <3>1, <3>5, <4>1, TimesRises
      <4>3. (t + 1) * c = t * c + c /\ t * c \in Nat
        BY <1>2, <3>1, TimesIs
      <4> DEFINE g == t * c
                 h == r * c
      <4>4. g \in Nat /\ h <= g /\ g + c <= h /\ h \in Nat
        BY <3>1, <3>2, <3>5, <4>2, <4>3
      <4> HIDE DEF g, h
      <4> QED
        BY <3>1, <4>4
    <3>8. p <= MaxU => r = t
      <4> SUFFICES ASSUME r * c = t * c PROVE r = t
        BY <3>4, <3>5
      <4>1. (t - r) * c = 0 /\ t - r \in Nat
        <5>1. (t - r) * c = t * c - r * c
          BY <1>2, <3>1, <3>5
        <5>2. t * c \in Nat
          BY <1>2, <3>1, TimesIs
        <5> QED
          BY <1>2, <3>5, <3>7, <5>1, <5>2
      <4>2. t - r = 0
        BY <3>1, <4>1, TimesIs
      <4> QED
        BY <1>2, <3>5, <4>2
    <3>9. r \in 1 .. MaxU
      BY <1>1, <3>1, <3>5, <3>6
    <3>10. s \in Sizes /\ s.n = r
      BY <3>3, <3>9, SizeIs
    <3> QED
      BY <3>7, <3>8, <3>10 DEF s, t, e, p
  <2> QED
    BY <2>7, <2>8, <2>9, <2>10
<1> QED
  BY <1>4, <1>5

-----------------------------------------------------------------------------
(* The loop of Count *)

(* After d turns the loop of Count has taken what d turns take. *)
Turned(s, b, min, i, d) ==
    /\ s.count = min + d /\ s.n = Capped(b, min + d)
    /\ s.index \in Nat /\ s.index + Turns(b, min)[d] = i

(* The loop of Count stops after some turns, with less left than the next   *)
(* one would take.                                                          *)
LEMMA CountSplitIs ==
    ASSUME NEW b \in 1 .. MaxU, NEW min \in Nat, NEW i \in Nat
    PROVE  \E d \in Nat : /\ Turned(CountSplit(b, min, i), b, min, i, d)
                          /\ CountSplit(b, min, i).index < Capped(b, min + d)
<1> DEFINE A == [count : Nat, n : 1 .. MaxU, index : Nat]
           c == [count |-> min, n |-> SatPow(b, min), index |-> i]
           step == [k \in 1 .. i |-> [s \in A |-> CountOneMore(b, s)]]
           loop == CHOOSE g : g = [k \in 0 .. i |-> IF k = 0 THEN c ELSE CountOneMore(b, g[k - 1])]
<1>1. MaxU \in Nat /\ b \in Nat /\ b # 0
  BY WidthAssumption
<1>2. c \in A
  <2>1. SatPow(b, min) \in 1 .. MaxU
    BY <1>1, CappedIs
  <2> QED
    BY <2>1
<1>3. ASSUME NEW s \in A
      PROVE  CountOneMore(b, s) \in A
  <2>1. SatMul(s.n, b) \in 1 .. MaxU
    <3>1. s.n \in Nat /\ s.n # 0
      BY <1>1
    <3>2. s.n * b \in Nat /\ s.n * b # 0
      BY <1>1, <3>1, TimesIs
    <3> DEFINE p == s.n * b
    <3>3. SatMul(s.n, b) = AtMost(MaxU, p) /\ p \in Nat /\ p # 0 /\ MaxU # 0
      BY <3>2, WidthAssumption DEF SatMul
    <3> HIDE DEF p
    <3> QED
      BY <1>1, <3>3, AtMostIs
  <2>2. s.n <= s.index => s.index - s.n \in Nat
    BY <1>1
  <2> QED
    BY <1>1, <2>1, <2>2 DEF CountOneMore
<1>4. step \in [1 .. i -> [A -> A]]
  BY <1>3
<1>5. PICK f \in [0 .. i -> A] : IsIteration(f, c, i, step)
  <2> HIDE DEF step, A, c
  <2> QED
    BY <1>2, <1>4, IterationExists, Zenon
<1>6. ASSUME NEW k \in 1 .. i
      PROVE  f[k - 1] \in A /\ f[k] = CountOneMore(b, f[k - 1])
  <2>1. k - 1 \in 0 .. i
    OBVIOUS
  <2>2. f[k - 1] \in A
    <3> HIDE DEF A, step
    <3> QED
      BY <2>1
  <2> HIDE DEF A
  <2> QED
    BY <1>5, <2>2 DEF IsIteration
<1>7. f[0] = c
  <2> HIDE DEF c, step, A
  <2> QED
    BY <1>5 DEF IsIteration
<1> HIDE DEF step
<1>8. f = [k \in 0 .. i |-> IF k = 0 THEN c ELSE CountOneMore(b, f[k - 1])]
  <2>1. \A k \in 0 .. i : f[k] = IF k = 0 THEN c ELSE CountOneMore(b, f[k - 1])
    <3> HIDE DEF A, c
    <3> QED
      BY <1>6, <1>7
  <2> HIDE DEF A, c
  <2> QED
    BY <2>1
<1>9. loop = [k \in 0 .. i |-> IF k = 0 THEN c ELSE CountOneMore(b, loop[k - 1])]
  <2> HIDE DEF A, c
  <2> QED
    BY <1>8
<1>10. CountSplit(b, min, i) = loop[i]
  BY DEF CountSplit
<1> HIDE DEF loop
<1>11. loop[0] = c /\ \A k \in 1 .. i : loop[k] = CountOneMore(b, loop[k - 1])
  <2> HIDE DEF c, A
  <2>1. \A k \in 1 .. i : k \in 0 .. i /\ k # 0
    OBVIOUS
  <2> QED
    BY <1>9, <2>1
<1> DEFINE S == {k \in 0 .. i : \E d \in Nat :
                    /\ Turned(loop[k], b, min, i, d)
                    /\ \/ loop[k].index < loop[k].n
                       \/ loop[k].index <= i - k}
<1>12. 0 \in S
  <2>1. PICK d \in Nat : d = 0
    OBVIOUS
  <2>2. Turns(b, min)[0] = 0 /\ SatPow(b, min) = Capped(b, min)
    BY <1>1, TurnsAre, CappedIs
  <2>3. min + d = min /\ i + 0 = i /\ i <= i - 0
    BY <2>1
  <2>4. Turned(c, b, min, i, d)
    BY <2>1, <2>2, <2>3 DEF Turned
  <2>5. c.index <= i - 0
    BY <2>3
  <2> HIDE DEF c
  <2> QED
    BY <1>11, <2>4, <2>5
<1>13. ASSUME NEW k \in 1 .. i, k - 1 \in S
       PROVE  k \in S
  <2> DEFINE s == loop[k - 1]
  <2>1. PICK d \in Nat : /\ Turned(s, b, min, i, d)
                         /\ s.index < s.n \/ s.index <= i - (k - 1)
    BY <1>13
  <2>2. loop[k] = CountOneMore(b, s)
    BY <1>11
  <2> SUFFICES \E e \in Nat : /\ Turned(loop[k], b, min, i, e)
                              /\ \/ loop[k].index < loop[k].n
                                 \/ loop[k].index <= i - k
    OBVIOUS
  <2> HIDE DEF s, A, c
  <2>3. CASE s.n > s.index
    <3>1. loop[k] = s
      BY <2>2, <2>3 DEF CountOneMore
    <3>2. s.index < s.n
      BY <2>3
    <3> QED
      BY <2>1, <3>1, <3>2
  <2>4. CASE ~ (s.n > s.index)
    <3> DEFINE t == [count |-> s.count + 1, n |-> SatMul(s.n, b), index |-> s.index - s.n]
    <3>1. loop[k] = t
      BY <2>2, <2>4 DEF CountOneMore
    <3> DEFINE x == s.index
               n == s.n
               u == Turns(b, min)[d]
               v == Turns(b, min)[d + 1]
    <3>2. /\ s.count = min + d /\ n = Capped(b, min + d) /\ x \in Nat /\ x + u = i
      BY <2>1 DEF Turned
    <3>3. min + d \in Nat /\ d + 1 \in Nat /\ min + (d + 1) = (min + d) + 1
      OBVIOUS
    <3>4. n \in 1 .. MaxU /\ Capped(b, min + (d + 1)) = AtMost(MaxU, n * b)
      BY <1>1, <3>2, <3>3, CappedIs
    <3>5. u \in Nat /\ v = u + n
      BY <1>1, <3>2, TurnsAre
    <3>6. ~ (n > x) /\ (x < n \/ x <= i - (k - 1))
      BY <2>1, <2>4
    <3> HIDE DEF x, n, u, v
    <3>7. x - n \in Nat /\ (x - n) + v = i /\ x - n <= i - k
      <4>1. /\ x \in Nat /\ n \in Nat /\ n # 0 /\ u \in Nat /\ x + u = i /\ v = u + n
            /\ n <= x /\ x <= i - (k - 1) /\ k \in Nat
        BY <1>1, <3>2, <3>4, <3>5, <3>6
      <4> QED
        BY ONLY <4>1, i \in Nat
    <3>8. Turned(t, b, min, i, d + 1)
      BY <3>2, <3>3, <3>4, <3>7 DEF Turned, SatMul, x, n, v
    <3>9. t.index <= i - k
      BY <3>7 DEF x, n
    <3> HIDE DEF t
    <3> QED
      BY <3>1, <3>3, <3>8, <3>9
  <2> QED
    BY <2>3, <2>4
<1>14. 0 .. i \subseteq S
  <2> HIDE DEF S
  <2> QED
    BY <1>12, <1>13, IntervalInduction
<1>15. PICK d \in Nat : /\ Turned(loop[i], b, min, i, d)
                        /\ loop[i].index < loop[i].n \/ loop[i].index <= i - i
  <2>1. i \in S
    <3> HIDE DEF S
    <3> QED
      BY <1>14
  <2> HIDE DEF A, c
  <2> QED
    BY <2>1
<1>16. loop[i].index < Capped(b, min + d)
  <2> DEFINE x == loop[i].index
             n == loop[i].n
  <2>1. n = Capped(b, min + d) /\ x \in Nat /\ (x < n \/ x <= i - i)
    BY <1>15 DEF Turned
  <2>2. n \in 1 .. MaxU
    <3>1. min + d \in Nat
      OBVIOUS
    <3> QED
      BY <1>1, <2>1, <3>1, CappedIs
  <2> HIDE DEF x, n
  <2>3. x < n
    BY <1>1, <2>1, <2>2
  <2> QED
    BY <2>1, <2>3 DEF x
<1> QED
  BY <1>10, <1>15, <1>16

(* An index below what e turns take is split before the loop has turned e  *)
(* times.                                                                  *)
LEMMA CountSplitStops ==
    ASSUME NEW b \in 1 .. MaxU, NEW min \in Nat, NEW i \in Nat, NEW e \in Nat,
           i < Turns(b, min)[e]
    PROVE  \E d \in Nat : /\ d < e
                          /\ Turned(CountSplit(b, min, i), b, min, i, d)
                          /\ CountSplit(b, min, i).index < Capped(b, min + d)
<1>1. PICK d \in Nat : /\ Turned(CountSplit(b, min, i), b, min, i, d)
                       /\ CountSplit(b, min, i).index < Capped(b, min + d)
  BY CountSplitIs
<1>2. b \in Nat /\ b # 0
  BY WidthAssumption
<1>3. d < e
  <2> SUFFICES ASSUME e <= d PROVE FALSE
    OBVIOUS
  <2> DEFINE u == Turns(b, min)[e]
             v == Turns(b, min)[d]
             x == CountSplit(b, min, i).index
  <2>1. u <= v /\ u \in Nat /\ v \in Nat
    BY <1>2, TurnsRise, TurnsAre
  <2>2. x \in Nat /\ x + v = i
    BY <1>1 DEF Turned
  <2>3. i < u
    OBVIOUS
  <2> HIDE DEF u, v, x
  <2> QED
    BY <2>1, <2>2, <2>3
<1> QED
  BY <1>1, <1>3

-----------------------------------------------------------------------------
(* The digits of an index *)

(* What the quotient and the remainder are *)
LEMMA Division ==
    ASSUME NEW a \in Nat, NEW b \in Nat \ {0}
    PROVE  /\ a % b \in 0 .. b - 1 /\ a \div b \in Nat /\ a \div b <= a
           /\ a = (a \div b) * b + (a % b)
<1>1. a % b \in 0 .. b - 1 /\ a \div b \in Nat /\ a = (a \div b) * b + (a % b)
  OBVIOUS
<1> DEFINE q == a \div b
           r == a % b
<1> HIDE DEF q, r
<1>2. q \in Nat /\ r \in Nat /\ a = q * b + r
  BY <1>1 DEF q, r
<1>3. q <= q * b /\ q * b \in Nat
  BY <1>2, TimesIs
<1>4. q <= a
  BY <1>2, <1>3
<1> QED
  BY <1>1, <1>4 DEF q

(* The index of part k, and what is left of the index before and after it *)
Digit(i, bases, k) == Rests(i, bases)[k - 1] % bases[k]

IsRests(rest, i, bases, n) ==
    /\ rest[0] = i
    /\ \A k \in 0 .. n : rest[k] \in 0 .. MaxU
    /\ \A k \in 1 .. n : /\ Digit(i, bases, k) \in 0 .. bases[k] - 1
                         /\ rest[k - 1] = rest[k] * bases[k] + Digit(i, bases, k)

(* Rests are what their recursion says. *)
LEMMA RestsAre ==
    ASSUME NEW n \in Nat, NEW bases, Len(bases) = n, \A k \in 1 .. n : bases[k] \in 1 .. MaxU,
           NEW i \in 0 .. MaxU
    PROVE  IsRests(Rests(i, bases), i, bases, n)
<1> DEFINE A == 0 .. MaxU
           step == [k \in 1 .. n |-> [x \in A |-> x \div bases[k]]]
           rest == Rests(i, bases)
<1>1. n \in Nat /\ \A k \in 1 .. n : bases[k] \in Nat \ {0}
  BY WidthAssumption
<1>2. ASSUME NEW x \in A, NEW k \in 1 .. n
      PROVE  /\ x \div bases[k] \in A /\ x % bases[k] \in 0 .. bases[k] - 1
             /\ x = (x \div bases[k]) * bases[k] + (x % bases[k])
  <2> DEFINE b == bases[k]
  <2>1. b \in Nat \ {0} /\ x \in Nat /\ x <= MaxU /\ MaxU \in Nat
    BY <1>1, WidthAssumption
  <2> HIDE DEF b
  <2>2. /\ x % b \in 0 .. b - 1 /\ x \div b \in Nat /\ x \div b <= x
        /\ x = (x \div b) * b + (x % b)
    BY <2>1, Division
  <2>3. x \div b \in A
    BY <2>1, <2>2
  <2> QED
    BY <2>2, <2>3 DEF b
<1>3. step \in [1 .. n -> [A -> A]] /\ i \in A
  BY <1>2
<1>4. PICK f \in [0 .. n -> A] : IsIteration(f, i, n, step)
  <2> HIDE DEF step, A
  <2> QED
    BY <1>1, <1>3, IterationExists, Zenon
<1>5. ASSUME NEW k \in 1 .. n
      PROVE  f[k - 1] \in A /\ f[k] = f[k - 1] \div bases[k]
  <2>1. k - 1 \in 0 .. n
    BY <1>1
  <2>2. f[k - 1] \in A
    <3> HIDE DEF A, step
    <3> QED
      BY <2>1
  <2> HIDE DEF A
  <2> QED
    BY <1>4, <2>2 DEF IsIteration
<1>6. f[0] = i
  <2> HIDE DEF step, A
  <2> QED
    BY <1>4 DEF IsIteration
<1> HIDE DEF step
<1>7. f = [k \in 0 .. n |-> IF k = 0 THEN i ELSE f[k - 1] \div bases[k]]
  <2>1. \A k \in 0 .. n : f[k] = IF k = 0 THEN i ELSE f[k - 1] \div bases[k]
    <3> HIDE DEF A
    <3> QED
      BY <1>1, <1>5, <1>6
  <2> HIDE DEF A
  <2> QED
    BY <2>1
<1>8. rest = [k \in 0 .. n |-> IF k = 0 THEN i ELSE rest[k - 1] \div bases[k]]
  <2> HIDE DEF A
  <2> QED
    BY <1>7 DEF Rests
<1> HIDE DEF rest
<1>9. rest[0] = i /\ \A k \in 1 .. n : rest[k] = rest[k - 1] \div bases[k]
  <2>1. 0 \in 0 .. n /\ \A k \in 1 .. n : k \in 0 .. n /\ k # 0
    BY <1>1
  <2> HIDE DEF A
  <2> QED
    BY <1>8, <2>1
<1>10. rest \in [0 .. n -> A]
  <2>1. rest = [k \in 0 .. n |-> rest[k]]
    BY <1>8
  <2>2. rest[0] \in A
    BY <1>9
  <2>3. \A k \in 1 .. n : rest[k - 1] \in A => rest[k] \in A
    <3> HIDE DEF A
    <3> QED
      BY SMTT(30), <1>2, <1>9
  <2> HIDE DEF A
  <2> QED
    BY <2>1, <2>2, <2>3, IterationType, Zenon
<1>11. ASSUME NEW k \in 1 .. n
       PROVE  /\ rest[k - 1] % bases[k] \in 0 .. bases[k] - 1
              /\ rest[k - 1] = rest[k] * bases[k] + (rest[k - 1] % bases[k])
  <2>1. k - 1 \in 0 .. n
    BY <1>1
  <2>2. rest[k - 1] \in A
    <3> HIDE DEF A
    <3> QED
      BY <1>10, <2>1
  <2> HIDE DEF A
  <2> QED
    BY <1>2, <1>9, <2>2
<1>12. \A k \in 0 .. n : rest[k] \in 0 .. MaxU
  BY <1>10
<1> QED
  BY <1>9, <1>11, <1>12 DEF IsRests, Digit, rest

(* How many indexes the first k parts have, or fewer *)
IsProducts(q, bases, n) ==
    /\ q[0] = 1
    /\ \A k \in 0 .. n : q[k] \in Nat
    /\ \A k \in 1 .. n : q[k] <= q[k - 1] * bases[k]

(* Nothing is left of an index below that number. *)
LEMMA RestsEnd ==
    ASSUME NEW n \in Nat, NEW bases, \A k \in 1 .. n : bases[k] \in 1 .. MaxU,
           NEW i, NEW rest, IsRests(rest, i, bases, n),
           NEW q, IsProducts(q, bases, n), i < q[n]
    PROVE  rest[n] = 0
<1> DEFINE S == {k \in 0 .. n : rest[k] * q[k] <= i}
<1>1. n \in Nat /\ MaxU \in Nat /\ i \in Nat /\ i \in 0 .. MaxU
  BY WidthAssumption DEF IsRests
<1>2. \A k \in 0 .. n : rest[k] \in Nat /\ q[k] \in Nat
  BY WidthAssumption DEF IsRests, IsProducts
<1>3. 0 \in S
  <2>1. rest[0] = i /\ q[0] = 1 /\ i * 1 = i /\ i <= i
    BY <1>1 DEF IsRests, IsProducts
  <2> QED
    BY <1>1, <2>1
<1>4. ASSUME NEW k \in 1 .. n, k - 1 \in S
      PROVE  k \in S
  <2> DEFINE r == rest[k]
             s == rest[k - 1]
             p == q[k - 1]
             b == bases[k]
             d == Digit(i, bases, k)
  <2>1. k - 1 \in 0 .. n /\ k \in 0 .. n
    BY <1>1
  <2>2. r \in Nat /\ s \in Nat /\ p \in Nat /\ q[k] \in Nat
    BY <1>2, <2>1
  <2>3. b \in Nat /\ d \in Nat /\ s = r * b + d /\ q[k] <= p * b /\ s * p <= i
    <3>1. b \in 1 .. MaxU /\ d \in 0 .. b - 1
      BY DEF IsRests
    <3>2. s = r * b + d /\ q[k] <= p * b
      BY DEF IsRests, IsProducts
    <3>3. s * p <= i
      BY <1>4
    <3>4. b \in Nat /\ d \in Nat
      <4> HIDE DEF b, d
      <4> QED
        BY <1>1, <3>1
    <3> QED
      BY <3>2, <3>3, <3>4
  <2> HIDE DEF r, s, p, b, d
  <2>4. r * q[k] <= r * (p * b)
    <3>1. p * b \in Nat
      BY <2>2, <2>3, TimesIs
    <3> QED
      BY <2>2, <2>3, <3>1, TimesRises
  <2>5. r * (p * b) = (r * b) * p
    BY <2>2, <2>3, TimesAssociates
  <2>6. (r * b) * p <= s * p
    <3>1. r * b \in Nat
      BY <2>2, <2>3, TimesIs
    <3>2. r * b <= s
      BY <2>3, <3>1
    <3> QED
      BY <2>2, <3>1, <3>2, TimesRises
  <2>7. r * q[k] <= i
    <3>1. r * q[k] \in Nat /\ (r * b) * p \in Nat /\ s * p \in Nat
      <4>1. r * b \in Nat
        BY <2>2, <2>3, TimesIs
      <4> QED
        BY <2>2, <4>1, TimesIs
    <3> DEFINE x == r * q[k]
               y == (r * b) * p
               z == s * p
    <3>2. x \in Nat /\ y \in Nat /\ z \in Nat /\ x <= y /\ y <= z /\ z <= i
      BY <2>3, <2>4, <2>5, <2>6, <3>1
    <3> HIDE DEF x, y, z
    <3>3. x <= i
      BY <1>1, <3>2
    <3> QED
      BY <3>3 DEF x
  <2> QED
    BY <2>1, <2>7 DEF r
<1>5. 0 .. n \subseteq S
  <2> HIDE DEF S
  <2> QED
    BY <1>1, <1>3, <1>4, IntervalInduction
<1>6. n \in 0 .. n
  BY <1>1
<1>7. rest[n] * q[n] <= i
  BY <1>5, <1>6
<1> DEFINE r == rest[n]
           p == q[n]
<1>8. r \in Nat /\ p \in Nat /\ r * p <= i /\ i < p
  BY <1>2, <1>6, <1>7
<1> HIDE DEF r, p
<1>9. r = 0
  <2> SUFFICES ASSUME r # 0 PROVE FALSE
    OBVIOUS
  <2>1. p <= r * p /\ r * p \in Nat
    BY <1>8, TimesIs
  <2> QED
    BY <1>1, <1>8, <2>1
<1> QED
  BY <1>9 DEF r

(* The index is what its digits say. *)
LEMMA SameDigits ==
    ASSUME NEW n \in Nat, NEW bases, \A k \in 1 .. n : bases[k] \in 1 .. MaxU,
           NEW i, NEW r, IsRests(r, i, bases, n), r[n] = 0,
           NEW j, NEW s, IsRests(s, j, bases, n), s[n] = 0,
           \A k \in 1 .. n : Digit(i, bases, k) = Digit(j, bases, k)
    PROVE  i = j
<1> DEFINE S == {k \in 0 .. n : r[n - k] = s[n - k]}
<1>1. n \in Nat
  OBVIOUS
<1>2. 0 \in S
  BY <1>1
<1>3. ASSUME NEW k \in 1 .. n, k - 1 \in S
      PROVE  k \in S
  <2> DEFINE m == n - (k - 1)
  <2>1. m \in 1 .. n /\ m - 1 = n - k /\ k \in 0 .. n
    BY <1>1
  <2>2. r[m] = s[m]
    BY <1>3
  <2> HIDE DEF m
  <2>3. /\ r[m - 1] = r[m] * bases[m] + Digit(i, bases, m)
        /\ s[m - 1] = s[m] * bases[m] + Digit(j, bases, m)
    BY <2>1 DEF IsRests
  <2>4. Digit(i, bases, m) = Digit(j, bases, m)
    BY <2>1
  <2>5. r[m - 1] = s[m - 1]
    BY <2>2, <2>3, <2>4, Zenon
  <2> QED
    BY <2>1, <2>5
<1>4. 0 .. n \subseteq S
  <2> HIDE DEF S
  <2> QED
    BY <1>1, <1>2, <1>3, IntervalInduction
<1>5. n \in 0 .. n /\ n - n = 0
  BY <1>1
<1>6. r[0] = s[0]
  BY <1>4, <1>5
<1> QED
  BY <1>6 DEF IsRests

(* Quotient and remainder are the only ones. *)
LEMMA DivisionIsUnique ==
    ASSUME NEW b \in Nat \ {0}, NEW x \in Nat, NEW y \in Nat,
           NEW r \in 0 .. b - 1, NEW s \in 0 .. b - 1, x * b + r = y * b + s
    PROVE  x = y /\ r = s
<1>1. ASSUME NEW u \in Nat, NEW v \in Nat, NEW p \in 0 .. b - 1, NEW q \in 0 .. b - 1, u < v
      PROVE  u * b + p < v * b + q
  <2>1. (u + 1) * b <= v * b
    <3>1. u + 1 \in Nat /\ u + 1 <= v /\ b \in Nat
      BY <1>1
    <3> QED
      BY <3>1, TimesRises
  <2>2. (u + 1) * b = u * b + b
    OBVIOUS
  <2>3. u * b \in Nat /\ v * b \in Nat
    BY TimesIs
  <2> DEFINE m == u * b
             n == v * b
  <2>4. m \in Nat /\ n \in Nat /\ m + b <= n
    BY <2>1, <2>2, <2>3
  <2> HIDE DEF m, n
  <2>5. m + p < n + q
    BY <2>4
  <2> QED
    BY <2>5 DEF m, n
<1>2. x * b \in Nat /\ y * b \in Nat
  BY TimesIs
<1>3. ~ (x < y)
  <2> SUFFICES ASSUME x < y PROVE FALSE
    OBVIOUS
  <2>1. x * b + r < y * b + s
    BY <1>1
  <2> DEFINE m == x * b + r
  <2>2. m \in Nat /\ m < m
    BY <1>2, <2>1
  <2> HIDE DEF m
  <2> QED
    BY <2>2
<1>4. ~ (y < x)
  <2> SUFFICES ASSUME y < x PROVE FALSE
    OBVIOUS
  <2>1. y * b + s < x * b + r
    BY <1>1
  <2> DEFINE m == x * b + r
  <2>2. m \in Nat /\ m < m
    BY <1>2, <2>1
  <2> HIDE DEF m
  <2> QED
    BY <2>2
<1>5. x = y
  BY <1>3, <1>4
<1> DEFINE m == x * b
<1>6. m \in Nat /\ m + r = m + s
  BY <1>2, <1>5
<1> HIDE DEF m
<1>7. r = s
  BY <1>6
<1> QED
  BY <1>5, <1>7

(* How many indexes the first k parts have, exactly *)
IsExact(q, bases, n) ==
    /\ q[0] = 1
    /\ \A k \in 0 .. n : q[k] \in Nat
    /\ \A k \in 1 .. n : q[k] = q[k - 1] * bases[k]

(* w[k] is the index of the parts after k, when these are their digits. *)
HasDigits(w, bases, digits, n) ==
    /\ w[n] = 0
    /\ \A k \in 0 .. n : w[k] \in Nat
    /\ \A k \in 1 .. n : w[k - 1] = w[k] * bases[k] + digits[k]

(* There are such numbers. *)
LEMMA DigitsMakeAnIndex ==
    ASSUME NEW n \in Nat, NEW bases, \A k \in 1 .. n : bases[k] \in Nat,
           NEW digits, \A k \in 1 .. n : digits[k] \in Nat
    PROVE  \E w : HasDigits(w, bases, digits, n)
<1> DEFINE next(j, x) == x * bases[n - j + 1] + digits[n - j + 1]
           step == [j \in 1 .. n |-> [x \in Nat |-> next(j, x)]]
<1>1. ASSUME NEW j \in 1 .. n, NEW x \in Nat
      PROVE  next(j, x) \in Nat
  <2>1. n - j + 1 \in 1 .. n
    OBVIOUS
  <2> DEFINE b == bases[n - j + 1]
             d == digits[n - j + 1]
  <2>2. b \in Nat /\ d \in Nat
    BY <2>1
  <2> HIDE DEF b, d
  <2>3. x * b \in Nat
    BY <2>2, TimesIs
  <2>4. x * b + d \in Nat
    BY <2>2, <2>3
  <2> QED
    BY <2>4 DEF b, d
<1>2. step \in [1 .. n -> [Nat -> Nat]]
  <2> HIDE DEF next
  <2> QED
    BY <1>1
<1>3. 0 \in Nat
  OBVIOUS
<1>4. PICK u \in [0 .. n -> Nat] : IsIteration(u, 0, n, step)
  <2> HIDE DEF step
  <2> QED
    BY <1>2, <1>3, IterationExists, Zenon
<1>5. u[0] = 0
  <2> HIDE DEF step
  <2> QED
    BY <1>4 DEF IsIteration
<1>6. ASSUME NEW j \in 1 .. n
      PROVE  u[j] = next(j, u[j - 1])
  <2>1. u[j] = step[j][u[j - 1]]
    <3> HIDE DEF step
    <3> QED
      BY <1>4 DEF IsIteration
  <2>2. u[j - 1] \in Nat
    <3>1. j - 1 \in 0 .. n
      OBVIOUS
    <3> QED
      BY <3>1
  <2> HIDE DEF next
  <2> QED
    BY <2>1, <2>2
<1> HIDE DEF step
<1> DEFINE w == [k \in 0 .. n |-> u[n - k]]
<1>7. w[n] = 0
  <2>1. n \in 0 .. n /\ n - n = 0
    OBVIOUS
  <2> QED
    BY <1>5, <2>1
<1>8. \A k \in 0 .. n : w[k] \in Nat
  <2> SUFFICES ASSUME NEW k \in 0 .. n PROVE u[n - k] \in Nat
    OBVIOUS
  <2>1. n - k \in 0 .. n
    OBVIOUS
  <2> QED
    BY <2>1
<1>9. ASSUME NEW k \in 1 .. n
      PROVE  w[k - 1] = w[k] * bases[k] + digits[k]
  <2> DEFINE j == n - k + 1
  <2>1. /\ j \in 1 .. n /\ n - (k - 1) = j /\ n - k = j - 1 /\ n - j + 1 = k
        /\ k \in 0 .. n /\ k - 1 \in 0 .. n
    OBVIOUS
  <2> HIDE DEF j
  <2>2. w[k - 1] = u[j] /\ w[k] = u[j - 1]
    <3>1. w[k - 1] = u[n - (k - 1)] /\ w[k] = u[n - k]
      BY <2>1
    <3> HIDE DEF w
    <3> QED
      BY <2>1, <3>1
  <2>3. u[j] = u[j - 1] * bases[k] + digits[k]
    <3>1. u[j] = u[j - 1] * bases[n - j + 1] + digits[n - j + 1]
      BY <1>6, <2>1
    <3> QED
      BY <2>1, <3>1
  <2> HIDE DEF w
  <2> QED
    BY <2>2, <2>3
<1> HIDE DEF w
<1>10. HasDigits(w, bases, digits, n)
  BY <1>7, <1>8, <1>9 DEF HasDigits
<1> QED
  BY <1>10

(* Their index is below the product of the bases. *)
LEMMA DigitsAreBelow ==
    ASSUME NEW n \in Nat, NEW bases, \A k \in 1 .. n : bases[k] \in Nat \ {0},
           NEW digits, \A k \in 1 .. n : digits[k] \in 0 .. bases[k] - 1,
           NEW w, HasDigits(w, bases, digits, n), NEW q, IsExact(q, bases, n)
    PROVE  w[0] < q[n]
<1> DEFINE S == {k \in 0 .. n : w[0] < (w[k] + 1) * q[k]}
<1>1. \A k \in 0 .. n : w[k] \in Nat /\ q[k] \in Nat
  BY DEF HasDigits, IsExact
<1>2. 0 \in S
  <2> DEFINE x == w[0]
  <2>1. 0 \in 0 .. n /\ x \in Nat /\ q[0] = 1
    BY <1>1 DEF IsExact
  <2> HIDE DEF x
  <2>2. (x + 1) * 1 = x + 1 /\ x < x + 1
    BY <2>1
  <2>3. x < (x + 1) * q[0]
    BY <2>1, <2>2
  <2> QED
    BY <2>1, <2>3 DEF x
<1>3. ASSUME NEW k \in 1 .. n, k - 1 \in S
      PROVE  k \in S
  <2> DEFINE i == w[0]
             x == w[k]
             y == w[k - 1]
             p == q[k - 1]
             b == bases[k]
             d == digits[k]
  <2>1. k - 1 \in 0 .. n /\ k \in 0 .. n /\ 0 \in 0 .. n
    OBVIOUS
  <2>2. i \in Nat /\ x \in Nat /\ y \in Nat /\ p \in Nat
    BY <1>1, <2>1
  <2>3. y = x * b + d /\ q[k] = p * b
    BY DEF HasDigits, IsExact
  <2>4. b \in Nat /\ d \in Nat /\ d < b
    <3>1. b \in Nat \ {0} /\ d \in 0 .. b - 1
      OBVIOUS
    <3> HIDE DEF b, d
    <3> QED
      BY <3>1
  <2>5. i < (y + 1) * p
    BY <1>3
  <2> HIDE DEF i, x, y, p, b, d
  <2>6. (y + 1) * p <= ((x + 1) * b) * p
    <3>1. y + 1 <= (x + 1) * b
      <4>1. (x + 1) * b = x * b + b /\ x * b \in Nat
        BY <2>2, <2>4, TimesIs
      <4> DEFINE z == x * b
      <4>2. z \in Nat /\ (x + 1) * b = z + b /\ y = z + d
        BY <2>3, <4>1
      <4> HIDE DEF z
      <4> QED
        BY <2>4, <4>2
    <3>2. y + 1 \in Nat /\ x + 1 \in Nat
      BY <2>2
    <3>3. (x + 1) * b \in Nat
      BY <2>4, <3>2, TimesIs
    <3> QED
      BY <2>2, <3>1, <3>2, <3>3, TimesRises
  <2>7. ((x + 1) * b) * p = (x + 1) * q[k]
    <3>1. x + 1 \in Int /\ b \in Int /\ p \in Int
      BY <2>2, <2>4
    <3>2. ((x + 1) * b) * p = (x + 1) * (b * p) /\ b * p = p * b
      BY <3>1, TimesAssociates
    <3> QED
      BY <2>3, <3>2
  <2>8. i < (x + 1) * q[k]
    <3> DEFINE m == (y + 1) * p
               l == (x + 1) * q[k]
    <3>1. m \in Nat
      BY <2>2, TimesIs
    <3>2. l \in Nat
      BY <1>1, <2>1, <2>2, TimesIs
    <3>3. i < m /\ m <= l
      BY <2>5, <2>6, <2>7
    <3> HIDE DEF m, l
    <3>4. i < l
      BY <2>2, <3>1, <3>2, <3>3
    <3> QED
      BY <3>4 DEF l
  <2> QED
    BY <2>1, <2>8 DEF i, x
<1>4. 0 .. n \subseteq S
  <2> HIDE DEF S
  <2> QED
    BY <1>2, <1>3, IntervalInduction
<1>5. n \in 0 .. n
  OBVIOUS
<1>6. w[0] < (w[n] + 1) * q[n] /\ w[n] = 0
  BY <1>4, <1>5 DEF HasDigits
<1> DEFINE z == q[n]
<1>7. z \in Nat
  BY <1>1, <1>5
<1>8. w[0] < (0 + 1) * z
  BY <1>6
<1> HIDE DEF z
<1>9. (0 + 1) * z = z
  BY <1>7
<1>10. w[0] < z
  BY <1>8, <1>9
<1> QED
  BY <1>10 DEF z

(* Digits below their bases, and the index whose digits they are *)
AreDigits(digits, bases, n) ==
    /\ Len(bases) = n
    /\ \A k \in 1 .. n : bases[k] \in 1 .. MaxU /\ digits[k] \in 0 .. bases[k] - 1

IsIndex(i, bases, digits, n) == \A k \in 1 .. n : Digit(i, bases, k) = digits[k]

(* Any digits below the bases are those of an index below the product. *)
LEMMA IndexOfDigits ==
    ASSUME NEW n \in Nat, NEW bases, NEW digits, AreDigits(digits, bases, n),
           NEW q, IsExact(q, bases, n), q[n] <= MaxU
    PROVE  \E i \in 0 .. MaxU : i < q[n] /\ IsIndex(i, bases, digits, n)
<1>1. MaxU \in Nat /\ n \in 0 .. n
  BY WidthAssumption
<1> USE DEF AreDigits
<1>2. ASSUME NEW k \in 1 .. n
      PROVE  bases[k] \in Nat \ {0} /\ bases[k] \in Nat /\ digits[k] \in Nat
  <2> DEFINE b == bases[k]
             d == digits[k]
  <2>1. b \in 1 .. MaxU /\ d \in 0 .. b - 1
    OBVIOUS
  <2> HIDE DEF b, d
  <2>2. b \in Nat \ {0} /\ b \in Nat /\ d \in Nat
    BY <1>1, <2>1
  <2> QED
    BY <2>2 DEF b, d
<1>3. PICK w : HasDigits(w, bases, digits, n)
  BY <1>2, DigitsMakeAnIndex
<1>4. w[0] < q[n]
  BY <1>2, <1>3, DigitsAreBelow
<1> DEFINE i == w[0]
           rest == Rests(i, bases)
<1>5. i \in 0 .. MaxU
  <2> DEFINE z == q[n]
  <2>1. i \in Nat /\ z \in Nat /\ i < z /\ z <= MaxU
    BY <1>1, <1>3, <1>4 DEF HasDigits, IsExact
  <2> HIDE DEF i, z
  <2> QED
    BY <1>1, <2>1
<1>6. i = w[0]
  OBVIOUS
<1> HIDE DEF i
<1>7. IsRests(rest, i, bases, n)
  BY <1>5, RestsAre
<1> HIDE DEF rest
<1>8. ASSUME NEW k \in 1 .. n, rest[k - 1] = w[k - 1]
      PROVE  rest[k] = w[k] /\ Digit(i, bases, k) = digits[k]
  <2> DEFINE b == bases[k]
             x == rest[k]
             y == w[k]
             r == Digit(i, bases, k)
             s == digits[k]
  <2>1. rest[k - 1] = x * b + r /\ w[k - 1] = y * b + s
    BY <1>3, <1>7 DEF IsRests, HasDigits
  <2>2. r \in 0 .. b - 1 /\ s \in 0 .. b - 1
    BY <1>7 DEF IsRests
  <2>3. x \in Nat /\ y \in Nat
    <3>1. k \in 0 .. n
      OBVIOUS
    <3>2. x \in 0 .. MaxU /\ y \in Nat
      BY <1>3, <1>7, <3>1 DEF IsRests, HasDigits
    <3> HIDE DEF x
    <3> QED
      BY <1>1, <3>2
  <2>4. b \in Nat \ {0}
    BY <1>2
  <2>5. x * b + r = y * b + s
    BY <1>8, <2>1, Zenon
  <2> HIDE DEF b, x, y, r, s
  <2>6. x = y /\ r = s
    BY <2>2, <2>3, <2>4, <2>5, DivisionIsUnique
  <2> QED
    BY <2>6 DEF x, y, r, s
<1> DEFINE S == {k \in 0 .. n : rest[k] = w[k]}
<1>9. 0 \in S
  <2>1. rest[0] = i
    BY <1>7 DEF IsRests
  <2> QED
    BY <1>6, <2>1
<1>10. \A k \in 1 .. n : k - 1 \in S => k \in S
  <2> SUFFICES ASSUME NEW k \in 1 .. n, k - 1 \in S PROVE k \in S
    OBVIOUS
  <2>1. rest[k] = w[k]
    BY <1>8
  <2>2. k \in 0 .. n
    OBVIOUS
  <2> QED
    BY <2>1, <2>2
<1>11. 0 .. n \subseteq S
  <2> HIDE DEF S
  <2> QED
    BY <1>9, <1>10, IntervalInduction
<1>12. ASSUME NEW k \in 1 .. n
       PROVE  Digit(i, bases, k) = digits[k]
  <2>1. k - 1 \in 0 .. n
    OBVIOUS
  <2>2. rest[k - 1] = w[k - 1]
    BY <1>11, <2>1
  <2> QED
    BY <1>8, <2>2
<1>13. IsIndex(i, bases, digits, n)
  BY <1>12 DEF IsIndex
<1> QED
  BY <1>4, <1>5, <1>6, <1>13

(* Parts that are written without a panic are all written. *)
AllParts(i, bases, parts, n) ==
    [out |-> [k \in 1 .. n |-> parts[k][Digit(i, bases, k)].out],
     len |-> Total([k \in 1 .. n |-> parts[k][Digit(i, bases, k)].len]),
     panic |-> "none"]

(* Below the product of the bases nothing is left of the index, and the     *)
(* parts are written one after the other.                                   *)
LEMMA WritePartsIs ==
    ASSUME NEW n \in Nat, NEW bases, Len(bases) = n, DOMAIN bases = 1 .. n,
           \A k \in 1 .. n : bases[k] \in 1 .. MaxU,
           NEW i \in 0 .. MaxU, NEW q, IsProducts(q, bases, n), i < q[n],
           NEW parts, \A k \in 1 .. n : \A d \in 0 .. bases[k] - 1 : parts[k][d].panic = "none"
    PROVE  WriteParts(i, bases, parts) = AllParts(i, bases, parts, n)
<1> DEFINE rest == Rests(i, bases)
           part == [k \in DOMAIN bases |-> parts[k][rest[k - 1] % bases[k]]]
           failed == {k \in DOMAIN bases : part[k].panic # "none"}
<1>1. IsRests(rest, i, bases, n)
  BY RestsAre
<1>2. rest[n] = 0
  <2> HIDE DEF rest
  <2> QED
    BY <1>1, RestsEnd
<1>3. \A k \in 1 .. n : Digit(i, bases, k) \in 0 .. bases[k] - 1
  BY <1>1 DEF IsRests
<1>4. \A k \in 1 .. n : part[k] = parts[k][Digit(i, bases, k)]
  BY DEF Digit
<1>5. failed = {}
  <2> SUFFICES ASSUME NEW k \in 1 .. n PROVE part[k].panic = "none"
    BY Zenon
  <2>1. parts[k][Digit(i, bases, k)].panic = "none"
    BY <1>3
  <2> HIDE DEF part
  <2> QED
    BY <1>4, <2>1
<1>6. WriteParts(i, bases, parts)
      = [out |-> [k \in 1 .. n |-> part[k].out],
         len |-> Total([k \in 1 .. n |-> part[k].len]),
         panic |-> "none"]
  <2>1. WriteParts(i, bases, parts)
        = LET last == IF failed = {} THEN Len(bases) ELSE Min(failed)
          IN  [out |-> [k \in 1 .. last |-> part[k].out],
               len |-> Total([k \in 1 .. last |-> part[k].len]),
               panic |-> IF failed # {} THEN part[last].panic
                         ELSE IF rest[last] # 0 THEN "index left" ELSE "none"]
    BY DEF WriteParts
  <2> HIDE DEF failed, part, rest
  <2> QED
    BY <1>2, <1>5, <2>1
<1> HIDE DEF part
<1>7. [k \in 1 .. n |-> part[k].out] = [k \in 1 .. n |-> parts[k][Digit(i, bases, k)].out]
  BY <1>4
<1>8. [k \in 1 .. n |-> part[k].len] = [k \in 1 .. n |-> parts[k][Digit(i, bases, k)].len]
  BY <1>4
<1> QED
  BY <1>6, <1>7, <1>8 DEF AllParts

-----------------------------------------------------------------------------
(* Induction and recursion over schemas *)

(* What kinds of nodes there are *)
IsNode(n) ==
    \/ n.kind = "literal" /\ n.len \in Nat
    \/ n.kind = "chars" /\ n.size \in 1 .. MaxU
    \/ /\ n.kind = "list" /\ DOMAIN n.items = 1 .. Len(n.items) /\ Len(n.items) \in Nat
       /\ \A k \in 1 .. Len(n.items) : n.items[k] \in Parts(n)
    \/ n.kind = "count" /\ n.item \in Parts(n) /\ n.max \in 0 .. MaxCount /\ n.min \in 0 .. n.max
    \/ n.kind = "word" /\ n.upper \in BOOLEAN
    \/ n.kind = "words" /\ n.count \in 0 .. MaxCount /\ n.upper \in BOOLEAN /\ n.sep \in Nat
    \/ n.kind = "unknown"

(* What a node is by the assumptions, and that its parts are lower *)
LEMMA NodeIs ==
    ASSUME NEW n \in Node
    PROVE  /\ IsNode(n) /\ Height[n] \in 0 .. MaxHeight
           /\ \A m \in Parts(n) : m \in Node /\ Height[m] < Height[n]
<1>1. Height[n] \in 0 .. MaxHeight /\ \A m \in Parts(n) : Height[m] < Height[n]
  BY HeightAssumption
<1>2. CASE n.kind = "list"
  <2>1. n.items \in Seq(Node)
    BY <1>2, NodeAssumption
  <2>2. /\ DOMAIN n.items = 1 .. Len(n.items) /\ Len(n.items) \in Nat
        /\ \A k \in 1 .. Len(n.items) : n.items[k] \in Node
    BY <2>1
  <2>3. Parts(n) = {n.items[k] : k \in 1 .. Len(n.items)}
    BY <1>2, <2>2 DEF Parts, ToSet
  <2> QED
    BY <1>1, <1>2, <2>2, <2>3 DEF IsNode
<1>3. CASE n.kind = "count"
  <2>1. n.item \in Node /\ n.max \in 0 .. MaxCount /\ n.min \in 0 .. n.max
    BY <1>3, NodeAssumption
  <2>2. Parts(n) = {n.item}
    BY <1>3 DEF Parts
  <2> QED
    BY <1>1, <1>3, <2>1, <2>2 DEF IsNode
<1>4. CASE n.kind \notin {"list", "count"}
  <2>1. Parts(n) = {}
    BY <1>4 DEF Parts
  <2>2. IsNode(n)
    BY <1>4, NodeAssumption DEF IsNode
  <2> QED
    BY <1>1, <2>1, <2>2
<1> QED
  BY <1>2, <1>3, <1>4

(* What holds of a schema if it holds of its parts holds of all of them. *)
LEMMA TreeInduction ==
    ASSUME NEW S, \A n \in Node : (\A m \in Parts(n) : m \in S) => n \in S
    PROVE  Node \subseteq S
<1> DEFINE T == {h \in Nat : \A n \in Node : Height[n] < h => n \in S}
<1>1. \A n \in Node : Height[n] \in Nat
  BY NodeIs, HeightAssumption
<1>2. 0 \in T
  BY <1>1
<1>3. ASSUME NEW h \in Nat, h \in T
      PROVE  h + 1 \in T
  <2> SUFFICES ASSUME NEW n \in Node, Height[n] < h + 1 PROVE n \in S
    BY DEF T
  <2> SUFFICES ASSUME NEW m \in Parts(n) PROVE m \in S
    OBVIOUS
  <2>1. m \in Node /\ Height[m] < Height[n]
    BY NodeIs
  <2>2. Height[m] < h
    <3> DEFINE x == Height[m]
               y == Height[n]
    <3>1. x \in Nat /\ y \in Nat /\ x < y /\ y < h + 1
      BY <1>1, <2>1
    <3> HIDE DEF x, y
    <3>2. x < h
      BY <3>1
    <3> QED
      BY <3>2 DEF x
  <2> QED
    BY <1>3, <2>1, <2>2
<1>4. Nat \subseteq T
  <2> HIDE DEF T
  <2> QED
    BY <1>2, <1>3, SetInduction
<1>5. ASSUME NEW n \in Node
      PROVE  n \in S
  <2>1. Height[n] + 1 \in Nat /\ Height[n] < Height[n] + 1
    BY <1>1
  <2> QED
    BY <1>4, <2>1
<1> QED
  BY <1>5

(* What step makes of a node depends on what it makes of the parts. *)
FromTheParts(step, A) ==
    \A f, g \in [Node -> A] : \A n \in Node :
        (\A m \in Parts(n) : f[m] = g[m]) => step[f][n] = step[g][n]

(* A definition by recursion over schemas is what its equation says. *)
LEMMA TreeRecursion ==
    ASSUME NEW A, NEW a \in A, NEW step \in [[Node -> A] -> [Node -> A]], FromTheParts(step, A)
    PROVE  \E f \in [Node -> A] : step[f] = f
<1> DEFINE B == [Node -> A]
           N == MaxHeight + 2
           steps == [k \in 1 .. N |-> step]
           start0 == [n \in Node |-> a]
<1>1. N \in Nat /\ start0 \in B /\ steps \in [1 .. N -> [B -> B]] /\ MaxHeight \in Nat
  BY HeightAssumption
<1>2. PICK f \in [0 .. N -> B] : IsIteration(f, start0, N, steps)
  <2> HIDE DEF B, N, steps, start0
  <2> QED
    BY <1>1, IterationExists, Zenon
<1> HIDE DEF N
<1>3. \A k \in 1 .. N : f[k] = step[f[k - 1]] /\ k - 1 \in 0 .. N /\ k \in 0 .. N
  <2>1. \A k \in 1 .. N : steps[k] = step /\ k - 1 \in 0 .. N /\ k \in 0 .. N
    BY <1>1
  <2> HIDE DEF steps, B
  <2> QED
    BY <1>2, <2>1 DEF IsIteration
<1>4. \A k \in 0 .. N : f[k] \in [Node -> A]
  BY <1>2
<1> DEFINE S == {h \in 0 .. N - 1 : \A n \in Node : Height[n] < h => f[h + 1][n] = f[h][n]}
<1>5. \A n \in Node : Height[n] \in 0 .. MaxHeight
  BY NodeIs
<1>6. N - 1 \in Nat /\ N - 1 = MaxHeight + 1
  BY <1>1 DEF N
<1>7. 0 \in S
  <2>1. \A n \in Node : ~ (Height[n] < 0)
    BY <1>5
  <2> QED
    BY <1>6, <2>1
<1>8. ASSUME NEW h \in 1 .. N - 1, h - 1 \in S
      PROVE  h \in S
  <2>1. h \in 0 .. N - 1 /\ h \in 1 .. N /\ h + 1 \in 1 .. N /\ (h + 1) - 1 = h /\ (h - 1) + 1 = h
        /\ h - 1 \in 0 .. N /\ h \in 0 .. N
    BY <1>1, <1>6
  <2> SUFFICES ASSUME NEW n \in Node, Height[n] < h
               PROVE  f[h + 1][n] = f[h][n]
    BY <2>1
  <2>2. ASSUME NEW m \in Parts(n)
        PROVE  f[h][m] = f[h - 1][m]
    <3>1. m \in Node /\ Height[m] < Height[n]
      BY NodeIs
    <3>2. Height[m] < h - 1
      <4> DEFINE x == Height[m]
                 y == Height[n]
      <4>1. x \in 0 .. MaxHeight /\ y \in 0 .. MaxHeight /\ x < y /\ y < h /\ MaxHeight \in Nat
        BY <1>1, <1>5, <3>1
      <4> HIDE DEF x, y
      <4>2. x < h - 1
        BY <1>6, <4>1
      <4> QED
        BY <4>2 DEF x
    <3> QED
      BY <1>8, <2>1, <3>1, <3>2
  <2>3. f[h + 1] = step[f[h]] /\ f[h] = step[f[h - 1]]
    BY <1>3, <2>1
  <2>4. f[h] \in [Node -> A] /\ f[h - 1] \in [Node -> A]
    BY <1>4, <2>1
  <2> QED
    BY <2>2, <2>3, <2>4 DEF FromTheParts
<1>9. 0 .. N - 1 \subseteq S
  <2> HIDE DEF S
  <2> QED
    BY <1>6, <1>7, <1>8, IntervalInduction
<1> DEFINE g == f[N - 1]
<1>10. g \in [Node -> A] /\ f[N] \in [Node -> A]
  <2>1. N - 1 \in 0 .. N /\ N \in 0 .. N
    BY <1>1, <1>6
  <2> QED
    BY <1>4, <2>1
<1>11. f[N] = step[g]
  <2>1. N \in 1 .. N
    BY <1>1, <1>6
  <2> QED
    BY <1>3, <2>1
<1>12. \A n \in Node : f[N][n] = g[n]
  <2>1. N - 1 \in 0 .. N - 1 /\ (N - 1) + 1 = N
    BY <1>1, <1>6
  <2>2. \A n \in Node : Height[n] < N - 1
    BY <1>1, <1>5, <1>6
  <2> HIDE DEF g
  <2> QED
    BY <1>9, <2>1, <2>2 DEF g
<1> HIDE DEF g
<1>13. step[g] = g
  BY <1>10, <1>11, <1>12
<1> QED
  BY <1>10, <1>13

-----------------------------------------------------------------------------
(* Every node has a size or a panic. *)

(* All parts of a list have a size, and the list has their product. *)
Multiplied(q, sizes, n) ==
    /\ q[0] = 1
    /\ \A k \in 0 .. n : q[k] \in 1 .. MaxU
    /\ \A k \in 1 .. n : /\ sizes[k].panic = "none" /\ sizes[k].n \in 1 .. MaxU
                         /\ q[k] = SatMul(q[k - 1], sizes[k].n)

(* What a product that saturates is *)
LEMMA SatMulIs ==
    ASSUME NEW a \in 1 .. MaxU, NEW b \in 1 .. MaxU
    PROVE  SatMul(a, b) \in 1 .. MaxU /\ SatMul(a, b) <= a * b /\ a * b \in Nat
<1>1. MaxU \in Nat /\ MaxU # 0 /\ a \in Nat /\ a # 0 /\ b \in Nat /\ b # 0
  BY WidthAssumption
<1> DEFINE p == a * b
<1>2. p \in Nat /\ p # 0
  BY <1>1, TimesIs
<1> HIDE DEF p
<1>3. AtMost(MaxU, p) \in 1 .. MaxU /\ AtMost(MaxU, p) <= p
  BY <1>1, <1>2, AtMostIs
<1> QED
  BY <1>2, <1>3 DEF SatMul, p

(* A list that has a size has the product of the sizes of its parts,        *)
(* saturated at each.                                                       *)
LEMMA ListSizeIs ==
    ASSUME NEW n \in Nat, NEW sizes, Len(sizes) = n, \A k \in 1 .. n : sizes[k] \in Sizes
    PROVE  /\ ListSize(sizes) \in Sizes
           /\ ListSize(sizes).panic = "none" =>
                 \E q : Multiplied(q, sizes, n) /\ ListSize(sizes).n = q[n]
           /\ (\A k \in 1 .. n : sizes[k].panic = "none") => ListSize(sizes).panic = "none"
<1> DEFINE next(k, s) == Then(s, Then(sizes[k], Size(SatMul(s.n, sizes[k].n))))
           step == [k \in 1 .. n |-> [s \in Sizes |-> next(k, s)]]
           acc == CHOOSE g : g = [k \in 0 .. n |-> IF k = 0 THEN Size(1) ELSE next(k, g[k - 1])]
<1>1. n \in Nat /\ \A k \in 1 .. n : sizes[k] \in Sizes
  OBVIOUS
<1>2. Size(1) \in Sizes /\ Size(1).n = 1 /\ Size(1).panic = "none"
  <2>1. 1 \in 1 .. MaxU
    BY WidthAssumption
  <2> QED
    BY <2>1, SizeIs
<1>3. ASSUME NEW k \in 1 .. n, NEW s \in Sizes
      PROVE  /\ next(k, s) \in Sizes
             /\ next(k, s).panic = "none" =>
                   /\ s.panic = "none" /\ sizes[k].panic = "none"
                   /\ s.n \in 1 .. MaxU /\ sizes[k].n \in 1 .. MaxU
                   /\ next(k, s).n = SatMul(s.n, sizes[k].n)
             /\ s.panic = "none" /\ sizes[k].panic = "none" => next(k, s).panic = "none"
  <2> DEFINE t == sizes[k]
             z == Size(SatMul(s.n, t.n))
  <2>1. t \in Sizes
    BY <1>1
  <2> HIDE DEF t
  <2>2. CASE s.panic # "none"
    BY <2>2 DEF Then
  <2>3. CASE s.panic = "none" /\ t.panic # "none"
    BY <2>1, <2>3 DEF Then, t
  <2>4. CASE s.panic = "none" /\ t.panic = "none"
    <3>1. s.n \in 1 .. MaxU /\ t.n \in 1 .. MaxU
      BY <2>1, <2>4, SizeIs
    <3>2. SatMul(s.n, t.n) \in 1 .. MaxU
      BY <3>1, SatMulIs
    <3>3. z \in Sizes /\ z.n = SatMul(s.n, t.n) /\ z.panic = "none"
      BY <3>2, SizeIs
    <3>4. next(k, s) = z
      BY <2>4 DEF Then, t
    <3> HIDE DEF next, z
    <3> QED
      BY <2>4, <3>1, <3>3, <3>4 DEF t
  <2> QED
    BY <2>2, <2>3, <2>4
<1>4. step \in [1 .. n -> [Sizes -> Sizes]]
  <2> HIDE DEF next
  <2> QED
    BY <1>3
<1>5. PICK f \in [0 .. n -> Sizes] : IsIteration(f, Size(1), n, step)
  <2> HIDE DEF step
  <2> QED
    BY <1>1, <1>2, <1>4, IterationExists, Zenon
<1>6. ASSUME NEW k \in 1 .. n
      PROVE  f[k - 1] \in Sizes /\ f[k] = next(k, f[k - 1])
  <2>1. k - 1 \in 0 .. n
    BY <1>1
  <2>2. f[k - 1] \in Sizes
    <3> HIDE DEF step
    <3> QED
      BY <2>1
  <2> HIDE DEF next
  <2> QED
    BY <1>5, <2>2 DEF IsIteration
<1>7. f[0] = Size(1)
  <2> HIDE DEF step
  <2> QED
    BY <1>5 DEF IsIteration
<1> HIDE DEF step, next
<1>8. f = [k \in 0 .. n |-> IF k = 0 THEN Size(1) ELSE next(k, f[k - 1])]
  <2>1. \A k \in 0 .. n : f[k] = IF k = 0 THEN Size(1) ELSE next(k, f[k - 1])
    BY <1>1, <1>6, <1>7
  <2> QED
    BY <2>1
<1>9. acc = [k \in 0 .. n |-> IF k = 0 THEN Size(1) ELSE next(k, acc[k - 1])]
  BY <1>8
<1>10. ListSize(sizes) = acc[n]
  BY DEF ListSize, next
<1> HIDE DEF acc
<1>11. acc[0] = Size(1) /\ \A k \in 1 .. n : acc[k] = next(k, acc[k - 1])
  <2>1. 0 \in 0 .. n /\ \A k \in 1 .. n : k \in 0 .. n /\ k # 0
    BY <1>1
  <2> QED
    BY <1>9, <2>1
<1>12. acc \in [0 .. n -> Sizes]
  <2>1. acc = [k \in 0 .. n |-> acc[k]]
    BY <1>9
  <2>2. acc[0] \in Sizes
    BY <1>2, <1>11
  <2>3. \A k \in 1 .. n : acc[k - 1] \in Sizes => acc[k] \in Sizes
    BY <1>3, <1>11
  <2> QED
    BY <2>1, <2>2, <2>3, IterationType, Zenon
<1>13. \A k \in 0 .. n : acc[k] \in Sizes
  BY <1>12
<1> DEFINE q == [k \in 0 .. n |-> acc[k].n]
           Done(j) == /\ acc[j].panic = "none" /\ acc[j - 1].panic = "none" /\ sizes[j].panic = "none"
                      /\ sizes[j].n \in 1 .. MaxU
                      /\ acc[j].n = SatMul(acc[j - 1].n, sizes[j].n)
           S == {k \in 0 .. n : acc[k].panic = "none" => \A j \in 1 .. k : Done(j)}
<1>14. 0 \in S
  BY <1>1
<1>15. ASSUME NEW k \in 1 .. n, k - 1 \in S
       PROVE  k \in S
  <2>1. k \in 0 .. n /\ k - 1 \in 0 .. n
    BY <1>1
  <2> SUFFICES ASSUME acc[k].panic = "none", NEW j \in 1 .. k PROVE Done(j)
    BY <2>1
  <2>2. acc[k - 1] \in Sizes /\ acc[k] = next(k, acc[k - 1])
    BY <1>11, <1>13, <2>1
  <2>3. Done(k)
    <3> DEFINE s == acc[k - 1]
    <3>1. s \in Sizes /\ next(k, s).panic = "none" /\ acc[k] = next(k, s)
      BY <2>2
    <3>2. /\ s.panic = "none" /\ sizes[k].panic = "none" /\ sizes[k].n \in 1 .. MaxU
          /\ next(k, s).n = SatMul(s.n, sizes[k].n)
      <4> HIDE DEF s
      <4> QED
        BY <1>3, <3>1
    <3> QED
      BY <3>1, <3>2
  <2>4. CASE j = k
    <3> HIDE DEF Done
    <3> QED
      BY <2>3, <2>4
  <2>5. CASE j # k
    <3>1. j \in 1 .. k - 1
      BY <2>5
    <3>2. acc[k - 1].panic = "none"
      BY <2>3
    <3> HIDE DEF Done
    <3> QED
      BY <1>15, <3>1, <3>2
  <2> QED
    BY <2>4, <2>5
<1>16. 0 .. n \subseteq S
  <2> HIDE DEF S
  <2> QED
    BY <1>1, <1>14, <1>15, IntervalInduction
<1>17. ASSUME ListSize(sizes).panic = "none"
       PROVE  Multiplied(q, sizes, n) /\ ListSize(sizes).n = q[n]
  <2>1. n \in 0 .. n /\ 0 \in 0 .. n
    BY <1>1
  <2>2. \A j \in 1 .. n : Done(j)
    <3> HIDE DEF Done
    <3> QED
      BY <1>10, <1>16, <1>17, <2>1
  <2>3. \A k \in 0 .. n : acc[k].panic = "none"
    <3> SUFFICES ASSUME NEW k \in 0 .. n PROVE acc[k].panic = "none"
      OBVIOUS
    <3>1. CASE k = 0
      BY <1>2, <1>11, <3>1
    <3>2. CASE k # 0
      <4>1. k \in 1 .. n
        BY <1>1, <3>2
      <4> QED
        BY <2>2, <4>1
    <3> QED
      BY <3>1, <3>2
  <2>4. \A k \in 0 .. n : q[k] = acc[k].n /\ q[k] \in 1 .. MaxU
    BY <1>13, <2>3, SizeIs
  <2>5. q[0] = 1
    BY <1>2, <1>11, <2>1
  <2>6. \A k \in 1 .. n : k - 1 \in 0 .. n /\ k \in 0 .. n
    BY <1>1
  <2>7. ASSUME NEW k \in 1 .. n
        PROVE  /\ sizes[k].panic = "none" /\ sizes[k].n \in 1 .. MaxU
               /\ q[k] = SatMul(q[k - 1], sizes[k].n)
    BY <2>2, <2>4, <2>6
  <2> HIDE DEF q, Done
  <2> QED
    BY <1>10, <2>1, <2>4, <2>5, <2>7 DEF Multiplied
<1>18. ListSize(sizes) \in Sizes
  <2>1. n \in 0 .. n
    BY <1>1
  <2> QED
    BY <1>10, <1>13, <2>1
<1>19. ASSUME \A k \in 1 .. n : sizes[k].panic = "none"
       PROVE  ListSize(sizes).panic = "none"
  <2> DEFINE T == {k \in 0 .. n : acc[k].panic = "none"}
  <2>1. 0 \in 0 .. n /\ n \in 0 .. n
    BY <1>1
  <2>2. 0 \in T
    BY <1>2, <1>11, <2>1
  <2>3. ASSUME NEW k \in 1 .. n, k - 1 \in T
        PROVE  k \in T
    <3>1. k \in 0 .. n /\ acc[k - 1] \in Sizes /\ acc[k] = next(k, acc[k - 1])
      BY <1>1, <1>11, <1>13, <2>3
    <3>2. acc[k - 1].panic = "none" /\ sizes[k].panic = "none"
      BY <1>19, <2>3
    <3> QED
      BY <1>3, <3>1, <3>2
  <2>4. 0 .. n \subseteq T
    <3> HIDE DEF T
    <3> QED
      BY <1>1, <2>2, <2>3, IntervalInduction
  <2> QED
    BY <1>10, <2>1, <2>4
<1> QED
  <2> HIDE DEF q
  <2> QED
    BY <1>17, <1>18, <1>19

(* A context lists under its hashes different words, no more than can be    *)
(* counted, and has a default list.                                         *)
IsContext(c) ==
    /\ c.default \in DOMAIN c.dict
    /\ \A h \in DOMAIN c.dict :
          /\ c.dict[h] \in Seq(Word) /\ Len(c.dict[h]) <= MaxU
          /\ \A i, j \in 1 .. Len(c.dict[h]) : c.dict[h][i] = c.dict[h][j] => i = j

(* A word that has a size has as many as the list that its hash names. *)
LEMMA WordSizeIs ==
    ASSUME NEW c, IsContext(c), NEW hash
    PROVE  /\ WordSize(c, hash) \in Sizes
           /\ WordSize(c, hash).panic = "none" =>
                 /\ HashOf(c, hash) \in DOMAIN c.dict
                 /\ WordSize(c, hash).n = Len(c.dict[HashOf(c, hash)])
           /\ HashOf(c, hash) \in DOMAIN c.dict =>
                 (WordSize(c, hash).panic = "none" <=> c.dict[HashOf(c, hash)] # <<>>)
<1>1. CASE HashOf(c, hash) \notin DOMAIN c.dict
  <2>1. WordSize(c, hash) = Panics("unknown dictionary")
    BY <1>1 DEF WordSize
  <2>2. Panics("unknown dictionary") \in Sizes
        /\ Panics("unknown dictionary").panic = "unknown dictionary"
    BY SizeIs DEF Reasons
  <2> QED
    BY <1>1, <2>1, <2>2
<1>2. CASE HashOf(c, hash) \in DOMAIN c.dict
  <2> DEFINE words == c.dict[HashOf(c, hash)]
  <2>1. words \in Seq(Word) /\ Len(words) <= MaxU
    BY <1>2 DEF IsContext
  <2>2. WordSize(c, hash) = IF words = <<>> THEN Panics("empty dictionary") ELSE Size(Len(words))
    BY <1>2 DEF WordSize
  <2> HIDE DEF words
  <2>3. CASE words = <<>>
    <3>1. Panics("empty dictionary") \in Sizes
          /\ Panics("empty dictionary").panic = "empty dictionary"
      BY SizeIs DEF Reasons
    <3> QED
      BY <2>2, <2>3, <3>1 DEF words
  <2>4. CASE words # <<>>
    <3>1. Len(words) \in 1 .. MaxU
      BY <2>1, <2>4, WidthAssumption
    <3> QED
      BY <1>2, <2>2, <2>4, <3>1, SizeIs DEF words
  <2> QED
    BY <2>3, <2>4
<1> QED
  BY <1>1, <1>2

(* Words that have a size have a power of that, times the number of them if *)
(* one is capitalized.                                                      *)
LEMMA WordsSizeIs ==
    ASSUME NEW c, IsContext(c), NEW n, n.count \in 0 .. MaxCount
    PROVE  /\ WordsSize(c, n) \in Sizes
           /\ WordsSize(c, n).panic = "none" =>
                 /\ n.count \in 1 .. MaxCount /\ WordSize(c, n.hash).panic = "none"
                 /\ WordSize(c, n.hash).n \in 1 .. MaxU
                 /\ WordsSize(c, n).n = IF n.upper THEN SatMul(Capped(WordSize(c, n.hash).n, n.count), n.count)
                                        ELSE Capped(WordSize(c, n.hash).n, n.count)
           /\ n.count # 0 /\ WordSize(c, n.hash).panic = "none" => WordsSize(c, n).panic = "none"
<1> DEFINE word == WordSize(c, n.hash)
           lists == SatPow(word.n, n.count)
           s == Size(IF n.upper THEN SatMul(lists, n.count) ELSE lists)
<1>1. word \in Sizes
  BY WordSizeIs
<1>2. WordsSize(c, n) = IF n.count = 0 THEN Panics("no words") ELSE Then(word, s)
  BY DEF WordsSize
<1>3. MaxU \in Nat /\ MaxCount \in 1 .. MaxU
  BY WidthAssumption
<1> HIDE DEF word
<1>4. CASE n.count = 0
  <2>1. Panics("no words") \in Sizes /\ Panics("no words").panic = "no words"
    BY SizeIs DEF Reasons
  <2> QED
    BY <1>2, <1>4, <2>1
<1>5. CASE n.count # 0 /\ word.panic # "none"
  <2>1. WordsSize(c, n) = word
    BY <1>2, <1>5 DEF Then
  <2> QED
    BY <1>1, <1>5, <2>1 DEF word
<1>6. CASE n.count # 0 /\ word.panic = "none"
  <2>1. n.count \in 1 .. MaxCount /\ n.count \in 1 .. MaxU /\ n.count \in Nat
    BY <1>3, <1>6
  <2>2. word.n \in 1 .. MaxU
    BY <1>1, <1>6, SizeIs
  <2>3. lists = Capped(word.n, n.count) /\ lists \in 1 .. MaxU
    <3>1. word.n \in Nat /\ word.n # 0
      BY <1>3, <2>2
    <3> QED
      BY <2>1, <3>1, CappedIs
  <2>4. SatMul(lists, n.count) \in 1 .. MaxU
    <3> HIDE DEF lists
    <3> QED
      BY <2>1, <2>3, SatMulIs
  <2>5. s \in Sizes /\ s.n = (IF n.upper THEN SatMul(lists, n.count) ELSE lists) /\ s.panic = "none"
    <3> HIDE DEF lists
    <3> QED
      BY <2>3, <2>4, SizeIs
  <2>6. WordsSize(c, n) = s
    BY <1>2, <1>6 DEF Then
  <2> HIDE DEF s, lists
  <2> QED
    BY <1>6, <2>1, <2>2, <2>3, <2>5, <2>6 DEF word
<1> QED
  BY <1>4, <1>5, <1>6

(* The size of a node is a number or a panic if those of its parts are. *)
LEMMA SizeAtIs ==
    ASSUME NEW c, IsContext(c), NEW f, NEW n \in Node, \A m \in Parts(n) : f[m] \in Sizes
    PROVE  SizeAt(c, f, n) \in Sizes
<1>1. IsNode(n) /\ 1 \in 1 .. MaxU
  BY NodeIs, WidthAssumption
<1>2. CASE n.kind = "literal"
  BY <1>1, <1>2, SizeIs DEF SizeAt
<1>3. CASE n.kind = "chars"
  <2>1. n.size \in 1 .. MaxU
    BY <1>1, <1>3 DEF IsNode
  <2> QED
    BY <1>3, <2>1, SizeIs DEF SizeAt
<1>4. CASE n.kind = "list"
  <2> DEFINE sizes == [k \in DOMAIN n.items |-> f[n.items[k]]]
             m == Len(n.items)
  <2>1. DOMAIN n.items = 1 .. m /\ m \in Nat /\ \A k \in 1 .. m : n.items[k] \in Parts(n)
    BY <1>1, <1>4 DEF IsNode
  <2> HIDE DEF m
  <2>2. Len(sizes) = m /\ \A k \in 1 .. m : sizes[k] \in Sizes
    BY <2>1
  <2> HIDE DEF sizes
  <2>3. ListSize(sizes) \in Sizes
    BY <2>1, <2>2, ListSizeIs
  <2> QED
    BY <1>4, <2>3 DEF SizeAt, sizes
<1>5. CASE n.kind = "count"
  <2>1. n.item \in Parts(n) /\ n.max \in 0 .. MaxCount /\ n.min \in 0 .. n.max
    BY <1>1, <1>5 DEF IsNode
  <2>2. f[n.item] \in Sizes
    BY <2>1
  <2>3. CASE f[n.item].panic # "none"
    BY <1>5, <2>2, <2>3 DEF SizeAt, Then
  <2>4. CASE f[n.item].panic = "none"
    <3>1. f[n.item].n \in 1 .. MaxU
      BY <2>2, <2>4, SizeIs
    <3>2. CountSize(f[n.item].n, n.min, n.max) \in Sizes
      BY <2>1, <3>1, CountSizeIs
    <3> QED
      BY <1>5, <2>2, <3>2 DEF SizeAt, Then
  <2> QED
    BY <2>3, <2>4
<1>6. CASE n.kind = "word"
  BY <1>6, WordSizeIs DEF SizeAt
<1>7. CASE n.kind = "words"
  <2>1. n.count \in 0 .. MaxCount
    BY <1>1, <1>7 DEF IsNode
  <2>2. SizeAt(c, f, n) = WordsSize(c, n)
    BY <1>7 DEF SizeAt
  <2> QED
    BY <2>1, <2>2, WordsSizeIs
<1>8. CASE n.kind = "unknown"
  <2>1. SizeAt(c, f, n) = Panics("unknown generator")
    BY <1>8 DEF SizeAt
  <2> QED
    BY <2>1, SizeIs DEF Reasons
<1> QED
  BY <1>1, <1>2, <1>3, <1>4, <1>5, <1>6, <1>7, <1>8 DEF IsNode

(* Node::size is what its recursion says, and has its type. *)
LEMMA NodeSizeIs ==
    ASSUME NEW c, IsContext(c)
    PROVE  NodeSize(c) = [n \in Node |-> SizeAt(c, NodeSize(c), n)] /\ NodeSize(c) \in [Node -> Sizes]
<1> DEFINE step == [f \in [Node -> Sizes] |-> [n \in Node |->
                       IF SizeAt(c, f, n) \in Sizes THEN SizeAt(c, f, n) ELSE Panics("overflow")]]
           sizeOf == NodeSize(c)
<1>1. Panics("overflow") \in Sizes
  BY SizeIs DEF Reasons
<1>2. step \in [[Node -> Sizes] -> [Node -> Sizes]]
  BY <1>1
<1>3. ASSUME NEW f, NEW g, NEW n \in Node, \A m \in Parts(n) : f[m] = g[m]
      PROVE  SizeAt(c, f, n) = SizeAt(c, g, n)
  <2>1. CASE n.kind = "list"
    <3>1. \A k \in DOMAIN n.items : n.items[k] \in Parts(n)
      BY <2>1, NodeIs DEF IsNode
    <3>2. [k \in DOMAIN n.items |-> f[n.items[k]]] = [k \in DOMAIN n.items |-> g[n.items[k]]]
      BY <1>3, <3>1
    <3> QED
      BY <2>1, <3>2 DEF SizeAt
  <2>2. CASE n.kind = "count"
    <3>1. n.item \in Parts(n)
      BY <2>2 DEF Parts
    <3> QED
      BY <1>3, <2>2, <3>1 DEF SizeAt
  <2>3. CASE n.kind # "list" /\ n.kind # "count"
    BY <2>3 DEF SizeAt
  <2> QED
    BY <2>1, <2>2, <2>3
<1>4. FromTheParts(step, Sizes)
  <2> SUFFICES ASSUME NEW f \in [Node -> Sizes], NEW g \in [Node -> Sizes], NEW n \in Node,
                      \A m \in Parts(n) : f[m] = g[m]
               PROVE  step[f][n] = step[g][n]
    BY DEF FromTheParts
  <2>1. SizeAt(c, f, n) = SizeAt(c, g, n)
    BY <1>3
  <2> QED
    BY <2>1
<1>5. PICK f \in [Node -> Sizes] : step[f] = f
  <2> HIDE DEF step
  <2> QED
    BY <1>1, <1>2, <1>4, TreeRecursion
<1>6. \A n \in Node : \A m \in Parts(n) : m \in Node
  BY NodeIs
<1>7. f = [n \in Node |-> SizeAt(c, f, n)]
  <2>1. \A n \in Node : SizeAt(c, f, n) \in Sizes
    BY <1>6, SizeAtIs
  <2>2. \A n \in Node : f[n] = step[f][n]
    BY <1>5
  <2>3. \A n \in Node : f[n] = SizeAt(c, f, n)
    BY <2>1, <2>2
  <2> QED
    BY <2>3
<1> HIDE DEF step
<1>8. sizeOf = [n \in Node |-> SizeAt(c, sizeOf, n)]
  <2>1. \E g : g = [n \in Node |-> SizeAt(c, g, n)]
    BY <1>7
  <2>2. sizeOf = CHOOSE g : g = [n \in Node |-> SizeAt(c, g, n)]
    BY DEF NodeSize
  <2> QED
    BY <2>1, <2>2
<1> HIDE DEF sizeOf
<1> DEFINE S == {n \in Node : sizeOf[n] \in Sizes}
<1>9. \A n \in Node : (\A m \in Parts(n) : m \in S) => n \in S
  <2> SUFFICES ASSUME NEW n \in Node, \A m \in Parts(n) : sizeOf[m] \in Sizes
               PROVE  sizeOf[n] \in Sizes
    OBVIOUS
  <2>1. SizeAt(c, sizeOf, n) \in Sizes
    BY SizeAtIs
  <2> QED
    BY <1>8, <2>1
<1>10. Node \subseteq S
  <2> HIDE DEF S
  <2> QED
    BY <1>9, TreeInduction
<1>11. sizeOf \in [Node -> Sizes]
  BY <1>8, <1>10
<1> QED
  BY <1>8, <1>11 DEF sizeOf

-----------------------------------------------------------------------------
(* The context of a run *)

(* The second fields of the lines are words. *)
LEMMA WordColumnIs ==
    WordColumn(EffLines) \in Seq(Word)
<1> DEFINE n == Len(EffLines)
           A == Seq(Word)
           c == <<>>
           next(k, s) == IF Len(EffLines[k]) < 2 THEN s ELSE Append(s, EffLines[k][2])
           step == [k \in 1 .. n |-> [s \in A |-> next(k, s)]]
           column == CHOOSE g : g = [k \in 0 .. n |->
                        IF k = 0 THEN c
                        ELSE IF Len(EffLines[k]) < 2 THEN g[k - 1]
                        ELSE Append(g[k - 1], EffLines[k][2])]
<1>1. n \in Nat /\ \A k \in 1 .. n : EffLines[k] \in Seq(Word)
  BY SourceAssumption DEF Word
<1>2. c \in A /\ WordColumn(EffLines) = column[n]
  BY DEF WordColumn
<1> HIDE DEF n
<1>3. ASSUME NEW k \in 1 .. n, NEW s \in A
      PROVE  next(k, s) \in A
  <2>1. Len(EffLines[k]) >= 2 => EffLines[k][2] \in Word
    BY <1>1
  <2>2. Len(EffLines[k]) \in Nat
    BY <1>1
  <2> QED
    BY <2>1, <2>2
<1>4. step \in [1 .. n -> [A -> A]]
  BY <1>3
<1>5. PICK f \in [0 .. n -> A] : IsIteration(f, c, n, step)
  <2> HIDE DEF step, A, c
  <2> QED
    BY <1>1, <1>2, <1>4, IterationExists, Zenon
<1>6. ASSUME NEW k \in 1 .. n
      PROVE  f[k] = next(k, f[k - 1])
  <2>1. f[k - 1] \in A
    <3>1. k - 1 \in 0 .. n
      BY <1>1
    <3> QED
      BY <3>1
  <2>2. f[k] = step[k][f[k - 1]]
    <3> HIDE DEF step
    <3> QED
      BY <1>5 DEF IsIteration
  <2> QED
    BY <2>1, <2>2
<1>7. f = [k \in 0 .. n |-> IF k = 0 THEN c ELSE next(k, f[k - 1])]
  <2>1. f[0] = c
    BY <1>5 DEF IsIteration
  <2>2. \A k \in 0 .. n : f[k] = IF k = 0 THEN c ELSE next(k, f[k - 1])
    <3> HIDE DEF next
    <3> QED
      BY <1>1, <1>6, <2>1
  <2> HIDE DEF next
  <2> QED
    BY <2>2
<1>8. column = [k \in 0 .. n |-> IF k = 0 THEN c ELSE next(k, column[k - 1])]
  BY <1>7
<1> HIDE DEF column
<1>9. column \in [0 .. n -> A]
  <2>1. column = [k \in 0 .. n |-> column[k]]
    BY <1>8
  <2>2. column[0] \in A
    BY <1>1, <1>2, <1>8
  <2>3. \A k \in 1 .. n : column[k] = next(k, column[k - 1])
    <3> HIDE DEF next
    <3> QED
      BY <1>1, <1>8
  <2>4. \A k \in 1 .. n : column[k - 1] \in A => column[k] \in A
    <3> HIDE DEF A, next
    <3> QED
      BY <1>3, <2>3
  <2> HIDE DEF A
  <2> QED
    BY <1>1, <2>1, <2>2, <2>4, IterationType, Zenon
<1> QED
  BY <1>1, <1>2, <1>9

(* The context that a run has before and after it reads its words file *)
ContextOfRun ==
    /\ start \in Starts
    /\ context = IF pc = "words" \/ WordsFile = None THEN DefaultContext
                 ELSE WithDefaultDict(DefaultContext, Load(WordsFile))

EffWords == ToSet(WordColumn(EffLines)) \ {<<>>}

(* The lists of the constants are lists of words, each under its text. *)
LEMMA ListsOfTheRun ==
    /\ Lists(Eff, EffWords)
    /\ \A s \in Sources : Lists(Load(s), WordsIn(s)) /\ Cardinality(WordsIn(s)) <= MaxU
    /\ start \in Starts => WordsFile \in Sources \cup {None}
<1>1. Lists(Eff, EffWords)
  BY WordColumnIs, IterList DEF Eff, EffWordlist, EffWords
<1>2. ASSUME NEW s \in Sources
      PROVE  Lists(Load(s), WordsIn(s)) /\ Cardinality(WordsIn(s)) <= MaxU
  <2>1. IsSource(s) /\ Cardinality(WordsIn(s)) <= MaxU
    BY SourceAssumption DEF IsSource
  <2> QED
    BY <2>1, LoadLists
<1>3. start \in Starts => WordsFile \in Sources \cup {None}
  BY DEF WordsFile, Sources
<1> QED
  BY <1>1, <1>2, <1>3

(* Every list of the context is there under its text. *)
LEMMA ContextLists ==
    ASSUME ContextOfRun
    PROVE  /\ Eff.hash \in DOMAIN context.dict /\ context.default \in DOMAIN context.dict
           /\ \A h \in DOMAIN context.dict :
                 \/ /\ h = Eff.hash /\ context.dict[h] = Eff.words
                    /\ pc # "words" /\ WordsFile # None => h # Load(WordsFile).hash
                 \/ /\ WordsFile # None /\ h = Load(WordsFile).hash /\ pc # "words"
                    /\ context.dict[h] = Load(WordsFile).words
           /\ pc # "words" /\ WordsFile # None => context.default = Load(WordsFile).hash
<1>1. CASE pc = "words" \/ WordsFile = None
  BY <1>1 DEF ContextOfRun, DefaultContext
<1>2. CASE ~ (pc = "words" \/ WordsFile = None)
  <2> DEFINE d == Load(WordsFile)
             e == Eff
  <2>1. context = [dict |-> [h \in {e.hash} \cup {d.hash} |->
                                IF h = d.hash THEN d.words ELSE [g \in {e.hash} |-> e.words][h]],
                   default |-> d.hash]
    BY <1>2 DEF ContextOfRun, DefaultContext, WithDefaultDict
  <2> HIDE DEF d, e
  <2>2. DOMAIN context.dict = {e.hash, d.hash} /\ context.default = d.hash
    BY <2>1
  <2>3. ASSUME NEW h \in DOMAIN context.dict
        PROVE  context.dict[h] = IF h = d.hash THEN d.words ELSE e.words
    BY <2>1, <2>2
  <2> QED
    BY <1>2, <2>2, <2>3 DEF d, e
<1> QED
  BY <1>1, <1>2

(* The context maps hashes to lists of words in order, each to the list     *)
(* that it is the hash of.                                                  *)
LEMMA ContextIs ==
    ASSUME ContextOfRun
    PROVE  /\ IsContext(context)
           /\ \A h \in DOMAIN context.dict :
                 /\ h = Text(context.dict[h])
                 /\ \E W : InOrder(context.dict[h], W)
<1>1. ASSUME NEW h \in DOMAIN context.dict
      PROVE  /\ h = Text(context.dict[h]) /\ Len(context.dict[h]) <= MaxU
             /\ \E W : InOrder(context.dict[h], W)
  <2>1. CASE h = Eff.hash /\ context.dict[h] = Eff.words
    BY <2>1, ListsOfTheRun, DictAssumption DEF Lists
  <2>2. CASE /\ WordsFile # None /\ h = Load(WordsFile).hash
             /\ context.dict[h] = Load(WordsFile).words
    <3>1. WordsFile \in Sources
      BY <2>2, ListsOfTheRun DEF ContextOfRun
    <3>2. Lists(Load(WordsFile), WordsIn(WordsFile)) /\ Cardinality(WordsIn(WordsFile)) <= MaxU
      BY <3>1, ListsOfTheRun
    <3>3. Len(context.dict[h]) = Cardinality(WordsIn(WordsFile))
      BY <2>2, <3>2, InOrderIs DEF Lists
    <3> QED
      BY <2>2, <3>2, <3>3 DEF Lists
  <2> QED
    BY <2>1, <2>2, ContextLists
<1>2. ASSUME NEW h \in DOMAIN context.dict
      PROVE  /\ context.dict[h] \in Seq(Word) /\ Len(context.dict[h]) <= MaxU
             /\ \A i, j \in 1 .. Len(context.dict[h]) :
                   context.dict[h][i] = context.dict[h][j] => i = j
  <2>1. PICK W : InOrder(context.dict[h], W)
    BY <1>1
  <2> QED
    BY <1>1, <2>1, InOrderIs
<1>3. context.default \in DOMAIN context.dict
  BY ContextLists
<1> QED
  BY <1>1, <1>2, <1>3 DEF IsContext

(* The words that a hash names are those of its list, each of them once. *)
LEMMA NamedWordsAre ==
    ASSUME ContextOfRun, NEW hash, HashOf(context, hash) \in DOMAIN context.dict
    PROVE  /\ NamedWords(hash) = ToSet(context.dict[HashOf(context, hash)])
           /\ Cardinality(NamedWords(hash)) = Len(context.dict[HashOf(context, hash)])
<1> DEFINE h == HashOf(context, hash)
           words == context.dict[h]
<1>1. h = Text(words) /\ words \in Seq(Word)
  BY ContextIs DEF IsContext
<1>2. CASE h = Eff.hash
  <2>1. words = Eff.words
    <3>1. h = Text(Eff.words) /\ Eff.words \in Seq(Word)
      BY <1>2, ListsOfTheRun, InOrderIs DEF Lists
    <3> HIDE DEF h, words
    <3> QED
      BY <1>1, <3>1, TextNames
  <2>2. NamedWords(hash) = EffWords
    BY <1>2 DEF NamedWords, EffWords
  <2>3. ToSet(Eff.words) = EffWords /\ Len(Eff.words) = Cardinality(EffWords)
    BY ListsOfTheRun, InOrderIs DEF Lists
  <2> QED
    BY <2>1, <2>2, <2>3
<1>3. CASE h # Eff.hash
  <2>1. WordsFile # None /\ words = Load(WordsFile).words
    BY <1>3, ContextLists
  <2>2. WordsFile \in Sources
    BY <2>1, ListsOfTheRun DEF ContextOfRun
  <2>3. Lists(Load(WordsFile), WordsIn(WordsFile))
    BY <2>2, ListsOfTheRun
  <2>4. NamedWords(hash) = WordsIn(WordsFile)
    BY <1>3 DEF NamedWords
  <2>5. ToSet(words) = WordsIn(WordsFile) /\ Len(words) = Cardinality(WordsIn(WordsFile))
    BY <2>1, <2>3, InOrderIs DEF Lists
  <2> QED
    BY <2>4, <2>5
<1> QED
  BY <1>2, <1>3

(* The lists of the context and those of the constants have the same words  *)
(* exactly if they have the same hash.                                      *)
LEMMA HashesName ==
    ASSUME ContextOfRun, NEW h \in DOMAIN context.dict, NEW list \in HashedLists
    PROVE  h = list[1] <=> ToSet(context.dict[h]) = list[2]
<1> DEFINE words == context.dict[h]
<1>1. PICK s \in Sources : list = <<Load(s).hash, WordsIn(s)>>
  BY DEF HashedLists
<1> DEFINE d == Load(s)
           W == WordsIn(s)
<1>2. InOrder(d.words, W) /\ d.hash = Text(d.words)
  BY ListsOfTheRun DEF Lists
<1>3. PICK V : InOrder(words, V)
  BY ContextIs
<1>4. h = Text(words)
  BY ContextIs
<1>5. list[1] = d.hash /\ list[2] = W
  BY <1>1
<1> HIDE DEF words, d, W
<1>6. /\ words \in Seq(Word) /\ ToSet(words) = V
      /\ d.words \in Seq(Word) /\ ToSet(d.words) = W
  BY <1>2, <1>3, InOrderIs
<1>7. h = list[1] => ToSet(words) = list[2]
  <2>1. Text(words) = Text(d.words) => words = d.words
    BY <1>6, TextNames
  <2> QED
    BY <1>2, <1>4, <1>5, <1>6, <2>1
<1>8. ToSet(words) = list[2] => h = list[1]
  <2>1. V = W => words = d.words
    BY <1>2, <1>3, OneOrder
  <2> QED
    BY <1>2, <1>4, <1>5, <1>6, <2>1
<1> QED
  BY <1>7, <1>8 DEF words

-----------------------------------------------------------------------------
(* What is defined by recursion over schemas is what its equation says. *)

(* The nodes of less than a height; all they are made of is lower. *)
Below(h) == {n \in Node : Height[n] < h}

(* What is below which height *)
LEMMA BelowIs ==
    /\ Below(0) = {} /\ MaxHeight + 1 \in Nat /\ Below(MaxHeight + 1) = Node
    /\ \A h \in Nat : \A n \in Below(h + 1) : \A m \in Parts(n) : m \in Below(h)
    /\ \A h \in Nat : Below(h) \subseteq Below(h + 1) /\ Below(h) \subseteq Node
<1>1. MaxHeight \in Nat /\ \A n \in Node : Height[n] \in 0 .. MaxHeight
  BY NodeIs, HeightAssumption
<1>2. Below(0) = {} /\ Below(MaxHeight + 1) = Node
  BY <1>1 DEF Below
<1>3. ASSUME NEW h \in Nat, NEW n \in Below(h + 1), NEW m \in Parts(n)
      PROVE  m \in Below(h)
  <2>1. n \in Node /\ m \in Node /\ Height[m] < Height[n] /\ Height[n] < h + 1
    BY <1>3, NodeIs DEF Below
  <2>2. Height[m] \in Nat /\ Height[n] \in Nat
    BY <1>1, <2>1
  <2> DEFINE x == Height[m]
             y == Height[n]
  <2> HIDE DEF x, y
  <2>3. x < y /\ y < h + 1 /\ x \in Nat /\ y \in Nat
    BY <2>1, <2>2 DEF x, y
  <2>4. x < h
    BY <2>3
  <2> QED
    BY <2>1, <2>4 DEF Below, x
<1>4. ASSUME NEW h \in Nat, NEW n \in Below(h)
      PROVE  n \in Below(h + 1)
  <2> DEFINE x == Height[n]
  <2>1. n \in Node /\ x < h /\ x \in Nat
    BY <1>1 DEF Below
  <2> HIDE DEF x
  <2>2. x < h + 1
    BY <2>1
  <2> QED
    BY <2>1, <2>2 DEF Below, x
<1>5. \A h : Below(h) \subseteq Node
  BY DEF Below
<1> QED
  BY <1>1, <1>2, <1>3, <1>4, <1>5

(* What a node writes is what the recursion of Node::write_to says. *)
LEMMA WriteIs ==
    ASSUME NEW c
    PROVE  Write(c) = [n \in Node |-> [i \in 0 .. MaxU |->
                Of(n.kind, WriteAt(c, NodeSize(c), Write(c), n, i))]]
<1> DEFINE at(f, n) == [i \in 0 .. MaxU |->
                Of(n.kind, WriteAt(c, NodeSize(c), f, n, i))]
           S == {h \in Nat : \E f : f = [n \in Below(h) |-> at(f, n)]}
<1>1. ASSUME NEW f, NEW g, NEW n \in Node, \A m \in Parts(n) : f[m] = g[m]
      PROVE  at(f, n) = at(g, n)
  <2>1. CASE n.kind = "list"
    <3>1. DOMAIN n.items = 1 .. Len(n.items) /\ \A k \in DOMAIN n.items : n.items[k] \in Parts(n)
      BY <2>1, NodeIs DEF IsNode
    <3>2. \A k \in DOMAIN n.items : f[n.items[k]] = g[n.items[k]]
      BY <1>1, <3>1
    <3>3. [k \in DOMAIN n.items |-> f[n.items[k]]] = [k \in DOMAIN n.items |-> g[n.items[k]]]
      BY <3>2
    <3>4. \A i : WriteAt(c, NodeSize(c), f, n, i) = WriteAt(c, NodeSize(c), g, n, i)
      BY <2>1, <3>3 DEF WriteAt
    <3> QED
      BY <3>4
  <2>2. CASE n.kind = "count"
    <3>1. f[n.item] = g[n.item]
      BY <1>1, <2>2 DEF Parts
    <3>2. \A i : WriteAt(c, NodeSize(c), f, n, i) = WriteAt(c, NodeSize(c), g, n, i)
      BY <2>2, <3>1 DEF WriteAt
    <3> QED
      BY <3>2
  <2>3. CASE n.kind # "list" /\ n.kind # "count"
    <3>1. \A i : WriteAt(c, NodeSize(c), f, n, i) = WriteAt(c, NodeSize(c), g, n, i)
      BY <2>3 DEF WriteAt
    <3> QED
      BY <3>1
  <2> QED
    BY <2>1, <2>2, <2>3
<1>2. \E f : f = [n \in Node |-> at(f, n)]
  <2> HIDE DEF at
  <2>1. 0 \in S
    <3>1. <<>> = [n \in Below(0) |-> at(<<>>, n)]
      BY BelowIs
    <3> QED
      BY <3>1
  <2>2. ASSUME NEW h \in Nat, h \in S
        PROVE  h + 1 \in S
    <3>1. PICK f : f = [n \in Below(h) |-> at(f, n)]
      BY <2>2
    <3> DEFINE g == [n \in Below(h + 1) |-> at(f, n)]
    <3>2. \A m \in Below(h) : f[m] = g[m]
      BY <3>1, BelowIs
    <3>3. \A n \in Below(h + 1) : at(f, n) = at(g, n)
      <4> SUFFICES ASSUME NEW n \in Below(h + 1) PROVE at(f, n) = at(g, n)
        OBVIOUS
      <4>1. n \in Node /\ \A m \in Parts(n) : f[m] = g[m]
        <5> HIDE DEF g
        <5> QED
          BY <3>2, BelowIs DEF Below
      <4> HIDE DEF g
      <4> QED
        BY <1>1, <4>1
    <3>4. g = [n \in Below(h + 1) |-> at(g, n)]
      BY <3>3
    <3> HIDE DEF g
    <3> QED
      BY <3>4
  <2>3. MaxHeight + 1 \in S
    <3> HIDE DEF S
    <3>1. Nat \subseteq S
      BY <2>1, <2>2, SetInduction
    <3> QED
      BY <3>1, BelowIs
  <2> QED
    BY <2>3, BelowIs
<1>3. Write(c) = CHOOSE f : f = [n \in Node |-> [i \in 0 .. MaxU |->
                Of(n.kind, WriteAt(c, NodeSize(c), f, n, i))]]
  BY DEF Write
<1> QED
  BY <1>2, <1>3

(* The language of a schema is what its recursion says. *)
LEMMA LanguageIs ==
    Language = [n \in Node |-> LanguageAt(Language, n)]
<1> DEFINE at(f, n) == LanguageAt(f, n)
           S == {h \in Nat : \E f : f = [n \in Below(h) |-> at(f, n)]}
<1>1. ASSUME NEW f, NEW g, NEW n \in Node, \A m \in Parts(n) : f[m] = g[m]
      PROVE  at(f, n) = at(g, n)
  <2>1. CASE n.kind = "list"
    <3>1. DOMAIN n.items = 1 .. Len(n.items) /\ \A k \in DOMAIN n.items : n.items[k] \in Parts(n)
      BY <2>1, NodeIs DEF IsNode
    <3>2. \A k \in DOMAIN n.items : f[n.items[k]] = g[n.items[k]]
      BY <1>1, <3>1
    <3>3. [k \in DOMAIN n.items |-> f[n.items[k]]] = [k \in DOMAIN n.items |-> g[n.items[k]]]
      BY <3>2
    <3> DEFINE any(h) == [DOMAIN n.items -> AnyOf([k \in DOMAIN n.items |-> h[n.items[k]]])]
               all(h) == {d \in any(h) : \A k \in DOMAIN n.items : d[k] \in h[n.items[k]]}
    <3>4. any(f) = any(g)
      BY <3>3
    <3>5. all(f) = all(g)
      <4> HIDE DEF any
      <4> QED
        BY <3>2, <3>4
    <3>6. LanguageAt(f, n) = {n.kind} \X all(f) /\ LanguageAt(g, n) = {n.kind} \X all(g)
      BY <2>1 DEF LanguageAt
    <3> HIDE DEF all
    <3> QED
      BY <3>5, <3>6
  <2>2. CASE n.kind = "count"
    <3>1. f[n.item] = g[n.item]
      BY <1>1, <2>2 DEF Parts
    <3> QED
      BY <2>2, <3>1 DEF LanguageAt
  <2>3. CASE n.kind # "list" /\ n.kind # "count"
    BY <2>3 DEF LanguageAt
  <2> QED
    BY <2>1, <2>2, <2>3
<1>2. \E f : f = [n \in Node |-> at(f, n)]
  <2> HIDE DEF at
  <2>1. 0 \in S
    <3>1. <<>> = [n \in Below(0) |-> at(<<>>, n)]
      BY BelowIs
    <3> QED
      BY <3>1
  <2>2. ASSUME NEW h \in Nat, h \in S
        PROVE  h + 1 \in S
    <3>1. PICK f : f = [n \in Below(h) |-> at(f, n)]
      BY <2>2
    <3> DEFINE g == [n \in Below(h + 1) |-> at(f, n)]
    <3>2. \A m \in Below(h) : f[m] = g[m]
      BY <3>1, BelowIs
    <3>3. \A n \in Below(h + 1) : at(f, n) = at(g, n)
      <4> SUFFICES ASSUME NEW n \in Below(h + 1) PROVE at(f, n) = at(g, n)
        OBVIOUS
      <4>1. n \in Node /\ \A m \in Parts(n) : f[m] = g[m]
        <5> HIDE DEF g
        <5> QED
          BY <3>2, BelowIs DEF Below
      <4> HIDE DEF g
      <4> QED
        BY <1>1, <4>1
    <3>4. g = [n \in Below(h + 1) |-> at(g, n)]
      BY <3>3
    <3> HIDE DEF g
    <3> QED
      BY <3>4
  <2>3. MaxHeight + 1 \in S
    <3> HIDE DEF S
    <3>1. Nat \subseteq S
      BY <2>1, <2>2, SetInduction
    <3> QED
      BY <3>1, BelowIs
  <2> QED
    BY <2>3, BelowIs
<1>3. Language = CHOOSE f : f = [n \in Node |-> LanguageAt(f, n)]
  BY DEF Language
<1> QED
  BY <1>2, <1>3

(* So is the length of a derivation. *)
LEMMA LengthOfIs ==
    LengthOf = [n \in Node |-> [d \in Language[n] |-> LengthAt(LengthOf, n, d)]]
<1> DEFINE at(f, n) == [d \in Language[n] |-> LengthAt(f, n, d)]
           S == {h \in Nat : \E f : f = [n \in Below(h) |-> at(f, n)]}
<1>1. ASSUME NEW f, NEW g, NEW n \in Node, \A m \in Parts(n) : f[m] = g[m]
      PROVE  at(f, n) = at(g, n)
  <2>1. CASE n.kind = "list"
    <3>1. DOMAIN n.items = 1 .. Len(n.items) /\ \A k \in DOMAIN n.items : n.items[k] \in Parts(n)
      BY <2>1, NodeIs DEF IsNode
    <3>2. \A k \in DOMAIN n.items : f[n.items[k]] = g[n.items[k]]
      BY <1>1, <3>1
    <3>3. ASSUME NEW d PROVE LengthAt(f, n, d) = LengthAt(g, n, d)
      <4>1. [k \in DOMAIN n.items |-> f[n.items[k]][d[2][k]]]
            = [k \in DOMAIN n.items |-> g[n.items[k]][d[2][k]]]
        BY <3>2
      <4> QED
        BY <2>1, <4>1 DEF LengthAt
    <3> QED
      BY <3>3
  <2>2. CASE n.kind = "count"
    <3>1. f[n.item] = g[n.item]
      BY <1>1, <2>2 DEF Parts
    <3>2. \A d : LengthAt(f, n, d) = LengthAt(g, n, d)
      BY <2>2, <3>1 DEF LengthAt
    <3> QED
      BY <3>2
  <2>3. CASE n.kind # "list" /\ n.kind # "count"
    <3>1. \A d : LengthAt(f, n, d) = LengthAt(g, n, d)
      BY <2>3 DEF LengthAt
    <3> QED
      BY <3>1
  <2> QED
    BY <2>1, <2>2, <2>3
<1>2. \E f : f = [n \in Node |-> at(f, n)]
  <2> HIDE DEF at
  <2>1. 0 \in S
    <3>1. <<>> = [n \in Below(0) |-> at(<<>>, n)]
      BY BelowIs
    <3> QED
      BY <3>1
  <2>2. ASSUME NEW h \in Nat, h \in S
        PROVE  h + 1 \in S
    <3>1. PICK f : f = [n \in Below(h) |-> at(f, n)]
      BY <2>2
    <3> DEFINE g == [n \in Below(h + 1) |-> at(f, n)]
    <3>2. \A m \in Below(h) : f[m] = g[m]
      BY <3>1, BelowIs
    <3>3. \A n \in Below(h + 1) : at(f, n) = at(g, n)
      <4> SUFFICES ASSUME NEW n \in Below(h + 1) PROVE at(f, n) = at(g, n)
        OBVIOUS
      <4>1. n \in Node /\ \A m \in Parts(n) : f[m] = g[m]
        <5> HIDE DEF g
        <5> QED
          BY <3>2, BelowIs DEF Below
      <4> HIDE DEF g
      <4> QED
        BY <1>1, <4>1
    <3>4. g = [n \in Below(h + 1) |-> at(g, n)]
      BY <3>3
    <3> HIDE DEF g
    <3> QED
      BY <3>4
  <2>3. MaxHeight + 1 \in S
    <3> HIDE DEF S
    <3>1. Nat \subseteq S
      BY <2>1, <2>2, SetInduction
    <3> QED
      BY <3>1, BelowIs
  <2> QED
    BY <2>3, BelowIs
<1>3. LengthOf = CHOOSE f : f = [n \in Node |-> [d \in Language[n] |-> LengthAt(f, n, d)]]
  BY DEF LengthOf
<1> QED
  BY <1>2, <1>3

(* So is the number of them. *)
LEMMA NumberOfIs ==
    NumberOf = [n \in Node |-> NumberAt(NumberOf, n)]
<1> DEFINE at(f, n) == NumberAt(f, n)
           S == {h \in Nat : \E f : f = [n \in Below(h) |-> at(f, n)]}
<1>1. ASSUME NEW f, NEW g, NEW n \in Node, \A m \in Parts(n) : f[m] = g[m]
      PROVE  at(f, n) = at(g, n)
  <2>1. CASE n.kind = "list"
    <3>1. DOMAIN n.items = 1 .. Len(n.items) /\ \A k \in DOMAIN n.items : n.items[k] \in Parts(n)
      BY <2>1, NodeIs DEF IsNode
    <3>2. \A k \in DOMAIN n.items : f[n.items[k]] = g[n.items[k]]
      BY <1>1, <3>1
    <3>3. [k \in DOMAIN n.items |-> f[n.items[k]]] = [k \in DOMAIN n.items |-> g[n.items[k]]]
      BY <3>2
    <3> QED
      BY <2>1, <3>3 DEF NumberAt
  <2>2. CASE n.kind = "count"
    <3>1. f[n.item] = g[n.item]
      BY <1>1, <2>2 DEF Parts
    <3> QED
      BY <2>2, <3>1 DEF NumberAt
  <2>3. CASE n.kind # "list" /\ n.kind # "count"
    BY <2>3 DEF NumberAt
  <2> QED
    BY <2>1, <2>2, <2>3
<1>2. \E f : f = [n \in Node |-> at(f, n)]
  <2> HIDE DEF at
  <2>1. 0 \in S
    <3>1. <<>> = [n \in Below(0) |-> at(<<>>, n)]
      BY BelowIs
    <3> QED
      BY <3>1
  <2>2. ASSUME NEW h \in Nat, h \in S
        PROVE  h + 1 \in S
    <3>1. PICK f : f = [n \in Below(h) |-> at(f, n)]
      BY <2>2
    <3> DEFINE g == [n \in Below(h + 1) |-> at(f, n)]
    <3>2. \A m \in Below(h) : f[m] = g[m]
      BY <3>1, BelowIs
    <3>3. \A n \in Below(h + 1) : at(f, n) = at(g, n)
      <4> SUFFICES ASSUME NEW n \in Below(h + 1) PROVE at(f, n) = at(g, n)
        OBVIOUS
      <4>1. n \in Node /\ \A m \in Parts(n) : f[m] = g[m]
        <5> HIDE DEF g
        <5> QED
          BY <3>2, BelowIs DEF Below
      <4> HIDE DEF g
      <4> QED
        BY <1>1, <4>1
    <3>4. g = [n \in Below(h + 1) |-> at(g, n)]
      BY <3>3
    <3> HIDE DEF g
    <3> QED
      BY <3>4
  <2>3. MaxHeight + 1 \in S
    <3> HIDE DEF S
    <3>1. Nat \subseteq S
      BY <2>1, <2>2, SetInduction
    <3> QED
      BY <3>1, BelowIs
  <2> QED
    BY <2>3, BelowIs
<1>3. NumberOf = CHOOSE f : f = [n \in Node |-> NumberAt(f, n)]
  BY DEF NumberOf
<1> QED
  BY <1>2, <1>3

(* So is what a schema is made of. *)
LEMMA WithinIs ==
    Within = [n \in Node |-> {n} \cup UNION {Within[m] : m \in Parts(n)}]
<1> DEFINE at(f, n) == {n} \cup UNION {f[m] : m \in Parts(n)}
           S == {h \in Nat : \E f : f = [n \in Below(h) |-> at(f, n)]}
<1>1. ASSUME NEW f, NEW g, NEW n \in Node, \A m \in Parts(n) : f[m] = g[m]
      PROVE  at(f, n) = at(g, n)
  <2>1. {f[m] : m \in Parts(n)} = {g[m] : m \in Parts(n)}
    BY <1>1
  <2> QED
    BY <2>1
<1>2. \E f : f = [n \in Node |-> at(f, n)]
  <2> HIDE DEF at
  <2>1. 0 \in S
    <3>1. <<>> = [n \in Below(0) |-> at(<<>>, n)]
      BY BelowIs
    <3> QED
      BY <3>1
  <2>2. ASSUME NEW h \in Nat, h \in S
        PROVE  h + 1 \in S
    <3>1. PICK f : f = [n \in Below(h) |-> at(f, n)]
      BY <2>2
    <3> DEFINE g == [n \in Below(h + 1) |-> at(f, n)]
    <3>2. \A m \in Below(h) : f[m] = g[m]
      BY <3>1, BelowIs
    <3>3. \A n \in Below(h + 1) : at(f, n) = at(g, n)
      <4> SUFFICES ASSUME NEW n \in Below(h + 1) PROVE at(f, n) = at(g, n)
        OBVIOUS
      <4>1. n \in Node /\ \A m \in Parts(n) : f[m] = g[m]
        <5> HIDE DEF g
        <5> QED
          BY <3>2, BelowIs DEF Below
      <4> HIDE DEF g
      <4> QED
        BY <1>1, <4>1
    <3>4. g = [n \in Below(h + 1) |-> at(g, n)]
      BY <3>3
    <3> HIDE DEF g
    <3> QED
      BY <3>4
  <2>3. MaxHeight + 1 \in S
    <3> HIDE DEF S
    <3>1. Nat \subseteq S
      BY <2>1, <2>2, SetInduction
    <3> QED
      BY <3>1, BelowIs
  <2> QED
    BY <2>3, BelowIs
<1>3. Within = CHOOSE f : f = [n \in Node |-> {n} \cup UNION {f[m] : m \in Parts(n)}]
  BY DEF Within
<1> QED
  BY ZenonT(30), <1>2, <1>3

-----------------------------------------------------------------------------
(* What is written of parts *)

(* Some of the parts, each from its own set, with its own length: what all  *)
(* indexes below those of the bases write                                   *)
PartsOf(bases, parts, n, langs, lengths) ==
    /\ Len(bases) = n /\ DOMAIN bases = 1 .. n
    /\ \A k \in 1 .. n :
          /\ bases[k] \in 1 .. MaxU
          /\ \A d \in 0 .. bases[k] - 1 :
                /\ parts[k][d].panic = "none" /\ parts[k][d].out \in langs[k]
                /\ parts[k][d].len = lengths[k][parts[k][d].out] /\ parts[k][d].len \in Nat
          /\ \A d, e \in 0 .. bases[k] - 1 : parts[k][d].out = parts[k][e].out => d = e

(* w is what they write, each for its digit of the index i. *)
AreWritten(w, i, bases, parts, n, langs, lengths) ==
    /\ w.panic = "none"
    /\ w.out = [k \in 1 .. n |-> parts[k][Digit(i, bases, k)].out]
    /\ \A k \in 1 .. n : Digit(i, bases, k) \in 0 .. bases[k] - 1 /\ w.out[k] \in langs[k]
    /\ w.len = Total([k \in 1 .. n |-> lengths[k][w.out[k]]]) /\ w.len \in Nat

(* What the total is *)
LEMMA TotalIs ==
    ASSUME NEW n \in Nat, NEW numbers, Len(numbers) = n, \A k \in 1 .. n : numbers[k] \in Nat
    PROVE  /\ IsSums(Sums(numbers), numbers) /\ Total(numbers) = Sums(numbers)[n]
           /\ Total(numbers) \in Nat
<1>1. IsSums(Sums(numbers), numbers)
  BY SumsAre
<1>2. Total(numbers) = Sums(numbers)[n]
  BY DEF Total
<1>3. Sums(numbers)[n] \in Nat
  BY <1>1 DEF IsSums
<1> QED
  BY <1>1, <1>2, <1>3

(* An index below the product of the bases writes each part for a digit. *)
LEMMA PartsAreWritten ==
    ASSUME NEW n \in Nat, NEW bases, NEW parts, NEW langs, NEW lengths,
           PartsOf(bases, parts, n, langs, lengths),
           NEW i \in 0 .. MaxU, NEW q, IsProducts(q, bases, n), i < q[n]
    PROVE  AreWritten(WriteParts(i, bases, parts), i, bases, parts, n, langs, lengths)
<1> DEFINE w == WriteParts(i, bases, parts)
           digit(k) == Digit(i, bases, k)
<1>1. w = AllParts(i, bases, parts, n)
  BY SMTT(30), WritePartsIs DEF PartsOf
<1>2. IsRests(Rests(i, bases), i, bases, n)
  BY RestsAre DEF PartsOf
<1>3. \A k \in 1 .. n : digit(k) \in 0 .. bases[k] - 1
  BY <1>2 DEF IsRests
<1>4. /\ w.panic = "none" /\ w.out = [k \in 1 .. n |-> parts[k][digit(k)].out]
      /\ w.len = Total([k \in 1 .. n |-> parts[k][digit(k)].len])
  BY <1>1 DEF AllParts
<1> HIDE DEF w, digit
<1>5. \A k \in 1 .. n : /\ w.out[k] = parts[k][digit(k)].out /\ w.out[k] \in langs[k]
                        /\ parts[k][digit(k)].len = lengths[k][w.out[k]]
                        /\ parts[k][digit(k)].len \in Nat
  BY <1>3, <1>4 DEF PartsOf
<1>6. [k \in 1 .. n |-> parts[k][digit(k)].len] = [k \in 1 .. n |-> lengths[k][w.out[k]]]
  BY <1>5
<1>7. w.len = Total([k \in 1 .. n |-> lengths[k][w.out[k]]])
  BY <1>4, <1>6
<1>8. w.len \in Nat
  <2> DEFINE numbers == [k \in 1 .. n |-> parts[k][digit(k)].len]
  <2>1. Len(numbers) = n /\ \A k \in 1 .. n : numbers[k] \in Nat
    BY <1>5
  <2>2. w.len = Total(numbers)
    BY <1>4
  <2> HIDE DEF numbers
  <2>3. Total(numbers) \in Nat
    BY <2>1, TotalIs
  <2> QED
    BY <2>2, <2>3
<1> QED
  BY <1>3, <1>4, <1>5, <1>7, <1>8 DEF w, digit, AreWritten

(* Two such indexes that write the same are one. *)
LEMMA PartsDiffer ==
    ASSUME NEW n \in Nat, NEW bases, NEW parts, NEW langs, NEW lengths,
           PartsOf(bases, parts, n, langs, lengths),
           NEW q, IsProducts(q, bases, n),
           NEW i \in 0 .. MaxU, i < q[n], NEW j \in 0 .. MaxU, j < q[n],
           WriteParts(i, bases, parts).out = WriteParts(j, bases, parts).out
    PROVE  i = j
<1> DEFINE r == Rests(i, bases)
           s == Rests(j, bases)
<1>1. IsRests(r, i, bases, n) /\ IsRests(s, j, bases, n)
  BY RestsAre DEF PartsOf
<1>2. \A k \in 1 .. n : bases[k] \in 1 .. MaxU
  BY DEF PartsOf
<1>3. r[n] = 0
  <2> HIDE DEF r
  <2> QED
    BY <1>1, <1>2, RestsEnd
<1>4. s[n] = 0
  <2> HIDE DEF s
  <2> QED
    BY <1>1, <1>2, RestsEnd
<1> DEFINE v == WriteParts(i, bases, parts).out
           w == WriteParts(j, bases, parts).out
<1>a. /\ AreWritten(WriteParts(i, bases, parts), i, bases, parts, n, langs, lengths)
      /\ AreWritten(WriteParts(j, bases, parts), j, bases, parts, n, langs, lengths)
  BY PartsAreWritten
<1>b. /\ v = [k \in 1 .. n |-> parts[k][Digit(i, bases, k)].out]
      /\ w = [k \in 1 .. n |-> parts[k][Digit(j, bases, k)].out]
      /\ \A k \in 1 .. n : /\ Digit(i, bases, k) \in 0 .. bases[k] - 1
                           /\ Digit(j, bases, k) \in 0 .. bases[k] - 1
  BY <1>a DEF AreWritten
<1>c. v = w
  OBVIOUS
<1> HIDE DEF v, w
<1>5. ASSUME NEW k \in 1 .. n
      PROVE  Digit(i, bases, k) = Digit(j, bases, k)
  <2> DEFINE d == Digit(i, bases, k)
             e == Digit(j, bases, k)
  <2>1. d \in 0 .. bases[k] - 1 /\ v[k] = parts[k][d].out
    BY <1>b
  <2>2. e \in 0 .. bases[k] - 1 /\ w[k] = parts[k][e].out
    BY <1>b
  <2> HIDE DEF d, e
  <2>3. d = e
    BY <1>c, <2>1, <2>2 DEF PartsOf
  <2> QED
    BY <2>3 DEF d, e
<1> HIDE DEF r, s
<1> QED
  BY <1>1, <1>2, <1>3, <1>4, <1>5, SameDigits

(* Each derivation of a part is written for one of the part's indexes. *)
AreReached(bases, parts, n, langs) ==
    \A k \in 1 .. n : \A d \in langs[k] : \E x \in 0 .. bases[k] - 1 : parts[k][x].out = d

(* d has a derivation of each part. *)
IsChoice(d, langs, n) ==
    /\ d = [k \in 1 .. n |-> d[k]]
    /\ \A k \in 1 .. n : d[k] \in langs[k]

(* Then each choice of derivations of the parts is written for an index. *)
LEMMA PartsAreReached ==
    ASSUME NEW n \in Nat, NEW bases, NEW parts, NEW langs, NEW lengths,
           PartsOf(bases, parts, n, langs, lengths), AreReached(bases, parts, n, langs),
           NEW q, IsExact(q, bases, n), q[n] <= MaxU,
           NEW d, IsChoice(d, langs, n)
    PROVE  \E i \in 0 .. MaxU : i < q[n] /\ WriteParts(i, bases, parts).out = d
<1> DEFINE digits == [k \in 1 .. n |-> CHOOSE x \in 0 .. bases[k] - 1 : parts[k][x].out = d[k]]
<1>1. ASSUME NEW k \in 1 .. n
      PROVE  digits[k] \in 0 .. bases[k] - 1 /\ parts[k][digits[k]].out = d[k]
  <2>1. \E x \in 0 .. bases[k] - 1 : parts[k][x].out = d[k]
    BY DEF AreReached, IsChoice
  <2>2. digits[k] = CHOOSE x \in 0 .. bases[k] - 1 : parts[k][x].out = d[k]
    OBVIOUS
  <2> HIDE DEF digits
  <2> QED
    BY <2>1, <2>2
<1> HIDE DEF digits
<1>2. Len(bases) = n /\ \A k \in 1 .. n : bases[k] \in 1 .. MaxU
  BY DEF PartsOf
<1>3. PICK i \in 0 .. MaxU : i < q[n] /\ IsIndex(i, bases, digits, n)
  <2>1. AreDigits(digits, bases, n)
    BY <1>1, <1>2 DEF AreDigits
  <2> QED
    BY <2>1, IndexOfDigits
<1>4. IsProducts(q, bases, n)
  <2> SUFFICES ASSUME NEW k \in 1 .. n PROVE q[k] <= q[k - 1] * bases[k]
    BY DEF IsProducts, IsExact
  <2>1. q[k] = q[k - 1] * bases[k] /\ q[k] \in Nat
    BY DEF IsExact
  <2> DEFINE x == q[k]
  <2>2. x \in Nat /\ x = q[k - 1] * bases[k]
    BY <2>1
  <2> HIDE DEF x
  <2>3. x <= x
    BY <2>2
  <2> QED
    BY <2>2, <2>3 DEF x
<1> DEFINE w == WriteParts(i, bases, parts)
<1>5. AreWritten(w, i, bases, parts, n, langs, lengths)
  BY <1>3, <1>4, PartsAreWritten
<1>6. w.out = [k \in 1 .. n |-> parts[k][Digit(i, bases, k)].out]
  <2> HIDE DEF w
  <2> QED
    BY <1>5 DEF AreWritten
<1>7. [k \in 1 .. n |-> parts[k][Digit(i, bases, k)].out] = [k \in 1 .. n |-> d[k]]
  BY <1>1, <1>3 DEF IsIndex
<1> HIDE DEF w
<1>8. w.out = d
  BY <1>6, <1>7, Zenon DEF IsChoice
<1> QED
  BY <1>3, <1>8 DEF w

(* Each set is part of the union. *)
LEMMA AnyOfIs ==
    ASSUME NEW n \in Nat, NEW sets, Len(sets) = n
    PROVE  \A k \in 1 .. n : sets[k] \subseteq AnyOf(sets)
<1> DEFINE U == UNION {sets[k] : k \in 1 .. n}
           A == SUBSET U
           c == {}
           step == [k \in 1 .. n |-> [s \in A |-> s \cup sets[k]]]
           any == CHOOSE g : g = [k \in 0 .. n |-> IF k = 0 THEN c ELSE g[k - 1] \cup sets[k]]
<1>1. c \in A /\ AnyOf(sets) = any[n]
  BY DEF AnyOf
<1>2. step \in [1 .. n -> [A -> A]]
  <2>1. \A k \in 1 .. n : sets[k] \subseteq U
    OBVIOUS
  <2> HIDE DEF U
  <2> QED
    BY <2>1
<1>3. PICK f \in [0 .. n -> A] : IsIteration(f, c, n, step)
  <2> HIDE DEF step, A, c
  <2> QED
    BY <1>1, <1>2, IterationExists, Zenon
<1>4. f = [k \in 0 .. n |-> IF k = 0 THEN c ELSE f[k - 1] \cup sets[k]]
  <2>1. \A k \in 1 .. n : f[k] = f[k - 1] \cup sets[k]
    <3> SUFFICES ASSUME NEW k \in 1 .. n PROVE f[k] = f[k - 1] \cup sets[k]
      OBVIOUS
    <3>1. f[k] = step[k][f[k - 1]]
      <4> HIDE DEF step
      <4> QED
        BY <1>3 DEF IsIteration
    <3>2. f[k - 1] \in A
      <4> HIDE DEF A
      <4>1. k - 1 \in 0 .. n
        OBVIOUS
      <4> QED
        BY <4>1
    <3> HIDE DEF A
    <3> QED
      BY <3>1, <3>2
  <2>2. f[0] = c
    <3> HIDE DEF step
    <3> QED
      BY <1>3 DEF IsIteration
  <2> HIDE DEF A, c
  <2>3. \A k \in 0 .. n : f[k] = IF k = 0 THEN c ELSE f[k - 1] \cup sets[k]
    BY <2>1, <2>2
  <2> QED
    BY <2>3
<1>5. any = [k \in 0 .. n |-> IF k = 0 THEN c ELSE any[k - 1] \cup sets[k]]
  BY <1>4
<1> HIDE DEF any, A, U
<1>6. \A k \in 1 .. n : any[k] = any[k - 1] \cup sets[k]
  BY <1>5
<1> DEFINE S == {k \in 0 .. n : \A j \in 1 .. k : sets[j] \subseteq any[k]}
<1>7. 0 \in S
  OBVIOUS
<1>8. ASSUME NEW k \in 1 .. n, k - 1 \in S
      PROVE  k \in S
  <2> SUFFICES ASSUME NEW j \in 1 .. k PROVE sets[j] \subseteq any[k]
    OBVIOUS
  <2>1. j = k \/ j \in 1 .. k - 1
    OBVIOUS
  <2> QED
    BY <1>6, <1>8, <2>1
<1>9. 0 .. n \subseteq S
  <2> HIDE DEF S
  <2> QED
    BY <1>7, <1>8, IntervalInduction
<1>10. n \in 0 .. n
  OBVIOUS
<1> QED
  BY <1>1, <1>9, <1>10

(* One separator fewer than there are words *)
LEMMA TotalWithSeparators ==
    ASSUME NEW n \in Nat, n # 0, NEW sep \in Nat, NEW a, Len(a) = n, \A k \in 1 .. n : a[k] \in Nat,
           NEW b, Len(b) = n, \A k \in 1 .. n : b[k] = IF k = 1 THEN a[k] ELSE a[k] + sep
    PROVE  Total(b) = Total(a) + (n - 1) * sep
<1> DEFINE s == Sums(a)
           t == Sums(b)
<1>1. \A k \in 1 .. n : b[k] \in Nat
  OBVIOUS
<1>2. IsSums(s, a) /\ Total(a) = s[n]
  BY TotalIs
<1>3. IsSums(t, b) /\ Total(b) = t[n]
  BY <1>1, TotalIs
<1> HIDE DEF s, t
<1>4. s[0] = 0 /\ \A k \in 0 .. n : s[k] \in Nat
  BY <1>2 DEF IsSums
<1>5. t[0] = 0 /\ \A k \in 0 .. n : t[k] \in Nat
  BY <1>3 DEF IsSums
<1>6. \A k \in 1 .. n : s[k] = s[k - 1] + a[k] /\ t[k] = t[k - 1] + b[k]
  BY <1>2, <1>3 DEF IsSums
<1> DEFINE S == {k \in 0 .. n : k # 0 => t[k] = s[k] + (k - 1) * sep}
<1>7. 0 \in S
  OBVIOUS
<1>8. ASSUME NEW k \in 1 .. n, k - 1 \in S
      PROVE  k \in S
  <2> SUFFICES t[k] = s[k] + (k - 1) * sep
    OBVIOUS
  <2>1. CASE k = 1
    <3>1. t[1] = b[1] /\ s[1] = a[1] /\ b[1] = a[1]
      BY <1>4, <1>5, <1>6, <2>1
    <3>2. (1 - 1) * sep = 0 /\ a[1] + 0 = a[1]
      BY <2>1
    <3> QED
      BY <2>1, <3>1, <3>2
  <2>2. CASE k # 1
    <3>1. PICK m \in Nat : k = m + 2
      <4>1. k - 2 \in Nat /\ k = (k - 2) + 2
        BY <2>2
      <4> QED
        BY <4>1
    <3>2. k - 1 = m + 1 /\ (k - 1) - 1 = m /\ k - 1 # 0
      BY <3>1
    <3>3. t[k - 1] = s[k - 1] + m * sep
      BY <1>8, <3>2
    <3>4. t[k] = t[k - 1] + b[k] /\ b[k] = a[k] + sep /\ s[k] = s[k - 1] + a[k]
      BY <1>6, <2>2
    <3>5. (k - 1) * sep = m * sep + sep /\ m * sep \in Nat
      <4>1. (m + 1) * sep = m * sep + sep
        OBVIOUS
      <4>2. m * sep \in Nat
        BY TimesIs
      <4> QED
        BY <3>2, <4>1, <4>2
    <3> DEFINE x == s[k - 1]
               y == m * sep
               z == a[k]
    <3>6. x \in Nat /\ y \in Nat /\ z \in Nat
      BY <1>4, <3>5
    <3> HIDE DEF x, y, z
    <3>7. (x + y) + (z + sep) = (x + z) + (y + sep)
      BY <3>6
    <3> QED
      BY <3>3, <3>4, <3>5, <3>7 DEF x, y, z
  <2> QED
    BY <2>1, <2>2
<1>9. 0 .. n \subseteq S
  <2> HIDE DEF S
  <2> QED
    BY <1>7, <1>8, IntervalInduction
<1>10. n \in 0 .. n
  OBVIOUS
<1> QED
  BY <1>2, <1>3, <1>9, <1>10

-----------------------------------------------------------------------------
(* What is written of literals, classes and lists *)

(* w is a derivation of n, written in full. *)
Prints(n, w) ==
    /\ w.panic = "none" /\ w.out \in Language[n]
    /\ w.len = LengthOf[n][w.out] /\ w.len \in Nat

(* The indexes below N write derivations of n, each another one. *)
Enumerates(n, write, N) ==
    /\ \A i \in 0 .. N - 1 : Prints(n, write[i])
    /\ \A i, j \in 0 .. N - 1 : write[i].out = write[j].out => i = j

IsWriting(w) == w = [out |-> w.out, len |-> w.len, panic |-> w.panic]

(* What the index i writes of n, before it is tagged with the kind of n *)
Writing(n, i) == WriteAt(context, NodeSize(context), Write(context), n, i)

(* What WriteParts and Written give *)
LEMMA Writings ==
    /\ \A i, bases, parts : IsWriting(WriteParts(i, bases, parts))
    /\ \A what, len : /\ IsWriting(Written(what, len)) /\ Written(what, len).panic = "none"
                      /\ Written(what, len).out = what /\ Written(what, len).len = len
<1>1. ASSUME NEW i, NEW bases, NEW parts
      PROVE  IsWriting(WriteParts(i, bases, parts))
  <2>1. \E a, b, p : WriteParts(i, bases, parts) = [out |-> a, len |-> b, panic |-> p]
    <3> DEFINE part == [k \in DOMAIN bases |-> parts[k][Rests(i, bases)[k - 1] % bases[k]]]
               failed == {k \in DOMAIN bases : part[k].panic # "none"}
               last == IF failed = {} THEN Len(bases) ELSE Min(failed)
               a == [k \in 1 .. last |-> part[k].out]
               b == Total([k \in 1 .. last |-> part[k].len])
               p == IF failed # {} THEN part[last].panic
                    ELSE IF Rests(i, bases)[last] # 0 THEN "index left" ELSE "none"
    <3>1. WriteParts(i, bases, parts) = [out |-> a, len |-> b, panic |-> p]
      BY DEF WriteParts
    <3> HIDE DEF a, b, p
    <3> QED
      BY <3>1
  <2> QED
    BY <2>1 DEF IsWriting
<1>2. \A what, len : /\ IsWriting(Written(what, len)) /\ Written(what, len).panic = "none"
                     /\ Written(what, len).out = what /\ Written(what, len).len = len
  BY DEF IsWriting, Written
<1> QED
  BY <1>1, <1>2

(* A node tags what it writes with its kind. *)
LEMMA TaggedIs ==
    ASSUME NEW n \in Node, NEW i \in 0 .. MaxU, IsWriting(Writing(n, i))
    PROVE  LET w == Write(context)[n][i]
           IN  /\ w.panic = Writing(n, i).panic /\ w.len = Writing(n, i).len
               /\ w.out = <<n.kind, Writing(n, i).out>>
<1> DEFINE write == Write(context)[n]
<1>1. write = [x \in 0 .. MaxU |-> Of(n.kind, Writing(n, x))]
  <2> DEFINE all == Write(context)
             at(m) == [x \in 0 .. MaxU |-> Of(m.kind, WriteAt(context, NodeSize(context), all, m, x))]
  <2>1. all = [m \in Node |-> at(m)]
    BY WriteIs
  <2>2. at(n) = [x \in 0 .. MaxU |-> Of(n.kind, Writing(n, x))]
    BY DEF Writing
  <2> HIDE DEF all, at
  <2>3. all[n] = at(n)
    BY <2>1
  <2> QED
    BY <2>2, <2>3 DEF all, write
<1> HIDE DEF write
<1>2. write[i] = Of(n.kind, Writing(n, i))
  BY <1>1
<1> DEFINE w == Writing(n, i)
<1>3. w = [out |-> w.out, len |-> w.len, panic |-> w.panic]
  BY DEF IsWriting
<1> HIDE DEF w
<1>4. Of(n.kind, w) = [out |-> <<n.kind, w.out>>, len |-> w.len, panic |-> w.panic]
  BY <1>3 DEF Of
<1> QED
  BY <1>2, <1>4 DEF w, write

(* What is shown of the writes of a node before they are tagged holds of    *)
(* those of the node.                                                       *)
LEMMA EnumeratesIf ==
    ASSUME NEW n \in Node, NEW N \in 1 .. MaxU,
           \A i \in 0 .. N - 1 :
               /\ IsWriting(Writing(n, i)) /\ Writing(n, i).panic = "none"
               /\ <<n.kind, Writing(n, i).out>> \in Language[n]
               /\ Writing(n, i).len = LengthAt(LengthOf, n, <<n.kind, Writing(n, i).out>>)
               /\ Writing(n, i).len \in Nat,
           \A i, j \in 0 .. N - 1 : Writing(n, i).out = Writing(n, j).out => i = j
    PROVE  Enumerates(n, Write(context)[n], N)
<1> DEFINE tagged(i) == <<n.kind, Writing(n, i).out>>
           write == Write(context)[n]
<1>1. ASSUME NEW i \in 0 .. N - 1
      PROVE  write[i].panic = "none" /\ write[i].out = tagged(i) /\ write[i].len = Writing(n, i).len
  <2>1. i \in 0 .. MaxU
    BY WidthAssumption
  <2> QED
    BY <2>1, TaggedIs
<1> HIDE DEF write
<1>2. LengthOf[n] = [d \in Language[n] |-> LengthAt(LengthOf, n, d)]
  BY LengthOfIs
<1>3. ASSUME NEW i \in 0 .. N - 1
      PROVE  Prints(n, write[i])
  <2>1. /\ tagged(i) \in Language[n] /\ Writing(n, i).len = LengthAt(LengthOf, n, tagged(i))
        /\ Writing(n, i).len \in Nat
    OBVIOUS
  <2> HIDE DEF tagged
  <2> QED
    BY <1>1, <1>2, <2>1 DEF Prints
<1>4. ASSUME NEW i \in 0 .. N - 1, NEW j \in 0 .. N - 1, write[i].out = write[j].out
      PROVE  i = j
  <2>1. tagged(i) = tagged(j)
    BY <1>1, <1>4
  <2> QED
    BY <2>1
<1> QED
  BY <1>3, <1>4 DEF Enumerates, write

(* The size of a node, by those of its parts *)
LEMMA SizeHere ==
    ASSUME ContextOfRun, NEW n \in Node
    PROVE  NodeSize(context)[n] = SizeAt(context, NodeSize(context), n)
           /\ NodeSize(context)[n] \in Sizes
<1>1. IsContext(context)
  BY ContextIs
<1>2. /\ NodeSize(context) = [m \in Node |-> SizeAt(context, NodeSize(context), m)]
      /\ NodeSize(context) \in [Node -> Sizes]
  BY <1>1, NodeSizeIs
<1> DEFINE sizeOf == NodeSize(context)
<1> HIDE DEF sizeOf
<1>3. sizeOf = [m \in Node |-> SizeAt(context, sizeOf, m)] /\ sizeOf \in [Node -> Sizes]
  BY <1>2 DEF sizeOf
<1>4. sizeOf[n] = SizeAt(context, sizeOf, n) /\ sizeOf[n] \in Sizes
  BY <1>3
<1> QED
  BY <1>4 DEF sizeOf

(* A literal is written for its one index. *)
LEMMA LiteralWritten ==
    ASSUME ContextOfRun, NEW n \in Node, n.kind = "literal"
    PROVE  Enumerates(n, Write(context)[n], NodeSize(context)[n].n)
<1>1. NodeSize(context)[n].n = 1
  <2>1. NodeSize(context)[n] = SizeAt(context, NodeSize(context), n)
    BY SizeHere
  <2>2. SizeAt(context, NodeSize(context), n) = Size(1)
    BY DEF SizeAt
  <2> QED
    BY <2>1, <2>2 DEF Size
<1>2. Writing(n, 0) = Written(<<>>, n.len)
  BY DEF Writing, WriteAt
<1>3. <<"literal", <<>>>> \in Language[n]
  <2>1. Language[n] = LanguageAt(Language, n)
    BY LanguageIs
  <2> QED
    BY <2>1 DEF LanguageAt
<1>4. \A d : LengthAt(LengthOf, n, d) = n.len
  BY DEF LengthAt
<1>5. 1 \in 1 .. MaxU /\ 0 .. 1 - 1 = {0}
  BY WidthAssumption
<1>6. n.len \in Nat
  BY NodeIs DEF IsNode
<1> QED
  BY <1>1, <1>2, <1>3, <1>4, <1>5, <1>6, Writings, EnumeratesIf

(* Each character of a class is written for one index. *)
LEMMA CharsWritten ==
    ASSUME ContextOfRun, NEW n \in Node, n.kind = "chars"
    PROVE  Enumerates(n, Write(context)[n], NodeSize(context)[n].n)
<1>1. n.size \in 1 .. MaxU
  BY NodeIs DEF IsNode
<1>2. NodeSize(context)[n].n = n.size
  <2>1. NodeSize(context)[n] = SizeAt(context, NodeSize(context), n)
    BY SizeHere
  <2>2. SizeAt(context, NodeSize(context), n) = Size(n.size)
    BY DEF SizeAt
  <2> QED
    BY <2>1, <2>2 DEF Size
<1>3. \A i : Writing(n, i) = Written(i, 1)
  BY DEF Writing, WriteAt
<1>4. \A i \in 0 .. n.size - 1 : <<"chars", i>> \in Language[n]
  <2>1. Language[n] = LanguageAt(Language, n)
    BY LanguageIs
  <2>2. LanguageAt(Language, n) = {"chars"} \X (0 .. (n.size - 1))
    BY DEF LanguageAt
  <2> QED
    BY <2>1, <2>2
<1>5. \A d : LengthAt(LengthOf, n, d) = 1
  BY DEF LengthAt
<1> QED
  BY <1>1, <1>2, <1>3, <1>4, <1>5, Writings, EnumeratesIf

(* The items of a list, as parts *)
ListSizes(n) == [k \in DOMAIN n.items |-> NodeSize(context)[n.items[k]]]
ListBases(n) == [k \in DOMAIN n.items |-> NodeSize(context)[n.items[k]].n]
ListWrites(n) == [k \in DOMAIN n.items |-> Write(context)[n.items[k]]]
ListLangs(n) == [k \in DOMAIN n.items |-> Language[n.items[k]]]
ListLengths(n) == [k \in DOMAIN n.items |-> LengthOf[n.items[k]]]

(* What the items of a list are and what the list makes of them *)
LEMMA ListPartsAre ==
    ASSUME ContextOfRun, NEW n \in Node, n.kind = "list", NodeSize(context)[n].panic = "none",
           \A m \in Parts(n) : NodeSize(context)[m].panic = "none" =>
               Enumerates(m, Write(context)[m], NodeSize(context)[m].n)
    PROVE  LET m == Len(n.items)
               N == NodeSize(context)[n].n
           IN  /\ m \in Nat /\ N \in 1 .. MaxU
               /\ PartsOf(ListBases(n), ListWrites(n), m, ListLangs(n), ListLengths(n))
               /\ \E q : /\ Multiplied(q, ListSizes(n), m) /\ N = q[m]
                        /\ IsProducts(q, ListBases(n), m)
               /\ \A k \in 1 .. m :
                     /\ n.items[k] \in Parts(n) /\ n.items[k] \in Node
                     /\ ListBases(n)[k] = ListSizes(n)[k].n
                     /\ ListSizes(n)[k] = NodeSize(context)[n.items[k]]
                     /\ ListWrites(n)[k] = Write(context)[n.items[k]]
                     /\ ListLangs(n)[k] = Language[n.items[k]]
                     /\ ListLangs(n)[k] \subseteq AnyOf(ListLangs(n))
               /\ \A i : Writing(n, i) = WriteParts(i, ListBases(n), ListWrites(n))
               /\ Language[n] = {"list"} \X {d \in [1 .. m -> AnyOf(ListLangs(n))] :
                                               \A k \in 1 .. m : d[k] \in ListLangs(n)[k]}
               /\ \A d : LengthAt(LengthOf, n, <<"list", d>>)
                         = Total([k \in 1 .. m |-> ListLengths(n)[k][d[k]]])
<1> DEFINE m == Len(n.items)
           sizes == [k \in DOMAIN n.items |-> NodeSize(context)[n.items[k]]]
           bases == [k \in DOMAIN n.items |-> NodeSize(context)[n.items[k]].n]
           parts == [k \in DOMAIN n.items |-> Write(context)[n.items[k]]]
           langs == [k \in DOMAIN n.items |-> Language[n.items[k]]]
           lengths == [k \in DOMAIN n.items |-> LengthOf[n.items[k]]]
           N == NodeSize(context)[n].n
<1>1. DOMAIN n.items = 1 .. m /\ m \in Nat /\ \A k \in 1 .. m : n.items[k] \in Parts(n)
  BY NodeIs DEF IsNode
<1>2. \A k \in 1 .. m : n.items[k] \in Node
  BY <1>1, NodeIs
<1>3. IsContext(context)
  BY ContextIs
<1>4. Len(sizes) = m /\ \A k \in 1 .. m : sizes[k] \in Sizes
  BY <1>1, <1>2, <1>3, NodeSizeIs
<1>5. NodeSize(context)[n] = ListSize(sizes)
  BY SizeHere DEF SizeAt
<1>6. PICK q : Multiplied(q, sizes, m) /\ N = q[m]
  <2> HIDE DEF sizes, m
  <2> QED
    BY <1>1, <1>4, <1>5, ListSizeIs
<1>7. N \in 1 .. MaxU
  <2> HIDE DEF sizes, m, N
  <2> QED
    BY <1>1, <1>6 DEF Multiplied
<1>8. /\ DOMAIN bases = 1 .. m /\ Len(bases) = m
      /\ \A k \in 1 .. m : bases[k] = sizes[k].n /\ bases[k] \in 1 .. MaxU
  <2>1. \A k \in 1 .. m : sizes[k].n \in 1 .. MaxU
    BY <1>6 DEF Multiplied
  <2>2. \A k \in 1 .. m : bases[k] = sizes[k].n
    BY <1>1
  <2>3. DOMAIN bases = 1 .. m /\ Len(bases) = m
    BY <1>1
  <2> HIDE DEF bases, sizes
  <2> QED
    BY <2>1, <2>2, <2>3
<1>9. PartsOf(bases, parts, m, langs, lengths)
  <2> SUFFICES ASSUME NEW k \in 1 .. m
               PROVE  Enumerates(n.items[k], parts[k], bases[k])
                      /\ langs[k] = Language[n.items[k]] /\ lengths[k] = LengthOf[n.items[k]]
    <3> HIDE DEF bases, parts, langs, lengths, sizes, m
    <3> QED
      BY <1>8 DEF PartsOf, Enumerates, Prints
  <2>1. NodeSize(context)[n.items[k]].panic = "none"
    <3>1. sizes[k].panic = "none"
      BY <1>6 DEF Multiplied
    <3> QED
      BY <1>1, <3>1
  <2> QED
    BY <1>1, <2>1
<1>10. IsProducts(q, bases, m)
  <2>1. q[0] = 1 /\ \A k \in 0 .. m : q[k] \in 1 .. MaxU
    BY <1>6 DEF Multiplied
  <2>2. ASSUME NEW k \in 1 .. m
        PROVE  q[k] <= q[k - 1] * bases[k]
    <3>1. q[k - 1] \in 1 .. MaxU /\ bases[k] \in 1 .. MaxU
      <4> HIDE DEF bases, m
      <4>1. k - 1 \in 0 .. m
        BY <1>1
      <4> QED
        BY <1>8, <2>1, <4>1
    <3>2. q[k] = SatMul(q[k - 1], bases[k])
      <4>1. q[k] = SatMul(q[k - 1], sizes[k].n)
        BY <1>6 DEF Multiplied
      <4> HIDE DEF bases, sizes
      <4> QED
        BY <1>8, <4>1
    <3> HIDE DEF bases
    <3> QED
      BY <3>1, <3>2, SatMulIs
  <2> HIDE DEF bases, m
  <2> QED
    BY <2>1, <2>2, WidthAssumption DEF IsProducts
<1>11. \A i : Writing(n, i) = WriteParts(i, bases, parts)
  BY DEF Writing, WriteAt
<1>12. Language[n] = {"list"} \X {d \in [1 .. m -> AnyOf(langs)] : \A k \in 1 .. m : d[k] \in langs[k]}
  <2>1. Language[n] = LanguageAt(Language, n)
    BY LanguageIs
  <2>2. LanguageAt(Language, n)
        = {"list"} \X {d \in [DOMAIN n.items -> AnyOf(langs)] :
                          \A k \in DOMAIN n.items : d[k] \in Language[n.items[k]]}
    BY DEF LanguageAt
  <2>3. \A k \in 1 .. m : langs[k] = Language[n.items[k]]
    BY <1>1
  <2> HIDE DEF langs, m
  <2> QED
    BY <1>1, <2>1, <2>2, <2>3
<1>13. \A d : LengthAt(LengthOf, n, <<"list", d>>) = Total([k \in 1 .. m |-> lengths[k][d[k]]])
  <2> SUFFICES ASSUME NEW d PROVE LengthAt(LengthOf, n, <<"list", d>>) = Total([k \in 1 .. m |-> lengths[k][d[k]]])
    OBVIOUS
  <2>1. LengthAt(LengthOf, n, <<"list", d>>)
        = Total([k \in DOMAIN n.items |-> LengthOf[n.items[k]][<<"list", d>>[2][k]]])
    BY DEF LengthAt
  <2>2. [k \in DOMAIN n.items |-> LengthOf[n.items[k]][<<"list", d>>[2][k]]]
        = [k \in 1 .. m |-> lengths[k][d[k]]]
    BY <1>1
  <2> QED
    BY <2>1, <2>2
<1>14. Len(langs) = m
  BY <1>1
<1>15. /\ sizes = ListSizes(n) /\ bases = ListBases(n) /\ parts = ListWrites(n)
       /\ langs = ListLangs(n) /\ lengths = ListLengths(n)
  BY DEF ListSizes, ListBases, ListWrites, ListLangs, ListLengths
<1>16. \A k \in 1 .. m : /\ sizes[k] = NodeSize(context)[n.items[k]]
                         /\ parts[k] = Write(context)[n.items[k]]
                         /\ langs[k] = Language[n.items[k]]
  BY <1>1
<1> HIDE DEF m, N, sizes, bases, parts, langs, lengths
<1>17. \A k \in 1 .. m : langs[k] \subseteq AnyOf(langs)
  BY <1>1, <1>14, AnyOfIs
<1>18. \E p : Multiplied(p, sizes, m) /\ N = p[m] /\ IsProducts(p, bases, m)
  BY <1>6, <1>10
<1>19. /\ m \in Nat /\ N \in 1 .. MaxU
       /\ PartsOf(bases, parts, m, langs, lengths)
       /\ \A k \in 1 .. m :
             /\ n.items[k] \in Parts(n) /\ n.items[k] \in Node
             /\ bases[k] = sizes[k].n /\ sizes[k] = NodeSize(context)[n.items[k]]
             /\ parts[k] = Write(context)[n.items[k]]
             /\ langs[k] = Language[n.items[k]] /\ langs[k] \subseteq AnyOf(langs)
  BY <1>1, <1>2, <1>7, <1>8, <1>9, <1>17, <1>16
<1>20. /\ PartsOf(ListBases(n), ListWrites(n), m, ListLangs(n), ListLengths(n))
       /\ \E p : Multiplied(p, ListSizes(n), m) /\ N = p[m] /\ IsProducts(p, ListBases(n), m)
       /\ \A i : Writing(n, i) = WriteParts(i, ListBases(n), ListWrites(n))
  BY <1>11, <1>15, <1>18, <1>19, Zenon
<1>21. \A k \in 1 .. m :
          /\ n.items[k] \in Parts(n) /\ n.items[k] \in Node
          /\ ListBases(n)[k] = ListSizes(n)[k].n
          /\ ListSizes(n)[k] = NodeSize(context)[n.items[k]]
          /\ ListWrites(n)[k] = Write(context)[n.items[k]]
          /\ ListLangs(n)[k] = Language[n.items[k]] /\ ListLangs(n)[k] \subseteq AnyOf(ListLangs(n))
  BY <1>15, <1>19, Zenon
<1>22. Language[n] = {"list"} \X {d \in [1 .. m -> AnyOf(ListLangs(n))] :
                                     \A k \in 1 .. m : d[k] \in ListLangs(n)[k]}
  BY <1>12, <1>15, Zenon
<1>23. \A d : LengthAt(LengthOf, n, <<"list", d>>) = Total([k \in 1 .. m |-> ListLengths(n)[k][d[k]]])
  BY <1>13, <1>15, Zenon
<1> QED
  BY <1>19, <1>20, <1>21, <1>22, <1>23, Zenon DEF m, N

(* Each combination of what the items of a list write is written for one    *)
(* index.                                                                   *)
LEMMA ListWritten ==
    ASSUME ContextOfRun, NEW n \in Node, n.kind = "list", NodeSize(context)[n].panic = "none",
           \A m \in Parts(n) : NodeSize(context)[m].panic = "none" =>
               Enumerates(m, Write(context)[m], NodeSize(context)[m].n)
    PROVE  Enumerates(n, Write(context)[n], NodeSize(context)[n].n)
<1> DEFINE m == Len(n.items)
           bases == ListBases(n)
           parts == ListWrites(n)
           langs == ListLangs(n)
           lengths == ListLengths(n)
           N == NodeSize(context)[n].n
<1>1. /\ m \in Nat /\ N \in 1 .. MaxU /\ PartsOf(bases, parts, m, langs, lengths)
      /\ \A k \in 1 .. m : langs[k] \subseteq AnyOf(langs)
      /\ \A i : Writing(n, i) = WriteParts(i, bases, parts)
      /\ Language[n] = {"list"} \X {d \in [1 .. m -> AnyOf(langs)] : \A k \in 1 .. m : d[k] \in langs[k]}
      /\ \A d : LengthAt(LengthOf, n, <<"list", d>>) = Total([k \in 1 .. m |-> lengths[k][d[k]]])
  BY ListPartsAre
<1>2. PICK q : N = q[m] /\ IsProducts(q, bases, m)
  BY ListPartsAre
<1> HIDE DEF m, N, bases, parts, langs, lengths
<1>3. ASSUME NEW i \in 0 .. N - 1
       PROVE  /\ IsWriting(Writing(n, i)) /\ Writing(n, i).panic = "none"
              /\ <<"list", Writing(n, i).out>> \in Language[n]
              /\ Writing(n, i).len = LengthAt(LengthOf, n, <<"list", Writing(n, i).out>>)
              /\ Writing(n, i).len \in Nat
  <2> DEFINE w == WriteParts(i, bases, parts)
  <2>1. i \in 0 .. MaxU /\ i < q[m]
    BY <1>1, <1>2, WidthAssumption
  <2>2. AreWritten(w, i, bases, parts, m, langs, lengths)
    BY <1>1, <1>2, <2>1, PartsAreWritten
  <2> HIDE DEF w
  <2>3. /\ w.panic = "none" /\ w.out \in [1 .. m -> AnyOf(langs)]
        /\ \A k \in 1 .. m : w.out[k] \in langs[k]
    BY <1>1, <2>2 DEF AreWritten
  <2>4. <<"list", w.out>> \in Language[n]
    BY <1>1, <2>3
  <2>5. w.len = LengthAt(LengthOf, n, <<"list", w.out>>) /\ w.len \in Nat
    BY <1>1, <2>2 DEF AreWritten
  <2>6. w = Writing(n, i)
    BY <1>1 DEF w
  <2>7. IsWriting(w)
    BY Writings DEF w
  <2> QED
    BY <2>3, <2>4, <2>5, <2>6, <2>7
<1>4. ASSUME NEW i \in 0 .. N - 1, NEW j \in 0 .. N - 1, Writing(n, i).out = Writing(n, j).out
       PROVE  i = j
  <2>1. i \in 0 .. MaxU /\ i < q[m] /\ j \in 0 .. MaxU /\ j < q[m]
    BY <1>1, <1>2, WidthAssumption
  <2>2. WriteParts(i, bases, parts).out = WriteParts(j, bases, parts).out
    BY <1>1, <1>4
  <2> QED
    BY <1>1, <1>2, <2>1, <2>2, PartsDiffer
<1> QED
  BY <1>1, <1>3, <1>4, EnumeratesIf DEF N

-----------------------------------------------------------------------------
(* What is written of counts *)

Repeated(n, x) == [k \in 1 .. n |-> x]

(* The repetitions of an item are parts, each with the size of the item. *)
LEMMA RepeatedParts ==
    ASSUME NEW item, NEW write, NEW b \in 1 .. MaxU, Enumerates(item, write, b), NEW n \in Nat
    PROVE  /\ PartsOf(Repeated(n, b), Repeated(n, write), n,
                      Repeated(n, Language[item]), Repeated(n, LengthOf[item]))
           /\ IsProducts(Power(b), Repeated(n, b), n)
<1>1. DOMAIN Repeated(n, b) = 1 .. n /\ Len(Repeated(n, b)) = n
  BY DEF Repeated
<1>2. ASSUME NEW k \in 1 .. n
      PROVE  /\ Repeated(n, b)[k] = b /\ Repeated(n, write)[k] = write
             /\ Repeated(n, Language[item])[k] = Language[item]
             /\ Repeated(n, LengthOf[item])[k] = LengthOf[item]
  BY DEF Repeated
<1>3. PartsOf(Repeated(n, b), Repeated(n, write), n,
              Repeated(n, Language[item]), Repeated(n, LengthOf[item]))
  BY <1>1, <1>2 DEF PartsOf, Enumerates, Prints
<1>4. b \in Nat
  BY WidthAssumption
<1>5. \A k \in 0 .. n : Power(b)[k] \in Nat
  BY <1>4, PowerNext
<1>6. Power(b)[0] = 1
  BY <1>4, PowerIs
<1>7. ASSUME NEW k \in 1 .. n
      PROVE  Power(b)[k] <= Power(b)[k - 1] * Repeated(n, b)[k]
  <2>1. k \in Nat /\ k # 0
    OBVIOUS
  <2>2. Power(b)[k] = Power(b)[k - 1] * b
    BY <1>4, <2>1, PowerNext
  <2>3. Power(b)[k] \in Nat
    BY <1>4, <2>1, PowerNext
  <2> QED
    BY <1>2, <2>2, <2>3
<1> QED
  BY <1>3, <1>5, <1>6, <1>7 DEF IsProducts

(* What an index below the size of a count is split into *)
Splits(n, b, i, d) ==
    LET split == CountSplit(b, n.min, i)
    IN  /\ d \in Nat /\ n.min + d \in n.min .. n.max
        /\ Turned(split, b, n.min, i, d)
        /\ split.index \in 0 .. MaxU /\ split.index < Power(b)[n.min + d]
        /\ Writing(n, i) = WriteParts(split.index, Repeated(n.min + d, b),
                                      Repeated(n.min + d, Write(context)[n.item]))

(* An index below what all turns of a count take is in one of the turns. *)
LEMMA CountSplits ==
    ASSUME ContextOfRun, NEW n \in Node, n.kind = "count",
           NEW b \in 1 .. MaxU, b = NodeSize(context)[n.item].n,
           NEW i \in Nat, i < Turns(b, n.min)[n.max - n.min + 1]
    PROVE  \E d : Splits(n, b, i, d)
<1> DEFINE min == n.min
           max == n.max
           split == CountSplit(b, min, i)
<1>1. max \in Nat /\ min \in 0 .. max /\ max - min + 1 \in Nat /\ min \in Nat
  <2>1. max \in 0 .. MaxCount /\ min \in 0 .. max /\ MaxCount \in Nat
    BY NodeIs, WidthAssumption DEF IsNode
  <2> HIDE DEF max, min
  <2> QED
    BY <2>1
<1> HIDE DEF min, max
<1>2. PICK d \in Nat : /\ d < max - min + 1 /\ Turned(split, b, min, i, d)
                       /\ split.index < Capped(b, min + d)
  BY <1>1, CountSplitStops DEF min, max
<1>3. min + d \in min .. max /\ min + d \in Nat
  BY <1>1, <1>2
<1>4. b \in Nat /\ b # 0 /\ MaxU \in Nat
  BY WidthAssumption
<1>5. Capped(b, min + d) \in 1 .. MaxU /\ Capped(b, min + d) <= Power(b)[min + d]
  <2>1. Power(b)[min + d] \in Nat
    BY <1>3, <1>4, PowerNext
  <2>2. Capped(b, min + d) \in 1 .. MaxU
    BY <1>3, <1>4, CappedIs
  <2> DEFINE p == Power(b)[min + d]
  <2>3. p \in Nat
    BY <2>1
  <2> HIDE DEF p
  <2>4. AtMost(MaxU, p) <= p
    BY <1>4, <2>3, AtMostIs
  <2> QED
    BY <2>2, <2>4 DEF p, Capped
<1>6. split.index \in 0 .. MaxU /\ split.index < Power(b)[min + d] /\ split.count = min + d
  <2>1. Power(b)[min + d] \in Nat
    BY <1>3, <1>4, PowerNext
  <2>2. split.index \in Nat /\ split.count = min + d
    BY <1>2 DEF Turned
  <2> HIDE DEF split
  <2> QED
    BY <1>2, <1>4, <1>5, <2>1, <2>2
<1>7. Writing(n, i) = WriteCount(b, Write(context)[n.item], min, max, i)
  BY DEF Writing, WriteAt, min, max
<1>8. WriteCount(b, Write(context)[n.item], min, max, i)
      = WriteParts(split.index, Repeated(min + d, b), Repeated(min + d, Write(context)[n.item]))
  <2>1. ~ (split.count > max)
    BY <1>1, <1>3, <1>6
  <2> DEFINE parts(t) == WriteParts(t.index, [k \in 1 .. t.count |-> b],
                                    [k \in 1 .. t.count |-> Write(context)[n.item]])
  <2>2. WriteCount(b, Write(context)[n.item], min, max, i)
        = IF split.count > max THEN WritePanics("count") ELSE parts(split)
    BY DEF WriteCount
  <2>3. parts(split) = WriteParts(split.index, Repeated(min + d, b),
                                  Repeated(min + d, Write(context)[n.item]))
    <3> HIDE DEF split
    <3> QED
      BY <1>6 DEF Repeated
  <2> HIDE DEF parts
  <2> QED
    BY <2>1, <2>2, <2>3
<1> HIDE DEF split
<1>9. /\ d \in Nat /\ min + d \in min .. max /\ Turned(split, b, min, i, d)
      /\ split.index \in 0 .. MaxU /\ split.index < Power(b)[min + d]
      /\ Writing(n, i) = WriteParts(split.index, Repeated(min + d, b),
                                    Repeated(min + d, Write(context)[n.item]))
  BY <1>2, <1>3, <1>6, <1>7, <1>8
<1>10. Splits(n, b, i, d)
  BY <1>9 DEF Splits, split, min, max
<1> QED
  BY <1>10

(* Each number of repetitions of what the item writes is written for one    *)
(* index.                                                                   *)
LEMMA CountWritten ==
    ASSUME ContextOfRun, NEW n \in Node, n.kind = "count", NodeSize(context)[n].panic = "none",
           \A m \in Parts(n) : NodeSize(context)[m].panic = "none" =>
               Enumerates(m, Write(context)[m], NodeSize(context)[m].n)
    PROVE  Enumerates(n, Write(context)[n], NodeSize(context)[n].n)
<1> DEFINE item == n.item
           min == n.min
           max == n.max
           e == max - min + 1
           of == NodeSize(context)[item]
           b == of.n
           write == Write(context)[item]
           N == NodeSize(context)[n].n
<1>1. item \in Parts(n) /\ item \in Node /\ max \in 0 .. MaxCount /\ min \in 0 .. max
  BY NodeIs DEF IsNode
<1>2. NodeSize(context)[n] = Then(of, CountSize(b, min, max)) /\ NodeSize(context)[n] \in Sizes
  BY SizeHere DEF SizeAt
<1>3. of.panic = "none" /\ NodeSize(context)[n] = CountSize(b, min, max)
  <2> HIDE DEF of, b
  <2> QED
    BY <1>2, SizeIs
<1>4. b \in 1 .. MaxU
  BY <1>1, <1>3, SizeHere, SizeIs
<1>5. N \in 1 .. MaxU
  BY <1>2, SizeIs
<1>6. N <= Turns(b, min)[e]
  <2> HIDE DEF b, min, max
  <2>1. CountSize(b, min, max).panic = "none"
    BY <1>3
  <2>2. CountSize(b, min, max).n <= Turns(b, min)[max - min + 1]
    BY <1>1, <1>4, <2>1, CountSizeIs DEF item
  <2> QED
    BY <1>3, <2>2
<1>7. Enumerates(item, write, b)
  BY <1>1, <1>3
<1>8. max \in Nat /\ min \in Nat /\ e \in Nat /\ b \in Nat /\ b # 0
  <2> HIDE DEF b, min, max
  <2> QED
    BY <1>1, <1>4, WidthAssumption
<1>9. Turns(b, min)[e] \in Nat
  <2> HIDE DEF b, min, e
  <2> QED
    BY <1>8, TurnsAre
<1>10. ASSUME NEW i \in 0 .. N - 1
       PROVE  i \in Nat /\ \E d : Splits(n, b, i, d)
  <2>1. i \in Nat /\ i < Turns(b, min)[e]
    <3> HIDE DEF b, min, e, N
    <3> QED
      BY <1>5, <1>6, <1>9, WidthAssumption
  <2> QED
    BY <1>4, <2>1, CountSplits
<1>11. Language[n] = {"count"} \X {d \in Seq(Language[item]) : Len(d) \in min .. max}
  <2>1. Language[n] = LanguageAt(Language, n)
    BY LanguageIs
  <2>2. LanguageAt(Language, n) = {"count"} \X {d \in Seq(Language[item]) : Len(d) \in min .. max}
    BY DEF LanguageAt
  <2> QED
    BY <2>1, <2>2
<1>12. \A d : LengthAt(LengthOf, n, <<"count", d>>) = Total([k \in DOMAIN d |-> LengthOf[item][d[k]]])
  <2> SUFFICES ASSUME NEW d
               PROVE  LengthAt(LengthOf, n, <<"count", d>>) = Total([k \in DOMAIN d |-> LengthOf[item][d[k]]])
    OBVIOUS
  <2>1. LengthAt(LengthOf, n, <<"count", d>>)
        = Total([k \in DOMAIN (<<"count", d>>[2]) |-> LengthOf[n.item][<<"count", d>>[2][k]]])
    BY DEF LengthAt
  <2>2. <<"count", d>>[2] = d
    OBVIOUS
  <2> QED
    BY <2>1, <2>2
<1> HIDE DEF N, b, item, min, max, e, write, of
(* What the indexes of one number of repetitions write *)
<1>13. ASSUME NEW count \in Nat
       PROVE  /\ PartsOf(Repeated(count, b), Repeated(count, write), count,
                         Repeated(count, Language[item]), Repeated(count, LengthOf[item]))
              /\ IsProducts(Power(b), Repeated(count, b), count)
  BY <1>4, <1>7, RepeatedParts
<1>14. ASSUME NEW i \in 0 .. N - 1, NEW d, Splits(n, b, i, d)
       PROVE  /\ IsWriting(Writing(n, i)) /\ Writing(n, i).panic = "none"
              /\ <<"count", Writing(n, i).out>> \in Language[n]
              /\ Len(Writing(n, i).out) = min + d
              /\ Writing(n, i).len = LengthAt(LengthOf, n, <<"count", Writing(n, i).out>>)
              /\ Writing(n, i).len \in Nat
  <2> DEFINE count == min + d
             x == CountSplit(b, min, i).index
             w == WriteParts(x, Repeated(count, b), Repeated(count, write))
  <2>1. /\ count \in min .. max /\ count \in Nat
        /\ x \in 0 .. MaxU /\ x < Power(b)[count] /\ Writing(n, i) = w
    BY <1>8, <1>14 DEF Splits, min, max, write, item
  <2> HIDE DEF x, count
  <2>2. AreWritten(w, x, Repeated(count, b), Repeated(count, write), count,
                   Repeated(count, Language[item]), Repeated(count, LengthOf[item]))
    BY <1>13, <2>1, PartsAreWritten
  <2>3. IsWriting(w)
    BY Writings
  <2> HIDE DEF w
  <2>4. /\ w.panic = "none" /\ w.len \in Nat
        /\ DOMAIN w.out = 1 .. count /\ w.out = [k \in 1 .. count |-> w.out[k]]
    BY <2>2 DEF AreWritten
  <2>5. \A k \in 1 .. count : w.out[k] \in Language[item]
    BY <2>2 DEF AreWritten, Repeated
  <2>6. w.out \in Seq(Language[item]) /\ Len(w.out) = count
    <3> DEFINE L == Language[item]
               o == w.out
    <3> HIDE DEF L, o
    <3>1. o = [k \in 1 .. count |-> o[k]] /\ \A k \in 1 .. count : o[k] \in L
      BY <2>4, <2>5 DEF o, L
    <3>2. o \in [1 .. count -> L]
      BY <3>1
    <3>3. o \in Seq(L) /\ Len(o) = count
      BY <2>1, <3>2
    <3> QED
      BY <3>3 DEF o, L
  <2>7. <<"count", w.out>> \in Language[n]
    BY <1>11, <2>1, <2>6
  <2>8. w.len = LengthAt(LengthOf, n, <<"count", w.out>>)
    <3>1. w.len = Total([k \in 1 .. count |-> Repeated(count, LengthOf[item])[k][w.out[k]]])
      BY <2>2 DEF AreWritten
    <3>2. [k \in 1 .. count |-> Repeated(count, LengthOf[item])[k][w.out[k]]]
          = [k \in DOMAIN w.out |-> LengthOf[item][w.out[k]]]
      BY <2>4 DEF Repeated
    <3> QED
      BY <1>12, <3>1, <3>2
  <2> QED
    BY <2>1, <2>3, <2>4, <2>6, <2>7, <2>8 DEF count
<1>15. ASSUME NEW i \in 0 .. N - 1, NEW j \in 0 .. N - 1, Writing(n, i).out = Writing(n, j).out
       PROVE  i = j
  <2>1. PICK d : Splits(n, b, i, d)
    BY <1>10
  <2>2. PICK c : Splits(n, b, j, c)
    BY <1>10
  <2>3. d \in Nat /\ c \in Nat
    BY <2>1, <2>2 DEF Splits
  <2>4. c = d
    <3>1. Len(Writing(n, i).out) = min + d
      BY <1>14, <2>1
    <3>2. Len(Writing(n, j).out) = min + c
      BY <1>14, <2>2
    <3>3. min + d = min + c
      BY <1>15, <3>1, <3>2
    <3> QED
      BY <1>8, <2>3, <3>3
  <2> DEFINE count == min + d
             x == CountSplit(b, min, i).index
             y == CountSplit(b, min, j).index
  <2>5. /\ count \in Nat /\ x \in 0 .. MaxU /\ x < Power(b)[count]
        /\ Writing(n, i) = WriteParts(x, Repeated(count, b), Repeated(count, write))
        /\ Turned(CountSplit(b, min, i), b, min, i, d)
    BY <1>8, <2>1 DEF Splits, min, max, write, item
  <2>6. /\ y \in 0 .. MaxU /\ y < Power(b)[count]
        /\ Writing(n, j) = WriteParts(y, Repeated(count, b), Repeated(count, write))
        /\ Turned(CountSplit(b, min, j), b, min, j, d)
    BY <1>8, <2>2, <2>4 DEF Splits, min, max, write, item
  <2>7. x + Turns(b, min)[d] = i /\ y + Turns(b, min)[d] = j
    BY <2>5, <2>6 DEF Turned
  <2> HIDE DEF x, y, count
  <2>8. x = y
    BY <1>13, <1>15, <2>5, <2>6, PartsDiffer
  <2> QED
    BY <2>7, <2>8
<1>16. n.kind = "count"
  OBVIOUS
<1>17. \A i \in 0 .. N - 1 :
          /\ IsWriting(Writing(n, i)) /\ Writing(n, i).panic = "none"
          /\ <<n.kind, Writing(n, i).out>> \in Language[n]
          /\ Writing(n, i).len = LengthAt(LengthOf, n, <<n.kind, Writing(n, i).out>>)
          /\ Writing(n, i).len \in Nat
  BY <1>10, <1>14, <1>16
<1> QED
  BY <1>5, <1>15, <1>17, EnumeratesIf DEF N

-----------------------------------------------------------------------------
(* What is written of words *)

(* Each word of a list is written for one index. *)
LEMMA WordWritten ==
    ASSUME ContextOfRun, NEW n \in Node, n.kind = "word", NodeSize(context)[n].panic = "none"
    PROVE  Enumerates(n, Write(context)[n], NodeSize(context)[n].n)
<1> DEFINE h == HashOf(context, n.hash)
           words == context.dict[h]
           N == NodeSize(context)[n].n
<1>1. NodeSize(context)[n] = WordSize(context, n.hash) /\ NodeSize(context)[n] \in Sizes
  BY SizeHere DEF SizeAt
<1>2. h \in DOMAIN context.dict /\ N = Len(words) /\ N \in 1 .. MaxU
  <2>1. N \in 1 .. MaxU
    BY <1>1, SizeIs
  <2> QED
    BY <1>1, <2>1, ContextIs, WordSizeIs
<1>3. /\ words \in Seq(Word) /\ ToSet(words) = NamedWords(n.hash)
      /\ \A i, j \in 1 .. Len(words) : words[i] = words[j] => i = j
  BY <1>2, ContextIs, NamedWordsAre DEF IsContext
<1>4. \A i : Writing(n, i) = IF i >= Len(words) THEN WritePanics("past the dictionary")
                             ELSE Written([word |-> words[i + 1], upper |-> n.upper], Len(words[i + 1]))
  <2>1. \A i : Writing(n, i) = WriteWord(context, n.hash, n.upper, i)
    BY DEF Writing, WriteAt
  <2> QED
    BY <2>1 DEF WriteWord
<1>5. Language[n] = {"word"} \X [word : NamedWords(n.hash), upper : {n.upper}]
  <2>1. Language[n] = LanguageAt(Language, n)
    BY LanguageIs
  <2>2. LanguageAt(Language, n) = {"word"} \X [word : NamedWords(n.hash), upper : {n.upper}]
    BY DEF LanguageAt
  <2> QED
    BY <2>1, <2>2
<1>6. \A d : LengthAt(LengthOf, n, <<"word", d>>) = Len(d.word)
  BY DEF LengthAt
<1>7. \A i \in 1 .. Len(words) : words[i] \in NamedWords(n.hash)
  BY <1>3 DEF ToSet
<1> HIDE DEF words, h, N
<1>8. ASSUME NEW i \in 0 .. N - 1
      PROVE  /\ i + 1 \in 1 .. Len(words)
             /\ Writing(n, i) = Written([word |-> words[i + 1], upper |-> n.upper], Len(words[i + 1]))
  <2>1. i + 1 \in 1 .. Len(words) /\ ~ (i >= Len(words))
    BY <1>2, WidthAssumption
  <2> QED
    BY <1>4, <2>1
<1>9. ASSUME NEW i \in 0 .. N - 1
      PROVE  /\ IsWriting(Writing(n, i)) /\ Writing(n, i).panic = "none"
             /\ <<n.kind, Writing(n, i).out>> \in Language[n]
             /\ Writing(n, i).len = LengthAt(LengthOf, n, <<n.kind, Writing(n, i).out>>)
             /\ Writing(n, i).len \in Nat
  <2> DEFINE d == [word |-> words[i + 1], upper |-> n.upper]
             w == Writing(n, i)
  <2>1. w = Written(d, Len(words[i + 1])) /\ words[i + 1] \in NamedWords(n.hash)
    BY <1>7, <1>8
  <2>2. d \in [word : NamedWords(n.hash), upper : {n.upper}] /\ d.word = words[i + 1]
    BY <2>1
  <2> HIDE DEF d, w
  <2>3. IsWriting(w) /\ w.panic = "none" /\ w.out = d /\ w.len = Len(words[i + 1])
    BY <2>1, Writings
  <2>4. <<"word", d>> \in Language[n]
    BY <1>5, <2>2
  <2>5. Len(words[i + 1]) \in Nat
    BY <1>3, <1>8 DEF Word
  <2> QED
    BY <1>6, <2>2, <2>3, <2>4, <2>5 DEF w
<1>10. ASSUME NEW i \in 0 .. N - 1, NEW j \in 0 .. N - 1, Writing(n, i).out = Writing(n, j).out
       PROVE  i = j
  <2>1. Writing(n, i).out = [word |-> words[i + 1], upper |-> n.upper]
    BY <1>8, Writings
  <2>2. Writing(n, j).out = [word |-> words[j + 1], upper |-> n.upper]
    BY <1>8, Writings
  <2>3. words[i + 1] = words[j + 1]
    <3>1. Writing(n, i).out.word = words[i + 1]
      BY <2>1
    <3>2. Writing(n, j).out.word = words[j + 1]
      BY <2>2
    <3> QED
      BY <1>10, <3>1, <3>2
  <2>4. i + 1 = j + 1
    BY <1>3, <1>8, <2>3
  <2> QED
    BY <2>4
<1> QED
  BY <1>2, <1>9, <1>10, EnumeratesIf DEF N

(* The words that the default list has, and what one of them is written as *)
WordAs(words, k, capital, x) == [word |-> words[x + 1], upper |-> k = capital]

WordParts(n, capital) ==
    [k \in 1 .. n.count |-> [x \in 0 .. MaxU |-> WriteNextWord(context, k, capital, n.sep, x)]]
WordLangs(n, capital) ==
    [k \in 1 .. n.count |-> [word : NamedWords(n.hash), upper : {k = capital}]]
WordLengths(n, capital) ==
    [k \in 1 .. n.count |-> [d \in [word : NamedWords(n.hash), upper : {k = capital}] |->
        IF k = 1 THEN Len(d.word) ELSE Len(d.word) + n.sep]]

(* A {words} that has a size and whose words are those of the default list *)
OwnWordList(n) ==
    /\ n \in Node /\ n.kind = "words"
    /\ HashOf(context, n.hash) = context.default
    /\ NodeSize(context)[n].panic = "none"

(* The words are parts, each with the size of the list that they are chosen *)
(* of.                                                                      *)
LEMMA WordPartsAre ==
    ASSUME ContextOfRun, NEW n, OwnWordList(n), NEW capital
    PROVE  LET W == WordSize(context, n.hash).n
           IN  /\ W \in 1 .. MaxU
               /\ PartsOf(Repeated(n.count, W), WordParts(n, capital), n.count,
                          WordLangs(n, capital), WordLengths(n, capital))
               /\ IsProducts(Power(W), Repeated(n.count, W), n.count)
               /\ n.count \in 1 .. MaxCount /\ n.sep \in Nat /\ n.upper \in BOOLEAN
               /\ NodeSize(context)[n].n
                  = IF n.upper THEN SatMul(Capped(W, n.count), n.count) ELSE Capped(W, n.count)
               /\ NodeSize(context)[n].n \in 1 .. MaxU
               /\ NamedWords(n.hash) \subseteq Word
               /\ AreReached(Repeated(n.count, W), WordParts(n, capital), n.count, WordLangs(n, capital))
<1> DEFINE W == WordSize(context, n.hash).n
           h == HashOf(context, n.hash)
           words == context.dict[h]
<1>1. NodeSize(context)[n] = WordsSize(context, n) /\ NodeSize(context)[n] \in Sizes
  BY SizeHere DEF SizeAt, OwnWordList
<1>2. n.count \in 0 .. MaxCount /\ n.upper \in BOOLEAN /\ n.sep \in Nat
  BY NodeIs DEF IsNode, OwnWordList
<1>3. /\ n.count \in 1 .. MaxCount /\ WordSize(context, n.hash).panic = "none" /\ W \in 1 .. MaxU
      /\ NodeSize(context)[n].n
         = IF n.upper THEN SatMul(Capped(W, n.count), n.count) ELSE Capped(W, n.count)
      /\ NodeSize(context)[n].n \in 1 .. MaxU
  <2>1. NodeSize(context)[n].panic = "none"
    BY DEF OwnWordList
  <2>2. NodeSize(context)[n].n \in 1 .. MaxU
    BY <1>1, <2>1, SizeIs
  <2> QED
    BY <1>1, <1>2, <2>1, <2>2, ContextIs, WordsSizeIs
<1>4. h \in DOMAIN context.dict /\ W = Len(words)
  BY <1>3, ContextIs, WordSizeIs
<1>5. /\ words \in Seq(Word) /\ ToSet(words) = NamedWords(n.hash)
      /\ \A i, j \in 1 .. Len(words) : words[i] = words[j] => i = j
  BY <1>4, ContextIs, NamedWordsAre DEF IsContext
<1>6. HashOf(context, NoHash) = h
  BY DEF HashOf, OwnWordList
<1>7. /\ \A x \in 1 .. Len(words) : words[x] \in NamedWords(n.hash)
      /\ NamedWords(n.hash) \subseteq Word
  <2>1. ToSet(words) = {words[x] : x \in 1 .. Len(words)} /\ \A x \in 1 .. Len(words) : words[x] \in Word
    BY <1>5 DEF ToSet
  <2> QED
    BY <1>5, <2>1
<1>8. \A k, x : WriteNextWord(context, k, capital, n.sep, x)
               = LET w == IF x >= Len(words) THEN WritePanics("past the dictionary")
                          ELSE Written(WordAs(words, k, capital, x), Len(words[x + 1]))
                 IN  IF k = 1 THEN w ELSE [w EXCEPT !.len = @ + n.sep]
  BY <1>6 DEF WriteNextWord, WriteWord, WordAs
<1> HIDE DEF W, h, words
<1>9. ASSUME NEW k \in 1 .. n.count, NEW x \in 0 .. W - 1
      PROVE  /\ x \in 0 .. MaxU /\ x + 1 \in 1 .. Len(words)
             /\ WriteNextWord(context, k, capital, n.sep, x).panic = "none"
             /\ WriteNextWord(context, k, capital, n.sep, x).out = WordAs(words, k, capital, x)
             /\ WriteNextWord(context, k, capital, n.sep, x).len
                = IF k = 1 THEN Len(words[x + 1]) ELSE Len(words[x + 1]) + n.sep
  <2>1. x \in 0 .. MaxU /\ x + 1 \in 1 .. Len(words) /\ ~ (x >= Len(words))
    BY <1>3, <1>4, WidthAssumption
  <2> DEFINE w == Written(WordAs(words, k, capital, x), Len(words[x + 1]))
  <2>2. WriteNextWord(context, k, capital, n.sep, x) = IF k = 1 THEN w ELSE [w EXCEPT !.len = @ + n.sep]
    BY <1>8, <2>1
  <2>3. w = [out |-> WordAs(words, k, capital, x), len |-> Len(words[x + 1]), panic |-> "none"]
    BY DEF Written
  <2> HIDE DEF w
  <2> QED
    BY <2>1, <2>2, <2>3
<1>10. PartsOf(Repeated(n.count, W), WordParts(n, capital), n.count,
               WordLangs(n, capital), WordLengths(n, capital))
  <2> DEFINE parts == WordParts(n, capital)
             langs == WordLangs(n, capital)
             lengths == WordLengths(n, capital)
  <2>1. n.count \in Nat
    BY <1>3, WidthAssumption
  <2>2. DOMAIN Repeated(n.count, W) = 1 .. n.count /\ Len(Repeated(n.count, W)) = n.count
    BY <2>1 DEF Repeated
  <2>3. ASSUME NEW k \in 1 .. n.count
        PROVE  /\ Repeated(n.count, W)[k] = W
               /\ \A x \in 0 .. MaxU : parts[k][x] = WriteNextWord(context, k, capital, n.sep, x)
               /\ langs[k] = [word : NamedWords(n.hash), upper : {k = capital}]
               /\ \A d \in langs[k] : lengths[k][d] = IF k = 1 THEN Len(d.word) ELSE Len(d.word) + n.sep
    BY DEF Repeated, WordParts, WordLangs, WordLengths
  <2> HIDE DEF parts, langs, lengths
  <2>4. ASSUME NEW k \in 1 .. n.count, NEW x \in 0 .. W - 1
        PROVE  /\ parts[k][x].panic = "none" /\ parts[k][x].out = WordAs(words, k, capital, x)
               /\ parts[k][x].out \in langs[k] /\ x + 1 \in 1 .. Len(words)
               /\ parts[k][x].len = lengths[k][parts[k][x].out] /\ parts[k][x].len \in Nat
    <3>1. parts[k][x] = WriteNextWord(context, k, capital, n.sep, x)
      BY <1>9, <2>3
    <3>2. words[x + 1] \in NamedWords(n.hash)
      BY <1>7, <1>9
    <3> DEFINE d == WordAs(words, k, capital, x)
    <3>3. d \in langs[k] /\ d.word = words[x + 1]
      BY <2>3, <3>2 DEF WordAs
    <3> HIDE DEF d
    <3>4. parts[k][x].out = d
      BY <1>9, <3>1 DEF d
    <3>5. parts[k][x].len \in Nat
      <4>1. words[x + 1] \in Word
        BY <1>7, <3>2
      <4>2. Len(words[x + 1]) \in Nat /\ Len(words[x + 1]) + n.sep \in Nat
        BY <1>2, <4>1 DEF Word
      <4> QED
        BY <1>9, <3>1, <4>2
    <3> QED
      BY <1>9, <2>3, <3>1, <3>3, <3>4, <3>5 DEF d
  <2>5. ASSUME NEW k \in 1 .. n.count, NEW x \in 0 .. W - 1, NEW y \in 0 .. W - 1,
               parts[k][x].out = parts[k][y].out
        PROVE  x = y
    <3>1. WordAs(words, k, capital, x) = WordAs(words, k, capital, y)
      BY <2>4, <2>5
    <3>2. words[x + 1] = words[y + 1]
      BY <3>1 DEF WordAs
    <3>3. x + 1 \in 1 .. Len(words) /\ y + 1 \in 1 .. Len(words)
      BY <2>4
    <3>4. x + 1 = y + 1
      BY <1>5, <3>2, <3>3
    <3> QED
      BY <3>4
  <2>6. \A k \in 1 .. n.count : Repeated(n.count, W)[k] = W
    BY <2>3
  <2>7. PartsOf(Repeated(n.count, W), parts, n.count, langs, lengths)
    BY <1>3, <2>2, <2>4, <2>5, <2>6 DEF PartsOf
  <2> QED
    BY <2>7 DEF parts, langs, lengths
<1>11. AreReached(Repeated(n.count, W), WordParts(n, capital), n.count, WordLangs(n, capital))
  <2> SUFFICES ASSUME NEW k \in 1 .. n.count, NEW d \in WordLangs(n, capital)[k]
               PROVE  \E x \in 0 .. Repeated(n.count, W)[k] - 1 : WordParts(n, capital)[k][x].out = d
    BY DEF AreReached
  <2>1. /\ Repeated(n.count, W)[k] = W
        /\ \A x \in 0 .. MaxU : WordParts(n, capital)[k][x] = WriteNextWord(context, k, capital, n.sep, x)
        /\ d \in [word : NamedWords(n.hash), upper : {k = capital}]
    BY DEF Repeated, WordParts, WordLangs
  <2>2. d.word \in NamedWords(n.hash) /\ d = [word |-> d.word, upper |-> k = capital]
    BY <2>1
  <2>3. PICK j \in 1 .. Len(words) : words[j] = d.word
    <3>1. ToSet(words) = {words[j] : j \in 1 .. Len(words)}
      BY <1>5 DEF ToSet
    <3> QED
      BY <1>5, <2>2, <3>1
  <2>4. j - 1 \in 0 .. W - 1 /\ (j - 1) + 1 = j
    BY <1>3, <1>4, WidthAssumption
  <2> DEFINE x == j - 1
  <2>5. x \in 0 .. W - 1 /\ x + 1 = j
    BY <2>4
  <2> HIDE DEF x
  <2>6. WordAs(words, k, capital, x) = d
    BY <2>2, <2>3, <2>5 DEF WordAs
  <2>7. WordParts(n, capital)[k][x].out = d
    BY <1>9, <2>1, <2>5, <2>6
  <2> QED
    BY <2>1, <2>5, <2>7
<1>12. IsProducts(Power(W), Repeated(n.count, W), n.count)
  <2>1. W \in Nat /\ n.count \in Nat
    BY <1>3, WidthAssumption
  <2>2. ASSUME NEW k \in 1 .. n.count
        PROVE  Power(W)[k] <= Power(W)[k - 1] * Repeated(n.count, W)[k]
    <3>1. k \in Nat /\ k # 0 /\ Repeated(n.count, W)[k] = W
      BY DEF Repeated
    <3>2. Power(W)[k] = Power(W)[k - 1] * W /\ Power(W)[k] \in Nat
      BY <2>1, <3>1, PowerNext
    <3> QED
      BY <3>1, <3>2
  <2>3. Power(W)[0] = 1 /\ \A k \in 0 .. n.count : Power(W)[k] \in Nat
    <3>1. Power(W)[0] = 1 /\ Power(W) \in [Nat -> Nat]
      BY <2>1, PowerIs
    <3>2. \A k \in 0 .. n.count : k \in Nat
      OBVIOUS
    <3> QED
      BY <3>1, <3>2
  <2> QED
    BY <2>2, <2>3 DEF IsProducts
<1> QED
  BY <1>2, <1>3, <1>7, <1>10, <1>12, <1>11 DEF W

(* What WriteWordsAt writes for an index that leaves nothing over *)
LEMMA WordsAtWritten ==
    ASSUME ContextOfRun, NEW n, OwnWordList(n), NEW capital, NEW i \in 0 .. MaxU,
           i < Power(WordSize(context, n.hash).n)[n.count]
    PROVE  LET w == WriteWordsAt(context, n, capital, i)
           IN  /\ IsWriting(w) /\ w.panic = "none"
               /\ w.out \in [1 .. n.count -> [word : NamedWords(n.hash), upper : BOOLEAN]]
               /\ \A k \in 1 .. n.count : w.out[k].upper = (k = capital)
               /\ w.len = Total([k \in 1 .. n.count |-> Len(w.out[k].word)]) + (n.count - 1) * n.sep
               /\ w.len \in Nat
<1> DEFINE W == WordSize(context, n.hash).n
           w == WriteWordsAt(context, n, capital, i)
           count == n.count
           sep == n.sep
           parts == WordParts(n, capital)
           langs == WordLangs(n, capital)
           lengths == WordLengths(n, capital)
           NW == NamedWords(n.hash)
<1>1. /\ PartsOf(Repeated(count, W), parts, count, langs, lengths)
      /\ IsProducts(Power(W), Repeated(count, W), count)
      /\ count \in 1 .. MaxCount /\ sep \in Nat /\ NW \subseteq Word
  BY WordPartsAre
<1>2. w = WriteParts(i, Repeated(count, W), parts)
  BY DEF WriteWordsAt, Repeated, WordParts
<1>3. i < Power(W)[count] /\ count \in Nat /\ count # 0
  BY <1>1, WidthAssumption
<1>4. \A k \in 1 .. count : langs[k] = [word : NW, upper : {k = capital}]
  BY DEF WordLangs
<1>5. \A k \in 1 .. count : \A d \in langs[k] :
         lengths[k][d] = IF k = 1 THEN Len(d.word) ELSE Len(d.word) + sep
  BY DEF WordLangs, WordLengths
<1> HIDE DEF W, parts, langs, lengths, count, sep, NW
<1>6. AreWritten(w, i, Repeated(count, W), parts, count, langs, lengths)
  <2> HIDE DEF w
  <2> QED
    BY <1>1, <1>2, <1>3, PartsAreWritten
<1>7. IsWriting(w)
  <2> HIDE DEF w
  <2> QED
    BY <1>2, Writings
<1> HIDE DEF w
<1>8. w.panic = "none" /\ w.out = [k \in 1 .. count |-> w.out[k]]
      /\ w.len = Total([k \in 1 .. count |-> lengths[k][w.out[k]]]) /\ w.len \in Nat
  BY <1>6 DEF AreWritten
<1>9. ASSUME NEW k \in 1 .. count
      PROVE  /\ w.out[k] \in [word : NW, upper : BOOLEAN] /\ w.out[k].upper = (k = capital)
             /\ w.out[k].word \in Word /\ Len(w.out[k].word) \in Nat
             /\ lengths[k][w.out[k]] = IF k = 1 THEN Len(w.out[k].word) ELSE Len(w.out[k].word) + sep
  <2> DEFINE d == w.out[k]
  <2>1. d \in langs[k]
    BY <1>6 DEF AreWritten
  <2> HIDE DEF d
  <2>2. d \in [word : NW, upper : {k = capital}]
    BY <1>4, <2>1
  <2>3. d.word \in NW /\ d.upper \in {k = capital} /\ d = [word |-> d.word, upper |-> d.upper]
    BY <2>2
  <2>4. d.upper = (k = capital) /\ d.upper \in BOOLEAN
    BY <2>3, Zenon
  <2>5. d \in [word : NW, upper : BOOLEAN]
    BY <2>3, <2>4
  <2>6. d.word \in Word /\ Len(d.word) \in Nat
    BY <1>1, <2>3 DEF Word
  <2> QED
    BY <1>5, <2>1, <2>4, <2>5, <2>6 DEF d
<1>10. w.out \in [1 .. count -> [word : NW, upper : BOOLEAN]]
  <2> DEFINE o == w.out
             R == [word : NW, upper : BOOLEAN]
  <2>1. o = [k \in 1 .. count |-> o[k]] /\ \A k \in 1 .. count : o[k] \in R
    BY <1>8, <1>9
  <2> HIDE DEF o, R
  <2>2. o \in [1 .. count -> R]
    BY <2>1
  <2> QED
    BY <2>2 DEF o, R
<1>11. w.len = Total([k \in 1 .. count |-> Len(w.out[k].word)]) + (count - 1) * sep
  <2> DEFINE a == [k \in 1 .. count |-> Len(w.out[k].word)]
             b == [k \in 1 .. count |-> lengths[k][w.out[k]]]
  <2>1. Len(a) = count /\ Len(b) = count /\ \A k \in 1 .. count : a[k] \in Nat
    BY <1>3, <1>9
  <2>2. \A k \in 1 .. count : b[k] = IF k = 1 THEN a[k] ELSE a[k] + sep
    BY <1>9
  <2> HIDE DEF a, b
  <2>3. Total(b) = Total(a) + (count - 1) * sep
    BY <1>1, <1>3, <2>1, <2>2, TotalWithSeparators
  <2> QED
    BY <1>8, <2>3 DEF a, b
<1> QED
  BY <1>7, <1>8, <1>9, <1>10, <1>11 DEF w, count, sep, NW

(* Two indexes that write the same words are one. *)
LEMMA WordsAtDiffer ==
    ASSUME ContextOfRun, NEW n, OwnWordList(n), NEW capital,
           NEW i \in 0 .. MaxU, i < Power(WordSize(context, n.hash).n)[n.count],
           NEW j \in 0 .. MaxU, j < Power(WordSize(context, n.hash).n)[n.count],
           WriteWordsAt(context, n, capital, i).out = WriteWordsAt(context, n, capital, j).out
    PROVE  i = j
<1> DEFINE W == WordSize(context, n.hash).n
           count == n.count
           parts == WordParts(n, capital)
           langs == WordLangs(n, capital)
           lengths == WordLengths(n, capital)
           bases == Repeated(count, W)
<1>1. /\ PartsOf(bases, parts, count, langs, lengths)
      /\ IsProducts(Power(W), bases, count) /\ count \in 1 .. MaxCount
  BY WordPartsAre
<1>2. \A x : WriteWordsAt(context, n, capital, x) = WriteParts(x, bases, parts)
  BY DEF WriteWordsAt, Repeated, WordParts
<1>3. i < Power(W)[count] /\ j < Power(W)[count] /\ count \in Nat
  BY <1>1, WidthAssumption
<1>4. WriteParts(i, bases, parts).out = WriteParts(j, bases, parts).out
  BY <1>2
<1> HIDE DEF W, count, parts, langs, lengths, bases
<1> QED
  BY <1>1, <1>3, <1>4, PartsDiffer

(* The choice of the capital, and what it leaves of the index *)
Capital(n, i) == IF n.upper THEN (i % n.count) + 1 ELSE 0
AfterCapital(n, i) == IF n.upper THEN i \div n.count ELSE i

(* The remainder chooses one of count capitals, and the quotient is an      *)
(* index of the words.                                                      *)
LEMMA CapitalIs ==
    ASSUME NEW count \in Nat \ {0}, NEW C \in Nat, NEW i \in Nat, i < C * count
    PROVE  /\ (i % count) + 1 \in 1 .. count /\ i \div count \in Nat
           /\ i \div count <= i /\ i \div count < C
<1> DEFINE x == i \div count
<1>1. i % count \in 0 .. count - 1 /\ x \in Nat /\ x <= i /\ i = x * count + (i % count)
  BY Division
<1> HIDE DEF x
<1>2. (i % count) + 1 \in 1 .. count
  BY <1>1
<1>3. x < C
  <2> SUFFICES ASSUME C <= x PROVE FALSE
    BY <1>1
  <2>1. C * count <= x * count
    BY <1>1, TimesRises
  <2>2. C * count \in Nat /\ x * count \in Nat
    BY <1>1, TimesIs
  <2> DEFINE u == C * count
             v == x * count
             r == i % count
  <2>3. u <= v /\ u \in Nat /\ v \in Nat /\ r \in Nat /\ i = v + r /\ i < u
    BY <1>1, <2>1, <2>2
  <2> HIDE DEF u, v, r
  <2> QED
    BY <2>3
<1> QED
  BY <1>1, <1>2, <1>3 DEF x

(* What Words::write_to makes of an index below the size *)
LEMMA CapitalOfWords ==
    ASSUME ContextOfRun, NEW n, OwnWordList(n), NEW i \in 0 .. NodeSize(context)[n].n - 1
    PROVE  /\ Writing(n, i) = WriteWordsAt(context, n, Capital(n, i), AfterCapital(n, i))
           /\ Capital(n, i) \in 0 .. n.count /\ (n.upper <=> Capital(n, i) \in 1 .. n.count)
           /\ AfterCapital(n, i) \in 0 .. MaxU
           /\ AfterCapital(n, i) < Power(WordSize(context, n.hash).n)[n.count]
<1> DEFINE W == WordSize(context, n.hash).n
           count == n.count
           N == NodeSize(context)[n].n
           C == Capped(W, count)
           p == Power(W)[count]
<1>1. /\ count \in 1 .. MaxCount /\ n.upper \in BOOLEAN /\ W \in 1 .. MaxU /\ N \in 1 .. MaxU
      /\ N = IF n.upper THEN SatMul(C, count) ELSE C
  BY WordPartsAre
<1>2. Writing(n, i) = WriteWordsAt(context, n, Capital(n, i), AfterCapital(n, i))
  <2>1. Writing(n, i) = WriteWords(context, n, i)
    BY DEF Writing, WriteAt, OwnWordList
  <2>2. n.count # 0
    BY <1>1
  <2> QED
    BY <2>1, <2>2 DEF WriteWords, Capital, AfterCapital
<1> HIDE DEF W, count, N
<1>3. /\ count \in Nat \ {0} /\ count \in 1 .. MaxU /\ W \in Nat /\ W # 0 /\ MaxU \in Nat
      /\ i \in Nat /\ i < N /\ i \in 0 .. MaxU
  <2>1. i \in 0 .. N - 1
    BY DEF N
  <2> QED
    BY <1>1, <2>1, WidthAssumption
<1>4. C \in 1 .. MaxU
  BY <1>3, CappedIs
<1>5. p \in Nat
  BY <1>3, PowerNext
<1>6. C <= p
  <2>1. C = AtMost(MaxU, p)
    BY DEF Capped
  <2> HIDE DEF C, p
  <2> QED
    BY <1>3, <1>5, <2>1, AtMostIs
<1> HIDE DEF C, p
<1>7. CASE n.upper
  <2>1. i < C * count
    <3>1. N <= C * count /\ C * count \in Nat
      BY <1>1, <1>3, <1>4, <1>7, SatMulIs
    <3> DEFINE u == C * count
    <3>2. N <= u /\ u \in Nat /\ N \in Nat
      BY <1>1, <1>3, <3>1
    <3> HIDE DEF u
    <3>3. i < u
      BY <1>3, <3>2
    <3> QED
      BY <3>3 DEF u
  <2>2. C \in Nat
    BY <1>3, <1>4
  <2>3. /\ (i % count) + 1 \in 1 .. count /\ i \div count \in Nat
        /\ i \div count <= i /\ i \div count < C
    BY <1>3, <2>1, <2>2, CapitalIs
  <2> DEFINE x == (i % count) + 1
             y == i \div count
  <2>4. Capital(n, i) = x /\ AfterCapital(n, i) = y
    BY <1>7 DEF Capital, AfterCapital, count
  <2>5. x \in 1 .. count /\ y \in Nat /\ y <= i /\ y < C
    BY <2>3
  <2> HIDE DEF x, y
  <2>6. x \in 0 .. count /\ y \in 0 .. MaxU /\ y < p
    BY <1>3, <1>4, <1>5, <1>6, <2>5
  <2> QED
    BY <1>2, <1>7, <2>4, <2>5, <2>6 DEF p, W, count
<1>8. CASE ~ n.upper
  <2>1. Capital(n, i) = 0 /\ AfterCapital(n, i) = i
    BY <1>8 DEF Capital, AfterCapital
  <2>2. i < C
    BY <1>1, <1>3, <1>8
  <2>3. i < p /\ 0 \in 0 .. count /\ ~ (0 \in 1 .. count)
    BY <1>3, <1>4, <1>5, <1>6, <2>2
  <2> QED
    BY <1>2, <1>3, <1>8, <2>1, <2>3 DEF p, W, count
<1> QED
  BY <1>7, <1>8

(* Each choice of words and of the one to capitalize is written for one     *)
(* index.                                                                   *)
LEMMA WordsWritten ==
    ASSUME ContextOfRun, NEW n, OwnWordList(n)
    PROVE  Enumerates(n, Write(context)[n], NodeSize(context)[n].n)
<1> DEFINE W == WordSize(context, n.hash).n
           N == NodeSize(context)[n].n
           NW == NamedWords(n.hash)
           R == [1 .. n.count -> [word : NW, upper : BOOLEAN]]
           capital(i) == Capital(n, i)
           rest(i) == AfterCapital(n, i)
<1>1. n \in Node /\ n.kind = "words" /\ N \in 1 .. MaxU /\ n.upper \in BOOLEAN
      /\ n.count \in Nat \ {0}
  <2>1. n.count \in 1 .. MaxCount /\ n.upper \in BOOLEAN /\ N \in 1 .. MaxU
    BY WordPartsAre
  <2> QED
    BY <2>1, WidthAssumption DEF OwnWordList
<1>2. Language[n] = {"words"} \X
          {d \in R : Cardinality({k \in 1 .. n.count : d[k].upper}) = (IF n.upper THEN 1 ELSE 0)}
  <2>1. Language[n] = LanguageAt(Language, n)
    BY <1>1, LanguageIs
  <2>2. LanguageAt(Language, n) = {"words"} \X
          {d \in R : Cardinality({k \in 1 .. n.count : d[k].upper}) = (IF n.upper THEN 1 ELSE 0)}
    BY <1>1 DEF LanguageAt
  <2> QED
    BY <2>1, <2>2
<1>3. \A d : LengthAt(LengthOf, n, <<"words", d>>)
             = Total([k \in DOMAIN d |-> Len(d[k].word)]) + (n.count - 1) * n.sep
  <2> SUFFICES ASSUME NEW d
               PROVE  LengthAt(LengthOf, n, <<"words", d>>)
                      = Total([k \in DOMAIN d |-> Len(d[k].word)]) + (n.count - 1) * n.sep
    OBVIOUS
  <2> DEFINE t == <<"words", d>>
  <2>1. LengthAt(LengthOf, n, t) = Total([k \in DOMAIN (t[2]) |-> Len(t[2][k].word)]) + (n.count - 1) * n.sep
    <3> HIDE DEF t
    <3> QED
      BY <1>1 DEF LengthAt
  <2>2. t[2] = d
    OBVIOUS
  <2> HIDE DEF t
  <2>3. LengthAt(LengthOf, n, t) = Total([k \in DOMAIN d |-> Len(d[k].word)]) + (n.count - 1) * n.sep
    BY <2>1, <2>2
  <2> QED
    BY <2>3 DEF t
<1>4. ASSUME NEW i \in 0 .. N - 1
      PROVE  /\ Writing(n, i) = WriteWordsAt(context, n, capital(i), rest(i))
             /\ capital(i) \in 0 .. n.count /\ (n.upper <=> capital(i) \in 1 .. n.count)
             /\ rest(i) \in 0 .. MaxU /\ rest(i) < Power(W)[n.count]
  BY CapitalOfWords
<1>5. ASSUME NEW i \in 0 .. N - 1
      PROVE  LET w == Writing(n, i)
             IN  /\ IsWriting(w) /\ w.panic = "none" /\ w.out \in R
                 /\ \A k \in 1 .. n.count : w.out[k].upper = (k = capital(i))
                 /\ w.len = Total([k \in 1 .. n.count |-> Len(w.out[k].word)]) + (n.count - 1) * n.sep
                 /\ w.len \in Nat
  <2> DEFINE w == WriteWordsAt(context, n, capital(i), rest(i))
  <2>1. /\ IsWriting(w) /\ w.panic = "none" /\ w.out \in R
        /\ \A k \in 1 .. n.count : w.out[k].upper = (k = capital(i))
        /\ w.len = Total([k \in 1 .. n.count |-> Len(w.out[k].word)]) + (n.count - 1) * n.sep
        /\ w.len \in Nat
    <3>1. rest(i) \in 0 .. MaxU /\ rest(i) < Power(W)[n.count]
      BY <1>4
    <3> HIDE DEF capital, rest
    <3> QED
      BY <3>1, WordsAtWritten
  <2>2. Writing(n, i) = w
    BY <1>4
  <2> HIDE DEF w, R, capital
  <2> QED
    BY <2>1, <2>2
<1>6. ASSUME NEW i \in 0 .. N - 1
      PROVE  /\ IsWriting(Writing(n, i)) /\ Writing(n, i).panic = "none"
             /\ <<n.kind, Writing(n, i).out>> \in Language[n]
             /\ Writing(n, i).len = LengthAt(LengthOf, n, <<n.kind, Writing(n, i).out>>)
             /\ Writing(n, i).len \in Nat
  <2> DEFINE w == Writing(n, i)
             o == w.out
             c == capital(i)
             ups == {k \in 1 .. n.count : o[k].upper}
  <2>1. /\ IsWriting(w) /\ w.panic = "none" /\ o \in R
        /\ \A k \in 1 .. n.count : o[k].upper = (k = c)
        /\ w.len = Total([k \in 1 .. n.count |-> Len(o[k].word)]) + (n.count - 1) * n.sep
        /\ w.len \in Nat
    BY <1>5
  <2>2. c \in 0 .. n.count /\ (n.upper <=> c \in 1 .. n.count)
    BY <1>4
  <2> HIDE DEF c, w, capital
  <2>3. Cardinality(ups) = (IF n.upper THEN 1 ELSE 0)
    <3>1. CASE n.upper
      <4>1. ups = {c}
        BY <2>1, <2>2, <3>1
      <4>2. Cardinality({c}) = 1
        BY FS_Singleton
      <4> HIDE DEF ups
      <4> QED
        BY <3>1, <4>1, <4>2
    <3>2. CASE ~ n.upper
      <4>1. ups = {}
        BY <2>1, <2>2, <3>2
      <4>2. Cardinality({}) = 0
        BY FS_EmptySet
      <4> HIDE DEF ups
      <4> QED
        BY <3>2, <4>1, <4>2
    <3> QED
      BY <3>1, <3>2
  <2>4. <<"words", o>> \in Language[n]
    <3> HIDE DEF o, R
    <3> QED
      BY <1>2, <2>1, <2>3
  <2>5. DOMAIN o = 1 .. n.count
    BY <2>1
  <2>6. w.len = LengthAt(LengthOf, n, <<"words", o>>)
    <3> HIDE DEF o
    <3> QED
      BY <1>3, <2>1, <2>5
  <2> QED
    BY <1>1, <2>1, <2>4, <2>6 DEF w
<1>7. ASSUME NEW i \in 0 .. N - 1, NEW j \in 0 .. N - 1, Writing(n, i).out = Writing(n, j).out
      PROVE  i = j
  <2> DEFINE o == Writing(n, i).out
  <2>1. /\ \A k \in 1 .. n.count : o[k].upper = (k = capital(i))
        /\ \A k \in 1 .. n.count : o[k].upper = (k = capital(j))
    BY <1>5, <1>7
  <2>2. /\ capital(i) \in 0 .. n.count /\ (n.upper <=> capital(i) \in 1 .. n.count)
        /\ capital(j) \in 0 .. n.count /\ (n.upper <=> capital(j) \in 1 .. n.count)
    BY <1>4
  <2>3. capital(i) = capital(j)
    <3> HIDE DEF capital, o
    <3>1. CASE n.upper
      BY <2>1, <2>2, <3>1
    <3>2. CASE ~ n.upper
      BY <1>1, <2>2, <3>2
    <3> QED
      BY <3>1, <3>2
  <2>4. /\ WriteWordsAt(context, n, capital(i), rest(i)).out
           = WriteWordsAt(context, n, capital(i), rest(j)).out
        /\ rest(i) \in 0 .. MaxU /\ rest(i) < Power(W)[n.count]
        /\ rest(j) \in 0 .. MaxU /\ rest(j) < Power(W)[n.count]
    <3> HIDE DEF capital, rest, o
    <3> QED
      BY <1>4, <1>7, <2>3
  <2>5. rest(i) = rest(j)
    <3> HIDE DEF capital, rest
    <3> QED
      BY <2>4, WordsAtDiffer
  <2>6. CASE n.upper
    <3>1. (i % n.count) + 1 = (j % n.count) + 1 /\ i \div n.count = j \div n.count
      BY <2>3, <2>5, <2>6 DEF Capital, AfterCapital
    <3>2. i \in Nat /\ j \in Nat
      BY <1>1, WidthAssumption
    <3>3. /\ i % n.count \in 0 .. n.count - 1 /\ i = (i \div n.count) * n.count + (i % n.count)
          /\ j % n.count \in 0 .. n.count - 1 /\ j = (j \div n.count) * n.count + (j % n.count)
      BY <1>1, <3>2, Division
    <3> DEFINE a == i % n.count
               b == j % n.count
    <3>4. a + 1 = b + 1 /\ a \in 0 .. n.count - 1 /\ b \in 0 .. n.count - 1
      BY <3>1, <3>3
    <3> HIDE DEF a, b
    <3>5. a = b
      BY <1>1, <3>4
    <3> QED
      BY <3>1, <3>3, <3>5 DEF a, b
  <2>7. CASE ~ n.upper
    BY <2>5, <2>7 DEF AfterCapital
  <2> QED
    BY <2>6, <2>7
<1> QED
  BY <1>1, <1>6, <1>7, EnumeratesIf

-----------------------------------------------------------------------------
(* What is written of a schema; products *)

(* What holds throughout a schema holds throughout its parts. *)
LEMMA PartsAreWithin ==
    ASSUME NEW n \in Node
    PROVE  n \in Within[n] /\ \A m \in Parts(n) : m \in Node /\ Within[m] \subseteq Within[n]
<1>1. Within[n] = {n} \cup UNION {Within[m] : m \in Parts(n)}
  <2> DEFINE at(m) == {m} \cup UNION {Within[x] : x \in Parts(m)}
  <2>1. Within = [m \in Node |-> at(m)]
    BY WithinIs
  <2> HIDE DEF at
  <2>2. Within[n] = at(n)
    BY <2>1
  <2> QED
    BY <2>2 DEF at
<1>2. \A m \in Parts(n) : m \in Node
  BY NodeIs
<1> QED
  BY <1>1, <1>2

(* A schema that is measured and takes its words from the default list is   *)
(* written: every index below its size writes a derivation of it, in full,  *)
(* and each another one.                                                    *)
LEMMA SchemaWritten ==
    ASSUME ContextOfRun, NEW n \in Node, OwnWords(n), NodeSize(context)[n].panic = "none"
    PROVE  Enumerates(n, Write(context)[n], NodeSize(context)[n].n)
<1> DEFINE Good(m) == NodeSize(context)[m].panic = "none" =>
                          Enumerates(m, Write(context)[m], NodeSize(context)[m].n)
           S == {m \in Node : OwnWords(m) => Good(m)}
<1>1. ASSUME NEW m \in Node, \A p \in Parts(m) : p \in S
      PROVE  m \in S
  <2> SUFFICES ASSUME OwnWords(m), NodeSize(context)[m].panic = "none"
               PROVE  Enumerates(m, Write(context)[m], NodeSize(context)[m].n)
    OBVIOUS
  <2>1. \A p \in Parts(m) : OwnWords(p)
    BY PartsAreWithin DEF OwnWords
  <2>2. \A p \in Parts(m) : NodeSize(context)[p].panic = "none" =>
            Enumerates(p, Write(context)[p], NodeSize(context)[p].n)
    BY <1>1, <2>1
  <2>3. CASE m.kind = "literal"
    BY <2>3, LiteralWritten
  <2>4. CASE m.kind = "chars"
    BY <2>4, CharsWritten
  <2>5. CASE m.kind = "list"
    BY <2>2, <2>5, ListWritten
  <2>6. CASE m.kind = "count"
    BY <2>2, <2>6, CountWritten
  <2>7. CASE m.kind = "word"
    BY <2>7, WordWritten
  <2>8. CASE m.kind = "words"
    <3>1. HashOf(context, m.hash) = context.default
      BY <2>8, PartsAreWithin DEF OwnWords
    <3> QED
      BY <2>8, <3>1, WordsWritten DEF OwnWordList
  <2>9. CASE m.kind = "unknown"
    <3>1. NodeSize(context)[m] = Panics("unknown generator")
      BY <2>9, SizeHere DEF SizeAt
    <3>2. Panics("unknown generator").panic # "none"
      BY DEF Panics
    <3> QED
      BY <3>1, <3>2
  <2>10. IsNode(m)
    BY NodeIs
  <2> QED
    BY <2>3, <2>4, <2>5, <2>6, <2>7, <2>8, <2>9, <2>10 DEF IsNode
<1>2. Node \subseteq S
  <2> HIDE DEF S
  <2> QED
    BY <1>1, TreeInduction
<1> QED
  BY <1>2

-----------------------------------------------------------------------------
(* How many derivations there are *)

IsProduct(p, m, numbers, n) ==
    /\ p[0] = 1
    /\ \A k \in 0 .. n : p[k] \in Nat
    /\ \A k \in 1 .. n : p[k] = AtMost(m, p[k - 1] * numbers[k])

(* The product is what its recursion says. *)
LEMMA ProductIs ==
    ASSUME NEW m \in Nat, NEW n \in Nat, NEW numbers, Len(numbers) = n,
           \A k \in 1 .. n : numbers[k] \in Nat
    PROVE  \E p : IsProduct(p, m, numbers, n) /\ Product(m, numbers) = p[n]
<1> DEFINE next(k, x) == AtMost(m, x * numbers[k])
           step == [k \in 1 .. n |-> [x \in Nat |-> next(k, x)]]
           product == CHOOSE g : g = [k \in 0 .. n |->
                          IF k = 0 THEN 1 ELSE AtMost(m, g[k - 1] * numbers[k])]
<1>1. n \in Nat /\ 1 \in Nat /\ \A k \in 1 .. n : numbers[k] \in Nat
  OBVIOUS
<1>2. ASSUME NEW k \in 1 .. n, NEW x \in Nat
      PROVE  next(k, x) \in Nat
  <2> DEFINE y == x * numbers[k]
  <2>1. y \in Nat
    BY <1>1, TimesIs
  <2> HIDE DEF y
  <2>2. AtMost(m, y) \in Nat
    BY <2>1, AtMostIs
  <2> QED
    BY <2>2 DEF y
<1>3. step \in [1 .. n -> [Nat -> Nat]]
  <2> HIDE DEF next
  <2> QED
    BY <1>2
<1>4. PICK f \in [0 .. n -> Nat] : IsIteration(f, 1, n, step)
  <2> HIDE DEF step
  <2> QED
    BY <1>1, <1>3, IterationExists, Zenon
<1>5. \A k \in 1 .. n : f[k] = next(k, f[k - 1])
  <2> SUFFICES ASSUME NEW k \in 1 .. n PROVE f[k] = next(k, f[k - 1])
    OBVIOUS
  <2>1. f[k] = step[k][f[k - 1]]
    <3> HIDE DEF step
    <3> QED
      BY <1>4 DEF IsIteration
  <2>2. f[k - 1] \in Nat
    <3>1. k - 1 \in 0 .. n
      OBVIOUS
    <3> QED
      BY <3>1
  <2> HIDE DEF next
  <2> QED
    BY <2>1, <2>2
<1>6. f[0] = 1
  <2> HIDE DEF step
  <2> QED
    BY <1>4 DEF IsIteration
<1>7. f = [k \in 0 .. n |-> IF k = 0 THEN 1 ELSE next(k, f[k - 1])]
  <2> HIDE DEF next
  <2>1. \A k \in 0 .. n : f[k] = IF k = 0 THEN 1 ELSE next(k, f[k - 1])
    BY <1>5, <1>6
  <2> QED
    BY <2>1
<1>8. product = [k \in 0 .. n |-> IF k = 0 THEN 1 ELSE next(k, product[k - 1])]
  BY <1>7
<1>9. Product(m, numbers) = product[n]
  BY DEF Product
<1> HIDE DEF product
<1>10. product[0] = 1 /\ \A k \in 1 .. n : product[k] = next(k, product[k - 1])
  <2> HIDE DEF next
  <2> QED
    BY <1>8
<1>11. product \in [0 .. n -> Nat]
  <2>1. product = [k \in 0 .. n |-> product[k]]
    BY <1>8
  <2>2. product[0] \in Nat /\ \A k \in 1 .. n : product[k - 1] \in Nat => product[k] \in Nat
    <3>1. product[0] \in Nat
      BY <1>10
    <3>2. ASSUME NEW k \in 1 .. n, product[k - 1] \in Nat
          PROVE  product[k] \in Nat
      <4>1. product[k] = next(k, product[k - 1])
        BY <1>10
      <4> HIDE DEF next
      <4>2. next(k, product[k - 1]) \in Nat
        BY <1>2, <3>2
      <4> QED
        BY <4>1, <4>2
    <3> QED
      BY <3>1, <3>2
  <2> QED
    BY <1>1, <2>1, <2>2, IterationType, Zenon
<1>12. IsProduct(product, m, numbers, n)
  BY <1>10, <1>11 DEF IsProduct
<1> QED
  BY <1>9, <1>12

(* A list of sizes that saturate has the product of the numbers, saturated. *)
LEMMA ProductsSaturate ==
    ASSUME NEW n \in Nat, NEW sizes, NEW q, Multiplied(q, sizes, n),
           NEW numbers, NEW p, IsProduct(p, MaxU + 1, numbers, n),
           \A k \in 1 .. n : numbers[k] \in Nat /\ sizes[k].n = AtMost(MaxU, numbers[k])
    PROVE  q[n] = AtMost(MaxU, p[n])
<1> DEFINE S == {k \in 0 .. n : q[k] = AtMost(MaxU, p[k])}
<1>1. MaxU \in Nat /\ MaxU # 0 /\ MaxU + 1 \in Nat /\ MaxU >= 1
  BY WidthAssumption
<1>2. 0 \in S
  <2>1. q[0] = 1 /\ p[0] = 1
    BY DEF Multiplied, IsProduct
  <2>2. AtMost(MaxU, 1) = 1
    BY <1>1 DEF AtMost
  <2> QED
    BY <2>1, <2>2
<1>3. ASSUME NEW k \in 1 .. n, k - 1 \in S
      PROVE  k \in S
  <2> DEFINE x == p[k - 1]
             y == numbers[k]
             z == x * y
  <2>1. x \in Nat /\ y \in Nat /\ k - 1 \in 0 .. n /\ k \in 0 .. n
    <3>1. k - 1 \in 0 .. n
      OBVIOUS
    <3> QED
      BY <3>1 DEF IsProduct
  <2>2. q[k] = AtMost(MaxU, AtMost(MaxU, x) * AtMost(MaxU, y))
    <3>1. q[k] = SatMul(q[k - 1], sizes[k].n) /\ sizes[k].n = AtMost(MaxU, y)
      BY DEF Multiplied
    <3>2. q[k - 1] = AtMost(MaxU, x)
      BY <1>3
    <3> QED
      BY <3>1, <3>2 DEF SatMul
  <2>3. p[k] = AtMost(MaxU + 1, z)
    BY DEF IsProduct
  <2> HIDE DEF x, y
  <2>4. z \in Nat /\ q[k] = AtMost(MaxU, z)
    BY <1>1, <2>1, <2>2, TimesIs, AtMostTimes
  <2> HIDE DEF z
  <2>5. AtMost(MaxU, AtMost(MaxU + 1, z)) = AtMost(MaxU, z)
    BY <1>1, <2>4, AtMostIs
  <2> QED
    BY <2>1, <2>3, <2>4, <2>5
<1>4. 0 .. n \subseteq S
  <2> HIDE DEF S
  <2> QED
    BY <1>2, <1>3, IntervalInduction
<1>5. n \in 0 .. n
  OBVIOUS
<1> QED
  BY <1>4, <1>5

(* Where no power saturates, what the loop of Count takes is their sum. *)
LEMMA TurnsAreTheSum ==
    ASSUME NEW b \in Nat, b # 0, NEW max \in Nat, NEW min \in 0 .. max, Power(b)[max] <= MaxU
    PROVE  Turns(b, min)[max - min + 1]
           = Total([k \in 1 .. max - min + 1 |-> Powers(MaxU + 1, b)[min + k - 1]])
<1> DEFINE e == max - min + 1
           a == [k \in 1 .. e |-> Powers(MaxU + 1, b)[min + k - 1]]
           s == Sums(a)
           t == Turns(b, min)
<1>1. e \in Nat /\ min \in Nat /\ MaxU \in Nat /\ MaxU + 1 \in Nat \ {0}
  BY WidthAssumption
<1>2. ASSUME NEW d \in Nat, d < e
      PROVE  /\ d + 1 \in 1 .. e /\ a[d + 1] = Capped(b, min + d) /\ a[d + 1] \in Nat
  <2>1. d + 1 \in 1 .. e /\ min + (d + 1) - 1 = min + d /\ min + d \in Nat /\ min + d <= max
    <3>1. d + 1 \in 1 .. e
      <4> HIDE DEF e
      <4> QED
        BY <1>1, <1>2
    <3>2. min + (d + 1) - 1 = min + d /\ min + d \in Nat
      BY <1>1
    <3>3. min + d <= max
      BY <1>1, <1>2
    <3> QED
      BY <3>1, <3>2, <3>3
  <2> DEFINE p == Power(b)[min + d]
             r == Power(b)[max]
  <2>2. p \in Nat /\ r \in Nat /\ p <= r
    BY <2>1, PowerNext, PowerRises
  <2>3. a[d + 1] = Powers(MaxU + 1, b)[min + d]
    BY <2>1
  <2>4. Powers(MaxU + 1, b)[min + d] = AtMost(MaxU + 1, p)
    BY <1>1, <2>1, PowersIs
  <2>5. Capped(b, min + d) = AtMost(MaxU, p)
    BY DEF Capped
  <2>6. p <= MaxU /\ p \in Nat
    <3> HIDE DEF p
    <3>1. r <= MaxU
      OBVIOUS
    <3> HIDE DEF r
    <3> QED
      BY <1>1, <2>2, <3>1
  <2> HIDE DEF p, r, a
  <2>7. AtMost(MaxU + 1, p) = p /\ AtMost(MaxU, p) = p
    BY <1>1, <2>6 DEF AtMost
  <2> QED
    BY <2>1, <2>3, <2>4, <2>5, <2>6, <2>7
<1>3. Len(a) = e
  BY <1>1
<1>4. \A k \in 1 .. e : a[k] \in Nat
  <2> SUFFICES ASSUME NEW k \in 1 .. e PROVE a[k] \in Nat
    OBVIOUS
  <2>1. PICK d \in Nat : k = d + 1 /\ d < e
    <3>1. k - 1 \in Nat /\ k = (k - 1) + 1 /\ k - 1 < e
      BY <1>1
    <3> QED
      BY <3>1
  <2> HIDE DEF a
  <2> QED
    BY <1>2, <2>1
<1> HIDE DEF a, e
<1>5. IsSums(s, a) /\ Total(a) = s[e]
  BY <1>1, <1>3, <1>4, TotalIs
<1> DEFINE S == {k \in 0 .. e : t[k] = s[k]}
<1>6. 0 \in S
  <2>1. t[0] = 0
    BY <1>1, TurnsAre
  <2>2. s[0] = 0
    BY <1>5 DEF IsSums
  <2> HIDE DEF s, t
  <2> QED
    BY <1>1, <2>1, <2>2
<1>7. ASSUME NEW k \in 1 .. e, k - 1 \in S
      PROVE  k \in S
  <2>1. PICK d \in Nat : k = d + 1 /\ d < e /\ k - 1 = d
    <3>1. k - 1 \in Nat /\ k = (k - 1) + 1 /\ k - 1 < e
      BY <1>1
    <3> QED
      BY <3>1
  <2>2. t[d + 1] = t[d] + Capped(b, min + d)
    BY <1>1, TurnsAre
  <2>3. s[k] = s[k - 1] + a[k]
    BY <1>3, <1>5 DEF IsSums
  <2>4. a[d + 1] = Capped(b, min + d)
    BY <1>2, <2>1
  <2> HIDE DEF s, t
  <2>5. t[d] = s[d]
    BY <1>7, <2>1
  <2>6. t[k] = s[k]
    BY <2>1, <2>2, <2>3, <2>4, <2>5
  <2> QED
    BY <2>6
<1>8. 0 .. e \subseteq S
  <2> HIDE DEF S
  <2> QED
    BY <1>1, <1>6, <1>7, IntervalInduction
<1>9. t[e] = s[e]
  <2>1. e \in 0 .. e
    BY <1>1
  <2> QED
    BY <1>8, <2>1
<1> QED
  BY <1>5, <1>9 DEF e, a

-----------------------------------------------------------------------------
(* How many derivations there are *)

(* The number of derivations, by those of the parts *)
LEMMA NumberHere ==
    ASSUME NEW n \in Node
    PROVE  NumberOf[n] = NumberAt(NumberOf, n)
<1>1. NumberOf = [m \in Node |-> NumberAt(NumberOf, m)]
  BY NumberOfIs
<1> DEFINE number == NumberOf
<1> HIDE DEF number
<1>2. number = [m \in Node |-> NumberAt(number, m)]
  BY <1>1 DEF number
<1>3. number[n] = NumberAt(number, n)
  BY <1>2
<1> QED
  BY <1>3 DEF number

(* The size of n is the number of its derivations, saturated. *)
Counted(n) ==
    NumberOf[n] \in Nat /\ NodeSize(context)[n].n = AtMost(MaxU, NumberOf[n])

(* The size of a list counts its derivations if those of the items do. *)
LEMMA ListCounted ==
    ASSUME ContextOfRun, NEW n \in Node, n.kind = "list", NodeSize(context)[n].panic = "none",
           \A m \in Parts(n) : NodeSize(context)[m].panic = "none" => Counted(m)
    PROVE  Counted(n)
<1> DEFINE m == Len(n.items)
           sizes == [k \in DOMAIN n.items |-> NodeSize(context)[n.items[k]]]
           numbers == [k \in DOMAIN n.items |-> NumberOf[n.items[k]]]
           N == NodeSize(context)[n].n
<1>1. DOMAIN n.items = 1 .. m /\ m \in Nat /\ \A k \in 1 .. m : n.items[k] \in Parts(n)
  BY NodeIs DEF IsNode
<1>2. \A k \in 1 .. m : n.items[k] \in Node
  BY <1>1, NodeIs
<1>3. Len(sizes) = m /\ \A k \in 1 .. m : sizes[k] \in Sizes
  BY <1>1, <1>2, SizeHere
<1>4. NodeSize(context)[n] = ListSize(sizes)
  BY SizeHere DEF SizeAt
<1>5. PICK q : Multiplied(q, sizes, m) /\ N = q[m]
  <2> HIDE DEF sizes, m
  <2> QED
    BY <1>1, <1>3, <1>4, ListSizeIs
<1>6. Len(numbers) = m /\ \A k \in 1 .. m : numbers[k] = NumberOf[n.items[k]] /\ sizes[k] = NodeSize(context)[n.items[k]]
  BY <1>1
<1>7. NumberOf[n] = Product(MaxU + 1, numbers)
  BY NumberHere DEF NumberAt
<1> HIDE DEF m, sizes, numbers, N
<1>8. \A k \in 1 .. m : numbers[k] \in Nat /\ sizes[k].n = AtMost(MaxU, numbers[k])
  <2> SUFFICES ASSUME NEW k \in 1 .. m PROVE Counted(n.items[k])
    BY <1>6 DEF Counted
  <2>1. sizes[k].panic = "none"
    BY <1>5 DEF Multiplied
  <2> QED
    BY <1>1, <1>6, <2>1
<1>9. MaxU + 1 \in Nat
  BY WidthAssumption
<1>10. PICK p : IsProduct(p, MaxU + 1, numbers, m) /\ Product(MaxU + 1, numbers) = p[m]
  BY <1>1, <1>6, <1>8, <1>9, ProductIs
<1>11. q[m] = AtMost(MaxU, p[m])
  BY <1>1, <1>5, <1>8, <1>10, ProductsSaturate
<1>12. p[m] \in Nat
  <2>1. m \in 0 .. m
    BY <1>1
  <2> QED
    BY <1>10, <2>1 DEF IsProduct
<1> QED
  BY <1>5, <1>7, <1>10, <1>11, <1>12 DEF Counted, N

(* A count whose closed form does not saturate has what its loop takes.     *)
LEMMA CountFits ==
    ASSUME ContextOfRun, NEW n \in Node, n.kind = "count", NodeSize(context)[n].panic = "none",
           \A m \in Parts(n) : NodeSize(context)[m].panic = "none" => Counted(m),
           Powers(MaxU + 1, NumberOf[n.item])[n.max + 1] <= MaxU
    PROVE  LET b == NumberOf[n.item]
           IN  /\ n.item \in Parts(n) /\ n.item \in Node /\ NodeSize(context)[n.item].panic = "none"
               /\ NodeSize(context)[n.item].n = b /\ b \in 1 .. MaxU
               /\ n.max \in 0 .. MaxCount /\ n.max \in Nat /\ n.min \in 0 .. n.max
               /\ Power(b)[n.max + 1] <= MaxU
               /\ NodeSize(context)[n].n = Turns(b, n.min)[n.max - n.min + 1]
               /\ NodeSize(context)[n].n \in 1 .. MaxU
<1> DEFINE item == n.item
           min == n.min
           max == n.max
           of == NodeSize(context)[item]
           b == of.n
           B == NumberOf[item]
           N == NodeSize(context)[n].n
<1>1. item \in Parts(n) /\ item \in Node /\ max \in 0 .. MaxCount /\ min \in 0 .. max
  BY NodeIs DEF IsNode
<1>2. NodeSize(context)[n] = Then(of, CountSize(b, min, max)) /\ NodeSize(context)[n] \in Sizes
  BY SizeHere DEF SizeAt
<1>3. of.panic = "none" /\ NodeSize(context)[n] = CountSize(b, min, max)
  <2> HIDE DEF of, b
  <2> QED
    BY <1>2, SizeIs
<1>4. b \in 1 .. MaxU
  BY <1>1, <1>3, SizeHere, SizeIs
<1>5. N \in 1 .. MaxU
  BY <1>2, SizeIs
<1>6. B \in Nat /\ b = AtMost(MaxU, B)
  BY <1>1, <1>3 DEF Counted
<1>7. Powers(MaxU + 1, B)[max + 1] <= MaxU
  OBVIOUS
<1> HIDE DEF item, min, max, of, b, B
<1>9. MaxU \in Nat /\ max \in Nat /\ min \in 0 .. max /\ max + 1 \in Nat /\ MaxU + 1 \in Nat \ {0} /\ b \in Nat
  BY <1>1, <1>4, WidthAssumption
<1> DEFINE p == Power(B)[max]
           r == Power(B)[max + 1]
<1>10. B # 0
  <2> SUFFICES ASSUME B = 0 PROVE FALSE
    OBVIOUS
  <2>1. b = 0
    BY <1>6, <1>9 DEF AtMost
  <2> QED
    BY <1>4, <2>1
<1>11. p \in Nat /\ r \in Nat /\ B <= r /\ p <= r
  <2>1. Power(B)[1] = B
    <3>1. PICK z \in Nat : z = 0
      OBVIOUS
    <3>2. Power(B)[z + 1] = Power(B)[z] * B /\ Power(B)[0] = 1
      BY <1>6, PowerNext
    <3> QED
      BY <1>6, <3>1, <3>2
  <2>2. p \in Nat /\ r \in Nat
    BY <1>6, <1>9, PowerNext
  <2>3. 1 <= max + 1 /\ max <= max + 1 /\ 1 \in Nat
    BY <1>9
  <2>4. Power(B)[1] <= r
    BY <1>6, <1>9, <1>10, <2>3, PowerRises
  <2>5. p <= r
    BY <1>6, <1>9, <1>10, <2>3, PowerRises
  <2> QED
    BY <2>1, <2>2, <2>4, <2>5
<1>12. r <= MaxU
  <2>1. Powers(MaxU + 1, B)[max + 1] = AtMost(MaxU + 1, r)
    BY <1>6, <1>9, PowersIs
  <2> HIDE DEF r
  <2>2. AtMost(MaxU + 1, r) <= MaxU
    BY <1>7, <2>1
  <2> QED
    BY <1>9, <1>11, <2>2 DEF AtMost
<1>13. b = B
  <2> HIDE DEF p, r
  <2>1. B <= MaxU
    BY <1>6, <1>9, <1>11, <1>12
  <2> QED
    BY <1>6, <1>9, <2>1 DEF AtMost
<1>14. N = Turns(b, min)[max - min + 1]
  <2>1. Power(b)[max + 1] <= MaxU
    BY <1>12, <1>13
  <2>2. CountSize(b, min, max).panic = "none"
    BY <1>3
  <2>3. CountSize(b, min, max).n = Turns(b, min)[max - min + 1]
    BY <1>1, <1>4, <2>1, <2>2, CountSizeIs
  <2> QED
    BY <1>3, <2>3
<1>15. Power(B)[max + 1] <= MaxU /\ B \in 1 .. MaxU
  BY <1>4, <1>12, <1>13
<1> HIDE DEF p, r, N
<1>16. /\ item \in Parts(n) /\ item \in Node /\ of.panic = "none" /\ b = B /\ B \in 1 .. MaxU
       /\ max \in 0 .. MaxCount /\ max \in Nat /\ min \in 0 .. max
       /\ Power(B)[max + 1] <= MaxU /\ N = Turns(B, min)[max - min + 1] /\ N \in 1 .. MaxU
  BY <1>1, <1>3, <1>5, <1>9, <1>13, <1>14, <1>15
<1> QED
  BY <1>16 DEF item, min, max, of, b, B, N

(* The size of such a count counts its derivations. *)
LEMMA CountCounted ==
    ASSUME ContextOfRun, NEW n \in Node, n.kind = "count", NodeSize(context)[n].panic = "none",
           \A m \in Parts(n) : NodeSize(context)[m].panic = "none" => Counted(m),
           Powers(MaxU + 1, NumberOf[n.item])[n.max + 1] <= MaxU
    PROVE  Counted(n)
<1> DEFINE min == n.min
           max == n.max
           B == NumberOf[n.item]
           N == NodeSize(context)[n].n
           total == Total([k \in 1 .. max - min + 1 |-> Powers(MaxU + 1, B)[min + k - 1]])
<1>1. /\ B \in 1 .. MaxU /\ max \in Nat /\ min \in 0 .. max
      /\ Power(B)[max + 1] <= MaxU /\ N = Turns(B, min)[max - min + 1] /\ N \in 1 .. MaxU
  BY CountFits
<1>2. NumberOf[n] = AtMost(MaxU + 1, total)
  BY NumberHere DEF NumberAt
<1> HIDE DEF min, max, B
<1>3. MaxU \in Nat /\ MaxU + 1 \in Nat /\ B \in Nat /\ B # 0 /\ max + 1 \in Nat /\ max <= max + 1
  BY <1>1, WidthAssumption
<1>4. Power(B)[max] <= MaxU
  <2> DEFINE p == Power(B)[max]
             r == Power(B)[max + 1]
  <2>1. p \in Nat /\ r \in Nat
    BY <1>1, <1>3, PowerNext
  <2>2. p <= r /\ r <= MaxU
    BY <1>1, <1>3, PowerRises
  <2> HIDE DEF p, r
  <2>3. p <= MaxU
    BY <1>3, <2>1, <2>2
  <2> QED
    BY <2>3 DEF p
<1>5. Turns(B, min)[max - min + 1] = total
  <2> HIDE DEF total
  <2> QED
    BY <1>1, <1>3, <1>4, TurnsAreTheSum DEF total
<1> HIDE DEF total, N
<1>6. N = total
  BY <1>1, <1>5
<1>7. AtMost(MaxU + 1, total) = total /\ AtMost(MaxU, total) = total
  BY <1>1, <1>3, <1>6 DEF AtMost
<1>8. NumberOf[n] = N /\ AtMost(MaxU, N) = N /\ N \in Nat
  BY <1>1, <1>2, <1>3, <1>6, <1>7
<1> QED
  BY <1>8 DEF Counted, N

(* So does that of a word, *)
LEMMA WordCounted ==
    ASSUME ContextOfRun, NEW n \in Node, n.kind = "word", NodeSize(context)[n].panic = "none"
    PROVE  Counted(n)
<1> DEFINE h == HashOf(context, n.hash)
           N == NodeSize(context)[n].n
<1>1. NodeSize(context)[n] = WordSize(context, n.hash) /\ NodeSize(context)[n] \in Sizes
  BY SizeHere DEF SizeAt
<1>2. N \in 1 .. MaxU
  BY <1>1, SizeIs
<1>3. h \in DOMAIN context.dict /\ N = Len(context.dict[h])
  BY <1>1, ContextIs, WordSizeIs
<1>4. N = Cardinality(NamedWords(n.hash))
  BY <1>3, NamedWordsAre
<1>5. NumberOf[n] = N
  BY <1>4, NumberHere DEF NumberAt
<1> HIDE DEF N
<1>6. N \in Nat /\ AtMost(MaxU, N) = N
  BY <1>2, WidthAssumption DEF AtMost
<1> QED
  BY <1>5, <1>6 DEF Counted, N

(* and that of words. *)
LEMMA WordsCounted ==
    ASSUME ContextOfRun, NEW n \in Node, n.kind = "words", NodeSize(context)[n].panic = "none"
    PROVE  Counted(n)
<1> DEFINE W == WordSize(context, n.hash).n
           h == HashOf(context, n.hash)
           count == n.count
           N == NodeSize(context)[n].n
           p == Power(W)[count]
           lists == Powers(MaxU + 1, W)[count]
<1>1. NodeSize(context)[n] = WordsSize(context, n) /\ count \in 0 .. MaxCount
  BY SizeHere, NodeIs DEF SizeAt, IsNode
<1>2. /\ count \in 1 .. MaxCount /\ WordSize(context, n.hash).panic = "none" /\ W \in 1 .. MaxU
      /\ N = IF n.upper THEN SatMul(Capped(W, count), count) ELSE Capped(W, count)
  BY <1>1, ContextIs, WordsSizeIs
<1>3. h \in DOMAIN context.dict /\ W = Len(context.dict[h])
  BY <1>2, ContextIs, WordSizeIs
<1>4. W = Cardinality(NamedWords(n.hash))
  BY <1>3, NamedWordsAre
<1>5. NumberOf[n] = IF n.upper THEN AtMost(MaxU + 1, lists * count) ELSE lists
  <2>1. NumberAt(NumberOf, n)
        = LET all == Powers(MaxU + 1, Cardinality(NamedWords(n.hash)))[n.count]
          IN  IF n.upper THEN AtMost(MaxU + 1, all * n.count) ELSE all
    BY DEF NumberAt
  <2> QED
    BY <1>4, <2>1, NumberHere
<1> HIDE DEF W, h, N, count
<1>6. MaxU \in Nat /\ MaxU + 1 \in Nat \ {0} /\ W \in Nat /\ count \in Nat
  BY <1>2, WidthAssumption
<1>7. p \in Nat /\ lists = AtMost(MaxU + 1, p) /\ Capped(W, count) = AtMost(MaxU, p)
  BY <1>6, PowerNext, PowersIs DEF Capped
<1> HIDE DEF p, lists
<1>8. lists \in Nat /\ AtMost(MaxU, lists) = AtMost(MaxU, p)
  BY <1>6, <1>7, AtMostIs
<1>9. CASE n.upper
  <2> DEFINE z == lists * count
  <2>1. AtMost(MaxU, AtMost(MaxU, p) * count) = AtMost(MaxU, z)
    <3>1. AtMost(MaxU, AtMost(MaxU, lists) * count) = AtMost(MaxU, z)
      BY <1>6, <1>8, AtMostTimes
    <3> HIDE DEF z
    <3> QED
      BY <1>8, <3>1, Zenon
  <2>2. N = AtMost(MaxU, z)
    <3>1. N = SatMul(AtMost(MaxU, p), count)
      BY <1>2, <1>7, <1>9
    <3> HIDE DEF z
    <3> QED
      BY <2>1, <3>1, Zenon DEF SatMul
  <2>3. NumberOf[n] = AtMost(MaxU + 1, z) /\ z \in Nat
    BY <1>5, <1>6, <1>8, <1>9, TimesIs
  <2> HIDE DEF z
  <2>4. AtMost(MaxU, AtMost(MaxU + 1, z)) = AtMost(MaxU, z) /\ AtMost(MaxU + 1, z) \in Nat
    BY <1>6, <2>3, AtMostIs
  <2> QED
    BY <2>2, <2>3, <2>4 DEF Counted, N
<1>10. CASE ~ n.upper
  BY <1>2, <1>5, <1>7, <1>8, <1>10 DEF Counted, N
<1> QED
  BY <1>9, <1>10

(* The size of a schema is the number of its derivations, saturated. *)
LEMMA SchemaCounted ==
    ASSUME ContextOfRun, NEW n \in Node, Fits(n), NodeSize(context)[n].panic = "none"
    PROVE  Counted(n)
<1> DEFINE Good(m) == NodeSize(context)[m].panic = "none" => Counted(m)
           S == {m \in Node : Fits(m) => Good(m)}
<1>1. ASSUME NEW m \in Node, \A p \in Parts(m) : p \in S
      PROVE  m \in S
  <2> SUFFICES ASSUME Fits(m), NodeSize(context)[m].panic = "none" PROVE Counted(m)
    OBVIOUS
  <2>1. \A p \in Parts(m) : Fits(p)
    BY PartsAreWithin DEF Fits
  <2>2. \A p \in Parts(m) : NodeSize(context)[p].panic = "none" => Counted(p)
    BY <1>1, <2>1
  <2>3. CASE m.kind = "literal"
    <3>1. NodeSize(context)[m] = Size(1)
      BY <2>3, SizeHere DEF SizeAt
    <3>2. NumberOf[m] = 1
      BY <2>3, NumberHere DEF NumberAt
    <3>3. AtMost(MaxU, 1) = 1 /\ Size(1).n = 1
      BY WidthAssumption DEF AtMost, Size
    <3> QED
      BY <3>1, <3>2, <3>3 DEF Counted
  <2>4. CASE m.kind = "chars"
    <3>1. NodeSize(context)[m] = Size(m.size)
      BY <2>4, SizeHere DEF SizeAt
    <3>2. NumberOf[m] = m.size
      BY <2>4, NumberHere DEF NumberAt
    <3>3. m.size \in 1 .. MaxU
      BY <2>4, NodeIs DEF IsNode
    <3>4. AtMost(MaxU, m.size) = m.size /\ m.size \in Nat /\ Size(m.size).n = m.size
      BY <3>3, WidthAssumption DEF AtMost, Size
    <3> QED
      BY <3>1, <3>2, <3>4 DEF Counted
  <2>5. CASE m.kind = "list"
    BY <2>2, <2>5, ListCounted
  <2>6. CASE m.kind = "count"
    <3>1. Powers(MaxU + 1, NumberOf[m.item])[m.max + 1] <= MaxU
      BY <2>6, PartsAreWithin DEF Fits
    <3> QED
      BY <2>2, <2>6, <3>1, CountCounted
  <2>7. CASE m.kind = "word"
    BY <2>7, WordCounted
  <2>8. CASE m.kind = "words"
    BY <2>8, WordsCounted
  <2>9. CASE m.kind = "unknown"
    <3>1. NodeSize(context)[m] = Panics("unknown generator")
      BY <2>9, SizeHere DEF SizeAt
    <3>2. Panics("unknown generator").panic # "none"
      BY DEF Panics
    <3> QED
      BY <3>1, <3>2
  <2>10. IsNode(m)
    BY NodeIs
  <2> QED
    BY <2>3, <2>4, <2>5, <2>6, <2>7, <2>8, <2>9, <2>10 DEF IsNode
<1>2. Node \subseteq S
  <2> HIDE DEF S
  <2> QED
    BY <1>1, TreeInduction
<1> QED
  BY <1>2

-----------------------------------------------------------------------------
(* What is measured *)

(* A multiple leaves nothing. *)
LEMMA MultipleLeavesNothing ==
    ASSUME NEW t \in Nat, NEW c \in Nat \ {0}
    PROVE  (t * c) % c = 0
<1> DEFINE d == t * c
           x == d \div c
           r == d % c
<1>1. d \in Nat /\ d = t * c + 0
  BY TimesIs
<1> HIDE DEF d
<1>2. r \in 0 .. c - 1 /\ x \in Nat /\ d = x * c + r
  BY <1>1, Division
<1> HIDE DEF x, r
<1>3. 0 \in 0 .. c - 1
  OBVIOUS
<1>4. t * c + 0 = x * c + r
  BY <1>1, <1>2
<1>5. r = 0
  BY <1>2, <1>3, <1>4, DivisionIsUnique
<1> QED
  BY <1>5 DEF r, d

(* A count whose closed form does not saturate panics only out of its range. *)
LEMMA CountSizePanics ==
    ASSUME NEW b \in 1 .. MaxU, NEW max \in 0 .. MaxCount, NEW min \in 0 .. max,
           Power(b)[max + 1] <= MaxU
    PROVE  CountSize(b, min, max).panic = "none"
           <=> IF b = 1 THEN max - min < MaxCount ELSE max < MaxCount
<1> DEFINE e == max - min + 1
           s == CountSize(b, min, max)
           t == Turns(b, min)[e]
           x == Power(b)[max + 1]
           y == Power(b)[min]
           c == b - 1
<1>1. /\ MaxU \in Nat /\ MaxCount \in 1 .. MaxU /\ b \in Nat /\ b # 0 /\ c \in Nat
      /\ min \in Nat /\ max \in Nat /\ max + 1 \in Nat /\ e \in Nat /\ min + e = max + 1
      /\ min < max + 1 /\ min <= max + 1
  BY WidthAssumption
<1>2. /\ x \in Nat /\ y \in Nat /\ x <= MaxU /\ y <= x /\ y <= MaxU /\ (b > 1 => y < x)
      /\ t \in Nat /\ x = t * c + y
  <2>1. x \in Nat /\ y \in Nat /\ x <= MaxU /\ y <= x /\ (b > 1 => y < x)
    BY <1>1, PowerNext, PowerRises
  <2>4. y <= MaxU
    <3> HIDE DEF x, y
    <3> QED
      BY <1>1, <2>1
  <2>2. Power(b)[min + e] <= MaxU => Power(b)[min + e] = Turns(b, min)[e] * (b - 1) + Power(b)[min]
    <3> HIDE DEF e
    <3> QED
      BY <1>1, TurnsTelescope
  <2>3. t \in Nat
    <3> HIDE DEF e
    <3> QED
      BY <1>1, TurnsAre
  <2> QED
    BY <1>1, <2>1, <2>2, <2>3, <2>4
<1>3. SatPow(b, max + 1) = x /\ SatPow(b, min) = y
  <2>1. SatPow(b, max + 1) = AtMost(MaxU, x) /\ SatPow(b, min) = AtMost(MaxU, y)
    BY <1>1, CappedIs DEF Capped
  <2> HIDE DEF x, y
  <2>2. AtMost(MaxU, x) = x /\ AtMost(MaxU, y) = y
    <3>1. \A z \in Nat : z <= MaxU => AtMost(MaxU, z) = z
      BY <1>1 DEF AtMost
    <3> QED
      BY <1>2, <3>1, Zenon
  <2> QED
    BY <2>1, <2>2
<1>4. CASE b = 1
  <2>1. s = IF e > MaxCount THEN Panics("overflow") ELSE Size(e)
    BY <1>4 DEF CountSize
  <2>2. s.panic = "none" <=> ~ (e > MaxCount)
    <3> HIDE DEF e
    <3> QED
      BY <2>1 DEF Panics, Size
  <2>3. ~ (e > MaxCount) <=> max - min < MaxCount
    BY <1>1
  <2> QED
    BY <1>4, <2>2, <2>3
<1>5. CASE b # 1
  <2>1. s = IF max + 1 > MaxCount THEN Panics("overflow")
            ELSE IF x = MaxU /\ y = MaxU THEN Size(MaxU)
            ELSE IF (x - y) % c # 0 THEN Panics("remainder")
            ELSE Size((x - y) \div c)
    BY <1>3, <1>5 DEF CountSize
  <2>2. (x - y) % c = 0
    <3>1. c \in Nat \ {0}
      BY <1>1, <1>5
    <3> DEFINE g == t * c
    <3>2. x \in Nat /\ y \in Nat /\ x = g + y /\ g \in Nat /\ g % c = 0
      BY <1>2, <3>1, MultipleLeavesNothing, TimesIs
    <3> HIDE DEF g, x, y
    <3>3. x - y = g
      BY <3>2
    <3> QED
      BY <3>2, <3>3
  <2> HIDE DEF x, y, c, s
  <2>3. s.panic = "none" <=> ~ (max + 1 > MaxCount)
    BY <2>1, <2>2 DEF Panics, Size
  <2>4. ~ (max + 1 > MaxCount) <=> max < MaxCount
    BY <1>1
  <2> QED
    BY <1>5, <2>3, <2>4 DEF s
<1> QED
  BY <1>4, <1>5

(* What is within a node is the node, or within a part of it. *)
LEMMA WithinParts ==
    ASSUME NEW n \in Node
    PROVE  \A x \in Within[n] : x = n \/ \E m \in Parts(n) : x \in Within[m]
<1> DEFINE at(m) == {m} \cup UNION {Within[x] : x \in Parts(m)}
<1>1. Within = [m \in Node |-> at(m)]
  BY WithinIs
<1> HIDE DEF at
<1>2. Within[n] = at(n)
  BY <1>1
<1> QED
  BY <1>2 DEF at

(* What is measured is measured in all its parts, and a list if those are. *)
LEMMA PartsMeasured ==
    ASSUME ContextOfRun, NEW n \in Node, n.kind \in {"list", "count"}
    PROVE  LET parts == \A m \in Parts(n) : NodeSize(context)[m].panic = "none"
           IN  /\ NodeSize(context)[n].panic = "none" => parts
               /\ n.kind = "list" /\ parts => NodeSize(context)[n].panic = "none"
<1>1. CASE n.kind = "list"
  <2> DEFINE m == Len(n.items)
             sizes == [k \in DOMAIN n.items |-> NodeSize(context)[n.items[k]]]
  <2>1. DOMAIN n.items = 1 .. m /\ m \in Nat /\ Parts(n) = {n.items[k] : k \in 1 .. m}
    BY <1>1, NodeIs DEF IsNode, Parts, ToSet
  <2>2. Len(sizes) = m /\ \A k \in 1 .. m : sizes[k] = NodeSize(context)[n.items[k]]
    BY <2>1
  <2>3. \A k \in 1 .. m : sizes[k] \in Sizes
    <3>1. \A k \in 1 .. m : n.items[k] \in Node
      BY <2>1, NodeIs
    <3> QED
      BY <2>2, <3>1, SizeHere
  <2>4. NodeSize(context)[n] = ListSize(sizes)
    BY <1>1, SizeHere DEF SizeAt
  <2> HIDE DEF m, sizes
  <2>5. /\ ListSize(sizes).panic = "none" => \E q : Multiplied(q, sizes, m)
        /\ (\A k \in 1 .. m : sizes[k].panic = "none") => ListSize(sizes).panic = "none"
    BY <2>1, <2>2, <2>3, ListSizeIs
  <2>6. ListSize(sizes).panic = "none" => \A k \in 1 .. m : sizes[k].panic = "none"
    BY <2>5 DEF Multiplied
  <2> QED
    BY <2>1, <2>2, <2>4, <2>5, <2>6
<1>2. CASE n.kind = "count"
  <2>1. Parts(n) = {n.item}
    BY <1>2 DEF Parts
  <2> DEFINE of == NodeSize(context)[n.item]
  <2>2. NodeSize(context)[n] = Then(of, CountSize(of.n, n.min, n.max))
    BY <1>2, SizeHere DEF SizeAt
  <2> HIDE DEF of
  <2>3. NodeSize(context)[n].panic = "none" => of.panic = "none"
    BY <2>2, SizeIs
  <2> QED
    BY <1>2, <2>1, <2>3 DEF of
<1> QED
  BY <1>1, <1>2

(* What a measured generator has *)
LEMMA GeneratorMeasured ==
    ASSUME ContextOfRun, NEW n \in Node, n.kind \in {"word", "words"}
    PROVE  NodeSize(context)[n].panic = "none"
           <=> /\ HashOf(context, n.hash) \in DOMAIN context.dict /\ NamedWords(n.hash) # {}
               /\ n.kind = "words" => n.count > 0
<1> DEFINE h == HashOf(context, n.hash)
           words == context.dict[h]
           known == h \in DOMAIN context.dict
           word == WordSize(context, n.hash)
           s == NodeSize(context)[n]
<1>1. IsContext(context)
  BY ContextIs
<1>2. word.panic = "none" <=> known /\ words # <<>>
  BY <1>1, WordSizeIs
<1>3. known => (words # <<>> <=> NamedWords(n.hash) # {})
  <2> SUFFICES ASSUME known PROVE words # <<>> <=> NamedWords(n.hash) # {}
    OBVIOUS
  <2>1. NamedWords(n.hash) = ToSet(words)
    BY NamedWordsAre
  <2>2. words \in Seq(Word)
    BY <1>1 DEF IsContext
  <2> HIDE DEF words
  <2> QED
    BY <2>1, <2>2 DEF ToSet
<1>4. CASE n.kind = "word"
  <2>1. s = word
    BY <1>4, SizeHere DEF SizeAt
  <2> HIDE DEF s, word, words, h
  <2> QED
    BY <1>2, <1>3, <1>4, <2>1 DEF s, h
<1>5. CASE n.kind = "words"
  <2>1. s = WordsSize(context, n) /\ n.count \in 0 .. MaxCount
    BY <1>5, SizeHere, NodeIs DEF SizeAt, IsNode
  <2>2. /\ s.panic = "none" => n.count \in 1 .. MaxCount /\ word.panic = "none"
        /\ n.count # 0 /\ word.panic = "none" => s.panic = "none"
    <3> HIDE DEF s
    <3> QED
      BY <1>1, <2>1, WordsSizeIs
  <2> HIDE DEF s, word, words, h
  <2>3. n.count \in 1 .. MaxCount <=> n.count > 0
    BY <2>1, WidthAssumption
  <2>4. n.count > 0 <=> n.count # 0
    BY <2>1, WidthAssumption
  <2>5. s.panic = "none" <=> word.panic = "none" /\ n.count > 0
    BY <2>2, <2>3, <2>4
  <2> QED
    BY <1>2, <1>3, <1>5, <2>5 DEF s, h
<1> QED
  BY <1>4, <1>5

(* A count whose closed form does not saturate is measured if its item is,  *)
(* unless it is out of range.                                               *)
LEMMA CountMeasured ==
    ASSUME ContextOfRun, NEW n \in Node, n.kind = "count", Fits(n),
           NodeSize(context)[n.item].panic = "none"
    PROVE  NodeSize(context)[n].panic = "none"
           <=> IF NumberOf[n.item] = 1 THEN n.max - n.min < MaxCount ELSE n.max < MaxCount
<1> DEFINE of == NodeSize(context)[n.item]
           b == of.n
           B == NumberOf[n.item]
           max == n.max
           min == n.min
<1>1. n.item \in Parts(n) /\ n.item \in Node /\ max \in 0 .. MaxCount /\ min \in 0 .. max
  BY NodeIs DEF IsNode
<1>2. NodeSize(context)[n] = CountSize(b, min, max)
  BY SizeHere DEF SizeAt, Then
<1>3. b \in 1 .. MaxU
  BY <1>1, SizeHere, SizeIs
<1>4. B \in Nat /\ b = AtMost(MaxU, B)
  <2>1. Fits(n.item)
    BY <1>1, PartsAreWithin DEF Fits
  <2>2. Counted(n.item)
    BY <1>1, <2>1, SchemaCounted
  <2> QED
    BY <2>2 DEF Counted
<1>5. Powers(MaxU + 1, B)[max + 1] <= MaxU
  BY PartsAreWithin DEF Fits
<1> HIDE DEF of, b, B, max, min
<1>6. /\ MaxU \in Nat /\ MaxU + 1 \in Nat \ {0} /\ max \in Nat /\ max + 1 \in Nat
      /\ 1 <= max + 1 /\ 1 \in Nat
  BY <1>1, WidthAssumption
<1>7. B # 0
  BY <1>3, <1>4, <1>6 DEF AtMost
<1> DEFINE r == Power(B)[max + 1]
<1>8. r \in Nat /\ B <= r
  <2>1. Power(B)[1] = B
    <3>1. PICK z \in Nat : z = 0
      OBVIOUS
    <3>2. Power(B)[z + 1] = Power(B)[z] * B /\ Power(B)[0] = 1
      BY <1>4, PowerNext
    <3> QED
      BY <1>4, <3>1, <3>2
  <2>2. r \in Nat
    BY <1>4, <1>6, PowerNext
  <2>3. Power(B)[1] <= r
    BY <1>4, <1>6, <1>7, PowerRises
  <2> QED
    BY <2>1, <2>2, <2>3
<1>9. r <= MaxU
  <2>1. Powers(MaxU + 1, B)[max + 1] = AtMost(MaxU + 1, r)
    BY <1>4, <1>6, PowersIs
  <2> HIDE DEF r
  <2>2. AtMost(MaxU + 1, r) <= MaxU
    BY <1>5, <2>1
  <2> QED
    BY <1>6, <1>8, <2>2 DEF AtMost
<1>10. b = B
  <2> HIDE DEF r
  <2>1. B <= MaxU
    BY <1>4, <1>6, <1>8, <1>9
  <2> QED
    BY <1>4, <1>6, <2>1 DEF AtMost
<1>11. CountSize(b, min, max).panic = "none" <=> IF b = 1 THEN max - min < MaxCount ELSE max < MaxCount
  <2>1. Power(b)[max + 1] <= MaxU
    BY <1>9, <1>10
  <2> QED
    BY <1>1, <1>3, <2>1, CountSizePanics
<1>12. NodeSize(context)[n].panic = "none" <=> IF B = 1 THEN max - min < MaxCount ELSE max < MaxCount
  BY <1>2, <1>10, <1>11
<1> QED
  BY <1>12 DEF B, max, min

(* What is measured has words throughout. *)
LEMMA SchemaHasWords ==
    ASSUME ContextOfRun, NEW n \in Node, NodeSize(context)[n].panic = "none"
    PROVE  HasWords(n)
<1> DEFINE S == {m \in Node : NodeSize(context)[m].panic = "none" => HasWords(m)}
           Own(m) == /\ m.kind # "unknown"
                     /\ m.kind \in {"word", "words"} =>
                          HashOf(context, m.hash) \in DOMAIN context.dict /\ NamedWords(m.hash) # {}
                     /\ m.kind = "words" => m.count > 0
<1>1. ASSUME NEW m \in Node, \A p \in Parts(m) : p \in S
      PROVE  m \in S
  <2> SUFFICES ASSUME NodeSize(context)[m].panic = "none" PROVE HasWords(m)
    OBVIOUS
  <2>1. \A p \in Parts(m) : HasWords(p)
    <3> SUFFICES ASSUME NEW p \in Parts(m) PROVE NodeSize(context)[p].panic = "none"
      BY <1>1
    <3>1. m.kind \in {"list", "count"}
      BY DEF Parts
    <3> QED
      BY <3>1, PartsMeasured
  <2>2. Own(m)
    <3>1. m.kind # "unknown"
      <4> SUFFICES ASSUME m.kind = "unknown" PROVE FALSE
        OBVIOUS
      <4>1. NodeSize(context)[m] = Panics("unknown generator")
        BY SizeHere DEF SizeAt
      <4>2. Panics("unknown generator").panic # "none"
        BY DEF Panics
      <4> QED
        BY <4>1, <4>2
    <3> QED
      BY <3>1, GeneratorMeasured
  <2>3. \A x \in Within[m] : Own(x)
    <3> SUFFICES ASSUME NEW x \in Within[m] PROVE Own(x)
      OBVIOUS
    <3>1. ASSUME NEW p \in Parts(m), x \in Within[p]
          PROVE  Own(x)
      BY <2>1, <3>1 DEF HasWords
    <3> HIDE DEF Own
    <3> QED
      BY <2>2, <3>1, WithinParts
  <2> QED
    BY <2>3 DEF HasWords
<1>2. Node \subseteq S
  <2> HIDE DEF S
  <2> QED
    BY <1>1, TreeInduction
<1> QED
  BY <1>2

(* What has words, and no closed form that saturates, is measured exactly   *)
(* if its counts are in range.                                              *)
LEMMA SchemaMeasured ==
    ASSUME ContextOfRun, NEW n \in Node, HasWords(n), Fits(n)
    PROVE  NodeSize(context)[n].panic = "none" <=> CountsInRange(n)
<1> DEFINE Good(m) == NodeSize(context)[m].panic = "none" <=> CountsInRange(m)
           S == {m \in Node : HasWords(m) /\ Fits(m) => Good(m)}
           Own(m) == m.kind = "count" =>
                         IF NumberOf[m.item] = 1 THEN m.max - m.min < MaxCount ELSE m.max < MaxCount
<1>1. ASSUME NEW m \in Node, \A p \in Parts(m) : p \in S
      PROVE  m \in S
  <2> SUFFICES ASSUME HasWords(m), Fits(m) PROVE Good(m)
    OBVIOUS
  <2> DEFINE parts == \A p \in Parts(m) : NodeSize(context)[p].panic = "none"
             none == NodeSize(context)[m].panic = "none"
  <2>1. \A p \in Parts(m) : NodeSize(context)[p].panic = "none" <=> CountsInRange(p)
    <3>1. \A p \in Parts(m) : HasWords(p) /\ Fits(p)
      BY PartsAreWithin DEF HasWords, Fits
    <3> QED
      BY <1>1, <3>1
  <2>2. CountsInRange(m) <=> Own(m) /\ \A p \in Parts(m) : CountsInRange(p)
    <3>1. CountsInRange(m) <=> \A x \in Within[m] : Own(x)
      BY DEF CountsInRange
    <3>2. \A p \in Parts(m) : CountsInRange(p) <=> \A x \in Within[p] : Own(x)
      BY DEF CountsInRange
    <3>3. /\ m \in Within[m] /\ \A p \in Parts(m) : Within[p] \subseteq Within[m]
          /\ \A x \in Within[m] : x = m \/ \E p \in Parts(m) : x \in Within[p]
      BY PartsAreWithin, WithinParts
    <3> HIDE DEF Own
    <3> QED
      BY <3>1, <3>2, <3>3
  <2>3. none <=> Own(m) /\ parts
    <3>1. CASE m.kind = "literal"
      <4>1. NodeSize(context)[m] = Size(1) /\ Parts(m) = {}
        BY <3>1, SizeHere DEF SizeAt, Parts
      <4> QED
        BY <3>1, <4>1 DEF Size
    <3>2. CASE m.kind = "chars"
      <4>1. NodeSize(context)[m] = Size(m.size) /\ Parts(m) = {}
        BY <3>2, SizeHere DEF SizeAt, Parts
      <4> QED
        BY <3>2, <4>1 DEF Size
    <3>3. CASE m.kind = "list"
      BY <3>3, PartsMeasured
    <3>4. CASE m.kind = "count"
      <4>1. Parts(m) = {m.item}
        BY <3>4 DEF Parts
      <4>2. none => parts
        BY <3>4, PartsMeasured
      <4>3. parts => (none <=> Own(m))
        <5>1. parts => NodeSize(context)[m.item].panic = "none"
          BY <4>1
        <5> HIDE DEF parts
        <5>2. ASSUME parts
              PROVE  none <=> IF NumberOf[m.item] = 1 THEN m.max - m.min < MaxCount ELSE m.max < MaxCount
          BY <3>4, <5>1, <5>2, CountMeasured
        <5> QED
          BY <3>4, <5>2
      <4> HIDE DEF parts, none, Own
      <4> QED
        BY <4>2, <4>3
    <3>5. CASE m.kind \in {"word", "words"}
      <4>1. none
        BY <3>5, GeneratorMeasured, PartsAreWithin DEF HasWords
      <4>2. Parts(m) = {}
        BY <3>5 DEF Parts
      <4> QED
        BY <3>5, <4>1, <4>2
    <3>6. m.kind # "unknown"
      BY PartsAreWithin DEF HasWords
    <3>7. IsNode(m)
      BY NodeIs
    <3> HIDE DEF parts, none, Own
    <3> QED
      BY <3>1, <3>2, <3>3, <3>4, <3>5, <3>6, <3>7 DEF IsNode
  <2> HIDE DEF Own
  <2> QED
    BY <2>1, <2>2, <2>3
<1>2. Node \subseteq S
  <2> HIDE DEF S
  <2> QED
    BY <1>1, TreeInduction
<1> QED
  BY <1>2

-----------------------------------------------------------------------------
(* Every derivation is written *)

(* Each derivation of n is written for an index below N. *)
Reaches(n, write, N) == \A d \in Language[n] : \E i \in 0 .. N - 1 : write[i].out = d

(* It is enough to find the index for what is tagged with the kind of n. *)
LEMMA ReachesIf ==
    ASSUME NEW n \in Node, NEW N \in 1 .. MaxU, NEW L, Language[n] = {n.kind} \X L,
           \A d \in L : \E i \in 0 .. N - 1 : IsWriting(Writing(n, i)) /\ Writing(n, i).out = d
    PROVE  Reaches(n, Write(context)[n], N)
<1> DEFINE write == Write(context)[n]
<1> SUFFICES ASSUME NEW t \in Language[n] PROVE \E i \in 0 .. N - 1 : write[i].out = t
  BY DEF Reaches
<1>1. PICK d \in L : t = <<n.kind, d>>
  OBVIOUS
<1>2. PICK i \in 0 .. N - 1 : IsWriting(Writing(n, i)) /\ Writing(n, i).out = d
  OBVIOUS
<1>3. i \in 0 .. MaxU
  BY WidthAssumption
<1>4. write[i].out = <<n.kind, Writing(n, i).out>>
  BY <1>2, <1>3, TaggedIs
<1> HIDE DEF write
<1>5. write[i].out = t
  BY <1>1, <1>2, <1>4
<1> QED
  BY <1>5

(* Literals and classes are written for their indexes, *)
LEMMA LeavesReached ==
    ASSUME ContextOfRun, NEW n \in Node, n.kind \in {"literal", "chars"}
    PROVE  Reaches(n, Write(context)[n], NodeSize(context)[n].n)
<1>1. Language[n] = LanguageAt(Language, n)
  BY LanguageIs
<1>2. NodeSize(context)[n] = SizeAt(context, NodeSize(context), n)
  BY SizeHere
<1>3. CASE n.kind = "literal"
  <2>1. Language[n] = {n.kind} \X {<<>>}
    BY <1>1, <1>3 DEF LanguageAt
  <2>2. NodeSize(context)[n].n = 1
    BY <1>2, <1>3 DEF SizeAt, Size
  <2>3. Writing(n, 0) = Written(<<>>, n.len)
    BY <1>3 DEF Writing, WriteAt
  <2>4. 1 \in 1 .. MaxU /\ 0 \in 0 .. 1 - 1
    BY WidthAssumption
  <2>5. IsWriting(Writing(n, 0)) /\ Writing(n, 0).out = <<>>
    BY <2>3, Writings
  <2>6. \A d \in {<<>>} : \E i \in 0 .. 1 - 1 : IsWriting(Writing(n, i)) /\ Writing(n, i).out = d
    BY <2>4, <2>5
  <2> QED
    BY <2>1, <2>2, <2>4, <2>6, ReachesIf
<1>4. CASE n.kind = "chars"
  <2>1. Language[n] = {n.kind} \X (0 .. (n.size - 1))
    BY <1>1, <1>4 DEF LanguageAt
  <2>2. NodeSize(context)[n].n = n.size
    BY <1>2, <1>4 DEF SizeAt, Size
  <2>3. \A i : Writing(n, i) = Written(i, 1)
    BY <1>4 DEF Writing, WriteAt
  <2>4. n.size \in 1 .. MaxU
    BY <1>4, NodeIs DEF IsNode
  <2>5. \A d \in 0 .. n.size - 1 : \E i \in 0 .. n.size - 1 :
            IsWriting(Writing(n, i)) /\ Writing(n, i).out = d
    BY <2>3, Writings
  <2> QED
    BY <2>1, <2>2, <2>4, <2>5, ReachesIf
<1> QED
  BY <1>3, <1>4

(* Products that do not saturate in the end do not saturate on the way. *)
LEMMA ProductFits ==
    ASSUME NEW m \in Nat, NEW n \in Nat, NEW numbers, \A k \in 1 .. n : numbers[k] \in Nat \ {0},
           NEW p, IsProduct(p, m + 1, numbers, n), p[n] <= m
    PROVE  IsExact(p, numbers, n) /\ \A k \in 1 .. n : numbers[k] <= m
<1>1. /\ p[0] = 1 /\ \A k \in 0 .. n : p[k] \in Nat
      /\ \A k \in 1 .. n : p[k] = AtMost(m + 1, p[k - 1] * numbers[k])
  BY DEF IsProduct
<1>2. ASSUME NEW k \in 1 .. n, p[k] <= m
      PROVE  p[k] = p[k - 1] * numbers[k] /\ p[k - 1] <= m /\ (p[k - 1] # 0 => p[k] # 0 /\ numbers[k] <= m)
  <2> DEFINE x == p[k - 1]
             y == numbers[k]
             z == x * y
             w == p[k]
  <2>1. x \in Nat /\ y \in Nat /\ y # 0 /\ w \in Nat
    <3>1. k - 1 \in 0 .. n /\ k \in 0 .. n
      OBVIOUS
    <3> QED
      BY <1>1, <3>1
  <2>2. z \in Nat /\ x <= z /\ (x # 0 => y <= z /\ z # 0)
    <3> HIDE DEF x, y
    <3> QED
      BY <2>1, TimesIs
  <2>3. w = AtMost(m + 1, z) /\ w <= m
    BY <1>1, <1>2
  <2>4. z = x * y
    OBVIOUS
  <2> HIDE DEF x, y, z, w
  <2>5. w = z
    BY <2>2, <2>3 DEF AtMost
  <2>6. w = x * y /\ x <= m /\ (x # 0 => w # 0 /\ y <= m)
    BY <2>1, <2>2, <2>3, <2>4, <2>5
  <2> QED
    BY <2>6 DEF x, y, w
<1> DEFINE S == {j \in 0 .. n : p[n - j] <= m}
<1>3. 0 \in S
  <2>1. n - 0 = n
    OBVIOUS
  <2> QED
    BY <2>1
<1>4. ASSUME NEW j \in 1 .. n, j - 1 \in S
      PROVE  j \in S
  <2> DEFINE k == n - (j - 1)
  <2>1. k \in 1 .. n /\ k - 1 = n - j /\ j \in 0 .. n
    OBVIOUS
  <2>2. p[k] <= m
    BY <1>4
  <2> HIDE DEF k
  <2>3. p[k - 1] <= m
    BY <1>2, <2>1, <2>2
  <2> QED
    BY <2>1, <2>3
<1>5. 0 .. n \subseteq S
  <2> HIDE DEF S
  <2> QED
    BY <1>3, <1>4, IntervalInduction
<1>6. ASSUME NEW k \in 0 .. n
      PROVE  p[k] <= m
  <2>1. n - k \in 0 .. n /\ n - (n - k) = k
    OBVIOUS
  <2>2. n - k \in S
    BY <1>5, <2>1
  <2> QED
    BY <2>1, <2>2
<1> DEFINE T == {k \in 0 .. n : p[k] # 0}
<1>7. 0 \in T /\ \A k \in 1 .. n : k - 1 \in T => k \in T
  <2>1. 0 \in T
    BY <1>1
  <2>2. ASSUME NEW k \in 1 .. n, k - 1 \in T
        PROVE  k \in T
    <3>1. k \in 0 .. n
      OBVIOUS
    <3> QED
      BY <1>2, <1>6, <2>2, <3>1
  <2> QED
    BY <2>1, <2>2
<1>8. 0 .. n \subseteq T
  <2> HIDE DEF T
  <2> QED
    BY <1>7, IntervalInduction
<1>9. ASSUME NEW k \in 1 .. n
      PROVE  p[k] = p[k - 1] * numbers[k] /\ numbers[k] <= m
  <2>1. k \in 0 .. n /\ k - 1 \in 0 .. n
    OBVIOUS
  <2>2. p[k] <= m /\ p[k - 1] # 0
    BY <1>6, <1>8, <2>1
  <2> QED
    BY <1>2, <2>2
<1> QED
  BY <1>1, <1>9 DEF IsExact

(* What is reached of the items is reached of the list, *)
LEMMA ListReached ==
    ASSUME ContextOfRun, NEW n \in Node, n.kind = "list", NodeSize(context)[n].panic = "none",
           NumberOf[n] <= MaxU,
           \A m \in Parts(n) : NodeSize(context)[m].panic = "none" =>
               /\ Enumerates(m, Write(context)[m], NodeSize(context)[m].n) /\ Counted(m)
               /\ NumberOf[m] <= MaxU => Reaches(m, Write(context)[m], NodeSize(context)[m].n)
    PROVE  Reaches(n, Write(context)[n], NodeSize(context)[n].n)
<1> DEFINE m == Len(n.items)
           sizes == ListSizes(n)
           bases == ListBases(n)
           parts == ListWrites(n)
           langs == ListLangs(n)
           lengths == ListLengths(n)
           numbers == [k \in DOMAIN n.items |-> NumberOf[n.items[k]]]
           N == NodeSize(context)[n].n
           L == {d \in [1 .. m -> AnyOf(langs)] : \A k \in 1 .. m : d[k] \in langs[k]}
<1>1. /\ m \in Nat /\ N \in 1 .. MaxU /\ PartsOf(bases, parts, m, langs, lengths)
      /\ \A i : Writing(n, i) = WriteParts(i, bases, parts)
      /\ Language[n] = {n.kind} \X L
  BY ListPartsAre
<1>2. \A k \in 1 .. m :
         /\ n.items[k] \in Parts(n) /\ n.items[k] \in Node
         /\ bases[k] = sizes[k].n /\ sizes[k] = NodeSize(context)[n.items[k]]
         /\ parts[k] = Write(context)[n.items[k]] /\ langs[k] = Language[n.items[k]]
  BY ListPartsAre
<1>3. PICK q : Multiplied(q, sizes, m) /\ N = q[m]
  BY ListPartsAre
<1>4. Len(numbers) = m /\ \A k \in 1 .. m : numbers[k] = NumberOf[n.items[k]]
  BY <1>1, NodeIs DEF IsNode
<1>5. NumberOf[n] = Product(MaxU + 1, numbers)
  BY NumberHere DEF NumberAt
<1> HIDE DEF m, sizes, bases, parts, langs, lengths, numbers, N
<1>6. ASSUME NEW k \in 1 .. m
      PROVE  /\ numbers[k] \in Nat /\ numbers[k] # 0 /\ sizes[k].n = AtMost(MaxU, numbers[k])
             /\ NodeSize(context)[n.items[k]].panic = "none"
  <2>1. sizes[k].panic = "none" /\ sizes[k].n \in 1 .. MaxU
    BY <1>3 DEF Multiplied
  <2>2. NodeSize(context)[n.items[k]].panic = "none"
    BY <1>2, <2>1
  <2>3. Counted(n.items[k])
    BY <1>2, <2>2
  <2> DEFINE x == numbers[k]
  <2>4. x \in Nat /\ sizes[k].n = AtMost(MaxU, x)
    BY <1>2, <1>4, <2>3 DEF Counted
  <2> HIDE DEF x
  <2>5. AtMost(MaxU, x) # 0
    <3> DEFINE y == sizes[k].n
    <3>1. y \in 1 .. MaxU
      BY <2>1
    <3> HIDE DEF y
    <3>2. y # 0
      BY <3>1
    <3> QED
      BY <2>4, <3>2 DEF y
  <2>6. x # 0
    <3> SUFFICES ASSUME x = 0 PROVE FALSE
      OBVIOUS
    <3>1. AtMost(MaxU, 0) = 0
      BY WidthAssumption DEF AtMost
    <3> QED
      BY <2>5, <3>1
  <2> QED
    BY <2>2, <2>4, <2>6 DEF x
<1>7. MaxU \in Nat /\ MaxU + 1 \in Nat /\ m \in 0 .. m
  BY <1>1, WidthAssumption
<1>8. PICK p : IsProduct(p, MaxU + 1, numbers, m) /\ Product(MaxU + 1, numbers) = p[m]
  BY <1>1, <1>4, <1>6, <1>7, ProductIs
<1>9. p[m] <= MaxU
  BY <1>5, <1>8
<1>10. IsExact(p, numbers, m) /\ \A k \in 1 .. m : numbers[k] <= MaxU
  BY <1>1, <1>6, <1>7, <1>8, <1>9, ProductFits
<1>11. \A k \in 1 .. m : bases[k] = numbers[k]
  <2> SUFFICES ASSUME NEW k \in 1 .. m PROVE bases[k] = numbers[k]
    OBVIOUS
  <2>1. AtMost(MaxU, numbers[k]) = numbers[k]
    BY <1>6, <1>7, <1>10, AtMostIs
  <2> QED
    BY <1>2, <1>6, <2>1
<1>12. IsExact(p, bases, m)
  BY <1>10, <1>11 DEF IsExact
<1>13. N = p[m]
  <2>1. q[m] = AtMost(MaxU, p[m])
    BY <1>1, <1>3, <1>6, <1>8, ProductsSaturate
  <2>2. p[m] \in Nat
    BY <1>7, <1>10 DEF IsExact
  <2>3. AtMost(MaxU, p[m]) = p[m]
    BY <1>7, <1>9, <2>2, AtMostIs
  <2> QED
    BY <1>3, <2>1, <2>3
<1>14. AreReached(bases, parts, m, langs)
  <2> SUFFICES ASSUME NEW k \in 1 .. m, NEW d \in langs[k]
               PROVE  \E x \in 0 .. bases[k] - 1 : parts[k][x].out = d
    BY DEF AreReached
  <2> DEFINE item == n.items[k]
  <2>1. item \in Parts(n) /\ NodeSize(context)[item].panic = "none" /\ NumberOf[item] <= MaxU
    BY <1>2, <1>4, <1>6, <1>10
  <2>2. /\ bases[k] = NodeSize(context)[item].n /\ parts[k] = Write(context)[item]
        /\ d \in Language[item]
    BY <1>2
  <2> HIDE DEF item
  <2>3. Reaches(item, Write(context)[item], NodeSize(context)[item].n)
    BY <2>1
  <2> QED
    BY <2>2, <2>3 DEF Reaches
<1>15. ASSUME NEW d \in L
       PROVE  \E i \in 0 .. N - 1 : IsWriting(Writing(n, i)) /\ Writing(n, i).out = d
  <2>1. IsChoice(d, langs, m)
    BY DEF IsChoice
  <2>2. PICK i \in 0 .. MaxU : i < p[m] /\ WriteParts(i, bases, parts).out = d
    BY <1>1, <1>9, <1>12, <1>14, <2>1, PartsAreReached, SMTT(30)
  <2>3. i \in 0 .. N - 1
    BY <1>1, <1>7, <1>13, <2>2
  <2>4. Writing(n, i) = WriteParts(i, bases, parts)
    BY <1>1
  <2>5. IsWriting(WriteParts(i, bases, parts))
    BY Writings
  <2> QED
    BY <2>2, <2>3, <2>4, <2>5
<1> HIDE DEF L
<1>16. Reaches(n, Write(context)[n], N)
  BY <1>1, <1>15, ReachesIf
<1> QED
  BY <1>16 DEF N

(* An index is in no other turn of a count than the one that its split says. *)
LEMMA TurnIs ==
    ASSUME NEW b \in Nat, b # 0, NEW min \in Nat, NEW d \in Nat, NEW e \in Nat,
           NEW x \in Nat, x < Capped(b, min + d), NEW y \in Nat, y < Capped(b, min + e),
           x + Turns(b, min)[d] = y + Turns(b, min)[e]
    PROVE  d = e /\ x = y
<1> DEFINE t == Turns(b, min)
<1>1. \A k \in Nat : t[k] \in Nat /\ t[k + 1] = t[k] + Capped(b, min + k)
  <2> SUFFICES ASSUME NEW k \in Nat PROVE t[k] \in Nat /\ t[k + 1] = t[k] + Capped(b, min + k)
    OBVIOUS
  <2> HIDE DEF t
  <2>1. /\ Turns(b, min)[k] \in Nat
        /\ Turns(b, min)[k + 1] = Turns(b, min)[k] + Capped(b, min + k)
    <3>1. b \in Nat /\ b # 0 /\ min \in Nat /\ k \in Nat
      OBVIOUS
    <3> QED
      BY ONLY <3>1, TurnsAre
  <2> QED
    BY <2>1, Zenon DEF t
<1>2. \A j, k \in Nat : j < k => t[j + 1] <= t[k]
  <2> SUFFICES ASSUME NEW j \in Nat, NEW k \in Nat, j < k PROVE t[j + 1] <= t[k]
    OBVIOUS
  <2>1. j + 1 \in Nat /\ j + 1 <= k
    OBVIOUS
  <2> QED
    BY <2>1, TurnsRise
<1>3. ASSUME NEW j \in Nat, NEW k \in Nat, j < k,
             NEW u \in Nat, u < Capped(b, min + j), NEW v \in Nat
      PROVE  u + t[j] < v + t[k]
  <2> DEFINE a == t[j]
             c == t[k]
             g == Capped(b, min + j)
  <2>1. a \in Nat /\ c \in Nat /\ a + g <= c /\ u < g
    <3>1. t[j + 1] <= t[k] /\ t[j + 1] = t[j] + Capped(b, min + j)
      BY <1>1, <1>2, <1>3
    <3> QED
      BY <1>1, <1>3, <3>1
  <2>2. g \in Nat
    <3>1. min + j \in Nat
      OBVIOUS
    <3>2. g \in 1 .. MaxU
      BY <3>1, CappedIs
    <3> HIDE DEF g
    <3> QED
      BY <3>2, WidthAssumption
  <2> HIDE DEF a, c, g
  <2>3. u + a < v + c
    BY <2>1, <2>2
  <2> QED
    BY <2>3 DEF a, c
<1>4. x + t[d] = y + t[e] /\ x + t[d] \in Nat /\ t[d] \in Nat /\ t[e] \in Nat
  BY <1>1
<1>5. ~ (d < e)
  <2> SUFFICES ASSUME d < e PROVE FALSE
    OBVIOUS
  <2>1. x + t[d] < y + t[e]
    BY <1>3
  <2> DEFINE z == x + t[d]
  <2>2. z \in Nat /\ z < z
    BY <1>4, <2>1
  <2> HIDE DEF z
  <2> QED
    BY <2>2
<1>6. ~ (e < d)
  <2> SUFFICES ASSUME e < d PROVE FALSE
    OBVIOUS
  <2>1. y + t[e] < x + t[d]
    BY <1>3
  <2> DEFINE z == x + t[d]
  <2>2. z \in Nat /\ z < z
    BY <1>4, <2>1
  <2> HIDE DEF z
  <2> QED
    BY <2>2
<1>7. d = e
  BY <1>5, <1>6
<1> DEFINE a == t[d]
<1>8. a \in Nat /\ x + a = y + a
  BY <1>4, <1>7
<1> HIDE DEF a
<1>9. x = y
  BY <1>8
<1> QED
  BY <1>7, <1>9

(* what is reached of an item is reached of its repetitions, *)
LEMMA CountReached ==
    ASSUME ContextOfRun, NEW n \in Node, n.kind = "count", NodeSize(context)[n].panic = "none",
           Powers(MaxU + 1, NumberOf[n.item])[n.max + 1] <= MaxU,
           \A m \in Parts(n) : NodeSize(context)[m].panic = "none" =>
               /\ Enumerates(m, Write(context)[m], NodeSize(context)[m].n) /\ Counted(m)
               /\ NumberOf[m] <= MaxU => Reaches(m, Write(context)[m], NodeSize(context)[m].n)
    PROVE  Reaches(n, Write(context)[n], NodeSize(context)[n].n)
<1> DEFINE item == n.item
           min == n.min
           max == n.max
           e == max - min + 1
           b == NumberOf[item]
           write == Write(context)[item]
           N == NodeSize(context)[n].n
           L == {d \in Seq(Language[item]) : Len(d) \in min .. max}
           t == Turns(b, min)
<1>1. /\ item \in Parts(n) /\ item \in Node /\ NodeSize(context)[item].panic = "none"
      /\ NodeSize(context)[item].n = b /\ b \in 1 .. MaxU
      /\ max \in 0 .. MaxCount /\ max \in Nat /\ min \in 0 .. max
      /\ Power(b)[max + 1] <= MaxU /\ N = t[e] /\ N \in 1 .. MaxU
  BY CountFits
<1>2. Language[n] = {n.kind} \X L
  <2>1. Language[n] = LanguageAt(Language, n)
    BY LanguageIs
  <2>2. LanguageAt(Language, n) = {"count"} \X L
    BY DEF LanguageAt
  <2> QED
    BY <2>1, <2>2
<1>3. b \in Nat /\ b # 0 /\ min \in Nat /\ e \in Nat /\ MaxU \in Nat
  <2> HIDE DEF b, min, max
  <2> QED
    BY <1>1, WidthAssumption
<1>4. Enumerates(item, write, b) /\ Reaches(item, write, b)
  <2> HIDE DEF item, b
  <2>1. /\ Enumerates(item, Write(context)[item], NodeSize(context)[item].n)
        /\ NumberOf[item] <= MaxU => Reaches(item, Write(context)[item], NodeSize(context)[item].n)
    BY <1>1
  <2>2. b <= MaxU
    BY <1>1, <1>3
  <2> QED
    BY <1>1, <2>1, <2>2 DEF b
<1> SUFFICES ASSUME NEW o \in L
             PROVE  \E i \in 0 .. N - 1 : IsWriting(Writing(n, i)) /\ Writing(n, i).out = o
  <2> HIDE DEF L, N
  <2>1. N \in 1 .. MaxU
    BY <1>1
  <2>2. Reaches(n, Write(context)[n], N)
    BY <1>2, <2>1, ReachesIf
  <2> QED
    BY <2>2 DEF N
<1> DEFINE count == Len(o)
           d == count - min
<1>5. /\ count \in min .. max /\ o = [k \in 1 .. count |-> o[k]]
      /\ \A k \in 1 .. count : o[k] \in Language[item]
  <2> DEFINE lang == Language[item]
  <2> HIDE DEF lang
  <2>1. o \in Seq(lang) /\ Len(o) \in min .. max
    BY DEF lang
  <2>2. o = [k \in 1 .. Len(o) |-> o[k]] /\ \A k \in 1 .. Len(o) : o[k] \in lang
    BY <2>1
  <2> QED
    BY <2>1, <2>2 DEF lang
<1> HIDE DEF item, min, max, e, b, write, N, L, t, count
<1>6. /\ count \in Nat /\ d \in Nat /\ min + d = count /\ d + 1 \in Nat /\ d + 1 <= e
      /\ count <= max + 1 /\ max + 1 \in Nat
  <2>1. count \in min .. max /\ max \in Nat /\ min \in Nat
    BY <1>1, <1>3, <1>5
  <2> QED
    BY ONLY <2>1 DEF d, e
<1> HIDE DEF d
<1> DEFINE p == Power(b)[count]
<1>7. p \in Nat /\ p <= MaxU
  <2> DEFINE r == Power(b)[max + 1]
  <2>1. p \in Nat /\ r \in Nat
    BY <1>3, <1>6, PowerNext
  <2>2. p <= r /\ r <= MaxU
    BY <1>1, <1>3, <1>6, PowerRises
  <2> HIDE DEF p, r
  <2>3. p <= MaxU
    BY <1>3, <2>1, <2>2
  <2> QED
    BY <2>1, <2>3
<1>8. Capped(b, min + d) = p
  <2>1. Capped(b, min + d) = AtMost(MaxU, p)
    BY <1>6 DEF Capped
  <2> HIDE DEF p
  <2> QED
    BY <1>3, <1>7, <2>1, AtMostIs
(* The index within the turn *)
<1> DEFINE bases == Repeated(count, b)
           parts == Repeated(count, write)
           langs == Repeated(count, Language[item])
           lengths == Repeated(count, LengthOf[item])
<1>9. PICK x \in 0 .. MaxU : x < p /\ WriteParts(x, bases, parts).out = o
  <2>1. PartsOf(bases, parts, count, langs, lengths)
    BY <1>1, <1>4, <1>6, RepeatedParts
  <2>2. \A k \in 1 .. count : bases[k] = b /\ parts[k] = write /\ langs[k] = Language[item]
    BY DEF Repeated
  <2> HIDE DEF bases, parts, langs, lengths
  <2>3. AreReached(bases, parts, count, langs)
    BY <1>4, <2>2 DEF AreReached, Reaches
  <2>4. IsExact(Power(b), bases, count)
    <3>1. Power(b)[0] = 1
      BY <1>3, PowerIs
    <3>2. \A k \in 0 .. count : Power(b)[k] \in Nat
      BY <1>3, PowerNext
    <3>3. ASSUME NEW k \in 1 .. count
          PROVE  Power(b)[k] = Power(b)[k - 1] * bases[k]
      <4>1. k \in Nat /\ k # 0
        OBVIOUS
      <4>2. Power(b)[k] = Power(b)[k - 1] * b
        BY <1>3, <4>1, PowerNext
      <4> QED
        BY <2>2, <4>2
    <3> QED
      BY <3>1, <3>2, <3>3 DEF IsExact
  <2>5. Power(b)[count] <= MaxU
    BY <1>7
  <2>6. IsChoice(o, langs, count)
    BY <1>5, <2>2 DEF IsChoice
  <2> QED
    BY <1>6, <1>7, <2>1, <2>3, <2>4, <2>5, <2>6, PartsAreReached, SMTT(30)
<1> DEFINE i == x + t[d]
<1>10. /\ x \in Nat /\ t[d] \in Nat /\ t[d + 1] = t[d] + p /\ t[d + 1] <= t[e]
       /\ t[e] \in Nat
  <2>1. x \in Nat
    BY <1>3
  <2>2. t[d] \in Nat /\ t[d + 1] = t[d] + p /\ t[e] \in Nat
    <3> HIDE DEF p
    <3> QED
      <4>1. /\ Turns(b, min)[d] \in Nat
            /\ Turns(b, min)[d + 1] = Turns(b, min)[d] + Capped(b, min + d)
        <5>1. b \in Nat /\ b # 0 /\ min \in Nat /\ d \in Nat
          BY <1>3, <1>6
        <5> QED
          BY ONLY <5>1, TurnsAre
      <4>2. Turns(b, min)[e] \in Nat
        <5>1. b \in Nat /\ b # 0 /\ min \in Nat /\ e \in Nat
          BY <1>3
        <5> QED
          BY ONLY <5>1, TurnsAre
      <4> QED
        BY <1>8, <4>1, <4>2, Zenon DEF t
  <2>3. t[d + 1] <= t[e]
    BY <1>3, <1>6, TurnsRise DEF t
  <2> QED
    BY <2>1, <2>2, <2>3
<1>11. i \in Nat /\ i < t[e] /\ i \in 0 .. N - 1
  <2> DEFINE a == t[d]
             c == t[e]
             f == t[d + 1]
  <2>1. /\ x \in Nat /\ a \in Nat /\ c \in Nat /\ f = a + p /\ f <= c /\ x < p /\ p \in Nat
        /\ N = c /\ i = x + a
    BY <1>1, <1>7, <1>9, <1>10
  <2> HIDE DEF a, c, f, p, i
  <2>2. i \in Nat /\ i < c /\ i \in 0 .. N - 1
    BY <2>1
  <2> QED
    BY <2>2 DEF c
<1>12. i = x + t[d]
  OBVIOUS
<1> HIDE DEF i
<1>13. PICK c : Splits(n, b, i, c)
  <2>1. b = NodeSize(context)[n.item].n
    BY <1>1 DEF item
  <2>2. i < Turns(b, n.min)[n.max - n.min + 1]
    BY <1>11 DEF t, e, min, max
  <2> QED
    BY <1>1, <1>11, <2>1, <2>2, CountSplits
<1> DEFINE split == CountSplit(b, min, i)
<1>14. /\ c \in Nat /\ min + c \in min .. max /\ Turned(split, b, min, i, c)
       /\ split.index < Power(b)[min + c] /\ split.index \in 0 .. MaxU
       /\ Writing(n, i) = WriteParts(split.index, Repeated(min + c, b), Repeated(min + c, write))
  BY <1>13 DEF Splits, min, max, write, item
<1> HIDE DEF split
<1>15. c = d /\ split.index = x
  <2> DEFINE y == split.index
  <2>1. y \in Nat /\ y + t[c] = i
    BY <1>14 DEF Turned, t
  <2>2. y < Capped(b, min + c)
    <3> DEFINE r == Power(b)[min + c]
    <3>1. min + c \in Nat
      BY <1>3, <1>14
    <3>2. r \in Nat
      BY <1>3, <3>1, PowerNext
    <3>3. Capped(b, min + c) = AtMost(MaxU, r) /\ y < r /\ y \in 0 .. MaxU
      BY <1>14 DEF Capped
    <3>4. r <= MaxU
      <4>1. min + c <= max + 1
        BY <1>1, <1>3, <1>14
      <4> DEFINE g == Power(b)[max + 1]
      <4>2. g \in Nat /\ g <= MaxU /\ r <= g
        BY <1>1, <1>3, <1>6, <3>1, <4>1, PowerNext, PowerRises
      <4> HIDE DEF r, g
      <4> QED
        BY <1>3, <3>2, <4>2
    <3> HIDE DEF r, y
    <3>5. AtMost(MaxU, r) = r
      BY <1>3, <3>2, <3>4, AtMostIs
    <3> QED
      BY <3>3, <3>5
  <2> HIDE DEF y, p
  <2>3. x < Capped(b, min + d)
    BY <1>8, <1>9
  <2>4. x + Turns(b, min)[d] = y + Turns(b, min)[c]
    BY <1>12, <2>1 DEF t
  <2>5. d = c /\ x = y
    <3>1. /\ b \in Nat /\ b # 0 /\ min \in Nat /\ d \in Nat /\ c \in Nat
          /\ x \in Nat /\ y \in Nat
      BY <1>3, <1>6, <1>10, <1>14, <2>1, Zenon
    <3> QED
      BY ONLY <2>2, <2>3, <2>4, <3>1, TurnIs
  <2> QED
    BY <2>5 DEF y
<1>16. Writing(n, i) = WriteParts(x, bases, parts)
  BY <1>6, <1>14, <1>15
<1> HIDE DEF bases, parts, langs, lengths, p
<1>17. IsWriting(Writing(n, i)) /\ Writing(n, i).out = o
  BY <1>9, <1>16, Writings
<1> QED
  BY <1>11, <1>17

(* every word of a list is reached, *)
LEMMA WordReached ==
    ASSUME ContextOfRun, NEW n \in Node, n.kind = "word", NodeSize(context)[n].panic = "none"
    PROVE  Reaches(n, Write(context)[n], NodeSize(context)[n].n)
<1> DEFINE h == HashOf(context, n.hash)
           words == context.dict[h]
           N == NodeSize(context)[n].n
           L == [word : NamedWords(n.hash), upper : {n.upper}]
<1>1. NodeSize(context)[n] = WordSize(context, n.hash) /\ NodeSize(context)[n] \in Sizes
  BY SizeHere DEF SizeAt
<1>2. h \in DOMAIN context.dict /\ N = Len(words) /\ N \in 1 .. MaxU
  <2>1. N \in 1 .. MaxU
    BY <1>1, SizeIs
  <2> QED
    BY <1>1, <2>1, ContextIs, WordSizeIs
<1>3. ToSet(words) = NamedWords(n.hash) /\ words \in Seq(Word)
  BY <1>2, ContextIs, NamedWordsAre DEF IsContext
<1>4. ToSet(words) = {words[i] : i \in 1 .. Len(words)}
  BY <1>3 DEF ToSet
<1>5. \A i : Writing(n, i) = IF i >= Len(words) THEN WritePanics("past the dictionary")
                             ELSE Written([word |-> words[i + 1], upper |-> n.upper], Len(words[i + 1]))
  <2>1. \A i : Writing(n, i) = WriteWord(context, n.hash, n.upper, i)
    BY DEF Writing, WriteAt
  <2> QED
    BY <2>1 DEF WriteWord
<1>6. Language[n] = {n.kind} \X L
  <2>1. Language[n] = LanguageAt(Language, n)
    BY LanguageIs
  <2>2. LanguageAt(Language, n) = {"word"} \X L
    BY DEF LanguageAt
  <2> QED
    BY <2>1, <2>2
<1> HIDE DEF words, h, N
<1>7. ASSUME NEW d \in L
      PROVE  \E i \in 0 .. N - 1 : IsWriting(Writing(n, i)) /\ Writing(n, i).out = d
  <2>1. d.word \in NamedWords(n.hash) /\ d = [word |-> d.word, upper |-> n.upper]
    OBVIOUS
  <2>2. PICK j \in 1 .. Len(words) : words[j] = d.word
    BY <1>3, <1>4, <2>1
  <2> DEFINE i == j - 1
  <2>3. i \in 0 .. N - 1 /\ i + 1 = j /\ ~ (i >= Len(words))
    BY <1>2, WidthAssumption
  <2> HIDE DEF i
  <2>4. Writing(n, i) = Written([word |-> words[j], upper |-> n.upper], Len(words[j]))
    BY <1>5, <2>3
  <2>5. IsWriting(Writing(n, i)) /\ Writing(n, i).out = [word |-> words[j], upper |-> n.upper]
    BY <2>4, Writings
  <2>6. Writing(n, i).out = d
    BY <2>1, <2>2, <2>5
  <2> QED
    BY <2>3, <2>5, <2>6
<1> HIDE DEF L
<1>8. Reaches(n, Write(context)[n], N)
  BY <1>2, <1>6, <1>7, ReachesIf
<1> QED
  BY <1>8 DEF N

(* A {words} with no more derivations than there are indexes has as many    *)
(* indexes as lists of words, times the words to capitalize.                *)
LEMMA WordsFit ==
    ASSUME ContextOfRun, NEW n, OwnWordList(n), NumberOf[n] <= MaxU
    PROVE  LET W == WordSize(context, n.hash).n
               p == Power(W)[n.count]
           IN  /\ p \in Nat /\ p <= MaxU
               /\ NodeSize(context)[n].n = IF n.upper THEN p * n.count ELSE p
<1> DEFINE W == WordSize(context, n.hash).n
           count == n.count
           p == Power(W)[count]
           N == NodeSize(context)[n].n
           lists == Powers(MaxU + 1, W)[count]
<1>1. /\ W \in 1 .. MaxU /\ count \in 1 .. MaxCount /\ n.upper \in BOOLEAN
      /\ N = IF n.upper THEN SatMul(Capped(W, count), count) ELSE Capped(W, count)
  BY WordPartsAre
<1>2. MaxU \in Nat /\ MaxU + 1 \in Nat \ {0} /\ W \in Nat /\ count \in Nat /\ count # 0
  <2> HIDE DEF W, count
  <2> QED
    BY <1>1, WidthAssumption
<1>3. W = Cardinality(NamedWords(n.hash))
  <2> DEFINE h == HashOf(context, n.hash)
  <2>1. WordSize(context, n.hash).panic = "none"
    <3>1. NodeSize(context)[n] = WordsSize(context, n)
      BY SizeHere DEF SizeAt, OwnWordList
    <3>2. NodeSize(context)[n].panic = "none" /\ n.count \in 0 .. MaxCount
      BY NodeIs DEF OwnWordList, IsNode
    <3> QED
      BY <3>1, <3>2, ContextIs, WordsSizeIs
  <2>2. h \in DOMAIN context.dict /\ W = Len(context.dict[h])
    BY <2>1, ContextIs, WordSizeIs
  <2> QED
    BY <2>2, NamedWordsAre
<1>4. NumberOf[n] = IF n.upper THEN AtMost(MaxU + 1, lists * count) ELSE lists
  <2>1. n \in Node /\ n.kind = "words"
    BY DEF OwnWordList
  <2>2. NumberAt(NumberOf, n)
        = LET all == Powers(MaxU + 1, Cardinality(NamedWords(n.hash)))[n.count]
          IN  IF n.upper THEN AtMost(MaxU + 1, all * n.count) ELSE all
    BY <2>1 DEF NumberAt
  <2> QED
    BY <1>3, <2>1, <2>2, NumberHere
<1>5. NumberOf[n] <= MaxU
  OBVIOUS
<1> HIDE DEF W, count, N
<1>6. p \in Nat /\ lists = AtMost(MaxU + 1, p) /\ Capped(W, count) = AtMost(MaxU, p)
  BY <1>2, PowerNext, PowersIs DEF Capped
<1> HIDE DEF p, lists
<1>7. CASE n.upper
  <2> DEFINE z == p * count
  <2>1. z \in Nat /\ p <= z
    BY <1>2, <1>6, TimesIs
  <2>2. AtMost(MaxU + 1, lists * count) = AtMost(MaxU + 1, z)
    BY <1>2, <1>6, AtMostTimes
  <2>3. SatMul(AtMost(MaxU, p), count) = AtMost(MaxU, z)
    BY <1>2, <1>6, AtMostTimes DEF SatMul
  <2>4. AtMost(MaxU + 1, z) <= MaxU
    BY <1>4, <1>5, <1>7, <2>2
  <2>5. N = AtMost(MaxU, z) /\ z = p * count
    BY <1>1, <1>6, <1>7, <2>3
  <2> HIDE DEF z
  <2>6. z <= MaxU
    BY <1>2, <2>1, <2>4 DEF AtMost
  <2>7. p <= MaxU /\ AtMost(MaxU, z) = z
    <3>1. AtMost(MaxU, z) = z
      BY <1>2, <2>1, <2>6, AtMostIs
    <3>2. p \in Nat /\ p <= z
      BY <1>6, <2>1
    <3>3. p <= MaxU
      BY ONLY <1>2, <2>1, <2>6, <3>2
    <3> QED
      BY <3>1, <3>3
  <2>8. p \in Nat /\ p <= MaxU /\ N = p * count
    BY <1>6, <2>5, <2>7
  <2> QED
    BY <1>7, <2>8 DEF p, W, count, N
<1>8. CASE ~ n.upper
  <2>1. AtMost(MaxU + 1, p) <= MaxU
    BY <1>4, <1>5, <1>6, <1>8
  <2>2. p <= MaxU
    BY <1>2, <1>6, <2>1 DEF AtMost
  <2>3. AtMost(MaxU, p) = p
    BY <1>2, <1>6, <2>2, AtMostIs
  <2>4. p \in Nat /\ p <= MaxU /\ N = p
    BY <1>1, <1>6, <1>8, <2>2, <2>3
  <2> QED
    BY <1>8, <2>4 DEF p, W, count, N
<1> QED
  BY <1>7, <1>8

(* and every list of words with one to capitalize, or none. *)
LEMMA WordsReached ==
    ASSUME ContextOfRun, NEW n, OwnWordList(n), NumberOf[n] <= MaxU
    PROVE  Reaches(n, Write(context)[n], NodeSize(context)[n].n)
<1> DEFINE W == WordSize(context, n.hash).n
           count == n.count
           p == Power(W)[count]
           N == NodeSize(context)[n].n
           NW == NamedWords(n.hash)
           ups(d) == {k \in 1 .. count : d[k].upper}
           L == {d \in [1 .. count -> [word : NW, upper : BOOLEAN]] :
                    Cardinality(ups(d)) = (IF n.upper THEN 1 ELSE 0)}
           bases == Repeated(count, W)
<1>1. n \in Node /\ n.kind = "words"
  BY DEF OwnWordList
<1>2. /\ W \in 1 .. MaxU /\ count \in 1 .. MaxCount /\ n.upper \in BOOLEAN /\ N \in 1 .. MaxU
  BY WordPartsAre
<1>3. p \in Nat /\ p <= MaxU /\ N = IF n.upper THEN p * count ELSE p
  BY WordsFit
<1>4. MaxU \in Nat /\ W \in Nat /\ count \in Nat /\ count # 0
  <2> HIDE DEF W, count
  <2> QED
    BY <1>2, WidthAssumption
<1>5. Language[n] = {n.kind} \X L
  <2>1. Language[n] = LanguageAt(Language, n)
    BY <1>1, LanguageIs
  <2>2. LanguageAt(Language, n) = {"words"} \X L
    BY <1>1 DEF LanguageAt
  <2> QED
    BY <1>1, <2>1, <2>2
<1>6. ASSUME NEW capital
      PROVE  /\ PartsOf(bases, WordParts(n, capital), count, WordLangs(n, capital), WordLengths(n, capital))
             /\ AreReached(bases, WordParts(n, capital), count, WordLangs(n, capital))
             /\ \A x : WriteWordsAt(context, n, capital, x) = WriteParts(x, bases, WordParts(n, capital))
             /\ \A k \in 1 .. count : WordLangs(n, capital)[k] = [word : NW, upper : {k = capital}]
  <2>1. /\ PartsOf(bases, WordParts(n, capital), count, WordLangs(n, capital), WordLengths(n, capital))
        /\ AreReached(bases, WordParts(n, capital), count, WordLangs(n, capital))
    BY WordPartsAre
  <2>2. \A x : WriteWordsAt(context, n, capital, x) = WriteParts(x, bases, WordParts(n, capital))
    BY DEF WriteWordsAt, Repeated, WordParts
  <2>3. \A k \in 1 .. count : WordLangs(n, capital)[k] = [word : NW, upper : {k = capital}]
    BY DEF WordLangs
  <2> QED
    BY <2>1, <2>2, <2>3
<1>7. IsExact(Power(W), bases, count)
  <2> HIDE DEF W, count
  <2>1. Power(W)[0] = 1
    BY <1>4, PowerIs
  <2>2. \A k \in 0 .. count : Power(W)[k] \in Nat
    BY <1>4, PowerNext
  <2>3. ASSUME NEW k \in 1 .. count
        PROVE  Power(W)[k] = Power(W)[k - 1] * bases[k]
    <3>1. k \in Nat /\ k # 0 /\ bases[k] = W
      BY DEF Repeated
    <3>2. Power(W)[k] = Power(W)[k - 1] * W
      BY <1>4, <3>1, PowerNext
    <3> QED
      BY <3>1, <3>2
  <2> HIDE DEF bases
  <2> QED
    BY <2>1, <2>2, <2>3 DEF IsExact
<1> SUFFICES ASSUME NEW d \in L
             PROVE  \E i \in 0 .. N - 1 : IsWriting(Writing(n, i)) /\ Writing(n, i).out = d
  <2> HIDE DEF L, N
  <2>1. Reaches(n, Write(context)[n], N)
    BY <1>1, <1>2, <1>5, ReachesIf
  <2> QED
    BY <2>1 DEF N
(* The word to capitalize, and the index of the words *)
<1>8. /\ d = [k \in 1 .. count |-> d[k]] /\ IsFiniteSet(ups(d))
      /\ Cardinality(ups(d)) = (IF n.upper THEN 1 ELSE 0)
      /\ \A k \in 1 .. count : d[k] \in [word : NW, upper : BOOLEAN]
  <2>1. IsFiniteSet(1 .. count)
    BY <1>4, FS_Interval
  <2>2. ups(d) \subseteq 1 .. count
    OBVIOUS
  <2>3. IsFiniteSet(ups(d))
    <3> HIDE DEF ups
    <3> QED
      BY <2>1, <2>2, FS_Subset
  <2> QED
    BY <2>3
<1> HIDE DEF W, count, p, N, NW, L, bases
<1>9. PICK c \in 0 .. count : (n.upper <=> c \in 1 .. count) /\ \A k \in 1 .. count : d[k].upper <=> k = c
  <2>1. CASE n.upper
    <3>1. Cardinality(ups(d)) = 1 /\ IsFiniteSet(ups(d))
      BY <1>8, <2>1
    <3> DEFINE S == ups(d)
    <3>2. PICK c : S = {c}
      <4> HIDE DEF S
      <4> QED
        BY <3>1, FS_Singleton DEF S
    <3>3. c \in 1 .. count
      BY <3>2
    <3>4. \A k \in 1 .. count : d[k].upper <=> k = c
      BY <3>2
    <3>5. c \in 0 .. count
      BY <1>4, <3>3
    <3> QED
      BY <2>1, <3>3, <3>4, <3>5
  <2>2. CASE ~ n.upper
    <3>1. Cardinality(ups(d)) = 0 /\ IsFiniteSet(ups(d))
      BY <1>8, <2>2
    <3> DEFINE S == ups(d)
    <3>2. S = {}
      <4> HIDE DEF S
      <4> QED
        BY <3>1, FS_EmptySet DEF S
    <3>3. \A k \in 1 .. count : ~ d[k].upper
      BY <3>2
    <3>4. 0 \in 0 .. count /\ ~ (0 \in 1 .. count) /\ \A k \in 1 .. count : k # 0
      BY <1>4
    <3> QED
      BY <2>2, <3>3, <3>4
  <2> QED
    BY <2>1, <2>2
<1> HIDE DEF ups
<1> DEFINE parts == WordParts(n, c)
           langs == WordLangs(n, c)
           lengths == WordLengths(n, c)
<1>10. /\ PartsOf(bases, parts, count, langs, lengths) /\ AreReached(bases, parts, count, langs)
       /\ \A x : WriteWordsAt(context, n, c, x) = WriteParts(x, bases, parts)
       /\ \A k \in 1 .. count : langs[k] = [word : NW, upper : {k = c}]
  BY <1>6
<1> HIDE DEF parts, langs, lengths
<1>11. ASSUME NEW k \in 1 .. count
       PROVE  d[k] \in langs[k]
  <2> DEFINE w == d[k]
  <2>1. w \in [word : NW, upper : BOOLEAN] /\ (w.upper <=> k = c)
    BY <1>8, <1>9
  <2> HIDE DEF w
  <2>2. w = [word |-> w.word, upper |-> w.upper] /\ w.word \in NW /\ w.upper \in BOOLEAN
    BY <2>1
  <2>3. w.upper = (k = c)
    BY <2>1, <2>2, Zenon
  <2>4. w \in [word : NW, upper : {k = c}]
    BY <2>2, <2>3
  <2> QED
    BY <1>10, <2>4 DEF w
<1>12. PICK x \in 0 .. MaxU : x < Power(W)[count] /\ WriteParts(x, bases, parts).out = d
  <2>1. Power(W)[count] <= MaxU
    BY <1>3 DEF p
  <2>2. IsChoice(d, langs, count)
    BY <1>8, <1>11 DEF IsChoice
  <2> QED
    BY <1>4, <1>7, <1>10, <2>1, <2>2, PartsAreReached, SMTT(30)
<1>13. x \in Nat /\ x < p
  BY <1>4, <1>12 DEF p
<1>14. \E i \in 0 .. N - 1 : Capital(n, i) = c /\ AfterCapital(n, i) = x
  <2>1. CASE n.upper
    <3> DEFINE i == x * count + (c - 1)
               y == x * count
               z == p * count
    <3>1. c \in 1 .. count /\ N = z
      BY <1>3, <1>9, <2>1
    <3>2. y \in Nat /\ z \in Nat /\ y + count <= z
      <4>1. x + 1 \in Nat /\ x + 1 <= p
        BY <1>3, <1>13
      <4>2. (x + 1) * count <= p * count
        BY <1>3, <1>4, <4>1, TimesRises
      <4>3. (x + 1) * count = x * count + count
        BY <1>4, <1>13
      <4> QED
        BY <1>3, <1>4, <1>13, <4>2, <4>3, TimesIs
    <3>3. i = y + (c - 1)
      OBVIOUS
    <3> HIDE DEF y, z, i
    <3>4. i \in Nat /\ i \in 0 .. N - 1 /\ c - 1 \in 0 .. count - 1
      BY <1>4, <3>1, <3>2, <3>3
    <3>5. /\ i % count \in 0 .. count - 1 /\ i \div count \in Nat
          /\ i = (i \div count) * count + (i % count)
      BY <1>4, <3>4, Division
    <3> DEFINE f == i % count
               g == i \div count
    <3>6. x * count + (c - 1) = g * count + f
      BY <3>3, <3>5 DEF y
    <3>7. f \in 0 .. count - 1 /\ g \in Nat
      BY <3>5
    <3> HIDE DEF f, g
    <3>8. x = g /\ c - 1 = f
      BY <1>4, <1>13, <3>4, <3>6, <3>7, DivisionIsUnique
    <3>9. f + 1 = c
      BY <3>1, <3>8
    <3>10. Capital(n, i) = f + 1 /\ AfterCapital(n, i) = g
      BY <2>1 DEF Capital, AfterCapital, f, g, count
    <3> QED
      BY <3>4, <3>8, <3>9, <3>10
  <2>2. CASE ~ n.upper
    <3>1. x \in 0 .. N - 1
      BY <1>2, <1>3, <1>4, <1>13, <2>2
    <3>2. c = 0
      BY <1>4, <1>9, <2>2
    <3>3. Capital(n, x) = 0 /\ AfterCapital(n, x) = x
      BY <2>2 DEF Capital, AfterCapital
    <3> QED
      BY <3>1, <3>2, <3>3
  <2> QED
    BY <2>1, <2>2
<1>15. PICK i \in 0 .. N - 1 : Capital(n, i) = c /\ AfterCapital(n, i) = x
  BY <1>14
<1>16. Writing(n, i) = WriteParts(x, bases, parts)
  <2>1. Writing(n, i) = WriteWordsAt(context, n, Capital(n, i), AfterCapital(n, i))
    BY CapitalOfWords DEF N
  <2> QED
    BY <1>10, <1>15, <2>1
<1>17. IsWriting(Writing(n, i)) /\ Writing(n, i).out = d
  BY <1>12, <1>16, Writings
<1> QED
  BY <1>17

(* So every derivation of a schema with no more of them than there are      *)
(* indexes is written for one.                                              *)
LEMMA SchemaReached ==
    ASSUME ContextOfRun, NEW n \in Node, OwnWords(n), Fits(n), NodeSize(context)[n].panic = "none",
           NumberOf[n] <= MaxU
    PROVE  Reaches(n, Write(context)[n], NodeSize(context)[n].n)
<1> DEFINE Good(m) == NodeSize(context)[m].panic = "none" /\ NumberOf[m] <= MaxU =>
                          Reaches(m, Write(context)[m], NodeSize(context)[m].n)
           S == {m \in Node : OwnWords(m) /\ Fits(m) => Good(m)}
<1>1. ASSUME NEW m \in Node, \A p \in Parts(m) : p \in S
      PROVE  m \in S
  <2> SUFFICES ASSUME OwnWords(m), Fits(m), NodeSize(context)[m].panic = "none", NumberOf[m] <= MaxU
               PROVE  Reaches(m, Write(context)[m], NodeSize(context)[m].n)
    OBVIOUS
  <2>1. \A p \in Parts(m) : p \in Node /\ OwnWords(p) /\ Fits(p)
    BY PartsAreWithin DEF OwnWords, Fits
  <2>2. \A p \in Parts(m) : NodeSize(context)[p].panic = "none" =>
            /\ Enumerates(p, Write(context)[p], NodeSize(context)[p].n) /\ Counted(p)
            /\ NumberOf[p] <= MaxU => Reaches(p, Write(context)[p], NodeSize(context)[p].n)
    BY <1>1, <2>1, SchemaWritten, SchemaCounted
  <2>3. CASE m.kind \in {"literal", "chars"}
    BY <2>3, LeavesReached
  <2>4. CASE m.kind = "list"
    BY <2>2, <2>4, ListReached
  <2>5. CASE m.kind = "count"
    <3>1. Powers(MaxU + 1, NumberOf[m.item])[m.max + 1] <= MaxU
      BY <2>5, PartsAreWithin DEF Fits
    <3> QED
      BY <2>2, <2>5, <3>1, CountReached
  <2>6. CASE m.kind = "word"
    BY <2>6, WordReached
  <2>7. CASE m.kind = "words"
    <3>1. HashOf(context, m.hash) = context.default
      BY <2>7, PartsAreWithin DEF OwnWords
    <3> QED
      BY <2>7, <3>1, WordsReached DEF OwnWordList
  <2>8. CASE m.kind = "unknown"
    <3>1. NodeSize(context)[m] = Panics("unknown generator")
      BY <2>8, SizeHere DEF SizeAt
    <3>2. Panics("unknown generator").panic # "none"
      BY DEF Panics
    <3> QED
      BY <3>1, <3>2
  <2>9. IsNode(m)
    BY NodeIs
  <2> QED
    BY <2>3, <2>4, <2>5, <2>6, <2>7, <2>8, <2>9 DEF IsNode
<1>2. Node \subseteq S
  <2> HIDE DEF S
  <2> QED
    BY <1>1, TreeInduction
<1> QED
  BY <1>2

-----------------------------------------------------------------------------
(* The run *)

(* What the size and the write of this run come to *)
Measured == NodeSize(context)[schema]
Password == Write(context)[schema][index]

(* The inductive invariant: what each variable is, of start and index alone *)
IInv ==
    /\ ContextOfRun
    /\ \/ /\ pc \in {"words", "size"}
          /\ size = 0 /\ index = 0 /\ out = <<>> /\ panic = "none"
       \/ /\ pc \in {"sample", "write", "done", "too long"}
          /\ Measured.panic = "none" /\ size = Measured.n /\ panic = "none"
          /\ IF pc = "sample" THEN index = 0 ELSE index \in 0 .. (size - 1)
          /\ IF pc = "done" THEN out = Password.out ELSE out = <<>>
          /\ pc = "done" => Password.panic = "none" /\ ~ Overflows(Password.len)
          /\ pc = "too long" => Overflows(Password.len)
       \/ /\ pc = "panic" /\ panic # "none"
          /\ \/ Measured.panic # "none" /\ size = 0 /\ index = 0
             \/ /\ Measured.panic = "none" /\ size = Measured.n
                /\ index \in 0 .. (size - 1) /\ Password.panic # "none"

(* IInv is inductive: it holds in the beginning, *)
LEMMA IInvInit == Init => IInv
BY DEF Init, IInv, ContextOfRun

(* A step that is not LoadWords leaves the context what it is. *)
LEMMA ContextStays ==
    ASSUME ContextOfRun, pc # "words", pc' # "words", UNCHANGED <<start, context>>
    PROVE  ContextOfRun' /\ Measured' = Measured
<1>1. WordsFile' = WordsFile
  BY DEF WordsFile
<1>2. ContextOfRun'
  BY <1>1 DEF ContextOfRun
<1>3. Measured' = Measured
  BY DEF Measured, schema
<1> QED
  BY <1>2, <1>3

(* What is measured is a number or a panic. *)
LEMMA MeasuredIs ==
    ASSUME ContextOfRun
    PROVE  schema \in Node /\ Measured \in Sizes
<1>1. schema \in Node
  BY StartAssumption DEF ContextOfRun, schema
<1> QED
  BY <1>1, SizeHere DEF Measured

(* and of every step's end if of its beginning; *)
LEMMA IInvNext == IInv /\ [Next]_vars => IInv'
<1> SUFFICES ASSUME IInv, [Next]_vars PROVE IInv'
  OBVIOUS
<1>1. CASE LoadWords
  <2>1. pc = "words" /\ pc' = "size" /\ UNCHANGED <<start, size, index, out, panic>>
    BY <1>1 DEF LoadWords
  <2>2. WordsFile' = WordsFile /\ start \in Starts
    BY <2>1 DEF WordsFile, IInv, ContextOfRun
  <2>3. ContextOfRun'
    BY <1>1, <2>1, <2>2 DEF ContextOfRun, LoadWords
  <2> QED
    BY <2>1, <2>3 DEF IInv
<1>2. CASE Measure
  <2>1. /\ pc = "size" /\ pc' \in {"sample", "panic"} /\ UNCHANGED <<start, context, index, out>>
        /\ size' = Measured.n /\ panic' = Measured.panic
        /\ pc' = IF panic' = "none" THEN "sample" ELSE "panic"
    BY <1>2 DEF Measure, Measured
  <2>2. ContextOfRun /\ index = 0 /\ out = <<>>
    BY <2>1 DEF IInv
  <2>3. ContextOfRun' /\ Measured' = Measured
    BY <2>1, <2>2, ContextStays
  <2>4. Measured \in Sizes
    BY <2>2, MeasuredIs
  <2>5. Measured.panic # "none" => Measured.n = 0
    BY <2>4 DEF Sizes
  <2> QED
    BY <2>1, <2>2, <2>3, <2>5 DEF IInv
<1>3. CASE Sample
  <2>1. /\ pc = "sample" /\ pc' = "write" /\ UNCHANGED <<start, context, size, out, panic>>
        /\ index' \in 0 .. (size - 1)
    BY <1>3 DEF Sample
  <2>2. ContextOfRun' /\ Measured' = Measured
    BY <2>1, ContextStays DEF IInv
  <2> QED
    BY <2>1, <2>2 DEF IInv
<1>4. CASE WritePassword
  <2>1. /\ pc = "write" /\ UNCHANGED <<start, context, size, index>>
        /\ IF Overflows(Password.len) THEN pc' = "too long" /\ UNCHANGED <<out, panic>>
           ELSE /\ out' = Password.out /\ panic' = Password.panic
                /\ pc' = IF Password.panic = "none" THEN "done" ELSE "panic"
    BY <1>4 DEF WritePassword, Password
  <2>2. /\ Measured.panic = "none" /\ size = Measured.n /\ panic = "none" /\ out = <<>>
        /\ index \in 0 .. (size - 1) /\ ContextOfRun
    BY <2>1 DEF IInv
  <2>3. ContextOfRun' /\ Measured' = Measured
    BY <2>1, <2>2, ContextStays
  <2>4. Password' = Password
    BY <2>1 DEF Password, schema
  <2>5. Overflows(Password.len)' <=> Overflows(Password.len)
    BY <2>4 DEF Overflows
  <2>6. CASE Overflows(Password.len)
    BY <2>1, <2>2, <2>3, <2>5, <2>6 DEF IInv
  <2>7. CASE ~ Overflows(Password.len) /\ Password.panic = "none"
    BY <2>1, <2>2, <2>3, <2>4, <2>5, <2>7 DEF IInv
  <2>8. CASE ~ Overflows(Password.len) /\ Password.panic # "none"
    BY <2>1, <2>2, <2>3, <2>4, <2>8 DEF IInv
  <2> QED
    BY <2>6, <2>7, <2>8
<1>5. CASE UNCHANGED vars
  BY <1>5 DEF vars, IInv, ContextOfRun, WordsFile, Measured, Password, schema, Overflows
<1> QED
  BY <1>1, <1>2, <1>3, <1>4, <1>5 DEF Next

(* so it holds throughout. *)
LEMMA IInvHolds == Spec => []IInv
BY IInvInit, IInvNext, PTL DEF Spec

(* Every variable has its type, whatever the schema and the word lists are: *)
(* in particular an index below the size is drawn before it is written.     *)
THEOREM Typing == Spec => []TypeOK
<1>1. IInv => TypeOK
  <2> SUFFICES ASSUME IInv PROVE TypeOK
    OBVIOUS
  <2>1. ContextOfRun
    BY DEF IInv
  <2>2. WordsFile \in Sources \cup {None}
    BY <2>1, ListsOfTheRun DEF ContextOfRun
  <2>3. Eff.hash \in DOMAIN context.dict /\ context.default \in DOMAIN context.dict
    BY <2>1, ContextLists
  <2>4. schema.kind \in {"literal", "chars", "list", "count", "word", "words", "unknown"}
    BY <2>1, MeasuredIs, NodeIs DEF IsNode
  <2>5. pc \in {"words", "size", "sample", "write", "done", "too long", "panic"}
    BY DEF IInv
  <2>6. Measured.n \in 0 .. MaxU /\ MaxU \in Nat
    <3>1. Measured \in Sizes
      BY <2>1, MeasuredIs
    <3> QED
      BY <3>1, SizeIs, WidthAssumption DEF Sizes
  <2>7. size \in 0 .. MaxU
    <3> DEFINE n == Measured.n
    <3>1. size = 0 \/ size = n
      BY DEF IInv
    <3> HIDE DEF n
    <3> QED
      BY <2>6, <3>1 DEF n
  <2>8. index \in 0 .. MaxU /\ (pc \in {"write", "done", "too long"} => index < size)
    <3>1. /\ index = 0 \/ index \in 0 .. (size - 1)
          /\ pc \in {"write", "done", "too long"} => index \in 0 .. (size - 1)
      BY DEF IInv
    <3>2. MaxU \in Nat /\ size \in 0 .. MaxU
      BY <2>6, <2>7
    <3>3. ASSUME index \in 0 .. (size - 1)
          PROVE  index < size /\ index \in 0 .. MaxU
      BY ONLY <3>2, <3>3
    <3>4. 0 \in 0 .. MaxU
      BY <3>2
    <3> QED
      BY <3>1, <3>3, <3>4, Zenon
  <2>9. pc = "panic" <=> panic # "none"
    BY DEF IInv
  <2> QED
    BY <2>2, <2>3, <2>4, <2>5, <2>7, <2>8, <2>9 DEF TypeOK
<1> QED
  BY <1>1, IInvHolds, PTL

(* The hash of a list stands for its words: Dict sorts, removes what is     *)
(* there twice and escapes, so that two lists have the same hash exactly if *)
(* they have the same words, whatever bytes the words have.                 *)
THEOREM HashesNameTheWords == Spec => []HashNamesTheWords
<1>1. IInv => HashNamesTheWords
  <2> SUFFICES ASSUME IInv, pc = "size"
               PROVE  /\ \A h \in DOMAIN context.dict :
                            \A list \in HashedLists : h = list[1] <=> ToSet(context.dict[h]) = list[2]
                      /\ WordsFile # None => ToSet(context.dict[context.default]) = WordsIn(WordsFile)
    BY DEF HashNamesTheWords
  <2>1. ContextOfRun
    BY DEF IInv
  <2>2. \A h \in DOMAIN context.dict :
           \A list \in HashedLists : h = list[1] <=> ToSet(context.dict[h]) = list[2]
    BY <2>1, HashesName
  <2>3. ASSUME WordsFile # None
        PROVE  ToSet(context.dict[context.default]) = WordsIn(WordsFile)
    <3> DEFINE s == WordsFile
               h == context.default
    <3>1. s \in Sources
      BY <2>1, <2>3, ListsOfTheRun DEF ContextOfRun
    <3>2. h = Load(s).hash /\ h \in DOMAIN context.dict
      BY <2>1, <2>3, ContextLists
    <3>3. <<Load(s).hash, WordsIn(s)>> \in HashedLists
      BY <3>1 DEF HashedLists
    <3> HIDE DEF h, s
    <3> QED
      BY <2>2, <3>2, <3>3 DEF h, s
  <2> QED
    BY <2>2, <2>3
<1> QED
  BY <1>1, IInvHolds, PTL

(* Once a schema is measured, its password is written: no assertion of      *)
(* write_to fails, and what is written is of the schema's language, also    *)
(* where the size saturated.                                                *)
THEOREM MeasuredSchemasAreWritten == Spec => []MeasuredIsWritten
<1>1. IInv => MeasuredIsWritten
  <2> SUFFICES ASSUME IInv, OwnWords(schema)
               PROVE  /\ pc = "panic" => size = 0
                      /\ pc = "done" => out \in Language[schema]
    BY DEF MeasuredIsWritten
  <2>1. ContextOfRun /\ schema \in Node
    BY MeasuredIs DEF IInv
  <2>2. ASSUME Measured.panic = "none", size = Measured.n, index \in 0 .. (size - 1)
        PROVE  Prints(schema, Password)
    BY <2>1, <2>2, SchemaWritten DEF Enumerates, Measured, Password
  <2>3. ASSUME pc = "panic", size # 0
        PROVE  FALSE
    BY <2>2, <2>3 DEF IInv, Prints
  <2>4. ASSUME pc = "done"
        PROVE  out \in Language[schema]
    BY <2>2, <2>4 DEF IInv, Prints
  <2> QED
    BY <2>3, <2>4
<1> QED
  BY <1>1, IInvHolds, PTL

(* Measuring panics exactly where a part of the schema has no words or is   *)
(* out of range: the recursion passes on every panic, and has no other.     *)
THEOREM OnlyTheUncountablePanics == Spec => []PanicsAreDeserved
<1>1. IInv => PanicsAreDeserved
  <2> SUFFICES ASSUME IInv
               PROVE  /\ pc = "sample" => HasWords(schema) /\ (Fits(schema) => CountsInRange(schema))
                      /\ pc = "panic" /\ size = 0 /\ HasWords(schema) /\ Fits(schema) =>
                            ~ CountsInRange(schema)
    BY DEF PanicsAreDeserved
  <2>1. ContextOfRun /\ schema \in Node /\ Measured \in Sizes
    BY MeasuredIs DEF IInv
  <2>2. /\ Measured.panic = "none" => HasWords(schema)
        /\ HasWords(schema) /\ Fits(schema) => (Measured.panic = "none" <=> CountsInRange(schema))
    BY <2>1, SchemaHasWords, SchemaMeasured DEF Measured
  <2>3. pc = "sample" => Measured.panic = "none"
    BY DEF IInv
  <2>4. pc = "panic" /\ size = 0 => Measured.panic # "none"
    BY <2>1 DEF IInv, Sizes
  <2> QED
    BY <2>2, <2>3, <2>4
<1> QED
  BY <1>1, IInvHolds, PTL

(* A password that is written fits the buffer, and one that is refused does *)
(* not: its length is that of its derivation, and nothing of it comes out.  *)
THEOREM PasswordsAreWhole == Spec => []WholeOrNothing
<1>1. IInv => WholeOrNothing
  <2> SUFFICES ASSUME IInv, OwnWords(schema)
               PROVE  /\ pc = "done" => LengthOf[schema][out] <= BufferSize
                      /\ pc = "too long" =>
                           out = <<>> /\ LengthOf[schema][Password.out] > BufferSize
    BY DEF WholeOrNothing, Password
  <2>1. ContextOfRun /\ schema \in Node
    BY MeasuredIs DEF IInv
  <2>2. ASSUME Measured.panic = "none", size = Measured.n, index \in 0 .. (size - 1)
        PROVE  Password.len = LengthOf[schema][Password.out] /\ Password.len \in Nat
    <3>1. Prints(schema, Password)
      BY <2>1, <2>2, SchemaWritten DEF Enumerates, Measured, Password
    <3> QED
      BY <3>1 DEF Prints
  <2> DEFINE m == LengthOf[schema][out]
             l == LengthOf[schema][Password.out]
  <2>3. ASSUME pc = "done"
        PROVE  m <= BufferSize
    <3>1. /\ Measured.panic = "none" /\ size = Measured.n /\ index \in 0 .. (size - 1)
          /\ out = Password.out /\ ~ Overflows(Password.len)
      BY <2>3 DEF IInv
    <3>2. m \in Nat /\ ~ Overflows(m)
      BY <2>2, <3>1
    <3> HIDE DEF m
    <3> QED
      BY <3>2, WidthAssumption DEF Overflows
  <2>4. ASSUME pc = "too long"
        PROVE  out = <<>> /\ l > BufferSize
    <3>1. /\ Measured.panic = "none" /\ size = Measured.n /\ index \in 0 .. (size - 1)
          /\ out = <<>> /\ Overflows(Password.len)
      BY <2>4 DEF IInv
    <3>2. Overflows(l)
      BY <2>2, <3>1
    <3> HIDE DEF l
    <3> QED
      BY <3>1, <3>2 DEF Overflows
  <2> QED
    BY <2>3, <2>4
<1> QED
  BY <1>1, IInvHolds, PTL

(* Where no count's closed form saturates, the size is the number of the    *)
(* schema's derivations, or the greatest number where there are more.       *)
THEOREM SizesCountPasswords == Spec => []SizeCountsPasswords
<1>1. IInv => SizeCountsPasswords
  <2> SUFFICES ASSUME IInv, pc = "sample", Fits(schema)
               PROVE  size = IF NumberOf[schema] > MaxU THEN MaxU ELSE NumberOf[schema]
    BY DEF SizeCountsPasswords
  <2>1. ContextOfRun /\ schema \in Node /\ Measured.panic = "none" /\ size = Measured.n
    BY MeasuredIs DEF IInv
  <2>2. Counted(schema)
    BY <2>1, SchemaCounted DEF Measured
  <2> QED
    BY <2>1, <2>2 DEF Counted, AtMost, Measured
<1> QED
  BY <1>1, IInvHolds, PTL

(* The indexes below the size are as many passwords of the schema as it     *)
(* has derivations: none is written for two indexes.                        *)
THEOREM EveryPasswordIsWrittenOnce == Spec => []EveryPasswordOnce
<1>1. IInv => EveryPasswordOnce
  <2> DEFINE passwords == {Write(context)[schema][i].out : i \in 0 .. (size - 1)}
  <2> SUFFICES ASSUME IInv, pc = "sample", Fits(schema), OwnWords(schema), NumberOf[schema] <= MaxU
               PROVE  passwords \subseteq Language[schema] /\ Cardinality(passwords) = NumberOf[schema]
    BY DEF EveryPasswordOnce
  <2>1. ContextOfRun /\ schema \in Node /\ Measured.panic = "none" /\ size = Measured.n
    BY MeasuredIs DEF IInv
  <2>2. size = NumberOf[schema] /\ size \in Nat
    <3>1. Counted(schema)
      BY <2>1, SchemaCounted DEF Measured
    <3> QED
      BY <2>1, <3>1, WidthAssumption DEF Counted, AtMost, Measured
  <2>3. Enumerates(schema, Write(context)[schema], size)
    BY <2>1, SchemaWritten DEF Measured
  <2> DEFINE write == Write(context)[schema]
             I == 0 .. (size - 1)
             f == [i \in I |-> write[i].out]
  <2>4. /\ \A i \in I : write[i].out \in Language[schema]
        /\ \A i, j \in I : write[i].out = write[j].out => i = j
    BY <2>3 DEF Enumerates, Prints
  <2>5. passwords = {write[i].out : i \in I}
    OBVIOUS
  <2> HIDE DEF write, I, passwords
  <2>6. passwords \subseteq Language[schema]
    BY <2>4, <2>5
  <2>7. f \in Bijection(I, passwords)
    <3>1. f \in [I -> passwords] /\ \A t \in passwords : \E i \in I : f[i] = t
      BY <2>5
    <3>2. \A i, j \in I : f[i] = f[j] => i = j
      BY <2>4
    <3> HIDE DEF f
    <3> QED
      BY <3>1, <3>2 DEF Bijection, Injection, Surjection, IsInjective
  <2>8. IsFiniteSet(I) /\ Cardinality(I) = size
    <3>1. 0 \in Int /\ size - 1 \in Int
      BY <2>2
    <3>2. IsFiniteSet(0 .. size - 1) /\ Cardinality(0 .. size - 1)
              = IF 0 > size - 1 THEN 0 ELSE (size - 1) - 0 + 1
      BY ONLY <3>1, FS_Interval
    <3> QED
      BY <2>2, <3>2 DEF I
  <2>9. Cardinality(passwords) = Cardinality(I)
    <3>1. ExistsBijection(I, passwords)
      BY <2>7 DEF ExistsBijection
    <3> QED
      BY <2>8, <3>1, FS_Bijection
  <2> QED
    BY <2>2, <2>6, <2>8, <2>9
<1> QED
  BY <1>1, IInvHolds, PTL

(* The passwords of the indexes below the size are the schema's language,   *)
(* all of it: no password is out of reach, and NumberOf, which multiplies   *)
(* and adds, is the number of derivations there are. (node.rs 74-125)       *)
NoPasswordOutOfReach ==
    pc = "sample" /\ Fits(schema) /\ OwnWords(schema) /\ NumberOf[schema] <= MaxU =>
        /\ {Write(context)[schema][i].out : i \in 0 .. (size - 1)} = Language[schema]
        /\ IsFiniteSet(Language[schema]) /\ NumberOf[schema] = Cardinality(Language[schema])

(* Every derivation has an index: write_to undoes what size counts.         *)
THEOREM EveryDerivationIsWritten == Spec => []NoPasswordOutOfReach
<1>1. ASSUME IInv, pc = "sample", Fits(schema), OwnWords(schema), NumberOf[schema] <= MaxU,
             EveryPasswordOnce
      PROVE  /\ {Write(context)[schema][i].out : i \in 0 .. (size - 1)} = Language[schema]
             /\ IsFiniteSet(Language[schema]) /\ NumberOf[schema] = Cardinality(Language[schema])
  <2> DEFINE write == Write(context)[schema]
             I == 0 .. (size - 1)
             passwords == {write[i].out : i \in I}
             f == [i \in I |-> write[i].out]
  <2>1. ContextOfRun /\ schema \in Node /\ Measured.panic = "none" /\ size = Measured.n
    BY <1>1, MeasuredIs DEF IInv
  <2>2. Reaches(schema, write, size)
    BY <1>1, <2>1, SchemaReached DEF Measured
  <2>3. passwords \subseteq Language[schema] /\ Cardinality(passwords) = NumberOf[schema]
    BY <1>1 DEF EveryPasswordOnce
  <2>4. size \in Int
    <3>1. Measured \in Sizes
      BY <2>1, MeasuredIs
    <3>2. Measured.n \in 0 .. MaxU
      BY <3>1 DEF Sizes
    <3> QED
      BY <2>1, <3>2
  <2>5. Language[schema] \subseteq passwords
    BY <2>2 DEF Reaches
  <2>6. IsFiniteSet(passwords)
    <3>1. IsFiniteSet(I)
      BY <2>4, FS_Interval
    <3> HIDE DEF write, I
    <3>2. f \in Surjection(I, passwords)
      BY DEF Surjection
    <3> QED
      BY <3>1, <3>2, FS_Surjection
  <2>7. passwords = Language[schema]
    BY <2>3, <2>5
  <2> HIDE DEF passwords
  <2>8. IsFiniteSet(Language[schema]) /\ NumberOf[schema] = Cardinality(Language[schema])
    BY <2>3, <2>6, <2>7
  <2> QED
    BY <2>7, <2>8 DEF passwords
<1>2. IInv /\ EveryPasswordOnce => NoPasswordOutOfReach
  BY <1>1 DEF NoPasswordOutOfReach
<1> QED
  BY <1>2, IInvHolds, EveryPasswordIsWrittenOnce, PTL

================================================================================

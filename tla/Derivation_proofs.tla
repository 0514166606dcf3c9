--------------------------- MODULE Derivation_proofs ---------------------------
(*****************************************************************************)
(* Proofs about schemas as text, for any characters and any sites: what the  *)
(* parser accepts is a node that the other modules can take for granted,     *)
(* tidy schemas are read as they are written, and the fields of a site can   *)
(* be told from the text that its salt is made of.                           *)
(*****************************************************************************)
EXTENDS Derivation, Recursion, FiniteSetTheorems, TLAPS

-----------------------------------------------------------------------------
(* Tokens and characters *)

(* What the characters and the tokens are *)
LEMMA TokensAre ==
    /\ DOMAIN Order = 1 .. Len(Order) /\ Len(Order) \in Nat
    /\ \A i \in DOMAIN Order : Order[i] \in Character
    /\ Syntax \cup {",", "-", ":", "_", Tab} \subseteq Character
    /\ Character \subseteq Token
    /\ Token \ Alphanumeric \subseteq Character
    /\ LowerLetters \subseteq Character /\ UpperLetters \subseteq Character
    /\ Digit \subseteq Character /\ HexOf[Tab] \in Token /\ Hashes \subseteq Token
    /\ NoToken \notin Token /\ PosixNames \subseteq Token /\ "t" \in Token /\ "x" \in Token
<1>1. Order \in Seq(Character)
  BY OrderAssumption
<1>2. DOMAIN Order = 1 .. Len(Order) /\ Len(Order) \in Nat /\ \A i \in DOMAIN Order : Order[i] \in Character
  BY <1>1
<1>3. Syntax \cup {",", "-", ":", "_"} \subseteq Character /\ Tab \in Character
  BY OrderAssumption, Zenon DEF Punctuation
<1>4. Digit \subseteq Character
  <2>1. Digits \in Seq(Character)
    BY LetterAssumption
  <2>2. DOMAIN Digits = 1 .. Len(Digits) /\ \A i \in DOMAIN Digits : Digits[i] \in Character
    BY <2>1
  <2> QED
    BY <2>2 DEF Digit, ToSet
<1>5. PosixNames \subseteq Names
  BY Zenon DEF Names
<1>6. Character \subseteq Token /\ Names \subseteq Token /\ Hashes \subseteq Token /\ HexOf[Tab] \in Token
  BY Zenon DEF Token
<1>7. Token \ Alphanumeric \subseteq Character
  BY Zenon DEF Token, Alphanumeric, Lower
<1>8. LowerLetters \subseteq Character /\ UpperLetters \subseteq Character /\ "t" \in LowerLetters /\ "x" \in LowerLetters
  BY LetterAssumption, Zenon
<1>9. NoToken \notin Token
  BY OrderAssumption, Zenon
<1>10. Syntax \cup {",", "-", ":", "_", Tab} \subseteq Character
  BY <1>3, Zenon
<1> QED
  BY <1>2, <1>4, <1>5, <1>6, <1>7, <1>8, <1>9, <1>10, Zenon

(* The code of a character is its place in the order. *)
LEMMA CodeIs ==
    ASSUME NEW c \in Character
    PROVE  Code(c) \in DOMAIN Order /\ Order[Code(c)] = c
<1>1. \E i \in DOMAIN Order : Order[i] = c
  BY DEF Character, ToSet
<1> QED
  BY <1>1 DEF Code

(* A set of codes, and not the empty one *)
CodeSets == (SUBSET DOMAIN Order) \ {{}}

(* What a class names is a set of codes. *)
LEMMA CodesOfIs ==
    ASSUME NEW S, S \subseteq Character, S # {}
    PROVE  CodesOf(S) \in CodeSets
<1>1. \A c \in S : Code(c) \in DOMAIN Order
  BY CodeIs
<1> QED
  BY <1>1 DEF CodesOf, CodeSets

(* No class that has a name is empty. *)
LEMMA PosixIs ==
    \A name \in PosixNames : Posix[name] \in CodeSets
<1>1. SUFFICES ASSUME NEW name \in PosixNames
               PROVE  InPosix(name) \subseteq Character /\ InPosix(name) # {}
  BY CodesOfIs DEF Posix
<1>2. LowerLetters # {} /\ UpperLetters # {} /\ LowerLetters \subseteq Character /\ UpperLetters \subseteq Character
  BY LetterAssumption
<1>3. Digit # {} /\ Digit \subseteq Character
  <2>1. Digits \in Seq(Character) /\ Len(Digits) = 10
    BY LetterAssumption
  <2>2. 1 \in DOMAIN Digits
    BY <2>1
  <2> QED
    BY <2>2, TokensAre DEF Digit, ToSet
<1>4. Punctuation \subseteq Character /\ "\\" \in Punctuation /\ "\\" \in Character \ {Tab}
  <2>1. "\\" \in Syntax
    BY DEF Syntax
  <2>2. "\\" \in Punctuation
    BY <2>1, OrderAssumption
  <2> QED
    BY <2>2 DEF Punctuation
<1> DEFINE lower == LowerLetters
           upper == UpperLetters
           digit == Digit
           punct == Punctuation
           print == Character \ {Tab}
           hex == LowerLetters \cap {"a", "b", "c", "d", "e", "f"}
<1>5. hex \subseteq Character
  BY <1>2
<1>6. /\ InPosix("lower") = lower /\ InPosix("upper") = upper /\ InPosix("alpha") = lower \cup upper
      /\ InPosix("alnum") = lower \cup upper \cup digit /\ InPosix("digit") = digit
      /\ InPosix("xdigit") = digit \cup hex /\ InPosix("punct") = punct /\ InPosix("print") = print
  BY DEF InPosix
<1>7. name \in {"lower", "upper", "alpha", "alnum", "digit", "xdigit", "punct", "print"}
  BY DEF PosixNames
<1> HIDE DEF hex
<1> QED
  BY <1>2, <1>3, <1>4, <1>5, <1>6, <1>7

-----------------------------------------------------------------------------
(* Nodes *)

(* f gives the nodes that are nested no deeper than k, for each k up to n. *)
Tower(f, n) == f = [k \in 0 .. n |-> IF k = 0 THEN Leaf ELSE NodesOver(f[k - 1])]

(* Nodes can be nested any number deep. *)
LEMMA TowerExists ==
    ASSUME NEW n \in Nat
    PROVE  \E f : Tower(f, n)
<1> DEFINE S == {m \in 0 .. n : \E f : Tower(f, m)}
<1>1. 0 \in S
  <2>1. Tower([k \in 0 .. 0 |-> Leaf], 0)
    BY DEF Tower
  <2> QED
    BY <2>1
<1>2. ASSUME NEW m \in 1 .. n, m - 1 \in S
      PROVE  m \in S
  <2>1. PICK f : Tower(f, m - 1)
    BY <1>2
  <2> DEFINE g == [k \in 0 .. m |-> IF k = m THEN NodesOver(f[m - 1]) ELSE f[k]]
  <2>2. ASSUME NEW k \in 0 .. m
        PROVE  g[k] = IF k = 0 THEN Leaf ELSE NodesOver(g[k - 1])
    <3>1. CASE k = m
      <4>1. m # 0 /\ m - 1 \in 0 .. m /\ m - 1 # m
        OBVIOUS
      <4>2. g[m - 1] = f[m - 1] /\ g[m] = NodesOver(f[m - 1])
        BY <4>1
      <4> QED
        BY <3>1, <4>1, <4>2, Zenon
    <3>2. CASE k # m
      <4>1. k \in 0 .. m - 1
        BY <3>2
      <4>2. f[k] = IF k = 0 THEN Leaf ELSE NodesOver(f[k - 1])
        BY <2>1, <4>1 DEF Tower
      <4>3. g[k] = f[k]
        BY <3>2
      <4>4. k # 0 => g[k - 1] = f[k - 1]
        BY <4>1
      <4> HIDE DEF g
      <4> QED
        BY <4>2, <4>3, <4>4, Zenon
    <3> QED
      BY <3>1, <3>2
  <2>3. g = [k \in 0 .. m |-> g[k]]
    OBVIOUS
  <2>4. Tower(g, m)
    <3> HIDE DEF g
    <3>1. g = [k \in 0 .. m |-> IF k = 0 THEN Leaf ELSE NodesOver(g[k - 1])]
      BY <2>2, <2>3, Zenon
    <3> QED
      BY <3>1, Zenon DEF Tower
  <2> QED
    BY <2>4
<1>3. 0 .. n \subseteq S
  <2> HIDE DEF S
  <2> QED
    BY <1>1, <1>2, IntervalInduction
<1> QED
  BY <1>3

(* The nodes are built as their definition says. *)
LEMMA NodesToIs == Tower(NodesTo, MaxDepth)
<1>1. \E f : f = [k \in 0 .. MaxDepth |-> IF k = 0 THEN Leaf ELSE NodesOver(f[k - 1])]
  BY TowerExists, DepthAssumption DEF Tower
<1>2. NodesTo = CHOOSE f : f = [k \in 0 .. MaxDepth |-> IF k = 0 THEN Leaf ELSE NodesOver(f[k - 1])]
  BY Zenon DEF NodesTo
<1> QED
  BY <1>1, <1>2, Zenon DEF Tower

(* What a node is made of, if what it is made of is in S *)
MadeOf(n, S) ==
    \/ n.kind \in {"literal", "generator"} /\ n.text \in Seq(Token) \ {<<>>}
    \/ n.kind = "chars" /\ n.ranges \in Seq(CharRange) \ {<<>>}
    \/ n.kind = "count" /\ n.item \in S /\ n.min \in Nat /\ n.max \in Nat
    \/ n.kind = "list" /\ n.items \in Seq(S)

(* A node is one of five kinds. *)
LEMMA MadeOfIs ==
    ASSUME NEW S, NEW n \in NodesOver(S)
    PROVE  MadeOf(n, S)
<1>1. CASE n \in [kind : {"literal", "generator"}, text : Seq(Token) \ {<<>>}]
  BY <1>1 DEF MadeOf
<1>2. CASE n \in [kind : {"chars"}, ranges : Seq(CharRange) \ {<<>>}]
  BY <1>2 DEF MadeOf
<1>3. CASE n \in [kind : {"count"}, item : S, min : Nat, max : Nat]
  BY <1>3 DEF MadeOf
<1>4. CASE n \in [kind : {"list"}, items : Seq(S)]
  BY <1>4 DEF MadeOf
<1> QED
  BY <1>1, <1>2, <1>3, <1>4, Zenon DEF NodesOver, Leaf

(* More to make nodes of makes more nodes. *)
LEMMA NodesOverGrows ==
    ASSUME NEW S, NEW T, S \subseteq T
    PROVE  Leaf \subseteq NodesOver(S) /\ NodesOver(S) \subseteq NodesOver(T)
<1>1. [kind : {"count"}, item : S, min : Nat, max : Nat] \subseteq [kind : {"count"}, item : T, min : Nat, max : Nat]
  OBVIOUS
<1>2. Seq(S) \subseteq Seq(T)
  OBVIOUS
<1>3. [kind : {"list"}, items : Seq(S)] \subseteq [kind : {"list"}, items : Seq(T)]
  BY <1>2
<1> QED
  BY <1>1, <1>3, Zenon DEF NodesOver

(* Deeper nesting allows more nodes. *)
LEMMA TowerGrows ==
    ASSUME NEW n \in Nat, NEW f, Tower(f, n)
    PROVE  \A j \in 0 .. n : Leaf \subseteq f[j] /\ \A i \in 0 .. j : f[i] \subseteq f[j]
<1>1. f[0] = Leaf /\ \A k \in 1 .. n : f[k] = NodesOver(f[k - 1])
  BY DEF Tower
<1> DEFINE S == {k \in 0 .. n : k < n => f[k] \subseteq f[k + 1]}
<1>2. 0 \in S
  <2> SUFFICES ASSUME 0 < n PROVE f[0] \subseteq f[0 + 1]
    OBVIOUS
  <2>1. 1 \in 1 .. n /\ 1 - 1 = 0 /\ 0 + 1 = 1
    OBVIOUS
  <2> QED
    BY <1>1, <2>1, NodesOverGrows
<1>3. ASSUME NEW k \in 1 .. n, k - 1 \in S
      PROVE  k \in S
  <2> SUFFICES ASSUME k < n PROVE f[k] \subseteq f[k + 1]
    OBVIOUS
  <2>1. k - 1 < n /\ (k - 1) + 1 = k /\ k + 1 \in 1 .. n /\ (k + 1) - 1 = k
    OBVIOUS
  <2>2. f[k - 1] \subseteq f[k]
    BY <1>3, <2>1
  <2>3. f[k] = NodesOver(f[k - 1]) /\ f[k + 1] = NodesOver(f[k])
    BY <1>1, <2>1
  <2> QED
    BY <2>2, <2>3, NodesOverGrows
<1>4. 0 .. n \subseteq S
  <2> HIDE DEF S
  <2> QED
    BY <1>2, <1>3, IntervalInduction
<1> DEFINE T == {j \in 0 .. n : \A i \in 0 .. j : f[i] \subseteq f[j]}
<1>5. 0 \in T
  OBVIOUS
<1>6. ASSUME NEW j \in 1 .. n, j - 1 \in T
      PROVE  j \in T
  <2>1. j - 1 \in S /\ j - 1 < n /\ (j - 1) + 1 = j
    BY <1>4
  <2>2. f[j - 1] \subseteq f[j]
    BY <2>1
  <2>3. ASSUME NEW i \in 0 .. j
        PROVE  f[i] \subseteq f[j]
    <3>1. i = j \/ i \in 0 .. j - 1
      OBVIOUS
    <3> QED
      BY <1>6, <2>2, <3>1
  <2> QED
    BY <2>3
<1>7. 0 .. n \subseteq T
  <2> HIDE DEF T
  <2> QED
    BY <1>5, <1>6, IntervalInduction
<1>8. ASSUME NEW j \in 0 .. n
      PROVE  Leaf \subseteq f[j] /\ \A i \in 0 .. j : f[i] \subseteq f[j]
  BY <1>1, <1>7
<1> QED
  BY <1>8

(* How deep the parts of a node are nested at least *)
Level == [n \in Node |-> CHOOSE k \in 0 .. MaxDepth : n \in NodesTo[k] /\ \A j \in 0 .. MaxDepth : n \in NodesTo[j] => k <= j]

(* The parts of a node *)
PartsAreLower(n) ==
    /\ MadeOf(n, Node)
    /\ n.kind = "count" => Level[n.item] < Level[n]
    /\ n.kind = "list" => \A i \in DOMAIN n.items : Level[n.items[i]] < Level[n]

(* What a node is made of is less deep than the node. *)
LEMMA LevelIs ==
    /\ Level \in [Node -> 0 .. MaxDepth]
    /\ \A n \in Node : PartsAreLower(n)
<1>1. MaxDepth \in Nat
  BY DepthAssumption
<1>2. NodesTo[0] = Leaf /\ \A k \in 1 .. MaxDepth : NodesTo[k] = NodesOver(NodesTo[k - 1])
  BY <1>1, NodesToIs DEF Tower
<1>3. \A j \in 0 .. MaxDepth : \A i \in 0 .. j : NodesTo[i] \subseteq NodesTo[j]
  BY <1>1, NodesToIs, TowerGrows, Zenon
<1>4. ASSUME NEW n \in Node
      PROVE  /\ Level[n] \in 0 .. MaxDepth /\ n \in NodesTo[Level[n]]
             /\ \A j \in 0 .. MaxDepth : n \in NodesTo[j] => Level[n] <= j
  <2> DEFINE K == {k \in 0 .. MaxDepth : n \in NodesTo[k]}
  <2>1. K \in SUBSET Nat /\ MaxDepth \in K
    BY <1>1 DEF Node
  <2>2. \E k \in K : \A j \in K : k <= j
    <3> HIDE DEF K
    <3> QED
      BY <2>1, LeastExists
  <2>3. \E k \in 0 .. MaxDepth : n \in NodesTo[k] /\ \A j \in 0 .. MaxDepth : n \in NodesTo[j] => k <= j
    BY <2>2
  <2> QED
    BY <2>3 DEF Level
<1>5. ASSUME NEW n \in Node, NEW k \in 1 .. MaxDepth, Level[n] = k
      PROVE  MadeOf(n, NodesTo[k - 1])
  <2>1. n \in NodesTo[k] /\ NodesTo[k] = NodesOver(NodesTo[k - 1])
    BY <1>2, <1>4, <1>5
  <2>2. n \in NodesOver(NodesTo[k - 1])
    BY <2>1, Zenon
  <2> QED
    BY <2>2, MadeOfIs, Zenon
<1>6. ASSUME NEW n \in Node, NEW k \in 1 .. MaxDepth, NEW m \in NodesTo[k - 1]
      PROVE  m \in Node /\ Level[m] < k
  <2>1. k - 1 \in 0 .. MaxDepth /\ k - 1 \in 0 .. MaxDepth /\ MaxDepth \in 0 .. MaxDepth
    BY <1>1
  <2>2. m \in Node
    BY <1>3, <2>1 DEF Node
  <2>3. Level[m] <= k - 1 /\ Level[m] \in 0 .. MaxDepth
    BY <1>4, <2>1, <2>2
  <2> QED
    BY <2>2, <2>3
<1>7. ASSUME NEW n \in Node
      PROVE  PartsAreLower(n)
  <2>1. CASE Level[n] = 0
    <3>1. n \in Leaf
      BY <1>2, <1>4, <2>1
    <3>2. MadeOf(n, Node) /\ n.kind # "count" /\ n.kind # "list"
      BY <3>1 DEF Leaf, MadeOf
    <3> QED
      BY <3>2 DEF PartsAreLower
  <2>2. CASE Level[n] # 0
    <3> DEFINE k == Level[n]
    <3>1. k \in 1 .. MaxDepth
      BY <1>4, <2>2
    <3>2. MadeOf(n, NodesTo[k - 1])
      BY <1>5, <3>1
    <3>3. \A m \in NodesTo[k - 1] : m \in Node /\ Level[m] < Level[n]
      BY <1>6, <3>1
    <3> HIDE DEF k
    <3> DEFINE D == NodesTo[k - 1]
    <3> HIDE DEF D
    <3>4. \A m \in D : m \in Node /\ Level[m] < Level[n]
      BY <3>3 DEF D
    <3>5. MadeOf(n, D)
      BY <3>2 DEF D
    <3>6. CASE n.kind \in {"literal", "generator", "chars"}
      BY <3>5, <3>6 DEF MadeOf, PartsAreLower
    <3>7. CASE n.kind = "count"
      <4>1. n.item \in D /\ n.min \in Nat /\ n.max \in Nat
        BY <3>5, <3>7 DEF MadeOf
      <4> QED
        BY <3>4, <3>7, <4>1 DEF MadeOf, PartsAreLower
    <3>8. CASE n.kind = "list"
      <4>1. n.items \in Seq(D)
        BY <3>5, <3>8 DEF MadeOf
      <4> DEFINE v == n.items
      <4>2. v \in Seq(D)
        BY <4>1
      <4> HIDE DEF v
      <4>3. v \in Seq(Node) /\ \A i \in DOMAIN v : v[i] \in D
        <5>1. D \subseteq Node
          BY <3>4
        <5>2. \A i \in DOMAIN v : v[i] \in D
          BY <4>2
        <5> QED
          BY <4>2, <5>1, <5>2
      <4>4. n.items \in Seq(Node) /\ \A i \in DOMAIN n.items : Level[n.items[i]] < Level[n]
        BY <3>4, <4>3, Zenon DEF v
      <4> QED
        BY <3>8, <4>4 DEF MadeOf, PartsAreLower
    <3> QED
      BY <3>5, <3>6, <3>7, <3>8 DEF MadeOf
  <2> QED
    BY <2>1, <2>2
<1>8. Level \in [Node -> 0 .. MaxDepth]
  BY <1>4 DEF Level
<1> QED
  BY <1>7, <1>8

-----------------------------------------------------------------------------
(* The parser: what it reads of a text, and how far *)

(* What the parser may give for the text t at the place p: a value in V     *)
(* with a rest that begins further on, or none.                             *)
Outcome(t, p, V) == {Error, Failure} \cup [kind : {"ok"}, rest : p + 1 .. Len(t) + 1, value : V]

Place == Nat \ {0}

(* What an outcome is *)
LEMMA OutcomeIs ==
    ASSUME NEW t, NEW p, NEW V, NEW r \in Outcome(t, p, V)
    PROVE  /\ r.kind \in {"ok", "error", "failure"}
           /\ r.kind = "ok" => r.rest \in p + 1 .. Len(t) + 1 /\ r.value \in V /\ r = Ok(r.rest, r.value)
           /\ r.kind # "ok" => \A u, q, W : r \in Outcome(u, q, W)
           /\ r.kind = "error" <=> r = Error
BY DEF Outcome, Error, Failure, Ok

(* What a result is an outcome of *)
LEMMA OkIs ==
    ASSUME NEW t, NEW p, NEW V, NEW q \in p + 1 .. Len(t) + 1, NEW v \in V
    PROVE  Ok(q, v) \in Outcome(t, p, V)
BY DEF Outcome, Ok

(* An outcome may be of more, and of before. *)
LEMMA OutcomeGrows ==
    ASSUME NEW t \in Seq(Token), NEW p \in Place, NEW q \in Place, NEW V, NEW W, p <= q, V \subseteq W,
           NEW r \in Outcome(t, q, V)
    PROVE  r \in Outcome(t, p, W)
<1>1. Len(t) \in Nat
  OBVIOUS
<1>2. q + 1 .. Len(t) + 1 \subseteq p + 1 .. Len(t) + 1
  BY <1>1 DEF Place
<1> QED
  BY <1>2, Zenon DEF Outcome

(* What is a value of one kind is a value of more. *)
LEMMA OutcomeOfMore ==
    ASSUME NEW t, NEW p, NEW V, NEW W, V \subseteq W, NEW r \in Outcome(t, p, V)
    PROVE  r \in Outcome(t, p, W)
BY Zenon DEF Outcome

(* Failing is an outcome of anything. *)
LEMMA ErrorIs == \A t, p, V : Error \in Outcome(t, p, V) /\ Failure \in Outcome(t, p, V)
BY DEF Outcome

(* The first alternative that does not just fail to match, or the second one *)
LEMMA OrIs ==
    ASSUME NEW t, NEW p, NEW V, NEW r \in Outcome(t, p, V), NEW s \in Outcome(t, p, V)
    PROVE  Or(r, s) \in Outcome(t, p, V)
BY DEF Or

(* What is at a place of a text *)
LEMMA AtIs ==
    ASSUME NEW t \in Seq(Token), NEW p \in Place
    PROVE  /\ At(t, p) # NoToken => p \in 1 .. Len(t) /\ t[p] = At(t, p)
           /\ At(t, p) \in Token => p \in 1 .. Len(t) /\ t[p] = At(t, p)
           /\ At(t, p) \in Token \cup {NoToken}
<1>1. NoToken \notin Token
  BY TokensAre
<1>2. CASE p <= Len(t)
  <2>1. p \in 1 .. Len(t)
    BY <1>2 DEF Place
  <2>2. t[p] \in Token /\ At(t, p) = t[p]
    BY <1>2, <2>1 DEF At
  <2> QED
    BY <2>1, <2>2
<1>3. CASE ~ (p <= Len(t))
  BY <1>1, <1>3 DEF At
<1> QED
  BY <1>2, <1>3

(* What is between two delimiters begins and ends further on. *)
LEMMA DelimitedIs ==
    ASSUME NEW t \in Seq(Token), NEW p \in Place, NEW open \in Token, NEW close \in Token, NEW V, NEW inner,
           p \in 1 .. Len(t) => inner \in Outcome(t, p + 1, V)
    PROVE  Delimited(t, p, open, inner, close) \in Outcome(t, p, V)
<1>1. CASE At(t, p) # open
  BY <1>1, ErrorIs DEF Delimited
<1>2. CASE At(t, p) = open /\ inner.kind # "ok"
  <2>1. inner \in Outcome(t, p + 1, V)
    BY <1>2, AtIs
  <2>2. inner \in Outcome(t, p, V)
    BY <1>2, <2>1, OutcomeIs, Zenon
  <2> QED
    BY <1>2, <2>2 DEF Delimited
<1>3. CASE At(t, p) = open /\ inner.kind = "ok" /\ At(t, inner.rest) # close
  BY <1>3, ErrorIs DEF Delimited
<1>4. CASE At(t, p) = open /\ inner.kind = "ok" /\ At(t, inner.rest) = close
  <2>1. inner \in Outcome(t, p + 1, V)
    BY <1>4, AtIs
  <2>2. inner.rest \in (p + 1) + 1 .. Len(t) + 1 /\ inner.value \in V
    BY <1>4, <2>1, OutcomeIs, Zenon
  <2> DEFINE q == inner.rest
  <2>3. q \in (p + 1) + 1 .. Len(t) + 1 /\ At(t, q) \in Token
    BY <1>4, <2>2
  <2> HIDE DEF q
  <2>4. q \in Place /\ q > p
    BY <2>3 DEF Place
  <2>5. q \in 1 .. Len(t)
    BY <2>3, <2>4, AtIs
  <2>6. q + 1 \in p + 1 .. Len(t) + 1
    BY <2>4, <2>5 DEF Place
  <2>7. Ok(q + 1, inner.value) \in Outcome(t, p, V)
    BY <2>2, <2>6, OkIs
  <2> QED
    BY <1>4, <2>7 DEF Delimited, q
<1> QED
  BY <1>1, <1>2, <1>3, <1>4

(* A result and what follows it *)
LEMMA FollowedIs ==
    ASSUME NEW t \in Seq(Token), NEW p \in Place, NEW V, NEW r \in Outcome(t, p, V), r.kind = "ok",
           NEW rest \in Outcome(t, r.rest, Seq(V) \ {<<>>})
    PROVE  Followed(r, rest) \in Outcome(t, p, Seq(V) \ {<<>>})
<1>1. r.rest \in p + 1 .. Len(t) + 1 /\ r.value \in V
  BY OutcomeIs, Zenon
<1> DEFINE v == r.value
           q == r.rest
<1>2. v \in V /\ q \in p + 1 .. Len(t) + 1
  BY <1>1
<1>3. <<r.value>> \in Seq(V) \ {<<>>}
  <2> HIDE DEF v
  <2>1. <<v>> \in Seq(V) \ {<<>>}
    BY <1>2
  <2> QED
    BY <2>1 DEF v
<1>4. CASE rest.kind = "ok"
  <2>1. rest.rest \in r.rest + 1 .. Len(t) + 1 /\ rest.value \in Seq(V) \ {<<>>}
    BY <1>4, OutcomeIs
  <2> DEFINE w == rest.value
             z == rest.rest
  <2>2. w \in Seq(V) /\ z \in q + 1 .. Len(t) + 1
    BY <2>1
  <2> HIDE DEF v, w, q, z
  <2>3. <<v>> \o w \in Seq(V) \ {<<>>}
    BY <1>2, <2>2
  <2>4. z \in p + 1 .. Len(t) + 1
    BY <1>2, <2>2 DEF Place
  <2>5. Ok(z, <<v>> \o w) \in Outcome(t, p, Seq(V) \ {<<>>})
    BY <2>3, <2>4, OkIs
  <2> QED
    BY <1>4, <2>5 DEF Followed, v, w, z
<1>5. CASE rest.kind = "error"
  <2>1. Ok(r.rest, <<r.value>>) \in Outcome(t, p, Seq(V) \ {<<>>})
    BY <1>1, <1>3, OkIs
  <2> QED
    BY <1>5, <2>1 DEF Followed
<1>6. CASE rest.kind \notin {"ok", "error"}
  <2>1. rest \in Outcome(t, p, Seq(V) \ {<<>>})
    BY <1>6, OutcomeIs
  <2> QED
    BY <1>6, <2>1 DEF Followed
<1> QED
  BY <1>4, <1>5, <1>6, Zenon

(* A result and what follows it, if it is a result *)
LEMMA ThenIs ==
    ASSUME NEW t \in Seq(Token), NEW p \in Place, NEW V, NEW r \in Outcome(t, p, V), NEW more,
           \A q \in p + 1 .. Len(t) + 1 : more[q] \in Outcome(t, q, Seq(V) \ {<<>>})
    PROVE  Then(r, more) \in Outcome(t, p, Seq(V) \ {<<>>})
<1>1. CASE r.kind = "ok"
  <2>1. r.rest \in p + 1 .. Len(t) + 1
    BY <1>1, OutcomeIs, Zenon
  <2>2. more[r.rest] \in Outcome(t, r.rest, Seq(V) \ {<<>>})
    BY <2>1
  <2> QED
    BY <1>1, <2>2, FollowedIs DEF Then
<1>2. CASE r.kind # "ok"
  <2>1. r \in Outcome(t, p, Seq(V) \ {<<>>})
    BY <1>2, OutcomeIs, Zenon
  <2> QED
    BY <1>2, <2>1 DEF Then
<1> QED
  BY <1>1, <1>2

(* What follows depends on what is read further on. *)
LEMMA ThenSame ==
    ASSUME NEW t \in Seq(Token), NEW p \in Place, NEW V, NEW r \in Outcome(t, p, V), NEW more, NEW less,
           \A q \in p + 1 .. Len(t) + 1 : more[q] = less[q]
    PROVE  Then(r, more) = Then(r, less)
<1>1. r.kind = "ok" => more[r.rest] = less[r.rest]
  BY OutcomeIs
<1> QED
  BY <1>1, Zenon DEF Then

(* What can be read at each place from p: at q, values in W[q] *)
Readings(t, p, W) ==
    {f \in [Onward(t, p) -> UNION {Outcome(t, q, W[q]) : q \in Onward(t, p)}] :
        \A q \in Onward(t, p) : f[q] \in Outcome(t, q, W[q])}

(* What holds of a place, if of all further on, holds of all places. *)
LEMMA OnwardInduction ==
    ASSUME NEW t \in Seq(Token), NEW p \in Place, NEW S,
           \A q \in Onward(t, p) : (\A e \in q + 1 .. Len(t) + 1 : e \in S) => q \in S
    PROVE  Onward(t, p) \subseteq S
<1> DEFINE D == Onward(t, p)
           N == Len(t) + 1
           rank == [q \in D |-> N - q]
<1>1. N \in Nat /\ D = p .. N /\ p \in Nat
  BY DEF Onward, Place
<1>2. rank \in [D -> 0 .. N] /\ \A q \in D : \A e \in q + 1 .. N : e \in D /\ rank[e] < rank[q]
  <2> HIDE DEF N, D
  <2>1. \A q \in D : N - q \in 0 .. N /\ \A e \in q + 1 .. N : e \in D /\ N - e < N - q
    BY <1>1
  <2> QED
    BY <2>1
<1>3. \A q \in D : (\A e \in D : rank[e] < rank[q] => e \in S) => q \in S
  <2> HIDE DEF rank
  <2> QED
    BY <1>2
<1> HIDE DEF rank, N, D
<1>4. N \in Nat /\ rank \in [D -> 0 .. N]
  BY <1>1, <1>2
<1>5. D \subseteq S
  BY ONLY <1>3, <1>4, RankInduction
<1> QED
  BY <1>5 DEF D

(* A definition by recursion on what is read further on is what its         *)
(* equation says.                                                           *)
LEMMA OnwardRecursion ==
    ASSUME NEW t \in Seq(Token), NEW p \in Place, NEW W, NEW step,
           step \in [Readings(t, p, W) -> Readings(t, p, W)],
           \A f, g \in Readings(t, p, W) : \A q \in Onward(t, p) :
               (\A e \in q + 1 .. Len(t) + 1 : f[e] = g[e]) => step[f][q] = step[g][q]
    PROVE  \E f \in Readings(t, p, W) : step[f] = f
<1> DEFINE D == Onward(t, p)
           N == Len(t) + 1
           rank == [q \in D |-> N - q]
           A == UNION {Outcome(t, q, W[q]) : q \in D}
           G == Readings(t, p, W)
           g0 == [q \in D |-> Error]
<1>1. N \in Nat /\ D = p .. N /\ p \in Nat
  BY DEF Onward, Place
<1>2. rank \in [D -> 0 .. N] /\ \A q \in D : \A e \in q + 1 .. N : e \in D /\ rank[e] < rank[q]
  <2> HIDE DEF N, D
  <2>1. \A q \in D : N - q \in 0 .. N /\ \A e \in q + 1 .. N : e \in D /\ N - e < N - q
    BY <1>1
  <2> QED
    BY <2>1
<1>3. G \in SUBSET [D -> A]
  BY DEF Readings
<1>4. g0 \in G
  <2>1. \A q \in D : Error \in Outcome(t, q, W[q])
    BY ErrorIs
  <2>2. g0 \in [D -> A]
    <3> HIDE DEF D
    <3> QED
      BY <2>1
  <2> QED
    BY <2>1, <2>2, Zenon DEF Readings
<1>5. IsLocal(step, G, D, rank)
  <2> SUFFICES ASSUME NEW f \in G, NEW g \in G, NEW q \in D, \A e \in D : rank[e] < rank[q] => f[e] = g[e]
               PROVE  step[f][q] = step[g][q]
    BY Zenon DEF IsLocal
  <2>1. \A e \in q + 1 .. N : f[e] = g[e]
    <3> HIDE DEF D, rank, G, N
    <3> QED
      BY <1>2
  <2> QED
    BY <2>1
<1> HIDE DEF rank, N, D, G, g0, A
<1>6. step \in [G -> G]
  BY DEF G
<1>7. IsRecursion(D, N, rank, A, G, g0, step)
  BY <1>1, <1>2, <1>3, <1>4, <1>5, <1>6, Zenon DEF IsRecursion
<1>8. \E f \in G : step[f] = f
  BY ONLY <1>7, RankRecursion
<1> QED
  BY <1>8 DEF G

(* What is at each position from p on *)
AreFragments(fragments, t, p, V) ==
    /\ fragments = [q \in Onward(t, p) |-> fragments[q]]
    /\ \A q \in Onward(t, p) : fragments[q] \in Outcome(t, q, V)

(* A function that gives all there is from each position on *)
IsMany(many, fragments, D) == many = [q \in D |-> Then(fragments[q], many)]

(* The recursion of many1 is one over the positions of the text. *)
LEMMA Many1Recurs ==
    ASSUME NEW t \in Seq(Token), NEW p \in Place, p <= Len(t) + 1, NEW V, NEW fragments,
           AreFragments(fragments, t, p, V)
    PROVE  \E many : IsMany(many, fragments, Onward(t, p)) /\ Many1(fragments, p) = many[p]
<1>0. /\ fragments = [q \in Onward(t, p) |-> fragments[q]]
      /\ \A q \in Onward(t, p) : fragments[q] \in Outcome(t, q, V)
  BY DEF AreFragments
<1> DEFINE D == Onward(t, p)
           W == [q \in D |-> Seq(V) \ {<<>>}]
           G == Readings(t, p, W)
           step == [f \in G |-> [q \in D |-> Then(fragments[q], f)]]
           many == CHOOSE f : f = [q \in DOMAIN fragments |-> Then(fragments[q], f)]
<1>1. D = p .. Len(t) + 1 /\ p \in D /\ DOMAIN fragments = D /\ \A q \in D : q \in Place
  BY <1>0 DEF Onward, Place
<1>2. ASSUME NEW f, NEW q \in D, \A e \in q + 1 .. Len(t) + 1 : f[e] \in Outcome(t, e, Seq(V) \ {<<>>})
      PROVE  Then(fragments[q], f) \in Outcome(t, q, Seq(V) \ {<<>>})
  BY <1>0, <1>1, <1>2, ThenIs
<1>3. \A q \in D : \A e \in q + 1 .. Len(t) + 1 : e \in D
  <2> HIDE DEF D
  <2> QED
    BY <1>1 DEF Place
<1>4. step \in [G -> G]
  <2> SUFFICES ASSUME NEW f \in G PROVE [q \in D |-> Then(fragments[q], f)] \in G
    OBVIOUS
  <2>1. \A e \in D : f[e] \in Outcome(t, e, W[e]) /\ W[e] = Seq(V) \ {<<>>}
    BY DEF Readings
  <2>2. \A q \in D : Then(fragments[q], f) \in Outcome(t, q, W[q])
    BY <1>2, <1>3, <2>1
  <2> HIDE DEF W, D
  <2>3. [q \in D |-> Then(fragments[q], f)] \in [D -> UNION {Outcome(t, q, W[q]) : q \in D}]
    BY <2>2
  <2> QED
    BY <2>2, <2>3, Zenon DEF Readings, D
<1>5. ASSUME NEW f \in G, NEW g \in G, NEW q \in D, \A e \in q + 1 .. Len(t) + 1 : f[e] = g[e]
      PROVE  step[f][q] = step[g][q]
  <2>1. Then(fragments[q], f) = Then(fragments[q], g)
    BY <1>0, <1>1, <1>5, ThenSame
  <2> QED
    BY <2>1
<1>6. \E f \in G : step[f] = f
  <2> HIDE DEF step, W
  <2> QED
    BY <1>4, <1>5, OnwardRecursion
<1>7. \E f : f = [q \in DOMAIN fragments |-> Then(fragments[q], f)]
  <2>1. PICK f \in G : step[f] = f
    BY <1>6
  <2> HIDE DEF D, G
  <2>2. f = [q \in D |-> Then(fragments[q], f)]
    BY <2>1
  <2> QED
    BY <1>1, <2>2, Zenon
<1>8. many = [q \in D |-> Then(fragments[q], many)]
  <2>1. many = [q \in DOMAIN fragments |-> Then(fragments[q], many)]
    BY <1>7, Zenon
  <2> HIDE DEF many, D
  <2> QED
    BY <1>1, <2>1, Zenon
<1>9. Many1(fragments, p) = many[p]
  BY DEF Many1
<1> HIDE DEF many
<1>10. IsMany(many, fragments, D)
  BY <1>8 DEF IsMany
<1> QED
  BY <1>9, <1>10

(* Many of a thing is one and more, or what its fragment gives. *)
LEMMA Many1Is ==
    ASSUME NEW t \in Seq(Token), NEW p \in Place, p <= Len(t) + 1, NEW V, NEW fragments,
           fragments = [q \in Onward(t, p) |-> fragments[q]],
           \A q \in Onward(t, p) : fragments[q] \in Outcome(t, q, V)
    PROVE  Many1(fragments, p) \in Outcome(t, p, Seq(V) \ {<<>>})
<1> DEFINE D == Onward(t, p)
<1>1. p \in D /\ \A q \in D : q \in Place
  BY DEF Onward, Place
<1>2. PICK many : many = [q \in D |-> Then(fragments[q], many)] /\ Many1(fragments, p) = many[p]
  <2>1. AreFragments(fragments, t, p, V)
    BY DEF AreFragments
  <2>2. PICK many : IsMany(many, fragments, D) /\ Many1(fragments, p) = many[p]
    BY <2>1, Many1Recurs
  <2> QED
    BY <2>2 DEF IsMany
<1> HIDE DEF D
<1> DEFINE S == {q \in D : many[q] \in Outcome(t, q, Seq(V) \ {<<>>})}
<1>3. ASSUME NEW q \in D, \A e \in q + 1 .. Len(t) + 1 : e \in S
      PROVE  q \in S
  <2>1. \A e \in q + 1 .. Len(t) + 1 : many[e] \in Outcome(t, e, Seq(V) \ {<<>>})
    BY <1>3
  <2>2. fragments[q] \in Outcome(t, q, V)
    BY DEF D
  <2>3. Then(fragments[q], many) \in Outcome(t, q, Seq(V) \ {<<>>})
    BY <1>1, <2>1, <2>2, ThenIs
  <2>4. many[q] = Then(fragments[q], many)
    BY <1>2
  <2> QED
    BY <2>3, <2>4
<1>4. D \subseteq S
  <2> HIDE DEF S
  <2>1. Onward(t, p) \subseteq S
    BY <1>3, OnwardInduction DEF D
  <2> QED
    BY <2>1 DEF D
<1> QED
  BY <1>1, <1>2, <1>4

-----------------------------------------------------------------------------
(* The parser: strings, classes and generators *)

(* What becomes of the value of a result *)
LEMMA MappedIs ==
    ASSUME NEW t, NEW p, NEW V, NEW W, NEW r \in Outcome(t, p, V), NEW x, r.kind = "ok" => x \in W
    PROVE  (IF r.kind = "ok" THEN Ok(r.rest, x) ELSE r) \in Outcome(t, p, W)
<1>1. CASE r.kind = "ok"
  BY <1>1, OutcomeIs, OkIs
<1>2. CASE r.kind # "ok"
  BY <1>2, OutcomeIs, Zenon
<1> QED
  BY <1>1, <1>2

(* A backslash and what it escapes give one character. *)
LEMMA EscapedIs ==
    ASSUME NEW t \in Seq(Token), NEW p \in Place
    PROVE  ParseLiteralEscaped(t, p) \in Outcome(t, p, Character)
<1> DEFINE c == At(t, p + 1)
<1>1. p + 1 \in Place /\ p + 2 \in Place /\ Len(t) \in Nat
  BY DEF Place
<1>2. Tab \in Character /\ HexOf[Tab] \in Token /\ Token \ Alphanumeric \subseteq Character
  BY TokensAre
<1>3. c \in Token => p + 2 \in p + 1 .. Len(t) + 1
  <2>1. c \in Token => p + 1 \in 1 .. Len(t)
    BY <1>1, AtIs
  <2> HIDE DEF c
  <2> QED
    BY <1>1, <2>1 DEF Place
<1>4. At(t, p + 2) \in Token => p + 3 \in p + 1 .. Len(t) + 1
  <2>1. At(t, p + 2) \in Token => p + 2 \in 1 .. Len(t)
    BY <1>1, AtIs
  <2> QED
    BY <1>1, <2>1 DEF Place
<1>5. c \in Token \cup {NoToken}
  BY <1>1, AtIs
<1> HIDE DEF c
<1>6. c = "t" => Ok(p + 2, Tab) \in Outcome(t, p, Character)
  BY <1>2, <1>3, OkIs, TokensAre
<1>7. At(t, p + 2) = HexOf[Tab] => Ok(p + 3, Tab) \in Outcome(t, p, Character)
  BY <1>2, <1>4, OkIs
<1>8. c \notin Alphanumeric \cup {NoToken} => Ok(p + 2, c) \in Outcome(t, p, Character)
  BY <1>2, <1>3, <1>5, OkIs
<1>9. Error \in Outcome(t, p, Character)
  BY ErrorIs
<1> QED
  BY <1>6, <1>7, <1>8, <1>9, Zenon DEF ParseLiteralEscaped, c

(* A token that stands for itself *)
LEMMA VerbatimIs ==
    ASSUME NEW t \in Seq(Token), NEW p \in Place, NEW except
    PROVE  Verbatim(t, p, except) \in Outcome(t, p, Token \ except)
<1>1. CASE At(t, p) \in except \cup {NoToken}
  BY <1>1, ErrorIs DEF Verbatim
<1>2. CASE At(t, p) \notin except \cup {NoToken}
  <2>1. p \in 1 .. Len(t) /\ t[p] = At(t, p) /\ t[p] \in Token
    BY <1>2, AtIs
  <2>2. p + 1 \in p + 1 .. Len(t) + 1 /\ t[p] \in Token \ except
    BY <1>2, <2>1
  <2> QED
    BY <1>2, <2>2, OkIs DEF Verbatim
<1> QED
  BY <1>1, <1>2

(* Of strings and generators, each piece is a token. *)
LEMMA FragmentsAre ==
    ASSUME NEW t \in Seq(Token), NEW p \in Place
    PROVE  /\ ParseLiteralFragment(t, p) \in Outcome(t, p, Token)
           /\ ParseGeneratorFragment(t, p) \in Outcome(t, p, Token)
<1>1. ParseLiteralEscaped(t, p) \in Outcome(t, p, Token)
  BY EscapedIs, TokensAre, OutcomeOfMore
<1>2. \A except : Verbatim(t, p, except) \in Outcome(t, p, Token)
  <2> SUFFICES ASSUME NEW except PROVE Verbatim(t, p, except) \in Outcome(t, p, Token)
    OBVIOUS
  <2>1. Token \ except \subseteq Token
    OBVIOUS
  <2> QED
    BY <2>1, VerbatimIs, OutcomeOfMore, Zenon
<1> QED
  BY <1>1, <1>2, OrIs DEF ParseLiteralFragment, ParseGeneratorFragment

(* A string is a node that is not empty. *)
LEMMA LiteralIs ==
    ASSUME NEW t \in Seq(Token), NEW p \in Place, p <= Len(t) + 1
    PROVE  ParseLiteral(t, p) \in Outcome(t, p, Leaf)
<1> DEFINE fragments == [q \in Onward(t, p) |-> ParseLiteralFragment(t, q)]
           r == Many1(fragments, p)
<1>1. \A q \in Onward(t, p) : q \in Place
  BY DEF Onward, Place
<1>2. \A q \in Onward(t, p) : fragments[q] \in Outcome(t, q, Token)
  BY <1>1, FragmentsAre
<1>3. fragments = [q \in Onward(t, p) |-> fragments[q]]
  OBVIOUS
<1>4. r \in Outcome(t, p, Seq(Token) \ {<<>>})
  <2> HIDE DEF fragments
  <2> QED
    BY <1>2, <1>3, Many1Is
<1>5. ParseLiteral(t, p) = IF r.kind = "ok" THEN Ok(r.rest, Literal(r.value)) ELSE r
  BY DEF ParseLiteral, Mapped
<1> HIDE DEF r
<1>6. r.kind = "ok" => Literal(r.value) \in Leaf
  <2>1. r.kind = "ok" => r.value \in Seq(Token) \ {<<>>}
    BY <1>4, OutcomeIs
  <2> QED
    BY <2>1 DEF Leaf, Literal
<1> QED
  BY <1>4, <1>5, <1>6, MappedIs

(* A generator is a node whose text is not empty. *)
LEMMA GeneratorIs ==
    ASSUME NEW t \in Seq(Token), NEW p \in Place
    PROVE  ParseGenerator(t, p) \in Outcome(t, p, Leaf)
<1> DEFINE fragments == [q \in Onward(t, p + 1) |-> ParseGeneratorFragment(t, q)]
           r == Many1(fragments, p + 1)
           inner == IF r.kind = "ok" THEN Ok(r.rest, Generator(r.value)) ELSE r
<1>1. p + 1 \in Place /\ \A q \in Onward(t, p + 1) : q \in Place
  BY DEF Onward, Place
<1>2. \A q \in Onward(t, p + 1) : fragments[q] \in Outcome(t, q, Token)
  BY <1>1, FragmentsAre
<1>3. fragments = [q \in Onward(t, p + 1) |-> fragments[q]]
  OBVIOUS
<1>4. ASSUME p \in 1 .. Len(t)
      PROVE  inner \in Outcome(t, p + 1, Leaf)
  <2>1. p + 1 <= Len(t) + 1
    BY <1>4
  <2>2. r \in Outcome(t, p + 1, Seq(Token) \ {<<>>})
    <3> HIDE DEF fragments
    <3> QED
      BY <1>1, <1>2, <1>3, <2>1, Many1Is
  <2> HIDE DEF r
  <2>3. r.kind = "ok" => Generator(r.value) \in Leaf
    <3>1. r.kind = "ok" => r.value \in Seq(Token) \ {<<>>}
      BY <2>2, OutcomeIs
    <3> QED
      BY <3>1 DEF Leaf, Generator
  <2> QED
    BY <2>2, <2>3, MappedIs
<1>5. "{" \in Token /\ "}" \in Token
  BY TokensAre, Zenon DEF Syntax
<1>6. ParseGenerator(t, p) = IF At(t, p + 1) \notin Lower THEN Error ELSE Delimited(t, p, "{", inner, "}")
  BY DEF ParseGenerator, Mapped
<1> HIDE DEF inner
<1> QED
  BY <1>4, <1>5, <1>6, DelimitedIs, ErrorIs

(* The ranges of a set of codes in the order of where they start *)
LEMMA RangesAscend ==
    ASSUME NEW codes \in CodeSets
    PROVE  /\ FromRanges(codes) \in Seq(CharRange) \ {<<>>}
           /\ \A i \in DOMAIN FromRanges(codes) : FromRanges(codes)[i] \in RangesOf(codes)
           /\ \A i, j \in DOMAIN FromRanges(codes) : i < j => FromRanges(codes)[i][1] < FromRanges(codes)[j][1]
<1> DEFINE K == RangesOf(codes)
           R == {q \in (Int \X Int) \X (Int \X Int) : q[1][1] < q[2][1]}
           order == FromRanges(codes)
           L == Len(Order)
<1>1. codes \subseteq 1 .. L /\ codes # {} /\ L \in Nat /\ DOMAIN Order = 1 .. L
  BY TokensAre, Zenon DEF CodeSets
<1>2. K \subseteq CharRange /\ K \subseteq (1 .. L) \X (1 .. L)
  <2> HIDE DEF L
  <2> QED
    BY <1>1 DEF RangesOf, CharRange
<1>3. ASSUME NEW q \in K, NEW r \in K
      PROVE  /\ <<q, r>> \in R <=> q[1] < r[1]
             /\ q[1] = r[1] => q = r
             /\ q[1] \in Nat /\ r[1] \in Nat
  <2> HIDE DEF L
  <2>1. q \in (1 .. L) \X (1 .. L) /\ r \in (1 .. L) \X (1 .. L)
    BY <1>2
  <2>2. q = <<q[1], q[2]>> /\ r = <<r[1], r[2]>> /\ q[1] \in Nat /\ r[1] \in Nat /\ q[2] \in Nat /\ r[2] \in Nat
    BY <1>1, <2>1
  <2>3. /\ q[1] .. q[2] \subseteq codes /\ q[2] + 1 \notin codes /\ q[1] <= q[2]
        /\ r[1] .. r[2] \subseteq codes /\ r[2] + 1 \notin codes /\ r[1] <= r[2]
    BY DEF RangesOf
  <2> DEFINE a == q[1]
             b == q[2]
             c == r[1]
             d == r[2]
  <2>4. ASSUME a = c PROVE b = d
    <3>1. /\ a .. b \subseteq codes /\ b + 1 \notin codes /\ a <= b
          /\ c .. d \subseteq codes /\ d + 1 \notin codes /\ c <= d
          /\ a \in Nat /\ b \in Nat /\ c \in Nat /\ d \in Nat
      BY <2>2, <2>3
    <3> HIDE DEF a, b, c, d
    <3>2. ASSUME b < d PROVE FALSE
      <4>1. b + 1 \in c .. d
        BY <2>4, <3>1, <3>2
      <4> QED
        BY <3>1, <4>1
    <3>3. ASSUME d < b PROVE FALSE
      <4>1. d + 1 \in a .. b
        BY <2>4, <3>1, <3>3
      <4> QED
        BY <3>1, <4>1
    <3> QED
      BY <3>1, <3>2, <3>3
  <2>5. q[1] = r[1] => q = r
    BY <2>2, <2>4, Zenon
  <2>6. <<q, r>> \in R <=> q[1] < r[1]
    BY <2>1
  <2> QED
    BY <2>2, <2>5, <2>6
<1>4. IsFiniteSet(K)
  <2> HIDE DEF L, K
  <2>1. IsFiniteSet(1 .. L)
    BY <1>1, FS_Interval
  <2>2. IsFiniteSet((1 .. L) \X (1 .. L))
    BY <2>1, FS_Product
  <2> QED
    BY <1>2, <2>2, FS_Subset
<1>5. Orders(R, K)
  <2> HIDE DEF K, R
  <2>1. \A j, k \in K : <<j, k>> \in R => <<k, j>> \notin R
    BY <1>3
  <2>2. \A i, j, k \in K : <<i, j>> \in R /\ <<j, k>> \in R => <<i, k>> \in R
    BY <1>3
  <2>3. \A j, k \in K : j # k => <<j, k>> \in R \/ <<k, j>> \in R
    BY <1>3
  <2> QED
    BY <1>4, <2>1, <2>2, <2>3, Zenon DEF Orders
<1>6. \A r \in K : {q \in K : q[1] < r[1]} = {q \in K : <<q, r>> \in R}
  <2> HIDE DEF K, R
  <2> QED
    BY <1>3
<1>7. order = [i \in 1 .. Cardinality(K) |-> CHOOSE r \in K : RankIn(R, K, r) = i - 1]
  <2>1. \A r \in K : Cardinality({q \in K : q[1] < r[1]}) = RankIn(R, K, r)
    <3> HIDE DEF K, R
    <3> QED
      BY <1>6 DEF RankIn
  <2>2. \A i : (CHOOSE r \in K : Cardinality({q \in K : q[1] < r[1]}) = i - 1) = CHOOSE r \in K : RankIn(R, K, r) = i - 1
    <3> HIDE DEF K, R
    <3> QED
      BY <2>1
  <2> DEFINE Ranges(i) == CHOOSE r \in K : Cardinality({q \in K : q[1] < r[1]}) = i - 1
             Ranked(i) == CHOOSE r \in K : RankIn(R, K, r) = i - 1
  <2>3. order = [i \in 1 .. Cardinality(K) |-> Ranges(i)]
    BY Zenon DEF FromRanges
  <2>4. \A i : Ranges(i) = Ranked(i)
    BY <2>2, Zenon
  <2>5. [i \in 1 .. Cardinality(K) |-> Ranges(i)] = [i \in 1 .. Cardinality(K) |-> Ranked(i)]
    <3> HIDE DEF Ranges, Ranked, K
    <3> QED
      BY <2>4
  <2> QED
    BY <2>3, <2>5, Zenon
<1>8. Ascends(order, R, K) /\ Cardinality(K) \in Nat
  <2> HIDE DEF order, R, K
  <2> QED
    BY <1>5, <1>7, RankedAscends
<1>9. K # {}
  <2>1. PICK a \in codes : \A y \in codes : a <= y
    <3>1. codes \in SUBSET Nat /\ codes # {}
      BY <1>1
    <3> QED
      BY <3>1, LeastExists
  <2> DEFINE B == {b \in codes : a <= b /\ a .. b \subseteq codes}
  <2>2. a \in B /\ B \in SUBSET (1 .. L) /\ B # {}
    <3>1. a \in Nat /\ a .. a = {a} /\ a <= a
      BY <1>1
    <3>2. a \in B
      BY <2>1, <3>1
    <3>3. B \subseteq 1 .. L
      BY <1>1
    <3> HIDE DEF B
    <3> QED
      BY <3>2, <3>3
  <2>3. PICK b \in B : \A y \in B : y <= b
    <3> HIDE DEF B, L
    <3> QED
      BY <1>1, <2>2, GreatestExists
  <2> HIDE DEF L
  <2>4. a \in Nat /\ b \in Nat /\ a <= b /\ a .. b \subseteq codes /\ b \in codes
    BY <1>1, <2>3
  <2>5. a - 1 \notin codes
    BY <2>1, <2>4
  <2>6. b + 1 \notin codes
    <3> SUFFICES ASSUME b + 1 \in codes PROVE FALSE
      OBVIOUS
    <3>1. a .. b + 1 \subseteq codes
      <4>1. \A x \in a .. b + 1 : x \in a .. b \/ x = b + 1
        BY <2>4
      <4> QED
        BY <2>4, <4>1
    <3>2. b + 1 \in B
      BY <2>4, <3>1
    <3> QED
      BY <2>3, <2>4, <3>2
  <2>7. <<a, b>> \in K
    BY <2>4, <2>5, <2>6 DEF RangesOf
  <2> QED
    BY <2>7
<1>10. Cardinality(K) # 0
  BY <1>4, <1>9, FS_EmptySet
<1>11. DOMAIN order = 1 .. Cardinality(K) /\ \A i \in 1 .. Cardinality(K) : order[i] \in CharRange
  <2> HIDE DEF order
  <2> QED
    BY <1>2, <1>8 DEF Ascends
<1>12. order = [i \in 1 .. Cardinality(K) |-> order[i]]
  <2> HIDE DEF order, K, R
  <2> QED
    BY <1>7
<1> HIDE DEF order
<1>16. /\ \A i \in DOMAIN order : order[i] \in K
       /\ \A i, j \in DOMAIN order : i < j => <<order[i], order[j]>> \in R
  <2> HIDE DEF K, R
  <2> QED
    BY <1>8 DEF Ascends
<1>17. \A i, j \in DOMAIN order : i < j => order[i][1] < order[j][1]
  <2> HIDE DEF K, R
  <2> QED
    BY <1>3, <1>16
<1>18. \A i \in DOMAIN order : order[i] \in RangesOf(codes)
  BY <1>16
<1> HIDE DEF K
<1> DEFINE n == Cardinality(K)
<1>13. n \in Nat /\ n # 0 /\ order = [i \in 1 .. n |-> order[i]] /\ \A i \in 1 .. n : order[i] \in CharRange
  BY <1>8, <1>10, <1>11, <1>12
<1> HIDE DEF n
<1>14. order \in Seq(CharRange)
  BY <1>13
<1>15. order # <<>>
  BY <1>13
<1> QED
  BY <1>14, <1>15, <1>17, <1>18 DEF order

(* The class of a set of codes is a node. *)
LEMMA ClassOfIs ==
    ASSUME NEW codes \in CodeSets
    PROVE  ClassOf(codes) \in Leaf
<1>1. FromRanges(codes) \in Seq(CharRange) \ {<<>>}
  BY RangesAscend
<1> QED
  BY <1>1 DEF ClassOf, Leaf

(* And so is the class of some of them. *)
LEMMA ClassIs ==
    ASSUME NEW sets \in Seq(CodeSets) \ {<<>>}
    PROVE  Class(sets) \in Leaf
<1>1. 1 \in DOMAIN sets /\ \A i \in DOMAIN sets : sets[i] \in CodeSets
  OBVIOUS
<1>2. UNION ToSet(sets) \in CodeSets
  <2>1. \A S \in ToSet(sets) : S \in CodeSets
    BY <1>1 DEF ToSet
  <2>2. sets[1] \in ToSet(sets) /\ sets[1] \in CodeSets
    BY <1>1 DEF ToSet
  <2> QED
    BY <2>1, <2>2, Zenon DEF CodeSets
<1> QED
  BY <1>2, ClassOfIs DEF Class

(* Some of the tokens that the parser looks for *)
LEMMA SyntaxIs ==
    /\ {"\\", "[", "]", "(", ")", "{", "}", "|", ",", "-", ":", "_"} \subseteq Character
    /\ {"\\", "[", "]", "(", ")", "{", "}", "|", ",", "-", ":", "_"} \subseteq Token
BY TokensAre, Zenon DEF Syntax

(* A named class gives codes of characters. *)
LEMMA PosixClassIs ==
    ASSUME NEW t \in Seq(Token), NEW p \in Place
    PROVE  ParseCharsPosix(t, p) \in Outcome(t, p, CodeSets)
<1> DEFINE found == /\ StartsWith(t, p, <<"[", ":">>)
                    /\ At(t, p + 2) \in PosixNames
                    /\ StartsWith(t, p + 3, <<":", "]">>)
<1>1. CASE found
  <2>1. At(t, (p + 3) + 2 - 1) = <<":", "]">>[2]
    <3>1. 2 \in DOMAIN <<":", "]">>
      OBVIOUS
    <3> QED
      BY <1>1, <3>1, Zenon DEF StartsWith
  <2>2. (p + 3) + 2 - 1 = p + 4 /\ p + 4 \in Place /\ p + 2 \in Place
    BY DEF Place
  <2>3. <<":", "]">>[2] = "]"
    OBVIOUS
  <2>4. At(t, p + 4) \in Token
    BY <2>1, <2>2, <2>3, SyntaxIs
  <2>5. p + 4 \in 1 .. Len(t)
    BY <2>2, <2>4, AtIs
  <2>6. p + 5 \in p + 1 .. Len(t) + 1
    BY <2>5 DEF Place
  <2>7. At(t, p + 2) \in PosixNames /\ PosixNames \subseteq Token
    BY <1>1, TokensAre
  <2>8. t[p + 2] \in PosixNames
    BY <2>2, <2>7, AtIs
  <2>9. Posix[t[p + 2]] \in CodeSets
    BY <2>8, PosixIs
  <2>10. Ok(p + 5, Posix[t[p + 2]]) \in Outcome(t, p, CodeSets)
    BY <2>6, <2>9, OkIs
  <2> QED
    BY <1>1, <2>10, Zenon DEF ParseCharsPosix
<1>2. CASE ~ found
  BY <1>2, ErrorIs, Zenon DEF ParseCharsPosix
<1> QED
  BY <1>1, <1>2

(* And so do \w and \d. *)
LEMMA SpecialClassIs ==
    ASSUME NEW t \in Seq(Token), NEW p \in Place
    PROVE  ParseCharsSpecial(t, p) \in Outcome(t, p, CodeSets)
<1>1. ASSUME At(t, p + 1) # NoToken
      PROVE  p + 2 \in p + 1 .. Len(t) + 1
  <2>1. p + 1 \in Place
    BY DEF Place
  <2>2. p + 1 \in 1 .. Len(t)
    BY <1>1, <2>1, AtIs
  <2> QED
    BY <2>2 DEF Place
<1>2. NoToken # "w" /\ NoToken # "d"
  BY DEF NoToken
<1>3. ASSUME NEW c, c # NoToken, StartsWith(t, p, <<"\\", c>>)
      PROVE  p + 2 \in p + 1 .. Len(t) + 1
  <2>1. /\ \A i \in DOMAIN <<"\\", c>> : At(t, p + i - 1) = <<"\\", c>>[i]
        /\ 2 \in DOMAIN <<"\\", c>>
    BY <1>3 DEF StartsWith
  <2>2. At(t, p + 2 - 1) = c
    BY <2>1
  <2>3. p + 2 - 1 = p + 1
    BY DEF Place
  <2>4. At(t, p + 1) # NoToken
    BY <1>3, <2>2, <2>3
  <2> QED
    BY <1>1, <2>4
<1>4. Posix["alnum"] \in CodeSets /\ Posix["digit"] \in CodeSets
  BY PosixIs DEF PosixNames
<1>5. Code("_") \in DOMAIN Order
  BY SyntaxIs, CodeIs
<1>6. Posix["alnum"] \cup {Code("_")} \in CodeSets
  BY <1>4, <1>5, Zenon DEF CodeSets
<1>7. CASE StartsWith(t, p, <<"\\", "w">>)
  <2>1. Ok(p + 2, Posix["alnum"] \cup {Code("_")}) \in Outcome(t, p, CodeSets)
    BY <1>2, <1>3, <1>6, <1>7, OkIs
  <2>2. StartsWith(t, p, <<"\\", "d">>) => FALSE
    <3>1. \A c : 2 \in DOMAIN <<"\\", c>> /\ <<"\\", c>>[2] = c
      OBVIOUS
    <3>2. \A c : StartsWith(t, p, <<"\\", c>>) => At(t, p + 2 - 1) = c
      BY <3>1, Zenon DEF StartsWith
    <3>3. "w" # "d"
      OBVIOUS
    <3> QED
      BY <1>7, <3>2, <3>3, Zenon
  <2> QED
    BY <1>7, <2>1, <2>2, Zenon DEF ParseCharsSpecial
<1>8. CASE ~ StartsWith(t, p, <<"\\", "w">>) /\ StartsWith(t, p, <<"\\", "d">>)
  <2>1. Ok(p + 2, Posix["digit"]) \in Outcome(t, p, CodeSets)
    BY <1>2, <1>3, <1>4, <1>8, OkIs
  <2> QED
    BY <1>8, <2>1, Zenon DEF ParseCharsSpecial
<1>9. CASE ~ StartsWith(t, p, <<"\\", "w">>) /\ ~ StartsWith(t, p, <<"\\", "d">>)
  BY <1>9, ErrorIs, Zenon DEF ParseCharsSpecial
<1> QED
  BY <1>7, <1>8, <1>9

(* One character of a class is a character, not another token. *)
LEMMA SingleIs ==
    ASSUME NEW t \in Seq(Token), NEW p \in Place
    PROVE  ParseCharsSingle(t, p) \in Outcome(t, p, Character)
<1> DEFINE except == {"\\", "]"} \cup (Token \ Character)
<1>1. Token \ except \subseteq Character
  OBVIOUS
<1> HIDE DEF except
<1>2. Verbatim(t, p, except) \in Outcome(t, p, Character)
  BY <1>1, VerbatimIs, OutcomeOfMore, Zenon
<1>3. ParseLiteralEscaped(t, p) \in Outcome(t, p, Character)
  BY EscapedIs
<1> QED
  BY <1>2, <1>3, OrIs DEF ParseCharsSingle, except

(* A range is of the codes between its ends. *)
LEMMA CharsRangeIs ==
    ASSUME NEW t \in Seq(Token), NEW p \in Place
    PROVE  ParseCharsRange(t, p) \in Outcome(t, p, CodeSets)
<1> DEFINE a == ParseCharsSingle(t, p)
           b == ParseCharsSingle(t, a.rest + 1)
<1>1. a \in Outcome(t, p, Character)
  BY SingleIs
<1>2. ParseCharsRange(t, p) = RangeOf(t, a, b)
  BY Zenon DEF ParseCharsRange, RangeFrom
<1> HIDE DEF a
<1>3. CASE a.kind # "ok"
  <2>1. a \in Outcome(t, p, CodeSets)
    BY <1>1, <1>3, OutcomeIs, Zenon
  <2> QED
    BY <1>2, <1>3, <2>1, Zenon DEF RangeOf
<1>4. CASE a.kind = "ok"
  <2>1. a.rest \in p + 1 .. Len(t) + 1 /\ a.value \in Character
    BY <1>1, <1>4, OutcomeIs, Zenon
  <2>2. Code(a.value) \in DOMAIN Order
    BY <2>1, CodeIs
  <2>3. Ok(a.rest, {Code(a.value)}) \in Outcome(t, p, CodeSets)
    <3>1. {Code(a.value)} \in CodeSets
      BY <2>2, Zenon DEF CodeSets
    <3> QED
      BY <2>1, <3>1, OkIs
  <2>4. CASE At(t, a.rest) # "-" \/ b.kind # "ok"
    BY <1>2, <1>4, <2>3, <2>4, Zenon DEF RangeOf
  <2>5. CASE At(t, a.rest) = "-" /\ b.kind = "ok"
    <3> DEFINE q == a.rest
    <3>1. q \in p + 1 .. Len(t) + 1
      BY <2>1
    <3> HIDE DEF q
    <3>2. q \in Place /\ q + 1 \in Place /\ q > p
      BY <3>1 DEF Place
    <3>3. b \in Outcome(t, q + 1, Character)
      BY <3>2, SingleIs DEF q
    <3> HIDE DEF b
    <3>4. b.rest \in (q + 1) + 1 .. Len(t) + 1 /\ b.value \in Character
      BY <2>5, <3>3, OutcomeIs
    <3>5. b.rest \in p + 1 .. Len(t) + 1
      <4> DEFINE z == b.rest
      <4>1. z \in (q + 1) + 1 .. Len(t) + 1
        BY <3>4
      <4> HIDE DEF z
      <4>2. z \in p + 1 .. Len(t) + 1
        BY <3>1, <3>2, <4>1 DEF Place
      <4> QED
        BY <4>2 DEF z
    <3>6. CASE Code(a.value) <= Code(b.value)
      <4>1. Code(b.value) \in DOMAIN Order
        BY <3>4, CodeIs
      <4> DEFINE i == Code(a.value)
                 j == Code(b.value)
      <4>2. i \in 1 .. Len(Order) /\ j \in 1 .. Len(Order) /\ i <= j /\ Len(Order) \in Nat
        BY <2>2, <3>6, <4>1, TokensAre
      <4> HIDE DEF i, j
      <4>3. i .. j \subseteq 1 .. Len(Order) /\ i \in i .. j
        BY <4>2
      <4>4. i .. j \in CodeSets
        BY <4>3, TokensAre, Zenon DEF CodeSets
      <4>5. From(a.value, b.value) \in CodeSets
        BY <4>4 DEF From, i, j
      <4>6. Ok(b.rest, From(a.value, b.value)) \in Outcome(t, p, CodeSets)
        BY <3>5, <4>5, OkIs
      <4> QED
        BY <1>2, <1>4, <2>5, <3>6, <4>6, Zenon DEF RangeOf
    <3>7. CASE ~ (Code(a.value) <= Code(b.value))
      BY <1>2, <1>4, <2>5, <3>7, ErrorIs, Zenon DEF RangeOf
    <3> QED
      BY <3>6, <3>7
  <2> QED
    BY <2>4, <2>5
<1> QED
  BY <1>3, <1>4

(* A class in brackets, or one of the two that need none *)
LEMMA CharsIs ==
    ASSUME NEW t \in Seq(Token), NEW p \in Place
    PROVE  ParseChars(t, p) \in Outcome(t, p, Leaf)
<1> DEFINE fragments == [q \in Onward(t, p + 1) |-> ParseCharsFragment(t, q)]
           r == Many1(fragments, p + 1)
           inner == IF r.kind = "ok" THEN Ok(r.rest, Class(r.value)) ELSE r
           s == ParseCharsSpecial(t, p)
           special == IF s.kind = "ok" THEN Ok(s.rest, ClassOf(s.value)) ELSE s
<1>1. p + 1 \in Place /\ \A q \in Onward(t, p + 1) : q \in Place
  BY DEF Onward, Place
<1>2. \A q \in Onward(t, p + 1) : fragments[q] \in Outcome(t, q, CodeSets)
  <2> SUFFICES ASSUME NEW q \in Onward(t, p + 1)
               PROVE  ParseCharsFragment(t, q) \in Outcome(t, q, CodeSets)
    OBVIOUS
  <2>1. q \in Place
    BY <1>1
  <2> QED
    BY <2>1, PosixClassIs, SpecialClassIs, CharsRangeIs, OrIs DEF ParseCharsFragment
<1>3. fragments = [q \in Onward(t, p + 1) |-> fragments[q]]
  OBVIOUS
<1>4. ASSUME p \in 1 .. Len(t)
      PROVE  inner \in Outcome(t, p + 1, Leaf)
  <2>1. p + 1 <= Len(t) + 1
    BY <1>4
  <2>2. r \in Outcome(t, p + 1, Seq(CodeSets) \ {<<>>})
    <3> HIDE DEF fragments
    <3> QED
      BY <1>1, <1>2, <1>3, <2>1, Many1Is
  <2> HIDE DEF r
  <2>3. r.kind = "ok" => Class(r.value) \in Leaf
    <3>1. r.kind = "ok" => r.value \in Seq(CodeSets) \ {<<>>}
      BY <2>2, OutcomeIs, Zenon
    <3> QED
      BY <3>1, ClassIs, Zenon
  <2> QED
    BY <2>2, <2>3, MappedIs
<1>5. ParseCharsBrackets(t, p) \in Outcome(t, p, Leaf)
  <2>1. ParseCharsBrackets(t, p) = Delimited(t, p, "[", inner, "]")
    BY DEF ParseCharsBrackets, Mapped
  <2>2. "[" \in Token /\ "]" \in Token
    BY SyntaxIs
  <2> HIDE DEF inner
  <2> QED
    BY <1>4, <2>1, <2>2, DelimitedIs
<1>6. special \in Outcome(t, p, Leaf)
  <2>1. s \in Outcome(t, p, CodeSets)
    BY SpecialClassIs
  <2> HIDE DEF s
  <2>2. s.kind = "ok" => ClassOf(s.value) \in Leaf
    BY <2>1, OutcomeIs, ClassOfIs, Zenon
  <2> QED
    BY <2>1, <2>2, MappedIs
<1>7. ParseLegacyWords(t, p) \in Outcome(t, p, Leaf)
  BY ErrorIs, Zenon DEF ParseLegacyWords
<1>8. ParseChars(t, p) = Or(ParseLegacyWords(t, p), Or(ParseCharsBrackets(t, p), special))
  BY DEF ParseChars, Mapped
<1> HIDE DEF special
<1> QED
  BY <1>5, <1>6, <1>7, <1>8, OrIs

-----------------------------------------------------------------------------
(* The parser: numbers, bounds, counts and lists *)

(* The value of a digit is a number. *)
LEMMA DigitValueIs ==
    ASSUME NEW d \in Digit
    PROVE  DigitValue(d) \in 0 .. 9
<1>1. Digits \in Seq(Character) /\ Len(Digits) = 10
  BY LetterAssumption
<1>2. DOMAIN Digits = 1 .. 10
  BY <1>1
<1>3. \E k \in DOMAIN Digits : Digits[k] = d
  BY DEF Digit, ToSet
<1>4. (CHOOSE k \in DOMAIN Digits : Digits[k] = d) \in 1 .. 10
  BY <1>2, <1>3
<1> QED
  BY <1>4 DEF DigitValue

(* The numbers that the first digits tell *)
Values(w, value) ==
    /\ value \in [0 .. Len(w) -> Nat] /\ value[0] = 0
    /\ \A k \in 1 .. Len(w) : w[k] \in Digit /\ value[k] = 10 * value[k - 1] + DigitValue(w[k])

(* A number is as many digits as there are. *)
LEMMA U32Recurs ==
    ASSUME NEW t \in Seq(Token), NEW p \in Place
    PROVE  \E n \in 0 .. Len(t), value \in [0 .. Len(t) -> Nat] :
              /\ At(t, p + n) \notin Digit
              /\ value[0] = 0
              /\ \A k \in 1 .. n :
                    /\ p + k - 1 \in 1 .. Len(t) /\ t[p + k - 1] \in Digit
                    /\ value[k] = 10 * value[k - 1] + DigitValue(t[p + k - 1])
              /\ ParseU32(t, p) = IF n = 0 THEN Error ELSE Ok(p + n, value[n])
<1> DEFINE E == {k \in 0 .. Len(t) : At(t, p + k) \notin Digit}
           n == Min(E)
           Next10(v, k) == 10 * v + DigitValue(t[p + k - 1])
           value == CHOOSE f : f = [k \in 0 .. n |-> IF k = 0 THEN 0 ELSE 10 * f[k - 1] + DigitValue(t[p + k - 1])]
<1>1. Len(t) \in Nat /\ p \in Nat /\ p >= 1
  BY DEF Place
<1>2. \A k \in 0 .. Len(t) : p + k \in Place
  BY <1>1 DEF Place
<1>3. Digit \subseteq Token
  BY TokensAre
<1>4. n \in E /\ \A k \in E : n <= k
  <2>1. E \in SUBSET Nat
    OBVIOUS
  <2>2. Len(t) \in E
    <3>1. p + Len(t) \in Place /\ ~ (p + Len(t) \in 1 .. Len(t))
      BY <1>1 DEF Place
    <3>2. At(t, p + Len(t)) \notin Digit
      BY <1>3, <3>1, AtIs
    <3> QED
      BY <1>1, <3>2
  <2> HIDE DEF E
  <2> QED
    BY <2>1, <2>2, LeastIsMin
<1>5. n \in 0 .. Len(t) /\ \A k \in 0 .. n : k # n => At(t, p + k) \in Digit
  <2>1. n \in 0 .. Len(t)
    BY <1>4
  <2>2. ASSUME NEW k \in 0 .. n, k # n PROVE At(t, p + k) \in Digit
    <3>1. k \in 0 .. Len(t) /\ ~ (n <= k)
      BY <1>1, <2>1, <2>2
    <3> HIDE DEF n
    <3> QED
      BY <1>4, <3>1
  <2> QED
    BY <2>1, <2>2
<1> HIDE DEF n
<1>6. ASSUME NEW k \in 1 .. n
      PROVE  p + k - 1 \in 1 .. Len(t) /\ t[p + k - 1] \in Digit /\ DigitValue(t[p + k - 1]) \in Nat
  <2>1. k - 1 \in 0 .. n /\ k - 1 # n /\ p + (k - 1) = p + k - 1 /\ p + k - 1 \in Place
    BY <1>1, <1>5 DEF Place
  <2>2. At(t, p + k - 1) \in Digit
    BY <1>5, <2>1
  <2>3. p + k - 1 \in 1 .. Len(t) /\ t[p + k - 1] \in Digit
    BY <1>3, <2>1, <2>2, AtIs
  <2> QED
    BY <2>3, DigitValueIs
<1>7. \E f : f = [k \in 0 .. n |-> IF k = 0 THEN 0 ELSE 10 * f[k - 1] + DigitValue(t[p + k - 1])]
  <2> DEFINE step == [k \in 1 .. n |-> [v \in Nat |-> 10 * v + DigitValue(t[p + k - 1])]]
  <2>1. step \in [1 .. n -> [Nat -> Nat]]
    BY <1>6
  <2>2. n \in Nat /\ 0 \in Nat
    BY <1>1, <1>5
  <2>3. PICK f \in [0 .. n -> Nat] : IsIteration(f, 0, n, step)
    <3> HIDE DEF step
    <3> QED
      BY <2>1, <2>2, IterationExists
  <2>4. f[0] = 0 /\ \A k \in 1 .. n : f[k] = step[k][f[k - 1]] /\ f[k - 1] \in Nat
    <3> HIDE DEF step
    <3>1. f[0] = 0 /\ \A k \in 1 .. n : f[k] = step[k][f[k - 1]]
      BY <2>3 DEF IsIteration
    <3>2. \A k \in 1 .. n : k - 1 \in 0 .. n
      BY <2>2
    <3> QED
      BY <2>3, <3>1, <3>2
  <2>5. \A k \in 1 .. n : f[k] = 10 * f[k - 1] + DigitValue(t[p + k - 1])
    BY <2>4
  <2>6. f = [k \in 0 .. n |-> f[k]] /\ \A k \in 0 .. n : k = 0 \/ k \in 1 .. n
    BY <2>2
  <2>7. \A k \in 0 .. n : f[k] = IF k = 0 THEN 0 ELSE 10 * f[k - 1] + DigitValue(t[p + k - 1])
    BY <2>4, <2>5, <2>6
  <2>8. f = [k \in 0 .. n |-> IF k = 0 THEN 0 ELSE 10 * f[k - 1] + DigitValue(t[p + k - 1])]
    BY <2>6, <2>7, Zenon
  <2> QED
    BY <2>8
<1>8. value = [k \in 0 .. n |-> IF k = 0 THEN 0 ELSE 10 * value[k - 1] + DigitValue(t[p + k - 1])]
  BY <1>7, Zenon
<1>9. ParseU32(t, p) = IF n = 0 THEN Error ELSE Ok(p + n, value[n])
  BY Zenon DEF ParseU32, n
<1> HIDE DEF value
<1>10. value \in [0 .. n -> Nat]
  <2>1. n \in Nat
    BY <1>1, <1>5
  <2>2. value = [k \in 0 .. n |-> value[k]]
    BY <1>8
  <2>3. value[0] \in Nat
    BY <1>8, <2>1
  <2>4. \A k \in 1 .. n : value[k - 1] \in Nat => value[k] \in Nat
    <3> SUFFICES ASSUME NEW k \in 1 .. n, value[k - 1] \in Nat PROVE value[k] \in Nat
      OBVIOUS
    <3>1. value[k] = 10 * value[k - 1] + DigitValue(t[p + k - 1])
      BY <1>8, <2>1
    <3>2. DigitValue(t[p + k - 1]) \in Nat
      BY <1>6
    <3> QED
      BY <3>1, <3>2
  <2> QED
    BY <2>1, <2>2, <2>3, <2>4, IterationType
<1> DEFINE all == [k \in 0 .. Len(t) |-> IF k <= n THEN value[k] ELSE 0]
<1>11. all \in [0 .. Len(t) -> Nat] /\ \A k \in 0 .. n : all[k] = value[k]
  <2> DEFINE l == Len(t)
  <2>1. l \in Nat /\ n \in 0 .. l
    BY <1>1, <1>5
  <2> HIDE DEF l
  <2>2. [k \in 0 .. l |-> IF k <= n THEN value[k] ELSE 0] \in [0 .. l -> Nat]
    BY <1>10, <2>1
  <2>3. \A k \in 0 .. n : [j \in 0 .. l |-> IF j <= n THEN value[j] ELSE 0][k] = value[k]
    BY <2>1
  <2> QED
    BY <2>2, <2>3 DEF l
<1> HIDE DEF all
<1>12. n \in Nat /\ 0 \in 0 .. n /\ n \in 0 .. n /\ \A k \in 1 .. n : k \in 0 .. n /\ k - 1 \in 0 .. n
  BY <1>1, <1>5
<1>13. value[0] = 0 /\ \A k \in 1 .. n : value[k] = 10 * value[k - 1] + DigitValue(t[p + k - 1])
  <2>1. value[0] = 0
    BY <1>8, <1>12
  <2>2. ASSUME NEW k \in 1 .. n PROVE value[k] = 10 * value[k - 1] + DigitValue(t[p + k - 1])
    BY <1>8, <1>12
  <2> QED
    BY <2>1, <2>2
<1>14. all[0] = 0 /\ \A k \in 1 .. n : all[k] = 10 * all[k - 1] + DigitValue(t[p + k - 1])
  BY <1>11, <1>12, <1>13
<1>15. ParseU32(t, p) = IF n = 0 THEN Error ELSE Ok(p + n, all[n])
  BY <1>9, <1>11, <1>12
<1>16. At(t, p + n) \notin Digit
  BY <1>4
<1>17. \A k \in 1 .. n : p + k - 1 \in 1 .. Len(t) /\ t[p + k - 1] \in Digit
  BY <1>6
<1> QED
  BY <1>5, <1>11, <1>14, <1>15, <1>16, <1>17

LEMMA U32Is ==
    ASSUME NEW t \in Seq(Token), NEW p \in Place
    PROVE  ParseU32(t, p) \in Outcome(t, p, Nat)
<1>1. PICK n \in 0 .. Len(t), value \in [0 .. Len(t) -> Nat] :
        /\ \A k \in 1 .. n : p + k - 1 \in 1 .. Len(t)
        /\ ParseU32(t, p) = IF n = 0 THEN Error ELSE Ok(p + n, value[n])
  BY U32Recurs
<1>2. CASE n = 0
  BY <1>1, <1>2, ErrorIs
<1>3. CASE n # 0
  <2>1. n \in 1 .. n /\ n \in Nat /\ p \in Nat
    BY <1>3 DEF Place
  <2>2. p + n - 1 \in 1 .. Len(t)
    BY <1>1, <2>1
  <2>3. p + n \in p + 1 .. Len(t) + 1
    BY <1>3, <2>1, <2>2
  <2> QED
    BY <1>1, <1>3, <2>3, OkIs
<1> QED
  BY <1>2, <1>3

(* The bounds of a count are two numbers. *)
LEMMA BoundsAre ==
    ASSUME NEW t \in Seq(Token), NEW p \in Place
    PROVE  ParseBounds(t, p) \in Outcome(t, p, Nat \X Nat)
<1>1. ASSUME NEW q \in p .. Len(t) + 1, NEW v \in Nat, At(t, q) = ","
      PROVE  /\ ParseU32(t, q + 1) \in Outcome(t, p, Nat)
             /\ (IF ParseU32(t, q + 1).kind = "ok" THEN Ok(ParseU32(t, q + 1).rest, <<v, ParseU32(t, q + 1).value>>)
                 ELSE ParseU32(t, q + 1)) \in Outcome(t, p, Nat \X Nat)
  <2> DEFINE r == ParseU32(t, q + 1)
  <2>1. q + 1 \in Place /\ p <= q + 1
    BY DEF Place
  <2>2. r \in Outcome(t, q + 1, Nat)
    BY <2>1, U32Is
  <2>3. Nat \subseteq Nat
    OBVIOUS
  <2> HIDE DEF r
  <2>4. r \in Outcome(t, p, Nat)
    BY ONLY <2>1, <2>2, <2>3, OutcomeGrows, t \in Seq(Token), p \in Place
  <2>5. r.kind = "ok" => <<v, r.value>> \in Nat \X Nat
    <3>1. r.kind = "ok" => r.value \in Nat
      BY <2>4, OutcomeIs
    <3> QED
      BY <3>1
  <2>6. (IF r.kind = "ok" THEN Ok(r.rest, <<v, r.value>>) ELSE r) \in Outcome(t, p, Nat \X Nat)
    BY <2>4, <2>5, MappedIs
  <2> QED
    BY <2>4, <2>6 DEF r
<1>2. ASSUME NEW lowest, lowest.kind = "ok" => lowest.rest \in p .. Len(t) + 1 /\ lowest.value \in Nat
      PROVE  ParseHighest(t, lowest) \in Outcome(t, p, Nat \X Nat)
  <2>1. CASE lowest.kind = "ok" /\ At(t, lowest.rest) = ","
    <3>1. ParseHighest(t, lowest) =
            IF ParseU32(t, lowest.rest + 1).kind = "ok"
            THEN Ok(ParseU32(t, lowest.rest + 1).rest, <<lowest.value, ParseU32(t, lowest.rest + 1).value>>)
            ELSE ParseU32(t, lowest.rest + 1)
      BY <2>1 DEF ParseHighest, Mapped
    <3> QED
      BY <1>1, <1>2, <2>1, <3>1
  <2>2. CASE ~ (lowest.kind = "ok" /\ At(t, lowest.rest) = ",")
    BY <2>2, ErrorIs, Zenon DEF ParseHighest
  <2> QED
    BY <2>1, <2>2
<1> DEFINE r == ParseU32(t, p)
           exactly == IF r.kind = "ok" THEN Ok(r.rest, <<r.value, r.value>>) ELSE r
<1>3. r \in Outcome(t, p, Nat)
  BY U32Is
<1> HIDE DEF r
<1>4. r.kind = "ok" => r.rest \in p .. Len(t) + 1 /\ r.value \in Nat
  <2> SUFFICES ASSUME r.kind = "ok" PROVE r.rest \in p .. Len(t) + 1 /\ r.value \in Nat
    OBVIOUS
  <2>1. r.rest \in p + 1 .. Len(t) + 1 /\ r.value \in Nat
    BY <1>3, OutcomeIs
  <2> DEFINE z == r.rest
  <2>2. z \in p + 1 .. Len(t) + 1
    BY <2>1
  <2> HIDE DEF z
  <2>3. z \in p .. Len(t) + 1
    BY <2>2 DEF Place
  <2> QED
    BY <2>1, <2>3 DEF z
<1>5. exactly \in Outcome(t, p, Nat \X Nat)
  <2>1. r.kind = "ok" => <<r.value, r.value>> \in Nat \X Nat
    BY <1>4
  <2> QED
    BY <1>3, <2>1, MappedIs
<1>6. ParseHighest(t, r) \in Outcome(t, p, Nat \X Nat)
  BY <1>2, <1>4
<1>7. ParseHighest(t, Ok(p, 0)) \in Outcome(t, p, Nat \X Nat)
  <2>1. CASE p <= Len(t) + 1
    <3>1. Ok(p, 0).rest = p /\ Ok(p, 0).value = 0 /\ p \in p .. Len(t) + 1
      BY <2>1 DEF Ok, Place
    <3>2. Ok(p, 0).kind = "ok" => Ok(p, 0).rest \in p .. Len(t) + 1 /\ Ok(p, 0).value \in Nat
      BY <3>1
    <3> QED
      BY <1>2, <3>2
  <2>2. CASE ~ (p <= Len(t) + 1)
    <3>1. "," \in Token
      BY SyntaxIs
    <3>2. Len(t) \in Nat
      OBVIOUS
    <3>3. ~ (p \in 1 .. Len(t))
      BY <2>2, <3>2 DEF Place
    <3>4. At(t, p) # ","
      BY <3>1, <3>3, AtIs
    <3>5. Ok(p, 0).rest = p
      BY DEF Ok
    <3> QED
      BY <3>4, <3>5, ErrorIs DEF ParseHighest
  <2> QED
    BY <2>1, <2>2
<1>8. ParseBounds(t, p) = Or(ParseHighest(t, r), Or(exactly, ParseHighest(t, Ok(p, 0))))
  BY DEF ParseBounds, Mapped, r
<1> HIDE DEF exactly
<1> QED
  BY <1>5, <1>6, <1>7, <1>8, OrIs

(* What is made of nodes in V is in W. *)
Above(V, W) == Leaf \subseteq W /\ V \subseteq W /\ NodesOver(V) \subseteq W

(* Bounds after a node are of a count, if they are in order. *)
LEMMA CountedIs ==
    ASSUME NEW t \in Seq(Token), NEW p \in Place, NEW V, NEW W, Above(V, W),
           NEW r \in Outcome(t, p, V), NEW bounds,
           r.kind = "ok" => bounds \in Outcome(t, r.rest, Nat \X Nat)
    PROVE  Counted(r, bounds) \in Outcome(t, p, W)
<1>1. CASE r.kind # "ok" \/ bounds.kind # "ok"
  <2>1. r \in Outcome(t, p, W)
    BY OutcomeOfMore, Zenon DEF Above
  <2> QED
    BY <1>1, <2>1, Zenon DEF Counted
<1>2. CASE r.kind = "ok" /\ bounds.kind = "ok" /\ bounds.value[2] < bounds.value[1]
  BY <1>2, ErrorIs, Zenon DEF Counted
<1>3. CASE r.kind = "ok" /\ bounds.kind = "ok" /\ ~ (bounds.value[2] < bounds.value[1])
  <2>1. r.rest \in p + 1 .. Len(t) + 1 /\ r.value \in V
    BY <1>3, OutcomeIs, Zenon
  <2>2. bounds.rest \in r.rest + 1 .. Len(t) + 1 /\ bounds.value \in Nat \X Nat
    BY <1>3, OutcomeIs, Zenon
  <2> DEFINE q == r.rest
             z == bounds.rest
             lo == bounds.value[1]
             hi == bounds.value[2]
  <2>3. lo \in Nat /\ hi \in Nat /\ ~ (hi < lo) /\ q \in p + 1 .. Len(t) + 1 /\ z \in q + 1 .. Len(t) + 1
    BY <1>3, <2>1, <2>2
  <2> HIDE DEF q, z, lo, hi
  <2>4. lo <= hi /\ z \in p + 1 .. Len(t) + 1
    BY <2>3 DEF Place
  <2>5. Count(r.value, lo, hi) \in NodesOver(V)
    BY <2>1, <2>3, <2>4 DEF Count, NodesOver
  <2>6. Ok(z, Count(r.value, lo, hi)) \in Outcome(t, p, W)
    BY <2>4, <2>5, OkIs, Zenon DEF Above
  <2> QED
    BY <1>3, <2>6, Zenon DEF Counted, z, lo, hi
<1> QED
  BY <1>1, <1>2, <1>3

(* One node is itself, and more of them are a list. *)
LEMMA FromIterIs ==
    ASSUME NEW V, NEW W, Above(V, W), NEW s \in Seq(V) \ {<<>>}
    PROVE  FromIter(s) \in W
<1>1. CASE Len(s) = 1
  <2>1. s[1] \in V
    BY <1>1
  <2> QED
    BY <1>1, <2>1 DEF FromIter, Above
<1>2. CASE Len(s) # 1
  <2>1. Len(s) > 1
    <3> DEFINE l == Len(s)
    <3>1. l \in Nat /\ l # 0 /\ l # 1
      BY <1>2
    <3> HIDE DEF l
    <3>2. l > 1
      BY <3>1
    <3> QED
      BY <3>2 DEF l
  <2>2. [kind |-> "list", items |-> s] \in NodesOver(V)
    BY <2>1 DEF NodesOver
  <2> QED
    BY <1>2, <2>2, Zenon DEF FromIter, Above
<1> QED
  BY <1>1, <1>2

(* The nodes in parentheses *)
LEMMA ListIs ==
    ASSUME NEW t \in Seq(Token), NEW p \in Place, NEW V, NEW W, Above(V, W), NEW nodes,
           p \in 1 .. Len(t) => nodes[p + 1] \in Outcome(t, p + 1, Seq(V) \ {<<>>})
    PROVE  ParseList(t, nodes, p) \in Outcome(t, p, W)
<1> DEFINE r == nodes[p + 1]
           inner == IF r.kind = "ok" THEN Ok(r.rest, FromIter(r.value)) ELSE r
<1>1. ASSUME p \in 1 .. Len(t)
      PROVE  inner \in Outcome(t, p + 1, W)
  <2>1. r \in Outcome(t, p + 1, Seq(V) \ {<<>>})
    BY <1>1
  <2> HIDE DEF r
  <2>2. r.kind = "ok" => FromIter(r.value) \in W
    <3>1. r.kind = "ok" => r.value \in Seq(V) \ {<<>>}
      BY <2>1, OutcomeIs, Zenon
    <3> QED
      BY <3>1, FromIterIs
  <2> QED
    BY <2>1, <2>2, MappedIs
<1>2. ParseList(t, nodes, p) = Delimited(t, p, "(", inner, ")")
  BY Zenon DEF ParseList, ParseNode, Mapped
<1>3. "(" \in Token /\ ")" \in Token
  BY SyntaxIs
<1> HIDE DEF inner
<1> QED
  BY <1>1, <1>2, <1>3, DelimitedIs

(* A count is of a node as it is in the lists, or that node. *)
LEMMA CountIs ==
    ASSUME NEW t \in Seq(Token), NEW p \in Place, p <= Len(t) + 1,
           NEW V, NEW W, NEW X, Above(V, W), Above(W, X), NEW nodes,
           p \in 1 .. Len(t) => nodes[p + 1] \in Outcome(t, p + 1, Seq(V) \ {<<>>})
    PROVE  ParseCount(t, nodes, p) \in Outcome(t, p, X)
<1> DEFINE r == ParseSingle(t, nodes, p)
           bounds == ParseBraces(t, r.rest)
<1>1. r \in Outcome(t, p, W)
  <2>1. ParseList(t, nodes, p) \in Outcome(t, p, W)
    BY ListIs
  <2>2. /\ ParseLiteral(t, p) \in Outcome(t, p, W)
        /\ ParseChars(t, p) \in Outcome(t, p, W)
        /\ ParseGenerator(t, p) \in Outcome(t, p, W)
    <3>1. Leaf \subseteq W
      BY DEF Above
    <3> QED
      BY <3>1, LiteralIs, CharsIs, GeneratorIs, OutcomeOfMore
  <2> QED
    BY <2>1, <2>2, OrIs DEF ParseSingle
<1> HIDE DEF r
<1>2. ASSUME r.kind = "ok"
      PROVE  bounds \in Outcome(t, r.rest, Nat \X Nat)
  <2> DEFINE q == r.rest
  <2>1. q \in p + 1 .. Len(t) + 1
    BY <1>1, <1>2, OutcomeIs, Zenon
  <2> HIDE DEF q
  <2>2. q \in Place /\ q + 1 \in Place
    BY <2>1 DEF Place
  <2>3. ParseBounds(t, q + 1) \in Outcome(t, q + 1, Nat \X Nat)
    BY <2>2, BoundsAre
  <2>4. "{" \in Token /\ "}" \in Token
    BY SyntaxIs
  <2>5. ParseBraces(t, q) \in Outcome(t, q, Nat \X Nat)
    BY <2>2, <2>3, <2>4, DelimitedIs, Zenon DEF ParseBraces
  <2> QED
    BY <2>5 DEF q
<1>3. ParseCount(t, nodes, p) = Counted(r, bounds)
  BY Zenon DEF ParseCount, CountAfter, r
<1> HIDE DEF bounds
<1> QED
  BY <1>1, <1>2, <1>3, CountedIs

(* A count depends on what is read right after a parenthesis. *)
LEMMA CountSame ==
    ASSUME NEW t \in Seq(Token), NEW p \in Place, NEW f, NEW g, p \in 1 .. Len(t) => f[p + 1] = g[p + 1]
    PROVE  ParseCount(t, f, p) = ParseCount(t, g, p)
<1>1. ParseList(t, f, p) = ParseList(t, g, p)
  <2>1. CASE At(t, p) = "("
    <3>1. p \in 1 .. Len(t)
      BY <2>1, AtIs, SyntaxIs
    <3>2. ParseNode(f, p + 1) = ParseNode(g, p + 1)
      BY <3>1, Zenon DEF ParseNode, Mapped
    <3> QED
      BY <3>2, Zenon DEF ParseList
  <2>2. CASE At(t, p) # "("
    BY <2>2, Zenon DEF ParseList, Delimited
  <2> QED
    BY <2>1, <2>2
<1> QED
  BY <1>1, Zenon DEF ParseCount, ParseSingle

(* The nodes that can be read from a place on, of a tower of them *)
ListsAt(t, f, p) == Seq(f[2 * (Len(t) + 1 - p)]) \ {<<>>}

(* What is nested one deeper is made of what is not. *)
LEMMA AboveIs ==
    ASSUME NEW n \in Nat, NEW f, Tower(f, n), NEW k \in 0 .. n - 1
    PROVE  Above(f[k], f[k + 1])
<1>1. f[k + 1] = NodesOver(f[k]) /\ f[k] \subseteq f[k + 1] /\ Leaf \subseteq f[k + 1]
  <2>1. k + 1 \in 0 .. n /\ k \in 0 .. k + 1 /\ k + 1 # 0 /\ (k + 1) - 1 = k
    OBVIOUS
  <2>2. Leaf \subseteq f[k + 1] /\ f[k] \subseteq f[k + 1]
    BY <2>1, TowerGrows
  <2>3. f[k + 1] = NodesOver(f[k])
    BY <2>1 DEF Tower
  <2> QED
    BY <2>2, <2>3
<1> QED
  BY <1>1, Zenon DEF Above

(* The node that is read at a place, if all further on is read as nodes *)
LEMMA CountStep ==
    ASSUME NEW t \in Seq(Token), NEW n \in Nat, NEW f, Tower(f, n), 2 * Len(t) < n,
           NEW p \in Onward(t, 1), NEW nodes,
           \A q \in p + 1 .. Len(t) + 1 : nodes[q] \in Outcome(t, q, ListsAt(t, f, q))
    PROVE  ParseCount(t, nodes, p) \in Outcome(t, p, f[2 * (Len(t) + 1 - p)])
<1> DEFINE M == Len(t) + 1
           d == 2 * (M - p)
           r == ParseCount(t, nodes, p)
<1>1. Len(t) \in Nat /\ p \in Place /\ p \in 1 .. M /\ p <= M
  BY DEF Onward, Place
<1>2. CASE p = M
  <2> DEFINE W == NodesOver({})
             X == W \cup NodesOver(W)
  <2>1. Above({}, W) /\ Above(W, X)
    <3>1. Leaf \subseteq W
      BY Zenon DEF NodesOver
    <3> HIDE DEF W
    <3> QED
      BY <3>1, Zenon DEF Above, W
  <2>2. ~ (p \in 1 .. Len(t))
    BY <1>1, <1>2
  <2>3. r \in Outcome(t, p, X)
    <3> HIDE DEF W, X
    <3> QED
      BY <1>1, <2>1, <2>2, CountIs
  <2> HIDE DEF r, X
  <2>4. r.kind # "ok"
    <3>1. r.kind = "ok" => r.rest \in p + 1 .. Len(t) + 1
      BY <2>3, OutcomeIs
    <3>2. p + 1 .. Len(t) + 1 = {}
      BY <1>1, <1>2
    <3> QED
      BY <3>1, <3>2
  <2>5. r \in Outcome(t, p, f[2 * (Len(t) + 1 - p)])
    <3>1. \A u, q, V : r \in Outcome(u, q, V)
      BY <2>3, <2>4, OutcomeIs
    <3> QED
      BY <3>1, Zenon
  <2> QED
    BY <2>5 DEF r
<1>3. CASE p # M
  <2>1. /\ p + 1 \in p + 1 .. Len(t) + 1 /\ d - 2 \in 0 .. n - 1 /\ d - 1 \in 0 .. n - 1
        /\ (d - 2) + 1 = d - 1 /\ (d - 1) + 1 = d /\ 2 * (Len(t) + 1 - (p + 1)) = d - 2
        /\ 2 * (Len(t) + 1 - p) = d
    BY <1>1, <1>3
  <2> HIDE DEF d
  <2>2. Above(f[d - 2], f[d - 1]) /\ Above(f[d - 1], f[d])
    <3>1. Above(f[d - 2], f[(d - 2) + 1]) /\ Above(f[d - 1], f[(d - 1) + 1])
      BY <2>1, AboveIs
    <3> QED
      BY <2>1, <3>1
  <2>3. nodes[p + 1] \in Outcome(t, p + 1, Seq(f[d - 2]) \ {<<>>})
    BY <2>1 DEF ListsAt
  <2>4. r \in Outcome(t, p, f[d])
    BY <1>1, <2>2, <2>3, CountIs
  <2> QED
    BY <2>1, <2>4, Zenon
<1> QED
  BY <1>2, <1>3

(* The nodes that are read from a place on, if all further on is read so *)
LEMMA NodesStep ==
    ASSUME NEW t \in Seq(Token), NEW n \in Nat, NEW f, Tower(f, n), 2 * Len(t) < n,
           NEW p \in Onward(t, 1), NEW nodes,
           \A q \in p + 1 .. Len(t) + 1 : nodes[q] \in Outcome(t, q, ListsAt(t, f, q))
    PROVE  Then(ParseCount(t, nodes, p), nodes) \in Outcome(t, p, ListsAt(t, f, p))
<1> DEFINE d == 2 * (Len(t) + 1 - p)
<1>1. Len(t) \in Nat /\ p \in Place /\ d \in 0 .. n
  BY DEF Onward, Place
<1>2. \A q \in p + 1 .. Len(t) + 1 : 2 * (Len(t) + 1 - q) \in 0 .. d
  BY <1>1 DEF Place
<1>3. ParseCount(t, nodes, p) \in Outcome(t, p, f[d])
  BY CountStep
<1> HIDE DEF d
<1>4. ASSUME NEW q \in p + 1 .. Len(t) + 1
      PROVE  nodes[q] \in Outcome(t, q, Seq(f[d]) \ {<<>>})
  <2> DEFINE k == 2 * (Len(t) + 1 - q)
             A == f[k]
             B == f[d]
  <2>1. k \in 0 .. d
    BY <1>2
  <2>2. nodes[q] \in Outcome(t, q, Seq(A) \ {<<>>})
    BY DEF ListsAt
  <2> HIDE DEF k
  <2>3. A \subseteq B
    BY <1>1, <2>1, TowerGrows
  <2> HIDE DEF A, B
  <2>4. Seq(A) \ {<<>>} \subseteq Seq(B) \ {<<>>}
    <3>1. Seq(A) \subseteq Seq(B)
      BY <2>3
    <3> QED
      BY <3>1
  <2>5. nodes[q] \in Outcome(t, q, Seq(B) \ {<<>>})
    BY <2>2, <2>4, OutcomeOfMore, Zenon
  <2> QED
    BY <2>5 DEF B
<1>5. Then(ParseCount(t, nodes, p), nodes) \in Outcome(t, p, Seq(f[d]) \ {<<>>})
  BY <1>1, <1>3, <1>4, ThenIs
<1> QED
  BY <1>5, Zenon DEF ListsAt, d

(* The recursion of the parser is one over the positions of the text. *)
LEMMA NodesRecur ==
    ASSUME NEW t \in Seq(Token)
    PROVE  /\ DOMAIN Nodes(t) = Onward(t, 1)
           /\ \A p \in Onward(t, 1) : Nodes(t)[p] = Then(ParseCount(t, Nodes(t), p), Nodes(t))
<1>1. 2 * Len(t) + 1 \in Nat /\ 2 * Len(t) < 2 * Len(t) + 1
  OBVIOUS
<1>2. PICK n \in Nat : n = 2 * Len(t) + 1
  BY <1>1
<1>3. PICK f : Tower(f, n)
  BY TowerExists
<1>4. Tower(f, n) /\ 2 * Len(t) < n
  BY <1>1, <1>2, <1>3
<1> DEFINE D == Onward(t, 1)
           W == [p \in D |-> ListsAt(t, f, p)]
           G == Readings(t, 1, W)
           step == [g \in G |-> [p \in D |-> Then(ParseCount(t, g, p), g)]]
           nodes == CHOOSE g : g = [p \in Onward(t, 1) |-> Then(ParseCount(t, g, p), g)]
<1>5. 1 \in Place /\ \A q \in D : q \in Place /\ \A e \in q + 1 .. Len(t) + 1 : e \in D
  <2>1. 1 \in Place /\ \A q \in D : q \in Place
    BY DEF Onward, Place
  <2>2. \A q \in D : \A e \in q + 1 .. Len(t) + 1 : e \in D
    BY DEF Onward
  <2> QED
    BY <2>1, <2>2
<1>6. step \in [G -> G]
  <2> SUFFICES ASSUME NEW g \in G PROVE [p \in D |-> Then(ParseCount(t, g, p), g)] \in G
    OBVIOUS
  <2>1. \A e \in D : g[e] \in Outcome(t, e, ListsAt(t, f, e))
    BY DEF Readings
  <2>2. \A q \in D : Then(ParseCount(t, g, q), g) \in Outcome(t, q, W[q])
    BY <1>5, <2>1, <1>4, NodesStep
  <2> HIDE DEF W, D
  <2>3. [p \in D |-> Then(ParseCount(t, g, p), g)] \in [D -> UNION {Outcome(t, q, W[q]) : q \in D}]
    BY <2>2
  <2> QED
    BY <2>2, <2>3, Zenon DEF Readings, D
<1>7. ASSUME NEW g \in G, NEW h \in G, NEW q \in D, \A e \in q + 1 .. Len(t) + 1 : g[e] = h[e]
      PROVE  step[g][q] = step[h][q]
  <2>1. q \in 1 .. Len(t) => q + 1 \in q + 1 .. Len(t) + 1
    OBVIOUS
  <2>2. ParseCount(t, g, q) = ParseCount(t, h, q)
    BY <1>5, <1>7, <2>1, CountSame
  <2>3. \A e \in q + 1 .. Len(t) + 1 : h[e] \in Outcome(t, e, ListsAt(t, f, e))
    <3>1. \A e \in D : h[e] \in Outcome(t, e, W[e]) /\ W[e] = ListsAt(t, f, e)
      BY DEF Readings
    <3> HIDE DEF W, D
    <3> QED
      BY <1>5, <3>1
  <2>4. ParseCount(t, h, q) \in Outcome(t, q, f[2 * (Len(t) + 1 - q)])
    BY <2>3, <1>4, CountStep
  <2>5. Then(ParseCount(t, h, q), g) = Then(ParseCount(t, h, q), h)
    BY <1>5, <1>7, <2>4, ThenSame
  <2> QED
    BY <2>2, <2>5
<1>8. \E g \in G : step[g] = g
  <2> HIDE DEF step, W
  <2> QED
    BY <1>5, <1>6, <1>7, OnwardRecursion
<1>9. \E g : g = [p \in Onward(t, 1) |-> Then(ParseCount(t, g, p), g)]
  <2>1. PICK g \in G : step[g] = g
    BY <1>8
  <2> HIDE DEF G
  <2>2. g = [p \in D |-> Then(ParseCount(t, g, p), g)]
    BY <2>1
  <2> QED
    BY <2>2, Zenon
<1>10. nodes = [p \in D |-> Then(ParseCount(t, nodes, p), nodes)]
  BY <1>9, Zenon
<1>11. Nodes(t) = nodes
  BY DEF Nodes
<1> HIDE DEF nodes
<1> QED
  BY <1>10, <1>11

(* What is read of a text, from each of its places on *)
LEMMA NodesAre ==
    ASSUME NEW t \in Seq(Token), NEW n \in Nat, NEW f, Tower(f, n), 2 * Len(t) < n
    PROVE  \A p \in Onward(t, 1) : Nodes(t)[p] \in Outcome(t, p, ListsAt(t, f, p))
<1> DEFINE S == {q \in Onward(t, 1) : Nodes(t)[q] \in Outcome(t, q, ListsAt(t, f, q))}
<1>1. 1 \in Place
  BY DEF Place
<1>2. ASSUME NEW q \in Onward(t, 1), \A e \in q + 1 .. Len(t) + 1 : e \in S
      PROVE  q \in S
  <2>1. \A e \in q + 1 .. Len(t) + 1 : Nodes(t)[e] \in Outcome(t, e, ListsAt(t, f, e))
    BY <1>2
  <2>2. Then(ParseCount(t, Nodes(t), q), Nodes(t)) \in Outcome(t, q, ListsAt(t, f, q))
    BY <2>1, NodesStep
  <2>3. Nodes(t)[q] = Then(ParseCount(t, Nodes(t), q), Nodes(t))
    BY NodesRecur
  <2> QED
    BY <2>2, <2>3
<1>3. Onward(t, 1) \subseteq S
  <2> HIDE DEF S
  <2> QED
    BY <1>1, <1>2, OnwardInduction
<1> QED
  BY <1>3

(* The parser gives a node, or none. *)
LEMMA ParserGives ==
    ASSUME NEW t \in Seq(Token), NEW n \in Nat, NEW f, Tower(f, n), 2 * Len(t) < n
    PROVE  FromStr(t) \in Outcome(t, 1, f[n])
<1> DEFINE r == Nodes(t)[1]
           d == 2 * Len(t)
           whole == IF r.kind = "ok" THEN Ok(r.rest, FromIter(r.value)) ELSE r
<1>1. Len(t) \in Nat /\ 1 \in Onward(t, 1) /\ d = 2 * (Len(t) + 1 - 1) /\ d \in 0 .. n - 1 /\ d + 1 \in 0 .. n
      /\ n \in 0 .. n
  BY DEF Onward
<1>2. r \in Outcome(t, 1, Seq(f[d]) \ {<<>>})
  <2>1. r \in Outcome(t, 1, ListsAt(t, f, 1))
    BY <1>1, NodesAre
  <2>2. ListsAt(t, f, 1) = Seq(f[d]) \ {<<>>}
    BY <1>1 DEF ListsAt
  <2> QED
    BY <2>1, <2>2, Zenon
<1> HIDE DEF r, d
<1>3. Above(f[d], f[n])
  <2>1. Above(f[d], f[d + 1])
    BY <1>1, AboveIs
  <2>2. f[d + 1] \subseteq f[n]
    BY <1>1, TowerGrows
  <2> QED
    BY <2>1, <2>2, Zenon DEF Above
<1>4. whole \in Outcome(t, 1, f[n])
  <2>1. r.kind = "ok" => FromIter(r.value) \in f[n]
    <3>1. r.kind = "ok" => r.value \in Seq(f[d]) \ {<<>>}
      BY <1>2, OutcomeIs
    <3> QED
      BY <1>3, <3>1, FromIterIs
  <2> QED
    BY <1>2, <2>1, MappedIs
<1>5. FromStr(t) = Complete(t, whole)
  BY Zenon DEF FromStr, ParseNode, Mapped, r
<1> HIDE DEF whole
<1> QED
  BY <1>4, <1>5, ErrorIs, Zenon DEF Complete

-----------------------------------------------------------------------------
(* The canonical format is a text *)

(* The joining of texts over B is a text over B. *)
LEMMA FlattensTo ==
    ASSUME NEW B, NEW n \in Nat, NEW words, words = [i \in 1 .. n |-> words[i]],
           \A i \in 1 .. n : words[i] \in Seq(B)
    PROVE  FlattenSeq(words) \in Seq(B)
<1>1. words \in Seq(Seq(B)) /\ Len(words) = n
  OBVIOUS
<1>2. n = 0 => words = <<>>
  BY <1>1
<1>3. PICK text : Joining(B, text, words, n) /\ FlattenSeq(words) = text[n]
  <2>1. AreWords(B, words, n)
    BY <1>1, <1>2 DEF AreWords
  <2> QED
    BY <2>1, FlattenSeqIs, Zenon
<1>4. text[n] \in Seq(B)
  BY <1>3 DEF Joining
<1> QED
  BY <1>3, <1>4

(* Texts are sequences of tokens. *)
LEMMA TextsAre ==
    /\ \A a \in Token : <<a>> \in Seq(Token)
    /\ \A a, b \in Token : <<a, b>> \in Seq(Token)
    /\ \A a, b, c \in Token : <<a, b, c>> \in Seq(Token)
    /\ <<>> \in Seq(Token)
    /\ \A v, w \in Seq(Token) : v \o w \in Seq(Token)
OBVIOUS

(* A string is written as a text, whatever of it is escaped. *)
LEMMA WriteLiteralIs ==
    ASSUME NEW s \in Seq(Token)
    PROVE  WriteLiteral(s) \in Seq(Token)
<1>1. \A c \in Token : EscapeLiteral(c) \in Seq(Token)
  <2> SUFFICES ASSUME NEW c \in Token PROVE EscapeLiteral(c) \in Seq(Token)
    OBVIOUS
  <2>1. "\\" \in Token /\ HexOf[Tab] \in Token /\ "x" \in Token
    BY SyntaxIs, TokensAre
  <2>2. <<"\\", "x", HexOf[Tab]>> \in Seq(Token) /\ <<"\\", c>> \in Seq(Token) /\ <<c>> \in Seq(Token)
    BY <2>1, TextsAre
  <2> QED
    BY <2>2, Zenon DEF EscapeLiteral
<1> DEFINE words == [i \in DOMAIN s |-> EscapeLiteral(s[i])]
           n == Len(s)
<1>2. n \in Nat /\ words = [i \in 1 .. n |-> words[i]] /\ \A i \in 1 .. n : words[i] \in Seq(Token)
  BY <1>1
<1> HIDE DEF words, n
<1>3. FlattenSeq(words) \in Seq(Token)
  BY <1>2, FlattensTo
<1> QED
  BY <1>3 DEF WriteLiteral, words

(* A range is written as a text. *)
LEMMA FmtCharclassIs ==
    ASSUME NEW r \in CharRange
    PROVE  FmtCharclass(r) \in Seq(Token)
<1>1. ASSUME NEW code \in DOMAIN Order
      PROVE  WriteEscape(code) \in Seq(Token)
  <2>1. Order[code] \in Token /\ "\\" \in Token /\ HexOf[Tab] \in Token /\ "x" \in Token
    BY SyntaxIs, TokensAre
  <2>2. <<"\\", "x", HexOf[Tab]>> \in Seq(Token) /\ <<"\\", Order[code]>> \in Seq(Token) /\ <<Order[code]>> \in Seq(Token)
    BY <2>1, TextsAre
  <2> QED
    BY <2>2, Zenon DEF WriteEscape
<1>2. r[1] \in DOMAIN Order /\ r[2] \in DOMAIN Order
  BY DEF CharRange
<1> DEFINE u == WriteEscape(r[1])
           v == IF r[1] + 1 < r[2] THEN <<"-">> ELSE <<>>
           w == IF r[1] < r[2] THEN WriteEscape(r[2]) ELSE <<>>
<1>3. u \in Seq(Token) /\ v \in Seq(Token) /\ w \in Seq(Token)
  <2>1. <<"-">> \in Seq(Token) /\ <<>> \in Seq(Token)
    BY SyntaxIs, TextsAre
  <2> QED
    BY <1>1, <1>2, <2>1, Zenon
<1>4. FmtCharclass(r) = (u \o v) \o w
  BY DEF FmtCharclass
<1> HIDE DEF u, v, w
<1> QED
  BY <1>3, <1>4, TextsAre

(* And so is a class, in whatever order its ranges are. *)
LEMMA WriteCharsIs ==
    ASSUME NEW ranges \in Seq(CharRange)
    PROVE  WriteChars(ranges) \in Seq(Token)
<1>1. ASSUME NEW chosen
      PROVE  Written(ranges, chosen) \in Seq(Token)
  <2> DEFINE words == [i \in DOMAIN ranges |-> IF ranges[i] \in chosen THEN FmtCharclass(ranges[i]) ELSE <<>>]
             n == Len(ranges)
  <2>1. n \in Nat /\ DOMAIN ranges = 1 .. n /\ \A i \in 1 .. n : ranges[i] \in CharRange
    OBVIOUS
  <2>2. \A i \in 1 .. n : FmtCharclass(ranges[i]) \in Seq(Token) /\ <<>> \in Seq(Token)
    BY <2>1, FmtCharclassIs, TextsAre
  <2>3. n \in Nat /\ words = [i \in 1 .. n |-> words[i]] /\ \A i \in 1 .. n : words[i] \in Seq(Token)
    <3> HIDE DEF n
    <3>1. \A i \in 1 .. n : words[i] = IF ranges[i] \in chosen THEN FmtCharclass(ranges[i]) ELSE <<>>
      BY <2>1
    <3>2. words = [i \in 1 .. n |-> words[i]]
      BY <2>1
    <3> QED
      BY <2>1, <2>2, <3>1, <3>2, Zenon
  <2> HIDE DEF words, n
  <2>4. FlattenSeq(words) \in Seq(Token)
    BY <2>3, FlattensTo
  <2> QED
    BY <2>4 DEF Written, words
<1> DEFINE first == {r \in CharRange : r[1] = Code("-")}
           last == {r \in CharRange : r[1] # Code("-") /\ r[2] = Code("-")}
           u == Written(ranges, first)
           v == Written(ranges, CharRange \ (first \cup last))
           w == Written(ranges, last)
<1>2. u \in Seq(Token) /\ v \in Seq(Token) /\ w \in Seq(Token)
  BY <1>1, Zenon
<1>3. <<"[">> \in Seq(Token) /\ <<"]">> \in Seq(Token)
  BY SyntaxIs, TextsAre
<1>4. WriteChars(ranges) = (((<<"[">> \o u) \o v) \o w) \o <<"]">>
  BY Zenon DEF WriteChars
<1> HIDE DEF u, v, w
<1> QED
  BY <1>2, <1>3, <1>4, TextsAre

(* Texts, and one of them at least *)
Parts(B) == Seq(Seq(B)) \ {<<>>}

(* The last of the texts grows. *)
LEMMA ExtendedIs ==
    ASSUME NEW B, NEW parts \in Parts(B), NEW c \in B
    PROVE  /\ Extended(parts, c) \in Parts(B) /\ Append(parts, <<>>) \in Parts(B)
           /\ Len(Extended(parts, c)) = Len(parts)
           /\ \A i \in 1 .. Len(parts) : Extended(parts, c)[i] = IF i = Len(parts) THEN Append(parts[i], c) ELSE parts[i]
<1> DEFINE n == Len(parts)
<1>1. n \in Nat /\ n # 0 /\ DOMAIN parts = 1 .. n /\ \A i \in 1 .. n : parts[i] \in Seq(B)
  BY DEF Parts
<1>2. Extended(parts, c) = [i \in 1 .. n |-> IF i = n THEN Append(parts[i], c) ELSE parts[i]]
  BY <1>1 DEF Extended
<1> HIDE DEF n
<1>3. \A i \in 1 .. n : Append(parts[i], c) \in Seq(B)
  BY <1>1
<1>4. Extended(parts, c) \in Seq(Seq(B)) /\ Len(Extended(parts, c)) = n
  BY <1>1, <1>2, <1>3
<1>5. Extended(parts, c) \in Parts(B)
  BY <1>1, <1>4 DEF Parts
<1>6. Append(parts, <<>>) \in Parts(B)
  BY DEF Parts
<1> QED
  BY <1>2, <1>4, <1>5, <1>6 DEF n

(* What is between the separators is texts. *)
LEMMA SplitIs ==
    ASSUME NEW s \in Seq(Token), NEW separator
    PROVE  Split(s, separator) \in Parts(Token)
<1> DEFINE n == Len(s)
           Body(f, i) == IF i = 0 THEN <<<<>>>>
                         ELSE IF s[i] = separator THEN Append(f[i - 1], <<>>) ELSE Extended(f[i - 1], s[i])
           step == [i \in 1 .. n |-> [f \in Parts(Token) |-> IF s[i] = separator THEN Append(f, <<>>) ELSE Extended(f, s[i])]]
           parts == CHOOSE f : f = [i \in 0 .. Len(s) |->
                        IF i = 0 THEN <<<<>>>>
                        ELSE IF s[i] = separator THEN Append(f[i - 1], <<>>) ELSE Extended(f[i - 1], s[i])]
<1>1. n \in Nat /\ <<<<>>>> \in Parts(Token) /\ \A i \in 1 .. n : s[i] \in Token
  BY DEF Parts
<1> HIDE DEF n
<1>2. step \in [1 .. n -> [Parts(Token) -> Parts(Token)]]
  <2>1. \A i \in 1 .. n : \A f \in Parts(Token) :
           (IF s[i] = separator THEN Append(f, <<>>) ELSE Extended(f, s[i])) \in Parts(Token)
    BY <1>1, ExtendedIs
  <2> QED
    BY <2>1
<1>3. PICK f \in [0 .. n -> Parts(Token)] : IsIteration(f, <<<<>>>>, n, step)
  <2> HIDE DEF step
  <2> QED
    BY <1>1, <1>2, IterationExists
<1>4. f[0] = <<<<>>>> /\ \A i \in 1 .. n : f[i] = step[i][f[i - 1]] /\ f[i - 1] \in Parts(Token)
  <2> HIDE DEF step
  <2>1. f[0] = <<<<>>>> /\ \A i \in 1 .. n : f[i] = step[i][f[i - 1]]
    BY <1>3 DEF IsIteration
  <2>2. \A i \in 1 .. n : i - 1 \in 0 .. n
    BY <1>1
  <2> QED
    BY <1>3, <2>1, <2>2
<1>5. \A i \in 1 .. n : f[i] = IF s[i] = separator THEN Append(f[i - 1], <<>>) ELSE Extended(f[i - 1], s[i])
  BY <1>4
<1>6. f = [i \in 0 .. n |-> f[i]] /\ \A i \in 0 .. n : i = 0 \/ (i \in 1 .. n /\ i # 0)
  BY <1>1, <1>3
<1>7. \A i \in 0 .. n : f[i] = Body(f, i)
  BY <1>4, <1>5, <1>6, Zenon
<1>8. f = [i \in 0 .. n |-> Body(f, i)]
  BY <1>6, <1>7, Zenon
<1>9. \E g : g = [i \in 0 .. n |-> Body(g, i)]
  BY <1>8, Zenon
<1>10. parts = [i \in 0 .. n |-> Body(parts, i)]
  BY <1>9, Zenon DEF n
<1>11. Split(s, separator) = parts[n]
  BY Zenon DEF Split, n
<1> HIDE DEF parts
<1>12. parts \in [0 .. n -> Parts(Token)]
  <2>1. parts = [i \in 0 .. n |-> parts[i]]
    <3> HIDE DEF Body
    <3> QED
      BY <1>10
  <2>2. \A i \in 0 .. n : parts[i] = Body(parts, i)
    <3> HIDE DEF Body
    <3> QED
      BY <1>10
  <2>3. parts[0] \in Parts(Token)
    <3>1. 0 \in 0 .. n
      BY <1>1
    <3> QED
      BY <1>1, <2>2, <3>1
  <2>4. \A i \in 1 .. n : parts[i - 1] \in Parts(Token) => parts[i] \in Parts(Token)
    <3> SUFFICES ASSUME NEW i \in 1 .. n, parts[i - 1] \in Parts(Token) PROVE parts[i] \in Parts(Token)
      OBVIOUS
    <3>1. i \in 0 .. n /\ i # 0 /\ s[i] \in Token
      BY <1>1
    <3>2. parts[i] = IF s[i] = separator THEN Append(parts[i - 1], <<>>) ELSE Extended(parts[i - 1], s[i])
      BY <2>2, <3>1
    <3> QED
      BY <3>1, <3>2, ExtendedIs
  <2> HIDE DEF Body
  <2> QED
    BY <1>1, <2>1, <2>3, <2>4, IterationType
<1> QED
  <2>1. n \in 0 .. n
    BY <1>1
  <2> QED
    BY <1>11, <1>12, <2>1

(* The name of a generator and its arguments are texts. *)
LEMMA ArgsAre ==
    ASSUME NEW s \in Seq(Token)
    PROVE  /\ NameLength(s) \in 0 .. Len(s) /\ \A i \in 0 .. NameLength(s) - 1 : At(s, i + 1) \in Lower
           /\ At(s, NameLength(s) + 1) \notin Lower
           /\ GeneratorName(s) \in Seq(Token) /\ GeneratorArgs(s) \in Seq(Seq(Token))
<1> DEFINE E == {i \in 0 .. Len(s) : At(s, i + 1) \notin Lower}
           args == GeneratorArgs(s)
<1>1. /\ NameLength(s) \in 0 .. Len(s) /\ Len(s) \in Nat
      /\ \A i \in 0 .. NameLength(s) - 1 : At(s, i + 1) \in Lower
      /\ At(s, NameLength(s) + 1) \notin Lower
  <2>1. E \in SUBSET Nat
    OBVIOUS
  <2>2. Len(s) \in E
    <3>1. Len(s) \in Nat /\ ~ (Len(s) + 1 <= Len(s))
      OBVIOUS
    <3>2. At(s, Len(s) + 1) = NoToken
      BY <3>1 DEF At
    <3>3. NoToken \notin Lower
      <4>1. Names \subseteq Token
        BY DEF Token
      <4> QED
        BY <4>1, TokensAre, Zenon DEF Lower
    <3> QED
      BY <3>1, <3>2, <3>3
  <2>3. Min(E) \in E /\ \A i \in E : Min(E) <= i
    <3> HIDE DEF E
    <3> QED
      BY <2>1, <2>2, LeastIsMin
  <2>4. Min(E) = NameLength(s)
    BY DEF NameLength
  <2>5. \A i \in 0 .. Min(E) - 1 : i \in 0 .. Len(s) /\ ~ (Min(E) <= i)
    <3>1. Min(E) \in 0 .. Len(s) /\ Len(s) \in Nat
      BY <2>3
    <3> DEFINE m == Min(E)
    <3> HIDE DEF m, E
    <3> QED
      BY <3>1 DEF m
  <2>6. \A i \in 0 .. Min(E) - 1 : At(s, i + 1) \in Lower
    BY <2>3, <2>5
  <2> HIDE DEF E
  <2>7. Min(E) \in 0 .. Len(s) /\ At(s, Min(E) + 1) \notin Lower
    BY <2>3 DEF E
  <2> QED
    BY <2>4, <2>6, <2>7
<1>2. GeneratorName(s) \in Seq(Token)
  <2> DEFINE k == NameLength(s)
  <2>1. k \in 0 .. Len(s)
    BY <1>1
  <2> HIDE DEF k
  <2>2. SubSeq(s, 1, k) \in Seq(Token)
    BY <2>1
  <2> QED
    BY <2>2 DEF GeneratorName, k
<1>3. args \in Seq(Seq(Token))
  <2>1. CASE NameLength(s) = Len(s)
    BY <2>1 DEF GeneratorArgs
  <2>2. CASE NameLength(s) # Len(s)
    <3> DEFINE parts == Split(s, s[NameLength(s) + 1])
    <3>1. parts \in Parts(Token)
      BY SplitIs
    <3> HIDE DEF parts
    <3>2. Tail(parts) \in Seq(Seq(Token))
      BY <3>1 DEF Parts
    <3> QED
      BY <2>2, <3>2 DEF GeneratorArgs, parts
  <2> QED
    BY <2>1, <2>2
<1> QED
  BY <1>1, <1>2, <1>3

(* A generator is written as a text: its name, its hash and its arguments are. *)
LEMMA GeneratorTextIs ==
    ASSUME NEW s \in Seq(Token)
    PROVE  WriteGenerator(s) \in Seq(Token)
<1> DEFINE args == GeneratorArgs(s)
           hash == DictHash(args)
           u == IF \E i \in DOMAIN args : args[i] = <<hash>> THEN <<>> ELSE WriteSepArg(<<hash>>)
           words == [i \in DOMAIN args |-> WriteSepArg(args[i])]
           n == Len(args)
<1>1. GeneratorName(s) \in Seq(Token) /\ args \in Seq(Seq(Token))
  BY ArgsAre
<1> HIDE DEF args
<1>4. DOMAIN args = 1 .. n /\ n \in Nat /\ \A i \in 1 .. n : args[i] \in Seq(Token)
  BY <1>1
<1> HIDE DEF n
<1>5. hash \in Token
  <2>1. Hashes \subseteq Token /\ DefaultHash \in Hashes
    BY TokensAre, Zenon DEF Hashes
  <2>2. CASE HashArgs(args) = {}
    BY <2>1, <2>2 DEF DictHash
  <2>3. CASE HashArgs(args) # {}
    <3>1. HashArgs(args) \in SUBSET Nat
      BY <1>4 DEF HashArgs
    <3>2. Min(HashArgs(args)) \in HashArgs(args)
      BY <2>3, <3>1, LeastIsMin
    <3> DEFINE i == Min(HashArgs(args))
    <3>3. PICK h \in Hashes : args[i] = <<h>>
      BY <3>2 DEF HashArgs
    <3>4. <<h>>[1] = h
      OBVIOUS
    <3>5. DictHash(args) = h
      BY <2>3, <3>3, <3>4, Zenon DEF DictHash
    <3> QED
      BY <2>1, <3>5
  <2> QED
    BY <2>2, <2>3
<1> HIDE DEF hash
<1>6. ASSUME NEW arg \in Seq(Token)
      PROVE  WriteSepArg(arg) \in Seq(Token)
  <2>1. <<"|">> \in Seq(Token)
    BY SyntaxIs, TextsAre
  <2>2. WriteLiteral(arg) \in Seq(Token)
    BY WriteLiteralIs
  <2> QED
    BY <2>1, <2>2, TextsAre DEF WriteSepArg
<1>7. u \in Seq(Token)
  <2>1. <<hash>> \in Seq(Token) /\ <<>> \in Seq(Token)
    BY <1>5, TextsAre
  <2> QED
    BY <1>6, <2>1, Zenon
<1>8. FlattenSeq(words) \in Seq(Token)
  <2>1. words = [i \in 1 .. n |-> words[i]] /\ \A i \in 1 .. n : words[i] \in Seq(Token)
    BY <1>4, <1>6
  <2> HIDE DEF words
  <2> QED
    BY <1>4, <2>1, FlattensTo
<1>9. WriteGenerator(s) = ((<<"{">> \o GeneratorName(s)) \o (u \o FlattenSeq(words))) \o <<"}">>
  BY Zenon DEF WriteGenerator, FmtWithHash, args, hash
<1>10. <<"{">> \in Seq(Token) /\ <<"}">> \in Seq(Token)
  BY SyntaxIs, TextsAre
<1> HIDE DEF u, words
<1>11. <<"{">> \o GeneratorName(s) \in Seq(Token) /\ u \o FlattenSeq(words) \in Seq(Token)
  BY <1>1, <1>7, <1>8, <1>10, TextsAre, Zenon
<1>12. (<<"{">> \o GeneratorName(s)) \o (u \o FlattenSeq(words)) \in Seq(Token)
  BY <1>11, TextsAre, Zenon
<1> QED
  BY <1>9, <1>10, <1>12, TextsAre, Zenon

(* The ten digits are characters. *)
LEMMA DigitsAre ==
    /\ DOMAIN Digits = 1 .. 10
    /\ \A k \in 1 .. 10 : Digits[k] \in Token
<1>1. Digits \in Seq(Character) /\ Len(Digits) = 10
  BY LetterAssumption
<1>2. DOMAIN Digits = 1 .. 10
  BY <1>1
<1>3. ASSUME NEW k \in 1 .. 10
      PROVE  Digits[k] \in Character
  <2> DEFINE C == Character
             s == Digits
  <2>1. s \in Seq(C) /\ k \in DOMAIN s
    BY <1>1, <1>2
  <2> HIDE DEF C, s
  <2>2. s[k] \in C
    BY <2>1
  <2> QED
    BY <2>2 DEF C, s
<1> QED
  BY <1>2, <1>3, TokensAre

(* The digits tell their numbers. *)
LEMMA DigitsTell ==
    ASSUME NEW k \in 0 .. 9
    PROVE  Digits[k + 1] \in Digit /\ DigitValue(Digits[k + 1]) = k
<1>1. DOMAIN Digits = 1 .. 10 /\ k + 1 \in 1 .. 10
  BY DigitsAre
<1>2. \A i, j \in 1 .. 10 : Digits[i] = Digits[j] => i = j
  BY <1>1, LetterAssumption DEF IsInjective
<1>3. (CHOOSE j \in DOMAIN Digits : Digits[j] = Digits[k + 1]) = k + 1
  BY <1>1, <1>2
<1>4. (k + 1) - 1 = k
  OBVIOUS
<1>5. DigitValue(Digits[k + 1]) = k
  BY <1>3, <1>4 DEF DigitValue
<1> QED
  BY <1>1, <1>5 DEF Digit, ToSet

Tells(w, n) == w \in Seq(Digit) \ {<<>>} /\ \E value : Values(w, value) /\ value[Len(w)] = n

LEMMA TellsOne ==
    ASSUME NEW d \in Digit
    PROVE  Tells(<<d>>, DigitValue(d))
<1> DEFINE w == <<d>>
           v == DigitValue(d)
           value == [k \in 0 .. 1 |-> IF k = 0 THEN 0 ELSE v]
<1>1. w \in Seq(Digit) \ {<<>>} /\ Len(w) = 1 /\ w[1] = d
  OBVIOUS
<1>2. v \in Nat
  BY DigitValueIs
<1> HIDE DEF w, v
<1>3. value \in [0 .. 1 -> Nat] /\ value[0] = 0 /\ value[1] = 10 * value[0] + v /\ 1 - 1 = 0
  BY <1>2
<1>4. value[1] = v
  OBVIOUS
<1> HIDE DEF value
<1>5. \A k \in 1 .. 1 : w[k] \in Digit /\ value[k] = 10 * value[k - 1] + DigitValue(w[k])
  BY <1>1, <1>3 DEF v
<1>6. Values(w, value)
  BY <1>1, <1>3, <1>5 DEF Values
<1> QED
  BY <1>1, <1>4, <1>6 DEF Tells, w, v

LEMMA TellsMore ==
    ASSUME NEW w, NEW n \in Nat, Tells(w, n), NEW d \in Digit
    PROVE  Tells(Append(w, d), 10 * n + DigitValue(d))
<1> DEFINE m == Len(w)
           u == Append(w, d)
           v == DigitValue(d)
<1>1. w \in Seq(Digit) /\ v \in Nat
  BY DigitValueIs DEF Tells
<1>2. PICK value : Values(w, value) /\ value[m] = n
  BY DEF Tells
<1>3. m \in Nat /\ u \in Seq(Digit) /\ u # <<>> /\ Len(u) = m + 1 /\ u[m + 1] = d /\ \A k \in 1 .. m : u[k] = w[k]
  <2> DEFINE B == Digit
  <2>1. w \in Seq(B) /\ d \in B
    BY <1>1
  <2> HIDE DEF B
  <2>2. m \in Nat /\ u \in Seq(B) /\ u # <<>> /\ Len(u) = m + 1 /\ u[m + 1] = d /\ \A k \in 1 .. m : u[k] = w[k]
    BY ONLY <2>1
  <2> QED
    BY <2>2 DEF B
<1>4. /\ value \in [0 .. m -> Nat] /\ value[0] = 0
      /\ \A k \in 1 .. m : w[k] \in Digit /\ value[k] = 10 * value[k - 1] + DigitValue(w[k])
  BY <1>2 DEF Values
<1> HIDE DEF m, u, v
<1> DEFINE more == [k \in 0 .. m + 1 |-> IF k = m + 1 THEN 10 * n + v ELSE value[k]]
<1>5. /\ more \in [0 .. m + 1 -> Nat] /\ more[m + 1] = 10 * n + v
      /\ \A k \in 0 .. m : more[k] = value[k]
  <2>1. \A k \in 0 .. m + 1 : k # m + 1 => k \in 0 .. m
    BY <1>3
  <2>2. 10 * n + v \in Nat
    BY <1>1
  <2>3. \A k \in 0 .. m : k \in 0 .. m + 1 /\ k # m + 1
    BY <1>3
  <2>4. m + 1 \in 0 .. m + 1
    BY <1>3
  <2> QED
    BY <1>4, <2>1, <2>2, <2>3, <2>4
<1> HIDE DEF more
<1>6. more[0] = 0 /\ more[m] = n /\ (m + 1) - 1 = m
  BY <1>2, <1>3, <1>4, <1>5 DEF m
<1>7. ASSUME NEW k \in 1 .. m + 1
      PROVE  u[k] \in Digit /\ more[k] = 10 * more[k - 1] + DigitValue(u[k])
  <2>1. CASE k = m + 1
    BY <1>3, <1>5, <1>6, <2>1 DEF v
  <2>2. CASE k \in 1 .. m
    <3>1. k \in 0 .. m /\ k - 1 \in 0 .. m
      BY <1>3, <2>2
    <3> QED
      BY <1>3, <1>4, <1>5, <2>2, <3>1
  <2>3. k = m + 1 \/ k \in 1 .. m
    BY <1>3
  <2> QED
    BY <2>1, <2>2, <2>3
<1>8. Values(u, more)
  BY <1>3, <1>5, <1>6, <1>7 DEF Values
<1> QED
  BY <1>3, <1>5, <1>8 DEF Tells, u, v

(* The digits of a number *)
LEMMA DecimalIs ==
    ASSUME NEW n \in Nat
    PROVE  Decimal(n) \in Seq(Token) /\ Tells(Decimal(n), n)
<1> DEFINE D == 0 .. n
           A == Seq(Token)
           G == [D -> A]
           rank == [k \in D |-> k]
           Body(f, k) == IF k < 10 THEN <<Digits[k + 1]>> ELSE Append(f[k \div 10], Digits[(k % 10) + 1])
           step == [f \in G |-> [k \in D |-> Body(f, k)]]
           g0 == [k \in D |-> <<>>]
           digits == CHOOSE f : f = [k \in 0 .. n |->
                        IF k < 10 THEN <<Digits[k + 1]>> ELSE Append(f[k \div 10], Digits[(k % 10) + 1])]
<1>1. \A k \in 1 .. 10 : Digits[k] \in Token
  BY DigitsAre
<1>2. \A k \in D : /\ k < 10 => k + 1 \in 1 .. 10
                   /\ ~ (k < 10) => k \div 10 \in D /\ k \div 10 < k /\ (k % 10) + 1 \in 1 .. 10
  OBVIOUS
<1>3. ASSUME NEW k \in D, NEW f, \A e \in D : e < k => f[e] \in A
      PROVE  Body(f, k) \in A
  <2>1. CASE k < 10
    <3>1. Digits[k + 1] \in Token
      BY <1>1, <1>2, <2>1
    <3>2. <<Digits[k + 1]>> \in A
      BY <3>1, TextsAre
    <3> QED
      BY <2>1, <3>2
  <2>2. CASE ~ (k < 10)
    <3>1. f[k \div 10] \in A /\ Digits[(k % 10) + 1] \in Token
      BY <1>1, <1>2, <1>3, <2>2
    <3>2. Append(f[k \div 10], Digits[(k % 10) + 1]) \in A
      <4> DEFINE v == f[k \div 10]
                 c == Digits[(k % 10) + 1]
      <4>1. v \in Seq(Token) /\ c \in Token
        BY <3>1
      <4> HIDE DEF v, c
      <4>2. Append(v, c) \in Seq(Token)
        BY <4>1
      <4> QED
        BY <4>2 DEF v, c
    <3> QED
      BY <2>2, <3>2
  <2> QED
    BY <2>1, <2>2
<1>4. ASSUME NEW k \in D, NEW f, NEW g, \A e \in D : e < k => f[e] = g[e]
      PROVE  Body(f, k) = Body(g, k)
  <2>1. ~ (k < 10) => f[k \div 10] = g[k \div 10]
    BY <1>2, <1>4
  <2> QED
    BY <2>1, Zenon
<1>5. digits = CHOOSE f : f = [k \in D |-> Body(f, k)]
  OBVIOUS
<1>6. Decimal(n) = digits[n]
  BY DEF Decimal
<1> HIDE DEF Body, digits
<1>7. rank \in [D -> 0 .. n] /\ \A e, k \in D : rank[e] < rank[k] <=> e < k
  OBVIOUS
<1> HIDE DEF rank
<1>8. step \in [G -> G]
  <2> SUFFICES ASSUME NEW f \in G PROVE [k \in D |-> Body(f, k)] \in G
    OBVIOUS
  <2>1. \A k \in D : f[k] \in A
    OBVIOUS
  <2>2. \A k \in D : Body(f, k) \in A
    BY <1>3, <2>1
  <2> HIDE DEF D, A
  <2> QED
    BY <2>2
<1>9. IsLocal(step, G, D, rank)
  <2> SUFFICES ASSUME NEW f \in G, NEW g \in G, NEW k \in D, \A e \in D : rank[e] < rank[k] => f[e] = g[e]
               PROVE  step[f][k] = step[g][k]
    BY Zenon DEF IsLocal
  <2>1. Body(f, k) = Body(g, k)
    BY <1>4, <1>7
  <2> QED
    BY <2>1
<1>10. g0 \in G /\ G \in SUBSET [D -> A]
  BY TextsAre
<1> HIDE DEF step, g0, G
<1>11. IsRecursion(D, n, rank, A, G, g0, step)
  BY <1>7, <1>8, <1>9, <1>10, Zenon DEF IsRecursion
<1>12. \E f \in G : step[f] = f
  BY ONLY <1>11, RankRecursion
<1>13. digits = [k \in D |-> Body(digits, k)]
  <2>1. PICK f \in G : step[f] = f
    BY <1>12
  <2>2. f = [k \in D |-> Body(f, k)]
    <3> HIDE DEF D
    <3> QED
      BY <2>1 DEF step
  <2> HIDE DEF D
  <2> QED
    BY <1>5, <2>2, Zenon
<1>17. ASSUME NEW k \in D, NEW f, \A e \in D : e < k => Tells(f[e], e)
       PROVE  Tells(Body(f, k), k)
  <2>0. k \in Nat
    OBVIOUS
  <2>1. CASE k < 10
    <3>1. k \in 0 .. 9
      BY <2>0, <2>1
    <3>2. Body(f, k) = <<Digits[k + 1]>>
      BY <2>1 DEF Body
    <3> QED
      BY <3>1, <3>2, DigitsTell, TellsOne
  <2>2. CASE ~ (k < 10)
    <3> DEFINE h == k \div 10
               c == k % 10
    <3>1. h \in D /\ h < k /\ h \in Nat /\ c \in 0 .. 9 /\ k = 10 * h + c
      BY <1>2, <2>0, <2>2
    <3>2. Body(f, k) = Append(f[h], Digits[c + 1])
      BY <2>2 DEF Body
    <3> HIDE DEF h, c
    <3>3. Digits[c + 1] \in Digit /\ DigitValue(Digits[c + 1]) = c
      BY <3>1, DigitsTell
    <3>4. Tells(f[h], h)
      BY <1>17, <3>1
    <3>5. Tells(Append(f[h], Digits[c + 1]), 10 * h + DigitValue(Digits[c + 1]))
      BY <3>1, <3>3, <3>4, TellsMore
    <3> QED
      BY <3>1, <3>2, <3>3, <3>5
  <2> QED
    BY <2>1, <2>2
<1> DEFINE S == {k \in D : digits[k] \in A /\ Tells(digits[k], k)}
<1>14. ASSUME NEW k \in D, \A e \in D : rank[e] < rank[k] => e \in S
       PROVE  k \in S
  <2>1. \A e \in D : e < k => digits[e] \in A /\ Tells(digits[e], e)
    BY <1>7, <1>14
  <2>2. Body(digits, k) \in A
    BY <1>3, <2>1
  <2>4. Tells(Body(digits, k), k)
    BY <1>17, <2>1
  <2>3. digits[k] = Body(digits, k)
    <3> HIDE DEF D
    <3> QED
      BY <1>13
  <2> QED
    BY <2>2, <2>3, <2>4
<1>15. D \subseteq S
  <2> HIDE DEF S, D
  <2> QED
    BY <1>7, <1>14, RankInduction
<1>16. n \in D
  OBVIOUS
<1> QED
  BY <1>6, <1>15, <1>16

(* The bounds of a count are written as a text. *)
LEMMA WriteBoundsIs ==
    ASSUME NEW min \in Nat, NEW max \in Nat
    PROVE  WriteBounds(min, max) \in Seq(Token)
<1> DEFINE u == IF min # 0 \/ max = 0 THEN Decimal(min) ELSE <<>>
           v == IF max # min THEN <<",">> \o Decimal(max) ELSE <<>>
<1>1. Decimal(min) \in Seq(Token) /\ Decimal(max) \in Seq(Token)
  BY DecimalIs
<1>2. <<",">> \in Seq(Token) /\ <<"{">> \in Seq(Token) /\ <<"}">> \in Seq(Token) /\ <<>> \in Seq(Token)
  BY SyntaxIs, TextsAre
<1>3. u \in Seq(Token) /\ v \in Seq(Token)
  BY <1>1, <1>2, TextsAre, Zenon
<1>4. WriteBounds(min, max) = ((<<"{">> \o u) \o v) \o <<"}">>
  BY Zenon DEF WriteBounds
<1> HIDE DEF u, v
<1>5. (<<"{">> \o u) \o v \in Seq(Token)
  BY <1>2, <1>3, TextsAre, Zenon
<1> QED
  BY <1>2, <1>4, <1>5, TextsAre, Zenon

(* The texts of the parts of a node *)
PartsWritten(w, n) ==
    /\ n.kind = "count" => w[n.item] \in Seq(Token)
    /\ n.kind = "list" => \A i \in DOMAIN n.items : w[n.items[i]] \in Seq(Token)

(* The items of a list one after the other *)
LEMMA ItemsAre ==
    ASSUME NEW items \in Seq(Node), NEW w, \A i \in DOMAIN items : w[items[i]] \in Seq(Token)
    PROVE  FlattenSeq([i \in DOMAIN items |-> w[items[i]]]) \in Seq(Token)
<1> DEFINE words == [i \in DOMAIN items |-> w[items[i]]]
           n == Len(items)
<1>1. n \in Nat /\ DOMAIN items = 1 .. n
  OBVIOUS
<1> HIDE DEF n
<1>2. words = [i \in 1 .. n |-> words[i]] /\ \A i \in 1 .. n : words[i] \in Seq(Token)
  BY <1>1
<1> HIDE DEF words
<1>3. FlattenSeq(words) \in Seq(Token)
  BY <1>1, <1>2, FlattensTo
<1> QED
  BY <1>3 DEF words

(* A node is written as a text, if its parts are. *)
LEMMA WritingIs ==
    ASSUME NEW n \in Node, NEW w, PartsWritten(w, n)
    PROVE  Writing(w, n) \in Seq(Token)
<1>1. MadeOf(n, Node)
  BY LevelIs, Zenon DEF PartsAreLower
<1>2. CASE n.kind = "literal"
  <2>1. n.text \in Seq(Token)
    BY <1>1, <1>2 DEF MadeOf
  <2> QED
    BY <1>2, <2>1, WriteLiteralIs DEF Writing
<1>3. CASE n.kind = "chars"
  <2>1. n.ranges \in Seq(CharRange)
    BY <1>1, <1>3 DEF MadeOf
  <2> QED
    BY <1>3, <2>1, WriteCharsIs DEF Writing
<1>4. CASE n.kind = "generator"
  <2>1. n.text \in Seq(Token)
    BY <1>1, <1>4 DEF MadeOf
  <2> QED
    BY <1>4, <2>1, GeneratorTextIs DEF Writing
<1>5. CASE n.kind = "count"
  <2>1. n.min \in Nat /\ n.max \in Nat
    BY <1>1, <1>5 DEF MadeOf
  <2>2. WriteBounds(n.min, n.max) \in Seq(Token) /\ w[n.item] \in Seq(Token)
    BY <1>5, <2>1, WriteBoundsIs DEF PartsWritten
  <2>3. Writing(w, n) = w[n.item] \o WriteBounds(n.min, n.max)
    BY <1>5 DEF Writing
  <2> QED
    BY <2>2, <2>3, TextsAre, Zenon
<1>6. CASE n.kind = "list"
  <2> DEFINE text == FlattenSeq([i \in DOMAIN n.items |-> w[n.items[i]]])
  <2>1. n.items \in Seq(Node)
    BY <1>1, <1>6 DEF MadeOf
  <2>2. text \in Seq(Token)
    BY <1>6, <2>1, ItemsAre, Zenon DEF PartsWritten
  <2>3. Writing(w, n) = (<<"(">> \o text) \o <<")">>
    BY <1>6 DEF Writing
  <2>4. <<"(">> \in Seq(Token) /\ <<")">> \in Seq(Token)
    BY SyntaxIs, TextsAre
  <2> HIDE DEF text
  <2>5. <<"(">> \o text \in Seq(Token)
    BY <2>2, <2>4, TextsAre, Zenon
  <2> QED
    BY <2>3, <2>4, <2>5, TextsAre, Zenon
<1> QED
  BY <1>1, <1>2, <1>3, <1>4, <1>5, <1>6 DEF MadeOf

(* What is written of a node depends on what is written of its parts. *)
LEMMA WritingSame ==
    ASSUME NEW n \in Node, NEW v, NEW w, \A m \in Node : Level[m] < Level[n] => v[m] = w[m]
    PROVE  Writing(v, n) = Writing(w, n)
<1>1. PartsAreLower(n)
  BY LevelIs
<1>2. n.kind = "count" => v[n.item] = w[n.item]
  BY <1>1 DEF PartsAreLower, MadeOf
<1>3. n.kind = "list" => [i \in DOMAIN n.items |-> v[n.items[i]]] = [i \in DOMAIN n.items |-> w[n.items[i]]]
  <2> SUFFICES ASSUME n.kind = "list"
               PROVE  \A i \in DOMAIN n.items : v[n.items[i]] = w[n.items[i]]
    BY Zenon
  <2> DEFINE items == n.items
  <2>1. items \in Seq(Node) /\ \A i \in DOMAIN items : Level[items[i]] < Level[n]
    BY <1>1 DEF PartsAreLower, MadeOf
  <2> HIDE DEF items
  <2>2. \A i \in DOMAIN items : items[i] \in Node
    BY <2>1
  <2>3. \A i \in DOMAIN items : v[items[i]] = w[items[i]]
    BY <2>1, <2>2
  <2> QED
    BY <2>3 DEF items
<1>4. CASE n.kind = "count"
  BY <1>2, <1>4 DEF Writing
<1>5. CASE n.kind = "list"
  <2> DEFINE vs == [i \in DOMAIN n.items |-> v[n.items[i]]]
             ws == [i \in DOMAIN n.items |-> w[n.items[i]]]
  <2>1. Writing(v, n) = <<"(">> \o FlattenSeq(vs) \o <<")">> /\ Writing(w, n) = <<"(">> \o FlattenSeq(ws) \o <<")">>
    BY <1>5 DEF Writing
  <2>2. vs = ws
    BY <1>3, <1>5
  <2> HIDE DEF vs, ws
  <2> QED
    BY <2>1, <2>2
<1>6. CASE n.kind \notin {"count", "list"}
  BY <1>6 DEF Writing
<1> QED
  BY <1>4, <1>5, <1>6

(* The canonical format of a node is a text, and the one that is written. *)
LEMMA WriteNodeIs ==
    \A n \in Node : WriteNode[n] \in Seq(Token) /\ WriteNode[n] = Writing(WriteNode, n)
<1> DEFINE A == Seq(Token)
           G == [Node -> A]
           step == [w \in G |-> [n \in Node |-> Writing(w, n)]]
           g0 == [n \in Node |-> <<>>]
<1>1. MaxDepth \in Nat /\ Level \in [Node -> 0 .. MaxDepth]
  BY DepthAssumption, LevelIs
<1>2. ASSUME NEW n \in Node, NEW w, \A m \in Node : Level[m] < Level[n] => w[m] \in A
      PROVE  Writing(w, n) \in A
  <2>1. PartsAreLower(n)
    BY LevelIs
  <2>2. n.kind = "count" => w[n.item] \in A
    BY <1>2, <2>1 DEF PartsAreLower, MadeOf
  <2>3. n.kind = "list" => \A i \in DOMAIN n.items : w[n.items[i]] \in A
    <3> SUFFICES ASSUME n.kind = "list" PROVE \A i \in DOMAIN n.items : w[n.items[i]] \in A
      OBVIOUS
    <3> DEFINE items == n.items
    <3>1. items \in Seq(Node) /\ \A i \in DOMAIN items : Level[items[i]] < Level[n]
      BY <2>1 DEF PartsAreLower, MadeOf
    <3> HIDE DEF items
    <3>2. \A i \in DOMAIN items : items[i] \in Node
      BY <3>1
    <3>3. \A i \in DOMAIN items : w[items[i]] \in A
      BY <1>2, <3>1, <3>2
    <3> QED
      BY <3>3 DEF items
  <2> QED
    BY <2>2, <2>3, WritingIs DEF PartsWritten
<1>3. step \in [G -> G]
  <2> SUFFICES ASSUME NEW w \in G PROVE [n \in Node |-> Writing(w, n)] \in G
    OBVIOUS
  <2>1. \A n \in Node : Writing(w, n) \in A
    BY <1>2
  <2> HIDE DEF A
  <2> QED
    BY <2>1
<1>4. IsLocal(step, G, Node, Level)
  <2> SUFFICES ASSUME NEW v \in G, NEW w \in G, NEW n \in Node, \A m \in Node : Level[m] < Level[n] => v[m] = w[m]
               PROVE  step[v][n] = step[w][n]
    BY Zenon DEF IsLocal
  <2>1. Writing(v, n) = Writing(w, n)
    BY WritingSame
  <2> QED
    BY <2>1
<1>5. g0 \in G /\ G \in SUBSET [Node -> A]
  BY TextsAre
<1>6. WriteNode = CHOOSE w : w = [n \in Node |-> Writing(w, n)]
  BY DEF WriteNode
<1> HIDE DEF step, g0, G
<1>7. IsRecursion(Node, MaxDepth, Level, A, G, g0, step)
  BY <1>1, <1>3, <1>4, <1>5, Zenon DEF IsRecursion
<1>8. \E w \in G : step[w] = w
  BY ONLY <1>7, RankRecursion
<1>9. WriteNode = [n \in Node |-> Writing(WriteNode, n)]
  <2>1. PICK w \in G : step[w] = w
    BY <1>8
  <2>2. w = [n \in Node |-> Writing(w, n)]
    BY <2>1 DEF step
  <2> QED
    BY <1>6, <2>2, Zenon
<1> DEFINE S == {n \in Node : WriteNode[n] \in A}
<1>10. ASSUME NEW n \in Node, \A m \in Node : Level[m] < Level[n] => m \in S
       PROVE  n \in S
  <2>1. \A m \in Node : Level[m] < Level[n] => WriteNode[m] \in A
    BY <1>10
  <2>2. Writing(WriteNode, n) \in A
    BY <1>2, <2>1
  <2>3. WriteNode[n] = Writing(WriteNode, n)
    BY <1>9
  <2> QED
    BY <2>2, <2>3
<1>11. Node \subseteq S
  <2> HIDE DEF S
  <2> QED
    BY <1>1, <1>10, RankInduction
<1> QED
  BY <1>9, <1>11

(* And so is that of a schema. *)
LEMMA WriteReprIs ==
    ASSUME NEW n \in Node
    PROVE  WriteRepr(n) \in Seq(Token)
<1>1. CASE n.kind = "list"
  <2>1. n.items \in Seq(Node)
    <3>1. MadeOf(n, Node)
      BY LevelIs, Zenon DEF PartsAreLower
    <3> QED
      BY <1>1, <3>1 DEF MadeOf
  <2> DEFINE items == n.items
  <2>2. items \in Seq(Node)
    BY <2>1
  <2> HIDE DEF items
  <2>3. \A i \in DOMAIN items : WriteNode[items[i]] \in Seq(Token)
    BY <2>2, WriteNodeIs
  <2>4. FlattenSeq([i \in DOMAIN items |-> WriteNode[items[i]]]) \in Seq(Token)
    BY <2>2, <2>3, ItemsAre
  <2> QED
    BY <1>1, <2>4 DEF WriteRepr, items
<1>2. CASE n.kind # "list"
  BY <1>2, WriteNodeIs DEF WriteRepr
<1> QED
  BY <1>1, <1>2

-----------------------------------------------------------------------------
(* What is at a place of a text *)

Holds(t, p, w) == \A i \in 1 .. Len(w) : p + i - 1 \in 1 .. Len(t) /\ t[p + i - 1] = w[i]

(* A sequence that is not empty begins. *)
LEMMA SeqNotEmpty ==
    ASSUME NEW B, NEW w \in Seq(B)
    PROVE  /\ Len(w) \in Nat /\ (w # <<>> <=> Len(w) >= 1) /\ DOMAIN w = 1 .. Len(w)
           /\ \A i \in 1 .. Len(w) : w[i] \in B
OBVIOUS

(* Each token of what a text holds is at its place. *)
LEMMA HoldsAt ==
    ASSUME NEW t \in Seq(Token), NEW p \in Place, NEW w, Holds(t, p, w), NEW i \in 1 .. Len(w)
    PROVE  At(t, p + i - 1) = w[i] /\ p + i - 1 \in 1 .. Len(t)
<1>1. p + i - 1 \in 1 .. Len(t) /\ t[p + i - 1] = w[i]
  BY DEF Holds
<1>2. p + i - 1 <= Len(t)
  <2> DEFINE q == p + i - 1
             n == Len(t)
  <2>1. q \in 1 .. n
    BY <1>1
  <2> HIDE DEF q, n
  <2>2. q <= n
    BY <2>1
  <2> QED
    BY <2>2 DEF q, n
<1> QED
  BY <1>1, <1>2 DEF At

(* The first token *)
LEMMA HoldsFirst ==
    ASSUME NEW t \in Seq(Token), NEW p \in Place, NEW w \in Seq(Token), Holds(t, p, w), w # <<>>
    PROVE  At(t, p) = w[1] /\ p \in 1 .. Len(t)
<1>1. 1 \in 1 .. Len(w)
  <2>1. Len(w) \in Nat /\ Len(w) >= 1
    BY SeqNotEmpty
  <2> QED
    BY <2>1
<1>2. At(t, p + 1 - 1) = w[1] /\ p + 1 - 1 \in 1 .. Len(t)
  BY <1>1, HoldsAt
<1>3. p + 1 - 1 = p
  BY DEF Place
<1> QED
  BY <1>2, <1>3

(* What follows lies behind, and not beyond the end. *)
LEMMA HoldsEnd ==
    ASSUME NEW t \in Seq(Token), NEW p \in 1 .. Len(t) + 1, NEW w \in Seq(Token), Holds(t, p, w)
    PROVE  /\ p + Len(w) \in p .. Len(t) + 1
           /\ w # <<>> => p + Len(w) \in p + 1 .. Len(t) + 1
<1> DEFINE n == Len(t)
           m == Len(w)
<1>1. n \in Nat /\ m \in Nat /\ (w # <<>> => m >= 1)
  BY SeqNotEmpty
<1>2. m \in 1 .. m => p + m - 1 \in 1 .. n
  BY DEF Holds
<1>3. p \in 1 .. n + 1
  OBVIOUS
<1> HIDE DEF n, m
<1>4. p + m \in p .. n + 1 /\ (m >= 1 => p + m \in p + 1 .. n + 1)
  BY <1>1, <1>2, <1>3
<1> QED
  BY <1>1, <1>4 DEF n, m

(* A text that holds two one after the other *)
LEMMA HoldsBoth ==
    ASSUME NEW t, NEW p \in Place, NEW u \in Seq(Token), NEW v \in Seq(Token), Holds(t, p, u \o v)
    PROVE  /\ Holds(t, p, u) /\ Holds(t, p + Len(u), v)
           /\ p + Len(u) \in Place /\ p + Len(u \o v) = (p + Len(u)) + Len(v)
           /\ Len(u) \in Nat /\ Len(v) \in Nat
<1> DEFINE w == u \o v
           m == Len(u)
           n == Len(v)
<1>1. /\ Len(w) = m + n /\ \A x \in 1 .. m : w[x] = u[x] 
      /\ \A x \in 1 .. n : w[m + x] = v[x]
  BY JoinIs
<1>2. m \in Nat /\ n \in Nat /\ p \in Nat \ {0}
  BY DEF Place
<1>3. \A i \in 1 .. Len(w) : p + i - 1 \in 1 .. Len(t) /\ t[p + i - 1] = w[i]
  BY DEF Holds
<1> HIDE DEF w
<1>4. Holds(t, p, u)
  <2> SUFFICES ASSUME NEW i \in 1 .. m PROVE p + i - 1 \in 1 .. Len(t) /\ t[p + i - 1] = u[i]
    BY DEF Holds
  <2> HIDE DEF m, n
  <2>1. i \in 1 .. m + n
    BY <1>2
  <2> QED
    BY <1>1, <1>3, <2>1
<1>5. Holds(t, p + m, v)
  <2> SUFFICES ASSUME NEW i \in 1 .. n PROVE p + m + i - 1 \in 1 .. Len(t) /\ t[p + m + i - 1] = v[i]
    BY DEF Holds
  <2> HIDE DEF m, n
  <2>1. m + i \in 1 .. m + n /\ p + (m + i) - 1 = p + m + i - 1
    BY <1>2
  <2>2. p + (m + i) - 1 \in 1 .. Len(t) /\ t[p + (m + i) - 1] = w[m + i] /\ w[m + i] = v[i]
    BY <1>1, <1>3, <2>1
  <2> QED
    BY <2>1, <2>2
<1>6. p + m \in Place /\ p + Len(w) = (p + m) + n
  <2> HIDE DEF m, n
  <2> QED
    BY <1>1, <1>2 DEF Place
<1> QED
  BY <1>2, <1>4, <1>5, <1>6 DEF w, m, n

(* Where each of the joined words lies in a text that holds them *)
Laid(t, p, words, n, pos) ==
    /\ pos \in [1 .. n + 1 -> p .. Len(t) + 1] /\ pos[1] = p
    /\ pos[n + 1] = p + Len(FlattenSeq(words))
    /\ \A k \in 1 .. n : pos[k + 1] = pos[k] + Len(words[k]) /\ Holds(t, pos[k], words[k])

LEMMA AsWords ==
    ASSUME NEW B, NEW n \in Nat, NEW words, words = [i \in 1 .. n |-> words[i]], \A i \in 1 .. n : words[i] \in Seq(B)
    PROVE  AreWords(B, words, n)
<1>1. words \in [1 .. n -> Seq(B)]
  OBVIOUS
<1>2. Len(words) = n /\ (n = 0 => words = <<>>)
  BY <1>1
<1> QED
  BY <1>2 DEF AreWords

LEMMA HoldsEach ==
    ASSUME NEW t \in Seq(Token), NEW p \in 1 .. Len(t) + 1, NEW n, NEW words, AreWords(Token, words, n),
           Holds(t, p, FlattenSeq(words))
    PROVE  \E pos : Laid(t, p, words, n, pos)
<1>0. n \in Nat /\ \A k \in 1 .. n : words[k] \in Seq(Token)
  BY DEF AreWords
<1>1. PICK text : Joining(Token, text, words, n) /\ FlattenSeq(words) = text[n]
  BY FlattenSeqIs
<1>2. Joined(text, words, n)
  BY <1>0, <1>1, JoiningPlaces
<1>3. \A k \in 0 .. n : text[k] \in Seq(Token) /\ Len(text[k]) \in Nat
  BY <1>1 DEF Joining
<1>4. text[0] = <<>> /\ Len(text[0]) = 0
  BY <1>1 DEF Joining
<1> DEFINE pos == [k \in 1 .. n + 1 |-> p + Len(text[k - 1])]
<1>5. \A k \in 0 .. n : Len(text[k]) <= Len(text[n]) /\ \A x \in 1 .. Len(text[k]) : text[n][x] = text[k][x]
  <2>1. n \in 0 .. n
    BY <1>0
  <2> QED
    BY <1>2, <2>1 DEF Joined
<1>6. p + Len(text[n]) \in p .. Len(t) + 1
  <2>1. text[n] \in Seq(Token)
    BY <1>0, <1>3
  <2> QED
    BY <1>1, <2>1, HoldsEnd
<1>7. pos \in [1 .. n + 1 -> p .. Len(t) + 1]
  <2> SUFFICES ASSUME NEW k \in 1 .. n + 1 PROVE p + Len(text[k - 1]) \in 1 .. Len(t) + 1
    OBVIOUS
  <2>1. k - 1 \in 0 .. n
    BY <1>0
  <2> DEFINE a == Len(text[k - 1])
             b == Len(text[n])
             l == Len(t)
  <2>2. a \in Nat /\ b \in Nat /\ a <= b /\ p + b \in p .. l + 1 /\ p \in 1 .. l + 1 /\ l \in Nat
    BY <1>0, <1>3, <1>5, <1>6, <2>1
  <2> HIDE DEF a, b, l
  <2>3. p + a \in p .. l + 1
    BY <2>2
  <2> QED
    BY <2>3 DEF a, l
<1>8. pos[1] = p
  <2>1. 1 \in 1 .. n + 1 /\ 1 - 1 = 0 /\ p + 0 = p
    BY <1>0
  <2> QED
    BY <1>4, <2>1
<1>9. pos[n + 1] = p + Len(FlattenSeq(words))
  <2>1. n + 1 \in 1 .. n + 1 /\ (n + 1) - 1 = n
    BY <1>0
  <2> QED
    BY <1>1, <2>1
<1>10. ASSUME NEW k \in 1 .. n
       PROVE  pos[k + 1] = pos[k] + Len(words[k]) /\ Holds(t, pos[k], words[k])
  <2>1. k \in 1 .. n + 1 /\ k + 1 \in 1 .. n + 1 /\ (k + 1) - 1 = k /\ k - 1 \in 0 .. n /\ k \in 0 .. n
    BY <1>0
  <2>2. pos[k] = p + Len(text[k - 1]) /\ pos[k + 1] = p + Len(text[k])
    BY <2>1
  <2>3. /\ Len(text[k]) = Len(text[k - 1]) + Len(words[k])
        /\ \A x \in 1 .. Len(words[k]) : text[k][Len(text[k - 1]) + x] = words[k][x]
    BY <1>2 DEF Joined
  <2> DEFINE a == Len(text[k - 1])
             b == Len(text[k])
             c == Len(text[n])
             m == Len(words[k])
  <2>4. a \in Nat /\ b \in Nat /\ c \in Nat /\ m \in Nat /\ b = a + m /\ b <= c
    <3>1. n \in 0 .. n
      BY <1>0
    <3>2. a \in Nat /\ b \in Nat /\ c \in Nat
      BY <1>3, <2>1, <3>1
    <3>3. b <= c
      BY <1>5, <2>1
    <3>4. words[k] \in Seq(Token)
      BY <1>0
    <3>5. m \in Nat
      BY <3>4
    <3> QED
      BY <2>3, <3>2, <3>3, <3>5
  <2>5. pos[k + 1] = pos[k] + m
    <3> HIDE DEF pos, m
    <3>1. pos[k] = p + a /\ pos[k + 1] = p + b
      BY <2>2
    <3> HIDE DEF a, b
    <3> QED
      BY <2>4, <3>1
  <2>6. ASSUME NEW i \in 1 .. m
        PROVE  pos[k] + i - 1 \in 1 .. Len(t) /\ t[pos[k] + i - 1] = words[k][i]
    <3>1. a + i \in 1 .. b /\ a + i \in 1 .. c /\ p + a + i - 1 = p + (a + i) - 1
      <4> HIDE DEF a, b, c, m
      <4> QED
        BY <2>4
    <3>2. p + (a + i) - 1 \in 1 .. Len(t) /\ t[p + (a + i) - 1] = text[n][a + i]
      <4>1. \A j \in 1 .. Len(text[n]) : p + j - 1 \in 1 .. Len(t) /\ t[p + j - 1] = text[n][j]
        BY <1>1 DEF Holds
      <4> QED
        BY <3>1, <4>1
    <3>3. text[n][a + i] = text[k][a + i] /\ text[k][a + i] = words[k][i]
      BY <1>5, <2>1, <2>3, <3>1
    <3>4. pos[k] = p + a
      BY <2>2
    <3> HIDE DEF pos, a, m
    <3>5. pos[k] + i - 1 = p + (a + i) - 1
      BY <3>1, <3>4
    <3> QED
      BY <3>2, <3>3, <3>5
  <2> QED
    BY <2>5, <2>6 DEF Holds
<1> HIDE DEF pos
<1>11. Laid(t, p, words, n, pos)
  BY <1>7, <1>8, <1>9, <1>10 DEF Laid
<1> QED
  BY <1>11

-----------------------------------------------------------------------------
(* Many things one after the other *)

(* single, a function on places, gives the values v one after the other from *)
(* place p to place q.                                                       *)
Path(single, p, v, q) ==
    \E pos \in [1 .. Len(v) + 1 -> DOMAIN single] :
        /\ pos[1] = p /\ pos[Len(v) + 1] = q
        /\ \A k \in 1 .. Len(v) : single[pos[k]] = Ok(pos[k + 1], v[k])

LEMMA PathNone ==
    ASSUME NEW single, NEW p \in DOMAIN single
    PROVE  Path(single, p, <<>>, p)
<1> DEFINE pos == [k \in 1 .. 1 |-> p]
<1>1. Len(<<>>) = 0 /\ Len(<<>>) + 1 = 1
  OBVIOUS
<1>2. pos \in [1 .. 1 -> DOMAIN single] /\ pos[1] = p
  OBVIOUS
<1>3. \A k \in 1 .. 0 : single[pos[k]] = Ok(pos[k + 1], <<>>[k])
  OBVIOUS
<1> QED
  BY <1>1, <1>2, <1>3 DEF Path

LEMMA PathOne ==
    ASSUME NEW single, NEW p \in DOMAIN single, NEW q \in DOMAIN single, NEW c, single[p] = Ok(q, c)
    PROVE  Path(single, p, <<c>>, q)
<1> DEFINE pos == [k \in 1 .. 2 |-> IF k = 1 THEN p ELSE q]
           v == <<c>>
<1>1. Len(v) = 1 /\ v[1] = c
  OBVIOUS
<1>2. pos \in [1 .. 2 -> DOMAIN single] /\ pos[1] = p /\ pos[2] = q
  OBVIOUS
<1> HIDE DEF pos, v
<1>3. \A k \in 1 .. 1 : single[pos[k]] = Ok(pos[k + 1], v[k])
  BY <1>1, <1>2
<1>4. Path(single, p, v, q)
  BY <1>1, <1>2, <1>3 DEF Path
<1> QED
  BY <1>4 DEF v

LEMMA PathOn ==
    ASSUME NEW B, NEW u \in Seq(B), NEW v \in Seq(B), NEW single, NEW p, NEW q, NEW r,
           Path(single, p, u, q), Path(single, q, v, r)
    PROVE  Path(single, p, u \o v, r)
<1> DEFINE m == Len(u)
           n == Len(v)
           w == u \o v
<1>1. PICK f \in [1 .. m + 1 -> DOMAIN single] :
        f[1] = p /\ f[m + 1] = q /\ \A k \in 1 .. m : single[f[k]] = Ok(f[k + 1], u[k])
  BY DEF Path
<1>2. PICK g \in [1 .. n + 1 -> DOMAIN single] :
        g[1] = q /\ g[n + 1] = r /\ \A k \in 1 .. n : single[g[k]] = Ok(g[k + 1], v[k])
  BY DEF Path
<1>3. Len(w) = m + n /\ (\A x \in 1 .. m : w[x] = u[x]) /\ (\A x \in 1 .. n : w[m + x] = v[x])
  BY JoinIs
<1>4. m \in Nat /\ n \in Nat
  OBVIOUS
<1> DEFINE h == [k \in 1 .. (m + n) + 1 |-> IF k <= m THEN f[k] ELSE g[k - m]]
<1> HIDE DEF m, n, w
<1>5. h \in [1 .. (m + n) + 1 -> DOMAIN single]
  <2> SUFFICES ASSUME NEW k \in 1 .. (m + n) + 1
               PROVE  (IF k <= m THEN f[k] ELSE g[k - m]) \in DOMAIN single
    OBVIOUS
  <2>1. IF k <= m THEN k \in 1 .. m + 1 ELSE k - m \in 1 .. n + 1
    BY <1>4
  <2> QED
    BY <2>1
<1>6. h[1] = p
  <2>1. 1 \in 1 .. (m + n) + 1 /\ (~ (1 <= m) => m = 0)
    BY <1>4
  <2> QED
    BY <1>1, <1>2, <2>1
<1>7. h[(m + n) + 1] = r
  <2>1. (m + n) + 1 \in 1 .. (m + n) + 1 /\ ~ ((m + n) + 1 <= m) /\ ((m + n) + 1) - m = n + 1
    BY <1>4
  <2> QED
    BY <1>2, <2>1
<1>8. ASSUME NEW k \in 1 .. m + n
      PROVE  single[h[k]] = Ok(h[k + 1], w[k])
  <2>1. k \in 1 .. (m + n) + 1 /\ k + 1 \in 1 .. (m + n) + 1
    BY <1>4
  <2>2. CASE k <= m
    <3>1. k \in 1 .. m /\ h[k] = f[k]
      BY <1>4, <2>1, <2>2
    <3>2. h[k + 1] = f[k + 1]
      <4>1. CASE k + 1 <= m
        BY <2>1, <4>1
      <4>2. CASE ~ (k + 1 <= m)
        <5>1. k = m /\ (k + 1) - m = 1
          BY <1>4, <2>2, <4>2
        <5>2. h[k + 1] = g[1]
          BY <2>1, <4>2, <5>1
        <5> QED
          BY <1>1, <1>2, <5>1, <5>2
      <4> QED
        BY <4>1, <4>2
    <3> QED
      BY <1>1, <1>3, <3>1, <3>2
  <2>3. CASE ~ (k <= m)
    <3>1. /\ k - m \in 1 .. n /\ m + (k - m) = k /\ ~ (k + 1 <= m)
          /\ (k + 1) - m = (k - m) + 1
      BY <1>4, <2>3
    <3>2. h[k] = g[k - m] /\ h[k + 1] = g[(k - m) + 1]
      BY <2>1, <2>3, <3>1
    <3>3. w[k] = v[k - m]
      BY <1>3, <3>1
    <3> QED
      BY <1>2, <3>1, <3>2, <3>3
  <2> QED
    BY <2>2, <2>3
<1> HIDE DEF h
<1>9. Path(single, p, w, r)
  BY <1>3, <1>5, <1>6, <1>7, <1>8 DEF Path
<1> QED
  BY <1>9 DEF w

(* Paths through the places of joined words *)
LEMMA PathJoins ==
    ASSUME NEW B, NEW n, NEW values, AreWords(B, values, n), NEW single,
           NEW pos \in [1 .. n + 1 -> DOMAIN single],
           \A k \in 1 .. n : Path(single, pos[k], values[k], pos[k + 1])
    PROVE  Path(single, pos[1], FlattenSeq(values), pos[n + 1])
<1>0. n \in Nat /\ \A k \in 1 .. n : values[k] \in Seq(B)
  BY DEF AreWords
<1>1. PICK text : Joining(B, text, values, n) /\ FlattenSeq(values) = text[n]
  BY FlattenSeqIs
<1> DEFINE S == {k \in 0 .. n : Path(single, pos[1], text[k], pos[k + 1])}
<1>2. 0 \in S
  <2>1. text[0] = <<>> /\ 0 \in 0 .. n /\ 1 \in 1 .. n + 1 /\ 0 + 1 = 1
    BY <1>0, <1>1 DEF Joining
  <2>2. pos[1] \in DOMAIN single
    BY <2>1
  <2>3. Path(single, pos[1], <<>>, pos[1])
    BY <2>2, PathNone
  <2> QED
    BY <2>1, <2>3
<1>3. ASSUME NEW k \in 1 .. n, k - 1 \in S
      PROVE  k \in S
  <2>1. k - 1 \in 0 .. n /\ k \in 0 .. n /\ (k - 1) + 1 = k
    BY <1>0
  <2>2. text[k - 1] \in Seq(B) /\ text[k] = text[k - 1] \o values[k]
    BY <1>1, <2>1 DEF Joining
  <2>3. Path(single, pos[1], text[k - 1], pos[k])
    BY <1>3, <2>1
  <2>4. Path(single, pos[1], text[k - 1] \o values[k], pos[k + 1])
    <3>1. values[k] \in Seq(B) /\ Path(single, pos[k], values[k], pos[k + 1])
      BY <1>0
    <3> QED
      BY <2>2, <2>3, <3>1, PathOn
  <2> QED
    BY <2>1, <2>2, <2>4
<1>4. 0 .. n \subseteq S
  <2> HIDE DEF S
  <2> QED
    BY <1>0, <1>2, <1>3, IntervalInduction
<1>5. n \in S
  <2>1. n \in 0 .. n
    BY <1>0
  <2> QED
    BY <1>4, <2>1
<1> QED
  BY <1>1, <1>5

Recurs(many, single) == \A x \in DOMAIN single : many[x] = Then(single[x], many)

(* What many1 gives at the start of a path that cannot be continued *)
LEMMA PathGives ==
    ASSUME NEW B, NEW v \in Seq(B), v # <<>>, NEW single, NEW many, NEW p, NEW q,
           Recurs(many, single), Path(single, p, v, q), single[q].kind = "error"
    PROVE  many[p] = Ok(q, v)
<1> DEFINE n == Len(v)
<1>1. PICK pos \in [1 .. n + 1 -> DOMAIN single] :
        pos[1] = p /\ pos[n + 1] = q /\ \A k \in 1 .. n : single[pos[k]] = Ok(pos[k + 1], v[k])
  BY DEF Path
<1>2. n \in Nat /\ n >= 1 /\ v \in [1 .. n -> B] /\ v = [i \in 1 .. n |-> v[i]]
  OBVIOUS
<1>3. q \in DOMAIN single
  <2>1. n + 1 \in 1 .. n + 1
    BY <1>2
  <2> QED
    BY <1>1, <2>1
<1>4. many[q].kind = "error"
  <2>1. many[q] = Then(single[q], many)
    BY <1>3 DEF Recurs
  <2> QED
    BY <2>1 DEF Then
<1> DEFINE rest(k) == [i \in 1 .. (n + 1) - k |-> v[(k + i) - 1]]
           S == {j \in 0 .. n - 1 : many[pos[n - j]] = Ok(q, rest(n - j))}
<1> HIDE DEF n
<1>5. ASSUME NEW k \in 1 .. n
      PROVE  /\ rest(k) \in Seq(B) /\ rest(k + 1) \in Seq(B) /\ rest(k) = <<v[k]>> \o rest(k + 1)
             /\ k = n => rest(k) = <<v[k]>>
  <2> DEFINE a == rest(k)
             b == rest(k + 1)
             m == n - k
  <2>1. m \in Nat /\ (n + 1) - k = m + 1 /\ (n + 1) - (k + 1) = m
    BY <1>2
  <2>2. a \in Seq(B) /\ Len(a) = m + 1
    <3>1. \A i \in 1 .. m + 1 : (k + i) - 1 \in 1 .. n
      BY <1>2
    <3>2. a \in [1 .. m + 1 -> B]
      BY <1>2, <2>1, <3>1
    <3>3. m + 1 \in Nat
      BY <2>1
    <3> HIDE DEF a
    <3> QED
      BY <3>2, <3>3
  <2>3. b \in Seq(B) /\ Len(b) = m
    <3>1. \A i \in 1 .. m : ((k + 1) + i) - 1 \in 1 .. n
      BY <1>2
    <3>2. b \in [1 .. m -> B]
      BY <1>2, <2>1, <3>1
    <3> HIDE DEF b
    <3> QED
      BY <2>1, <3>2
  <2>4. a = <<v[k]>> \o b
    <3> DEFINE c == <<v[k]>>
               w == c \o b
    <3>1. v[k] \in B
      BY <1>2
    <3>2. c \in Seq(B) /\ Len(c) = 1 /\ c[1] = v[k]
      BY <3>1
    <3> HIDE DEF c
    <3>3. /\ w \in Seq(B) /\ Len(w) = 1 + m /\ w[1] = v[k]
          /\ \A x \in 1 .. m : w[1 + x] = b[x]
      <4>1. /\ w \in Seq(B) /\ Len(w) = Len(c) + Len(b)
            /\ \A x \in 1 .. Len(c) : w[x] = c[x]
            /\ \A x \in 1 .. Len(b) : w[Len(c) + x] = b[x]
        <5>1. c \in Seq(B) /\ b \in Seq(B)
          BY <2>3, <3>2
        <5> HIDE DEF b
        <5> QED
          BY <5>1, JoinIs
      <4>2. 1 \in 1 .. 1
        OBVIOUS
      <4> HIDE DEF b, w, m
      <4> QED
        BY <2>3, <3>2, <4>1, <4>2
    <3>4. ASSUME NEW i \in 1 .. m + 1
          PROVE  a[i] = w[i]
      <4>0. i \in 1 .. (n + 1) - k /\ a[i] = v[(k + i) - 1]
        BY <2>1
      <4>1. CASE i = 1
        <5>1. (k + 1) - 1 = k
          OBVIOUS
        <5> HIDE DEF a, w
        <5> QED
          BY <3>3, <4>0, <4>1, <5>1
      <4>2. CASE i # 1
        <5>1. i - 1 \in 1 .. m /\ 1 + (i - 1) = i /\ i - 1 \in 1 .. (n + 1) - (k + 1)
              /\ ((k + 1) + (i - 1)) - 1 = (k + i) - 1
          BY <2>1, <4>2
        <5>2. b[i - 1] = v[((k + 1) + (i - 1)) - 1]
          BY <5>1
        <5>3. w[i] = b[i - 1]
          BY <3>3, <5>1
        <5> HIDE DEF a, b, w
        <5> QED
          BY <4>0, <5>1, <5>2, <5>3
      <4> QED
        BY <4>1, <4>2
    <3> HIDE DEF a, b, w, m
    <3>5. a = w
      <4>1. Len(a) = Len(w)
        BY <2>1, <2>2, <3>3
      <4>2. a = [i \in 1 .. Len(a) |-> a[i]] /\ w = [i \in 1 .. Len(w) |-> w[i]]
        BY <2>2, <3>3
      <4> QED
        BY <2>2, <3>4, <4>1, <4>2
    <3> QED
      BY <3>5 DEF w, c
  <2>5. ASSUME k = n
        PROVE  a = <<v[k]>>
    <3>1. m = 0 /\ b = <<>>
      <4>1. m = 0
        BY <1>2, <2>5
      <4> HIDE DEF b, m
      <4> QED
        BY <2>3, <4>1
    <3>2. <<v[k]>> \o <<>> = <<v[k]>>
      <4>1. v[k] \in B
        BY <1>2
      <4> QED
        BY <4>1
    <3> HIDE DEF a, b, m
    <3> QED
      BY <2>4, <3>1, <3>2
  <2> QED
    BY <2>2, <2>3, <2>4, <2>5
<1> HIDE DEF rest
<1>6. ASSUME NEW k \in 1 .. n
      PROVE  many[pos[k]] = Followed(Ok(pos[k + 1], v[k]), many[pos[k + 1]])
  <2>1. k \in 1 .. n + 1
    BY <1>2
  <2>2. many[pos[k]] = Then(single[pos[k]], many)
    BY <2>1 DEF Recurs
  <2> QED
    BY <1>1, <2>2 DEF Then, Ok
<1>7. 0 \in S
  <2>1. 0 \in 0 .. n - 1 /\ n - 0 = n /\ n \in 1 .. n
    BY <1>2
  <2>2. many[pos[n]] = Followed(Ok(pos[n + 1], v[n]), many[pos[n + 1]])
    BY <1>6, <2>1
  <2>3. many[pos[n]] = Ok(q, <<v[n]>>)
    <3> DEFINE r == Ok(q, v[n])
               e == many[q]
    <3>1. many[pos[n]] = Followed(r, e)
      BY <1>1, <2>2
    <3>2. r.rest = q /\ r.value = v[n]
      BY DEF Ok
    <3>3. e.kind = "error"
      BY <1>4
    <3> HIDE DEF r, e
    <3>4. Followed(r, e) = Ok(r.rest, <<r.value>>)
      BY <3>3 DEF Followed
    <3> QED
      BY <3>1, <3>2, <3>4
  <2> QED
    BY <1>5, <2>1, <2>3
<1>8. ASSUME NEW j \in 1 .. n - 1, j - 1 \in S
      PROVE  j \in S
  <2> DEFINE k == n - j
  <2>1. k \in 1 .. n /\ n - (j - 1) = k + 1 /\ j \in 0 .. n - 1 /\ k + 1 \in 1 .. n
    BY <1>2
  <2>2. many[pos[k + 1]] = Ok(q, rest(k + 1))
    BY <1>8, <2>1
  <2>3. many[pos[k]] = Followed(Ok(pos[k + 1], v[k]), Ok(q, rest(k + 1)))
    BY <1>6, <2>1, <2>2
  <2>4. Followed(Ok(pos[k + 1], v[k]), Ok(q, rest(k + 1))) = Ok(q, <<v[k]>> \o rest(k + 1))
    <3> DEFINE r == Ok(pos[k + 1], v[k])
               e == Ok(q, rest(k + 1))
    <3>1. r.value = v[k] /\ e.kind = "ok" /\ e.rest = q /\ e.value = rest(k + 1)
      BY DEF Ok
    <3> HIDE DEF r, e
    <3>2. Followed(r, e) = Ok(e.rest, <<r.value>> \o e.value)
      BY <3>1 DEF Followed
    <3>3. Followed(r, e) = Ok(q, <<v[k]>> \o rest(k + 1))
      BY <3>1, <3>2
    <3> QED
      BY <3>3 DEF r, e
  <2>5. many[pos[k]] = Ok(q, rest(k))
    BY <1>5, <2>1, <2>3, <2>4
  <2> QED
    BY <2>1, <2>5
<1>9. 0 .. n - 1 \subseteq S
  <2>1. n - 1 \in Nat
    BY <1>2
  <2> HIDE DEF S
  <2> QED
    BY <1>7, <1>8, <2>1, IntervalInduction
<1>10. n - 1 \in S /\ n - (n - 1) = 1
  <2>1. n - 1 \in 0 .. n - 1 /\ n - (n - 1) = 1
    BY <1>2
  <2> QED
    BY <1>9, <2>1
<1>11. rest(1) = v
  <2> DEFINE a == rest(1)
  <2>1. a = [i \in 1 .. (n + 1) - 1 |-> v[(1 + i) - 1]] /\ (n + 1) - 1 = n
    BY <1>2 DEF rest
  <2>2. \A i \in 1 .. n : (1 + i) - 1 = i
    BY <1>2
  <2> QED
    BY <1>2, <2>1, <2>2
<1> QED
  BY <1>1, <1>10, <1>11

LEMMA Many1Reads ==
    ASSUME NEW t \in Seq(Token), NEW p \in Place, p <= Len(t) + 1, NEW V, NEW fragments,
           AreFragments(fragments, t, p, V),
           NEW v \in Seq(V), v # <<>>, NEW q, Path(fragments, p, v, q), fragments[q].kind = "error"
    PROVE  Many1(fragments, p) = Ok(q, v)
<1>1. PICK many : IsMany(many, fragments, Onward(t, p)) /\ Many1(fragments, p) = many[p]
  BY Many1Recurs
<1>2. Recurs(many, fragments)
  BY <1>1 DEF IsMany, AreFragments, Recurs
<1>3. many[p] = Ok(q, v)
  BY <1>2, PathGives
<1> QED
  BY <1>1, <1>3

(* Where nothing of it is *)
LEMMA Many1None ==
    ASSUME NEW t \in Seq(Token), NEW p \in Place, p <= Len(t) + 1, NEW V, NEW fragments,
           AreFragments(fragments, t, p, V), fragments[p] = Error
    PROVE  Many1(fragments, p) = Error
<1>1. PICK many : IsMany(many, fragments, Onward(t, p)) /\ Many1(fragments, p) = many[p]
  BY Many1Recurs
<1>2. p \in Onward(t, p)
  BY DEF Onward, Place
<1>3. many[p] = Then(fragments[p], many)
  BY <1>1, <1>2 DEF IsMany
<1>4. Then(Error, many) = Error
  BY DEF Then, Error
<1> QED
  BY <1>1, <1>3, <1>4

-----------------------------------------------------------------------------
(* Strings and generators are read as they are written. *)

Stop == (Syntax \ {"\\"}) \cup {NoToken}

(* What tokens are not *)
LEMMA TokensAreNot ==
    /\ \A c \in Syntax : c \notin Alphanumeric /\ c # Tab /\ c # NoToken /\ c \in Token
    /\ Tab \notin Alphanumeric /\ Tab \in Token
    /\ "-" \notin Alphanumeric /\ "-" # Tab /\ "," \notin Alphanumeric /\ "," # Tab
    /\ \A c \in Lower : c \in Alphanumeric /\ c \in Token /\ c \notin Digit /\ c \notin Syntax /\ c # NoToken
    /\ \A c \in Digit : c \in Alphanumeric /\ c \in Token /\ c \notin Syntax /\ c # NoToken
    /\ NoToken \notin Alphanumeric /\ NoToken \notin Token
    /\ \A c \in Names : c \notin Character
    /\ "x" \in Token /\ HexOf[Tab] \in Token /\ HexOf[Tab] \notin Names /\ "x" \notin Syntax /\ "-" \notin Syntax
<1>1. /\ Syntax \cup {",", "-", ":", "_"} \subseteq Punctuation
      /\ Tab \in Character \ Alphanumeric /\ NoToken \notin Token
  BY OrderAssumption
<1>2. Lower \cap Digit = {} /\ Names \cap Character = {}
  BY LetterAssumption
<1>3. /\ Character \subseteq Token /\ Digit \subseteq Character /\ LowerLetters \subseteq Character
      /\ UpperLetters \subseteq Character /\ HexOf[Tab] \in Token /\ Hashes \subseteq Token /\ "x" \in Token
  BY TokensAre
<1>4. \A c \in Syntax \cup {",", "-"} : c \in Character /\ c \notin Alphanumeric /\ c # Tab
  BY <1>1 DEF Punctuation
<1>5. \A c \in Syntax : c \notin Alphanumeric /\ c # Tab /\ c # NoToken /\ c \in Token
  BY <1>1, <1>3, <1>4
<1>6. Lower \subseteq Alphanumeric /\ Digit \subseteq Alphanumeric /\ Alphanumeric \subseteq Token
  <2>1. Lower \subseteq Alphanumeric /\ Digit \subseteq Alphanumeric
    BY DEF Alphanumeric
  <2>2. Lower \subseteq Token
    BY <1>3 DEF Lower, Token
  <2> QED
    BY <1>3, <2>1, <2>2 DEF Alphanumeric
<1>7. \A c \in Names : c \notin Character
  BY <1>2
<1>8. HexOf[Tab] \notin Names
  <2>1. HexOf[Tab] = "09"
    BY DEF HexOf
  <2> QED
    BY <2>1 DEF Names, PosixNames
<1>9. "x" \notin Syntax /\ "-" \notin Syntax
  BY DEF Syntax
<1> QED
  BY <1>1, <1>2, <1>3, <1>4, <1>5, <1>6, <1>7, <1>8, <1>9

(* What is written of a token is a text. *)
LEMMA EscapeIs ==
    ASSUME NEW c \in Token
    PROVE  /\ EscapeLiteral(c) \in Seq(Token) /\ EscapeLiteral(c) # <<>>
           /\ EscapeLiteral(c)[1] \notin Stop
<1>1. CASE c \in Syntax
  <2>1. EscapeLiteral(c) = <<"\\", c>>
    BY <1>1, TokensAreNot, Zenon DEF EscapeLiteral
  <2>2. "\\" \in Token /\ "\\" # NoToken
    BY TokensAreNot DEF Syntax
  <2>3. "\\" \notin Stop
    BY <2>2 DEF Stop
  <2> QED
    BY <2>1, <2>2, <2>3, TextsAre
<1>2. CASE c = Tab
  <2>1. EscapeLiteral(c) = <<"\\", "x", HexOf[Tab]>>
    BY <1>2, TokensAreNot DEF EscapeLiteral
  <2>2. "\\" \in Token /\ "\\" # NoToken
    BY TokensAreNot DEF Syntax
  <2>3. "\\" \notin Stop
    BY <2>2 DEF Stop
  <2>4. "x" \in Token /\ HexOf[Tab] \in Token
    BY TokensAreNot
  <2> QED
    BY <2>1, <2>2, <2>3, <2>4, TextsAre
<1>3. CASE c \notin Syntax /\ c # Tab
  <2>1. EscapeLiteral(c) = <<c>>
    BY <1>3 DEF EscapeLiteral
  <2>2. c # NoToken
    BY TokensAreNot
  <2>3. c \notin Stop
    BY <1>3, <2>2 DEF Stop
  <2> QED
    BY <2>1, <2>3, TextsAre
<1> QED
  BY <1>1, <1>2, <1>3

(* An escape is read as what it stands for. *)
LEMMA EscapedReads ==
    ASSUME NEW t \in Seq(Token), NEW p \in Place, NEW c, c \in Syntax \/ c = Tab,
           Holds(t, p, IF c = Tab THEN <<"\\", "x", HexOf[Tab]>> ELSE <<"\\", c>>)
    PROVE  At(t, p) = "\\" /\ ParseLiteralEscaped(t, p) = Ok(p + (IF c = Tab THEN 3 ELSE 2), c)
<1>0. p + 1 - 1 = p /\ p + 2 - 1 = p + 1 /\ p + 3 - 1 = p + 2
  BY DEF Place
<1>1. CASE c = Tab
  <2> DEFINE w == <<"\\", "x", HexOf[Tab]>>
  <2>1. Len(w) = 3 /\ w[1] = "\\" /\ w[2] = "x" /\ w[3] = HexOf[Tab] /\ Holds(t, p, w)
    BY <1>1
  <2> HIDE DEF w
  <2>2. 1 \in 1 .. Len(w) /\ 2 \in 1 .. Len(w) /\ 3 \in 1 .. Len(w)
    BY <2>1
  <2>3. At(t, p + 1 - 1) = w[1] /\ At(t, p + 2 - 1) = w[2] /\ At(t, p + 3 - 1) = w[3]
    BY <2>1, <2>2, HoldsAt
  <2>4. At(t, p) = "\\" /\ At(t, p + 1) = "x" /\ At(t, p + 2) = HexOf[Tab]
    BY <1>0, <2>1, <2>3
  <2>5. "x" # "t" /\ "x" \in Alphanumeric
    <3>1. "x" \in LowerLetters
      BY LetterAssumption
    <3> QED
      BY <3>1 DEF Alphanumeric, Lower
  <2>6. ParseLiteralEscaped(t, p) = Ok(p + 3, Tab)
    BY <2>4, <2>5, Zenon DEF ParseLiteralEscaped
  <2> QED
    BY <1>1, <2>4, <2>6
<1>2. CASE c # Tab
  <2> DEFINE w == <<"\\", c>>
  <2>1. Len(w) = 2 /\ w[1] = "\\" /\ w[2] = c /\ Holds(t, p, w)
    BY <1>2
  <2> HIDE DEF w
  <2>2. 1 \in 1 .. Len(w) /\ 2 \in 1 .. Len(w)
    BY <2>1
  <2>3. At(t, p + 1 - 1) = w[1] /\ At(t, p + 2 - 1) = w[2]
    BY <2>1, <2>2, HoldsAt
  <2>4. At(t, p) = "\\" /\ At(t, p + 1) = c
    BY <1>0, <2>1, <2>3
  <2>5. c \notin Alphanumeric \cup {NoToken}
    BY <1>2, TokensAreNot
  <2>6. "t" \in Alphanumeric /\ "x" \in Alphanumeric
    <3>1. "x" \in LowerLetters /\ "t" \in LowerLetters
      BY LetterAssumption
    <3> QED
      BY <3>1 DEF Alphanumeric, Lower
  <2>7. c # "t" /\ c # "x"
    BY <2>5, <2>6
  <2>8. ParseLiteralEscaped(t, p) = Ok(p + 2, c)
    BY <2>4, <2>5, <2>7, Zenon DEF ParseLiteralEscaped
  <2> QED
    BY <1>2, <2>4, <2>8
<1> QED
  BY <1>1, <1>2

(* A token of a string or of a generator is read as it was written. *)
LEMMA FragmentReads ==
    ASSUME NEW t \in Seq(Token), NEW p \in Place, NEW c \in Token, Holds(t, p, EscapeLiteral(c))
    PROVE  /\ ParseLiteralFragment(t, p) = Ok(p + Len(EscapeLiteral(c)), c)
           /\ ParseGeneratorFragment(t, p) = Ok(p + Len(EscapeLiteral(c)), c)
<1> DEFINE e == Ok(p + Len(EscapeLiteral(c)), c)
<1>0. e.kind = "ok"
  BY DEF Ok
<1>1. CASE c \in Syntax \/ c = Tab
  <2> DEFINE w == IF c = Tab THEN <<"\\", "x", HexOf[Tab]>> ELSE <<"\\", c>>
  <2>1. EscapeLiteral(c) = w
    BY <1>1, TokensAreNot DEF EscapeLiteral
  <2>2. At(t, p) = "\\" /\ ParseLiteralEscaped(t, p) = Ok(p + (IF c = Tab THEN 3 ELSE 2), c)
    BY <1>1, <2>1, EscapedReads
  <2>3. Len(w) = IF c = Tab THEN 3 ELSE 2
    OBVIOUS
  <2>4. ParseLiteralEscaped(t, p) = e
    BY <2>1, <2>2, <2>3
  <2>5. Verbatim(t, p, Syntax) = Error /\ Verbatim(t, p, {"\\", "}"}) = Error
    BY <2>2 DEF Verbatim, Syntax
  <2>6. Or(Error, e) = e
    BY DEF Or, Error
  <2> QED
    BY <2>4, <2>5, <2>6 DEF ParseLiteralFragment, ParseGeneratorFragment
<1>2. CASE c \notin Syntax /\ c # Tab
  <2>1. EscapeLiteral(c) = <<c>> /\ Len(<<c>>) = 1 /\ <<c>>[1] = c /\ <<c>> \in Seq(Token) /\ <<c>> # <<>>
    BY <1>2 DEF EscapeLiteral
  <2>2. At(t, p) = c /\ p \in 1 .. Len(t)
    BY <2>1, HoldsFirst
  <2>3. t[p] = c
    BY <2>2, AtIs
  <2>4. c \notin Syntax \cup {NoToken} /\ c \notin {"\\", "}"} \cup {NoToken}
    BY <1>2, TokensAreNot DEF Syntax
  <2>5. Verbatim(t, p, Syntax) = e /\ Verbatim(t, p, {"\\", "}"}) = e
    BY <2>1, <2>2, <2>3, <2>4 DEF Verbatim
  <2> HIDE DEF e
  <2>6. \A s : Or(e, s) = e
    BY <1>0 DEF Or
  <2> QED
    BY <2>5, <2>6 DEF ParseLiteralFragment, ParseGeneratorFragment, e
<1> QED
  BY <1>1, <1>2

(* Syntax that is not escaped ends a string. *)
LEMMA FragmentStops ==
    ASSUME NEW t, NEW p
    PROVE  /\ At(t, p) \in Stop => ParseLiteralFragment(t, p) = Error
           /\ At(t, p) \in {"}", NoToken} => ParseGeneratorFragment(t, p) = Error
<1>1. At(t, p) \in Stop => At(t, p) # "\\"
  BY TokensAreNot DEF Stop, Syntax
<1>2. At(t, p) # "\\" => ParseLiteralEscaped(t, p) = Error
  BY DEF ParseLiteralEscaped
<1>3. At(t, p) \in Stop => Verbatim(t, p, Syntax) = Error
  BY DEF Stop, Verbatim
<1>4. At(t, p) \in {"}", NoToken} => Verbatim(t, p, {"\\", "}"}) = Error
  BY DEF Verbatim
<1>5. At(t, p) \in {"}", NoToken} => At(t, p) \in Stop
  BY DEF Stop, Syntax
<1>6. Or(Error, Error) = Error
  BY DEF Or
<1> QED
  BY <1>1, <1>2, <1>3, <1>4, <1>5, <1>6 DEF ParseLiteralFragment, ParseGeneratorFragment

(* The fragments of strings and of generators *)
LiteralFragments(t, p) == [q \in Onward(t, p) |-> ParseLiteralFragment(t, q)]
GeneratorFragments(t, p) == [q \in Onward(t, p) |-> ParseGeneratorFragment(t, q)]
TokenFragments(t, p) == {LiteralFragments(t, p), GeneratorFragments(t, p)}

LEMMA TokenFragmentsAre ==
    ASSUME NEW t \in Seq(Token), NEW p \in 1 .. Len(t) + 1, NEW fragments \in TokenFragments(t, p)
    PROVE  AreFragments(fragments, t, p, Token) /\ DOMAIN fragments = p .. Len(t) + 1
<1>1. \A q \in Onward(t, p) : q \in Place
  BY DEF Onward, Place
<1>2. \A q \in Onward(t, p) :
        ParseLiteralFragment(t, q) \in Outcome(t, q, Token) /\ ParseGeneratorFragment(t, q) \in Outcome(t, q, Token)
  BY <1>1, FragmentsAre
<1>3. AreFragments(LiteralFragments(t, p), t, p, Token)
  BY <1>2 DEF LiteralFragments, AreFragments
<1>4. AreFragments(GeneratorFragments(t, p), t, p, Token)
  BY <1>2 DEF GeneratorFragments, AreFragments
<1>5. DOMAIN fragments = Onward(t, p)
  BY DEF TokenFragments, LiteralFragments, GeneratorFragments
<1> QED
  BY <1>3, <1>4, <1>5 DEF TokenFragments, Onward

(* A string is a path of its tokens. *)
LEMMA TokensRead ==
    ASSUME NEW t \in Seq(Token), NEW from \in 1 .. Len(t) + 1, NEW fragments \in TokenFragments(t, from),
           NEW p \in from .. Len(t) + 1, NEW s \in Seq(Token), Holds(t, p, WriteLiteral(s))
    PROVE  Path(fragments, p, s, p + Len(WriteLiteral(s)))
<1> DEFINE n == Len(s)
           words == [i \in DOMAIN s |-> EscapeLiteral(s[i])]
<1>1. DOMAIN s = 1 .. n /\ n \in Nat /\ \A i \in 1 .. n : s[i] \in Token
  OBVIOUS
<1>2. AreWords(Token, words, n)
  <2>1. \A i \in 1 .. n : words[i] \in Seq(Token)
    BY <1>1, EscapeIs
  <2>2. Len(words) = n /\ (n = 0 => words = <<>>)
    <3>1. words = [i \in 1 .. n |-> words[i]]
      BY <1>1
    <3> HIDE DEF words, n
    <3>2. words \in Seq(Seq(Token)) /\ Len(words) = n
      BY <1>1, <2>1, <3>1
    <3> QED
      BY <3>2
  <2> QED
    BY <1>1, <2>1, <2>2 DEF AreWords
<1>3. FlattenSeq(words) = WriteLiteral(s)
  BY DEF WriteLiteral
<1>4. p \in 1 .. Len(t) + 1
  OBVIOUS
<1> HIDE DEF words
<1>5. PICK pos : Laid(t, p, words, n, pos)
  BY <1>2, <1>3, <1>4, HoldsEach
<1>6. pos \in [1 .. n + 1 -> p .. Len(t) + 1] /\ pos[1] = p /\ pos[n + 1] = p + Len(WriteLiteral(s))
  BY <1>3, <1>5 DEF Laid
<1>7. DOMAIN fragments = from .. Len(t) + 1
  BY TokenFragmentsAre
<1>8. pos \in [1 .. n + 1 -> DOMAIN fragments]
  <2>1. p .. Len(t) + 1 \subseteq from .. Len(t) + 1
    OBVIOUS
  <2> QED
    BY <1>6, <1>7, <2>1
<1>9. ASSUME NEW k \in 1 .. n
      PROVE  fragments[pos[k]] = Ok(pos[k + 1], s[k])
  <2>1. k \in 1 .. n + 1 /\ s[k] \in Token /\ words[k] = EscapeLiteral(s[k])
    BY <1>1 DEF words
  <2>2. pos[k + 1] = pos[k] + Len(words[k]) /\ Holds(t, pos[k], words[k])
    BY <1>5 DEF Laid
  <2>3. pos[k] \in Place /\ pos[k] \in Onward(t, from)
    <3>1. pos[k] \in p .. Len(t) + 1
      BY <1>6, <2>1
    <3> QED
      BY <3>1 DEF Place, Onward
  <2>4. /\ ParseLiteralFragment(t, pos[k]) = Ok(pos[k] + Len(EscapeLiteral(s[k])), s[k])
        /\ ParseGeneratorFragment(t, pos[k]) = Ok(pos[k] + Len(EscapeLiteral(s[k])), s[k])
    BY <2>1, <2>2, <2>3, FragmentReads
  <2>5. fragments[pos[k]] \in {ParseLiteralFragment(t, pos[k]), ParseGeneratorFragment(t, pos[k])}
    BY <2>3 DEF TokenFragments, LiteralFragments, GeneratorFragments
  <2> QED
    BY <2>1, <2>2, <2>4, <2>5
<1> QED
  BY <1>6, <1>8, <1>9 DEF Path

(* A string is read as it is written, up to what ends it. *)
LEMMA LiteralReads ==
    ASSUME NEW t \in Seq(Token), NEW p \in 1 .. Len(t) + 1, NEW s \in Seq(Token) \ {<<>>},
           Holds(t, p, WriteLiteral(s)), At(t, p + Len(WriteLiteral(s))) \in Stop
    PROVE  ParseLiteral(t, p) = Ok(p + Len(WriteLiteral(s)), Literal(s))
<1> DEFINE fragments == LiteralFragments(t, p)
           q == p + Len(WriteLiteral(s))
<1>1. fragments \in TokenFragments(t, p) /\ p \in p .. Len(t) + 1 /\ p \in Place /\ p <= Len(t) + 1
  BY DEF TokenFragments, Place
<1>2. Path(fragments, p, s, q)
  BY <1>1, TokensRead
<1>3. AreFragments(fragments, t, p, Token)
  BY <1>1, TokenFragmentsAre
<1>4. q \in Onward(t, p)
  <2>1. WriteLiteral(s) \in Seq(Token)
    BY WriteLiteralIs
  <2> QED
    BY <2>1, HoldsEnd DEF Onward
<1>5. fragments[q].kind = "error"
  <2>1. fragments[q] = Error
    BY <1>4, FragmentStops DEF LiteralFragments
  <2> QED
    BY <2>1 DEF Error
<1> HIDE DEF fragments, q
<1>6. Many1(fragments, p) = Ok(q, s)
  BY <1>1, <1>2, <1>3, <1>5, Many1Reads
<1>7. ParseLiteral(t, p) = LET r == Many1(fragments, p) IN IF r.kind = "ok" THEN Ok(r.rest, Literal(r.value)) ELSE r
  BY DEF ParseLiteral, Mapped, fragments, LiteralFragments
<1> QED
  BY <1>6, <1>7 DEF Ok, q

(* There is no string where syntax is that is not escaped. *)
LEMMA LiteralStops ==
    ASSUME NEW t \in Seq(Token), NEW p \in 1 .. Len(t) + 1, At(t, p) \in Stop
    PROVE  ParseLiteral(t, p) = Error
<1> DEFINE fragments == LiteralFragments(t, p)
<1>1. fragments \in TokenFragments(t, p) /\ p \in Place /\ p <= Len(t) + 1 /\ p \in Onward(t, p)
  BY DEF TokenFragments, Place, Onward
<1>2. AreFragments(fragments, t, p, Token)
  BY <1>1, TokenFragmentsAre
<1>3. fragments[p] = Error
  BY <1>1, FragmentStops DEF LiteralFragments
<1> HIDE DEF fragments
<1>4. Many1(fragments, p) = Error
  BY <1>1, <1>2, <1>3, Many1None
<1>5. ParseLiteral(t, p) = LET r == Many1(fragments, p) IN IF r.kind = "ok" THEN Ok(r.rest, Literal(r.value)) ELSE r
  BY DEF ParseLiteral, Mapped, fragments, LiteralFragments
<1> QED
  BY <1>4, <1>5 DEF Error

(* The name of a generator stands for itself. *)
LEMMA NameReads ==
    ASSUME NEW t \in Seq(Token), NEW from \in 1 .. Len(t) + 1, NEW p \in from .. Len(t) + 1,
           NEW s \in Seq(Lower), Holds(t, p, s)
    PROVE  Path(GeneratorFragments(t, from), p, s, p + Len(s))
<1> DEFINE n == Len(s)
           l == Len(t)
           pos == [k \in 1 .. n + 1 |-> p + k - 1]
           fragments == GeneratorFragments(t, from)
<1>1. n \in Nat /\ l \in Nat /\ \A i \in 1 .. n : s[i] \in Lower /\ <<s[i]>> \in Seq(Token) /\ s[i] \in Token
  <2>1. \A c \in Lower : c \in Token
    BY TokensAreNot
  <2> QED
    BY <2>1
<1>2. DOMAIN fragments = from .. l + 1
  BY DEF GeneratorFragments, Onward
<1>3. \A i \in 1 .. n : p + i - 1 \in 1 .. l /\ t[p + i - 1] = s[i]
  BY DEF Holds
<1>4. pos[1] = p /\ pos[n + 1] = p + n
  BY <1>1
<1>5. pos \in [1 .. n + 1 -> from .. l + 1]
  <2> SUFFICES ASSUME NEW k \in 1 .. n + 1 PROVE p + k - 1 \in from .. l + 1
    OBVIOUS
  <2>1. CASE k = 1
    BY <2>1
  <2>2. CASE k # 1
    <3>1. k - 1 \in 1 .. n
      BY <1>1, <2>2
    <3>2. p + (k - 1) - 1 \in 1 .. l
      BY <1>3, <3>1
    <3> HIDE DEF n, l
    <3>3. p \in from .. l + 1 /\ from \in 1 .. l + 1
      BY DEF l
    <3> QED
      BY <1>1, <3>1, <3>2, <3>3
  <2> QED
    BY <2>1, <2>2
<1>6. ASSUME NEW k \in 1 .. n
      PROVE  fragments[pos[k]] = Ok(pos[k + 1], s[k])
  <2>1. k \in 1 .. n + 1 /\ k + 1 \in 1 .. n + 1
    BY <1>1
  <2>2. pos[k] = p + k - 1 /\ pos[k + 1] = pos[k] + 1
    BY <2>1
  <2> DEFINE x == p + k - 1
  <2>3. x \in 1 .. l /\ t[x] = s[k] /\ x \in from .. l + 1
    BY <1>3, <1>5, <2>1, <2>2
  <2>4. s[k] \in Token /\ s[k] \notin Syntax /\ s[k] # NoToken
    BY <1>1, TokensAreNot
  <2>5. At(t, x) = s[k]
    <3>1. x <= Len(t)
      BY <2>3
    <3> HIDE DEF x
    <3> QED
      BY <2>3, <3>1 DEF At
  <2>6. Verbatim(t, x, {"\\", "}"}) = Ok(x + 1, s[k])
    BY <2>3, <2>4, <2>5 DEF Verbatim, Syntax
  <2>7. ParseGeneratorFragment(t, x) = Ok(x + 1, s[k])
    <3> DEFINE r == Verbatim(t, x, {"\\", "}"})
    <3>1. r.kind = "ok"
      <4>1. Ok(x + 1, s[k]).kind = "ok"
        BY DEF Ok
      <4>2. r = Ok(x + 1, s[k])
        BY <2>6
      <4> HIDE DEF r, x
      <4> QED
        BY <4>1, <4>2
    <3> HIDE DEF r
    <3>2. \A u : Or(r, u) = r
      BY <3>1 DEF Or
    <3> QED
      BY <2>6, <3>2 DEF ParseGeneratorFragment, r
  <2>8. fragments[x] = ParseGeneratorFragment(t, x)
    BY <2>3 DEF GeneratorFragments, Onward
  <2> QED
    BY <2>2, <2>7, <2>8
<1> HIDE DEF pos, fragments
<1>7. pos \in [1 .. n + 1 -> DOMAIN fragments]
  BY <1>2, <1>5
<1>8. Path(fragments, p, s, p + n)
  BY <1>4, <1>6, <1>7 DEF Path
<1> QED
  BY <1>8 DEF fragments

(* One argument of a generator, after what separates it *)
LEMMA ArgReads ==
    ASSUME NEW t \in Seq(Token), NEW from \in 1 .. Len(t) + 1, NEW p \in from .. Len(t) + 1,
           NEW arg \in Seq(Token), Holds(t, p, WriteSepArg(arg))
    PROVE  Path(GeneratorFragments(t, from), p, <<"|">> \o arg, p + Len(WriteSepArg(arg)))
<1> DEFINE fragments == GeneratorFragments(t, from)
           bar == <<"|">>
<1>1. "|" \in Token /\ "|" # NoToken /\ bar \in Seq(Token) /\ bar # <<>> /\ Len(bar) = 1 /\ bar[1] = "|"
  <2>1. "|" \in Syntax
    BY DEF Syntax
  <2>2. "|" \in Token /\ "|" # NoToken
    BY <2>1, TokensAreNot
  <2> QED
    BY <2>2
<1>2. WriteLiteral(arg) \in Seq(Token)
  BY WriteLiteralIs
<1>3. WriteSepArg(arg) = bar \o WriteLiteral(arg)
  BY DEF WriteSepArg
<1>4. p \in Place /\ p \in 1 .. Len(t) + 1 /\ DOMAIN fragments = from .. Len(t) + 1
  BY DEF Place, GeneratorFragments, Onward
<1> HIDE DEF bar
<1>5. /\ Holds(t, p, bar) /\ Holds(t, p + 1, WriteLiteral(arg))
      /\ p + Len(WriteSepArg(arg)) = (p + 1) + Len(WriteLiteral(arg))
  <2> DEFINE v == WriteLiteral(arg)
  <2>1. Holds(t, p, bar \o v) /\ v \in Seq(Token)
    BY <1>2, <1>3
  <2> HIDE DEF v
  <2>2. /\ Holds(t, p, bar) /\ Holds(t, p + Len(bar), v)
        /\ p + Len(bar \o v) = (p + Len(bar)) + Len(v)
    <3>1. p \in Place /\ bar \in Seq(Token) /\ v \in Seq(Token)
      BY <1>1, <1>4, <2>1
    <3> QED
      BY ONLY <2>1, <3>1, HoldsBoth
  <2>3. Holds(t, p, bar) /\ Holds(t, p + 1, v) /\ p + Len(bar \o v) = (p + 1) + Len(v)
    BY <1>1, <2>2
  <2> QED
    BY <1>3, <2>3 DEF v
<1>6. At(t, p) = "|" /\ p \in 1 .. Len(t)
  BY <1>1, <1>4, <1>5, HoldsFirst
<1>7. p + 1 \in from .. Len(t) + 1
  BY <1>6
<1>8. fragments[p] = Ok(p + 1, "|")
  <2>1. t[p] = "|"
    BY <1>1, <1>4, <1>6, AtIs
  <2>2. Verbatim(t, p, {"\\", "}"}) = Ok(p + 1, "|")
    BY <1>1, <1>6, <2>1 DEF Verbatim
  <2>3. ParseGeneratorFragment(t, p) = Ok(p + 1, "|")
    <3> DEFINE r == Verbatim(t, p, {"\\", "}"})
               o == Ok(p + 1, "|")
    <3>1. o.kind = "ok"
      BY DEF Ok
    <3>2. r = o
      BY <2>2
    <3>3. ParseGeneratorFragment(t, p) = Or(r, ParseLiteralEscaped(t, p))
      BY DEF ParseGeneratorFragment
    <3> HIDE DEF r, o
    <3>4. \A u : Or(o, u) = o
      BY <3>1 DEF Or
    <3> QED
      BY <3>2, <3>3, <3>4 DEF o
  <2> QED
    BY <2>3 DEF GeneratorFragments, Onward
<1>9. Path(fragments, p, bar, p + 1)
  <2> HIDE DEF fragments
  <2> QED
    BY <1>4, <1>7, <1>8, PathOne DEF bar
<1>10. Path(fragments, p + 1, arg, (p + 1) + Len(WriteLiteral(arg)))
  BY <1>5, <1>7, TokensRead DEF TokenFragments
<1> HIDE DEF fragments
<1>11. Path(fragments, p, bar \o arg, p + Len(WriteSepArg(arg)))
  BY <1>1, <1>5, <1>9, <1>10, PathOn
<1> QED
  BY <1>11 DEF bar, fragments

(* The arguments of a generator one after the other *)
LEMMA ArgsRead ==
    ASSUME NEW t \in Seq(Token), NEW from \in 1 .. Len(t) + 1, NEW p \in from .. Len(t) + 1,
           NEW args \in Seq(Seq(Token)),
           Holds(t, p, FlattenSeq([i \in DOMAIN args |-> WriteSepArg(args[i])]))
    PROVE  /\ FlattenSeq([i \in DOMAIN args |-> WriteSepArg(args[i])]) \in Seq(Token)
           /\ FlattenSeq([i \in DOMAIN args |-> <<"|">> \o args[i]]) \in Seq(Token)
           /\ Path(GeneratorFragments(t, from), p, FlattenSeq([i \in DOMAIN args |-> <<"|">> \o args[i]]),
                   p + Len(FlattenSeq([i \in DOMAIN args |-> WriteSepArg(args[i])])))
<1> DEFINE n == Len(args)
           words == [i \in DOMAIN args |-> WriteSepArg(args[i])]
           values == [i \in DOMAIN args |-> <<"|">> \o args[i]]
           fragments == GeneratorFragments(t, from)
<1>1. DOMAIN args = 1 .. n /\ n \in Nat /\ \A i \in 1 .. n : args[i] \in Seq(Token)
  OBVIOUS
<1>2. <<"|">> \in Seq(Token)
  <2>1. "|" \in Token
    BY SyntaxIs
  <2> QED
    BY <2>1
<1>3. \A i \in 1 .. n : words[i] \in Seq(Token) /\ values[i] \in Seq(Token)
  <2> SUFFICES ASSUME NEW i \in 1 .. n
               PROVE  WriteSepArg(args[i]) \in Seq(Token) /\ <<"|">> \o args[i] \in Seq(Token)
    BY <1>1
  <2>1. WriteLiteral(args[i]) \in Seq(Token) /\ args[i] \in Seq(Token)
    BY <1>1, WriteLiteralIs
  <2> QED
    BY <1>2, <2>1, TextsAre DEF WriteSepArg
<1>4. AreWords(Token, words, n) /\ AreWords(Token, values, n)
  <2>1. words = [i \in 1 .. n |-> words[i]] /\ values = [i \in 1 .. n |-> values[i]]
    BY <1>1
  <2> HIDE DEF words, values, n
  <2>2. \A i \in 1 .. n : words[i] \in Seq(Token)
    BY <1>3
  <2>3. \A i \in 1 .. n : values[i] \in Seq(Token)
    BY <1>3
  <2> QED
    BY <1>1, <2>1, <2>2, <2>3, AsWords
<1>5. FlattenSeq(words) \in Seq(Token) /\ FlattenSeq(values) \in Seq(Token)
  <2>1. words = [i \in 1 .. n |-> words[i]] /\ values = [i \in 1 .. n |-> values[i]]
    BY <1>1
  <2> HIDE DEF words, values, n
  <2> QED
    BY <1>1, <1>3, <2>1, FlattensTo
<1>6. p \in 1 .. Len(t) + 1 /\ DOMAIN fragments = from .. Len(t) + 1
  BY DEF GeneratorFragments, Onward
<1>7. PICK pos : Laid(t, p, words, n, pos)
  <2> HIDE DEF words, n
  <2>1. Holds(t, p, FlattenSeq(words))
    BY DEF words
  <2> QED
    BY <1>4, <1>6, <2>1, HoldsEach
<1>8. /\ pos \in [1 .. n + 1 -> p .. Len(t) + 1] /\ pos[1] = p /\ pos[n + 1] = p + Len(FlattenSeq(words))
      /\ \A k \in 1 .. n : pos[k + 1] = pos[k] + Len(words[k]) /\ Holds(t, pos[k], words[k])
  BY <1>7 DEF Laid
<1>9. pos \in [1 .. n + 1 -> DOMAIN fragments]
  <2>1. p .. Len(t) + 1 \subseteq from .. Len(t) + 1
    OBVIOUS
  <2> HIDE DEF n, fragments
  <2> QED
    BY <1>6, <1>8, <2>1
<1>10. ASSUME NEW k \in 1 .. n
       PROVE  Path(fragments, pos[k], values[k], pos[k + 1])
  <2>1. k \in 1 .. n + 1 /\ args[k] \in Seq(Token) /\ words[k] = WriteSepArg(args[k]) /\ values[k] = <<"|">> \o args[k]
    BY <1>1
  <2>2. pos[k] \in from .. Len(t) + 1
    BY <1>6, <1>9, <2>1
  <2>3. Holds(t, pos[k], WriteSepArg(args[k])) /\ pos[k + 1] = pos[k] + Len(WriteSepArg(args[k]))
    BY <1>8, <2>1
  <2>4. Path(fragments, pos[k], <<"|">> \o args[k], pos[k] + Len(WriteSepArg(args[k])))
    BY <2>1, <2>2, <2>3, ArgReads
  <2> QED
    BY <2>1, <2>3, <2>4
<1> HIDE DEF words, values, n, fragments
<1>11. Path(fragments, pos[1], FlattenSeq(values), pos[n + 1])
  BY <1>4, <1>9, <1>10, PathJoins
<1>12. Path(fragments, p, FlattenSeq(values), p + Len(FlattenSeq(words)))
  BY <1>8, <1>11
<1> QED
  BY <1>5, <1>12 DEF words, values, fragments

(* What a tidy generator is written as *)
LEMMA TidyGeneratorIs ==
    ASSUME NEW s \in Seq(Token) \ {<<>>}, TidyGenerator(s)
    PROVE  LET args == GeneratorArgs(s)
               words == FlattenSeq([i \in DOMAIN args |-> WriteSepArg(args[i])])
           IN  /\ args \in Seq(Seq(Token)) /\ GeneratorName(s) \in Seq(Lower) \ {<<>>}
               /\ GeneratorName(s)[1] = s[1] /\ s[1] \in Lower
               /\ s = GeneratorName(s) \o FlattenSeq([i \in DOMAIN args |-> <<"|">> \o args[i]])
               /\ WriteGenerator(s) = <<"{">> \o GeneratorName(s) \o (<<>> \o words) \o <<"}">>
<1> DEFINE args == GeneratorArgs(s)
           words == FlattenSeq([i \in DOMAIN args |-> WriteSepArg(args[i])])
           n == NameLength(s)
           name == GeneratorName(s)
<1>1. /\ n \in 0 .. Len(s) /\ \A i \in 0 .. n - 1 : At(s, i + 1) \in Lower
      /\ At(s, n + 1) \notin Lower /\ args \in Seq(Seq(Token))
  BY ArgsAre
<1>2. s[1] \in Lower /\ s = name \o FlattenSeq([i \in DOMAIN args |-> <<"|">> \o args[i]])
  BY DEF TidyGenerator
<1>3. Len(s) >= 1 /\ Len(s) \in Nat /\ At(s, 1) = s[1]
  <2>1. Len(s) >= 1 /\ Len(s) \in Nat
    OBVIOUS
  <2> QED
    BY <2>1 DEF At
<1>4. n >= 1
  <2>1. 0 + 1 = 1
    OBVIOUS
  <2>2. n # 0
    BY <1>1, <1>2, <1>3, <2>1
  <2> HIDE DEF n
  <2> QED
    BY <1>1, <1>3, <2>2
<1>5. name \in Seq(Lower) /\ Len(name) = n /\ name[1] = s[1]
  <2>1. \A i \in 1 .. n : s[i] \in Lower /\ i \in 1 .. Len(s)
    <3> SUFFICES ASSUME NEW i \in 1 .. n PROVE s[i] \in Lower /\ i \in 1 .. Len(s)
      OBVIOUS
    <3>1. i - 1 \in 0 .. n - 1 /\ (i - 1) + 1 = i /\ i \in 1 .. Len(s) /\ i <= Len(s)
      <4> HIDE DEF n
      <4> QED
        BY <1>1, <1>3
    <3>2. At(s, i) \in Lower
      BY <1>1, <3>1
    <3> QED
      BY <3>1, <3>2 DEF At
  <2>2. name = SubSeq(s, 1, n)
    BY DEF GeneratorName
  <2> HIDE DEF n, name
  <2>3. SubSeq(s, 1, n) = [i \in 1 .. n |-> s[i]]
    <3>1. SubSeq(s, 1, n) \in Seq(Token) /\ Len(SubSeq(s, 1, n)) = n /\ \A i \in 1 .. n : SubSeq(s, 1, n)[i] = s[i]
      BY <1>1, <1>3, <1>4
    <3> DEFINE u == SubSeq(s, 1, n)
    <3> HIDE DEF u
    <3>2. u = [i \in 1 .. Len(u) |-> u[i]]
      BY <3>1 DEF u
    <3> QED
      BY <3>1, <3>2 DEF u
  <2> DEFINE u == [i \in 1 .. n |-> s[i]]
  <2>4. u \in Seq(Lower) /\ Len(u) = n /\ u[1] = s[1]
    <3>1. n \in Nat /\ 1 \in 1 .. n
      BY <1>1, <1>4
    <3>2. u \in [1 .. n -> Lower]
      BY <2>1
    <3> QED
      BY <3>1, <3>2
  <2> QED
    BY <2>2, <2>3, <2>4
<1>6. name # <<>>
  <2> HIDE DEF name, n
  <2> QED
    BY <1>4, <1>5
<1>7. FmtWithHash(args) = <<>> \o words
  <2>1. \E i \in DOMAIN args : args[i] = <<DictHash(args)>>
    BY DEF TidyGenerator
  <2> QED
    BY <2>1, Zenon DEF FmtWithHash
<1>8. WriteGenerator(s) = <<"{">> \o name \o (<<>> \o words) \o <<"}">>
  BY <1>7 DEF WriteGenerator
<1> QED
  BY <1>1, <1>2, <1>5, <1>6, <1>8

LEMMA JoinsThree ==
    ASSUME NEW u \in Seq(Token), NEW v \in Seq(Token), NEW w \in Seq(Token)
    PROVE  (u \o v) \o w = u \o (v \o w)
<1> DEFINE B == Token
<1>1. u \in Seq(B) /\ v \in Seq(B) /\ w \in Seq(B)
  OBVIOUS
<1> HIDE DEF B
<1> QED
  BY ONLY <1>1

(* A single token *)
LEMMA SingleToken ==
    ASSUME NEW B, NEW c \in B
    PROVE  <<c>> \in Seq(B) /\ <<c>> # <<>> /\ Len(<<c>>) = 1 /\ <<c>>[1] = c
OBVIOUS

(* What is held between an opening and a closing token *)
LEMMA BracketsHold ==
    ASSUME NEW t \in Seq(Token), NEW p \in 1 .. Len(t) + 1, NEW open \in Token, NEW close \in Token,
           NEW w \in Seq(Token), Holds(t, p, <<open>> \o w \o <<close>>)
    PROVE  /\ At(t, p) = open /\ p \in 1 .. Len(t) /\ p + 1 \in 1 .. Len(t) + 1
           /\ Holds(t, p + 1, w) /\ At(t, (p + 1) + Len(w)) = close
           /\ (p + 1) + Len(w) \in p + 1 .. Len(t)
           /\ p + Len(<<open>> \o w \o <<close>>) = ((p + 1) + Len(w)) + 1
<1> DEFINE all == <<open>> \o w \o <<close>>
           u == <<open>>
           v == <<close>>
           l == Len(t)
           head == u \o w
<1>1. u \in Seq(Token) /\ u # <<>> /\ Len(u) = 1 /\ u[1] = open
  BY SingleToken, Zenon
<1>2. v \in Seq(Token) /\ v # <<>> /\ Len(v) = 1 /\ v[1] = close
  BY SingleToken, Zenon
<1>3. all = head \o v
  BY Zenon
<1>0. Holds(t, p, all)
  OBVIOUS
<1>4. p \in Place /\ l \in Nat /\ p \in 1 .. l + 1
  BY DEF Place
<1> HIDE DEF u, v, all
<1>5. head \in Seq(Token)
  BY <1>1, JoinIs, Zenon
<1>6. Holds(t, p, head \o v) /\ w \in Seq(Token)
  BY <1>0, <1>3, Zenon
<1> HIDE DEF head
<1>7. /\ Holds(t, p, head) /\ Holds(t, p + Len(head), v) /\ p + Len(head) \in Place
      /\ p + Len(all) = (p + Len(head)) + 1
  <2>1. /\ Holds(t, p, head) /\ Holds(t, p + Len(head), v) /\ p + Len(head) \in Place
        /\ p + Len(head \o v) = (p + Len(head)) + Len(v)
    <3>1. p \in Place /\ head \in Seq(Token) /\ v \in Seq(Token)
      BY <1>2, <1>4, <1>5
    <3> QED
      BY ONLY <3>1, <1>6, HoldsBoth
  <2> QED
    BY <1>2, <1>3, <2>1, Zenon
<1>8. Holds(t, p, u) /\ Holds(t, p + Len(u), w) /\ p + Len(head) = (p + Len(u)) + Len(w) /\ Len(w) \in Nat
  <2>1. Holds(t, p, u \o w)
    BY <1>7 DEF head
  <2>2. p \in Place /\ u \in Seq(Token) /\ w \in Seq(Token)
    BY <1>1, <1>4
  <2>3. p + Len(u \o w) = (p + Len(u)) + Len(w) /\ Len(w) \in Nat /\ Holds(t, p, u) /\ Holds(t, p + Len(u), w)
    BY ONLY <2>1, <2>2, HoldsBoth
  <2> QED
    BY <2>3, Zenon DEF head
<1>9. At(t, p) = open /\ p \in 1 .. l
  BY <1>1, <1>4, <1>8, HoldsFirst
<1>10. At(t, p + Len(head)) = close /\ p + Len(head) \in 1 .. l
  BY <1>2, <1>7, HoldsFirst
<1>11. p + Len(head) = (p + 1) + Len(w)
  BY <1>1, <1>8, Zenon
<1>12. Holds(t, p + 1, w)
  BY <1>1, <1>8, Zenon
<1>13. At(t, (p + 1) + Len(w)) = close /\ (p + 1) + Len(w) \in 1 .. l
  BY <1>10, <1>11, Zenon
<1>14. p + Len(all) = ((p + 1) + Len(w)) + 1
  BY <1>7, <1>11, Zenon
<1>15. p + 1 \in 1 .. l + 1 /\ (p + 1) + Len(w) \in p + 1 .. l
  <2> DEFINE n == Len(w)
  <2>1. n \in Nat /\ (p + 1) + n \in 1 .. l
    BY <1>8, <1>13
  <2> HIDE DEF n, l
  <2>2. p + 1 \in 1 .. l + 1 /\ (p + 1) + n \in p + 1 .. l
    BY <1>4, <1>9, <2>1
  <2> QED
    BY <2>2 DEF n
<1> QED
  BY <1>9, <1>12, <1>13, <1>14, <1>15 DEF l, all

(* What Delimited gives of what is between the two *)
LEMMA DelimitedOk ==
    ASSUME NEW t, NEW p, NEW q, NEW value, NEW open, NEW close, NEW inner,
           At(t, p) = open, At(t, q) = close, inner = Ok(q, value)
    PROVE  Delimited(t, p, open, inner, close) = Ok(q + 1, value)
<1>1. inner.kind = "ok" /\ inner.rest = q /\ inner.value = value
  BY DEF Ok
<1> QED
  BY <1>1 DEF Delimited

(* The braces have names, since the provers cannot take their characters. *)
LeftBrace == "{"
RightBrace == "}"

(* A tidy generator is read as it is written. *)
LEMMA GeneratorReads ==
    ASSUME NEW t \in Seq(Token), NEW p \in 1 .. Len(t) + 1, NEW s \in Seq(Token) \ {<<>>}, TidyGenerator(s),
           Holds(t, p, WriteGenerator(s))
    PROVE  /\ At(t, p) = LeftBrace /\ At(t, p + 1) \in Lower
           /\ ParseGenerator(t, p) = Ok(p + Len(WriteGenerator(s)), Generator(s))
<1> DEFINE args == GeneratorArgs(s)
           words == FlattenSeq([i \in DOMAIN args |-> WriteSepArg(args[i])])
           values == FlattenSeq([i \in DOMAIN args |-> <<"|">> \o args[i]])
           name == GeneratorName(s)
           open == <<LeftBrace>>
           close == <<RightBrace>>
           fragments == GeneratorFragments(t, p + 1)
           body == name \o words
           l == Len(t)
           end == (p + 1) + Len(body)
<1>1. /\ args \in Seq(Seq(Token)) /\ name \in Seq(Lower) \ {<<>>} /\ name[1] = s[1] /\ s[1] \in Lower
      /\ s = name \o values /\ WriteGenerator(s) = open \o name \o (<<>> \o words) \o close
  BY TidyGeneratorIs, Zenon DEF LeftBrace, RightBrace
<1>2. name \in Seq(Token) /\ name \in Seq(Lower) /\ name # <<>> /\ LeftBrace \in Token /\ RightBrace \in Token
  <2>1. Lower \subseteq Token
    BY TokensAreNot
  <2>2. name \in Seq(Lower) /\ name # <<>>
    BY <1>1
  <2>3. LeftBrace \in Token /\ RightBrace \in Token
    BY SyntaxIs, Zenon DEF LeftBrace, RightBrace
  <2> HIDE DEF name
  <2>4. Seq(Lower) \subseteq Seq(Token)
    BY <2>1
  <2> QED
    BY <2>2, <2>3, <2>4
<1>3. words \in Seq(Token)
  <2> DEFINE n == Len(args)
             w == [i \in DOMAIN args |-> WriteSepArg(args[i])]
  <2>1. DOMAIN args = 1 .. n /\ n \in Nat /\ \A i \in 1 .. n : args[i] \in Seq(Token)
    <3>1. args \in Seq(Seq(Token))
      BY <1>1
    <3> HIDE DEF args
    <3> QED
      BY <3>1
  <2>2. \A i \in 1 .. n : w[i] \in Seq(Token)
    <3> SUFFICES ASSUME NEW i \in 1 .. n PROVE w[i] \in Seq(Token)
      OBVIOUS
    <3> DEFINE bar == <<"|">>
               v == WriteLiteral(args[i])
    <3>1. v \in Seq(Token)
      BY <2>1, WriteLiteralIs
    <3>2. bar \in Seq(Token)
      <4>1. "|" \in Token
        BY SyntaxIs
      <4> QED
        BY <4>1
    <3>3. w[i] = bar \o v
      BY <2>1 DEF WriteSepArg
    <3> HIDE DEF bar, v
    <3>4. bar \o v \in Seq(Token)
      BY <3>1, <3>2, JoinIs, Zenon
    <3> QED
      BY <3>3, <3>4, Zenon
  <2>3. w = [i \in 1 .. n |-> w[i]]
    BY <2>1
  <2> HIDE DEF w, n
  <2>4. FlattenSeq(w) \in Seq(Token)
    BY <2>1, <2>2, <2>3, FlattensTo
  <2> QED
    BY <2>4 DEF w
<1> HIDE DEF name, words, values, args
<1>4. body \in Seq(Token)
  BY <1>2, <1>3, JoinIs
<1>5. WriteGenerator(s) = open \o body \o close
  <2>1. open \in Seq(Token) /\ <<>> \o words = words
    <3>1. open \in Seq(Token)
      BY <1>2, SingleToken
    <3> QED
      BY <1>3, <3>1, JoinIs
  <2> HIDE DEF open
  <2>2. (open \o name) \o words = open \o body
    <3>1. open \in Seq(Token) /\ name \in Seq(Token) /\ words \in Seq(Token)
      BY <1>2, <1>3, <2>1
    <3> QED
      BY ONLY <3>1
  <2> QED
    BY <1>1, <2>1, <2>2
<1> DEFINE all == WriteGenerator(s)
<1> HIDE DEF body
<1>6. /\ At(t, p) = LeftBrace /\ p \in 1 .. Len(t) /\ p + 1 \in 1 .. Len(t) + 1
      /\ Holds(t, p + 1, body) /\ At(t, end) = RightBrace /\ end \in p + 1 .. Len(t)
      /\ p + Len(all) = end + 1
  <2>1. Holds(t, p, <<LeftBrace>> \o body \o <<RightBrace>>)
    BY <1>5
  <2>2. LeftBrace \in Token /\ RightBrace \in Token
    BY <1>2
  <2>3. /\ At(t, p) = LeftBrace /\ p \in 1 .. Len(t) /\ p + 1 \in 1 .. Len(t) + 1
        /\ Holds(t, p + 1, body) /\ At(t, end) = RightBrace /\ end \in p + 1 .. Len(t)
        /\ p + Len(<<LeftBrace>> \o body \o <<RightBrace>>) = end + 1
    BY <1>4, <2>1, <2>2, BracketsHold
  <2> QED
    BY <1>5, <2>3
<1> HIDE DEF all, open, close
<1>7. p + 1 \in Place
  BY <1>6 DEF Place
<1>8. Holds(t, p + 1, name) /\ Holds(t, (p + 1) + Len(name), words) /\ end = ((p + 1) + Len(name)) + Len(words)
  <2>1. Holds(t, p + 1, name \o words)
    BY <1>6 DEF body
  <2>2. /\ Holds(t, p + 1, name) /\ Holds(t, (p + 1) + Len(name), words)
        /\ (p + 1) + Len(name \o words) = ((p + 1) + Len(name)) + Len(words)
    <3>1. p + 1 \in Place /\ name \in Seq(Token) /\ words \in Seq(Token)
      BY <1>2, <1>3, <1>7
    <3> QED
      BY ONLY <2>1, <3>1, HoldsBoth
  <2> QED
    BY <2>2 DEF body
<1> HIDE DEF end
<1>9. At(t, p + 1) \in Lower
  <2>1. At(t, p + 1) = name[1]
    BY ONLY <1>2, <1>7, <1>8, HoldsFirst
  <2> QED
    BY <1>1, <2>1
<1>10. (p + 1) + Len(name) \in p + 1 .. Len(t) + 1 /\ p + 1 \in p + 1 .. Len(t) + 1
  <2>1. p + 1 \in p + 1 .. Len(t) + 1
    BY <1>6
  <2> QED
    BY <1>2, <1>7, <1>8, <1>6, <2>1, HoldsEnd
<1>11. Path(fragments, p + 1, name, (p + 1) + Len(name))
  <2>1. name \in Seq(Lower)
    BY <1>2
  <2> QED
    BY ONLY <1>6, <1>8, <1>10, <2>1, t \in Seq(Token), NameReads DEF fragments
<1>12. Path(fragments, (p + 1) + Len(name), values, end) /\ values \in Seq(Token)
  <2>1. args \in Seq(Seq(Token))
    BY <1>1
  <2>2. /\ Path(fragments, (p + 1) + Len(name), values, ((p + 1) + Len(name)) + Len(words))
        /\ values \in Seq(Token)
    BY <1>6, <1>8, <1>10, <2>1, ArgsRead DEF words, values
  <2> QED
    BY <1>8, <2>2
<1>13. AreFragments(fragments, t, p + 1, Token)
  BY <1>6, TokenFragmentsAre DEF TokenFragments, fragments
<1>14. fragments[end].kind = "error"
  <2>1. end \in Onward(t, p + 1)
    BY <1>6 DEF Onward
  <2>2. ParseGeneratorFragment(t, end) = Error
    BY <1>6, FragmentStops, Zenon DEF RightBrace
  <2> QED
    BY <2>1, <2>2 DEF fragments, GeneratorFragments, Error
<1> HIDE DEF fragments
<1>15. Path(fragments, p + 1, s, end)
  BY <1>1, <1>2, <1>11, <1>12, PathOn
<1>16. Many1(fragments, p + 1) = Ok(end, s)
  <2>1. p + 1 \in Place /\ p + 1 <= Len(t) + 1 /\ s \in Seq(Token) /\ s # <<>>
    BY <1>6, <1>7
  <2> QED
    BY <1>13, <1>14, <1>15, <2>1, Many1Reads
<1>17. ParseGenerator(t, p) = Ok(end + 1, Generator(s))
  <2> DEFINE inner == Mapped(Many1(fragments, p + 1), Generator)
  <2>1. ParseGenerator(t, p) = IF At(t, p + 1) \notin Lower THEN Error ELSE Delimited(t, p, LeftBrace, inner, RightBrace)
    BY Zenon DEF ParseGenerator, fragments, GeneratorFragments, LeftBrace, RightBrace
  <2>2. inner = Ok(end, Generator(s))
    BY <1>16 DEF Mapped, Ok
  <2> HIDE DEF inner
  <2>3. Delimited(t, p, LeftBrace, inner, RightBrace) = Ok(end + 1, Generator(s))
    BY <1>6, <2>2, DelimitedOk
  <2> QED
    BY <1>9, <2>1, <2>3
<1> QED
  BY <1>6, <1>9, <1>17 DEF all
(* The digits of a number are read as the number. *)
LEMMA U32Reads ==
    ASSUME NEW t \in Seq(Token), NEW p \in Place, NEW w, NEW n, Tells(w, n),
           Holds(t, p, w), At(t, p + Len(w)) \notin Digit
    PROVE  ParseU32(t, p) = Ok(p + Len(w), n)
<1> DEFINE l == Len(t)
           m == Len(w)
<1>1. w \in Seq(Digit) /\ w # <<>>
  BY DEF Tells
<1>2. m \in Nat /\ m >= 1 /\ l \in Nat /\ p \in Nat /\ \A k \in 1 .. m : w[k] \in Digit
  <2>1. m \in Nat /\ m >= 1 /\ \A k \in 1 .. m : w[k] \in Digit
    BY <1>1, SeqNotEmpty
  <2>2. l \in Nat /\ p \in Nat
    BY DEF Place
  <2> QED
    BY <2>1, <2>2
<1>3. PICK value : Values(w, value) /\ value[m] = n
  BY DEF Tells
<1>4. PICK i \in 0 .. l, all \in [0 .. l -> Nat] :
         /\ At(t, p + i) \notin Digit
         /\ all[0] = 0
         /\ \A k \in 1 .. i :
               /\ p + k - 1 \in 1 .. l /\ t[p + k - 1] \in Digit
               /\ all[k] = 10 * all[k - 1] + DigitValue(t[p + k - 1])
         /\ ParseU32(t, p) = IF i = 0 THEN Error ELSE Ok(p + i, all[i])
  BY U32Recurs
<1>5. \A k \in 1 .. m : At(t, p + k - 1) = w[k] /\ p + k - 1 \in 1 .. l /\ t[p + k - 1] = w[k]
  <2>1. \A k \in 1 .. m : At(t, p + k - 1) = w[k] /\ p + k - 1 \in 1 .. l
    BY HoldsAt
  <2> QED
    BY <2>1 DEF Holds
<1> HIDE DEF l, m
<1>6. i = m
  <2>1. CASE i < m
    <3>1. i + 1 \in 1 .. m /\ p + (i + 1) - 1 = p + i
      BY <1>2, <2>1
    <3>2. At(t, p + i) = w[i + 1]
      BY <1>5, <3>1
    <3> QED
      BY <1>2, <1>4, <3>1, <3>2
  <2>2. CASE i > m
    <3>1. m + 1 \in 1 .. i /\ p + (m + 1) - 1 = p + m
      BY <1>2, <2>2
    <3>2. p + m \in 1 .. l /\ t[p + m] \in Digit
      BY <1>4, <3>1
    <3>3. At(t, p + m) = t[p + m]
      BY <3>2 DEF At, l
    <3> QED
      BY <3>2, <3>3 DEF m
  <2> QED
    BY <1>2, <2>1, <2>2
<1> DEFINE S == {k \in 0 .. m : all[k] = value[k]}
<1>7. value[0] = 0 /\ \A k \in 1 .. m : value[k] = 10 * value[k - 1] + DigitValue(w[k])
  BY <1>3 DEF Values, m
<1>8. 0 \in S
  BY <1>2, <1>4, <1>7
<1>9. ASSUME NEW k \in 1 .. m, k - 1 \in S PROVE k \in S
  <2>1. all[k] = 10 * all[k - 1] + DigitValue(t[p + k - 1]) /\ t[p + k - 1] = w[k] /\ k \in 0 .. m
    BY <1>4, <1>5, <1>6
  <2> QED
    BY <1>7, <1>9, <2>1
<1>10. m \in S
  <2>1. 0 .. m \subseteq S
    <3> HIDE DEF S
    <3> QED
      BY <1>2, <1>8, <1>9, IntervalInduction
  <2> QED
    BY <1>2, <2>1
<1>11. ParseU32(t, p) = Ok(p + m, all[m])
  BY <1>2, <1>4, <1>6
<1> QED
  BY <1>3, <1>10, <1>11 DEF m

(* No digit, no number *)
LEMMA U32None ==
    ASSUME NEW t \in Seq(Token), NEW p \in Place, At(t, p) \notin Digit
    PROVE  ParseU32(t, p) = Error
<1>1. PICK i \in 0 .. Len(t), all \in [0 .. Len(t) -> Nat] :
         /\ \A k \in 1 .. i : p + k - 1 \in 1 .. Len(t) /\ t[p + k - 1] \in Digit
         /\ ParseU32(t, p) = IF i = 0 THEN Error ELSE Ok(p + i, all[i])
  BY U32Recurs
<1>2. SUFFICES ASSUME i # 0 PROVE FALSE
  BY <1>1
<1>3. 1 \in 1 .. i /\ p + 1 - 1 = p
  BY <1>2 DEF Place
<1>4. p \in 1 .. Len(t) /\ t[p] \in Digit
  BY <1>1, <1>3
<1> QED
  BY <1>4 DEF At

(* The braces of a count are not those of a generator, and nothing else is. *)
LEMMA BracesStop ==
    ASSUME NEW t \in Seq(Token), NEW p \in Place, At(t, p) # LeftBrace \/ At(t, p + 1) \in Lower
    PROVE  ParseBraces(t, p).kind # "ok"
<1>1. CASE At(t, p) # LeftBrace
  <2>1. ParseBraces(t, p) = Error
    BY <1>1, Zenon DEF ParseBraces, Delimited, LeftBrace
  <2> QED
    BY <2>1 DEF Error
<1>2. CASE At(t, p) = LeftBrace /\ At(t, p + 1) \in Lower
  <2>1. p + 1 \in Place
    BY DEF Place
  <2>2. At(t, p + 1) \notin Digit /\ At(t, p + 1) # ","
    <3>1. "," \notin Alphanumeric /\ \A c \in Lower : c \in Alphanumeric /\ c \notin Digit
      BY TokensAreNot
    <3> QED
      BY <1>2, <3>1
  <2>3. ParseU32(t, p + 1) = Error
    BY <2>1, <2>2, U32None
  <2>4. ParseHighest(t, Ok(p + 1, 0)) = Error
    <3>1. Ok(p + 1, 0).rest = p + 1
      BY DEF Ok
    <3> QED
      BY <2>2, <3>1 DEF ParseHighest
  <2>5. ParseHighest(t, Error) = Error
    BY DEF ParseHighest, Error
  <2>6. Mapped(ParseU32(t, p + 1), LAMBDA n : <<n, n>>) = Error
    BY <2>3 DEF Mapped, Error
  <2>7. ParseBounds(t, p + 1) = Error
    BY <2>3, <2>4, <2>5, <2>6 DEF ParseBounds, Or, Error
  <2>8. Error.kind # "ok"
    BY DEF Error
  <2>9. ParseBraces(t, p) = Error
    BY <1>2, <2>7, <2>8, Zenon DEF ParseBraces, Delimited, LeftBrace
  <2> QED
    BY <2>8, <2>9
<1> QED
  BY <1>1, <1>2

(* A number and what comes after it, within a text *)
LEMMA NumberHeld ==
    ASSUME NEW t \in Seq(Token), NEW p \in Place, NEW n \in Nat, Holds(t, p, Decimal(n)),
           At(t, p + Len(Decimal(n))) \notin Digit
    PROVE  ParseU32(t, p) = Ok(p + Len(Decimal(n)), n) /\ At(t, p) \in Digit
<1>1. Tells(Decimal(n), n) /\ Decimal(n) \in Seq(Token)
  BY DecimalIs
<1>2. Decimal(n) \in Seq(Digit) /\ Decimal(n) # <<>>
  BY <1>1 DEF Tells
<1>3. ParseU32(t, p) = Ok(p + Len(Decimal(n)), n)
  BY <1>1, U32Reads
<1> DEFINE w == Decimal(n)
<1>4. At(t, p) = w[1]
  BY <1>1, <1>2, HoldsFirst
<1>5. w[1] \in Digit
  <2>1. w \in Seq(Digit) /\ w # <<>>
    BY <1>2
  <2> HIDE DEF w
  <2>2. 1 \in 1 .. Len(w)
    BY <2>1, SeqNotEmpty
  <2> QED
    BY <2>1, <2>2, SeqNotEmpty
<1> QED
  BY <1>3, <1>4, <1>5

(* The three ways to write bounds *)
HighestText(max) == <<",">> \o Decimal(max)

BoundsText(min, max) ==
    IF min = max THEN Decimal(min)
    ELSE IF min = 0 THEN HighestText(max)
    ELSE Decimal(min) \o HighestText(max)

LEMMA BoundsTextIs ==
    ASSUME NEW min \in Nat, NEW max \in Nat, min <= max
    PROVE  /\ BoundsText(min, max) \in Seq(Token)
           /\ WriteBounds(min, max) = <<LeftBrace>> \o BoundsText(min, max) \o <<RightBrace>>
<1> DEFINE lo == Decimal(min)
           hi == Decimal(max)
           comma == <<",">>
           open == <<LeftBrace>>
           u == IF min # 0 \/ max = 0 THEN lo ELSE <<>>
           v == IF max # min THEN comma \o hi ELSE <<>>
<1>1. lo \in Seq(Token) /\ hi \in Seq(Token)
  BY DecimalIs
<1>2. comma \in Seq(Token)
  <2>1. "," \in Token
    BY SyntaxIs
  <2> QED
    BY <2>1, SingleToken
<1>3. open \in Seq(Token)
  <2>1. LeftBrace \in Token
    BY SyntaxIs, Zenon DEF LeftBrace
  <2> QED
    BY <2>1, SingleToken, Zenon
<1>4. WriteBounds(min, max) = ((open \o u) \o v) \o <<RightBrace>>
  BY Zenon DEF WriteBounds, LeftBrace, RightBrace
<1>5. comma \o hi \in Seq(Token)
  BY <1>1, <1>2, JoinIs, Zenon
<1> DEFINE next == comma \o hi
           text == BoundsText(min, max)
<1>6. text = IF min = max THEN lo ELSE IF min = 0 THEN next ELSE lo \o next
  BY DEF BoundsText, HighestText
<1> HIDE DEF lo, hi, comma, open, next, text
<1>7. CASE min = max
  <2>1. u = lo /\ v = <<>> /\ text = lo
    BY <1>6, <1>7
  <2>2. open \o lo \in Seq(Token) /\ (open \o lo) \o <<>> = open \o lo
    <3> DEFINE B == Token
    <3>1. open \in Seq(B) /\ lo \in Seq(B)
      BY <1>1, <1>3
    <3> HIDE DEF B
    <3>2. open \o lo \in Seq(B) /\ (open \o lo) \o <<>> = open \o lo
      BY ONLY <3>1
    <3> QED
      BY <3>2 DEF B
  <2>3. WriteBounds(min, max) = (open \o text) \o <<RightBrace>>
    BY <1>4, <2>1, <2>2, Zenon
  <2> QED
    BY <1>1, <2>1, <2>3, Zenon DEF open, text
<1>8. CASE min # max /\ min = 0
  <2>1. u = <<>> /\ v = next /\ text = next
    BY <1>6, <1>8 DEF next
  <2>2. open \o <<>> = open
    <3> DEFINE B == Token
    <3>1. open \in Seq(B)
      BY <1>3
    <3> HIDE DEF B
    <3> QED
      BY ONLY <3>1
  <2>3. WriteBounds(min, max) = (open \o text) \o <<RightBrace>>
    BY <1>4, <2>1, <2>2, Zenon
  <2> QED
    BY <1>5, <2>1, <2>3, Zenon DEF open, text, next
<1>9. CASE min # max /\ min # 0
  <2>1. u = lo /\ v = next /\ text = lo \o next
    BY <1>6, <1>9 DEF next
  <2>2. (open \o lo) \o next = open \o (lo \o next) /\ lo \o next \in Seq(Token)
    <3> DEFINE B == Token
    <3>1. open \in Seq(B) /\ lo \in Seq(B) /\ next \in Seq(B)
      BY <1>1, <1>3, <1>5 DEF next
    <3> HIDE DEF B
    <3>2. (open \o lo) \o next = open \o (lo \o next) /\ lo \o next \in Seq(B)
      BY ONLY <3>1
    <3> QED
      BY <3>2 DEF B
  <2>3. WriteBounds(min, max) = (open \o text) \o <<RightBrace>>
    BY <1>4, <2>1, <2>2, Zenon
  <2> QED
    BY <2>1, <2>2, <2>3, Zenon DEF open, text
<1> QED
  BY <1>7, <1>8, <1>9
LEMMA BracesAre ==
    /\ LeftBrace \in Syntax /\ RightBrace \in Syntax /\ LeftBrace # "\\" /\ RightBrace # "\\"
    /\ LeftBrace # RightBrace /\ RightBrace # "," /\ LeftBrace # "]" /\ RightBrace # "]"
    /\ LeftBrace \notin {"[", "(", ")"} /\ RightBrace \notin {"[", "(", ")"}
BY Zenon DEF LeftBrace, RightBrace, Syntax

(* The highest bound after its comma *)
HighestHeld(t, q, max) ==
    Holds(t, q, HighestText(max)) /\ At(t, q + Len(HighestText(max))) \notin Digit

HighestRead(t, q, min, max) ==
    /\ At(t, q) \notin Digit
    /\ ParseHighest(t, Ok(q, min)) = Ok(q + Len(HighestText(max)), <<min, max>>)

LEMMA HighestReads ==
    ASSUME NEW t \in Seq(Token), NEW q \in Place, NEW min \in Nat, NEW max \in Nat,
           HighestHeld(t, q, max)
    PROVE  HighestRead(t, q, min, max)
<1> DEFINE comma == <<",">>
           hi == Decimal(max)
           end == q + Len(HighestText(max))
<1>0. HighestText(max) = comma \o hi
  BY DEF HighestText
<1>1. hi \in Seq(Token) /\ "," \in Token /\ "," \notin Digit
  <2>1. "," \in Token
    BY SyntaxIs
  <2>2. "," \notin Digit
    BY TokensAreNot
  <2> QED
    BY <2>1, <2>2, DecimalIs
<1>2. comma \in Seq(Token) /\ comma # <<>> /\ Len(comma) = 1 /\ comma[1] = ","
  BY <1>1, SingleToken
<1> HIDE DEF comma, hi
<1>3. /\ Holds(t, q, comma) /\ Holds(t, q + Len(comma), hi) /\ q + Len(comma) \in Place
      /\ q + Len(comma \o hi) = (q + Len(comma)) + Len(hi)
  <2>1. comma \in Seq(Token) /\ hi \in Seq(Token)
    BY <1>1, <1>2
  <2>2. Holds(t, q, comma \o hi)
    BY <1>0 DEF HighestHeld
  <2>3. q \in Place
    OBVIOUS
  <2> QED
    BY ONLY <2>1, <2>2, <2>3, HoldsBoth
<1>4. q + 1 \in Place /\ Holds(t, q + 1, hi) /\ end = (q + 1) + Len(hi)
  BY <1>0, <1>2, <1>3
<1>5. At(t, q) = ","
  BY <1>2, <1>3, HoldsFirst
<1>6. At(t, end) \notin Digit
  BY DEF HighestHeld
<1> HIDE DEF end
<1>7. ParseU32(t, q + 1) = Ok(end, max)
  <2>1. At(t, (q + 1) + Len(hi)) \notin Digit
    BY <1>4, <1>6
  <2>2. ParseU32(t, q + 1) = Ok((q + 1) + Len(hi), max)
    BY <1>4, <2>1, NumberHeld DEF hi
  <2> QED
    BY <1>4, <2>2
<1>8. ParseHighest(t, Ok(q, min)) = Ok(end, <<min, max>>)
  <2> DEFINE r == ParseU32(t, q + 1)
             lowest == Ok(q, min)
  <2>1. lowest.kind = "ok" /\ lowest.rest = q /\ lowest.value = min
    BY DEF Ok
  <2>2. r.kind = "ok" /\ r.rest = end /\ r.value = max
    <3>1. Ok(end, max).kind = "ok" /\ Ok(end, max).rest = end /\ Ok(end, max).value = max
      BY DEF Ok
    <3> QED
      BY <1>7, <3>1, Zenon
  <2> HIDE DEF lowest
  <2>3. ParseHighest(t, lowest) = Mapped(ParseU32(t, lowest.rest + 1), LAMBDA n : <<lowest.value, n>>)
    BY <1>5, <2>1 DEF ParseHighest
  <2>4. ParseHighest(t, lowest) = IF r.kind = "ok" THEN Ok(r.rest, <<lowest.value, r.value>>) ELSE r
    BY <2>1, <2>3 DEF Mapped
  <2> QED
    BY <2>1, <2>2, <2>4 DEF lowest
<1> QED
  BY <1>1, <1>5, <1>8 DEF end, HighestRead

LEMMA BoundsTextReads ==
    ASSUME NEW t \in Seq(Token), NEW p \in Place, NEW min \in Nat, NEW max \in Nat, min <= max,
           Holds(t, p, BoundsText(min, max)), At(t, p + Len(BoundsText(min, max))) = RightBrace
    PROVE  ParseBounds(t, p) = Ok(p + Len(BoundsText(min, max)), <<min, max>>)
<1> DEFINE text == BoundsText(min, max)
           end == p + Len(text)
           r == ParseU32(t, p)
           lo == Decimal(min)
           next == HighestText(max)
<1>1. RightBrace \notin Digit /\ RightBrace # ","
  <2>1. RightBrace \notin Alphanumeric
    BY BracesAre, TokensAreNot
  <2>2. \A c \in Digit : c \in Alphanumeric
    BY TokensAreNot
  <2> QED
    BY <2>1, <2>2, BracesAre
<1>2. ParseBounds(t, p) = Or(ParseHighest(t, r), Or(Mapped(r, LAMBDA n : <<n, n>>), ParseHighest(t, Ok(p, 0))))
  BY DEF ParseBounds
<1>3. lo \in Seq(Token) /\ next \in Seq(Token)
  <2>1. lo \in Seq(Token) /\ Decimal(max) \in Seq(Token) /\ "," \in Token
    BY DecimalIs, SyntaxIs
  <2>2. <<",">> \in Seq(Token)
    BY <2>1, SingleToken
  <2> QED
    BY <2>1, <2>2, JoinIs, Zenon DEF HighestText
<1>4. text = IF min = max THEN lo ELSE IF min = 0 THEN next ELSE lo \o next
  BY DEF BoundsText, HighestText
<1>5. Holds(t, p, text) /\ At(t, end) = RightBrace
  OBVIOUS
<1>0. /\ \A q, v : Ok(q, v).kind = "ok" /\ Ok(q, v).rest = q /\ Ok(q, v).value = v
      /\ Error.kind = "error"
  BY DEF Ok, Error
<1> HIDE DEF r, text
<1>6. CASE min = max
  <2>1. text = lo /\ At(t, end) \notin Digit
    BY <1>1, <1>4, <1>5, <1>6
  <2>2. Holds(t, p, Decimal(min)) /\ At(t, p + Len(Decimal(min))) \notin Digit
    BY <1>5, <2>1
  <2>3. r = Ok(end, min)
    <3>1. ParseU32(t, p) = Ok(p + Len(Decimal(min)), min)
      BY <2>2, NumberHeld
    <3> QED
      BY <2>1, <3>1 DEF r
  <2> HIDE DEF end
  <2>4. ParseHighest(t, r) = Error
    <3>1. r.rest = end /\ At(t, end) # ","
      BY <1>0, <1>1, <1>5, <2>3
    <3>2. ~ (r.kind = "ok" /\ At(t, r.rest) = ",")
      BY <3>1, Zenon
    <3> QED
      BY <3>2, Zenon DEF ParseHighest
  <2>5. Mapped(r, LAMBDA n : <<n, n>>) = Ok(end, <<min, min>>)
    BY <1>0, <2>3 DEF Mapped
  <2>6. ParseBounds(t, p) = Ok(end, <<min, min>>)
    BY <1>0, <1>2, <2>4, <2>5 DEF Or
  <2> QED
    BY <1>6, <2>6 DEF end, text
<1>7. CASE min # max /\ min = 0
  <2>1. text = next
    BY <1>4, <1>7
  <2>2. HighestHeld(t, p, max)
    BY <1>1, <1>5, <2>1 DEF HighestHeld
  <2>3. /\ At(t, p) \notin Digit
        /\ ParseHighest(t, Ok(p, 0)) = Ok(p + Len(HighestText(max)), <<0, max>>)
    <3>1. HighestRead(t, p, 0, max)
      BY <2>2, HighestReads
    <3> QED
      BY <3>1, Zenon DEF HighestRead
  <2>4. ParseHighest(t, Ok(p, 0)) = Ok(end, <<min, max>>)
    BY <1>7, <2>1, <2>3
  <2>5. r = Error
    BY <2>3, U32None DEF r
  <2> HIDE DEF end
  <2>6. ParseHighest(t, r) = Error
    BY <1>0, <2>5 DEF ParseHighest
  <2>7. Mapped(r, LAMBDA n : <<n, n>>) = Error
    BY <1>0, <2>5 DEF Mapped
  <2>8. ParseBounds(t, p) = Ok(end, <<min, max>>)
    BY <1>0, <1>2, <2>4, <2>6, <2>7 DEF Or
  <2> QED
    BY <2>8 DEF end, text
<1>8. CASE min # max /\ min # 0
  <2> DEFINE q == p + Len(lo)
  <2>1. text = lo \o next
    BY <1>4, <1>8
  <2> HIDE DEF lo, next
  <2>2. /\ Holds(t, p, lo) /\ Holds(t, q, next) /\ q \in Place /\ end = q + Len(next)
    <3>1. Holds(t, p, lo \o next) /\ lo \in Seq(Token) /\ next \in Seq(Token)
      BY <1>3, <1>5, <2>1
    <3>2. Holds(t, p, lo) /\ Holds(t, q, next) /\ q \in Place /\ p + Len(lo \o next) = q + Len(next)
      BY <3>1, HoldsBoth
    <3> QED
      BY <2>1, <3>2
  <2>3. HighestHeld(t, q, max)
    BY <1>1, <1>5, <2>2 DEF next, HighestHeld
  <2> HIDE DEF q
  <2>4. /\ At(t, q) \notin Digit
        /\ ParseHighest(t, Ok(q, min)) = Ok(q + Len(HighestText(max)), <<min, max>>)
    <3>1. HighestRead(t, q, min, max)
      BY <2>2, <2>3, HighestReads
    <3> QED
      BY <3>1, Zenon DEF HighestRead
  <2>5. ParseHighest(t, Ok(q, min)) = Ok(end, <<min, max>>)
    BY <2>2, <2>4 DEF next
  <2>6. Holds(t, p, Decimal(min)) /\ At(t, p + Len(Decimal(min))) \notin Digit
    BY <2>2, <2>4 DEF lo, q
  <2>7. r = Ok(q, min)
    <3>1. ParseU32(t, p) = Ok(p + Len(Decimal(min)), min)
      BY <2>6, NumberHeld
    <3> QED
      BY <3>1 DEF r, q, lo
  <2> HIDE DEF end
  <2>8. ParseBounds(t, p) = Ok(end, <<min, max>>)
    <3>1. ParseHighest(t, r) = Ok(end, <<min, max>>)
      BY <2>5, <2>7
    <3>2. ParseHighest(t, r).kind # "error"
      BY <1>0, <3>1
    <3> QED
      BY <1>2, <3>1, <3>2 DEF Or
  <2> QED
    BY <2>8 DEF end, text
<1> QED
  BY <1>6, <1>7, <1>8

(* The bounds of a count are read as they are written. *)
LEMMA BoundsRead ==
    ASSUME NEW t \in Seq(Token), NEW p \in 1 .. Len(t) + 1, NEW min \in Nat, NEW max \in Nat, min <= max,
           Holds(t, p, WriteBounds(min, max))
    PROVE  /\ At(t, p) = LeftBrace
           /\ ParseBraces(t, p) = Ok(p + Len(WriteBounds(min, max)), <<min, max>>)
<1> DEFINE text == BoundsText(min, max)
           end == (p + 1) + Len(text)
<1>1. text \in Seq(Token) /\ WriteBounds(min, max) = <<LeftBrace>> \o text \o <<RightBrace>>
  BY BoundsTextIs
<1>2. LeftBrace \in Token /\ RightBrace \in Token
  BY BracesAre, TokensAreNot
<1> HIDE DEF text
<1>3. /\ At(t, p) = LeftBrace /\ p \in 1 .. Len(t) /\ p + 1 \in 1 .. Len(t) + 1
      /\ Holds(t, p + 1, text) /\ At(t, end) = RightBrace
      /\ p + Len(<<LeftBrace>> \o text \o <<RightBrace>>) = end + 1
  <2>1. Holds(t, p, <<LeftBrace>> \o text \o <<RightBrace>>) /\ text \in Seq(Token)
    BY <1>1
  <2> QED
    BY <1>2, <2>1, BracketsHold
<1>4. p + 1 \in Place
  BY <1>3 DEF Place
<1>5. ParseBounds(t, p + 1) = Ok(end, <<min, max>>)
  BY <1>3, <1>4, BoundsTextReads DEF text
<1> HIDE DEF end
<1>6. ParseBraces(t, p) = Ok(end + 1, <<min, max>>)
  <2>1. ParseBraces(t, p) = Delimited(t, p, LeftBrace, ParseBounds(t, p + 1), RightBrace)
    BY Zenon DEF ParseBraces, LeftBrace, RightBrace
  <2> QED
    BY <1>3, <1>5, <2>1, DelimitedOk
<1> QED
  BY <1>1, <1>3, <1>6
-----------------------------------------------------------------------------
(* Classes are read as they are written. *)

LeftBracket == "["
RightBracket == "]"

LEMMA BracketsAre ==
    /\ LeftBracket \in Syntax /\ RightBracket \in Syntax /\ LeftBracket # "\\" /\ RightBracket # "\\"
    /\ LeftBracket # RightBracket /\ RightBracket # "-" /\ RightBracket # ":" /\ RightBracket # LeftBrace
    /\ LeftBracket \notin {"(", ")"} /\ RightBracket \notin {"(", ")"} /\ LeftBracket # LeftBrace
    /\ RightBracket # "w" /\ RightBracket # "d" /\ "\\" # "w" /\ "\\" # "d" /\ "\\" # "-" /\ "x" # "w" /\ "x" # "d"
BY Zenon DEF LeftBracket, RightBracket, Syntax, LeftBrace

(* A character of a class is written as a text, *)
LEMMA ClassEscapeIs ==
    ASSUME NEW k \in DOMAIN Order
    PROVE  /\ WriteEscape(k) \in Seq(Token) /\ WriteEscape(k) # <<>>
           /\ k # Code("-") => WriteEscape(k)[1] # "-"
           /\ k = Code("-") => WriteEscape(k) = <<"-">>
           /\ \A i \in 1 .. Len(WriteEscape(k)) : WriteEscape(k)[i] \notin Names
<1> DEFINE c == Order[k]
           u == WriteEscape(k)
           x == HexOf[Tab]
<1>1. /\ c \in Token /\ c \in Character /\ c \notin Names
      /\ "\\" \in Token /\ "\\" \notin Names /\ "x" \in Token /\ "x" \notin Names /\ x \in Token /\ x \notin Names
  <2>1. c \in Character
    BY DEF Character, ToSet
  <2>2. \A d \in Names : d \notin Character
    BY TokensAreNot
  <2>3. "\\" \in Character /\ "\\" \in Token
    BY SyntaxIs
  <2>4. "x" \in Token /\ x \in Token /\ x \notin Names
    BY TokensAreNot
  <2>5. "x" \in Character
    BY LetterAssumption
  <2> QED
    BY <2>1, <2>2, <2>3, <2>4, <2>5, TokensAre
<1>2. "-" \in Character /\ "-" # Tab
  BY SyntaxIs, TokensAreNot
<1>3. c = "-" <=> k = Code("-")
  <2>1. Code("-") \in DOMAIN Order /\ Order[Code("-")] = "-"
    BY <1>2, CodeIs
  <2>2. \A i, j \in DOMAIN Order : Order[i] = Order[j] => i = j
    BY OrderAssumption DEF IsInjective
  <2> QED
    BY <2>1, <2>2
<1> HIDE DEF c, x
<1>4. CASE c \in {RightBracket, "\\"}
  <2>0. c # Tab
    <3>1. "\\" \in Syntax
      BY DEF Syntax
    <3> QED
      BY <1>4, <3>1, BracketsAre, TokensAreNot
  <2>1. u = <<"\\", c>>
    BY <1>4, <2>0, Zenon DEF WriteEscape, c, RightBracket
  <2>2. c # "-"
    BY <1>4, BracketsAre
  <2> HIDE DEF u
  <2>3. u \in Seq(Token) /\ u # <<>> /\ u[1] = "\\" /\ Len(u) = 2 /\ u[2] = c
    BY <1>1, <2>1
  <2>4. u[1] # "-" /\ \A i \in 1 .. Len(u) : u[i] \notin Names
    BY <1>1, <2>3, BracketsAre
  <2> QED
    BY <1>3, <2>2, <2>3, <2>4 DEF u
<1>5. CASE c \notin {RightBracket, "\\"} /\ c = Tab
  <2>1. u = <<"\\", "x", x>>
    BY <1>5, Zenon DEF WriteEscape, c, RightBracket, x
  <2>2. c # "-"
    BY <1>2, <1>5
  <2> HIDE DEF u
  <2>3. u \in Seq(Token) /\ u # <<>> /\ u[1] = "\\" /\ Len(u) = 3 /\ u[2] = "x" /\ u[3] = x
    BY <1>1, <2>1
  <2>4. u[1] # "-" /\ \A i \in 1 .. Len(u) : u[i] \notin Names
    BY <1>1, <2>3, BracketsAre
  <2> QED
    BY <1>3, <2>2, <2>3, <2>4 DEF u
<1>6. CASE c \notin {RightBracket, "\\"} /\ c # Tab
  <2>1. u = <<c>>
    BY <1>6, Zenon DEF WriteEscape, c, RightBracket
  <2> HIDE DEF u
  <2>3. u \in Seq(Token) /\ u # <<>> /\ u[1] = c /\ Len(u) = 1
    BY <1>1, <2>1
  <2>4. \A i \in 1 .. Len(u) : u[i] \notin Names
    BY <1>1, <2>3
  <2> QED
    BY <1>3, <2>1, <2>3, <2>4 DEF u
<1> QED
  BY <1>4, <1>5, <1>6

(* and read as it is written. *)
LEMMA SingleReads ==
    ASSUME NEW t \in Seq(Token), NEW p \in 1 .. Len(t) + 1, NEW k \in DOMAIN Order, Holds(t, p, WriteEscape(k))
    PROVE  /\ ParseCharsSingle(t, p) = Ok(p + Len(WriteEscape(k)), Order[k])
           /\ ParseCharsSpecial(t, p) = Error
<1> DEFINE c == Order[k]
           u == WriteEscape(k)
           except == {"\\", RightBracket} \cup (Token \ Character)
           v == Verbatim(t, p, except)
           e == ParseLiteralEscaped(t, p)
<1>1. ParseCharsSingle(t, p) = Or(v, e)
  BY Zenon DEF ParseCharsSingle, RightBracket
<1>2. p \in Place /\ c \in Character /\ c \in Token /\ p \in Nat
  <2>1. c \in Character
    BY DEF Character, ToSet
  <2>2. c \in Token
    BY <2>1, TokensAre
  <2>3. p \in Place /\ p \in Nat
    BY DEF Place
  <2> QED
    BY <2>1, <2>2, <2>3
<1>3. \A q, x : Ok(q, x).kind # "error"
  BY DEF Ok
<1>4. Error.kind = "error"
  BY DEF Error
<1>5. ASSUME At(t, p) = "\\", NEW d, At(t, p + 1) = d, d # "w", d # "d"
      PROVE  ParseCharsSpecial(t, p) = Error
  <2>1. DOMAIN <<"\\", "w">> = {1, 2} /\ <<"\\", "w">>[2] = "w" /\ DOMAIN <<"\\", "d">> = {1, 2} /\ <<"\\", "d">>[2] = "d"
    OBVIOUS
  <2>2. p + 2 - 1 = p + 1
    BY <1>2
  <2>3. ~ StartsWith(t, p, <<"\\", "w">>) /\ ~ StartsWith(t, p, <<"\\", "d">>)
    BY <1>5, <2>1, <2>2 DEF StartsWith
  <2> QED
    BY <2>3, Zenon DEF ParseCharsSpecial
<1>6. ASSUME At(t, p) # "\\"
      PROVE  ParseCharsSpecial(t, p) = Error
  <2>1. DOMAIN <<"\\", "w">> = {1, 2} /\ <<"\\", "w">>[1] = "\\" /\ DOMAIN <<"\\", "d">> = {1, 2} /\ <<"\\", "d">>[1] = "\\"
    OBVIOUS
  <2>2. p + 1 - 1 = p
    BY <1>2
  <2>3. ~ StartsWith(t, p, <<"\\", "w">>) /\ ~ StartsWith(t, p, <<"\\", "d">>)
    BY <1>6, <2>1, <2>2 DEF StartsWith
  <2> QED
    BY <2>3, Zenon DEF ParseCharsSpecial
<1> HIDE DEF c, v, e, except
<1>7. ASSUME At(t, p) = "\\" PROVE v = Error
  BY <1>7, Zenon DEF v, Verbatim, except
<1>8. CASE c \in {RightBracket, "\\"}
  <2>1. u = <<"\\", c>> /\ c # Tab /\ c \in Syntax
    <3>1. "\\" \in Syntax
      BY DEF Syntax
    <3>2. c \in Syntax
      BY <1>8, <3>1, BracketsAre
    <3> QED
      BY <1>8, <3>2, TokensAreNot, Zenon DEF WriteEscape, c, RightBracket
  <2>2. Holds(t, p, u)
    OBVIOUS
  <2> HIDE DEF u
  <2>3. At(t, p) = "\\" /\ e = Ok(p + 2, c)
    <3>1. Holds(t, p, IF c = Tab THEN <<"\\", "x", HexOf[Tab]>> ELSE <<"\\", c>>)
      BY <2>1, <2>2
    <3>2. At(t, p) = "\\" /\ ParseLiteralEscaped(t, p) = Ok(p + (IF c = Tab THEN 3 ELSE 2), c)
      BY <1>2, <2>1, <3>1, EscapedReads
    <3> QED
      BY <2>1, <3>2 DEF e
  <2>4. Len(u) = 2 /\ u[2] = c /\ 2 \in 1 .. 2 /\ p + 2 - 1 = p + 1
    BY <1>2, <2>1
  <2>5. At(t, p + 1) = c
    BY <1>2, <2>2, <2>4, HoldsAt
  <2>6. c # "w" /\ c # "d"
    BY <1>8, BracketsAre
  <2>7. Or(v, e) = Ok(p + 2, c)
    BY <1>4, <1>7, <2>3 DEF Or
  <2> QED
    BY <1>1, <1>5, <2>3, <2>4, <2>5, <2>6, <2>7 DEF c, u
<1>9. CASE c \notin {RightBracket, "\\"} /\ c = Tab
  <2>1. u = <<"\\", "x", HexOf[Tab]>>
    BY <1>9, Zenon DEF WriteEscape, c, RightBracket
  <2>2. Holds(t, p, u)
    OBVIOUS
  <2> HIDE DEF u
  <2>3. At(t, p) = "\\" /\ e = Ok(p + 3, c)
    <3>1. Holds(t, p, IF c = Tab THEN <<"\\", "x", HexOf[Tab]>> ELSE <<"\\", c>>)
      BY <1>9, <2>1, <2>2
    <3>2. At(t, p) = "\\" /\ ParseLiteralEscaped(t, p) = Ok(p + (IF c = Tab THEN 3 ELSE 2), c)
      BY <1>2, <1>9, <3>1, EscapedReads
    <3> QED
      BY <1>9, <3>2 DEF e
  <2>4. Len(u) = 3 /\ u[2] = "x" /\ 2 \in 1 .. 3 /\ p + 2 - 1 = p + 1
    BY <1>2, <2>1
  <2>5. At(t, p + 1) = "x"
    BY <1>2, <2>2, <2>4, HoldsAt
  <2>7. Or(v, e) = Ok(p + 3, c)
    BY <1>4, <1>7, <2>3 DEF Or
  <2> QED
    BY <1>1, <1>5, <2>3, <2>4, <2>5, <2>7, BracketsAre DEF c, u
<1>10. CASE c \notin {RightBracket, "\\"} /\ c # Tab
  <2>1. u = <<c>>
    BY <1>10, Zenon DEF WriteEscape, c, RightBracket
  <2>2. Holds(t, p, u)
    OBVIOUS
  <2> HIDE DEF u
  <2>3. u \in Seq(Token) /\ u # <<>> /\ u[1] = c /\ Len(u) = 1
    BY <1>2, <2>1
  <2>4. At(t, p) = c /\ t[p] = c
    BY <1>2, <2>2, <2>3, HoldsFirst, AtIs
  <2>5. c \notin except \cup {NoToken}
    <3>1. NoToken \notin Token
      BY TokensAreNot
    <3> QED
      BY <1>2, <1>10, <3>1 DEF except
  <2>6. v = Ok(p + 1, c)
    BY <2>4, <2>5 DEF v, Verbatim
  <2>7. Or(v, e) = Ok(p + 1, c)
    BY <1>3, <2>6 DEF Or
  <2>8. At(t, p) # "\\"
    BY <1>10, <2>4
  <2> QED
    BY <1>1, <1>6, <2>3, <2>7, <2>8 DEF c, u
<1> QED
  BY <1>8, <1>9, <1>10
ClassFragments(t, from) == [q \in Onward(t, from) |-> ParseCharsFragment(t, q)]

(* Up to the bracket at end there is no token of more than one character    *)
(* that has a meaning.                                                      *)
InClass(t, from, end) ==
    /\ from \in 1 .. Len(t) + 1 /\ end \in from .. Len(t) /\ At(t, end) = RightBracket
    /\ \A x \in from .. end : At(t, x) \notin Names

(* The pieces of a class that lie from one place to another gather codes. *)
Gathers(t, from, p, C, q) ==
    \E v \in Seq(CodeSets) : Path(ClassFragments(t, from), p, v, q) /\ UNION ToSet(v) = C

LEMMA GathersNone ==
    ASSUME NEW t \in Seq(Token), NEW from \in 1 .. Len(t) + 1, NEW p \in from .. Len(t) + 1
    PROVE  Gathers(t, from, p, {}, p)
<1>1. p \in DOMAIN ClassFragments(t, from)
  BY DEF ClassFragments, Onward
<1>2. Path(ClassFragments(t, from), p, <<>>, p)
  BY <1>1, PathNone
<1>3. <<>> \in Seq(CodeSets) /\ UNION ToSet(<<>>) = {}
  BY DEF ToSet
<1> QED
  BY <1>2, <1>3 DEF Gathers

LEMMA GathersOne ==
    ASSUME NEW t \in Seq(Token), NEW from \in 1 .. Len(t) + 1,
           NEW p \in from .. Len(t) + 1, NEW q \in from .. Len(t) + 1,
           NEW C \in CodeSets, ParseCharsFragment(t, p) = Ok(q, C)
    PROVE  Gathers(t, from, p, C, q)
<1> DEFINE single == ClassFragments(t, from)
           v == <<C>>
<1>1. p \in DOMAIN single /\ q \in DOMAIN single /\ single[p] = Ok(q, C)
  BY DEF ClassFragments, Onward
<1> HIDE DEF single
<1>2. Path(single, p, v, q)
  BY <1>1, PathOne
<1>3. v \in Seq(CodeSets) /\ DOMAIN v = {1} /\ v[1] = C
  OBVIOUS
<1> HIDE DEF v
<1>4. UNION ToSet(v) = C
  BY <1>3 DEF ToSet
<1> QED
  BY <1>2, <1>3, <1>4 DEF Gathers, single

LEMMA SetsOfBoth ==
    ASSUME NEW B, NEW u \in Seq(B), NEW v \in Seq(B)
    PROVE  UNION ToSet(u \o v) = (UNION ToSet(u)) \cup (UNION ToSet(v))
<1> DEFINE w == u \o v
           m == Len(u)
           n == Len(v)
<1>1. /\ m \in Nat /\ n \in Nat /\ DOMAIN w = 1 .. m + n /\ DOMAIN u = 1 .. m /\ DOMAIN v = 1 .. n
      /\ \A x \in 1 .. m : w[x] = u[x]
      /\ \A x \in 1 .. n : w[m + x] = v[x]
  OBVIOUS
<1> HIDE DEF w, m, n
<1>2. ToSet(w) = ToSet(u) \cup ToSet(v)
  <2>1. \A x \in 1 .. m : x \in 1 .. m + n
    BY <1>1
  <2>2. \A x \in 1 .. n : m + x \in 1 .. m + n
    BY <1>1
  <2>3. \A x \in 1 .. m + n : x \in 1 .. m \/ (x - m \in 1 .. n /\ m + (x - m) = x)
    BY <1>1
  <2>4. ASSUME NEW x \in 1 .. m + n
        PROVE  w[x] \in ToSet(u) \cup ToSet(v)
    <3>1. CASE x \in 1 .. m
      BY <1>1, <3>1 DEF ToSet
    <3>2. CASE x - m \in 1 .. n /\ m + (x - m) = x
      <4>1. w[x] = v[x - m]
        BY <1>1, <3>2
      <4> QED
        BY <1>1, <3>2, <4>1 DEF ToSet
    <3> QED
      BY <2>3, <3>1, <3>2
  <2>5. ToSet(w) \subseteq ToSet(u) \cup ToSet(v)
    BY <1>1, <2>4 DEF ToSet
  <2>6. ASSUME NEW x \in 1 .. m PROVE u[x] \in ToSet(w)
    BY <1>1, <2>1 DEF ToSet
  <2>7. ASSUME NEW x \in 1 .. n PROVE v[x] \in ToSet(w)
    BY <1>1, <2>2 DEF ToSet
  <2>8. ToSet(u) \subseteq ToSet(w) /\ ToSet(v) \subseteq ToSet(w)
    BY <1>1, <2>6, <2>7 DEF ToSet
  <2> QED
    BY <2>5, <2>8
<1> DEFINE C == ToSet(u)
           D == ToSet(v)
<1>3. ToSet(w) = C \cup D
  BY <1>2
<1> HIDE DEF C, D
<1>4. UNION (C \cup D) = (UNION C) \cup (UNION D)
  OBVIOUS
<1>5. UNION ToSet(w) = (UNION C) \cup (UNION D)
  BY <1>3, <1>4
<1> QED
  BY <1>5 DEF C, D, w

LEMMA GathersBoth ==
    ASSUME NEW t, NEW from, NEW p, NEW q, NEW r, NEW C, NEW D,
           Gathers(t, from, p, C, q), Gathers(t, from, q, D, r)
    PROVE  Gathers(t, from, p, C \cup D, r)
<1> DEFINE single == ClassFragments(t, from)
<1>1. PICK u \in Seq(CodeSets) : Path(single, p, u, q) /\ UNION ToSet(u) = C
  BY DEF Gathers
<1>2. PICK v \in Seq(CodeSets) : Path(single, q, v, r) /\ UNION ToSet(v) = D
  BY DEF Gathers
<1>3. u \o v \in Seq(CodeSets)
  <2> DEFINE B == CodeSets
  <2>1. u \in Seq(B) /\ v \in Seq(B)
    OBVIOUS
  <2> HIDE DEF B
  <2> QED
    BY <2>1, JoinIs DEF B
<1> HIDE DEF single
<1>4. Path(single, p, u \o v, r)
  BY <1>1, <1>2, PathOn
<1>5. UNION ToSet(u \o v) = C \cup D
  <2> DEFINE B == CodeSets
  <2>1. u \in Seq(B) /\ v \in Seq(B)
    OBVIOUS
  <2> HIDE DEF B
  <2>2. UNION ToSet(u \o v) = (UNION ToSet(u)) \cup (UNION ToSet(v))
    BY <2>1, SetsOfBoth
  <2> QED
    BY <1>1, <1>2, <2>2, Zenon
<1> QED
  BY <1>3, <1>4, <1>5 DEF Gathers, single

(* A piece of a class that begins with a character *)
LEMMA FragmentIs ==
    ASSUME NEW t \in Seq(Token), NEW from, NEW end, InClass(t, from, end), NEW p \in from .. end - 1,
           NEW k \in DOMAIN Order, Holds(t, p, WriteEscape(k))
    PROVE  /\ ParseCharsSingle(t, p) = Ok(p + Len(WriteEscape(k)), Order[k])
           /\ ParseCharsFragment(t, p) = RangeFrom(t, ParseCharsSingle(t, p))
<1>1. /\ from \in 1 .. Len(t) + 1 /\ end \in from .. Len(t) /\ At(t, end) = RightBracket
      /\ \A x \in from .. end : At(t, x) \notin Names
  BY DEF InClass
<1>2. p \in 1 .. Len(t) + 1 /\ p + 1 \in from .. end /\ (p + 1 # end => p + 2 \in from .. end)
      /\ p + 2 - 1 = p + 1
  <2> DEFINE l == Len(t)
  <2>1. l \in Nat /\ from \in 1 .. l + 1 /\ end \in from .. l
    BY <1>1
  <2> HIDE DEF l
  <2>2. p \in 1 .. l + 1 /\ p + 1 \in from .. end /\ (p + 1 # end => p + 2 \in from .. end) /\ p + 2 - 1 = p + 1
    BY <2>1
  <2> QED
    BY <2>2 DEF l
<1>3. ParseCharsSingle(t, p) = Ok(p + Len(WriteEscape(k)), Order[k]) /\ ParseCharsSpecial(t, p) = Error
  BY <1>2, SingleReads
<1>4. ParseCharsPosix(t, p) = Error
  <2>1. ~ (StartsWith(t, p, <<LeftBracket, ":">>) /\ At(t, p + 2) \in PosixNames)
    <3> SUFFICES ASSUME StartsWith(t, p, <<LeftBracket, ":">>), At(t, p + 2) \in PosixNames PROVE FALSE
      OBVIOUS
    <3>1. 2 \in DOMAIN <<LeftBracket, ":">> /\ <<LeftBracket, ":">>[2] = ":"
      OBVIOUS
    <3>2. At(t, p + 1) = ":"
      BY <1>2, <3>1 DEF StartsWith
    <3>3. p + 1 # end
      BY <1>1, <3>2, BracketsAre
    <3>4. At(t, p + 2) \notin Names
      BY <1>1, <1>2, <3>3
    <3> QED
      BY <3>4 DEF Names
  <2> QED
    BY <2>1, Zenon DEF ParseCharsPosix, LeftBracket
<1>5. Error.kind = "error"
  BY DEF Error
<1>6. ParseCharsFragment(t, p) = RangeFrom(t, ParseCharsSingle(t, p))
  BY <1>3, <1>4, <1>5, Zenon DEF ParseCharsFragment, ParseCharsRange, Or
<1> QED
  BY <1>3, <1>6

(* There is no piece where the bracket is. *)
LEMMA ClassStops ==
    ASSUME NEW t \in Seq(Token), NEW p \in Place, At(t, p) = RightBracket
    PROVE  ParseCharsSingle(t, p) = Error /\ ParseCharsFragment(t, p).kind = "error"
<1>1. At(t, p) # "\\" /\ At(t, p) # LeftBracket /\ p + 1 - 1 = p
  BY BracketsAre DEF Place
<1>2. Error.kind = "error"
  BY DEF Error
<1>3. ParseLiteralEscaped(t, p) = Error
  BY <1>1 DEF ParseLiteralEscaped
<1>4. Verbatim(t, p, {"\\", RightBracket} \cup (Token \ Character)) = Error
  BY Zenon DEF Verbatim
<1>5. ParseCharsSingle(t, p) = Error
  BY <1>2, <1>3, <1>4, Zenon DEF ParseCharsSingle, Or, RightBracket
<1>6. ParseCharsRange(t, p) = Error
  BY <1>2, <1>5 DEF ParseCharsRange, RangeFrom, RangeOf
<1>7. ParseCharsSpecial(t, p) = Error
  <2>1. 1 \in DOMAIN <<"\\", "w">> /\ <<"\\", "w">>[1] = "\\" /\ 1 \in DOMAIN <<"\\", "d">> /\ <<"\\", "d">>[1] = "\\"
    OBVIOUS
  <2>2. ~ StartsWith(t, p, <<"\\", "w">>) /\ ~ StartsWith(t, p, <<"\\", "d">>)
    BY <1>1, <2>1 DEF StartsWith
  <2> QED
    BY <2>2, Zenon DEF ParseCharsSpecial
<1>8. ParseCharsPosix(t, p) = Error
  <2>1. 1 \in DOMAIN <<LeftBracket, ":">> /\ <<LeftBracket, ":">>[1] = LeftBracket
    OBVIOUS
  <2>2. ~ StartsWith(t, p, <<LeftBracket, ":">>)
    BY <1>1, <2>1 DEF StartsWith
  <2> QED
    BY <2>2, Zenon DEF ParseCharsPosix, LeftBracket
<1> QED
  BY <1>2, <1>5, <1>6, <1>7, <1>8, Zenon DEF ParseCharsFragment, Or

(* A character by itself *)
LEMMA LoneReads ==
    ASSUME NEW t \in Seq(Token), NEW from, NEW end, InClass(t, from, end), NEW p \in from .. end - 1,
           NEW k \in DOMAIN Order, Holds(t, p, WriteEscape(k)), p + Len(WriteEscape(k)) \in from .. end,
           \/ At(t, p + Len(WriteEscape(k))) # "-"
           \/ At(t, (p + Len(WriteEscape(k))) + 1) = RightBracket
    PROVE  Gathers(t, from, p, {k}, p + Len(WriteEscape(k)))
<1> DEFINE q == p + Len(WriteEscape(k))
           a == ParseCharsSingle(t, p)
           b == ParseCharsSingle(t, q + 1)
<1>1. from \in 1 .. Len(t) + 1 /\ end \in from .. Len(t)
  BY DEF InClass
<1>2. a = Ok(q, Order[k]) /\ ParseCharsFragment(t, p) = RangeFrom(t, a)
  BY FragmentIs
<1>3. p \in from .. Len(t) + 1 /\ q \in from .. Len(t) + 1 /\ q + 1 \in Place
  <2> DEFINE l == Len(t)
  <2>1. l \in Nat /\ from \in 1 .. l + 1 /\ end \in from .. l /\ q \in from .. end
    BY <1>1
  <2> HIDE DEF l, q
  <2>2. p \in from .. l + 1 /\ q \in from .. l + 1 /\ q + 1 \in Place
    BY <2>1 DEF Place
  <2> QED
    BY <2>2 DEF l
<1>4. Code(Order[k]) = k
  <2>1. Order[k] \in Character
    BY TokensAre
  <2>2. Code(Order[k]) \in DOMAIN Order /\ Order[Code(Order[k])] = Order[k]
    BY <2>1, CodeIs
  <2> QED
    BY <2>2, OrderAssumption DEF IsInjective
<1>5. At(t, q) # "-" \/ b = Error
  BY <1>3, ClassStops
<1>6. Error.kind # "ok"
  BY DEF Error
<1> HIDE DEF a, b, q
<1>7. a.kind = "ok" /\ a.rest = q /\ a.value = Order[k]
  BY <1>2 DEF Ok
<1>8. RangeFrom(t, a) = RangeOf(t, a, b)
  BY <1>7, Zenon DEF RangeFrom, b
<1>9. RangeOf(t, a, b) = Ok(q, {k})
  BY <1>4, <1>5, <1>6, <1>7, Zenon DEF RangeOf
<1>10. {k} \in CodeSets
  BY DEF CodeSets
<1>11. ParseCharsFragment(t, p) = Ok(q, {k})
  BY <1>2, <1>8, <1>9
<1> QED
  BY <1>1, <1>3, <1>10, <1>11, GathersOne DEF q

(* Two characters and a hyphen between them *)
LEMMA SpanReads ==
    ASSUME NEW t \in Seq(Token), NEW from, NEW end, InClass(t, from, end), NEW p \in from .. end - 1,
           NEW j \in DOMAIN Order, NEW k \in DOMAIN Order, j <= k,
           NEW q, q = p + Len(WriteEscape(j)), NEW r, r = (q + 1) + Len(WriteEscape(k)),
           Holds(t, p, WriteEscape(j)), At(t, q) = "-", Holds(t, q + 1, WriteEscape(k)),
           q + 1 \in from .. end - 1, r \in from .. end
    PROVE  Gathers(t, from, p, j .. k, r)
<1> DEFINE a == ParseCharsSingle(t, p)
           b == ParseCharsSingle(t, q + 1)
<1>1. from \in 1 .. Len(t) + 1 /\ end \in from .. Len(t)
  BY DEF InClass
<1>2. a = Ok(q, Order[j]) /\ ParseCharsFragment(t, p) = RangeFrom(t, a)
  BY FragmentIs
<1>3. b = Ok(r, Order[k])
  BY FragmentIs
<1>4. p \in from .. Len(t) + 1 /\ r \in from .. Len(t) + 1
  <2> DEFINE l == Len(t)
  <2>1. l \in Nat /\ from \in 1 .. l + 1 /\ end \in from .. l
    BY <1>1
  <2> HIDE DEF l
  <2>2. p \in from .. l + 1 /\ r \in from .. l + 1
    BY <2>1
  <2> QED
    BY <2>2 DEF l
<1>5. Code(Order[j]) = j /\ Code(Order[k]) = k
  <2>1. Order[k] \in Character /\ Order[j] \in Character
    BY TokensAre
  <2>2. /\ Code(Order[k]) \in DOMAIN Order /\ Order[Code(Order[k])] = Order[k]
        /\ Code(Order[j]) \in DOMAIN Order /\ Order[Code(Order[j])] = Order[j]
    BY <2>1, CodeIs
  <2> QED
    BY <2>2, OrderAssumption DEF IsInjective
<1> HIDE DEF a, b
<1>6. a.kind = "ok" /\ a.rest = q /\ a.value = Order[j]
  BY <1>2 DEF Ok
<1>7. b.kind = "ok" /\ b.rest = r /\ b.value = Order[k]
  BY <1>3 DEF Ok
<1>8. RangeFrom(t, a) = RangeOf(t, a, b)
  BY <1>6, Zenon DEF RangeFrom, b
<1>9. RangeOf(t, a, b) = Ok(r, j .. k)
  <2>1. From(a.value, b.value) = j .. k
    BY <1>5, <1>6, <1>7 DEF From
  <2>2. Code(a.value) <= Code(b.value)
    BY <1>5, <1>6, <1>7
  <2> QED
    BY <1>6, <1>7, <2>1, <2>2, Zenon DEF RangeOf
<1>10. j .. k \in CodeSets
  <2>1. DOMAIN Order = 1 .. Len(Order) /\ Len(Order) \in Nat
    BY TokensAre
  <2> DEFINE L == Len(Order)
  <2>2. L \in Nat /\ j \in 1 .. L /\ k \in 1 .. L
    BY <2>1
  <2> HIDE DEF L
  <2>3. j .. k \subseteq 1 .. L /\ j \in j .. k
    BY <2>2
  <2> QED
    BY <2>1, <2>3 DEF CodeSets, L
<1>11. ParseCharsFragment(t, p) = Ok(r, j .. k)
  BY <1>2, <1>8, <1>9
<1> QED
  BY <1>1, <1>4, <1>10, <1>11, GathersOne

(* What a class is written with: no token of more than one character that   *)
(* has a meaning *)
ClassTokens == Token \ Names

(* A range is written as one character, two, or two with a hyphen between. *)
LEMMA RangeIs ==
    ASSUME NEW r \in CharRange
    PROVE  /\ r[1] \in DOMAIN Order /\ r[2] \in DOMAIN Order /\ r[1] \in Nat /\ r[2] \in Nat
           /\ \/ r[1] = r[2] /\ FmtCharclass(r) = WriteEscape(r[1])
              \/ r[1] + 1 = r[2] /\ FmtCharclass(r) = WriteEscape(r[1]) \o WriteEscape(r[2])
              \/ r[1] + 1 < r[2] /\ FmtCharclass(r) = (WriteEscape(r[1]) \o <<"-">>) \o WriteEscape(r[2])
           /\ FmtCharclass(r) \in Seq(ClassTokens) /\ FmtCharclass(r) # <<>>
           /\ r[1] # Code("-") => FmtCharclass(r)[1] # "-"
<1> DEFINE a == r[1]
           b == r[2]
           u == WriteEscape(a)
           w == WriteEscape(b)
           hyphen == <<"-">>
           f == FmtCharclass(r)
<1>1. a \in DOMAIN Order /\ b \in DOMAIN Order /\ a \in Nat /\ b \in Nat /\ a <= b
  <2>1. a \in DOMAIN Order /\ b \in DOMAIN Order /\ a <= b
    BY DEF CharRange
  <2>2. \A k \in DOMAIN Order : k \in Nat
    <3>1. DOMAIN Order = 1 .. Len(Order) /\ Len(Order) \in Nat
      BY TokensAre, Zenon
    <3> QED
      BY <3>1
  <2> QED
    BY <2>1, <2>2
<1>2. a = b \/ a + 1 = b \/ a + 1 < b
  BY <1>1
<1>3. ASSUME NEW k \in DOMAIN Order
      PROVE  WriteEscape(k) \in Seq(ClassTokens) /\ WriteEscape(k) # <<>>
  <2> DEFINE v == WriteEscape(k)
  <2>1. v \in Seq(Token) /\ v # <<>> /\ \A i \in 1 .. Len(v) : v[i] \notin Names
    BY ClassEscapeIs
  <2> HIDE DEF v
  <2>2. v \in Seq(ClassTokens)
    BY <2>1 DEF ClassTokens
  <2> QED
    BY <2>1, <2>2 DEF v
<1>4. u \in Seq(ClassTokens) /\ w \in Seq(ClassTokens) /\ u # <<>> /\ (a # Code("-") => u[1] # "-")
  BY <1>1, <1>3, ClassEscapeIs
<1>5. hyphen \in Seq(ClassTokens)
  <2>1. "-" \in Character
    BY SyntaxIs
  <2>2. "-" \in ClassTokens
    BY <2>1, TokensAre, TokensAreNot DEF ClassTokens
  <2> QED
    BY <2>2
<1>6. f = (u \o (IF a + 1 < b THEN hyphen ELSE <<>>)) \o (IF a < b THEN w ELSE <<>>)
  BY Zenon DEF FmtCharclass
<1> HIDE DEF a, b, u, w, hyphen, f
<1>7. /\ <<>> \in Seq(ClassTokens)
      /\ \A x \in Seq(ClassTokens) : x \o <<>> = x
      /\ \A x, y \in Seq(ClassTokens) : x \o y \in Seq(ClassTokens) /\ (x # <<>> => x \o y # <<>> /\ (x \o y)[1] = x[1])
  <2> HIDE DEF ClassTokens
  <2> QED
    OBVIOUS
<1> HIDE DEF ClassTokens
<1>8. \/ a = b /\ f = u
      \/ a + 1 = b /\ f = u \o w
      \/ a + 1 < b /\ f = (u \o hyphen) \o w
  <2>1. CASE a = b
    <3>1. ~ (a + 1 < b) /\ ~ (a < b)
      BY <1>1, <2>1
    <3> QED
      BY <1>4, <1>6, <1>7, <2>1, <3>1
  <2>2. CASE a + 1 = b
    <3>1. ~ (a + 1 < b) /\ a < b
      BY <1>1, <2>2
    <3> QED
      BY <1>4, <1>6, <1>7, <2>2, <3>1
  <2>3. CASE a + 1 < b
    <3>1. a + 1 < b /\ a < b
      BY <1>1, <2>3
    <3> QED
      BY <1>6, <3>1
  <2> QED
    BY <1>2, <2>1, <2>2, <2>3
<1>9. f \in Seq(ClassTokens) /\ f # <<>> /\ f[1] = u[1]
  <2>1. CASE f = u
    BY <1>4, <2>1
  <2>2. CASE f = u \o w
    BY <1>4, <1>7, <2>2
  <2>3. CASE f = (u \o hyphen) \o w
    <3>1. u \o hyphen \in Seq(ClassTokens) /\ u \o hyphen # <<>> /\ (u \o hyphen)[1] = u[1]
      BY <1>4, <1>5, <1>7
    <3> QED
      BY <1>4, <1>7, <2>3, <3>1
  <2> QED
    BY <1>8, <2>1, <2>2, <2>3
<1> QED
  BY <1>1, <1>4, <1>8, <1>9 DEF a, b, u, w, hyphen, f

(* A range is read as it is written, if no hyphen follows it, and nothing   *)
(* but the bracket when the hyphen is the second of two neighbours.         *)
LEMMA RangeReads ==
    ASSUME NEW t \in Seq(Token), NEW from, NEW end, InClass(t, from, end), NEW r \in CharRange,
           NEW p \in from .. end, NEW q \in from .. end, q = p + Len(FmtCharclass(r)),
           Holds(t, p, FmtCharclass(r)), At(t, q) # "-",
           r[1] # Code("-") /\ r[2] = Code("-") => At(t, q) = RightBracket
    PROVE  Gathers(t, from, p, r[1] .. r[2], q)
<1> DEFINE a == r[1]
           b == r[2]
           u == WriteEscape(a)
           w == WriteEscape(b)
           m == Len(u)
           n == Len(w)
           f == FmtCharclass(r)
<1>1. /\ a \in DOMAIN Order /\ b \in DOMAIN Order /\ a \in Nat /\ b \in Nat
      /\ \/ a = b /\ f = u
         \/ a + 1 = b /\ f = u \o w
         \/ a + 1 < b /\ f = (u \o <<"-">>) \o w
  BY RangeIs
<1>2. /\ u \in Seq(Token) /\ w \in Seq(Token) /\ u # <<>> /\ w # <<>>
      /\ (b # Code("-") => w[1] # "-") /\ (b = Code("-") => w = <<"-">>)
  BY <1>1, ClassEscapeIs
<1>3. /\ from \in Nat /\ end \in Nat /\ from >= 1 /\ p \in Place /\ q = p + Len(f) /\ Holds(t, p, f)
      /\ p \in from .. end /\ q \in from .. end
  BY DEF InClass, Place
<1>4. m \in Nat /\ n \in Nat /\ m >= 1 /\ n >= 1
  BY <1>2, SeqNotEmpty
<1> HIDE DEF a, b, u, w, m, n, f
<1>5. CASE a = b /\ f = u
  <2>1. p \in from .. end - 1 /\ q = p + m
    BY <1>3, <1>4, <1>5 DEF m
  <2>2. Gathers(t, from, p, {a}, q)
    BY <1>1, <1>3, <1>5, <2>1, LoneReads DEF u, m
  <2>3. a .. b = {a}
    BY <1>1, <1>5
  <2> QED
    BY <2>2, <2>3 DEF a, b
<1>6. CASE a + 1 = b /\ f = u \o w
  <2>1. Holds(t, p, u) /\ Holds(t, p + m, w) /\ q = (p + m) + n
    BY <1>2, <1>3, <1>6, HoldsBoth DEF m, n
  <2>2. p \in from .. end - 1 /\ p + m \in from .. end - 1 /\ p + m \in Place /\ p + m \in from .. end
    BY <1>3, <1>4, <2>1 DEF Place
  <2>3. At(t, p + m) = w[1]
    BY <1>2, <2>1, <2>2, HoldsFirst
  <2>4. At(t, p + m) # "-" \/ At(t, (p + m) + 1) = RightBracket
    <3>1. CASE b = Code("-")
      <4>1. a # Code("-") /\ w = <<"-">>
        BY <1>1, <1>2, <1>6, <3>1
      <4>2. n = 1
        BY <4>1 DEF n
      <4>3. At(t, q) = RightBracket
        BY <3>1, <4>1 DEF a, b
      <4> QED
        BY <2>1, <4>2, <4>3
    <3>2. CASE b # Code("-")
      BY <1>2, <2>3, <3>2
    <3> QED
      BY <3>1, <3>2
  <2>5. Gathers(t, from, p, {a}, p + m)
    BY <1>1, <2>1, <2>2, <2>4, LoneReads DEF u, m
  <2>6. Gathers(t, from, p + m, {b}, q)
    BY <1>1, <1>3, <2>1, <2>2, LoneReads DEF w, n
  <2>7. Gathers(t, from, p, {a} \cup {b}, q)
    BY <2>5, <2>6, GathersBoth
  <2>8. a .. b = {a} \cup {b}
    BY <1>1, <1>6
  <2> QED
    BY <2>7, <2>8 DEF a, b
<1>7. CASE a + 1 < b /\ f = (u \o <<"-">>) \o w
  <2> DEFINE hyphen == <<"-">>
             v == u \o hyphen
  <2>1. hyphen \in Seq(Token) /\ hyphen # <<>> /\ Len(hyphen) = 1 /\ hyphen[1] = "-"
    BY SyntaxIs, SingleToken
  <2>2. f = v \o w
    BY <1>7
  <2> HIDE DEF hyphen
  <2>3. v \in Seq(Token)
    BY <1>2, <2>1, JoinIs
  <2>4. Holds(t, p, v) /\ Holds(t, p + Len(v), w) /\ q = (p + Len(v)) + n
    <3> HIDE DEF v
    <3> QED
      BY <1>2, <1>3, <2>2, <2>3, HoldsBoth DEF n
  <2>5. Holds(t, p, u) /\ Holds(t, p + m, hyphen) /\ p + Len(v) = (p + m) + 1
    <3>1. p \in Place /\ u \in Seq(Token) /\ hyphen \in Seq(Token) /\ Holds(t, p, u \o hyphen)
      BY <1>2, <1>3, <2>1, <2>4
    <3>2. Holds(t, p, u) /\ Holds(t, p + Len(u), hyphen) /\ p + Len(u \o hyphen) = (p + Len(u)) + Len(hyphen)
      BY ONLY <3>1, HoldsBoth
    <3> HIDE DEF v
    <3> QED
      BY <2>1, <3>2, Zenon DEF m, v
  <2>6. /\ p \in from .. end - 1 /\ p + m \in Place /\ p + m \in from .. end
        /\ (p + m) + 1 \in from .. end - 1 /\ q = ((p + m) + 1) + n
    BY <1>3, <1>4, <2>4, <2>5 DEF Place
  <2>7. At(t, p + m) = "-"
    BY <2>1, <2>5, <2>6, HoldsFirst
  <2>8. Holds(t, (p + m) + 1, w)
    BY <2>4, <2>5
  <2>9. a <= b
    BY <1>1, <1>7
  <2>10. Gathers(t, from, p, a .. b, q)
    <3> DEFINE x == p + m
    <3>1. x = p + Len(WriteEscape(a)) /\ q = (x + 1) + Len(WriteEscape(b)) /\ x + 1 \in from .. end - 1
      BY <2>6 DEF m, n, u, w
    <3>2. Holds(t, p, WriteEscape(a)) /\ At(t, x) = "-" /\ Holds(t, x + 1, WriteEscape(b))
      BY <2>5, <2>7, <2>8 DEF u, w
    <3> HIDE DEF x
    <3> QED
      BY <1>1, <1>3, <2>6, <2>9, <3>1, <3>2, SpanReads
  <2> QED
    BY <2>10 DEF a, b
<1> QED
  BY <1>1, <1>5, <1>6, <1>7

(* The words that a part of a class is joined from *)
PartWords(R, S) == [i \in DOMAIN R |-> IF R[i] \in S THEN FmtCharclass(R[i]) ELSE <<>>]

LEMMA PartWordsAre ==
    ASSUME NEW R \in Seq(CharRange), NEW S
    PROVE  /\ AreWords(ClassTokens, PartWords(R, S), Len(R)) /\ AreWords(Token, PartWords(R, S), Len(R))
           /\ Written(R, S) = FlattenSeq(PartWords(R, S))
           /\ Len(R) \in Nat /\ DOMAIN R = 1 .. Len(R) /\ \A i \in 1 .. Len(R) : R[i] \in CharRange
           /\ \A i \in 1 .. Len(R) : PartWords(R, S)[i] = IF R[i] \in S THEN FmtCharclass(R[i]) ELSE <<>>
           /\ Written(R, S) \in Seq(ClassTokens)
<1> DEFINE n == Len(R)
           words == PartWords(R, S)
<1>1. n \in Nat /\ DOMAIN R = 1 .. n /\ \A i \in 1 .. n : R[i] \in CharRange
  OBVIOUS
<1> HIDE DEF n
<1>2. /\ words = [i \in 1 .. n |-> words[i]]
      /\ \A i \in 1 .. n : words[i] = IF R[i] \in S THEN FmtCharclass(R[i]) ELSE <<>>
  BY <1>1 DEF PartWords
<1>3. <<>> \in Seq(ClassTokens) /\ \A w \in Seq(ClassTokens) : w \in Seq(Token)
  BY DEF ClassTokens
<1> HIDE DEF words
<1>4. \A i \in 1 .. n : words[i] \in Seq(ClassTokens)
  BY <1>1, <1>2, <1>3, RangeIs
<1>5. \A i \in 1 .. n : words[i] \in Seq(Token)
  BY <1>3, <1>4
<1>6. AreWords(ClassTokens, words, n) /\ AreWords(Token, words, n)
  BY <1>1, <1>2, <1>4, <1>5, AsWords
<1>7. Written(R, S) = FlattenSeq(words)
  BY DEF Written, PartWords, words
<1>8. FlattenSeq(words) \in Seq(ClassTokens)
  BY <1>1, <1>2, <1>4, FlattensTo
<1> QED
  BY <1>1, <1>2, <1>6, <1>7, <1>8 DEF words, n

(* A hyphen is where a range is that starts with it, if none comes later. *)
LEMMA HyphensAre ==
    ASSUME NEW t \in Seq(Token), NEW p \in 1 .. Len(t) + 1, NEW R \in Seq(CharRange), NEW S,
           NEW pos, Laid(t, p, PartWords(R, S), Len(R), pos), At(t, pos[Len(R) + 1]) # "-",
           NEW k \in 1 .. Len(R) + 1
    PROVE  /\ (\A j \in k .. Len(R) : R[j] \notin S) => pos[k] = pos[Len(R) + 1]
           /\ At(t, pos[k]) = "-" => \E j \in k .. Len(R) : R[j] \in S /\ R[j][1] = Code("-")
<1> DEFINE n == Len(R)
           words == PartWords(R, S)
           end == pos[n + 1]
           A(x) == (\A j \in x .. n : R[j] \notin S) => pos[x] = end
           B(x) == At(t, pos[x]) = "-" => \E j \in x .. n : R[j] \in S /\ R[j][1] = Code("-")
           D == {m \in 0 .. n : A((n + 1) - m) /\ B((n + 1) - m)}
<1>1. /\ n \in Nat /\ \A i \in 1 .. n : R[i] \in CharRange
      /\ \A i \in 1 .. n : words[i] = IF R[i] \in S THEN FmtCharclass(R[i]) ELSE <<>>
  BY PartWordsAre
<1>2. /\ pos \in [1 .. n + 1 -> p .. Len(t) + 1]
      /\ \A i \in 1 .. n : pos[i + 1] = pos[i] + Len(words[i]) /\ Holds(t, pos[i], words[i])
      /\ At(t, end) # "-" /\ k \in 1 .. n + 1
  BY DEF Laid
<1> HIDE DEF n, words
<1>3. \A x \in 1 .. n + 1 : pos[x] \in Place /\ pos[x] \in Nat
  BY <1>1, <1>2 DEF Place
<1> HIDE DEF end
<1>4. 0 \in D
  <2>1. (n + 1) - 0 = n + 1 /\ 0 \in 0 .. n
    BY <1>1
  <2>2. A(n + 1) /\ B(n + 1)
    BY <1>2 DEF end
  <2> HIDE DEF A, B
  <2> QED
    BY <2>1, <2>2
<1>5. ASSUME NEW m \in 1 .. n, m - 1 \in D
      PROVE  m \in D
  <2> DEFINE x == (n + 1) - m
  <2>1. x \in 1 .. n /\ (n + 1) - (m - 1) = x + 1 /\ m \in 0 .. n /\ x \in x .. n
        /\ \A j \in x + 1 .. n : j \in x .. n
    BY <1>1
  <2>2. A(x + 1) /\ B(x + 1)
    BY <1>5, <2>1
  <2> HIDE DEF x
  <2>3. A(x) /\ B(x)
    <3>1. CASE R[x] \in S
      <4>1. words[x] = FmtCharclass(R[x]) /\ R[x] \in CharRange /\ Holds(t, pos[x], words[x])
        BY <1>1, <1>2, <2>1, <3>1
      <4>2. /\ words[x] \in Seq(Token) /\ words[x] # <<>> /\ (R[x][1] # Code("-") => words[x][1] # "-")
        <5>1. \A w \in Seq(ClassTokens) : w \in Seq(Token)
          BY DEF ClassTokens
        <5> QED
          BY <4>1, <5>1, RangeIs
      <4>3. At(t, pos[x]) = words[x][1]
        <5>1. pos[x] \in Place
          BY <1>1, <1>3, <2>1
        <5> QED
          BY <4>1, <4>2, <5>1, HoldsFirst
      <4> QED
        BY <2>1, <3>1, <4>2, <4>3
    <3>2. CASE R[x] \notin S
      <4>1. words[x] = <<>> /\ Len(<<>>) = 0
        BY <1>1, <2>1, <3>2
      <4>2. pos[x + 1] = pos[x]
        BY <1>1, <1>2, <1>3, <2>1, <4>1
      <4> QED
        BY <2>1, <2>2, <4>2
    <3> QED
      BY <3>1, <3>2
  <2> HIDE DEF A, B
  <2> QED
    BY <2>1, <2>3 DEF x
<1>6. 0 .. n \subseteq D
  <2> HIDE DEF D
  <2> QED
    BY <1>1, <1>4, <1>5, IntervalInduction
<1>7. (n + 1) - k \in 0 .. n /\ (n + 1) - ((n + 1) - k) = k
  BY <1>1, <1>2
<1>8. A(k) /\ B(k)
  <2> HIDE DEF A, B
  <2> QED
    BY <1>6, <1>7
<1> QED
  BY <1>8 DEF n, end

(* What some of the ranges stand for *)
CodesIn(R, S, k) == UNION {R[i][1] .. R[i][2] : i \in {j \in 1 .. k : R[j] \in S}}

EndsWithHyphen(r) == r[1] # Code("-") /\ r[2] = Code("-")

(* Of the ranges of a part none starts with the hyphen but the first, and   *)
(* none ends with it but the last.                                          *)
Separated(R, S) ==
    \A i, j \in DOMAIN R : i < j /\ R[i] \in S /\ R[j] \in S => R[j][1] # Code("-") /\ ~ EndsWithHyphen(R[i])

(* A part of a class is read as it is written, if no hyphen follows, and    *)
(* nothing but the bracket where the last of it ends with the hyphen.       *)
LEMMA PartReads ==
    ASSUME NEW t \in Seq(Token), NEW from, NEW end, InClass(t, from, end), NEW R \in Seq(CharRange), NEW S,
           Separated(R, S), NEW p \in from .. end, Holds(t, p, Written(R, S)),
           NEW q \in from .. end, q = p + Len(Written(R, S)), At(t, q) # "-",
           (\E i \in DOMAIN R : R[i] \in S /\ EndsWithHyphen(R[i])) => At(t, q) = RightBracket
    PROVE  /\ Gathers(t, from, p, CodesIn(R, S, Len(R)), q)
           /\ (\A i \in DOMAIN R : R[i] \in S => R[i][1] # Code("-")) => At(t, p) # "-"
<1> DEFINE n == Len(R)
           words == PartWords(R, S)
           C(k) == CodesIn(R, S, k)
<1>1. /\ n \in Nat /\ DOMAIN R = 1 .. n /\ \A i \in 1 .. n : R[i] \in CharRange
      /\ \A i \in 1 .. n : words[i] = IF R[i] \in S THEN FmtCharclass(R[i]) ELSE <<>>
      /\ AreWords(Token, words, n) /\ Written(R, S) = FlattenSeq(words)
  BY PartWordsAre
<1>2. /\ p \in 1 .. Len(t) + 1 /\ from \in 1 .. Len(t) + 1 /\ end \in from .. Len(t)
      /\ p \in from .. Len(t) + 1
  <2> DEFINE l == Len(t)
  <2>1. l \in Nat /\ from \in 1 .. l + 1 /\ end \in from .. l
    BY DEF InClass
  <2> HIDE DEF l
  <2>2. p \in 1 .. l + 1 /\ p \in from .. l + 1
    BY <2>1
  <2> QED
    BY <2>1, <2>2 DEF l
<1> HIDE DEF words
<1>3. PICK pos : Laid(t, p, words, n, pos)
  BY <1>1, <1>2, HoldsEach
<1>4. /\ pos \in [1 .. n + 1 -> p .. Len(t) + 1] /\ pos[1] = p /\ pos[n + 1] = q
      /\ \A k \in 1 .. n : pos[k + 1] = pos[k] + Len(words[k]) /\ Holds(t, pos[k], words[k])
  BY <1>1, <1>3 DEF Laid
<1>5. ASSUME NEW k \in 1 .. n + 1
      PROVE  /\ (\A j \in k .. n : R[j] \notin S) => pos[k] = q
             /\ At(t, pos[k]) = "-" => \E j \in k .. n : R[j] \in S /\ R[j][1] = Code("-")
  <2>1. /\ t \in Seq(Token) /\ p \in 1 .. Len(t) + 1 /\ R \in Seq(CharRange) /\ k \in 1 .. Len(R) + 1
        /\ Laid(t, p, PartWords(R, S), Len(R), pos) /\ At(t, pos[Len(R) + 1]) # "-"
    BY <1>2, <1>3, <1>4 DEF words
  <2>2. /\ (\A j \in k .. Len(R) : R[j] \notin S) => pos[k] = pos[Len(R) + 1]
        /\ At(t, pos[k]) = "-" => \E j \in k .. Len(R) : R[j] \in S /\ R[j][1] = Code("-")
    BY ONLY <2>1, HyphensAre
  <2> QED
    BY <1>4, <2>2
<1> HIDE DEF n
<1>6. ASSUME NEW k \in 1 .. n PROVE pos[k] \in Nat /\ pos[k + 1] \in Nat /\ pos[k] <= pos[k + 1] /\ Len(words[k]) \in Nat
  <2>1. words[k] \in Seq(Token)
    BY <1>1, <1>6 DEF AreWords
  <2>2. Len(words[k]) \in Nat /\ k \in 1 .. n + 1 /\ k + 1 \in 1 .. n + 1
    BY <1>1, <2>1
  <2>3. pos[k] \in p .. Len(t) + 1 /\ p \in Nat
    BY <1>2, <1>4, <2>2
  <2> QED
    BY <1>4, <2>2, <2>3
<1>7. ASSUME NEW k \in 1 .. n + 1
      PROVE  pos[k] \in p .. q
  <2> DEFINE D == {m \in 0 .. n : pos[(n + 1) - m] <= q}
  <2>1. 0 \in D
    <3>1. (n + 1) - 0 = n + 1 /\ 0 \in 0 .. n
      BY <1>1
    <3> QED
      BY <1>4, <3>1
  <2>2. ASSUME NEW m \in 1 .. n, m - 1 \in D PROVE m \in D
    <3>1. (n + 1) - m \in 1 .. n /\ (n + 1) - (m - 1) = ((n + 1) - m) + 1 /\ m \in 0 .. n
      BY <1>1
    <3> DEFINE x == (n + 1) - m
    <3>2. pos[x] \in Nat /\ pos[x + 1] \in Nat /\ pos[x] <= pos[x + 1]
      BY <1>6, <3>1
    <3>3. pos[x + 1] <= q
      BY <2>2, <3>1
    <3>4. pos[x] <= q
      BY <3>2, <3>3
    <3> QED
      BY <3>1, <3>4
  <2>3. 0 .. n \subseteq D
    <3> HIDE DEF D
    <3> QED
      BY <1>1, <2>1, <2>2, IntervalInduction
  <2>4. (n + 1) - k \in 0 .. n /\ (n + 1) - ((n + 1) - k) = k
    BY <1>1, <1>7
  <2>5. pos[k] <= q /\ pos[k] \in p .. Len(t) + 1
    BY <1>4, <1>7, <2>3, <2>4
  <2> QED
    BY <1>2, <2>5
<1>8. ASSUME NEW k \in 1 .. n, R[k] \in S
      PROVE  Gathers(t, from, pos[k], R[k][1] .. R[k][2], pos[k + 1])
  <2>1. words[k] = FmtCharclass(R[k]) /\ R[k] \in CharRange /\ k \in 1 .. n + 1 /\ k + 1 \in 1 .. n + 1
    BY <1>1, <1>8
  <2>2. pos[k] \in from .. end /\ pos[k + 1] \in from .. end
    <3>1. pos[k] \in p .. q /\ pos[k + 1] \in p .. q /\ p \in from .. end /\ q \in from .. end
      BY <1>7, <2>1
    <3>2. from \in Nat /\ end \in Nat
      BY <1>2
    <3> QED
      BY <3>1, <3>2
  <2>3. pos[k + 1] = pos[k] + Len(FmtCharclass(R[k])) /\ Holds(t, pos[k], FmtCharclass(R[k]))
    BY <1>4, <1>8, <2>1
  <2>4. \A j \in k + 1 .. n : k < j /\ j \in 1 .. n
    BY <1>1, <1>8
  <2>5. At(t, pos[k + 1]) # "-"
    BY <1>1, <1>5, <1>8, <2>1, <2>4 DEF Separated
  <2>6. EndsWithHyphen(R[k]) => At(t, pos[k + 1]) = RightBracket
    <3> SUFFICES ASSUME EndsWithHyphen(R[k]) PROVE At(t, pos[k + 1]) = RightBracket
      OBVIOUS
    <3>1. \A j \in k + 1 .. n : R[j] \notin S
      BY <1>1, <1>8, <2>4 DEF Separated
    <3>2. pos[k + 1] = q
      BY <1>5, <2>1, <3>1
    <3> QED
      BY <1>1, <1>8, <3>2
  <2> QED
    BY <2>1, <2>2, <2>3, <2>5, <2>6, RangeReads DEF EndsWithHyphen
<1>9. ASSUME NEW k \in 1 .. n
      PROVE  C(k) = C(k - 1) \cup (IF R[k] \in S THEN R[k][1] .. R[k][2] ELSE {})
  <2> DEFINE J(x) == {j \in 1 .. x : R[j] \in S}
             code(j) == R[j][1] .. R[j][2]
  <2>1. J(k) = J(k - 1) \cup (IF R[k] \in S THEN {k} ELSE {})
    BY <1>1, <1>9
  <2>2. C(k) = UNION {code(j) : j \in J(k)} /\ C(k - 1) = UNION {code(j) : j \in J(k - 1)}
    BY DEF CodesIn
  <2> HIDE DEF J, code, C
  <2>3. C(k) = C(k - 1) \cup (IF R[k] \in S THEN code(k) ELSE {})
    BY <2>1, <2>2
  <2> QED
    BY <2>3 DEF code
<1> DEFINE D == {k \in 0 .. n : Gathers(t, from, p, C(k), pos[k + 1])}
<1> HIDE DEF C
<1>10. 0 \in D
  <2>1. C(0) = {} /\ 0 + 1 = 1 /\ 0 \in 0 .. n
    BY <1>1 DEF CodesIn, C
  <2>2. Gathers(t, from, p, {}, p)
    BY <1>2, GathersNone
  <2> QED
    BY <1>4, <2>1, <2>2
<1>11. ASSUME NEW k \in 1 .. n, k - 1 \in D
       PROVE  k \in D
  <2>1. (k - 1) + 1 = k /\ k \in 0 .. n
    BY <1>1
  <2>2. Gathers(t, from, p, C(k - 1), pos[k])
    BY <1>11, <2>1
  <2>3. CASE R[k] \in S
    <3>1. C(k) = C(k - 1) \cup (R[k][1] .. R[k][2])
      BY <1>9, <2>3
    <3>2. Gathers(t, from, pos[k], R[k][1] .. R[k][2], pos[k + 1])
      BY <1>8, <2>3
    <3>3. Gathers(t, from, p, C(k - 1) \cup (R[k][1] .. R[k][2]), pos[k + 1])
      BY <2>2, <3>2, GathersBoth
    <3> QED
      BY <2>1, <3>1, <3>3, Zenon
  <2>4. CASE R[k] \notin S
    <3>1. C(k) = C(k - 1)
      BY <1>9, <2>4
    <3>2. words[k] = <<>> /\ Len(<<>>) = 0
      BY <1>1, <2>4
    <3>3. pos[k + 1] = pos[k]
      BY <1>4, <1>6, <3>2
    <3> QED
      BY <2>1, <2>2, <3>1, <3>3
  <2> QED
    BY <2>3, <2>4
<1>12. 0 .. n \subseteq D
  <2> HIDE DEF D
  <2> QED
    BY <1>1, <1>10, <1>11, IntervalInduction
<1>13. Gathers(t, from, p, C(n), q)
  <2>1. n \in 0 .. n
    BY <1>1
  <2> QED
    BY <1>4, <1>12, <2>1
<1>14. (\A i \in DOMAIN R : R[i] \in S => R[i][1] # Code("-")) => At(t, p) # "-"
  <2>1. 1 \in 1 .. n + 1
    BY <1>1
  <2> QED
    BY <1>1, <1>4, <1>5, <2>1
<1> QED
  BY <1>13, <1>14 DEF C, n

(* Of the ranges of a set no two have the hyphen at the same end. *)
LEMMA RangesApart ==
    ASSUME NEW codes \in CodeSets, NEW R, R = FromRanges(codes)
    PROVE  /\ R \in Seq(CharRange) \ {<<>>}
           /\ \A i, j \in DOMAIN R : i < j => R[i][1] # R[j][1] /\ R[i][2] # R[j][2]
<1>1. /\ R \in Seq(CharRange) \ {<<>>}
      /\ \A i \in DOMAIN R : R[i] \in RangesOf(codes)
      /\ \A i, j \in DOMAIN R : i < j => R[i][1] < R[j][1]
  BY RangesAscend
<1>2. \A k \in codes : k \in Nat
  <2>1. DOMAIN Order = 1 .. Len(Order) /\ Len(Order) \in Nat
    BY TokensAre, Zenon
  <2> QED
    BY <2>1 DEF CodeSets
<1>3. ASSUME NEW i \in DOMAIN R, NEW j \in DOMAIN R, i < j
      PROVE  R[i][1] # R[j][1] /\ R[i][2] # R[j][2]
  <2> DEFINE a == R[i][1]
             b == R[i][2]
             c == R[j][1]
             d == R[j][2]
  <2>1. /\ a \in codes /\ b \in codes /\ c \in codes /\ d \in codes
        /\ a .. b \subseteq codes /\ c - 1 \notin codes /\ c <= d /\ a < c
    BY <1>1, <1>3 DEF RangesOf
  <2>2. a \in Nat /\ b \in Nat /\ c \in Nat /\ d \in Nat
    BY <1>2, <2>1
  <2> HIDE DEF a, b, c, d
  <2>3. ASSUME b = d PROVE FALSE
    <3>1. c - 1 \in a .. b
      BY <2>1, <2>2, <2>3
    <3> QED
      BY <2>1, <3>1
  <2>4. a # c
    BY <2>1, <2>2
  <2> QED
    BY <2>3, <2>4 DEF a, b, c, d
<1> QED
  BY <1>1, <1>3

(* The codes of the ranges of a class *)
LEMMA CodesAre ==
    ASSUME NEW R \in Seq(CharRange) \ {<<>>}
    PROVE  /\ Codes(R) \in CodeSets
           /\ \A S : CodesIn(R, S, Len(R)) \subseteq Codes(R)
           /\ \A x \in Codes(R) : \E i \in DOMAIN R : x \in R[i][1] .. R[i][2]
           /\ \A S : \A i \in DOMAIN R : R[i] \in S => R[i][1] .. R[i][2] \subseteq CodesIn(R, S, Len(R))
<1>1. 1 \in DOMAIN R /\ DOMAIN R = 1 .. Len(R) /\ \A i \in DOMAIN R : R[i] \in CharRange
  OBVIOUS
<1>2. \A r \in CharRange : r[1] .. r[2] \in CodeSets
  <2> SUFFICES ASSUME NEW r \in CharRange PROVE r[1] .. r[2] \in CodeSets
    OBVIOUS
  <2> DEFINE L == Len(Order)
  <2>1. DOMAIN Order = 1 .. L /\ L \in Nat
    BY TokensAre, Zenon
  <2>2. r[1] \in 1 .. L /\ r[2] \in 1 .. L /\ r[1] <= r[2]
    BY <2>1 DEF CharRange
  <2> HIDE DEF L
  <2>3. r[1] .. r[2] \subseteq 1 .. L /\ r[1] \in r[1] .. r[2]
    BY <2>1, <2>2
  <2> QED
    BY <2>1, <2>3 DEF CodeSets
<1> DEFINE code(i) == R[i][1] .. R[i][2]
<1>3. \A x : x \in Codes(R) <=> \E i \in DOMAIN R : x \in code(i)
  BY DEF Codes, ToSet
<1>4. \A S, x : x \in CodesIn(R, S, Len(R)) <=> \E i \in DOMAIN R : R[i] \in S /\ x \in code(i)
  BY <1>1 DEF CodesIn
<1>5. \A i \in DOMAIN R : code(i) \in CodeSets
  BY <1>1, <1>2
<1> HIDE DEF code
<1>6. Codes(R) \in CodeSets
  BY <1>1, <1>3, <1>5 DEF CodeSets
<1>7. \A S : CodesIn(R, S, Len(R)) \subseteq Codes(R)
  BY <1>3, <1>4
<1> QED
  BY <1>3, <1>4, <1>6, <1>7 DEF code

LEMMA ClassFragmentsAre ==
    ASSUME NEW t \in Seq(Token), NEW p \in Place
    PROVE  AreFragments(ClassFragments(t, p), t, p, CodeSets)
<1>1. ASSUME NEW q \in Onward(t, p)
      PROVE  ParseCharsFragment(t, q) \in Outcome(t, q, CodeSets)
  <2>1. q \in Place
    BY DEF Onward, Place
  <2> QED
    BY <2>1, PosixClassIs, SpecialClassIs, CharsRangeIs, OrIs DEF ParseCharsFragment
<1> QED
  BY <1>1 DEF AreFragments, ClassFragments

(* What is written between the brackets is read as the ranges it is of. *)
LEMMA BodyReads ==
    ASSUME NEW t \in Seq(Token), NEW from \in 1 .. Len(t) + 1, NEW R \in Seq(CharRange) \ {<<>>},
           R = FromRanges(Codes(R)), NEW S1, NEW S2, NEW S3,
           S1 = {r \in CharRange : r[1] = Code("-")},
           S3 = {r \in CharRange : r[1] # Code("-") /\ r[2] = Code("-")},
           S2 = CharRange \ (S1 \cup S3),
           NEW end, end = from + Len((Written(R, S1) \o Written(R, S2)) \o Written(R, S3)),
           Holds(t, from, (Written(R, S1) \o Written(R, S2)) \o Written(R, S3)),
           At(t, end) = RightBracket, end \in from .. Len(t)
    PROVE  Gathers(t, from, from, Codes(R), end) /\ InClass(t, from, end)
<1> DEFINE u == Written(R, S1)
           v == Written(R, S2)
           w == Written(R, S3)
           q == from + Len(u)
           r == q + Len(v)
           n == Len(R)
<1>1. u \in Seq(ClassTokens) /\ v \in Seq(ClassTokens) /\ w \in Seq(ClassTokens)
  BY PartWordsAre
<1>2. u \in Seq(Token) /\ v \in Seq(Token) /\ w \in Seq(Token) /\ u \o v \in Seq(Token)
  <2>1. \A x \in Seq(ClassTokens) : x \in Seq(Token)
    BY DEF ClassTokens
  <2> HIDE DEF u, v, w
  <2> QED
    BY <1>1, <2>1, JoinIs
<1>3. from \in Place
  BY DEF Place
<1>4. DOMAIN R = 1 .. n /\ \A i \in DOMAIN R : R[i] \in CharRange
  OBVIOUS
<1>5. \A i, j \in DOMAIN R : i < j => R[i][1] # R[j][1] /\ R[i][2] # R[j][2]
  BY CodesAre, RangesApart
<1>6. InClass(t, from, end)
  <2> DEFINE b == (u \o v) \o w
  <2>1. b \in Seq(ClassTokens)
    <3> HIDE DEF u, v, w
    <3> QED
      BY <1>1, JoinIs
  <2>2. Holds(t, from, b) /\ end = from + Len(b)
    OBVIOUS
  <2> HIDE DEF b
  <2>3. b \in Seq(Token) /\ \A i \in 1 .. Len(b) : b[i] \notin Names
    BY <2>1 DEF ClassTokens
  <2>4. Len(b) \in Nat
    BY <2>1
  <2>5. ASSUME NEW x \in from .. end
        PROVE  At(t, x) \notin Names
    <3>1. CASE x = end
      <4>1. RightBracket \in Character
        BY BracketsAre, SyntaxIs, Zenon DEF RightBracket
      <4> QED
        BY <3>1, <4>1, TokensAreNot, Zenon
    <3>2. CASE x # end
      <4> DEFINE i == (x - from) + 1
      <4>1. i \in 1 .. Len(b) /\ from + i - 1 = x
        BY <1>3, <2>2, <2>4, <3>2 DEF Place
      <4> HIDE DEF i
      <4>2. t \in Seq(Token) /\ from \in Place /\ Holds(t, from, b) /\ i \in 1 .. Len(b)
        BY <1>3, <2>2, <4>1
      <4>3. At(t, from + i - 1) = b[i]
        BY ONLY <4>2, HoldsAt
      <4> QED
        BY <2>3, <4>1, <4>3
    <3> QED
      BY <3>1, <3>2
  <2> QED
    BY <2>5 DEF InClass
<1>7. /\ Holds(t, from, u) /\ Holds(t, q, v) /\ Holds(t, r, w) /\ end = r + Len(w)
      /\ Len(u) \in Nat /\ Len(v) \in Nat /\ Len(w) \in Nat
  <2> HIDE DEF u, v, w
  <2>1. /\ from \in Place /\ u \o v \in Seq(Token) /\ w \in Seq(Token) /\ u \in Seq(Token) /\ v \in Seq(Token)
        /\ Holds(t, from, (u \o v) \o w)
    BY <1>2, <1>3 DEF u, v, w
  <2>2. /\ Holds(t, from, u \o v) /\ Holds(t, from + Len(u \o v), w)
        /\ from + Len((u \o v) \o w) = (from + Len(u \o v)) + Len(w) /\ Len(w) \in Nat
    <3> DEFINE uv == u \o v
    <3>1. from \in Place /\ uv \in Seq(Token) /\ w \in Seq(Token) /\ Holds(t, from, uv \o w)
      BY <2>1
    <3> HIDE DEF uv
    <3>2. /\ Holds(t, from, uv) /\ Holds(t, from + Len(uv), w)
          /\ from + Len(uv \o w) = (from + Len(uv)) + Len(w) /\ Len(w) \in Nat
      BY ONLY <3>1, HoldsBoth
    <3> QED
      BY <3>2 DEF uv
  <2>3. /\ Holds(t, from, u) /\ Holds(t, from + Len(u), v) /\ from + Len(u \o v) = (from + Len(u)) + Len(v)
        /\ Len(u) \in Nat /\ Len(v) \in Nat
    BY ONLY <2>1, <2>2, HoldsBoth
  <2> QED
    BY <2>2, <2>3, Zenon DEF u, v, w, q, r
<1> HIDE DEF u, v, w
<1>8. q \in from .. end /\ r \in from .. end /\ end \in from .. end /\ from \in from .. end
  BY <1>3, <1>7 DEF Place
<1> HIDE DEF q, r, n
<1>9. /\ \A i \in DOMAIN R : R[i] \in S1 => R[i][1] = Code("-")
      /\ \A i \in DOMAIN R : R[i] \in S2 => R[i][1] # Code("-") /\ ~ EndsWithHyphen(R[i])
      /\ \A i \in DOMAIN R : R[i] \in S3 => R[i][1] # Code("-") /\ EndsWithHyphen(R[i])
      /\ \A i \in DOMAIN R : R[i] \in S1 \/ R[i] \in S2 \/ R[i] \in S3
  BY <1>4 DEF EndsWithHyphen
<1>10. Separated(R, S1) /\ Separated(R, S2) /\ Separated(R, S3)
  BY <1>5, <1>9 DEF Separated, EndsWithHyphen
<1>11. At(t, end) # "-"
  BY BracketsAre
<1>12. Gathers(t, from, r, CodesIn(R, S3, n), end) /\ At(t, r) # "-"
  <2>1. /\ Separated(R, S3) /\ r \in from .. end /\ Holds(t, r, Written(R, S3)) /\ end = r + Len(Written(R, S3))
        /\ (\E i \in DOMAIN R : R[i] \in S3 /\ EndsWithHyphen(R[i])) => At(t, end) = RightBracket
        /\ \A i \in DOMAIN R : R[i] \in S3 => R[i][1] # Code("-")
    BY <1>7, <1>8, <1>9, <1>10 DEF w
  <2>2. t \in Seq(Token) /\ R \in Seq(CharRange)
    OBVIOUS
  <2> QED
    BY ONLY <1>6, <1>8, <1>11, <2>1, <2>2, PartReads DEF n
<1>13. Gathers(t, from, q, CodesIn(R, S2, n), r) /\ At(t, q) # "-"
  <2>1. /\ Separated(R, S2) /\ q \in from .. end /\ Holds(t, q, Written(R, S2)) /\ r = q + Len(Written(R, S2))
        /\ (\E i \in DOMAIN R : R[i] \in S2 /\ EndsWithHyphen(R[i])) => At(t, r) = RightBracket
        /\ \A i \in DOMAIN R : R[i] \in S2 => R[i][1] # Code("-")
    BY <1>7, <1>8, <1>9, <1>10 DEF v, r
  <2>2. t \in Seq(Token) /\ R \in Seq(CharRange)
    OBVIOUS
  <2> QED
    BY ONLY <1>6, <1>8, <1>12, <2>1, <2>2, PartReads DEF n
<1>14. Gathers(t, from, from, CodesIn(R, S1, n), q)
  <2>1. /\ Separated(R, S1) /\ from \in from .. end /\ Holds(t, from, Written(R, S1)) /\ q = from + Len(Written(R, S1))
        /\ (\E i \in DOMAIN R : R[i] \in S1 /\ EndsWithHyphen(R[i])) => At(t, q) = RightBracket
    BY <1>7, <1>8, <1>9, <1>10 DEF u, q, EndsWithHyphen
  <2>2. t \in Seq(Token) /\ R \in Seq(CharRange)
    OBVIOUS
  <2> QED
    BY ONLY <1>6, <1>8, <1>13, <2>1, <2>2, PartReads DEF n
<1>15. Gathers(t, from, from, (CodesIn(R, S1, n) \cup CodesIn(R, S2, n)) \cup CodesIn(R, S3, n), end)
  BY <1>12, <1>13, <1>14, GathersBoth
<1>16. (CodesIn(R, S1, n) \cup CodesIn(R, S2, n)) \cup CodesIn(R, S3, n) = Codes(R)
  <2>1. \A S : CodesIn(R, S, n) \subseteq Codes(R)
    BY CodesAre DEF n
  <2>2. \A x \in Codes(R) : \E i \in DOMAIN R : x \in R[i][1] .. R[i][2]
    BY CodesAre
  <2>3. \A S : \A i \in DOMAIN R : R[i] \in S => R[i][1] .. R[i][2] \subseteq CodesIn(R, S, n)
    BY CodesAre DEF n
  <2> QED
    BY <1>9, <2>1, <2>2, <2>3
<1> QED
  BY <1>6, <1>15, <1>16

(* A tidy class is read as it is written. *)
LEMMA ClassReads ==
    ASSUME NEW t \in Seq(Token), NEW p \in 1 .. Len(t) + 1, NEW R \in Seq(CharRange) \ {<<>>},
           R = FromRanges(Codes(R)), Holds(t, p, WriteChars(R))
    PROVE  At(t, p) = LeftBracket /\ ParseChars(t, p) = Ok(p + Len(WriteChars(R)), ClassOf(Codes(R)))
<1> DEFINE S1 == {r \in CharRange : r[1] = Code("-")}
           S3 == {r \in CharRange : r[1] # Code("-") /\ r[2] = Code("-")}
           S2 == CharRange \ (S1 \cup S3)
           u == Written(R, S1)
           v == Written(R, S2)
           w == Written(R, S3)
           body == (u \o v) \o w
           open == <<LeftBracket>>
           close == <<RightBracket>>
           from == p + 1
           end == from + Len(body)
           fragments == ClassFragments(t, from)
<1>1. u \in Seq(Token) /\ v \in Seq(Token) /\ w \in Seq(Token)
  <2>1. \A x \in Seq(ClassTokens) : x \in Seq(Token)
    BY DEF ClassTokens
  <2> HIDE DEF S1, S2, S3
  <2> QED
    BY <2>1, PartWordsAre
<1>2. open \in Seq(Token) /\ close \in Seq(Token) /\ LeftBracket \in Token /\ RightBracket \in Token
  <2>1. LeftBracket \in Token /\ RightBracket \in Token
    BY BracketsAre, TokensAreNot
  <2> QED
    BY <2>1
<1>3. WriteChars(R) = (((open \o u) \o v) \o w) \o close
  BY Zenon DEF WriteChars, LeftBracket, RightBracket
<1> HIDE DEF u, v, w
<1>4. body \in Seq(Token) /\ u \o v \in Seq(Token)
  BY <1>1, JoinIs
<1>5. ((open \o u) \o v) \o w = open \o body
  <2>0. \A a, b, c \in Seq(Token) : (a \o b) \o c = a \o (b \o c)
    BY JoinsThree
  <2> HIDE DEF open
  <2>1. (open \o u) \o v = open \o (u \o v)
    <3>1. \A c \in Seq(Token) : (open \o u) \o c = open \o (u \o c)
      BY <1>1, <1>2, <2>0
    <3> QED
      BY <1>1, <3>1
  <2>2. (open \o (u \o v)) \o w = open \o ((u \o v) \o w)
    <3> DEFINE uv == u \o v
    <3>1. uv \in Seq(Token)
      BY <1>4
    <3> HIDE DEF uv
    <3>2. \A c \in Seq(Token) : (open \o uv) \o c = open \o (uv \o c)
      BY <1>1, <1>2, <2>0, <3>1
    <3> QED
      BY <1>1, <3>2 DEF uv
  <2> QED
    BY <2>1, <2>2
<1>6. WriteChars(R) = (open \o body) \o close
  BY <1>3, <1>5
<1> HIDE DEF body
<1>7. /\ At(t, p) = LeftBracket /\ p \in 1 .. Len(t) /\ from \in 1 .. Len(t) + 1
      /\ Holds(t, from, body) /\ At(t, end) = RightBracket /\ end \in from .. Len(t)
      /\ p + Len(WriteChars(R)) = end + 1
  <2>1. Holds(t, p, <<LeftBracket>> \o body \o <<RightBracket>>)
    BY <1>6
  <2>2. /\ t \in Seq(Token) /\ p \in 1 .. Len(t) + 1 /\ LeftBracket \in Token /\ RightBracket \in Token
        /\ body \in Seq(Token)
    BY <1>2, <1>4
  <2>3. /\ At(t, p) = LeftBracket /\ p \in 1 .. Len(t) /\ p + 1 \in 1 .. Len(t) + 1
        /\ Holds(t, p + 1, body) /\ At(t, (p + 1) + Len(body)) = RightBracket
        /\ (p + 1) + Len(body) \in p + 1 .. Len(t)
        /\ p + Len(<<LeftBracket>> \o body \o <<RightBracket>>) = ((p + 1) + Len(body)) + 1
    BY ONLY <2>1, <2>2, BracketsHold
  <2> QED
    BY <1>6, <2>3, Zenon
<1>8. Gathers(t, from, from, Codes(R), end) /\ InClass(t, from, end)
  <2> DEFINE text == (Written(R, S1) \o Written(R, S2)) \o Written(R, S3)
  <2>1. body = text
    BY Zenon DEF body, u, v, w
  <2>2. /\ t \in Seq(Token) /\ from \in 1 .. Len(t) + 1 /\ R \in Seq(CharRange) \ {<<>>} /\ R = FromRanges(Codes(R))
        /\ end = from + Len(text) /\ Holds(t, from, text) /\ At(t, end) = RightBracket /\ end \in from .. Len(t)
    <3> HIDE DEF text
    <3> QED
      BY <1>7, <2>1
  <2>3. /\ S1 = {r \in CharRange : r[1] = Code("-")} /\ S2 = CharRange \ (S1 \cup S3)
        /\ S3 = {r \in CharRange : r[1] # Code("-") /\ r[2] = Code("-")}
    OBVIOUS
  <2> HIDE DEF S1, S2, S3, from, end
  <2> QED
    BY ONLY <2>2, <2>3, BodyReads
<1>9. p \in Place /\ from \in Place /\ from <= Len(t) + 1 /\ end \in Place /\ end \in Onward(t, from) /\ p \in Nat
  <2> DEFINE l == Len(t)
  <2>1. p \in 1 .. l /\ from \in 1 .. l + 1 /\ end \in from .. l /\ l \in Nat
    BY <1>7
  <2> HIDE DEF l, end
  <2>2. p \in Place /\ from \in Place /\ from <= l + 1 /\ end \in Place /\ end \in from .. l + 1 /\ p \in Nat
    BY <2>1 DEF Place
  <2> QED
    BY <2>2 DEF Onward, l
<1> HIDE DEF end
<1>10. PICK s \in Seq(CodeSets) : Path(fragments, from, s, end) /\ UNION ToSet(s) = Codes(R)
  BY <1>8 DEF Gathers
<1>11. s # <<>>
  <2>1. Codes(R) # {}
    BY CodesAre DEF CodeSets
  <2>2. UNION ToSet(<<>>) = {}
    BY DEF ToSet
  <2> QED
    BY <1>10, <2>1, <2>2
<1>12. fragments[end].kind = "error"
  <2>1. fragments[end] = ParseCharsFragment(t, end)
    BY <1>9 DEF ClassFragments
  <2> QED
    BY <1>7, <1>9, <2>1, ClassStops
<1>13. Many1(fragments, from) = Ok(end, s)
  <2>1. AreFragments(fragments, t, from, CodeSets)
    BY <1>9, ClassFragmentsAre
  <2>2. t \in Seq(Token) /\ from \in Place /\ from <= Len(t) + 1 /\ s \in Seq(CodeSets)
    BY <1>9
  <2>3. Path(fragments, from, s, end)
    BY <1>10
  <2> HIDE DEF fragments, from
  <2> QED
    BY ONLY <1>11, <1>12, <2>1, <2>2, <2>3, Many1Reads
<1> DEFINE inner == Mapped(Many1(fragments, from), Class)
<1>14. inner = Ok(end, ClassOf(Codes(R)))
  <2>1. Ok(end, s).kind = "ok" /\ Ok(end, s).rest = end /\ Ok(end, s).value = s
    BY DEF Ok
  <2>2. Class(s) = ClassOf(Codes(R))
    BY <1>10 DEF Class
  <2> HIDE DEF fragments
  <2> QED
    BY <1>13, <2>1, <2>2, Zenon DEF Mapped
<1>15. ParseCharsBrackets(t, p) = Ok(end + 1, ClassOf(Codes(R)))
  <2>1. ParseCharsBrackets(t, p) = Delimited(t, p, LeftBracket, inner, RightBracket)
    BY Zenon DEF ParseCharsBrackets, LeftBracket, RightBracket, ClassFragments
  <2> HIDE DEF inner
  <2> QED
    BY <1>7, <1>14, <2>1, DelimitedOk
<1>16. ParseLegacyWords(t, p) = Error
  <2> DEFINE legacy == <<LeftBracket, ":", "word", ":", RightBracket>>
  <2>1. ~ StartsWith(t, p, legacy)
    <3> SUFFICES ASSUME StartsWith(t, p, legacy) PROVE FALSE
      OBVIOUS
    <3>1. 2 \in DOMAIN legacy /\ 3 \in DOMAIN legacy /\ legacy[2] = ":" /\ legacy[3] = "word"
      OBVIOUS
    <3>2. p + 2 - 1 = p + 1 /\ p + 3 - 1 = p + 2
      BY <1>9
    <3> HIDE DEF legacy
    <3>3. At(t, p + 1) = ":" /\ At(t, p + 2) = "word"
      BY <3>1, <3>2 DEF StartsWith
    <3>4. from # end
      BY <1>7, <3>3, BracketsAre
    <3>5. p + 2 \in from .. end
      BY <1>7, <1>9, <3>4
    <3>6. "word" \notin Names
      BY <1>8, <3>3, <3>5 DEF InClass
    <3> QED
      BY <3>6 DEF Names
  <2> QED
    BY <2>1, Zenon DEF ParseLegacyWords, LeftBracket, RightBracket
<1>17. ParseChars(t, p) = Ok(end + 1, ClassOf(Codes(R)))
  <2>1. Ok(end + 1, ClassOf(Codes(R))).kind # "error"
    BY DEF Ok
  <2>2. Error.kind = "error"
    BY DEF Error
  <2> QED
    BY <1>15, <1>16, <2>1, <2>2, Zenon DEF ParseChars, Or
<1> QED
  BY <1>7, <1>17, Zenon

-----------------------------------------------------------------------------
(* Tidy schemas are read as they are written. *)

(* A node has the fields of its kind and no others. *)
Shaped(n) ==
    \/ n.kind = "literal" /\ n = Literal(n.text)
    \/ n.kind = "generator" /\ n = Generator(n.text)
    \/ n.kind = "chars" /\ n = [kind |-> "chars", ranges |-> n.ranges]
    \/ n.kind = "count" /\ n = Count(n.item, n.min, n.max) /\ n.min <= n.max
    \/ n.kind = "list" /\ n = [kind |-> "list", items |-> n.items] /\ Len(n.items) > 1

LEMMA ShapedIs == \A n \in Node : Shaped(n)
<1>1. ASSUME NEW S, NEW n \in NodesOver(S)
      PROVE  Shaped(n)
  <2>1. CASE n \in [kind : {"literal", "generator"}, text : Seq(Token) \ {<<>>}]
    <3>1. n = [kind |-> n.kind, text |-> n.text] /\ n.kind \in {"literal", "generator"}
      BY <2>1
    <3> QED
      BY <3>1 DEF Shaped, Literal, Generator
  <2>2. CASE n \in [kind : {"chars"}, ranges : Seq(CharRange) \ {<<>>}]
    <3>1. n = [kind |-> n.kind, ranges |-> n.ranges] /\ n.kind = "chars"
      BY <2>2
    <3> QED
      BY <3>1 DEF Shaped
  <2>3. CASE n \in {m \in [kind : {"count"}, item : S, min : Nat, max : Nat] : m.min <= m.max}
    <3>1. n = [kind |-> n.kind, item |-> n.item, min |-> n.min, max |-> n.max] /\ n.kind = "count" /\ n.min <= n.max
      BY <2>3
    <3> QED
      BY <3>1 DEF Shaped, Count
  <2>4. CASE n \in {m \in [kind : {"list"}, items : Seq(S)] : Len(m.items) > 1}
    <3>1. n = [kind |-> n.kind, items |-> n.items] /\ n.kind = "list" /\ Len(n.items) > 1
      BY <2>4
    <3> QED
      BY <3>1 DEF Shaped
  <2> QED
    BY <1>1, <2>1, <2>2, <2>3, <2>4, Zenon DEF NodesOver, Leaf
<1>2. MaxDepth \in Nat /\ MaxDepth \in 0 .. MaxDepth
  BY DepthAssumption
<1>3. NodesTo[MaxDepth] = IF MaxDepth = 0 THEN Leaf ELSE NodesOver(NodesTo[MaxDepth - 1])
  BY <1>2, NodesToIs DEF Tower
<1>4. Leaf \subseteq NodesOver({})
  BY Zenon DEF NodesOver
<1> QED
  BY <1>1, <1>3, <1>4, Zenon DEF Node

(* Whether a node is tidy depends on whether its parts are. *)
PartsTold(f, n) ==
    /\ n.kind = "count" => f[n.item] \in BOOLEAN
    /\ n.kind = "list" => \A i \in DOMAIN n.items : f[n.items[i]] \in BOOLEAN

LEMMA TidyOfIs ==
    ASSUME NEW n \in Node, NEW f, PartsTold(f, n)
    PROVE  TidyOf(f, n) \in BOOLEAN
<1>1. n.kind \in {"literal", "chars", "generator", "count", "list"}
  <2>1. MadeOf(n, Node)
    BY LevelIs, Zenon DEF PartsAreLower
  <2> QED
    BY <2>1, Zenon DEF MadeOf
<1>2. CASE n.kind = "literal"
  BY <1>2 DEF TidyOf
<1>3. CASE n.kind = "chars"
  BY <1>3 DEF TidyOf
<1>4. CASE n.kind = "generator"
  <2>1. TidyGenerator(n.text) \in BOOLEAN
    BY Zenon DEF TidyGenerator
  <2> QED
    BY <1>4, <2>1 DEF TidyOf
<1>5. CASE n.kind = "count"
  <2> DEFINE b == CountOf(n, "count")
  <2>1. TidyOf(f, n) = (~ b /\ f[n.item])
    BY <1>5 DEF TidyOf
  <2>2. f[n.item] \in BOOLEAN
    BY <1>5 DEF PartsTold
  <2> HIDE DEF b
  <2> QED
    BY <2>1, <2>2, Zenon
<1>6. CASE n.kind = "list"
  <2> DEFINE a == Apart(n.items)
             b == \A i \in DOMAIN n.items : f[n.items[i]]
  <2>1. TidyOf(f, n) = (a /\ b)
    BY <1>6 DEF TidyOf
  <2> HIDE DEF a, b
  <2> QED
    BY <2>1, Zenon
<1> QED
  BY <1>1, <1>2, <1>3, <1>4, <1>5, <1>6, Zenon

LEMMA TidySame ==
    ASSUME NEW n \in Node, NEW v, NEW w, \A m \in Node : Level[m] < Level[n] => v[m] = w[m]
    PROVE  TidyOf(v, n) = TidyOf(w, n)
<1>1. PartsAreLower(n)
  BY LevelIs
<1>2. n.kind = "count" => v[n.item] = w[n.item]
  BY <1>1 DEF PartsAreLower, MadeOf
<1>3. n.kind = "list" => \A i \in DOMAIN n.items : v[n.items[i]] = w[n.items[i]]
  <2> SUFFICES ASSUME n.kind = "list"
               PROVE  \A i \in DOMAIN n.items : v[n.items[i]] = w[n.items[i]]
    BY Zenon
  <2> DEFINE items == n.items
  <2>1. items \in Seq(Node) /\ \A i \in DOMAIN items : Level[items[i]] < Level[n]
    BY <1>1 DEF PartsAreLower, MadeOf
  <2> HIDE DEF items
  <2>2. \A i \in DOMAIN items : items[i] \in Node
    BY <2>1
  <2>3. \A i \in DOMAIN items : v[items[i]] = w[items[i]]
    BY <2>1, <2>2
  <2> QED
    BY <2>3 DEF items
<1>4. CASE n.kind = "count"
  BY <1>2, <1>4 DEF TidyOf
<1>5. CASE n.kind = "list"
  <2>1. TidyOf(v, n) = (Apart(n.items) /\ \A i \in DOMAIN n.items : v[n.items[i]])
    BY <1>5 DEF TidyOf
  <2>2. TidyOf(w, n) = (Apart(n.items) /\ \A i \in DOMAIN n.items : w[n.items[i]])
    BY <1>5 DEF TidyOf
  <2>3. (\A i \in DOMAIN n.items : v[n.items[i]]) <=> (\A i \in DOMAIN n.items : w[n.items[i]])
    BY <1>3, <1>5
  <2> DEFINE a == Apart(n.items)
             b == \A i \in DOMAIN n.items : v[n.items[i]]
             c == \A i \in DOMAIN n.items : w[n.items[i]]
  <2>4. TidyOf(v, n) = (a /\ b) /\ TidyOf(w, n) = (a /\ c) /\ (b <=> c)
    BY <2>1, <2>2, <2>3
  <2> HIDE DEF a, b, c
  <2>5. (a /\ b) = (a /\ c)
    BY <2>4
  <2> QED
    BY <2>4, <2>5
<1>6. CASE n.kind \notin {"count", "list"}
  BY <1>6 DEF TidyOf
<1> QED
  BY <1>4, <1>5, <1>6

(* Which nodes are tidy is what its definition says. *)
LEMMA TidyIs == \A n \in Node : Tidy[n] = TidyOf(Tidy, n)
<1> DEFINE A == BOOLEAN
           G == [Node -> A]
           step == [f \in G |-> [n \in Node |-> TidyOf(f, n)]]
           g0 == [n \in Node |-> TRUE]
<1>1. MaxDepth \in Nat /\ Level \in [Node -> 0 .. MaxDepth]
  BY DepthAssumption, LevelIs
<1>2. ASSUME NEW f \in G, NEW n \in Node
      PROVE  TidyOf(f, n) \in A
  <2>1. MadeOf(n, Node)
    BY LevelIs, Zenon DEF PartsAreLower
  <2>2. n.kind = "count" => f[n.item] \in BOOLEAN
    BY <2>1 DEF MadeOf
  <2>3. n.kind = "list" => \A i \in DOMAIN n.items : f[n.items[i]] \in BOOLEAN
    <3> SUFFICES ASSUME n.kind = "list" PROVE \A i \in DOMAIN n.items : f[n.items[i]] \in BOOLEAN
      OBVIOUS
    <3> DEFINE items == n.items
    <3>1. items \in Seq(Node)
      BY <2>1 DEF MadeOf
    <3> HIDE DEF items
    <3>2. \A i \in DOMAIN items : f[items[i]] \in BOOLEAN
      BY <3>1
    <3> QED
      BY <3>2 DEF items
  <2> QED
    BY <2>2, <2>3, TidyOfIs DEF PartsTold
<1>3. step \in [G -> G]
  <2> SUFFICES ASSUME NEW f \in G PROVE [n \in Node |-> TidyOf(f, n)] \in G
    OBVIOUS
  <2>1. \A n \in Node : TidyOf(f, n) \in A
    BY <1>2
  <2> HIDE DEF A
  <2> QED
    BY <2>1
<1>4. IsLocal(step, G, Node, Level)
  <2> SUFFICES ASSUME NEW v \in G, NEW w \in G, NEW n \in Node, \A m \in Node : Level[m] < Level[n] => v[m] = w[m]
               PROVE  step[v][n] = step[w][n]
    BY Zenon DEF IsLocal
  <2>1. TidyOf(v, n) = TidyOf(w, n)
    BY TidySame
  <2> QED
    BY <2>1, Zenon
<1>5. g0 \in G /\ G \in SUBSET [Node -> A]
  OBVIOUS
<1>6. Tidy = CHOOSE f : f = [n \in Node |-> TidyOf(f, n)]
  BY DEF Tidy
<1> HIDE DEF step, g0, G
<1>7. IsRecursion(Node, MaxDepth, Level, A, G, g0, step)
  BY <1>1, <1>3, <1>4, <1>5, Zenon DEF IsRecursion
<1>8. \E f \in G : step[f] = f
  BY ONLY <1>7, RankRecursion
<1>9. Tidy = [n \in Node |-> TidyOf(Tidy, n)]
  <2>1. PICK f \in G : step[f] = f
    BY <1>8
  <2>2. f = [n \in Node |-> TidyOf(f, n)]
    BY <2>1 DEF step
  <2> QED
    BY <1>6, <2>2, Zenon
<1> QED
  BY <1>9, Zenon

LeftParen == "("
RightParen == ")"

LEMMA ParensAre ==
    /\ LeftParen \in Token /\ RightParen \in Token
    /\ LeftParen \in Stop /\ RightParen \in Stop /\ LeftBrace \in Stop /\ LeftBracket \in Stop /\ NoToken \in Stop
    /\ \A c \in {LeftParen, RightParen, NoToken, LeftBrace} : c # LeftBracket /\ c # "\\"
    /\ \A c \in {LeftParen, RightParen, NoToken, LeftBracket} : c # LeftBrace
    /\ RightParen # LeftParen /\ NoToken # LeftParen
<1>1. /\ LeftParen \in Syntax /\ RightParen \in Syntax /\ LeftBrace \in Syntax /\ LeftBracket \in Syntax
      /\ LeftParen # "\\" /\ RightParen # "\\" /\ LeftBrace # "\\" /\ LeftBracket # "\\"
      /\ LeftParen # LeftBracket /\ RightParen # LeftBracket /\ LeftBrace # LeftBracket
      /\ LeftParen # LeftBrace /\ RightParen # LeftBrace /\ RightParen # LeftParen
      /\ "\\" \in Syntax
  BY Zenon DEF LeftParen, RightParen, LeftBrace, LeftBracket, Syntax
<1>2. \A c \in Syntax : c # NoToken /\ c \in Token
  BY TokensAreNot, Zenon
<1> QED
  BY <1>1, <1>2 DEF Stop

(* No class starts with anything else. *)
LEMMA CharsStop ==
    ASSUME NEW t, NEW p \in Place, At(t, p) # LeftBracket, At(t, p) # "\\"
    PROVE  ParseChars(t, p) = Error
<1>1. p + 1 - 1 = p
  BY DEF Place
<1>2. Error.kind = "error"
  BY DEF Error
<1>3. ParseLegacyWords(t, p) = Error
  <2> DEFINE legacy == <<LeftBracket, ":", "word", ":", RightBracket>>
  <2>1. 1 \in DOMAIN legacy /\ legacy[1] = LeftBracket
    OBVIOUS
  <2> HIDE DEF legacy
  <2>2. ~ StartsWith(t, p, legacy)
    BY <1>1, <2>1 DEF StartsWith
  <2> QED
    BY <2>2, Zenon DEF ParseLegacyWords, LeftBracket, RightBracket, legacy
<1>4. ParseCharsBrackets(t, p) = Error
  BY Zenon DEF ParseCharsBrackets, Delimited, LeftBracket
<1>5. ParseCharsSpecial(t, p) = Error
  <2>1. 1 \in DOMAIN <<"\\", "w">> /\ <<"\\", "w">>[1] = "\\" /\ 1 \in DOMAIN <<"\\", "d">> /\ <<"\\", "d">>[1] = "\\"
    OBVIOUS
  <2>2. ~ StartsWith(t, p, <<"\\", "w">>) /\ ~ StartsWith(t, p, <<"\\", "d">>)
    BY <1>1, <2>1 DEF StartsWith
  <2> QED
    BY <2>2, Zenon DEF ParseCharsSpecial
<1>6. Error.kind # "ok"
  BY DEF Error
<1> QED
  BY <1>2, <1>3, <1>4, <1>5, <1>6, Zenon DEF ParseChars, Or, Mapped

(* And no generator *)
LEMMA GeneratorStops ==
    ASSUME NEW t, NEW p, At(t, p) # LeftBrace
    PROVE  ParseGenerator(t, p) = Error
BY Zenon DEF ParseGenerator, Delimited, LeftBrace

(* There is nothing to read where a list or the schema ends. *)
LEMMA CountStops ==
    ASSUME NEW t \in Seq(Token), NEW p \in 1 .. Len(t) + 1, At(t, p) \in {RightParen, NoToken}, NEW nodes
    PROVE  ParseCount(t, nodes, p).kind = "error" /\ ParseBraces(t, p).kind # "ok"
<1>0. p \in Place
  BY DEF Place
<1>1. ParseLiteral(t, p) = Error
  BY ParensAre, LiteralStops
<1>2. ParseChars(t, p) = Error
  BY <1>0, ParensAre, CharsStop
<1>3. ParseGenerator(t, p) = Error
  BY ParensAre, GeneratorStops
<1>4. ParseList(t, nodes, p) = Error
  <2>1. At(t, p) # LeftParen
    BY ParensAre
  <2> QED
    BY <2>1, Zenon DEF ParseList, Delimited, LeftParen
<1>5. Error.kind = "error" /\ Error.kind # "ok"
  BY DEF Error
<1>6. ParseSingle(t, nodes, p) = Error
  BY <1>1, <1>2, <1>3, <1>4, <1>5, Zenon DEF ParseSingle, Or
<1>7. ParseCount(t, nodes, p) = Error
  BY <1>5, <1>6, Zenon DEF ParseCount, CountAfter, Counted
<1>8. ParseBraces(t, p).kind # "ok"
  BY <1>0, ParensAre, BracesStop
<1> QED
  BY <1>5, <1>7, <1>8

(* No string begins with what would end one. *)
LEMMA LiteralBegins ==
    ASSUME NEW t \in Seq(Token), NEW p \in 1 .. Len(t) + 1, NEW s \in Seq(Token) \ {<<>>},
           Holds(t, p, WriteLiteral(s))
    PROVE  At(t, p) \notin Stop
<1> DEFINE words == [i \in DOMAIN s |-> EscapeLiteral(s[i])]
           n == Len(s)
<1>1. n \in Nat /\ n >= 1 /\ DOMAIN s = 1 .. n /\ \A i \in 1 .. n : s[i] \in Token
  OBVIOUS
<1> HIDE DEF n
<1>2. words = [i \in 1 .. n |-> words[i]] /\ \A i \in 1 .. n : words[i] = EscapeLiteral(s[i])
  BY <1>1
<1> HIDE DEF words
<1>3. \A i \in 1 .. n : words[i] \in Seq(Token)
  BY <1>1, <1>2, EscapeIs
<1>4. AreWords(Token, words, n)
  BY <1>1, <1>2, <1>3, AsWords
<1>5. Holds(t, p, FlattenSeq(words))
  BY DEF WriteLiteral, words
<1>6. PICK pos : Laid(t, p, words, n, pos)
  BY <1>4, <1>5, HoldsEach
<1>7. Holds(t, p, words[1]) /\ 1 \in 1 .. n
  BY <1>1, <1>6 DEF Laid
<1>8. words[1] \in Seq(Token) /\ words[1] # <<>> /\ words[1][1] \notin Stop
  BY <1>1, <1>2, <1>7, EscapeIs
<1>9. At(t, p) = words[1][1]
  <2>1. p \in Place
    BY DEF Place
  <2> QED
    BY <1>7, <1>8, <2>1, HoldsFirst
<1> QED
  BY <1>8, <1>9

(* What is written of each kind of tidy node, and what the node is made of *)
LEMMA TidyLiteralIs ==
    ASSUME NEW n \in Node, n.kind = "literal"
    PROVE  /\ n.text \in Seq(Token) \ {<<>>} /\ n = Literal(n.text) /\ WriteNode[n] = WriteLiteral(n.text)
<1>1. MadeOf(n, Node) /\ Shaped(n)
  BY LevelIs, ShapedIs, Zenon DEF PartsAreLower
<1>2. n.text \in Seq(Token) \ {<<>>} /\ n = Literal(n.text)
  BY <1>1 DEF MadeOf, Shaped
<1>3. WriteNode[n] = Writing(WriteNode, n)
  BY WriteNodeIs, Zenon
<1> QED
  BY <1>2, <1>3 DEF Writing

LEMMA TidyClassIs ==
    ASSUME NEW n \in Node, n.kind = "chars", Tidy[n]
    PROVE  /\ n.ranges \in Seq(CharRange) \ {<<>>} /\ n = ClassOf(Codes(n.ranges))
           /\ n.ranges = FromRanges(Codes(n.ranges)) /\ WriteNode[n] = WriteChars(n.ranges)
<1>1. MadeOf(n, Node)
  BY LevelIs, Zenon DEF PartsAreLower
<1>2. n.ranges \in Seq(CharRange) \ {<<>>}
  BY <1>1 DEF MadeOf
<1>3. WriteNode[n] = Writing(WriteNode, n) /\ Tidy[n] = TidyOf(Tidy, n)
  BY WriteNodeIs, TidyIs, Zenon
<1>4. WriteNode[n] = WriteChars(n.ranges)
  BY <1>3 DEF Writing
<1>5. n = ClassOf(Codes(n.ranges))
  BY <1>3 DEF TidyOf
<1>6. n.ranges = FromRanges(Codes(n.ranges))
  <2> DEFINE r == FromRanges(Codes(n.ranges))
  <2>1. n = [kind |-> "chars", ranges |-> r]
    BY <1>5 DEF ClassOf
  <2> HIDE DEF r
  <2>2. n.ranges = r
    BY <2>1
  <2> QED
    BY <2>2 DEF r
<1> QED
  BY <1>2, <1>4, <1>5, <1>6

LEMMA TidyGeneratorNodeIs ==
    ASSUME NEW n \in Node, n.kind = "generator", Tidy[n]
    PROVE  /\ n.text \in Seq(Token) \ {<<>>} /\ n = Generator(n.text)
           /\ TidyGenerator(n.text) /\ WriteNode[n] = WriteGenerator(n.text)
<1>1. MadeOf(n, Node) /\ Shaped(n)
  BY LevelIs, ShapedIs, Zenon DEF PartsAreLower
<1>2. n.text \in Seq(Token) \ {<<>>} /\ n = Generator(n.text)
  BY <1>1 DEF MadeOf, Shaped
<1>3. WriteNode[n] = Writing(WriteNode, n) /\ Tidy[n] = TidyOf(Tidy, n)
  BY WriteNodeIs, TidyIs, Zenon
<1>4. WriteNode[n] = WriteGenerator(n.text)
  BY <1>3 DEF Writing
<1>5. TidyGenerator(n.text)
  BY <1>3 DEF TidyOf
<1> QED
  BY <1>2, <1>4, <1>5

LEMMA TidyCountIs ==
    ASSUME NEW n \in Node, n.kind = "count", Tidy[n]
    PROVE  /\ n.item \in Node /\ Level[n.item] < Level[n] /\ n.item.kind # "count" /\ Tidy[n.item]
           /\ n.min \in Nat /\ n.max \in Nat /\ n.min <= n.max /\ n = Count(n.item, n.min, n.max)
           /\ WriteNode[n] = WriteNode[n.item] \o WriteBounds(n.min, n.max)
<1>1. PartsAreLower(n) /\ Shaped(n)
  BY LevelIs, ShapedIs, Zenon
<1>2. n.item \in Node /\ n.min \in Nat /\ n.max \in Nat /\ Level[n.item] < Level[n]
  BY <1>1 DEF PartsAreLower, MadeOf
<1>3. n.min <= n.max /\ n = Count(n.item, n.min, n.max)
  BY <1>1 DEF Shaped
<1>4. WriteNode[n] = Writing(WriteNode, n) /\ Tidy[n] = TidyOf(Tidy, n)
  BY WriteNodeIs, TidyIs, Zenon
<1>5. WriteNode[n] = WriteNode[n.item] \o WriteBounds(n.min, n.max)
  BY <1>4 DEF Writing
<1>6. ~ CountOf(n, "count") /\ Tidy[n.item]
  BY <1>4 DEF TidyOf
<1>7. n.item.kind # "count"
  BY <1>6 DEF CountOf
<1> QED
  BY <1>2, <1>3, <1>5, <1>6, <1>7

(* The texts of the items of a list *)
Words(items) == [i \in DOMAIN items |-> WriteNode[items[i]]]

LEMMA WordsAre ==
    ASSUME NEW items \in Seq(Node)
    PROVE  /\ AreWords(Token, Words(items), Len(items)) /\ FlattenSeq(Words(items)) \in Seq(Token)
           /\ \A i \in 1 .. Len(items) : Words(items)[i] = WriteNode[items[i]] /\ items[i] \in Node
<1> DEFINE words == Words(items)
           n == Len(items)
<1>1. n \in Nat /\ DOMAIN items = 1 .. n /\ \A i \in 1 .. n : items[i] \in Node
  OBVIOUS
<1>2. \A i \in 1 .. n : WriteNode[items[i]] \in Seq(Token)
  BY <1>1, WriteNodeIs
<1> HIDE DEF n
<1>3. words = [i \in 1 .. n |-> words[i]] /\ \A i \in 1 .. n : words[i] = WriteNode[items[i]]
  BY <1>1 DEF Words
<1> HIDE DEF words
<1>4. \A i \in 1 .. n : words[i] \in Seq(Token)
  BY <1>2, <1>3
<1>5. AreWords(Token, words, n)
  BY <1>1, <1>3, <1>4, AsWords
<1>6. FlattenSeq(words) \in Seq(Token)
  BY <1>1, <1>3, <1>4, FlattensTo
<1> QED
  BY <1>1, <1>3, <1>5, <1>6 DEF words, n

LEMMA TidyListIs ==
    ASSUME NEW n \in Node, n.kind = "list", Tidy[n]
    PROVE  /\ n.items \in Seq(Node) /\ Len(n.items) > 1 /\ n = [kind |-> "list", items |-> n.items]
           /\ Apart(n.items)
           /\ \A i \in 1 .. Len(n.items) : Tidy[n.items[i]] /\ Level[n.items[i]] < Level[n]
           /\ WriteNode[n] = <<LeftParen>> \o FlattenSeq(Words(n.items)) \o <<RightParen>>
<1>1. PartsAreLower(n) /\ Shaped(n)
  BY LevelIs, ShapedIs, Zenon
<1>2. n.items \in Seq(Node) /\ \A i \in DOMAIN n.items : Level[n.items[i]] < Level[n]
  BY <1>1 DEF PartsAreLower, MadeOf
<1>3. Len(n.items) > 1 /\ n = [kind |-> "list", items |-> n.items]
  BY <1>1 DEF Shaped
<1>4. WriteNode[n] = Writing(WriteNode, n) /\ Tidy[n] = TidyOf(Tidy, n)
  BY WriteNodeIs, TidyIs, Zenon
<1>5. WriteNode[n] = <<"(">> \o FlattenSeq(Words(n.items)) \o <<")">>
  BY <1>4 DEF Writing, Words
<1>6. Apart(n.items) /\ \A i \in DOMAIN n.items : Tidy[n.items[i]]
  BY <1>4 DEF TidyOf
<1>7. DOMAIN n.items = 1 .. Len(n.items)
  BY <1>2
<1>8. WriteNode[n] = <<LeftParen>> \o FlattenSeq(Words(n.items)) \o <<RightParen>>
  BY <1>5, Zenon DEF LeftParen, RightParen
<1> QED
  BY <1>2, <1>3, <1>6, <1>7, <1>8

(* What a node begins with, where its text is: no bounds, and syntax unless *)
(* it is a string or a count of one                                         *)
Begins(t, p, n) ==
    /\ ParseBraces(t, p).kind # "ok"
    /\ n.kind # "literal" /\ ~ CountOf(n, "literal") => At(t, p) \in Stop

LEMMA SingleBegins ==
    ASSUME NEW t \in Seq(Token), NEW p \in 1 .. Len(t) + 1, NEW n \in Node, Tidy[n], n.kind # "count",
           Holds(t, p, WriteNode[n])
    PROVE  Begins(t, p, n)
<1>0. p \in Place
  BY DEF Place
<1>1. n.kind \in {"literal", "chars", "generator", "list"}
  <2>1. MadeOf(n, Node)
    BY LevelIs, Zenon DEF PartsAreLower
  <2> QED
    BY <2>1, Zenon DEF MadeOf
<1>2. CASE n.kind = "literal"
  <2>1. At(t, p) \notin Stop
    BY <1>2, TidyLiteralIs, LiteralBegins
  <2>2. At(t, p) # LeftBrace
    BY <2>1, ParensAre
  <2> QED
    BY <1>0, <1>2, <2>2, BracesStop DEF Begins
<1>3. CASE n.kind = "chars"
  <2>1. At(t, p) = LeftBracket
    BY <1>3, TidyClassIs, ClassReads
  <2>2. At(t, p) # LeftBrace /\ At(t, p) \in Stop
    BY <2>1, ParensAre
  <2> QED
    BY <1>0, <2>2, BracesStop DEF Begins
<1>4. CASE n.kind = "generator"
  <2>1. At(t, p) = LeftBrace /\ At(t, p + 1) \in Lower
    BY <1>4, TidyGeneratorNodeIs, GeneratorReads
  <2>2. At(t, p) \in Stop
    BY <2>1, ParensAre
  <2> QED
    BY <1>0, <2>1, <2>2, BracesStop DEF Begins
<1>5. CASE n.kind = "list"
  <2> DEFINE inner == FlattenSeq(Words(n.items))
  <2>1. inner \in Seq(Token) /\ WriteNode[n] = <<LeftParen>> \o inner \o <<RightParen>>
    BY <1>5, TidyListIs, WordsAre
  <2> HIDE DEF inner
  <2>2. Holds(t, p, <<LeftParen>> \o inner \o <<RightParen>>)
    BY <2>1
  <2>3. At(t, p) = LeftParen
    BY <2>1, <2>2, ParensAre, BracketsHold
  <2>4. At(t, p) # LeftBrace /\ At(t, p) \in Stop
    BY <2>3, ParensAre
  <2> QED
    BY <1>0, <2>4, BracesStop DEF Begins
<1> QED
  BY <1>1, <1>2, <1>3, <1>4, <1>5, Zenon

LEMMA NodeBegins ==
    ASSUME NEW t \in Seq(Token), NEW p \in 1 .. Len(t) + 1, NEW n \in Node, Tidy[n],
           Holds(t, p, WriteNode[n])
    PROVE  Begins(t, p, n)
<1>1. CASE n.kind # "count"
  BY <1>1, SingleBegins
<1>2. CASE n.kind = "count"
  <2> DEFINE item == n.item
             u == WriteNode[item]
             v == WriteBounds(n.min, n.max)
  <2>1. /\ item \in Node /\ item.kind # "count" /\ Tidy[item] /\ n.min \in Nat /\ n.max \in Nat
        /\ WriteNode[n] = u \o v
    BY <1>2, TidyCountIs
  <2>2. u \in Seq(Token) /\ v \in Seq(Token)
    BY <2>1, WriteNodeIs, WriteBoundsIs
  <2>3. p \in Place
    BY DEF Place
  <2>4. Holds(t, p, u \o v)
    BY <2>1
  <2>5. Holds(t, p, u)
    <3> HIDE DEF u, v
    <3> QED
      BY <2>2, <2>3, <2>4, HoldsBoth
  <2>6. Begins(t, p, item)
    BY <2>1, <2>5, SingleBegins
  <2>7. CountOf(n, "literal") <=> item.kind = "literal"
    BY <1>2 DEF CountOf
  <2>8. ~ CountOf(item, "literal")
    BY <2>1 DEF CountOf
  <2> QED
    BY <2>6, <2>7, <2>8 DEF Begins
<1> QED
  BY <1>1, <1>2

(* Where the text of a node ends *)
End(p, n) == p + Len(WriteNode[n])

(* A string that is written before this would be read with it. *)
Ends(t, p, n) == n.kind = "literal" => At(t, End(p, n)) \in Stop

(* A node that is no count, as ParseSingle gives it *)
SingleRead(t, n) ==
    \A p \in 1 .. Len(t) + 1 :
        Holds(t, p, WriteNode[n]) /\ Ends(t, p, n) => ParseSingle(t, Nodes(t), p) = Ok(End(p, n), n)

(* A node as ParseCount gives it *)
CountRead(t, n) ==
    \A p \in 1 .. Len(t) + 1 :
        Holds(t, p, WriteNode[n]) /\ Ends(t, p, n) /\ (n.kind # "count" => ParseBraces(t, End(p, n)).kind # "ok")
            => ParseCount(t, Nodes(t), p) = Ok(End(p, n), n)

LEMMA OkIsOk == \A q, v : Ok(q, v).kind = "ok" /\ Ok(q, v).kind # "error" /\ Ok(q, v).rest = q /\ Ok(q, v).value = v
BY DEF Ok

(* Strings, classes and generators *)
LEMMA LeafRead ==
    ASSUME NEW t \in Seq(Token), NEW n \in Node, Tidy[n], n.kind \in {"literal", "chars", "generator"}
    PROVE  SingleRead(t, n)
<1> SUFFICES ASSUME NEW p \in 1 .. Len(t) + 1, Holds(t, p, WriteNode[n]), Ends(t, p, n)
             PROVE  ParseSingle(t, Nodes(t), p) = Ok(End(p, n), n)
  BY Zenon DEF SingleRead
<1>0. p \in Place
  BY DEF Place
<1>1. Error.kind = "error"
  BY DEF Error
<1>2. CASE n.kind = "literal"
  <2> DEFINE s == n.text
             w == WriteLiteral(s)
  <2>1. s \in Seq(Token) \ {<<>>} /\ n = Literal(s) /\ WriteNode[n] = w
    BY <1>2, TidyLiteralIs
  <2> HIDE DEF s
  <2>2. Holds(t, p, w) /\ At(t, p + Len(w)) \in Stop /\ End(p, n) = p + Len(w)
    BY <1>2, <2>1 DEF Ends, End
  <2>3. ParseLiteral(t, p) = Ok(p + Len(w), Literal(s))
    BY <2>1, <2>2, LiteralReads
  <2>4. ParseLiteral(t, p) = Ok(End(p, n), n)
    BY <2>1, <2>2, <2>3
  <2> QED
    BY <2>4, OkIsOk, Zenon DEF ParseSingle, Or
<1>3. CASE n.kind = "chars"
  <2>1. At(t, p) = LeftBracket /\ ParseChars(t, p) = Ok(End(p, n), n)
    <3> DEFINE R == n.ranges
               w == WriteChars(R)
    <3>1. R \in Seq(CharRange) \ {<<>>} /\ R = FromRanges(Codes(R)) /\ n = ClassOf(Codes(R)) /\ WriteNode[n] = w
      BY <1>3, TidyClassIs
    <3> HIDE DEF R
    <3>2. Holds(t, p, w) /\ End(p, n) = p + Len(w)
      BY <3>1 DEF End
    <3>3. At(t, p) = LeftBracket /\ ParseChars(t, p) = Ok(p + Len(w), ClassOf(Codes(R)))
      BY <3>1, <3>2, ClassReads
    <3> QED
      BY <3>1, <3>2, <3>3
  <2>2. ParseLiteral(t, p) = Error
    BY <2>1, ParensAre, LiteralStops
  <2> QED
    BY <1>1, <2>1, <2>2, OkIsOk, Zenon DEF ParseSingle, Or
<1>4. CASE n.kind = "generator"
  <2>1. At(t, p) = LeftBrace /\ ParseGenerator(t, p) = Ok(End(p, n), n)
    <3> DEFINE s == n.text
               w == WriteGenerator(s)
    <3>1. s \in Seq(Token) \ {<<>>} /\ TidyGenerator(s) /\ n = Generator(s) /\ WriteNode[n] = w
      BY <1>4, TidyGeneratorNodeIs
    <3> HIDE DEF s
    <3>2. Holds(t, p, w) /\ End(p, n) = p + Len(w)
      BY <3>1 DEF End
    <3>3. At(t, p) = LeftBrace /\ ParseGenerator(t, p) = Ok(p + Len(w), Generator(s))
      BY <3>1, <3>2, GeneratorReads
    <3> QED
      BY <3>1, <3>2, <3>3
  <2>2. ParseLiteral(t, p) = Error
    BY <2>1, ParensAre, LiteralStops
  <2>3. ParseChars(t, p) = Error
    BY <1>0, <2>1, ParensAre, CharsStop
  <2> QED
    BY <1>1, <2>1, <2>2, <2>3, OkIsOk, Zenon DEF ParseSingle, Or
<1> QED
  BY <1>2, <1>3, <1>4

(* A node that is no count, without bounds after it *)
LEMMA PlainRead ==
    ASSUME NEW t, NEW n, n.kind # "count", SingleRead(t, n)
    PROVE  CountRead(t, n)
<1> SUFFICES ASSUME NEW p \in 1 .. Len(t) + 1, Holds(t, p, WriteNode[n]), Ends(t, p, n),
                    ParseBraces(t, End(p, n)).kind # "ok"
             PROVE  ParseCount(t, Nodes(t), p) = Ok(End(p, n), n)
  BY Zenon DEF CountRead
<1>1. ParseSingle(t, Nodes(t), p) = Ok(End(p, n), n)
  BY Zenon DEF SingleRead
<1> DEFINE r == Ok(End(p, n), n)
           bounds == ParseBraces(t, r.rest)
<1>2. bounds.kind # "ok"
  BY OkIsOk, Zenon
<1>3. ParseCount(t, Nodes(t), p) = Counted(r, bounds)
  BY <1>1, Zenon DEF ParseCount, CountAfter
<1> HIDE DEF r, bounds
<1>4. Counted(r, bounds) = r
  BY <1>2 DEF Counted
<1> QED
  BY <1>3, <1>4 DEF r

(* A count is read as the node and the bounds. *)
LEMMA BoundedRead ==
    ASSUME NEW t \in Seq(Token), NEW n \in Node, Tidy[n], n.kind = "count", SingleRead(t, n.item)
    PROVE  CountRead(t, n)
<1> DEFINE item == n.item
           u == WriteNode[item]
           v == WriteBounds(n.min, n.max)
<1> SUFFICES ASSUME NEW p \in 1 .. Len(t) + 1, Holds(t, p, WriteNode[n])
             PROVE  ParseCount(t, Nodes(t), p) = Ok(End(p, n), n)
  BY Zenon DEF CountRead
<1> DEFINE q == End(p, item)
           end == End(p, n)
           lo == n.min
           hi == n.max
<1>1. /\ item \in Node /\ lo \in Nat /\ hi \in Nat /\ lo <= hi
      /\ n = Count(item, lo, hi) /\ WriteNode[n] = u \o v
  BY TidyCountIs
<1>2. u \in Seq(Token) /\ v \in Seq(Token)
  BY <1>1, WriteNodeIs, WriteBoundsIs
<1>3. p \in Place /\ Holds(t, p, u \o v)
  BY <1>1 DEF Place
<1>4. Holds(t, p, u) /\ Holds(t, q, v) /\ end = q + Len(v) /\ q \in 1 .. Len(t) + 1
  <2>1. q = p + Len(u) /\ end = p + Len(u \o v)
    BY <1>1 DEF End
  <2> HIDE DEF u, v, q, end
  <2>2. Holds(t, p, u) /\ Holds(t, p + Len(u), v) /\ p + Len(u \o v) = (p + Len(u)) + Len(v)
    BY <1>2, <1>3, HoldsBoth
  <2>3. p + Len(u) \in p .. Len(t) + 1
    BY <1>2, <2>2, HoldsEnd
  <2>4. p + Len(u) \in 1 .. Len(t) + 1
    <3> DEFINE l == Len(t)
               k == p + Len(u)
    <3>1. k \in p .. l + 1 /\ l \in Nat
      BY <2>3
    <3> HIDE DEF l, k
    <3>2. k \in 1 .. l + 1
      BY <1>3, <3>1 DEF Place
    <3> QED
      BY <3>2 DEF l, k
  <2> QED
    BY <2>1, <2>2, <2>4
<1>5. At(t, q) = LeftBrace /\ ParseBraces(t, q) = Ok(end, <<lo, hi>>)
  <2> HIDE DEF q, end, lo, hi
  <2> QED
    BY <1>1, <1>4, BoundsRead DEF v, lo, hi
<1>6. ParseSingle(t, Nodes(t), p) = Ok(q, item)
  <2>1. Ends(t, p, item)
    BY <1>5, ParensAre DEF Ends
  <2> QED
    BY <1>4, <2>1, Zenon DEF SingleRead
<1> HIDE DEF q, end, item, lo, hi
<1>7. ParseCount(t, Nodes(t), p) = Counted(Ok(q, item), Ok(end, <<lo, hi>>))
  <2>1. Ok(q, item).rest = q
    BY OkIsOk, Zenon
  <2> QED
    BY <1>5, <1>6, <2>1, Zenon DEF ParseCount, CountAfter
<1>8. Counted(Ok(q, item), Ok(end, <<lo, hi>>)) = Ok(end, Count(item, lo, hi))
  <2>1. ~ (hi < lo) /\ <<lo, hi>>[1] = lo /\ <<lo, hi>>[2] = hi
    BY <1>1
  <2> DEFINE r == Ok(q, item)
             b == Ok(end, <<lo, hi>>)
  <2>2. r.kind = "ok" /\ b.kind = "ok" /\ r.value = item /\ b.rest = end /\ b.value = <<lo, hi>>
    BY OkIsOk, Zenon
  <2> HIDE DEF r, b
  <2>3. Counted(r, b) = Ok(end, Count(item, lo, hi))
    BY <2>1, <2>2 DEF Counted
  <2> QED
    BY <2>3 DEF r, b
<1> QED
  BY <1>1, <1>7, <1>8 DEF end

(* A place where no node of those that are written begins: where a list or *)
(* the schema ends                                                         *)
IsEnd(t, p) == At(t, p) \in {RightParen, NoToken}

(* Items one after the other are read as they are. *)
LEMMA ItemsRead ==
    ASSUME NEW t \in Seq(Token), NEW p \in 1 .. Len(t) + 1, NEW items \in Seq(Node) \ {<<>>}, Apart(items),
           \A i \in 1 .. Len(items) : Tidy[items[i]] /\ CountRead(t, items[i]),
           Holds(t, p, FlattenSeq(Words(items))), IsEnd(t, p + Len(FlattenSeq(Words(items))))
    PROVE  Nodes(t)[p] = Ok(p + Len(FlattenSeq(Words(items))), items)
<1> DEFINE n == Len(items)
           end == p + Len(FlattenSeq(Words(items)))
           places == Onward(t, 1)
           single == [x \in places |-> ParseCount(t, Nodes(t), x)]
<1>1. AreWords(Token, Words(items), n) /\ \A i \in 1 .. n : Words(items)[i] = WriteNode[items[i]] /\ items[i] \in Node
  BY WordsAre
<1>2. PICK pos : Laid(t, p, Words(items), n, pos)
  BY <1>1, HoldsEach
<1>3. n \in Nat /\ n >= 1 /\ DOMAIN items = 1 .. n
  BY SeqNotEmpty
<1>4. places = 1 .. Len(t) + 1 /\ DOMAIN single = 1 .. Len(t) + 1
  BY DEF Onward
<1>5. pos \in [1 .. n + 1 -> 1 .. Len(t) + 1]
  <2>1. pos \in [1 .. n + 1 -> p .. Len(t) + 1]
    BY <1>2 DEF Laid
  <2>2. p .. Len(t) + 1 \subseteq 1 .. Len(t) + 1
    OBVIOUS
  <2> QED
    BY <2>1, <2>2
<1> HIDE DEF n
<1>6. pos[1] = p /\ pos[n + 1] = end
  BY <1>2 DEF Laid
<1> HIDE DEF end
<1>7. \A k \in 1 .. n : pos[k + 1] = End(pos[k], items[k]) /\ Holds(t, pos[k], WriteNode[items[k]])
  BY <1>1, <1>2 DEF Laid, End
<1>8. ASSUME NEW k \in 1 .. n
      PROVE  Begins(t, pos[k], items[k])
  <2>1. items[k] \in Node /\ Tidy[items[k]] /\ pos[k] \in 1 .. Len(t) + 1 /\ Holds(t, pos[k], WriteNode[items[k]])
    BY <1>1, <1>3, <1>5, <1>7 DEF n
  <2> DEFINE x == pos[k]
             m == items[k]
  <2> HIDE DEF x, m
  <2>2. m \in Node /\ Tidy[m] /\ x \in 1 .. Len(t) + 1 /\ Holds(t, x, WriteNode[m])
    BY <2>1 DEF x, m
  <2>3. Begins(t, x, m)
    BY <2>2, NodeBegins
  <2> QED
    BY <2>3 DEF x, m
<1>9. IsEnd(t, end)
  BY DEF end
<1>10. ASSUME NEW nodes PROVE ParseCount(t, nodes, end).kind = "error" /\ ParseBraces(t, end).kind # "ok"
  <2>1. end \in 1 .. Len(t) + 1
    BY <1>3, <1>5, <1>6
  <2> QED
    BY <1>9, <2>1, CountStops DEF IsEnd
<1>11. ASSUME NEW k \in 1 .. n
       PROVE  ParseBraces(t, pos[k + 1]).kind # "ok" /\ (items[k].kind = "literal" => At(t, pos[k + 1]) \in Stop)
  <2>1. CASE k = n
    <3>1. At(t, end) \in Stop
      BY <1>9, ParensAre DEF IsEnd
    <3> QED
      BY <1>6, <1>10, <2>1, <3>1
  <2>2. CASE k # n
    <3> DEFINE i == k + 1
    <3>1. i \in 1 .. n /\ i \in DOMAIN items \ {1} /\ i - 1 = k
      BY <1>3, <2>2
    <3> HIDE DEF i
    <3>2. Begins(t, pos[i], items[i])
      BY <1>8, <3>1
    <3>3. items[k].kind = "literal" => items[i].kind # "literal" /\ ~ CountOf(items[i], "literal")
      BY <3>1 DEF Apart
    <3> QED
      BY <3>2, <3>3 DEF Begins, i
  <2> QED
    BY <2>1, <2>2
<1>12. ASSUME NEW k \in 1 .. n
       PROVE  single[pos[k]] = Ok(pos[k + 1], items[k])
  <2> DEFINE x == pos[k]
             m == items[k]
  <2>1. x \in 1 .. Len(t) + 1 /\ Holds(t, x, WriteNode[m]) /\ CountRead(t, m) /\ pos[k + 1] = End(x, m)
    BY <1>3, <1>5, <1>7 DEF n
  <2>2. ParseBraces(t, End(x, m)).kind # "ok" /\ Ends(t, x, m)
    BY <1>11, <2>1 DEF Ends
  <2>3. single[x] = ParseCount(t, Nodes(t), x)
    BY <1>4, <2>1
  <2> HIDE DEF x, m
  <2>4. ParseCount(t, Nodes(t), x) = Ok(End(x, m), m)
    BY <2>1, <2>2, Zenon DEF CountRead
  <2> QED
    BY <2>1, <2>3, <2>4 DEF x, m
<1>13. Path(single, p, items, end)
  <2>1. pos \in [1 .. Len(items) + 1 -> DOMAIN single]
    BY <1>4, <1>5 DEF n
  <2> HIDE DEF single
  <2> QED
    BY <1>6, <1>12, <2>1 DEF Path, n
<1>14. Recurs(Nodes(t), single)
  <2> SUFFICES ASSUME NEW x \in places PROVE Nodes(t)[x] = Then(single[x], Nodes(t))
    BY DEF Recurs
  <2>1. Nodes(t)[x] = Then(ParseCount(t, Nodes(t), x), Nodes(t))
    BY NodesRecur
  <2> QED
    BY <2>1
<1>15. single[end].kind = "error"
  <2>1. end \in places
    BY <1>3, <1>4, <1>5, <1>6
  <2> QED
    BY <1>10, <2>1
<1>16. items \in Seq(Node) /\ items # <<>>
  OBVIOUS
<1> HIDE DEF single
<1>17. Nodes(t)[p] = Ok(end, items)
  BY ONLY <1>13, <1>14, <1>15, <1>16, PathGives
<1> QED
  BY <1>17 DEF end

(* A schema of the nodes that are read at a place *)
LEMMA NodeOfItems ==
    ASSUME NEW nodes, NEW p, NEW q, NEW items, NEW n, nodes[p] = Ok(q, items), FromIter(items) = n
    PROVE  ParseNode(nodes, p) = Ok(q, n)
<1> DEFINE r == nodes[p]
<1>1. r.kind = "ok" /\ r.rest = q /\ r.value = items
  <2> HIDE DEF r
  <2>1. r = Ok(q, items)
    BY DEF r
  <2> QED
    BY <2>1, OkIsOk
<1>2. ParseNode(nodes, p) = IF r.kind = "ok" THEN Ok(r.rest, FromIter(r.value)) ELSE r
  BY Zenon DEF ParseNode, Mapped
<1> HIDE DEF r
<1>3. ParseNode(nodes, p) = Ok(r.rest, FromIter(r.value))
  BY <1>1, <1>2
<1> QED
  BY <1>1, <1>3

(* A list is read as the nodes between its parentheses. *)
LEMMA ListRead ==
    ASSUME NEW t \in Seq(Token), NEW n \in Node, Tidy[n], n.kind = "list",
           \A i \in 1 .. Len(n.items) : CountRead(t, n.items[i])
    PROVE  SingleRead(t, n)
<1> SUFFICES ASSUME NEW p \in 1 .. Len(t) + 1, Holds(t, p, WriteNode[n])
             PROVE  ParseSingle(t, Nodes(t), p) = Ok(End(p, n), n)
  BY Zenon DEF SingleRead
<1> DEFINE items == n.items
           inner == FlattenSeq(Words(items))
           from == p + 1
           end == from + Len(inner)
<1>0. p \in Place /\ Error.kind = "error"
  BY DEF Place, Error
<1>1. /\ items \in Seq(Node) /\ Len(items) > 1 /\ n = [kind |-> "list", items |-> items] /\ Apart(items)
      /\ \A i \in 1 .. Len(items) : Tidy[items[i]] /\ CountRead(t, items[i])
      /\ WriteNode[n] = <<LeftParen>> \o inner \o <<RightParen>>
  BY TidyListIs
<1> HIDE DEF items
<1>2. inner \in Seq(Token)
  BY <1>1, WordsAre
<1>3. /\ At(t, p) = LeftParen /\ from \in 1 .. Len(t) + 1 /\ Holds(t, from, inner) /\ At(t, end) = RightParen
      /\ p + Len(WriteNode[n]) = end + 1
  <2> HIDE DEF inner
  <2>1. Holds(t, p, <<LeftParen>> \o inner \o <<RightParen>>)
    BY <1>1
  <2> QED
    BY <1>1, <1>2, <2>1, ParensAre, BracketsHold
<1>4. End(p, n) = end + 1
  BY <1>3 DEF End
<1>5. Nodes(t)[from] = Ok(end, items)
  <2>1. IsEnd(t, from + Len(FlattenSeq(Words(items))))
    BY <1>3 DEF IsEnd
  <2>2. items \in Seq(Node) \ {<<>>} /\ Holds(t, from, FlattenSeq(Words(items)))
    BY <1>1, <1>3
  <2> HIDE DEF from
  <2> QED
    BY <1>1, <1>3, <2>1, <2>2, ItemsRead
<1> HIDE DEF end
<1>6. FromIter(items) = n
  BY <1>1 DEF FromIter
<1>7. ParseList(t, Nodes(t), p) = Ok(end + 1, n)
  <2>1. ParseNode(Nodes(t), from) = Ok(end, n)
    BY <1>5, <1>6, NodeOfItems
  <2>2. ParseList(t, Nodes(t), p) = Delimited(t, p, LeftParen, ParseNode(Nodes(t), from), RightParen)
    BY Zenon DEF ParseList, LeftParen, RightParen
  <2> QED
    BY <1>3, <2>1, <2>2, DelimitedOk
<1>8. ParseLiteral(t, p) = Error /\ ParseChars(t, p) = Error /\ ParseGenerator(t, p) = Error
  BY <1>0, <1>3, ParensAre, LiteralStops, CharsStop, GeneratorStops
<1> QED
  BY <1>0, <1>4, <1>7, <1>8, OkIsOk, Zenon DEF ParseSingle, Or

(* A tidy node is read wherever it is written, whatever it is made of. *)
LEMMA NodeRead ==
    ASSUME NEW t \in Seq(Token)
    PROVE  \A n \in Node : Tidy[n] => CountRead(t, n) /\ (n.kind # "count" => SingleRead(t, n))
<1> DEFINE Done(n) == Tidy[n] => CountRead(t, n) /\ (n.kind # "count" => SingleRead(t, n))
           S == {n \in Node : Done(n)}
<1>1. MaxDepth \in Nat /\ Level \in [Node -> 0 .. MaxDepth]
  BY DepthAssumption, LevelIs
<1>2. ASSUME NEW n \in Node, \A m \in Node : Level[m] < Level[n] => m \in S
      PROVE  n \in S
  <2> SUFFICES ASSUME Tidy[n] PROVE CountRead(t, n) /\ (n.kind # "count" => SingleRead(t, n))
    BY Zenon
  <2>0. \A m \in Node : Level[m] < Level[n] /\ Tidy[m] => CountRead(t, m) /\ (m.kind # "count" => SingleRead(t, m))
    BY <1>2, Zenon
  <2> HIDE DEF Done
  <2>1. n.kind \in {"literal", "chars", "generator", "count", "list"}
    <3>1. MadeOf(n, Node)
      BY LevelIs, Zenon DEF PartsAreLower
    <3> QED
      BY <3>1, Zenon DEF MadeOf
  <2>2. CASE n.kind \in {"literal", "chars", "generator"}
    <3>1. SingleRead(t, n) /\ n.kind # "count"
      BY <2>2, LeafRead
    <3> QED
      BY <3>1, PlainRead
  <2>3. CASE n.kind = "count"
    <3>1. n.item \in Node /\ Level[n.item] < Level[n] /\ n.item.kind # "count" /\ Tidy[n.item]
      BY <2>3, TidyCountIs
    <3>2. SingleRead(t, n.item)
      BY <2>0, <3>1, Zenon
    <3> QED
      BY <2>3, <3>2, BoundedRead
  <2>4. CASE n.kind = "list"
    <3>1. /\ n.items \in Seq(Node)
          /\ \A i \in 1 .. Len(n.items) : Tidy[n.items[i]] /\ Level[n.items[i]] < Level[n]
      BY <2>4, TidyListIs
    <3>2. \A i \in 1 .. Len(n.items) : n.items[i] \in Node
      BY <3>1, WordsAre
    <3>3. \A i \in 1 .. Len(n.items) : CountRead(t, n.items[i])
      BY <2>0, <3>1, <3>2, Zenon
    <3>4. SingleRead(t, n) /\ n.kind # "count"
      BY <2>4, <3>3, ListRead
    <3> QED
      BY <3>4, PlainRead
  <2> QED
    BY <2>1, <2>2, <2>3, <2>4, Zenon
<1>3. Node \subseteq S
  <2> HIDE DEF S
  <2> QED
    BY <1>1, <1>2, RankInduction
<1> QED
  BY <1>3, Zenon

(* The joining of one text is that text. *)
LEMMA FlattensOne ==
    ASSUME NEW B, NEW text \in Seq(B)
    PROVE  FlattenSeq(<<text>>) = text
<1> DEFINE words == <<text>>
<1>1. words = [i \in 1 .. 1 |-> words[i]] /\ words[1] = text /\ 1 \in Nat
  OBVIOUS
<1> HIDE DEF words
<1>2. AreWords(B, words, 1)
  <2>1. \A i \in 1 .. 1 : words[i] \in Seq(B)
    BY <1>1
  <2> QED
    BY <1>1, <2>1, AsWords
<1>3. PICK joined : Joining(B, joined, words, 1) /\ FlattenSeq(words) = joined[1]
  BY <1>2, FlattenSeqIs
<1>4. joined[0] = <<>> /\ joined[1] = joined[1 - 1] \o words[1] /\ 1 - 1 = 0
  BY <1>3 DEF Joining
<1>5. <<>> \o text = text
  BY JoinIs
<1> QED
  BY <1>1, <1>3, <1>4, <1>5 DEF words

(* The items of a schema: those of a list, or the schema itself *)
ItemsOf(n) == IF n.kind = "list" THEN n.items ELSE <<n>>

LEMMA ItemsOfIs ==
    ASSUME NEW n \in Node, Tidy[n]
    PROVE  /\ ItemsOf(n) \in Seq(Node) \ {<<>>} /\ Apart(ItemsOf(n)) /\ \A i \in 1 .. Len(ItemsOf(n)) : Tidy[ItemsOf(n)[i]]
           /\ FromIter(ItemsOf(n)) = n /\ WriteRepr(n) = FlattenSeq(Words(ItemsOf(n)))
<1>1. CASE n.kind = "list"
  <2> DEFINE items == n.items
  <2>1. /\ items \in Seq(Node) /\ Len(items) > 1 /\ n = [kind |-> "list", items |-> items] /\ Apart(items)
        /\ \A i \in 1 .. Len(items) : Tidy[items[i]]
    BY <1>1, TidyListIs
  <2>2. WriteRepr(n) = FlattenSeq(Words(items))
    BY <1>1 DEF WriteRepr, Words
  <2>3. ItemsOf(n) = items
    BY <1>1 DEF ItemsOf
  <2> HIDE DEF items
  <2>4. items # <<>> /\ FromIter(items) = n
    BY <2>1 DEF FromIter
  <2> QED
    BY <2>1, <2>2, <2>3, <2>4
<1>2. CASE n.kind # "list"
  <2> DEFINE items == <<n>>
             text == WriteNode[n]
  <2>1. items \in Seq(Node) /\ items # <<>> /\ Len(items) = 1 /\ items[1] = n /\ DOMAIN items = {1}
    OBVIOUS
  <2>2. ItemsOf(n) = items /\ WriteRepr(n) = text
    BY <1>2 DEF ItemsOf, WriteRepr
  <2>3. Words(items) = <<text>> /\ text \in Seq(Token)
    BY <2>1, WriteNodeIs DEF Words
  <2> HIDE DEF items, text
  <2>4. FlattenSeq(<<text>>) = text
    BY <2>3, FlattensOne
  <2>5. Apart(items) /\ FromIter(items) = n /\ \A i \in 1 .. Len(items) : Tidy[items[i]]
    BY <2>1 DEF Apart, FromIter
  <2> QED
    BY <2>1, <2>2, <2>3, <2>4, <2>5
<1> QED
  BY <1>1, <1>2

(* FromStr gives a tidy schema back from its canonical format, whatever the  *)
(* characters, the names and the depth: classes and their ranges, escapes,   *)
(* the dictionaries of generators, bounds and parentheses are written so     *)
(* that nothing of them is read as anything else. (repr.rs 46-91,            *)
(* parse.rs 25-204)                                                          *)
THEOREM TidyReadsBack ==
    ASSUME NEW n \in Node, Tidy[n]
    PROVE  FromStr(WriteRepr(n)) = Ok(Len(WriteRepr(n)) + 1, n)
<1> DEFINE t == WriteRepr(n)
           items == ItemsOf(n)
           l == Len(t)
           text == FlattenSeq(Words(items))
<1>1. /\ items \in Seq(Node) \ {<<>>} /\ Apart(items) /\ \A i \in 1 .. Len(items) : Tidy[items[i]]
      /\ FromIter(items) = n /\ t = text
  BY ItemsOfIs
<1>2. t \in Seq(Token)
  BY WriteReprIs
<1> HIDE DEF t, items
<1>3. \A i \in 1 .. Len(items) : items[i] \in Node
  BY <1>1
<1>4. \A i \in 1 .. Len(items) : Tidy[items[i]] /\ CountRead(t, items[i])
  BY <1>1, <1>2, <1>3, NodeRead
<1>5. l \in Nat /\ 1 \in 1 .. l + 1 /\ 1 + l = l + 1 /\ ~ (l + 1 <= l)
  BY <1>2
<1>6. Holds(t, 1, t)
  BY <1>2 DEF Holds
<1>7. IsEnd(t, l + 1)
  BY <1>5 DEF IsEnd, At
<1> HIDE DEF text
<1>8. Nodes(t)[1] = Ok(1 + Len(text), items)
  <2>1. Holds(t, 1, text) /\ IsEnd(t, 1 + Len(text)) /\ 1 \in 1 .. Len(t) + 1
    BY <1>1, <1>5, <1>6, <1>7
  <2> QED
    BY <1>1, <1>2, <1>4, <2>1, ItemsRead DEF text
<1>9. Nodes(t)[1] = Ok(l + 1, items)
  BY <1>1, <1>5, <1>8
<1>10. ParseNode(Nodes(t), 1) = Ok(l + 1, n)
  BY <1>1, <1>9, NodeOfItems
<1>11. Complete(t, Ok(l + 1, n)) = Ok(l + 1, n)
  <2> DEFINE r == Ok(l + 1, n)
  <2>1. ~ (r.rest <= Len(t))
    BY <1>5, OkIsOk
  <2> HIDE DEF r
  <2>2. Complete(t, r) = r
    BY <2>1 DEF Complete
  <2> QED
    BY <2>2 DEF r
<1>12. FromStr(t) = Ok(l + 1, n)
  BY <1>10, <1>11, Zenon DEF FromStr
<1> QED
  BY <1>12 DEF t

(* No two tidy schemas have the same canonical format: what a derivation     *)
(* keeps of its schema is all there is to know of it. (derivation.rs)        *)
THEOREM TidyIsToldByItsText ==
    \A m, n \in Node : Tidy[m] /\ Tidy[n] /\ WriteRepr(m) = WriteRepr(n) => m = n
<1> SUFFICES ASSUME NEW m \in Node, NEW n \in Node, Tidy[m], Tidy[n], WriteRepr(m) = WriteRepr(n)
             PROVE  m = n
  OBVIOUS
<1>1. Ok(Len(WriteRepr(m)) + 1, m) = Ok(Len(WriteRepr(n)) + 1, n)
  BY TidyReadsBack
<1>2. \A v, w, q, r : Ok(q, v) = Ok(r, w) => v = w
  BY DEF Ok
<1> QED
  BY <1>1, <1>2, Zenon

-----------------------------------------------------------------------------
(* The fields of a tab-separated text *)

(* Who has read the fields up to here is at no escaped character. *)
State(fields) == [fields |-> fields, escaped |-> FALSE]

(* How h becomes what it becomes as the text is read *)
Steps(h, text) ==
    /\ h = [i \in 0 .. Len(text) |-> h[i]]
    /\ \A i \in 1 .. Len(text) : h[i] = ReadNext(h[i - 1], text[i])

(* What was "from" before the text is "to" after it. *)
Reads(from, text, to) == \E h : Steps(h, text) /\ h[0] = from /\ h[Len(text)] = to

(* Reading nothing changes nothing. *)
LEMMA ReadsNothing ==
    ASSUME NEW from
    PROVE  Reads(from, <<>>, from)
<1> DEFINE h == [i \in 0 .. 0 |-> from]
<1>1. Len(<<>>) = 0
  OBVIOUS
<1>2. h = [i \in 0 .. 0 |-> h[i]] /\ h[0] = from /\ \A i \in 1 .. 0 : FALSE
  OBVIOUS
<1> HIDE DEF h
<1>3. Steps(h, <<>>)
  BY <1>1, <1>2 DEF Steps
<1> QED
  BY <1>1, <1>2, <1>3 DEF Reads

(* What is read of one character *)
LEMMA ReadsOne ==
    ASSUME NEW from, NEW c
    PROVE  Reads(from, <<c>>, ReadNext(from, c))
<1> DEFINE to == ReadNext(from, c)
           h == [i \in 0 .. 1 |-> IF i = 0 THEN from ELSE to]
           s == <<c>>
<1>1. Len(s) = 1 /\ s[1] = c
  OBVIOUS
<1> HIDE DEF to, s
<1>2. h = [i \in 0 .. 1 |-> h[i]] /\ h[0] = from /\ h[1] = to
  OBVIOUS
<1> HIDE DEF h
<1>3. \A i \in 1 .. 1 : i = 1 /\ i - 1 = 0
  OBVIOUS
<1>4. \A i \in 1 .. 1 : h[i] = ReadNext(h[i - 1], s[i])
  BY <1>1, <1>2, <1>3 DEF to
<1>5. Steps(h, s)
  BY <1>1, <1>2, <1>4, Zenon DEF Steps
<1>6. Reads(from, s, to)
  BY <1>1, <1>2, <1>5, Zenon DEF Reads
<1> QED
  BY <1>6 DEF s, to

(* Two texts are read one after the other. *)
LEMMA ReadsOn ==
    ASSUME NEW B, NEW u \in Seq(B), NEW v \in Seq(B), NEW a, NEW b, NEW c,
           Reads(a, u, b), Reads(b, v, c)
    PROVE  Reads(a, u \o v, c)
<1> DEFINE m == Len(u)
           n == Len(v)
           t == u \o v
<1>1. /\ m \in Nat /\ n \in Nat /\ Len(t) = m + n
      /\ \A i \in 1 .. m : t[i] = u[i]
      /\ \A i \in 1 .. n : t[m + i] = v[i]
  BY JoinIs
<1>2. PICK f : Steps(f, u) /\ f[0] = a /\ f[m] = b
  BY Zenon DEF Reads
<1>3. PICK g : Steps(g, v) /\ g[0] = b /\ g[n] = c
  BY Zenon DEF Reads
<1>4. /\ \A i \in 1 .. m : f[i] = ReadNext(f[i - 1], u[i])
      /\ \A i \in 1 .. n : g[i] = ReadNext(g[i - 1], v[i])
  BY <1>2, <1>3, Zenon DEF Steps
<1> HIDE DEF m, n, t
<1> DEFINE h == [i \in 0 .. m + n |-> IF i <= m THEN f[i] ELSE g[i - m]]
<1>5. h = [i \in 0 .. m + n |-> h[i]]
  OBVIOUS
<1>6. /\ \A i \in 0 .. m : h[i] = f[i]
      /\ \A i \in 1 .. n : h[m + i] = g[i]
  <2>1. ASSUME NEW i \in 0 .. m
        PROVE  h[i] = f[i]
    <3>1. i \in 0 .. m + n /\ i <= m
      BY <1>1
    <3> QED
      BY <3>1
  <2>2. ASSUME NEW i \in 1 .. n
        PROVE  h[m + i] = g[i]
    <3>1. m + i \in 0 .. m + n /\ ~ (m + i <= m) /\ (m + i) - m = i
      BY <1>1
    <3> QED
      BY <3>1
  <2> QED
    BY <2>1, <2>2
<1> HIDE DEF h
<1>7. \A i \in 0 .. n : h[m + i] = g[i]
  <2>1. m + 0 = m /\ m \in 0 .. m /\ \A i \in 0 .. n : i = 0 \/ i \in 1 .. n
    BY <1>1
  <2>2. h[m + 0] = g[0]
    BY <1>2, <1>3, <1>6, <2>1
  <2> QED
    BY <1>6, <2>1, <2>2
<1>8. ASSUME NEW i \in 1 .. m + n
      PROVE  h[i] = ReadNext(h[i - 1], t[i])
  <2>1. CASE i \in 1 .. m
    <3>1. i - 1 \in 0 .. m /\ i \in 0 .. m
      BY <1>1, <2>1
    <3>2. h[i - 1] = f[i - 1] /\ h[i] = f[i] /\ t[i] = u[i]
      BY <1>1, <1>6, <2>1, <3>1
    <3> QED
      BY <1>4, <2>1, <3>2
  <2>2. CASE i \notin 1 .. m
    <3> DEFINE j == i - m
    <3>1. j \in 1 .. n /\ j \in 0 .. n /\ j - 1 \in 0 .. n /\ m + j = i /\ m + (j - 1) = i - 1
      BY <1>1, <2>2
    <3> HIDE DEF j
    <3>2. h[i - 1] = g[j - 1] /\ h[i] = g[j] /\ t[i] = v[j]
      BY <1>1, <1>7, <3>1
    <3>3. g[j] = ReadNext(g[j - 1], v[j])
      BY <1>4, <3>1
    <3> QED
      BY <3>2, <3>3
  <2> QED
    BY <2>1, <2>2
<1>9. Steps(h, t)
  BY <1>1, <1>5, <1>8 DEF Steps
<1>10. h[0] = a /\ h[Len(t)] = c
  <2>1. 0 \in 0 .. m /\ n \in 0 .. n
    BY <1>1
  <2> QED
    BY <1>1, <1>2, <1>3, <1>6, <1>7, <2>1
<1>11. Reads(a, t, c)
  BY <1>9, <1>10, Zenon DEF Reads
<1> QED
  BY <1>11 DEF t

(* What is read of the text from nothing is what ReadTsv says. *)
LEMMA ReadTsvIs ==
    ASSUME NEW B, NEW text \in Seq(B), NEW to, Reads(State(<<<<>>>>), text, to)
    PROVE  ReadTsv(text) = to.fields
<1> DEFINE n == Len(text)
           Body(f, i) == IF i = 0 THEN [fields |-> <<<<>>>>, escaped |-> FALSE] ELSE ReadNext(f[i - 1], text[i])
           read == CHOOSE f : f = [i \in 0 .. Len(text) |->
                        IF i = 0 THEN [fields |-> <<<<>>>>, escaped |-> FALSE] ELSE ReadNext(f[i - 1], text[i])]
<1>1. n \in Nat
  OBVIOUS
<1>2. PICK h : Steps(h, text) /\ h[0] = State(<<<<>>>>) /\ h[n] = to
  BY Zenon DEF Reads
<1>3. h = [i \in 0 .. n |-> h[i]] /\ \A i \in 1 .. n : h[i] = ReadNext(h[i - 1], text[i])
  BY <1>2, Zenon DEF Steps
<1>4. ReadTsv(text) = read[n].fields
  BY Zenon DEF ReadTsv
<1>5. read = CHOOSE f : f = [i \in 0 .. n |-> Body(f, i)]
  BY Zenon
<1> HIDE DEF read, n
<1>6. \A i \in 0 .. n : i = 0 \/ (i \in 1 .. n /\ i # 0)
  BY <1>1
<1>7. \A i \in 0 .. n : h[i] = Body(h, i)
  BY <1>2, <1>3, <1>6, Zenon DEF State
<1> HIDE DEF Body
<1>8. h = [i \in 0 .. n |-> Body(h, i)]
  BY <1>3, <1>7
<1>9. read = [i \in 0 .. n |-> Body(read, i)]
  BY <1>5, <1>8, Zenon
<1> DEFINE S == {i \in 0 .. n : read[i] = h[i]}
<1>10. 0 \in S
  <2>1. 0 \in 0 .. n
    BY <1>1
  <2>2. read[0] = Body(read, 0) /\ h[0] = Body(h, 0)
    BY <1>7, <1>9, <2>1
  <2>3. Body(read, 0) = Body(h, 0)
    BY Zenon DEF Body
  <2> QED
    BY <2>1, <2>2, <2>3
<1>11. ASSUME NEW i \in 1 .. n, i - 1 \in S
       PROVE  i \in S
  <2>1. i \in 0 .. n /\ i # 0 /\ read[i - 1] = h[i - 1]
    BY <1>1, <1>11
  <2>2. read[i] = Body(read, i) /\ h[i] = Body(h, i)
    BY <1>7, <1>9, <2>1
  <2>3. Body(read, i) = Body(h, i)
    BY <2>1, Zenon DEF Body
  <2> QED
    BY <2>1, <2>2, <2>3
<1>12. 0 .. n \subseteq S
  <2> HIDE DEF S
  <2> QED
    BY <1>1, <1>10, <1>11, IntervalInduction
<1>13. read[n] = h[n]
  BY <1>1, <1>12
<1> QED
  BY <1>2, <1>4, <1>13
(* The words of the fields: tabs and backslashes are texts too. *)
LEMMA TsvTexts ==
    /\ Token \subseteq Text /\ <<Version>> \in Seq(Text)
    /\ "\\" \in Text /\ Tab \in Text /\ "t" \in Text
    /\ "\\" # Tab /\ "t" # Tab /\ "t" # "\\"
<1>1. Token \subseteq Text /\ Version \in Text
  BY DEF Text
<1>2. "\\" \in Token /\ Tab \in Token /\ "t" \in Token
  BY SyntaxIs, TokensAre
<1>3. "\\" \in Punctuation /\ Tab \notin Alphanumeric
  BY OrderAssumption DEF Syntax
<1>4. "t" \in Alphanumeric
  BY LetterAssumption DEF Alphanumeric, Lower
<1>5. "\\" # Tab /\ "t" # "\\"
  BY <1>3, <1>4 DEF Punctuation
<1>6. <<Version>> \in Seq(Text)
  BY <1>1
<1> QED
  BY <1>1, <1>2, <1>3, <1>4, <1>5, <1>6

(* Sequences of one and of two *)
LEMMA PairIs ==
    ASSUME NEW B, NEW a \in B, NEW b \in B
    PROVE  <<a>> \in Seq(B) /\ <<b>> \in Seq(B) /\ <<a>> \o <<b>> = <<a, b>> /\ <<a, b>> \in Seq(B)
<1> DEFINE u == <<a>>
           v == <<b>>
           w == <<a, b>>
<1>1. u \in Seq(B) /\ v \in Seq(B) /\ w \in Seq(B)
  OBVIOUS
<1>2. Len(u) = 1 /\ Len(v) = 1 /\ Len(w) = 2 /\ u[1] = a /\ v[1] = b /\ w[1] = a /\ w[2] = b
  OBVIOUS
<1> HIDE DEF u, v, w
<1> DEFINE j == u \o v
<1>3. j \in Seq(B) /\ Len(j) = 2 /\ j[1] = a /\ j[2] = b
  <2>1. 1 \in 1 .. Len(u) /\ 1 \in 1 .. Len(v) /\ Len(u) + 1 = 2
    BY <1>2
  <2>2. /\ j \in Seq(B) /\ Len(j) = Len(u) + Len(v)
        /\ \A x \in 1 .. Len(u) : j[x] = u[x]
        /\ \A x \in 1 .. Len(v) : j[Len(u) + x] = v[x]
    BY <1>1, JoinIs
  <2> HIDE DEF j
  <2> QED
    BY <1>2, <2>1, <2>2
<1> HIDE DEF j
<1>4. \A i \in 1 .. 2 : j[i] = w[i]
  <2>1. \A i \in 1 .. 2 : i = 1 \/ i = 2
    OBVIOUS
  <2> QED
    BY <1>2, <1>3, <2>1
<1>5. j = w
  BY <1>1, <1>2, <1>3, <1>4
<1> QED
  BY <1>1, <1>5 DEF u, v, w, j

(* The last of the texts grows, and it is the one that was appended. *)
LEMMA AppendedGrows ==
    ASSUME NEW B, NEW before \in Seq(Seq(B)), NEW u \in Seq(B), NEW c \in B
    PROVE  /\ Append(before, u) \in Parts(B)
           /\ Extended(Append(before, u), c) = Append(before, Append(u, c))
<1> DEFINE parts == Append(before, u)
           m == Len(before)
<1>1. /\ m \in Nat /\ parts \in Seq(Seq(B)) /\ Len(parts) = m + 1
      /\ \A i \in 1 .. m + 1 : parts[i] = IF i = m + 1 THEN u ELSE before[i]
  OBVIOUS
<1>2. parts # <<>>
  <2>1. Len(<<>>) = 0
    OBVIOUS
  <2> HIDE DEF parts, m
  <2> QED
    BY <1>1, <2>1
<1> DEFINE long == Append(before, Append(u, c))
           grown == Extended(parts, c)
<1>3. /\ long \in Seq(Seq(B)) /\ Len(long) = m + 1
      /\ \A i \in 1 .. m + 1 : long[i] = IF i = m + 1 THEN Append(u, c) ELSE before[i]
  <2>1. Append(u, c) \in Seq(B)
    OBVIOUS
  <2> DEFINE v == Append(u, c)
  <2> HIDE DEF v, parts
  <2> QED
    BY <2>1 DEF v
<1> HIDE DEF parts, m, long
<1>4. parts \in Parts(B)
  BY <1>1, <1>2 DEF Parts
<1>5. /\ grown \in Parts(B) /\ Len(grown) = m + 1
      /\ \A i \in 1 .. m + 1 : grown[i] = IF i = m + 1 THEN Append(parts[i], c) ELSE parts[i]
  <2>1. /\ grown \in Parts(B) /\ Len(grown) = Len(parts)
        /\ \A i \in 1 .. Len(parts) : grown[i] = IF i = Len(parts) THEN Append(parts[i], c) ELSE parts[i]
    BY <1>4, ExtendedIs
  <2> HIDE DEF grown
  <2> QED
    BY <1>1, <2>1
<1> HIDE DEF grown
<1>6. \A i \in 1 .. m + 1 : grown[i] = long[i]
  BY <1>1, <1>3, <1>5
<1>7. grown \in Seq(Seq(B))
  BY <1>5 DEF Parts
<1>8. grown = long
  BY <1>1, <1>3, <1>5, <1>6, <1>7
<1> QED
  BY <1>4, <1>8 DEF parts, grown, long

(* A character of a field is read as itself, however it was written. *)
LEMMA EscapeReads ==
    ASSUME NEW parts \in Parts(Text), NEW c \in Text
    PROVE  /\ TsvEscape(c) \in Seq(Text)
           /\ Reads(State(parts), TsvEscape(c), State(Extended(parts, c)))
<1> DEFINE escaped == [fields |-> parts, escaped |-> TRUE]
           s == "\\"
<1>1. "\\" # Tab /\ "t" # Tab /\ "t" # "\\"
  BY TsvTexts
<1>2. ReadNext(State(parts), s) = escaped
  BY DEF ReadNext, State
<1>3. ASSUME NEW d
      PROVE  ReadNext(escaped, d) = State(Extended(parts, IF d = "t" THEN Tab ELSE d))
  BY Zenon DEF ReadNext, State
<1>4. ASSUME NEW d \in {"t", "\\"}, (IF d = "t" THEN Tab ELSE d) = c, TsvEscape(c) = <<s, d>>
      PROVE  /\ TsvEscape(c) \in Seq(Text)
             /\ Reads(State(parts), TsvEscape(c), State(Extended(parts, c)))
  <2>1. s \in Text /\ d \in Text
    BY TsvTexts
  <2>2. Reads(State(parts), <<s>>, escaped)
    BY <1>2, ReadsOne
  <2>3. ReadNext(escaped, d) = State(Extended(parts, c))
    BY <1>3, <1>4, Zenon
  <2>4. Reads(escaped, <<d>>, State(Extended(parts, c)))
    BY <2>3, ReadsOne
  <2> HIDE DEF escaped, s
  <2>5. <<s>> \in Seq(Text) /\ <<d>> \in Seq(Text) /\ <<s>> \o <<d>> = <<s, d>> /\ <<s, d>> \in Seq(Text)
    BY <2>1, PairIs
  <2>6. Reads(State(parts), <<s>> \o <<d>>, State(Extended(parts, c)))
    BY <2>2, <2>4, <2>5, ReadsOn
  <2> QED
    BY <1>4, <2>5, <2>6
<1>5. CASE c = "\\"
  <2>1. TsvEscape(c) = <<s, "\\">>
    BY <1>1, <1>5, Zenon DEF TsvEscape
  <2>2. (IF "\\" = "t" THEN Tab ELSE "\\") = c
    BY <1>1, <1>5
  <2> QED
    BY <1>4, <2>1, <2>2
<1>6. CASE c = Tab
  <2>1. TsvEscape(c) = <<s, "t">>
    BY <1>1, <1>6, Zenon DEF TsvEscape
  <2>2. (IF "t" = "t" THEN Tab ELSE "t") = c
    BY <1>6
  <2> QED
    BY <1>4, <2>1, <2>2
<1>7. CASE c # "\\" /\ c # Tab
  <2>1. TsvEscape(c) = <<c>>
    BY <1>7, Zenon DEF TsvEscape
  <2>2. ReadNext(State(parts), c) = State(Extended(parts, c))
    BY <1>7 DEF ReadNext, State
  <2>3. Reads(State(parts), <<c>>, State(Extended(parts, c)))
    BY <2>2, ReadsOne
  <2> QED
    BY <2>1, <2>3
<1> QED
  BY <1>5, <1>6, <1>7

(* A field is read as itself, after any fields. *)
LEMMA FieldReads ==
    ASSUME NEW before \in Seq(Seq(Text)), NEW s \in Seq(Text)
    PROVE  /\ TsvField(s) \in Seq(Text)
           /\ Reads(State(Append(before, <<>>)), TsvField(s), State(Append(before, s)))
<1> DEFINE words == [i \in DOMAIN s |-> TsvEscape(s[i])]
           n == Len(s)
           B == Text
           start == State(Append(before, <<>>))
           Upto(k) == State(Append(before, SubSeq(s, 1, k)))
<1>1. n \in Nat /\ DOMAIN s = 1 .. n /\ \A i \in 1 .. n : s[i] \in B
  OBVIOUS
<1>2. ASSUME NEW u \in Seq(B)
      PROVE  Append(before, u) \in Parts(B)
  BY AppendedGrows, TsvTexts
<1>3. <<>> \in Seq(B)
  OBVIOUS
<1>4. \A i \in 1 .. n : words[i] = TsvEscape(s[i])
  BY <1>1
<1>5. \A i \in 1 .. n : words[i] \in Seq(B)
  BY <1>1, <1>2, <1>3, <1>4, EscapeReads
<1>6. AreWords(B, words, n)
  <2>1. Len(words) = n /\ (n = 0 => words = <<>>)
    BY <1>1
  <2> HIDE DEF words, n, B
  <2> QED
    BY <1>1, <1>5, <2>1, Zenon DEF AreWords
<1>7. TsvField(s) = FlattenSeq(words)
  BY Zenon DEF TsvField
<1> HIDE DEF words, n, B
<1>8. PICK text : Joining(B, text, words, n) /\ FlattenSeq(words) = text[n]
  BY <1>6, FlattenSeqIs, Zenon
<1>9. /\ \A k \in 0 .. n : text[k] \in Seq(B)
      /\ text[0] = <<>>
      /\ \A k \in 1 .. n : text[k] = text[k - 1] \o words[k]
  BY <1>8 DEF Joining
<1> DEFINE S == {k \in 0 .. n : Reads(start, text[k], Upto(k))}
<1>10. 0 \in S
  <2>1. SubSeq(s, 1, 0) = <<>> /\ 0 \in 0 .. n
    BY <1>1
  <2>2. Upto(0) = start
    BY <2>1
  <2> HIDE DEF start, Upto
  <2>3. Reads(start, text[0], Upto(0))
    BY <1>9, <2>2, ReadsNothing
  <2> QED
    BY <2>1, <2>3
<1>11. ASSUME NEW k \in 1 .. n, k - 1 \in S
       PROVE  k \in S
  <2> DEFINE u == SubSeq(s, 1, k - 1)
             parts == Append(before, u)
             c == s[k]
  <2>1. u \in Seq(B) /\ SubSeq(s, 1, k) = Append(u, c) /\ c \in B
    BY <1>1 DEF n, B
  <2> HIDE DEF u, c
  <2>2. parts \in Parts(B)
    BY <1>2, <2>1
  <2>3. Extended(parts, c) = Append(before, Append(u, c))
    <3>1. before \in Seq(Seq(B))
      BY DEF B
    <3> QED
      BY <2>1, <3>1, AppendedGrows
  <2>4. Reads(State(parts), words[k], State(Extended(parts, c)))
    BY <1>4, <2>1, <2>2, EscapeReads DEF B, c
  <2>5. State(Extended(parts, c)) = Upto(k) /\ State(parts) = Upto(k - 1)
    BY <2>1, <2>3, Zenon DEF u
  <2> HIDE DEF start, Upto, parts
  <2>6. Reads(start, text[k - 1], Upto(k - 1)) /\ Reads(Upto(k - 1), words[k], Upto(k))
    BY <1>11, <2>4, <2>5
  <2>7. text[k - 1] \in Seq(B) /\ words[k] \in Seq(B) /\ text[k] = text[k - 1] \o words[k] /\ k \in 0 .. n
    <3>1. k \in 0 .. n /\ k - 1 \in 0 .. n
      BY <1>1
    <3> QED
      BY <1>5, <1>9, <3>1
  <2>8. Reads(start, text[k], Upto(k))
    BY <2>6, <2>7, ReadsOn
  <2> QED
    BY <2>7, <2>8
<1>12. n \in S
  <2> HIDE DEF S
  <2>1. 0 .. n \subseteq S
    BY <1>1, <1>10, <1>11, IntervalInduction
  <2> QED
    BY <1>1, <2>1
<1>13. SubSeq(s, 1, n) = s
  BY DEF n
<1>14. text[n] \in Seq(B)
  BY <1>1, <1>9
<1>15. Reads(start, text[n], Upto(n))
  BY <1>12
<1> QED
  BY <1>7, <1>8, <1>13, <1>14, <1>15, Zenon DEF B
(* The fields are read as they are, one after the other. *)
LEMMA FieldsRead ==
    ASSUME NEW fields \in Parts(Text)
    PROVE  /\ FormatTsv(fields) \in Seq(Text)
           /\ Reads(State(<<<<>>>>), FormatTsv(fields), State(fields))
<1> DEFINE words == [i \in DOMAIN fields |->
                        IF i = 1 THEN TsvField(fields[i]) ELSE <<Tab>> \o TsvField(fields[i])]
           n == Len(fields)
           B == Text
           start == State(<<<<>>>>)
           Upto(k) == State(SubSeq(fields, 1, k))
<1>1. n \in Nat /\ n # 0 /\ DOMAIN fields = 1 .. n /\ fields \in Seq(Seq(B)) /\ \A i \in 1 .. n : fields[i] \in Seq(B)
  BY DEF Parts
<1>2. FormatTsv(fields) = FlattenSeq(words)
  BY Zenon DEF FormatTsv
<1>3. \A i \in 1 .. n : words[i] = IF i = 1 THEN TsvField(fields[i]) ELSE <<Tab>> \o TsvField(fields[i])
  BY <1>1
<1>4. \A i \in 1 .. n : TsvField(fields[i]) \in Seq(B)
  BY <1>1, FieldReads
<1>5. Len(words) = n /\ (n = 0 => words = <<>>)
  BY <1>1
<1> HIDE DEF words, n, B
<1>6. <<Tab>> \in Seq(B)
  <2>1. Tab \in B
    BY TsvTexts DEF B
  <2> QED
    BY <2>1
<1>7. \A i \in 1 .. n : words[i] \in Seq(B)
  <2> SUFFICES ASSUME NEW i \in 1 .. n PROVE words[i] \in Seq(B)
    OBVIOUS
  <2> DEFINE s == TsvField(fields[i])
  <2>1. s \in Seq(B)
    BY <1>4
  <2>2. words[i] = IF i = 1 THEN s ELSE <<Tab>> \o s
    BY <1>3
  <2> HIDE DEF s
  <2>3. <<Tab>> \o s \in Seq(B)
    BY <1>6, <2>1, JoinIs
  <2> QED
    BY <2>1, <2>2, <2>3, Zenon
<1>8. AreWords(B, words, n)
  BY <1>1, <1>5, <1>7, Zenon DEF AreWords
<1>9. PICK text : Joining(B, text, words, n) /\ FlattenSeq(words) = text[n]
  BY <1>8, FlattenSeqIs, Zenon
<1>10. /\ \A k \in 0 .. n : text[k] \in Seq(B)
       /\ text[0] = <<>>
       /\ \A k \in 1 .. n : text[k] = text[k - 1] \o words[k]
  BY <1>9 DEF Joining
<1> DEFINE S == {k \in 0 .. n : k = 0 \/ Reads(start, text[k], Upto(k))}
<1>11. ASSUME NEW k \in 1 .. n, k - 1 \in S
       PROVE  k \in S
  <2> DEFINE s == fields[k]
             before == SubSeq(fields, 1, k - 1)
  <2>1. /\ s \in Seq(B) /\ before \in Seq(Seq(B)) /\ SubSeq(fields, 1, k) = Append(before, s)
        /\ k = 1 => before = <<>>
    BY <1>1 DEF n
  <2> HIDE DEF s, before
  <2>2. /\ TsvField(s) \in Seq(B)
        /\ Reads(State(Append(before, <<>>)), TsvField(s), State(Append(before, s)))
    BY <2>1, FieldReads DEF B
  <2>3. State(Append(before, s)) = Upto(k)
    BY <2>1, Zenon
  <2>4. k - 1 \in 0 .. n /\ k \in 0 .. n /\ (k # 1 => k - 1 # 0)
    BY <1>1
  <2>5. text[k - 1] \in Seq(B) /\ words[k] \in Seq(B) /\ text[k] = text[k - 1] \o words[k]
    BY <1>7, <1>10, <2>4
  <2>6. CASE k = 1
    <3>1. words[k] = TsvField(s) /\ text[k - 1] = <<>>
      BY <1>3, <1>10, <2>6 DEF s
    <3>2. text[k] = TsvField(s)
      BY <2>2, <2>5, <3>1, JoinIs
    <3>3. Append(before, <<>>) = <<<<>>>>
      BY <2>1, <2>6
    <3>4. Reads(start, text[k], Upto(k))
      BY <2>2, <2>3, <3>2, <3>3, Zenon
    <3> QED
      BY <2>4, <3>4
  <2>7. CASE k # 1
    <3> DEFINE a == Upto(k - 1)
               b == State(Append(before, <<>>))
               c == Upto(k)
    <3>1. words[k] = <<Tab>> \o TsvField(s)
      BY <1>3, <2>7 DEF s
    <3>2. a = State(before)
      BY Zenon DEF before
    <3>3. ReadNext(State(before), Tab) = b
      BY TsvTexts DEF ReadNext, State
    <3>4. Reads(start, text[k - 1], a)
      BY <1>11, <2>4, <2>7
    <3>5. Reads(a, <<Tab>>, b)
      BY <3>2, <3>3, ReadsOne
    <3>6. Reads(b, TsvField(s), c)
      BY <2>2, <2>3, Zenon
    <3> HIDE DEF a, b, c, start
    <3>7. Reads(a, words[k], c)
      BY <1>6, <2>2, <3>1, <3>5, <3>6, ReadsOn
    <3>8. Reads(start, text[k], c)
      BY <2>5, <3>4, <3>7, ReadsOn
    <3> QED
      BY <2>4, <3>8 DEF c
  <2> QED
    BY <2>6, <2>7
<1>12. 0 \in S
  BY <1>1
<1>13. n \in S
  <2> HIDE DEF S
  <2>1. 0 .. n \subseteq S
    BY <1>1, <1>11, <1>12, IntervalInduction
  <2> QED
    BY <1>1, <2>1
<1>14. SubSeq(fields, 1, n) = fields
  BY <1>1 DEF n
<1>15. text[n] \in Seq(B)
  BY <1>1, <1>10
<1>16. Reads(start, text[n], Upto(n))
  BY <1>1, <1>13
<1> QED
  BY <1>2, <1>9, <1>14, <1>15, <1>16, Zenon DEF B

(* Whatever the fields are, with whatever tabs and backslashes in them, they *)
(* are read back from the text that FormatTsv makes of them (macros.rs 32    *)
(* calls it reversible).                                                     *)
THEOREM TsvReadsBack ==
    ASSUME NEW fields \in Seq(Seq(Text)) \ {<<>>}
    PROVE  FormatTsv(fields) \in Seq(Text) /\ ReadTsv(FormatTsv(fields)) = fields
<1>1. fields \in Parts(Text)
  BY Zenon DEF Parts
<1> DEFINE text == FormatTsv(fields)
<1>2. text \in Seq(Text) /\ Reads(State(<<<<>>>>), text, State(fields))
  BY <1>1, FieldsRead
<1> HIDE DEF text
<1>3. ReadTsv(text) = State(fields).fields
  BY <1>2, ReadTsvIs
<1>4. State(fields).fields = fields
  BY DEF State
<1> QED
  BY <1>2, <1>3, <1>4 DEF text

(* So no two lists of fields have the same text, and no two sites one salt  *)
(* because of what their fields contain.                                    *)
THEOREM TsvTellsTheFields ==
    \A a, b \in Seq(Seq(Text)) \ {<<>>} : FormatTsv(a) = FormatTsv(b) => a = b
BY TsvReadsBack, Zenon

(* A text that begins with the version is not empty. *)
LEMMA TsvNotEmpty ==
    ASSUME NEW fields \in Seq(Seq(Text)) \ {<<>>}, fields[1] = <<Version>>
    PROVE  FormatTsv(fields) # <<>>
<1> SUFFICES ASSUME FormatTsv(fields) = <<>> PROVE FALSE
  OBVIOUS
<1> DEFINE none == <<<<>>>>
<1>1. ReadTsv(<<>>) = fields
  BY TsvReadsBack, Zenon
<1>2. <<>> \in Seq(Text) /\ none[1] = <<>> /\ <<Version>> # <<>>
  OBVIOUS
<1>3. ReadTsv(<<>>) = State(none).fields
  BY <1>2, ReadsNothing, ReadTsvIs
<1>4. State(none).fields = none
  BY DEF State
<1> QED
  BY <1>1, <1>2, <1>3, <1>4
-----------------------------------------------------------------------------
(* The steps of a derivation *)

(* Every text is refused or is the schema of a node: of one of the five     *)
(* kinds, with no empty literal, class or list, no list of one and bounds   *)
(* in order, as the evaluation takes for granted (parse.rs 161-204).        *)
THEOREM ParserGivesNodes ==
    ASSUME NEW t \in Seq(Token)
    PROVE  /\ FromStr(t).kind \in {"ok", "error", "failure"}
           /\ 2 * Len(t) < MaxDepth /\ FromStr(t).kind = "ok" => FromStr(t).value \in Node
<1> DEFINE r == FromStr(t)
           n == 2 * Len(t) + 1
<1>1. n \in Nat /\ 2 * Len(t) < n
  OBVIOUS
<1>2. PICK f : Tower(f, n)
  BY <1>1, TowerExists
<1>3. r \in Outcome(t, 1, f[n])
  <2> HIDE DEF n, r
  <2> QED
    BY <1>1, <1>2, ParserGives DEF r
<1> HIDE DEF r, n
<1>4. r.kind \in {"ok", "error", "failure"}
  BY <1>3, OutcomeIs
<1>5. ASSUME 2 * Len(t) < MaxDepth, r.kind = "ok"
      PROVE  r.value \in Node
  <2>1. r \in Outcome(t, 1, NodesTo[MaxDepth])
    BY <1>5, DepthAssumption, NodesToIs, ParserGives DEF r
  <2>2. r.value \in NodesTo[MaxDepth]
    BY <1>5, <2>1, OutcomeIs
  <2> QED
    BY <2>2 DEF Node
<1> QED
  BY <1>4, <1>5 DEF r

(* The canonical format of any node is a text, which can be parsed again. *)
THEOREM CanonicalIsText == \A n \in Node : WriteRepr(n) \in Seq(Token)
BY WriteReprIs

(* The fields of a site are texts, and the version comes first. *)
LEMMA FieldsAre ==
    ASSUME site \in Sites, node \in Node
    PROVE  Fields \in Seq(Seq(Text)) \ {<<>>} /\ Fields[1] = <<Version>>
<1> DEFINE url == site.url
           name == IF site.username = None THEN <<>> ELSE site.username
           schema == WriteRepr(node)
           increment == site.increment
<1>1. url \in Seq(Text) /\ increment \in Seq(Text)
  BY SiteAssumption
<1>2. name \in Seq(Text)
  <2>1. <<>> \in Seq(Text)
    OBVIOUS
  <2>2. site.username = None \/ site.username \in Seq(Text)
    BY SiteAssumption
  <2> QED
    BY <2>1, <2>2, Zenon
<1>3. schema \in Seq(Text)
  <2>1. schema \in Seq(Token) /\ Token \subseteq Text
    BY WriteReprIs, TsvTexts
  <2> HIDE DEF schema
  <2> QED
    BY <2>1
<1>4. <<Version>> \in Seq(Text)
  BY TsvTexts
<1>5. Fields = <<<<Version>>, url, name, schema, increment>>
  BY Zenon DEF Fields
<1> HIDE DEF url, name, schema, increment
<1> DEFINE first == <<Version>>
<1>6. first \in Seq(Text)
  BY <1>4
<1> HIDE DEF first
<1>7. <<first, url, name, schema, increment>> \in Seq(Seq(Text)) \ {<<>>} /\ <<first, url, name, schema, increment>>[1] = first
  BY <1>1, <1>2, <1>3, <1>6
<1> QED
  BY <1>5, <1>7 DEF first

(* The text of a site is that of its fields, once it is there, and what is  *)
(* read again is what was written of the schema.                            *)
IInv ==
    /\ TypeOK
    /\ site \in Sites
    /\ pc \in {"displayed", "done"} => derivation = FormatTsv(Fields)
    /\ pc = "done" => again = FromStr(WriteRepr(node))

(* The strengthened invariant holds at first, *)
LEMMA InitIInv == Init => IInv
BY DEF Init, IInv, TypeOK

(* every step keeps it, *)
LEMMA NextIInv == IInv /\ [Next]_vars => IInv'
<1> SUFFICES ASSUME IInv, [Next]_vars PROVE IInv'
  OBVIOUS
<1>1. CASE NewSite
  <2> DEFINE r == FromStr(site.schema)
  <2>1. r.kind = "ok" /\ node' = r.value /\ pc = "new" /\ pc' = "site" /\ UNCHANGED <<site, derivation, again>>
    BY <1>1 DEF NewSite
  <2>2. site.schema \in Seq(Token) /\ 2 * Len(site.schema) < MaxDepth
    BY SiteAssumption DEF IInv
  <2>3. node' \in Node
    BY <2>1, <2>2, ParserGivesNodes
  <2> HIDE DEF r
  <2> QED
    BY <2>1, <2>3 DEF IInv, TypeOK
<1>2. CASE SchemaRejected
  BY <1>2 DEF SchemaRejected, IInv, TypeOK
<1>3. CASE Display
  <2>1. /\ pc = "site" /\ pc' = "displayed" /\ derivation' = FormatTsv(Fields)
        /\ UNCHANGED <<site, node, again>>
    BY <1>3 DEF Display
  <2>2. Fields' = Fields
    BY <2>1, Zenon DEF Fields
  <2>3. node \in Node /\ site \in Sites
    BY <2>1 DEF IInv, TypeOK
  <2>4. derivation' # <<>>
    BY <2>1, <2>3, FieldsAre, TsvNotEmpty, Zenon
  <2>5. TypeOK'
    BY <2>1, <2>4 DEF IInv, TypeOK
  <2>6. derivation' = FormatTsv(Fields')
    BY <2>1, <2>2, Zenon
  <2>7. pc' # "done"
    BY <2>1
  <2> QED
    BY <2>1, <2>3, <2>5, <2>6, <2>7, Zenon DEF IInv
<1>4. CASE DisplayPanics
  BY <1>4 DEF DisplayPanics, IInv, TypeOK
<1>5. CASE ParseAgain
  <2>1. /\ pc = "displayed" /\ pc' = "done" /\ again' = FromStr(WriteRepr(node))
        /\ UNCHANGED <<site, node, derivation>>
    BY <1>5 DEF ParseAgain
  <2>2. Fields' = Fields
    BY <2>1, Zenon DEF Fields
  <2>3. node \in Node /\ site \in Sites /\ derivation = FormatTsv(Fields)
    BY <2>1 DEF IInv, TypeOK
  <2>4. again'.kind \in {"ok", "error", "failure"}
    <3>1. WriteRepr(node) \in Seq(Token)
      BY <2>3, WriteReprIs
    <3> QED
      BY <2>1, <3>1, ParserGivesNodes
  <2>5. TypeOK'
    BY <2>1, <2>4 DEF IInv, TypeOK
  <2>6. derivation' = FormatTsv(Fields')
    BY <2>1, <2>2, <2>3, Zenon
  <2>7. again' = FromStr(WriteRepr(node'))
    BY <2>1, Zenon
  <2> QED
    BY <2>1, <2>3, <2>5, <2>6, <2>7, Zenon DEF IInv
<1>6. CASE UNCHANGED vars
  <2>1. UNCHANGED <<pc, site, node, derivation, again>>
    BY <1>6 DEF vars
  <2>2. Fields' = Fields
    BY <2>1, Zenon DEF Fields
  <2>3. TypeOK'
    BY <2>1 DEF IInv, TypeOK
  <2> QED
    BY <2>1, <2>2, <2>3, Zenon DEF IInv
<1> QED
  BY <1>1, <1>2, <1>3, <1>4, <1>5, <1>6 DEF Next

(* and so it always holds. *)
LEMMA SpecIInv == Spec => []IInv
BY InitIInv, NextIInv, PTL DEF Spec

(* What is kept of a schema is a node that the other modules can take for   *)
(* granted, and the text of a site is there exactly when it was displayed.  *)
THEOREM SpecTypeOK == Spec => []TypeOK
<1>1. IInv => TypeOK
  BY DEF IInv
<1> QED
  BY <1>1, SpecIInv, PTL

(* The fields of every site are read back from its text, for any alphabet,  *)
(* any schema and any username, URL and increment (macros.rs 32).           *)
THEOREM SpecFieldsReadBack == Spec => []FieldsReadBack
<1>1. IInv => FieldsReadBack
  <2> SUFFICES ASSUME IInv, pc \in {"displayed", "done"} PROVE ReadTsv(derivation) = Fields
    BY Zenon DEF FieldsReadBack
  <2>1. derivation = FormatTsv(Fields) /\ site \in Sites /\ node \in Node
    BY DEF IInv, TypeOK
  <2>2. Fields \in Seq(Seq(Text)) \ {<<>>}
    BY <2>1, FieldsAre
  <2> QED
    BY <2>1, <2>2, TsvReadsBack, Zenon
<1> QED
  BY <1>1, SpecIInv, PTL

(* Whatever site is derived, its schema is read back from the canonical     *)
(* format that is kept of it, if it is tidy.                                *)
THEOREM SpecTidyStays == Spec => []TidyStays
<1>1. IInv => TidyStays
  <2> SUFFICES ASSUME IInv, pc = "done", Tidy[node] PROVE again = Ok(Len(WriteRepr(node)) + 1, node)
    BY Zenon DEF TidyStays
  <2>1. node \in Node /\ again = FromStr(WriteRepr(node))
    BY DEF IInv, TypeOK
  <2> QED
    BY <2>1, TidyReadsBack, Zenon
<1> QED
  BY <1>1, SpecIInv, PTL
================================================================================

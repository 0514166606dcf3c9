------------------------------ MODULE SchemaEval ------------------------------
(***************************************************************************)
(* How a schema becomes a password: Node::size counts what the schema      *)
(* generates, secret_uniform draws an index below that, and Node::write_to *)
(* takes the index apart again.  All of it is U256 arithmetic that         *)
(* saturates at U256::MAX.  (crates/seed/src/expr: node.rs, generator.rs,  *)
(* util.rs, context.rs; crates/seed/src/crypto.rs; src/main.rs)            *)
(*                                                                         *)
(* A schema is a tree of records.  Of what it writes the model keeps the   *)
(* derivation, which character, word and repetition was chosen where, and  *)
(* the length.  Words of a dictionary and characters of a class count from *)
(* 0.  Which words there are is the business of Dict.                      *)
(***************************************************************************)
EXTENDS Dict

CONSTANTS
    MaxU,         \* U256::MAX
    MaxCount,     \* u32::MAX
    BufferSize,   \* the bytes of the buffer that Site::password writes to
    NoHash,       \* a generator without a dictionary hash among its arguments
    EffLines,     \* the lines, split at tabs, of data/eff_large_wordlist.txt
    None,         \* no words file
    Height,       \* of each schema and each of its parts, how deep it is nested
    MaxHeight,
    Starts        \* what is on the command line, in the configuration, and the schema

VARIABLES
    start,     \* the words files named by the option and by the configuration, and the schema
    context,   \* the dictionaries by hash, and the default one
    pc,        \* "words", "size", "sample", "write", "done", "too long" or "panic"
    size,      \* what Expr::size returned
    index,     \* what secret_uniform returned
    out,       \* what Expr::write_to wrote
    panic      \* why the run panicked

vars == <<start, context, pc, size, index, out, panic>>
schema == start.schema

-----------------------------------------------------------------------------
(* The context maps hashes to word lists; one list is the default. *)

Eff == EffWordlist(EffLines)
DefaultContext == [dict |-> [h \in {Eff.hash} |-> Eff.words], default |-> Eff.hash]

WithDefaultDict(c, d) ==
    [dict |-> [h \in DOMAIN c.dict \cup {d.hash} |-> IF h = d.hash THEN d.words ELSE c.dict[h]],
     default |-> d.hash]

(* read_words_str: the option goes before the configuration. *)
WordsFile == IF start.arg # None THEN start.arg ELSE start.config

HashOf(c, hash) == IF hash = NoHash THEN c.default ELSE hash

-----------------------------------------------------------------------------
(* What the constants are *)

Node == DOMAIN Height

(* The word lists of the instance, the hash and the words of each *)
Sources == ({s.arg : s \in Starts} \cup {s.config : s \in Starts}) \ {None}
HashedLists == {<<Load(s).hash, WordsIn(s)>> : s \in Sources}

Parts(n) ==
    CASE n.kind = "list" -> ToSet(n.items)
      [] n.kind = "count" -> {n.item}
      [] OTHER -> {}

ASSUME WidthAssumption ==
    MaxU \in Nat \ {0, 1} /\ MaxCount \in 1 .. MaxU /\ BufferSize \in Nat

(* The parser lets no empty class pass, and no count whose min is above its max. *)
ASSUME NodeAssumption ==
    \A n \in Node :
        CASE n.kind = "literal" -> n.len \in Nat
          [] n.kind = "chars" -> n.size \in 1 .. MaxU
          [] n.kind = "list" -> n.items \in Seq(Node)
          [] n.kind = "count" ->
               n.item \in Node /\ n.max \in 0 .. MaxCount /\ n.min \in 0 .. n.max
          [] n.kind = "word" -> n.upper \in BOOLEAN
          [] n.kind = "words" ->
               n.count \in 0 .. MaxCount /\ n.upper \in BOOLEAN /\ n.sep \in Nat
          [] OTHER -> n.kind = "unknown"

(* A schema is a tree: a part is not as high as what it is part of. *)
ASSUME HeightAssumption ==
    /\ MaxHeight \in Nat /\ Height \in [Node -> 0 .. MaxHeight]
    /\ \A n \in Node : \A m \in Parts(n) : Height[m] < Height[n]

(* Texts are bytes, and lists have no more words than a number counts. *)
ASSUME SourceAssumption ==
    /\ EffLines \in Seq(Seq(Seq(Byte)))
    /\ \A s \in Sources :
          /\ CASE s.kind = "lines" -> s.text \in Seq(Byte)
               [] s.kind = "sep" -> s.text \in Seq(Byte) /\ s.sep \in Byte
               [] OTHER -> s.kind = "iter" /\ s.words \in Seq(Seq(Byte))
          /\ Cardinality(WordsIn(s)) <= MaxU

ASSUME DictAssumption ==
    /\ Eff.words # <<>> /\ Len(Eff.words) <= MaxU
    /\ NoHash # Eff.hash /\ \A list \in HashedLists : NoHash # list[1]

ASSUME StartAssumption == \A s \in Starts : s.schema \in Node

-----------------------------------------------------------------------------
(* U256 arithmetic *)

AtMost(m, x) == IF x > m THEN m ELSE x
SatMul(a, b) == AtMost(MaxU, a * b)

(* u256_saturating_pow: square and multiply, from the lowest bit of n, of   *)
(* which there are no more than n                                           *)
SquareAndMultiply(s) ==
    IF s.n = 0 THEN s
    ELSE [base |-> SatMul(s.base, s.base), n |-> s.n \div 2,
          res |-> IF s.n % 2 = 1 THEN SatMul(s.res, s.base) ELSE s.res]

SatPow(base, n) ==
    LET loop[k \in 0 .. n] ==
            IF k = 0 THEN [base |-> base, n |-> n, res |-> 1] ELSE SquareAndMultiply(loop[k - 1])
    IN  loop[n].res

-----------------------------------------------------------------------------
(* Node::size: a number, or the panic it ends in *)

Size(n) == [n |-> n, panic |-> "none"]
Panics(why) == [n |-> 0, panic |-> why]
Then(r, s) == IF r.panic # "none" THEN r ELSE s

ListSize(sizes) ==
    LET acc[k \in 0 .. Len(sizes)] ==
            IF k = 0 THEN Size(1)
            ELSE Then(acc[k - 1], Then(sizes[k], Size(SatMul(acc[k - 1].n, sizes[k].n))))
    IN  acc[Len(sizes)]

(* A slip: the sum stops before the greatest count. *)
CountSizeShort(n, min, max) ==
    IF n = 1 THEN Size(max - min + 1)
    ELSE Size((SatPow(n, max) - SatPow(n, min)) \div (n - 1))

(* A slip: the greatest count plus one is computed before the case of an    *)
(* item that writes one thing only is left.                                 *)
CountSizeHoisted(n, min, max) ==
    IF max + 1 > MaxCount THEN Panics("overflow")
    ELSE IF n = 1 THEN Size(max - min + 1)
    ELSE Size((SatPow(n, max + 1) - SatPow(n, min)) \div (n - 1))

(* (n^(max+1) - n^min) / (n - 1), once the u32 arithmetic has not           *)
(* overflowed.  Where it does, a build that wraps comes to a size of zero   *)
(* or a negative one, whose unwrap panics as well.                          *)
CountSize(n, min, max) ==
    LET x == SatPow(n, max + 1)
        y == SatPow(n, min)
    IN  IF n = 1
        THEN IF max - min + 1 > MaxCount THEN Panics("overflow") ELSE Size(max - min + 1)
        ELSE IF max + 1 > MaxCount THEN Panics("overflow")
        ELSE IF x = MaxU /\ y = MaxU THEN Size(MaxU)
        ELSE IF (x - y) % (n - 1) # 0 THEN Panics("remainder")
        ELSE Size((x - y) \div (n - 1))

(* Word::size: the length of the dictionary its arguments name. *)
WordSize(c, hash) ==
    IF HashOf(c, hash) \notin DOMAIN c.dict THEN Panics("unknown dictionary")
    ELSE IF c.dict[HashOf(c, hash)] = <<>> THEN Panics("empty dictionary")
    ELSE Size(Len(c.dict[HashOf(c, hash)]))

WordsSize(c, n) ==
    LET word == WordSize(c, n.hash)
        lists == SatPow(word.n, n.count)
    IN  IF n.count = 0 THEN Panics("no words")
        ELSE Then(word, Size(IF n.upper THEN SatMul(lists, n.count) ELSE lists))

(* The size of a node, given the sizes of its parts *)
SizeAt(c, sizeOf, n) ==
    CASE n.kind = "literal" -> Size(1)
      [] n.kind = "chars" -> Size(n.size)
      [] n.kind = "list" -> ListSize([k \in DOMAIN n.items |-> sizeOf[n.items[k]]])
      [] n.kind = "count" -> Then(sizeOf[n.item], CountSize(sizeOf[n.item].n, n.min, n.max))
      [] n.kind = "word" -> WordSize(c, n.hash)
      [] n.kind = "words" -> WordsSize(c, n)
      [] OTHER -> Panics("unknown generator")

NodeSize(c) == LET sizeOf[n \in Node] == SizeAt(c, sizeOf, n) IN sizeOf

-----------------------------------------------------------------------------
(* Node::write_to: what was written, how much, or the panic it ends in *)

Written(what, len) == [out |-> what, len |-> len, panic |-> "none"]
WritePanics(why) == [out |-> <<>>, len |-> 0, panic |-> why]
Of(kind, w) == [w EXCEPT !.out = <<kind, @>>]
Total(lengths) == Sums(lengths)[Len(lengths)]

(* What is left of the index after each part: div_rem by its base *)
Rests(i, bases) ==
    LET rest[k \in 0 .. Len(bases)] == IF k = 0 THEN i ELSE rest[k - 1] \div bases[k]
    IN  rest

(* Each part takes the remainder for its index, until one panics.  Nothing  *)
(* may be left of the index in the end.                                     *)
WriteParts(i, bases, parts) ==
    LET rest == Rests(i, bases)
        part == [k \in DOMAIN bases |-> parts[k][rest[k - 1] % bases[k]]]
        failed == {k \in DOMAIN bases : part[k].panic # "none"}
        last == IF failed = {} THEN Len(bases) ELSE Min(failed)
    IN  [out |-> [k \in 1 .. last |-> part[k].out],
         len |-> Total([k \in 1 .. last |-> part[k].len]),
         panic |-> IF failed # {} THEN part[last].panic
                   ELSE IF rest[last] # 0 THEN "index left" ELSE "none"]

(* The loop of Count: how many repetitions, and the index among those.  It  *)
(* takes a turn, and 1 or more off the index, no more than i times.         *)
CountOneMore(base, s) ==
    IF s.n > s.index THEN s
    ELSE [count |-> s.count + 1, n |-> SatMul(s.n, base), index |-> s.index - s.n]

CountSplit(base, min, i) ==
    LET loop[k \in 0 .. i] ==
            IF k = 0 THEN [count |-> min, n |-> SatPow(base, min), index |-> i]
            ELSE CountOneMore(base, loop[k - 1])
    IN  loop[i]

WriteCount(base, item, min, max, i) ==
    LET split == CountSplit(base, min, i)
        times == 1 .. split.count
    IN  IF split.count > max THEN WritePanics("count")
        ELSE WriteParts(split.index, [k \in times |-> base], [k \in times |-> item])

(* Dict::word panics past the end of the dictionary. *)
WriteWord(c, hash, upper, i) ==
    LET words == c.dict[HashOf(c, hash)]
    IN  IF i >= Len(words) THEN WritePanics("past the dictionary")
        ELSE Written([word |-> words[i + 1], upper |-> upper], Len(words[i + 1]))

(* The k-th of the words, after a separator unless it is the first *)
WriteNextWord(c, k, capital, sep, i) ==
    LET w == WriteWord(c, NoHash, k = capital, i)
    IN  IF k = 1 THEN w ELSE [w EXCEPT !.len = @ + sep]

WriteWordsAt(c, n, capital, i) ==
    LET times == 1 .. n.count
    IN  WriteParts(i, [k \in times |-> WordSize(c, n.hash).n],
                   [k \in times |-> [x \in 0 .. MaxU |-> WriteNextWord(c, k, capital, n.sep, x)]])

(* A slip: the choice of the capital does not use up the index. *)
WriteWordsAgain(c, n, i) == WriteWordsAt(c, n, IF n.upper THEN (i % n.count) + 1 ELSE 0, i)

(* Words::write_to: the hash counts the words; it does not choose them. *)
WriteWords(c, n, i) ==
    IF n.count = 0 THEN WritePanics("no words")
    ELSE IF n.upper THEN WriteWordsAt(c, n, (i % n.count) + 1, i \div n.count)
    ELSE WriteWordsAt(c, n, 0, i)

(* What a node writes for an index, given what its parts write *)
WriteAt(c, sizeOf, write, n, i) ==
    CASE n.kind = "literal" -> Written(<<>>, n.len)
      [] n.kind = "chars" -> Written(i, 1)
      [] n.kind = "list" ->
           WriteParts(i, [k \in DOMAIN n.items |-> sizeOf[n.items[k]].n],
                      [k \in DOMAIN n.items |-> write[n.items[k]]])
      [] n.kind = "count" -> WriteCount(sizeOf[n.item].n, write[n.item], n.min, n.max, i)
      [] n.kind = "word" -> WriteWord(c, n.hash, n.upper, i)
      [] n.kind = "words" -> WriteWords(c, n, i)
      [] OTHER -> WritePanics("unknown generator")

Write(c) ==
    LET sizeOf == NodeSize(c)
        write[n \in Node] ==
            [i \in 0 .. MaxU |-> Of(n.kind, WriteAt(c, sizeOf, write, n, i))]
    IN  write

-----------------------------------------------------------------------------
Init ==
    /\ start \in Starts
    /\ context = DefaultContext
    /\ pc = "words"
    /\ size = 0
    /\ index = 0
    /\ out = <<>>
    /\ panic = "none"

(* The words of the words file, if there is one, are the default list. *)
LoadWords ==
    /\ pc = "words"
    /\ context' = IF WordsFile = None THEN DefaultContext
                  ELSE WithDefaultDict(DefaultContext, Load(WordsFile))
    /\ pc' = "size"
    /\ UNCHANGED <<start, size, index, out, panic>>

(* self.expr.size() *)
Measure ==
    /\ pc = "size"
    /\ size' = NodeSize(context)[schema].n
    /\ panic' = NodeSize(context)[schema].panic
    /\ pc' = IF panic' = "none" THEN "sample" ELSE "panic"
    /\ UNCHANGED <<start, context, index, out>>

(* A slip: the size itself is drawn. *)
SampleInclusive ==
    /\ pc = "sample"
    /\ index' \in 0 .. size
    /\ pc' = "write"
    /\ UNCHANGED <<start, context, size, out, panic>>

(* secret_uniform: some index below the size; 0 without a draw if that is 1 *)
Sample ==
    /\ pc = "sample"
    /\ index' \in 0 .. (size - 1)
    /\ pc' = "write"
    /\ UNCHANGED <<start, context, size, out, panic>>

(* A slip: the last byte of the buffer is taken for its end. *)
OverflowsEarly(len) == len > BufferSize - 1

(* The cursor over the buffer refuses what goes past its end. *)
Overflows(len) == len > BufferSize

(* self.expr.write_to(w, &mut index), and what is made of its result: the  *)
(* refusal of the write ends it before an assertion that comes after.      *)
WritePassword ==
    /\ pc = "write"
    /\ LET w == Write(context)[schema][index]
       IN  IF Overflows(w.len) THEN pc' = "too long" /\ UNCHANGED <<out, panic>>
           ELSE /\ out' = w.out
                /\ panic' = w.panic
                /\ pc' = IF w.panic = "none" THEN "done" ELSE "panic"
    /\ UNCHANGED <<start, context, size, index>>

Next == LoadWords \/ Measure \/ Sample \/ WritePassword

Spec == Init /\ [][Next]_vars

-----------------------------------------------------------------------------
(* The language of a schema, told without indexes *)

(* The words of the list that a hash names *)
NamedWords(hash) ==
    IF HashOf(context, hash) = Eff.hash THEN ToSet(WordColumn(EffLines)) \ {<<>>}
    ELSE WordsIn(WordsFile)

AnyOf(sets) ==
    LET any[k \in 0 .. Len(sets)] == IF k = 0 THEN {} ELSE any[k - 1] \cup sets[k]
    IN  any[Len(sets)]

(* The derivations of a node: its kind, and a choice for whatever it leaves open *)
LanguageAt(language, n) == {n.kind} \X
    CASE n.kind = "literal" -> {<<>>}
      [] n.kind = "chars" -> 0 .. (n.size - 1)
      [] n.kind = "list" ->
           {d \in [DOMAIN n.items -> AnyOf([k \in DOMAIN n.items |-> language[n.items[k]]])] :
               \A k \in DOMAIN n.items : d[k] \in language[n.items[k]]}
      [] n.kind = "count" -> {d \in Seq(language[n.item]) : Len(d) \in n.min .. n.max}
      [] n.kind = "word" -> [word : NamedWords(n.hash), upper : {n.upper}]
      [] n.kind = "words" ->
           {d \in [1 .. n.count -> [word : NamedWords(n.hash), upper : BOOLEAN]] :
               Cardinality({k \in 1 .. n.count : d[k].upper}) = (IF n.upper THEN 1 ELSE 0)}
      [] OTHER -> {}

Language[n \in Node] == LanguageAt(Language, n)

(* How many bytes a derivation is written with *)
LengthAt(length, n, d) ==
    CASE n.kind = "literal" -> n.len
      [] n.kind = "chars" -> 1
      [] n.kind = "list" -> Total([k \in DOMAIN n.items |-> length[n.items[k]][d[2][k]]])
      [] n.kind = "count" -> Total([k \in DOMAIN d[2] |-> length[n.item][d[2][k]]])
      [] n.kind = "word" -> Len(d[2].word)
      [] OTHER -> Total([k \in DOMAIN d[2] |-> Len(d[2][k].word)]) + (n.count - 1) * n.sep

LengthOf[n \in Node] == [d \in Language[n] |-> LengthAt(LengthOf, n, d)]

(* Products and powers, where m stands for anything greater *)
Product(m, numbers) ==
    LET product[k \in 0 .. Len(numbers)] ==
            IF k = 0 THEN 1 ELSE AtMost(m, product[k - 1] * numbers[k])
    IN  product[Len(numbers)]
Powers(m, n) ==
    LET power[k \in Nat] == IF k = 0 THEN 1 ELSE AtMost(m, power[k - 1] * n)
    IN  power

(* How many derivations there are, where MaxU + 1 stands for any more *)
NumberAt(numberOf, n) ==
    CASE n.kind = "literal" -> 1
      [] n.kind = "chars" -> n.size
      [] n.kind = "list" -> Product(MaxU + 1, [k \in DOMAIN n.items |-> numberOf[n.items[k]]])
      [] n.kind = "count" ->
           LET powers == Powers(MaxU + 1, numberOf[n.item])
           IN  AtMost(MaxU + 1, Total([k \in 1 .. n.max - n.min + 1 |-> powers[n.min + k - 1]]))
      [] n.kind = "word" -> Cardinality(NamedWords(n.hash))
      [] n.kind = "words" ->
           LET lists == Powers(MaxU + 1, Cardinality(NamedWords(n.hash)))[n.count]
           IN  IF n.upper THEN AtMost(MaxU + 1, lists * n.count) ELSE lists
      [] OTHER -> 0

NumberOf[n \in Node] == NumberAt(NumberOf, n)

(* A node and all that it is made of *)
Within[n \in Node] == {n} \cup UNION {Within[m] : m \in Parts(n)}

(* No count of the schema has a closed form that saturates. *)
Fits(n) ==
    \A m \in Within[n] :
        m.kind = "count" => Powers(MaxU + 1, NumberOf[m.item])[m.max + 1] <= MaxU

(* Every generator of the schema is known and has words to choose, one at least. *)
HasWords(n) ==
    \A m \in Within[n] :
        /\ m.kind # "unknown"
        /\ m.kind \in {"word", "words"} =>
             HashOf(context, m.hash) \in DOMAIN context.dict /\ NamedWords(m.hash) # {}
        /\ m.kind = "words" => m.count > 0

(* A number holds the greatest count plus one, or for an item that writes   *)
(* one thing only how many repetitions there may be.                        *)
CountsInRange(n) ==
    \A m \in Within[n] :
        m.kind = "count" =>
            IF NumberOf[m.item] = 1 THEN m.max - m.min < MaxCount ELSE m.max < MaxCount

(* Every {words} of the schema names the default dictionary, or none. *)
OwnWords(n) ==
    \A m \in Within[n] : m.kind = "words" => HashOf(context, m.hash) = context.default

-----------------------------------------------------------------------------
(* Properties *)

(* Every variable has its type. *)
TypeOK ==
    /\ WordsFile \in Sources \cup {None}
    /\ Eff.hash \in DOMAIN context.dict /\ context.default \in DOMAIN context.dict
    /\ schema.kind \in {"literal", "chars", "list", "count", "word", "words", "unknown"}
    /\ pc \in {"words", "size", "sample", "write", "done", "too long", "panic"}
    /\ size \in 0 .. MaxU
    /\ index \in 0 .. MaxU
    /\ pc \in {"write", "done", "too long"} => index < size
    /\ pc = "panic" <=> panic # "none"

(* The size is the number of passwords, or U256::MAX where there are more:  *)
(* the closed form of a count, and lists of counts of lists, are exact as   *)
(* long as no count's closed form overflows. (node.rs 35-72)                *)
SizeCountsPasswords ==
    pc = "sample" /\ Fits(schema) =>
        size = IF NumberOf[schema] > MaxU THEN MaxU ELSE NumberOf[schema]

(* The indexes below the size enumerate the schema: every derivation has    *)
(* one index and every index one derivation, so that no password is out of  *)
(* reach or more likely than another, and every word of the file, however   *)
(* often and with what blanks around it, is a word once.                    *)
(* (node.rs 74-125, generator.rs 216-259, dict.rs 74-81)                    *)
EveryPasswordOnce ==
    pc = "sample" /\ Fits(schema) /\ OwnWords(schema) /\ NumberOf[schema] <= MaxU =>
        LET passwords == {Write(context)[schema][i].out : i \in 0 .. (size - 1)}
        IN  /\ passwords \subseteq Language[schema]
            /\ Cardinality(passwords) = NumberOf[schema]

(* Once a schema has been measured, exactly or not, its password is written *)
(* and is one of the schema's: no assertion of write_to fails, even where   *)
(* the size saturated. (node.rs 94-120, generator.rs 257)                   *)
MeasuredIsWritten ==
    OwnWords(schema) =>
        /\ pc = "panic" => size = 0
        /\ pc = "done" => out \in Language[schema]

(* Measuring panics exactly where the schema or any part of it, were it     *)
(* repeated zero times, has a generator without words or a count out of     *)
(* range: nothing else is refused, and none of these gets a size.           *)
(* (node.rs 45-68, generator.rs 148-151, 206, 216-225)                      *)
PanicsAreDeserved ==
    /\ pc = "sample" => HasWords(schema) /\ (Fits(schema) => CountsInRange(schema))
    /\ pc = "panic" /\ size = 0 /\ HasWords(schema) /\ Fits(schema) => ~ CountsInRange(schema)

(* A password is all there, or there is none: one that the buffer does not  *)
(* hold is refused, and only such a one. (crypto.rs 29-40)                  *)
WholeOrNothing ==
    OwnWords(schema) =>
        /\ pc = "done" => LengthOf[schema][out] <= BufferSize
        /\ pc = "too long" =>
             out = <<>> /\ LengthOf[schema][Write(context)[schema][index].out] > BufferSize

(* The hash of a word list stands for its words: whatever order, blanks,    *)
(* repetitions and separators they are given with, two lists have the same  *)
(* hash exactly if they have the same words, newlines in them included; and *)
(* the context finds each list under its hash.  What the salt of a site     *)
(* says of its words rests on that. (dict.rs 49-81, 110-121, context.rs 65) *)
HashNamesTheWords ==
    pc = "size" =>
        /\ \A h \in DOMAIN context.dict :
              LET words == ToSet(context.dict[h])
              IN  \A list \in HashedLists : h = list[1] <=> words = list[2]
        /\ WordsFile # None => ToSet(context.dict[context.default]) = WordsIn(WordsFile)

(* node.rs 66: assert!(rem.is_zero()), the division of the closed form      *)
(* leaves nothing.                                                          *)
RemainderIsZero == panic # "remainder"

(* lib.rs 26-33: the canonical schema, which names the hash of a word list, *)
(* re-derives the password: its words are those of that list.               *)
WordsOfTheNamedList ==
    pc = "done" => out \in Language[schema]

=============================================================================

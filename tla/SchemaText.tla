------------------------------ MODULE SchemaText ------------------------------
(***************************************************************************)
(* The schema language as text: the parser and the canonical format.       *)
(* (crates/seed/src/expr: parse.rs, repr.rs, generator.rs)                 *)
(*                                                                         *)
(* A text is a sequence of tokens.  Most tokens are characters; the words  *)
(* that the language gives a meaning to, dictionary hashes and the digits  *)
(* after \x are one token each.  Tab stands for every control character.   *)
(***************************************************************************)
EXTENDS Integers, Sequences, SequencesExt, FiniteSetsExt

CONSTANTS
    Order,          \* the characters, in the order of their code points
    Tab,            \* the control character
    Digits,         \* the digits in order: Digits[n + 1] is the digit n
    LowerLetters, UpperLetters,
    DefaultHash,    \* the hash of the context's default dictionary
    OtherHashes,    \* the hashes of its other dictionaries
    MaxDepth        \* bounds how deep counts and lists are nested

PosixNames == {"lower", "upper", "alpha", "alnum", "digit", "xdigit", "punct", "print"}
Names == {"word", "words"} \cup PosixNames
HexOf == [c \in {Tab} |-> "09"]        \* the two digits of \x
Hashes == OtherHashes \cup {DefaultHash}

Digit == ToSet(Digits)
Lower == LowerLetters \cup Names
Alphanumeric == Lower \cup UpperLetters \cup Digit \cup {HexOf[Tab]} \cup Hashes
Character == ToSet(Order)
Punctuation == Character \ (Alphanumeric \cup {Tab})
Syntax == {"\\", "[", "]", "(", ")", "{", "}", "|"}

Token == Character \cup Names \cup Hashes \cup {HexOf[Tab]}
NoToken == "end"                        \* what follows the last token

ASSUME OrderAssumption ==
    /\ Order \in Seq(Character) /\ IsInjective(Order)
    /\ Syntax \cup {",", "-", ":", "_"} \subseteq Punctuation
    /\ Tab \in Character \ Alphanumeric /\ NoToken \notin Token

ASSUME LetterAssumption ==
    /\ Digits \in Seq(Character) /\ Len(Digits) = 10 /\ IsInjective(Digits)
    /\ LowerLetters \subseteq Character /\ {"t", "x"} \subseteq LowerLetters
    /\ UpperLetters # {} /\ UpperLetters \subseteq Character
    /\ Lower \cap Digit = {} /\ Names \cap Character = {}

ASSUME DepthAssumption == MaxDepth \in Nat

Code(c) == CHOOSE i \in DOMAIN Order : Order[i] = c
From(a, b) == Code(a) .. Code(b)
CodesOf(S) == {Code(c) : c \in S}

-----------------------------------------------------------------------------
(* The nodes that the other modules take for granted: no empty literal,     *)
(* class or list, no list of one, bounds in order.                          *)

CharRange == {r \in (DOMAIN Order) \X (DOMAIN Order) : r[1] <= r[2]}

Leaf ==
    [kind : {"literal", "generator"}, text : Seq(Token) \ {<<>>}]
    \cup [kind : {"chars"}, ranges : Seq(CharRange) \ {<<>>}]

NodesOver(S) ==
    Leaf
    \cup {n \in [kind : {"count"}, item : S, min : Nat, max : Nat] : n.min <= n.max}
    \cup {n \in [kind : {"list"}, items : Seq(S)] : Len(n.items) > 1}

NodesTo[depth \in 0 .. MaxDepth] == IF depth = 0 THEN Leaf ELSE NodesOver(NodesTo[depth - 1])
Node == NodesTo[MaxDepth]

(* Chars::from_ranges: the characters as ranges in order, as far apart as   *)
(* they can be (CharRanges has how it gets there).                          *)
RangesOf(codes) ==
    {r \in codes \X codes :
        /\ r[1] <= r[2] /\ r[1] .. r[2] \subseteq codes
        /\ r[1] - 1 \notin codes /\ r[2] + 1 \notin codes}

FromRanges(codes) ==
    [i \in 1 .. Cardinality(RangesOf(codes)) |->
        CHOOSE r \in RangesOf(codes) :
            Cardinality({q \in RangesOf(codes) : q[1] < r[1]}) = i - 1]

Literal(s) == [kind |-> "literal", text |-> s]
ClassOf(codes) == [kind |-> "chars", ranges |-> FromRanges(codes)]
Class(sets) == ClassOf(UNION ToSet(sets))
Generator(s) == [kind |-> "generator", text |-> s]
Count(item, min, max) == [kind |-> "count", item |-> item, min |-> min, max |-> max]

FromIter(s) == IF Len(s) = 1 THEN s[1] ELSE [kind |-> "list", items |-> s]

-----------------------------------------------------------------------------
(* The parser.  A result is a value and the position of the rest, an error  *)
(* that lets the next alternative try, or a failure that ends it all.       *)

Ok(rest, value) == [kind |-> "ok", rest |-> rest, value |-> value]
Error == [kind |-> "error"]
Failure == [kind |-> "failure"]

At(t, p) == IF p <= Len(t) THEN t[p] ELSE NoToken
StartsWith(t, p, tokens) == \A i \in DOMAIN tokens : At(t, p + i - 1) = tokens[i]

Or(r, s) == IF r.kind = "error" THEN s ELSE r
Mapped(r, F(_)) == IF r.kind = "ok" THEN Ok(r.rest, F(r.value)) ELSE r

Delimited(t, p, open, inner, close) ==
    IF At(t, p) # open THEN Error
    ELSE IF inner.kind # "ok" THEN inner
    ELSE IF At(t, inner.rest) # close THEN Error
    ELSE Ok(inner.rest + 1, inner.value)

Onward(t, p) == p .. Len(t) + 1

(* One thing, and as many more after it as there are *)
Followed(r, rest) ==
    CASE rest.kind = "ok" -> Ok(rest.rest, <<r.value>> \o rest.value)
      [] rest.kind = "error" -> Ok(r.rest, <<r.value>>)
      [] OTHER -> rest

Then(r, more) == IF r.kind = "ok" THEN Followed(r, more[r.rest]) ELSE r

(* many1 and fold(1..) of what is at each position *)
Many1(fragments, p) ==
    LET many[q \in DOMAIN fragments] == Then(fragments[q], many)
    IN  many[p]

ParseLiteralEscaped(t, p) ==
    LET c == At(t, p + 1)
    IN  IF At(t, p) # "\\" THEN Error
        ELSE CASE c = "t" -> Ok(p + 2, Tab)
               [] c = "x" /\ At(t, p + 2) = HexOf[Tab] -> Ok(p + 3, Tab)
               [] c \notin Alphanumeric \cup {NoToken} -> Ok(p + 2, c)
               [] OTHER -> Error

Verbatim(t, p, except) ==
    IF At(t, p) \in except \cup {NoToken} THEN Error ELSE Ok(p + 1, t[p])

ParseLiteralFragment(t, p) == Or(Verbatim(t, p, Syntax), ParseLiteralEscaped(t, p))
ParseGeneratorFragment(t, p) == Or(Verbatim(t, p, {"\\", "}"}), ParseLiteralEscaped(t, p))

ParseLiteral(t, p) ==
    Mapped(Many1([q \in Onward(t, p) |-> ParseLiteralFragment(t, q)], p), Literal)

InPosix(name) ==
    CASE name = "lower" -> LowerLetters
      [] name = "upper" -> UpperLetters
      [] name = "alpha" -> LowerLetters \cup UpperLetters
      [] name = "alnum" -> LowerLetters \cup UpperLetters \cup Digit
      [] name = "digit" -> Digit
      [] name = "xdigit" -> Digit \cup (LowerLetters \cap {"a", "b", "c", "d", "e", "f"})
      [] name = "punct" -> Punctuation
      [] name = "print" -> Character \ {Tab}

Posix == [name \in PosixNames |-> CodesOf(InPosix(name))]

ParseCharsPosix(t, p) ==
    IF StartsWith(t, p, <<"[", ":">>) /\ At(t, p + 2) \in PosixNames /\ StartsWith(t, p + 3, <<":", "]">>)
    THEN Ok(p + 5, Posix[t[p + 2]])
    ELSE Error

ParseCharsSpecial(t, p) ==
    CASE StartsWith(t, p, <<"\\", "w">>) -> Ok(p + 2, Posix["alnum"] \cup {Code("_")})
      [] StartsWith(t, p, <<"\\", "d">>) -> Ok(p + 2, Posix["digit"])
      [] OTHER -> Error

(* A token of more than one character is none of a class. *)
ParseCharsSingle(t, p) ==
    Or(Verbatim(t, p, {"\\", "]"} \cup (Token \ Character)), ParseLiteralEscaped(t, p))

RangeOf(t, a, b) ==
    IF a.kind # "ok" THEN a
    ELSE IF At(t, a.rest) # "-" \/ b.kind # "ok" THEN Ok(a.rest, {Code(a.value)})
    ELSE IF Code(a.value) <= Code(b.value) THEN Ok(b.rest, From(a.value, b.value))
    ELSE Failure

RangeFrom(t, a) == RangeOf(t, a, ParseCharsSingle(t, a.rest + 1))
ParseCharsRange(t, p) == RangeFrom(t, ParseCharsSingle(t, p))

ParseCharsFragment(t, p) ==
    Or(ParseCharsPosix(t, p), Or(ParseCharsSpecial(t, p), ParseCharsRange(t, p)))

(* [:word:] was a generator once and is refused. *)
ParseLegacyWords(t, p) ==
    IF StartsWith(t, p, <<"[", ":", "word", ":", "]">>) THEN Failure ELSE Error

ParseCharsBrackets(t, p) ==
    Delimited(t, p, "[", Mapped(Many1([q \in Onward(t, p + 1) |-> ParseCharsFragment(t, q)], p + 1), Class), "]")

ParseChars(t, p) ==
    Or(ParseLegacyWords(t, p),
       Or(ParseCharsBrackets(t, p), Mapped(ParseCharsSpecial(t, p), ClassOf)))

ParseGenerator(t, p) ==
    IF At(t, p + 1) \notin Lower THEN Error
    ELSE Delimited(t, p, "{",
                   Mapped(Many1([q \in Onward(t, p + 1) |-> ParseGeneratorFragment(t, q)], p + 1), Generator), "}")

(* nodes: what many1(parse_count) gives at each position *)
ParseNode(nodes, p) == Mapped(nodes[p], FromIter)

ParseList(t, nodes, p) == Delimited(t, p, "(", ParseNode(nodes, p + 1), ")")

ParseSingle(t, nodes, p) ==
    Or(ParseLiteral(t, p), Or(ParseChars(t, p), Or(ParseGenerator(t, p), ParseList(t, nodes, p))))

(* complete::u32: all the digits there are, without the overflow *)
DigitValue(d) == (CHOOSE k \in DOMAIN Digits : Digits[k] = d) - 1

ParseU32(t, p) ==
    LET n == Min({k \in 0 .. Len(t) : At(t, p + k) \notin Digit})
        value[k \in 0 .. n] == IF k = 0 THEN 0 ELSE 10 * value[k - 1] + DigitValue(t[p + k - 1])
    IN  IF n = 0 THEN Error ELSE Ok(p + n, value[n])

ParseHighest(t, lowest) ==
    IF lowest.kind = "ok" /\ At(t, lowest.rest) = ","
    THEN Mapped(ParseU32(t, lowest.rest + 1), LAMBDA n : <<lowest.value, n>>)
    ELSE Error

(* {min,max}, {n} or {,max} *)
ParseBounds(t, p) ==
    Or(ParseHighest(t, ParseU32(t, p)),
       Or(Mapped(ParseU32(t, p), LAMBDA n : <<n, n>>), ParseHighest(t, Ok(p, 0))))

ParseBraces(t, p) == Delimited(t, p, "{", ParseBounds(t, p + 1), "}")

(* A slip: the bounds of a count are taken as they come. *)
CountedUnchecked(r, bounds) ==
    IF r.kind # "ok" \/ bounds.kind # "ok" THEN r
    ELSE Ok(bounds.rest, Count(r.value, bounds.value[1], bounds.value[2]))

Counted(r, bounds) ==
    IF r.kind # "ok" \/ bounds.kind # "ok" THEN r
    ELSE IF bounds.value[2] < bounds.value[1] THEN Failure
    ELSE Ok(bounds.rest, Count(r.value, bounds.value[1], bounds.value[2]))

CountAfter(t, r) == Counted(r, ParseBraces(t, r.rest))
ParseCount(t, nodes, p) == CountAfter(t, ParseSingle(t, nodes, p))

Nodes(t) ==
    LET nodes[p \in Onward(t, 1)] == Then(ParseCount(t, nodes, p), nodes)
    IN  nodes

(* A text is a schema only if nothing of it remains. *)
Complete(t, r) == IF r.kind = "ok" /\ r.rest <= Len(t) THEN Error ELSE r
FromStr(t) == Complete(t, ParseNode(Nodes(t), 1))

-----------------------------------------------------------------------------
(* The canonical format *)

EscapeLiteral(c) ==
    CASE c \in Syntax -> <<"\\", c>>
      [] c = Tab -> <<"\\", "x", HexOf[Tab]>>
      [] OTHER -> <<c>>

WriteLiteral(s) == FlattenSeq([i \in DOMAIN s |-> EscapeLiteral(s[i])])

WriteEscape(code) ==
    LET c == Order[code]
    IN  CASE c \in {"]", "\\"} -> <<"\\", c>>
          [] c = Tab -> <<"\\", "x", HexOf[Tab]>>
          [] OTHER -> <<c>>

FmtCharclass(r) ==
    WriteEscape(r[1])
        \o (IF r[1] + 1 < r[2] THEN <<"-">> ELSE <<>>)
        \o (IF r[1] < r[2] THEN WriteEscape(r[2]) ELSE <<>>)

(* A slip: the ranges in their order, wherever the hyphen is. *)
WriteCharsInOrder(ranges) ==
    <<"[">> \o FlattenSeq([i \in DOMAIN ranges |-> FmtCharclass(ranges[i])]) \o <<"]">>

Written(ranges, chosen) ==
    FlattenSeq([i \in DOMAIN ranges |-> IF ranges[i] \in chosen THEN FmtCharclass(ranges[i]) ELSE <<>>])

(* The range that starts with the hyphen comes first, the one that ends     *)
(* with it last.                                                            *)
WriteChars(ranges) ==
    LET first == {r \in CharRange : r[1] = Code("-")}
        last == {r \in CharRange : r[1] # Code("-") /\ r[2] = Code("-")}
    IN  <<"[">> \o Written(ranges, first) \o Written(ranges, CharRange \ (first \cup last))
                \o Written(ranges, last) \o <<"]">>

(* The text of a generator is its name, and its arguments between           *)
(* occurrences of the first character that is not of the name.              *)
Extended(parts, c) == [parts EXCEPT ![Len(parts)] = Append(@, c)]

Split(s, separator) ==
    LET parts[i \in 0 .. Len(s)] ==
            IF i = 0 THEN <<<<>>>>
            ELSE IF s[i] = separator THEN Append(parts[i - 1], <<>>)
            ELSE Extended(parts[i - 1], s[i])
    IN  parts[Len(s)]

NameLength(s) == Min({i \in 0 .. Len(s) : At(s, i + 1) \notin Lower})
GeneratorName(s) == SubSeq(s, 1, NameLength(s))
GeneratorArgs(s) ==
    IF NameLength(s) = Len(s) THEN <<>> ELSE Tail(Split(s, s[NameLength(s) + 1]))

HashArgs(args) == {i \in DOMAIN args : \E h \in Hashes : args[i] = <<h>>}
DictHash(args) == IF HashArgs(args) = {} THEN DefaultHash ELSE args[Min(HashArgs(args))][1]

WriteSepArg(arg) == <<"|">> \o WriteLiteral(arg)

FmtWithHash(args) ==
    (IF \E i \in DOMAIN args : args[i] = <<DictHash(args)>> THEN <<>> ELSE WriteSepArg(<<DictHash(args)>>))
        \o FlattenSeq([i \in DOMAIN args |-> WriteSepArg(args[i])])

WriteGenerator(s) == <<"{">> \o GeneratorName(s) \o FmtWithHash(GeneratorArgs(s)) \o <<"}">>

(* Display unwraps the lookup of the generator: unknown names panic. *)
Writable[node \in Node] ==
    CASE node.kind = "generator" -> GeneratorName(node.text) \in {<<"word">>, <<"words">>}
      [] node.kind = "list" -> \A i \in DOMAIN node.items : Writable[node.items[i]]
      [] node.kind = "count" -> Writable[node.item]
      [] OTHER -> TRUE

Decimal(n) ==
    LET digits[k \in 0 .. n] ==
            IF k < 10 THEN <<Digits[k + 1]>> ELSE Append(digits[k \div 10], Digits[(k % 10) + 1])
    IN  digits[n]

WriteBounds(min, max) ==
    <<"{">> \o (IF min # 0 \/ max = 0 THEN Decimal(min) ELSE <<>>)
            \o (IF max # min THEN <<",">> \o Decimal(max) ELSE <<>>) \o <<"}">>

(* What is written of a node, if write says what is written of its parts *)
Writing(write, node) ==
    CASE node.kind = "literal" -> WriteLiteral(node.text)
      [] node.kind = "chars" -> WriteChars(node.ranges)
      [] node.kind = "generator" -> WriteGenerator(node.text)
      [] node.kind = "count" -> write[node.item] \o WriteBounds(node.min, node.max)
      [] node.kind = "list" ->
            <<"(">> \o FlattenSeq([i \in DOMAIN node.items |-> write[node.items[i]]]) \o <<")">>

WriteNode[node \in Node] == Writing(WriteNode, node)

(* All but a list at the root is nested. *)
WriteRepr(node) ==
    IF node.kind = "list" THEN FlattenSeq([i \in DOMAIN node.items |-> WriteNode[node.items[i]]])
    ELSE WriteNode[node]
=============================================================================

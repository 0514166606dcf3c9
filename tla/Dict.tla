--------------------------------- MODULE Dict ---------------------------------
(***************************************************************************)
(* Word lists: a BoxDict keeps one backing string and the spans of its     *)
(* words in it, sorted, without duplicates, and a hash of the list.        *)
(* (crates/base/src/dict.rs, crates/base/src/fmt.rs, crates/seed/build.rs) *)
(*                                                                         *)
(* A text is a sequence of bytes; a span is the pair of the offsets it     *)
(* starts and ends at; a separator is one byte.  BLAKE2b stands for the    *)
(* text that it is fed: it is taken to have no collisions.                 *)
(***************************************************************************)
EXTENDS Integers, Sequences, FiniteSets, SequencesExt

Byte == 0 .. 255
Newline == 10
Backslash == 92
(* str::trim, of ASCII *)
Whitespace == 9 .. 13 \cup {32}

WordAt(text, span) == SubSeq(text, span[1] + 1, span[2])

(* The spans between the occurrences of a byte *)
Split(text, sep) ==
    LET cuts == {0, Len(text) + 1} \cup {i \in DOMAIN text : text[i] = sep}
        next == [a \in cuts \ {Len(text) + 1} |-> Min({b \in cuts : b > a})]
    IN  {<<a, next[a] - 1>> : a \in DOMAIN next}

Trim(text, span) ==
    LET black == {i \in span[1] + 1 .. span[2] : text[i] \notin Whitespace}
    IN  IF black = {} THEN <<span[1], span[1]>> ELSE <<Min(black) - 1, Max(black)>>

(* The order of str: the first byte that differs, or the end of v, decides. *)
Precedes(v, w) ==
    \E i \in DOMAIN w :
        /\ \A j \in 1 .. i - 1 : j \in DOMAIN v /\ v[j] = w[j]
        /\ i \in DOMAIN v => v[i] < w[i]

(* Spans in the order of their words; equal ones by where they are *)
Sorted(text, spans) ==
    LET Before(r, s) == \/ Precedes(WordAt(text, r), WordAt(text, s))
                        \/ WordAt(text, r) = WordAt(text, s) /\ r[1] < s[1]
    IN  [i \in 1 .. Cardinality(spans) |->
            CHOOSE s \in spans : Cardinality({r \in spans : Before(r, s)}) = i - 1]

(* The first of the spans of each word: of a sorted run of equal words *)
(* dedup keeps the first.                                              *)
Dedup(text, spans) ==
    {s \in spans : \A r \in spans : WordAt(text, r) = WordAt(text, s) => s[1] <= r[1]}

(* A slip: what is equal stays. *)
SortOnly(text, spans) == Sorted(text, {s \in spans : s[1] < s[2]})

(* canonicalize: filter, sort, dedup *)
Canonicalize(text, spans) == Sorted(text, Dedup(text, {s \in spans : s[1] < s[2]}))

(* A slip: the words are hashed as they are. *)
EscapeNothing(byte) == <<byte>>

(* TsvField, so that no word contains a newline *)
Escape(byte) ==
    CASE byte = Backslash -> <<Backslash, Backslash>>
      [] byte = Newline -> <<Backslash, 110>>
      [] byte = 13 -> <<Backslash, 114>>
      [] byte = 9 -> <<Backslash, 116>>
      [] OTHER -> <<byte>>

Line(word) == FlattenSeq([i \in DOMAIN word |-> Escape(word[i])]) \o <<Newline>>
Hash(text, spans) == FlattenSeq([i \in DOMAIN spans |-> Line(WordAt(text, spans[i]))])

BoxDict(text, spans) == [backing |-> text, spans |-> spans, hash |-> Hash(text, spans)]

FromLines(text) == BoxDict(text, Canonicalize(text, {Trim(text, s) : s \in Split(text, Newline)}))
FromSep(text, sep) == BoxDict(text, Canonicalize(text, Split(text, sep)))

(* Words that lie one after the other, and where each of them does *)
Sums(numbers) ==
    LET sum[k \in 0 .. Len(numbers)] == IF k = 0 THEN 0 ELSE sum[k - 1] + numbers[k]
    IN  sum
Spans(words) ==
    LET end == Sums([k \in DOMAIN words |-> Len(words[k])])
    IN  [k \in DOMAIN words |-> <<end[k - 1], end[k]>>]

(* compact: the words of the spans in a backing of their own *)
Compact(text, spans) ==
    LET words == [i \in DOMAIN spans |-> WordAt(text, spans[i])]
    IN  BoxDict(FlattenSeq(words), Spans(words))

(* from_iter, of strings that here lie one after the other in text *)
FromIter(words) ==
    LET text == FlattenSeq(words)
    IN  Compact(text, Canonicalize(text, ToSet(Spans(words))))

(* What the trait Dict shows: len, word(i) for i from 0, and hash *)
Words(d) == [i \in DOMAIN d.spans |-> WordAt(d.backing, d.spans[i])]
View(d) == [words |-> Words(d), hash |-> d.hash]

(* build.rs: the second of the fields of each line that has one *)
WordColumn(lines) ==
    LET column[k \in 0 .. Len(lines)] ==
            IF k = 0 THEN <<>>
            ELSE IF Len(lines[k]) < 2 THEN column[k - 1]
            ELSE Append(column[k - 1], lines[k][2])
    IN  column[Len(lines)]
EffWordlist(lines) == View(FromIter(WordColumn(lines)))

-----------------------------------------------------------------------------
(* A word list as it is given, and the words it has, told without sorting *)

Load(source) ==
    View(CASE source.kind = "lines" -> FromLines(source.text)
           [] source.kind = "sep" -> FromSep(source.text, source.sep)
           [] source.kind = "iter" -> FromIter(source.words))

(* From i to j the text has no sep, and has one, or ends, on both sides. *)
Between(text, sep, i, j) ==
    /\ i = 1 \/ text[i - 1] = sep
    /\ j = Len(text) \/ text[j + 1] = sep
    /\ \A k \in i .. j : text[k] # sep

(* From i to j the text begins and ends black, within a blank of the line. *)
IsWord(text, i, j) ==
    /\ text[i] \notin Whitespace /\ text[j] \notin Whitespace
    /\ \E first \in 1 .. i, last \in j .. Len(text) :
          /\ Between(text, Newline, first, last)
          /\ \A k \in (first .. i - 1) \cup (j + 1 .. last) : text[k] \in Whitespace

WordsIn(source) ==
    IF source.kind = "iter" THEN ToSet(source.words) \ {<<>>}
    ELSE LET t == source.text
             spans == {p \in (DOMAIN t) \X (DOMAIN t) : p[1] <= p[2]}
         IN  {SubSeq(t, p[1], p[2]) : p \in
                 {q \in spans : IF source.kind = "lines" THEN IsWord(t, q[1], q[2])
                                ELSE Between(t, source.sep, q[1], q[2])}}
=============================================================================

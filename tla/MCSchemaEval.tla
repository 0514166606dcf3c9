---------------------------- MODULE MCSchemaEval ----------------------------
(* An instance of SchemaEval for TLC. *)
EXTENDS SchemaEval

(* Two words in three lines, the second line of a single field *)
MCEffLines == << << <<49>>, <<110>> >>, << <<50>> >>, << <<51>>, <<97>> >> >>

Texts(bytes, n) == UNION {[1 .. k -> bytes] : k \in 0 .. n}
Lines(text) == [kind |-> "lines", text |-> text]

(* Blanks, newlines, backslashes and two letters *)
Lists ==
    {Lines(t) : t \in Texts({10, 32, 92, 110}, 4) \cup Texts({10, 97, 110}, 5)}
    \cup {[kind |-> "sep", text |-> t, sep |-> 0] : t \in Texts({0, 10, 92, 110}, 3)}
    \cup {[kind |-> "iter", words |-> w] : w \in Texts(Texts({10, 92, 110}, 1), 3)}

Literal == [kind |-> "literal", len |-> 1]
Class(n) == [kind |-> "chars", size |-> n]
List(items) == [kind |-> "list", items |-> items]
Count(item, min, max) == [kind |-> "count", item |-> item, min |-> min, max |-> max]
Word(hash, upper) == [kind |-> "word", hash |-> hash, upper |-> upper]
WordList(count, upper, hash, sep) ==
    [kind |-> "words", count |-> count, upper |-> upper, hash |-> hash, sep |-> sep]

Hashes == {NoHash, Eff.hash, <<"other">>}
Leaves ==
    {Literal, Class(1), Class(2), Class(3), [kind |-> "unknown"]}
    \cup {Word(hash, FALSE) : hash \in Hashes}
    \cup {WordList(count, upper, hash, sep) :
             count \in 0 .. 3, upper \in BOOLEAN, hash \in Hashes, sep \in {0, 1}}

Counts(items, max) ==
    UNION {{Count(item, min, m) : item \in items, min \in 0 .. m} : m \in 0 .. max}

Small == {Literal, Class(2), Class(3), Word(NoHash, TRUE), WordList(2, TRUE, NoHash, 1)}
Pieces == Small \cup {Count(Class(2), 0, 1), Count(Class(2), 1, 2), Count(Literal, 0, 2)}

MCSchemas ==
    LET pairs == {List(<<a, b>>) : a \in Pieces, b \in Pieces}
        triples == {List(<<Class(2), b, Class(3)>>) : b \in Pieces}
    IN  Leaves \cup Counts(Leaves, MaxCount) \cup pairs \cup triples \cup Counts(pairs, 1)
        \cup Counts(triples, 2) \cup Counts(Counts(Small, 2), 2)

(* The schemas and their parts; no schema has parts more than three deep *)
PartsOf(nodes) == nodes \cup UNION {Parts(n) : n \in nodes}
MCNode == PartsOf(PartsOf(PartsOf(MCSchemas \cup {Word(NoHash, FALSE)})))
Flat(nodes) == {n \in MCNode : Parts(n) \subseteq nodes}
MCHeight ==
    LET zero == Flat({})
        one == Flat(zero)
        two == Flat(one)
    IN  [n \in MCNode |-> Cardinality({layer \in {zero, one, two} : n \notin layer})]

(* An empty list, one word, and three words of one and of three bytes *)
Files == {Lines(<<32>>), Lines(<<97, 10, 97>>), Lines(<<97, 10, 98, 10, 32, 98, 98, 98, 32, 10, 97>>)}

(* Every schema with few word lists, every word list with one schema *)
MCStarts ==
    {[arg |-> None, config |-> f, schema |-> s] : f \in Files \cup {None}, s \in MCSchemas}
    \cup {[arg |-> d, config |-> Lines(<<98>>), schema |-> Word(NoHash, FALSE)] : d \in Lists}
=============================================================================

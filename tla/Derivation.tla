------------------------------ MODULE Derivation ------------------------------
(***************************************************************************)
(* A site from its fields to the text that its salt is the hash of: the    *)
(* schema is parsed, and the site displayed as tab-separated fields with   *)
(* the canonical format of the schema among them.                          *)
(* (crates/seed/src/site.rs, macros.rs, crates/base/src/fmt.rs)            *)
(***************************************************************************)
EXTENDS SchemaText

CONSTANTS
    Sites,      \* the sites: normalized URL, username or None, schema, increment
    None,
    OtherTokens \* what else a URL or the version of a derivation is made of

VARIABLES
    pc,
    site,
    node,           \* the schema as it was parsed
    derivation,     \* the text of the site
    again           \* the result of parsing the canonical format as a schema

vars == <<pc, site, node, derivation, again>>

Nothing == [kind |-> "none"]

Version == "v3/priv"
Text == Token \cup OtherTokens \cup {Version}

(* Counts and lists take at least two tokens of the schema each, so that a   *)
(* schema of n of them is nested n deep at the most.                        *)
ASSUME SiteAssumption ==
    \A s \in Sites :
        /\ s.url \in Seq(Text) /\ s.increment \in Seq(Text)
        /\ s.username = None \/ s.username \in Seq(Text)
        /\ s.schema \in Seq(Token) /\ 2 * Len(s.schema) < MaxDepth

(* A slip: the backslash stays, so that what escapes is not told from what  *)
(* was there.                                                               *)
EscapeTabsOnly(c) == IF c = Tab THEN <<"\\", "t">> ELSE <<c>>

TsvEscape(c) ==
    CASE c = "\\" -> <<"\\", "\\">>
      [] c = Tab -> <<"\\", "t">>
      [] OTHER -> <<c>>

TsvField(s) == FlattenSeq([i \in DOMAIN s |-> TsvEscape(s[i])])
FormatTsv(fields) ==
    FlattenSeq([i \in DOMAIN fields |->
        IF i = 1 THEN TsvField(fields[i]) ELSE <<Tab>> \o TsvField(fields[i])])

Fields ==
    <<<<Version>>, site.url, IF site.username = None THEN <<>> ELSE site.username,
      WriteRepr(node), site.increment>>

Init ==
    /\ pc = "new"
    /\ site \in Sites
    /\ node = Nothing
    /\ derivation = <<>>
    /\ again = Nothing

NewSite ==
    /\ pc = "new"
    /\ LET r == FromStr(site.schema)
       IN  /\ r.kind = "ok"
           /\ node' = r.value
    /\ pc' = "site"
    /\ UNCHANGED <<site, derivation, again>>

SchemaRejected ==
    /\ pc = "new"
    /\ FromStr(site.schema).kind # "ok"
    /\ pc' = "rejected"
    /\ UNCHANGED <<site, node, derivation, again>>

Display ==
    /\ pc = "site"
    /\ Writable[node]
    /\ derivation' = FormatTsv(Fields)
    /\ pc' = "displayed"
    /\ UNCHANGED <<site, node, again>>

DisplayPanics ==
    /\ pc = "site"
    /\ ~ Writable[node]
    /\ pc' = "panicked"
    /\ UNCHANGED <<site, node, derivation, again>>

(* Expr::parse of what Display wrote, as the tests of repr.rs do *)
ParseAgain ==
    /\ pc = "displayed"
    /\ again' = FromStr(WriteRepr(node))
    /\ pc' = "done"
    /\ UNCHANGED <<site, node, derivation>>

Next == NewSite \/ SchemaRejected \/ Display \/ DisplayPanics \/ ParseAgain

Spec == Init /\ [][Next]_vars

-----------------------------------------------------------------------------
(* Properties *)

(* The parser gives the nodes that the other modules take for granted: no   *)
(* empty literal, class or list, no list of one, bounds in order; and the   *)
(* text of a site is of such a node. (parse.rs 161-204, node.rs 140-150;    *)
(* node.rs 48 subtracts the bounds, chars.rs 59 panics for the empty class) *)
TypeOK ==
    /\ pc \in {"new", "rejected", "site", "panicked", "displayed", "done"}
    /\ IF pc \in {"new", "rejected"} THEN node = Nothing ELSE node \in Node
    /\ derivation # <<>> <=> pc \in {"displayed", "done"}
    /\ IF pc = "done" THEN again.kind \in {"ok", "error", "failure"} ELSE again = Nothing

(* What a schema derives, without what is only notation: strings taken      *)
(* apart, lists in lists flattened, generators as their arguments are read. *)
WordsArgs(args) ==
    FoldLeft(LAMBDA w, arg :
        CASE arg = <<>> -> [w EXCEPT !.separator = <<>>]
          [] Len(arg) > 0 /\ \A i \in DOMAIN arg : arg[i] \in Digit -> [w EXCEPT !.count = ParseU32(arg, 1).value]
          [] Len(arg) = 1 /\ arg[1] \in Punctuation -> [w EXCEPT !.separator = arg]
          [] arg = <<"U">> -> [w EXCEPT !.upper = TRUE]
          [] OTHER -> w,
        [count |-> 5, separator |-> <<" ">>, upper |-> FALSE], args)

GeneratorMeaning(s) ==
    LET args == GeneratorArgs(s)
    IN  <<GeneratorName(s), DictHash(args),
          IF GeneratorName(s) = <<"words">> THEN WordsArgs(args)
          ELSE [upper |-> \E i \in DOMAIN args : args[i] = <<"U">>]>>

Meaning[n \in Node] ==
    CASE n.kind = "literal" -> [i \in DOMAIN n.text |-> <<"char", n.text[i]>>]
      [] n.kind = "chars" -> <<<<"class", n.ranges>>>>
      [] n.kind = "generator" -> <<<<"generator", GeneratorMeaning(n.text)>>>>
      [] n.kind = "count" -> <<<<"count", Meaning[n.item], n.min, n.max>>>>
      [] n.kind = "list" -> FlattenSeq([i \in DOMAIN n.items |-> Meaning[n.items[i]]])

(* The schemas whose canonical format says what they are: no count of a     *)
(* count, no string before a count of a string, no "|" inside an argument,  *)
(* and no strings in parentheses, which are one string when they are read.  *)
CountOf(n, kind) == n.kind = "count" /\ n.item.kind = kind
Strings(n) == n.kind = "list" /\ \A i \in DOMAIN n.items : n.items[i].kind = "literal"

Unambiguous[n \in Node] ==
    CASE n.kind \in {"literal", "chars"} -> TRUE
      [] n.kind = "generator" -> \A i \in DOMAIN GeneratorArgs(n.text) : ~ Contains(GeneratorArgs(n.text)[i], "|")
      [] n.kind = "count" -> ~ CountOf(n, "count") /\ ~ Strings(n.item) /\ Unambiguous[n.item]
      [] n.kind = "list" ->
            \A i \in DOMAIN n.items :
                /\ Unambiguous[n.items[i]] /\ ~ Strings(n.items[i])
                /\ i > 1 => ~ (n.items[i - 1].kind = "literal" /\ CountOf(n.items[i], "literal"))

(* The schemas that are written as they are read: classes in canonical form, *)
(* generators with their dictionary, and in a list no string that would join *)
(* what comes before it.                                                     *)
TidyGenerator(s) ==
    LET args == GeneratorArgs(s)
    IN  /\ s[1] \in Lower
        /\ s = GeneratorName(s) \o FlattenSeq([i \in DOMAIN args |-> <<"|">> \o args[i]])
        /\ \E i \in DOMAIN args : args[i] = <<DictHash(args)>>
        /\ \A i \in DOMAIN args : ~ Contains(args[i], "|")

Codes(ranges) == UNION {r[1] .. r[2] : r \in ToSet(ranges)}

Apart(items) ==
    \A i \in DOMAIN items \ {1} :
        items[i - 1].kind = "literal" => items[i].kind # "literal" /\ ~ CountOf(items[i], "literal")

TidyOf(tidy, n) ==
    CASE n.kind = "literal" -> TRUE
      [] n.kind = "chars" -> n = ClassOf(Codes(n.ranges))
      [] n.kind = "generator" -> TidyGenerator(n.text)
      [] n.kind = "count" -> ~ CountOf(n, "count") /\ tidy[n.item]
      [] n.kind = "list" -> Apart(n.items) /\ \A i \in DOMAIN n.items : tidy[n.items[i]]

Tidy[n \in Node] == TidyOf(Tidy, n)

(* The canonical format of exactly the unambiguous schemas is a schema of   *)
(* the same meaning, and its own canonical format: whoever keeps the text   *)
(* of a derivation can derive again. (repr.rs 46-91, parse.rs 161-204)      *)
ReadsBack ==
    /\ again.kind = "ok"
    /\ Meaning[again.value] = Meaning[node]
    /\ WriteRepr(again.value) = WriteRepr(node)
    /\ Tidy[again.value]

(* What is tidy is read as the very schema that was written. *)
TidyStays == pc = "done" /\ Tidy[node] => again = Ok(Len(WriteRepr(node)) + 1, node)

CanonicalReadsBack == (pc = "done" => (ReadsBack <=> Unambiguous[node])) /\ TidyStays

(* How such a text is read: a tab ends a field, and a backslash says that    *)
(* the next character is of the field.                                      *)
ReadNext(r, c) ==
    IF r.escaped THEN [fields |-> Extended(r.fields, IF c = "t" THEN Tab ELSE c), escaped |-> FALSE]
    ELSE IF c = "\\" THEN [r EXCEPT !.escaped = TRUE]
    ELSE IF c = Tab THEN [r EXCEPT !.fields = Append(@, <<>>)]
    ELSE [r EXCEPT !.fields = Extended(@, c)]

ReadTsv(text) ==
    LET read[i \in 0 .. Len(text)] ==
            IF i = 0 THEN [fields |-> <<<<>>>>, escaped |-> FALSE] ELSE ReadNext(read[i - 1], text[i])
    IN  read[Len(text)].fields

(* macros.rs 32: the tab-separated text is "reversible": the fields can be  *)
(* told from it, so that no two sites have one salt because of their fields.*)
FieldsReadBack == pc \in {"displayed", "done"} => ReadTsv(derivation) = Fields

(* seed/src/lib.rs 12-16: "Any changes to the derivation should therefore   *)
(* result in securely different secrets": no other schema has this one's    *)
(* canonical format.                                                        *)
NoSchemaSharesTheText ==
    pc = "done" /\ again.kind = "ok" /\ Writable[again.value] /\ WriteRepr(again.value) = WriteRepr(node) =>
        Meaning[again.value] = Meaning[node]
=============================================================================

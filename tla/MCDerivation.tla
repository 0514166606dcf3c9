----------------------------- MODULE MCDerivation -----------------------------
(* An instance of Derivation for TLC. *)
EXTENDS Derivation

MCOrder ==
    <<Tab, "(", ")", ",", "-", ".", "0", "1", "2", "3", "4", "5", "6", "7", "8", "9", ":",
      "U", "[", "\\", "]", "_", "a", "d", "t", "w", "x", "{", "|", "}">>
MCDigits == <<"0", "1", "2", "3", "4", "5", "6", "7", "8", "9">>

Pieces(set, n) == {FlattenSeq(s) : s \in UNION {[1 .. k -> set] : k \in 1 .. n}}
Between(open, set, close) == {open \o s \o close : s \in set}

(* Strings, classes, generators, lists and counts, in any order *)
Expressions ==
    Pieces({<<"a">>, <<"\\", "d">>, <<"{", "word", "}">>,
            <<"(">>, <<")">>, <<"{", "2", "}">>, <<"{", ",", "3", "}">>}, 5)

FewStrings == Pieces({<<"a">>, <<"(">>, <<")">>, <<"{", "2", "}">>}, 5)

(* Parentheses in parentheses *)
Nested ==
    Between(<<"a", "(">>, FewStrings, <<")">>) \cup Between(<<"(">>, FewStrings, <<")", "{", "2", "}">>)

(* Counts, escapes and what is no schema *)
Counts ==
    Pieces({<<"a">>, <<"\\", "x", "09">>, <<"\\", "\\">>, <<"\\", "t">>, <<"|">>, <<"{", "0", "}">>,
            <<"{", "1", ",", "2", "}">>, <<"{", "2", ",", "1", "}">>, <<"{", "2", ",", "}">>,
            <<"{", "a", "}">>, <<"{", ",", "}">>, <<"[", ":", "word", ":", "]">>}, 3)

Classes ==
    Between(<<"[">>,
            Pieces({<<",">>, <<"-">>, <<".">>, <<"[">>, <<"\\", "]">>, <<"\\", "\\">>, <<"a">>, <<"\\", "d">>}, 4),
            <<"]">>)
    \cup Between(<<"[">>,
            Pieces({<<"-">>, <<Tab>>, <<"a">>, <<"\\", "w">>}
                   \cup {<<"[", ":", name, ":", "]">> : name \in PosixNames}, 2), <<"]">>)

Generators ==
    {<<"{", name>> \o args \o <<"}">> :
        name \in {"word", "words"},
        args \in {<<>>} \cup Pieces({<<":">>, <<"|">>, <<"2">>, <<"U">>, <<"h0">>, <<"h1">>, <<"\\", "}">>}, 4)}

Site(schema, url, username) == [url |-> url, username |-> username, schema |-> schema, increment |-> <<"1">>]

StringSites == {Site(s, <<"url">>, None) : s \in FewStrings}

MCSites ==
    {Site(s, <<"url">>, None) : s \in Expressions \cup Nested \cup Counts \cup Classes \cup Generators}
    \cup {Site(s, u, v) : s \in {<<"a">>, <<"\\", "\\", "t">>},
                          u \in {<<"url">>, <<"url", "\\">>},
                          v \in {None} \cup Pieces({<<Tab>>, <<"\\">>, <<"t">>, <<"a">>}, 3)}
=============================================================================

----------------------------- MODULE MCSiteTable -----------------------------
(* Instances of SiteTable for TLC. *)
EXTENDS SiteTable

CONSTANTS none, s1, s2

MCNone == none
MCTexts == {s1, s2}
MCWords == s1
MCNormalOf == [u \in RawUrls |-> CASE u = "google.com" -> 1
                                  [] u = "https://google.com/" -> 1
                                  [] u = "apple.com" -> 2
                                  [] u = "https://" -> InvalidUrl]
MCGlobals == {[alias |-> [x \in {s1} |-> s2], defaultSchema |-> none]}

Raw(url, user, schema, increment, comment, data) ==
    [url |-> url, username |-> user, schema |-> schema, increment |-> increment,
     comment |-> comment, data |-> data]

(* Many keys, little in each: the indexes. *)
KeySites ==
    {Raw(url, user, none, 0, none, none) : url \in RawUrls, user \in {0, 1, 2}}

(* Few keys, every combination of what is merged. *)
FieldSites ==
    {Raw(url, user, d.schema, increment, d.comment, data) :
        url \in {"google.com"}, user \in {0, 1}, increment \in 0 .. 1, data \in {none, s1, s2},
        d \in {[schema |-> none, comment |-> none], [schema |-> s1, comment |-> none],
               [schema |-> s2, comment |-> s1], [schema |-> none, comment |-> s2]}}

MCRawSites == KeySites \cup FieldSites
=============================================================================

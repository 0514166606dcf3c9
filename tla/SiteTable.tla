------------------------------ MODULE SiteTable ------------------------------
(***************************************************************************)
(* The finalized site configuration of onepass: Config::from_global_site   *)
(* merges a stream of raw sites into a table keyed by (normalized URL,     *)
(* username), indexes the table twice, and find_site answers from the      *)
(* indexes.  (crates/conf/src/lib.rs)                                      *)
(*                                                                         *)
(* Normalized URLs and usernames are natural numbers, which stand for the  *)
(* order of the strings: a BTreeMap iterates in that order, and the        *)
(* username None sorts before every Some.  Sequences count from 1.         *)
(***************************************************************************)
EXTENDS Integers, Sequences, FiniteSets, FiniteSetsExt

CONSTANTS
    RawUrls,     \* URL texts, as they are written in a file or an argument
    NormalOf,    \* what normalize makes of each of them: InvalidUrl or a number
    Usernames,   \* the usernames, numbered from 1
    Texts,       \* schema, comment and data strings
    Words,       \* the schema "{words}"
    None,        \* the absent Option<String>
    RawSites,    \* the raw sites a configuration may contain
    Globals,     \* the merged [global] sections a configuration may have
    MaxSites     \* bound: the number of raw sites of a configuration

InvalidUrl == 0
NoUser == 0
Users == {NoUser} \cup Usernames
NormalUrls == {NormalOf[u] : u \in RawUrls} \ {InvalidUrl}
Keys == NormalUrls \X Users
Maybe(S) == S \cup {None}

(* RawSite: an increment of None is 0, which Option's order allows. *)
RawSiteType ==
    [url : RawUrls, username : Users, schema : Maybe(Texts),
     increment : Nat, comment : Maybe(Texts), data : Maybe(Texts)]

(* The value of a key of the map: None where the entry is vacant. *)
EntryType ==
    [url : RawUrls, schema : Maybe(Texts), increment : Nat,
     comment : Maybe(Texts), data : Maybe(Texts)]

ASSUME UrlAssumption == NormalOf \in [RawUrls -> Nat]
ASSUME UserAssumption == Usernames \subseteq Nat \ {NoUser}
ASSUME TextAssumption == Words \in Texts /\ None \notin Texts /\ None \notin EntryType
ASSUME SiteAssumption == RawSites \subseteq RawSiteType
ASSUME GlobalAssumption ==
    \A g \in Globals : \A name \in DOMAIN g.alias : g.alias[name] \in Texts
ASSUME BoundAssumption == MaxSites \in Nat

VARIABLES
    global,      \* the merged [global] section
    seen,        \* history: the raw sites consumed so far, in order
    map,         \* the BTreeMap being merged into
    stage,       \* "merging", "built", or how from_global_site failed
    site,        \* Config::site
    siteByUrl,   \* Config::site_by_url
    siteByKey    \* Config::site_by_key

tableVars == <<site, siteByUrl, siteByKey>>
vars == <<global, seen, map, stage, site, siteByUrl, siteByKey>>

Stages == {"merging", "built", "bad url", "data conflict"}

-----------------------------------------------------------------------------
(* The merge loop *)

KeyOf(r) == <<NormalOf[r.url], r.username>>

(* Entry::Vacant: the value inserted for a key seen for the first time. *)
NewEntry(r) ==
    [url |-> r.url, schema |-> r.schema, increment |-> r.increment,
     comment |-> r.comment, data |-> r.data]

Override(old, new) == IF new # None THEN new ELSE old
Greater(m, n) == IF m >= n THEN m ELSE n

(* A slip: the data fields are never compared. *)
DataAlwaysAgrees(e, r) == r.data = None \/ r.data # None

(* The data fields of an entry and of a raw site can be merged. *)
DataAgrees(e, r) == r.data = None \/ e.data = None \/ e.data = r.data

(* Slips: the schema of the first site stays; the last increment wins. *)
FirstSchemaStays(e, r) ==
    [url |-> r.url, schema |-> Override(r.schema, e.schema),
     increment |-> Greater(e.increment, r.increment),
     comment |-> Override(e.comment, r.comment), data |-> Override(e.data, r.data)]

LastIncrementWins(e, r) ==
    [url |-> r.url, schema |-> Override(e.schema, r.schema), increment |-> r.increment,
     comment |-> Override(e.comment, r.comment), data |-> Override(e.data, r.data)]

(* Entry::Occupied: the last URL, schema and comment, the greater increment. *)
MergedEntry(e, r) ==
    [url |-> r.url,
     schema |-> Override(e.schema, r.schema),
     increment |-> Greater(e.increment, r.increment),
     comment |-> Override(e.comment, r.comment),
     data |-> Override(e.data, r.data)]

(* What every iteration of the loop does: it takes the next site r. *)
Consume(r) ==
    /\ stage = "merging"
    /\ Len(seen) < MaxSites
    /\ seen' = Append(seen, r)
    /\ UNCHANGED <<global, tableVars>>

(* normalize(&url)? returns the error. *)
RejectUrl(r) ==
    /\ Consume(r)
    /\ NormalOf[r.url] = InvalidUrl
    /\ stage' = "bad url"
    /\ UNCHANGED map

InsertSite(r) ==
    /\ Consume(r)
    /\ NormalOf[r.url] # InvalidUrl
    /\ map[KeyOf(r)] = None
    /\ map' = [map EXCEPT ![KeyOf(r)] = NewEntry(r)]
    /\ UNCHANGED stage

MergeSite(r) ==
    /\ Consume(r)
    /\ NormalOf[r.url] # InvalidUrl
    /\ map[KeyOf(r)] # None
    /\ DataAgrees(map[KeyOf(r)], r)
    /\ map' = [map EXCEPT ![KeyOf(r)] = MergedEntry(map[KeyOf(r)], r)]
    /\ UNCHANGED stage

(* panic!("Cannot merge data fields ..."): nothing of the table survives. *)
DataConflict(r) ==
    /\ Consume(r)
    /\ NormalOf[r.url] # InvalidUrl
    /\ map[KeyOf(r)] # None
    /\ ~ DataAgrees(map[KeyOf(r)], r)
    /\ stage' = "data conflict"
    /\ UNCHANGED map

-----------------------------------------------------------------------------
(* The sorted list of sites and its two indexes *)

Before(j, k) == j[1] < k[1] \/ (j[1] = k[1] /\ j[2] < k[2])

(* A BTreeMap iterates over its keys in ascending order. *)
KeysInOrder(m) ==
    LET known == {k \in Keys : m[k] # None}
    IN  [i \in 1 .. Cardinality(known) |->
            CHOOSE k \in known : Cardinality({j \in known : Before(j, k)}) = i - 1]

SiteList(m) ==
    LET order == KeysInOrder(m)
    IN  [i \in DOMAIN order |->
            LET e == m[order[i]]
            IN  [url |-> e.url, username |-> order[i][2], schema |-> e.schema,
                 increment |-> e.increment, comment |-> e.comment, data |-> e.data]]

(* dedup_by_key keeps the first of a run; collecting into a map, the last of a key. *)
UrlIndex(m) ==
    LET order == KeysInOrder(m)
        RunStarts == {i \in DOMAIN order : i = 1 \/ order[i - 1][1] # order[i][1]}
    IN  [u \in {order[i][1] : i \in RunStarts} |->
            Max({i \in RunStarts : order[i][1] = u})]

(* Slips: positions from zero; only the sites that have a username. *)
KeyIndexFromZero(m) ==
    LET order == KeysInOrder(m)
    IN  [k \in {order[i] : i \in DOMAIN order} |-> Max({i \in DOMAIN order : order[i] = k}) - 1]

KeyIndexOfUsernames(m) ==
    LET order == KeysInOrder(m)
    IN  [k \in {order[i] : i \in {j \in DOMAIN order : order[j][2] # NoUser}} |->
            Max({i \in DOMAIN order : order[i] = k})]

KeyIndex(m) ==
    LET order == KeysInOrder(m)
    IN  [k \in {order[i] : i \in DOMAIN order} |-> Max({i \in DOMAIN order : order[i] = k})]

Build ==
    /\ stage = "merging"
    /\ stage' = "built"
    /\ site' = SiteList(map)
    /\ siteByUrl' = UrlIndex(map)
    /\ siteByKey' = KeyIndex(map)
    /\ UNCHANGED <<global, seen, map>>

Init ==
    /\ global \in Globals
    /\ seen = <<>>
    /\ map = [k \in Keys |-> None]
    /\ stage = "merging"
    /\ site = <<>>
    /\ siteByUrl = <<>>
    /\ siteByKey = <<>>

Next ==
    \/ \E r \in RawSites :
          RejectUrl(r) \/ InsertSite(r) \/ MergeSite(r) \/ DataConflict(r)
    \/ Build

Spec == Init /\ [][Next]_vars

-----------------------------------------------------------------------------
(* Looking a site up, once the table is built *)

ResolveSchema(name) ==
    IF name \in DOMAIN global.alias THEN global.alias[name] ELSE name

DefaultSchema ==
    ResolveSchema(IF global.defaultSchema # None THEN global.defaultSchema ELSE Words)

Found(s) == [kind |-> "site", site |-> s]
Failed(kind) == [kind |-> kind]

(* A slip: the sites of a URL go on to the end of the list. *)
EndOfList(u) == IF u \in DOMAIN siteByUrl THEN Len(site) + 1 ELSE 0

(* One past the last site of URL u: where the next URL of the index starts. *)
EndOf(u) ==
    LET later == {v \in DOMAIN siteByUrl : v > u}
    IN  IF later = {} THEN Len(site) + 1 ELSE siteByUrl[Min(later)]

(* find_site_raw, for the normalized URL u. *)
FindSiteRaw(u, user) ==
    LET start == siteByUrl[u]
        end   == EndOf(u)
    IN  CASE <<u, user>> \in DOMAIN siteByKey ->
               Found(site[siteByKey[<<u, user>>]])
          [] <<u, user>> \notin DOMAIN siteByKey /\ u \notin DOMAIN siteByUrl ->
               Failed("UrlNotFound")
          [] OTHER ->
               CASE user # NoUser /\ site[start].username = NoUser ->
                      Found([site[start] EXCEPT !.username = user])
                 [] user # NoUser /\ site[start].username # NoUser ->
                      Failed("UsernameNotFound")
                 [] user = NoUser /\ end - start = 1 ->
                      Found(site[start])
                 [] OTHER ->
                      [kind |-> "MultipleChoices",
                       names |-> [i \in 1 .. end - start |-> site[start + i - 1].username]]

(* find_site: the answer's schema is resolved, and never absent. *)
FindSite(url, user) ==
    LET raw == FindSiteRaw(NormalOf[url], user)
    IN  CASE NormalOf[url] = InvalidUrl -> Failed("Site")
          [] NormalOf[url] # InvalidUrl /\ raw.kind = "site" ->
               Found([raw.site EXCEPT !.schema =
                          IF @ # None THEN ResolveSchema(@) ELSE DefaultSchema])
          [] OTHER -> raw

(* lookup_site in main.rs: the site a password is derived from, for the    *)
(* URL and the overrides of a command line.                                *)
NoIncrement == -1
Unconfigured(url, user) ==
    [url |-> url, username |-> user, schema |-> None, increment |-> 0,
     comment |-> None, data |-> None]

LookupSite(url, args) ==
    LET answer == FindSite(url, args.username)
        s == IF answer.kind = "UrlNotFound" THEN Unconfigured(url, args.username)
             ELSE answer.site
        schema == IF args.schema # None THEN ResolveSchema(args.schema) ELSE s.schema
    IN  CASE answer.kind \notin {"site", "UrlNotFound"} -> answer
          [] answer.kind \in {"site", "UrlNotFound"} /\ s.data # None -> Failed("data")
          [] OTHER ->
               [kind |-> "site",
                site |-> [url |-> NormalOf[s.url],
                          username |-> s.username,
                          schema |-> IF schema # None THEN schema ELSE DefaultSchema,
                          increment |-> IF args.increment # NoIncrement
                                        THEN args.increment ELSE s.increment]]

-----------------------------------------------------------------------------
(* What the table has to be, told from the history of the raw sites alone  *)

Given(k) == {i \in DOMAIN seen : NormalOf[seen[i].url] # InvalidUrl /\ KeyOf(seen[i]) = k}
Known == {k \in Keys : Given(k) # {}}

LastGiven(k) == Max(Given(k))
LastSome(k, Field(_)) ==
    LET some == {i \in Given(k) : Field(seen[i]) # None}
    IN  IF some = {} THEN None ELSE Field(seen[Max(some)])

SchemaOf(r) == r.schema
CommentOf(r) == r.comment
DataOf(r) == r.data

Documented(k) ==
    [url |-> seen[LastGiven(k)].url,
     username |-> k[2],
     schema |-> LastSome(k, SchemaOf),
     increment |-> Max({seen[i].increment : i \in Given(k)}),
     comment |-> LastSome(k, CommentOf),
     data |-> LastSome(k, DataOf)]

(* The answer to a lookup by the three rules of find_site's documentation. *)
Resolved(s) ==
    [s EXCEPT !.schema = IF @ # None THEN ResolveSchema(@) ELSE DefaultSchema]

Entries(u) == {k \in Known : k[1] = u}

Answers(answer, url, user) ==
    LET u == NormalOf[url]
        exact == <<u, user>> \in Known
        plain == <<u, NoUser>> \in Known
    IN  /\ u = InvalidUrl => answer = Failed("Site")
        /\ u # InvalidUrl /\ Entries(u) = {} => answer = Failed("UrlNotFound")
        /\ exact => answer = Found(Resolved(Documented(<<u, user>>)))
        /\ plain /\ ~ exact =>
             answer = Found(Resolved([Documented(<<u, NoUser>>) EXCEPT !.username = user]))
        /\ Entries(u) # {} /\ user # NoUser /\ ~ plain /\ ~ exact =>
             answer = Failed("UsernameNotFound")
        /\ user = NoUser /\ Cardinality(Entries(u)) = 1 =>
             \E k \in Entries(u) : answer = Found(Resolved(Documented(k)))
        /\ user = NoUser /\ ~ plain /\ Cardinality(Entries(u)) > 1 =>
             /\ answer.kind = "MultipleChoices"
             /\ {answer.names[i] : i \in DOMAIN answer.names} = {k[2] : k \in Entries(u)}
             /\ Len(answer.names) = Cardinality(Entries(u))

-----------------------------------------------------------------------------
(* Properties *)

(* Every variable has its type; the indexes point into the list. *)
MergeTypeOK ==
    /\ global \in Globals
    /\ seen \in Seq(RawSites)
    /\ Len(seen) <= MaxSites
    /\ map \in [Keys -> EntryType \cup {None}]
    /\ stage \in Stages

IndexTypeOK ==
    /\ \A i \in DOMAIN site : site[i] \in RawSiteType
    /\ \A u \in DOMAIN siteByUrl : u \in NormalUrls /\ siteByUrl[u] \in DOMAIN site
    /\ \A k \in DOMAIN siteByKey : k \in Keys /\ siteByKey[k] \in DOMAIN site

TypeOK == MergeTypeOK /\ IndexTypeOK

(* find_site answers every URL and username by its documented resolution    *)
(* rules, told from the raw sites and not from the indexes: the increment   *)
(* is the highest, the schema the last one given, and an ambiguous URL      *)
(* names exactly its usernames.  (lib.rs 276-284, 301-341)                  *)
LookupsAreDocumented ==
    stage = "built" =>
        \A url \in RawUrls, user \in Users : Answers(FindSite(url, user), url, user)

(* A URL that --print-sites offers for completion, passed back on the       *)
(* command line, never falls through to an unconfigured site, and with a    *)
(* username the ambiguity error names it finds that username's entry.       *)
(* (main.rs 137-147, 249-251)                                               *)
PrintedSitesAreFound ==
    stage = "built" =>
        \A i \in DOMAIN site :
            LET plain == FindSite(site[i].url, NoUser)
                named == FindSite(site[i].url, site[i].username)
            IN  /\ plain.kind \in {"site", "MultipleChoices"}
                /\ named.kind = "site"
                /\ named.site.username = site[i].username
                /\ named.site.increment = site[i].increment

(* The data field of an entry is one every raw site of its key agrees with; *)
(* merging stops exactly when two raw sites of a key disagree. (113-122)    *)
DataNeverMixed ==
    /\ stage \in {"merging", "built"} =>
         \A k \in Known : \A i \in Given(k) :
            seen[i].data \in {None, map[k].data}
    /\ stage = "data conflict" =>
         \E k \in Known : \E i, j \in Given(k) :
            None \notin {seen[i].data, seen[j].data} /\ seen[i].data # seen[j].data

(* A password is derived from the URL, the username and the increment that  *)
(* the command line or the configuration gives, whichever raw site came     *)
(* last: with a schema override, the order of the raw sites only matters    *)
(* through which of them exist.  (main.rs 247-266)                          *)
Overridden(user, schema) == [username |-> user, schema |-> schema, increment |-> NoIncrement]

OrderOnlyMovesSchemas ==
    stage = "built" =>
        \A url \in RawUrls, k \in Known, schema \in Texts :
            LET derived == LookupSite(url, Overridden(k[2], schema))
            IN  NormalOf[url] = k[1] =>
                  \/ /\ derived = Failed("data")
                     /\ \E i \in Given(k) : seen[i].data # None
                  \/ /\ \A i \in Given(k) : seen[i].data = None
                     /\ derived =
                        Found([url |-> k[1], username |-> k[2],
                               schema |-> ResolveSchema(schema),
                               increment |-> Max({seen[i].increment : i \in Given(k)})])

(* Merging never takes a known entry away and never lowers an increment:    *)
(* an increment only goes up, or a rotated password would come back. (110)  *)
IncrementsRise ==
    \A k \in Keys : map[k] # None =>
        map'[k] # None /\ map'[k].increment >= map[k].increment

IncrementsOnlyRise == [][IncrementsRise]_vars

(* value is that of the last raw site of key k that gives the field at all. *)
IsLastGiven(value, k, Field(_)) ==
    \/ /\ value = None
       /\ \A i \in DOMAIN seen : KeyOf(seen[i]) = k => Field(seen[i]) = None
    \/ \E i \in DOMAIN seen :
         /\ KeyOf(seen[i]) = k
         /\ Field(seen[i]) # None
         /\ value = Field(seen[i])
         /\ \A j \in DOMAIN seen :
              j > i /\ KeyOf(seen[j]) = k => Field(seen[j]) = None

(* In whatever order the sites come, an entry holds the last URL, the last  *)
(* schema and the last comment given for its key, and an increment that is  *)
(* given and not exceeded. (lib.rs 98-124)                                  *)
MergeInv ==
    stage \in {"merging", "built"} =>
        /\ \A i \in DOMAIN seen : NormalOf[seen[i].url] # InvalidUrl
        /\ \A k \in Keys :
             /\ map[k] = None => \A i \in DOMAIN seen : KeyOf(seen[i]) # k
             /\ map[k] # None =>
                  /\ \A i \in DOMAIN seen :
                        KeyOf(seen[i]) = k => seen[i].increment <= map[k].increment
                  /\ \E i \in DOMAIN seen :
                        KeyOf(seen[i]) = k /\ seen[i].increment = map[k].increment
                  /\ \E i \in DOMAIN seen :
                        /\ KeyOf(seen[i]) = k
                        /\ seen[i].url = map[k].url
                        /\ \A j \in DOMAIN seen : j > i => KeyOf(seen[j]) # k
                  /\ IsLastGiven(map[k].schema, k, SchemaOf)
                  /\ IsLastGiven(map[k].comment, k, CommentOf)

=============================================================================

---------------------------- MODULE ConfigPromise ----------------------------
(***************************************************************************)
(* What loading a configuration promises whoever looks sites up: one step  *)
(* from the files on the disk to the answers, whatever order the files are *)
(* merged in.  (crates/conf/src/lib.rs 67-79, 205-213, 267-284)            *)
(***************************************************************************)
EXTENDS ConfigFiles, FiniteSetsExt

CONSTANTS RawUrls, NormalOf, Usernames, Words   \* see SiteTable

VARIABLE outcome

promiseVars == <<fixed, outcome>>

NoUser == 0
Users == {NoUser} \cup Usernames

Loading == [kind |-> "loading"]
Failure(error) == [kind |-> "failed", error |-> error]
Panic == [kind |-> "panic"]

-----------------------------------------------------------------------------
(* The answers to a lookup, told from the files *)

(* What an alias can stand for, and the schemas that a site can have *)
Meanings(name) ==
    LET given == {disk[f].global.alias[name] :
                     f \in {g \in Included : name \in DOMAIN disk[g].global.alias}}
    IN  IF given = {} THEN {name} ELSE given

Given(schemas, otherwise) == IF schemas \subseteq {None} THEN otherwise ELSE schemas \ {None}
DefaultSchemas == Given({disk[f].global.defaultSchema : f \in Included}, {Words})
SchemasOf(S) == UNION {Meanings(s) : s \in Given({r.schema : r \in S}, DefaultSchemas)}

Site(S, user) ==
    {[kind |-> "site", username |-> user, schema |-> s, increment |-> Max({r.increment : r \in S})] :
        s \in SchemasOf(S)}

(* The answers for a URL that the files give the raw sites S for *)
Answers(S, user) ==
    LET Of(v) == {r \in S : r.username = v}
        users == {r.username : r \in S}
    IN  CASE user \in users -> Site(Of(user), user)
          [] user \notin users /\ NoUser \in users -> Site(Of(NoUser), user)
          [] users = {} -> {[kind |-> "UrlNotFound"]}
          [] user # NoUser /\ users # {} /\ {user, NoUser} \cap users = {} ->
               {[kind |-> "UsernameNotFound"]}
          [] OTHER ->
               IF Cardinality(users) = 1
               THEN UNION {Site(S, v) : v \in users}
               ELSE {[kind |-> "MultipleChoices", names |-> users]}

-----------------------------------------------------------------------------
(* Whatever the load has to read can be read; all URLs are valid; the data *)
(* fields of a site are the same wherever it is given.                     *)
Complete == Missing \notin Reached(base) /\ \A f \in Included : Usable(f)
UrlsValid == \A r \in Everywhere : NormalOf[r.url] # 0
DataAgree ==
    \A r, s \in Everywhere :
        NormalOf[r.url] = NormalOf[s.url] /\ r.username = s.username =>
            None \in {r.data, s.data} \/ r.data = s.data

(* On any disk *)
PromiseInit == outcome = Loading

Succeed(o) ==
    /\ o.kind = "loaded"
    /\ Complete /\ UrlsValid /\ DataAgree
    /\ LET given == Everywhere
       IN  \A url \in RawUrls, user \in Users :
              o.find[url, user] \in
                  IF NormalOf[url] = 0 THEN {[kind |-> "Site"]}
                  ELSE Answers({r \in given : NormalOf[r.url] = NormalOf[url]}, user)

FailNotFound(o) ==
    /\ o = Failure("NotFound")
    /\ Missing \in Reached(base)

FailOther(o) ==
    /\ o = Failure("Other")
    /\ \/ ~ Resolvable(path)
       \/ \E f \in Included : ~ Usable(f)
       \/ Complete /\ ~ UrlsValid

PanicOnData(o) ==
    /\ o = Panic
    /\ Complete /\ ~ DataAgree

(* What an outcome says is so. *)
Kept(o) == Succeed(o) \/ FailNotFound(o) \/ FailOther(o) \/ PanicOnData(o)

Load ==
    /\ outcome = Loading
    /\ outcome' # Loading
    /\ Kept(outcome')
    /\ UNCHANGED fixed

PromiseSafety == PromiseInit /\ [][Load]_promiseVars

(* Loading ends, whatever cycle the includes make. *)
PromiseSpec == PromiseSafety /\ <>(outcome # Loading)
=============================================================================

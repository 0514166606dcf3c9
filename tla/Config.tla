-------------------------------- MODULE Config --------------------------------
(***************************************************************************)
(* Config::from_file as a whole: the include traversal of ConfigLoad feeds *)
(* the sites it concatenates to the merge loop and the indexes of          *)
(* SiteTable.  It keeps the promise of ConfigPromise.                      *)
(* (crates/conf/src/lib.rs)                                                *)
(***************************************************************************)
EXTENDS ConfigLoad

CONSTANTS RawUrls, NormalOf, Usernames, Texts, Words, RawSites, MaxSites

VARIABLES
    seen, map, site, siteByUrl, siteByKey,   \* see SiteTable
    merged                                   \* the stage of SiteTable

(* The [global] sections that merging can make *)
MergedGlobals ==
    [defaultSchema : Texts \cup {None}, wordsPath : (Dirs \X Names) \cup {None},
     keyring : KeyringSeeds, alias : UNION {[A -> Texts] : A \in SUBSET Texts}]

Table == INSTANCE SiteTable WITH stage <- merged, Globals <- MergedGlobals

(* What SiteTable assumes of its constants *)
ASSUME TableAssumption ==
    /\ NormalOf \in [RawUrls -> Nat]
    /\ Usernames \subseteq Nat \ {0}
    /\ Words \in Texts /\ None \notin Texts /\ None \notin Table!EntryType
    /\ RawSites \subseteq Table!RawSiteType
    /\ MaxSites \in Nat

(* What toml makes of a file *)
ASSUME ContentAssumption ==
    \A d \in Disks : \A f \in Files :
        d[f] # Malformed =>
            /\ d[f].site \in Seq(RawSites)
            /\ d[f].global \in
                 [defaultSchema : Texts \cup {None}, wordsPath : Names \cup {None},
                  keyring : KeyringSeeds, alias : UNION {[A -> Texts] : A \in SUBSET Texts}]

tableVars == <<seen, map, merged, site, siteByUrl, siteByKey>>
loadVars == <<fixed, stage, error, includes, visited, order, sites>>
configVars == <<vars, tableVars>>

ConfigInit ==
    /\ Init
    /\ seen = <<>>
    /\ map = [k \in Table!Keys |-> None]
    /\ merged = "merging"
    /\ site = <<>>
    /\ siteByUrl = <<>>
    /\ siteByKey = <<>>

Load == Next /\ UNCHANGED tableVars

(* from_global_site's loop takes the next of the concatenated sites. *)
MergeNext ==
    /\ stage = "loaded"
    /\ Len(seen) < Len(sites)
    /\ LET r == sites[Len(seen) + 1]
       IN  Table!RejectUrl(r) \/ Table!InsertSite(r) \/ Table!MergeSite(r) \/ Table!DataConflict(r)
    /\ UNCHANGED loadVars

(* A slip: the table is built from the sites merged so far. *)
BuildAtOnce ==
    /\ stage = "loaded"
    /\ Table!Build
    /\ UNCHANGED loadVars

BuildTable ==
    /\ stage = "loaded"
    /\ Len(seen) = Len(sites)
    /\ Table!Build
    /\ UNCHANGED loadVars

ConfigNext == Load \/ MergeNext \/ BuildTable

ConfigSpec == ConfigInit /\ [][ConfigNext]_configVars /\ WF_configVars(ConfigNext)

-----------------------------------------------------------------------------
(* Properties *)

(* What an answer of find_site tells whoever asked *)
Told(answer) ==
    CASE answer.kind = "site" ->
           [kind |-> "site", username |-> answer.site.username, schema |-> answer.site.schema,
            increment |-> answer.site.increment]
      [] answer.kind = "MultipleChoices" ->
           [kind |-> "MultipleChoices", names |-> ToSet(answer.names)]
      [] OTHER -> answer

Outcome ==
    CASE stage = "failed"           -> [kind |-> "failed", error |-> error]
      [] merged = "bad url"         -> [kind |-> "failed", error |-> "Other"]
      [] merged = "data conflict"   -> [kind |-> "panic"]
      [] merged = "built"           ->
           [kind |-> "loaded",
            find |-> [q \in RawUrls \X Table!Users |-> Told(Table!FindSite(q[1], q[2]))]]
      [] OTHER                      -> [kind |-> "loading"]

Promise == INSTANCE ConfigPromise WITH outcome <- Outcome

(* Whatever the include graph and the order of the files, loading ends, and *)
(* a lookup answers as if all files that are reached were one: it finds a   *)
(* site exactly when one of them has it, with the highest increment any of  *)
(* them gives, so that no include brings an old password back; an error is  *)
(* one that some file on the way explains. (lib.rs 76-79, 205-264)          *)
KeepsPromise == Promise!PromiseSpec

(* The schema of a site is that of the last merged file that gives one, an  *)
(* alias being resolved by what the last file says of it. (lib.rs 107-109,  *)
(* 290-296, disk.rs 196)                                                    *)
LastSchemaGiven(k) ==
    LET giving == {i \in DOMAIN order :
            \E r \in ToSet(disk[order[i]].site) : Table!KeyOf(r) = k /\ r.schema # None}
    IN  {r.schema : r \in {s \in ToSet(disk[order[Max(giving)]].site) : Table!KeyOf(s) = k}}

LastFileGivesSchema ==
    merged = "built" =>
        \A url \in RawUrls, user \in Table!Users :
            LET k == <<NormalOf[url], user>>
                given == {r.schema : r \in {s \in ToSet(sites) : Table!KeyOf(s) = k}} \ {None}
            IN  given # {} =>
                  \E schema \in LastSchemaGiven(k) :
                      Table!FindSite(url, user).site.schema =
                          (IF \E f \in visited : schema \in DOMAIN disk[f].global.alias
                           THEN LET SaysAlias(g) == schema \in DOMAIN g.alias
                                IN  disk[LastSaying(SaysAlias)].global.alias[schema]
                           ELSE schema)

=============================================================================

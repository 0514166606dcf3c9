------------------------------ MODULE ConfigLoad ------------------------------
(***************************************************************************)
(* Config::from_file: the breadth-first traversal of include files that    *)
(* merges their [global] sections and concatenates their sites.            *)
(* (crates/conf/src/lib.rs, crates/conf/src/disk.rs)                       *)
(***************************************************************************)
EXTENDS ConfigFiles, SequencesExt

VARIABLES
    stage,       \* "start", "including", "loaded" or "failed"
    error,       \* the io::ErrorKind of the failure
    includes,    \* the queue of paths still to be included
    visited,     \* the files already merged, as a set
    order,       \* history: the same files in the order they were merged
    global,      \* the [global] section merged so far
    sites        \* the sites concatenated so far

merging == <<visited, order, global, sites>>
vars == <<fixed, stage, error, includes, visited, order, global, sites>>

-----------------------------------------------------------------------------
(* A slip: Unspecified overrides as well. *)
LastKeyring(mine, other) == IF other # mine THEN other ELSE mine

(* Keyring::merge: Unspecified does not override. *)
MergeKeyring(mine, other) == IF other # "Unspecified" THEN other ELSE mine

(* A slip: an alias that is there stays. *)
KeepAliases(mine, other) ==
    [a \in DOMAIN mine \cup DOMAIN other |-> IF a \in DOMAIN mine THEN mine[a] ELSE other[a]]

(* BTreeMap::extend: the other map's value wins. *)
Extend(mine, other) ==
    [a \in DOMAIN mine \cup DOMAIN other |-> IF a \in DOMAIN other THEN other[a] ELSE mine[a]]

(* Global::merge, of what file f says into g.  Only an included file's     *)
(* words_path is resolved here.                                            *)
MergeGlobal(g, other, f) ==
    [defaultSchema |-> IF other.defaultSchema # None THEN other.defaultSchema ELSE g.defaultSchema,
     wordsPath |-> IF other.wordsPath # None THEN Resolved(f, other.wordsPath) ELSE g.wordsPath,
     keyring |-> MergeKeyring(g.keyring, other.keyring),
     alias |-> Extend(g.alias, other.alias)]

(* The base file's own section is taken as it is: the process opens a      *)
(* relative words_path in its working directory.                           *)
BaseGlobal(g) ==
    [defaultSchema |-> g.defaultSchema,
     wordsPath |-> IF g.wordsPath # None THEN <<Cwd, g.wordsPath>> ELSE None,
     keyring |-> g.keyring, alias |-> g.alias]

(* A slip: the kind of the error is lost. *)
FailNotFound(kind) == stage' = "failed" /\ error' = IF kind # None THEN "NotFound" ELSE None

Fail(kind) == stage' = "failed" /\ error' = kind

-----------------------------------------------------------------------------
Init ==
    /\ FilesInit
    /\ stage = "start"
    /\ error = None
    /\ includes = <<>>
    /\ visited = {}
    /\ order = <<>>
    /\ global = None
    /\ sites = <<>>

(* The base path is in an unknown home directory or does not exist; or the *)
(* file does not parse, or has an include in an unknown home directory.    *)
BaseFails ==
    /\ stage = "start"
    /\ \/ ~ Resolvable(path) /\ Fail("Other")
       \/ Resolvable(path) /\ base = Missing /\ Fail("NotFound")
       \/ Resolvable(path) /\ base # Missing /\ ~ Usable(base) /\ Fail("Other")
    /\ UNCHANGED <<fixed, includes, merging>>

OpenBase ==
    /\ stage = "start"
    /\ Resolvable(path)
    /\ base # Missing
    /\ Usable(base)
    /\ stage' = "including"
    /\ includes' = Paths(base)
    /\ visited' = {base}
    /\ order' = <<base>>
    /\ global' = BaseGlobal(disk[base].global)
    /\ sites' = disk[base].site
    /\ UNCHANGED <<fixed, error>>

(* includes.pop_front() of a path that canonicalizes to f *)
Pop(f) ==
    /\ stage = "including"
    /\ includes # <<>>
    /\ Locate[Head(includes)] = f

IncludeMissing ==
    /\ Pop(Missing)
    /\ Fail("NotFound")
    /\ UNCHANGED <<fixed, includes, merging>>

(* A slip: the path goes back to the end of the queue. *)
RequeueVisited ==
    /\ \E f \in visited : Pop(f)
    /\ includes' = Append(Tail(includes), Head(includes))
    /\ UNCHANGED <<fixed, stage, error, merging>>

(* The file was merged before: the path is dropped. *)
AlreadyVisited ==
    /\ \E f \in visited : Pop(f)
    /\ includes' = Tail(includes)
    /\ UNCHANGED <<fixed, stage, error, merging>>

IncludeFails ==
    /\ \E f \in Files \ visited :
          /\ Pop(f)
          /\ ~ Usable(f)
    /\ Fail("Other")
    /\ UNCHANGED <<fixed, includes, merging>>

(* File f is merged, leaving the queue and a mark that it was visited. *)
Merge(f, queue, mark) ==
    /\ f \notin visited
    /\ Pop(f)
    /\ Usable(f)
    /\ includes' = queue
    /\ visited' = visited \cup {mark}
    /\ order' = Append(order, f)
    /\ global' = MergeGlobal(global, disk[f].global, f)
    /\ sites' = sites \o disk[f].site
    /\ UNCHANGED <<fixed, stage, error>>

(* Slips: the path is remembered as it is written; the includes of f come  *)
(* before the rest of the queue.                                           *)
RememberPath(f) == Merge(f, Tail(includes) \o Paths(f), Head(includes))
IncludeDepthFirst(f) == Merge(f, Paths(f) \o Tail(includes), f)

IncludeFile(f) == Merge(f, Tail(includes) \o Paths(f), f)

(* The queue is empty: everything goes to from_global_site. *)
Finish ==
    /\ stage = "including"
    /\ includes = <<>>
    /\ stage' = "loaded"
    /\ UNCHANGED <<fixed, error, includes, merging>>

Next ==
    \/ BaseFails
    \/ OpenBase
    \/ IncludeMissing
    \/ AlreadyVisited
    \/ IncludeFails
    \/ \E f \in Files : IncludeFile(f)
    \/ Finish

(* The load runs in one thread that nothing holds up. *)
Spec == Init /\ [][Next]_vars /\ WF_vars(Next)

-----------------------------------------------------------------------------
(* The last file merged so far that says anything with the predicate Says. *)
LastSaying(Says(_)) ==
    LET saying == {i \in DOMAIN order : Says(disk[order[i]].global)}
    IN  IF saying = {} THEN None ELSE order[Max(saying)]

-----------------------------------------------------------------------------
(* Properties *)

(* Every variable has its type. *)
TypeOK ==
    /\ DOMAIN disk = Files
    /\ \A f \in Files : Readable(f) => disk[f].include \in Seq(Names)
    /\ path \in Bases
    /\ homeSet \in BOOLEAN
    /\ stage \in {"start", "including", "loaded", "failed"}
    /\ error \in {None, "NotFound", "Other"}
    /\ includes \in Seq(Dirs \X Names)
    /\ visited \subseteq Files
    /\ order \in Seq(Files)
    /\ stage \in {"including", "loaded"} =>
         /\ global.keyring \in KeyringSeeds
         /\ global.wordsPath \in (Dirs \X Names) \cup {None}

(* Include cycles, diamonds and symlinks: no file is merged twice, and a    *)
(* load that succeeds merged exactly the files that the base file reaches.  *)
(* (lib.rs 239-262)                                                         *)
MergesWhatIsReachedOnce ==
    /\ \A i, j \in DOMAIN order : order[i] = order[j] => i = j
    /\ stage = "loaded" =>
         /\ base \in visited /\ \A f \in visited : IncludesOf(f) \subseteq visited
         /\ ToSet(order) \subseteq Reached(base)

(* A load fails only for a file it had to read: as "not found" only when    *)
(* the base file or an include that is reached does not exist.              *)
(* from_or_init tells "no configuration yet" by that kind. (lib.rs 187-191) *)
NotFoundMeansMissing ==
    stage = "failed" =>
        IF error = "NotFound" THEN Missing \in Reached(base)
        ELSE ~ Resolvable(path) \/ \E f \in Included : ~ Usable(f)

(* Every file after the base comes after a file that includes it, nearest   *)
(* first: a file whose first includer is merged later is merged later.      *)
(* (234-262)                                                                *)
FirstIncluder(i) ==
    Min({j \in 1 .. Len(order) : order[i] \in IncludesOf(order[j])} \cup {i})

IncludedBreadthFirst ==
    \A i \in 2 .. Len(order) :
        /\ FirstIncluder(i) < i
        /\ \A j \in 2 .. i : FirstIncluder(j) <= FirstIncluder(i)

(* Conflicts in the global settings go to the last included file that says  *)
(* anything about them; Unspecified says nothing, and a words_path is in    *)
(* the directory of that file, or of the process if it is the base file's.  *)
(* (lib.rs 215, 228-229, disk.rs 187)                                       *)
LastFileWins ==
    stage \in {"including", "loaded"} =>
        LET SaysSchema(g)  == g.defaultSchema # None
            SaysKeyring(g) == g.keyring # "Unspecified"
            SaysWords(g)   == g.wordsPath # None
            byWords   == LastSaying(SaysWords)
            bySchema  == LastSaying(SaysSchema)
            byKeyring == LastSaying(SaysKeyring)
        IN  /\ global.defaultSchema =
                 (IF bySchema = None THEN None ELSE disk[bySchema].global.defaultSchema)
            /\ global.keyring =
                 (IF byKeyring = None THEN "Unspecified" ELSE disk[byKeyring].global.keyring)
            /\ global.wordsPath =
                 (IF byWords = None THEN None
                  ELSE <<IF byWords = base THEN Cwd ELSE DirOf[byWords],
                         disk[byWords].global.wordsPath>>)
            /\ DOMAIN global.alias = UNION {DOMAIN disk[f].global.alias : f \in visited}
            /\ \A a \in DOMAIN global.alias :
                 LET SaysAlias(g) == a \in DOMAIN g.alias
                 IN  global.alias[a] = disk[LastSaying(SaysAlias)].global.alias[a]

(* disk.rs 56-57: "Files are merged, with paths interpreted relative to the *)
(* file in which they are contained".                                       *)
WordsPathOfItsFile ==
    stage = "loaded" =>
        LET SaysWords(g) == g.wordsPath # None
            f == LastSaying(SaysWords)
        IN  f # None => global.wordsPath = Resolved(f, disk[f].global.wordsPath)

=============================================================================

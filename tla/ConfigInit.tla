------------------------------ MODULE ConfigInit ------------------------------
(***************************************************************************)
(* Config::from_or_init: a run finds the place of its configuration in its *)
(* environment, and creates one if there is none.  Runs and the user share *)
(* the places; a run may be killed between any two system calls.           *)
(* (crates/conf/src/lib.rs, crates/conf/src/dirs.rs)                       *)
(*                                                                         *)
(* Of what a file contains the model keeps what loading it gives: see      *)
(* ConfigLoad for how an include that does not exist gives NotFound.       *)
(***************************************************************************)
EXTENDS Integers, FiniteSets

CONSTANTS
    Runs,          \* the runs of the command
    Places,        \* directories that a configuration home can be
    Unset,         \* no value of an environment variable
    Starts,        \* the environments that the runs can start in
    MaxEdits       \* bound: how often the user changes something

(* What config_dir reads: home stands for $HOME/.config; given: the run has *)
(* the path of its configuration from the command line.                     *)
Environments ==
    [given : BOOLEAN, home : Places \cup {Unset},
     xdgHome : Places \cup {Unset}, xdgDir : Places \cup {Unset}]

ASSUME BoundAssumption == MaxEdits \in Nat
ASSUME StartsAssumption == Starts \subseteq [Runs -> Environments]
ASSUME UnsetAssumption == Unset \notin Places

(* "mine": the user's, complete; "dangling": the user's, with an include   *)
(* that does not exist; "broken": the user's, not valid TOML; "empty": a   *)
(* file of no bytes, which is valid; "example": EXAMPLE_CONFIG.            *)
UserContents == {"mine", "dangling", "broken"}
Contents == UserContents \cup {"empty", "example"}
Absent == "absent"

(* The directory onepass in a place: "hidden" if the place cannot be       *)
(* searched, "orphan" if the place itself is missing.                      *)
DirStates == {"exists", "creatable", "orphan", "hidden"}

VARIABLES
    env,         \* env[r]: the environment of run r
    file,        \* file[p]: onepass/config.toml in place p
    dir,         \* dir[p]: the directory onepass in place p
    pc,          \* pc[r]: the next system call of run r
    place,       \* place[r]: where r looks for the configuration
    opened,      \* opened[r]: the place of the file that r is writing, if it has one still
    result,      \* result[r]: the configuration it loaded, or how it failed
    edits,       \* how often the user changed something
    absentFor,   \* history: absentFor[r] holds once r has found no file since it started
    halfWritten  \* history: some run stopped between creating the file and writing it

disk == <<file, dir, opened, edits>>
vars == <<env, disk, pc, place, result, absentFor, halfWritten>>

Failures == {"NotFound", "Other"}

Init ==
    /\ env \in Starts
    /\ dir \in [Places -> DirStates]
    /\ file \in [Places -> (Contents \ {"empty"}) \cup {Absent}]
    /\ \A p \in Places : file[p] # Absent => dir[p] = "exists"
    /\ pc = [r \in Runs |-> IF env[r].given THEN "load" ELSE "dir"]
    /\ place = [r \in Runs |-> Unset]
    /\ opened = [r \in Runs |-> Unset]
    /\ result = [r \in Runs |-> "none"]
    /\ edits = 0
    /\ absentFor = [r \in Runs |-> FALSE]
    /\ halfWritten = FALSE

Return(r, what) ==
    /\ pc' = [pc EXCEPT ![r] = "done"]
    /\ result' = [result EXCEPT ![r] = what]

Goto(r, call) ==
    /\ pc' = [pc EXCEPT ![r] = call]
    /\ UNCHANGED result

-----------------------------------------------------------------------------
(* config_dir *)

OldHome(r) == IF env[r].xdgDir = Unset THEN env[r].home ELSE env[r].xdgDir
NewHome(r) == IF env[r].xdgHome = Unset THEN env[r].home ELSE env[r].xdgHome

(* A slip: the two arms of the match are swapped. *)
ChoiceSwapped(r) ==
    IF OldHome(r) # Unset /\ (NewHome(r) = Unset \/ dir[OldHome(r)] \notin {"exists", "hidden"})
    THEN OldHome(r) ELSE NewHome(r)

(* The deprecated place if its onepass is there, or may be there. *)
Choice(r) ==
    IF OldHome(r) # Unset /\ (NewHome(r) = Unset \/ dir[OldHome(r)] \in {"exists", "hidden"})
    THEN OldHome(r) ELSE NewHome(r)

ChooseDir(r) ==
    /\ pc[r] = "dir"
    /\ place' = [place EXCEPT ![r] = Choice(r)]
    /\ IF Choice(r) = Unset THEN Return(r, "Other") ELSE Goto(r, "load")
    /\ UNCHANGED <<env, disk, absentFor, halfWritten>>

-----------------------------------------------------------------------------
(* from_or_init *)

Here(r) == file[place[r]]

(* A slip: the file is not looked into. *)
LoadedAsItIs(content) == content

(* What from_file makes of a file *)
Loaded(content) ==
    CASE content \in {Absent, "dangling"} -> "NotFound"
      [] content = "broken" -> "Other"
      [] OTHER -> content

LookedFor(r) == absentFor' = [absentFor EXCEPT ![r] = @ \/ Here(r) = Absent]

(* from_file of the default path: a NotFound goes on to the sanity check.  *)
LoadDefault(r) ==
    /\ pc[r] = "load"
    /\ ~ env[r].given
    /\ IF dir[place[r]] = "hidden" THEN Return(r, "Other")
       ELSE IF Loaded(Here(r)) = "NotFound" THEN Goto(r, "exists")
       ELSE Return(r, Loaded(Here(r)))
    /\ LookedFor(r)
    /\ UNCHANGED <<env, disk, place, halfWritten>>

(* from_file of a path the user gave: any file, and no error is mended. *)
LoadGiven(r) ==
    /\ pc[r] = "load"
    /\ env[r].given
    /\ \E content \in Contents \cup {Absent} : Return(r, Loaded(content))
    /\ UNCHANGED <<env, disk, place, absentFor, halfWritten>>

(* fs::exists: if the file is there after all, or the NotFound was about   *)
(* an include, the run ends with this error.                               *)
Checks(r, found, error) ==
    /\ pc[r] = "exists"
    /\ IF found THEN Return(r, error) ELSE Goto(r, "create dir")
    /\ LookedFor(r)
    /\ UNCHANGED <<env, disk, place, halfWritten>>

(* Slips: the error is returned as it came; the check is left out. *)
CheckLate(r) == Checks(r, Here(r) # Absent, "NotFound")
NoCheck(r) == Checks(r, FALSE, "Other")

CheckExists(r) == Checks(r, Here(r) # Absent, "Other")

(* It is not known whether the file is there: never because it is not.     *)
ExistsFails(r) ==
    /\ pc[r] = "exists"
    /\ Return(r, "Other")
    /\ UNCHANGED <<env, disk, place, absentFor, halfWritten>>

(* fs::create_dir, whose error is ignored: the parent is not created. *)
CreateDir(r) ==
    /\ pc[r] = "create dir"
    /\ dir' = [dir EXCEPT ![place[r]] = IF @ = "creatable" THEN "exists" ELSE @]
    /\ Goto(r, "open")
    /\ UNCHANGED <<env, file, place, opened, edits, absentFor, halfWritten>>

(* fs::write opens the file, creating it or truncating what is there ...   *)
OpenFile(r) ==
    /\ pc[r] = "open"
    /\ dir[place[r]] = "exists"
    /\ file' = [file EXCEPT ![place[r]] = "empty"]
    /\ opened' = [opened EXCEPT ![r] = place[r]]
    /\ Goto(r, "write")
    /\ UNCHANGED <<env, dir, place, edits, absentFor, halfWritten>>

OpenFails(r) ==
    /\ pc[r] = "open"
    /\ Return(r, IF dir[place[r]] = "exists" THEN "Other" ELSE "NotFound")
    /\ UNCHANGED <<env, disk, place, absentFor, halfWritten>>

(* A slip: only the configuration in memory is the example. *)
NotWritten(r, p) == {file[p]}

(* What the bytes that r writes make of the file in place p: they go over  *)
(* what the user put into it meanwhile.                                    *)
Overwritten(r, p) ==
    CASE opened[r] # p -> {file[p]}
      [] opened[r] = p /\ file[p] \in UserContents -> {"example", "broken"}
      [] OTHER -> {"example"}

(* ... and then writes it, and goes on with Config::example. *)
WriteFile(r) ==
    /\ pc[r] = "write"
    /\ file' \in {f \in [Places -> Contents \cup {Absent}] :
                   \A p \in Places : f[p] \in Overwritten(r, p)}
    /\ Return(r, "example")
    /\ UNCHANGED <<env, dir, place, opened, edits, absentFor, halfWritten>>

WriteFails(r) ==
    /\ pc[r] = "write"
    /\ Return(r, "Other")
    /\ halfWritten' = TRUE
    /\ UNCHANGED <<env, disk, place, absentFor>>

(* The run is killed: what it did stays. *)
Kill(r) ==
    /\ pc[r] # "done"
    /\ Return(r, "killed")
    /\ halfWritten' = (halfWritten \/ pc[r] = "write")
    /\ UNCHANGED <<env, disk, place, absentFor>>

-----------------------------------------------------------------------------
(* The user *)

(* The files that the runs have open, after the one in p went to this place *)
OpenedMoves(p, to) == [r \in Runs |-> IF opened[r] = p THEN to ELSE opened[r]]

(* The user deletes a file, or saves a configuration of their own: into it, *)
(* or beside it and over it, as editors do.                                 *)
Edit ==
    /\ edits < MaxEdits
    /\ \E p \in Places, content \in UserContents \cup {Absent}, replaced \in BOOLEAN :
          /\ dir[p] = "exists"
          /\ content = Absent => replaced
          /\ file' = [file EXCEPT ![p] = content]
          /\ opened' = IF replaced THEN OpenedMoves(p, Unset) ELSE opened
    /\ edits' = edits + 1
    /\ UNCHANGED <<env, dir, pc, place, result, absentFor, halfWritten>>

(* "Move your config over now and remove" the directory. (dirs.rs 57-60) *)
Move ==
    /\ edits < MaxEdits
    /\ \E from, to \in Places :
          /\ from # to
          /\ file[from] # Absent
          /\ dir[to] \in {"exists", "creatable"}
          /\ file' = [file EXCEPT ![from] = Absent, ![to] = file[from]]
          /\ dir' = [dir EXCEPT ![from] = "creatable", ![to] = "exists"]
          /\ opened' = [r \in Runs |-> CASE opened[r] = from -> to
                                         [] opened[r] = to -> Unset
                                         [] OTHER -> opened[r]]
    /\ edits' = edits + 1
    /\ UNCHANGED <<env, pc, place, result, absentFor, halfWritten>>

Step(r) ==
    \/ ChooseDir(r) \/ LoadDefault(r) \/ LoadGiven(r) \/ CheckExists(r) \/ ExistsFails(r)
    \/ CreateDir(r) \/ OpenFile(r) \/ OpenFails(r) \/ WriteFile(r) \/ WriteFails(r) \/ Kill(r)

Next == Edit \/ Move \/ \E r \in Runs : Step(r)

Spec == Init /\ [][Next]_vars

-----------------------------------------------------------------------------
(* Properties *)

(* Every variable has its type. *)
TypeOK ==
    /\ env \in [Runs -> Environments]
    /\ file \in [Places -> Contents \cup {Absent}]
    /\ dir \in [Places -> DirStates]
    /\ pc \in [Runs -> {"dir", "load", "exists", "create dir", "open", "write", "done"}]
    /\ place \in [Runs -> Places \cup {Unset}]
    /\ opened \in [Runs -> Places \cup {Unset}]
    /\ result \in [Runs -> {"none", "killed"} \cup Failures \cup Contents]
    /\ edits \in 0 .. MaxEdits
    /\ absentFor \in [Runs -> BOOLEAN]
    /\ halfWritten \in BOOLEAN

(* A run only ever writes the default path, and only if it saw no file      *)
(* there: a configuration whose include is missing, which also loads as     *)
(* NotFound, is not replaced. (lib.rs 184-200)                              *)
OnlyWritesWhatWasAbsent ==
    [][\A r \in Runs :
          pc[r] = "open" /\ pc'[r] = "write" => ~ env[r].given /\ absentFor[r]]_vars

(* A file of no bytes, which loads as a configuration without aliases, is   *)
(* only there while a run writes it or because one stopped there. (200)     *)
EmptyOnlyWhileWriting ==
    \A p \in Places :
        file[p] = "empty" /\ ~ halfWritten => \E r \in Runs : pc[r] = "write"

(* A run with the default path only reports "not found" if it found no file *)
(* there: never for a missing include. (187-199)                            *)
DanglingIsNotMissing ==
    \A r \in Runs : result[r] = "NotFound" /\ ~ env[r].given => absentFor[r]

SameEnvironment == \A r, s \in Runs : env[r] = env[s]

(* Runs in one environment use one configuration: creating it does not make *)
(* the next run look elsewhere. (dirs.rs 50-66, lib.rs 193-199)             *)
RunsAgree ==
    edits = 0 /\ SameEnvironment =>
        \A r, s \in Runs : Unset \notin {place[r], place[s]} => place[r] = place[s]

=============================================================================

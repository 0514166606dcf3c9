----------------------------- MODULE ConfigFiles -----------------------------
(***************************************************************************)
(* What a configuration is loaded from: the files on the disk, the paths   *)
(* in them, and what the base file reaches through includes.               *)
(* (crates/conf/src/disk.rs, crates/conf/src/dirs.rs)                      *)
(*                                                                         *)
(* A path is a pair of the directory it is interpreted in and the name     *)
(* written in a file; Locate says which file it canonicalizes to.  The     *)
(* disk does not change during a load.                                     *)
(***************************************************************************)
EXTENDS Integers, Sequences, FiniteSets

CONSTANTS
    Files,       \* canonical paths
    Dirs,        \* directories, Cwd among them
    Cwd,         \* the directory the process runs in
    DirOf,       \* the directory of each file
    Names,       \* path texts a configuration or a command line contains
    HomeNames,   \* those that begin with a tilde
    Locate,      \* [Dirs \X Names -> Files \cup {Missing}], following symlinks
    Missing,     \* the path names no file
    Malformed,   \* a file that cannot be read or is not valid TOML
    None,        \* an absent Option
    Bases,       \* the base paths
    Disks        \* the disks to load from: what Config::from_file reads of each file

ASSUME PathAssumption ==
    /\ Cwd \in Dirs
    /\ DirOf \in [Files -> Dirs]
    /\ HomeNames \subseteq Names
    /\ Locate \in [Dirs \X Names -> Files \cup {Missing}]
    /\ Missing \notin Files
    /\ Bases \subseteq Names
    /\ None \notin Dirs \X Names
    /\ None \notin Files

(* KeyringSeed *)
KeyringSeeds == {"Unspecified", "Off", "Cache"}

ASSUME DiskAssumption ==
    \A d \in Disks :
        /\ DOMAIN d = Files
        /\ \A f \in Files :
              d[f] # Malformed =>
                  /\ d[f].include \in Seq(Names)
                  /\ d[f].global.wordsPath \in Names \cup {None}
                  /\ d[f].global.keyring \in KeyringSeeds

VARIABLES
    disk,        \* disk[f]: the record [include, global, site], or Malformed
    path,        \* the base path
    homeSet      \* whether the home directory is known

fixed == <<disk, path, homeSet>>

FilesInit ==
    /\ disk \in Disks
    /\ path \in Bases
    /\ homeSet \in BOOLEAN

(* expand_home fails for a path in an unknown home directory. *)
Resolvable(name) == name \in HomeNames => homeSet

(* resolve_path: relative to the directory of the file it is written in *)
Resolved(f, name) == <<DirOf[f], name>>
Paths(f) == [i \in DOMAIN disk[f].include |-> Resolved(f, disk[f].include[i])]
AllResolvable(f) == \A i \in DOMAIN disk[f].include : Resolvable(disk[f].include[i])

(* What the base path canonicalizes to *)
base == Locate[<<Cwd, path>>]

(* disk::Config::from_file: the file can be read and is valid TOML. *)
Readable(f) == disk[f] # Malformed

(* Whether f can be used: it is read, its paths resolve.  The words_path of *)
(* the base file is taken as it is.                                         *)
Usable(f) ==
    /\ Readable(f)
    /\ AllResolvable(f)
    /\ f # base /\ disk[f].global.wordsPath # None => Resolvable(disk[f].global.wordsPath)

-----------------------------------------------------------------------------
(* The include graph on the disk *)

IncludesOf(f) ==
    IF ~ Readable(f) THEN {} ELSE {Locate[Paths(f)[i]] : i \in DOMAIN disk[f].include}

(* What f reaches: what is in every closed set f is in *)
Reached(f) ==
    LET around == {S \in SUBSET (Files \cup {Missing}) :
                      f \in S /\ \A h \in S \ {Missing} : IncludesOf(h) \subseteq S}
    IN  {g \in Files \cup {Missing} : \A S \in around : g \in S}

(* The files and the raw sites that the base path stands for *)
Included == Reached(base) \ {Missing}
Everywhere == UNION {{disk[f].site[i] : i \in DOMAIN disk[f].site} : f \in {g \in Included : Readable(g)}}
=============================================================================

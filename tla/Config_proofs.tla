----------------------------- MODULE Config_proofs -----------------------------
(***************************************************************************)
(* Proofs about the load, for any files, directories, symlinks and         *)
(* includes, cycles among them: no file is merged twice, a load that       *)
(* succeeds merged exactly what is reached, and one that fails had a       *)
(* reason; the traversal feeds the table what the files give, and the      *)
(* answers keep ConfigPromise's promise.                                   *)
(***************************************************************************)
EXTENDS Config, Recursion, SequenceTheorems, FiniteSetTheorems, TLAPS

Proofs == INSTANCE SiteTable_proofs WITH stage <- merged, Globals <- MergedGlobals

-----------------------------------------------------------------------------
(* The traversal by itself *)

(* What is still to be included *)
Queued == {Locate[p] : p \in ToSet(includes)}

(* Whatever was visited or is queued is reached; and the includes of what   *)
(* was visited are all visited or queued.                                   *)
OnTheWay ==
    /\ visited \subseteq Reached(base)
    /\ stage # "start" => Queued \subseteq Reached(base)
    /\ stage \in {"including", "loaded"} =>
         /\ Resolvable(path) /\ base \in visited
         /\ \A f \in visited : IncludesOf(f) \subseteq visited \cup Queued
    /\ stage = "loaded" => includes = <<>>

InductiveInv ==
    /\ TypeOK
    /\ disk \in Disks
    /\ stage = "start" => includes = <<>> /\ visited = {} /\ order = <<>>
    /\ ToSet(order) = visited
    /\ \A i, j \in DOMAIN order : order[i] = order[j] => i = j
    /\ OnTheWay
    /\ NotFoundMeansMissing

-----------------------------------------------------------------------------
(* The elements of sequences *)

LEMMA TailElements ==
    ASSUME NEW S, NEW s \in Seq(S), s # <<>>
    PROVE  /\ Head(s) \in S /\ Tail(s) \in Seq(S)
           /\ ToSet(s) = {Head(s)} \cup ToSet(Tail(s))
<1>1. /\ Len(s) \in Nat \ {0} /\ DOMAIN s = 1 .. Len(s)
      /\ Head(s) = s[1] /\ Head(s) \in S /\ Tail(s) \in Seq(S)
      /\ DOMAIN Tail(s) = 1 .. Len(s) - 1
      /\ \A i \in 1 .. Len(s) - 1 : Tail(s)[i] = s[i + 1]
  BY HeadTailProperties, LenProperties, EmptySeq
<1>2. \A i \in DOMAIN s : i = 1 \/ (i - 1 \in DOMAIN Tail(s) /\ s[i] = Tail(s)[i - 1])
  BY <1>1
<1>3. \A i \in DOMAIN Tail(s) : i + 1 \in DOMAIN s /\ Tail(s)[i] = s[i + 1]
  BY <1>1
<1>4. 1 \in DOMAIN s
  BY <1>1
<1>5. ToSet(s) \subseteq {Head(s)} \cup ToSet(Tail(s))
  <2>1. ASSUME NEW i \in DOMAIN s
        PROVE  s[i] \in {Head(s)} \cup ToSet(Tail(s))
    <3>1. CASE i = 1
      BY <1>1, <3>1
    <3>2. CASE i # 1
      BY <1>2, <3>2 DEF ToSet
    <3> QED
      BY <3>1, <3>2
  <2> QED
    BY <2>1 DEF ToSet
<1>6. {Head(s)} \cup ToSet(Tail(s)) \subseteq ToSet(s)
  BY <1>1, <1>3, <1>4 DEF ToSet
<1>7. ToSet(s) = {Head(s)} \cup ToSet(Tail(s))
  BY <1>5, <1>6
<1> QED
  BY <1>1, <1>7

LEMMA ConcatElements ==
    ASSUME NEW S, NEW s \in Seq(S), NEW t \in Seq(S)
    PROVE  /\ s \o t \in Seq(S)
           /\ ToSet(s \o t) = ToSet(s) \cup ToSet(t)
<1>1. /\ s \o t \in Seq(S) /\ Len(s) \in Nat /\ Len(t) \in Nat
      /\ DOMAIN s = 1 .. Len(s) /\ DOMAIN t = 1 .. Len(t)
      /\ DOMAIN (s \o t) = 1 .. Len(s) + Len(t)
      /\ \A i \in 1 .. Len(s) + Len(t) :
            (s \o t)[i] = IF i <= Len(s) THEN s[i] ELSE t[i - Len(s)]
  BY ConcatProperties, LenProperties
<1>2. \A i \in DOMAIN (s \o t) :
         \/ i \in DOMAIN s /\ (s \o t)[i] = s[i]
         \/ i - Len(s) \in DOMAIN t /\ (s \o t)[i] = t[i - Len(s)]
  BY <1>1
<1>3. \A i \in DOMAIN s : i \in DOMAIN (s \o t) /\ (s \o t)[i] = s[i]
  BY <1>1
<1>4. \A i \in DOMAIN t : i + Len(s) \in DOMAIN (s \o t) /\ (s \o t)[i + Len(s)] = t[i]
  BY <1>1
<1>5. ToSet(s \o t) \subseteq ToSet(s) \cup ToSet(t)
  BY <1>2 DEF ToSet
<1>6. ToSet(s) \cup ToSet(t) \subseteq ToSet(s \o t)
  BY <1>3, <1>4 DEF ToSet
<1> QED
  BY <1>1, <1>5, <1>6

LEMMA AppendElements ==
    ASSUME NEW S, NEW s \in Seq(S), NEW e \in S, e \notin ToSet(s),
           \A i, j \in DOMAIN s : s[i] = s[j] => i = j
    PROVE  /\ Append(s, e) \in Seq(S)
           /\ ToSet(Append(s, e)) = ToSet(s) \cup {e}
           /\ \A i, j \in DOMAIN Append(s, e) : Append(s, e)[i] = Append(s, e)[j] => i = j
<1>1. /\ Append(s, e) \in Seq(S) /\ Len(s) \in Nat /\ DOMAIN s = 1 .. Len(s)
      /\ DOMAIN Append(s, e) = 1 .. Len(s) + 1
      /\ \A i \in 1 .. Len(s) : Append(s, e)[i] = s[i]
      /\ Append(s, e)[Len(s) + 1] = e
  BY AppendProperties, LenProperties
<1>2. \A i \in DOMAIN s : s[i] # e
  BY DEF ToSet
<1>3. \A i \in DOMAIN Append(s, e) : i \in DOMAIN s \/ i = Len(s) + 1
  BY <1>1
<1>4. Len(s) + 1 \in DOMAIN Append(s, e) /\ DOMAIN s \subseteq DOMAIN Append(s, e)
  BY <1>1
<1>5. ToSet(Append(s, e)) = ToSet(s) \cup {e}
  BY <1>1, <1>3, <1>4 DEF ToSet
<1>6. \A i, j \in DOMAIN Append(s, e) : Append(s, e)[i] = Append(s, e)[j] => i = j
  BY <1>1, <1>2, <1>3
<1> QED
  BY <1>1, <1>5, <1>6

-----------------------------------------------------------------------------
(* Paths and what is reached *)

LEMMA BaseType == TypeOK => base \in Files \cup {Missing}
<1>1. TypeOK => <<Cwd, path>> \in Dirs \X Names
  BY PathAssumption DEF TypeOK
<1> QED
  BY <1>1, PathAssumption DEF base

LEMMA PathsType ==
    ASSUME TypeOK, NEW f \in Files, Readable(f)
    PROVE  /\ Paths(f) \in Seq(Dirs \X Names)
           /\ IncludesOf(f) = {Locate[p] : p \in ToSet(Paths(f))}
           /\ IncludesOf(f) \subseteq Files \cup {Missing}
<1>1. disk[f].include \in Seq(Names) /\ DirOf[f] \in Dirs
  BY PathAssumption DEF TypeOK
<1>2. Paths(f) \in Seq(Dirs \X Names) /\ DOMAIN Paths(f) = DOMAIN disk[f].include
  BY <1>1 DEF Paths, Resolved
<1>3. IncludesOf(f) = {Locate[p] : p \in ToSet(Paths(f))}
  BY <1>2 DEF IncludesOf, ToSet
<1>4. \A i \in DOMAIN disk[f].include : Locate[Paths(f)[i]] \in Files \cup {Missing}
  BY <1>1, <1>2, PathAssumption
<1> QED
  BY <1>2, <1>3, <1>4 DEF IncludesOf

(* A file is reached from itself, and what a reached file includes is reached. *)
LEMMA ReachedFirst ==
    ASSUME TypeOK
    PROVE  base \in Reached(base)
BY BaseType DEF Reached

LEMMA ReachedNext ==
    ASSUME TypeOK, NEW f \in Files, f \in Reached(base)
    PROVE  IncludesOf(f) \subseteq Reached(base)
<1>1. IncludesOf(f) \subseteq Files \cup {Missing}
  BY PathsType DEF IncludesOf
<1>2. f # Missing
  BY PathAssumption
<1> QED
  BY <1>1, <1>2 DEF Reached

(* A path that is popped *)
LEMMA Popped ==
    ASSUME InductiveInv, NEW f, Pop(f)
    PROVE  /\ f \in Reached(base)
           /\ Tail(includes) \in Seq(Dirs \X Names)
           /\ Queued = {f} \cup {Locate[p] : p \in ToSet(Tail(includes))}
<1>1. includes \in Seq(Dirs \X Names) /\ includes # <<>> /\ Locate[Head(includes)] = f
  BY DEF InductiveInv, TypeOK, Pop
<1>2. Tail(includes) \in Seq(Dirs \X Names) /\ ToSet(includes) = {Head(includes)} \cup ToSet(Tail(includes))
  BY <1>1, TailElements
<1>3. Queued = {f} \cup {Locate[p] : p \in ToSet(Tail(includes))}
  BY <1>1, <1>2 DEF Queued
<1>4. Queued \subseteq Reached(base)
  BY DEF InductiveInv, OnTheWay, Pop
<1> QED
  BY <1>2, <1>3, <1>4

-----------------------------------------------------------------------------
(* The inductive invariant *)

LEMMA InitHolds == Init => InductiveInv
<1> SUFFICES ASSUME Init PROVE InductiveInv
  OBVIOUS
<1>1. TypeOK
  <2>1. disk \in Disks /\ path \in Bases /\ homeSet \in BOOLEAN
    BY DEF Init, FilesInit
  <2>2. DOMAIN disk = Files /\ \A f \in Files : Readable(f) => disk[f].include \in Seq(Names)
    BY <2>1, DiskAssumption DEF Readable
  <2>3. includes \in Seq(Dirs \X Names) /\ order \in Seq(Files)
    BY DEF Init
  <2> QED
    BY <2>1, <2>2, <2>3 DEF Init, TypeOK
<1>2. ToSet(order) = visited /\ \A i, j \in DOMAIN order : order[i] = order[j] => i = j
  BY DEF Init, ToSet
<1>3. OnTheWay /\ NotFoundMeansMissing /\ disk \in Disks
  BY DEF Init, FilesInit, OnTheWay, NotFoundMeansMissing
<1> QED
  BY <1>1, <1>2, <1>3 DEF Init, InductiveInv

(* A failure changes nothing else. *)
LEMMA FailureHolds ==
    ASSUME InductiveInv, UNCHANGED <<fixed, includes, merging>>, NEW kind \in {"NotFound", "Other"},
           Fail(kind), stage # "start" \/ includes = <<>>,
           IF kind = "NotFound" THEN Missing \in Reached(base)
           ELSE ~ Resolvable(path) \/ \E f \in Included : ~ Usable(f)
    PROVE  InductiveInv'
<1> USE DEF fixed, merging, Fail
<1>1. TypeOK'
  BY DEF InductiveInv, TypeOK, Readable
<1>2. base' = base /\ Reached(base)' = Reached(base) /\ Queued' = Queued /\ Included' = Included
  BY DEF base, Reached, IncludesOf, Readable, Paths, Resolved, Queued, Included
<1>3. OnTheWay'
  <2>1. Queued \subseteq Reached(base)
    BY DEF InductiveInv, OnTheWay, Queued, ToSet
  <2> QED
    BY <1>2, <2>1 DEF InductiveInv, OnTheWay
<1>4. NotFoundMeansMissing'
  <2>1. Resolvable(path)' = Resolvable(path) /\ \A f : Usable(f)' = Usable(f)
    BY <1>2 DEF Resolvable, Usable, AllResolvable, Readable
  <2> QED
    BY <1>2, <2>1 DEF NotFoundMeansMissing
<1> QED
  BY <1>1, <1>3, <1>4 DEF InductiveInv

(* What a step leaves of the graph: the disk and the paths stay. *)
LEMMA GraphStays ==
    ASSUME UNCHANGED fixed
    PROVE  /\ base' = base /\ Reached(base)' = Reached(base) /\ Included' = Included
           /\ \A f : IncludesOf(f)' = IncludesOf(f)
           /\ Resolvable(path)' = Resolvable(path)
           /\ \A f : Usable(f)' = Usable(f)
BY DEF fixed, base, Reached, IncludesOf, Readable, Paths, Resolved, Included, Resolvable, Usable, AllResolvable

LEMMA OpenBaseHolds == InductiveInv /\ OpenBase => InductiveInv'
<1> SUFFICES ASSUME InductiveInv, OpenBase PROVE InductiveInv'
  OBVIOUS
<1>1. TypeOK /\ base \in Files /\ Readable(base)
  BY BaseType DEF InductiveInv, OpenBase, Usable
<1>2. /\ Paths(base) \in Seq(Dirs \X Names)
      /\ IncludesOf(base) = {Locate[p] : p \in ToSet(Paths(base))}
  BY <1>1, PathsType
<1>3. UNCHANGED fixed
  BY DEF OpenBase
<1>4. /\ disk[base].global.wordsPath \in Names \cup {None}
      /\ disk[base].global.keyring \in KeyringSeeds
  BY <1>1, DiskAssumption DEF InductiveInv, Readable
<1>5. TypeOK'
  <2>1. /\ global'.keyring \in KeyringSeeds
        /\ global'.wordsPath \in (Dirs \X Names) \cup {None}
    BY <1>4, PathAssumption DEF OpenBase, BaseGlobal
  <2>2. order' \in Seq(Files) /\ visited' \subseteq Files /\ includes' \in Seq(Dirs \X Names)
    BY <1>1, <1>2 DEF OpenBase
  <2> QED
    BY <1>1, <1>3, <2>1, <2>2 DEF TypeOK, OpenBase, fixed, Readable
<1>6. /\ (ToSet(order) = visited)'
      /\ (\A i, j \in DOMAIN order : order[i] = order[j] => i = j)'
  <2>1. order' = <<base>> /\ DOMAIN order' = {1} /\ order'[1] = base /\ visited' = {base}
    BY DEF OpenBase
  <2> QED
    BY <2>1 DEF ToSet
<1>7. OnTheWay'
  <2>1. Queued' = IncludesOf(base)
    BY <1>2 DEF Queued, OpenBase, ToSet
  <2>2. base \in Reached(base) /\ IncludesOf(base) \subseteq Reached(base)
    BY <1>1, ReachedFirst, ReachedNext
  <2> QED
    BY <1>3, <2>1, <2>2, GraphStays DEF OnTheWay, OpenBase
<1>8. NotFoundMeansMissing'
  BY DEF NotFoundMeansMissing, OpenBase
<1> QED
  BY <1>3, <1>5, <1>6, <1>7, <1>8 DEF InductiveInv, OpenBase, fixed

LEMMA AlreadyVisitedHolds == InductiveInv /\ AlreadyVisited => InductiveInv'
<1> SUFFICES ASSUME InductiveInv, AlreadyVisited PROVE InductiveInv'
  OBVIOUS
<1>1. PICK f \in visited : Pop(f)
  BY DEF AlreadyVisited
<1>2. /\ Tail(includes) \in Seq(Dirs \X Names)
      /\ Queued = {f} \cup {Locate[p] : p \in ToSet(Tail(includes))}
  BY <1>1, Popped
<1>3. includes' = Tail(includes) /\ UNCHANGED <<fixed, stage, error, merging>> /\ stage = "including"
  BY DEF AlreadyVisited, Pop
<1>4. Queued = {f} \cup Queued'
  BY <1>2, <1>3 DEF Queued, ToSet
<1>5. TypeOK'
  BY <1>2, <1>3 DEF InductiveInv, TypeOK, fixed, merging, Readable
<1>6. OnTheWay'
  BY <1>1, <1>3, <1>4, GraphStays DEF InductiveInv, OnTheWay, merging
<1> QED
  BY <1>3, <1>5, <1>6 DEF InductiveInv, NotFoundMeansMissing, fixed, merging, ToSet

LEMMA IncludeFileHolds ==
    ASSUME InductiveInv, NEW f \in Files, IncludeFile(f)
    PROVE  InductiveInv'
<1>1. TypeOK /\ f \notin visited /\ Pop(f) /\ Usable(f) /\ Readable(f) /\ stage = "including"
  BY DEF InductiveInv, IncludeFile, Merge, Usable, Pop
<1>2. /\ f \in Reached(base)
      /\ Tail(includes) \in Seq(Dirs \X Names)
      /\ Queued = {f} \cup {Locate[p] : p \in ToSet(Tail(includes))}
  BY <1>1, Popped
<1>3. /\ Paths(f) \in Seq(Dirs \X Names)
      /\ IncludesOf(f) = {Locate[p] : p \in ToSet(Paths(f))}
  BY <1>1, PathsType
<1>4. /\ includes' = Tail(includes) \o Paths(f)
      /\ visited' = visited \cup {f}
      /\ order' = Append(order, f)
      /\ global' = MergeGlobal(global, disk[f].global, f)
      /\ UNCHANGED <<fixed, stage, error>>
  BY DEF IncludeFile, Merge
<1>5. /\ includes' \in Seq(Dirs \X Names)
      /\ ToSet(includes') = ToSet(Tail(includes)) \cup ToSet(Paths(f))
  <2>1. ASSUME NEW s \in Seq(Dirs \X Names), NEW t \in Seq(Dirs \X Names)
        PROVE  s \o t \in Seq(Dirs \X Names) /\ ToSet(s \o t) = ToSet(s) \cup ToSet(t)
    BY ConcatElements
  <2>2. /\ Tail(includes) \o Paths(f) \in Seq(Dirs \X Names)
        /\ ToSet(Tail(includes) \o Paths(f)) = ToSet(Tail(includes)) \cup ToSet(Paths(f))
    BY <1>2, <1>3, <2>1
  <2> QED
    BY <1>4, <2>2
<1>6. /\ Queued' = {Locate[p] : p \in ToSet(Tail(includes))} \cup IncludesOf(f)
      /\ Queued \cup IncludesOf(f) = Queued' \cup {f}
  BY <1>2, <1>3, <1>5 DEF Queued, ToSet
<1>7. /\ order' \in Seq(Files)
      /\ ToSet(order') = visited'
      /\ \A i, j \in DOMAIN order' : order'[i] = order'[j] => i = j
  BY <1>1, <1>4, AppendElements DEF InductiveInv, TypeOK
<1>8. TypeOK'
  <2>1. /\ disk[f].global.wordsPath \in Names \cup {None}
        /\ disk[f].global.keyring \in KeyringSeeds
    BY <1>1, DiskAssumption DEF InductiveInv, Readable
  <2>2. DirOf[f] \in Dirs
    BY PathAssumption
  <2>3. /\ global'.keyring \in KeyringSeeds
        /\ global'.wordsPath \in (Dirs \X Names) \cup {None}
    BY <1>1, <1>4, <2>1, <2>2 DEF MergeGlobal, MergeKeyring, Resolved, TypeOK
  <2> QED
    BY <1>1, <1>4, <1>5, <1>7, <2>3 DEF TypeOK, fixed, Readable
<1>9. OnTheWay'
  <2>1. IncludesOf(f) \subseteq Reached(base)
    BY <1>1, <1>2, ReachedNext
  <2>2. /\ visited \subseteq Reached(base) /\ Queued \subseteq Reached(base)
        /\ Resolvable(path) /\ base \in visited
        /\ \A g \in visited : IncludesOf(g) \subseteq visited \cup Queued
    BY <1>1 DEF InductiveInv, OnTheWay
  <2>3. visited' \subseteq Reached(base) /\ Queued' \subseteq Reached(base)
    BY <1>2, <1>4, <1>6, <2>1, <2>2
  <2>4. \A g \in visited' : IncludesOf(g) \subseteq visited' \cup Queued'
    BY <1>4, <1>6, <2>2
  <2> QED
    BY <1>1, <1>4, <2>2, <2>3, <2>4, GraphStays DEF OnTheWay
<1>10. (ToSet(order) = visited)' /\ (\A i, j \in DOMAIN order : order[i] = order[j] => i = j)'
  BY <1>7 DEF ToSet
<1> QED
  BY <1>1, <1>4, <1>8, <1>9, <1>10 DEF InductiveInv, NotFoundMeansMissing, fixed

LEMMA StepHolds == InductiveInv /\ [Next]_vars => InductiveInv'
<1> SUFFICES ASSUME InductiveInv, [Next]_vars PROVE InductiveInv'
  OBVIOUS
<1>1. CASE BaseFails
  <2>1. base \in Reached(base) /\ stage = "start" /\ includes = <<>>
    BY <1>1, ReachedFirst DEF InductiveInv, BaseFails
  <2>2. \/ ~ Resolvable(path) /\ Fail("Other")
        \/ base = Missing /\ Fail("NotFound")
        \/ base # Missing /\ ~ Usable(base) /\ Fail("Other")
    BY <1>1 DEF BaseFails
  <2>3. base # Missing => base \in Included
    BY <2>1 DEF Included
  <2> QED
    BY <1>1, <2>1, <2>2, <2>3, FailureHolds DEF BaseFails
<1>2. CASE OpenBase
  BY <1>2, OpenBaseHolds
<1>3. CASE IncludeMissing
  <2>1. Missing \in Reached(base) /\ stage # "start"
    BY <1>3, Popped DEF IncludeMissing, Pop
  <2> QED
    BY <1>3, <2>1, FailureHolds DEF IncludeMissing
<1>4. CASE AlreadyVisited
  BY <1>4, AlreadyVisitedHolds
<1>5. CASE IncludeFails
  <2>1. PICK f \in Files : Pop(f) /\ ~ Usable(f)
    BY <1>5 DEF IncludeFails
  <2>2. f \in Included /\ stage # "start"
    BY <2>1, Popped, PathAssumption DEF Included, Pop
  <2> QED
    BY <1>5, <2>1, <2>2, FailureHolds DEF IncludeFails
<1>6. CASE \E f \in Files : IncludeFile(f)
  BY <1>6, IncludeFileHolds
<1>7. CASE Finish
  <2>1. stage = "including" /\ stage' = "loaded" /\ includes = <<>> /\ UNCHANGED <<fixed, error, includes, merging>>
    BY <1>7 DEF Finish
  <2>2. TypeOK'
    BY <2>1 DEF InductiveInv, TypeOK, fixed, merging, Readable
  <2>3. OnTheWay'
    <3>1. Queued' = Queued
      BY <2>1 DEF Queued, ToSet
    <3> QED
      BY <2>1, <3>1, GraphStays DEF InductiveInv, OnTheWay, merging
  <2> QED
    BY <2>1, <2>2, <2>3 DEF InductiveInv, NotFoundMeansMissing, fixed, merging, ToSet
<1>8. CASE UNCHANGED vars
  <2>1. UNCHANGED <<fixed, stage, error, includes, merging>>
    BY <1>8 DEF vars, merging
  <2>2. TypeOK'
    BY <2>1 DEF InductiveInv, TypeOK, fixed, merging, Readable
  <2>3. OnTheWay' /\ NotFoundMeansMissing'
    <3>1. Queued' = Queued
      BY <2>1 DEF Queued, ToSet
    <3> QED
      BY <2>1, <3>1, GraphStays DEF InductiveInv, OnTheWay, NotFoundMeansMissing, merging
  <2> QED
    BY <2>1, <2>2, <2>3 DEF InductiveInv, fixed, merging, ToSet
<1> QED
  BY <1>1, <1>2, <1>3, <1>4, <1>5, <1>6, <1>7, <1>8 DEF Next

-----------------------------------------------------------------------------
(* Whatever was visited or is queued is reached from the base file, and     *)
(* nothing it reaches is lost. (lib.rs 230-264)                             *)
THEOREM InductiveInvCorrect == Spec => []InductiveInv
<1> QED
  BY InitHolds, StepHolds, PTL DEF Spec

(* Every variable keeps its type, for any include graph.                    *)
THEOREM TypeCorrect == Spec => []TypeOK
<1>1. InductiveInv => TypeOK
  BY DEF InductiveInv
<1> QED
  BY <1>1, InductiveInvCorrect, PTL

LEMMA MergedOnceFromInv == InductiveInv => MergesWhatIsReachedOnce
<1>1. ASSUME InductiveInv, stage = "loaded"
      PROVE  /\ base \in visited /\ \A f \in visited : IncludesOf(f) \subseteq visited
             /\ ToSet(order) \subseteq Reached(base)
  <2>1. Queued = {}
    BY <1>1 DEF InductiveInv, OnTheWay, Queued, ToSet
  <2> QED
    BY <1>1, <2>1 DEF InductiveInv, OnTheWay
<1> QED
  BY <1>1 DEF InductiveInv, MergesWhatIsReachedOnce

(* Whatever cycles and diamonds the includes make, each file reached is     *)
(* merged once. (lib.rs 239-262)                                            *)
THEOREM ReachedIsMergedOnce == Spec => []MergesWhatIsReachedOnce
BY MergedOnceFromInv, InductiveInvCorrect, PTL

(* "Not found" is only ever the answer for a file that is not there.        *)
(* (lib.rs 187-191, 220-250)                                                *)
THEOREM NotFoundIsMissing == Spec => []NotFoundMeansMissing
<1>1. InductiveInv => NotFoundMeansMissing
  BY DEF InductiveInv
<1> QED
  BY <1>1, InductiveInvCorrect, PTL

-----------------------------------------------------------------------------
(* Conflicts: who said the last word, of the files o merged from disk d. *)

SchemaWins(d, o, g) ==
    \/ /\ g.defaultSchema = None
       /\ \A i \in DOMAIN o : d[o[i]].global.defaultSchema = None
    \/ \E i \in DOMAIN o :
         /\ d[o[i]].global.defaultSchema # None
         /\ g.defaultSchema = d[o[i]].global.defaultSchema
         /\ \A j \in DOMAIN o : j > i => d[o[j]].global.defaultSchema = None

KeyringWins(d, o, g) ==
    \/ /\ g.keyring = "Unspecified"
       /\ \A i \in DOMAIN o : d[o[i]].global.keyring = "Unspecified"
    \/ \E i \in DOMAIN o :
         /\ d[o[i]].global.keyring # "Unspecified"
         /\ g.keyring = d[o[i]].global.keyring
         /\ \A j \in DOMAIN o : j > i => d[o[j]].global.keyring = "Unspecified"

(* b is the base file. *)
WordsOf(d, b, f) == <<IF f = b THEN Cwd ELSE DirOf[f], d[f].global.wordsPath>>

WordsWin(d, b, o, g) ==
    \/ /\ g.wordsPath = None
       /\ \A i \in DOMAIN o : d[o[i]].global.wordsPath = None
    \/ \E i \in DOMAIN o :
         /\ d[o[i]].global.wordsPath # None
         /\ g.wordsPath = WordsOf(d, b, o[i])
         /\ \A j \in DOMAIN o : j > i => d[o[j]].global.wordsPath = None

AliasWins(d, o, g) ==
    /\ \A i \in DOMAIN o : DOMAIN d[o[i]].global.alias \subseteq DOMAIN g.alias
    /\ \A a \in DOMAIN g.alias : \E i \in DOMAIN o :
         /\ a \in DOMAIN d[o[i]].global.alias
         /\ g.alias[a] = d[o[i]].global.alias[a]
         /\ \A j \in DOMAIN o : j > i => a \notin DOMAIN d[o[j]].global.alias

WinsInv ==
    stage \in {"including", "loaded"} =>
        /\ SchemaWins(disk, order, global) /\ KeyringWins(disk, order, global)
        /\ WordsWin(disk, base, order, global) /\ AliasWins(disk, order, global)

(* The base file is the only one that has said anything yet. *)
LEMMA BaseWins ==
    ASSUME NEW d, NEW f
    PROVE  /\ SchemaWins(d, <<f>>, BaseGlobal(d[f].global))
           /\ KeyringWins(d, <<f>>, BaseGlobal(d[f].global))
           /\ WordsWin(d, f, <<f>>, BaseGlobal(d[f].global))
           /\ AliasWins(d, <<f>>, BaseGlobal(d[f].global))
<1> DEFINE o == <<f>>
           g == BaseGlobal(d[f].global)
<1>1. /\ 1 \in DOMAIN o /\ o[1] = f
      /\ \A i \in DOMAIN o : i = 1 /\ ~ (i > 1)
  OBVIOUS
<1>2. /\ g.defaultSchema = d[f].global.defaultSchema
      /\ g.keyring = d[f].global.keyring
      /\ g.wordsPath = IF d[f].global.wordsPath # None THEN WordsOf(d, f, f) ELSE None
      /\ g.alias = d[f].global.alias
  BY DEF BaseGlobal, WordsOf
<1> HIDE DEF o, g
<1>3. SchemaWins(d, o, g)
  BY <1>1, <1>2 DEF SchemaWins
<1>4. KeyringWins(d, o, g)
  BY <1>1, <1>2 DEF KeyringWins
<1>5. AliasWins(d, o, g)
  BY <1>1, <1>2 DEF AliasWins
<1>6. WordsWin(d, f, o, g)
  BY <1>1, <1>2 DEF WordsWin
<1> QED
  BY <1>3, <1>4, <1>5, <1>6 DEF o, g

(* A file that is merged has the last word on what it says, and on nothing  *)
(* else.                                                                    *)
LEMMA NextWins ==
    ASSUME NEW d, NEW b, NEW o \in Seq(Files), NEW f \in Files, f # b, NEW g,
           SchemaWins(d, o, g), KeyringWins(d, o, g), WordsWin(d, b, o, g), AliasWins(d, o, g)
    PROVE  /\ SchemaWins(d, Append(o, f), MergeGlobal(g, d[f].global, f))
           /\ KeyringWins(d, Append(o, f), MergeGlobal(g, d[f].global, f))
           /\ WordsWin(d, b, Append(o, f), MergeGlobal(g, d[f].global, f))
           /\ AliasWins(d, Append(o, f), MergeGlobal(g, d[f].global, f))
<1> DEFINE p == Append(o, f)
           last == Len(o) + 1
           h == MergeGlobal(g, d[f].global, f)
           said == d[f].global
<1>1. /\ last \in DOMAIN p /\ p[last] = f
      /\ \A i \in DOMAIN o : i \in DOMAIN p /\ p[i] = o[i] /\ last > i
      /\ \A i \in DOMAIN p : i \in DOMAIN o \/ i = last
      /\ \A i \in DOMAIN p : ~ (i > last)
  OBVIOUS
<1>2. /\ h.defaultSchema = IF said.defaultSchema # None THEN said.defaultSchema ELSE g.defaultSchema
      /\ h.keyring = IF said.keyring # "Unspecified" THEN said.keyring ELSE g.keyring
      /\ h.wordsPath = IF said.wordsPath # None THEN WordsOf(d, b, f) ELSE g.wordsPath
      /\ h.alias = Extend(g.alias, said.alias)
  BY DEF MergeGlobal, MergeKeyring, Resolved, WordsOf
<1>3. said = d[f].global
  OBVIOUS
<1> HIDE DEF p, last, h, said
<1>4. SchemaWins(d, p, h)
  <2>1. CASE said.defaultSchema = None
    <3>1. h.defaultSchema = g.defaultSchema
      BY <1>2, <2>1
    <3>2. CASE g.defaultSchema = None /\ \A i \in DOMAIN o : d[o[i]].global.defaultSchema = None
      BY <1>1, <1>3, <2>1, <3>1, <3>2 DEF SchemaWins
    <3>3. ASSUME NEW i \in DOMAIN o,
                 d[o[i]].global.defaultSchema # None,
                 g.defaultSchema = d[o[i]].global.defaultSchema,
                 \A j \in DOMAIN o : j > i => d[o[j]].global.defaultSchema = None
          PROVE  SchemaWins(d, p, h)
      BY <1>1, <1>3, <2>1, <3>1, <3>3 DEF SchemaWins
    <3> QED
      BY <3>2, <3>3 DEF SchemaWins
  <2>2. CASE said.defaultSchema # None
    BY <1>1, <1>2, <1>3, <2>2 DEF SchemaWins
  <2> QED
    BY <2>1, <2>2
<1>5. KeyringWins(d, p, h)
  <2>1. CASE said.keyring = "Unspecified"
    <3>1. h.keyring = g.keyring
      BY <1>2, <2>1
    <3>2. CASE g.keyring = "Unspecified" /\ \A i \in DOMAIN o : d[o[i]].global.keyring = "Unspecified"
      BY <1>1, <1>3, <2>1, <3>1, <3>2 DEF KeyringWins
    <3>3. ASSUME NEW i \in DOMAIN o,
                 d[o[i]].global.keyring # "Unspecified",
                 g.keyring = d[o[i]].global.keyring,
                 \A j \in DOMAIN o : j > i => d[o[j]].global.keyring = "Unspecified"
          PROVE  KeyringWins(d, p, h)
      BY <1>1, <1>3, <2>1, <3>1, <3>3 DEF KeyringWins
    <3> QED
      BY <3>2, <3>3 DEF KeyringWins
  <2>2. CASE said.keyring # "Unspecified"
    BY <1>1, <1>2, <1>3, <2>2 DEF KeyringWins
  <2> QED
    BY <2>1, <2>2
<1>6. AliasWins(d, p, h)
  <2>1. /\ DOMAIN h.alias = DOMAIN g.alias \cup DOMAIN said.alias
        /\ \A a \in DOMAIN said.alias : h.alias[a] = said.alias[a]
        /\ \A a \in DOMAIN g.alias : a \notin DOMAIN said.alias => h.alias[a] = g.alias[a]
    BY <1>2 DEF Extend
  <2>2. \A i \in DOMAIN p : DOMAIN d[p[i]].global.alias \subseteq DOMAIN h.alias
    BY <1>1, <1>3, <2>1 DEF AliasWins
  <2>3. ASSUME NEW a \in DOMAIN h.alias
        PROVE  \E i \in DOMAIN p :
                 /\ a \in DOMAIN d[p[i]].global.alias
                 /\ h.alias[a] = d[p[i]].global.alias[a]
                 /\ \A j \in DOMAIN p : j > i => a \notin DOMAIN d[p[j]].global.alias
    <3>1. CASE a \in DOMAIN said.alias
      BY <1>1, <1>3, <2>1, <3>1
    <3>2. CASE a \notin DOMAIN said.alias
      <4>1. a \in DOMAIN g.alias /\ h.alias[a] = g.alias[a]
        BY <2>1, <2>3, <3>2
      <4>2. PICK i \in DOMAIN o :
              /\ a \in DOMAIN d[o[i]].global.alias
              /\ g.alias[a] = d[o[i]].global.alias[a]
              /\ \A j \in DOMAIN o : j > i => a \notin DOMAIN d[o[j]].global.alias
        BY <4>1 DEF AliasWins
      <4> QED
        BY <1>1, <1>3, <3>2, <4>1, <4>2
    <3> QED
      BY <3>1, <3>2
  <2> QED
    BY <2>2, <2>3 DEF AliasWins
<1>7. WordsWin(d, b, p, h)
  <2>1. CASE said.wordsPath = None
    <3>1. h.wordsPath = g.wordsPath
      BY <1>2, <2>1
    <3>2. CASE g.wordsPath = None /\ \A i \in DOMAIN o : d[o[i]].global.wordsPath = None
      BY <1>1, <1>3, <2>1, <3>1, <3>2 DEF WordsWin
    <3>3. ASSUME NEW i \in DOMAIN o,
                 d[o[i]].global.wordsPath # None,
                 g.wordsPath = WordsOf(d, b, o[i]),
                 \A j \in DOMAIN o : j > i => d[o[j]].global.wordsPath = None
          PROVE  WordsWin(d, b, p, h)
      BY <1>1, <1>3, <2>1, <3>1, <3>3 DEF WordsWin
    <3> QED
      BY <3>2, <3>3 DEF WordsWin
  <2>2. CASE said.wordsPath # None
    BY <1>1, <1>2, <1>3, <2>2 DEF WordsWin
  <2> QED
    BY <2>1, <2>2
<1> QED
  BY <1>4, <1>5, <1>6, <1>7 DEF p, h

LEMMA WinsStep == InductiveInv /\ WinsInv /\ [Next]_vars => WinsInv'
<1> SUFFICES ASSUME InductiveInv, WinsInv, [Next]_vars PROVE WinsInv'
  OBVIOUS
<1>1. CASE BaseFails \/ IncludeMissing \/ IncludeFails
  BY <1>1 DEF BaseFails, IncludeMissing, IncludeFails, Fail, WinsInv
<1>2. CASE OpenBase
  <2>1. /\ order' = <<base>> /\ global' = BaseGlobal(disk[base].global)
        /\ disk' = disk /\ base' = base
    BY <1>2 DEF OpenBase, fixed, base
  <2> QED
    BY <2>1, BaseWins DEF WinsInv
<1>3. ASSUME NEW f \in Files, IncludeFile(f)
      PROVE  WinsInv'
  <2>1. /\ order' = Append(order, f)
        /\ global' = MergeGlobal(global, disk[f].global, f)
        /\ disk' = disk /\ base' = base
        /\ stage = "including" /\ f \notin visited
    BY <1>3 DEF IncludeFile, Merge, Pop, fixed, base
  <2>2. order \in Seq(Files) /\ f # base
    BY <2>1 DEF InductiveInv, TypeOK, OnTheWay
  <2> QED
    BY <2>1, <2>2, NextWins DEF WinsInv
<1>4. CASE AlreadyVisited \/ Finish \/ UNCHANGED vars
  <2>1. UNCHANGED <<disk, base, order, global>> /\ (stage' = stage \/ stage = "including")
    BY <1>4 DEF AlreadyVisited, Finish, vars, fixed, merging, base
  <2> QED
    BY <2>1 DEF WinsInv
<1> QED
  BY <1>1, <1>2, <1>3, <1>4 DEF Next

LEMMA MaxIs ==
    ASSUME NEW S \in SUBSET Nat, NEW x \in S, \A y \in S : y <= x
    PROVE  Max(S) = x
<1>1. \A z \in S : (\A y \in S : z >= y) => z = x
  OBVIOUS
<1> QED
  BY <1>1 DEF Max

LEMMA LastFileFromWins ==
    ASSUME InductiveInv, WinsInv
    PROVE  LastFileWins
<1> SUFFICES ASSUME stage \in {"including", "loaded"}
             PROVE  LastFileWins
  BY DEF LastFileWins
<1>1. /\ DOMAIN order \in SUBSET Nat
      /\ \A i \in DOMAIN order : order[i] \in Files /\ order[i] # None
  BY PathAssumption DEF InductiveInv, TypeOK
<1>2. /\ SchemaWins(disk, order, global) /\ KeyringWins(disk, order, global)
      /\ WordsWin(disk, base, order, global) /\ AliasWins(disk, order, global)
  BY DEF WinsInv
<1>3. ASSUME NEW says \in SUBSET DOMAIN order, NEW i \in says,
             \A j \in DOMAIN order : j > i => j \notin says
      PROVE  Max(says) = i /\ says # {}
  BY <1>1, <1>3, MaxIs
<1>4. \E f : /\ f = LET says == {i \in DOMAIN order : disk[order[i]].global.defaultSchema # None}
                    IN  IF says = {} THEN None ELSE order[Max(says)]
             /\ global.defaultSchema = IF f = None THEN None ELSE disk[f].global.defaultSchema
  <2> DEFINE says == {i \in DOMAIN order : disk[order[i]].global.defaultSchema # None}
  <2>1. CASE global.defaultSchema = None /\ \A i \in DOMAIN order :
               disk[order[i]].global.defaultSchema = None
    BY <2>1
  <2>2. ASSUME NEW i \in DOMAIN order,
               disk[order[i]].global.defaultSchema # None,
               global.defaultSchema = disk[order[i]].global.defaultSchema,
               \A j \in DOMAIN order : j > i => disk[order[j]].global.defaultSchema = None
        PROVE  says # {} /\ order[Max(says)] = order[i]
    <3>1. i \in says /\ says \in SUBSET DOMAIN order /\ \A j \in DOMAIN order : j > i => j \notin says
      BY <2>2
    <3> HIDE DEF says
    <3> QED
      BY <1>3, <3>1
  <2> QED
    BY <1>1, <1>2, <2>1, <2>2 DEF SchemaWins
<1>5. \E f : /\ f = LET says == {i \in DOMAIN order : disk[order[i]].global.keyring # "Unspecified"}
                    IN  IF says = {} THEN None ELSE order[Max(says)]
             /\ global.keyring = IF f = None THEN "Unspecified" ELSE disk[f].global.keyring
  <2> DEFINE says == {i \in DOMAIN order : disk[order[i]].global.keyring # "Unspecified"}
  <2>1. CASE global.keyring = "Unspecified" /\ \A i \in DOMAIN order :
               disk[order[i]].global.keyring = "Unspecified"
    BY <2>1
  <2>2. ASSUME NEW i \in DOMAIN order,
               disk[order[i]].global.keyring # "Unspecified",
               global.keyring = disk[order[i]].global.keyring,
               \A j \in DOMAIN order : j > i => disk[order[j]].global.keyring = "Unspecified"
        PROVE  says # {} /\ order[Max(says)] = order[i]
    <3>1. i \in says /\ says \in SUBSET DOMAIN order /\ \A j \in DOMAIN order : j > i => j \notin says
      BY <2>2
    <3> HIDE DEF says
    <3> QED
      BY <1>3, <3>1
  <2> QED
    BY <1>1, <1>2, <2>1, <2>2 DEF KeyringWins
<1>6. ASSUME NEW a \in DOMAIN global.alias
      PROVE  LET says == {i \in DOMAIN order : a \in DOMAIN disk[order[i]].global.alias}
             IN  says # {} /\ global.alias[a] = disk[order[Max(says)]].global.alias[a]
  <2> DEFINE says == {i \in DOMAIN order : a \in DOMAIN disk[order[i]].global.alias}
  <2>1. PICK i \in DOMAIN order :
          /\ a \in DOMAIN disk[order[i]].global.alias
          /\ global.alias[a] = disk[order[i]].global.alias[a]
          /\ \A j \in DOMAIN order : j > i => a \notin DOMAIN disk[order[j]].global.alias
    BY <1>2 DEF AliasWins
  <2>2. i \in says /\ says \in SUBSET DOMAIN order /\ \A j \in DOMAIN order : j > i => j \notin says
    BY <2>1
  <2>3. Max(says) = i /\ says # {}
    <3> HIDE DEF says
    <3> QED
      BY <1>3, <2>2
  <2> QED
    BY <2>1, <2>3
<1>7. DOMAIN global.alias = UNION {DOMAIN disk[f].global.alias : f \in visited}
  <2>1. visited = {order[i] : i \in DOMAIN order}
    BY DEF InductiveInv, ToSet
  <2>2. \A f \in visited : DOMAIN disk[f].global.alias \subseteq DOMAIN global.alias
    BY <1>2, <2>1 DEF AliasWins
  <2>3. \A a \in DOMAIN global.alias : \E f \in visited : a \in DOMAIN disk[f].global.alias
    BY <1>2, <2>1 DEF AliasWins
  <2> QED
    BY <2>2, <2>3
<1>8. \E f : /\ f = LET says == {i \in DOMAIN order : disk[order[i]].global.wordsPath # None}
                    IN  IF says = {} THEN None ELSE order[Max(says)]
             /\ global.wordsPath = IF f = None THEN None ELSE WordsOf(disk, base, f)
  <2> DEFINE says == {i \in DOMAIN order : disk[order[i]].global.wordsPath # None}
  <2>1. CASE global.wordsPath = None /\ \A i \in DOMAIN order :
               disk[order[i]].global.wordsPath = None
    BY <2>1
  <2>2. ASSUME NEW i \in DOMAIN order,
               disk[order[i]].global.wordsPath # None,
               global.wordsPath = WordsOf(disk, base, order[i]),
               \A j \in DOMAIN order : j > i => disk[order[j]].global.wordsPath = None
        PROVE  says # {} /\ order[Max(says)] = order[i]
    <3>1. i \in says /\ says \in SUBSET DOMAIN order /\ \A j \in DOMAIN order : j > i => j \notin says
      BY <2>2
    <3> HIDE DEF says
    <3> QED
      BY <1>3, <3>1
  <2> QED
    BY <1>1, <1>2, <2>1, <2>2 DEF WordsWin
<1> QED
  BY ZenonT(60), <1>4, <1>5, <1>6, <1>7, <1>8 DEF LastFileWins, LastSaying, WordsOf

(* Whatever the includes are, a setting is that of the last file merged     *)
(* that says anything about it, and Unspecified says nothing.               *)
(* (lib.rs 215, disk.rs 187)                                                *)
THEOREM LastFileWinsCorrect == Spec => []LastFileWins
<1>1. Init => WinsInv
  BY DEF Init, WinsInv
<1> QED
  BY <1>1, WinsStep, LastFileFromWins, InductiveInvCorrect, PTL DEF Spec

-----------------------------------------------------------------------------
(* Breadth first, told of a graph G, the files o in the order they were     *)
(* merged and the files Q that the queue names.                             *)

(* Of the files in o, the one at j is the first that includes the one at i. *)
First(G, o, i, j) ==
    /\ j \in DOMAIN o
    /\ j < i
    /\ o[i] \in G[o[j]]
    /\ \A k \in DOMAIN o : k < j => o[i] \notin G[o[k]]

(* src[q] is the position of the file that put Q[q] into the queue: the     *)
(* queue ascends, and what a file includes is merged or in its own part.    *)
Sources(G, o, Q, src) ==
    /\ src \in [DOMAIN Q -> DOMAIN o]
    /\ \A q \in DOMAIN Q : Q[q] \in G[o[src[q]]]
    /\ \A p, q \in DOMAIN Q : p <= q => src[p] <= src[q]
    /\ \A j \in DOMAIN o : \A h \in G[o[j]] :
         \/ \E i \in DOMAIN o : o[i] = h
         \/ \E q \in DOMAIN Q : src[q] = j /\ Q[q] = h
    /\ \A i, a \in DOMAIN o : First(G, o, i, a) => \A q \in DOMAIN Q : a <= src[q]

BreadthFirst(G, o) ==
    /\ \A i \in DOMAIN o : i # 1 => \E j \in DOMAIN o : First(G, o, i, j)
    /\ \A i, k, a, b \in DOMAIN o :
         k <= i /\ First(G, o, i, a) /\ First(G, o, k, b) => b <= a

LEMMA StartBreadth ==
    ASSUME NEW G, NEW f, NEW Q, NEW l \in Nat, DOMAIN Q = 1 .. l,
           G[f] = {Q[q] : q \in 1 .. l}
    PROVE  BreadthFirst(G, <<f>>) /\ \E src : Sources(G, <<f>>, Q, src)
<1> DEFINE o == <<f>>
           src == [q \in DOMAIN Q |-> 1]
<1>1. DOMAIN o = {1} /\ o[1] = f
  OBVIOUS
<1>2. src \in [DOMAIN Q -> {1}] /\ \A q \in DOMAIN Q : src[q] = 1
  OBVIOUS
<1> HIDE DEF o, src
<1>3. \A i, j \in DOMAIN o : ~ First(G, o, i, j)
  BY <1>1 DEF First
<1>4. Sources(G, o, Q, src)
  BY <1>1, <1>2, <1>3 DEF Sources
<1>5. BreadthFirst(G, o)
  BY <1>1, <1>3 DEF BreadthFirst
<1> QED
  BY <1>4, <1>5 DEF o

(* The head of the queue was merged before: it is dropped. *)
LEMMA DropBreadth ==
    ASSUME NEW G, NEW o \in Seq(Files), NEW Q, NEW l \in Nat, l # 0, DOMAIN Q = 1 .. l,
           NEW R, DOMAIN R = 1 .. l - 1, \A q \in 1 .. l - 1 : R[q] = Q[q + 1],
           NEW src, Sources(G, o, Q, src),
           \E i \in DOMAIN o : o[i] = Q[1]
    PROVE  \E new : Sources(G, o, R, new)
<1> DEFINE new == [q \in DOMAIN R |-> src[q + 1]]
<1>1. \A q \in DOMAIN R : q + 1 \in DOMAIN Q /\ R[q] = Q[q + 1] /\ q \in Nat
  OBVIOUS
<1>2. \A q \in DOMAIN Q : q = 1 \/ (q - 1 \in DOMAIN R /\ R[q - 1] = Q[q] /\ (q - 1) + 1 = q)
  OBVIOUS
<1>3. new \in [DOMAIN R -> DOMAIN o] /\ \A q \in DOMAIN R : new[q] = src[q + 1]
  BY <1>1 DEF Sources
<1> HIDE DEF new
<1>4. \A q \in DOMAIN R : R[q] \in G[o[new[q]]]
  BY SMTT(30), <1>1, <1>3 DEF Sources
<1>5. ASSUME NEW p \in DOMAIN R, NEW q \in DOMAIN R, p <= q
      PROVE  new[p] <= new[q]
  <2>1. p + 1 <= q + 1
    BY <1>1, <1>5
  <2> QED
    BY <1>1, <1>3, <2>1 DEF Sources
<1>6. ASSUME NEW j \in DOMAIN o, NEW h \in G[o[j]], ~ \E i \in DOMAIN o : o[i] = h
      PROVE  \E q \in DOMAIN R : new[q] = j /\ R[q] = h
  <2>1. PICK q \in DOMAIN Q : src[q] = j /\ Q[q] = h
    BY <1>6 DEF Sources
  <2>2. q # 1
    BY <1>6, <2>1
  <2> QED
    BY <1>2, <1>3, <2>1, <2>2
<1>7. ASSUME NEW i \in DOMAIN o, NEW a \in DOMAIN o, First(G, o, i, a), NEW q \in DOMAIN R
      PROVE  a <= new[q]
  BY <1>1, <1>3, <1>7 DEF Sources
<1>8. Sources(G, o, R, new)
  BY <1>3, <1>4, <1>5, <1>6, <1>7 DEF Sources
<1> QED
  BY <1>8

(* R is the queue Q of l files without its head f, and with the m files P   *)
(* that f includes at its end.                                              *)
TakesHead(G, o, f, Q, l, P, m, R) ==
    /\ o \in Seq(Files) /\ f \in Files /\ l \in Nat /\ l # 0 /\ m \in Nat
    /\ DOMAIN Q = 1 .. l /\ Q[1] = f
    /\ \A i \in DOMAIN o : o[i] # f
    /\ DOMAIN P = 1 .. m /\ G[f] = {P[q] : q \in 1 .. m}
    /\ DOMAIN R = 1 .. l - 1 + m
    /\ \A q \in 1 .. l - 1 + m : R[q] = IF q <= l - 1 THEN Q[q + 1] ELSE P[q - (l - 1)]

(* The head of the queue is merged, and what it includes goes to the end.  *)
LEMMA TakeBreadth ==
    ASSUME NEW G, NEW o, NEW f, NEW Q, NEW l, NEW P, NEW m, NEW R, NEW src,
           TakesHead(G, o, f, Q, l, P, m, R), Sources(G, o, Q, src), BreadthFirst(G, o)
    PROVE  /\ BreadthFirst(G, Append(o, f))
           /\ \E new : Sources(G, Append(o, f), R, new)
<1> USE DEF TakesHead
<1> DEFINE n == Len(o)
           t == Append(o, f)
           s == src[1]
           new == [q \in DOMAIN R |-> IF q <= l - 1 THEN src[q + 1] ELSE n + 1]
<1>1. /\ n \in Nat /\ DOMAIN o = 1 .. n /\ DOMAIN t = 1 .. n + 1
      /\ \A i \in DOMAIN o : i \in DOMAIN t /\ t[i] = o[i] /\ i < n + 1 /\ i \in Nat
      /\ \A i \in DOMAIN t : i \in DOMAIN o \/ i = n + 1
      /\ n + 1 \in DOMAIN t /\ t[n + 1] = f
  OBVIOUS
<1>2. /\ 1 \in DOMAIN Q /\ s \in DOMAIN o
      /\ f \in G[o[s]]
      /\ \A q \in DOMAIN Q : s <= src[q] /\ src[q] \in DOMAIN o
  <2>1. 1 \in DOMAIN Q /\ \A q \in DOMAIN Q : 1 <= q
    OBVIOUS
  <2>2. \A q \in DOMAIN Q : src[q] \in DOMAIN o
    BY DEF Sources
  <2>3. f \in G[o[s]]
    BY <2>1 DEF Sources
  <2>4. \A q \in DOMAIN Q : s <= src[q]
    BY <2>1 DEF Sources
  <2> QED
    BY <2>1, <2>2, <2>3, <2>4
<1>3. \A q \in DOMAIN R :
        new[q] = IF q <= l - 1 THEN src[q + 1] ELSE n + 1
  OBVIOUS
<1>4. \A q \in DOMAIN R :
        /\ q \in Nat
        /\ \/ /\ q <= l - 1 /\ q + 1 \in DOMAIN Q
              /\ R[q] = Q[q + 1] /\ new[q] = src[q + 1] /\ new[q] \in DOMAIN o
           \/ /\ ~ (q <= l - 1) /\ q - (l - 1) \in DOMAIN P
              /\ R[q] = P[q - (l - 1)] /\ new[q] = n + 1
  BY <1>2, <1>3
<1>5. \A q \in DOMAIN Q : q # 1 => /\ q - 1 \in DOMAIN R
                                   /\ R[q - 1] = Q[q] /\ new[q - 1] = src[q]
  <2> SUFFICES ASSUME NEW q \in DOMAIN Q, q # 1
               PROVE  q - 1 \in DOMAIN R /\ R[q - 1] = Q[q] /\ new[q - 1] = src[q]
    OBVIOUS
  <2>1. q - 1 \in DOMAIN R /\ q - 1 <= l - 1 /\ (q - 1) + 1 = q
    OBVIOUS
  <2> QED
    BY <1>3, <2>1
<1>6. \A q \in 1 .. m : /\ q + (l - 1) \in DOMAIN R
                        /\ R[q + (l - 1)] = P[q] /\ new[q + (l - 1)] = n + 1
  <2> SUFFICES ASSUME NEW q \in 1 .. m
               PROVE  /\ q + (l - 1) \in DOMAIN R
                      /\ R[q + (l - 1)] = P[q] /\ new[q + (l - 1)] = n + 1
    OBVIOUS
  <2>1. q + (l - 1) \in DOMAIN R /\ ~ (q + (l - 1) <= l - 1) /\ (q + (l - 1)) - (l - 1) = q
    OBVIOUS
  <2> QED
    BY <1>3, <2>1
<1>7. new \in [DOMAIN R -> DOMAIN t]
  BY <1>1, <1>4
<1> HIDE DEF t, n, s, new
<1>8. \A i, a \in DOMAIN o : First(G, t, i, a) <=> First(G, o, i, a)
  BY <1>1 DEF First
<1>9. \A i \in DOMAIN o : \A a \in DOMAIN t : First(G, t, i, a) => a \in DOMAIN o
  BY <1>1 DEF First
<1>10. \A k \in DOMAIN o : k < s => f \notin G[o[k]]
  <2> SUFFICES ASSUME NEW k \in DOMAIN o, k < s, f \in G[o[k]]
               PROVE  FALSE
    OBVIOUS
  <2>1. PICK q \in DOMAIN Q : src[q] = k
    BY SMTT(30) DEF Sources
  <2> QED
    BY <1>1, <1>2, <2>1
<1>11. First(G, t, n + 1, s)
  <2>1. s \in DOMAIN t /\ s < n + 1 /\ t[s] = o[s] /\ t[n + 1] = f
    BY <1>1, <1>2
  <2>2. \A k \in DOMAIN t : k < s => k \in DOMAIN o /\ t[k] = o[k]
    BY <1>1, <1>2
  <2> QED
    BY <1>2, <1>10, <2>1, <2>2 DEF First
<1>12. \A a \in DOMAIN t : First(G, t, n + 1, a) => a = s
  <2> SUFFICES ASSUME NEW a \in DOMAIN t, First(G, t, n + 1, a)
               PROVE  a = s
    OBVIOUS
  <2>1. ~ (a < s) /\ ~ (s < a)
    BY <1>11 DEF First
  <2>2. a \in Nat /\ s \in Nat
    BY <1>1, <1>2
  <2> QED
    BY <2>1, <2>2
<1>13. BreadthFirst(G, t)
  <2>1. ASSUME NEW i \in DOMAIN t, i # 1
        PROVE  \E j \in DOMAIN t : First(G, t, i, j)
    <3>1. CASE i \in DOMAIN o
      <4>1. PICK j \in DOMAIN o : First(G, o, i, j)
        BY <2>1, <3>1 DEF BreadthFirst
      <4> QED
        BY <1>1, <1>8, <3>1, <4>1
    <3>2. CASE i = n + 1
      BY <1>1, <1>2, <1>11, <3>2
    <3> QED
      BY <1>1, <3>1, <3>2
  <2>2. ASSUME NEW i \in DOMAIN t, NEW k \in DOMAIN t, NEW a \in DOMAIN t, NEW b \in DOMAIN t,
               k <= i, First(G, t, i, a), First(G, t, k, b)
        PROVE  b <= a
    <3>1. CASE i \in DOMAIN o
      <4>1. k \in DOMAIN o /\ a \in DOMAIN o /\ b \in DOMAIN o
        BY <1>1, <1>9, <2>2, <3>1
      <4> QED
        BY <1>8, <2>2, <3>1, <4>1 DEF BreadthFirst
    <3>2. CASE i = n + 1 /\ k \in DOMAIN o
      <4>1. b \in DOMAIN o /\ First(G, o, k, b) /\ a = s
        BY <1>8, <1>9, <1>12, <2>2, <3>2
      <4> QED
        BY <1>2, <3>2, <4>1 DEF Sources, s
    <3>3. CASE i = n + 1 /\ k = n + 1
      <4>1. a = s /\ b = s /\ s \in Nat
        BY <1>1, <1>2, <1>12, <2>2, <3>3
      <4> QED
        BY <4>1
    <3> QED
      BY <1>1, <3>1, <3>2, <3>3
  <2> QED
    BY <2>1, <2>2 DEF BreadthFirst
<1>14. Sources(G, t, R, new)
  <2>1. ASSUME NEW q \in DOMAIN R
        PROVE  R[q] \in G[t[new[q]]]
    <3>1. CASE q <= l - 1
      <4>1. Q[q + 1] \in G[o[src[q + 1]]]
        BY <1>4, <3>1 DEF Sources
      <4> QED
        BY <1>1, <1>4, <3>1, <4>1
    <3>2. CASE ~ (q <= l - 1)
      BY <1>1, <1>4, <3>2
    <3> QED
      BY <3>1, <3>2
  <2>2. ASSUME NEW p \in DOMAIN R, NEW q \in DOMAIN R, p <= q
        PROVE  new[p] <= new[q]
    <3>1. CASE q <= l - 1
      <4>1. p <= l - 1 /\ p + 1 <= q + 1
        BY <1>4, <2>2, <3>1
      <4> QED
        BY <1>4, <3>1, <4>1 DEF Sources
    <3>2. CASE ~ (q <= l - 1)
      <4>1. new[q] = n + 1 /\ (new[p] \in DOMAIN o \/ new[p] = n + 1)
        BY <1>4, <3>2
      <4> QED
        BY <1>1, <4>1
    <3> QED
      BY <3>1, <3>2
  <2>3. ASSUME NEW j \in DOMAIN t, NEW h \in G[t[j]], ~ \E i \in DOMAIN t : t[i] = h
        PROVE  \E q \in DOMAIN R : new[q] = j /\ R[q] = h
    <3>1. CASE j \in DOMAIN o
      <4>1. ~ \E i \in DOMAIN o : o[i] = h
        BY <1>1, <2>3
      <4>2. PICK q \in DOMAIN Q : src[q] = j /\ Q[q] = h
        <5>1. h \in G[o[j]]
          BY <1>1, <2>3, <3>1
        <5> QED
          BY <3>1, <4>1, <5>1 DEF Sources
      <4>3. q # 1
        BY <1>1, <2>3, <4>2
      <4> QED
        BY <1>5, <4>2, <4>3
    <3>2. CASE j = n + 1
      <4>1. PICK q \in 1 .. m : P[q] = h
        BY <1>1, <2>3, <3>2
      <4> QED
        BY <1>6, <3>2, <4>1
    <3> QED
      BY <1>1, <3>1, <3>2
  <2>4. ASSUME NEW i \in DOMAIN t, NEW a \in DOMAIN t, First(G, t, i, a), NEW q \in DOMAIN R
        PROVE  a <= new[q]
    <3>1. a <= s
      <4>1. CASE i \in DOMAIN o
        <5>1. a \in DOMAIN o /\ First(G, o, i, a)
          BY <1>8, <1>9, <2>4, <4>1
        <5> QED
          BY <1>2, <4>1, <5>1 DEF Sources, s
      <4>2. CASE i = n + 1
        BY <1>1, <1>2, <1>12, <2>4, <4>2
      <4> QED
        BY <1>1, <4>1, <4>2
    <3>2. s <= new[q] /\ new[q] \in Nat
      <4>1. CASE q <= l - 1
        BY <1>1, <1>2, <1>4, <4>1
      <4>2. CASE ~ (q <= l - 1)
        <5>1. new[q] = n + 1 /\ s < n + 1 /\ s \in Nat
          BY <1>1, <1>2, <1>4, <4>2
        <5> QED
          BY <1>1, <5>1
      <4> QED
        BY <4>1, <4>2
    <3>3. a \in Nat /\ s \in Nat
      BY <1>1, <1>2
    <3> QED
      BY <3>1, <3>2, <3>3
  <2> QED
    BY <1>7, <2>1, <2>2, <2>3, <2>4 DEF Sources
<1> QED
  BY <1>13, <1>14 DEF t

(* The same of the state *)
Graph == [f \in Files |-> IncludesOf(f)]
QueueFiles == [q \in DOMAIN includes |-> Locate[includes[q]]]

BreadthInv ==
    /\ BreadthFirst(Graph, order)
    /\ stage = "including" => \E src : Sources(Graph, order, QueueFiles, src)

LEMMA BreadthStep == InductiveInv /\ BreadthInv /\ [Next]_vars => BreadthInv'
<1> SUFFICES ASSUME InductiveInv, BreadthInv, [Next]_vars PROVE BreadthInv'
  OBVIOUS
<1>1. ASSUME UNCHANGED fixed
      PROVE  Graph' = Graph
  BY <1>1, GraphStays DEF Graph
<1>2. /\ includes \in Seq(Dirs \X Names) /\ Len(includes) \in Nat
      /\ DOMAIN includes = 1 .. Len(includes)
      /\ order \in Seq(Files)
      /\ ToSet(order) = visited
  BY DEF InductiveInv, TypeOK
<1>3. ASSUME NEW f, Pop(f)
      PROVE  /\ Len(includes) # 0
             /\ DOMAIN QueueFiles = 1 .. Len(includes)
             /\ QueueFiles[1] = f
             /\ Tail(includes) \in Seq(Dirs \X Names)
             /\ Len(Tail(includes)) = Len(includes) - 1
             /\ DOMAIN Tail(includes) = 1 .. Len(includes) - 1
             /\ \A q \in 1 .. Len(includes) - 1 : Locate[Tail(includes)[q]] = QueueFiles[q + 1]
             /\ stage = "including"
  <2>1. includes # <<>> /\ Locate[Head(includes)] = f /\ stage = "including"
    BY <1>3 DEF Pop
  <2>2. /\ Len(includes) # 0 /\ Head(includes) = includes[1]
        /\ Tail(includes) \in Seq(Dirs \X Names)
        /\ Len(Tail(includes)) = Len(includes) - 1
        /\ DOMAIN Tail(includes) = 1 .. Len(includes) - 1
        /\ \A q \in 1 .. Len(includes) - 1 : Tail(includes)[q] = includes[q + 1]
    BY <1>2, <2>1, HeadTailProperties, EmptySeq, LenProperties
  <2>3. \A q \in 1 .. Len(includes) : QueueFiles[q] = Locate[includes[q]]
    BY <1>2 DEF QueueFiles
  <2>4. 1 \in 1 .. Len(includes) /\ \A q \in 1 .. Len(includes) - 1 : q + 1 \in 1 .. Len(includes)
    BY <1>2, <2>2
  <2> QED
    BY <1>2, <2>1, <2>2, <2>3, <2>4 DEF QueueFiles
<1>4. CASE BaseFails \/ IncludeMissing \/ IncludeFails \/ Finish
  <2>1. UNCHANGED <<fixed, order>> /\ stage' # "including"
    BY <1>4 DEF BaseFails, IncludeMissing, IncludeFails, Finish, Fail, merging
  <2> QED
    BY <1>1, <2>1 DEF BreadthInv
<1>5. CASE UNCHANGED vars
  <2>1. UNCHANGED <<fixed, order, includes, stage>>
    BY <1>5 DEF vars
  <2>2. QueueFiles' = QueueFiles
    BY <2>1 DEF QueueFiles
  <2> QED
    BY <1>1, <2>1, <2>2 DEF BreadthInv
<1>6. CASE OpenBase
  <2>1. /\ UNCHANGED fixed /\ order' = <<base>> /\ includes' = Paths(base)
        /\ base \in Files /\ Readable(base)
    BY <1>6, BaseType DEF OpenBase, Usable, InductiveInv
  <2>2. /\ Paths(base) \in Seq(Dirs \X Names)
        /\ IncludesOf(base) = {Locate[p] : p \in ToSet(Paths(base))}
    BY <2>1, PathsType DEF InductiveInv
  <2>3. /\ Len(Paths(base)) \in Nat /\ DOMAIN QueueFiles' = 1 .. Len(Paths(base))
        /\ \A q \in 1 .. Len(Paths(base)) : QueueFiles'[q] = Locate[Paths(base)[q]]
    BY <2>1, <2>2 DEF QueueFiles
  <2>4. Graph[base] = {QueueFiles'[q] : q \in 1 .. Len(Paths(base))}
    <3>1. Graph[base] = {Locate[p] : p \in ToSet(Paths(base))}
      BY <2>1, <2>2 DEF Graph
    <3>2. ToSet(Paths(base)) = {Paths(base)[q] : q \in 1 .. Len(Paths(base))}
      BY <2>2 DEF ToSet
    <3> QED
      BY <2>3, <3>1, <3>2
  <2>5. /\ BreadthFirst(Graph, <<base>>)
        /\ \E src : Sources(Graph, <<base>>, QueueFiles', src)
    BY <2>3, <2>4, StartBreadth
  <2> QED
    BY <1>1, <2>1, <2>5 DEF BreadthInv
<1>7. CASE AlreadyVisited
  <2>1. PICK f \in visited : Pop(f)
    BY <1>7 DEF AlreadyVisited
  <2>2. UNCHANGED <<fixed, order, stage>> /\ includes' = Tail(includes)
    BY <1>7 DEF AlreadyVisited, merging
  <2>3. PICK src : Sources(Graph, order, QueueFiles, src)
    BY <1>3, <2>1 DEF BreadthInv
  <2>4. \E i \in DOMAIN order : order[i] = QueueFiles[1]
    BY <1>2, <1>3, <2>1 DEF ToSet
  <2>5. /\ DOMAIN QueueFiles' = 1 .. Len(includes) - 1
        /\ \A q \in 1 .. Len(includes) - 1 : QueueFiles'[q] = QueueFiles[q + 1]
    BY <1>3, <2>1, <2>2 DEF QueueFiles
  <2>6. \E new : Sources(Graph, order, QueueFiles', new)
    BY <1>2, <1>3, <2>1, <2>3, <2>4, <2>5, DropBreadth
  <2> QED
    BY <1>1, <2>2, <2>6 DEF BreadthInv
<1>8. ASSUME NEW f \in Files, IncludeFile(f)
      PROVE  BreadthInv'
  <2> DEFINE l == Len(includes)
             m == Len(Paths(f))
             P == [q \in 1 .. m |-> Locate[Paths(f)[q]]]
  <2>1. /\ UNCHANGED fixed /\ Pop(f) /\ f \notin visited /\ Readable(f)
        /\ includes' = Tail(includes) \o Paths(f)
        /\ order' = Append(order, f)
    BY <1>8 DEF IncludeFile, Merge, Usable
  <2>2. /\ Paths(f) \in Seq(Dirs \X Names)
        /\ IncludesOf(f) = {Locate[p] : p \in ToSet(Paths(f))}
    BY <2>1, PathsType DEF InductiveInv
  <2>3. PICK src : Sources(Graph, order, QueueFiles, src)
    BY <1>3, <2>1 DEF BreadthInv
  <2>4. \A i \in DOMAIN order : order[i] # f
    BY <1>2, <2>1 DEF ToSet
  <2>5. m \in Nat /\ DOMAIN Paths(f) = 1 .. m
    BY <2>2
  <2>6. Graph[f] = {P[q] : q \in 1 .. m}
    <3>1. Graph[f] = {Locate[p] : p \in ToSet(Paths(f))}
      BY <2>2 DEF Graph
    <3>2. ToSet(Paths(f)) = {Paths(f)[q] : q \in 1 .. m}
      BY <2>5 DEF ToSet
    <3> QED
      BY <3>1, <3>2
  <2>7. /\ DOMAIN QueueFiles' = 1 .. l - 1 + m
        /\ \A q \in 1 .. l - 1 + m :
              QueueFiles'[q] = IF q <= l - 1 THEN QueueFiles[q + 1] ELSE P[q - (l - 1)]
    <3>1. /\ DOMAIN includes' = 1 .. l - 1 + m
          /\ \A q \in 1 .. l - 1 + m :
                includes'[q] = IF q <= l - 1 THEN Tail(includes)[q] ELSE Paths(f)[q - (l - 1)]
      BY <1>3, <2>1, <2>2, <2>5, ConcatProperties, LenProperties
    <3>2. \A q \in 1 .. l - 1 + m :
            \/ q <= l - 1 /\ q \in 1 .. l - 1
            \/ ~ (q <= l - 1) /\ q - (l - 1) \in 1 .. m
      BY <1>2, <2>5
    <3>3. \A q \in DOMAIN includes' : QueueFiles'[q] = Locate[includes'[q]]
      BY DEF QueueFiles
    <3>4. DOMAIN QueueFiles' = DOMAIN includes'
      BY DEF QueueFiles
    <3>5. \A q \in 1 .. l - 1 : Locate[Tail(includes)[q]] = QueueFiles[q + 1]
      BY <1>3, <2>1
    <3> HIDE DEF l, m
    <3> QED
      BY <3>1, <3>2, <3>3, <3>4, <3>5
  <2>8. DOMAIN P = 1 .. m /\ l \in Nat /\ l # 0 /\ DOMAIN QueueFiles = 1 .. l /\ QueueFiles[1] = f
    BY <1>2, <1>3, <2>1
  <2>9. BreadthFirst(Graph, order) /\ order \in Seq(Files)
    BY <1>2 DEF BreadthInv
  <2> HIDE DEF P, l, m
  <2>10. TakesHead(Graph, order, f, QueueFiles, l, P, m, QueueFiles')
    BY <2>4, <2>5, <2>6, <2>7, <2>8, <2>9 DEF TakesHead
  <2>11. /\ BreadthFirst(Graph, Append(order, f))
         /\ \E new : Sources(Graph, Append(order, f), QueueFiles', new)
    BY <2>3, <2>9, <2>10, TakeBreadth
  <2> QED
    BY <1>1, <2>1, <2>11 DEF BreadthInv
<1> QED
  BY <1>4, <1>5, <1>6, <1>7, <1>8 DEF Next

LEMMA MinIs ==
    ASSUME NEW S \in SUBSET Nat, NEW x \in S, \A y \in S : x <= y
    PROVE  Min(S) = x
<1>1. \A z \in S : (\A y \in S : z <= y) => z = x
  OBVIOUS
<1> QED
  BY <1>1 DEF Min

LEMMA IncludedFromBreadth ==
    ASSUME InductiveInv, BreadthInv
    PROVE  IncludedBreadthFirst
<1>1. /\ Len(order) \in Nat /\ DOMAIN order = 1 .. Len(order)
      /\ \A i \in 1 .. Len(order) : Graph[order[i]] = IncludesOf(order[i])
  BY DEF InductiveInv, TypeOK, Graph
<1>2. BreadthFirst(Graph, order)
  BY DEF BreadthInv
<1>3. ASSUME NEW i \in 2 .. Len(order)
      PROVE  \E j \in DOMAIN order : First(Graph, order, i, j) /\ FirstIncluder(i) = j
  <2>1. PICK j \in DOMAIN order : First(Graph, order, i, j)
    BY <1>1, <1>2 DEF BreadthFirst
  <2> DEFINE S == {k \in 1 .. Len(order) : order[i] \in IncludesOf(order[k])} \cup {i}
  <2>2. j \in S /\ S \in SUBSET Nat
    BY <1>1, <2>1 DEF First
  <2>3. \A k \in S : j <= k
    <3>1. ASSUME NEW k \in 1 .. Len(order), order[i] \in IncludesOf(order[k])
          PROVE  ~ (k < j)
      BY <1>1, <2>1, <3>1 DEF First
    <3> QED
      BY <1>1, <2>1, <3>1 DEF First
  <2>4. Min(S) = j
    <3> HIDE DEF S
    <3> QED
      BY <2>2, <2>3, MinIs
  <2> QED
    BY <2>1, <2>4 DEF FirstIncluder
<1>4. ASSUME NEW i \in 2 .. Len(order)
      PROVE  FirstIncluder(i) < i
  BY <1>3 DEF First
<1>5. ASSUME NEW i \in 2 .. Len(order), NEW k \in 2 .. i
      PROVE  FirstIncluder(k) <= FirstIncluder(i)
  <2>1. k \in 2 .. Len(order) /\ k \in DOMAIN order /\ i \in DOMAIN order /\ k <= i
    BY <1>1
  <2>2. PICK a \in DOMAIN order : First(Graph, order, i, a) /\ FirstIncluder(i) = a
    BY <1>3
  <2>3. PICK b \in DOMAIN order : First(Graph, order, k, b) /\ FirstIncluder(k) = b
    BY <1>3, <2>1
  <2> QED
    BY <1>2, <2>1, <2>2, <2>3 DEF BreadthFirst
<1> QED
  BY <1>4, <1>5 DEF IncludedBreadthFirst

(* Files are merged breadth first, whatever cycles and diamonds the includes *)
(* make: what a nearer file includes comes before what a farther one does.   *)
(* (lib.rs 234-262)                                                          *)
THEOREM IncludedBreadthFirstCorrect == Spec => []IncludedBreadthFirst
<1>1. Init => BreadthInv
  BY DEF Init, BreadthInv, BreadthFirst
<1> QED
  BY <1>1, BreadthStep, IncludedFromBreadth, InductiveInvCorrect, PTL DEF Spec

-----------------------------------------------------------------------------
(* The traversal, as a part of the whole *)

LEMMA LoadIsStep == [ConfigNext]_configVars => [Next]_vars
<1> SUFFICES ASSUME [ConfigNext]_configVars PROVE [Next]_vars
  OBVIOUS
<1>1. CASE Load
  BY <1>1 DEF Load
<1>2. CASE MergeNext
  <2>1. UNCHANGED <<loadVars, global>>
    BY <1>2 DEF MergeNext, Table!RejectUrl, Table!InsertSite, Table!MergeSite,
                Table!DataConflict, Table!Consume
  <2> QED
    BY <2>1 DEF loadVars, vars
<1>3. CASE BuildTable
  <2>1. UNCHANGED <<loadVars, global>>
    BY <1>3 DEF BuildTable, Table!Build
  <2> QED
    BY <2>1 DEF loadVars, vars
<1>4. CASE UNCHANGED configVars
  BY <1>4 DEF configVars
<1> QED
  BY <1>1, <1>2, <1>3, <1>4 DEF ConfigNext

(* What the traversal has gathered: the sites of the files visited, each of *)
(* them usable, and a [global] section of the type the table expects.       *)
Gathered ==
    /\ sites \in Seq(RawSites)
    /\ ToSet(sites) = UNION {ToSet(disk[f].site) : f \in visited}
    /\ \A f \in visited : Usable(f)
    /\ stage \in {"including", "loaded"} => global \in MergedGlobals
    /\ stage = "failed" => error \in {"NotFound", "Other"}

LEMMA AliasesExtend ==
    ASSUME NEW a \in UNION {[A -> Texts] : A \in SUBSET Texts},
           NEW b \in UNION {[A -> Texts] : A \in SUBSET Texts}
    PROVE  Extend(a, b) \in UNION {[A -> Texts] : A \in SUBSET Texts}
<1>1. PICK A \in SUBSET Texts : a \in [A -> Texts]
  OBVIOUS
<1>2. PICK B \in SUBSET Texts : b \in [B -> Texts]
  OBVIOUS
<1>3. Extend(a, b) \in [A \cup B -> Texts]
  BY <1>1, <1>2 DEF Extend
<1> QED
  BY <1>3

LEMMA GatheredStep == InductiveInv /\ Gathered /\ [Next]_vars => Gathered'
<1> SUFFICES ASSUME InductiveInv, Gathered, [Next]_vars PROVE Gathered'
  OBVIOUS
<1>1. ASSUME NEW f \in Files, Usable(f)
      PROVE  /\ disk[f].site \in Seq(RawSites)
             /\ disk[f].global \in
                  [defaultSchema : Texts \cup {None}, wordsPath : Names \cup {None},
                   keyring : KeyringSeeds, alias : UNION {[A -> Texts] : A \in SUBSET Texts}]
  BY <1>1, ContentAssumption DEF InductiveInv, Usable, Readable
<1>2. ASSUME UNCHANGED <<fixed, merging>>,
             stage' \in {"including", "loaded"} => stage = "including",
             stage' = "failed" => error' \in {"NotFound", "Other"}
      PROVE  Gathered'
  <2>1. /\ disk' = disk /\ visited' = visited /\ sites' = sites /\ global' = global
        /\ \A f : Usable(f)' = Usable(f)
    BY <1>2, GraphStays DEF merging, fixed
  <2>2. ToSet(sites)' = ToSet(sites) /\ \A f : ToSet(disk[f].site)' = ToSet(disk[f].site)
    BY <2>1 DEF ToSet
  <2> QED
    BY <1>2, <2>1, <2>2 DEF Gathered
<1>3. CASE BaseFails
  BY <1>2, <1>3 DEF BaseFails, Fail
<1>4. CASE OpenBase
  <2>1. base \in Files /\ Usable(base)
    BY <1>4, BaseType DEF OpenBase, InductiveInv
  <2>2. /\ visited' = {base} /\ sites' = disk[base].site
        /\ global' = BaseGlobal(disk[base].global)
        /\ UNCHANGED fixed /\ stage' = "including"
    BY <1>4 DEF OpenBase
  <2>3. global' \in MergedGlobals
    BY <1>1, <2>1, <2>2, PathAssumption DEF BaseGlobal, MergedGlobals
  <2>4. ToSet(sites') = UNION {ToSet(disk[f].site) : f \in visited'}
    BY <2>2
  <2> QED
    BY <1>1, <2>1, <2>2, <2>3, <2>4, GraphStays DEF Gathered, fixed
<1>5. CASE IncludeMissing
  BY <1>2, <1>5 DEF IncludeMissing, Fail
<1>6. CASE AlreadyVisited
  BY <1>2, <1>6 DEF AlreadyVisited, Pop
<1>7. CASE IncludeFails
  BY <1>2, <1>7 DEF IncludeFails, Fail
<1>8. ASSUME NEW f \in Files, IncludeFile(f)
      PROVE  Gathered'
  <2>1. /\ Usable(f) /\ stage = "including" /\ global \in MergedGlobals
        /\ visited' = visited \cup {f}
        /\ global' = MergeGlobal(global, disk[f].global, f)
        /\ sites' = sites \o disk[f].site
        /\ UNCHANGED <<fixed, stage>>
    BY <1>8 DEF IncludeFile, Merge, Pop, Gathered
  <2>2. global' \in MergedGlobals
    <3>1. DirOf[f] \in Dirs
      BY PathAssumption
    <3>2. Extend(global.alias, disk[f].global.alias) \in UNION {[A -> Texts] : A \in SUBSET Texts}
      BY <1>1, <2>1, AliasesExtend DEF MergedGlobals
    <3> QED
      BY <1>1, <2>1, <3>1, <3>2 DEF MergeGlobal, MergeKeyring, Resolved, MergedGlobals
  <2>3. /\ sites' \in Seq(RawSites)
        /\ ToSet(sites') = ToSet(sites) \cup ToSet(disk[f].site)
    BY <1>1, <2>1, ConcatElements DEF Gathered
  <2>4. ToSet(sites') = UNION {ToSet(disk[g].site) : g \in visited'}
    BY <2>1, <2>3 DEF Gathered
  <2> QED
    BY <2>1, <2>2, <2>3, <2>4, GraphStays DEF Gathered, fixed
<1>9. CASE Finish
  BY <1>2, <1>9 DEF Finish
<1>10. CASE UNCHANGED vars
  <2>1. /\ disk' = disk /\ visited' = visited /\ sites' = sites /\ global' = global
        /\ stage' = stage /\ error' = error
        /\ \A f : Usable(f)' = Usable(f)
    BY <1>10, GraphStays DEF vars, fixed
  <2>2. ToSet(sites)' = ToSet(sites) /\ \A f : ToSet(disk[f].site)' = ToSet(disk[f].site)
    BY <2>1 DEF ToSet
  <2> QED
    BY <2>1, <2>2 DEF Gathered
<1> QED
  BY <1>3, <1>4, <1>5, <1>6, <1>7, <1>8, <1>9, <1>10 DEF Next

(* Where each of the sites comes from: a file, in the order of the files. *)
Comes(d, o, s) ==
    \E src \in [DOMAIN s -> DOMAIN o] :
        /\ \A i, j \in DOMAIN s : i <= j => src[i] <= src[j]
        /\ \A i \in DOMAIN s : s[i] \in ToSet(d[o[src[i]]].site)
        /\ \A n \in DOMAIN o : \A r \in ToSet(d[o[n]].site) :
              \E i \in DOMAIN s : src[i] = n /\ s[i] = r

InOrder == Comes(disk, order, sites)

LEMMA NoneComes == ASSUME NEW d PROVE Comes(d, <<>>, <<>>)
<1>1. [i \in {} |-> 0] \in [DOMAIN <<>> -> DOMAIN <<>>]
  OBVIOUS
<1> QED
  BY <1>1 DEF Comes

LEMMA NextComes ==
    ASSUME NEW d, NEW o \in Seq(Files), NEW f \in Files, NEW s \in Seq(RawSites),
           d[f].site \in Seq(RawSites), Comes(d, o, s)
    PROVE  Comes(d, Append(o, f), s \o d[f].site)
<1> DEFINE t == d[f].site
           p == Append(o, f)
           z == s \o t
           l == Len(o) + 1
           m == Len(s)
<1>1. PICK src \in [DOMAIN s -> DOMAIN o] :
         /\ \A i, j \in DOMAIN s : i <= j => src[i] <= src[j]
         /\ \A i \in DOMAIN s : s[i] \in ToSet(d[o[src[i]]].site)
         /\ \A n \in DOMAIN o : \A r \in ToSet(d[o[n]].site) :
               \E i \in DOMAIN s : src[i] = n /\ s[i] = r
  BY DEF Comes
<1>2. /\ DOMAIN o = 1 .. l - 1 /\ DOMAIN p = 1 .. l /\ l \in Nat \ {0}
      /\ p[l] = f /\ \A n \in DOMAIN o : p[n] = o[n]
  OBVIOUS
<1>3. /\ m \in Nat /\ Len(t) \in Nat
      /\ DOMAIN s = 1 .. m /\ DOMAIN t = 1 .. Len(t) /\ DOMAIN z = 1 .. m + Len(t)
      /\ \A i \in DOMAIN s : z[i] = s[i]
      /\ \A i \in DOMAIN t : z[m + i] = t[i]
  BY SMTT(30)
<1> DEFINE new == [i \in DOMAIN z |-> IF i <= m THEN src[i] ELSE l]
<1> HIDE DEF t, p, z, l, m
<1>4. /\ \A i \in DOMAIN z : i \in DOMAIN s \/ (i > m /\ i - m \in DOMAIN t /\ z[i] = t[i - m])
      /\ \A i \in DOMAIN s : i \in DOMAIN z /\ i <= m
      /\ \A i \in DOMAIN t : m + i \in DOMAIN z /\ m + i > m
  <2>1. ASSUME NEW i \in DOMAIN z, i \notin DOMAIN s
        PROVE  i > m /\ i - m \in DOMAIN t /\ m + (i - m) = i
    BY <1>3, <2>1
  <2>2. \A i \in DOMAIN z : i \notin DOMAIN s => z[i] = t[i - m]
    BY <1>3, <2>1
  <2>3. /\ \A i \in DOMAIN s : i \in DOMAIN z /\ i <= m
        /\ \A i \in DOMAIN t : m + i \in DOMAIN z /\ m + i > m
    BY <1>3
  <2> QED
    BY <2>1, <2>2, <2>3
<1>5. /\ \A i \in DOMAIN s : new[i] = src[i] /\ src[i] \in DOMAIN o /\ new[i] < l
      /\ \A i \in DOMAIN z : i \notin DOMAIN s => new[i] = l
  BY <1>2, <1>3, <1>4
<1>6. new \in [DOMAIN z -> DOMAIN p]
  BY <1>2, <1>4, <1>5
<1>7. ASSUME NEW i \in DOMAIN z, NEW j \in DOMAIN z, i <= j
      PROVE  new[i] <= new[j]
  <2> HIDE DEF new
  <2>1. CASE j \in DOMAIN s
    <3>1. i \in DOMAIN s
      BY <1>3, <1>7, <2>1
    <3> QED
      BY <1>1, <1>5, <1>7, <2>1, <3>1
  <2>2. CASE j \notin DOMAIN s
    BY <1>2, <1>5, <1>6, <2>2
  <2> QED
    BY <2>1, <2>2
<1>8. ASSUME NEW i \in DOMAIN z
      PROVE  z[i] \in ToSet(d[p[new[i]]].site)
  <2> HIDE DEF new
  <2>1. CASE i \in DOMAIN s
    BY <1>1, <1>2, <1>3, <1>5, <2>1
  <2>2. CASE i \notin DOMAIN s
    <3>1. z[i] \in ToSet(t)
      BY <1>4, <2>2 DEF ToSet
    <3>2. d[p[new[i]]].site = t
      BY <1>2, <1>5, <2>2 DEF t
    <3> QED
      BY <3>1, <3>2
  <2> QED
    BY <2>1, <2>2
<1>9. ASSUME NEW n \in DOMAIN p, NEW r \in ToSet(d[p[n]].site)
      PROVE  \E i \in DOMAIN z : new[i] = n /\ z[i] = r
  <2> HIDE DEF new
  <2>1. CASE n \in DOMAIN o
    <3>1. p[n] = o[n]
      BY <1>2, <2>1
    <3>2. r \in ToSet(d[o[n]].site)
      BY <1>9, <3>1, Zenon
    <3>3. \E i \in DOMAIN s : src[i] = n /\ s[i] = r
      BY <1>1, <2>1, <3>2, Zenon
    <3>4. PICK i \in DOMAIN s : src[i] = n /\ s[i] = r
      BY <3>3, Zenon
    <3>5. i \in DOMAIN z /\ z[i] = s[i] /\ new[i] = src[i]
      BY <1>3, <1>4, <1>5
    <3> QED
      BY <3>4, <3>5, Zenon
  <2>2. CASE n \notin DOMAIN o
    <3>1. n = l /\ r \in ToSet(t)
      BY <1>2, <1>9, <2>2 DEF t
    <3>2. PICK i \in DOMAIN t : t[i] = r
      BY <3>1 DEF ToSet
    <3>3. m + i \in DOMAIN z /\ m + i \notin DOMAIN s
      BY <1>3, <1>4
    <3> QED
      BY <1>3, <1>5, <3>1, <3>2, <3>3
  <2> QED
    BY <2>1, <2>2
<1> HIDE DEF new
<1>10. Comes(d, p, z)
  BY <1>6, <1>7, <1>8, <1>9 DEF Comes
<1> QED
  BY <1>10 DEF p, z, t

LEMMA InOrderStep == InductiveInv /\ Gathered /\ InOrder /\ [Next]_vars => InOrder'
<1> SUFFICES ASSUME InductiveInv, Gathered, InOrder, [Next]_vars PROVE InOrder'
  OBVIOUS
<1>1. CASE UNCHANGED <<disk, order, sites>>
  BY <1>1 DEF InOrder
<1>2. ASSUME NEW f \in Files, Usable(f)
      PROVE  disk[f].site \in Seq(RawSites)
  BY <1>2, ContentAssumption DEF InductiveInv, Usable, Readable
<1>3. CASE OpenBase
  <2>1. /\ order' = <<base>> /\ sites' = disk[base].site /\ disk' = disk
        /\ base \in Files /\ Usable(base)
    BY <1>3, BaseType DEF OpenBase, InductiveInv, fixed
  <2>2. /\ Append(<<>>, base) = <<base>>
        /\ <<>> \o disk[base].site = disk[base].site
        /\ disk[base].site \in Seq(RawSites)
    BY <1>2, <2>1
  <2>3. <<>> \in Seq(Files) /\ <<>> \in Seq(RawSites)
    OBVIOUS
  <2>4. Comes(disk, <<base>>, disk[base].site)
    BY <2>1, <2>2, <2>3, NoneComes, NextComes
  <2> QED
    BY <2>1, <2>4 DEF InOrder
<1>4. ASSUME NEW f \in Files, IncludeFile(f)
      PROVE  InOrder'
  <2>1. /\ order' = Append(order, f) /\ sites' = sites \o disk[f].site /\ disk' = disk
        /\ Usable(f)
    BY <1>4 DEF IncludeFile, Merge, fixed
  <2>2. order \in Seq(Files) /\ sites \in Seq(RawSites)
    BY DEF InductiveInv, TypeOK, Gathered
  <2>3. Comes(disk, Append(order, f), sites \o disk[f].site)
    BY <1>2, <2>1, <2>2, NextComes DEF InOrder
  <2> QED
    BY <2>1, <2>3 DEF InOrder
<1> QED
  BY <1>1, <1>3, <1>4 DEF Next, BaseFails, IncludeMissing, AlreadyVisited, IncludeFails, Finish,
     Fail, Pop, vars, fixed, merging

-----------------------------------------------------------------------------
(* The table, fed with what was gathered *)

(* The operators of the library are the same in every instance. *)
LEMMA SameLibrary ==
    ASSUME NEW S
    PROVE  /\ Table!Cardinality(S) = Cardinality(S)
           /\ Proofs!Cardinality(S) = Cardinality(S)
           /\ Promise!Cardinality(S) = Cardinality(S)
           /\ Proofs!IsFiniteSet(S) <=> IsFiniteSet(S)
           /\ Table!Max(S) = Max(S)
           /\ Proofs!Max(S) = Max(S)
           /\ Promise!Max(S) = Max(S)
           /\ Table!Min(S) = Min(S)
           /\ Proofs!Min(S) = Min(S)
<1>1. Table!Cardinality(S) = Cardinality(S) /\ Proofs!Cardinality(S) = Cardinality(S)
  BY DEF Cardinality, Table!Cardinality, Proofs!Cardinality
<1>2. Promise!Cardinality(S) = Cardinality(S)
  BY DEF Cardinality, Promise!Cardinality
<1>3. Table!Max(S) = Max(S) /\ Proofs!Max(S) = Max(S) /\ Promise!Max(S) = Max(S)
  BY DEF Max, Table!Max, Proofs!Max, Promise!Max
<1>4. Table!Min(S) = Min(S) /\ Proofs!Min(S) = Min(S)
  BY DEF Min, Table!Min, Proofs!Min
<1>5. Proofs!IsFiniteSet(S) <=> IsFiniteSet(S)
  BY DEF IsFiniteSet, Proofs!IsFiniteSet
<1> QED
  BY <1>1, <1>2, <1>3, <1>4, <1>5

LEMMA TableActions ==
    ASSUME NEW r
    PROVE  /\ Table!RejectUrl(r) => Proofs!RejectUrl(r)
           /\ Table!InsertSite(r) => Proofs!InsertSite(r)
           /\ Table!MergeSite(r) => Proofs!MergeSite(r)
           /\ Table!DataConflict(r) => Proofs!DataConflict(r)
           /\ Table!Build => Proofs!Build
<1>1. Table!Consume(r) => Proofs!Consume(r)
  BY DEF Table!Consume, Proofs!Consume, Table!tableVars, Proofs!tableVars
<1>2. Table!KeyOf(r) = Proofs!KeyOf(r) /\ Table!InvalidUrl = Proofs!InvalidUrl
  BY DEF Table!KeyOf, Proofs!KeyOf, Table!InvalidUrl, Proofs!InvalidUrl
<1>3. Table!NewEntry(r) = Proofs!NewEntry(r)
  BY DEF Table!NewEntry, Proofs!NewEntry
<1>4. \A e : /\ Table!DataAgrees(e, r) <=> Proofs!DataAgrees(e, r)
             /\ Table!MergedEntry(e, r) = Proofs!MergedEntry(e, r)
  BY DEF Table!DataAgrees, Proofs!DataAgrees, Table!MergedEntry, Proofs!MergedEntry,
         Table!Override, Proofs!Override, Table!Greater, Proofs!Greater
<1>5. Table!Build => Proofs!Build
  <2>1. Table!KeysInOrder(map) = Proofs!KeysInOrder(map)
    BY DEF Table!KeysInOrder, Proofs!KeysInOrder, Table!Cardinality, Proofs!Cardinality,
           Table!Before, Proofs!Before, Table!Keys, Proofs!Keys, Table!NormalUrls,
           Proofs!NormalUrls, Table!Users, Proofs!Users, Table!NoUser, Proofs!NoUser,
           Table!InvalidUrl, Proofs!InvalidUrl
  <2>2. Table!SiteList(map) = Proofs!SiteList(map)
    BY <2>1 DEF Table!SiteList, Proofs!SiteList
  <2>3. Table!UrlIndex(map) = Proofs!UrlIndex(map)
    BY <2>1, SameLibrary DEF Table!UrlIndex, Proofs!UrlIndex
  <2>4. Table!KeyIndex(map) = Proofs!KeyIndex(map)
    BY <2>1, SameLibrary DEF Table!KeyIndex, Proofs!KeyIndex
  <2> QED
    BY <2>2, <2>3, <2>4 DEF Table!Build, Proofs!Build
<1> QED
  BY <1>1, <1>2, <1>3, <1>4, <1>5 DEF Table!RejectUrl, Proofs!RejectUrl, Table!InsertSite,
     Proofs!InsertSite, Table!MergeSite, Proofs!MergeSite, Table!DataConflict, Proofs!DataConflict

LEMMA TableStarts == Proofs!Init => Proofs!TableInv
<1>1. Proofs!EntryType = Table!EntryType /\ Proofs!RawSiteType = Table!RawSiteType
  BY DEF Proofs!EntryType, Table!EntryType, Proofs!RawSiteType, Table!RawSiteType,
         Proofs!Maybe, Table!Maybe, Proofs!Users, Table!Users, Proofs!NoUser, Table!NoUser
<1>2. \A g \in MergedGlobals : \A name \in DOMAIN g.alias : g.alias[name] \in Texts
  BY DEF MergedGlobals
<1> QED
  BY <1>1, <1>2, TableAssumption, Proofs!TableInit DEF Proofs!TableInit, Proofs!NoUser

LEMMA TableSteps == Proofs!TableInv /\ [Proofs!Next]_(Proofs!vars) => Proofs!TableInv'
<1>1. Proofs!EntryType = Table!EntryType /\ Proofs!RawSiteType = Table!RawSiteType
  BY DEF Proofs!EntryType, Table!EntryType, Proofs!RawSiteType, Table!RawSiteType,
         Proofs!Maybe, Table!Maybe, Proofs!Users, Table!Users, Proofs!NoUser, Table!NoUser
<1>2. \A g \in MergedGlobals : \A name \in DOMAIN g.alias : g.alias[name] \in Texts
  BY DEF MergedGlobals
<1> QED
  BY <1>1, <1>2, TableAssumption, Proofs!TableStep DEF Proofs!TableStep, Proofs!NoUser

(* The table is as at first until everything is gathered; then it has seen  *)
(* the first of the sites, and all of them when it is built.                *)
TableIsNew ==
    /\ merged = "merging" /\ seen = <<>> /\ map = [k \in Table!Keys |-> None]
    /\ site = <<>> /\ siteByUrl = <<>> /\ siteByKey = <<>>

Fed ==
    /\ stage # "loaded" => TableIsNew
    /\ stage = "loaded" =>
         /\ Proofs!TableInv
         /\ Len(seen) <= Len(sites)
         /\ \A i \in 1 .. Len(seen) : seen[i] = sites[i]
         /\ merged = "built" => Len(seen) = Len(sites)
         /\ merged = "bad url" => \E i \in 1 .. Len(seen) : NormalOf[seen[i].url] = 0

LEMMA NewTable ==
    ASSUME TableIsNew, global \in MergedGlobals
    PROVE  Proofs!Init
BY DEF TableIsNew, Proofs!Init, Table!Keys, Proofs!Keys, Table!NormalUrls,
       Proofs!NormalUrls, Table!Users, Proofs!Users, Table!NoUser, Proofs!NoUser,
       Table!InvalidUrl, Proofs!InvalidUrl

LEMMA NewTableHolds == TableIsNew /\ global \in MergedGlobals => Proofs!TableInv
BY NewTable, TableStarts

LEMMA FedStep == InductiveInv /\ Gathered /\ Fed /\ [ConfigNext]_configVars => Fed'
<1> SUFFICES ASSUME InductiveInv, Gathered, Fed, [ConfigNext]_configVars
             PROVE  Fed'
  OBVIOUS
<1>1. TableIsNew' /\ (global \in MergedGlobals)' => Proofs!TableInv'
  BY NewTableHolds, PTL
<1>2. Gathered'
  BY LoadIsStep, GatheredStep
<1>3. CASE Load
  <2>1. stage # "loaded" /\ UNCHANGED tableVars
    BY <1>3 DEF Load, Next, BaseFails, OpenBase, IncludeMissing, AlreadyVisited, IncludeFails,
                IncludeFile, Merge, Pop, Finish
  <2>2. TableIsNew'
    BY <2>1 DEF Fed, TableIsNew, tableVars, Table!Keys, Table!NormalUrls, Table!Users,
                Table!NoUser, Table!InvalidUrl
  <2>3. Len(seen') = 0 /\ Len(sites') \in Nat
    BY <1>2, <2>2 DEF TableIsNew, Gathered
  <2>4. CASE stage' # "loaded"
    BY <2>2, <2>4 DEF Fed
  <2>5. CASE stage' = "loaded"
    <3>1. Proofs!TableInv'
      BY <1>1, <1>2, <2>2, <2>5 DEF Gathered
    <3>2. merged' = "merging"
      BY <2>2 DEF TableIsNew
    <3>3. Len(seen') <= Len(sites') /\ 1 .. Len(seen') = {}
      BY <2>3
    <3>4. merged' # "built" /\ merged' # "bad url"
      BY <3>2
    <3> QED
      BY <2>5, <3>1, <3>3, <3>4 DEF Fed
  <2> QED
    BY <2>4, <2>5
<1>4. CASE MergeNext
  <2> DEFINE n == Len(seen)
             r == sites[n + 1]
  <2>1. /\ stage = "loaded" /\ n < Len(sites)
        /\ Table!RejectUrl(r) \/ Table!InsertSite(r) \/ Table!MergeSite(r) \/ Table!DataConflict(r)
        /\ UNCHANGED loadVars
    BY <1>4 DEF MergeNext
  <2>2. /\ seen \in Seq(RawSites) /\ sites \in Seq(RawSites) /\ r \in RawSites
        /\ n \in Nat /\ Len(sites) \in Nat
    <3>1. seen \in Seq(RawSites)
      BY <2>1 DEF Fed, Proofs!TableInv, Proofs!Merged, Proofs!MergeTypeOK
    <3>2. sites \in Seq(RawSites)
      BY DEF Gathered
    <3> QED
      BY <2>1, <3>1, <3>2
  <2>3. stage' = "loaded" /\ sites' = sites
    BY <2>1 DEF loadVars
  <2>4. Proofs!TableInv'
    <3>1. Proofs!Next
      BY <2>1, <2>2, TableActions DEF Proofs!Next
    <3> QED
      BY <2>1, <3>1, TableSteps DEF Fed
  <2>5. seen' = Append(seen, r)
    BY <2>1 DEF Table!RejectUrl, Table!InsertSite, Table!MergeSite, Table!DataConflict,
                Table!Consume
  <2>6. /\ Len(seen') = n + 1
        /\ \A i \in 1 .. n + 1 : seen'[i] = IF i <= n THEN seen[i] ELSE r
    <3> HIDE DEF n, r
    <3>1. \A i \in 1 .. n + 1 : i <= n \/ i = n + 1
      BY <2>2
    <3> QED
      BY <2>2, <2>5, <3>1 DEF n
  <2>7. /\ Len(seen') <= Len(sites')
        /\ \A i \in 1 .. Len(seen') : seen'[i] = sites'[i]
    <3>1. \A i \in 1 .. n : seen[i] = sites[i]
      BY <2>1 DEF Fed
    <3>2. \A i \in 1 .. n + 1 : i <= n => i \in 1 .. n
      BY <2>2
    <3>3. \A i \in 1 .. n + 1 : i <= n \/ i = n + 1
      BY <2>2
    <3> HIDE DEF n
    <3> QED
      BY <2>1, <2>2, <2>3, <2>6, <3>1, <3>2, <3>3
  <2>8. merged' # "built"
    BY <2>1 DEF Table!RejectUrl, Table!InsertSite, Table!MergeSite, Table!DataConflict,
                Table!Consume
  <2>9. merged' = "bad url" => NormalOf[r.url] = 0
    BY <2>1 DEF Table!RejectUrl, Table!InsertSite, Table!MergeSite, Table!DataConflict,
                Table!Consume, Table!InvalidUrl
  <2>10. n + 1 \in 1 .. Len(seen') /\ seen'[n + 1] = r
    <3> HIDE DEF n, r
    <3> QED
      BY <2>2, <2>6
  <2> QED
    BY <2>3, <2>4, <2>7, <2>8, <2>9, <2>10 DEF Fed
<1>5. CASE BuildTable
  <2>1. stage = "loaded" /\ Len(seen) = Len(sites) /\ Table!Build /\ UNCHANGED loadVars
    BY <1>5 DEF BuildTable
  <2>2. stage' = "loaded" /\ sites' = sites /\ seen' = seen /\ merged' = "built"
    BY <2>1 DEF loadVars, Table!Build
  <2>3. Proofs!TableInv'
    <3>1. Proofs!Next
      BY <2>1, TableActions DEF Proofs!Next
    <3> QED
      BY <2>1, <3>1, TableSteps DEF Fed
  <2> QED
    BY <2>1, <2>2, <2>3 DEF Fed
<1>6. CASE UNCHANGED configVars
  <2>1. /\ UNCHANGED <<stage, sites, global, seen, map, merged, site, siteByUrl, siteByKey>>
    BY <1>6 DEF configVars, vars, tableVars
  <2>2. TableIsNew => TableIsNew'
    BY <2>1 DEF TableIsNew, Table!Keys, Table!NormalUrls, Table!Users, Table!NoUser,
                Table!InvalidUrl
  <2>3. Proofs!TableInv => Proofs!TableInv'
    BY <2>1, TableSteps DEF Proofs!vars
  <2> QED
    BY <2>1, <2>2, <2>3 DEF Fed
<1> QED
  BY <1>3, <1>4, <1>5, <1>6 DEF ConfigNext

ConfigInv == InductiveInv /\ WinsInv /\ Gathered /\ InOrder /\ Fed

LEMMA ConfigInvHolds == ConfigSpec => []ConfigInv
<1>1. ConfigInit => ConfigInv
  <2> SUFFICES ASSUME ConfigInit PROVE ConfigInv
    OBVIOUS
  <2>1. InductiveInv /\ stage = "start"
    BY InitHolds DEF ConfigInit, Init
  <2>2. WinsInv
    BY <2>1 DEF WinsInv
  <2>3. Gathered
    BY DEF ConfigInit, Init, Gathered, ToSet
  <2>4. Fed
    BY <2>1 DEF ConfigInit, Fed, TableIsNew
  <2>5. InOrder
    BY NoneComes DEF ConfigInit, Init, InOrder
  <2> QED
    BY <2>1, <2>2, <2>3, <2>4, <2>5 DEF ConfigInv
<1>2. ConfigInv /\ [ConfigNext]_configVars => ConfigInv'
  BY LoadIsStep, StepHolds, WinsStep, GatheredStep, InOrderStep, FedStep DEF ConfigInv
<1> QED
  BY <1>1, <1>2, PTL DEF ConfigSpec

(* Feeding the table disturbs nothing of the traversal: the invariants that *)
(* are proved of a load by itself hold in the whole. (lib.rs 218-265)        *)
THEOREM LoadInvariants ==
    ConfigSpec => [](/\ TypeOK /\ MergesWhatIsReachedOnce /\ NotFoundMeansMissing
                     /\ IncludedBreadthFirst /\ LastFileWins)
<1>1. ConfigInit => BreadthInv
  BY DEF ConfigInit, Init, BreadthInv, BreadthFirst
<1>2. InductiveInv /\ BreadthInv /\ [ConfigNext]_configVars => BreadthInv'
  BY LoadIsStep, BreadthStep
<1>3. ConfigInv => InductiveInv
  BY DEF ConfigInv
<1>4. ConfigSpec => []BreadthInv
  BY <1>1, <1>2, <1>3, ConfigInvHolds, PTL DEF ConfigSpec
<1>5. ConfigInv /\ BreadthInv => /\ TypeOK /\ MergesWhatIsReachedOnce /\ NotFoundMeansMissing
                                 /\ IncludedBreadthFirst /\ LastFileWins
  BY MergedOnceFromInv, IncludedFromBreadth, LastFileFromWins DEF ConfigInv, InductiveInv
<1> QED
  BY <1>4, <1>5, ConfigInvHolds, PTL

-----------------------------------------------------------------------------
(* The promise speaks of the same files. *)

LEMMA SameFiles ==
    /\ Promise!base = base
    /\ Promise!Reached(base) = Reached(base)
    /\ Promise!Included = Included
    /\ Promise!Everywhere = Everywhere
    /\ \A f : Promise!Usable(f) <=> Usable(f)
    /\ Promise!Resolvable(path) <=> Resolvable(path)
    /\ Promise!fixed = fixed
<1> USE DEF Promise!base, base, Promise!Reached, Reached, Promise!IncludesOf, IncludesOf,
            Promise!Readable, Readable, Promise!Paths, Paths, Promise!Resolved, Resolved,
            Promise!Included, Included, Promise!Resolvable, Resolvable
<1>1. Promise!base = base /\ Promise!Included = Included /\ Promise!Reached(base) = Reached(base)
  OBVIOUS
<1>2. Promise!Everywhere = Everywhere
  BY DEF Promise!Everywhere, Everywhere
<1>3. \A f : Promise!Usable(f) <=> Usable(f)
  BY DEF Promise!Usable, Usable, Promise!AllResolvable, AllResolvable
<1>4. (Promise!Resolvable(path) <=> Resolvable(path)) /\ Promise!fixed = fixed
  BY DEF Promise!fixed, fixed
<1> QED
  BY <1>1, <1>2, <1>3, <1>4

(* A load that succeeded visited what is reached and took the sites of it. *)
LEMMA LoadedAll ==
    ASSUME InductiveInv, Gathered, stage = "loaded"
    PROVE  /\ Included = visited /\ Missing \notin Reached(base)
           /\ Everywhere = ToSet(sites)
<1>1. /\ visited \subseteq Reached(base) /\ base \in visited /\ visited \subseteq Files
      /\ \A f \in visited : IncludesOf(f) \subseteq visited
      /\ Missing \notin visited
  <2>1. Queued = {}
    BY DEF InductiveInv, OnTheWay, Queued, ToSet
  <2> QED
    BY <2>1, PathAssumption DEF InductiveInv, OnTheWay, TypeOK
<1>2. Reached(base) \subseteq visited
  BY <1>1 DEF Reached
<1>3. Included = visited /\ Missing \notin Reached(base)
  BY <1>1, <1>2 DEF Included
<1>4. \A f \in visited : Readable(f)
  BY DEF Gathered, Usable
<1>5. Everywhere = UNION {ToSet(disk[f].site) : f \in visited}
  BY <1>3, <1>4 DEF Everywhere, ToSet
<1> QED
  BY <1>3, <1>5 DEF Gathered

-----------------------------------------------------------------------------
(* Schemas and increments *)

LEMMA NameMeans ==
    ASSUME InductiveInv, WinsInv, Gathered, stage = "loaded", NEW name
    PROVE  Proofs!ResolveSchema(name) \in Promise!Meanings(name)
<1>1. Included = visited /\ visited = {order[i] : i \in DOMAIN order}
  BY LoadedAll DEF InductiveInv, ToSet
<1>2. /\ \A f \in Included : name \in DOMAIN disk[f].global.alias => name \in DOMAIN global.alias
      /\ name \in DOMAIN global.alias =>
           \E f \in Included : name \in DOMAIN disk[f].global.alias
                               /\ global.alias[name] = disk[f].global.alias[name]
  BY <1>1 DEF WinsInv, AliasWins
<1> DEFINE given == {disk[f].global.alias[name] :
                        f \in {g \in Included : name \in DOMAIN disk[g].global.alias}}
<1>3. Promise!Meanings(name) = IF given = {} THEN {name} ELSE given
  BY SameFiles DEF Promise!Meanings
<1>4. CASE name \in DOMAIN global.alias
  BY <1>2, <1>3, <1>4 DEF Proofs!ResolveSchema
<1>5. CASE name \notin DOMAIN global.alias
  <2>1. given = {}
    BY <1>2, <1>5
  <2> QED
    BY <1>3, <1>5, <2>1 DEF Proofs!ResolveSchema
<1> QED
  BY <1>4, <1>5

LEMMA DefaultMeans ==
    ASSUME InductiveInv, WinsInv, Gathered, stage = "loaded"
    PROVE  \E name \in Promise!DefaultSchemas : Proofs!DefaultSchema = Proofs!ResolveSchema(name)
<1>1. Included = visited /\ visited = {order[i] : i \in DOMAIN order}
  BY LoadedAll DEF InductiveInv, ToSet
<1> DEFINE given == {disk[f].global.defaultSchema : f \in Included}
<1>2. \/ global.defaultSchema = None /\ given \subseteq {None}
      \/ global.defaultSchema # None /\ global.defaultSchema \in given
  BY <1>1 DEF WinsInv, SchemaWins
<1>3. Promise!DefaultSchemas = IF given \subseteq {None} THEN {Words} ELSE given \ {None}
  BY SameFiles DEF Promise!DefaultSchemas, Promise!Given
<1>4. Proofs!DefaultSchema =
        Proofs!ResolveSchema(IF global.defaultSchema # None THEN global.defaultSchema ELSE Words)
  BY DEF Proofs!DefaultSchema
<1> HIDE DEF given
<1> QED
  BY <1>2, <1>3, <1>4

(* The schema of an entry is one that its raw sites can stand for. *)
LEMMA SchemaIsPromised ==
    ASSUME InductiveInv, WinsInv, Gathered, stage = "loaded", NEW S, NEW schema,
           \/ schema = None /\ \A r \in S : r.schema = None
           \/ schema # None /\ \E r \in S : r.schema = schema
    PROVE  (IF schema # None THEN Proofs!ResolveSchema(schema) ELSE Proofs!DefaultSchema)
               \in Promise!SchemasOf(S)
<1> DEFINE given == {r.schema : r \in S}
           names == IF given \subseteq {None} THEN Promise!DefaultSchemas ELSE given \ {None}
<1>1. Promise!SchemasOf(S) = UNION {Promise!Meanings(s) : s \in names}
  BY DEF Promise!SchemasOf, Promise!Given
<1>2. CASE schema = None
  <2>1. names = Promise!DefaultSchemas
    BY <1>2
  <2>2. PICK name \in Promise!DefaultSchemas :
           Proofs!DefaultSchema = Proofs!ResolveSchema(name)
    BY DefaultMeans
  <2>3. Proofs!ResolveSchema(name) \in Promise!Meanings(name)
    BY NameMeans
  <2> QED
    BY <1>1, <1>2, <2>1, <2>2, <2>3
<1>3. CASE schema # None
  <2>1. schema \in names
    BY <1>3
  <2>2. Proofs!ResolveSchema(schema) \in Promise!Meanings(schema)
    BY NameMeans
  <2> QED
    BY <1>1, <1>3, <2>1, <2>2
<1> QED
  BY <1>2, <1>3

LEMMA SiteIsPromised ==
    ASSUME InductiveInv, WinsInv, Gathered, stage = "loaded", NEW user, NEW schema,
           NEW n, NEW S,
           \A r \in S : r.increment \in Nat /\ r.increment <= n,
           \E r \in S : r.increment = n,
           \/ schema = None /\ \A r \in S : r.schema = None
           \/ schema # None /\ \E r \in S : r.schema = schema
    PROVE  [kind |-> "site", username |-> user,
            schema |-> IF schema # None THEN Proofs!ResolveSchema(schema)
                       ELSE Proofs!DefaultSchema,
            increment |-> n] \in Promise!Site(S, user)
<1> DEFINE T == {r.increment : r \in S}
           s == IF schema # None THEN Proofs!ResolveSchema(schema) ELSE Proofs!DefaultSchema
<1>1. T \in SUBSET Nat /\ n \in T /\ \A y \in T : y <= n
  OBVIOUS
<1>2. s \in Promise!SchemasOf(S)
  BY SchemaIsPromised
<1> HIDE DEF T
<1>3. Promise!Max(T) = n
  BY <1>1, MaxIs, SameLibrary
<1> HIDE DEF s
<1>4. Promise!Site(S, user) =
        {[kind |-> "site", username |-> user, schema |-> x, increment |-> Promise!Max(T)] :
            x \in Promise!SchemasOf(S)}
  BY DEF Promise!Site, T
<1> QED
  BY <1>2, <1>3, <1>4 DEF s

(* What a reader is told of a documented entry *)
LEMMA EntryIsTold ==
    ASSUME NEW k, NEW user
    PROVE  LET d == Proofs!Documented(k)
               s == IF d.schema # None THEN Proofs!ResolveSchema(d.schema)
                    ELSE Proofs!DefaultSchema
           IN  /\ Told(Proofs!Found(Proofs!Resolved(d))) =
                    [kind |-> "site", username |-> d.username, schema |-> s,
                     increment |-> d.increment]
               /\ Told(Proofs!Found(Proofs!Resolved([d EXCEPT !.username = user]))) =
                    [kind |-> "site", username |-> user, schema |-> s,
                     increment |-> d.increment]
<1> DEFINE d == Proofs!Documented(k)
           s == IF d.schema # None THEN Proofs!ResolveSchema(d.schema)
                ELSE Proofs!DefaultSchema
<1>1. PICK url, name, schema, increment, comment, data :
         d = [url |-> url, username |-> name, schema |-> schema, increment |-> increment,
              comment |-> comment, data |-> data]
  BY DEF Proofs!Documented
<1>2. s = IF schema # None THEN Proofs!ResolveSchema(schema) ELSE Proofs!DefaultSchema
  BY <1>1
<1> HIDE DEF d, s
<1>3. /\ d.username = name /\ d.schema = schema /\ d.increment = increment
      /\ [d EXCEPT !.username = user] =
            [url |-> url, username |-> user, schema |-> schema, increment |-> increment,
             comment |-> comment, data |-> data]
  BY <1>1
<1>4. ASSUME NEW e, NEW v,
             e = [url |-> url, username |-> v, schema |-> schema, increment |-> increment,
                  comment |-> comment, data |-> data]
      PROVE  Proofs!Resolved(e) =
                [url |-> url, username |-> v, schema |-> s, increment |-> increment,
                 comment |-> comment, data |-> data]
  BY <1>2, <1>4 DEF Proofs!Resolved
<1>5. \A v : \A e : e = [url |-> url, username |-> v, schema |-> schema,
                         increment |-> increment, comment |-> comment, data |-> data]
                 => /\ Proofs!Resolved(e).username = v
                    /\ Proofs!Resolved(e).schema = s
                    /\ Proofs!Resolved(e).increment = increment
  BY <1>4
<1>6. \A x : Told(Proofs!Found(x)) =
         [kind |-> "site", username |-> x.username, schema |-> x.schema,
          increment |-> x.increment]
  BY DEF Told, Proofs!Found
<1> QED
  BY <1>1, <1>3, <1>5, <1>6 DEF d, s

-----------------------------------------------------------------------------
(* Lookups *)

LEMMA PromisedAnswers ==
    ASSUME NEW S, NEW user
    PROVE  LET users == {r.username : r \in S}
           IN  /\ user \in users =>
                    Promise!Answers(S, user) = Promise!Site({r \in S : r.username = user}, user)
               /\ user \notin users /\ 0 \in users =>
                    Promise!Answers(S, user) = Promise!Site({r \in S : r.username = 0}, user)
               /\ users = {} => Promise!Answers(S, user) = {[kind |-> "UrlNotFound"]}
               /\ user # 0 /\ users # {} /\ user \notin users /\ 0 \notin users =>
                    Promise!Answers(S, user) = {[kind |-> "UsernameNotFound"]}
               /\ user = 0 /\ users # {} /\ 0 \notin users =>
                    Promise!Answers(S, user) =
                       IF Cardinality(users) = 1
                       THEN UNION {Promise!Site(S, v) : v \in users}
                       ELSE {[kind |-> "MultipleChoices", names |-> users]}
<1> DEFINE users == {r.username : r \in S}
<1>1. Promise!Cardinality(users) = Cardinality(users)
  BY SameLibrary
<1> QED
  BY <1>1 DEF Promise!Answers, Promise!NoUser

LEMMA SameLookup ==
    ASSUME NEW url, NEW user
    PROVE  Table!FindSite(url, user) = Proofs!FindSite(url, user)
<1>1. \A u : Table!EndOf(u) = Proofs!EndOf(u)
  BY SameLibrary DEF Table!EndOf, Proofs!EndOf
<1>2. Table!NoUser = Proofs!NoUser /\ Table!InvalidUrl = Proofs!InvalidUrl
  BY DEF Table!NoUser, Proofs!NoUser, Table!InvalidUrl, Proofs!InvalidUrl
<1>3. \A u : Table!FindSiteRaw(u, user) = Proofs!FindSiteRaw(u, user)
  BY <1>1, <1>2 DEF Table!FindSiteRaw, Proofs!FindSiteRaw, Table!Found, Proofs!Found,
     Table!Failed, Proofs!Failed
<1>4. \A s : Table!ResolveSchema(s) = Proofs!ResolveSchema(s)
  BY DEF Table!ResolveSchema, Proofs!ResolveSchema
<1>5. Table!DefaultSchema = Proofs!DefaultSchema
  BY <1>4 DEF Table!DefaultSchema, Proofs!DefaultSchema
<1> QED
  BY <1>2, <1>3, <1>4, <1>5 DEF Table!FindSite, Proofs!FindSite, Table!Found, Proofs!Found,
     Table!Failed, Proofs!Failed

LEMMA TableFacts ==
    ASSUME Proofs!TableInv, merged = "built"
    PROVE  /\ \A url \in RawUrls, user \in Proofs!Users :
                Proofs!Answers(Proofs!FindSite(url, user), url, user)
           /\ IsFiniteSet(Proofs!Known)
           /\ Proofs!Known \subseteq Proofs!Keys
           /\ \A i \in DOMAIN seen :
                NormalOf[seen[i].url] # 0 /\ Proofs!KeyOf(seen[i]) \in Proofs!Known
           /\ \A k \in Proofs!Known :
                LET d == Proofs!Documented(k)
                IN  /\ d.username = k[2]
                    /\ \A i \in DOMAIN seen :
                         Proofs!KeyOf(seen[i]) = k => seen[i].increment <= d.increment
                    /\ \E i \in DOMAIN seen :
                         Proofs!KeyOf(seen[i]) = k /\ seen[i].increment = d.increment
                    /\ \/ /\ d.schema = None
                          /\ \A i \in DOMAIN seen :
                               Proofs!KeyOf(seen[i]) = k => seen[i].schema = None
                       \/ /\ d.schema # None
                          /\ \E i \in DOMAIN seen :
                               Proofs!KeyOf(seen[i]) = k /\ seen[i].schema = d.schema
           /\ \A i, j \in DOMAIN seen :
                Proofs!KeyOf(seen[i]) = Proofs!KeyOf(seen[j]) =>
                    None \in {seen[i].data, seen[j].data} \/ seen[i].data = seen[j].data
<1>1. Proofs!EntryType = Table!EntryType /\ Proofs!RawSiteType = Table!RawSiteType
  BY DEF Proofs!EntryType, Table!EntryType, Proofs!RawSiteType, Table!RawSiteType,
         Proofs!Maybe, Table!Maybe, Proofs!Users, Table!Users, Proofs!NoUser, Table!NoUser
<1>2. \A g \in MergedGlobals : \A name \in DOMAIN g.alias : g.alias[name] \in Texts
  BY DEF MergedGlobals
<1>3. Proofs!LookupsAreDocumented
  BY <1>1, <1>2, TableAssumption, Proofs!BuiltIsDocumented
     DEF Proofs!BuiltIsDocumented, Proofs!NoUser
<1>4. Proofs!IsFiniteSet(Proofs!Known) <=> IsFiniteSet(Proofs!Known)
  BY SameLibrary
<1>5. Proofs!InvalidUrl = 0
  BY DEF Proofs!InvalidUrl
<1> QED
  BY <1>1, <1>2, <1>3, <1>4, <1>5, TableAssumption, Proofs!EntriesTell
     DEF Proofs!EntriesTell, Proofs!NoUser, Proofs!LookupsAreDocumented

(* The same, told from the raw sites of all files. *)
LEMMA EverywhereTells ==
    ASSUME ConfigInv, merged = "built"
    PROVE  /\ stage = "loaded"
           /\ \A url \in RawUrls, user \in Proofs!Users :
                Proofs!Answers(Proofs!FindSite(url, user), url, user)
           /\ IsFiniteSet(Proofs!Known)
           /\ \A k \in Proofs!Known : k = <<k[1], k[2]>> /\ k[2] \in Proofs!Users
           /\ \A r \in Everywhere :
                /\ r.increment \in Nat
                /\ NormalOf[r.url] # 0 /\ <<NormalOf[r.url], r.username>> \in Proofs!Known
           /\ \A k \in Proofs!Known :
                LET d == Proofs!Documented(k)
                    S == {r \in Everywhere : <<NormalOf[r.url], r.username>> = k}
                IN  /\ d.username = k[2]
                    /\ \A r \in S : r.increment <= d.increment
                    /\ \E r \in S : r.increment = d.increment
                    /\ \/ d.schema = None /\ \A r \in S : r.schema = None
                       \/ d.schema # None /\ \E r \in S : r.schema = d.schema
           /\ \A r, s \in Everywhere :
                NormalOf[r.url] = NormalOf[s.url] /\ r.username = s.username =>
                    None \in {r.data, s.data} \/ r.data = s.data
<1>1. stage = "loaded" /\ Proofs!TableInv /\ Len(seen) = Len(sites)
      /\ \A i \in 1 .. Len(seen) : seen[i] = sites[i]
  <2>1. stage = "loaded"
    BY DEF ConfigInv, Fed, TableIsNew
  <2> QED
    BY <2>1 DEF ConfigInv, Fed
<1>2. seen \in Seq(RawSites) /\ sites \in Seq(RawSites)
  BY <1>1 DEF ConfigInv, Gathered, Proofs!TableInv, Proofs!Merged, Proofs!MergeTypeOK
<1>3. DOMAIN seen = 1 .. Len(seen) /\ DOMAIN sites = DOMAIN seen
  BY <1>1, <1>2
<1>4. Everywhere = {seen[i] : i \in DOMAIN seen}
  <2>1. Everywhere = {sites[i] : i \in DOMAIN sites}
    BY <1>1, LoadedAll DEF ConfigInv, ToSet
  <2> QED
    BY <1>1, <1>3, <2>1
<1>5. \A r \in Everywhere : r \in RawSites /\ r.increment \in Nat
  <2>1. \A r \in RawSites : r.increment \in Nat
    BY TableAssumption DEF Table!RawSiteType
  <2> QED
    BY <1>2, <1>4, <2>1
<1>6. \A r : Proofs!KeyOf(r) = <<NormalOf[r.url], r.username>>
  BY DEF Proofs!KeyOf
<1>7. \A k \in Proofs!Known : k = <<k[1], k[2]>> /\ k[2] \in Proofs!Users
  BY <1>1, TableFacts DEF Proofs!Keys
<1>8. ASSUME NEW k \in Proofs!Known
      PROVE  LET d == Proofs!Documented(k)
                 S == {r \in Everywhere : <<NormalOf[r.url], r.username>> = k}
             IN  /\ d.username = k[2]
                 /\ \A r \in S : r.increment <= d.increment
                 /\ \E r \in S : r.increment = d.increment
                 /\ \/ d.schema = None /\ \A r \in S : r.schema = None
                    \/ d.schema # None /\ \E r \in S : r.schema = d.schema
  <2> DEFINE d == Proofs!Documented(k)
  <2>1. /\ d.username = k[2]
        /\ \A i \in DOMAIN seen : Proofs!KeyOf(seen[i]) = k => seen[i].increment <= d.increment
        /\ \E i \in DOMAIN seen : Proofs!KeyOf(seen[i]) = k /\ seen[i].increment = d.increment
        /\ \/ /\ d.schema = None
              /\ \A i \in DOMAIN seen : Proofs!KeyOf(seen[i]) = k => seen[i].schema = None
           \/ /\ d.schema # None
              /\ \E i \in DOMAIN seen : Proofs!KeyOf(seen[i]) = k /\ seen[i].schema = d.schema
    BY <1>1, TableFacts
  <2> HIDE DEF d
  <2> QED
    BY <1>4, <1>6, <2>1 DEF d
<1>9. \A i, j \in DOMAIN seen :
         Proofs!KeyOf(seen[i]) = Proofs!KeyOf(seen[j]) =>
             None \in {seen[i].data, seen[j].data} \/ seen[i].data = seen[j].data
  BY <1>1, TableFacts
<1>10. \A r, s \in Everywhere :
          NormalOf[r.url] = NormalOf[s.url] /\ r.username = s.username =>
              None \in {r.data, s.data} \/ r.data = s.data
  BY <1>4, <1>6, <1>9
<1>11. \A r \in Everywhere :
          NormalOf[r.url] # 0 /\ <<NormalOf[r.url], r.username>> \in Proofs!Known
  BY SMTT(30), <1>1, <1>4, <1>6, TableFacts
<1>12. /\ \A url \in RawUrls, user \in Proofs!Users :
             Proofs!Answers(Proofs!FindSite(url, user), url, user)
       /\ IsFiniteSet(Proofs!Known)
  BY <1>1, TableFacts
<1> QED
  BY <1>1, <1>5, <1>7, <1>8, <1>10, <1>11, <1>12

(* The entries of a URL are the usernames that some raw site gives for it. *)
LEMMA EntriesAreUsers ==
    ASSUME ConfigInv, merged = "built", NEW u, u # 0
    PROVE  LET users == {r.username : r \in {s \in Everywhere : NormalOf[s.url] = u}}
           IN  /\ Proofs!Entries(u) = {<<u, v>> : v \in users}
               /\ \A v : <<u, v>> \in Proofs!Known <=> v \in users
               /\ IsFiniteSet(users)
               /\ Proofs!Cardinality(Proofs!Entries(u)) = Cardinality(users)
<1> DEFINE users == {r.username : r \in {s \in Everywhere : NormalOf[s.url] = u}}
           K == Proofs!Known
           E == {k \in K : k[1] = u}
<1>1. /\ IsFiniteSet(K)
      /\ \A k \in K : k = <<k[1], k[2]>>
      /\ \A r \in Everywhere : <<NormalOf[r.url], r.username>> \in K
      /\ \A k \in K : \E r \in Everywhere : <<NormalOf[r.url], r.username>> = k
  BY EverywhereTells
<1>2. \A v : <<u, v>> \in K <=> v \in users
  <2>1. ASSUME NEW v, <<u, v>> \in K
        PROVE  v \in users
    <3>1. PICK r \in Everywhere : <<NormalOf[r.url], r.username>> = <<u, v>>
      BY <1>1, <2>1
    <3> QED
      BY <3>1
  <2>2. ASSUME NEW v \in users
        PROVE  <<u, v>> \in K
    BY <1>1
  <2> QED
    BY <2>1, <2>2
<1>3. Proofs!Entries(u) = E
  BY DEF Proofs!Entries
<1>4. E = {<<u, v>> : v \in users}
  <2> HIDE DEF users, K
  <2>1. ASSUME NEW k \in E
        PROVE  k \in {<<u, v>> : v \in users}
    <3>1. k \in K /\ k = <<u, k[2]>>
      BY <1>1
    <3> QED
      BY <1>2, <3>1
  <2>2. ASSUME NEW v \in users
        PROVE  <<u, v>> \in E
    BY <1>2
  <2> QED
    BY <2>1, <2>2
<1>5. IsFiniteSet(E)
  <2>1. E \subseteq K
    OBVIOUS
  <2> HIDE DEF E, K
  <2> QED
    BY <1>1, <2>1, FS_Subset
<1>6. IsFiniteSet(users) /\ Cardinality(users) = Cardinality(E)
  <2> DEFINE f == [k \in E |-> k[2]]
  <2> HIDE DEF users, E
  <2>1. \A k \in E : k[2] \in users /\ k = <<u, k[2]>>
    BY <1>4
  <2>2. \A v \in users : <<u, v>> \in E /\ f[<<u, v>>] = v
    BY <1>4
  <2>3. f \in [E -> users]
    BY <2>1
  <2>4. \A k, l \in E : f[k] = f[l] => k = l
    BY <2>1
  <2>5. \A v \in users : \E k \in E : f[k] = v
    BY <2>2
  <2>6. f \in Bijection(E, users)
    <3> HIDE DEF f
    <3> QED
      BY <2>3, <2>4, <2>5 DEF Bijection, Injection, Surjection, IsInjective
  <2>7. ExistsBijection(E, users)
    BY <2>6 DEF ExistsBijection
  <2> QED
    BY <1>5, <2>7, FS_Bijection
<1>7. Proofs!Cardinality(E) = Cardinality(E)
  BY SameLibrary
<1> QED
  BY <1>2, <1>3, <1>4, <1>6, <1>7

(* The answer for an entry is one of those promised for its raw sites. *)
LEMMA EntryIsPromised ==
    ASSUME ConfigInv, merged = "built", NEW k \in Proofs!Known, NEW user, NEW S,
           S = {r \in Everywhere : <<NormalOf[r.url], r.username>> = k}
    PROVE  LET d == Proofs!Documented(k)
           IN  /\ Told(Proofs!Found(Proofs!Resolved(d))) \in Promise!Site(S, k[2])
               /\ Told(Proofs!Found(Proofs!Resolved([d EXCEPT !.username = user])))
                      \in Promise!Site(S, user)
<1> DEFINE d == Proofs!Documented(k)
           s == IF d.schema # None THEN Proofs!ResolveSchema(d.schema)
                ELSE Proofs!DefaultSchema
<1>1. /\ InductiveInv /\ WinsInv /\ Gathered /\ stage = "loaded"
      /\ d.username = k[2]
      /\ \A r \in S : r.increment \in Nat /\ r.increment <= d.increment
      /\ \E r \in S : r.increment = d.increment
      /\ \/ d.schema = None /\ \A r \in S : r.schema = None
         \/ d.schema # None /\ \E r \in S : r.schema = d.schema
  BY EverywhereTells DEF ConfigInv
<1>2. /\ Told(Proofs!Found(Proofs!Resolved(d))) =
           [kind |-> "site", username |-> d.username, schema |-> s, increment |-> d.increment]
      /\ Told(Proofs!Found(Proofs!Resolved([d EXCEPT !.username = user]))) =
           [kind |-> "site", username |-> user, schema |-> s, increment |-> d.increment]
  BY EntryIsTold
<1>3. ASSUME NEW v
      PROVE  [kind |-> "site", username |-> v, schema |-> s, increment |-> d.increment]
                 \in Promise!Site(S, v)
  <2> HIDE DEF d
  <2> QED
    BY <1>1, SiteIsPromised
<1> HIDE DEF d, s
<1> QED
  BY <1>1, <1>2, <1>3 DEF d

LEMMA LookupIsPromised ==
    ASSUME ConfigInv, merged = "built", NEW url \in RawUrls, NEW user \in Proofs!Users
    PROVE  Told(Proofs!FindSite(url, user)) \in
               IF NormalOf[url] = 0 THEN {[kind |-> "Site"]}
               ELSE Promise!Answers({r \in Everywhere : NormalOf[r.url] = NormalOf[url]}, user)
<1> DEFINE u == NormalOf[url]
           S == {r \in Everywhere : NormalOf[r.url] = u}
           users == {r.username : r \in S}
           answer == Proofs!FindSite(url, user)
           of(v) == {r \in S : r.username = v}
<1>1. Proofs!Answers(answer, url, user)
  BY EverywhereTells
<1>2. \A kind : kind \notin {"site", "MultipleChoices"} =>
         Told(Proofs!Failed(kind)) = [kind |-> kind]
  BY DEF Told, Proofs!Failed
<1>3. CASE u = 0
  <2>1. answer = Proofs!Failed("Site")
    BY <1>1, <1>3 DEF Proofs!Answers, Proofs!InvalidUrl
  <2> QED
    BY <1>2, <1>3, <2>1
<1>4. ASSUME u # 0
      PROVE  Told(answer) \in Promise!Answers(S, user)
  <2>1. /\ Proofs!Entries(u) = {<<u, v>> : v \in users}
        /\ \A v : <<u, v>> \in Proofs!Known <=> v \in users
        /\ IsFiniteSet(users)
        /\ Proofs!Cardinality(Proofs!Entries(u)) = Cardinality(users)
    BY <1>4, EntriesAreUsers
  <2>2. ASSUME NEW v \in users
        PROVE  of(v) = {r \in Everywhere : <<NormalOf[r.url], r.username>> = <<u, v>>}
    OBVIOUS
  <2>3. Cardinality(users) \in Nat /\ (Cardinality(users) = 0 <=> users = {})
    <3> HIDE DEF users
    <3> QED
      BY <2>1, FS_CardinalityType, FS_EmptySet
  <2>4. /\ user \in users =>
             answer = Proofs!Found(Proofs!Resolved(Proofs!Documented(<<u, user>>)))
        /\ 0 \in users /\ user \notin users =>
             answer = Proofs!Found(Proofs!Resolved(
                          [Proofs!Documented(<<u, 0>>) EXCEPT !.username = user]))
        /\ users = {} => answer = Proofs!Failed("UrlNotFound")
        /\ users # {} /\ user # 0 /\ 0 \notin users /\ user \notin users =>
             answer = Proofs!Failed("UsernameNotFound")
        /\ user = 0 /\ Cardinality(users) = 1 =>
             \E v \in users :
                 answer = Proofs!Found(Proofs!Resolved(Proofs!Documented(<<u, v>>)))
        /\ user = 0 /\ 0 \notin users /\ Cardinality(users) > 1 =>
             /\ answer.kind = "MultipleChoices"
             /\ {answer.names[i] : i \in DOMAIN answer.names} = users
    <3> HIDE DEF users
    <3>1. Proofs!NoUser = 0 /\ Proofs!InvalidUrl = 0
      BY DEF Proofs!NoUser, Proofs!InvalidUrl
    <3>2. /\ {k[2] : k \in Proofs!Entries(u)} = users
          /\ Proofs!Entries(u) = {} <=> users = {}
          /\ \A k \in Proofs!Entries(u) : \E v \in users : k = <<u, v>>
      <4> DEFINE E == Proofs!Entries(u)
      <4>1. /\ \A k \in E : \E v \in users : k = <<u, v>>
            /\ \A v \in users : <<u, v>> \in E
        BY <2>1
      <4> HIDE DEF E
      <4>2. \A v : <<u, v>>[2] = v
        OBVIOUS
      <4>3. {k[2] : k \in E} = users
        <5>1. ASSUME NEW k \in E
              PROVE  k[2] \in users
          <6>1. PICK v \in users : k = <<u, v>>
            BY <4>1
          <6> QED
            BY <4>2, <6>1
        <5>2. ASSUME NEW v \in users
              PROVE  \E k \in E : k[2] = v
          BY <4>1, <4>2
        <5> QED
          BY <5>1, <5>2
      <4>4. E = {} <=> users = {}
        BY <4>1
      <4> QED
        BY <4>1, <4>3, <4>4 DEF E
    <3> QED
      BY <1>1, <1>4, <2>1, <3>1, <3>2 DEF Proofs!Answers
  <2>5. CASE user \in users
    <3>1. Promise!Answers(S, user) = Promise!Site(of(user), user)
      BY <2>5, PromisedAnswers
    <3>2. <<u, user>> \in Proofs!Known /\ <<u, user>>[2] = user
      BY <2>1, <2>5
    <3>3. Told(Proofs!Found(Proofs!Resolved(Proofs!Documented(<<u, user>>))))
              \in Promise!Site(of(user), <<u, user>>[2])
      <4>1. of(user) = {r \in Everywhere : <<NormalOf[r.url], r.username>> = <<u, user>>}
        BY <2>2, <2>5
      <4> HIDE DEF of
      <4> QED
        BY <3>2, <4>1, EntryIsPromised
    <3> HIDE DEF answer, of
    <3> QED
      BY <2>4, <2>5, <3>1, <3>2, <3>3
  <2>6. CASE user \notin users /\ 0 \in users
    <3>1. Promise!Answers(S, user) = Promise!Site(of(0), user)
      BY <2>6, PromisedAnswers
    <3>2. <<u, 0>> \in Proofs!Known
      BY <2>1, <2>6
    <3>3. Told(Proofs!Found(Proofs!Resolved(
                   [Proofs!Documented(<<u, 0>>) EXCEPT !.username = user])))
              \in Promise!Site(of(0), user)
      <4>1. of(0) = {r \in Everywhere : <<NormalOf[r.url], r.username>> = <<u, 0>>}
        BY <2>2, <2>6
      <4> HIDE DEF of
      <4> QED
        BY <3>2, <4>1, EntryIsPromised
    <3> HIDE DEF answer, of
    <3> QED
      BY <2>4, <2>6, <3>1, <3>3
  <2>7. CASE users = {}
    BY <1>2, <2>4, <2>7, PromisedAnswers
  <2>8. CASE user # 0 /\ users # {} /\ user \notin users /\ 0 \notin users
    BY <1>2, <2>4, <2>8, PromisedAnswers
  <2>9. CASE user = 0 /\ users # {} /\ 0 \notin users
    <3>1. Promise!Answers(S, user) =
             IF Cardinality(users) = 1
             THEN UNION {Promise!Site(S, v) : v \in users}
             ELSE {[kind |-> "MultipleChoices", names |-> users]}
      BY <2>9, PromisedAnswers
    <3>2. CASE Cardinality(users) = 1
      <4>1. PICK v \in users :
               answer = Proofs!Found(Proofs!Resolved(Proofs!Documented(<<u, v>>)))
        BY <2>4, <2>9, <3>2
      <4>2. users = {v}
        <5> HIDE DEF users
        <5>1. PICK x : users = {x}
          BY <2>1, <3>2, FS_Singleton
        <5> QED
          BY <5>1
      <4>3. S = {r \in Everywhere : <<NormalOf[r.url], r.username>> = <<u, v>>}
        BY <4>2
      <4>4. <<u, v>> \in Proofs!Known /\ <<u, v>>[2] = v
        BY <2>1
      <4>5. Told(answer) \in Promise!Site(S, v)
        <5> HIDE DEF S, answer
        <5> QED
          BY <4>1, <4>3, <4>4, EntryIsPromised
      <4> HIDE DEF answer, users, S
      <4> QED
        BY <3>1, <3>2, <4>1, <4>5
    <3>3. CASE Cardinality(users) # 1
      <4>1. Cardinality(users) > 1
        <5> DEFINE n == Cardinality(users)
        <5>1. n \in Nat /\ n # 0 /\ n # 1
          BY <2>3, <2>9, <3>3
        <5> HIDE DEF n
        <5> QED
          BY <5>1 DEF n
      <4>2. answer.kind = "MultipleChoices" /\ ToSet(answer.names) = users
        BY <2>4, <2>9, <4>1 DEF ToSet
      <4>3. Told(answer) = [kind |-> "MultipleChoices", names |-> users]
        <5> HIDE DEF answer, users
        <5> QED
          BY <4>2 DEF Told
      <4> HIDE DEF answer, users, S
      <4> QED
        BY <3>1, <3>3, <4>3
    <3> QED
      BY <3>2, <3>3
  <2> QED
    BY <2>5, <2>6, <2>7, <2>8, <2>9
<1> QED
  BY <1>3, <1>4

-----------------------------------------------------------------------------
(* The promise *)

(* A table with a URL that is not valid, or with data that disagree *)
LEMMA TableFails ==
    ASSUME ConfigInv, stage = "loaded"
    PROVE  /\ merged = "bad url" => \E r \in Everywhere : NormalOf[r.url] = 0
           /\ merged = "data conflict" =>
                \E r, s \in Everywhere :
                    /\ NormalOf[r.url] = NormalOf[s.url] /\ r.username = s.username
                    /\ None \notin {r.data, s.data} /\ r.data # s.data
<1>1. /\ Proofs!TableInv /\ Len(seen) <= Len(sites)
      /\ \A i \in 1 .. Len(seen) : seen[i] = sites[i]
      /\ merged = "bad url" => \E i \in 1 .. Len(seen) : NormalOf[seen[i].url] = 0
  BY DEF ConfigInv, Fed
<1>2. seen \in Seq(RawSites) /\ sites \in Seq(RawSites)
  BY <1>1 DEF ConfigInv, Gathered, Proofs!TableInv, Proofs!Merged, Proofs!MergeTypeOK
<1>3. DOMAIN seen = 1 .. Len(seen) /\ Everywhere = {sites[i] : i \in 1 .. Len(sites)}
  <2>1. Everywhere = ToSet(sites)
    BY LoadedAll DEF ConfigInv
  <2> QED
    BY <1>2, <2>1 DEF ToSet
<1>4. \A i \in DOMAIN seen : seen[i] \in Everywhere
  <2>1. Len(seen) \in Nat /\ Len(sites) \in Nat
    BY <1>2
  <2>2. \A m, n \in Nat : m <= n => 1 .. m \subseteq 1 .. n
    OBVIOUS
  <2>3. 1 .. Len(seen) \subseteq 1 .. Len(sites)
    BY <1>1, <2>1, <2>2
  <2> QED
    BY <1>1, <1>3, <2>3
<1>5. merged = "data conflict" =>
         \E i, j \in DOMAIN seen :
             /\ Proofs!KeyOf(seen[i]) = Proofs!KeyOf(seen[j])
             /\ None \notin {seen[i].data, seen[j].data} /\ seen[i].data # seen[j].data
  BY <1>1 DEF Proofs!TableInv, Proofs!Merged, Proofs!DataInv, Proofs!Disagree
<1>6. \A r : Proofs!KeyOf(r) = <<NormalOf[r.url], r.username>>
  BY DEF Proofs!KeyOf
<1>7. ASSUME merged = "data conflict"
      PROVE  \E r, s \in Everywhere :
                /\ NormalOf[r.url] = NormalOf[s.url] /\ r.username = s.username
                /\ None \notin {r.data, s.data} /\ r.data # s.data
  <2>1. PICK i, j \in DOMAIN seen :
           /\ Proofs!KeyOf(seen[i]) = Proofs!KeyOf(seen[j])
           /\ None \notin {seen[i].data, seen[j].data} /\ seen[i].data # seen[j].data
    BY <1>5, <1>7
  <2> QED
    BY <1>4, <1>6, <2>1
<1>8. ASSUME merged = "bad url"
      PROVE  \E r \in Everywhere : NormalOf[r.url] = 0
  <2>1. PICK i \in DOMAIN seen : NormalOf[seen[i].url] = 0
    BY <1>1, <1>3, <1>8
  <2>2. seen[i] \in Everywhere
    BY <1>4
  <2> QED
    BY <2>1, <2>2
<1> QED
  BY <1>7, <1>8

LEMMA LoadedIsComplete == ConfigInv /\ stage = "loaded" => Promise!Complete
BY LoadedAll, SameFiles DEF ConfigInv, Gathered, Promise!Complete

(* What the load has come to is so. *)
LEMMA OutcomeHolds == ConfigInv => Outcome = Promise!Loading \/ Promise!Kept(Outcome)
<1> SUFFICES ASSUME ConfigInv PROVE Outcome = Promise!Loading \/ Promise!Kept(Outcome)
  OBVIOUS
<1>1. merged # "merging" => stage = "loaded"
  BY DEF ConfigInv, Fed, TableIsNew
<1>2. CASE stage = "failed"
  <2>1. Outcome = [kind |-> "failed", error |-> error]
    BY <1>1, <1>2 DEF Outcome
  <2>2. /\ error \in {"NotFound", "Other"}
        /\ error = "NotFound" => Missing \in Reached(base)
        /\ error = "Other" => ~ Resolvable(path) \/ \E f \in Included : ~ Usable(f)
    BY <1>2 DEF ConfigInv, Gathered, InductiveInv, NotFoundMeansMissing
  <2>3. CASE error = "NotFound"
    BY <2>1, <2>2, <2>3, SameFiles DEF Promise!Kept, Promise!FailNotFound, Promise!Failure
  <2>4. CASE error = "Other"
    BY <2>1, <2>2, <2>4, SameFiles DEF Promise!Kept, Promise!FailOther, Promise!Failure
  <2> QED
    BY <2>2, <2>3, <2>4
<1>3. CASE merged = "bad url"
  <2>1. Outcome = [kind |-> "failed", error |-> "Other"]
    BY <1>1, <1>3 DEF Outcome
  <2>2. Promise!Complete /\ ~ Promise!UrlsValid
    BY <1>1, <1>3, LoadedIsComplete, TableFails, SameFiles DEF Promise!UrlsValid
  <2> QED
    BY <2>1, <2>2 DEF Promise!Kept, Promise!FailOther, Promise!Failure
<1>4. CASE merged = "data conflict"
  <2>1. Outcome = [kind |-> "panic"]
    BY <1>1, <1>4 DEF Outcome
  <2>2. Promise!Complete /\ ~ Promise!DataAgree
    BY <1>1, <1>4, LoadedIsComplete, TableFails, SameFiles DEF Promise!DataAgree
  <2> QED
    BY <2>1, <2>2 DEF Promise!Kept, Promise!PanicOnData, Promise!Panic
<1>5. CASE merged = "built"
  <2> DEFINE find == [q \in RawUrls \X Table!Users |-> Told(Table!FindSite(q[1], q[2]))]
  <2>1. Outcome = [kind |-> "loaded", find |-> find]
    BY <1>1, <1>5 DEF Outcome
  <2>2. Promise!Complete
    BY <1>1, <1>5, LoadedIsComplete
  <2>3. Promise!UrlsValid /\ Promise!DataAgree
    BY <1>5, EverywhereTells, SameFiles DEF Promise!UrlsValid, Promise!DataAgree
  <2>4. Promise!Users = Table!Users /\ Proofs!Users = Table!Users
    BY DEF Promise!Users, Promise!NoUser, Table!Users, Table!NoUser, Proofs!Users, Proofs!NoUser
  <2>5. ASSUME NEW url \in RawUrls, NEW user \in Promise!Users
        PROVE  find[url, user] \in
                  IF NormalOf[url] = 0 THEN {[kind |-> "Site"]}
                  ELSE Promise!Answers({r \in Promise!Everywhere : NormalOf[r.url] = NormalOf[url]},
                                       user)
    <3>1. find[url, user] = Told(Proofs!FindSite(url, user))
      BY <2>4, SameLookup
    <3> HIDE DEF find
    <3> QED
      BY <1>5, <2>4, <3>1, LookupIsPromised, SameFiles
  <2> HIDE DEF find
  <2>6. Outcome.kind = "loaded" /\ Outcome.find = find
    BY <2>1
  <2> QED
    BY <2>2, <2>3, <2>5, <2>6 DEF Promise!Kept, Promise!Succeed
<1>6. CASE stage # "failed" /\ merged \notin {"bad url", "data conflict", "built"}
  BY <1>6 DEF Outcome, Promise!Loading
<1> QED
  BY <1>2, <1>3, <1>4, <1>5, <1>6

(* The promise is about files that do not change. *)
LEMMA PromiseStays ==
    ASSUME UNCHANGED fixed
    PROVE  /\ Promise!fixed' = Promise!fixed
           /\ Promise!Complete' <=> Promise!Complete
           /\ Promise!UrlsValid' <=> Promise!UrlsValid
           /\ Promise!DataAgree' <=> Promise!DataAgree
           /\ Promise!Everywhere' = Promise!Everywhere
           /\ (Missing \in Promise!Reached(Promise!base))' <=> Missing \in Promise!Reached(Promise!base)
           /\ Promise!Resolvable(path)' <=> Promise!Resolvable(path)
           /\ (\E f \in Promise!Included : ~ Promise!Usable(f))' <=>
                 \E f \in Promise!Included : ~ Promise!Usable(f)
           /\ \A S, user : Promise!Answers(S, user)' = Promise!Answers(S, user)
<1>1. disk' = disk /\ path' = path /\ homeSet' = homeSet
  BY DEF fixed
<1>2. /\ Promise!base' = Promise!base
      /\ Promise!Resolvable(path)' <=> Promise!Resolvable(path)
      /\ \A f : Promise!Readable(f)' <=> Promise!Readable(f)
      /\ \A f : Promise!IncludesOf(f)' = Promise!IncludesOf(f)
      /\ \A f : Promise!Usable(f)' <=> Promise!Usable(f)
  BY <1>1 DEF Promise!base, Promise!Resolvable, Promise!Readable, Promise!IncludesOf,
              Promise!Paths, Promise!Resolved, Promise!Usable, Promise!AllResolvable
<1>3. Promise!Reached(Promise!base)' = Promise!Reached(Promise!base)
  BY <1>2 DEF Promise!Reached
<1>4. Promise!Included' = Promise!Included
  BY <1>3 DEF Promise!Included
<1>5. Promise!Everywhere' = Promise!Everywhere
  BY <1>1, <1>2, <1>4 DEF Promise!Everywhere
<1>6. \A s : Promise!Meanings(s)' = Promise!Meanings(s)
  BY <1>1, <1>4 DEF Promise!Meanings
<1>7. Promise!DefaultSchemas' = Promise!DefaultSchemas
  BY <1>1, <1>4 DEF Promise!DefaultSchemas
<1>8. \A S : Promise!SchemasOf(S)' = Promise!SchemasOf(S)
  BY <1>6, <1>7 DEF Promise!SchemasOf
<1>9. \A S, user : Promise!Site(S, user)' = Promise!Site(S, user)
  BY <1>8 DEF Promise!Site
<1>10. \A S, user : Promise!Answers(S, user)' = Promise!Answers(S, user)
  BY <1>9 DEF Promise!Answers
<1> QED
  BY <1>1, <1>2, <1>3, <1>4, <1>5, <1>10
     DEF Promise!fixed, Promise!Complete, Promise!UrlsValid, Promise!DataAgree

LEMMA KeptStays == UNCHANGED fixed /\ Promise!Kept(Outcome)' => Promise!Kept(Outcome')
<1> SUFFICES ASSUME UNCHANGED fixed, Promise!Kept(Outcome)'
             PROVE  Promise!Kept(Outcome')
  OBVIOUS
<1> USE PromiseStays
<1>1. CASE Promise!Succeed(Outcome)'
  BY <1>1 DEF Promise!Kept, Promise!Succeed
<1>2. CASE Promise!FailNotFound(Outcome)'
  BY <1>2 DEF Promise!Kept, Promise!FailNotFound
<1>3. CASE Promise!FailOther(Outcome)'
  BY <1>3 DEF Promise!Kept, Promise!FailOther
<1>4. CASE Promise!PanicOnData(Outcome)'
  BY <1>4 DEF Promise!Kept, Promise!PanicOnData
<1> QED
  BY <1>1, <1>2, <1>3, <1>4 DEF Promise!Kept

(* A load that has come to an end takes no step. *)
LEMMA EndedStops == ConfigInv /\ ConfigNext => Outcome = Promise!Loading /\ UNCHANGED fixed
<1> SUFFICES ASSUME ConfigInv, ConfigNext
             PROVE  stage # "failed" /\ merged = "merging" /\ UNCHANGED fixed
  BY DEF Outcome, Promise!Loading
<1>1. stage # "loaded" => merged = "merging"
  BY DEF ConfigInv, Fed, TableIsNew
<1>2. CASE Load
  BY <1>1, <1>2 DEF Load, Next, BaseFails, OpenBase, IncludeMissing, AlreadyVisited, IncludeFails,
                    IncludeFile, Merge, Pop, Finish
<1>3. CASE MergeNext
  BY <1>3 DEF MergeNext, loadVars, Table!RejectUrl, Table!InsertSite, Table!MergeSite,
              Table!DataConflict, Table!Consume
<1>4. CASE BuildTable
  BY <1>4 DEF BuildTable, loadVars, Table!Build
<1> QED
  BY <1>2, <1>3, <1>4 DEF ConfigNext

LEMMA OutcomeStays == UNCHANGED configVars => Outcome' = Outcome
<1> SUFFICES ASSUME UNCHANGED configVars PROVE Outcome' = Outcome
  OBVIOUS
<1>1. UNCHANGED <<stage, error, global, merged, site, siteByUrl, siteByKey>>
  BY DEF configVars, vars, tableVars
<1>2. \A url, user : Table!FindSiteRaw(url, user)' = Table!FindSiteRaw(url, user)
  BY <1>1 DEF Table!FindSiteRaw, Table!EndOf, Table!Found, Table!Failed, Table!NoUser
<1>3. \A name : Table!ResolveSchema(name)' = Table!ResolveSchema(name)
  BY <1>1 DEF Table!ResolveSchema
<1>4. Table!DefaultSchema' = Table!DefaultSchema
  BY <1>1, <1>3 DEF Table!DefaultSchema
<1>5. \A url, user : Table!FindSite(url, user)' = Table!FindSite(url, user)
  BY <1>2, <1>3, <1>4 DEF Table!FindSite, Table!Found, Table!Failed, Table!InvalidUrl
<1>6. \A url, user : Told(Table!FindSite(url, user))' = Told(Table!FindSite(url, user))
  BY <1>5 DEF Told, ToSet
<1> QED
  BY <1>1, <1>6 DEF Outcome, Table!Users, Table!NoUser

(* Whatever files include each other in whatever order, a load goes from the *)
(* files to its outcome in the one step that ConfigPromise allows: it finds  *)
(* what any of the files gives, or fails for what some file explains.        *)
THEOREM PromiseIsKept == ConfigSpec => Promise!PromiseSafety
<1>1. ConfigInit => Promise!PromiseInit
  BY DEF ConfigInit, Init, Outcome, Promise!PromiseInit, Promise!Loading
<1>2. ConfigInv /\ ConfigInv' /\ [ConfigNext]_configVars => [Promise!Load]_(Promise!promiseVars)
  <2> SUFFICES ASSUME ConfigInv, ConfigInv', [ConfigNext]_configVars
               PROVE  [Promise!Load]_(Promise!promiseVars)
    OBVIOUS
  <2>1. CASE ConfigNext
    <3>1. Outcome = Promise!Loading /\ UNCHANGED fixed /\ Promise!fixed' = Promise!fixed
      BY <2>1, EndedStops, PromiseStays
    <3>2. (Outcome = Promise!Loading)' \/ Promise!Kept(Outcome)'
      BY OutcomeHolds, PTL
    <3>3. Promise!Loading' = Promise!Loading
      BY DEF Promise!Loading
    <3>4. CASE Outcome' = Promise!Loading
      BY <3>1, <3>4 DEF Promise!promiseVars
    <3>5. CASE Outcome' # Promise!Loading
      BY <3>1, <3>2, <3>3, <3>5, KeptStays DEF Promise!Load
    <3> QED
      BY <3>4, <3>5
  <2>2. CASE UNCHANGED configVars
    <3>1. Promise!fixed' = Promise!fixed /\ Outcome' = Outcome
      BY <2>2, OutcomeStays, PromiseStays DEF configVars, vars, fixed
    <3> QED
      BY <3>1 DEF Promise!promiseVars
  <2> QED
    BY <2>1, <2>2
<1> QED
  BY <1>1, <1>2, ConfigInvHolds, PTL DEF ConfigSpec, Promise!PromiseSafety

-----------------------------------------------------------------------------
(* The last file that gives a schema *)

LEMMA LastGivenIsDocumented ==
    ASSUME ConfigInv, merged = "built", NEW i \in DOMAIN seen, seen[i].schema # None,
           \A j \in DOMAIN seen :
               Proofs!KeyOf(seen[j]) = Proofs!KeyOf(seen[i]) /\ seen[j].schema # None => j <= i
    PROVE  Proofs!Documented(Proofs!KeyOf(seen[i])).schema = seen[i].schema
<1> DEFINE k == Proofs!KeyOf(seen[i])
           some == {j \in Proofs!Given(k) : seen[j].schema # None}
<1>1. /\ Proofs!TableInv
      /\ \A j \in DOMAIN seen : NormalOf[seen[j].url] # 0
      /\ DOMAIN seen \subseteq Nat
  <2>1. Proofs!TableInv
    BY DEF ConfigInv, Fed, TableIsNew
  <2>2. seen \in Seq(RawSites)
    BY <2>1 DEF Proofs!TableInv, Proofs!Merged, Proofs!MergeTypeOK
  <2> QED
    BY <2>1, <2>2, TableFacts
<1>2. Proofs!Given(k) = {j \in DOMAIN seen : Proofs!KeyOf(seen[j]) = k}
  BY <1>1 DEF Proofs!Given, Proofs!InvalidUrl
<1>3. some \in SUBSET Nat /\ i \in some /\ \A j \in some : j <= i
  BY <1>1, <1>2
<1>4. Proofs!Documented(k).schema =
         IF some = {} THEN None ELSE seen[Proofs!Max(some)].schema
  BY DEF Proofs!Documented, Proofs!LastSome, Proofs!SchemaOf
<1> HIDE DEF some, k
<1>5. Proofs!Max(some) = i
  BY <1>3, MaxIs, SameLibrary
<1> QED
  BY <1>3, <1>4, <1>5 DEF k

LEMMA LastFileFromInv == ConfigInv => LastFileGivesSchema
<1> SUFFICES ASSUME ConfigInv, merged = "built", NEW url \in RawUrls, NEW user \in Table!Users,
                    {r.schema : r \in {s \in ToSet(sites) :
                        Table!KeyOf(s) = <<NormalOf[url], user>>}} \ {None} # {}
             PROVE  \E schema \in LastSchemaGiven(<<NormalOf[url], user>>) :
                      Table!FindSite(url, user).site.schema =
                          (IF \E f \in visited : schema \in DOMAIN disk[f].global.alias
                           THEN LET SaysAlias(g) == schema \in DOMAIN g.alias
                                IN  disk[LastSaying(SaysAlias)].global.alias[schema]
                           ELSE schema)
  BY DEF LastFileGivesSchema
<1> DEFINE u == NormalOf[url]
           k == <<u, user>>
<1>1. /\ stage = "loaded" /\ seen \in Seq(RawSites)
      /\ DOMAIN sites = DOMAIN seen /\ DOMAIN seen = 1 .. Len(seen) /\ Len(seen) \in Nat
      /\ \A i \in DOMAIN seen : sites[i] = seen[i]
      /\ Proofs!TableInv
  <2>1. stage = "loaded" /\ Proofs!TableInv /\ Len(seen) = Len(sites)
        /\ \A i \in 1 .. Len(seen) : seen[i] = sites[i]
    BY DEF ConfigInv, Fed, TableIsNew
  <2>2. seen \in Seq(RawSites) /\ sites \in Seq(RawSites)
    BY <2>1 DEF ConfigInv, Gathered, Proofs!TableInv, Proofs!Merged, Proofs!MergeTypeOK
  <2>3. DOMAIN seen = 1 .. Len(seen) /\ DOMAIN sites = 1 .. Len(sites) /\ Len(seen) \in Nat
    BY <2>2
  <2> QED
    BY <2>1, <2>2, <2>3
<1>2. \A r : Table!KeyOf(r) = <<NormalOf[r.url], r.username>>
             /\ Proofs!KeyOf(r) = <<NormalOf[r.url], r.username>>
  BY DEF Table!KeyOf, Proofs!KeyOf
<1> DEFINE some == {i \in DOMAIN seen : Proofs!KeyOf(seen[i]) = k /\ seen[i].schema # None}
<1>3. PICK i \in some : \A j \in some : j <= i
  <2>1. some # {}
    <3>1. PICK r \in ToSet(sites) : Table!KeyOf(r) = k /\ r.schema # None
      OBVIOUS
    <3>2. PICK j \in DOMAIN sites : sites[j] = r
      BY DEF ToSet
    <3> QED
      BY <1>1, <1>2, <3>1, <3>2
  <2>2. some \in SUBSET (1 .. Len(seen))
    BY <1>1
  <2> HIDE DEF some
  <2> QED
    BY <1>1, <2>1, <2>2, GreatestExists
<1> DEFINE schema == seen[i].schema
<1>4. schema \in LastSchemaGiven(k)
  <2>1. PICK src \in [DOMAIN sites -> DOMAIN order] :
           /\ \A m, n \in DOMAIN sites : m <= n => src[m] <= src[n]
           /\ \A n \in DOMAIN sites : sites[n] \in ToSet(disk[order[src[n]]].site)
           /\ \A n \in DOMAIN order : \A r \in ToSet(disk[order[n]].site) :
                 \E m \in DOMAIN sites : src[m] = n /\ sites[m] = r
    BY DEF ConfigInv, InOrder, Comes
  <2> DEFINE giving == {n \in DOMAIN order :
            \E r \in ToSet(disk[order[n]].site) : Table!KeyOf(r) = k /\ r.schema # None}
  <2>2. giving \in SUBSET Nat
    BY DEF ConfigInv, InductiveInv, TypeOK
  <2>3. i \in DOMAIN sites /\ sites[i] = seen[i] /\ Table!KeyOf(sites[i]) = k
        /\ sites[i].schema # None /\ src[i] \in DOMAIN order
    BY <1>1, <1>2, <1>3, <2>1
  <2>4. src[i] \in giving
    BY <2>1, <2>3
  <2>5. ASSUME NEW n \in giving
        PROVE  n <= src[i]
    <3>1. PICK m \in DOMAIN sites : src[m] = n /\ Table!KeyOf(sites[m]) = k /\ sites[m].schema # None
      BY <2>1
    <3>2. m \in some
      BY <1>1, <1>2, <3>1
    <3>3. m <= i
      BY <1>3, <3>2
    <3> QED
      BY <2>1, <2>3, <3>1, <3>3
  <2> HIDE DEF giving
  <2>6. Max(giving) = src[i]
    BY <2>2, <2>4, <2>5, MaxIs
  <2>7. sites[i] \in ToSet(disk[order[Max(giving)]].site) /\ sites[i].schema = schema
    BY <2>1, <2>3, <2>6
  <2>8. LastSchemaGiven(k) =
          {r.schema : r \in {s \in ToSet(disk[order[Max(giving)]].site) : Table!KeyOf(s) = k}}
    BY DEF LastSchemaGiven, giving
  <2> QED
    BY <2>3, <2>7, <2>8
<1>5. Table!FindSite(url, user).site.schema = Proofs!ResolveSchema(schema)
  <2>1. /\ Proofs!KeyOf(seen[i]) = k /\ schema # None
        /\ Proofs!Documented(k).schema = schema
    BY <1>3, LastGivenIsDocumented
  <2>2. k \in Proofs!Known /\ u # 0
    BY <1>1, <1>2, <1>3, TableFacts
  <2>3. user \in Proofs!Users
    BY DEF Proofs!Users, Proofs!NoUser, Table!Users, Table!NoUser
  <2>4. Proofs!FindSite(url, user) = Proofs!Found(Proofs!Resolved(Proofs!Documented(k)))
    BY <1>1, <2>2, <2>3, TableFacts DEF Proofs!Answers
  <2>5. Told(Proofs!FindSite(url, user)).schema = Proofs!ResolveSchema(schema)
    <3> DEFINE d == Proofs!Documented(k)
    <3>1. Told(Proofs!Found(Proofs!Resolved(d))) =
            [kind |-> "site", username |-> d.username,
             schema |-> IF d.schema # None THEN Proofs!ResolveSchema(d.schema)
                        ELSE Proofs!DefaultSchema,
             increment |-> d.increment]
      BY EntryIsTold
    <3> HIDE DEF schema, k, d
    <3>2. d.schema = schema /\ schema # None
      BY <2>1 DEF d
    <3>3. Told(Proofs!Found(Proofs!Resolved(d))).schema =
            IF d.schema # None THEN Proofs!ResolveSchema(d.schema) ELSE Proofs!DefaultSchema
      BY <3>1
    <3> QED
      BY <2>4, <3>2, <3>3 DEF d
  <2>6. \A x : Told(Proofs!Found(x)).schema = Proofs!Found(x).site.schema
    BY DEF Told, Proofs!Found
  <2> QED
    BY <2>4, <2>5, <2>6, SameLookup
<1>6. /\ DOMAIN global.alias = UNION {DOMAIN disk[f].global.alias : f \in visited}
      /\ schema \in DOMAIN global.alias =>
           global.alias[schema] =
              LET SaysAlias(g) == schema \in DOMAIN g.alias
              IN  disk[LastSaying(SaysAlias)].global.alias[schema]
  BY <1>1, LastFileFromWins DEF ConfigInv, LastFileWins
<1> HIDE DEF schema
<1> QED
  BY <1>4, <1>5, <1>6 DEF Proofs!ResolveSchema

(* The schema of a site is the one the last merged file that gives any gives *)
(* it, its alias being what the last file says, for any files.               *)
THEOREM LastFileGivesSchemaCorrect == ConfigSpec => []LastFileGivesSchema
BY ConfigInvHolds, LastFileFromInv, PTL
================================================================================

--------------------------- MODULE ConfigInit_proofs ---------------------------
(* Proofs about from_or_init, for any set of runs, places and environments    *)
(* and any number of edits: a run only writes the default path after it saw   *)
(* no file there, an empty file is there only while a run writes it, a        *)
(* missing include is not reported as a missing configuration, and runs in    *)
(* one environment use one place.                                             *)
EXTENDS ConfigInit, TLAPS

(* A run on its way to fs::write was given no path and saw no file. *)
SawNoFile ==
    \A r \in Runs :
        /\ pc[r] \in {"dir", "exists", "create dir", "open"} => ~ env[r].given
        /\ pc[r] \in {"create dir", "open"} => absentFor[r]

(* A run without a given path that goes on has a place to look in. *)
HasPlace ==
    \A r \in Runs :
        /\ pc[r] \in {"exists", "create dir", "open"} => place[r] # Unset
        /\ pc[r] = "load" /\ ~ env[r].given => place[r] # Unset

(* The run that will fill an empty file still has that file open. *)
EmptyIsOpen ==
    \A p \in Places :
        file[p] = "empty" /\ ~ halfWritten => \E r \in Runs : pc[r] = "write" /\ opened[r] = p

(* The place that a run chose is the one it would choose now. *)
ChoiceStands ==
    edits = 0 /\ SameEnvironment =>
        \A r \in Runs : place[r] # Unset => place[r] = Choice(r)

InductiveInv ==
    /\ TypeOK
    /\ SawNoFile
    /\ HasPlace
    /\ EmptyIsOpen
    /\ ChoiceStands
    /\ DanglingIsNotMissing

-----------------------------------------------------------------------------
(* What the operators give *)

LEMMA LoadedType ==
    ASSUME NEW content \in Contents \cup {Absent}
    PROVE  Loaded(content) \in Failures \cup Contents
BY DEF Loaded, Failures, Contents, UserContents, Absent

LEMMA OneMoreEdit ==
    ASSUME NEW e \in 0 .. MaxEdits, e < MaxEdits
    PROVE  e + 1 \in 0 .. MaxEdits /\ e + 1 # 0
BY BoundAssumption

(* A place is chosen by the environment and by the directory in the old one. *)
LEMMA ChoiceType ==
    ASSUME TypeOK, NEW r \in Runs
    PROVE  Choice(r) \in Places \cup {Unset}
BY DEF TypeOK, Environments, Choice, OldHome, NewHome

LEMMA HasPlaceInv ==
    ASSUME TypeOK, HasPlace, [Next]_vars
    PROVE  HasPlace'
<1> USE DEF TypeOK, HasPlace
<1>1. ASSUME NEW r \in Runs, ChooseDir(r)
      PROVE  HasPlace'
  BY <1>1 DEF ChooseDir, Goto, Return
<1>2. ASSUME NEW r \in Runs, LoadDefault(r)
      PROVE  HasPlace'
  BY <1>2 DEF LoadDefault, Goto, Return
<1>3. ASSUME NEW r \in Runs, Step(r), ~ ChooseDir(r), ~ LoadDefault(r)
      PROVE  HasPlace'
  <2>1. UNCHANGED <<env, place>>
    BY <1>3 DEF Step, LoadGiven, CheckExists, Checks, ExistsFails, CreateDir, OpenFile, OpenFails,
                WriteFile, WriteFails, Kill
  <2>2. \/ \E to \in {"done", "write"} : pc' = [pc EXCEPT ![r] = to]
        \/ /\ pc[r] \in {"exists", "create dir"}
           /\ \E to \in {"create dir", "open"} : pc' = [pc EXCEPT ![r] = to]
    BY <1>3 DEF Step, LoadGiven, CheckExists, Checks, ExistsFails, CreateDir, OpenFile, OpenFails,
                WriteFile, WriteFails, Kill, Goto, Return
  <2> QED
    BY ZenonT(30), <2>1, <2>2
<1>4. CASE Edit \/ Move \/ UNCHANGED vars
  BY <1>4 DEF Edit, Move, vars
<1> QED
  BY <1>1, <1>2, <1>3, <1>4 DEF Next

(* The type invariant, one action at a time; what a file holds has its type *)
(* because a run that loads has a place.                                    *)
LEMMA TypeAndPlace == Spec => [](TypeOK /\ HasPlace)
<1>1. Init => TypeOK /\ HasPlace
  <2> SUFFICES ASSUME Init
               PROVE  TypeOK /\ HasPlace
    OBVIOUS
  <2>1. /\ absentFor \in [Runs -> BOOLEAN]
        /\ halfWritten \in BOOLEAN
        /\ env \in [Runs -> Environments]
    BY StartsAssumption, Zenon DEF Init
  <2>2. /\ file \in [Places -> Contents \cup {Absent}]
        /\ dir \in [Places -> DirStates]
    BY DEF Init
  <2>3. pc \in [Runs -> {"dir", "load", "exists", "create dir", "open", "write", "done"}]
    BY DEF Init
  <2>4. /\ place \in [Runs -> Places \cup {Unset}]
        /\ opened \in [Runs -> Places \cup {Unset}]
        /\ result \in [Runs -> {"none", "killed"} \cup Failures \cup Contents]
        /\ edits \in 0 .. MaxEdits
    BY BoundAssumption DEF Init
  <2>5. HasPlace
    BY DEF Init, HasPlace
  <2> QED
    BY <2>1, <2>2, <2>3, <2>4, <2>5 DEF TypeOK
<1>2. TypeOK /\ HasPlace /\ [Next]_vars => TypeOK'
  <2> SUFFICES ASSUME TypeOK, HasPlace, [Next]_vars
               PROVE  TypeOK'
    OBVIOUS
  <2> USE DEF TypeOK, disk
  <2>1. ASSUME NEW r \in Runs, ChooseDir(r)
        PROVE  TypeOK'
    BY <2>1, ChoiceType DEF ChooseDir, Goto, Return, Failures
  <2>2. ASSUME NEW r \in Runs, LoadDefault(r)
        PROVE  TypeOK'
    <3>1. result' \in [Runs -> {"none", "killed"} \cup Failures \cup Contents]
      <4>1. CASE dir[place[r]] = "hidden"
        BY <2>2, <4>1 DEF LoadDefault, Return, Failures
      <4>2. CASE Loaded(Here(r)) = "NotFound" /\ dir[place[r]] # "hidden"
        BY <2>2, <4>2 DEF LoadDefault, Goto
      <4>3. CASE Loaded(Here(r)) # "NotFound" /\ dir[place[r]] # "hidden"
        <5>1. result' = [result EXCEPT ![r] = Loaded(Here(r))]
          BY <2>2, <4>3 DEF LoadDefault, Return
        <5>2. Loaded(Here(r)) \in Failures \cup Contents
          <6>1. place[r] \in Places
            BY <2>2 DEF LoadDefault, HasPlace
          <6> QED
            BY <6>1, LoadedType DEF Here
        <5> QED
          BY <5>1, <5>2
      <4> QED
        BY <4>1, <4>2, <4>3
    <3>2. /\ absentFor' \in [Runs -> BOOLEAN]
          /\ pc' \in [Runs -> {"dir", "load", "exists", "create dir", "open", "write", "done"}]
          /\ UNCHANGED <<env, disk, place, halfWritten>>
      BY <2>2 DEF LoadDefault, Goto, Return, LookedFor
    <3> QED
      BY <3>1, <3>2
  <2>3. ASSUME NEW r \in Runs, LoadGiven(r)
        PROVE  TypeOK'
    <3>1. PICK content \in Contents \cup {Absent} : Return(r, Loaded(content))
      BY <2>3 DEF LoadGiven
    <3> QED
      BY <2>3, <3>1, LoadedType DEF LoadGiven, Return
  <2>4. ASSUME NEW r \in Runs, CheckExists(r)
        PROVE  TypeOK'
    BY <2>4 DEF CheckExists, Checks, Goto, Return, LookedFor, Failures
  <2>5. ASSUME NEW r \in Runs, CreateDir(r)
        PROVE  TypeOK'
    BY <2>5 DEF CreateDir, Goto, DirStates
  <2>6. ASSUME NEW r \in Runs, OpenFile(r)
        PROVE  TypeOK'
    BY <2>6 DEF OpenFile, Goto, Contents
  <2>7. ASSUME NEW r \in Runs, OpenFails(r)
        PROVE  TypeOK'
    BY <2>7 DEF OpenFails, Return, Failures
  <2>8. ASSUME NEW r \in Runs, WriteFile(r)
        PROVE  TypeOK'
    BY <2>8 DEF WriteFile, Return, Contents
  <2>9. ASSUME NEW r \in Runs, WriteFails(r)
        PROVE  TypeOK'
    BY <2>9 DEF WriteFails, Return, Failures
  <2>10. ASSUME NEW r \in Runs, Kill(r)
         PROVE  TypeOK'
    BY <2>10 DEF Kill, Return
  <2>14. ASSUME NEW r \in Runs, ExistsFails(r)
         PROVE  TypeOK'
    BY <2>14 DEF ExistsFails, Return, Failures
  <2>11. CASE Edit
    <3>1. /\ opened' \in [Runs -> Places \cup {Unset}]
          /\ file' \in [Places -> Contents \cup {Absent}]
      BY <2>11 DEF Edit, OpenedMoves, Contents
    <3>2. edits' \in 0 .. MaxEdits
      BY <2>11, OneMoreEdit DEF Edit
    <3>3. UNCHANGED <<env, dir, pc, place, result, absentFor, halfWritten>>
      BY <2>11 DEF Edit
    <3> QED
      BY <3>1, <3>2, <3>3
  <2>12. CASE Move
    <3>1. PICK from, to \in Places :
               /\ file' = [file EXCEPT ![from] = Absent, ![to] = file[from]]
               /\ dir' = [dir EXCEPT ![from] = "creatable", ![to] = "exists"]
               /\ opened' = [r \in Runs |-> CASE opened[r] = from -> to
                                              [] opened[r] = to -> Unset
                                              [] OTHER -> opened[r]]
      BY <2>12 DEF Move
    <3>4. opened' \in [Runs -> Places \cup {Unset}]
      <4>1. \A r \in Runs : opened[r] \in Places \cup {Unset}
        OBVIOUS
      <4> QED
        BY <3>1, <4>1
    <3>5. file' \in [Places -> Contents \cup {Absent}]
      BY <3>1
    <3>6. dir' \in [Places -> DirStates]
      BY <3>1 DEF DirStates
    <3>2. edits' \in 0 .. MaxEdits
      BY <2>12, OneMoreEdit DEF Move
    <3>3. UNCHANGED <<env, pc, place, result, absentFor, halfWritten>>
      BY <2>12 DEF Move
    <3> QED
      BY <3>2, <3>3, <3>4, <3>5, <3>6
  <2>13. CASE UNCHANGED vars
    BY <2>13 DEF vars
  <2> QED
    BY <2>1, <2>2, <2>3, <2>4, <2>5, <2>6, <2>7, <2>8, <2>9, <2>10, <2>11, <2>12, <2>13,
       <2>14 DEF Next, Step
<1> QED
  BY <1>1, <1>2, HasPlaceInv, PTL DEF Spec

(* Every variable has its type. *)
THEOREM TypeCorrect == Spec => []TypeOK
BY TypeAndPlace, PTL

-----------------------------------------------------------------------------
(* The inductive invariant, one part at a time *)

LEMMA SawNoFileInv ==
    ASSUME TypeOK, SawNoFile, [Next]_vars
    PROVE  SawNoFile'
<1> USE DEF TypeOK, SawNoFile
<1>1. ASSUME NEW r \in Runs, ChooseDir(r)
      PROVE  SawNoFile'
  BY <1>1 DEF ChooseDir, Goto, Return
<1>2. ASSUME NEW r \in Runs, LoadDefault(r)
      PROVE  SawNoFile'
  BY <1>2 DEF LoadDefault, Goto, Return, LookedFor
<1>3. ASSUME NEW r \in Runs, CheckExists(r)
      PROVE  SawNoFile'
  BY <1>3 DEF CheckExists, Checks, Goto, Return, LookedFor
<1>4. ASSUME NEW r \in Runs, CreateDir(r)
      PROVE  SawNoFile'
  BY <1>4 DEF CreateDir, Goto
<1>5. ASSUME NEW r \in Runs,
             \/ LoadGiven(r) \/ ExistsFails(r) \/ OpenFile(r) \/ OpenFails(r)
             \/ WriteFile(r) \/ WriteFails(r) \/ Kill(r)
      PROVE  SawNoFile'
  <2>1. /\ UNCHANGED <<env, absentFor>>
        /\ \/ pc' = [pc EXCEPT ![r] = "done"]
           \/ pc' = [pc EXCEPT ![r] = "write"]
    BY <1>5 DEF LoadGiven, ExistsFails, OpenFile, OpenFails, WriteFile, WriteFails, Kill, Goto,
                Return
  <2> QED
    BY <2>1
<1>6. CASE Edit \/ Move \/ UNCHANGED vars
  BY <1>6 DEF Edit, Move, vars
<1> QED
  BY <1>1, <1>2, <1>3, <1>4, <1>5, <1>6 DEF Next, Step

LEMMA EmptyIsOpenInv ==
    ASSUME TypeOK, EmptyIsOpen, [Next]_vars
    PROVE  EmptyIsOpen'
<1> USE DEF TypeOK, EmptyIsOpen, disk
<1>1. ASSUME NEW r \in Runs, pc[r] # "write",
             UNCHANGED <<file, opened, halfWritten>>, NEW to,
             pc' = [pc EXCEPT ![r] = to]
      PROVE  EmptyIsOpen'
  BY <1>1
<1>2. ASSUME NEW r \in Runs,
             \/ ChooseDir(r) \/ LoadDefault(r) \/ LoadGiven(r) \/ CheckExists(r)
             \/ ExistsFails(r) \/ CreateDir(r) \/ OpenFails(r)
      PROVE  EmptyIsOpen'
  <2>1. pc[r] # "write" /\ UNCHANGED <<file, opened, halfWritten>>
    BY <1>2 DEF ChooseDir, LoadDefault, LoadGiven, CheckExists, Checks, ExistsFails, CreateDir,
                OpenFails
  <2>2. \E to : pc' = [pc EXCEPT ![r] = to]
    BY <1>2 DEF ChooseDir, LoadDefault, LoadGiven, CheckExists, Checks, ExistsFails, CreateDir,
                OpenFails,
                Goto, Return
  <2> QED
    BY <1>1, <2>1, <2>2
<1>3. ASSUME NEW r \in Runs, OpenFile(r)
      PROVE  EmptyIsOpen'
  <2>1. /\ pc[r] = "open"
        /\ pc' = [pc EXCEPT ![r] = "write"]
        /\ opened' = [opened EXCEPT ![r] = place[r]]
        /\ file' = [file EXCEPT ![place[r]] = "empty"]
        /\ halfWritten' = halfWritten
    BY <1>3 DEF OpenFile, Goto
  <2>2. ASSUME NEW p \in Places, file'[p] = "empty", ~ halfWritten'
        PROVE  \E s \in Runs : pc'[s] = "write" /\ opened'[s] = p
    <3>1. CASE p = place[r]
      BY <2>1, <3>1
    <3>2. CASE p # place[r]
      <4>1. PICK s \in Runs : pc[s] = "write" /\ opened[s] = p
        BY <2>1, <2>2, <3>2
      <4> QED
        BY <2>1, <4>1
    <3> QED
      BY <3>1, <3>2
  <2> QED
    BY <2>2
<1>4. ASSUME NEW r \in Runs, WriteFile(r)
      PROVE  EmptyIsOpen'
  <2>1. /\ pc' = [pc EXCEPT ![r] = "done"]
        /\ UNCHANGED <<opened, halfWritten>>
    BY <1>4 DEF WriteFile, Return
  <2>2. \A p \in Places : IF opened[r] = p THEN file'[p] # "empty" ELSE file'[p] = file[p]
    BY <1>4 DEF WriteFile, Overwritten
  <2> QED
    BY <2>1, <2>2
<1>5. ASSUME NEW r \in Runs, WriteFails(r)
      PROVE  EmptyIsOpen'
  BY <1>5 DEF WriteFails
<1>6. ASSUME NEW r \in Runs, Kill(r)
      PROVE  EmptyIsOpen'
  <2>1. /\ pc' = [pc EXCEPT ![r] = "done"]
        /\ UNCHANGED <<file, opened>>
        /\ halfWritten' = (halfWritten \/ pc[r] = "write")
    BY <1>6 DEF Kill, Return
  <2> QED
    BY <2>1
<1>7. CASE Edit
  <2>1. PICK p \in Places, content \in UserContents \cup {Absent}, replaced \in BOOLEAN :
             /\ file' = [file EXCEPT ![p] = content]
             /\ opened' = IF replaced THEN OpenedMoves(p, Unset) ELSE opened
    BY <1>7 DEF Edit
  <2>2. content # "empty" /\ UNCHANGED <<pc, halfWritten>>
    BY <1>7 DEF Edit, UserContents, Absent
  <2> QED
    BY <2>1, <2>2 DEF OpenedMoves
<1>8. CASE Move
  <2>1. PICK from, to \in Places :
             /\ from # to
             /\ file' = [file EXCEPT ![from] = Absent, ![to] = file[from]]
             /\ opened' = [r \in Runs |-> CASE opened[r] = from -> to
                                            [] opened[r] = to -> Unset
                                            [] OTHER -> opened[r]]
    BY ZenonT(30), <1>8 DEF Move
  <2>2. UNCHANGED <<pc, halfWritten>>
    BY <1>8 DEF Move
  <2>3. ASSUME NEW p \in Places, file'[p] = "empty", ~ halfWritten'
        PROVE  \E s \in Runs : pc'[s] = "write" /\ opened'[s] = p
    <3>1. p # from /\ file[IF p = to THEN from ELSE p] = "empty"
      BY <2>1, <2>3 DEF Absent
    <3>2. PICK s \in Runs : pc[s] = "write" /\ opened[s] = IF p = to THEN from ELSE p
      BY <2>2, <2>3, <3>1
    <3> QED
      BY <2>1, <2>2, <3>1, <3>2
  <2> QED
    BY <2>3
<1>9. CASE UNCHANGED vars
  BY <1>9 DEF vars
<1> QED
  BY <1>2, <1>3, <1>4, <1>5, <1>6, <1>7, <1>8, <1>9 DEF Next, Step

(* Only creating the directory of a place could change what is chosen: and   *)
(* the deprecated place is only created in by runs that chose it already.    *)
LEMMA ChoiceStandsInv ==
    ASSUME TypeOK, HasPlace, ChoiceStands, [Next]_vars
    PROVE  ChoiceStands'
<1> USE DEF TypeOK, disk
<1>1. SUFFICES ASSUME edits' = 0, SameEnvironment'
               PROVE  \A s \in Runs : place'[s] # Unset => place'[s] = Choice(s)'
  BY DEF ChoiceStands
<1>2. env' = env
  BY DEF Next, Step, ChooseDir, LoadDefault, LoadGiven, CheckExists, Checks, ExistsFails,
         CreateDir, OpenFile,
         OpenFails, WriteFile, WriteFails, Kill, Edit, Move, vars
<1>3. ASSUME edits' = edits
      PROVE  \A s \in Runs : place[s] # Unset => place[s] = Choice(s)
  BY <1>1, <1>2, <1>3 DEF ChoiceStands, SameEnvironment
<1>4. ASSUME NEW r \in Runs, ChooseDir(r)
      PROVE  \A s \in Runs : place'[s] # Unset => place'[s] = Choice(s)'
  <2>1. UNCHANGED <<edits, dir, env>> /\ place' = [place EXCEPT ![r] = Choice(r)]
    BY <1>4 DEF ChooseDir
  <2>2. \A s \in Runs : Choice(s)' = Choice(s)
    BY <2>1 DEF Choice, OldHome, NewHome
  <2> QED
    BY <1>3, <2>1, <2>2
<1>5. ASSUME NEW r \in Runs, CreateDir(r)
      PROVE  \A s \in Runs : place'[s] # Unset => place'[s] = Choice(s)'
  <2>1. /\ UNCHANGED <<edits, place>>
        /\ pc[r] = "create dir"
        /\ dir' = [dir EXCEPT ![place[r]] = IF @ = "creatable" THEN "exists" ELSE @]
    BY <1>5 DEF CreateDir
  <2>2. place[r] # Unset /\ place[r] = Choice(r)
    BY <1>3, <2>1 DEF HasPlace
  <2>3. \A s \in Runs : OldHome(s) = OldHome(r) /\ NewHome(s) = NewHome(r)
    BY <1>1, <1>2 DEF SameEnvironment, OldHome, NewHome
  <2>4. \A s \in Runs : OldHome(s)' = OldHome(s) /\ NewHome(s)' = NewHome(s)
    BY <1>2 DEF OldHome, NewHome
  <2>5. \A p \in Places : p # place[r] => dir'[p] = dir[p]
    BY <2>1
  <2>6. OldHome(r) \in Places \cup {Unset}
    BY DEF OldHome, Environments
  <2>7. Choice(r)' = Choice(r)
    <3>1. CASE place[r] = OldHome(r)
      <4>1. dir[OldHome(r)] \in {"exists", "hidden"} => dir'[OldHome(r)] \in {"exists", "hidden"}
        BY <2>1, <2>2, <2>6, <3>1
      <4>2. Choice(r)' = OldHome(r) \/ Choice(r)' = NewHome(r)
        BY <2>4 DEF Choice
      <4> QED
        BY <2>2, <2>4, <3>1, <4>1, <4>2 DEF Choice
    <3>2. CASE place[r] # OldHome(r)
      BY <2>2, <2>4, <2>5, <2>6, <3>2 DEF Choice
    <3> QED
      BY <3>1, <3>2
  <2>8. \A s \in Runs : Choice(s)' = Choice(r)' /\ Choice(s) = Choice(r)
    BY <2>3, <2>4 DEF Choice
  <2> QED
    BY <1>3, <2>1, <2>7, <2>8
<1>6. ASSUME NEW r \in Runs, Step(r), ~ ChooseDir(r), ~ CreateDir(r)
      PROVE  UNCHANGED <<edits, dir, place>>
  BY <1>6 DEF Step, LoadDefault, LoadGiven, CheckExists, Checks, ExistsFails, OpenFile, OpenFails,
              WriteFile, WriteFails, Kill
<1>7. CASE UNCHANGED <<edits, dir, place>>
  <2>1. \A s \in Runs : Choice(s)' = Choice(s)
    BY <1>2, <1>7 DEF Choice, OldHome, NewHome
  <2> QED
    BY <1>3, <1>7, <2>1
<1>8. ~ (Edit \/ Move)
  BY <1>1, OneMoreEdit DEF Edit, Move
<1> QED
  BY <1>4, <1>5, <1>6, <1>7, <1>8 DEF Next, vars

LEMMA DanglingInv ==
    ASSUME TypeOK, SawNoFile, DanglingIsNotMissing, [Next]_vars
    PROVE  DanglingIsNotMissing'
<1> USE DEF TypeOK, DanglingIsNotMissing
<1>1. /\ env' = env
      /\ \A r \in Runs : absentFor[r] => absentFor'[r]
  BY DEF Next, Step, ChooseDir, LoadDefault, LoadGiven, CheckExists, Checks, ExistsFails,
         CreateDir, OpenFile,
         OpenFails, WriteFile, WriteFails, Kill, Edit, Move, LookedFor, vars
<1>2. ASSUME NEW r \in Runs, OpenFails(r)
      PROVE  DanglingIsNotMissing'
  <2>1. absentFor[r] /\ \E what : result' = [result EXCEPT ![r] = what]
    BY <1>2 DEF OpenFails, Return, SawNoFile
  <2> QED
    BY <1>1, <2>1
<1>3. ASSUME NEW r \in Runs, LoadGiven(r)
      PROVE  DanglingIsNotMissing'
  <2>1. env[r].given /\ \E what : result' = [result EXCEPT ![r] = what]
    BY <1>3 DEF LoadGiven, Return
  <2> QED
    BY <1>1, <2>1
<1>4. ASSUME NEW r \in Runs, Step(r), ~ OpenFails(r), ~ LoadGiven(r)
      PROVE  DanglingIsNotMissing'
  <2>1. \/ result' = result
        \/ \E what : what # "NotFound" /\ result' = [result EXCEPT ![r] = what]
    BY <1>4 DEF Step, ChooseDir, LoadDefault, CheckExists, Checks, ExistsFails, CreateDir, OpenFile,
                WriteFile, WriteFails, Kill, Goto, Return
  <2> QED
    BY <1>1, <2>1
<1>5. CASE Edit \/ Move \/ UNCHANGED vars
  BY <1>1, <1>5 DEF Edit, Move, vars
<1> QED
  BY <1>2, <1>3, <1>4, <1>5 DEF Next

(* The inductive invariant holds of the first state and of every step. *)
THEOREM InductiveInvCorrect == Spec => []InductiveInv
<1>1. Init /\ TypeOK /\ HasPlace => InductiveInv
  <2> SUFFICES ASSUME Init, TypeOK, HasPlace
               PROVE  InductiveInv
    OBVIOUS
  <2>1. SawNoFile
    BY DEF Init, TypeOK, SawNoFile
  <2>2. EmptyIsOpen
    BY DEF Init, EmptyIsOpen, Contents, UserContents, Absent
  <2>3. ChoiceStands /\ DanglingIsNotMissing
    BY DEF Init, ChoiceStands, DanglingIsNotMissing
  <2> QED
    BY <2>1, <2>2, <2>3 DEF InductiveInv
<1>2. (TypeOK /\ HasPlace)' /\ InductiveInv /\ [Next]_vars => InductiveInv'
  BY SawNoFileInv, EmptyIsOpenInv, ChoiceStandsInv, DanglingInv DEF InductiveInv
<1> QED
  BY <1>1, <1>2, TypeAndPlace, PTL DEF Spec

(* A run only writes the default path, and only after it saw no file there: *)
(* a configuration whose include is missing is not replaced.                *)
THEOREM OnlyAbsentIsWritten == Spec => OnlyWritesWhatWasAbsent
<1>1. InductiveInv => \A r \in Runs : pc[r] = "open" => ~ env[r].given /\ absentFor[r]
  BY DEF InductiveInv, SawNoFile
<1>2. InductiveInv /\ [Next]_vars =>
         [\A r \in Runs :
             pc[r] = "open" /\ pc'[r] = "write" => ~ env[r].given /\ absentFor[r]]_vars
  BY <1>1
<1> QED
  BY <1>2, InductiveInvCorrect, PTL DEF Spec, OnlyWritesWhatWasAbsent

(* Whoever finds an empty file: a run is still writing it, or one stopped. *)
THEOREM EmptyIsTransient == Spec => []EmptyOnlyWhileWriting
<1>1. InductiveInv => EmptyOnlyWhileWriting
  BY DEF InductiveInv, EmptyIsOpen, EmptyOnlyWhileWriting
<1> QED
  BY <1>1, InductiveInvCorrect, PTL

(* "Not found" is only reported by a run that found no file at the default *)
(* path, never for a missing include.                                      *)
THEOREM NotFoundMeansAbsent == Spec => []DanglingIsNotMissing
<1>1. InductiveInv => DanglingIsNotMissing
  BY DEF InductiveInv
<1> QED
  BY <1>1, InductiveInvCorrect, PTL

(* Until the user changes something, runs in one environment use one place. *)
THEOREM OneEnvironmentOnePlace == Spec => []RunsAgree
<1>1. InductiveInv => RunsAgree
  <2> SUFFICES ASSUME InductiveInv, edits = 0, SameEnvironment,
                      NEW r \in Runs, NEW s \in Runs, place[r] # Unset, place[s] # Unset
               PROVE  place[r] = place[s]
    BY DEF RunsAgree
  <2>1. place[r] = Choice(r) /\ place[s] = Choice(s) /\ env[r] = env[s]
    BY DEF InductiveInv, ChoiceStands, SameEnvironment
  <2> QED
    BY <2>1 DEF Choice, OldHome, NewHome
<1> QED
  BY <1>1, InductiveInvCorrect, PTL
=============================================================================

--------------------------- MODULE Invocation_proofs ---------------------------
(* Proofs about runs of the command, for any number of runs, any command      *)
(* lines and any seed passwords: what the keyring holds was vetted, what is   *)
(* printed was confirmed if it had to be, a reset is not undone, and runs     *)
(* that must not touch the keyring do not.                                    *)
EXTENDS Invocation, SequenceTheorems, TLAPS

(* What is true of a run at each of its calls, one part per concern *)
Unseeded == {"start", "delete", "choose", "describe", "read", "load", "prompt"}

(* It has taken a seed or not, and a mode leads only where it should. *)
Ordered(r) ==
    /\ pc[r] \in Unseeded => seed[r] = None /\ source[r] = None
    /\ pc[r] \in {"confirm", "save", "site", "learn"} =>
         /\ seed[r] \in Seeds
         /\ args[r].mode = "password" \/ args[r].sites = <<>>
    /\ pc[r] \in (Unseeded \ {"describe"}) \cup {"confirm", "save"} =>
         output[r] = <<>> /\ misses[r] = 0
    /\ pc[r] = "describe" => args[r].mode = "describe" /\ misses[r] = 0
    /\ pc[r] = "site" => Len(output[r]) < Len(args[r].sites)
    /\ pc[r] = "learn" => Len(output[r]) <= Len(args[r].sites)

(* It only works with a seed that is vetted, if it uses the keyring, and    *)
(* confirmed, if it has to be.                                              *)
Vouching(r) ==
    /\ source[r] = "keyring" => seed[r] \in vetted
    /\ pc[r] = "save" => vouched[r] /\ seed[r] \in vetted
    /\ pc[r] \in {"site", "learn"} \/ (output[r] # <<>> /\ args[r].mode = "password") =>
         /\ use[r] => seed[r] \in vetted
         /\ args[r].confirm => vouched[r]
    /\ pc[r] = "done" /\ args[r].mode = "password" /\ args[r].confirm => vouched[r]

(* It printed the first of its sites, all from its seed. *)
Printed(r) == args[r].mode = "password" =>
    /\ Len(output[r]) <= Len(args[r].sites)
    /\ \A i \in DOMAIN output[r] : output[r][i] = <<args[r].sites[i], seed[r]>>
    /\ pc[r] = "done" => Len(output[r]) = Len(args[r].sites) /\ misses[r] = 0

(* It goes on to the next site after all attempts at the last one. *)
Learned(r) ==
    /\ pc[r] = "learn" => tries[r] < args[r].learn
    /\ pc[r] = "site" => misses[r] = 0 /\ (output[r] = <<>> \/ tries[r] = args[r].learn)

(* The entry it has deleted is only there if another run saved one. *)
Cleared(r) == args[r].reset =>
    /\ pc[r] \in {"choose", "read", "load"} /\ keyring # NoEntry => resaved[r]
    /\ source[r] = "keyring" => resaved[r]

(* It only gets to the keyring if its command line says so. *)
Allowed(r) ==
    /\ use[r] => SeedKeyring(args[r])
    /\ source[r] = "keyring" => use[r]
    /\ pc[r] \in {"load", "save"} => use[r]
    /\ pc[r] = "delete" => args[r].reset
    /\ pc[r] \in {"read", "load", "prompt", "confirm", "save", "site", "learn"} =>
         /\ args[r].mode # "print sites"
         /\ args[r].mode = "describe" => args[r].sites = <<>>

RunInv(r) ==
    Ordered(r) /\ Vouching(r) /\ Printed(r) /\ Learned(r) /\ Cleared(r) /\ Allowed(r)

InductiveInv ==
    /\ TypeOK
    /\ keyring \in vetted \cup {NoEntry}
    /\ \A r \in Runs : RunInv(r)

-----------------------------------------------------------------------------
(* A command line, taken apart *)
LEMMA ArgsOf ==
    ASSUME TypeOK, NEW r \in Runs
    PROVE  /\ args[r].keyring \in {"-k", "-K", "default"}
           /\ args[r].stdin \in BOOLEAN /\ args[r].reset \in BOOLEAN
           /\ args[r].confirm \in BOOLEAN
           /\ args[r].mode \in {"password", "describe", "print sites"}
           /\ args[r].sites \in Seq(Sites)
           /\ args[r].learn \in Nat
<1>1. args[r] \in ArgsType
  <2>1. args \in [Runs -> CommandLines]
    BY DEF TypeOK
  <2> QED
    BY <2>1, ArgsAssumption
<1> QED
  BY <1>1 DEF ArgsType

(* What a run prints next is a site. *)
LEMMA NextSiteType ==
    ASSUME TypeOK, NEW r \in Runs, Len(output[r]) < Len(args[r].sites)
    PROVE  args[r].sites[Len(output[r]) + 1] \in Sites
<1>1. args[r].sites \in Seq(Sites)
  BY ArgsOf
<1>2. Len(output[r]) \in Nat /\ Len(args[r].sites) \in Nat
  BY <1>1 DEF TypeOK
<1> QED
  BY <1>1, <1>2

(* The type invariant of one step, one action at a time *)
LEMMA TypeStep ==
    ASSUME TypeOK, NEW r \in Runs, Ordered(r), Step(r)
    PROVE  TypeOK'
<1> USE DEF TypeOK, fixed, private, history, Goto
<1>1. CASE ConfigError(r) \/ DeleteFails(r) \/ WordsError(r) \/ PrintSitesFails(r)
           \/ LoadFails(r) \/ PromptFails(r)
           \/ SaveFails(r) \/ SiteFails(r) \/ LoadNothing(r)
  <2>1. /\ \E to \in Ended \cup {"prompt"} : pc' = [pc EXCEPT ![r] = to]
        /\ UNCHANGED <<keyring, fixed, private, history>>
    BY <1>1 DEF ConfigError, DeleteFails, WordsError, PrintSitesFails, LoadFails, PromptFails,
                SaveFails,
                SiteFails, LoadNothing, Ended
  <2> QED
    BY <2>1
<1>2. CASE Start(r)
  BY <1>2 DEF Start, SeedKeyring
<1>3. CASE Delete(r)
  BY <1>3 DEF Delete, Clear
<1>4. CASE Choose(r)
  BY <1>4 DEF Choose, Ended
<1>5. CASE Describe(r)
  <2>1. /\ \E to \in Ended \cup {"describe"} : pc' = [pc EXCEPT ![r] = to]
        /\ UNCHANGED <<keyring, fixed, args, use, seed, source, tries, misses, vouched, history>>
    <3>1. pc[r] = "describe" /\ (pc' = pc => pc' = [pc EXCEPT ![r] = "describe"])
      BY <1>5 DEF Describe
    <3> QED
      BY <1>5, <3>1 DEF Describe, Ended
  <2>2. output' \in [Runs -> Seq(Sites \X (Seeds \cup {None}))]
    <3>1. CASE UNCHANGED output
      BY <3>1
    <3>2. CASE ~ UNCHANGED output
      <4>1. /\ ~ (Len(output[r]) + 1 > Len(args[r].sites))
            /\ output' = [output EXCEPT ![r] =
                             Append(@, <<args[r].sites[Len(output[r]) + 1], None>>)]
        BY <1>5, <3>2 DEF Describe
      <4>2. Len(output[r]) \in Nat /\ Len(args[r].sites) \in Nat
        <5>1. args[r].sites \in Seq(Sites) /\ output[r] \in Seq(Sites \X (Seeds \cup {None}))
          BY ArgsOf
        <5> QED
          BY <5>1, LenProperties
      <4>3. args[r].sites[Len(output[r]) + 1] \in Sites
        BY <4>1, <4>2, NextSiteType
      <4> QED
        BY <4>1, <4>3
    <3> QED
      BY <3>1, <3>2
  <2> QED
    BY ZenonT(30), <2>1, <2>2
<1>6. CASE Read(r)
  BY <1>6 DEF Read
<1>7. CASE LoadFound(r)
  BY <1>7 DEF LoadFound, TakeSeed, AfterLoad, AfterSeed, Ended
<1>8. CASE Prompt(r)
  <2>1. PICK s \in Seeds : TakeSeed(r, s, "typed", AfterPrompt(r))
    BY <1>8 DEF Prompt
  <2> QED
    BY <2>1 DEF TakeSeed, AfterPrompt, AfterSeed, Ended
<1>9. CASE Confirm(r)
  BY <1>9 DEF Confirm, AfterSeed, Ended
<1>10. CASE Save(r)
  BY <1>10 DEF Save, AfterSeed, Ended, Ordered
<1>11. CASE PrintSite(r)
  <2>1. /\ pc[r] = "site"
        /\ output' = [output EXCEPT ![r] =
                         Append(@, <<args[r].sites[Len(output[r]) + 1], seed[r]>>)]
        /\ UNCHANGED <<keyring, fixed, args, use, seed, source, vouched, history>>
    BY <1>11 DEF PrintSite, NextSite
  <2>2. args[r].sites[Len(output[r]) + 1] \in Sites
    BY <2>1, NextSiteType DEF Ordered
  <2>3. output' \in [Runs -> Seq(Sites \X (Seeds \cup {None}))]
    BY <2>1, <2>2
  <2>4. /\ tries' \in [Runs -> Nat] /\ misses' \in [Runs -> Nat]
        /\ \E to \in Ended \cup {"learn", "site"} : pc' = [pc EXCEPT ![r] = to]
    BY <1>11 DEF PrintSite, AfterSite, Ended
  <2> QED
    BY SMTT(30), <2>1, <2>3, <2>4
<1>12. CASE Learn(r)
  <2>1. tries' \in [Runs -> Nat] /\ misses' \in [Runs -> Nat]
    BY <1>12 DEF Learn
  <2>2. \E to \in Ended \cup {"learn", "site"} : pc' = [pc EXCEPT ![r] = to]
    BY <1>12 DEF Learn, AfterLearn, AfterSite, Ended
  <2> QED
    BY <1>12, <2>1, <2>2 DEF Learn
<1>13. CASE OutputFails(r)
  <2> DEFINE printed == Append(output[r], <<args[r].sites[Len(output[r]) + 1], seed[r]>>)
  <2>1. /\ output' = output \/ output' = [output EXCEPT ![r] = printed]
        /\ pc' = [pc EXCEPT ![r] = "output failed"]
        /\ UNCHANGED <<keyring, fixed, args, use, seed, source, tries, misses, vouched, history>>
    BY <1>13 DEF OutputFails, NextSite
  <2>2. args[r].sites[Len(output[r]) + 1] \in Sites
    BY <1>13, NextSiteType DEF OutputFails
  <2>3. printed \in Seq(Sites \X (Seeds \cup {None}))
    BY <2>2
  <2>4. output' \in [Runs -> Seq(Sites \X (Seeds \cup {None}))]
    BY <2>1, <2>3
  <2>5. pc' \in [Runs -> Ended \cup {"start", "delete", "choose", "describe", "read", "load",
                                    "prompt", "confirm", "save", "site", "learn"}]
    BY <2>1 DEF Ended
  <2> QED
    BY ZenonT(30), <2>1, <2>4, <2>5
<1> QED
  BY <1>1, <1>2, <1>3, <1>4, <1>5, <1>6, <1>7, <1>8, <1>9, <1>10, <1>11, <1>12, <1>13 DEF Step

-----------------------------------------------------------------------------
(* What a step of one run leaves of another *)
LEMMA OtherRuns ==
    ASSUME TypeOK, NEW q \in Runs, Step(q), NEW r \in Runs, r # q, RunInv(r)
    PROVE  RunInv(r)'
<1> USE DEF TypeOK, fixed, private, history, Goto
<1>1. /\ pc'[r] = pc[r] /\ args' = args /\ setting' = setting /\ supported' = supported
      /\ use'[r] = use[r] /\ seed'[r] = seed[r] /\ source'[r] = source[r]
      /\ output'[r] = output[r] /\ tries'[r] = tries[r] /\ misses'[r] = misses[r]
      /\ vouched'[r] = vouched[r]
  BY ZenonT(30) DEF Step, ConfigError, Start, Delete, Clear, DeleteFails, Choose, WordsError,
                    PrintSitesFails, Describe, Read,
         LoadFound, LoadNothing, LoadFails, TakeSeed, Prompt, PromptFails, Confirm, Save,
         SaveFails, PrintSite, SiteFails, OutputFails, Learn
<1>2. /\ vetted \subseteq vetted'
      /\ resaved[r] => resaved'[r]
      /\ keyring' \in {keyring, NoEntry} \/ resaved'[r]
  BY ZenonT(30) DEF Step, ConfigError, Start, Delete, Clear, DeleteFails, Choose, WordsError,
                    PrintSitesFails, Describe, Read,
         LoadFound, LoadNothing, LoadFails, TakeSeed, Prompt, PromptFails, Confirm, Save,
         SaveFails, PrintSite, SiteFails, OutputFails, Learn
<1>3. Ordered(r)' /\ Printed(r)' /\ Learned(r)'
  BY <1>1 DEF RunInv, Ordered, Printed, Learned
<1>4. Vouching(r)'
  BY <1>1, <1>2 DEF RunInv, Vouching
<1>5. Cleared(r)'
  BY <1>1, <1>2 DEF RunInv, Cleared
<1>6. Allowed(r)'
  BY <1>1 DEF RunInv, Allowed, SeedKeyring
<1> QED
  BY <1>3, <1>4, <1>5, <1>6 DEF RunInv

-----------------------------------------------------------------------------
(* A step of a run keeps what is true of that run, one concern at a time *)
LEMMA Lengths ==
    ASSUME TypeOK, NEW r \in Runs
    PROVE  /\ Len(output[r]) \in Nat /\ Len(args[r].sites) \in Nat
           /\ output[r] = <<>> => Len(output[r]) = 0
           /\ args[r].sites = <<>> <=> Len(args[r].sites) = 0
<1>1. args[r].sites \in Seq(Sites) /\ output[r] \in Seq(Sites \X (Seeds \cup {None}))
  BY ArgsOf DEF TypeOK
<1> QED
  BY <1>1, LenProperties, EmptySeq

LEMMA OrderedStep ==
    ASSUME TypeOK, NEW r \in Runs, RunInv(r), Step(r)
    PROVE  Ordered(r)'
<1> USE DEF TypeOK, fixed, private, history, Goto
<1>1. args[r].mode \in {"password", "describe", "print sites"} /\ args' = args
  BY ArgsOf DEF Step, ConfigError, Start, Delete, Clear, DeleteFails, Choose, WordsError,
                PrintSitesFails, Describe, Read,
         LoadFound, LoadNothing, LoadFails, TakeSeed, Prompt, PromptFails, Confirm, Save,
         SaveFails, PrintSite, SiteFails, OutputFails, Learn
<1>2. pc'[r] \in Unseeded => seed'[r] = None /\ source'[r] = None
  <2>1. CASE LoadFound(r) \/ Prompt(r) \/ Confirm(r) \/ Save(r) \/ PrintSite(r) \/ Learn(r)
    <3>1. pc'[r] \in {"confirm", "save", "site", "learn"} \cup Ended
      BY <2>1 DEF LoadFound, Prompt, TakeSeed, Confirm, Save, PrintSite, Learn, Ended,
                  AfterLoad, AfterPrompt, AfterSeed, AfterSite, AfterLearn
    <3> QED
      BY <3>1 DEF Unseeded, Ended
  <2>2. CASE ~ (LoadFound(r) \/ Prompt(r) \/ Confirm(r) \/ Save(r) \/ PrintSite(r) \/ Learn(r))
    <3>1. UNCHANGED <<seed, source>> /\ (pc'[r] \in Ended \/ pc[r] \in Unseeded)
      BY <2>2 DEF Step, ConfigError, Start, Delete, Clear, DeleteFails, Choose, WordsError,
                  PrintSitesFails,
                  Describe, Read, LoadNothing, LoadFails, PromptFails, SaveFails, SiteFails,
                  OutputFails,
                  Unseeded, Ended
    <3> QED
      BY <3>1 DEF RunInv, Ordered, Unseeded, Ended
  <2> QED
    BY <2>1, <2>2
<1>3. pc'[r] \in {"confirm", "save", "site", "learn"} =>
         /\ seed'[r] \in Seeds
         /\ args[r].mode = "password" \/ args[r].sites = <<>>
  <2>1. keyring = NoEntry \/ keyring \in Seeds
    OBVIOUS
  <2>2. pc'[r] \in {"confirm", "save", "site", "learn"} => seed'[r] \in Seeds
    BY ZenonT(30), <2>1 DEF Step, ConfigError, Start, Delete, Clear, DeleteFails, Choose,
                            WordsError, PrintSitesFails, Describe, Read,
         LoadFound, LoadNothing, LoadFails, TakeSeed, Prompt, PromptFails, Confirm, Save,
         SaveFails, PrintSite, SiteFails, OutputFails, Learn,
           RunInv, Ordered, Unseeded, Ended, AfterLoad, AfterPrompt, AfterSeed, AfterSite,
           AfterLearn
  <2>3. pc'[r] \in {"confirm", "save", "site", "learn"} =>
           args[r].mode = "password" \/ args[r].sites = <<>>
    BY ZenonT(30), <1>1 DEF Step, ConfigError, Start, Delete, Clear, DeleteFails, Choose,
                            WordsError, PrintSitesFails, Describe, Read,
         LoadFound, LoadNothing, LoadFails, TakeSeed, Prompt, PromptFails, Confirm, Save,
         SaveFails, PrintSite, SiteFails, OutputFails, Learn,
           RunInv, Ordered, Allowed, Ended, AfterLoad, AfterPrompt, AfterSeed, AfterSite, AfterLearn
  <2> QED
    BY <2>2, <2>3
<1>4. pc'[r] \in (Unseeded \ {"describe"}) \cup {"confirm", "save"} =>
         output'[r] = <<>> /\ misses'[r] = 0
  BY ZenonT(30) DEF Step, ConfigError, Start, Delete, Clear, DeleteFails, Choose, WordsError,
                    PrintSitesFails, Describe, Read,
         LoadFound, LoadNothing, LoadFails, TakeSeed, Prompt, PromptFails, Confirm, Save,
         SaveFails, PrintSite, SiteFails, OutputFails, Learn,
         RunInv, Ordered, Unseeded, Ended, AfterLoad, AfterPrompt, AfterSeed, AfterSite, AfterLearn
<1>5. pc'[r] = "describe" => args[r].mode = "describe" /\ misses'[r] = 0
  BY <1>1 DEF Step, ConfigError, Start, Delete, Clear, DeleteFails, Choose, WordsError,
              PrintSitesFails, Describe, Read,
         LoadFound, LoadNothing, LoadFails, TakeSeed, Prompt, PromptFails, Confirm, Save,
         SaveFails, PrintSite, SiteFails, OutputFails, Learn,
         RunInv, Ordered, Unseeded, Ended, AfterLoad, AfterPrompt, AfterSeed, AfterSite, AfterLearn
<1>6. pc'[r] = "site" => Len(output'[r]) < Len(args[r].sites)
  <2>1. CASE PrintSite(r)
    <3>1. args[r].sites[Len(output[r]) + 1] \in Sites
      BY <2>1, NextSiteType DEF PrintSite, RunInv, Ordered
    <3>2. output' \in [Runs -> Seq(Sites \X (Seeds \cup {None}))]
      BY TypeStep DEF RunInv
    <3>3. Len(output'[r]) = Len(output[r]) + 1
      BY <2>1, <3>1 DEF PrintSite
    <3>4. pc'[r] = "site" => Len(output'[r]) # Len(args[r].sites)
      BY <2>1 DEF PrintSite, AfterSite
    <3>5. Len(output[r]) < Len(args[r].sites)
      BY <2>1 DEF PrintSite, RunInv, Ordered
    <3> QED
      BY <3>3, <3>4, <3>5, Lengths
  <2>2. CASE Learn(r)
    <3>1. pc'[r] = "site" => Len(output[r]) # Len(args[r].sites)
      BY <2>2 DEF Learn, AfterLearn, AfterSite
    <3>2. output' = output /\ Len(output[r]) <= Len(args[r].sites)
      BY <2>2 DEF Learn, RunInv, Ordered
    <3> QED
      BY <3>1, <3>2, Lengths
  <2>3. CASE LoadFound(r) \/ Prompt(r) \/ Confirm(r) \/ Save(r)
    <3>1. output' = output /\ output[r] = <<>> /\ (pc'[r] = "site" => args[r].sites # <<>>)
      BY <2>3 DEF LoadFound, Prompt, TakeSeed, Confirm, Save, RunInv, Ordered, Unseeded,
                  AfterLoad, AfterPrompt, AfterSeed
    <3> QED
      BY <3>1, Lengths
  <2>4. CASE ~ (LoadFound(r) \/ Prompt(r) \/ Confirm(r) \/ Save(r) \/ PrintSite(r) \/ Learn(r))
    BY <2>4 DEF Step, ConfigError, Start, Delete, Clear, DeleteFails, Choose, WordsError,
                PrintSitesFails,
                Describe, Read, LoadNothing, LoadFails, PromptFails, SaveFails, SiteFails,
                OutputFails
  <2> QED
    BY <2>1, <2>2, <2>3, <2>4
<1>7. pc'[r] = "learn" => Len(output'[r]) <= Len(args[r].sites)
  <2>1. CASE PrintSite(r)
    <3>1. args[r].sites[Len(output[r]) + 1] \in Sites
      BY <2>1, NextSiteType DEF PrintSite, RunInv, Ordered
    <3>2. Len(output'[r]) = Len(output[r]) + 1
      BY <2>1, <3>1 DEF PrintSite
    <3> QED
      BY <2>1, <3>2, Lengths DEF PrintSite, RunInv, Ordered
  <2>2. CASE Learn(r)
    BY <2>2 DEF Learn, RunInv, Ordered
  <2>3. CASE LoadFound(r) \/ Prompt(r) \/ Confirm(r) \/ Save(r)
    BY <2>3 DEF LoadFound, Prompt, TakeSeed, Confirm, Save, AfterLoad, AfterPrompt,
                AfterSeed
  <2>4. CASE ~ (LoadFound(r) \/ Prompt(r) \/ Confirm(r) \/ Save(r) \/ PrintSite(r) \/ Learn(r))
    BY <2>4 DEF Step, ConfigError, Start, Delete, Clear, DeleteFails, Choose, WordsError,
                PrintSitesFails,
                Describe, Read, LoadNothing, LoadFails, PromptFails, SaveFails, SiteFails,
                OutputFails
  <2> QED
    BY <2>1, <2>2, <2>3, <2>4
<1> QED
  BY <1>1, <1>2, <1>3, <1>4, <1>5, <1>6, <1>7 DEF Ordered

LEMMA AllowedStep ==
    ASSUME TypeOK, NEW r \in Runs, RunInv(r), Step(r)
    PROVE  Allowed(r)'
<1> USE DEF TypeOK, fixed, private, history, Goto
<1>1. args[r].mode \in {"password", "describe", "print sites"}
  BY ArgsOf
<1>2. args' = args /\ SeedKeyring(args[r])' = SeedKeyring(args[r])
  <2>1. UNCHANGED <<args, setting, supported>>
    BY DEF Step, ConfigError, Start, Delete, Clear, DeleteFails, Choose, WordsError,
           PrintSitesFails, Describe, Read,
         LoadFound, LoadNothing, LoadFails, TakeSeed, Prompt, PromptFails, Confirm, Save,
         SaveFails, PrintSite, SiteFails, OutputFails, Learn
  <2> QED
    BY <2>1 DEF SeedKeyring
<1>3. use'[r] => SeedKeyring(args[r])
  BY DEF Step, ConfigError, Start, Delete, Clear, DeleteFails, Choose, WordsError,
         PrintSitesFails, Describe, Read,
         LoadFound, LoadNothing, LoadFails, TakeSeed, Prompt, PromptFails, Confirm, Save,
         SaveFails, PrintSite, SiteFails, OutputFails, Learn, RunInv, Allowed, SeedKeyring
<1>4. pc'[r] \in {"load", "save"} => use'[r]
  BY ZenonT(30) DEF Step, ConfigError, Start, Delete, Clear, DeleteFails, Choose, WordsError,
                    PrintSitesFails, Describe, Read,
         LoadFound, LoadNothing, LoadFails, TakeSeed, Prompt, PromptFails, Confirm, Save,
         SaveFails, PrintSite, SiteFails, OutputFails, Learn,
         RunInv, Allowed, Ended, AfterLoad, AfterPrompt, AfterSeed, AfterSite, AfterLearn
<1>5. pc'[r] = "delete" => args[r].reset
  BY DEF Step, ConfigError, Start, Delete, Clear, DeleteFails, Choose, WordsError,
         PrintSitesFails, Describe, Read,
         LoadFound, LoadNothing, LoadFails, TakeSeed, Prompt, PromptFails, Confirm, Save,
         SaveFails, PrintSite, SiteFails, OutputFails, Learn,
         Ended, AfterLoad, AfterPrompt, AfterSeed, AfterSite, AfterLearn
<1>6. pc'[r] \in {"read", "load", "prompt", "confirm", "save", "site", "learn"} =>
         /\ args[r].mode # "print sites"
         /\ args[r].mode = "describe" => args[r].sites = <<>>
  BY ZenonT(30), <1>1 DEF Step, ConfigError, Start, Delete, Clear, DeleteFails, Choose,
                          WordsError, PrintSitesFails, Describe, Read,
         LoadFound, LoadNothing, LoadFails, TakeSeed, Prompt, PromptFails, Confirm, Save,
         SaveFails, PrintSite, SiteFails, OutputFails, Learn,
         RunInv, Allowed, Ended, AfterLoad, AfterPrompt, AfterSeed, AfterSite, AfterLearn
<1>7. source'[r] = "keyring" => use'[r]
  <2>1. CASE Start(r) \/ Read(r)
    BY <2>1, SeedAssumption DEF Start, Read, RunInv, Ordered, Unseeded
  <2>2. CASE LoadFound(r)
    BY <2>2 DEF LoadFound, TakeSeed, RunInv, Allowed
  <2>3. CASE Prompt(r)
    BY <2>3 DEF Prompt, TakeSeed
  <2>4. CASE ~ (Start(r) \/ Read(r) \/ LoadFound(r) \/ Prompt(r))
    <3>1. UNCHANGED <<use, source>>
      BY <2>4 DEF Step, ConfigError, Delete, Clear, DeleteFails, Choose, WordsError,
                  PrintSitesFails, Describe,
           LoadNothing, LoadFails, PromptFails, Confirm, Save, SaveFails, PrintSite,
           SiteFails, OutputFails, Learn
    <3> QED
      BY <3>1 DEF RunInv, Allowed
  <2> QED
    BY <2>1, <2>2, <2>3, <2>4
<1> QED
  BY <1>2, <1>3, <1>4, <1>5, <1>6, <1>7 DEF Allowed

LEMMA ClearedStep ==
    ASSUME TypeOK, NEW r \in Runs, RunInv(r), Step(r)
    PROVE  Cleared(r)'
<1> USE DEF TypeOK, fixed, private, history, Goto
<1>1. CASE Delete(r)
  BY <1>1, SeedAssumption DEF Delete, Clear, RunInv, Ordered, Unseeded, Cleared
<1>2. CASE Save(r)
  BY <1>2 DEF Save, AfterSeed, RunInv, Cleared
<1>3. CASE Start(r) \/ Choose(r) \/ Read(r)
  BY <1>3 DEF Start, Choose, Read, RunInv, Cleared
<1>4. CASE LoadFound(r)
  BY <1>4 DEF LoadFound, TakeSeed, AfterLoad, AfterSeed, RunInv, Cleared
<1>5. CASE Prompt(r)
  BY <1>5 DEF Prompt, TakeSeed, AfterPrompt, AfterSeed, RunInv, Cleared
<1>6. CASE ConfigError(r) \/ DeleteFails(r) \/ WordsError(r) \/ PrintSitesFails(r)
           \/ Describe(r) \/ LoadNothing(r)
           \/ LoadFails(r) \/ PromptFails(r) \/ Confirm(r) \/ SaveFails(r) \/ PrintSite(r)
           \/ SiteFails(r) \/ OutputFails(r) \/ Learn(r)
  <2>1. UNCHANGED <<keyring, args, source, resaved>> /\ pc'[r] \notin {"choose", "read", "load"}
    BY <1>6 DEF ConfigError, DeleteFails, WordsError, PrintSitesFails, Describe, LoadNothing,
                LoadFails, PromptFails,
                Confirm, SaveFails, PrintSite, SiteFails, OutputFails, Learn,
                AfterSeed, AfterSite, AfterLearn
  <2> QED
    BY <2>1 DEF RunInv, Cleared
<1> QED
  BY <1>1, <1>2, <1>3, <1>4, <1>5, <1>6 DEF Step

LEMMA LearnedStep ==
    ASSUME TypeOK, NEW r \in Runs, RunInv(r), Step(r)
    PROVE  Learned(r)'
<1> USE DEF TypeOK, fixed, private, history, Goto
<1>1. args[r].learn \in Nat /\ tries[r] \in Nat /\ args' = args
  BY ArgsOf DEF Step, ConfigError, Start, Delete, Clear, DeleteFails, Choose, WordsError,
                PrintSitesFails, Describe, Read,
         LoadFound, LoadNothing, LoadFails, TakeSeed, Prompt, PromptFails, Confirm, Save,
         SaveFails, PrintSite, SiteFails, OutputFails, Learn
<1>2. CASE PrintSite(r)
  BY <1>1, <1>2 DEF PrintSite, AfterSite, Learned
<1>3. CASE Learn(r)
  <2>1. /\ pc'[r] = "learn" => tries'[r] < args[r].learn
        /\ pc'[r] = "site" => misses'[r] = 0 /\ ~ (tries'[r] < args[r].learn)
    BY <1>3 DEF Learn, AfterLearn, AfterSite
  <2>2. tries'[r] = tries[r] + 1 /\ tries[r] < args[r].learn
    BY <1>3 DEF Learn, RunInv, Learned
  <2> QED
    BY <1>1, <2>1, <2>2 DEF Learned
<1>4. CASE LoadFound(r) \/ Prompt(r) \/ Confirm(r) \/ Save(r)
  <2>1. output'[r] = <<>> /\ misses'[r] = 0 /\ pc'[r] # "learn"
    BY <1>4 DEF LoadFound, Prompt, TakeSeed, Confirm, Save, AfterLoad, AfterPrompt,
                AfterSeed, RunInv, Ordered, Unseeded
  <2> QED
    BY <2>1 DEF Learned
<1>5. CASE ~ (LoadFound(r) \/ Prompt(r) \/ Confirm(r) \/ Save(r) \/ PrintSite(r) \/ Learn(r))
  BY <1>5 DEF Step, ConfigError, Start, Delete, Clear, DeleteFails, Choose, WordsError,
              PrintSitesFails,
              Describe, Read, LoadNothing, LoadFails, PromptFails, SaveFails, SiteFails,
              OutputFails, Learned
<1> QED
  BY <1>2, <1>3, <1>4, <1>5

LEMMA VouchingStep ==
    ASSUME TypeOK, keyring \in vetted \cup {NoEntry}, NEW r \in Runs, RunInv(r), Step(r)
    PROVE  Vouching(r)'
<1> USE DEF TypeOK, fixed, private, history, Goto
<1>1. args[r].mode \in {"password", "describe", "print sites"} /\ args' = args
  BY ArgsOf DEF Step, ConfigError, Start, Delete, Clear, DeleteFails, Choose, WordsError,
                PrintSitesFails, Describe, Read,
         LoadFound, LoadNothing, LoadFails, TakeSeed, Prompt, PromptFails, Confirm, Save,
         SaveFails, PrintSite, SiteFails, OutputFails, Learn
<1>2. CASE LoadFound(r)
  BY <1>1, <1>2 DEF LoadFound, TakeSeed, AfterLoad, AfterSeed, RunInv, Ordered, Unseeded, Vouching
<1>3. CASE Prompt(r)
  <2>1. PICK s \in Seeds : TakeSeed(r, s, "typed", AfterPrompt(r))
    BY <1>3 DEF Prompt
  <2> QED
    BY <1>1, <1>3, <2>1 DEF Prompt, TakeSeed, AfterPrompt, AfterSeed, RunInv, Ordered, Unseeded,
                            Vouching
<1>4. CASE Confirm(r)
  BY <1>1, <1>4 DEF Confirm, AfterSeed, RunInv, Ordered, Unseeded, Vouching
<1>5. CASE Save(r)
  BY <1>1, <1>5 DEF Save, AfterSeed, RunInv, Ordered, Vouching
<1>6. CASE PrintSite(r) \/ Learn(r)
  <2>1. /\ UNCHANGED <<use, args, seed, source, vouched, vetted>>
        /\ pc[r] \in {"site", "learn"}
        /\ pc'[r] # "save"
    BY <1>6 DEF PrintSite, Learn, AfterLearn, AfterSite
  <2> QED
    BY <2>1 DEF RunInv, Vouching
<1>7. CASE Start(r) \/ Read(r)
  BY <1>7 DEF Start, Read, RunInv, Ordered, Unseeded, Vouching
<1>8. CASE Choose(r)
  BY <1>1, <1>8 DEF Choose, RunInv, Ordered, Unseeded, Vouching
<1>9. CASE Describe(r)
  BY <1>1, <1>9 DEF Describe, RunInv, Ordered, Unseeded, Vouching
<1>10. CASE ConfigError(r) \/ Delete(r) \/ DeleteFails(r) \/ WordsError(r)
            \/ PrintSitesFails(r) \/ LoadNothing(r)
            \/ LoadFails(r) \/ PromptFails(r) \/ SaveFails(r) \/ SiteFails(r)
  <2>1. /\ UNCHANGED <<use, args, seed, source, output, vouched, vetted>>
        /\ pc'[r] \notin {"save", "site", "learn", "done"}
    BY <1>10 DEF ConfigError, Delete, Clear, DeleteFails, WordsError, PrintSitesFails,
                 LoadNothing, LoadFails,
                 PromptFails, SaveFails, SiteFails
  <2> QED
    BY <2>1 DEF RunInv, Vouching
<1>11. CASE OutputFails(r)
  <2>1. /\ UNCHANGED <<use, args, seed, source, vouched, vetted>>
        /\ pc[r] = "site" \/ args[r].mode = "describe"
        /\ pc'[r] = "output failed"
    BY <1>11 DEF OutputFails, RunInv, Ordered
  <2> QED
    BY <2>1 DEF RunInv, Vouching
<1> QED
  BY <1>2, <1>3, <1>4, <1>5, <1>6, <1>7, <1>8, <1>9, <1>10, <1>11 DEF Step

LEMMA PrintedStep ==
    ASSUME TypeOK, NEW r \in Runs, RunInv(r), Step(r)
    PROVE  Printed(r)'
<1> USE DEF TypeOK, fixed, private, history, Goto
<1>1. args[r].mode \in {"password", "describe", "print sites"} /\ args' = args
  BY ArgsOf DEF Step, ConfigError, Start, Delete, Clear, DeleteFails, Choose, WordsError,
                PrintSitesFails, Describe, Read,
         LoadFound, LoadNothing, LoadFails, TakeSeed, Prompt, PromptFails, Confirm, Save,
         SaveFails, PrintSite, SiteFails, OutputFails, Learn
<1>2. SUFFICES ASSUME args[r].mode = "password"
               PROVE  Printed(r)'
  BY <1>1 DEF Printed
<1>3. CASE LoadFound(r) \/ Prompt(r) \/ Confirm(r) \/ Save(r)
  <2>1. /\ output'[r] = <<>> /\ misses'[r] = 0
        /\ pc'[r] = "done" => args[r].sites = <<>>
    BY <1>3 DEF LoadFound, Prompt, TakeSeed, Confirm, Save, AfterLoad, AfterPrompt,
                AfterSeed, RunInv, Ordered, Unseeded
  <2>2. Len(output'[r]) = 0 /\ DOMAIN output'[r] = {}
    BY <2>1
  <2> QED
    BY <1>1, <2>1, <2>2, Lengths DEF Printed
<1>4. CASE PrintSite(r) \/ (OutputFails(r) /\ output' # output)
  <2> DEFINE line == <<args[r].sites[Len(output[r]) + 1], seed[r]>>
  <2>0. pc[r] = "site"
    BY <1>2, <1>4 DEF PrintSite, OutputFails, RunInv, Ordered
  <2>1. args[r].sites[Len(output[r]) + 1] \in Sites /\ seed[r] \in Seeds
    BY <2>0, NextSiteType DEF RunInv, Ordered
  <2>2. /\ output'[r] = Append(output[r], line)
        /\ seed' = seed
        /\ pc'[r] = "done" => Len(output'[r]) = Len(args[r].sites) /\ misses'[r] = 0
    <3>1. CASE PrintSite(r)
      BY <3>1 DEF PrintSite, NextSite, AfterSite
    <3>2. CASE OutputFails(r) /\ output' # output
      <4>1. output' = [output EXCEPT ![r] = Append(@, line)] /\ seed' = seed
        BY <3>2 DEF OutputFails, NextSite
      <4>2. pc'[r] # "done"
        BY <3>2 DEF OutputFails
      <4> QED
        BY <4>1, <4>2
    <3> QED
      BY <1>4, <3>1, <3>2
  <2>3. output[r] \in Seq(Sites \X (Seeds \cup {None}))
    OBVIOUS
  <2>4. Len(output'[r]) = Len(output[r]) + 1 /\ Len(output'[r]) <= Len(args[r].sites)
    BY <2>0, <2>1, <2>2, <2>3, Lengths DEF RunInv, Ordered
  <2>5. ASSUME NEW i \in DOMAIN output'[r]
        PROVE  output'[r][i] = <<args[r].sites[i], seed[r]>>
    <3>1. i \in 1 .. Len(output[r]) + 1
      BY <2>1, <2>2, <2>3
    <3>2. CASE i = Len(output[r]) + 1
      BY <2>1, <2>2, <2>3, <3>2
    <3>3. CASE i # Len(output[r]) + 1
      <4>1. i \in DOMAIN output[r] /\ output'[r][i] = output[r][i]
        BY <2>1, <2>2, <2>3, <3>1, <3>3, Lengths
      <4> QED
        BY <1>2, <4>1 DEF RunInv, Printed
    <3> QED
      BY <3>2, <3>3
  <2> QED
    BY <1>1, <2>2, <2>4, <2>5 DEF Printed
<1>5. CASE Learn(r)
  <2>1. /\ UNCHANGED <<output, seed>>
        /\ pc'[r] = "done" => misses'[r] = 0 /\ Len(output[r]) = Len(args[r].sites)
    BY <1>5 DEF Learn, AfterLearn, AfterSite
  <2> QED
    BY <1>1, <2>1 DEF RunInv, Printed
<1>6. CASE Choose(r)
  BY <1>1, <1>2, <1>6, Lengths DEF Choose, RunInv, Ordered, Unseeded, Printed
<1>7. CASE ~ (LoadFound(r) \/ Prompt(r) \/ Confirm(r) \/ Save(r) \/ PrintSite(r) \/ Learn(r)
              \/ Choose(r) \/ (OutputFails(r) /\ output' # output))
  <2>1. UNCHANGED <<output, seed, misses>> /\ pc'[r] # "done"
    BY <1>2, <1>7 DEF Step, ConfigError, Start, Delete, Clear, DeleteFails, WordsError,
                      PrintSitesFails,
                Describe, Read, LoadNothing, LoadFails, PromptFails, SaveFails, SiteFails,
                OutputFails,
                RunInv, Ordered
  <2> QED
    BY <1>1, <2>1 DEF RunInv, Printed
<1> QED
  BY <1>3, <1>4, <1>5, <1>6, <1>7

LEMMA SharedStep ==
    ASSUME TypeOK, keyring \in vetted \cup {NoEntry}, NEW r \in Runs, RunInv(r), Step(r)
    PROVE  (keyring \in vetted \cup {NoEntry})'
<1> USE DEF fixed, private, history, Goto
<1>1. CASE Delete(r)
  BY <1>1 DEF Delete, Clear
<1>2. CASE Save(r)
  BY <1>2 DEF Save, RunInv, Vouching
<1>3. CASE ~ (Delete(r) \/ Save(r))
  <2>1. keyring' = keyring /\ vetted \subseteq vetted'
    BY <1>3 DEF TypeOK, Step, ConfigError, Start, DeleteFails, Choose, WordsError,
                PrintSitesFails, Describe, Read,
                LoadFound, LoadNothing, LoadFails, TakeSeed, Prompt, PromptFails, Confirm,
                SaveFails, PrintSite, SiteFails, OutputFails, Learn
  <2> QED
    BY <2>1
<1> QED
  BY <1>1, <1>2, <1>3

-----------------------------------------------------------------------------
(* The inductive invariant *)

LEMMA InitHolds == Init => InductiveInv
<1> SUFFICES ASSUME Init PROVE InductiveInv
  OBVIOUS
<1>1. TypeOK
  <2>1. args \in [Runs -> CommandLines] /\ supported \in Builds
    BY StartAssumption DEF Init
  <2>2. \A r \in Runs : output[r] = <<>>
    BY DEF Init
  <2>3. output \in [Runs -> Seq(Sites \X (Seeds \cup {None}))]
    BY DEF Init
  <2>4. vetted \subseteq Seeds /\ keyring \in Seeds \cup {NoEntry}
    BY DEF Init
  <2> QED
    BY <2>1, <2>3, <2>4 DEF Init, TypeOK
<1>2. keyring \in vetted \cup {NoEntry}
  BY DEF Init
<1>3. ASSUME NEW r \in Runs
      PROVE  RunInv(r)
  <2>1. /\ pc[r] = "start" /\ seed[r] = None /\ source[r] = None /\ output[r] = <<>>
        /\ misses[r] = 0 /\ ~ use[r] /\ None # "keyring"
    BY SeedAssumption DEF Init
  <2>2. Len(output[r]) = 0 /\ Len(args[r].sites) \in Nat /\ DOMAIN output[r] = {}
    BY <1>1, <2>1, Lengths
  <2>3. Ordered(r) /\ Printed(r)
    BY <2>1, <2>2 DEF Ordered, Printed, Unseeded
  <2>4. Vouching(r) /\ Learned(r) /\ Cleared(r) /\ Allowed(r)
    BY <2>1 DEF Vouching, Learned, Cleared, Allowed
  <2> QED
    BY <2>3, <2>4 DEF RunInv
<1> QED
  BY <1>1, <1>2, <1>3 DEF InductiveInv

LEMMA StepHolds == InductiveInv /\ [Next]_vars => InductiveInv'
<1>1. ASSUME InductiveInv, NEW q \in Runs, Step(q)
      PROVE  InductiveInv'
  <2>1. TypeOK /\ keyring \in vetted \cup {NoEntry} /\ \A r \in Runs : RunInv(r)
    BY <1>1 DEF InductiveInv
  <2>2. TypeOK'
    BY <1>1, <2>1, TypeStep DEF RunInv
  <2>3. (keyring \in vetted \cup {NoEntry})'
    BY <1>1, <2>1, SharedStep
  <2>4. RunInv(q)'
    BY <1>1, <2>1, OrderedStep, VouchingStep, PrintedStep, LearnedStep, ClearedStep, AllowedStep
       DEF RunInv
  <2>5. ASSUME NEW r \in Runs, r # q
        PROVE  RunInv(r)'
    BY <1>1, <2>1, <2>5, OtherRuns
  <2> QED
    BY <2>2, <2>3, <2>4, <2>5 DEF InductiveInv
<1>2. ASSUME InductiveInv, UNCHANGED vars
      PROVE  InductiveInv'
  <2>1. UNCHANGED <<keyring, setting, supported, pc, args, use, seed, source, output, tries,
                    misses, vouched, vetted, resaved>>
    BY <1>2 DEF vars, fixed, private, history
  <2>2. TypeOK' /\ (keyring \in vetted \cup {NoEntry})'
    BY <1>2, <2>1 DEF InductiveInv, TypeOK
  <2>3. ASSUME NEW r \in Runs
        PROVE  RunInv(r)'
    <3>1. RunInv(r)
      BY <1>2 DEF InductiveInv
    <3>2. Ordered(r)' /\ Printed(r)' /\ Learned(r)'
      BY <2>1, <3>1 DEF RunInv, Ordered, Printed, Learned
    <3>3. Vouching(r)' /\ Cleared(r)' /\ Allowed(r)'
      BY <2>1, <3>1 DEF RunInv, Vouching, Cleared, Allowed, SeedKeyring
    <3> QED
      BY <3>2, <3>3 DEF RunInv
  <2> QED
    BY <2>2, <2>3 DEF InductiveInv
<1> QED
  BY <1>1, <1>2 DEF Next

(* Every reachable state satisfies the inductive invariant: what each run   *)
(* has done so far fits the call it makes next. (main.rs 107-210)           *)
THEOREM InductiveInvCorrect == Spec => []InductiveInv
<1> QED
  BY InitHolds, StepHolds, PTL DEF Spec

(* Every variable keeps its type, for any runs of any command lines.        *)
THEOREM TypeCorrect == Spec => []TypeOK
<1>1. InductiveInv => TypeOK
  BY DEF InductiveInv
<1> QED
  BY <1>1, InductiveInvCorrect, PTL

(* However many runs interleave, nothing typed only once is cached or, with *)
(* the keyring in use, printed from. (seed_password/mod.rs 19-36)           *)
THEOREM OnlyVettedSeeds == Spec => []OnlyVettedSeedsCached
<1>1. InductiveInv => OnlyVettedSeedsCached
  <2>1. ASSUME InductiveInv, NEW r \in Runs, NEW i \in DOMAIN output[r], use[r],
               args[r].mode = "password"
        PROVE  output[r][i][2] \in vetted
    <3>1. output[r] # <<>>
      OBVIOUS
    <3>2. output[r][i] = <<args[r].sites[i], seed[r]>> /\ seed[r] \in vetted
      BY <2>1, <3>1 DEF InductiveInv, RunInv, Printed, Vouching
    <3> QED
      BY <3>2
  <2> QED
    BY <2>1 DEF InductiveInv, OnlyVettedSeedsCached
<1> QED
  BY <1>1, InductiveInvCorrect, PTL

(* With --confirm no run prints or succeeds before its seed is confirmed.   *)
(* (seed_password/mod.rs 20-32)                                             *)
THEOREM ConfirmedBeforeOutput == Spec => []ConfirmBeforeOutput
<1>1. InductiveInv => ConfirmBeforeOutput
  <2>1. ASSUME InductiveInv, NEW r \in Runs, args[r].confirm, args[r].mode = "password"
        PROVE  /\ output[r] # <<>> \/ pc[r] = "done" => vouched[r]
               /\ \A i \in DOMAIN output[r] : output[r][i][2] = seed[r]
    BY <2>1 DEF InductiveInv, RunInv, Printed, Vouching
  <2> QED
    BY <2>1 DEF ConfirmBeforeOutput
<1> QED
  BY <1>1, InductiveInvCorrect, PTL

(* A reset is not undone by the run itself. (main.rs 134-136, 187)          *)
THEOREM ResetIsNotUndone == Spec => []ResetAsksAgain
<1>1. InductiveInv => ResetAsksAgain
  BY DEF InductiveInv, RunInv, Cleared, ResetAsksAgain
<1> QED
  BY <1>1, InductiveInvCorrect, PTL

(* A successful run printed all its sites from one seed. (main.rs 188-209)  *)
THEOREM SuccessIsWhole == Spec => []SuccessIsComplete
<1>1. InductiveInv => SuccessIsComplete
  BY DEF InductiveInv, RunInv, Printed, SuccessIsComplete
<1> QED
  BY <1>1, InductiveInvCorrect, PTL

-----------------------------------------------------------------------------
(* What a step may never do *)

(* A run that must leave the keyring alone does, whatever the others do.    *)
(* (main.rs 115-127, 137-184)                                               *)
THEOREM KeyringStaysUntouched == Spec => KeyringUntouched
<1> DEFINE A == \A r \in Runs : LeavesKeyringAlone(args[r]) /\ pc'[r] # pc[r] =>
                    keyring' = keyring /\ source'[r] # "keyring"
<1>1. ASSUME InductiveInv, Next
      PROVE  A
  <2> USE DEF TypeOK, fixed, private, history, Goto
  <2>1. PICK q \in Runs : Step(q)
    BY <1>1 DEF Next
  <2>2. TypeOK /\ RunInv(q)
    BY <1>1 DEF InductiveInv
  <2>3. \A r \in Runs : pc'[r] # pc[r] => r = q
    BY <2>1, <2>2 DEF Step, ConfigError, Start, Delete, Clear, DeleteFails, Choose, WordsError,
                      PrintSitesFails,
       Describe, Read, LoadFound, LoadNothing, LoadFails, TakeSeed, Prompt, PromptFails, Confirm,
       Save, SaveFails, PrintSite, SiteFails, OutputFails, Learn
  <2>4. SUFFICES ASSUME LeavesKeyringAlone(args[q])
                 PROVE  keyring' = keyring /\ source'[q] # "keyring"
    BY <2>3
  <2>5. ~ use[q] \/ args[q].mode = "print sites"
  \/ (args[q].mode = "describe" /\ args[q].sites # <<>>)
    BY <2>2, <2>4 DEF LeavesKeyringAlone, RunInv, Allowed, SeedKeyring
  <2>6. pc[q] \in Unseeded \cup {"confirm", "save", "site", "learn"}
    BY <2>1 DEF Step, ConfigError, Start, Delete, Clear, DeleteFails, Choose, WordsError,
                PrintSitesFails,
       Describe, Read, LoadFound, LoadNothing, LoadFails, TakeSeed, Prompt, PromptFails, Confirm,
       Save, SaveFails, PrintSite, SiteFails, OutputFails, Learn, Unseeded
  <2>7. source[q] # "keyring"
    <3>1. CASE pc[q] \in Unseeded
      BY <2>2, <3>1, SeedAssumption DEF RunInv, Ordered
    <3>2. CASE pc[q] \in {"confirm", "save", "site", "learn"}
      BY <2>2, <2>5, <3>2 DEF RunInv, Allowed
    <3> QED
      BY <2>6, <3>1, <3>2
  <2>8. pc[q] \notin {"delete", "load", "save"}
    BY <2>2, <2>4, <2>5 DEF LeavesKeyringAlone, RunInv, Allowed
  <2> QED
    BY <2>1, <2>2, <2>7, <2>8 DEF Step, ConfigError, Start, Delete, Clear, DeleteFails, Choose,
           WordsError, PrintSitesFails,
       Describe, Read, LoadFound, LoadNothing, LoadFails, TakeSeed, Prompt, PromptFails, Confirm,
       Save, SaveFails, PrintSite, SiteFails, OutputFails, Learn
<1>2. ASSUME UNCHANGED vars
      PROVE  A \/ UNCHANGED vars
  BY <1>2
<1>3. InductiveInv /\ [Next]_vars => [A]_vars
  BY <1>1, <1>2
<1> QED
  BY <1>3, InductiveInvCorrect, PTL DEF Spec, KeyringUntouched

(* After a missed learn attempt nothing more is printed. (main.rs 194-208)  *)
THEOREM NothingAfterAMiss == Spec => MissStopsTheRun
<1> DEFINE A == \A r \in Runs : output'[r] # output[r] =>
                    misses[r] = 0 /\ (output[r] = <<>> \/ tries[r] = args[r].learn
                                      \/ args[r].mode = "describe")
<1>1. ASSUME InductiveInv, Next
      PROVE  A
  <2> USE DEF TypeOK, fixed, private, history, Goto
  <2>1. PICK q \in Runs : Step(q)
    BY <1>1 DEF Next
  <2>2. TypeOK /\ RunInv(q)
    BY <1>1 DEF InductiveInv
  <2>3. CASE PrintSite(q)
    BY <2>2, <2>3 DEF PrintSite, RunInv, Learned
  <2>4. CASE Describe(q)
    BY <2>2, <2>4 DEF Describe, RunInv, Ordered
  <2>5. CASE OutputFails(q)
    BY <2>2, <2>5 DEF OutputFails, RunInv, Learned, Ordered
  <2>6. CASE ~ (PrintSite(q) \/ Describe(q) \/ OutputFails(q))
    BY <2>1, <2>6 DEF Step, ConfigError, Start, Delete, Clear, DeleteFails, Choose, WordsError,
                      PrintSitesFails,
       Read, LoadFound, LoadNothing, LoadFails, TakeSeed, Prompt, PromptFails, Confirm,
       Save, SaveFails, SiteFails, Learn
  <2> QED
    BY <2>3, <2>4, <2>5, <2>6
<1>2. InductiveInv /\ [Next]_vars => [A]_vars
  BY <1>1
<1> QED
  BY <1>2, InductiveInvCorrect, PTL DEF Spec, MissStopsTheRun

=============================================================================

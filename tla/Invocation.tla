------------------------------ MODULE Invocation ------------------------------
(***************************************************************************)
(* Runs of the onepass command: main and the seed password it reads from   *)
(* the OS keyring or from the terminal.  Several runs may be under way at  *)
(* once; the keyring entry is all they share.                              *)
(* (src/main.rs, src/seed_password/mod.rs, src/seed_password/keyring)      *)
(*                                                                         *)
(* A run stops at every call that another run or the user can come between *)
(* with: a keyring call, a prompt, a line of output.                       *)
(***************************************************************************)
EXTENDS Integers, Sequences, FiniteSets

CONSTANTS
    Runs,            \* the runs of the command
    Seeds,           \* what a user may type at a prompt
    NoEntry,         \* the keyring holds no seed
    None,            \* no seed read
    Builds,          \* of TRUE and FALSE: FALSE is a build with cfg(keyring = "no")
    Sites,           \* the SITE arguments
    BadSites,        \* those that find_site or the derivation refuses
    CommandLines,    \* the arguments a run may be started with
    Starts           \* the command lines the runs are started with together

(* clap refuses -k together with -K: keyring is one of three. *)
ArgsType ==
    [keyring : {"-k", "-K", "default"}, stdin : BOOLEAN, reset : BOOLEAN, confirm : BOOLEAN,
     mode : {"password", "describe", "print sites"}, sites : Seq(Sites), learn : Nat]

ASSUME ArgsAssumption == CommandLines \subseteq ArgsType
ASSUME SeedAssumption == NoEntry \notin Seeds /\ None \notin Seeds \cup {"typed", "keyring"}
ASSUME StartAssumption == Builds \subseteq BOOLEAN /\ Starts \subseteq [Runs -> CommandLines]

VARIABLES
    keyring,     \* the OS keyring entry: a seed or NoEntry
    setting,     \* global.keyring.seed of the configuration
    supported,   \* whether the build supports a keyring
    pc,          \* pc[r]: the call that run r makes next
    args,        \* args[r]: its command line
    use,         \* use[r]: seed_keyring, then use_keyring of read
    seed,        \* seed[r]: the seed password it works with
    source,      \* source[r]: where that seed came from
    output,      \* output[r]: what it printed, <<site, seed>> each
    tries,       \* tries[r]: the learn attempts at the current site
    misses,      \* misses[r]: those that did not match
    vouched,     \* history: vouched[r] holds once a confirmation matched
    vetted,      \* history: the seeds cached at first or confirmed since
    resaved      \* history: resaved[r] holds once another run saved after r's reset

fixed == <<setting, supported>>
private == <<args, use, seed, source, output, tries, misses, vouched>>
history == <<vetted, resaved>>
vars == <<keyring, fixed, pc, private, history>>

Ended == {"done", "usage", "mismatch", "keyring error", "reset failed", "config error",
          "prompt failed", "site failed", "learn failed", "output failed"}

Goto(r, label) == pc' = [pc EXCEPT ![r] = label]

(* What runs once the seed is not needed, or has been read. *)
AfterSeed(r) == IF args[r].sites = <<>> THEN "done" ELSE "site"

-----------------------------------------------------------------------------
Init ==
    /\ supported \in Builds
    /\ keyring \in (IF supported THEN Seeds \cup {NoEntry} ELSE {NoEntry})
    /\ setting \in {"Unspecified", "Off", "Cache"}
    /\ pc = [r \in Runs |-> "start"]
    /\ args \in Starts
    /\ use = [r \in Runs |-> FALSE]
    /\ seed = [r \in Runs |-> None]
    /\ source = [r \in Runs |-> None]
    /\ output = [r \in Runs |-> <<>>]
    /\ tries = [r \in Runs |-> 0]
    /\ misses = [r \in Runs |-> 0]
    /\ vouched = [r \in Runs |-> FALSE]
    /\ vetted = {keyring} \ {NoEntry}
    /\ resaved = [r \in Runs |-> FALSE]

(* A slip: the file goes before -K and --stdin. *)
SettingFirst(a) ==
    a.keyring = "-k" \/ setting = "Cache" \/ (setting = "Unspecified" /\ supported)

(* Whether the keyring is used: -K, then -k, then --stdin, then the file. *)
SeedKeyring(a) ==
    \/ a.keyring = "-k"
    \/ /\ a.keyring = "default"
       /\ ~ a.stdin
       /\ \/ setting = "Cache"
          \/ setting = "Unspecified" /\ supported

ConfigError(r) ==
    /\ pc[r] = "start"
    /\ Goto(r, "config error")
    /\ UNCHANGED <<keyring, fixed, private, history>>

Start(r) ==
    /\ pc[r] = "start"
    /\ use' = [use EXCEPT ![r] = SeedKeyring(args[r])]
    /\ Goto(r, IF args[r].reset THEN "delete" ELSE "choose")
    /\ UNCHANGED <<keyring, fixed, args, seed, source, output, tries, misses, vouched, history>>

Clear(r, entry) ==
    /\ pc[r] = "delete"
    /\ supported
    /\ keyring' = entry
    /\ resaved' = [resaved EXCEPT ![r] = FALSE]
    /\ Goto(r, "choose")
    /\ UNCHANGED <<fixed, private, vetted>>

(* A slip: the entry stays. *)
DeleteNothing(r) == Clear(r, keyring)

(* delete(): get_entry fails in a build without keyring support, where the *)
(* null store's build returns NoEntry before there is an entry to delete.  *)
Delete(r) == Clear(r, NoEntry)

DeleteFails(r) ==
    /\ pc[r] = "delete"
    /\ Goto(r, "reset failed")
    /\ UNCHANGED <<keyring, fixed, private, history>>

(* print_sites; no SITE argument; describe; or the seed password is read. *)
Choose(r) ==
    /\ pc[r] = "choose"
    /\ LET a == args[r]
       IN  Goto(r, CASE a.mode = "print sites" -> "done"
                     [] a.mode # "print sites" /\ a.sites = <<>> ->
                          IF a.confirm THEN "read" ELSE IF a.reset THEN "done" ELSE "usage"
                     [] a.mode = "describe" /\ a.sites # <<>> -> "describe"
                     [] OTHER -> "read")
    /\ UNCHANGED <<keyring, fixed, private, history>>

(* The words file cannot be read. *)
WordsError(r) ==
    /\ pc[r] = "choose"
    /\ args[r].mode # "print sites"
    /\ args[r].sites # <<>>
    /\ Goto(r, "config error")
    /\ UNCHANGED <<keyring, fixed, private, history>>

(* A site cannot be printed: println! panics. *)
PrintSitesFails(r) ==
    /\ pc[r] = "choose"
    /\ args[r].mode = "print sites"
    /\ Goto(r, "output failed")
    /\ UNCHANGED <<keyring, fixed, private, history>>

Describe(r) ==
    /\ pc[r] = "describe"
    /\ LET i == Len(output[r]) + 1
           s == args[r].sites[i]
       IN  IF i > Len(args[r].sites) THEN Goto(r, "done") /\ UNCHANGED output
           ELSE IF s \in BadSites THEN Goto(r, "site failed") /\ UNCHANGED output
           ELSE output' = [output EXCEPT ![r] = Append(@, <<s, None>>)] /\ UNCHANGED pc
    /\ UNCHANGED <<keyring, fixed, args, use, seed, source, tries, misses, vouched, history>>

-----------------------------------------------------------------------------
(* seed_password::read *)

Read(r) ==
    /\ pc[r] = "read"
    /\ use' = [use EXCEPT ![r] = @ /\ supported]
    /\ Goto(r, IF use'[r] THEN "load" ELSE "prompt")
    /\ UNCHANGED <<keyring, fixed, args, seed, source, output, tries, misses, vouched, history>>

(* The run works with seed s from now on. *)
TakeSeed(r, s, from, next) ==
    /\ seed' = [seed EXCEPT ![r] = s]
    /\ source' = [source EXCEPT ![r] = from]
    /\ Goto(r, next)
    /\ UNCHANGED <<keyring, fixed, args, use, output, tries, misses, vouched, history>>

AfterLoad(r) == IF args[r].confirm THEN "confirm" ELSE AfterSeed(r)

(* Slips: a missing entry is taken for a seed; --confirm is only for a seed *)
(* that is typed.                                                          *)
LoadAnything(r) ==
    pc[r] = "load" /\ TakeSeed(r, keyring, "keyring", AfterLoad(r))

LoadUnconfirmed(r) ==
    pc[r] = "load" /\ keyring # NoEntry /\ TakeSeed(r, keyring, "keyring", AfterSeed(r))

LoadFound(r) ==
    pc[r] = "load" /\ keyring # NoEntry /\ TakeSeed(r, keyring, "keyring", AfterLoad(r))

LoadNothing(r) ==
    /\ pc[r] = "load"
    /\ keyring = NoEntry
    /\ Goto(r, "prompt")
    /\ UNCHANGED <<keyring, fixed, private, history>>

(* The keyring is locked, the user refuses, the service is not there. *)
LoadFails(r) ==
    /\ pc[r] = "load"
    /\ Goto(r, "keyring error")
    /\ UNCHANGED <<keyring, fixed, private, history>>

(* A slip: what goes to the keyring is not confirmed. *)
AfterPromptOnce(r) ==
    IF args[r].confirm THEN "confirm" ELSE IF use[r] THEN "save" ELSE AfterSeed(r)

AfterPrompt(r) == IF use[r] \/ args[r].confirm THEN "confirm" ELSE AfterSeed(r)

Prompt(r) ==
    pc[r] = "prompt" /\ \E s \in Seeds : TakeSeed(r, s, "typed", AfterPrompt(r))

(* readpassphrase or getpass returns an error. *)
PromptFails(r) ==
    /\ pc[r] \in {"prompt", "confirm", "learn"}
    /\ Goto(r, "prompt failed")
    /\ UNCHANGED <<keyring, fixed, private, history>>

(* check_confirm: whatever the source, the confirmation is typed. *)
Confirm(r) ==
    /\ pc[r] = "confirm"
    /\ \E s \in Seeds :
          /\ vouched' = [vouched EXCEPT ![r] = (s = seed[r])]
          /\ vetted' = IF s = seed[r] THEN vetted \cup {s} ELSE vetted
          /\ Goto(r, IF s # seed[r] THEN "mismatch"
                     ELSE IF use[r] /\ source[r] = "typed" THEN "save" ELSE AfterSeed(r))
    /\ UNCHANGED <<keyring, fixed, args, use, seed, source, output, tries, misses, resaved>>

Save(r) ==
    /\ pc[r] = "save"
    /\ keyring' = seed[r]
    /\ resaved' = [q \in Runs |-> q # r \/ resaved[q]]
    /\ Goto(r, AfterSeed(r))
    /\ UNCHANGED <<fixed, private, vetted>>

SaveFails(r) ==
    /\ pc[r] = "save"
    /\ Goto(r, "keyring error")
    /\ UNCHANGED <<keyring, fixed, private, history>>

-----------------------------------------------------------------------------
(* One password per site; after each, the learn attempts at it *)

NextSite(r) == args[r].sites[Len(output[r]) + 1]
AfterSite(r, printed) == IF Len(printed) = Len(args[r].sites) THEN "done" ELSE "site"

PrintSite(r) ==
    /\ pc[r] = "site"
    /\ NextSite(r) \notin BadSites
    /\ output' = [output EXCEPT ![r] = Append(@, <<NextSite(r), seed[r]>>)]
    /\ tries' = [tries EXCEPT ![r] = 0]
    /\ misses' = [misses EXCEPT ![r] = 0]
    /\ Goto(r, IF args[r].learn > 0 THEN "learn" ELSE AfterSite(r, output'[r]))
    /\ UNCHANGED <<keyring, fixed, args, use, seed, source, vouched, history>>

SiteFails(r) ==
    /\ pc[r] = "site"
    /\ NextSite(r) \in BadSites
    /\ Goto(r, "site failed")
    /\ UNCHANGED <<keyring, fixed, private, history>>

(* The output is closed or full: before the line is out, or with its end    *)
(* still to come.                                                           *)
OutputFails(r) ==
    /\ pc[r] \in {"site", "describe"}
    /\ Len(output[r]) < Len(args[r].sites)
    /\ NextSite(r) \notin BadSites
    /\ output' \in {output, [output EXCEPT ![r] = Append(@, <<NextSite(r), seed[r]>>)]}
    /\ Goto(r, "output failed")
    /\ UNCHANGED <<keyring, fixed, args, use, seed, source, tries, misses, vouched, history>>

(* A slip: missed attempts are counted, and the run goes on. *)
MissGoesOn(r, missed) == AfterSite(r, output[r])

AfterLearn(r, missed) == IF missed # 0 THEN "learn failed" ELSE AfterSite(r, output[r])

(* One learn attempt: the user retypes the password, or misses. *)
Learn(r) ==
    /\ pc[r] = "learn"
    /\ \E missed \in {0, 1} :
          /\ misses' = [misses EXCEPT ![r] = @ + missed]
          /\ tries' = [tries EXCEPT ![r] = @ + 1]
    /\ Goto(r, IF tries'[r] < args[r].learn THEN "learn" ELSE AfterLearn(r, misses'[r]))
    /\ UNCHANGED <<keyring, fixed, args, use, seed, source, output, vouched, history>>

-----------------------------------------------------------------------------
Step(r) ==
    \/ ConfigError(r) \/ Start(r) \/ Delete(r) \/ DeleteFails(r) \/ Choose(r) \/ WordsError(r)
    \/ PrintSitesFails(r) \/ Describe(r) \/ Read(r) \/ LoadFound(r) \/ LoadNothing(r)
    \/ LoadFails(r)
    \/ Prompt(r) \/ PromptFails(r) \/ Confirm(r) \/ Save(r) \/ SaveFails(r)
    \/ PrintSite(r) \/ SiteFails(r) \/ OutputFails(r) \/ Learn(r)

Next == \E r \in Runs : Step(r)

Spec == Init /\ [][Next]_vars

-----------------------------------------------------------------------------
(* Properties *)

(* Every variable has its type. *)
TypeOK ==
    /\ keyring \in Seeds \cup {NoEntry}
    /\ setting \in {"Unspecified", "Off", "Cache"}
    /\ supported \in Builds
    /\ pc \in [Runs -> Ended \cup {"start", "delete", "choose", "describe", "read", "load",
                                 "prompt", "confirm", "save", "site", "learn"}]
    /\ args \in [Runs -> CommandLines]
    /\ use \in [Runs -> BOOLEAN]
    /\ seed \in [Runs -> Seeds \cup {None}]
    /\ source \in [Runs -> {None, "typed", "keyring"}]
    /\ output \in [Runs -> Seq(Sites \X (Seeds \cup {None}))]
    /\ tries \in [Runs -> Nat]
    /\ misses \in [Runs -> Nat]
    /\ vouched \in [Runs -> BOOLEAN]
    /\ vetted \subseteq Seeds
    /\ resaved \in [Runs -> BOOLEAN]

(* However runs interleave, the keyring never holds, and a run that uses it *)
(* never prints from, a seed password that was typed only once: a slip of   *)
(* the fingers is not cached.  (seed_password/mod.rs 19-36)                 *)
OnlyVettedSeedsCached ==
    /\ keyring \in vetted \cup {NoEntry}
    /\ \A r \in Runs : \A i \in DOMAIN output[r] :
         use[r] /\ args[r].mode = "password" => output[r][i][2] \in vetted

(* With --confirm, nothing is printed before a confirmation of the very     *)
(* seed it is printed from matched, cached or not. (mod.rs 20-32)           *)
ConfirmBeforeOutput ==
    \A r \in Runs :
        args[r].confirm /\ args[r].mode = "password" =>
            /\ output[r] # <<>> \/ pc[r] = "done" => vouched[r]
            /\ \A i \in DOMAIN output[r] : output[r][i][2] = seed[r]

(* After -r a run does not find the seed it cleared: it asks again, unless  *)
(* another run confirmed and saved one in between. (main.rs 134-136, 187)   *)
ResetAsksAgain ==
    \A r \in Runs :
        args[r].reset /\ source[r] = "keyring" => resaved[r]

(* The runs that must not touch the keyring: those with -K, with --stdin or *)
(* seed = "off" but no -k, and those that need no seed. (main.rs 112-184)   *)
LeavesKeyringAlone(a) ==
    /\ ~ a.reset
    /\ \/ a.keyring = "-K"
       \/ (a.stdin \/ setting = "Off") /\ a.keyring # "-k"
       \/ a.mode = "print sites"
       \/ a.mode = "describe" /\ a.sites # <<>>

(* Such a run takes no seed from the keyring and no step of it changes it.  *)
KeyringUntouched ==
    [][\A r \in Runs : LeavesKeyringAlone(args[r]) /\ pc'[r] # pc[r] =>
          keyring' = keyring /\ source'[r] # "keyring"]_vars

(* A run that succeeds printed every site, in order, all from one seed, and *)
(* missed no learn attempt; one that fails printed the first of its sites,  *)
(* in order, and nothing else. (main.rs 188-209)                            *)
SuccessIsComplete ==
    \A r \in Runs : args[r].mode = "password" =>
        /\ Len(output[r]) <= Len(args[r].sites)
        /\ \A i \in DOMAIN output[r] : output[r][i] = <<args[r].sites[i], seed[r]>>
        /\ pc[r] = "done" => Len(output[r]) = Len(args[r].sites) /\ misses[r] = 0

(* No site is printed after a learn attempt that missed. (194-208)          *)
MissStopsTheRun ==
    [][\A r \in Runs : output'[r] # output[r] =>
          misses[r] = 0 /\ (output[r] = <<>> \/ tries[r] = args[r].learn
          \/ args[r].mode = "describe")]_vars

(* disk.rs 122: "Store the seed in the OS keyring, fallback to              *)
(* readpassphrase on error."                                                *)
KeyringErrorFallsBack ==
    \A r \in Runs :
        pc[r] = "keyring error" /\ source[r] = None /\ args[r].keyring = "default" =>
            setting # "Cache"

=============================================================================

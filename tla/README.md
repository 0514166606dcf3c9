# onepass in TLA+

TLA+ modules that model onepass (the command, its configuration crate and its
seed crate), TLC configurations that check them on small instances, and proofs
about them that the TLA+ proof system checks for every value of the constants.
Paths are relative to the repository; `lib.rs` without a crate is
`crates/conf/src/lib.rs`, `mod.rs` is `src/seed_password/mod.rs`.

onepass derives a password from a seed password, a site and a *schema*: nothing
is stored but configuration. A wrong answer anywhere (a stale increment, a
schema of another site, a seed with a typing error) is therefore not an error
message but another password. The properties here are mostly about that.

## 1. The system

| component | state | operations | how it interacts |
|---|---|---|---|
| command line, `src/main.rs` | the arguments, which seed password is in use, what was printed | configuration, reset, print sites, describe, read the seed, one password per site, learn | calls every other component, in an order that its early returns decide |
| seed password, `src/seed_password` | the OS keyring entry, shared with every other run | `read`, `delete`, load, save, confirm | called by main; prompts the user; a build without a keyring has a null store |
| configuration loader, `lib.rs` `from_file` | queue of includes, visited set, the merged `[global]`, the concatenated sites | open base, pop, merge, fail | reads files; hands the sites to the site table |
| configuration initialization, `lib.rs` `from_or_init`, and directories, `dirs.rs` `config_dir` | the files at the two places a default path can be, shared with other runs and the user's editor; the environment | choose the place, load, `fs::exists`, `fs::create_dir`, `fs::write` | around the loader |
| site table, `lib.rs` `from_global_site`, `find_site` | a map by (URL, username), then a sorted list with two indexes | merge, build, look up, resolve schema | filled by the loader, asked by main |
| character classes, `expr/chars.rs` | the vector of ranges and two cursors | `from_ranges`, `size`, `nth` | made by the parser, used by schema evaluation |
| schema evaluation, `expr/node.rs`, `expr/util.rs`, `crypto.rs` | a 256-bit size, an index that is used up | `size`, `secret_uniform`, `write_to` | asks generators and classes |
| generators and their context, `expr/generator.rs`, `expr/context.rs` | dictionaries by hash, the default one | `{word}`, `{words}` | the default dictionary is the words file main read |
| schema parser `expr/parse.rs` | the rest of the text | `FromStr` of `Node` | makes the schemas that evaluation and the canonical format take |
| canonical format `expr/repr.rs`, site derivation `site.rs`, `macros.rs`, `fmt.rs` | none | `Display` of a schema and of a site | the text of a site is what the salt of its secret is the hash of |
| dictionaries `dict.rs` of the base crate, `build.rs` of the seed crate | a backing string, the spans of its words in order and without duplicates, their hash | `from_lines`, `from_sep`, `from_iter`, `word`, `len` | made by main from a words file, or at build time; kept in the context by hash |
| URL normalization `url.rs`, build and packaging | none | | not modelled |

Hard behaviours, with the properties each component has to have:

- **Site table.** The answer to a lookup depends on the *order* in which files
  are merged, on positions in a sorted list, and on which key of a URL comes
  first. Right means: the highest increment ever given, the last schema, never
  two different data fields in one entry, and lookups that agree with the three
  rules documented at `find_site`. A false "not found" is silent, because main
  goes on with an unconfigured site.
- **Loader.** Includes make cycles and diamonds, also through symlinks. Right
  means: everything reached is merged, once, nearest first; the last file wins;
  the error kind `NotFound` is kept for what is missing; every load ends.
- **Initialization and directories.** Check-then-write on a shared file,
  `fs::write` in two system calls, processes killed in between; the place is
  chosen by looking for a directory that another run may be about to create.
  Right means: nothing but an absent file is replaced by intent, an empty
  configuration is only ever a half-written one, and two runs in one environment
  derive from one configuration.
- **Command and seed password.** Two runs race for one keyring entry; any
  prompt or keyring call may fail. Right means: a seed typed once is not cached,
  `--confirm` holds up all output, `-K` and `--stdin` keep away from the
  keyring, a run that succeeds printed all its sites from one seed.
- **Character classes.** An in-place merge with two cursors over code points
  that have a hole (the surrogates).
- **Schema texts and derivation.** The salt of a site is a text. Right means:
  the parser makes schemas the other parts can take; two schemas that derive
  different passwords have different texts; the text of a schema is itself a
  schema, of the same meaning; the fields of a site can be told from its text.
- **Schema evaluation.** Mixed-radix numbering in arithmetic that saturates.
  Right means: as many indexes as passwords, one index per password, no
  assertion that fails after the size was computed, and a password that does not
  fit into the buffer refused as a whole.
- **Dictionaries.** The hash of a word list goes into the salt and picks the list
  at evaluation. Right means: however the words are written down, the same words
  give the same hash and other words another one, and no word counts twice.

PROJECT.json lists the hazards one by one, at their lines.

## 2. Modules

| module | models | variables and actions |
|---|---|---|
| `SiteTable` | `from_global_site`, `find_site`, `default_schema`, `resolve_schema`, main's `lookup_site` | `map` is the BTreeMap; `site`, `siteByUrl`, `siteByKey` are the fields of `Config`. One action per outcome of a loop iteration (`RejectUrl`, `InsertSite`, `MergeSite`, `DataConflict`), then `Build`. Lookups are operators: they change nothing. `seen`, the raw sites consumed, is a history |
| `ConfigFiles` | what is on the disk: the files, the paths in them, `expand_home`, `resolve_path`, the include graph | `disk`, `path`, `homeSet`, which no step changes. Symlinks and `..` are in the constant `Locate` (what a path canonicalizes to). `Reached` is what the base file reaches, told without a queue |
| `ConfigPromise` | nothing in particular: what loading a configuration promises | one variable, `outcome`, that goes in one step from "loading" to an error, a panic or the answers to all lookups; which answers, is told from the set of reached files, without an order. It ends |
| `ConfigLoad` | `from_file` up to `from_global_site`, `Global::merge` | extends `ConfigFiles`. `includes`, `visited`, `global`, `sites` as in the code; `order` is a history. `OpenBase`, `BaseFails`, then one action per outcome of an iteration, then `Finish` |
| `Config` | `ConfigLoad` and `SiteTable` one after the other | `Table == INSTANCE SiteTable`; `MergeNext` feeds it the concatenated sites in order. `Promise == INSTANCE ConfigPromise WITH outcome <- Outcome`: the refinement mapping takes the answers of `find_site` from the finished table |
| `Invocation` | `main` and `src/seed_password`, several runs at once | `keyring` is shared, everything else is indexed by run. `pc` stops wherever another run or the user can come between: keyring calls, prompts, lines of output. What the code propagates or panics at is an action of its own (`LoadFails`, `PromptFails`, `PrintSitesFails`, `OutputFails`, ...) |
| `ConfigInit` | `from_or_init`, `config_dir`, `config_home`; several runs at once, an editor, kills | `file` and `dir` are shared, one of each per place; `env` is a run's environment, `pc` its next system call. `fs::write` is two steps, open-and-truncate and write; `opened` says where the open file is after the user moved or replaced it. `ExistsFails`, `OpenFails` and `WriteFails` are the calls whose errors end the run; that of `create_dir` is ignored |
| `CharRanges` | `Chars::from_ranges`, `next_char`, `size`, `nth` | `ranges`, `i`, `j` as in the code (cursors count from 1); `Sort`, `Extend`, `Advance`, `EndLoop`, `Drain` |
| `SchemaText` | the parser and the canonical format | operators over sequences of tokens: one per parser of `parse.rs`, with nom's three outcomes (a value and the rest, an error that lets the next alternative try, a failure that ends the parse), and one per writer of `repr.rs` and `generator.rs`. What recurses is a function: of the positions of the text, from right to left, for the parser (`Nodes(t)[p]` is what `many1(parse_count)` gives at `p`; a list asks for the nodes after its parenthesis); of the nodes for the writers. `MaxDepth` bounds how deep nodes are nested, so that there is a set of them (`Node`) |
| `Derivation` | `Site::new`, `Display` of `Site`, the TSV fields | `site`, `node` and `derivation` are the fields, the parsed schema and the text. `NewSite`, `SchemaRejected`, `Display`, `DisplayPanics` (an unknown generator), and `ParseAgain`, which parses what was displayed |
| `Dict` | `BoxDict`, `canonicalize`, `adopt`, `compact`, `Lines`, `TsvField`, the word list of `build.rs` | operators over sequences of bytes: the spans of the words in the backing, trimmed, without empty ones, sorted, deduplicated, hashed. `WordsIn` tells the words of a text without sorting, for the properties |
| `SchemaEval` | `Node::size`, `Node::write_to`, `Word`, `Words`, the context, `u256_saturating_pow`, `write_password_into`, `password`, main's words file | extends `Dict`. A schema is a tree of records: the constant `Height`, whose domain is the schemas and their parts, is lower for a part than for the whole. `LoadWords`, then `Measure`, `Sample`, `WritePassword` for the three calls of `write_password_into`. `SizeAt`, `WriteAt`, `LanguageAt`, ... say what a node comes to, given what its parts come to; `NodeSize`, `Write`, `Language`, ... are the recursive functions made of them. `MaxU` stands for `U256::MAX`, `MaxCount` for `u32::MAX`, `BufferSize` for 4096 |

`SiteTable_proofs`, `CharRanges_proofs`, `ConfigInit_proofs`, `Config_proofs`
(of `ConfigLoad` and of `Config`), `Invocation_proofs`, `SchemaEval_proofs` (of
`Dict` and of `SchemaEval`) and `Derivation_proofs` hold the proofs, `Recursion`
what they need of induction, recursion and the order of finite sets; the `MC`
modules hold the instances TLC runs.

What the models abstract, and why that loses nothing the properties speak of:

- URLs are numbers in the order of their normal form, and `NormalOf` says which
  spellings normalize to what (0: `normalize` fails). Usernames are numbers,
  `None` first, as in `Option<String>`.
- A raw increment that is absent is 0: `Option` orders `None` before `Some(0)`,
  and the merged entry ends in `unwrap_or(0)`.
- The contents of a file are what `toml` makes of it, or `Malformed`.
- In `ConfigInit` the content of a file is what loading it gives (`ConfigLoad`
  shows which files give `NotFound`). A path given on the command line may lead
  to any file: nothing but the result of loading it matters, since that file is
  never written.
- The hash of a word list is the text that BLAKE2b is fed: the model takes it to
  have no collisions. A separator of `from_sep` is one byte, blanks are ASCII.
- What a schema writes is kept as its derivation: which character, word and
  repetition was chosen where. The number of bytes it is
  written with is kept too. A derivation begins with the kind of its node, which
  only tells the derivations of different nodes apart. Two derivations may spell
  the same text; the code makes no claim about that.
- A schema text is a sequence of tokens: single characters, but one token for a
  word of the language, a dictionary hash or the digits of `\x`. 30 characters
  stand for Unicode, in the order of their code points, with the neighbours that
  matter kept next to each other (`,` `-` `.` and `[` `\` `]`). One control
  character, `Tab`, stands for `\n`, `\r` and `\t`: the code escapes each in a way
  of its own that is read back alike. `\u` and hex escapes of other characters,
  and counts that do not fit into a u32, are left out. What a URL or the version
  of a derivation is made of besides (`OtherTokens`, `Version`) is no token of a
  schema.
- `MaxDepth` is no limit of the code: `SiteAssumption` asks for more than two
  levels per token of each schema, and the proof shows that the parser then never
  leaves `Node`.
- Argon2 and ChaCha20 are a free choice of an index below the size.

Each module also has operators commented as *slips*: plausible mistakes in the
definition that follows them. They are used by no specification; PROJECT.json
names the property that fails if the definition is replaced by its slip.

## 3. Runs

`tlc -config <cfg> <module>`; every run ends within three minutes on two workers.

| run | instance | what it shows |
|---|---|---|
| `site_table` | every list of up to 3 raw sites: 2 URLs in 3 spellings and an invalid one, 3 usernames, all field values | merging (increments, schemas, URLs and comments) and all lookups agree with a description of the raw sites that has no merge in it (`MergeInv`, `LookupsAreDocumented`, `OrderOnlyMovesSchemas`), printed sites can be looked up, data never mixes |
| `config` | include graphs of 3 files with up to 2 includes each (the last up to 1), missing and malformed ones among them; 4 files where the base has up to 2 includes and the others up to 1; 3 graphs (diamond, chain with a cycle, cross) with every combination of settings, and with up to 5 sites, an invalid URL and data that disagree among them | what is reached is merged once, breadth first; the last file wins, for the default schema, the keyring setting, each alias and `words_path`, which is relative to that file; error kinds; the schema of the last file that gives one; and `KeepsPromise`: the traversal, the merge loop and the indexes together implement `ConfigPromise`, safety and termination: the highest increment of *any* reached file, no answer from part of the files, errors that some file explains |
| `invocation` | one run with each of the 576 command lines, and all pairs of 16 keyring command lines racing; both builds, every setting, every initial entry | `OnlyVettedSeedsCached`, `ResetAsksAgain`, `ConfirmBeforeOutput`, `SuccessIsComplete`, `KeyringUntouched` (with `-K`, `--stdin` or `seed = "off"`) and `MissStopsTheRun` |
| `config_init` | 2 runs in any two environments over 2 places (`$HOME/.config`, and a directory the variables may name), every state of both places, 2 edits or moves, kills at any step | `OnlyWritesWhatWasAbsent`, `EmptyOnlyWhileWriting`, `DanglingIsNotMissing`, and `RunsAgree`: runs in one environment use one place |
| `char_ranges` | every list of up to 4 ranges over 7 code points, 2 of them surrogates | same characters, canonical ranges, `nth` enumerates; the loop invariant that is proved in general |
| `schema_eval` | some 1200 schemas two levels deep, 6-bit integers, counts up to 5, a buffer of 5 bytes, each with no words file, an empty one, one word and three words of different lengths; and some 700 word lists (lines, separated fields, iterators) with blanks, newlines and backslashes | size is the number of derivations, measuring refuses generators without words and counts out of range and nothing else (`PanicsAreDeserved`), the indexes enumerate the derivations, nothing fails after measuring but a password too long for the buffer, which is refused as a whole; the hash of a list stands for its words |
| `derivation` | every text of up to 5 of 7 pieces (a character, a class, a generator, two counts, parentheses) and of up to 3 of 12 with escapes, odd counts and refused forms; every class of up to 4 of 8 pieces; every `{word}` and `{words}` of up to 4 of 7; every text of up to 5 of 4 pieces inside parentheses, after a string or before a count; usernames of up to 3 of tab, backslash and letters | schemas are well formed; the canonical format reads back with the same meaning, and is its own canonical format, exactly for the schemas `Unambiguous` describes, and what is read then is tidy; a tidy schema is read as itself; the fields can be told from the text of a site |
| `words_path`, `keyring_error`, `count_remainder`, `word_list`, `shared_text` | as above | the five disagreements of section 5 |

Why the bounds are enough: three raw sites of one key are what it takes for a
first, a middle and a last value of each field, and three keys of one URL give
a lookup neighbours on both sides. Three files are the smallest number with a
diamond, a cycle that does not pass the base, and a farther includer that is
merged later; the fourth tells breadth first from depth first. Two runs are all
a keyring race needs, since a run only sees that the entry changed; the proofs
of `Invocation` and `ConfigInit` hold for any number. Two places are all that
`config_dir` ever compares. Two edits let a file be removed and come back
between two system calls of one run. Five pieces of schema text are what a count of a count, or a string
before a count of a string, takes with its parentheses; two more around them
nest parentheses, which is where `Unambiguous` was wrong before (section 6).
Four pieces of a class hold a range on each side of a hyphen. Four ranges put the two cursors of
`from_ranges` two apart with a range still to come. Six bits let every product
in a two-level schema both fit and saturate; all of U256's algebra in `node.rs`
is independent of the width, and the panics that were found were recomputed at
256 bits. Five bytes of buffer are one less than the longest of the passwords;
four bytes of a words file hold two words with blanks around them, or a word
with an escape in it.

Deadlock is not checked: every one of these programs stops.

## 4. Fairness

- `Config`: weak fairness of the next step, used for the termination that
  `KeepsPromise` promises. The load is one thread without locks that nothing
  waits for.
- The other modules state no liveness and no fairness. No run of `Invocation`
  goes back to a prompt, so that a run ends if its prompts are answered; there
  is no loop whose end would be worth a property. It is *not* assumed that the
  user answers correctly or that the keyring and the output work: every prompt,
  keyring call and line of output has its failing alternative.

## 5. Where code and text disagree

Each is a run that TLC ends with a violation of one property.

1. `words_path` (`WordsPathOfItsFile`): `disk.rs:56-57` says paths are
   interpreted relative to their file. That is so in included files, where
   `Global::merge` resolves `words_path`; in the base file nothing does, so it
   is opened relative to the working directory.
2. `keyring_error` (`KeyringErrorFallsBack`): `disk.rs:122` says of
   `seed = "cache"`: "fallback to readpassphrase on error". `read` returns the
   error.
3. `count_remainder` (`RemainderIsZero`): `node.rs:66` asserts that the division
   in a count's closed form leaves no remainder. It does when n^(max+1)
   saturates and n^min does not. At 256 bits `[A-Za-z0-9]{42}`, `[0-9a-f]{63}`
   and `\d{77}` panic.
4. `word_list` (`WordsOfTheNamedList`): `{words}` with a dictionary hash counts
   in the dictionary of that hash and writes from the default one
   (`generator.rs:254-255`), although the canonical format names the hash so
   that a password can be derived again (`crates/seed/src/lib.rs:26-33`).
5. `shared_text` (`NoSchemaSharesTheText`): `a(b){2}` (the password `abb`) and
   `ab{2}` (`abab`) are both written `ab{2}`, because the canonical format puts
   no parentheses around a count's item (`repr.rs:65-77`) while the parser
   applies a count to a whole string. `crates/seed/src/lib.rs:12-16` says that
   any change to the derivation changes the secret: `[A-Z]{20}a(b){2}` and
   `[A-Z]{20}ab{2}` share salt, secret and the first twenty letters. For the
   same reason `(a{2}){3}` is written `a{2}{3}`, which does not parse.

The arithmetic behind the third has another effect: if the item of a count
saturated, both powers are MAX and the size of `item{0,1}` comes out as
(MAX - 1) / (MAX - 1) = 1, so that at 256 bits `([a-z]{60}){0,1}` always derives
the empty password. `expr/mod.rs:41-44` only promises "some reasonable
approximation" of the size, and no run claims more.

Four smaller observations are hazards with a note instead of a run: an included
file may be merged *before* one of its includers (it is also included from
nearer to the base), against a literal reading of `lib.rs:77-78`; the text of a
schema is not always its own canonical format, because strings in parentheses
are one string when they are read (`a(a(a))` is written `a(aa)`, and that `aaa`;
`repr.rs:46-63`, `node.rs:140-150`), so that whoever takes the displayed text for a
schema gets another salt, hence other passwords; the deprecated
place is preferred for its directory `onepass`, not for a configuration in it
(`dirs.rs:54-64`, whose documentation at 39-41 speaks of "an existing onepass
config"), so that an empty directory there hides a configuration in the new
place and gets an example written into it; and `-r` fails
in a build without a keyring, where the null store's error gains a context that
`delete` does not look behind.

## 6. What is proved

TLAPS proves these for every value of the constants.

- `SiteTable_proofs`. `MergeTypeCorrect`; `MergeCorrect`: `MergeInv` is an
  invariant, for any raw sites and any length. It describes each entry by the
  raw sites seen (greatest increment; last URL, schema and comment) and is
  re-established per action, the work being that appending to `seen` changes
  `Given(k)` for one key only (`KeptInv`, `KeptInvByKey`), and that what was
  given last is so after every step (`LastCorrect`).
  `IncrementsOnlyRiseCorrect`: the action property follows from one step of the
  merge. `DataNeverMixedCorrect`: `DataInv` says that every raw
  site seen for a key has the entry's data or none, that one of them gave it,
  and that at the panic two of them disagree. Assumptions: the constants' types.
- `SiteTable_proofs`, second part, about the table built from the merged map: `TypeCorrect`,
  `LookupsAreDocumentedCorrect`, `PrintedSitesAreFoundCorrect` and
  `OrderOnlyMovesSchemasCorrect`. `KeysInOrder` puts at each position the key
  with that many keys before it. That there is exactly one needs no induction:
  ranking is an injection between two finite sets of the same size, hence onto
  (`RankIsOnto`). So the list holds each merged entry once, the index by key
  points at it, and the ranges of the index by URL are the runs of equal URLs,
  which the order of the keys makes contiguous. The order of the raw sites only
  decides schemas and comments, because an increment is a maximum and data that
  differs panics. Assumption, besides the types: aliases name texts
  (`GlobalAssumption`).
- `CharRanges_proofs`. `TypeCorrect`, and `LoopCorrect` for `LoopInv`, for any
  gap and any list of ranges. `SameCharacters` and `Apart` are not inductive:
  they speak of the result. `LoopInv` says what holds while the cursors run:
  the ranges up to `i` are apart and in order, those from `j` on are sorted and
  start no earlier than `ranges[i]`, and the two together cover what was given.
  What lies between is garbage, which is why `Advance` may swap into it.
  `ClassKeepsCharacters`, `ClassIsCanonical` and `OnlyEmptyPanics` follow.
  `NthCounts`: the sizes of the ranges add up to the size of the class, so each
  number below it lies in one range, and `nth`, which subtracts the sizes of the
  ranges before it, counts the characters upwards. Assumption: the order of the constants, `0 < SurLo <= SurHi < MaxChar`.
- `ConfigInit_proofs`. For any set of runs, places and environments and any
  number of edits: `TypeCorrect`, `OnlyAbsentIsWritten` (the action property),
  `EmptyIsTransient`, `NotFoundMeansAbsent` and `OneEnvironmentOnePlace`. The
  inductive invariant adds what a run knows at each `pc` (`SawNoFile`,
  `HasPlace`). It strengthens "some run is writing the empty file" to "some run
  that still has that very file open" (`EmptyIsOpen`), because a run whose file
  was renamed over will not fill the new one; and "runs agree" to "the place a
  run chose is the one it would choose now" (`ChoiceStands`), because what
  matters is that `create_dir` only creates a directory in the chosen place.
  Assumptions: `Unset` is no place, and the starts are environments.
- `Config_proofs`, about the traversal by itself (`ConfigLoad`). For any files, symlinks and includes, cycles among them:
  `TypeCorrect`, `ReachedIsMergedOnce`, `NotFoundIsMissing`, `LastFileWinsCorrect`
  and `IncludedBreadthFirstCorrect`. That a load merges everything reached is
  not inductive before the queue is empty. The invariant (`OnTheWay`) says that
  what was visited includes only what was visited or is queued, and that both
  are reached from the base; when the queue is empty the visited set is closed
  under includes and so contains everything reached. `WinsInv` names the file
  each setting comes from: it was merged, says something, and nothing merged
  after it does. `BreadthInv` keeps, for each element of the queue, the position
  of the file that queued it (`Sources`): these positions never fall along the
  queue, an include that was not merged yet is queued under each of its
  includers, and no merged file has a first includer beyond the queue's head.
  The rest are lemmas on the elements of sequences under `Head`, `Tail`, `\o` and
  `Append`. Assumptions: `PathAssumption` and `DiskAssumption`, the types of the
  constants.
- `Config_proofs`, second part, about the load as a whole. `PromiseIsKept`: the safety of the
  refinement `KeepsPromise`, for any disk, include graph and order of merging.
  `ConfigInv` joins the invariants of the two parts. `Gathered`: what was
  concatenated are the sites of the files visited, each of which could be read,
  and the merged `[global]` is of the type that `SiteTable` expects. `Fed`: the
  table is untouched until the traversal ends, then it satisfies `TableInv`
  (from `SiteTable_proofs`, by `INSTANCE`) and has seen the first of the sites,
  all of them when it is built. Since the visited set is then what the base
  reaches, `EverywhereTells` restates what the table knows of its raw sites by
  the files on the disk, and `LookupIsPromised` goes through the cases of
  `find_site`. `OutcomeHolds` does the same for the failures and the panic.
  `LastFileGivesSchemaCorrect` adds `InOrder`: each concatenated site comes from
  a merged file, in the order of the files, and every site of a file is there,
  so the last site that gives a schema lies in the last file that gives one.
  `LoadInvariants`: the invariants of `ConfigLoad` hold in the composition.
  Assumptions: `TableAssumption` and `ContentAssumption`, the types of what
  `toml` makes of a file, besides those of the parts.
- `Invocation_proofs`. For any set of runs, seeds, sites and command lines:
  `TypeCorrect`, `OnlyVettedSeeds`, `ConfirmedBeforeOutput`, `ResetIsNotUndone`,
  `SuccessIsWhole`, `KeyringStaysUntouched` and `NothingAfterAMiss`. The
  invariant has one part per concern, each per run and `pc`: `Ordered` (when
  there is a seed, and which mode leads where), `Vouching` (what was confirmed
  when), `Printed`, `Learned`, `Cleared` (after `-r` a full entry was saved by
  somebody else) and `Allowed` (a run is at a keyring call only if its command
  line says so). A step of one run preserves each part for that run; for the
  others it is enough that `vetted` only grows and that an entry they would
  find was resaved. Assumptions: the sentinels are no seeds, the command lines
  are of their type.

- `Recursion`. The library states induction and recursion of operators, which
  the provers cannot instantiate. Of sets and functions they can be used:
  `SetInduction`, `IntervalInduction` and `RankInduction` say which sets contain
  the natural numbers, the first of them, or whatever has a rank; they follow from
  the least element of a set, which is the library's `NatLessThanWellFounded`.
  `IterationExists` and `RankRecursion` give the function that a recursion over an
  interval, or over ranks, defines, so that a `CHOOSE`d recursive function can be
  replaced by its equation. `RankedAscends` and `AscendsOneWay` say that a finite
  set in a total order has one ascending sequence; `JoinIs` and `FlattenSeqIs` what
  the sequences joined of others are, place by place.
- `SchemaEval_proofs`, first part, about word lists. `LoadLists`: however a word list is given (lines, separated
  fields, an iterator), for any bytes, `Load` makes of it the words it has, each
  once and in order, and their text as hash. The order of words is total
  (`PrecedesOneWay`, `PrecedesOnwards`, `PrecedesEitherWay`), so a finite set has
  one ascending sequence, and what is kept of the sorted spans is that sequence (`CanonicalWords`), wherever the spans lie.
  `SepWords` and `LineWords` show that splitting and trimming finds exactly the
  words that `WordsIn` describes without splitting. `TextNames`: two lists with
  one text are one list. No escape of a byte begins another one, so escaped words
  come apart in one way (`CodesComeApart`); no escape has a newline, so lines do.
- `SchemaEval_proofs`, second part. For any schemas, any width of the integers, any greatest
  count, any buffer and any word lists: `Typing`, `HashesNameTheWords`,
  `MeasuredSchemasAreWritten`, `OnlyTheUncountablePanics`, `PasswordsAreWhole`, `SizesCountPasswords`,
  `EveryPasswordIsWrittenOnce` and `EveryDerivationIsWritten`. The invariant
  `IInv` is what the others need and none of them says: the context is the one of
  this run's words file (`ContextOfRun`), and size, index, output and panic are
  at each `pc` functions of the schema and the index (`Measured`, `Password`).
  With it every property is one of those functions:
  - *Arithmetic.* `u256_saturating_pow` is the power, capped (`SatPowIs`). Where
    the closed form of a count is measured without a panic, it is at most the
    sum of the powers it stands for (`Turns`), and equal to it as long as the
    greatest power fits (`CountSizeIs`). The loop of a count stops at that sum, so
    its repetitions do not go past `max` (`CountSplitIs`, `CountSplits`).
  - *Trees.* `TreeInduction` and `TreeRecursion` are by `Height`; they give the
    equations of the recursive functions (`NodeSizeIs`, `WriteIs`, `LanguageIs`,
    `LengthOfIs`, `NumberOfIs`, `WithinIs`).
  - *Digits.* `WriteParts` takes the index apart in a mixed radix. Below the
    product of the bases, nothing is left of it, each digit is below its base
    (`PartsAreWritten`), and the digits tell the index (`PartsDiffer`).
  - *Kinds.* `Enumerates(n, write, N)` says that each index below `N` is written,
    as a derivation of `n`, with its length, and that no two write the same.
    It is shown of each kind from its parts (`LiteralWritten`, `CharsWritten`,
    `ListWritten`, `CountWritten`, `WordWritten`, `WordsWritten`), hence of each
    schema that was measured (`SchemaWritten`). That is stronger than what is
    wanted where the size saturated, since a smaller size than the true one only
    leaves derivations out; which is why no hypothesis about overflow is needed.
    `Counted` goes the same way, with such a hypothesis (`SchemaCounted`).
    What a panic while measuring means goes both ways: what is measured is
    measured in all its parts (`PartsMeasured`, hence `SchemaHasWords`), and a node
    whose parts are measured is too, unless it has no words or is out of range
    (`GeneratorMeasured`, `CountMeasured`, hence `SchemaMeasured`); that no
    remainder is left is the telescoped sum of `Turns` again (`CountSizePanics`).

  - *The other way.* `Reaches(n, write, N)` says that each derivation of `n` is
    written for an index below `N`. Digits below their bases are those of an index
    below the product (`DigitsMakeAnIndex`, `DigitsAreBelow`, `IndexOfDigits`), so
    each choice of derivations of the parts is written (`PartsAreReached`); an
    index in a count is in no other turn than the one that the split says
    (`TurnIs`); a list of words with one to capitalize gives the remainder.
    `ListReached`, `CountReached`, `WordsReached` and the leaves give
    `SchemaReached`, for schemas whose size did not saturate (where it did, some
    derivations are out of reach, as they are in the code).

  `EveryPasswordOnce` compares the number of passwords with `NumberOf`, which
  multiplies and adds. `EveryDerivationIsWritten` adds what no run states, since
  TLC cannot list `Language` where it speaks of sequences: the passwords are the
  whole `Language` of the schema, which is finite, and `NumberOf` is its
  cardinality. Assumptions: the
  constants' types; a schema is a tree, no class is empty and no count has its
  bounds the wrong way round, which the parser sees to (`NodeAssumption`,
  `HeightAssumption`; `Derivation.TypeOK` checks it of the parser); a word list
  has no more words than the integers count, and no list is hashed like the
  absent hash.

- `Derivation_proofs`, the parser, the canonical format and the line of a site.
  The recursive functions of `SchemaText` give towers: `Nodes(t)` is a function of
  positions whose value at `p` uses those to the right, so `Onward` and
  `RankRecursion` give its equation. `ParserGivesNodes`: for any text whose
  length is within the depth bound, the parser fails or gives a node, of `Node`,
  where it stopped after where it started; the depth is at most two levels per
  token, which is why `MaxDepth` bounds nothing when it exceeds twice the length.
  `CanonicalIsText`: every node is written, as a sequence of tokens.
  `TsvReadsBack` and `TsvTellsTheFields`: the line of fields is read by an
  automaton (`Reads`) that is composed field by field, and gives the fields back
  whatever bytes they have, so two sites with the same line have the same
  fields. `SpecTypeOK` and `SpecFieldsReadBack` follow with the invariant `IInv`,
  which adds that the derivation on display is that of the site's own fields and
  that `again` is what is read of the canonical format.

  *Round trip.* `TidyReadsBack`: for every tidy node `n`,
  `FromStr(WriteRepr(n)) = Ok(Len(WriteRepr(n)) + 1, n)`. The parser stops at
  the end of the canonical format with the same node, not only with one of the
  same meaning. Hence no two tidy schemas share a canonical format
  (`TidyIsToldByItsText`), and the schema of any site is read back if it is tidy
  (`SpecTidyStays`). `Tidy` asks for what a schema is once it was written and
  read: a class of canonical ranges, a generator that names its dictionary, no
  count of a count, no string right after a string or before a count of one.
  The run checks that what is read of the canonical format of an unambiguous
  schema is tidy (`ReadsBack`): from there on the theorem applies.
  The argument: `Holds(t, p, w)` says that the text `w` lies in `t` at `p`, and
  joined texts lie one after the other (`HoldsEach`). What `many1` gives is a
  `Path` of places and values up to a place where nothing more is read
  (`PathGives`). Each kind of leaf is a path of its fragments, whatever else is
  in `t`: strings (`LiteralReads`, up to a token of `Stop`), generators with their
  arguments (`GeneratorReads`), bounds with their decimals (`BoundsRead`) and
  classes (`ClassReads`). A class needs the most: its ranges are written with the
  one that starts with a hyphen first and the one that ends with it last, so that
  each hyphen between two characters is one of a range (`Separated`,
  `PartReads`), and what is read is united into the same codes, whose canonical
  ranges are those that were written (`CodesAre`). Lists and counts follow by
  induction on `Level` (`NodeRead`), for which one has to know what a node begins
  with (`NodeBegins`: never bounds, and a token that ends a string unless the
  node is one).

  Assumptions: the tokens are apart and ordered (`LetterAssumption`: the ten
  digits differ, no letter and no name is a digit, a name is no character;
  `OrderAssumption`), `MaxDepth` is beyond twice the length of the schemas
  (`DepthAssumption`, `SiteAssumption`; the round trip needs no such bound), a
  site's fields are texts (`SiteAssumption`). Proving them showed that
  `Unambiguous` had left out strings in parentheses.

## 7. What is only model-checked

- Liveness (the termination in `KeepsPromise`): fairness and ENABLED are out of
  the prover's reach.
- `CanonicalReadsBack` beyond `TidyStays`, which is proved: that the canonical
  format means what an untidy schema meant exactly if that is `Unambiguous`.
  `Meaning` and `Unambiguous` look at the nodes that the text does not keep
  (ranges that overlap, a generator without its dictionary, strings from
  parentheses); one would have to show of each what tidy node it is written as,
  and of each ambiguous one that its text is read as something else. TLC checks it
  for all texts of the run.

## 8. Not modelled, and the plan

Not modelled: the `url` crate (`normalize` is a call into it without state),
packaging, argument parsing by clap, the texts that are printed. Within modelled
parts: a disk that changes during a load, the variables that only Windows has
(`APPDATA`, `USERPROFILE`), `Context::extend` and `Context::empty` (only tests
use them), separators of several bytes and blanks outside ASCII in word lists,
the wording of errors.

Done since the first version, in the order of its plan: the abstract
specification of a load and the refinement; the proofs about `Invocation` and
`ConfigLoad`; `Dict`; the directories, which the plan had left out; the proofs
about the built `SiteTable`, about the order of the merges and about the
refinement; the proofs about `Dict` and `SchemaEval`; the proofs about
`Derivation`, with the round trip of tidy schemas.

Every safety property that a passing run checks, except `CanonicalReadsBack`, is
now proved for every value of the constants. What is left of the plan is the rest
of that property: a function that gives the tidy node of an unambiguous one, with
the same meaning and the same text.

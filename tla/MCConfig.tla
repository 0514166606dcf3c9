------------------------------ MODULE MCConfig ------------------------------
(* Instances of Config for TLC: etc/config.toml, etc/local.toml,            *)
(* sub/more.toml and sub/extra.toml.                                        *)
EXTENDS Config

CONSTANTS config, local, more, extra, missing, malformed, none, s1, s2, apple

MCFiles == {config, local, more, extra}
MCDirs == {"etc", "sub", "cwd"}
MCDirOf == [f \in MCFiles |-> IF f \in {more, extra} THEN "sub" ELSE "etc"]
MCBases == {"/etc/config.toml", "~/config.toml", "/etc/gone.toml"}
Names3 == {"config.toml", "local.toml", "/sub/more.toml", "~/local.toml"}
Names4 == {"config.toml", "local.toml", "/sub/more.toml", "/sub/extra.toml"}
MCNames == MCBases \cup Names3 \cup Names4 \cup {"words"}
MCHomeNames == {"~/local.toml", "~/config.toml"}

(* "~/local.toml" and "~/config.toml" are symlinks to local and config. *)
MCLocate ==
    [p \in MCDirs \X MCNames |->
        CASE p = <<"etc", "config.toml">> -> config
          [] p = <<"etc", "local.toml">> -> local
          [] p[2] \in {"/etc/config.toml", "~/config.toml"} -> config
          [] p[2] = "~/local.toml" -> local
          [] p[2] = "/sub/more.toml" -> more
          [] p[2] = "/sub/extra.toml" -> extra
          [] OTHER -> missing]

NoSettings == [defaultSchema |-> none, wordsPath |-> none, keyring |-> "Unspecified", alias |-> <<>>]
OnlyAlias(alias) == [NoSettings EXCEPT !.alias = alias]

Content(include, global_, site_) == [include |-> include, global |-> global_, site |-> site_]
Includes(list) == Content(list, NoSettings, <<>>)
ExtraIsEmpty(c, l, m) ==
    [f \in MCFiles |-> CASE f = config -> c [] f = local -> l [] f = more -> m [] f = extra -> Includes(<<>>)]

Lists(names, n) == UNION {[1 .. k -> names] : k \in 0 .. n}

(* The include graphs of three files, the first two with up to two includes *)
(* each, with missing and malformed files.                                  *)
UpTo(n) == {Includes(i) : i \in Lists(Names3, n)} \cup {malformed}
Graphs3 == {ExtraIsEmpty(c, l, m) : c \in UpTo(2), l \in UpTo(2), m \in UpTo(1)}

(* The graphs of four files, where all but the base have at most one        *)
(* include: files at different distances from the base.                     *)
OneName == Lists(Names4, 1)
TwoNames == Lists(Names4, 2)
Graphs4 ==
    {[f \in MCFiles |-> Includes(CASE f = config -> a [] f = local -> b [] f = more -> c [] f = extra -> d)] :
        a \in TwoNames, b \in OneName, c \in OneName, d \in OneName}

(* Three graphs: a diamond, a chain and a cross *)
Shapes ==
    {[config |-> <<"local.toml", "/sub/more.toml">>, local |-> <<>>, more |-> <<"~/local.toml">>],
     [config |-> <<"local.toml">>, local |-> <<"/sub/more.toml", "config.toml">>, more |-> <<>>],
     [config |-> <<"/sub/more.toml", "local.toml">>, local |-> <<"/sub/more.toml">>, more |-> <<"~/local.toml">>]}

(* Every combination of settings, and of files that name a words file *)
Settings(schema, seeds) ==
    {[defaultSchema |-> d, wordsPath |-> none, keyring |-> k, alias |-> [a \in A |-> schema]] :
        d \in {none, schema}, k \in seeds, A \in {{}, {apple}}}

SettingDisks ==
    {ExtraIsEmpty(Content(shape.config, g, <<>>), Content(shape.local, h, <<>>), Content(shape.more, k, <<>>)) :
        shape \in Shapes, g \in Settings(s1, {"Unspecified", "Off"}), h \in Settings(s2, {"Unspecified", "Cache"}),
        k \in Settings(apple, {"Unspecified", "Off"})}

SaysWords(yes) == [NoSettings EXCEPT !.wordsPath = IF yes THEN "words" ELSE none]

WordsDisks ==
    {ExtraIsEmpty(Content(shape.config, SaysWords(g), <<>>), Content(shape.local, SaysWords(h), <<>>),
                  Content(shape.more, SaysWords(k), <<>>)) :
        shape \in Shapes, g \in BOOLEAN, h \in BOOLEAN, k \in BOOLEAN}

(* The same sites in several files *)
MCNormalOf == [u \in RawUrls |-> CASE u = "google.com" -> 1
                                  [] u = "https://google.com/" -> 1
                                  [] u = "https://" -> 0]

Raw(url, user, schema, increment) ==
    [url |-> url, username |-> user, schema |-> schema, increment |-> increment,
     comment |-> none, data |-> none]

WithData(data) == [Raw("google.com", 0, none, 1) EXCEPT !.data = data]

MCRawSites ==
    {Raw(url, user, schema, increment) : url \in RawUrls, user \in {0, 1},
        schema \in {none, s1, s2, apple}, increment \in 0 .. 2}
    \cup {WithData(data) : data \in {s1, s2}}

SiteLists ==
    {<<>>}
    \cup {<<Raw("google.com", user, given[1], given[2])>> :
             user \in {0, 1}, given \in {<<none, 2>>, <<s1, 0>>, <<apple, 1>>}}
    \cup {<<Raw("google.com", 0, s1, 1), Raw("https://google.com/", 1, none, 1)>>, <<WithData(s1)>>}

MoreSites ==
    {<<>>, <<Raw("google.com", 0, s2, 1)>>, <<Raw("https://google.com/", 1, none, 2)>>,
     <<Raw("https://", 0, none, 0)>>, <<WithData(s2)>>}

SiteDisks ==
    {ExtraIsEmpty(Content(shape.config, NoSettings, s), Content(shape.local, OnlyAlias(alias), t),
                  Content(shape.more, OnlyAlias([a \in {apple} |-> s2]), u)) :
        shape \in Shapes, alias \in {<<>>, [a \in {apple} |-> s1]},
        s \in SiteLists, t \in SiteLists, u \in MoreSites}

MCDisks == Graphs3 \cup Graphs4 \cup SettingDisks \cup WordsDisks \cup SiteDisks
=============================================================================

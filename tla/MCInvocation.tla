---------------------------- MODULE MCInvocation ----------------------------
(* Instances of Invocation for TLC. *)
EXTENDS Invocation

CONSTANTS none, noEntry, r1, r2

(* One run, every command line. *)
EveryCommandLine ==
    [keyring : {"-k", "-K", "default"}, stdin : BOOLEAN, reset : BOOLEAN, confirm : BOOLEAN,
     mode : {"password", "describe", "print sites"},
     sites : {<<>>, <<"a">>, <<"a", "b">>, <<"a", "bad">>}, learn : {0, 2}]

(* Two runs that meet in the keyring. *)
KeyringCommandLines ==
    [keyring : {"-k", "-K"}, stdin : {FALSE}, reset : BOOLEAN, confirm : BOOLEAN,
     mode : {"password"}, sites : {<<>>, <<"a">>}, learn : {0}]

(* A command line that asks for nothing. *)
Idle ==
    [keyring |-> "default", stdin |-> FALSE, reset |-> FALSE, confirm |-> FALSE,
     mode |-> "print sites", sites |-> <<>>, learn |-> 0]

MCStarts ==
    {[r \in Runs |-> IF r = r1 THEN line ELSE Idle] : line \in EveryCommandLine}
    \cup [Runs -> KeyringCommandLines]
=============================================================================

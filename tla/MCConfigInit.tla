---------------------------- MODULE MCConfigInit ----------------------------
(* An instance of ConfigInit for TLC: runs are interchangeable. *)
EXTENDS ConfigInit, TLC

CONSTANTS a, b  \* $HOME/.config, and the directory that the variables name

(* Any of the variables may be set, and to the same directory. *)
MCStarts ==
    [Runs -> {e \in Environments :
                 /\ e.home \in {a, Unset}
                 /\ e.xdgHome \in {b, Unset}
                 /\ e.xdgDir \in {b, Unset}
                 /\ e.given => {e.home, e.xdgHome, e.xdgDir} = {Unset}}]

RunSymmetry == Permutations(Runs)
=============================================================================

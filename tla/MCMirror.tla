------------------------------ MODULE MCMirror ------------------------------
(* The mirror pass over a file `a`, a file `a/b` beneath its name, and `c`  *)
(* beside them, for TLC.                                                    *)
EXTENDS Mirror, TLC

CONSTANTS a, b, edits, rules, fails, unsaid, stops, turns, answers

PathAbove == {<<a, b>>} \cap (Path \X Path)

Bounds == [edit |-> edits, rule |-> rules, fail |-> fails, unsaid |-> unsaid,
           stop |-> stops, turn |-> turns, answer |-> answers]

Entries == Permutations(Entry)
=============================================================================

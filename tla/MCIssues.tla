------------------------------ MODULE MCIssues ------------------------------
(* The issue queue of two machines, for TLC.                                *)
EXTENDS Issues, TLC

CONSTANTS files, edits, comments, attaches, deletes, moves, firsts

\* One file, or two of different names.
Names == {<<"shot">>, <<"shot", "notes">>}

Bounds == [file |-> files, edit |-> edits, comment |-> comments,
           attach |-> attaches, delete |-> deletes, move |-> moves, first |-> firsts]

Machines == Permutations(Machine)
=============================================================================

---------------------------- MODULE MCFolderSync ----------------------------
(* What starts the passes, for TLC: how much each actor does is the        *)
(* configuration's.                                                        *)
EXTENDS FolderSync

CONSTANTS edits, early, made, errs, fails, ops, deaths, answers, publishes, calls,
          stales, lates

Bounds == [edit |-> edits, early |-> early, commit |-> made, err |-> errs,
           fail |-> fails, op |-> ops, death |-> deaths, answer |-> answers,
           publish |-> publishes, call |-> calls, stale |-> stales,
           late |-> lates]
=============================================================================

-------------------------- MODULE MCSnapshotStore --------------------------
(* Instances of SnapshotStore for TLC.                                     *)
EXTENDS SnapshotStore, TLC

CONSTANTS readme, package, small, big, c1, c2

(* README.md and package.json: upper case comes first by code units, and   *)
(* p before R in a dictionary.                                             *)
ByUnits == <<readme, package>>
ByLocale == <<package, readme>>

(* One file is committed and was made executable, the other is untracked.  *)
Plain == [content |-> small, exec |-> FALSE]
OneCommitted == readme :> Plain @@ package :> Absent
DirtyTree == readme :> [Plain EXCEPT !.exec = TRUE] @@ package :> Plain

(* Edits remove files, change modes, and write contents of either size.    *)
Changes == {Absent, [content |-> small, exec |-> TRUE], [content |-> big, exec |-> FALSE]}

Captures == Permutations(Capture)
=============================================================================

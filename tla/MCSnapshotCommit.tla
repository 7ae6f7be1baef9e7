-------------------------- MODULE MCSnapshotCommit --------------------------
(* Model values and symmetry for SnapshotCommit. *)
EXTENDS SnapshotProperties

Symmetry == Permutations(Paths) \cup Permutations(Contents)
NoPaths == {}
WriteEdits == {"create", "modify"}
RenameEdits == {"create", "rename"}
MoveEdits == {"create", "delete", "rename"}
PlainEdits == {"create", "modify", "delete"}
AllEdits == PlainEdits \cup {"rename"}
=============================================================================

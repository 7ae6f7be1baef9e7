---------------------------- MODULE SnapshotLog ----------------------------
(***************************************************************************)
(* What the backup promises: an append-only log of vault states.  A        *)
(* snapshot is published once, whole, and never changes; the tip only      *)
(* moves to published snapshots, and never back in time.                   *)
(***************************************************************************)
EXTENDS Integers

CONSTANTS Ids, States, NoId

VARIABLES log,   \* published snapshots: id -> [at, state]
          tip    \* the snapshot HEAD names, or NoId

vars == <<log, tip>>

Entries == [at : Nat, state : States]

TypeOK ==
    /\ DOMAIN log \subseteq Ids
    /\ \A id \in DOMAIN log : log[id] \in Entries
    /\ tip \in DOMAIN log \cup {NoId}

Init == DOMAIN log = {} /\ tip = NoId

\* A snapshot with a new id enters the log; the others stay as they are.
Publish ==
    LET before == log
        after == log'
    IN  /\ \E id \in DOMAIN after \ DOMAIN before :
               /\ DOMAIN after = DOMAIN before \cup {id}
               /\ after[id] \in Entries
        /\ \A old \in DOMAIN before : after[old] = before[old]
        /\ tip' = tip

\* HEAD moves to a published snapshot that is no older.
Advance ==
    /\ tip' \in DOMAIN log
    /\ tip # NoId => log[tip].at <= log[tip'].at
    /\ log' = log

Next == Publish \/ Advance

Spec == Init /\ [][Next]_vars
============================================================================

------------------------------ MODULE Retention ------------------------------
(***************************************************************************)
(* Which snapshots retention keeps: the tiers of retention/evaluator.ts    *)
(* and the ancestors retention/chainIntegrity.ts adds.  A snapshot is a    *)
(* record of its row in snapshot_index.json; time is a number of ticks.    *)
(***************************************************************************)
EXTENDS Integers, FiniteSets

CONSTANTS
    MaxSnaps,      \* bound: snapshot ids are 1..MaxSnaps
    KeepN,         \* always_keep_n
    NeverPrune,    \* never_prune_window_days, in ticks
    Recent,        \* recent_hours, in ticks
    DailyDays, Day,        \* daily_days, and the length of a day in ticks
    MonthlyMonths, Month   \* monthly_years * 12, the length of a month

ASSUME RetentionAssumption ==
    /\ {KeepN, NeverPrune, Recent, DailyDays, MonthlyMonths} \subseteq Nat
    /\ {MaxSnaps, Day, Month} \subseteq Nat \ {0}

SnapIds == 1..MaxSnaps
NoSnap == 0

Ids(S) == {m.id : m \in S}
Row(S, id) == CHOOSE m \in S : m.id = id

\* A window of width 0 is switched off.
Within(S, now, width) == {m \in S : width > 0 /\ m.at >= now - width}

NewestPer(S, length) ==
    {m \in S : \A n \in S : n.at \div length = m.at \div length => n.at <= m.at}

\* Mutant: slice(n) instead of slice(0, n).
AllButNewest(S, n) ==
    {m \in S : n > 0 /\ Cardinality({o \in S : o.at > m.at}) >= n}

Newest(S, n) == {m \in S : Cardinality({o \in S : o.at > m.at}) < n}

Daily(S, now) == NewestPer(Within(S, now, DailyDays * Day), Day)

Monthly(S, now) ==
    NewestPer({m \in S : /\ MonthlyMonths > 0
                         /\ m.at \div Month >= now \div Month - MonthlyMonths},
              Month)

EvaluateTiers(S, now) ==
    UNION {Newest(S, KeepN), Within(S, now, NeverPrune), Within(S, now, Recent),
           Daily(S, now), Monthly(S, now)}

\* With a snapshot comes its parent, if S has it and it is needed.
ParentClosed(S, ids) ==
    \A i \in ids : \/ Row(S, i).full \/ Row(S, i).parent \notin Ids(S)
                   \/ Row(S, i).parent \in ids

\* The snapshots from ids up to their full backups, as far as S has them:
\* what the walk from parent to parent visits, which its set of visited ids
\* would end in a cycle, too.
Lineage(S, ids) ==
    {i \in Ids(S) : \A A \in SUBSET Ids(S) :
        (ids \cap Ids(S) \subseteq A /\ ParentClosed(S, A)) => i \in A}

WithAncestors(kept, S) == Lineage(S, Ids(kept))

KeepSet(S, now) == WithAncestors(EvaluateTiers(S, now), S)

\* RestoreService can replay a snapshot: its lineage ends in a full backup.
Complete(S, id) == \E i \in Lineage(S, {id}) : Row(S, i).full
=============================================================================

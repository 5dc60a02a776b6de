---------------------------- MODULE MCTurnJournal ----------------------------
(***************************************************************************)
(* Small instances of TurnJournal for TLC. Sets of arguments are written   *)
(* as sets of records.                                                     *)
(***************************************************************************)
EXTENDS TurnJournal, TLC

CONSTANTS r1, r2

RequestSymmetry == Permutations({r1, r2})

Asks(tasks, scope, consistency) ==
  [task: tasks, scope: {scope}, consistency: {consistency}, allowance: {1}]
Answers(snapshot, facts, refs) ==
  [snapshot: {snapshot}, facts: facts, provenance: refs]
Records(m, retracted) == [key: {"k1"}, evidence: {m}, retracted: {retracted}]
Cites(m, kind) == {S \in SUBSET [evidence: {m}, kind: {kind}] : S # {}}

\* Freshness: scoped turns on a task, its lineage and the whole database.
FreshnessInputs ==
  Asks({1}, "task", "scope") \cup Asks({2}, "lineage", "scope")
    \cup Asks({2}, "all", "scope")
FreshnessReplies == Answers(NoSnapshot, {<< >>}, {{}})
FreshnessFacts == Records(1, FALSE)

\* Turns: replies that replace the snapshot and record and withdraw a fact, model
\* requests of one or two units under an allowance of one.
TurnInputs == Asks({1}, "task", "snapshot") \cup Asks({1}, "task", "scope")
TurnReplies ==
  Answers(NoSnapshot, {<< >>}, {{}}) \cup
  Answers("s1", {<<f, g>> : f \in Records(1, FALSE), g \in Records(1, TRUE)}, {{}})
TurnPayloads == [body: {"b1"}, units: 1..2]

\* Retention: committed turns with a provenance row.
RetentionInputs == Asks({1}, "task", "scope") \cup Asks({1}, "all", "snapshot")
RetentionReplies ==
  Answers(NoSnapshot, {<< >>}, Cites(1, "supports") \cup Cites(1, "contradicts"))

\* Provenance: a fact recorded from message 1 and withdrawn by message 2, then a
\* scoped snapshot derived from message 1.
ProvenanceInputs == Asks({1}, "task", "scope")
ProvenanceReplies == Answers("s1", {<< >>}, Cites(1, "supports"))
AssertThenWithdraw == Records(1, FALSE) \cup Records(2, TRUE)
=============================================================================

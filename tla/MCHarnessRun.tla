---------------------------- MODULE MCHarnessRun ----------------------------
(***************************************************************************)
(* Small instances of HarnessRun for TLC: one request on one task, run by  *)
(* two hosts in at most two rounds.                                        *)
(***************************************************************************)
EXTENDS HarnessRun, TLC

CONSTANTS r1, c1, c2, h1, h2

HostSymmetry == Permutations({h1, h2})

HostInputs ==
  [task: {1}, scope: {"task"}, consistency: {"scope"}, allowance: {1}]
HostReplies == [snapshot: {NoSnapshot}, facts: {<< >>}, provenance: {{}}]
HostPayloads == [body: {"b1"}, units: {1}]
TwoRounds == <<c1, c2>>
=============================================================================

-------------------------- MODULE OpportunityClaims --------------------------
(***************************************************************************)
(* What the program says of the tasks it makes of opportunities, and does  *)
(* not keep.                                                               *)
(***************************************************************************)
EXTENDS Opportunities

\* "Check existing action logs to avoid duplicates" (opportunityTaskCreator.ts:127):
\* even if every failed call and every request that runs at the same time cost a
\* duplicate, a candidate would get no more tasks from one opportunity than that.
DuplicatesAvoided ==
    \A e \in BagToSet(tasks) : tasks[e] <= Cardinality(Requests) + faults
=============================================================================

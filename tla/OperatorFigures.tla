-------------------------- MODULE OperatorFigures --------------------------
(***************************************************************************)
(* The figures an operator is shown: the jobs that go with a task and what *)
(* they are worth, and what the operator earns by them.  Both come from    *)
(* rows of their own, and touch none of each other's state.                *)
(***************************************************************************)
EXTENDS Integers

CONSTANTS Jobs, Candidates, Callers, NewJobs, Patches, Profiles, District, Limit, Soon, Near,
          MaxDays, MaxJobTasks, MaxWrites, MaxMissing,
          Forms, Months, Amounts, Rates, Step, MaxBrackets, MaxEdits, MaxSaves, MaxFailed,
          Null        \* None of both

VARIABLES
    jobs, candidates, caller, page, jobTasks, patched, filled, today, touched,
    settings, revenue, month, form, reader, shown, spent

jobVars == <<jobs, candidates, caller, page, jobTasks, patched, filled, today, touched>>

earningsVars == <<settings, revenue, month, form, reader, shown, spent>>

\* Jobs, and who is shown which.
Board == INSTANCE JobBoard WITH
    None <- Null, MaxTasks <- MaxJobTasks, MaxFaults <- MaxMissing, tasks <- jobTasks, used <- touched

\* What an operator earns.
Earned == INSTANCE Earnings WITH None <- Null, MaxFaults <- MaxFailed, used <- spent

FiguresSpec == Board!Spec /\ Earned!Spec

\* Jobs, who is shown which, and how a task is ranked by them: see the properties there.
JobsRanked ==
    /\ Board!TypeOK /\ Board!FilledUnlessPatched /\ Board!SnapshotOfMatch
    /\ Board!TiersNeedCard /\ Board!MatchersAgree
    /\ Board!RankMatchesMargin /\ Board!RankFallsTowardsStart

\* What the dashboard tells of the earnings, and what the form stores: see the properties there.
EarningsTold ==
    /\ Earned!TypeOK /\ Earned!RateOfRevenue
    /\ Earned!PromiseKept /\ Earned!UntouchedFormKeeps

\* The figures that operators are shown are what the rows behind them say.
FiguresHold == JobsRanked /\ EarningsTold
=============================================================================

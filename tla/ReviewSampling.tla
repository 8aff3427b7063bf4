--------------------------- MODULE ReviewSampling ---------------------------
(***************************************************************************)
(* Samples for quality review.  Every morning at nine the worker looks at  *)
(* the messages approved since the beginning of the day before, and takes  *)
(* of the edited ones, of those of high risk and of the others the newest, *)
(* up to a limit each, as samples; a unique index allows one per task.  An *)
(* operator gives a verdict on a sample, and may give another one.         *)
(*                                                                         *)
(* A day has two halves, before and after nine.  A failed insert is logged *)
(* and not tried again before the next morning.                            *)
(***************************************************************************)
EXTENDS Integers, FiniteSets

CONSTANTS Tasks,       \* approved tasks with a proposed and an approved text
          Bucket,      \* per task: "EDITED", "HIGH_RISK" or "RANDOM"
          Limit,       \* per bucket: how many a run takes (30, 10, 10)
          Verdicts,    \* verdicts an operator gives
          None,
          MaxDays,     \* bound: days that pass
          MaxFaults    \* bound: failing database calls and mornings without the program

Buckets == {"EDITED", "HIGH_RISK", "RANDOM"}

SamplingAssumption ==
    /\ Bucket \in [Tasks -> Buckets] /\ Limit \in [Buckets -> Nat]
    /\ MaxDays \in Nat /\ MaxFaults \in Nat

VARIABLES
    approved,  \* per task: the half-day of its approval, None before
    order,     \* how many approvals there were before each task's
    sample,    \* per task: whether there is a sample
    verdict,   \* per task: the verdict of its sample, and the one the timeline shows
    run,       \* the morning's run: whether it goes on, and what it has still to insert
    clock,     \* half-days
    ran,       \* whether this morning's run has begun
    crowded,   \* history: tasks a run passed over because of its limits
    failed     \* history: tasks whose insert failed, or that a morning was missed for

vars == <<approved, order, sample, verdict, run, clock, ran, crowded, failed>>

Init ==
    /\ approved = [t \in Tasks |-> None]
    /\ order = [t \in Tasks |-> 0]
    /\ sample = [t \in Tasks |-> FALSE]
    /\ verdict = [t \in Tasks |-> [last |-> None, shown |-> None]]
    /\ run = [on |-> FALSE, todo |-> {}]
    /\ clock = 0
    /\ ran = TRUE
    /\ crowded = {}
    /\ failed = [tasks |-> {}, count |-> 0]

Day(half) == half \div 2

IsApproved(t) == approved[t] # None

-----------------------------------------------------------------------------
(* createReviewSamplesForDay.                                              *)

\* Today's messages only.
BuggyInWindow(t) == Day(approved[t]) = Day(clock)

\* From the start of yesterday to the end of today.
InWindow(t) == Day(approved[t]) >= Day(clock) - 1

Unsampled == {t \in Tasks : IsApproved(t) /\ InWindow(t) /\ ~ sample[t]}

\* The newest of a bucket.
Chosen ==
    {t \in Unsampled :
        Cardinality({u \in Unsampled : Bucket[u] = Bucket[t] /\ order[u] > order[t]}) < Limit[Bucket[t]]}

\* Nine o'clock: an afternoon begins.
StartRun ==
    /\ ~ ran /\ ~ run.on
    /\ ran' = TRUE
    /\ run' = [on |-> TRUE, todo |-> Chosen]
    /\ crowded' = crowded \cup (Unsampled \ Chosen)
    /\ UNCHANGED <<approved, order, sample, verdict, clock, failed>>

Insert ==
    /\ \E t \in run.todo :
          /\ sample' = [sample EXCEPT ![t] = TRUE]
          /\ run' = [run EXCEPT !.todo = @ \ {t}]
    /\ UNCHANGED <<approved, order, verdict, clock, ran, crowded, failed>>

InsertFails ==
    /\ failed.count < MaxFaults
    /\ \E t \in run.todo :
          /\ run' = [run EXCEPT !.todo = @ \ {t}]
          /\ failed' = [tasks |-> failed.tasks \cup {t}, count |-> failed.count + 1]
    /\ UNCHANGED <<approved, order, sample, verdict, clock, ran, crowded>>

EndRun ==
    /\ run.on /\ run.todo = {}
    /\ run' = [run EXCEPT !.on = FALSE]
    /\ UNCHANGED <<approved, order, sample, verdict, clock, ran, crowded, failed>>

\* The program is down at nine, or goes down in the run: the timer waits for the next
\* morning.
MissRun ==
    /\ failed.count < MaxFaults
    /\ run.on \/ ~ ran
    /\ run' = [on |-> FALSE, todo |-> {}]
    /\ ran' = TRUE
    /\ failed' = [tasks |-> failed.tasks \cup {t \in Tasks : IsApproved(t) /\ ~ sample[t]},
                  count |-> failed.count + 1]
    /\ UNCHANGED <<approved, order, sample, verdict, clock, crowded>>

-----------------------------------------------------------------------------
(* The rest of the program.                                                *)

Approve(t) ==
    /\ ~ IsApproved(t)
    /\ approved' = [approved EXCEPT ![t] = clock]
    /\ order' = [order EXCEPT ![t] = Cardinality({u \in Tasks : IsApproved(u)})]
    /\ UNCHANGED <<sample, verdict, run, clock, ran, crowded, failed>>

\* POST .../verdict: the last verdict is kept; the key of the timeline's event is that of
\* the sample, so the timeline keeps the first.
SetVerdict(t) ==
    /\ sample[t]
    /\ \E v \in Verdicts :
          verdict' = [verdict EXCEPT ![t] = [last  |-> v,
                                             shown |-> IF @.shown = None THEN v ELSE @.shown]]
    /\ UNCHANGED <<approved, order, sample, run, clock, ran, crowded, failed>>

\* An odd half begins at nine; the run is soon over.
Tick ==
    /\ clock < 2 * MaxDays /\ ran /\ ~ run.on
    /\ clock' = clock + 1
    /\ ran' = (clock' % 2 = 0)
    /\ UNCHANGED <<approved, order, sample, verdict, run, crowded, failed>>

Next ==
    \/ StartRun \/ Insert \/ InsertFails \/ EndRun \/ MissRun \/ Tick
    \/ \E t \in Tasks : Approve(t) \/ SetVerdict(t)

Spec == Init /\ [][Next]_vars

-----------------------------------------------------------------------------
(* Properties.                                                             *)

Halves == 0..(2 * MaxDays)

TypeOK ==
    /\ approved \in [Tasks -> Halves \cup {None}]
    /\ order \in [Tasks -> 0..Cardinality(Tasks)]
    /\ sample \in [Tasks -> BOOLEAN]
    /\ verdict \in [Tasks -> [last : Verdicts \cup {None}, shown : Verdicts \cup {None}]]
    /\ run \in [on : BOOLEAN, todo : SUBSET Tasks]
    /\ clock \in Halves /\ ran \in BOOLEAN
    /\ crowded \subseteq Tasks
    /\ failed \in [tasks : SUBSET Tasks, count : 0..MaxFaults]

\* No message slips through between two mornings: what was approved before yesterday has
\* a sample, or a run had too many of its kind, or its morning failed.  The windows of
\* two mornings overlap, so that a message approved after nine has its turn the next day.
ApprovedIsSampled ==
    \A t \in Tasks :
        IsApproved(t) /\ Day(clock) > Day(approved[t]) + 1
            => sample[t] \/ t \in crowded \/ t \in failed.tasks
=============================================================================

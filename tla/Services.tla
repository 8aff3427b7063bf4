------------------------------ MODULE Services ------------------------------
(***************************************************************************)
(* Six services beside the flow of messages: the tasks of opportunities,   *)
(* the timeline, review sampling, follow-ups, the monitor of stuck tasks   *)
(* and the profile of a candidate.  Each has rows of its own, which none   *)
(* of the others reads.                                                    *)
(***************************************************************************)
EXTENDS Integers

CONSTANTS Jobs, Candidates, Matches, BestJob, Positions, Askers, MaxOpportunityDays, MaxAsked,
          Writers, Ids, EventKeys, PageSize, MaxTime,
          ReviewTasks, Bucket, Limit, Verdicts, MaxMornings,
          Conversations, Questions, Callers, Scans, WeeklyCap, Week, MaxFollowUpDays,
          Watched, AgencyOf, Gated, Sweeps, Threshold, MaxStuckTime,
          Messages, Replies, Attempts,
          MaxFailures,  \* of each
          Null          \* None of each

VARIABLES
    candidates, tasks, log, request, made, opportunityDay, opportunityFaults,
    events, writer, reader, time, timelineFaults,
    approved, order, sample, verdict, run, clock, ran, crowded, failed,
    asked, followUp, closed, openFollowUps, caller, scan, followUpDay, followUpFaults,
    waiting, paused, marked, sweep, stuckTime, stuckFaults,
    candidate, job, torn, profileFaults

opportunityVars == <<candidates, tasks, log, request, made, opportunityDay, opportunityFaults>>

timelineVars == <<events, writer, reader, time, timelineFaults>>

reviewVars == <<approved, order, sample, verdict, run, clock, ran, crowded, failed>>

followUpVars == <<asked, followUp, closed, openFollowUps, caller, scan, followUpDay, followUpFaults>>

stuckVars == <<waiting, paused, marked, sweep, stuckTime, stuckFaults>>

profileVars == <<candidate, job, torn, profileFaults>>

Opportunity == INSTANCE Opportunities WITH
    None <- Null, Requests <- Askers, MaxDays <- MaxOpportunityDays, MaxRequests <- MaxAsked,
    MaxFaults <- MaxFailures, item <- candidates, today <- opportunityDay,
    faults <- opportunityFaults

Log == INSTANCE Timeline WITH
    None <- Null, Keys <- EventKeys, MaxFaults <- MaxFailures, faults <- timelineFaults

Review == INSTANCE ReviewSampling WITH
    None <- Null, Tasks <- ReviewTasks, MaxDays <- MaxMornings, MaxFaults <- MaxFailures

FollowUp == INSTANCE FollowUps WITH
    None <- Null, MaxDays <- MaxFollowUpDays, MaxFaults <- MaxFailures,
    open <- openFollowUps, today <- followUpDay, faults <- followUpFaults

Stuck == INSTANCE StuckTasks WITH
    Tasks <- Watched, Agency <- AgencyOf, Approvals <- Gated, Scans <- Sweeps,
    MaxTime <- MaxStuckTime, MaxFaults <- MaxFailures,
    task <- waiting, scan <- sweep, time <- stuckTime, faults <- stuckFaults

Profile == INSTANCE CandidateProfile WITH
    None <- Null, MaxFaults <- MaxFailures, row <- candidate, hist <- torn, faults <- profileFaults

ServicesSpec ==
    Opportunity!Spec /\ Log!Spec /\ Review!Spec /\ FollowUp!Spec /\ Stuck!Spec /\ Profile!Spec

\* The profile of a candidate: see GuessesYield there.
GuessesYield == Profile!GuessesYield

\* What the rows of the services hold has its type -- of the monitor of stuck tasks: a task
\* has one event at most --, and a profile says what its metadata vouch for: see TypeOK of
\* each, and ColumnsFollowMetas of the profile.
RowsInOrder ==
    /\ Opportunity!TypeOK /\ Log!TypeOK /\ Review!TypeOK
    /\ FollowUp!TypeOK /\ Stuck!TypeOK /\ Profile!TypeOK
    /\ Profile!ColumnsFollowMetas

\* Opportunities and follow-ups: see DuplicatesBounded and FollowUpsBounded there.
RepeatsBounded == Opportunity!DuplicatesBounded /\ FollowUp!FollowUpsBounded

\* The timeline and review sampling: a reader misses no event, the sample no message; see
\* ReaderSeesAll and ApprovedIsSampled there.
NothingMissed == Log!ReaderSeesAll /\ Review!ApprovedIsSampled
=============================================================================

---------------------------- MODULE Opportunities ----------------------------
(***************************************************************************)
(* The dashboard's opportunities and the tasks an operator makes of one.   *)
(* Opportunities are not stored: every request computes them anew from     *)
(* jobs, matches and the job pipeline, and knows one by a key: the type,   *)
(* the job, the candidates and the day.  What has been made of one is      *)
(* kept in an action log.  A unique index allows one row per opportunity   *)
(* and candidate, whatever its status.                                     *)
(*                                                                         *)
(* Titles, reasons, priorities and message texts are left out, and so is   *)
(* the limit of ten opportunities: few enough are modelled.                *)
(***************************************************************************)
EXTENDS Integers, FiniteSets, Sequences, Bags

CONSTANTS Jobs,        \* active and urgent jobs
          Candidates,
          Matches,     \* per job: the candidates of score 70 and more, best first
          BestJob,     \* per dormant candidate: the job it matches with 80 and more, or None
          Positions,   \* per job: the positions still open
          Requests,    \* operators' requests that may run at the same time
          None,
          MaxDays,     \* bound: days that pass
          MaxRequests, \* bound: requests made
          MaxFaults    \* bound: failing database calls

OpportunityAssumption ==
    /\ Matches \in [Jobs -> Seq(Candidates)]
    /\ BestJob \in [Candidates -> Jobs \cup {None}]
    /\ Positions \in [Jobs -> Nat]
    /\ MaxDays \in Nat /\ MaxRequests \in Nat /\ MaxFaults \in Nat

VARIABLES
    item,      \* per job and candidate: the pipeline item, its stage and the day of its
               \* last change; a start is confirmed for that day
    tasks,     \* the tasks created, a bag of opportunity keys with a candidate
    log,       \* the action log: the same with CREATED or FAILED
    request,   \* the requests
    made,      \* how many requests were made
    today,
    faults     \* how many calls have failed

vars == <<item, tasks, log, request, made, today, faults>>

Stages == {"none", "SHORTLISTED", "OFFER_SENT", "START_CONFIRMED"}

NoRequest == [pc |-> "idle", key |-> None, todo |-> {}, skip |-> {}, current |-> None]

Init ==
    /\ item = [j \in Jobs |-> [c \in Candidates |-> [stage |-> "none", day |-> 0]]]
    /\ tasks = EmptyBag
    /\ log = {}
    /\ request = [r \in Requests |-> NoRequest]
    /\ made = 0
    /\ today = 0
    /\ faults = 0

Fault == faults < MaxFaults /\ faults' = faults + 1

-----------------------------------------------------------------------------
(* getOpportunities.                                                       *)

generateOpportunityKey(type, job, candidates) ==
    [type |-> type, job |-> job, candidates |-> candidates, day |-> today]

InPipeline(j) == {c \in Candidates : item[j][c].stage \in {"SHORTLISTED", "OFFER_SENT"}}

\* As many of the best matches as positions are neither filled nor in the pipeline.
Underfilled ==
    {generateOpportunityKey("UNDERFILLED_URGENT_JOB", j,
                            {Matches[j][i] : i \in DOMAIN Matches[j] \cap 1..(Positions[j] - Cardinality(InPipeline(j)))}) :
        j \in {k \in Jobs : Matches[k] # <<>> /\ Positions[k] > Cardinality(InPipeline(k))}}

\* Candidates not seen for a week, under the job that suits them best.
Dormant ==
    LET of(j) == {c \in Candidates : BestJob[c] = j}
    IN  {generateOpportunityKey("DORMANT_CANDIDATES_MATCH_URGENT_JOB", j, of(j)) :
            j \in {k \in Jobs : of(k) # {}}}

\* Offers that have not changed for a day.
PendingOffers ==
    {generateOpportunityKey("FOLLOW_UP_AFTER_OFFER", x[1], {x[2]}) :
        x \in {y \in Jobs \X Candidates : item[y[1]][y[2]].stage = "OFFER_SENT" /\ item[y[1]][y[2]].day < today}}

\* Starts of yesterday and today.
RecentStarts ==
    {generateOpportunityKey("DAY1_AFTERCARE_CHECKIN", x[1], {x[2]}) :
        x \in {y \in Jobs \X Candidates : /\ item[y[1]][y[2]].stage = "START_CONFIRMED"
                                          /\ item[y[1]][y[2]].day >= today - 1}}

getOpportunities == Underfilled \cup Dormant \cup PendingOffers \cup RecentStarts

-----------------------------------------------------------------------------
(* createTasksForOpportunity.                                              *)

Entry(key, c) == [key |-> key, candidate |-> c]

Logged(key, c, status) == [key |-> key, candidate |-> c, status |-> status]

\* Nobody is skipped.
BuggyAlreadyCreated(key) == {}

\* The candidates the log names as done; failed ones are tried again.
AlreadyCreated(key) == {c \in Candidates : Logged(key, c, "CREATED") \in log}

\* There is no row of that candidate yet.
NoRow(key, c) == \A status \in {"CREATED", "FAILED"} : Logged(key, c, status) \notin log

\* The key is looked for in a new computation; one that has gone makes no tasks.
StartRequest(r) ==
    /\ request[r].pc = "idle"
    /\ made < MaxRequests /\ made' = made + 1
    /\ \E key \in getOpportunities :
          request' = [request EXCEPT ![r] = [pc |-> "next", key |-> key, todo |-> key.candidates,
                                             skip |-> AlreadyCreated(key), current |-> None]]
    /\ UNCHANGED <<item, tasks, log, today, faults>>

\* One candidate after the other; those the log named at the start are passed over.
CreateTask(r) ==
    /\ request[r].pc = "next"
    /\ \E c \in request[r].todo \ request[r].skip :
          /\ tasks' = tasks (+) SetToBag({Entry(request[r].key, c)})
          /\ request' = [request EXCEPT ![r].pc = "log", ![r].todo = @ \ {c}, ![r].current = c]
    /\ UNCHANGED <<item, log, made, today, faults>>

\* The timeline event after the log cannot fail the request.
LogCreated(r) ==
    LET key == request[r].key
        c   == request[r].current IN
    /\ request[r].pc = "log" /\ NoRow(key, c)
    /\ log' = log \cup {Logged(key, c, "CREATED")}
    /\ request' = [request EXCEPT ![r].pc = "next", ![r].current = None]
    /\ UNCHANGED <<item, tasks, made, today, faults>>

\* There is a row already, of another request or of a failure: the insert fails.
LogRefused(r) ==
    /\ request[r].pc = "log" /\ ~ NoRow(request[r].key, request[r].current)
    /\ request' = [request EXCEPT ![r].pc = "failed"]
    /\ UNCHANGED <<item, tasks, log, made, today, faults>>

\* The candidate is not known where the error is handled.
BuggyCandidateFails(r) ==
    /\ Fault
    /\ request[r].pc = "next"
    /\ \E c \in request[r].todo \ request[r].skip :
          request' = [request EXCEPT ![r].pc = "failed", ![r].todo = @ \ {c}]
    /\ UNCHANGED <<item, tasks, log, made, today>>

\* The task or its log could not be written.
CandidateFails(r) ==
    /\ Fault
    /\ \/ /\ request[r].pc = "log"
          /\ request' = [request EXCEPT ![r].pc = "failed"]
       \/ /\ request[r].pc = "next"
          /\ \E c \in request[r].todo \ request[r].skip :
                request' = [request EXCEPT ![r].pc = "failed", ![r].todo = @ \ {c}, ![r].current = c]
    /\ UNCHANGED <<item, tasks, log, made, today>>

\* The candidate is logged as failed, if there is no row, and also when the task is there.
LogFailed(r) ==
    LET key == request[r].key
        c   == request[r].current IN
    /\ request[r].pc = "failed"
    /\ \/ log' = (IF NoRow(key, c) THEN log \cup {Logged(key, c, "FAILED")} ELSE log) /\ UNCHANGED faults
       \/ Fault /\ UNCHANGED log
    /\ request' = [request EXCEPT ![r].pc = "next", ![r].current = None]
    /\ UNCHANGED <<item, tasks, made, today>>

EndRequest(r) ==
    /\ request[r].pc = "next" /\ request[r].todo \subseteq request[r].skip
    /\ request' = [request EXCEPT ![r] = NoRequest]
    /\ UNCHANGED <<item, tasks, log, made, today, faults>>

-----------------------------------------------------------------------------
(* The rest of the program: operators move candidates on, days pass.       *)

Move(j, c) ==
    /\ \E s \in {<<"none", "SHORTLISTED">>, <<"SHORTLISTED", "OFFER_SENT">>, <<"OFFER_SENT", "START_CONFIRMED">>} :
          /\ item[j][c].stage = s[1]
          /\ item' = [item EXCEPT ![j][c] = [stage |-> s[2], day |-> today]]
    /\ UNCHANGED <<tasks, log, request, made, today, faults>>

NextDay ==
    /\ today < MaxDays
    /\ today' = today + 1
    /\ UNCHANGED <<item, tasks, log, request, made, faults>>

Next ==
    \/ \E r \in Requests : \/ StartRequest(r) \/ CreateTask(r) \/ LogCreated(r) \/ LogRefused(r)
                           \/ CandidateFails(r) \/ LogFailed(r) \/ EndRequest(r)
    \/ \E j \in Jobs, c \in Candidates : Move(j, c)
    \/ NextDay

Spec == Init /\ [][Next]_vars

-----------------------------------------------------------------------------
(* Properties.                                                             *)

Keys == [type : {"UNDERFILLED_URGENT_JOB", "DORMANT_CANDIDATES_MATCH_URGENT_JOB",
                 "FOLLOW_UP_AFTER_OFFER", "DAY1_AFTERCARE_CHECKIN"},
         job : Jobs, candidates : SUBSET Candidates, day : 0..MaxDays]

TypeOK ==
    /\ item \in [Jobs -> [Candidates -> [stage : Stages, day : 0..MaxDays]]]
    /\ BagToSet(tasks) \subseteq [key : Keys, candidate : Candidates]
    /\ log \subseteq [key : Keys, candidate : Candidates, status : {"CREATED", "FAILED"}]
    /\ request \in [Requests -> [pc : {"idle", "next", "log", "failed"}, key : Keys \cup {None},
                                 todo : SUBSET Candidates, skip : SUBSET Candidates,
                                 current : Candidates \cup {None}]]
    /\ made \in 0..MaxRequests /\ today \in 0..MaxDays /\ faults \in 0..MaxFaults

\* A candidate gets a second task from one opportunity only by requests that run at the
\* same time or after a call that failed after the task, however often operators ask for
\* it -- except once an attempt has been logged as failed: then no CREATED row can ever
\* be written.
DuplicatesBounded ==
    \A e \in BagToSet(tasks) : \/ tasks[e] <= Cardinality(Requests) + faults
                              \/ Logged(e.key, e.candidate, "FAILED") \in log
=============================================================================

------------------------------ MODULE JobBoard ------------------------------
(***************************************************************************)
(* Jobs, and who is shown which.  An operator creates, patches and fills   *)
(* jobs; a job's page ranks the candidates for it; a new approval task     *)
(* carries the best jobs for its candidate, and a snapshot of the first    *)
(* one, by which the inbox ranks the task.  The page and the task score a  *)
(* pair by rules of their own.                                             *)
(*                                                                         *)
(* A text is what it is compared with: a trade, a place, a word on         *)
(* availability.  Titles, reasons, highlights and contact data are left    *)
(* out, and so are the lists of jobs, which only read.                     *)
(***************************************************************************)
EXTENDS Integers, FiniteSets

CONSTANTS Jobs, Candidates,
          Callers,     \* requests and inbound jobs at a time
          NewJobs,     \* bodies of requests that create a job
          Patches,     \* bodies of requests that change one: fields and their values
          Profiles,    \* what the row of a candidate may tell
          District,    \* the district of each postcode
          None,        \* a null column, a place or day that is not told
          Limit,       \* matches in a task (3)
          Soon,        \* days to an urgent start (7)
          Near,        \* days an available candidate starts within (14)
          MaxDays,     \* bound: days that pass
          MaxTasks,    \* bound: tasks created
          MaxWrites,   \* bound: what operators write and candidates tell
          MaxFaults    \* bound: failing queries

JobBoardAssumption ==
    /\ Limit \in Nat \ {0} /\ Soon \in Nat /\ Near \in Nat
    \* A district is no postcode.
    /\ \A p \in DOMAIN District : District[p] \notin DOMAIN District

VARIABLES
    jobs,        \* the rows of jobs
    candidates,  \* the rows of candidates
    caller,      \* what a caller has read
    page,        \* the last page of a job shown to an operator
    tasks,       \* the tasks created
    patched,     \* jobs that were ever patched (history)
    filled,      \* jobs marked as filled, with all positions (history)
    today,       \* days since the first
    used         \* how much of each bound has been used up

vars == <<jobs, candidates, caller, page, tasks, patched, filled, today, used>>

-----------------------------------------------------------------------------
(* Rows.                                                                   *)

\* An empty text: a patch may set one, creating a job may not.
NoTrade == ""

Statuses == {"ACTIVE", "URGENT", "PAUSED", "FILLED", "CLOSED"}

\* What a body leaves out when a job is created.
Defaults ==
    [status |-> "ACTIVE", trade |-> NoTrade, city |-> None, postcode |-> None, card |-> FALSE,
     start |-> None, weeks |-> None, hours |-> None, pay |-> None, charge |-> None,
     currency |-> "GBP", positionsOpen |-> 1, positionsFilled |-> 0]

\* A card is required when the stored requirements mention it; requirements in any other
\* form than the expected one are stored as none.
Stored(body, f) == IF f = "card" THEN body.card = "listed" ELSE body[f]

\* row with the fields of body.
Applied(row, body) == [f \in DOMAIN row |-> IF f \in DOMAIN body THEN Stored(body, f) ELSE row[f]]

Exists(j) == jobs[j] # None

IsOpen(row) == row.status \in {"ACTIVE", "URGENT"}

-----------------------------------------------------------------------------
(* The score of a candidate on the page of a job.                          *)

Points(points, when) == IF when THEN points ELSE 0

\* An empty trade is part of every text.
TradeOnPage(row, profile) ==
    \/ row.trade \in profile.trades
    \/ row.trade = NoTrade /\ profile.trades # {}

InCity(row, profile) == row.city # None /\ profile.place = row.city

\* The postcode or a part of it.
PlaceOnPage(row, profile) ==
    \/ InCity(row, profile)
    \/ row.postcode # None /\ profile.place \in {row.postcode, District[row.postcode]}

\* Some words are enough; a day must not be after the start.
AvailableOnPage(row, profile) ==
    \/ profile.word \in {"immediate", "ready"}
    \/ profile.from # None /\ row.start # None /\ profile.from <= row.start

calculateMatchScore(row, profile) ==
    Points(40, TradeOnPage(row, profile)) + Points(20, PlaceOnPage(row, profile))
    + Points(20, row.card /\ profile.card) + Points(10, AvailableOnPage(row, profile))

\* A tier that a candidate without the card can reach.
BuggyMatchTier(score) ==
    CASE score >= 95 -> "PROVEN" [] score \in 90..94 -> "EXCELLENT"
      [] score \in 70..89 -> "GOOD" [] OTHER -> "WEAK"

getMatchTier(score) ==
    CASE score >= 95 -> "PROVEN" [] score \in 90..94 -> "EXCELLENT"
      [] score \in 80..89 -> "GOOD" [] OTHER -> "WEAK"

-----------------------------------------------------------------------------
(* The score of a job for a candidate, in a task.                          *)

DistrictOf(place) == IF place \in DOMAIN District THEN District[place] ELSE place

\* Any place of the same district.
PlaceMatches(row, profile) ==
    \/ InCity(row, profile)
    \/ row.postcode # None /\ DistrictOf(profile.place) = District[row.postcode]

AvailabilityMatches(row, profile) ==
    /\ profile.word \in {"immediate", "monday"}
    /\ row.start # None /\ row.start - today \in 0..Near

\* The pay is in the range, or less than a tenth below it.
SalaryFits(row, profile) ==
    /\ row.pay # None /\ row.pay # 0 /\ profile.min # None /\ profile.min # 0
    /\ profile.currency \in {None, "GBP", row.currency}
    /\ 10 * row.pay >= 9 * profile.min
    /\ profile.max # None => row.pay <= profile.max \/ row.pay < profile.min

TradeMatches(row, profile) == row.trade # NoTrade /\ row.trade \in profile.trades

JobScore(row, profile) ==
    Points(45, TradeMatches(row, profile))
    + Points(20, PlaceMatches(row, profile)) + Points(10, row.status = "URGENT")
    + Points(15, AvailabilityMatches(row, profile)) + Points(10, SalaryFits(row, profile))

Matching(profile) == {j \in Jobs : Exists(j) /\ IsOpen(jobs[j]) /\ JobScore(jobs[j], profile) > 0}

\* The best of them, in an order the database chooses where scores are the same.
IsBest(shown, all, profile) ==
    /\ Cardinality(shown) = IF Cardinality(all) < Limit THEN Cardinality(all) ELSE Limit
    /\ \A s \in shown, other \in all \ shown : JobScore(jobs[s], profile) >= JobScore(jobs[other], profile)

-----------------------------------------------------------------------------
(* How the inbox ranks a task.                                             *)

\* Weeks before days, an urgent start counts one week, and a job without either four.
BuggyExpectedHours(job, day) ==
    IF job.weeks # None /\ job.weeks > 0 THEN job.weeks * 40
    ELSE IF job.start # None /\ job.start - day \in 0..Soon THEN 240
    ELSE 160

calculateExpectedHours(job, day) ==
    IF job.weeks # None /\ job.weeks > 0 THEN job.weeks * 40
    ELSE IF job.start # None /\ job.start - day \in 0..Soon THEN 40
    ELSE 160

MarginPerHour(job) == IF job.charge # None /\ job.pay # None THEN job.charge - job.pay ELSE None

\* The snapshot in the task's payload; the other place looked at is never written.
extractJobData(task) == task.job

\* What the task's job is worth on that day, and nothing when there is none or a rate is missing.
PriorityScore(job, day) ==
    IF job = None \/ MarginPerHour(job) = None THEN 0
    ELSE MarginPerHour(job) * calculateExpectedHours(job, day)

\* What the page of the job tells it is worth; hours are those of a week.
ProjectMargin(row) ==
    IF MarginPerHour(row) = None \/ row.hours = None \/ row.weeks = None THEN None
    ELSE MarginPerHour(row) * row.hours * row.weeks

-----------------------------------------------------------------------------
(* Operators and inbound jobs.                                             *)

Rest == [pc |-> "idle", job |-> None, row |-> None, who |-> None, profile |-> None, shown |-> {}]

NoPage == [row |-> None, seen |-> {}]

Init ==
    /\ jobs = [j \in Jobs |-> None]
    /\ candidates \in [Candidates -> Profiles]
    /\ caller = [c \in Callers |-> Rest]
    /\ page = NoPage /\ tasks = {} /\ patched = {} /\ filled = {} /\ today = 0
    /\ used = [writes |-> 0, faults |-> 0]

Write == used.writes < MaxWrites /\ used' = [used EXCEPT !.writes = @ + 1]

Fault == used.faults < MaxFaults /\ used' = [used EXCEPT !.faults = @ + 1]

CreateJob(j) ==
    /\ Write /\ ~ Exists(j)
    /\ \E body \in NewJobs : body.trade # NoTrade /\ jobs' = [jobs EXCEPT ![j] = Applied(Defaults, body)]
    /\ UNCHANGED <<candidates, caller, page, tasks, patched, filled, today>>

\* The fields of the body and no other; nothing of them is looked at.
PatchJob(j) ==
    /\ Write /\ Exists(j)
    /\ \E body \in Patches : jobs' = [jobs EXCEPT ![j] = Applied(@, body)]
    /\ patched' = patched \cup {j}
    /\ UNCHANGED <<candidates, caller, page, tasks, filled, today>>

Learn(k) ==
    /\ Write
    /\ \E profile \in Profiles \ {candidates[k]} : candidates' = [candidates EXCEPT ![k] = profile]
    /\ UNCHANGED <<jobs, caller, page, tasks, patched, filled, today>>

Take(c, pc, next) ==
    /\ caller[c].pc = pc
    /\ caller' = [caller EXCEPT ![c] = next]

\* A job is to be marked as filled: its row is read.
ReadForFilled(c) ==
    /\ \E j \in Jobs : Exists(j) /\ Take(c, "idle", [Rest EXCEPT !.pc = "fill", !.job = j, !.row = jobs[j]])
    /\ Write
    /\ UNCHANGED <<jobs, candidates, page, tasks, patched, filled, today>>

\* All positions count as filled, unless the operator does not want it so.
MarkFilled(c) ==
    LET q == caller[c] IN
    /\ Take(c, "fill", Rest)
    /\ \/ /\ jobs' = [jobs EXCEPT ![q.job].status = "FILLED",
                                  ![q.job].positionsFilled = q.row.positionsOpen]
          /\ filled' = filled \cup {q.job}
       \/ jobs' = [jobs EXCEPT ![q.job].status = "FILLED"] /\ UNCHANGED filled
    /\ UNCHANGED <<candidates, page, tasks, patched, today, used>>

\* The page of a job, whatever its status.
ReadJob(c) ==
    /\ \E j \in Jobs : Exists(j) /\ Take(c, "idle", [Rest EXCEPT !.pc = "page", !.job = j, !.row = jobs[j]])
    /\ UNCHANGED <<jobs, candidates, page, tasks, patched, filled, today, used>>

\* Candidates without a point are not shown.
RankCandidates(c) ==
    LET row   == caller[c].row
        score == [k \in Candidates |-> calculateMatchScore(row, candidates[k])]
    IN  /\ Take(c, "page", Rest)
        /\ page' = [row |-> row,
                    seen |-> {[who |-> k, profile |-> candidates[k], tier |-> getMatchTier(score[k])] :
                                 k \in {x \in Candidates : score[x] > 0}}]
        /\ UNCHANGED <<jobs, candidates, tasks, patched, filled, today, used>>

\* A message needs an approval: the candidate is read.
ReadCandidate(c) ==
    /\ Cardinality(tasks) < MaxTasks
    /\ \E k \in Candidates : Take(c, "idle", [Rest EXCEPT !.pc = "match", !.who = k, !.profile = candidates[k]])
    /\ UNCHANGED <<jobs, candidates, page, tasks, patched, filled, today, used>>

\* The jobs that are open now.  The first one, as it was read, is kept.
matchJobsForCandidate(c) ==
    LET q   == caller[c]
        all == Matching(q.profile)
    IN  /\ q.pc = "match"
        /\ \/ all = {} /\ Take(c, "match", [q EXCEPT !.pc = "snapshot"])
           \/ \E shown \in SUBSET all, first \in all :
                 /\ IsBest(shown, all, q.profile) /\ IsBest({first}, {first} \cup shown, q.profile)
                 /\ first \in shown
                 /\ Take(c, "match", [q EXCEPT !.pc = "snapshot", !.shown = shown, !.job = first,
                                               !.row = jobs[first]])
        /\ UNCHANGED <<jobs, candidates, page, tasks, patched, filled, today, used>>

Snapshot(row) == [pay |-> row.pay, charge |-> row.charge, weeks |-> row.weeks, start |-> row.start]

Task(q, job) == [who |-> q.who, shown |-> q.shown, first |-> q.job,
                 pay |-> IF q.job = None THEN None ELSE q.row.pay, job |-> job]

\* The first match is read again, whatever its status is now, and the task is created.
CreateTask(c) ==
    LET q == caller[c] IN
    /\ Take(c, "snapshot", Rest)
    /\ tasks' = tasks \cup {Task(q, IF q.job = None THEN None ELSE Snapshot(jobs[q.job]))}
    /\ UNCHANGED <<jobs, candidates, page, patched, filled, today, used>>

\* A task is created without what could not be read; other requests fail.
Fails(c) ==
    LET q == caller[c] IN
    /\ Fault
    /\ \/ Take(c, "fill", Rest) /\ UNCHANGED tasks
       \/ Take(c, "page", Rest) /\ UNCHANGED tasks
       \/ Take(c, "match", [q EXCEPT !.pc = "snapshot"]) /\ UNCHANGED tasks
       \/ Take(c, "snapshot", Rest) /\ tasks' = tasks \cup {Task(q, None)}
    /\ UNCHANGED <<jobs, candidates, page, patched, filled, today>>

Day ==
    /\ today < MaxDays /\ today' = today + 1
    /\ UNCHANGED <<jobs, candidates, caller, page, tasks, patched, filled, used>>

Next ==
    \/ \E j \in Jobs : CreateJob(j) \/ PatchJob(j)
    \/ \E k \in Candidates : Learn(k)
    \/ \E c \in Callers : \/ ReadForFilled(c) \/ MarkFilled(c) \/ ReadJob(c) \/ RankCandidates(c)
                          \/ ReadCandidate(c) \/ matchJobsForCandidate(c) \/ CreateTask(c) \/ Fails(c)
    \/ Day

Spec == Init /\ [][Next]_vars

-----------------------------------------------------------------------------
(* Properties.                                                             *)

\* Rows have a known status; whatever a caller holds or a task shows is a job that exists.
TypeOK ==
    /\ \A j \in Jobs : Exists(j) => jobs[j].status \in Statuses
    /\ \A c \in Callers : /\ caller[c].pc \in {"idle", "fill", "page", "match", "snapshot"}
                          /\ caller[c].job # None => Exists(caller[c].job)
    /\ \A t \in tasks : t.shown \subseteq {j \in Jobs : Exists(j)}

\* A candidate in a good tier fits the trade and the place and has the card, and the job
\* requires it: for a job that requires none everybody is weak.  Nobody is proven.
TiersNeedCard ==
    \A s \in page.seen :
        /\ s.tier # "PROVEN"
        /\ s.tier # "WEAK" =>
              /\ page.row.card /\ s.profile.card
              /\ TradeOnPage(page.row, s.profile) /\ PlaceOnPage(page.row, s.profile)

\* The two scores agree on good candidates: for one the job's own task would show the job
\* with a trade and a place that match, unless the job's trade was emptied.
MatchersAgree ==
    \A s \in page.seen :
        s.tier # "WEAK" /\ page.row.trade # NoTrade => JobScore(page.row, s.profile) >= 65

\* The snapshot of a task is of its first match.  It is read after the matches: only when
\* the job was patched may it tell another pay than the match above it.
SnapshotOfMatch ==
    \A t \in tasks : t.job # None => /\ t.first \in t.shown
                                     /\ t.job.pay = t.pay \/ t.first \in patched

\* While the job has not changed since, a task for full weeks is ranked by what the page
\* of the job says it is worth.
RankMatchesMargin ==
    \A t \in tasks :
        /\ t.job # None /\ t.job = Snapshot(jobs[t.first])
        /\ jobs[t.first].hours = 40 /\ jobs[t.first].weeks # None /\ jobs[t.first].weeks > 0
        /\ MarginPerHour(jobs[t.first]) # None
        => PriorityScore(extractJobData(t), today) = ProjectMargin(jobs[t.first])

\* A task does not rise in the inbox as the start of its job comes nearer, if the job pays.
RankFallsTowardsStart ==
    \A t \in tasks : \A day \in today..MaxDays :
        /\ t.job # None /\ MarginPerHour(t.job) # None /\ MarginPerHour(t.job) >= 0
        /\ t.job.start # None /\ day <= t.job.start
        => PriorityScore(extractJobData(t), day) <= PriorityScore(extractJobData(t), today)

\* A job marked as filled has all its positions filled, unless it was patched: before the
\* mark, after it, or between its two steps.
FilledUnlessPatched ==
    \A j \in filled \ patched : jobs[j].status = "FILLED" /\ jobs[j].positionsFilled = jobs[j].positionsOpen
=============================================================================

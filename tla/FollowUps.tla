------------------------------ MODULE FollowUps ------------------------------
(***************************************************************************)
(* Follow-up tasks.  Two mechanisms create them, neither with a            *)
(* transaction or a unique index, and both look for a task first:          *)
(*   - processStaleOpenQuestions, at the end of an inbound job, and an     *)
(*     operator's request for one question: a question that has been open  *)
(*     for a day gets a task per day, up to a number in a week;            *)
(*   - processFollowUpReminders, at startup and every five minutes:        *)
(*     a conversation whose followUpAt is due gets a task unless it has an *)
(*     open one.  A scan that is still running does not keep the next one  *)
(*     from starting.                                                      *)
(*                                                                         *)
(* A task is its conversation, what it asks ("reminder" for the second     *)
(* kind) and the day it was created; open counts the open ones.  The       *)
(* suggested message, the due time and the approval status are left out.   *)
(***************************************************************************)
EXTENDS Integers, FiniteSets

CONSTANTS Conversations,
          Questions,      \* the question keys
          Callers,        \* inbound jobs and requests that process stale questions
          Scans,          \* reminder scans that may run at the same time
          WeeklyCap,      \* open follow-ups of a question in a week (3)
          Week,           \* days of a week (7)
          None,           \* no day
          MaxDays,        \* bound: days that pass
          MaxFaults       \* bound: failing database calls

ASSUME FollowUpAssumption ==
    /\ "reminder" \notin Questions
    /\ WeeklyCap \in Nat /\ Week \in Nat /\ MaxDays \in Nat /\ MaxFaults \in Nat
    /\ None \notin Nat /\ None \notin Conversations

Days == 0..MaxDays

Kinds == Questions \cup {"reminder"}

VARIABLES
    asked,      \* per conversation and question: the day it was asked, None when not open
    followUp,   \* per conversation: the followUpAt of its progress data
    closed,     \* the conversations that are closed
    open,       \* open follow-up tasks per conversation, kind and day of creation
    caller,     \* what the callers have checked and are about to create
    scan,       \* the scans: the due dates they read, what is left, what they will create
    today,
    faults      \* how many calls have failed

vars == <<asked, followUp, closed, open, caller, scan, today, faults>>

NoTask == [conv |-> None, key |-> None, day |-> None]

\* now is the time a scan started; left the conversations it has still to look at.
NoScan == [now |-> None, due |-> [c \in Conversations |-> None], left |-> {}, next |-> None]

Init ==
    /\ asked = [c \in Conversations |-> [q \in Questions |-> 0]]
    /\ followUp = [c \in Conversations |-> None]
    /\ closed = {}
    /\ open = [c \in Conversations |-> [k \in Kinds |-> [d \in Days |-> 0]]]
    /\ caller = [j \in Callers |-> NoTask]
    /\ scan = [s \in Scans |-> NoScan]
    /\ today = 0
    /\ faults = 0

Fault == faults < MaxFaults /\ faults' = faults + 1

\* A sum over the days without recursion: the tasks as pairs of a day and a number.
OpenTasks(c, k, days) ==
    Cardinality(UNION {{<<d, n>> : n \in 1..open[c][k][d]} : d \in days})

Created(c, k, day) == open' = [open EXCEPT ![c][k][day] = @ + 1]

-----------------------------------------------------------------------------
(* Follow-ups of open questions.                                           *)

\* One task too many in a week.
BuggyCap(c, q) ==
    /\ asked[c][q] # None /\ asked[c][q] < today
    /\ c \notin closed
    /\ OpenTasks(c, q, {d \in Days : d >= today - Week}) <= WeeklyCap
    /\ open[c][q][today] = 0

\* Nothing in the program sets lastRemindedAt, which is checked as well.
shouldCreateFollowUpTask(c, q) ==
    /\ asked[c][q] # None /\ asked[c][q] < today
    /\ c \notin closed
    /\ OpenTasks(c, q, {d \in Days : d >= today - Week}) < WeeklyCap
    /\ open[c][q][today] = 0

\* The checks of createFollowUpTaskForQuestion; the day is fixed with the first one.
CheckQuestion(j) ==
    /\ caller[j] = NoTask
    /\ \E c \in Conversations, q \in Questions :
          /\ shouldCreateFollowUpTask(c, q)
          /\ caller' = [caller EXCEPT ![j] = [conv |-> c, key |-> q, day |-> today]]
    /\ UNCHANGED <<asked, followUp, closed, open, scan, today, faults>>

CreateFollowUp(j) ==
    /\ caller[j] # NoTask
    /\ Created(caller[j].conv, caller[j].key, caller[j].day)
    /\ caller' = [caller EXCEPT ![j] = NoTask]
    /\ UNCHANGED <<asked, followUp, closed, scan, today, faults>>

\* The error is logged; the next question, or the next message, goes on.
CreateFails(j) ==
    /\ caller[j] # NoTask
    /\ Fault
    /\ caller' = [caller EXCEPT ![j] = NoTask]
    /\ UNCHANGED <<asked, followUp, closed, open, scan, today>>

-----------------------------------------------------------------------------
(* Reminders.                                                              *)

Running(s) == scan[s].now # None

\* The interval fires: all conversations are read.
StartScan(s) ==
    /\ ~ Running(s)
    /\ scan' = [scan EXCEPT ![s] = [now |-> today, due |-> followUp, left |-> Conversations,
                                    next |-> None]]
    /\ UNCHANGED <<asked, followUp, closed, open, caller, today, faults>>

HasOpenFollowUp(c) == \E k \in Kinds, d \in Days : open[c][k][d] > 0

\* Due dates that have passed only.
BuggyNeedsReminder(s, c) ==
    /\ scan[s].due[c] # None /\ scan[s].due[c] < scan[s].now
    /\ ~ HasOpenFollowUp(c)

NeedsReminder(s, c) ==
    /\ scan[s].due[c] # None /\ scan[s].due[c] <= scan[s].now
    /\ ~ HasOpenFollowUp(c)

\* One conversation of the list: not due, or there is a task, or a task will be created.
CheckConversation(s) ==
    /\ Running(s) /\ scan[s].next = None
    /\ \E c \in scan[s].left :
          scan' = [scan EXCEPT ![s].left = @ \ {c},
                               ![s].next = IF NeedsReminder(s, c) THEN c ELSE None]
    /\ UNCHANGED <<asked, followUp, closed, open, caller, today, faults>>

\* The due date stays: once the task is closed the next scan creates another one.
CreateReminder(s) ==
    /\ Running(s) /\ scan[s].next # None
    /\ Created(scan[s].next, "reminder", today)
    /\ scan' = [scan EXCEPT ![s].next = None]
    /\ UNCHANGED <<asked, followUp, closed, caller, today, faults>>

EndScan(s) ==
    /\ Running(s) /\ scan[s].left = {} /\ scan[s].next = None
    /\ scan' = [scan EXCEPT ![s] = NoScan]
    /\ UNCHANGED <<asked, followUp, closed, open, caller, today, faults>>

\* An error at one conversation ends the whole scan, not the interval.
ScanFails(s) ==
    /\ Running(s)
    /\ Fault
    /\ scan' = [scan EXCEPT ![s] = NoScan]
    /\ UNCHANGED <<asked, followUp, closed, open, caller, today>>

-----------------------------------------------------------------------------
(* The rest of the program.                                                *)

\* An inbound message answers a question, or asks it anew; once answered it is not
\* asked again.
Answer(c, q) ==
    /\ asked[c][q] # None
    /\ asked' = [asked EXCEPT ![c][q] = None]
    /\ UNCHANGED <<followUp, closed, open, caller, scan, today, faults>>

\* The progress of a conversation sets the date to tomorrow or takes it away.
SetFollowUp(c) ==
    /\ \E day \in {today + 1, None} \cap (Days \cup {None}) : followUp' = [followUp EXCEPT ![c] = day]
    /\ UNCHANGED <<asked, closed, open, caller, scan, today, faults>>

CloseConversation(c) ==
    /\ c \notin closed
    /\ closed' = closed \cup {c}
    /\ UNCHANGED <<asked, followUp, open, caller, scan, today, faults>>

\* An operator finishes a follow-up.
FinishTask(c, k, d) ==
    /\ open[c][k][d] > 0
    /\ open' = [open EXCEPT ![c][k][d] = @ - 1]
    /\ UNCHANGED <<asked, followUp, closed, caller, scan, today, faults>>

NextDay ==
    /\ today < MaxDays
    /\ today' = today + 1
    /\ UNCHANGED <<asked, followUp, closed, open, caller, scan, faults>>

Scanning(s) == CheckConversation(s) \/ CreateReminder(s) \/ EndScan(s)

Next ==
    \/ \E j \in Callers : CheckQuestion(j) \/ CreateFollowUp(j) \/ CreateFails(j)
    \/ \E s \in Scans : StartScan(s) \/ Scanning(s) \/ ScanFails(s)
    \/ \E c \in Conversations : SetFollowUp(c) \/ CloseConversation(c)
    \/ \E c \in Conversations, q \in Questions : Answer(c, q)
    \/ \E c \in Conversations, k \in Kinds, d \in Days : FinishTask(c, k, d)
    \/ NextDay

Spec == Init /\ [][Next]_vars

\* The interval goes on firing and a scan that has started goes on.
Fairness == \A s \in Scans : WF_vars(StartScan(s)) /\ WF_vars(Scanning(s))

FairSpec == Spec /\ Fairness

-----------------------------------------------------------------------------
(* Properties.                                                             *)

TypeOK ==
    /\ asked \in [Conversations -> [Questions -> Days \cup {None}]]
    /\ followUp \in [Conversations -> Days \cup {None}]
    /\ closed \subseteq Conversations
    /\ open \in [Conversations -> [Kinds -> [Days -> Nat]]]
    /\ caller \in [Callers -> [conv : Conversations, key : Questions, day : Days] \cup {NoTask}]
    /\ scan \in [Scans -> [now : Days \cup {None}, due : [Conversations -> Days \cup {None}],
                           left : SUBSET Conversations, next : Conversations \cup {None}]]
    /\ today \in Days /\ faults \in 0..MaxFaults

DailyFollowUpsBounded ==
    \A c \in Conversations, q \in Questions, d \in Days :
        open[c][q][d] <= Cardinality(Callers)

WeeklyFollowUpsBounded ==
    \A c \in Conversations, q \in Questions, d \in Days :
        OpenTasks(c, q, {e \in Days : d - Week <= e /\ e <= d}) <= WeeklyCap + Cardinality(Callers) - 1

RemindersBounded ==
    \A c \in Conversations : OpenTasks(c, "reminder", Days) <= Cardinality(Scans)

\* Duplicates come from concurrency alone, however often jobs, requests and scans run: of
\* a question and a day there are at most as many open follow-ups as jobs and requests
\* that check at the same time; the weekly cap is overshot only by those that were let
\* through together; and a conversation has one open reminder for every scan that may
\* run at once.
FollowUpsBounded == DailyFollowUpsBounded /\ WeeklyFollowUpsBounded /\ RemindersBounded

\* A due conversation gets an open follow-up, unless its date changes: a failed scan
\* only delays it.
DueIsReminded ==
    \A c \in Conversations :
        (followUp[c] # None /\ followUp[c] <= today)
            ~> (HasOpenFollowUp(c) \/ followUp[c] = None \/ followUp[c] > today)
=============================================================================

----------------------------- MODULE StuckTasks -----------------------------
(***************************************************************************)
(* The monitor of stuck tasks.  At startup and every five minutes a scan   *)
(* goes through the agencies and looks for open tasks that wait for an     *)
(* approval and are older than a threshold; a task is marked by an event   *)
(* of the timeline, whose key allows one per task.  Nothing is written to  *)
(* the task.  Scans may overlap.                                           *)
(*                                                                         *)
(* The reason shown with a task is left out.                               *)
(***************************************************************************)
EXTENDS Integers, FiniteSets

CONSTANTS Tasks,
          Agency,       \* per task: its agency
          Approvals,    \* the tasks of type APPROVAL_REQUIRED; the others are of another type
          Scans,        \* scans that may run at the same time
          Threshold,    \* age at which a task is stuck (20 minutes)
          MaxTime,      \* bound: time
          MaxFaults     \* bound: failing database calls

Agencies == {Agency[t] : t \in Tasks}

StuckAssumption ==
    /\ Approvals \subseteq Tasks
    /\ Threshold \in Nat /\ MaxTime \in Nat /\ MaxFaults \in Nat

VARIABLES
    task,     \* per task: not created, open and pending, open and decided, or closed; its age
    paused,   \* the tasks whose conversation is paused for an approval
    marked,   \* how many TASK_MARKED_STUCK events each task has
    scan,     \* the scans: agencies and tasks left, the task about to be marked
    time,
    faults    \* how many calls have failed

vars == <<task, paused, marked, scan, time, faults>>

States == {"none", "pending", "decided", "closed"}

NoScan == [pc |-> "idle", agencies |-> {}, tasks |-> {}]

Init ==
    /\ task = [t \in Tasks |-> [state |-> "none", created |-> 0]]
    /\ paused = {}
    /\ marked = [t \in Tasks |-> 0]
    /\ scan = [s \in Scans |-> NoScan]
    /\ time = 0
    /\ faults = 0

Fault == faults < MaxFaults /\ faults' = faults + 1

-----------------------------------------------------------------------------
(* The scans.                                                              *)

StartScan(s) ==
    /\ scan[s].pc = "idle"
    /\ scan' = [scan EXCEPT ![s] = [pc |-> "agency", agencies |-> Agencies, tasks |-> {}]]
    /\ UNCHANGED <<task, paused, marked, time, faults>>

\* Open, waiting or of a type that needs an approval, and old enough.
Waiting(t) ==
    /\ task[t].state = "pending" \/ (task[t].state = "decided" /\ t \in Approvals)
    /\ time - task[t].created >= Threshold

\* What a scan knows of a task from then on.
Row(t) == [id |-> t, pending |-> task[t].state = "pending"]

ReadAgency(s) ==
    /\ scan[s].pc = "agency"
    /\ \E a \in scan[s].agencies :
          scan' = [scan EXCEPT ![s] = [pc |-> "task", agencies |-> @.agencies \ {a},
                                       tasks |-> {Row(t) : t \in {u \in Tasks : Agency[u] = a /\ Waiting(u)}}]]
    /\ UNCHANGED <<task, paused, marked, time, faults>>

\* The conversation has to be paused.
BuggyIsStuck(r) == r.id \in paused

\* The conversation is paused, or should be, whatever it is.
IsStuck(r) == r.id \in paused \/ (r.id \in Approvals /\ r.pending)

\* Every scan marks what it finds.
BuggyMarkTask(s) ==
    /\ scan[s].pc = "task"
    /\ \E r \in scan[s].tasks :
          /\ scan' = [scan EXCEPT ![s].tasks = @ \ {r}]
          /\ marked' = [marked EXCEPT ![r.id] = IF IsStuck(r) THEN @ + 1 ELSE @]
    /\ UNCHANGED <<task, paused, time, faults>>

\* One task of the list: the state of the conversation is read, the row is the old one.
\* The event's key allows one row; an error of the event is logged.
MarkTask(s) ==
    /\ scan[s].pc = "task"
    /\ \E r \in scan[s].tasks :
          /\ scan' = [scan EXCEPT ![s].tasks = @ \ {r}]
          /\ \/ marked' = [marked EXCEPT ![r.id] = IF IsStuck(r) /\ @ = 0 THEN 1 ELSE @] /\ UNCHANGED faults
             \/ Fault /\ UNCHANGED marked
    /\ UNCHANGED <<task, paused, time>>

\* A failing query ends the agency.
AgencyFails(s) ==
    /\ scan[s].pc = "task" /\ scan[s].tasks # {}
    /\ Fault
    /\ scan' = [scan EXCEPT ![s].tasks = {}]
    /\ UNCHANGED <<task, paused, marked, time>>

EndAgency(s) ==
    /\ scan[s].pc = "task" /\ scan[s].tasks = {}
    /\ scan' = [scan EXCEPT ![s].pc = IF scan[s].agencies = {} THEN "idle" ELSE "agency"]
    /\ UNCHANGED <<task, paused, marked, time, faults>>

-----------------------------------------------------------------------------
(* The rest of the program.                                                *)

\* A task that waits for an approval pauses its conversation.
CreateTask(t) ==
    /\ task[t].state = "none"
    /\ task' = [task EXCEPT ![t] = [state |-> "pending", created |-> time]]
    /\ paused' = paused \cup ({t} \cap Approvals)
    /\ UNCHANGED <<marked, scan, time, faults>>

\* An operator decides; the task is executed, and closed, later.
Decide(t) ==
    /\ \/ task[t].state = "pending" /\ task' = [task EXCEPT ![t].state = "decided"]
       \/ task[t].state = "decided" /\ task' = [task EXCEPT ![t].state = "closed"]
    /\ UNCHANGED <<paused, marked, scan, time, faults>>

\* The conversation goes on, also because of another task of it, or is paused again.
Resume(t) ==
    /\ t \in paused
    /\ paused' = paused \ {t}
    /\ UNCHANGED <<task, marked, scan, time, faults>>

Tick ==
    /\ time < MaxTime
    /\ time' = time + 1
    /\ UNCHANGED <<task, paused, marked, scan, faults>>

Scanning(s) == ReadAgency(s) \/ MarkTask(s) \/ EndAgency(s)

Next ==
    \/ \E s \in Scans : StartScan(s) \/ Scanning(s) \/ AgencyFails(s)
    \/ \E t \in Tasks : CreateTask(t) \/ Decide(t) \/ Resume(t)
    \/ Tick

Spec == Init /\ [][Next]_vars

\* The interval goes on firing and a scan that has started goes on.
Fairness == \A s \in Scans : WF_vars(StartScan(s)) /\ WF_vars(Scanning(s))

FairSpec == Spec /\ Fairness

-----------------------------------------------------------------------------
(* Properties.                                                             *)

TypeOK ==
    /\ task \in [Tasks -> [state : States, created : 0..MaxTime]]
    /\ paused \subseteq Tasks
    /\ marked \in [Tasks -> 0..1]
    /\ scan \in [Scans -> [pc : {"idle", "agency", "task"}, agencies : SUBSET Agencies,
                           tasks : SUBSET [id : Tasks, pending : BOOLEAN]]]
    /\ time \in 0..MaxTime /\ faults \in 0..MaxFaults

\* A task that needs an approval and has waited long enough is marked, or decided first:
\* also when its conversation has gone on meanwhile, and when a scan fails.
StuckIsMarked ==
    \A t \in Approvals :
        (task[t].state = "pending" /\ Waiting(t)) ~> (marked[t] > 0 \/ task[t].state # "pending")
=============================================================================

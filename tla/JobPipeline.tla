---------------------------- MODULE JobPipeline ----------------------------
(***************************************************************************)
(* The pipeline of a job: which stage a candidate has reached, and the     *)
(* tasks that a change of stage creates.  An item is a pair of a job and a *)
(* candidate.  Requests read the item, check the change against what they  *)
(* read, write the item by its unique key, and only then look for a task   *)
(* and create it; two requests may be anywhere in that at once.            *)
(*                                                                         *)
(* The timeline events and the progress stage a request also updates are   *)
(* not read by any of these steps.                                         *)
(***************************************************************************)
EXTENDS Integers, FiniteSets

CONSTANTS Items,       \* pairs of a job and a candidate
          Requests,    \* requests the API serves at a time
          None,        \* a null column
          MaxFaults,   \* bound: failing database calls
          MaxCrashes   \* bound: restarts of the process

Stages == {"SHORTLISTED", "OFFER_SENT", "START_CONFIRMED", "NO_SHOW", "DROPPED"}

ASSUME NoneAssumption == None \notin Stages \cup Items \cup {"OUTREACH", "FOLLOW_UP"}

ASSUME BoundsAssumption == MaxFaults \in Nat /\ MaxCrashes \in Nat

ASSUME RequestsAssumption == IsFiniteSet(Requests)

VARIABLES
    item,      \* the JobPipelineItem rows: their stage (None: no row)
    open,      \* per type the number of OPEN tasks the pipeline has made for an item
    req,       \* the requests being served
    promised,  \* history: moves that ask for a task and were written
    excused,   \* history: of those, the ones left without by a rejection, a failure or a restart
    used       \* how much of each bound has been used up

vars == <<item, open, req, promised, excused, used>>

TaskTypes == {"OUTREACH", "FOLLOW_UP"}

Idle == [pc |-> "idle", item |-> None, stage |-> None, task |-> None,
         seen |-> None, overtaken |-> FALSE]

Init ==
    /\ item = [i \in Items |-> None]
    /\ open = [k \in TaskTypes |-> [i \in Items |-> 0]]
    /\ req = [r \in Requests |-> Idle]
    /\ promised = {}
    /\ excused = {}
    /\ used = [faults |-> 0, crashes |-> 0]

Fault == used.faults < MaxFaults /\ used' = [used EXCEPT !.faults = @ + 1]

-----------------------------------------------------------------------------
(* The rules.                                                              *)

\* A change as the console sends it: the stage, whether it gives a start date,
\* notes or a confirmed interest, a reason for a no-show, and whether it wants an
\* outreach task.  None of the steps reads the date once it is written.
Changes == [stage : Stages, start : BOOLEAN, interest : BOOLEAN, reason : BOOLEAN,
            outreach : BOOLEAN]

allowedTransitions == [SHORTLISTED     |-> {"OFFER_SENT", "DROPPED"},
                       OFFER_SENT      |-> {"START_CONFIRMED", "NO_SHOW", "DROPPED"},
                       START_CONFIRMED |-> {"NO_SHOW", "DROPPED"},
                       NO_SHOW         |-> {"DROPPED"},
                       DROPPED         |-> {}]

Allowed(from, to) == from \in Stages /\ to \in allowedTransitions[from]

MeetsRequirements(change) ==
    /\ change.stage = "START_CONFIRMED" => change.start
    /\ change.stage = "OFFER_SENT" => change.interest
    /\ change.stage = "NO_SHOW" => change.reason

\* The requirements are checked, the transition is not.
BuggyValid(from, change) == from \in {None, change.stage} \/ MeetsRequirements(change)

\* A new item, and one that keeps its stage, is not validated at all.
Valid(from, change) ==
    \/ from \in {None, change.stage}
    \/ Allowed(from, change.stage) /\ MeetsRequirements(change)

TaskFor(change) ==
    CASE change.stage = "OFFER_SENT" /\ change.outreach -> "OUTREACH"
      [] change.stage = "START_CONFIRMED"               -> "FOLLOW_UP"
      [] OTHER                                          -> None

-----------------------------------------------------------------------------
(* Requests.                                                               *)

ReadItem(r) ==
    /\ req[r].pc = "idle"
    /\ \E i \in Items, change \in Changes :
          /\ Valid(item[i], change)
          /\ req' = [req EXCEPT ![r] =
                [pc |-> "write", item |-> i, stage |-> change.stage, task |-> TaskFor(change),
                 seen |-> item[i], overtaken |-> FALSE]]
    /\ UNCHANGED <<item, open, promised, excused, used>>

\* The requests after a write to item i; those that have read it act on old data.
Overtake(i) ==
    [r \in Requests |-> IF req[r].pc = "write" /\ req[r].item = i
                        THEN [req[r] EXCEPT !.overtaken = TRUE] ELSE req[r]]

Wanted(r) == <<req[r].task, req[r].item>>

MakingTask(r) == req[r].pc \in {"search", "create"}

\* A new item gets no task, whatever its stage.
WantsTask(q) == q.seen \notin {None, q.stage} /\ q.task # None

\* The upsert: it updates the row by its key as it is now, or creates it.
WriteItem(r) ==
    LET q == req[r] IN
    /\ q.pc = "write"
    /\ item' = [item EXCEPT ![q.item] = q.stage]
    /\ req' = [Overtake(q.item) EXCEPT ![r] = IF WantsTask(q) THEN [q EXCEPT !.pc = "search"] ELSE Idle]
    /\ IF WantsTask(q)
       THEN promised' = promised \cup {Wanted(r)} /\ excused' = excused \ {Wanted(r)}
       ELSE UNCHANGED <<promised, excused>>
    /\ UNCHANGED <<open, used>>

\* Tasks of any type count.
BuggyHasOpenTask(k, i) == \E type \in TaskTypes : open[type][i] > 0

\* The search finds nothing.
BuggyUnseenTask(k, i) == FALSE

\* An open task of that type for this job and candidate.
HasOpenTask(k, i) == open[k][i] > 0

\* No task is made either for a candidate without a contact or a conversation, or
\* when an opportunity has made one for the pair.
SearchTask(r) ==
    LET q == req[r] IN
    /\ q.pc = "search"
    /\ \/ /\ HasOpenTask(q.task, q.item)
          /\ req' = [req EXCEPT ![r] = Idle]
          /\ UNCHANGED excused
       \/ /\ ~ HasOpenTask(q.task, q.item)
          /\ req' = [req EXCEPT ![r].pc = "create"]
          /\ UNCHANGED excused
       \/ /\ ~ HasOpenTask(q.task, q.item)
          /\ req' = [req EXCEPT ![r] = Idle]
          /\ excused' = excused \cup {Wanted(r)}
    /\ UNCHANGED <<item, open, promised, used>>

CreateTask(r) ==
    /\ req[r].pc = "create"
    /\ open' = [open EXCEPT ![req[r].task][req[r].item] = @ + 1]
    /\ req' = [req EXCEPT ![r] = Idle]
    /\ UNCHANGED <<item, promised, excused, used>>

ReadRemoval(r) ==
    /\ req[r].pc = "idle"
    /\ \E i \in Items :
          /\ item[i] # None
          /\ req' = [req EXCEPT ![r] = [Idle EXCEPT !.pc = "remove", !.item = i]]
    /\ UNCHANGED <<item, open, promised, excused, used>>

\* The tasks stay.
RemoveItem(r) ==
    /\ req[r].pc = "remove"
    /\ item[req[r].item] # None
    /\ item' = [item EXCEPT ![req[r].item] = None]
    /\ req' = [Overtake(req[r].item) EXCEPT ![r] = Idle]
    /\ UNCHANGED <<open, promised, excused, used>>

\* Deleting a row that is gone fails.
FindRemoved(r) ==
    /\ req[r].pc = "remove"
    /\ item[req[r].item] = None
    /\ req' = [req EXCEPT ![r] = Idle]
    /\ UNCHANGED <<item, open, promised, excused, used>>

\* The task is not looked at before it is closed.
BuggyRejectOutreach(i) ==
    /\ item[i] = "OFFER_SENT"
    /\ open' = [open EXCEPT !["OUTREACH"][i] = @ - 1]
    /\ excused' = excused \cup {<<"OUTREACH", i>>}
    /\ UNCHANGED <<item, req, promised, used>>

\* The approval API refuses to approve an outreach task; it can be rejected.
\* Nothing closes the other one.
RejectOutreach(i) ==
    /\ open["OUTREACH"][i] > 0
    /\ open' = [open EXCEPT !["OUTREACH"][i] = @ - 1]
    /\ excused' = excused \cup {<<"OUTREACH", i>>}
    /\ UNCHANGED <<item, req, promised, used>>

-----------------------------------------------------------------------------
(* Failures.                                                               *)

\* The request is answered with an error.
RequestFails(r) ==
    /\ req[r].pc \in {"write", "remove"}
    /\ Fault
    /\ req' = [req EXCEPT ![r] = Idle]
    /\ UNCHANGED <<item, open, promised, excused>>

\* A task that cannot be created is logged, and the request succeeds.
TaskFails(r) ==
    /\ MakingTask(r)
    /\ Fault
    /\ req' = [req EXCEPT ![r] = Idle]
    /\ excused' = excused \cup {Wanted(r)}
    /\ UNCHANGED <<item, open, promised>>

Restart ==
    /\ used.crashes < MaxCrashes
    /\ used' = [used EXCEPT !.crashes = @ + 1]
    /\ req' = [r \in Requests |-> Idle]
    /\ excused' = excused \cup {Wanted(r) : r \in {s \in Requests : MakingTask(s)}}
    /\ UNCHANGED <<item, open, promised>>

Next ==
    \/ \E r \in Requests : \/ ReadItem(r) \/ WriteItem(r) \/ SearchTask(r) \/ CreateTask(r)
                           \/ ReadRemoval(r) \/ RemoveItem(r) \/ FindRemoved(r)
                           \/ RequestFails(r) \/ TaskFails(r)
    \/ \E i \in Items : RejectOutreach(i)
    \/ Restart

Spec == Init /\ [][Next]_vars

-----------------------------------------------------------------------------
(* Properties.                                                             *)

RequestState == [pc : {"idle", "write", "search", "create", "remove"},
                 item : Items \cup {None}, stage : Stages \cup {None},
                 task : TaskTypes \cup {None}, seen : Stages \cup {None}, overtaken : BOOLEAN]

\* Every variable keeps its type; in particular no more tasks are closed than
\* were open, and a request that makes a task knows of which type and for whom.
TypeOK ==
    /\ item \in [Items -> Stages \cup {None}]
    /\ open \in [TaskTypes -> [Items -> Nat]]
    /\ req \in [Requests -> RequestState]
    /\ promised \subseteq TaskTypes \X Items
    /\ excused \subseteq TaskTypes \X Items
    /\ used \in [faults : Nat, crashes : Nat]
    /\ \A r \in Requests : /\ req[r].pc # "idle" => req[r].item \in Items
                           /\ req[r].pc = "write" => req[r].stage \in Stages
                           /\ MakingTask(r) => req[r].task \in TaskTypes

FollowsRules(from, to) == from \in {None, to} \/ to = None \/ Allowed(from, to)

\* The item leaves the stage machine of validateStageTransition only through a
\* request that was overtaken: nobody else wrote, and every move of the item is
\* one of the allowed ones.
UndisturbedMovesAllowed ==
    [][\A i \in Items :
          \/ FollowsRules(item[i], item'[i])
          \/ \E r \in Requests : /\ req[r].pc = "write" /\ req'[r].pc # "write"
                                 /\ req[r].item = i /\ req[r].overtaken]_vars

\* Tasks of one kind for one item pile up only while requests overlap: there are
\* never more of them, made or about to be, than requests at a time.  With one
\* request at a time this is what the tests call "only once per job/candidate".
OpenTasksBounded ==
    \A k \in TaskTypes, i \in Items :
        open[k][i] + Cardinality({r \in Requests : req[r].pc = "create" /\ Wanted(r) = <<k, i>>})
            <= Cardinality(Requests)

\* A change of stage that asks for a task has one, or is about to get it, unless
\* an operator rejected it, a failing call or a restart came between, or the
\* candidate has no conversation yet or a task from elsewhere (the early returns
\* and swallowed errors of the two helpers).
PromisedTaskExists ==
    \A p \in promised :
        \/ open[p[1]][p[2]] > 0
        \/ p \in excused
        \/ \E r \in Requests : MakingTask(r) /\ Wanted(r) = p
=============================================================================

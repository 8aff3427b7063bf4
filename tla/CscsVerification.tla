-------------------------- MODULE CscsVerification --------------------------
(***************************************************************************)
(* The verification of a candidate's CSCS card.  A task is created with a  *)
(* picture of the card and checked by a job that asks an AI; operators     *)
(* enter their own result, approve (which books the candidate on the job)  *)
(* or reject; further photos the candidate sends are attached to it.       *)
(*                                                                         *)
(* All of them read the JSON payload of the task, hold it while they call  *)
(* the AI, Twilio or the database, and write it back whole.                *)
(*                                                                         *)
(* The branch of the inbound worker that attaches photos is dormant: the   *)
(* webhook stores no metadata with a message yet, by which it would know a *)
(* picture.  Its steps are modelled as written, for the day it does.       *)
(***************************************************************************)
EXTENDS Integers, FiniteSets

CONSTANTS Tasks,      \* ids of CSCS tasks the database may come to hold
          Bookings,   \* pairs of a job and a candidate
          Requests,   \* requests the API serves at a time
          Photos,     \* inbound messages with a picture
          None,       \* a null column
          Attempts,   \* attempts of an automatic check
          MaxStalls,  \* times BullMQ restarts a job that was active in a crash
          MaxFaults,  \* bound: failing database or queue calls, and restarts
          MaxCrashes  \* bound: restarts of the process among them

ASSUME NoneAssumption == None \notin Tasks \cup Bookings

ASSUME RequestsAssumption == IsFiniteSet(Requests)

ASSUME BoundsAssumption ==
    /\ Attempts \in Nat \ {0} /\ MaxStalls \in Nat
    /\ MaxFaults \in Nat /\ MaxCrashes \in Nat

VARIABLES
    task,       \* the Task rows without their payload
    payload,    \* the payload of each task
    confirmed,  \* the Placement rows that are CONFIRMED
    req,        \* the requests being served
    job,        \* the automatic check of each task
    photo,      \* the inbound jobs that attach a photo
    hist,       \* history: the answers a candidate got for each task, and the tasks whose
                \* approval was cut off or overruled
    used        \* how much of each bound has been used up

vars == <<task, payload, confirmed, req, job, photo, hist, used>>

\* UNKNOWN, or whose result it is: no step tells VALID from INVALID.
Results == {"UNKNOWN", "auto", "manual"}

\* card: the payload has a candidate, a job and a picture; a task created for a
\* photo has none of them.  result is checks.overall, placed is placementId, photos
\* is cscs.mediaUrls.
Payloads == [card : BOOLEAN, result : Results, placed : BOOLEAN, photos : SUBSET Photos]

NoPayload == [card |-> FALSE, result |-> "UNKNOWN", placed |-> FALSE, photos |-> {}]

NoTask == [status |-> "ABSENT", approval |-> "PENDING", booking |-> None]

IdleRequest == [pc |-> "idle", task |-> None, snap |-> NoPayload, overtaken |-> FALSE]

NewJob == [pc |-> "none", snap |-> NoPayload, overtaken |-> FALSE, failures |-> 0, stalls |-> 0]

Received == [pc |-> "received", task |-> None, snap |-> NoPayload, overtaken |-> FALSE]

Init ==
    /\ task = [t \in Tasks |-> NoTask]
    /\ payload = [t \in Tasks |-> NoPayload]
    /\ confirmed = {}
    /\ req = [r \in Requests |-> IdleRequest]
    /\ job = [t \in Tasks |-> NewJob]
    /\ photo = [p \in Photos |-> Received]
    /\ hist = [told |-> [t \in Tasks |-> 0], excused |-> {}]
    /\ used = [faults |-> 0, crashes |-> 0]

Fault == used.faults + used.crashes < MaxFaults /\ used' = [used EXCEPT !.faults = @ + 1]

-----------------------------------------------------------------------------
(* Reading and writing.                                                    *)

\* The caller read t and will write it.
Holds(p, t) == p.pc \notin {"idle", "received", "linked", "left"} /\ p.task = t

JobHolds(j) == j.pc \in {"check", "mark"}

\* Whoever holds t holds an old one from now on.
Overtaken(procs, t) ==
    [p \in DOMAIN procs |-> IF Holds(procs[p], t) THEN [procs[p] EXCEPT !.overtaken = TRUE]
                            ELSE procs[p]]

JobsOvertaken(t) ==
    [job EXCEPT ![t] = IF JobHolds(@) THEN [@ EXCEPT !.overtaken = TRUE] ELSE @]

Goto(r, pc) == req' = [req EXCEPT ![r].pc = pc]

Reply(r) == req' = [req EXCEPT ![r] = IdleRequest]

IsOpen(t) == task[t].status = "OPEN"

-----------------------------------------------------------------------------
(* POST /cscs-verification/create.                                         *)

CreateTask(r) ==
    /\ req[r].pc = "idle"
    /\ \E t \in Tasks, b \in Bookings :
          /\ task[t].status = "ABSENT"
          /\ task' = [task EXCEPT ![t] = [status |-> "OPEN", approval |-> "PENDING", booking |-> b]]
          /\ payload' = [payload EXCEPT ![t].card = TRUE]
          /\ req' = [req EXCEPT ![r] = [IdleRequest EXCEPT !.pc = "enqueue", !.task = t]]
    /\ UNCHANGED <<confirmed, job, photo, hist, used>>

\* A failing queue is logged, and the task stays without an automatic check.
EnqueueCheck(r) ==
    /\ req[r].pc = "enqueue"
    /\ \/ job' = [job EXCEPT ![req[r].task].pc = "waiting"] /\ UNCHANGED used
       \/ Fault /\ UNCHANGED job
    /\ Reply(r)
    /\ UNCHANGED <<task, payload, confirmed, photo, hist>>

-----------------------------------------------------------------------------
(* POST /:taskId/cscs/verify: the result of an operator.                   *)

\* Neither the status nor an earlier result is looked at.
ReadForVerify(r) ==
    /\ req[r].pc = "idle"
    /\ \E t \in Tasks :
          /\ task[t].status # "ABSENT"
          /\ req' = [req EXCEPT ![r] = [IdleRequest EXCEPT !.pc = "verify", !.task = t,
                                                           !.snap = payload[t]]]
    /\ UNCHANGED <<task, payload, confirmed, job, photo, hist, used>>

\* The result is UNKNOWN when a check was left out.
SaveManualResult(r) ==
    LET t == req[r].task IN
    /\ req[r].pc = "verify"
    /\ \E result \in {"UNKNOWN", "manual"} :
          payload' = [payload EXCEPT ![t] = [req[r].snap EXCEPT !.result = result]]
    /\ req' = [Overtaken(req, t) EXCEPT ![r] = IdleRequest]
    /\ job' = JobsOvertaken(t)
    /\ photo' = Overtaken(photo, t)
    /\ UNCHANGED <<task, confirmed, hist, used>>

-----------------------------------------------------------------------------
(* Approval.                                                               *)

\* The status of the approval is not looked at.
BuggyIsPending(t) == IsOpen(t) \/ task[t].status = "DONE"

IsPending(t) == IsOpen(t) /\ task[t].approval = "PENDING"

\* A task without a candidate and a job is refused.  The result is not looked at.
ReadForApproval(r) ==
    /\ req[r].pc = "idle"
    /\ \E t \in Tasks :
          /\ IsPending(t) /\ payload[t].card
          /\ req' = [req EXCEPT ![r] = [IdleRequest EXCEPT !.pc = "confirm", !.task = t,
                                                           !.snap = payload[t]]]
    /\ UNCHANGED <<task, payload, confirmed, job, photo, hist, used>>

ConfirmPlacement(r) ==
    /\ req[r].pc = "confirm"
    /\ confirmed' = confirmed \cup {task[req[r].task].booking}
    /\ Goto(r, "notify")
    /\ UNCHANGED <<task, payload, job, photo, hist, used>>

\* The candidate is told; failing to is logged and no more.
NotifyCandidate(r) ==
    /\ req[r].pc = "notify"
    /\ hist' \in {hist, [hist EXCEPT !.told[req[r].task] = @ + 1]}
    /\ Goto(r, "approve")
    /\ UNCHANGED <<task, payload, confirmed, job, photo, used>>

WriteApproval(r) ==
    LET t == req[r].task IN
    /\ req[r].pc = "approve"
    /\ task' = [task EXCEPT ![t] = [@ EXCEPT !.status = "DONE", !.approval = "APPROVED"]]
    /\ payload' = [payload EXCEPT ![t] = [req[r].snap EXCEPT !.placed = TRUE]]
    /\ req' = [Overtaken(req, t) EXCEPT ![r] = IdleRequest]
    /\ job' = JobsOvertaken(t)
    /\ photo' = Overtaken(photo, t)
    /\ UNCHANGED <<confirmed, hist, used>>

-----------------------------------------------------------------------------
(* Rejection.                                                              *)

\* A task that was approved can be rejected.
BuggyIsRejectable(t) == task[t].status \notin {"ABSENT", "REJECTED"}

IsRejectable(t) == task[t].status \notin {"ABSENT", "DONE"} /\ task[t].approval = "PENDING"

ReadForRejection(r) ==
    /\ req[r].pc = "idle"
    /\ \E t \in Tasks :
          /\ IsRejectable(t)
          /\ req' = [req EXCEPT ![r] = [IdleRequest EXCEPT !.task = t,
                                           !.pc = IF payload[t].card THEN "ask" ELSE "reject"]]
    /\ UNCHANGED <<task, payload, confirmed, job, photo, hist, used>>

AskForNewCard(r) ==
    /\ req[r].pc = "ask"
    /\ hist' \in {hist, [hist EXCEPT !.told[req[r].task] = @ + 1]}
    /\ Goto(r, "reject")
    /\ UNCHANGED <<task, payload, confirmed, job, photo, used>>

WriteRejection(r) ==
    LET t == req[r].task IN
    /\ req[r].pc = "reject"
    /\ task' = [task EXCEPT ![t] = [@ EXCEPT !.status = "REJECTED", !.approval = "REJECTED"]]
    /\ hist' = IF task[t].approval = "APPROVED" /\ req[r].overtaken
               THEN [hist EXCEPT !.excused = @ \cup {t}] ELSE hist
    /\ req' = [Overtaken(req, t) EXCEPT ![r] = IdleRequest]
    /\ UNCHANGED <<payload, confirmed, job, photo, used>>

\* Any other failing call of a request answers it with an error.
RequestFails(r) ==
    /\ req[r].pc \in {"verify", "confirm", "approve", "reject"}
    /\ Fault
    /\ hist' = IF req[r].pc = "approve"
               THEN [hist EXCEPT !.excused = @ \cup {req[r].task}] ELSE hist
    /\ Reply(r)
    /\ UNCHANGED <<task, payload, confirmed, job, photo>>

-----------------------------------------------------------------------------
(* The automatic check.                                                    *)

\* The job of t at pc, with nothing in its hands.
JobGoto(t, pc) == job' = [job EXCEPT ![t] = [NewJob EXCEPT !.pc = pc, !.failures = job[t].failures,
                                                           !.stalls = job[t].stalls]]

\* The result is not looked at.
BuggyUnchecked(t) == payload[t].card

\* Nobody has a result yet.
Unchecked(t) == payload[t].card /\ payload[t].result = "UNKNOWN"

ReadCard(t) ==
    /\ job[t].pc = "waiting"
    /\ job' = [job EXCEPT ![t] =
          IF IsOpen(t) /\ Unchecked(t)
          THEN [@ EXCEPT !.pc = "check", !.snap = payload[t], !.overtaken = FALSE]
          ELSE [@ EXCEPT !.pc = "finish"]]
    /\ UNCHANGED <<task, payload, confirmed, req, photo, hist, used>>

\* The AI answered; the payload read before it was asked is written.
SaveAutoResult(t) ==
    /\ job[t].pc = "check"
    /\ payload' = [payload EXCEPT ![t] = [job[t].snap EXCEPT !.result = "auto"]]
    /\ req' = Overtaken(req, t)
    /\ photo' = Overtaken(photo, t)
    /\ JobGoto(t, "finish")
    /\ UNCHANGED <<task, confirmed, hist, used>>

\* The AI fails, times out, or cannot be understood.
CheckFails(t) ==
    /\ job[t].pc = "check"
    /\ JobGoto(t, "catch")
    /\ UNCHANGED <<task, payload, confirmed, req, photo, hist, used>>

\* The task is read again, whatever happened to it since.
ReadForError(t) ==
    /\ job[t].pc = "catch"
    /\ job' = [job EXCEPT ![t] = [@ EXCEPT !.pc = "mark", !.snap = payload[t]]]
    /\ UNCHANGED <<task, payload, confirmed, req, photo, hist, used>>

\* The job is never given up.
BuggyFailedJob(j) == [NewJob EXCEPT !.pc = "waiting", !.stalls = j.stalls]

\* One attempt too many.
BuggyRetriedJob(j) ==
    [NewJob EXCEPT !.pc = IF j.failures <= Attempts THEN "waiting" ELSE "failed",
                   !.failures = j.failures + 1, !.stalls = j.stalls]

\* The job after a failed attempt.
FailedJob(j) ==
    [NewJob EXCEPT !.pc = IF j.failures + 1 < Attempts THEN "waiting" ELSE "failed",
                   !.failures = j.failures + 1, !.stalls = j.stalls]

MarkError(t) ==
    /\ job[t].pc = "mark"
    /\ payload' = [payload EXCEPT ![t] = [job[t].snap EXCEPT !.result = "UNKNOWN"]]
    /\ req' = Overtaken(req, t)
    /\ photo' = Overtaken(photo, t)
    /\ job' = [job EXCEPT ![t] = FailedJob(@)]
    /\ UNCHANGED <<task, confirmed, hist, used>>

CompleteJob(t) ==
    /\ job[t].pc = "finish"
    /\ JobGoto(t, "completed")
    /\ UNCHANGED <<task, payload, confirmed, req, photo, hist, used>>

\* A failing call leads to the error path, and on that path to the next attempt.
JobThrows(t) ==
    /\ job[t].pc \in {"waiting", "check", "catch", "mark"}
    /\ Fault
    /\ IF job[t].pc \in {"waiting", "check"} THEN JobGoto(t, "catch")
       ELSE job' = [job EXCEPT ![t] = FailedJob(@)]
    /\ UNCHANGED <<task, payload, confirmed, req, photo, hist>>

-----------------------------------------------------------------------------
(* Photos the candidate sends.                                             *)

\* The photo goes to an open task of the conversation; with none it is left, or
\* when documents are expected a task is made for it.
ReadForPhoto(p) ==
    /\ photo[p].pc = "received"
    /\ \/ \E t \in Tasks :
             /\ IsOpen(t)
             /\ photo' = [photo EXCEPT ![p] = [Received EXCEPT !.pc = "attach", !.task = t,
                                                               !.snap = payload[t]]]
       \/ \E pc \in {"create", "left"} : photo' = [photo EXCEPT ![p].pc = pc]
    /\ UNCHANGED <<task, payload, confirmed, req, job, hist, used>>

AttachPhoto(p) ==
    LET t == photo[p].task IN
    /\ photo[p].pc = "attach" /\ p \notin photo[p].snap.photos
    /\ payload' = [payload EXCEPT ![t] = [photo[p].snap EXCEPT !.photos = @ \cup {p}]]
    /\ req' = Overtaken(req, t)
    /\ job' = JobsOvertaken(t)
    /\ photo' = [Overtaken(photo, t) EXCEPT ![p] = [Received EXCEPT !.pc = "linked"]]
    /\ UNCHANGED <<task, confirmed, hist, used>>

\* The photo the task is made for has a place of its own in the payload.
CreatePhotoTask(p) ==
    /\ photo[p].pc = "create"
    /\ \E t \in Tasks :
          /\ task[t].status = "ABSENT"
          /\ task' = [task EXCEPT ![t].status = "OPEN"]
    /\ photo' = [photo EXCEPT ![p].pc = "linked"]
    /\ UNCHANGED <<payload, confirmed, req, job, hist, used>>

\* The inbound job ends; a photo that was attached before is not written again.
LeavePhoto(p) ==
    /\ \/ photo[p].pc = "linked"
       \/ photo[p].pc = "attach" /\ p \in photo[p].snap.photos
    /\ photo' = [photo EXCEPT ![p] = [Received EXCEPT !.pc = "left"]]
    /\ UNCHANGED <<task, payload, confirmed, req, job, hist, used>>

\* A failing call is logged and the photo is left where it is.
PhotoFails(p) ==
    /\ photo[p].pc \in {"attach", "create", "linked"}
    /\ Fault
    /\ photo' = [photo EXCEPT ![p] = [Received EXCEPT !.pc = "left"]]
    /\ UNCHANGED <<task, payload, confirmed, req, job, hist>>

-----------------------------------------------------------------------------

StalledJob(j) ==
    IF j.pc \in {"check", "catch", "mark", "finish"}
    THEN [NewJob EXCEPT !.pc = IF j.stalls < MaxStalls THEN "waiting" ELSE "failed",
                        !.failures = j.failures, !.stalls = j.stalls + 1]
    ELSE j

\* Requests in flight are lost; checks and inbound jobs run again from the start.
Restart ==
    /\ used.crashes < MaxCrashes /\ used.faults + used.crashes < MaxFaults
    /\ used' = [used EXCEPT !.crashes = @ + 1]
    /\ hist' = [hist EXCEPT !.excused =
          @ \cup {req[r].task : r \in {s \in Requests : req[s].pc \in {"notify", "approve"}}}]
    /\ req' = [r \in Requests |-> IdleRequest]
    /\ job' = [t \in Tasks |-> StalledJob(job[t])]
    /\ photo' = [p \in Photos |-> IF photo[p].pc = "left" THEN photo[p] ELSE Received]
    /\ UNCHANGED <<task, payload, confirmed>>

ServeRequest(r) ==
    EnqueueCheck(r) \/ SaveManualResult(r) \/ ConfirmPlacement(r) \/ NotifyCandidate(r)
    \/ WriteApproval(r) \/ AskForNewCard(r) \/ WriteRejection(r)

CheckStep(t) ==
    ReadCard(t) \/ SaveAutoResult(t) \/ CheckFails(t) \/ ReadForError(t) \/ MarkError(t)
    \/ CompleteJob(t)

Next ==
    \/ \E r \in Requests : \/ CreateTask(r) \/ ReadForVerify(r) \/ ReadForApproval(r)
                           \/ ReadForRejection(r) \/ ServeRequest(r) \/ RequestFails(r)
    \/ \E t \in Tasks : CheckStep(t) \/ JobThrows(t)
    \/ \E p \in Photos : ReadForPhoto(p) \/ AttachPhoto(p) \/ CreatePhotoTask(p)
                         \/ LeavePhoto(p) \/ PhotoFails(p)
    \/ Restart

Spec == Init /\ [][Next]_vars

\* BullMQ hands a waiting check to a free slot, and a running one goes on.
FairSpec == Spec /\ \A t \in Tasks : WF_vars(CheckStep(t))

-----------------------------------------------------------------------------
(* Properties.                                                             *)

Pcs == {"idle", "enqueue", "verify", "confirm", "notify", "approve", "ask", "reject"}

Caller(pcs) == [pc : pcs, task : Tasks \cup {None}, snap : Payloads, overtaken : BOOLEAN]

\* Every variable keeps its type; a check never has more failed attempts or
\* restarts behind it than BullMQ allows, and only tasks that exist have one.
TypeOK ==
    /\ task \in [Tasks -> [status : {"ABSENT", "OPEN", "DONE", "REJECTED"},
                           approval : {"PENDING", "APPROVED", "REJECTED"},
                           booking : Bookings \cup {None}]]
    /\ payload \in [Tasks -> Payloads]
    /\ confirmed \subseteq Bookings
    /\ req \in [Requests -> Caller(Pcs)]
    /\ job \in [Tasks -> [pc : {"none", "waiting", "check", "catch", "mark", "finish",
                                "completed", "failed"},
                          snap : Payloads, overtaken : BOOLEAN,
                          failures : 0..Attempts, stalls : 0..(MaxStalls + 1)]]
    /\ photo \in [Photos -> Caller({"received", "attach", "create", "linked", "left"})]
    /\ hist \in [told : [Tasks -> Nat], excused : SUBSET Tasks]
    /\ used \in [faults : Nat, crashes : Nat]
    /\ \A t \in Tasks : job[t].pc # "none" => task[t].status # "ABSENT" /\ payload[t].card

\* A caller that held t ends its turn with an old payload.
OvertakenWriter(t) ==
    \/ \E r \in Requests : req[r].task = t /\ req[r].overtaken /\ req'[r].pc = "idle"
    \/ \E p \in Photos : photo[p].task = t /\ photo[p].overtaken /\ photo'[p].pc = "linked"
    \/ job[t].overtaken /\ job'[t].pc # job[t].pc

\* What is in the payload is lost only to a caller that was overtaken: without
\* one, photos and a placement stay, and a known result changes only
\* because an operator enters another or a check that failed resets it.
UndisturbedWritesKeep ==
    [][\A t \in Tasks :
          \/ OvertakenWriter(t)
          \/ /\ payload[t].photos \subseteq payload'[t].photos
             /\ payload[t].placed => payload'[t].placed
             /\ \/ payload'[t].result = payload[t].result
                \/ payload[t].result = "UNKNOWN"
                \/ job[t].pc = "mark"
                \/ \E r \in Requests : req[r].pc = "verify" /\ req[r].task = t]_vars

\* A confirmed placement is never left without its task: the task is DONE, its
\* approval is on the way, was cut off by a failure or a restart after the
\* placement was written, or was overruled by a rejection that began before it.
PlacementAccounted ==
    \A b \in confirmed : \E t \in Tasks :
        /\ task[t].booking = b
        /\ \/ task[t].status = "DONE"
           \/ \E r \in Requests : req[r].task = t /\ req[r].pc \in {"notify", "approve"}
           \/ t \in hist.excused

\* How often a candidate hears of one task, be it "you're booked" or "send a new
\* card": at most once per request served at the time, plus those that fail or a
\* restart cuts off.  The "Prevent double approval" check does no more than that.
AnswersBounded ==
    \A t \in Tasks :
        hist.told[t] + Cardinality({r \in Requests :
                          req[r].task = t /\ req[r].pc \in {"confirm", "notify", "ask"}})
            <= Cardinality(Requests) * (1 + used.crashes) + used.faults

\* Every automatic check that was queued ends, whatever the AI, the database and
\* the process do within the bounds.
CheckEnds ==
    \A t \in Tasks : job[t].pc = "waiting" ~> job[t].pc \in {"completed", "failed"}
=============================================================================

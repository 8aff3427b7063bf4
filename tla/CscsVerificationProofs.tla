----------------------- MODULE CscsVerificationProofs -----------------------
(***************************************************************************)
(* Proofs about CscsVerification: types, that a payload is lost only to a  *)
(* caller that was overtaken, that a confirmed placement has a task that   *)
(* accounts for it, and how often a candidate hears of one task.           *)
(*                                                                         *)
(* All callers read a task, hold its payload and write it back.  The       *)
(* invariant says what they still know of the task when they do: that it   *)
(* exists, whether it is a card's, and, if nobody has overtaken them, what *)
(* the payload is.                                                         *)
(***************************************************************************)
EXTENDS CscsVerification, FiniteSetTheorems, TLAPS

\* Where a request has a payload in its hands.
Writing == {"verify", "confirm", "notify", "approve"}

\* A job that can still run has attempts and restarts left.
JobsBounded ==
    \A t \in Tasks : job[t].pc \notin {"completed", "failed"} =>
        job[t].failures < Attempts /\ job[t].stalls <= MaxStalls

\* A card's task has a booking; an id that is not used yet has no payload.
TasksOK ==
    \A t \in Tasks : /\ payload[t].card => task[t].booking \in Bookings /\ task[t].status # "ABSENT"
                     /\ task[t].status = "ABSENT" => payload[t] = NoPayload
                     /\ task[t].status = "DONE" => task[t].approval = "APPROVED"

RequestOK(r) ==
    /\ req[r].pc # "idle" => req[r].task \in Tasks /\ task[req[r].task].status # "ABSENT"
    /\ req[r].pc \in Writing => req[r].snap.card = payload[req[r].task].card
    /\ req[r].pc \in {"enqueue", "confirm", "notify", "approve"} => payload[req[r].task].card

\* A check is queued once.
QueuedOnce ==
    \A r \in Requests : req[r].pc = "enqueue" =>
        /\ job[req[r].task].pc = "none"
        /\ \A s \in Requests \ {r} : req[s].pc = "enqueue" => req[s].task # req[r].task

PhotoOK(p) ==
    photo[p].pc = "attach" => /\ photo[p].task \in Tasks /\ task[photo[p].task].status # "ABSENT"
                              /\ photo[p].snap.card = payload[photo[p].task].card

\* The callers of a task that exists, whatever its payload is by now.
CallersOK ==
    /\ \A r \in Requests : RequestOK(r)
    /\ \A t \in Tasks : JobHolds(job[t]) => job[t].snap.card
    /\ \A p \in Photos : PhotoOK(p)

TypeInv == TypeOK /\ JobsBounded /\ TasksOK /\ CallersOK /\ QueuedOnce

-----------------------------------------------------------------------------
(* The operators of the model.                                             *)

LEMMA OvertakenFacts ==
    ASSUME NEW D, NEW pcs, NEW procs \in [D -> Caller(pcs)], NEW t
    PROVE  /\ Overtaken(procs, t) \in [D -> Caller(pcs)]
           /\ \A p \in D : /\ Overtaken(procs, t)[p].pc = procs[p].pc
                           /\ Overtaken(procs, t)[p].task = procs[p].task
                           /\ Overtaken(procs, t)[p].snap = procs[p].snap
                           /\ Holds(procs[p], t) => Overtaken(procs, t)[p].overtaken
                           /\ procs[p].overtaken => Overtaken(procs, t)[p].overtaken
<1>1. DOMAIN procs = D
  OBVIOUS
<1>2. Overtaken(procs, t) = [p \in D |-> IF Holds(procs[p], t) THEN [procs[p] EXCEPT !.overtaken = TRUE]
                                         ELSE procs[p]]
  BY <1>1 DEF Overtaken
<1>3. ASSUME NEW p \in D PROVE procs[p] \in Caller(pcs)
  OBVIOUS
<1> QED
  BY <1>2, <1>3 DEF Caller

LEMMA IdleTypes ==
    /\ NoPayload \in Payloads
    /\ IdleRequest \in Caller(Pcs)
    /\ Received \in Caller({"received", "attach", "create", "linked", "left"})
BY DEF NoPayload, Payloads, Results, IdleRequest, Received, Caller, Pcs

JobTypes == [pc : {"none", "waiting", "check", "catch", "mark", "finish", "completed", "failed"},
             snap : Payloads, overtaken : BOOLEAN,
             failures : 0..Attempts, stalls : 0..(MaxStalls + 1)]

\* A job that can still run may go on, be failed or be restarted.
LEMMA JobFacts ==
    ASSUME NEW j \in JobTypes, j.failures < Attempts, j.stalls <= MaxStalls
    PROVE  /\ FailedJob(j) \in JobTypes /\ FailedJob(j).pc \in {"waiting", "failed"}
           /\ FailedJob(j).pc = "waiting" =>
                 FailedJob(j).failures < Attempts /\ FailedJob(j).stalls <= MaxStalls
           /\ StalledJob(j) \in JobTypes
           /\ StalledJob(j).pc \notin {"completed", "failed"} =>
                 StalledJob(j).failures < Attempts /\ StalledJob(j).stalls <= MaxStalls
           /\ \A pc \in {"catch", "finish", "completed"} :
                 [NewJob EXCEPT !.pc = pc, !.failures = j.failures, !.stalls = j.stalls] \in JobTypes
<1> DEFINE At(pc, f, s) == [NewJob EXCEPT !.pc = pc, !.failures = f, !.stalls = s]
<1>1. ASSUME NEW pc \in {"waiting", "failed", "catch", "finish", "completed"},
             NEW f \in 0..Attempts, NEW s \in 0..(MaxStalls + 1)
      PROVE  /\ At(pc, f, s) \in JobTypes /\ At(pc, f, s).pc = pc
             /\ At(pc, f, s).failures = f /\ At(pc, f, s).stalls = s
  BY IdleTypes DEF JobTypes, NewJob
<1> HIDE DEF At
<1>2. /\ j.failures \in 0..Attempts /\ j.failures + 1 \in 0..Attempts
      /\ j.stalls \in 0..(MaxStalls + 1) /\ j.stalls + 1 \in 0..(MaxStalls + 1)
  <2>1. j.failures \in 0..Attempts /\ j.stalls \in 0..(MaxStalls + 1)
    BY DEF JobTypes
  <2>2. j.failures + 1 \in 0..Attempts
    BY <2>1, BoundsAssumption
  <2>3. j.stalls + 1 \in 0..(MaxStalls + 1)
    BY <2>1, BoundsAssumption
  <2> QED
    BY <2>1, <2>2, <2>3
<1>3. ASSUME NEW pc \in {"catch", "finish", "completed"}
      PROVE  At(pc, j.failures, j.stalls) \in JobTypes
  BY <1>1, <1>2
<1>4. /\ FailedJob(j) \in JobTypes /\ FailedJob(j).pc \in {"waiting", "failed"}
      /\ FailedJob(j).pc = "waiting" => FailedJob(j).failures < Attempts /\ FailedJob(j).stalls <= MaxStalls
  <2>1. CASE j.failures + 1 < Attempts
    <3>1. FailedJob(j) = At("waiting", j.failures + 1, j.stalls)
      BY <2>1 DEF FailedJob, At
    <3> QED
      BY <1>1, <1>2, <2>1, <3>1
  <2>2. CASE ~ (j.failures + 1 < Attempts)
    <3>1. FailedJob(j) = At("failed", j.failures + 1, j.stalls)
      BY <2>2 DEF FailedJob, At
    <3> QED
      BY <1>1, <1>2, <3>1
  <2> QED
    BY <2>1, <2>2
<1>5. /\ StalledJob(j) \in JobTypes
      /\ StalledJob(j).pc \notin {"completed", "failed"} =>
            StalledJob(j).failures < Attempts /\ StalledJob(j).stalls <= MaxStalls
  <2>1. CASE j.pc \notin {"check", "catch", "mark", "finish"}
    BY <2>1 DEF StalledJob
  <2>2. CASE j.pc \in {"check", "catch", "mark", "finish"} /\ j.stalls < MaxStalls
    <3>1. StalledJob(j) = At("waiting", j.failures, j.stalls + 1)
      BY <2>2 DEF StalledJob, At
    <3>2. j.stalls + 1 <= MaxStalls
      BY <1>2, <2>2, BoundsAssumption
    <3> QED
      BY <1>1, <1>2, <3>1, <3>2
  <2>3. CASE j.pc \in {"check", "catch", "mark", "finish"} /\ ~ (j.stalls < MaxStalls)
    <3>1. StalledJob(j) = At("failed", j.failures, j.stalls + 1)
      BY <2>3 DEF StalledJob, At
    <3> QED
      BY <1>1, <1>2, <3>1
  <2> QED
    BY <2>1, <2>2, <2>3
<1> QED
  BY <1>3, <1>4, <1>5 DEF At

-----------------------------------------------------------------------------
(* What carries the invariant over a step.                                 *)

\* Tasks are never deleted; nobody changes whose card it is.
Stable ==
    \A t \in Tasks : task[t].status # "ABSENT" =>
        /\ task'[t].status # "ABSENT" /\ task'[t].booking = task[t].booking
        /\ payload'[t].card = payload[t].card

\* A caller that is where it was, overtaken or not.
Stays(q, p) == q.pc = p.pc /\ q.task = p.task /\ q.snap = p.snap

LEMMA CarriedRequest ==
    ASSUME NEW r \in Requests, RequestOK(r), Stable, Stays(req'[r], req[r]) \/ req'[r].pc = "idle"
    PROVE  RequestOK(r)'
BY DEF RequestOK, Stable, Stays, Writing

LEMMA CarriedPhoto ==
    ASSUME NEW p \in Photos, PhotoOK(p), Stable, Stays(photo'[p], photo[p]) \/ photo'[p].pc # "attach"
    PROVE  PhotoOK(p)'
BY DEF PhotoOK, Stable, Stays

LEMMA CarriedQueue ==
    ASSUME QueuedOnce,
           \A r \in Requests : req'[r].pc = "enqueue" => req[r].pc = "enqueue" /\ req'[r].task = req[r].task,
           \A r \in Requests : req[r].pc = "enqueue" => req[r].task \in Tasks,
           \A t \in Tasks : job[t].pc = "none" => job'[t].pc = "none" 
    PROVE  QueuedOnce'
BY DEF QueuedOnce

\* Jobs, if they are only overtaken.
LEMMA OvertakenJobs ==
    ASSUME TypeOK, JobsBounded, NEW t
    PROVE  /\ JobsOvertaken(t) \in [Tasks -> JobTypes]
           /\ \A u \in Tasks : /\ JobsOvertaken(t)[u].pc = job[u].pc
                               /\ JobsOvertaken(t)[u].snap = job[u].snap
                               /\ JobsOvertaken(t)[u].failures = job[u].failures
                               /\ JobsOvertaken(t)[u].stalls = job[u].stalls
                               /\ u = t /\ JobHolds(job[u]) => JobsOvertaken(t)[u].overtaken
                               /\ job[u].overtaken => JobsOvertaken(t)[u].overtaken
<1>1. job \in [Tasks -> JobTypes]
  BY DEF TypeOK, JobTypes
<1>2. DEFINE J == JobsOvertaken(t)
<1>3. ASSUME NEW u \in Tasks
      PROVE  J[u] = IF u = t /\ JobHolds(job[u]) THEN [job[u] EXCEPT !.overtaken = TRUE] ELSE job[u]
  BY <1>1 DEF JobsOvertaken
<1>4. J = [u \in Tasks |-> J[u]]
  BY <1>1 DEF JobsOvertaken
<1>5. ASSUME NEW u \in Tasks
      PROVE  /\ J[u] \in JobTypes
             /\ J[u].pc = job[u].pc /\ J[u].snap = job[u].snap
             /\ J[u].failures = job[u].failures /\ J[u].stalls = job[u].stalls
             /\ u = t /\ JobHolds(job[u]) => J[u].overtaken
             /\ job[u].overtaken => J[u].overtaken
  <2>1. job[u] \in JobTypes
    BY <1>1
  <2> QED
    BY <1>3, <2>1 DEF JobTypes
<1> QED
  BY <1>4, <1>5

LEMMA FaultType == ASSUME TypeOK, Fault PROVE used' \in [faults : Nat, crashes : Nat]
BY DEF TypeOK, Fault

\* TypeOK without its last part.
Types ==
    /\ task \in [Tasks -> [status : {"ABSENT", "OPEN", "DONE", "REJECTED"},
                           approval : {"PENDING", "APPROVED", "REJECTED"},
                           booking : Bookings \cup {None}]]
    /\ payload \in [Tasks -> Payloads]
    /\ confirmed \subseteq Bookings
    /\ req \in [Requests -> Caller(Pcs)]
    /\ job \in [Tasks -> JobTypes]
    /\ photo \in [Photos -> Caller({"received", "attach", "create", "linked", "left"})]
    /\ hist \in [told : [Tasks -> Nat], excused : SUBSET Tasks]
    /\ used \in [faults : Nat, crashes : Nat]

LEMMA TypesOfTypeOK ==
    TypeOK <=> Types /\ \A t \in Tasks : job[t].pc # "none" => task[t].status # "ABSENT" /\ payload[t].card
BY DEF TypeOK, Types, JobTypes

JobStays(t) ==
    /\ job'[t].pc = job[t].pc /\ job'[t].snap = job[t].snap
    /\ job'[t].failures = job[t].failures /\ job'[t].stalls = job[t].stalls

JobMoves(t) ==
    /\ task[t].status # "ABSENT" /\ payload[t].card
    /\ job'[t].pc \notin {"completed", "failed"} =>
          job'[t].failures < Attempts /\ job'[t].stalls <= MaxStalls
    /\ JobHolds(job'[t]) => job'[t].snap.card

\* What has to be shown of a step.
LEMMA Assemble ==
    ASSUME TypeInv, Types', Stable, TasksOK', QueuedOnce',
           \A r \in Requests : Stays(req'[r], req[r]) \/ req'[r].pc = "idle" \/ RequestOK(r)',
           \A p \in Photos : Stays(photo'[p], photo[p]) \/ photo'[p].pc # "attach" \/ PhotoOK(p)',
           \A t \in Tasks : JobStays(t) \/ JobMoves(t)
    PROVE  TypeInv'
<1>1. \A r \in Requests : RequestOK(r)'
  BY CarriedRequest DEF TypeInv, CallersOK
<1>2. \A p \in Photos : PhotoOK(p)'
  BY CarriedPhoto DEF TypeInv, CallersOK
<1>3. ASSUME NEW t \in Tasks
      PROVE  /\ job'[t].pc # "none" => task'[t].status # "ABSENT" /\ payload'[t].card
             /\ job'[t].pc \notin {"completed", "failed"} =>
                   job'[t].failures < Attempts /\ job'[t].stalls <= MaxStalls
             /\ JobHolds(job'[t]) => job'[t].snap.card
  <2>1. CASE JobStays(t)
    BY <2>1, TypesOfTypeOK DEF TypeInv, JobsBounded, CallersOK, JobStays, JobHolds, Stable
  <2>2. CASE JobMoves(t)
    BY <2>2 DEF JobMoves, Stable
  <2> QED
    BY <2>1, <2>2
<1>4. TypeOK'
  <2>1. \A t \in Tasks : job'[t].pc # "none" => task'[t].status # "ABSENT" /\ payload'[t].card
    BY <1>3
  <2> QED
    BY <2>1 DEF TypeOK, Types, JobTypes
<1>5. JobsBounded'
  BY <1>3 DEF JobsBounded
<1>6. CallersOK'
  BY <1>1, <1>2, <1>3 DEF CallersOK
<1> QED
  BY <1>4, <1>5, <1>6 DEF TypeInv

\* A step that leaves the rows of tasks and payloads alone.
LEMMA RowsKept ==
    ASSUME TypeInv, UNCHANGED <<task, payload>>
    PROVE  Stable /\ TasksOK'
BY DEF TypeInv, TasksOK, Stable

LEMMA InitTypeInv == Init => TypeInv
<1> SUFFICES ASSUME Init PROVE TypeInv
  OBVIOUS
<1>1. Types
  <2>1. NewJob \in JobTypes
    BY BoundsAssumption, IdleTypes DEF NewJob, JobTypes
  <2> QED
    BY <2>1, IdleTypes DEF Init, Types, NoTask
<1>2. TypeOK
  BY <1>1, TypesOfTypeOK DEF Init, NewJob
<1>3. JobsBounded /\ TasksOK /\ QueuedOnce
  BY BoundsAssumption DEF Init, JobsBounded, NewJob, TasksOK, NoTask, NoPayload, QueuedOnce, IdleRequest
<1>4. CallersOK
  BY DEF Init, CallersOK, RequestOK, IdleRequest, JobHolds, NewJob, PhotoOK, Received, Writing
<1> QED
  BY <1>2, <1>3, <1>4 DEF TypeInv

\* A write of a payload that its writer has read, with what it changes in it.
LEMMA WriteKeeps ==
    ASSUME TypeInv, NEW t \in Tasks, task[t].status # "ABSENT",
           NEW new \in Payloads, new.card = payload[t].card,
           payload' = [payload EXCEPT ![t] = new], UNCHANGED task
    PROVE  Stable /\ TasksOK' /\ payload' \in [Tasks -> Payloads]
<1>1. payload \in [Tasks -> Payloads]
  BY TypesOfTypeOK DEF TypeInv, Types
<1>2. Stable /\ payload' \in [Tasks -> Payloads]
  BY <1>1 DEF Stable
<1>3. TasksOK'
  BY <1>1 DEF TypeInv, TasksOK
<1> QED
  BY <1>2, <1>3

\* The queue is as it was when no request begins to queue a check.
LEMMA QueueKept ==
    ASSUME TypeInv,
           \A r \in Requests : Stays(req'[r], req[r]) \/ req'[r].pc # "enqueue",
           \A t \in Tasks : job[t].pc = "none" => job'[t].pc = "none"
    PROVE  QueuedOnce'
BY CarriedQueue DEF TypeInv, CallersOK, RequestOK, Stays

\* Requests, if r ends and the others are at most overtaken.
LEMMA RequestEnds ==
    ASSUME Types, NEW r \in Requests, NEW t,
           req' = [Overtaken(req, t) EXCEPT ![r] = IdleRequest]
    PROVE  /\ req' \in [Requests -> Caller(Pcs)]
           /\ \A s \in Requests : Stays(req'[s], req[s]) \/ req'[s].pc = "idle"
           /\ \A s \in Requests : Stays(req'[s], req[s]) \/ req'[s].pc # "enqueue"
<1>1. req \in [Requests -> Caller(Pcs)]
  BY DEF Types
<1> QED
  BY <1>1, OvertakenFacts, IdleTypes DEF Stays, IdleRequest

LEMMA RequestReplies ==
    ASSUME Types, NEW r \in Requests, Reply(r)
    PROVE  /\ req' \in [Requests -> Caller(Pcs)]
           /\ \A s \in Requests : Stays(req'[s], req[s]) \/ req'[s].pc = "idle"
           /\ \A s \in Requests : Stays(req'[s], req[s]) \/ req'[s].pc # "enqueue"
BY IdleTypes DEF Types, Reply, Stays, IdleRequest

\* Callers that are at most overtaken by a write.
LEMMA AllOvertaken ==
    ASSUME TypeInv, NEW t
    PROVE  /\ Overtaken(req, t) \in [Requests -> Caller(Pcs)]
           /\ \A r \in Requests : Stays(Overtaken(req, t)[r], req[r])
           /\ Overtaken(photo, t) \in [Photos -> Caller({"received", "attach", "create", "linked", "left"})]
           /\ \A p \in Photos : Stays(Overtaken(photo, t)[p], photo[p])
           /\ job' = JobsOvertaken(t) =>
                 /\ job' \in [Tasks -> JobTypes]
                 /\ \A u \in Tasks : JobStays(u)
<1>1. Types /\ TypeOK /\ JobsBounded
  BY TypesOfTypeOK DEF TypeInv
<1>2. /\ req \in [Requests -> Caller(Pcs)]
      /\ photo \in [Photos -> Caller({"received", "attach", "create", "linked", "left"})]
  BY <1>1 DEF Types
<1> QED
  BY <1>1, <1>2, OvertakenFacts, OvertakenJobs DEF Stays, JobStays

-----------------------------------------------------------------------------
(* The steps.                                                              *)

LEMMA CreateTaskTypes == ASSUME TypeInv, NEW r \in Requests, CreateTask(r) PROVE TypeInv'
<1>1. Types
  BY TypesOfTypeOK DEF TypeInv
<1>2. PICK t \in Tasks, b \in Bookings :
        /\ task[t].status = "ABSENT"
        /\ task' = [task EXCEPT ![t] = [status |-> "OPEN", approval |-> "PENDING", booking |-> b]]
        /\ payload' = [payload EXCEPT ![t].card = TRUE]
        /\ req' = [req EXCEPT ![r] = [IdleRequest EXCEPT !.pc = "enqueue", !.task = t]]
  BY DEF CreateTask
<1>3. UNCHANGED <<confirmed, job, photo, hist, used>>
  BY DEF CreateTask
<1>4. /\ [IdleRequest EXCEPT !.pc = "enqueue", !.task = t] \in Caller(Pcs)
      /\ [payload[t] EXCEPT !.card = TRUE] \in Payloads
  BY <1>1, IdleTypes DEF IdleRequest, Caller, Pcs, Types, Payloads
<1>5. Types'
  BY <1>1, <1>2, <1>3, <1>4 DEF Types
<1>6. Stable
  BY <1>1, <1>2 DEF Stable, Types
<1>7. TasksOK'
  BY <1>1, <1>2 DEF TypeInv, TasksOK, Types, NoPayload, Payloads
<1>8. /\ req'[r] = [IdleRequest EXCEPT !.pc = "enqueue", !.task = t]
      /\ \A s \in Requests \ {r} : req'[s] = req[s]
  BY <1>1, <1>2 DEF Types
<1>9. RequestOK(r)'
  BY <1>1, <1>2, <1>8 DEF RequestOK, IdleRequest, Writing, Types, Payloads
<1>10. QueuedOnce'
  <2>1. job[t].pc = "none"
    BY <1>2, TypesOfTypeOK DEF TypeInv
  <2>2. \A s \in Requests : req[s].pc = "enqueue" => req[s].task \in Tasks /\ req[s].task # t
    BY <1>2 DEF TypeInv, CallersOK, RequestOK
  <2>3. req'[r].pc = "enqueue" /\ req'[r].task = t
    BY <1>8 DEF IdleRequest
  <2> SUFFICES ASSUME NEW s \in Requests, req'[s].pc = "enqueue"
               PROVE  /\ job'[req'[s].task].pc = "none"
                      /\ \A q \in Requests \ {s} : req'[q].pc = "enqueue" => req'[q].task # req'[s].task
    BY DEF QueuedOnce
  <2>4. CASE s = r
    BY <1>3, <1>8, <2>1, <2>2, <2>3, <2>4
  <2>5. CASE s # r
    <3>1. req'[s] = req[s] /\ req[s].pc = "enqueue" /\ req[s].task # t
      BY <1>8, <2>2, <2>5
    <3>2. \A q \in Requests \ {s, r} : req'[q].pc = "enqueue" => req'[q].task # req'[s].task
      BY <1>8, <3>1 DEF QueuedOnce, TypeInv
    <3>3. job'[req'[s].task].pc = "none"
      BY <1>3, <3>1 DEF QueuedOnce, TypeInv
    <3> QED
      BY <2>3, <3>1, <3>2, <3>3
  <2> QED
    BY <2>4, <2>5
<1>11. \A u \in Tasks : JobStays(u)
  BY <1>3 DEF JobStays
<1>12. \A p \in Photos : Stays(photo'[p], photo[p])
  BY <1>3 DEF Stays
<1>13. \A s \in Requests : Stays(req'[s], req[s]) \/ RequestOK(s)'
  BY <1>8, <1>9 DEF Stays
<1> QED
  BY <1>5, <1>6, <1>7, <1>10, <1>11, <1>12, <1>13, Assemble

LEMMA EnqueueCheckTypes == ASSUME TypeInv, NEW r \in Requests, EnqueueCheck(r) PROVE TypeInv'
<1> DEFINE t == req[r].task
<1>1. Types /\ JobsBounded
  BY TypesOfTypeOK DEF TypeInv
<1>2. /\ req[r].pc = "enqueue" /\ Reply(r)
      /\ UNCHANGED <<task, payload, confirmed, photo, hist>>
      /\ \/ job' = [job EXCEPT ![t].pc = "waiting"] /\ UNCHANGED used
         \/ Fault /\ UNCHANGED job
  BY DEF EnqueueCheck
<1>3. /\ t \in Tasks /\ task[t].status # "ABSENT" /\ payload[t].card
      /\ job[t].pc = "none" /\ \A s \in Requests \ {r} : req[s].pc = "enqueue" => req[s].task # t
  BY <1>2 DEF TypeInv, CallersOK, RequestOK, QueuedOnce
<1>4. Stable /\ TasksOK'
  BY <1>2, RowsKept
<1>5. used' \in [faults : Nat, crashes : Nat]
  <2>1. CASE UNCHANGED used
    BY <1>1, <2>1 DEF Types
  <2>2. CASE Fault
    BY <2>2, FaultType DEF TypeInv
  <2> QED
    BY <1>2, <2>1, <2>2
<1>6. job' \in [Tasks -> JobTypes]
  <2>1. [job[t] EXCEPT !.pc = "waiting"] \in JobTypes
    BY <1>1, <1>3 DEF Types, JobTypes
  <2> QED
    BY <1>1, <1>2, <1>3, <2>1 DEF Types
<1>7. \A u \in Tasks : JobStays(u) \/ JobMoves(u)
  <2>1. CASE UNCHANGED job
    BY <2>1 DEF JobStays
  <2>2. CASE job' = [job EXCEPT ![t].pc = "waiting"]
    <3>1. job'[t] = [job[t] EXCEPT !.pc = "waiting"] /\ \A u \in Tasks \ {t} : job'[u] = job[u]
      BY <1>1, <1>3, <2>2 DEF Types
    <3>2. job[t].failures < Attempts /\ job[t].stalls <= MaxStalls
      BY <1>1, <1>3 DEF JobsBounded
    <3>3. job[t] \in JobTypes
      BY <1>1, <1>3 DEF Types
    <3>4. JobMoves(t)
      BY <1>3, <3>1, <3>2, <3>3 DEF JobMoves, JobHolds, JobTypes
    <3> QED
      BY <3>1, <3>4 DEF JobStays
  <2> QED
    BY <1>2, <2>1, <2>2
<1>8. /\ req' \in [Requests -> Caller(Pcs)]
      /\ \A s \in Requests : Stays(req'[s], req[s]) \/ req'[s].pc = "idle"
  BY <1>1, <1>2, RequestReplies
<1>9. Types'
  BY <1>1, <1>2, <1>5, <1>6, <1>8 DEF Types
<1>10. \A p \in Photos : Stays(photo'[p], photo[p])
  BY <1>2 DEF Stays
<1>11. QueuedOnce'
  <2>1. \A s \in Requests : req'[s].pc = "enqueue" => s # r /\ req'[s] = req[s]
    BY <1>1, <1>2 DEF Reply, IdleRequest, Types
  <2>2. ASSUME NEW s \in Requests, req'[s].pc = "enqueue"
        PROVE  job'[req'[s].task].pc = "none"
    <3>1. req'[s] = req[s] /\ req[s].task # t /\ job[req[s].task].pc = "none" /\ req[s].task \in Tasks
      BY <1>3, <2>1, <2>2 DEF QueuedOnce, TypeInv, CallersOK, RequestOK
    <3> QED
      BY <1>1, <1>2, <3>1 DEF Types
  <2> QED
    BY <2>1, <2>2 DEF QueuedOnce, TypeInv
<1> QED
  BY <1>4, <1>7, <1>8, <1>9, <1>10, <1>11, Assemble

\* A request that reads or goes on: nothing else changes, but perhaps what a candidate was told.
LEMMA RequestMoves ==
    ASSUME TypeInv, NEW r \in Requests, NEW q \in Caller(Pcs), q.pc # "enqueue",
           req' = [req EXCEPT ![r] = q], RequestOK(r)',
           UNCHANGED <<task, payload, job, photo>>,
           confirmed' \subseteq Bookings, hist' \in [told : [Tasks -> Nat], excused : SUBSET Tasks],
           used' \in [faults : Nat, crashes : Nat]
    PROVE  TypeInv'
<1>1. Types
  BY TypesOfTypeOK DEF TypeInv
<1>2. /\ req'[r] = q /\ req' \in [Requests -> Caller(Pcs)]
      /\ \A s \in Requests \ {r} : req'[s] = req[s]
  BY <1>1 DEF Types
<1>3. Types'
  BY <1>1, <1>2 DEF Types
<1>4. Stable /\ TasksOK'
  BY RowsKept
<1>5. QueuedOnce'
  BY <1>2, QueueKept DEF Stays
<1>6. \A t \in Tasks : JobStays(t)
  BY DEF JobStays
<1>7. \A p \in Photos : Stays(photo'[p], photo[p])
  BY DEF Stays
<1>8. \A s \in Requests : Stays(req'[s], req[s]) \/ RequestOK(s)'
  BY <1>2 DEF Stays
<1> QED
  BY <1>3, <1>4, <1>5, <1>6, <1>7, <1>8, Assemble

LEMMA ReadsTypes ==
    ASSUME TypeInv, NEW r \in Requests, ReadForVerify(r) \/ ReadForApproval(r) \/ ReadForRejection(r)
    PROVE  TypeInv'
<1>1. Types
  BY TypesOfTypeOK DEF TypeInv
<1> DEFINE Begins(q) ==
        /\ req' = [req EXCEPT ![r] = q]
        /\ q.pc \in {"verify", "confirm", "ask", "reject"}
        /\ q.task \in Tasks /\ task[q.task].status # "ABSENT"
        /\ q.pc \in Writing => q.snap = payload[q.task]
        /\ q.pc = "confirm" => payload[q.task].card
<1>2. PICK q \in Caller(Pcs) : Begins(q)
  <2>1. ASSUME NEW t \in Tasks PROVE payload[t] \in Payloads
    BY <1>1 DEF Types
  <2>2. CASE ReadForVerify(r)
    <3> DEFINE q(t) == [IdleRequest EXCEPT !.pc = "verify", !.task = t, !.snap = payload[t]]
    <3>1. PICK t \in Tasks : task[t].status # "ABSENT" /\ req' = [req EXCEPT ![r] = q(t)]
      BY <2>2 DEF ReadForVerify
    <3>2. q(t) \in Caller(Pcs) /\ q(t).pc = "verify" /\ q(t).task = t /\ q(t).snap = payload[t]
      BY <2>1, IdleTypes DEF IdleRequest, Caller, Pcs
    <3> HIDE DEF q
    <3> QED
      BY <3>1, <3>2
  <2>3. CASE ReadForApproval(r)
    <3> DEFINE q(t) == [IdleRequest EXCEPT !.pc = "confirm", !.task = t, !.snap = payload[t]]
    <3>1. PICK t \in Tasks : IsPending(t) /\ payload[t].card /\ req' = [req EXCEPT ![r] = q(t)]
      BY <2>3 DEF ReadForApproval
    <3>2. q(t) \in Caller(Pcs) /\ q(t).pc = "confirm" /\ q(t).task = t /\ q(t).snap = payload[t]
      BY <2>1, IdleTypes DEF IdleRequest, Caller, Pcs
    <3> HIDE DEF q
    <3> QED
      BY <3>1, <3>2 DEF IsPending, IsOpen
  <2>4. CASE ReadForRejection(r)
    <3> DEFINE next(t) == IF payload[t].card THEN "ask" ELSE "reject"
               q(t) == [IdleRequest EXCEPT !.task = t, !.pc = next(t)]
    <3>1. PICK t \in Tasks : IsRejectable(t) /\ req' = [req EXCEPT ![r] = q(t)]
      BY <2>4 DEF ReadForRejection
    <3>2. next(t) \in {"ask", "reject"}
      OBVIOUS
    <3> HIDE DEF next
    <3>3. q(t) \in Caller(Pcs) /\ q(t).pc = next(t) /\ q(t).task = t
      BY <3>2, IdleTypes DEF IdleRequest, Caller, Pcs
    <3> HIDE DEF q
    <3> QED
      BY <3>1, <3>2, <3>3 DEF IsRejectable, Writing
  <2> QED
    BY <2>2, <2>3, <2>4
<1>3. UNCHANGED <<task, payload, confirmed, job, photo, hist, used>>
  BY DEF ReadForVerify, ReadForApproval, ReadForRejection
<1>4. req'[r] = q
  BY <1>1, <1>2 DEF Types
<1>5. RequestOK(r)'
  BY <1>2, <1>3, <1>4 DEF RequestOK, Writing
<1> QED
  BY <1>1, <1>2, <1>3, <1>5, RequestMoves DEF Types

\* A request that writes the payload it has, with what it changes in it, and ends.
LEMMA RequestWrites ==
    ASSUME TypeInv, NEW r \in Requests, NEW new \in Payloads,
           req[r].pc \in Writing, new.card = req[r].snap.card,
           payload' = [payload EXCEPT ![req[r].task] = new],
           req' = [Overtaken(req, req[r].task) EXCEPT ![r] = IdleRequest],
           job' = JobsOvertaken(req[r].task), photo' = Overtaken(photo, req[r].task),
           UNCHANGED <<confirmed, hist, used>>,
           \/ UNCHANGED task
           \/ task' = [task EXCEPT ![req[r].task] = [@ EXCEPT !.status = "DONE", !.approval = "APPROVED"]]
    PROVE  TypeInv'
<1> DEFINE t == req[r].task
<1>1. Types
  BY TypesOfTypeOK DEF TypeInv
<1>2. t \in Tasks /\ task[t].status # "ABSENT" /\ new.card = payload[t].card
  BY DEF TypeInv, CallersOK, RequestOK, Writing
<1>3. /\ payload' \in [Tasks -> Payloads]
      /\ payload'[t] = new /\ \A u \in Tasks \ {t} : payload'[u] = payload[u]
  BY <1>1, <1>2 DEF Types
<1>4. /\ \A u \in Tasks : task'[u].booking = task[u].booking
      /\ \A u \in Tasks \ {t} : task'[u] = task[u]
      /\ task'[t] = task[t] \/ (task'[t].status = "DONE" /\ task'[t].approval = "APPROVED")
      /\ task' \in [Tasks -> [status : {"ABSENT", "OPEN", "DONE", "REJECTED"},
                              approval : {"PENDING", "APPROVED", "REJECTED"},
                              booking : Bookings \cup {None}]]
  <2>1. CASE UNCHANGED task
    BY <1>1, <2>1 DEF Types
  <2>2. CASE task' = [task EXCEPT ![t] = [@ EXCEPT !.status = "DONE", !.approval = "APPROVED"]]
    <3> DEFINE new_t == [task[t] EXCEPT !.status = "DONE", !.approval = "APPROVED"]
    <3>1. task[t] \in [status : {"ABSENT", "OPEN", "DONE", "REJECTED"},
                       approval : {"PENDING", "APPROVED", "REJECTED"}, booking : Bookings \cup {None}]
      BY <1>1, <1>2 DEF Types
    <3>2. /\ new_t \in [status : {"ABSENT", "OPEN", "DONE", "REJECTED"},
                        approval : {"PENDING", "APPROVED", "REJECTED"}, booking : Bookings \cup {None}]
          /\ new_t.booking = task[t].booking /\ new_t.status = "DONE" /\ new_t.approval = "APPROVED"
      BY <3>1
    <3>3. task' = [task EXCEPT ![t] = new_t]
      BY <2>2
    <3> HIDE DEF new_t
    <3> QED
      BY <1>1, <1>2, <3>2, <3>3 DEF Types
  <2> QED
    BY <2>1, <2>2
<1>5. Stable /\ TasksOK'
  BY <1>2, <1>3, <1>4 DEF Stable, TasksOK, TypeInv
<1>6. /\ req' \in [Requests -> Caller(Pcs)]
      /\ \A s \in Requests : Stays(req'[s], req[s]) \/ req'[s].pc = "idle"
      /\ \A s \in Requests : Stays(req'[s], req[s]) \/ req'[s].pc # "enqueue"
  BY <1>1, RequestEnds
<1>7. /\ job' \in [Tasks -> JobTypes] /\ \A u \in Tasks : JobStays(u)
      /\ photo' \in [Photos -> Caller({"received", "attach", "create", "linked", "left"})]
      /\ \A p \in Photos : Stays(photo'[p], photo[p])
  BY AllOvertaken
<1>8. Types'
  BY <1>1, <1>3, <1>4, <1>6, <1>7 DEF Types
<1>9. QueuedOnce'
  BY <1>6, <1>7, QueueKept DEF JobStays
<1> QED
  BY <1>5, <1>6, <1>7, <1>8, <1>9, Assemble

LEMMA SaveManualResultTypes == ASSUME TypeInv, NEW r \in Requests, SaveManualResult(r) PROVE TypeInv'
<1>1. req[r] \in Caller(Pcs) /\ req[r].snap \in Payloads
  BY TypesOfTypeOK DEF TypeInv, Types, Caller
<1>2. PICK result \in {"UNKNOWN", "manual"} :
        payload' = [payload EXCEPT ![req[r].task] = [req[r].snap EXCEPT !.result = result]]
  BY DEF SaveManualResult
<1>3. /\ [req[r].snap EXCEPT !.result = result] \in Payloads
      /\ [req[r].snap EXCEPT !.result = result].card = req[r].snap.card
  BY <1>1 DEF Payloads, Results
<1>4. /\ req[r].pc \in Writing
      /\ req' = [Overtaken(req, req[r].task) EXCEPT ![r] = IdleRequest]
      /\ job' = JobsOvertaken(req[r].task) /\ photo' = Overtaken(photo, req[r].task)
      /\ UNCHANGED <<task, confirmed, hist, used>>
  BY DEF SaveManualResult, Writing
<1> QED
  BY <1>2, <1>3, <1>4, RequestWrites

LEMMA WriteApprovalTypes == ASSUME TypeInv, NEW r \in Requests, WriteApproval(r) PROVE TypeInv'
<1>1. req[r] \in Caller(Pcs) /\ req[r].snap \in Payloads
  BY TypesOfTypeOK DEF TypeInv, Types, Caller
<1>2. payload' = [payload EXCEPT ![req[r].task] = [req[r].snap EXCEPT !.placed = TRUE]]
  BY DEF WriteApproval
<1>3. /\ [req[r].snap EXCEPT !.placed = TRUE] \in Payloads
      /\ [req[r].snap EXCEPT !.placed = TRUE].card = req[r].snap.card
  BY <1>1 DEF Payloads
<1>4. /\ req[r].pc \in Writing
      /\ req' = [Overtaken(req, req[r].task) EXCEPT ![r] = IdleRequest]
      /\ job' = JobsOvertaken(req[r].task) /\ photo' = Overtaken(photo, req[r].task)
      /\ UNCHANGED <<confirmed, hist, used>>
      /\ task' = [task EXCEPT ![req[r].task] = [@ EXCEPT !.status = "DONE", !.approval = "APPROVED"]]
  BY DEF WriteApproval, Writing
<1> QED
  BY <1>2, <1>3, <1>4, RequestWrites

\* A request that goes on with the task it has.
LEMMA GoesOn ==
    ASSUME TypeInv, NEW r \in Requests, NEW pc \in Pcs \ {"idle", "enqueue"}, req[r].pc # "idle",
           pc \in Writing => req[r].pc \in Writing \ {"verify"}, Goto(r, pc)
    PROVE  /\ [req[r] EXCEPT !.pc = pc] \in Caller(Pcs)
           /\ [req[r] EXCEPT !.pc = pc].pc = pc
           /\ req' = [req EXCEPT ![r] = [req[r] EXCEPT !.pc = pc]]
           /\ UNCHANGED <<task, payload>> => RequestOK(r)'
<1>1. req \in [Requests -> Caller(Pcs)] /\ req[r] \in Caller(Pcs)
  BY TypesOfTypeOK DEF TypeInv, Types
<1>2. /\ [req[r] EXCEPT !.pc = pc] \in Caller(Pcs)
      /\ [req[r] EXCEPT !.pc = pc].pc = pc /\ [req[r] EXCEPT !.pc = pc].task = req[r].task
      /\ [req[r] EXCEPT !.pc = pc].snap = req[r].snap
  BY <1>1 DEF Caller
<1>3. req' = [req EXCEPT ![r] = [req[r] EXCEPT !.pc = pc]]
  BY DEF Goto
<1>4. req'[r] = [req[r] EXCEPT !.pc = pc]
  BY <1>1, <1>3
<1>5. RequestOK(r)
  BY DEF TypeInv, CallersOK
<1>6. ASSUME UNCHANGED <<task, payload>> PROVE RequestOK(r)'
  BY <1>2, <1>4, <1>5, <1>6 DEF RequestOK, Writing
<1> QED
  BY <1>2, <1>3, <1>6

LEMMA MoveTypes ==
    ASSUME TypeInv, NEW r \in Requests,
           ConfirmPlacement(r) \/ NotifyCandidate(r) \/ AskForNewCard(r)
    PROVE  TypeInv'
<1>1. Types /\ CallersOK /\ TasksOK
  BY TypesOfTypeOK DEF TypeInv
<1>2. CASE ConfirmPlacement(r)
  <2>1. task[req[r].task].booking \in Bookings
    BY <1>1, <1>2 DEF ConfirmPlacement, CallersOK, RequestOK, TasksOK
  <2>2. /\ req[r].pc = "confirm" /\ Goto(r, "notify") /\ UNCHANGED <<task, payload, job, photo, hist, used>>
        /\ confirmed' = confirmed \cup {task[req[r].task].booking}
    BY <1>2 DEF ConfirmPlacement
  <2>3. /\ [req[r] EXCEPT !.pc = "notify"] \in Caller(Pcs)
        /\ [req[r] EXCEPT !.pc = "notify"].pc = "notify"
        /\ req' = [req EXCEPT ![r] = [req[r] EXCEPT !.pc = "notify"]] /\ RequestOK(r)'
    BY <2>2, GoesOn DEF Pcs, Writing
  <2> QED
    BY <1>1, <2>1, <2>2, <2>3, RequestMoves DEF Types
<1>3. CASE NotifyCandidate(r)
  <2>1. /\ req[r].pc = "notify" /\ Goto(r, "approve") /\ UNCHANGED <<task, payload, confirmed, job, photo, used>>
        /\ hist' \in {hist, [hist EXCEPT !.told[req[r].task] = @ + 1]}
    BY <1>3 DEF NotifyCandidate
  <2>2. hist' \in [told : [Tasks -> Nat], excused : SUBSET Tasks]
    BY <1>1, <2>1 DEF Types
  <2>3. /\ [req[r] EXCEPT !.pc = "approve"] \in Caller(Pcs)
        /\ [req[r] EXCEPT !.pc = "approve"].pc = "approve"
        /\ req' = [req EXCEPT ![r] = [req[r] EXCEPT !.pc = "approve"]] /\ RequestOK(r)'
    BY <2>1, GoesOn DEF Pcs, Writing
  <2> QED
    BY <1>1, <2>1, <2>2, <2>3, RequestMoves DEF Types
<1>4. CASE AskForNewCard(r)
  <2>1. /\ req[r].pc = "ask" /\ Goto(r, "reject") /\ UNCHANGED <<task, payload, confirmed, job, photo, used>>
        /\ hist' \in {hist, [hist EXCEPT !.told[req[r].task] = @ + 1]}
    BY <1>4 DEF AskForNewCard
  <2>2. hist' \in [told : [Tasks -> Nat], excused : SUBSET Tasks]
    BY <1>1, <2>1 DEF Types
  <2>3. /\ [req[r] EXCEPT !.pc = "reject"] \in Caller(Pcs)
        /\ [req[r] EXCEPT !.pc = "reject"].pc = "reject"
        /\ req' = [req EXCEPT ![r] = [req[r] EXCEPT !.pc = "reject"]] /\ RequestOK(r)'
    BY <2>1, GoesOn DEF Pcs, Writing
  <2> QED
    BY <1>1, <2>1, <2>2, <2>3, RequestMoves DEF Types
<1> QED
  BY <1>2, <1>3, <1>4

LEMMA WriteRejectionTypes == ASSUME TypeInv, NEW r \in Requests, WriteRejection(r) PROVE TypeInv'
<1> DEFINE t == req[r].task
           Row == [status : {"ABSENT", "OPEN", "DONE", "REJECTED"},
                   approval : {"PENDING", "APPROVED", "REJECTED"}, booking : Bookings \cup {None}]
           new == [task[t] EXCEPT !.status = "REJECTED", !.approval = "REJECTED"]
<1>1. Types
  BY TypesOfTypeOK DEF TypeInv
<1>2. t \in Tasks /\ task[t].status # "ABSENT"
  BY DEF TypeInv, CallersOK, RequestOK, WriteRejection
<1>3. /\ task' = [task EXCEPT ![t] = new]
      /\ hist' = IF task[t].approval = "APPROVED" /\ req[r].overtaken
                 THEN [hist EXCEPT !.excused = @ \cup {t}] ELSE hist
      /\ req' = [Overtaken(req, t) EXCEPT ![r] = IdleRequest]
      /\ UNCHANGED <<payload, confirmed, job, photo, used>>
  BY DEF WriteRejection
<1>4. task \in [Tasks -> Row] /\ task[t] \in Row
  BY <1>1, <1>2 DEF Types
<1>5. new \in Row /\ new.status = "REJECTED" /\ new.booking = task[t].booking
  BY <1>4
<1> HIDE DEF new
<1>6. task' \in [Tasks -> Row] /\ task'[t] = new /\ \A u \in Tasks \ {t} : task'[u] = task[u]
  <2>1. task' = [task EXCEPT ![t] = new] /\ new \in Row /\ task \in [Tasks -> Row]
    BY <1>3, <1>4, <1>5
  <2> HIDE DEF t, Row
  <2> QED
    BY <1>2, <2>1
<1>7. Stable /\ TasksOK'
  BY <1>2, <1>3, <1>5, <1>6 DEF Stable, TasksOK, TypeInv
<1>8. hist' \in [told : [Tasks -> Nat], excused : SUBSET Tasks]
  BY <1>1, <1>2, <1>3 DEF Types
<1>9. /\ req' \in [Requests -> Caller(Pcs)]
      /\ \A s \in Requests : Stays(req'[s], req[s]) \/ req'[s].pc = "idle"
      /\ \A s \in Requests : Stays(req'[s], req[s]) \/ req'[s].pc # "enqueue"
  BY <1>1, <1>3, RequestEnds
<1>10. Types'
  BY <1>1, <1>3, <1>6, <1>8, <1>9 DEF Types
<1>11. QueuedOnce'
  BY <1>3, <1>9, QueueKept
<1> QED
  BY <1>3, <1>7, <1>9, <1>10, <1>11, Assemble DEF Stays, JobStays

LEMMA RequestFailsTypes == ASSUME TypeInv, NEW r \in Requests, RequestFails(r) PROVE TypeInv'
<1>1. Types
  BY TypesOfTypeOK DEF TypeInv
<1>2. /\ req[r].pc \in {"verify", "confirm", "approve", "reject"} /\ Fault /\ Reply(r)
      /\ hist' = IF req[r].pc = "approve" THEN [hist EXCEPT !.excused = @ \cup {req[r].task}] ELSE hist
      /\ UNCHANGED <<task, payload, confirmed, job, photo>>
  BY DEF RequestFails
<1>3. req[r].task \in Tasks
  BY <1>2 DEF TypeInv, CallersOK, RequestOK
<1>4. hist' \in [told : [Tasks -> Nat], excused : SUBSET Tasks]
  BY <1>1, <1>2, <1>3 DEF Types
<1>5. used' \in [faults : Nat, crashes : Nat]
  BY <1>2, FaultType DEF TypeInv
<1>6. req' = [req EXCEPT ![r] = IdleRequest] /\ req'[r] = IdleRequest
  BY <1>1, <1>2 DEF Reply, Types
<1>7. RequestOK(r)'
  BY <1>6 DEF RequestOK, IdleRequest, Writing
<1> QED
  BY <1>1, <1>2, <1>4, <1>5, <1>6, <1>7, IdleTypes, RequestMoves DEF Types, IdleRequest

\* The check of t goes on, while others are at most overtaken by what it writes.
LEMMA CheckMoves ==
    ASSUME TypeInv, NEW t \in Tasks, NEW q \in JobTypes, job[t].pc # "none", q.pc # "none",
           job' = [job EXCEPT ![t] = q],
           q.pc \notin {"completed", "failed"} => q.failures < Attempts /\ q.stalls <= MaxStalls,
           JobHolds(q) => q.snap.card,
           Stable, TasksOK', payload' \in [Tasks -> Payloads], UNCHANGED <<task, confirmed, hist>>,
           req' = req \/ req' = Overtaken(req, t), photo' = photo \/ photo' = Overtaken(photo, t),
           used' \in [faults : Nat, crashes : Nat]
    PROVE  TypeInv'
<1>1. Types
  BY TypesOfTypeOK DEF TypeInv
<1>2. /\ job' \in [Tasks -> JobTypes] /\ job'[t] = q
      /\ \A u \in Tasks \ {t} : job'[u] = job[u]
  BY <1>1 DEF Types
<1>3. task[t].status # "ABSENT" /\ payload[t].card
  BY TypesOfTypeOK DEF TypeInv
<1>4. \A u \in Tasks : JobStays(u) \/ JobMoves(u)
  BY <1>2, <1>3 DEF JobStays, JobMoves
<1>5. /\ req' \in [Requests -> Caller(Pcs)] /\ \A r \in Requests : Stays(req'[r], req[r])
      /\ photo' \in [Photos -> Caller({"received", "attach", "create", "linked", "left"})]
      /\ \A p \in Photos : Stays(photo'[p], photo[p])
  BY <1>1, AllOvertaken DEF Types, Stays
<1>6. Types'
  BY <1>1, <1>2, <1>5 DEF Types
<1>7. QueuedOnce'
  BY <1>2, <1>5, QueueKept
<1> QED
  BY <1>4, <1>5, <1>6, <1>7, Assemble

\* Where JobGoto leads.
LEMMA CheckGoes ==
    ASSUME TypeInv, NEW t \in Tasks, NEW pc \in {"catch", "finish", "completed"},
           job[t].pc \in {"waiting", "check", "catch", "mark", "finish"}, JobGoto(t, pc)
    PROVE  \E q \in JobTypes : /\ job' = [job EXCEPT ![t] = q] /\ q.pc = pc
                               /\ q.failures < Attempts /\ q.stalls <= MaxStalls
<1> DEFINE q == [NewJob EXCEPT !.pc = pc, !.failures = job[t].failures, !.stalls = job[t].stalls]
<1>1. job[t] \in JobTypes /\ job[t].failures < Attempts /\ job[t].stalls <= MaxStalls
  BY TypesOfTypeOK DEF TypeInv, Types, JobsBounded
<1>2. q \in JobTypes
  BY <1>1, JobFacts
<1>3. q.pc = pc /\ q.failures = job[t].failures /\ q.stalls = job[t].stalls
  BY DEF NewJob
<1>4. job' = [job EXCEPT ![t] = q]
  BY DEF JobGoto
<1> HIDE DEF q
<1> QED
  BY <1>1, <1>2, <1>3, <1>4

LEMMA CheckStepTypes == ASSUME TypeInv, NEW t \in Tasks, CheckStep(t) \/ JobThrows(t) PROVE TypeInv'
<1>1. Types /\ JobsBounded /\ job[t] \in JobTypes /\ payload[t] \in Payloads
  BY TypesOfTypeOK DEF TypeInv, Types
<1>2. used' \in [faults : Nat, crashes : Nat]
  <2>1. CASE JobThrows(t)
    BY <2>1, FaultType DEF JobThrows, TypeInv
  <2>2. CASE CheckStep(t)
    <3>1. UNCHANGED used
      BY <2>2 DEF CheckStep, ReadCard, SaveAutoResult, CheckFails, ReadForError, MarkError, CompleteJob
    <3> QED
      BY <1>1, <3>1 DEF Types
  <2> QED
    BY <2>1, <2>2
<1>3. ASSUME UNCHANGED <<task, payload>>
      PROVE  Stable /\ TasksOK' /\ payload' \in [Tasks -> Payloads]
  BY <1>1, <1>3, RowsKept DEF Types
<1>4. ASSUME job[t].pc \in {"waiting", "check", "catch", "mark", "finish"}
      PROVE  /\ job[t].failures < Attempts /\ job[t].stalls <= MaxStalls
             /\ task[t].status # "ABSENT" /\ payload[t].card
             /\ JobHolds(job[t]) => job[t].snap.card
  BY <1>1, <1>4, TypesOfTypeOK DEF JobsBounded, TypeInv, CallersOK
<1>5. ASSUME JobHolds(job[t]), NEW result \in Results,
             payload' = [payload EXCEPT ![t] = [job[t].snap EXCEPT !.result = result]], UNCHANGED task
      PROVE  Stable /\ TasksOK' /\ payload' \in [Tasks -> Payloads]
  <2>1. job[t].snap \in Payloads
    BY <1>1 DEF JobTypes
  <2>2. /\ [job[t].snap EXCEPT !.result = result] \in Payloads
        /\ [job[t].snap EXCEPT !.result = result].card = job[t].snap.card
    BY <2>1 DEF Payloads
  <2> QED
    BY <1>4, <1>5, <2>2, WriteKeeps DEF JobHolds
<1>6. CASE ReadCard(t)
  <2>1. CASE IsOpen(t) /\ Unchecked(t)
    <3> DEFINE q == [job[t] EXCEPT !.pc = "check", !.snap = payload[t], !.overtaken = FALSE]
    <3>1. q \in JobTypes /\ q.pc = "check" /\ q.snap = payload[t]
          /\ q.failures = job[t].failures /\ q.stalls = job[t].stalls
      BY <1>1 DEF JobTypes
    <3>2. job' = [job EXCEPT ![t] = q]
      BY <1>6, <2>1 DEF ReadCard
    <3> HIDE DEF q
    <3> QED
      BY <1>2, <1>3, <1>4, <1>6, <3>1, <3>2, CheckMoves DEF ReadCard
  <2>2. CASE ~ (IsOpen(t) /\ Unchecked(t))
    <3> DEFINE q == [job[t] EXCEPT !.pc = "finish"]
    <3>1. q \in JobTypes /\ q.pc = "finish" /\ q.failures = job[t].failures /\ q.stalls = job[t].stalls
      BY <1>1 DEF JobTypes
    <3>2. job' = [job EXCEPT ![t] = q]
      BY <1>6, <2>2 DEF ReadCard
    <3> HIDE DEF q
    <3> QED
      BY <1>2, <1>3, <1>4, <1>6, <3>1, <3>2, CheckMoves DEF ReadCard, JobHolds
  <2> QED
    BY <2>1, <2>2
<1>7. CASE SaveAutoResult(t)
  <2>1. PICK q \in JobTypes : /\ job' = [job EXCEPT ![t] = q] /\ q.pc = "finish"
                              /\ q.failures < Attempts /\ q.stalls <= MaxStalls
    BY <1>7, CheckGoes DEF SaveAutoResult
  <2>2. Stable /\ TasksOK' /\ payload' \in [Tasks -> Payloads]
    BY <1>5, <1>7 DEF SaveAutoResult, JobHolds, Results
  <2> QED
    BY <1>2, <1>7, <2>1, <2>2, CheckMoves DEF SaveAutoResult, JobHolds
<1>8. CASE CheckFails(t)
  <2>1. PICK q \in JobTypes : /\ job' = [job EXCEPT ![t] = q] /\ q.pc = "catch"
                              /\ q.failures < Attempts /\ q.stalls <= MaxStalls
    BY <1>8, CheckGoes DEF CheckFails
  <2> QED
    BY <1>2, <1>3, <1>8, <2>1, CheckMoves DEF CheckFails, JobHolds
<1>9. CASE ReadForError(t)
  <2> DEFINE q == [job[t] EXCEPT !.pc = "mark", !.snap = payload[t]]
  <2>1. q \in JobTypes /\ q.pc = "mark" /\ q.snap = payload[t]
        /\ q.failures = job[t].failures /\ q.stalls = job[t].stalls
    BY <1>1 DEF JobTypes
  <2>2. job' = [job EXCEPT ![t] = q]
    BY <1>9 DEF ReadForError
  <2> HIDE DEF q
  <2> QED
    BY <1>2, <1>3, <1>4, <1>9, <2>1, <2>2, CheckMoves DEF ReadForError
<1>10. CASE MarkError(t)
  <2>1. /\ FailedJob(job[t]) \in JobTypes /\ FailedJob(job[t]).pc \in {"waiting", "failed"}
        /\ FailedJob(job[t]).pc = "waiting" =>
              FailedJob(job[t]).failures < Attempts /\ FailedJob(job[t]).stalls <= MaxStalls
    BY <1>1, <1>4, <1>10, JobFacts DEF MarkError
  <2>2. Stable /\ TasksOK' /\ payload' \in [Tasks -> Payloads]
    BY <1>5, <1>10 DEF MarkError, JobHolds, Results
  <2>3. job' = [job EXCEPT ![t] = FailedJob(job[t])] /\ job[t].pc # "none"
    BY <1>10 DEF MarkError
  <2> QED
    BY <1>2, <1>10, <2>1, <2>2, <2>3, CheckMoves DEF MarkError, JobHolds
<1>11. CASE CompleteJob(t)
  <2>1. PICK q \in JobTypes : /\ job' = [job EXCEPT ![t] = q] /\ q.pc = "completed"
                              /\ q.failures < Attempts /\ q.stalls <= MaxStalls
    BY <1>11, CheckGoes DEF CompleteJob
  <2> QED
    BY <1>2, <1>3, <1>11, <2>1, CheckMoves DEF CompleteJob, JobHolds
<1>12. CASE JobThrows(t)
  <2>1. CASE job[t].pc \in {"waiting", "check"}
    <3>1. PICK q \in JobTypes : /\ job' = [job EXCEPT ![t] = q] /\ q.pc = "catch"
                                /\ q.failures < Attempts /\ q.stalls <= MaxStalls
      BY <1>12, <2>1, CheckGoes DEF JobThrows
    <3> QED
      BY <1>2, <1>3, <1>12, <2>1, <3>1, CheckMoves DEF JobThrows, JobHolds
  <2>2. CASE job[t].pc \notin {"waiting", "check"}
    <3>1. job' = [job EXCEPT ![t] = FailedJob(job[t])] /\ job[t].pc \in {"catch", "mark"}
      BY <1>12, <2>2 DEF JobThrows
    <3>2. /\ FailedJob(job[t]) \in JobTypes /\ FailedJob(job[t]).pc \in {"waiting", "failed"}
          /\ FailedJob(job[t]).pc = "waiting" =>
                FailedJob(job[t]).failures < Attempts /\ FailedJob(job[t]).stalls <= MaxStalls
      BY <1>1, <1>4, <3>1, JobFacts
    <3> QED
      BY <1>2, <1>3, <1>12, <3>1, <3>2, CheckMoves DEF JobThrows, JobHolds
  <2> QED
    BY <2>1, <2>2
<1> QED
  BY <1>6, <1>7, <1>8, <1>9, <1>10, <1>11, <1>12 DEF CheckStep

\* A photo that is read, attached or left, while the others are at most overtaken.
LEMMA PhotoMoves ==
    ASSUME TypeInv, NEW p \in Photos,
           NEW q \in Caller({"received", "attach", "create", "linked", "left"}),
           photo' = [photo EXCEPT ![p] = q] \/ photo' = [Overtaken(photo, photo[p].task) EXCEPT ![p] = q],
           q.pc = "attach" => PhotoOK(p)', Stable, TasksOK', Types', req' = req \/ req' = Overtaken(req, photo[p].task),
           job' = job \/ job' = JobsOvertaken(photo[p].task)
    PROVE  TypeInv'
<1>1. Types
  BY TypesOfTypeOK DEF TypeInv
<1>2. \A r \in Requests : Stays(req'[r], req[r])
  BY AllOvertaken DEF Stays
<1>3. \A u \in Tasks : JobStays(u)
  BY AllOvertaken DEF JobStays
<1>4. photo'[p] = q /\ \A u \in Photos \ {p} : Stays(photo'[u], photo[u])
  <2>1. CASE photo' = [photo EXCEPT ![p] = q]
    BY <1>1, <2>1 DEF Types, Stays
  <2>2. CASE photo' = [Overtaken(photo, photo[p].task) EXCEPT ![p] = q]
    <3>1. /\ Overtaken(photo, photo[p].task) \in [Photos -> Caller({"received", "attach", "create", "linked", "left"})]
          /\ \A u \in Photos : Stays(Overtaken(photo, photo[p].task)[u], photo[u])
      BY AllOvertaken
    <3> QED
      BY <2>2, <3>1
  <2> QED
    BY <2>1, <2>2
<1>5. QueuedOnce'
  BY <1>2, <1>3, QueueKept DEF JobStays
<1> QED
  BY <1>2, <1>3, <1>4, <1>5, Assemble

LEMMA PhotoStepTypes ==
    ASSUME TypeInv, NEW p \in Photos,
           ReadForPhoto(p) \/ AttachPhoto(p) \/ CreatePhotoTask(p) \/ LeavePhoto(p) \/ PhotoFails(p)
    PROVE  TypeInv'
<1> DEFINE PhotoPcs == {"received", "attach", "create", "linked", "left"}
           Taken(pc) == [Received EXCEPT !.pc = pc]
<1>1. Types /\ photo \in [Photos -> Caller(PhotoPcs)] /\ photo[p] \in Caller(PhotoPcs)
  BY TypesOfTypeOK DEF TypeInv, Types
<1>2. \A pc \in PhotoPcs : /\ Taken(pc) \in Caller(PhotoPcs) /\ Taken(pc).pc = pc
                           /\ [photo[p] EXCEPT !.pc = pc] \in Caller(PhotoPcs)
                           /\ [photo[p] EXCEPT !.pc = pc].pc = pc
  BY <1>1, IdleTypes DEF Received, Caller
<1>3. ASSUME UNCHANGED <<task, payload>> PROVE Stable /\ TasksOK'
  BY <1>3, RowsKept
<1>4. ASSUME NEW q \in Caller(PhotoPcs), photo' = [photo EXCEPT ![p] = q],
             UNCHANGED <<task, payload, confirmed, req, job, hist>>,
             used' \in [faults : Nat, crashes : Nat]
      PROVE  Types'
  BY <1>1, <1>4 DEF Types
<1>5. used' \in [faults : Nat, crashes : Nat]
  <2>1. CASE PhotoFails(p)
    BY <2>1, FaultType DEF PhotoFails, TypeInv
  <2>2. CASE UNCHANGED used
    BY <1>1, <2>2 DEF Types
  <2> QED
    BY <2>1, <2>2 DEF ReadForPhoto, AttachPhoto, CreatePhotoTask, LeavePhoto
<1> HIDE DEF Taken
<1>6. CASE ReadForPhoto(p)
  <2>1. UNCHANGED <<task, payload, confirmed, req, job, hist>>
    BY <1>6 DEF ReadForPhoto
  <2>2. CASE \E t \in Tasks : /\ IsOpen(t)
                              /\ photo' = [photo EXCEPT ![p] = [Received EXCEPT !.pc = "attach", !.task = t,
                                                                                !.snap = payload[t]]]
    <3> DEFINE q(t) == [Received EXCEPT !.pc = "attach", !.task = t, !.snap = payload[t]]
    <3>1. PICK t \in Tasks : IsOpen(t) /\ photo' = [photo EXCEPT ![p] = q(t)]
      BY <2>2
    <3>2. payload[t] \in Payloads
      BY <1>1 DEF Types
    <3>3. q(t) \in Caller(PhotoPcs) /\ q(t).task = t /\ q(t).snap = payload[t]
      BY <3>2, IdleTypes DEF Received, Caller
    <3> HIDE DEF q
    <3>4. photo'[p] = q(t)
      BY <1>1, <3>1
    <3>5. PhotoOK(p)'
      BY <2>1, <3>1, <3>3, <3>4 DEF PhotoOK, IsOpen
    <3> QED
      BY <1>3, <1>4, <1>5, <2>1, <3>1, <3>3, <3>5, PhotoMoves
  <2>3. CASE \E pc \in {"create", "left"} : photo' = [photo EXCEPT ![p].pc = pc]
    <3>1. PICK pc \in {"create", "left"} : photo' = [photo EXCEPT ![p] = [photo[p] EXCEPT !.pc = pc]]
      BY <2>3
    <3>2. [photo[p] EXCEPT !.pc = pc] \in Caller(PhotoPcs) /\ [photo[p] EXCEPT !.pc = pc].pc # "attach"
      BY <1>2
    <3> QED
      BY <1>3, <1>4, <1>5, <2>1, <3>1, <3>2, PhotoMoves
  <2> QED
    BY <1>6, <2>2, <2>3 DEF ReadForPhoto
<1>7. CASE AttachPhoto(p)
  <2> DEFINE t == photo[p].task
             new == [photo[p].snap EXCEPT !.photos = @ \cup {p}]
  <2>1. photo[p].pc = "attach"
    BY <1>7 DEF AttachPhoto
  <2>2. t \in Tasks /\ task[t].status # "ABSENT" /\ photo[p].snap.card = payload[t].card
    BY <2>1 DEF TypeInv, CallersOK, PhotoOK
  <2>3. new \in Payloads /\ new.card = payload[t].card
    BY <1>1, <2>2 DEF Caller, Payloads
  <2>4. payload' = [payload EXCEPT ![t] = new] /\ UNCHANGED <<task, confirmed, hist>>
    BY <1>7 DEF AttachPhoto
  <2>5. /\ req' = Overtaken(req, t) /\ job' = JobsOvertaken(t)
        /\ photo' = [Overtaken(photo, t) EXCEPT ![p] = Taken("linked")]
    BY <1>7 DEF AttachPhoto, Taken
  <2> HIDE DEF new
  <2>6. Stable /\ TasksOK' /\ payload' \in [Tasks -> Payloads]
    BY <2>2, <2>3, <2>4, WriteKeeps
  <2>7. /\ req' \in [Requests -> Caller(Pcs)] /\ job' \in [Tasks -> JobTypes]
        /\ photo' \in [Photos -> Caller(PhotoPcs)]
    BY <1>2, <2>5, AllOvertaken
  <2>8. Types'
    BY <1>1, <1>5, <2>4, <2>6, <2>7 DEF Types
  <2> QED
    BY <1>2, <2>5, <2>6, <2>8, PhotoMoves
<1>8. CASE CreatePhotoTask(p)
  <2>1. PICK t \in Tasks : task[t].status = "ABSENT" /\ task' = [task EXCEPT ![t].status = "OPEN"]
    BY <1>8 DEF CreatePhotoTask
  <2>2. /\ photo' = [photo EXCEPT ![p] = [photo[p] EXCEPT !.pc = "linked"]]
        /\ UNCHANGED <<payload, confirmed, req, job, hist, used>>
    BY <1>8 DEF CreatePhotoTask
  <2>3. /\ task'[t].status = "OPEN" /\ task'[t].booking = task[t].booking
        /\ \A u \in Tasks \ {t} : task'[u] = task[u]
        /\ task' \in [Tasks -> [status : {"ABSENT", "OPEN", "DONE", "REJECTED"},
                                approval : {"PENDING", "APPROVED", "REJECTED"},
                                booking : Bookings \cup {None}]]
    BY <1>1, <2>1 DEF Types
  <2>4. payload[t] = NoPayload /\ TasksOK
    BY <2>1 DEF TypeInv, TasksOK
  <2>5. Stable
    BY <2>1, <2>2, <2>3 DEF Stable
  <2>6. TasksOK'
    BY <2>2, <2>3, <2>4 DEF TasksOK, NoPayload
  <2>7. Types'
    BY <1>1, <1>2, <2>2, <2>3 DEF Types
  <2> QED
    BY <1>2, <2>2, <2>5, <2>6, <2>7, PhotoMoves
<1>9. CASE LeavePhoto(p) \/ PhotoFails(p)
  <2>1. photo' = [photo EXCEPT ![p] = Taken("left")] /\ UNCHANGED <<task, payload, confirmed, req, job, hist>>
    BY <1>9 DEF LeavePhoto, PhotoFails, Taken
  <2> QED
    BY <1>2, <1>3, <1>4, <1>5, <2>1, PhotoMoves
<1> QED
  BY <1>6, <1>7, <1>8, <1>9

LEMMA RestartTypes == ASSUME TypeInv, Restart PROVE TypeInv'
<1> DEFINE PhotoPcs == {"received", "attach", "create", "linked", "left"}
           Lost == {req[r].task : r \in {s \in Requests : req[s].pc \in {"notify", "approve"}}}
<1>1. Types
  BY TypesOfTypeOK DEF TypeInv
<1>2. /\ used' = [used EXCEPT !.crashes = @ + 1]
      /\ hist' = [hist EXCEPT !.excused = @ \cup Lost]
      /\ req' = [r \in Requests |-> IdleRequest]
      /\ job' = [t \in Tasks |-> StalledJob(job[t])]
      /\ photo' = [p \in Photos |-> IF photo[p].pc = "left" THEN photo[p] ELSE Received]
      /\ UNCHANGED <<task, payload, confirmed>>
  BY DEF Restart
<1>3. Lost \subseteq Tasks
  BY DEF TypeInv, CallersOK, RequestOK
<1> HIDE DEF Lost
<1>4. hist' \in [told : [Tasks -> Nat], excused : SUBSET Tasks] /\ used' \in [faults : Nat, crashes : Nat]
  BY <1>1, <1>2, <1>3 DEF Types
<1>5. req' \in [Requests -> Caller(Pcs)] /\ \A r \in Requests : req'[r].pc = "idle"
  BY <1>2, IdleTypes DEF IdleRequest
<1>6. /\ photo' \in [Photos -> Caller(PhotoPcs)]
      /\ \A p \in Photos : photo'[p].pc # "attach"
  BY <1>1, <1>2, IdleTypes DEF Types, Received
<1>7. ASSUME NEW t \in Tasks
      PROVE  job'[t] \in JobTypes /\ (JobStays(t) \/ JobMoves(t))
  <2>1. job'[t] = StalledJob(job[t]) /\ job[t] \in JobTypes
    BY <1>1, <1>2 DEF Types
  <2>2. CASE job[t].pc \in {"check", "catch", "mark", "finish"}
    <3>1. /\ job[t].failures < Attempts /\ job[t].stalls <= MaxStalls
          /\ task[t].status # "ABSENT" /\ payload[t].card
      BY <2>2, TypesOfTypeOK DEF TypeInv, JobsBounded
    <3>2. StalledJob(job[t]).pc \in {"waiting", "failed"}
      BY <2>2 DEF StalledJob, NewJob
    <3> QED
      BY <2>1, <3>1, <3>2, JobFacts DEF JobMoves, JobHolds
  <2>3. CASE job[t].pc \notin {"check", "catch", "mark", "finish"}
    BY <2>1, <2>3 DEF StalledJob, JobStays
  <2> QED
    BY <2>2, <2>3
<1>8. job' \in [Tasks -> JobTypes]
  BY <1>2, <1>7
<1>9. Types'
  BY <1>1, <1>2, <1>4, <1>5, <1>6, <1>8 DEF Types
<1>10. QueuedOnce'
  BY <1>5 DEF QueuedOnce
<1>11. Stable /\ TasksOK'
  BY <1>2, RowsKept
<1> QED
  BY <1>5, <1>6, <1>7, <1>9, <1>10, <1>11, Assemble

LEMMA NextTypeInv == TypeInv /\ [Next]_vars => TypeInv'
<1> SUFFICES ASSUME TypeInv, [Next]_vars PROVE TypeInv'
  OBVIOUS
<1>1. CASE Next
  BY <1>1, CreateTaskTypes, EnqueueCheckTypes, ReadsTypes, SaveManualResultTypes, MoveTypes,
     WriteApprovalTypes, WriteRejectionTypes, RequestFailsTypes, CheckStepTypes, PhotoStepTypes,
     RestartTypes DEF Next, ServeRequest
<1>2. CASE UNCHANGED vars
  BY <1>2 DEF vars, TypeInv, TypeOK, JobsBounded, TasksOK, CallersOK, QueuedOnce, RequestOK, PhotoOK
<1> QED
  BY <1>1, <1>2

LEMMA TypeInvAlways == Spec => []TypeInv
BY InitTypeInv, NextTypeInv, PTL DEF Spec

\* The rows, payloads, jobs and callers keep their types: whatever a caller has in its
\* hands is a payload, and no check has more attempts or restarts behind it than BullMQ allows.
THEOREM CscsTypeCorrect == Spec => []TypeOK
<1>1. TypeInv => TypeOK
  BY DEF TypeInv
<1> QED
  BY <1>1, TypeInvAlways, PTL

-----------------------------------------------------------------------------
(* What is lost from a payload.                                            *)

RequestKnows(r) ==
    req[r].pc \in Writing /\ ~ req[r].overtaken => req[r].snap = payload[req[r].task]

JobKnows(t) ==
    /\ JobHolds(job[t]) /\ ~ job[t].overtaken => job[t].snap = payload[t]
    /\ job[t].pc = "check" => job[t].snap.result = "UNKNOWN"

PhotoKnows(p) ==
    photo[p].pc = "attach" /\ ~ photo[p].overtaken => photo[p].snap = payload[photo[p].task]

\* Who has not been overtaken has in hand what is in the row.
Undisturbed ==
    /\ \A r \in Requests : RequestKnows(r)
    /\ \A t \in Tasks : JobKnows(t)
    /\ \A p \in Photos : PhotoKnows(p)

\* Three ways for a step to keep that: a caller has nothing in hand after it, keeps
\* what it has and is overtaken if the row changes, or reads the row.
RequestSafe(r) ==
    \/ req'[r].pc \notin Writing
    \/ /\ req[r].pc \in Writing /\ req'[r].task = req[r].task /\ req'[r].snap = req[r].snap
       /\ \/ req'[r].overtaken
          \/ ~ req[r].overtaken /\ payload'[req[r].task] = payload[req[r].task]
    \/ req'[r].snap = payload'[req'[r].task]

JobSafe(t) ==
    \/ ~ JobHolds(job'[t])
    \/ /\ job'[t].pc = job[t].pc /\ job'[t].snap = job[t].snap
       /\ \/ job'[t].overtaken
          \/ ~ job[t].overtaken /\ payload'[t] = payload[t]
    \/ job'[t].snap = payload'[t] /\ (job'[t].pc = "check" => payload'[t].result = "UNKNOWN")

PhotoSafe(p) ==
    \/ photo'[p].pc # "attach"
    \/ /\ photo[p].pc = "attach" /\ photo'[p].task = photo[p].task /\ photo'[p].snap = photo[p].snap
       /\ \/ photo'[p].overtaken
          \/ ~ photo[p].overtaken /\ payload'[photo[p].task] = payload[photo[p].task]
    \/ photo'[p].snap = payload'[photo'[p].task]

LEMMA AllSafe ==
    ASSUME Undisturbed, \A r \in Requests : RequestSafe(r), \A t \in Tasks : JobSafe(t),
           \A p \in Photos : PhotoSafe(p)
    PROVE  Undisturbed'
<1>1. ASSUME NEW r \in Requests PROVE RequestKnows(r)'
  BY DEF Undisturbed, RequestKnows, RequestSafe
<1>2. ASSUME NEW t \in Tasks PROVE JobKnows(t)'
  BY DEF Undisturbed, JobKnows, JobSafe, JobHolds
<1>3. ASSUME NEW p \in Photos PROVE PhotoKnows(p)'
  BY DEF Undisturbed, PhotoKnows, PhotoSafe
<1> QED
  BY <1>1, <1>2, <1>3 DEF Undisturbed

\* The callers of a step that writes the payload of t, or of none.
LEMMA OthersSafe ==
    ASSUME TypeInv, NEW t, \A u \in Tasks \ {t} : payload'[u] = payload[u]
    PROVE  /\ \A r \in Requests : req'[r] = Overtaken(req, t)[r] => RequestSafe(r)
           /\ job' = JobsOvertaken(t) => \A u \in Tasks : JobSafe(u)
           /\ \A p \in Photos : photo'[p] = Overtaken(photo, t)[p] => PhotoSafe(p)
<1>1. Types /\ TypeOK /\ JobsBounded
  BY TypesOfTypeOK DEF TypeInv
<1>2. /\ req \in [Requests -> Caller(Pcs)]
      /\ photo \in [Photos -> Caller({"received", "attach", "create", "linked", "left"})]
  BY <1>1 DEF Types
<1>3. ASSUME NEW r \in Requests, req'[r] = Overtaken(req, t)[r] PROVE RequestSafe(r)
  <2>1. /\ req'[r].pc = req[r].pc /\ req'[r].task = req[r].task /\ req'[r].snap = req[r].snap
        /\ Holds(req[r], t) => req'[r].overtaken
        /\ req[r].overtaken => req'[r].overtaken
    BY <1>2, <1>3, OvertakenFacts
  <2>2. req[r].pc \in Writing => req[r].task \in Tasks
    BY DEF TypeInv, CallersOK, RequestOK, Writing
  <2> QED
    BY <2>1, <2>2 DEF RequestSafe, Holds, Writing
<1>4. ASSUME job' = JobsOvertaken(t), NEW u \in Tasks PROVE JobSafe(u)
  <2>1. /\ job'[u].pc = job[u].pc /\ job'[u].snap = job[u].snap
        /\ u = t /\ JobHolds(job[u]) => job'[u].overtaken
        /\ job[u].overtaken => job'[u].overtaken
    BY <1>1, <1>4, OvertakenJobs
  <2>2. JobHolds(job'[u]) <=> JobHolds(job[u])
    BY <2>1 DEF JobHolds
  <2>3. u # t => payload'[u] = payload[u]
    OBVIOUS
  <2> QED
    BY <2>1, <2>2, <2>3 DEF JobSafe
<1>5. ASSUME NEW p \in Photos, photo'[p] = Overtaken(photo, t)[p] PROVE PhotoSafe(p)
  <2>1. /\ photo'[p].pc = photo[p].pc /\ photo'[p].task = photo[p].task /\ photo'[p].snap = photo[p].snap
        /\ Holds(photo[p], t) => photo'[p].overtaken
        /\ photo[p].overtaken => photo'[p].overtaken
    BY <1>2, <1>5, OvertakenFacts
  <2>2. photo[p].pc = "attach" => photo[p].task \in Tasks
    BY DEF TypeInv, CallersOK, PhotoOK
  <2> QED
    BY <2>1, <2>2 DEF PhotoSafe, Holds
<1> QED
  BY <1>3, <1>4, <1>5

\* Callers that stay as they are, while payloads stay.
LEMMA SameSafe ==
    ASSUME UNCHANGED payload
    PROVE  /\ \A r \in Requests : req'[r] = req[r] => RequestSafe(r)
           /\ \A t \in Tasks : job'[t] = job[t] => JobSafe(t)
           /\ \A p \in Photos : photo'[p] = photo[p] => PhotoSafe(p)
BY DEF RequestSafe, JobSafe, PhotoSafe

\* What a step may do to the payload of t: see UndisturbedWritesKeep.
KeepsPayload(t) ==
    \/ OvertakenWriter(t)
    \/ /\ payload[t].photos \subseteq payload'[t].photos
       /\ payload[t].placed => payload'[t].placed
       /\ \/ payload'[t].result = payload[t].result
          \/ payload[t].result = "UNKNOWN"
          \/ job[t].pc = "mark"
          \/ \E r \in Requests : req[r].pc = "verify" /\ req[r].task = t

LEMMA CreateTaskKeeps ==
    ASSUME TypeInv, Undisturbed, NEW r \in Requests, CreateTask(r)
    PROVE  Undisturbed' /\ \A t \in Tasks : KeepsPayload(t)
<1>1. PICK t \in Tasks, b \in Bookings :
        /\ task[t].status = "ABSENT"
        /\ payload' = [payload EXCEPT ![t].card = TRUE]
        /\ req' = [req EXCEPT ![r] = [IdleRequest EXCEPT !.pc = "enqueue", !.task = t]]
  BY DEF CreateTask
<1>2. Types /\ UNCHANGED <<job, photo>>
  BY TypesOfTypeOK DEF TypeInv, CreateTask
<1>3. \A u \in Tasks : u # t => payload'[u] = payload[u]
  BY <1>1, <1>2 DEF Types
<1>4. ASSUME NEW s \in Requests PROVE RequestSafe(s)
  <2>1. CASE s = r
    BY <1>1, <1>2, <2>1 DEF Types, RequestSafe, IdleRequest, Writing
  <2>2. CASE s # r
    <3>1. req'[s] = req[s]
      BY <1>1, <1>2, <2>2 DEF Types
    <3>2. req[s].pc \in Writing => req[s].task \in Tasks \ {t}
      BY <1>1 DEF TypeInv, CallersOK, RequestOK, Writing
    <3> QED
      BY <1>3, <3>1, <3>2 DEF RequestSafe
  <2> QED
    BY <2>1, <2>2
<1>5. ASSUME NEW u \in Tasks PROVE JobSafe(u)
  <2>1. JobHolds(job[u]) => u # t
    BY <1>1, TypesOfTypeOK DEF TypeInv, JobHolds
  <2> QED
    BY <1>2, <1>3, <2>1 DEF JobSafe
<1>6. ASSUME NEW p \in Photos PROVE PhotoSafe(p)
  <2>1. photo[p].pc = "attach" => photo[p].task \in Tasks \ {t}
    BY <1>1 DEF TypeInv, CallersOK, PhotoOK
  <2> QED
    BY <1>2, <1>3, <2>1 DEF PhotoSafe
<1>7. ASSUME NEW u \in Tasks PROVE KeepsPayload(u)
  <2>1. payload[u] \in Payloads
    BY <1>2 DEF Types
  <2>2. payload'[u] = payload[u] \/ payload'[u] = [payload[u] EXCEPT !.card = TRUE]
    BY <1>1, <1>2 DEF Types
  <2> QED
    BY <2>1, <2>2 DEF KeepsPayload, Payloads
<1> QED
  BY <1>4, <1>5, <1>6, <1>7, AllSafe

\* A request writes what it has in hand, with another result or a placement.
LEMMA RequestWriteKeeps ==
    ASSUME TypeInv, Undisturbed, NEW r \in Requests, SaveManualResult(r) \/ WriteApproval(r)
    PROVE  Undisturbed' /\ \A t \in Tasks : KeepsPayload(t)
<1> DEFINE t == req[r].task
<1>1. Types /\ req \in [Requests -> Caller(Pcs)]
  BY TypesOfTypeOK DEF TypeInv, Types
<1>2. /\ req[r].pc \in Writing
      /\ req' = [Overtaken(req, t) EXCEPT ![r] = IdleRequest]
      /\ job' = JobsOvertaken(t) /\ photo' = Overtaken(photo, t)
  BY DEF SaveManualResult, WriteApproval, Writing
<1>3. t \in Tasks /\ req[r].snap \in Payloads
  BY <1>1, <1>2 DEF TypeInv, CallersOK, RequestOK, Writing, Caller
<1>4. PICK new \in Payloads :
        /\ payload' = [payload EXCEPT ![t] = new]
        /\ new.photos = req[r].snap.photos /\ (req[r].snap.placed => new.placed)
        /\ new.result = req[r].snap.result \/ req[r].pc = "verify"
  <2>1. CASE SaveManualResult(r)
    <3>1. PICK result \in {"UNKNOWN", "manual"} :
            payload' = [payload EXCEPT ![t] = [req[r].snap EXCEPT !.result = result]]
      BY <2>1 DEF SaveManualResult
    <3>2. /\ [req[r].snap EXCEPT !.result = result] \in Payloads
          /\ [req[r].snap EXCEPT !.result = result].photos = req[r].snap.photos
          /\ [req[r].snap EXCEPT !.result = result].placed = req[r].snap.placed
      BY <1>3 DEF Payloads, Results
    <3> QED
      BY <2>1, <3>1, <3>2 DEF SaveManualResult
  <2>2. CASE WriteApproval(r)
    <3>1. payload' = [payload EXCEPT ![t] = [req[r].snap EXCEPT !.placed = TRUE]]
      BY <2>2 DEF WriteApproval
    <3>2. /\ [req[r].snap EXCEPT !.placed = TRUE] \in Payloads
          /\ [req[r].snap EXCEPT !.placed = TRUE].photos = req[r].snap.photos
          /\ [req[r].snap EXCEPT !.placed = TRUE].placed
          /\ [req[r].snap EXCEPT !.placed = TRUE].result = req[r].snap.result
      BY <1>3 DEF Payloads
    <3> QED
      BY <3>1, <3>2
  <2> QED
    BY <2>1, <2>2
<1>5. payload'[t] = new /\ \A u \in Tasks \ {t} : payload'[u] = payload[u]
  BY <1>1, <1>3, <1>4 DEF Types
<1>6. req'[r] = IdleRequest /\ \A s \in Requests \ {r} : req'[s] = Overtaken(req, t)[s]
  <2>1. Overtaken(req, t) \in [Requests -> Caller(Pcs)]
    BY <1>1, OvertakenFacts
  <2> QED
    BY <1>2, <2>1
<1>7. /\ \A s \in Requests : RequestSafe(s)
      /\ \A u \in Tasks : JobSafe(u)
      /\ \A p \in Photos : PhotoSafe(p)
  <2>1. RequestSafe(r)
    BY <1>6 DEF RequestSafe, IdleRequest, Writing
  <2> QED
    BY <1>2, <1>5, <1>6, <2>1, OthersSafe
<1>8. KeepsPayload(t)
  <2>1. CASE req[r].overtaken
    BY <1>6, <2>1 DEF KeepsPayload, OvertakenWriter, IdleRequest
  <2>2. CASE ~ req[r].overtaken
    <3>1. req[r].snap = payload[t]
      BY <1>2, <2>2 DEF Undisturbed, RequestKnows
    <3> QED
      BY <1>4, <1>5, <3>1 DEF KeepsPayload
  <2> QED
    BY <2>1, <2>2
<1>9. \A u \in Tasks \ {t} : KeepsPayload(u)
  BY <1>5 DEF KeepsPayload
<1> QED
  BY <1>7, <1>8, <1>9, AllSafe

\* The check writes a result, or that it has none.
LEMMA CheckWriteKeeps ==
    ASSUME TypeInv, Undisturbed, NEW t \in Tasks, SaveAutoResult(t) \/ MarkError(t)
    PROVE  Undisturbed' /\ \A u \in Tasks : KeepsPayload(u)
<1>1. Types /\ job \in [Tasks -> JobTypes] /\ job[t].snap \in Payloads
  BY TypesOfTypeOK DEF TypeInv, Types, JobTypes
<1>2. /\ JobHolds(job[t]) /\ req' = Overtaken(req, t) /\ photo' = Overtaken(photo, t)
      /\ job[t].pc = "check" \/ job[t].pc = "mark"
  BY DEF SaveAutoResult, MarkError, JobHolds
<1>3. PICK result \in Results : payload' = [payload EXCEPT ![t] = [job[t].snap EXCEPT !.result = result]]
  BY DEF SaveAutoResult, MarkError, Results
<1>4. /\ [job[t].snap EXCEPT !.result = result] \in Payloads
      /\ [job[t].snap EXCEPT !.result = result].photos = job[t].snap.photos
      /\ [job[t].snap EXCEPT !.result = result].placed = job[t].snap.placed
  BY <1>1 DEF Payloads, Results
<1>5. /\ payload'[t].photos = job[t].snap.photos /\ payload'[t].placed = job[t].snap.placed
      /\ \A u \in Tasks \ {t} : payload'[u] = payload[u]
  BY <1>1, <1>3, <1>4 DEF Types
<1>6. PICK q : job' = [job EXCEPT ![t] = q] /\ q.pc \notin {"check", "mark"}
  <2>1. CASE SaveAutoResult(t)
    <3> DEFINE q == [NewJob EXCEPT !.pc = "finish", !.failures = job[t].failures, !.stalls = job[t].stalls]
    <3>1. job' = [job EXCEPT ![t] = q]
      BY <2>1 DEF SaveAutoResult, JobGoto
    <3>2. q.pc = "finish"
      BY DEF NewJob
    <3> HIDE DEF q
    <3> QED
      BY <3>1, <3>2
  <2>2. CASE MarkError(t)
    <3>1. job' = [job EXCEPT ![t] = FailedJob(job[t])]
      BY <2>2 DEF MarkError
    <3>2. FailedJob(job[t]).pc \in {"waiting", "failed"}
      BY DEF FailedJob, NewJob
    <3> QED
      BY <3>1, <3>2
  <2> QED
    BY <2>1, <2>2
<1>7. job'[t] = q /\ \A u \in Tasks \ {t} : job'[u] = job[u]
  BY <1>1, <1>6
<1>8. /\ \A r \in Requests : RequestSafe(r)
      /\ \A p \in Photos : PhotoSafe(p)
  BY <1>2, <1>5, OthersSafe
<1>9. \A u \in Tasks : JobSafe(u)
  BY <1>5, <1>6, <1>7 DEF JobSafe, JobHolds
<1>10. KeepsPayload(t)
  <2>1. CASE job[t].overtaken
    <3>1. job'[t].pc # job[t].pc
      BY <1>2, <1>6, <1>7
    <3> QED
      BY <2>1, <3>1 DEF KeepsPayload, OvertakenWriter
  <2>2. CASE ~ job[t].overtaken
    <3>1. job[t].snap = payload[t] /\ (job[t].pc = "check" => payload[t].result = "UNKNOWN")
      BY <1>2, <2>2 DEF Undisturbed, JobKnows
    <3> QED
      BY <1>2, <1>5, <3>1 DEF KeepsPayload
  <2> QED
    BY <2>1, <2>2
<1>11. \A u \in Tasks \ {t} : KeepsPayload(u)
  BY <1>5 DEF KeepsPayload
<1> QED
  BY <1>8, <1>9, <1>10, <1>11, AllSafe

LEMMA AttachKeeps ==
    ASSUME TypeInv, Undisturbed, NEW p \in Photos, AttachPhoto(p)
    PROVE  Undisturbed' /\ \A u \in Tasks : KeepsPayload(u)
<1> DEFINE t == photo[p].task
           PhotoPcs == {"received", "attach", "create", "linked", "left"}
           linked == [Received EXCEPT !.pc = "linked"]
<1>1. Types /\ photo \in [Photos -> Caller(PhotoPcs)] /\ photo[p].snap \in Payloads
  BY TypesOfTypeOK DEF TypeInv, Types, Caller
<1>2. /\ photo[p].pc = "attach" /\ req' = Overtaken(req, t) /\ job' = JobsOvertaken(t)
      /\ photo' = [Overtaken(photo, t) EXCEPT ![p] = linked]
      /\ payload' = [payload EXCEPT ![t] = [photo[p].snap EXCEPT !.photos = @ \cup {p}]]
  BY DEF AttachPhoto
<1>3. t \in Tasks
  BY <1>2 DEF TypeInv, CallersOK, PhotoOK
<1>4. /\ [photo[p].snap EXCEPT !.photos = @ \cup {p}] \in Payloads
      /\ [photo[p].snap EXCEPT !.photos = @ \cup {p}].photos = photo[p].snap.photos \cup {p}
      /\ [photo[p].snap EXCEPT !.photos = @ \cup {p}].placed = photo[p].snap.placed
      /\ [photo[p].snap EXCEPT !.photos = @ \cup {p}].result = photo[p].snap.result
  BY <1>1 DEF Payloads
<1>5. /\ payload'[t].photos = photo[p].snap.photos \cup {p} /\ payload'[t].placed = photo[p].snap.placed
      /\ payload'[t].result = photo[p].snap.result
      /\ \A u \in Tasks \ {t} : payload'[u] = payload[u]
  BY <1>1, <1>2, <1>3, <1>4 DEF Types
<1>6. linked.pc = "linked"
  BY DEF Received
<1> HIDE DEF linked
<1>7. photo'[p] = linked /\ \A q \in Photos \ {p} : photo'[q] = Overtaken(photo, t)[q]
  <2>1. Overtaken(photo, t) \in [Photos -> Caller(PhotoPcs)]
    BY <1>1, OvertakenFacts
  <2> QED
    BY <1>2, <2>1
<1>8. /\ \A r \in Requests : RequestSafe(r)
      /\ \A u \in Tasks : JobSafe(u)
      /\ \A q \in Photos : PhotoSafe(q)
  <2>1. PhotoSafe(p)
    BY <1>6, <1>7 DEF PhotoSafe
  <2> QED
    BY <1>2, <1>5, <1>7, <2>1, OthersSafe
<1>9. KeepsPayload(t)
  <2>1. CASE photo[p].overtaken
    BY <1>6, <1>7, <2>1 DEF KeepsPayload, OvertakenWriter
  <2>2. CASE ~ photo[p].overtaken
    <3>1. photo[p].snap = payload[t]
      BY <1>2, <2>2 DEF Undisturbed, PhotoKnows
    <3> QED
      BY <1>5, <3>1 DEF KeepsPayload
  <2> QED
    BY <2>1, <2>2
<1>10. \A u \in Tasks \ {t} : KeepsPayload(u)
  BY <1>5 DEF KeepsPayload
<1> QED
  BY <1>8, <1>9, <1>10, AllSafe

\* Steps that write no payload.
LEMMA QuietKeeps ==
    ASSUME UNCHANGED payload
    PROVE  \A t \in Tasks : KeepsPayload(t)
BY DEF KeepsPayload

LEMMA QuietRequests ==
    ASSUME TypeInv, Undisturbed, NEW r \in Requests,
           \/ EnqueueCheck(r) \/ ReadForVerify(r) \/ ReadForApproval(r) \/ ReadForRejection(r)
           \/ ConfirmPlacement(r) \/ NotifyCandidate(r) \/ AskForNewCard(r)
           \/ WriteRejection(r) \/ RequestFails(r)
    PROVE  Undisturbed' /\ UNCHANGED payload
<1>1. Types /\ req \in [Requests -> Caller(Pcs)]
  BY TypesOfTypeOK DEF TypeInv, Types
<1>2. UNCHANGED <<payload, photo>>
  BY DEF EnqueueCheck, ReadForVerify, ReadForApproval, ReadForRejection, ConfirmPlacement,
         NotifyCandidate, AskForNewCard, WriteRejection, RequestFails
<1>3. \A t \in Tasks : JobSafe(t)
  <2>1. CASE EnqueueCheck(r) /\ ~ UNCHANGED job
    <3>1. job' = [job EXCEPT ![req[r].task].pc = "waiting"]
      BY <2>1 DEF EnqueueCheck
    <3>2. ASSUME NEW t \in Tasks PROVE job'[t] = job[t] \/ job'[t].pc = "waiting"
      <4>1. job[t] \in JobTypes /\ job \in [Tasks -> JobTypes]
        BY <1>1 DEF Types
      <4> QED
        BY <3>1, <4>1 DEF JobTypes
    <3> QED
      BY <1>2, <3>2, SameSafe DEF JobSafe, JobHolds
  <2>2. CASE UNCHANGED job
    BY <1>2, <2>2, SameSafe
  <2> QED
    BY <2>1, <2>2 DEF ReadForVerify, ReadForApproval, ReadForRejection, ConfirmPlacement,
                      NotifyCandidate, AskForNewCard, WriteRejection, RequestFails
<1>4. \A p \in Photos : PhotoSafe(p)
  BY <1>2, SameSafe
<1>5. CASE EnqueueCheck(r) \/ RequestFails(r)
  <2>1. req' = [req EXCEPT ![r] = IdleRequest]
    BY <1>5 DEF EnqueueCheck, RequestFails, Reply
  <2>2. RequestSafe(r) /\ \A s \in Requests \ {r} : req'[s] = req[s]
    BY <1>1, <2>1 DEF RequestSafe, IdleRequest, Writing
  <2> QED
    BY <1>2, <1>3, <1>4, <2>2, SameSafe, AllSafe
<1>6. CASE ReadForVerify(r) \/ ReadForApproval(r)
  <2>1. PICK t \in Tasks, pc \in Writing :
          req' = [req EXCEPT ![r] = [IdleRequest EXCEPT !.pc = pc, !.task = t, !.snap = payload[t]]]
    BY <1>6 DEF ReadForVerify, ReadForApproval, Writing
  <2>2. /\ req'[r] = [IdleRequest EXCEPT !.pc = pc, !.task = t, !.snap = payload[t]]
        /\ \A s \in Requests \ {r} : req'[s] = req[s]
    BY <1>1, <2>1
  <2>3. req'[r].snap = payload[t] /\ req'[r].task = t
    BY <2>2 DEF IdleRequest
  <2>4. RequestSafe(r)
    BY <1>2, <2>3 DEF RequestSafe
  <2> QED
    BY <1>2, <1>3, <1>4, <2>2, <2>4, SameSafe, AllSafe
<1>7. CASE ReadForRejection(r)
  <2> DEFINE q(t, pc) == [IdleRequest EXCEPT !.task = t, !.pc = pc]
  <2>1. PICK t \in Tasks, pc \in {"ask", "reject"} : req' = [req EXCEPT ![r] = q(t, pc)]
    BY <1>7 DEF ReadForRejection
  <2>2. q(t, pc).pc \notin Writing
    BY DEF IdleRequest, Writing
  <2> HIDE DEF q
  <2>3. RequestSafe(r) /\ \A s \in Requests \ {r} : req'[s] = req[s]
    BY <1>1, <2>1, <2>2 DEF RequestSafe
  <2> QED
    BY <1>2, <1>3, <1>4, <2>3, SameSafe, AllSafe
<1>8. CASE ConfirmPlacement(r) \/ NotifyCandidate(r) \/ AskForNewCard(r)
  <2>1. PICK pc \in {"notify", "approve", "reject"} :
          /\ req' = [req EXCEPT ![r] = [req[r] EXCEPT !.pc = pc]]
          /\ pc = "reject" \/ req[r].pc \in Writing
    BY <1>8 DEF ConfirmPlacement, NotifyCandidate, AskForNewCard, Goto, Writing
  <2>2. /\ req'[r] = [req[r] EXCEPT !.pc = pc] /\ req[r] \in Caller(Pcs)
        /\ \A s \in Requests \ {r} : req'[s] = req[s]
    BY <1>1, <2>1
  <2>3. /\ req'[r].pc = pc /\ req'[r].task = req[r].task /\ req'[r].snap = req[r].snap
        /\ req'[r].overtaken = req[r].overtaken
    BY <2>2 DEF Caller
  <2>4. RequestSafe(r)
    BY <1>2, <2>1, <2>3 DEF RequestSafe, Writing
  <2> QED
    BY <1>2, <1>3, <1>4, <2>2, <2>4, SameSafe, AllSafe
<1>9. CASE WriteRejection(r)
  <2>1. req' = [Overtaken(req, req[r].task) EXCEPT ![r] = IdleRequest]
    BY <1>9 DEF WriteRejection
  <2>2. Overtaken(req, req[r].task) \in [Requests -> Caller(Pcs)]
    BY <1>1, OvertakenFacts
  <2>3. /\ RequestSafe(r)
        /\ \A s \in Requests \ {r} : req'[s] = Overtaken(req, req[r].task)[s]
    BY <2>1, <2>2 DEF RequestSafe, IdleRequest, Writing
  <2>4. \A s \in Requests : RequestSafe(s)
    BY <1>2, <2>3, OthersSafe
  <2> QED
    BY <1>2, <1>3, <1>4, <2>4, AllSafe
<1> QED
  BY <1>2, <1>5, <1>6, <1>7, <1>8, <1>9

LEMMA QuietChecks ==
    ASSUME TypeInv, Undisturbed, NEW t \in Tasks,
           ReadCard(t) \/ CheckFails(t) \/ ReadForError(t) \/ CompleteJob(t) \/ JobThrows(t)
    PROVE  Undisturbed' /\ UNCHANGED payload
<1>1. Types /\ job \in [Tasks -> JobTypes] /\ job[t] \in JobTypes
  BY TypesOfTypeOK DEF TypeInv, Types
<1>2. UNCHANGED <<payload, req, photo>>
  BY DEF ReadCard, CheckFails, ReadForError, CompleteJob, JobThrows
<1>3. PICK q : job' = [job EXCEPT ![t] = q] /\ (JobHolds(q) => q.snap = payload[t] /\ (q.pc = "check" => payload[t].result = "UNKNOWN"))
  <2>1. CASE ReadCard(t)
    <3>1. CASE IsOpen(t) /\ Unchecked(t)
      <4> DEFINE q == [job[t] EXCEPT !.pc = "check", !.snap = payload[t], !.overtaken = FALSE]
      <4>1. q.snap = payload[t]
        BY <1>1 DEF JobTypes
      <4>2. job' = [job EXCEPT ![t] = q]
        BY <2>1, <3>1 DEF ReadCard
      <4> HIDE DEF q
      <4> QED
        BY <3>1, <4>1, <4>2 DEF Unchecked
    <3>2. CASE ~ (IsOpen(t) /\ Unchecked(t))
      <4> DEFINE q == [job[t] EXCEPT !.pc = "finish"]
      <4>1. q.pc = "finish"
        BY <1>1 DEF JobTypes
      <4>2. job' = [job EXCEPT ![t] = q]
        BY <2>1, <3>2 DEF ReadCard
      <4> HIDE DEF q
      <4> QED
        BY <4>1, <4>2 DEF JobHolds
    <3> QED
      BY <3>1, <3>2
  <2>2. CASE CheckFails(t) \/ CompleteJob(t) \/ (JobThrows(t) /\ job[t].pc \in {"waiting", "check"})
    <3> DEFINE q(pc) == [NewJob EXCEPT !.pc = pc, !.failures = job[t].failures, !.stalls = job[t].stalls]
    <3>1. \A pc : q(pc).pc = pc
      BY DEF NewJob
    <3>2. PICK pc \in {"catch", "completed"} : job' = [job EXCEPT ![t] = q(pc)]
      BY <2>2 DEF CheckFails, CompleteJob, JobThrows, JobGoto
    <3> HIDE DEF q
    <3> QED
      BY <3>1, <3>2 DEF JobHolds
  <2>3. CASE JobThrows(t) /\ job[t].pc \notin {"waiting", "check"}
    <3>1. job' = [job EXCEPT ![t] = FailedJob(job[t])]
      BY <2>3 DEF JobThrows
    <3>2. FailedJob(job[t]).pc \in {"waiting", "failed"}
      BY DEF FailedJob, NewJob
    <3> QED
      BY <3>1, <3>2 DEF JobHolds
  <2>4. CASE ReadForError(t)
    <3> DEFINE q == [job[t] EXCEPT !.pc = "mark", !.snap = payload[t]]
    <3>1. q.snap = payload[t] /\ q.pc = "mark"
      BY <1>1 DEF JobTypes
    <3>2. job' = [job EXCEPT ![t] = q]
      BY <2>4 DEF ReadForError
    <3> HIDE DEF q
    <3> QED
      BY <3>1, <3>2
  <2> QED
    BY <2>1, <2>2, <2>3, <2>4
<1>4. job'[t] = q /\ \A u \in Tasks \ {t} : job'[u] = job[u]
  BY <1>1, <1>3
<1>5. \A u \in Tasks : JobSafe(u)
  <2>1. JobSafe(t)
    BY <1>2, <1>3, <1>4 DEF JobSafe
  <2> QED
    BY <1>2, <1>4, <2>1, SameSafe
<1> QED
  BY <1>2, <1>5, SameSafe, AllSafe

LEMMA QuietPhotos ==
    ASSUME TypeInv, Undisturbed, NEW p \in Photos,
           ReadForPhoto(p) \/ CreatePhotoTask(p) \/ LeavePhoto(p) \/ PhotoFails(p)
    PROVE  Undisturbed' /\ UNCHANGED payload
<1> DEFINE PhotoPcs == {"received", "attach", "create", "linked", "left"}
<1>1. photo \in [Photos -> Caller(PhotoPcs)] /\ photo[p] \in Caller(PhotoPcs)
  BY TypesOfTypeOK DEF TypeInv, Types
<1>2. UNCHANGED <<payload, req, job>>
  BY DEF ReadForPhoto, CreatePhotoTask, LeavePhoto, PhotoFails
<1>3. PICK q : photo' = [photo EXCEPT ![p] = q] /\ (q.pc = "attach" => q.snap = payload[q.task])
  <2>1. CASE ReadForPhoto(p) /\ \E t \in Tasks :
               /\ IsOpen(t)
               /\ photo' = [photo EXCEPT ![p] = [Received EXCEPT !.pc = "attach", !.task = t,
                                                                 !.snap = payload[t]]]
    <3> DEFINE q(t) == [Received EXCEPT !.pc = "attach", !.task = t, !.snap = payload[t]]
    <3>1. PICK t \in Tasks : photo' = [photo EXCEPT ![p] = q(t)]
      BY <2>1
    <3>2. q(t).task = t /\ q(t).snap = payload[t]
      BY DEF Received
    <3> HIDE DEF q
    <3> QED
      BY <3>1, <3>2
  <2>2. ASSUME NEW pc \in PhotoPcs \ {"attach"}, photo' = [photo EXCEPT ![p] = [photo[p] EXCEPT !.pc = pc]]
        PROVE  \E q : photo' = [photo EXCEPT ![p] = q] /\ (q.pc = "attach" => q.snap = payload[q.task])
    <3>1. [photo[p] EXCEPT !.pc = pc].pc # "attach"
      BY <1>1 DEF Caller
    <3> QED
      BY <2>2, <3>1
  <2>3. CASE LeavePhoto(p) \/ PhotoFails(p)
    <3>1. [Received EXCEPT !.pc = "left"].pc # "attach"
      BY DEF Received
    <3> QED
      BY <2>3, <3>1 DEF LeavePhoto, PhotoFails
  <2>4. CASE CreatePhotoTask(p)
    BY <2>2, <2>4 DEF CreatePhotoTask
  <2>5. CASE ReadForPhoto(p) /\ \E pc \in {"create", "left"} : photo' = [photo EXCEPT ![p].pc = pc]
    BY <2>2, <2>5
  <2> QED
    BY <2>1, <2>3, <2>4, <2>5 DEF ReadForPhoto
<1>4. photo'[p] = q /\ \A u \in Photos \ {p} : photo'[u] = photo[u]
  BY <1>1, <1>3
<1>5. PhotoSafe(p)
  BY <1>2, <1>3, <1>4 DEF PhotoSafe
<1> QED
  BY <1>2, <1>4, <1>5, SameSafe, AllSafe

LEMMA QuietRestart == ASSUME TypeInv, Undisturbed, Restart PROVE Undisturbed' /\ UNCHANGED payload
<1>1. /\ req' = [r \in Requests |-> IdleRequest]
      /\ job' = [t \in Tasks |-> StalledJob(job[t])]
      /\ photo' = [p \in Photos |-> IF photo[p].pc = "left" THEN photo[p] ELSE Received]
      /\ UNCHANGED payload
  BY DEF Restart
<1>2. \A r \in Requests : RequestSafe(r)
  BY <1>1 DEF RequestSafe, IdleRequest, Writing
<1>3. ASSUME NEW t \in Tasks PROVE JobSafe(t)
  <2>1. job'[t] = StalledJob(job[t])
    BY <1>1
  <2>2. ~ JobHolds(StalledJob(job[t]))
    BY DEF StalledJob, NewJob, JobHolds
  <2> QED
    BY <2>1, <2>2 DEF JobSafe
<1>4. \A p \in Photos : PhotoSafe(p)
  BY <1>1 DEF PhotoSafe, Received
<1> QED
  BY <1>1, <1>2, <1>3, <1>4, AllSafe

LEMMA NextUndisturbed ==
    ASSUME TypeInv, Undisturbed, [Next]_vars
    PROVE  Undisturbed' /\ \A t \in Tasks : KeepsPayload(t)
<1>1. CASE Next
  BY <1>1, CreateTaskKeeps, RequestWriteKeeps, CheckWriteKeeps, AttachKeeps, QuietKeeps, QuietRequests,
     QuietChecks, QuietPhotos, QuietRestart DEF Next, ServeRequest, CheckStep
<1>2. CASE UNCHANGED vars
  BY <1>2, QuietKeeps DEF vars, Undisturbed, RequestKnows, JobKnows, PhotoKnows
<1> QED
  BY <1>1, <1>2

\* Nothing is lost from a payload but to a caller that was overtaken: photos and a placement
\* stay, and a known result changes only because an operator enters another or a check
\* that failed resets it.
THEOREM PayloadsKept == Spec => UndisturbedWritesKeep
<1>1. Init => Undisturbed
  BY DEF Init, Undisturbed, RequestKnows, JobKnows, PhotoKnows, IdleRequest, NewJob, Received,
         Writing, JobHolds
<1>2. TypeInv /\ Undisturbed /\ [Next]_vars => Undisturbed'
  BY NextUndisturbed
<1>3. TypeInv /\ Undisturbed /\ [Next]_vars =>
        [\A t \in Tasks :
          \/ OvertakenWriter(t)
          \/ /\ payload[t].photos \subseteq payload'[t].photos
             /\ payload[t].placed => payload'[t].placed
             /\ \/ payload'[t].result = payload[t].result
                \/ payload[t].result = "UNKNOWN"
                \/ job[t].pc = "mark"
                \/ \E r \in Requests : req[r].pc = "verify" /\ req[r].task = t]_vars
  BY NextUndisturbed DEF KeepsPayload
<1> QED
  BY <1>1, <1>2, <1>3, TypeInvAlways, PTL DEF Spec, UndisturbedWritesKeep

-----------------------------------------------------------------------------
(* A confirmed placement has a task.                                       *)

\* A rejection that was not overtaken is of a task that was not approved meanwhile.
RejectionsOK ==
    \A r \in Requests : req[r].pc \in {"ask", "reject"} /\ ~ req[r].overtaken =>
        task[req[r].task].status # "DONE"

ExcusedExist == \A t \in hist.excused : task[t].status # "ABSENT"

AccountInv == PlacementAccounted /\ RejectionsOK /\ ExcusedExist

\* What a step owes the placements: bookings stay with their tasks, ...
BookingsStay ==
    \A t \in Tasks : task[t].status # "ABSENT" =>
        task'[t].status # "ABSENT" /\ task'[t].booking = task[t].booking

\* ... a task that was approved stays so or is excused, ...
DoneStays == \A t \in Tasks : task[t].status = "DONE" => task'[t].status = "DONE" \/ t \in hist'.excused

ExcusesStay ==
    /\ hist.excused \subseteq hist'.excused
    /\ \A t \in hist'.excused : t \in hist.excused \/ (t \in Tasks /\ task[t].status # "ABSENT")

\* ... an approval on its way goes on, arrives or is excused, ...
ApprovalSafe(r) ==
    req[r].pc \in {"notify", "approve"} =>
        \/ req'[r].pc \in {"notify", "approve"} /\ req'[r].task = req[r].task
        \/ task'[req[r].task].status = "DONE"
        \/ req[r].task \in hist'.excused

\* ... and so does a rejection, which an approval overtakes.
RejectionSafe(r) ==
    \/ req'[r].pc \notin {"ask", "reject"}
    \/ /\ req[r].pc \in {"ask", "reject"} /\ req'[r].task = req[r].task
       /\ \/ req'[r].overtaken
          \/ /\ ~ req[r].overtaken
             /\ task'[req[r].task].status = "DONE" => task[req[r].task].status = "DONE"
    \/ task'[req'[r].task].status # "DONE"

LEMMA AccountKept ==
    ASSUME TypeInv, AccountInv, BookingsStay, DoneStays, ExcusesStay,
           \A r \in Requests : ApprovalSafe(r) /\ RejectionSafe(r),
           \A b \in confirmed' \ confirmed : \E r \in Requests :
              /\ req'[r].pc \in {"notify", "approve"} /\ req'[r].task \in Tasks
              /\ task'[req'[r].task].booking = b
    PROVE  AccountInv'
<1>1. \A r \in Requests : req[r].pc \in {"notify", "approve", "ask", "reject"} =>
        req[r].task \in Tasks /\ task[req[r].task].status # "ABSENT"
  BY DEF TypeInv, CallersOK, RequestOK
<1>2. hist.excused \subseteq Tasks
  BY TypesOfTypeOK DEF TypeInv, Types
<1>3. RejectionsOK'
  BY DEF AccountInv, RejectionsOK, RejectionSafe
<1>4. ExcusedExist'
  BY <1>2 DEF AccountInv, ExcusedExist, ExcusesStay, BookingsStay
<1>5. ASSUME NEW b \in confirmed'
      PROVE  \E t \in Tasks : /\ task'[t].booking = b
                              /\ \/ task'[t].status = "DONE"
                                 \/ \E r \in Requests : req'[r].task = t /\ req'[r].pc \in {"notify", "approve"}
                                 \/ t \in hist'.excused
  <2>1. CASE b \notin confirmed
    BY <1>5, <2>1
  <2>2. CASE b \in confirmed
    <3>1. PICK t \in Tasks : /\ task[t].booking = b
                             /\ \/ task[t].status = "DONE"
                                \/ \E r \in Requests : req[r].task = t /\ req[r].pc \in {"notify", "approve"}
                                \/ t \in hist.excused
      BY <2>2 DEF AccountInv, PlacementAccounted
    <3>2. task[t].status # "ABSENT"
      BY <1>1, <3>1 DEF AccountInv, ExcusedExist
    <3>3. task'[t].booking = b
      BY <3>1, <3>2 DEF BookingsStay
    <3>4. CASE task[t].status = "DONE"
      BY <3>3, <3>4 DEF DoneStays
    <3>5. CASE \E r \in Requests : req[r].task = t /\ req[r].pc \in {"notify", "approve"}
      BY <3>3, <3>5 DEF ApprovalSafe
    <3>6. CASE t \in hist.excused
      BY <3>3, <3>6 DEF ExcusesStay
    <3> QED
      BY <3>1, <3>4, <3>5, <3>6
  <2> QED
    BY <2>1, <2>2
<1>6. PlacementAccounted'
  BY <1>5 DEF PlacementAccounted
<1> QED
  BY <1>3, <1>4, <1>6 DEF AccountInv

\* A request that is as it was, or overtaken by whoever wrote t.
LEMMA RequestStays ==
    ASSUME TypeInv, NEW t, NEW r \in Requests,
           \/ /\ req'[r] = Overtaken(req, t)[r]
              /\ \A u \in Tasks : task'[u].status = "DONE" => task[u].status = "DONE" \/ u = t
           \/ /\ req'[r] = req[r]
              /\ \A u \in Tasks : task'[u].status = "DONE" => task[u].status = "DONE"
    PROVE  ApprovalSafe(r) /\ RejectionSafe(r)
<1>1. req \in [Requests -> Caller(Pcs)]
  BY TypesOfTypeOK DEF TypeInv, Types
<1>2. req[r].pc \in {"notify", "approve", "ask", "reject"} => req[r].task \in Tasks
  BY DEF TypeInv, CallersOK, RequestOK
<1>3. CASE req'[r] = req[r] /\ \A u \in Tasks : task'[u].status = "DONE" => task[u].status = "DONE"
  BY <1>2, <1>3 DEF ApprovalSafe, RejectionSafe
<1>4. CASE /\ req'[r] = Overtaken(req, t)[r]
           /\ \A u \in Tasks : task'[u].status = "DONE" => task[u].status = "DONE" \/ u = t
  <2>1. /\ req'[r].pc = req[r].pc /\ req'[r].task = req[r].task
        /\ Holds(req[r], t) => req'[r].overtaken
        /\ req[r].overtaken => req'[r].overtaken
    BY <1>1, <1>4, OvertakenFacts
  <2> QED
    BY <1>2, <1>4, <2>1 DEF ApprovalSafe, RejectionSafe, Holds
<1> QED
  BY <1>3, <1>4

\* Steps of checks and photos do not touch the tasks' rows, but to make one.
LEMMA OthersAccount ==
    ASSUME TypeInv, AccountInv,
           \/ \E t \in Tasks : CheckStep(t) \/ JobThrows(t)
           \/ \E p \in Photos : ReadForPhoto(p) \/ AttachPhoto(p) \/ CreatePhotoTask(p)
                                \/ LeavePhoto(p) \/ PhotoFails(p)
    PROVE  AccountInv'
<1>1. UNCHANGED <<confirmed, hist>>
  BY DEF CheckStep, ReadCard, SaveAutoResult, CheckFails, ReadForError, MarkError, CompleteJob, JobThrows,
         ReadForPhoto, AttachPhoto, CreatePhotoTask, LeavePhoto, PhotoFails
<1>2. req' = req \/ (task' = task /\ \E t : req' = Overtaken(req, t))
  BY DEF CheckStep, ReadCard, SaveAutoResult, CheckFails, ReadForError, MarkError, CompleteJob, JobThrows,
         ReadForPhoto, AttachPhoto, CreatePhotoTask, LeavePhoto, PhotoFails
<1>3. \A u \in Tasks :
        \/ task'[u] = task[u]
        \/ task[u].status = "ABSENT" /\ task'[u].status = "OPEN"
  <2>1. CASE \E p \in Photos : CreatePhotoTask(p)
    <3>1. task \in [Tasks -> [status : {"ABSENT", "OPEN", "DONE", "REJECTED"},
                              approval : {"PENDING", "APPROVED", "REJECTED"},
                              booking : Bookings \cup {None}]]
      BY TypesOfTypeOK DEF TypeInv, Types
    <3> QED
      BY <2>1, <3>1 DEF CreatePhotoTask
  <2>2. CASE UNCHANGED task
    BY <2>2
  <2> QED
    BY <2>1, <2>2 DEF CheckStep, ReadCard, SaveAutoResult, CheckFails, ReadForError, MarkError, CompleteJob,
                      JobThrows, ReadForPhoto, AttachPhoto, LeavePhoto, PhotoFails
<1>4. \A r \in Requests : ApprovalSafe(r) /\ RejectionSafe(r)
  <2>1. CASE req' = req
    BY <1>3, <2>1, RequestStays
  <2>2. CASE task' = task /\ \E t : req' = Overtaken(req, t)
    BY <2>2, RequestStays
  <2> QED
    BY <1>2, <2>1, <2>2
<1>5. BookingsStay /\ DoneStays /\ ExcusesStay
  BY <1>1, <1>3 DEF BookingsStay, DoneStays, ExcusesStay
<1> QED
  BY <1>1, <1>4, <1>5, AccountKept

\* A step of r in which the other requests stay as they are.
LEMMA RequestAccounts ==
    ASSUME TypeInv, AccountInv, NEW r \in Requests,
           CreateTask(r) \/ EnqueueCheck(r) \/ ReadForVerify(r) \/ ReadForApproval(r)
           \/ ReadForRejection(r) \/ ConfirmPlacement(r) \/ NotifyCandidate(r) \/ AskForNewCard(r)
           \/ RequestFails(r)
    PROVE  AccountInv'
<1>1. req \in [Requests -> Caller(Pcs)] /\ hist \in [told : [Tasks -> Nat], excused : SUBSET Tasks]
      /\ task \in [Tasks -> [status : {"ABSENT", "OPEN", "DONE", "REJECTED"},
                             approval : {"PENDING", "APPROVED", "REJECTED"},
                             booking : Bookings \cup {None}]]
  BY TypesOfTypeOK DEF TypeInv, Types
<1>2. req[r].pc # "idle" => req[r].task \in Tasks /\ task[req[r].task].status # "ABSENT"
  BY DEF TypeInv, CallersOK, RequestOK
<1>3. PICK q : req' = [req EXCEPT ![r] = q]
  BY DEF CreateTask, EnqueueCheck, ReadForVerify, ReadForApproval, ReadForRejection, ConfirmPlacement,
         NotifyCandidate, AskForNewCard, RequestFails, Goto, Reply
<1>4. req'[r] = q /\ \A s \in Requests \ {r} : req'[s] = req[s]
  BY <1>1, <1>3
<1>5. \A u \in Tasks :
        \/ task'[u] = task[u]
        \/ task[u].status = "ABSENT" /\ task'[u].status = "OPEN"
  <2>1. CASE CreateTask(r)
    <3> DEFINE created(b) == [status |-> "OPEN", approval |-> "PENDING", booking |-> b]
    <3>1. PICK t \in Tasks, b \in Bookings :
            task[t].status = "ABSENT" /\ task' = [task EXCEPT ![t] = created(b)]
      BY <2>1 DEF CreateTask
    <3>2. created(b).status = "OPEN"
      OBVIOUS
    <3> HIDE DEF created
    <3> QED
      BY <1>1, <3>1, <3>2
  <2>2. CASE UNCHANGED task
    BY <2>2
  <2> QED
    BY <2>1, <2>2 DEF EnqueueCheck, ReadForVerify, ReadForApproval, ReadForRejection, ConfirmPlacement,
                      NotifyCandidate, AskForNewCard, RequestFails
<1>6. BookingsStay
  BY <1>5 DEF BookingsStay
<1>7. \A s \in Requests \ {r} : ApprovalSafe(s) /\ RejectionSafe(s)
  BY <1>4, <1>5, RequestStays
<1>8. /\ hist'.excused = hist.excused \/ (hist'.excused = hist.excused \cup {req[r].task} /\ req[r].pc = "approve")
      /\ RequestFails(r) /\ req[r].pc = "approve" => req[r].task \in hist'.excused
  <2>1. CASE RequestFails(r)
    BY <1>1, <2>1 DEF RequestFails
  <2>2. CASE NotifyCandidate(r) \/ AskForNewCard(r)
    BY <1>1, <2>2 DEF NotifyCandidate, AskForNewCard, RequestFails
  <2>3. CASE UNCHANGED hist /\ ~RequestFails(r)
    BY <2>3
  <2> QED
    BY <2>1, <2>2, <2>3 DEF CreateTask, EnqueueCheck, ReadForVerify, ReadForApproval, ReadForRejection,
                            ConfirmPlacement
<1>9. DoneStays /\ ExcusesStay
  BY <1>1, <1>2, <1>5, <1>8 DEF DoneStays, ExcusesStay
<1>10. ApprovalSafe(r)
  <2>1. CASE req[r].pc \in {"notify", "approve"}
    <3>1. CASE NotifyCandidate(r)
      <4>1. req'[r] = [req[r] EXCEPT !.pc = "approve"] /\ req[r] \in Caller(Pcs)
        BY <1>1, <3>1 DEF NotifyCandidate, Goto
      <4> QED
        BY <4>1 DEF ApprovalSafe, Caller
    <3>2. CASE RequestFails(r)
      BY <1>8, <3>2 DEF ApprovalSafe, RequestFails
    <3> QED
      BY <2>1, <3>1, <3>2 DEF CreateTask, EnqueueCheck, ReadForVerify, ReadForApproval,
                              ReadForRejection, ConfirmPlacement, AskForNewCard
  <2>2. CASE req[r].pc \notin {"notify", "approve"}
    BY <2>2 DEF ApprovalSafe
  <2> QED
    BY <2>1, <2>2
<1>11. RejectionSafe(r)
  <2>1. CASE ReadForRejection(r)
    <3> DEFINE reads(t, pc) == [IdleRequest EXCEPT !.task = t, !.pc = pc]
    <3>1. PICK t \in Tasks, pc \in {"ask", "reject"} : IsRejectable(t) /\ req' = [req EXCEPT ![r] = reads(t, pc)]
      BY <2>1 DEF ReadForRejection
    <3>2. reads(t, pc).task = t
      BY DEF IdleRequest
    <3> HIDE DEF reads
    <3>3. req'[r].task = t
      BY <1>1, <3>1, <3>2
    <3> QED
      BY <2>1, <3>1, <3>3 DEF RejectionSafe, IsRejectable, ReadForRejection
  <2>2. CASE AskForNewCard(r)
    <3>1. req'[r] = [req[r] EXCEPT !.pc = "reject"] /\ req[r] \in Caller(Pcs) /\ req[r].pc = "ask"
          /\ UNCHANGED task
      BY <1>1, <2>2 DEF AskForNewCard, Goto
    <3> QED
      BY <3>1 DEF RejectionSafe, Caller
  <2>3. CASE CreateTask(r) \/ EnqueueCheck(r) \/ ReadForVerify(r) \/ ReadForApproval(r)
             \/ ConfirmPlacement(r) \/ NotifyCandidate(r) \/ RequestFails(r)
    <3>1. PICK pc \in Pcs \ {"ask", "reject"} : req'[r].pc = pc
      <4>1. CASE ConfirmPlacement(r) \/ NotifyCandidate(r)
        <5>1. PICK pc \in {"notify", "approve"} : req' = [req EXCEPT ![r] = [req[r] EXCEPT !.pc = pc]]
          BY <4>1 DEF ConfirmPlacement, NotifyCandidate, Goto
        <5>2. req'[r] = [req[r] EXCEPT !.pc = pc] /\ req[r] \in Caller(Pcs)
          BY <1>1, <5>1
        <5> QED
          BY <5>2 DEF Caller, Pcs
      <4>2. CASE EnqueueCheck(r) \/ RequestFails(r)
        BY <1>1, <4>2 DEF EnqueueCheck, RequestFails, Reply, IdleRequest, Pcs
      <4>3. CASE CreateTask(r)
        <5> DEFINE starts(t) == [IdleRequest EXCEPT !.pc = "enqueue", !.task = t]
        <5>1. PICK t \in Tasks : req' = [req EXCEPT ![r] = starts(t)]
          BY <4>3 DEF CreateTask
        <5>2. starts(t).pc = "enqueue"
          BY DEF IdleRequest
        <5> HIDE DEF starts
        <5> QED
          BY <1>1, <5>1, <5>2 DEF Pcs
      <4>4. CASE ReadForVerify(r) \/ ReadForApproval(r)
        <5> DEFINE starts(t, pc) == [IdleRequest EXCEPT !.pc = pc, !.task = t, !.snap = payload[t]]
        <5>1. PICK t \in Tasks, pc \in {"verify", "confirm"} : req' = [req EXCEPT ![r] = starts(t, pc)]
          BY <4>4 DEF ReadForVerify, ReadForApproval
        <5>2. starts(t, pc).pc = pc
          BY DEF IdleRequest
        <5> HIDE DEF starts
        <5> QED
          BY <1>1, <5>1, <5>2 DEF Pcs
      <4> QED
        BY <2>3, <4>1, <4>2, <4>3, <4>4
    <3> QED
      BY <3>1 DEF RejectionSafe
  <2> QED
    BY <2>1, <2>2, <2>3
<1>12. \A b \in confirmed' \ confirmed : \E s \in Requests :
              /\ req'[s].pc \in {"notify", "approve"} /\ req'[s].task \in Tasks
              /\ task'[req'[s].task].booking = b
  <2>1. CASE ConfirmPlacement(r)
    <3>1. /\ req'[r] = [req[r] EXCEPT !.pc = "notify"] /\ req[r] \in Caller(Pcs) /\ req[r].pc = "confirm"
          /\ UNCHANGED task /\ confirmed' = confirmed \cup {task[req[r].task].booking}
      BY <1>1, <2>1 DEF ConfirmPlacement, Goto
    <3>2. req'[r].pc = "notify" /\ req'[r].task = req[r].task
      BY <3>1 DEF Caller
    <3> QED
      BY <1>2, <3>1, <3>2
  <2>2. CASE UNCHANGED confirmed
    BY <2>2
  <2> QED
    BY <2>1, <2>2 DEF CreateTask, EnqueueCheck, ReadForVerify, ReadForApproval, ReadForRejection,
                      NotifyCandidate, AskForNewCard, RequestFails
<1> QED
  BY <1>6, <1>7, <1>9, <1>10, <1>11, <1>12, AccountKept

\* A step of r that overtakes the other requests.
LEMMA WriteAccounts ==
    ASSUME TypeInv, AccountInv, NEW r \in Requests,
           SaveManualResult(r) \/ WriteApproval(r) \/ WriteRejection(r)
    PROVE  AccountInv'
<1> DEFINE t == req[r].task
           Row == [status : {"ABSENT", "OPEN", "DONE", "REJECTED"},
                   approval : {"PENDING", "APPROVED", "REJECTED"}, booking : Bookings \cup {None}]
<1>1. /\ req \in [Requests -> Caller(Pcs)] /\ hist \in [told : [Tasks -> Nat], excused : SUBSET Tasks]
      /\ task \in [Tasks -> Row]
  BY TypesOfTypeOK DEF TypeInv, Types
<1>2. t \in Tasks /\ task[t].status # "ABSENT" /\ task[t] \in Row
  BY <1>1 DEF TypeInv, CallersOK, RequestOK, SaveManualResult, WriteApproval, WriteRejection
<1>3. req' = [Overtaken(req, t) EXCEPT ![r] = IdleRequest] /\ UNCHANGED confirmed
  BY DEF SaveManualResult, WriteApproval, WriteRejection
<1>4. req'[r] = IdleRequest /\ \A s \in Requests \ {r} : req'[s] = Overtaken(req, t)[s]
  <2>1. Overtaken(req, t) \in [Requests -> Caller(Pcs)]
    BY <1>1, OvertakenFacts
  <2> QED
    BY <1>3, <2>1
<1>5. /\ \A u \in Tasks \ {t} : task'[u] = task[u]
      /\ task'[t].booking = task[t].booking
      /\ \/ SaveManualResult(r) /\ task'[t] = task[t]
         \/ WriteApproval(r) /\ task'[t].status = "DONE"
         \/ WriteRejection(r) /\ task'[t].status = "REJECTED"
  <2>1. CASE SaveManualResult(r)
    BY <2>1 DEF SaveManualResult
  <2>2. ASSUME NEW status \in {"DONE", "REJECTED"}, NEW approval \in {"APPROVED", "REJECTED"},
               task' = [task EXCEPT ![t] = [@ EXCEPT !.status = status, !.approval = approval]]
        PROVE  /\ \A u \in Tasks \ {t} : task'[u] = task[u]
               /\ task'[t].booking = task[t].booking /\ task'[t].status = status
    <3> DEFINE new == [task[t] EXCEPT !.status = status, !.approval = approval]
    <3>1. new.booking = task[t].booking /\ new.status = status
      BY <1>2
    <3>2. task' = [task EXCEPT ![t] = new]
      BY <2>2
    <3> HIDE DEF new, t
    <3>3. task'[t] = new /\ \A u \in Tasks \ {t} : task'[u] = task[u]
      BY <1>1, <1>2, <3>2
    <3> QED
      BY <3>1, <3>3
  <2>3. CASE WriteApproval(r)
    BY <2>2, <2>3 DEF WriteApproval
  <2>4. CASE WriteRejection(r)
    BY <2>2, <2>4 DEF WriteRejection
  <2> QED
    BY <2>1, <2>3, <2>4
<1>6. BookingsStay
  BY <1>2, <1>5 DEF BookingsStay
<1>7. ASSUME WriteRejection(r), task[t].status = "DONE" PROVE t \in hist'.excused
  <2>1. task[t].approval = "APPROVED"
    BY <1>2, <1>7 DEF TypeInv, TasksOK
  <2>2. req[r].overtaken
    BY <1>7 DEF AccountInv, RejectionsOK, WriteRejection
  <2> QED
    BY <1>1, <1>7, <2>1, <2>2 DEF WriteRejection
<1>8. hist'.excused = hist.excused \/ hist'.excused = hist.excused \cup {t}
  BY <1>1 DEF SaveManualResult, WriteApproval, WriteRejection
<1>9. DoneStays
  BY <1>5, <1>7 DEF DoneStays
<1>10. ExcusesStay
  BY <1>2, <1>8 DEF ExcusesStay
<1>11. \A s \in Requests \ {r} : ApprovalSafe(s) /\ RejectionSafe(s)
  <2>1. \A u \in Tasks : task'[u].status = "DONE" => task[u].status = "DONE" \/ u = t
    BY <1>5
  <2> QED
    BY <1>4, <2>1, RequestStays
<1>12. ApprovalSafe(r)
  BY <1>5 DEF ApprovalSafe, SaveManualResult, WriteRejection
<1>13. RejectionSafe(r)
  BY <1>4 DEF RejectionSafe, IdleRequest
<1> QED
  BY <1>3, <1>6, <1>9, <1>10, <1>11, <1>12, <1>13, AccountKept

LEMMA RestartAccounts == ASSUME TypeInv, AccountInv, Restart PROVE AccountInv'
<1> DEFINE Lost == {req[r].task : r \in {s \in Requests : req[s].pc \in {"notify", "approve"}}}
<1>1. /\ hist' = [hist EXCEPT !.excused = @ \cup Lost] /\ req' = [r \in Requests |-> IdleRequest]
      /\ UNCHANGED <<task, confirmed>>
  BY DEF Restart
<1>2. hist'.excused = hist.excused \cup Lost
  BY <1>1, TypesOfTypeOK DEF TypeInv, Types
<1>3. \A t \in Lost : t \in Tasks /\ task[t].status # "ABSENT"
  BY DEF TypeInv, CallersOK, RequestOK
<1>4. \A r \in Requests : ApprovalSafe(r) /\ RejectionSafe(r)
  BY <1>1, <1>2 DEF ApprovalSafe, RejectionSafe, IdleRequest
<1> HIDE DEF Lost
<1>5. BookingsStay /\ DoneStays /\ ExcusesStay
  BY <1>1, <1>2, <1>3 DEF BookingsStay, DoneStays, ExcusesStay
<1> QED
  BY <1>1, <1>4, <1>5, AccountKept

LEMMA NextAccounts == TypeInv /\ AccountInv /\ [Next]_vars => AccountInv'
<1> SUFFICES ASSUME TypeInv, AccountInv, [Next]_vars PROVE AccountInv'
  OBVIOUS
<1>1. CASE Next
  BY <1>1, OthersAccount, RequestAccounts, WriteAccounts, RestartAccounts DEF Next, ServeRequest
<1>2. CASE UNCHANGED vars
  BY <1>2 DEF vars, AccountInv, PlacementAccounted, RejectionsOK, ExcusedExist
<1> QED
  BY <1>1, <1>2

\* A confirmed placement is never left without its task: the task is DONE, its approval is on
\* the way or was cut off, or a rejection that began before it has overruled it.
THEOREM PlacementsAccounted == Spec => []PlacementAccounted
<1>1. Init => AccountInv
  BY DEF Init, AccountInv, PlacementAccounted, RejectionsOK, ExcusedExist, IdleRequest
<1>2. AccountInv => PlacementAccounted
  BY DEF AccountInv
<1> QED
  BY <1>1, <1>2, NextAccounts, TypeInvAlways, PTL DEF Spec
-----------------------------------------------------------------------------
(* How often a candidate hears of one task.                                *)
(*                                                                         *)
(* AnswersBounded is not kept by a step on its own: a request may start to *)
(* answer a task that has been answered N times.  It cannot, because as    *)
(* long as the approval is PENDING every answer given is owed to a request *)
(* that is still to write the decision, to one that failed, or to one a    *)
(* restart cut off; and once a decision is written, no request starts.     *)

Asked == {"confirm", "notify", "ask"}

Answering == Asked \cup {"approve", "reject"}

\* The requests of q that are at pcs with task t.
At(q, t, pcs) == {r \in Requests : q[r].task = t /\ q[r].pc \in pcs}

OneIf(b) == IF b THEN 1 ELSE 0

\* While the decision of t is open.
Owed(t) ==
    hist.told[t] + Cardinality(At(req, t, Asked))
        <= Cardinality(At(req, t, Answering)) + used.faults + Cardinality(Requests) * used.crashes

Answers(t) ==
    hist.told[t] + Cardinality(At(req, t, Asked))
        <= Cardinality(Requests) * (1 + used.crashes) + used.faults

AnswersInv ==
    /\ \A t \in Tasks : task[t].status = "ABSENT" => task[t].approval = "PENDING"
    /\ \A t \in Tasks : task[t].approval = "PENDING" => Owed(t)
    /\ \A t \in Tasks : Answers(t)

LEMMA RequestsCount == Cardinality(Requests) \in Nat
BY RequestsAssumption, FS_CardinalityType

\* A step of r alone changes the number of requests at pcs by r.
LEMMA StepCounts ==
    ASSUME NEW r \in Requests, NEW t, NEW pcs, NEW q, NEW p,
           \A s \in Requests \ {r} : p[s].pc = q[s].pc /\ p[s].task = q[s].task
    PROVE  \E k \in Nat : /\ Cardinality(At(q, t, pcs)) = k + OneIf(q[r].task = t /\ q[r].pc \in pcs)
                          /\ Cardinality(At(p, t, pcs)) = k + OneIf(p[r].task = t /\ p[r].pc \in pcs)
<1> DEFINE Rest == At(q, t, pcs) \ {r}
<1>1. IsFiniteSet(Rest) /\ r \notin Rest
  BY RequestsAssumption, FS_Subset DEF At
<1>2. Cardinality(Rest) \in Nat /\ Cardinality(Rest \cup {r}) = Cardinality(Rest) + 1
  BY <1>1, FS_CardinalityType, FS_AddElement
<1>3. At(q, t, pcs) = IF q[r].task = t /\ q[r].pc \in pcs THEN Rest \cup {r} ELSE Rest
  BY DEF At
<1>4. At(p, t, pcs) = IF p[r].task = t /\ p[r].pc \in pcs THEN Rest \cup {r} ELSE Rest
  BY DEF At
<1> HIDE DEF Rest
<1>5. Cardinality(At(q, t, pcs)) = Cardinality(Rest) + OneIf(q[r].task = t /\ q[r].pc \in pcs)
  BY <1>2, <1>3 DEF OneIf
<1>6. Cardinality(At(p, t, pcs)) = Cardinality(Rest) + OneIf(p[r].task = t /\ p[r].pc \in pcs)
  BY <1>2, <1>4 DEF OneIf
<1> QED
  BY <1>2, <1>5, <1>6

LEMMA CountsBounded ==
    ASSUME NEW q, NEW t
    PROVE  /\ Cardinality(At(q, t, Answering)) \in Nat /\ Cardinality(At(q, t, Asked)) \in Nat
           /\ Cardinality(At(q, t, Answering)) <= Cardinality(Requests)
<1>1. At(q, t, Answering) \subseteq Requests /\ At(q, t, Asked) \subseteq Requests
  BY DEF At
<1>2. IsFiniteSet(At(q, t, Answering)) /\ IsFiniteSet(At(q, t, Asked))
  BY <1>1, RequestsAssumption, FS_Subset
<1> QED
  BY <1>1, <1>2, RequestsAssumption, FS_Subset, FS_CardinalityType

\* What is owed while the decision is open is within what is answered at most.
LEMMA OwedIsBounded ==
    ASSUME NEW told \in Nat, NEW asked \in Nat, NEW answering \in Nat, NEW faults \in Nat, NEW crashes \in Nat,
           answering <= Cardinality(Requests),
           told + asked <= answering + faults + Cardinality(Requests) * crashes
    PROVE  told + asked <= Cardinality(Requests) * (1 + crashes) + faults
<1> DEFINE n == Cardinality(Requests)
<1>1. n \in Nat
  BY RequestsCount
<1>2. n * (1 + crashes) = n + n * crashes /\ n * crashes \in Nat
  <2> HIDE DEF n
  <2> QED
    BY <1>1
<1> HIDE DEF n
<1>3. answering <= n /\ told + asked <= answering + faults + n * crashes
  BY DEF n
<1>4. told + asked <= n * (1 + crashes) + faults
  <2> DEFINE lost == n * crashes
  <2>1. lost \in Nat /\ n * (1 + crashes) = n + lost
    BY <1>2
  <2>2. told + asked <= answering + faults + lost
    BY <1>3
  <2> HIDE DEF lost
  <2> QED
    BY <1>1, <1>3, <2>1, <2>2
<1> QED
  BY <1>4 DEF n
\* What a step says of its bounds and of the answers given.
Counts ==
    /\ used.faults \in Nat /\ used'.faults \in Nat /\ used'.faults >= used.faults
    /\ used.crashes \in Nat /\ used'.crashes = used.crashes
    /\ hist.told \in [Tasks -> Nat] /\ hist'.told \in [Tasks -> Nat]

\* Request r is at pcs with task u.
In(q, r, u, pcs) == OneIf(q[r].task = u /\ q[r].pc \in pcs)

\* While the decision of u is open, r is told of no more than it goes on to decide or
\* than has failed.
GoesOnAnswering(r, u) ==
    /\ task[u].approval = "PENDING" /\ task'[u].approval = "PENDING"
    /\ hist'.told[u] + In(req', r, u, Asked) + In(req, r, u, Answering) + used.faults
          <= hist.told[u] + In(req, r, u, Asked) + In(req', r, u, Answering) + used'.faults

\* Afterwards only a request that began before can tell the candidate once more.
OnlyFinishes(r, u) ==
    /\ task'[u].approval # "PENDING"
    /\ hist'.told[u] + In(req', r, u, Asked) <= hist.told[u] + In(req, r, u, Asked)

LEMMA AnswersKept ==
    ASSUME AnswersInv, Counts, NEW r \in Requests,
           \A s \in Requests \ {r} : req'[s].pc = req[s].pc /\ req'[s].task = req[s].task,
           \A u \in Tasks : task'[u].status = "ABSENT" => task'[u].approval = "PENDING",
           \A u \in Tasks : GoesOnAnswering(r, u) \/ OnlyFinishes(r, u)
    PROVE  AnswersInv'
<1> SUFFICES ASSUME NEW u \in Tasks
             PROVE  (task'[u].approval = "PENDING" => Owed(u)') /\ Answers(u)'
  BY DEF AnswersInv
<1> DEFINE n == Cardinality(Requests)
           asked(q) == Cardinality(At(q, u, Asked))
           answering(q) == Cardinality(At(q, u, Answering))
<1>1. PICK k \in Nat : asked(req) = k + In(req, r, u, Asked) /\ asked(req') = k + In(req', r, u, Asked)
  BY StepCounts DEF In
<1>2. PICK m \in Nat : /\ answering(req) = m + In(req, r, u, Answering)
                       /\ answering(req') = m + In(req', r, u, Answering)
  BY StepCounts DEF In
<1>3. /\ hist.told[u] \in Nat /\ hist'.told[u] \in Nat
      /\ In(req, r, u, Asked) \in Nat /\ In(req', r, u, Asked) \in Nat
      /\ In(req, r, u, Answering) \in Nat /\ In(req', r, u, Answering) \in Nat
      /\ used.faults \in Nat /\ used'.faults \in Nat /\ used.crashes \in Nat
      /\ used'.crashes = used.crashes
      /\ used'.faults >= used.faults
  BY DEF Counts, In, OneIf
<1>4. PICK lost \in Nat : lost = n * used.crashes
  BY <1>3, RequestsCount
<1>5. PICK most \in Nat : most = n * (1 + used.crashes)
  BY <1>3, RequestsCount
<1>6. CASE GoesOnAnswering(r, u)
  <2>1. Owed(u)
    BY <1>6 DEF AnswersInv, GoesOnAnswering
  <2>2. hist.told[u] + asked(req) <= answering(req) + used.faults + lost
    BY <1>4, <2>1 DEF Owed
  <2>3. hist'.told[u] + In(req', r, u, Asked) + In(req, r, u, Answering) + used.faults
          <= hist.told[u] + In(req, r, u, Asked) + In(req', r, u, Answering) + used'.faults
    BY <1>6 DEF GoesOnAnswering
  <2>4. hist'.told[u] + asked(req') <= answering(req') + used'.faults + lost
    <3> HIDE DEF asked, answering
    <3> QED
      BY <1>1, <1>2, <1>3, <2>2, <2>3
  <2>5. Owed(u)'
    BY <1>3, <1>4, <2>4 DEF Owed
  <2>6. hist'.told[u] + asked(req') <= n * (1 + used.crashes) + used'.faults
    <3>1. /\ asked(req') \in Nat /\ answering(req') \in Nat
          /\ answering(req') <= n
      BY CountsBounded
    <3>2. hist'.told[u] + asked(req') <= answering(req') + used'.faults + n * used.crashes
      BY <1>4, <2>4
    <3> HIDE DEF asked, answering
    <3> QED
      BY <1>3, <3>1, <3>2, OwedIsBounded
  <2> QED
    BY <1>3, <2>5, <2>6 DEF Answers
<1>7. CASE OnlyFinishes(r, u)
  <2>1. hist.told[u] + asked(req) <= most + used.faults
    BY <1>5 DEF AnswersInv, Answers
  <2>2. hist'.told[u] + In(req', r, u, Asked) <= hist.told[u] + In(req, r, u, Asked)
    BY <1>7 DEF OnlyFinishes
  <2>3. hist'.told[u] + asked(req') <= most + used'.faults
    <3> HIDE DEF asked, answering
    <3> QED
      BY <1>1, <1>3, <2>1, <2>2
  <2>4. task'[u].approval # "PENDING"
    BY <1>7 DEF OnlyFinishes
  <2> QED
    BY <1>3, <1>5, <2>3, <2>4 DEF Answers
<1> QED
  BY <1>6, <1>7

\* A step of a job, of a photo, or none.
LEMMA AnswersQuiet ==
    ASSUME AnswersInv, Counts,
           \A s \in Requests : req'[s].pc = req[s].pc /\ req'[s].task = req[s].task,
           \A u \in Tasks : /\ task'[u].approval = task[u].approval
                            /\ task'[u].status = "ABSENT" => task[u].status = "ABSENT",
           hist' = hist
    PROVE  AnswersInv'
<1> SUFFICES ASSUME NEW u \in Tasks
             PROVE  (task'[u].approval = "PENDING" => Owed(u)') /\ Answers(u)'
  BY DEF AnswersInv
<1>1. At(req', u, Asked) = At(req, u, Asked) /\ At(req', u, Answering) = At(req, u, Answering)
  BY DEF At
<1>2. Cardinality(At(req, u, Asked)) \in Nat /\ Cardinality(At(req, u, Answering)) \in Nat
  BY CountsBounded
<1>3. /\ hist.told[u] \in Nat /\ used.faults \in Nat /\ used'.faults \in Nat
      /\ used'.faults >= used.faults /\ used'.crashes = used.crashes /\ used.crashes \in Nat
  BY DEF Counts
<1>4. PICK lost \in Nat : lost = Cardinality(Requests) * used.crashes
  BY <1>3, RequestsCount
<1>5. PICK most \in Nat : most = Cardinality(Requests) * (1 + used.crashes)
  BY <1>3, RequestsCount
<1>6. task'[u].approval = "PENDING" => Owed(u)'
  <2>1. task'[u].approval = "PENDING" => Owed(u)
    BY DEF AnswersInv
  <2> QED
    BY <1>1, <1>2, <1>3, <1>4, <2>1 DEF Owed
<1>7. Answers(u)'
  <2>1. Answers(u)
    BY DEF AnswersInv
  <2> QED
    BY <1>1, <1>2, <1>3, <1>5, <2>1 DEF Answers
<1> QED
  BY <1>6, <1>7
-----------------------------------------------------------------------------

LEMMA TypesHere ==
    ASSUME TypeInv
    PROVE  /\ req \in [Requests -> Caller(Pcs)] /\ hist.told \in [Tasks -> Nat]
           /\ task \in [Tasks -> [status : {"ABSENT", "OPEN", "DONE", "REJECTED"},
                                  approval : {"PENDING", "APPROVED", "REJECTED"},
                                  booking : Bookings \cup {None}]]
           /\ hist \in [told : [Tasks -> Nat], excused : SUBSET Tasks]
           /\ used.faults \in Nat /\ used.crashes \in Nat
           /\ used \in [faults : Nat, crashes : Nat]
BY TypesOfTypeOK DEF TypeInv, Types

LEMMA FaultCounts ==
    ASSUME TypeInv, Fault
    PROVE  used'.faults = used.faults + 1 /\ used'.crashes = used.crashes
BY TypesHere DEF Fault

\* A request that neither was nor is about to answer.
LEMMA AnswersElsewhere ==
    ASSUME TypeInv, AnswersInv, Counts, NEW r \in Requests,
           \A s \in Requests \ {r} : req'[s].pc = req[s].pc /\ req'[s].task = req[s].task,
           req[r].pc \notin Answering, req'[r].pc \notin Answering, hist' = hist,
           \A u \in Tasks : /\ task'[u].approval = task[u].approval
                            /\ task'[u].status = "ABSENT" => task[u].status = "ABSENT"
    PROVE  AnswersInv'
<1>1. \A u \in Tasks : /\ In(req, r, u, Asked) = 0 /\ In(req', r, u, Asked) = 0
                       /\ In(req, r, u, Answering) = 0 /\ In(req', r, u, Answering) = 0
  BY DEF In, OneIf, Answering
<1>2. ASSUME NEW u \in Tasks PROVE GoesOnAnswering(r, u) \/ OnlyFinishes(r, u)
  <2>1. hist'.told[u] = hist.told[u] /\ hist.told[u] \in Nat
    BY DEF Counts
  <2>2. hist'.told[u] + In(req', r, u, Asked) <= hist.told[u] + In(req, r, u, Asked)
    BY <1>1, <2>1
  <2>3. hist'.told[u] + In(req', r, u, Asked) + In(req, r, u, Answering) + used.faults
          <= hist.told[u] + In(req, r, u, Asked) + In(req', r, u, Answering) + used'.faults
    BY <1>1, <2>1 DEF Counts
  <2> QED
    BY <2>2, <2>3 DEF GoesOnAnswering, OnlyFinishes
<1>3. \A u \in Tasks : task'[u].status = "ABSENT" => task'[u].approval = "PENDING"
  BY DEF AnswersInv
<1> QED
  BY <1>2, <1>3, AnswersKept

LEMMA CreateTaskAnswers ==
    ASSUME TypeInv, AnswersInv, NEW r \in Requests, CreateTask(r) PROVE AnswersInv'
<1> DEFINE made(b) == [status |-> "OPEN", approval |-> "PENDING", booking |-> b]
           starts(t) == [IdleRequest EXCEPT !.pc = "enqueue", !.task = t]
<1>1. PICK t \in Tasks, b \in Bookings :
        /\ task[t].status = "ABSENT" /\ task' = [task EXCEPT ![t] = made(b)]
        /\ req' = [req EXCEPT ![r] = starts(t)]
  BY DEF CreateTask
<1>2. /\ made(b).status = "OPEN" /\ made(b).approval = "PENDING"
      /\ starts(t).pc = "enqueue"
  BY DEF IdleRequest
<1> HIDE DEF made, starts
<1>3. req'[r].pc = "enqueue" /\ \A s \in Requests \ {r} : req'[s] = req[s]
  BY <1>1, <1>2, TypesHere
<1>4. req[r].pc = "idle" /\ hist' = hist /\ used' = used
  BY DEF CreateTask
<1>5. ASSUME NEW u \in Tasks
      PROVE  /\ task'[u].approval = task[u].approval
             /\ task'[u].status = "ABSENT" => task[u].status = "ABSENT"
  <2>1. task[t].approval = "PENDING"
    BY <1>1 DEF AnswersInv
  <2>2. task'[t] = made(b) /\ (u # t => task'[u] = task[u])
    BY <1>1, TypesHere
  <2> QED
    BY <1>2, <2>1, <2>2
<1>6. Counts
  BY <1>4, TypesHere DEF Counts
<1>7. req[r].pc \notin Answering /\ req'[r].pc \notin Answering
  BY <1>3, <1>4 DEF Answering, Asked
<1> QED
  BY <1>3, <1>4, <1>5, <1>6, <1>7, AnswersElsewhere

LEMMA OthersAnswers ==
    ASSUME TypeInv, AnswersInv, NEW r \in Requests,
           EnqueueCheck(r) \/ ReadForVerify(r) \/ SaveManualResult(r)
    PROVE  AnswersInv'
<1>1. hist' = hist /\ task' = task
  BY DEF EnqueueCheck, ReadForVerify, SaveManualResult
<1>2. Counts
  <2>1. CASE Fault
    BY <1>1, <2>1, FaultCounts, TypesHere DEF Counts
  <2>2. CASE used' = used
    BY <1>1, <2>2, TypesHere DEF Counts
  <2> QED
    BY <2>1, <2>2 DEF EnqueueCheck, ReadForVerify, SaveManualResult
<1>3. req[r].pc \notin Answering
  BY DEF EnqueueCheck, ReadForVerify, SaveManualResult, Answering, Asked
<1>4. req'[r].pc \notin Answering /\ \A s \in Requests \ {r} : req'[s].pc = req[s].pc /\ req'[s].task = req[s].task
  <2>1. CASE EnqueueCheck(r)
    BY <2>1, TypesHere DEF EnqueueCheck, Reply, IdleRequest, Answering, Asked
  <2>2. CASE ReadForVerify(r)
    <3> DEFINE reads(t) == [IdleRequest EXCEPT !.pc = "verify", !.task = t, !.snap = payload[t]]
    <3>1. PICK t \in Tasks : req' = [req EXCEPT ![r] = reads(t)]
      BY <2>2 DEF ReadForVerify
    <3>2. reads(t).pc = "verify"
      BY DEF IdleRequest
    <3> HIDE DEF reads
    <3> QED
      BY <3>1, <3>2, TypesHere DEF Answering, Asked
  <2>3. CASE SaveManualResult(r)
    <3>1. PICK t : req' = [Overtaken(req, t) EXCEPT ![r] = IdleRequest]
      BY <2>3 DEF SaveManualResult
    <3>2. /\ Overtaken(req, t) \in [Requests -> Caller(Pcs)]
          /\ \A s \in Requests : /\ Overtaken(req, t)[s].pc = req[s].pc
                                 /\ Overtaken(req, t)[s].task = req[s].task
      BY TypesHere, OvertakenFacts
    <3>3. req'[r] = IdleRequest /\ \A s \in Requests \ {r} : req'[s] = Overtaken(req, t)[s]
      BY <3>1, <3>2
    <3> QED
      BY <3>2, <3>3 DEF IdleRequest, Answering, Asked
  <2> QED
    BY <2>1, <2>2, <2>3
<1> QED
  BY <1>1, <1>2, <1>3, <1>4, AnswersElsewhere
\* A request begins to answer a task only while its approval is PENDING.
LEMMA StartsAnswering ==
    ASSUME TypeInv, AnswersInv, NEW r \in Requests, ReadForApproval(r) \/ ReadForRejection(r)
    PROVE  AnswersInv'
<1>1. /\ req[r].pc = "idle" /\ hist' = hist /\ used' = used /\ task' = task
  BY DEF ReadForApproval, ReadForRejection
<1>2. PICK t \in Tasks, pc \in {"confirm", "ask", "reject"} :
        /\ task[t].approval = "PENDING"
        /\ req'[r].task = t /\ req'[r].pc = pc
        /\ \A s \in Requests \ {r} : req'[s] = req[s]
  <2>1. CASE ReadForApproval(r)
    <3> DEFINE reads(t) == [IdleRequest EXCEPT !.pc = "confirm", !.task = t, !.snap = payload[t]]
    <3>1. PICK t \in Tasks : IsPending(t) /\ req' = [req EXCEPT ![r] = reads(t)]
      BY <2>1 DEF ReadForApproval
    <3>2. reads(t).pc = "confirm" /\ reads(t).task = t
      BY DEF IdleRequest
    <3> HIDE DEF reads
    <3> QED
      BY <3>1, <3>2, TypesHere DEF IsPending
  <2>2. CASE ReadForRejection(r)
    <3> DEFINE reads(t, pc) == [IdleRequest EXCEPT !.task = t, !.pc = pc]
    <3>1. PICK t \in Tasks, pc \in {"ask", "reject"} : IsRejectable(t) /\ req' = [req EXCEPT ![r] = reads(t, pc)]
      BY <2>2 DEF ReadForRejection
    <3>2. reads(t, pc).pc = pc /\ reads(t, pc).task = t
      BY DEF IdleRequest
    <3> HIDE DEF reads
    <3> QED
      BY <3>1, <3>2, TypesHere DEF IsRejectable
  <2> QED
    BY <2>1, <2>2
<1>3. \A u \in Tasks : /\ In(req, r, u, Asked) = 0 /\ In(req, r, u, Answering) = 0
                       /\ In(req', r, u, Asked) \in Nat /\ In(req', r, u, Answering) \in Nat
                       /\ In(req', r, u, Asked) <= In(req', r, u, Answering)
  BY <1>1, <1>2 DEF In, OneIf, Answering, Asked
<1>4. \A u \in Tasks : u # t => In(req', r, u, Asked) = 0
  BY <1>2 DEF In, OneIf
<1>5. ASSUME NEW u \in Tasks PROVE GoesOnAnswering(r, u) \/ OnlyFinishes(r, u)
  <2>1. hist'.told[u] = hist.told[u] /\ hist.told[u] \in Nat /\ used'.faults = used.faults
        /\ used.faults \in Nat /\ task'[u].approval = task[u].approval
    BY <1>1, TypesHere
  <2>2. CASE task[u].approval = "PENDING"
    <3>1. hist'.told[u] + In(req', r, u, Asked) + In(req, r, u, Answering) + used.faults
            <= hist.told[u] + In(req, r, u, Asked) + In(req', r, u, Answering) + used'.faults
      BY <1>3, <2>1
    <3> QED
      BY <2>1, <2>2, <3>1 DEF GoesOnAnswering
  <2>3. CASE task[u].approval # "PENDING"
    <3>1. hist'.told[u] + In(req', r, u, Asked) <= hist.told[u] + In(req, r, u, Asked)
      BY <1>2, <1>3, <1>4, <2>1, <2>3
    <3> QED
      BY <2>1, <2>3, <3>1 DEF OnlyFinishes
  <2> QED
    BY <2>2, <2>3
<1>6. Counts
  BY <1>1, TypesHere DEF Counts
<1>7. \A u \in Tasks : task'[u].status = "ABSENT" => task'[u].approval = "PENDING"
  BY <1>1 DEF AnswersInv
<1> QED
  BY <1>2, <1>5, <1>6, <1>7, AnswersKept

\* Booking the candidate, telling them, and asking for a new card.
LEMMA AnswersGoOn ==
    ASSUME TypeInv, AnswersInv, NEW r \in Requests,
           ConfirmPlacement(r) \/ NotifyCandidate(r) \/ AskForNewCard(r)
    PROVE  AnswersInv'
<1>1. used' = used /\ task' = task /\ req[r].task \in Tasks /\ req[r].pc \in Asked
  BY DEF ConfirmPlacement, NotifyCandidate, AskForNewCard, TypeInv, CallersOK, RequestOK, Asked
<1>2. PICK pc \in {"notify", "approve", "reject"} :
        /\ req' = [req EXCEPT ![r] = [req[r] EXCEPT !.pc = pc]]
        /\ ConfirmPlacement(r) => pc = "notify"
        /\ NotifyCandidate(r) \/ AskForNewCard(r) => pc \in {"approve", "reject"}
  BY DEF ConfirmPlacement, NotifyCandidate, AskForNewCard, Goto
<1>3. /\ req'[r].pc = pc /\ req'[r].task = req[r].task
      /\ \A s \in Requests \ {r} : req'[s] = req[s]
  <2>1. req'[r] = [req[r] EXCEPT !.pc = pc] /\ req[r] \in Caller(Pcs)
    BY <1>2, TypesHere
  <2>2. req'[r].pc = pc /\ req'[r].task = req[r].task
    BY <2>1 DEF Caller
  <2> QED
    BY <1>2, <2>2, TypesHere
<1>4. /\ hist'.told \in [Tasks -> Nat]
      /\ \A u \in Tasks : hist'.told[u] = hist.told[u]
                          \/ (u = req[r].task /\ hist'.told[u] = hist.told[u] + 1 /\ ~ConfirmPlacement(r))
  <2>1. CASE hist' = hist
    BY <2>1, TypesHere
  <2>2. CASE hist' = [hist EXCEPT !.told[req[r].task] = @ + 1] /\ ~ConfirmPlacement(r)
    <3>1. hist'.told = [hist.told EXCEPT ![req[r].task] = @ + 1]
      BY <2>2, TypesHere
    <3> QED
      BY <1>1, <2>2, <3>1, TypesHere
  <2>3. ConfirmPlacement(r) => hist' = hist
    BY DEF ConfirmPlacement
  <2>4. NotifyCandidate(r) \/ AskForNewCard(r) =>
           hist' = hist \/ hist' = [hist EXCEPT !.told[req[r].task] = @ + 1]
    BY DEF NotifyCandidate, AskForNewCard
  <2>5. NotifyCandidate(r) \/ AskForNewCard(r) => ~ConfirmPlacement(r)
    BY DEF NotifyCandidate, AskForNewCard, ConfirmPlacement
  <2> QED
    BY <2>1, <2>2, <2>3, <2>4, <2>5
<1>5. Counts
  BY <1>1, <1>4, TypesHere DEF Counts
<1>6. ASSUME NEW u \in Tasks PROVE GoesOnAnswering(r, u) \/ OnlyFinishes(r, u)
  <2>1. In(req', r, u, Answering) = In(req, r, u, Answering) /\ In(req, r, u, Answering) \in Nat
    BY <1>1, <1>3 DEF In, OneIf, Answering, Asked
  <2>2. hist'.told[u] + In(req', r, u, Asked) <= hist.told[u] + In(req, r, u, Asked)
    <3>1. CASE u # req[r].task
      <4>1. In(req', r, u, Asked) = 0 /\ In(req, r, u, Asked) = 0 /\ hist'.told[u] = hist.told[u]
        BY <1>3, <1>4, <3>1 DEF In, OneIf
      <4> QED
        BY <4>1, TypesHere
    <3>2. CASE u = req[r].task /\ ConfirmPlacement(r)
      <4>1. In(req', r, u, Asked) = 1 /\ In(req, r, u, Asked) = 1 /\ hist'.told[u] = hist.told[u]
        BY <1>1, <1>2, <1>3, <1>4, <3>2 DEF In, OneIf, Asked
      <4> QED
        BY <4>1, TypesHere
    <3>3. CASE u = req[r].task /\ ~ConfirmPlacement(r)
      <4>1. In(req', r, u, Asked) = 0 /\ In(req, r, u, Asked) = 1
        BY <1>1, <1>2, <1>3, <3>3 DEF In, OneIf, Asked
      <4> QED
        BY <1>4, <4>1, TypesHere
    <3> QED
      BY <3>1, <3>2, <3>3
  <2>3. /\ hist'.told[u] \in Nat /\ hist.told[u] \in Nat
        /\ In(req', r, u, Asked) \in Nat /\ In(req, r, u, Asked) \in Nat
        /\ used.faults \in Nat /\ used'.faults = used.faults
    BY <1>1, <1>4, TypesHere DEF In, OneIf
  <2>4. hist'.told[u] + In(req', r, u, Asked) + In(req, r, u, Answering) + used.faults
          <= hist.told[u] + In(req, r, u, Asked) + In(req', r, u, Answering) + used'.faults
    BY <2>1, <2>2, <2>3
  <2> QED
    BY <1>1, <2>2, <2>4 DEF GoesOnAnswering, OnlyFinishes
<1>7. \A u \in Tasks : task'[u].status = "ABSENT" => task'[u].approval = "PENDING"
  BY <1>1 DEF AnswersInv
<1> QED
  BY <1>3, <1>5, <1>6, <1>7, AnswersKept
\* Once a decision is written, no request begins to answer.
LEMMA DecisionAnswers ==
    ASSUME TypeInv, AnswersInv, NEW r \in Requests, WriteApproval(r) \/ WriteRejection(r)
    PROVE  AnswersInv'
<1> DEFINE t == req[r].task
<1>1. PICK status \in {"DONE", "REJECTED"}, approval \in {"APPROVED", "REJECTED"} :
        task' = [task EXCEPT ![t] = [@ EXCEPT !.status = status, !.approval = approval]]
  BY DEF WriteApproval, WriteRejection
<1>2. /\ req' = [Overtaken(req, t) EXCEPT ![r] = IdleRequest]
      /\ used' = used /\ t \in Tasks /\ req[r].pc \in {"approve", "reject"}
  BY DEF WriteApproval, WriteRejection, TypeInv, CallersOK, RequestOK
<1>3. /\ task'[t].status = status /\ task'[t].approval = approval
      /\ \A u \in Tasks \ {t} : task'[u] = task[u]
  <2> DEFINE new == [task[t] EXCEPT !.status = status, !.approval = approval]
  <2>1. new.status = status /\ new.approval = approval
    BY <1>2, TypesHere
  <2>2. task' = [task EXCEPT ![t] = new]
    BY <1>1
  <2> HIDE DEF new, t
  <2>3. task'[t] = new /\ \A u \in Tasks \ {t} : task'[u] = task[u]
    BY <1>2, <2>2, TypesHere
  <2> QED
    BY <2>1, <2>3
<1>4. hist'.told = hist.told
  BY TypesHere DEF WriteApproval, WriteRejection
<1>5. Counts
  BY <1>2, <1>4, TypesHere DEF Counts
<1>6. req'[r].pc = "idle" /\ \A s \in Requests \ {r} : req'[s].pc = req[s].pc /\ req'[s].task = req[s].task
  <2>1. /\ Overtaken(req, t) \in [Requests -> Caller(Pcs)]
        /\ \A s \in Requests : /\ Overtaken(req, t)[s].pc = req[s].pc
                               /\ Overtaken(req, t)[s].task = req[s].task
    BY TypesHere, OvertakenFacts
  <2>2. req'[r] = IdleRequest /\ \A s \in Requests \ {r} : req'[s] = Overtaken(req, t)[s]
    BY <1>2, <2>1
  <2> QED
    BY <2>1, <2>2 DEF IdleRequest
<1>7. \A u \in Tasks : In(req, r, u, Asked) = 0 /\ In(req', r, u, Asked) = 0
                       /\ In(req', r, u, Answering) = 0
  BY <1>2, <1>6 DEF In, OneIf, Answering, Asked
<1>8. ASSUME NEW u \in Tasks PROVE GoesOnAnswering(r, u) \/ OnlyFinishes(r, u)
  <2>1. hist'.told[u] + In(req', r, u, Asked) <= hist.told[u] + In(req, r, u, Asked)
    BY <1>4, <1>7, TypesHere
  <2>2. CASE task'[u].approval # "PENDING"
    BY <2>1, <2>2 DEF OnlyFinishes
  <2>3. CASE task'[u].approval = "PENDING"
    <3>1. u # t /\ task'[u] = task[u]
      BY <1>3, <2>3
    <3>2. In(req, r, u, Answering) = 0
      BY <3>1 DEF In, OneIf
    <3>3. hist'.told[u] + In(req', r, u, Asked) + In(req, r, u, Answering) + used.faults
            <= hist.told[u] + In(req, r, u, Asked) + In(req', r, u, Answering) + used'.faults
      BY <1>2, <1>4, <1>7, <3>2, TypesHere
    <3> QED
      BY <2>3, <3>1, <3>3 DEF GoesOnAnswering
  <2> QED
    BY <2>2, <2>3
<1>9. \A u \in Tasks : task'[u].status = "ABSENT" => task'[u].approval = "PENDING"
  BY <1>3 DEF AnswersInv
<1> QED
  BY <1>5, <1>6, <1>8, <1>9, AnswersKept

\* A failing call: the answer that is not decided on is one of the faults.
LEMMA FailureAnswers ==
    ASSUME TypeInv, AnswersInv, NEW r \in Requests, RequestFails(r) PROVE AnswersInv'
<1>1. /\ req'[r].pc = "idle" /\ \A s \in Requests \ {r} : req'[s] = req[s]
      /\ task' = task
  BY TypesHere DEF RequestFails, Reply, IdleRequest
<1>2. used'.faults = used.faults + 1 /\ used'.crashes = used.crashes
  BY FaultCounts DEF RequestFails
<1>3. hist'.told = hist.told
  BY TypesHere DEF RequestFails
<1>4. Counts
  BY <1>2, <1>3, TypesHere DEF Counts
<1>5. \A u \in Tasks : /\ In(req', r, u, Asked) = 0 /\ In(req', r, u, Answering) = 0
                       /\ In(req, r, u, Asked) \in Nat
                       /\ In(req, r, u, Answering) \in Nat /\ In(req, r, u, Answering) <= 1
  BY <1>1 DEF In, OneIf, Answering, Asked
<1>6. ASSUME NEW u \in Tasks PROVE GoesOnAnswering(r, u) \/ OnlyFinishes(r, u)
  <2>1. hist'.told[u] + In(req', r, u, Asked) <= hist.told[u] + In(req, r, u, Asked)
    BY <1>3, <1>5, TypesHere
  <2>2. hist'.told[u] + In(req', r, u, Asked) + In(req, r, u, Answering) + used.faults
          <= hist.told[u] + In(req, r, u, Asked) + In(req', r, u, Answering) + used'.faults
    BY <1>2, <1>3, <1>5, TypesHere
  <2> QED
    BY <1>1, <2>1, <2>2 DEF GoesOnAnswering, OnlyFinishes
<1>7. \A u \in Tasks : task'[u].status = "ABSENT" => task'[u].approval = "PENDING"
  BY <1>1 DEF AnswersInv
<1> QED
  BY <1>1, <1>4, <1>6, <1>7, AnswersKept

\* A restart cuts off every request: whoever began to answer can begin once more.
LEMMA RestartAnswers == ASSUME TypeInv, AnswersInv, Restart PROVE AnswersInv'
<1>1. /\ req' = [r \in Requests |-> IdleRequest] /\ task' = task
      /\ used' = [used EXCEPT !.crashes = @ + 1]
  BY DEF Restart
<1>2. used'.crashes = used.crashes + 1 /\ used'.faults = used.faults
  BY <1>1, TypesHere
<1>3. hist'.told = hist.told
  BY TypesHere DEF Restart
<1> SUFFICES ASSUME NEW u \in Tasks
             PROVE  (task'[u].approval = "PENDING" => Owed(u)') /\ Answers(u)'
  BY <1>1 DEF AnswersInv
<1> DEFINE n == Cardinality(Requests)
           asked == Cardinality(At(req, u, Asked))
           answering == Cardinality(At(req, u, Answering))
<1>4. Cardinality(At(req', u, Asked)) = 0 /\ Cardinality(At(req', u, Answering)) = 0
  <2>1. At(req', u, Asked) = {} /\ At(req', u, Answering) = {}
    BY <1>1 DEF At, IdleRequest, Answering, Asked
  <2> QED
    BY <2>1, FS_EmptySet
<1>5. /\ asked \in Nat /\ answering \in Nat /\ answering <= n /\ n \in Nat
      /\ hist.told[u] \in Nat /\ used.faults \in Nat /\ used.crashes \in Nat
  BY CountsBounded, RequestsCount, TypesHere
<1> HIDE DEF n, asked, answering
<1>6. PICK lost \in Nat : lost = n * used.crashes
  BY <1>5
<1>7. /\ n * (used.crashes + 1) = lost + n /\ n * (1 + used.crashes) = lost + n
      /\ n * (1 + (used.crashes + 1)) = lost + n + n
  BY <1>5, <1>6
<1>8. task[u].approval = "PENDING" => hist.told[u] <= lost + n + used.faults
  <2>1. task[u].approval = "PENDING" => hist.told[u] + asked <= answering + used.faults + lost
    BY <1>6 DEF AnswersInv, Owed, n, asked, answering
  <2> QED
    BY <1>5, <2>1
<1>9. hist.told[u] <= lost + n + used.faults
  <2>1. hist.told[u] + asked <= lost + n + used.faults
    BY <1>7 DEF AnswersInv, Answers, n, asked
  <2> QED
    BY <1>5, <2>1
<1>10. task'[u].approval = "PENDING" => Owed(u)'
  <2>1. hist.told[u] + 0 <= 0 + used.faults + n * (used.crashes + 1)
    BY <1>5, <1>7, <1>9
  <2> QED
    BY <1>2, <1>3, <1>4, <2>1 DEF Owed, n
<1>11. Answers(u)'
  <2>1. hist.told[u] + 0 <= n * (1 + (used.crashes + 1)) + used.faults
    BY <1>5, <1>7, <1>9
  <2> QED
    BY <1>2, <1>3, <1>4, <2>1 DEF Answers, n
<1> QED
  BY <1>10, <1>11

\* A job or a photo leaves the decision and the answers alone.
LEMMA BackgroundAnswers ==
    ASSUME TypeInv, AnswersInv,
           \/ \E t \in Tasks : CheckStep(t) \/ JobThrows(t)
           \/ \E p \in Photos : ReadForPhoto(p) \/ AttachPhoto(p) \/ CreatePhotoTask(p)
                                \/ LeavePhoto(p) \/ PhotoFails(p)
    PROVE  AnswersInv'
<1>1. hist' = hist
  BY DEF CheckStep, ReadCard, SaveAutoResult, CheckFails, ReadForError, MarkError, CompleteJob, JobThrows,
         ReadForPhoto, AttachPhoto, CreatePhotoTask, LeavePhoto, PhotoFails
<1>2. req' = req \/ \E t : req' = Overtaken(req, t)
  BY DEF CheckStep, ReadCard, SaveAutoResult, CheckFails, ReadForError, MarkError, CompleteJob, JobThrows,
         ReadForPhoto, AttachPhoto, CreatePhotoTask, LeavePhoto, PhotoFails
<1>3. \A s \in Requests : req'[s].pc = req[s].pc /\ req'[s].task = req[s].task
  BY <1>2, TypesHere, OvertakenFacts
<1>4. \A u \in Tasks : /\ task'[u].approval = task[u].approval
                       /\ task'[u].status = "ABSENT" => task[u].status = "ABSENT"
  <2>1. CASE \E p \in Photos : CreatePhotoTask(p)
    BY <2>1, TypesHere DEF CreatePhotoTask
  <2>2. CASE task' = task
    BY <2>2
  <2> QED
    BY <2>1, <2>2 DEF CheckStep, ReadCard, SaveAutoResult, CheckFails, ReadForError, MarkError, CompleteJob,
                      JobThrows, ReadForPhoto, AttachPhoto, LeavePhoto, PhotoFails
<1>5. Counts
  <2>1. CASE Fault
    BY <1>1, <2>1, FaultCounts, TypesHere DEF Counts
  <2>2. CASE used' = used
    BY <1>1, <2>2, TypesHere DEF Counts
  <2> QED
    BY <2>1, <2>2 DEF CheckStep, ReadCard, SaveAutoResult, CheckFails, ReadForError, MarkError, CompleteJob,
                      JobThrows, ReadForPhoto, AttachPhoto, CreatePhotoTask, LeavePhoto, PhotoFails
<1> QED
  BY <1>1, <1>3, <1>4, <1>5, AnswersQuiet

LEMMA InitAnswers == Init => AnswersInv
<1> SUFFICES ASSUME Init PROVE AnswersInv
  OBVIOUS
<1>1. \A t \in Tasks : task[t].approval = "PENDING"
  BY DEF Init, NoTask
<1> SUFFICES ASSUME NEW t \in Tasks PROVE Owed(t) /\ Answers(t)
  BY <1>1 DEF AnswersInv
<1>2. Cardinality(At(req, t, Asked)) = 0 /\ Cardinality(At(req, t, Answering)) = 0
  <2>1. At(req, t, Asked) = {} /\ At(req, t, Answering) = {}
    BY DEF Init, At, IdleRequest, Answering, Asked
  <2> QED
    BY <2>1, FS_EmptySet
<1>3. hist.told[t] = 0 /\ used.faults = 0 /\ used.crashes = 0
  BY DEF Init
<1> QED
  BY <1>2, <1>3, RequestsCount DEF Owed, Answers

LEMMA NextAnswers == TypeInv /\ AnswersInv /\ [Next]_vars => AnswersInv'
<1> SUFFICES ASSUME TypeInv, AnswersInv, [Next]_vars PROVE AnswersInv'
  OBVIOUS
<1>1. CASE Next
  BY <1>1, CreateTaskAnswers, OthersAnswers, StartsAnswering, AnswersGoOn, DecisionAnswers, FailureAnswers,
     RestartAnswers, BackgroundAnswers DEF Next, ServeRequest
<1>2. CASE UNCHANGED vars
  BY <1>2 DEF vars, AnswersInv, Owed, Answers, At
<1> QED
  BY <1>1, <1>2

\* However many operators approve and reject a card at the same time, its candidate is told
\* of one task at most once per request served at a time, per restart and per failing call.
THEOREM CandidateAnswersBounded == Spec => []AnswersBounded
<1>1. AnswersInv => AnswersBounded
  BY DEF AnswersInv, Answers, AnswersBounded, At, Asked
<1> QED
  BY <1>1, InitAnswers, NextAnswers, TypeInvAlways, PTL DEF Spec
=============================================================================

-------------------------- MODULE ApprovalWorkflow --------------------------
(***************************************************************************)
(* The path of a reply that needs an operator's approval: the inbound      *)
(* worker creates an approval task or adds a message to the pending one,   *)
(* operators approve or reject it over HTTP, an approved task is queued in *)
(* BullMQ and the approved-task worker sends the reply through Twilio,     *)
(* records it, resumes the conversation and settles the task.              *)
(*                                                                         *)
(* All of it runs in one Node.js process against Postgres, without         *)
(* transactions: every handler reads a row, awaits, and writes it back     *)
(* unconditionally.  An action is what a handler does between two awaits,  *)
(* so handlers, workers and inbound jobs interleave wherever they can.     *)
(***************************************************************************)
EXTENDS ApprovalData

CONSTANTS Operators,     \* approve and reject requests that may be in flight
          Workers,       \* jobs the approved-task worker runs concurrently
          MaxRetries,    \* MAX_RETRIES of the worker
          MaxFaults,     \* bound: failing database or queue calls
          MaxCrashes,    \* bound: crashes of the process
          MaxCallbacks   \* bound: Twilio status callbacks

ASSUME BoundsAssumption ==
    MaxRetries \in Nat /\ MaxFaults \in Nat /\ MaxCrashes \in Nat /\ MaxCallbacks \in Nat

ASSUME ProcessesAssumption == IsFiniteSet(Operators) /\ IsFiniteSet(Workers)

VARIABLES
    task,       \* the Task rows
    conv,       \* the state column of the Conversation rows
    outbound,   \* per conversation its outbound Message rows, oldest first
    queue,      \* per task the jobs waiting in the queue "approved-tasks"
    operator,   \* the approve and reject requests in flight
    worker,     \* the job slots of the approved-task worker
    inbound,    \* the inbound messages and how far their jobs got
    used,       \* how much of each bound has been used up
    hist        \* history: what was decided and sent for each task

vars == <<task, conv, outbound, queue, operator, worker, inbound, used, hist>>

ConversationStates == {"ACTIVE", "PAUSED_FOR_APPROVAL"}

IdleOperator == [pc |-> "idle", task |-> None, snap |-> NoRow, edit |-> None]

IdleWorker == [pc |-> "idle", task |-> None, snap |-> NoRow, ok |-> FALSE,
               retry |-> 0, attempt |-> "fresh"]

NewMessage(c) == [pc |-> "new", conv |-> c, path |-> "paused", proposal |-> None,
                  task |-> None, snap |-> NoRow]

NoHistory == [approvals |-> 0, rejections |-> 0, approved |-> {}, sends |-> 0,
              delivered |-> {}, unrecorded |-> 0, overwritten |-> FALSE]

Init ==
    /\ task = [t \in Tasks |-> NoRow]
    /\ conv = [c \in Conversations |-> "ACTIVE"]
    /\ outbound = [c \in Conversations |-> <<>>]
    /\ queue = [t \in Tasks |-> [fresh |-> 0, stalled |-> 0]]
    /\ operator = [o \in Operators |-> IdleOperator]
    /\ worker = [w \in Workers |-> IdleWorker]
    /\ \E home \in [Messages -> Conversations] :
           inbound = [m \in Messages |-> NewMessage(home[m])]
    /\ used = [faults |-> 0, crashes |-> 0, callbacks |-> 0]
    /\ hist = [t \in Tasks |-> NoHistory]

\* The job is never added.
BuggyEnqueueNothing(t, attempt) == queue' = queue

\* Two attempts in the job options, on top of the worker's own retries.
BuggyEnqueueTwice(t, attempt) == queue' = [queue EXCEPT ![t][attempt] = @ + 2]

Enqueue(t, attempt) == queue' = [queue EXCEPT ![t][attempt] = @ + 1]

Fault == used.faults < MaxFaults /\ used' = [used EXCEPT !.faults = @ + 1]

-----------------------------------------------------------------------------
(* The inbound worker, where it decides that an operator has to approve.   *)

InboundGoto(m, pc) == inbound' = [inbound EXCEPT ![m].pc = pc]

\* The processor returns; the job stays active until BullMQ hears of it.
InboundDone(m) ==
    inbound' = [inbound EXCEPT ![m] = [NewMessage(inbound[m].conv) EXCEPT !.pc = "finish"]]

\* The job reads the message with the state of its conversation.  In a paused
\* conversation it goes straight to the tasks; otherwise it has found that the
\* reply needs approval, or that a LOW-risk reply was suggested but not sent.
ReadMessage(m) ==
    /\ inbound[m].pc = "new"
    /\ \/ /\ conv[inbound[m].conv] = "PAUSED_FOR_APPROVAL"
          /\ InboundGoto(m, "find")
       \/ /\ conv[inbound[m].conv] = "ACTIVE"
          /\ \E path \in {"approval", "unsent"}, p \in Proposals \cup {None} :
                /\ path = "unsent" => p # None /\ p.kind = "SEND_MESSAGE"
                /\ inbound' = [inbound EXCEPT ![m] =
                              [@ EXCEPT !.pc = "pause", !.path = path, !.proposal = p]]
    /\ UNCHANGED <<task, conv, outbound, queue, operator, worker, used, hist>>

PauseConversation(m) ==
    /\ inbound[m].pc = "pause"
    /\ conv' = [conv EXCEPT ![inbound[m].conv] = "PAUSED_FOR_APPROVAL"]
    /\ InboundGoto(m, "find")
    /\ UNCHANGED <<task, outbound, queue, operator, worker, used, hist>>

\* The search names the wrong status.
BuggyOpenTasksOf(m) == {t \in Tasks : task[t].msg = m /\ task[t].status = "APPROVED"}

OpenTasksOf(m) == {t \in Tasks : task[t].msg = m /\ task[t].status = "OPEN"}

PendingTasksIn(c) == {t \in Tasks : task[t].conv = c /\ IsPending(task[t])}

\* Look for a task of this very message, then for a pending one of the
\* conversation; which searches are made depends on the path.
FindTask(m) ==
    LET in == inbound[m] IN
    /\ in.pc = "find"
    /\ \/ /\ OpenTasksOf(m) # {}
          /\ in.path = "paused" => PendingTasksIn(in.conv) = {}
          /\ InboundDone(m)
       \/ /\ in.path = "paused" \/ (in.path = "approval" /\ OpenTasksOf(m) = {})
          /\ \E t \in PendingTasksIn(in.conv) :
                inbound' = [inbound EXCEPT ![m] =
                              [@ EXCEPT !.pc = "append", !.task = t, !.snap = task[t]]]
       \/ /\ OpenTasksOf(m) = {}
          /\ in.path # "unsent" => PendingTasksIn(in.conv) = {}
          /\ InboundGoto(m, "create")
    /\ UNCHANGED <<task, conv, outbound, queue, operator, worker, used, hist>>

HasText(p) == p # None /\ p.text # None

\* Write the message context into the task found: the payload is the one read
\* before, and on the approval path so is the proposed action, or it is the new
\* suggestion.
AppendToTask(m) ==
    LET in == inbound[m]
        t  == in.task
        withPayload == [task[t] EXCEPT
            !.sentText = in.snap.sentText,
            !.pending  = IF in.path = "approval" /\ HasText(in.proposal)
                         THEN in.proposal.text ELSE in.snap.pending]
        action == IF in.proposal # None THEN in.proposal ELSE in.snap
    IN
    /\ in.pc = "append"
    /\ task' = [task EXCEPT ![t] =
                  IF in.path = "approval"
                  THEN [withPayload EXCEPT !.kind = action.kind, !.text = action.text]
                  ELSE withPayload]
    /\ hist' = [hist EXCEPT ![t].overwritten = @ \/ hist[t].approvals > 0]
    /\ InboundDone(m)
    /\ UNCHANGED <<conv, outbound, queue, operator, worker, used>>

\* Create the task; its suggestion is the AI's, or else a fallback text.  Only
\* this job makes a task of this message: the searches for one that come later
\* in the code find what FindTask found.
CreateTask(m) ==
    LET in == inbound[m] IN
    /\ in.pc = "create"
    /\ \E t \in Tasks, x \in Texts :
          /\ task[t].status = "ABSENT"
          /\ HasText(in.proposal) => x = in.proposal.text
          /\ task' = [task EXCEPT ![t] =
                [NoRow EXCEPT !.status = "OPEN", !.approval = "PENDING",
                              !.conv = in.conv, !.msg = m,
                              !.since = Len(outbound[in.conv]),
                              !.kind = "SEND_MESSAGE", !.text = x, !.pending = x]]
    /\ InboundDone(m)
    /\ UNCHANGED <<conv, outbound, queue, operator, worker, used, hist>>

CompleteMessage(m) ==
    /\ inbound[m].pc = "finish"
    /\ InboundGoto(m, "done")
    /\ UNCHANGED <<task, conv, outbound, queue, operator, worker, used, hist>>

\* A failing call fails the job; BullMQ runs it again from the start.
RestartMessage(m) ==
    /\ inbound[m].pc \in {"pause", "find", "append", "create"}
    /\ inbound[m].path # "unsent"
    /\ inbound' = [inbound EXCEPT ![m] = NewMessage(@.conv)]
    /\ Fault
    /\ UNCHANGED <<task, conv, outbound, queue, operator, worker, hist>>

\* On the LOW-risk path the failure is caught, and the reply needs approval.
FallBackToApproval(m) ==
    /\ inbound[m].pc \in {"pause", "find", "create"}
    /\ inbound[m].path = "unsent"
    /\ \E p \in Proposals \cup {None} :
          inbound' = [inbound EXCEPT ![m] =
                        [@ EXCEPT !.pc = "pause", !.path = "approval", !.proposal = p]]
    /\ Fault
    /\ UNCHANGED <<task, conv, outbound, queue, operator, worker, hist>>

InboundFails(m) == RestartMessage(m) \/ FallBackToApproval(m)

-----------------------------------------------------------------------------
(* The approve and reject handlers of the tasks API.                       *)

\* The handler reads the task and makes all its checks on what it read.
ReadForApproval(o, t, edit) ==
    /\ operator[o].pc = "idle"
    /\ IsPending(task[t])
    /\ operator' = [operator EXCEPT ![o] =
          [pc |-> "approve", task |-> t, snap |-> task[t], edit |-> edit]]
    /\ UNCHANGED <<task, conv, outbound, queue, worker, inbound, used, hist>>

\* It then writes the whole payload it read, with the approved text in it,
\* whatever has become of the row in the meantime.
WriteApproval(o) ==
    LET op == operator[o]
        t  == op.task
        x  == ApprovedText(op.snap, op.edit)
    IN
    /\ op.pc = "approve"
    /\ task' = [task EXCEPT ![t] =
                  [@ EXCEPT !.status = "APPROVED", !.approval = "APPROVED",
                            !.sentText = x, !.pending = op.snap.pending]]
    /\ hist' = [hist EXCEPT ![t] =
                  [hist[t] EXCEPT !.approvals = @ + 1, !.approved = @ \cup {x}]]
    /\ operator' = [operator EXCEPT ![o] = [IdleOperator EXCEPT !.pc = "enqueue", !.task = t]]
    /\ UNCHANGED <<conv, outbound, queue, worker, inbound, used>>

EnqueueApproval(o) ==
    /\ operator[o].pc = "enqueue"
    /\ Enqueue(operator[o].task, "fresh")
    /\ operator' = [operator EXCEPT ![o] = IdleOperator]
    /\ UNCHANGED <<task, conv, outbound, worker, inbound, used, hist>>

ReadForRejection(o, t) ==
    /\ operator[o].pc = "idle"
    /\ task[t].status \notin {"ABSENT", "DONE", "FAILED"}
    /\ task[t].approval = "PENDING"
    /\ operator' = [operator EXCEPT ![o] =
          [pc |-> "reject", task |-> t, snap |-> task[t], edit |-> None]]
    /\ UNCHANGED <<task, conv, outbound, queue, worker, inbound, used, hist>>

\* A rejected reply leaves its conversation as it is.
WriteRejection(o) ==
    LET t == operator[o].task IN
    /\ operator[o].pc = "reject"
    /\ task' = [task EXCEPT ![t] = [@ EXCEPT !.status = "DONE", !.approval = "REJECTED"]]
    /\ hist' = [hist EXCEPT ![t].rejections = @ + 1]
    /\ operator' = [operator EXCEPT ![o] = IdleOperator]
    /\ UNCHANGED <<conv, outbound, queue, worker, inbound, used>>

\* A failing write ends the request with an error; a failing enqueue is logged
\* and the request succeeds.  Neither undoes what was written before.
RequestFails(o) ==
    /\ operator[o].pc # "idle"
    /\ operator' = [operator EXCEPT ![o] = IdleOperator]
    /\ Fault
    /\ UNCHANGED <<task, conv, outbound, queue, worker, inbound, hist>>

-----------------------------------------------------------------------------
(* The approved-task worker and the action executor.                       *)

WorkerGoto(w, pc) == worker' = [worker EXCEPT ![w].pc = pc]

\* The processor returns; the job stays active until BullMQ hears of it.
Finish(w) == worker' = [worker EXCEPT ![w] =
    [IdleWorker EXCEPT !.pc = "finish", !.task = worker[w].task,
                       !.attempt = worker[w].attempt]]

SetStatus(t, status) == task' = [task EXCEPT ![t].status = status]

\* Take a job and read its task, the snapshot all later steps work on.
StartJob(w, t, attempt) ==
    /\ worker[w].pc = "idle"
    /\ queue[t][attempt] > 0
    /\ queue' = [queue EXCEPT ![t][attempt] = @ - 1]
    /\ worker' = [worker EXCEPT ![w] =
          [IdleWorker EXCEPT
              !.pc = CASE ~ IsApproved(task[t])             -> "finish"
                       [] IsApproved(task[t])
                          /\ TextToLookUp(task[t]) # None   -> "guard"
                       [] OTHER                             -> "execute",
              !.task = t, !.attempt = attempt,
              !.snap = IF IsApproved(task[t]) THEN task[t] ELSE NoRow]]
    /\ UNCHANGED <<task, conv, outbound, operator, inbound, used, hist>>

\* Guard 2: has an outbound message of this task been recorded already?
CheckDuplicate(w) ==
    LET snap == worker[w].snap IN
    /\ worker[w].pc = "guard"
    /\ IF MatchingMessages(snap, outbound[snap.conv]) # {}
       THEN WorkerGoto(w, "markDuplicate")
       ELSE WorkerGoto(w, "execute")
    /\ UNCHANGED <<task, conv, outbound, queue, operator, inbound, used, hist>>

MarkDuplicateDone(w) ==
    /\ worker[w].pc = "markDuplicate"
    /\ SetStatus(worker[w].task, "DONE")
    /\ Finish(w)
    /\ UNCHANGED <<conv, outbound, queue, operator, inbound, used, hist>>

\* ESCALATE is not implemented and reports no success; NO_ACTION succeeds.
ExecuteWithoutSending(w) ==
    /\ worker[w].pc = "execute"
    /\ \/ worker[w].snap.kind = "ESCALATE" /\ Finish(w)
       \/ worker[w].snap.kind = "NO_ACTION" /\ WorkerGoto(w, "verify")
    /\ UNCHANGED <<task, conv, outbound, queue, operator, inbound, used, hist>>

\* The Twilio call, which accepts the message or fails.
SendReply(w, accepted) ==
    LET t == worker[w].task
        x == TextToSend(worker[w].snap)
    IN
    /\ worker[w].pc = "execute"
    /\ worker[w].snap.kind \in SendingKinds
    /\ worker' = [worker EXCEPT ![w] = [@ EXCEPT !.pc = "persist", !.ok = accepted]]
    /\ hist' = IF accepted
               THEN [hist EXCEPT ![t] =
                       [hist[t] EXCEPT !.sends = @ + 1, !.delivered = @ \cup {x}]]
               ELSE hist
    /\ UNCHANGED <<task, conv, outbound, queue, operator, inbound, used>>

\* Record the message as SENT or FAILED; a failed send throws only now.
PersistReply(w) ==
    LET snap == worker[w].snap
        row  == [text |-> TextToSend(snap), hasSid |-> worker[w].ok,
                 status |-> IF worker[w].ok THEN "SENT" ELSE "FAILED"]
    IN
    /\ worker[w].pc = "persist"
    /\ outbound' = [outbound EXCEPT ![snap.conv] = Append(@, row)]
    /\ WorkerGoto(w, IF worker[w].ok THEN "verify" ELSE "catch")
    /\ UNCHANGED <<task, conv, queue, operator, inbound, used, hist>>

\* Look up the newest recorded message of the task: its status is authoritative.
VerifyReply(w) ==
    LET snap == worker[w].snap
        log  == outbound[snap.conv]
        hits == MatchingMessages(snap, log)
        last == CHOOSE i \in hits : \A j \in hits : j <= i
    IN
    /\ worker[w].pc = "verify"
    /\ \/ TextToLookUp(snap) = None /\ WorkerGoto(w, "settle")
       \/ TextToLookUp(snap) # None /\ hits = {} /\ Finish(w)
       \/ /\ TextToLookUp(snap) # None /\ hits # {}
          /\ log[last].status = "FAILED"
          /\ worker' = [worker EXCEPT ![w] =
                           [@ EXCEPT !.pc = "markFailed", !.retry = snap.retry]]
       \/ /\ TextToLookUp(snap) # None /\ hits # {}
          /\ log[last].status # "FAILED"
          /\ WorkerGoto(w, "resume")
    /\ UNCHANGED <<task, conv, outbound, queue, operator, inbound, used, hist>>

\* The state is written back as it was read.
BuggyResumeConversation(w) ==
    /\ worker[w].pc = "resume"
    /\ WorkerGoto(w, "settle")
    /\ UNCHANGED <<task, conv, outbound, queue, operator, inbound, used, hist>>

ResumeConversation(w) ==
    /\ worker[w].pc = "resume"
    /\ conv' = [conv EXCEPT ![worker[w].snap.conv] = "ACTIVE"]
    /\ WorkerGoto(w, "settle")
    /\ UNCHANGED <<task, outbound, queue, operator, inbound, used, hist>>

SettleTask(w) ==
    /\ worker[w].pc = "settle"
    /\ SetStatus(worker[w].task, "DONE")
    /\ Finish(w)
    /\ UNCHANGED <<conv, outbound, queue, operator, inbound, used, hist>>

\* The failure is settled as success.
BuggyFailTask(w) ==
    /\ worker[w].pc \in {"markFailed", "giveUp"}
    /\ SetStatus(worker[w].task, "DONE")
    /\ Finish(w)
    /\ UNCHANGED <<conv, outbound, queue, operator, inbound, used, hist>>

\* In the try block ("markFailed") and in the catch block ("giveUp").
FailTask(w) ==
    /\ worker[w].pc \in {"markFailed", "giveUp"}
    /\ task' = [task EXCEPT ![worker[w].task] =
                  [@ EXCEPT !.status = "FAILED", !.retry = worker[w].retry]]
    /\ Finish(w)
    /\ UNCHANGED <<conv, outbound, queue, operator, inbound, used, hist>>

\* The catch block: a recorded failure is final, any other error is retried,
\* counting from the retry count in the snapshot.
CatchError(w) ==
    LET snap   == worker[w].snap
        log    == outbound[snap.conv]
        failed == {i \in MatchingMessages(snap, log) : log[i].status = "FAILED"}
        final  == TextToLookUp(snap) # None /\ failed # {}
        count  == IF final THEN snap.retry ELSE snap.retry + 1
    IN
    /\ worker[w].pc = "catch"
    /\ worker' = [worker EXCEPT ![w] =
          [@ EXCEPT !.retry = count,
                    !.pc = IF final \/ count > MaxRetries THEN "giveUp" ELSE "countRetry"]]
    /\ UNCHANGED <<task, conv, outbound, queue, operator, inbound, used, hist>>

CountRetry(w) ==
    /\ worker[w].pc = "countRetry"
    /\ task' = [task EXCEPT ![worker[w].task].retry = worker[w].retry]
    /\ WorkerGoto(w, "requeue")
    /\ UNCHANGED <<conv, outbound, queue, operator, inbound, used, hist>>

\* The delay of the retry job is not modelled: it may start at once or later.
Requeue(w) ==
    /\ worker[w].pc = "requeue"
    /\ Enqueue(worker[w].task, "fresh")
    /\ Finish(w)
    /\ UNCHANGED <<task, conv, outbound, operator, inbound, used, hist>>

\* The job is queued again: a task that is not settled yet is to be seen to.
BuggyCompleteJob(w) ==
    /\ worker[w].pc = "finish"
    /\ worker' = [worker EXCEPT ![w] = IdleWorker]
    /\ Enqueue(worker[w].task, worker[w].attempt)
    /\ UNCHANGED <<task, conv, outbound, operator, inbound, used, hist>>

CompleteJob(w) ==
    /\ worker[w].pc = "finish"
    /\ worker' = [worker EXCEPT ![w] = IdleWorker]
    /\ UNCHANGED <<task, conv, outbound, queue, operator, inbound, used, hist>>

-----------------------------------------------------------------------------
(* What can go wrong in a job, and what Twilio reports later.              *)

\* A call of the try block throws: a database error before or after the send.
Throw(w) ==
    LET t == worker[w].task IN
    /\ \/ worker[w].pc \in {"persist", "verify", "resume", "settle", "markFailed"}
       \/ worker[w].pc = "execute" /\ worker[w].snap.kind \in SendingKinds
    /\ Fault
    /\ WorkerGoto(w, "catch")
    /\ hist' = IF worker[w].pc = "persist" /\ worker[w].ok
               THEN [hist EXCEPT ![t].unrecorded = @ + 1] ELSE hist
    /\ UNCHANGED <<task, conv, outbound, queue, operator, inbound>>

\* A call outside the try block throws: the job fails, and its one attempt is used.
LoseJob(w) ==
    /\ worker[w].pc \in {"guard", "markDuplicate", "catch", "countRetry", "giveUp"}
    /\ Fault
    /\ Finish(w)
    /\ UNCHANGED <<task, conv, outbound, queue, operator, inbound, hist>>

RequeueFails(w) ==
    /\ worker[w].pc = "requeue"
    /\ Fault
    /\ WorkerGoto(w, "giveUp")
    /\ UNCHANGED <<task, conv, outbound, queue, operator, inbound, hist>>

\* The read at the start of a job fails.
StartFails(w, t, attempt) ==
    /\ worker[w].pc = "idle"
    /\ queue[t][attempt] > 0
    /\ Fault
    /\ queue' = [queue EXCEPT ![t][attempt] = @ - 1]
    /\ UNCHANGED <<task, conv, outbound, operator, worker, inbound, hist>>

\* A Twilio status callback overwrites the delivery status of a message.
StatusCallback(c, i, status) ==
    /\ used.callbacks < MaxCallbacks
    /\ i \in DOMAIN outbound[c] /\ outbound[c][i].hasSid
    /\ outbound' = [outbound EXCEPT ![c][i].status = status]
    /\ used' = [used EXCEPT !.callbacks = @ + 1]
    /\ UNCHANGED <<task, conv, queue, operator, worker, inbound, hist>>

JobsOf(t, pcs) == {w \in Workers : worker[w].task = t /\ worker[w].pc \in pcs}

ActivePcs == {"guard", "markDuplicate", "execute", "persist", "verify", "resume",
              "settle", "markFailed", "catch", "countRetry", "requeue", "giveUp", "finish"}

\* The process dies and restarts.  Requests are gone; BullMQ puts the jobs that
\* were active back in the queue, unless they had stalled once before.
Crash ==
    /\ used.crashes < MaxCrashes
    /\ used' = [used EXCEPT !.crashes = @ + 1]
    /\ operator' = [o \in Operators |-> IdleOperator]
    /\ worker' = [w \in Workers |-> IdleWorker]
    /\ inbound' = [m \in Messages |-> IF inbound[m].pc = "done" THEN inbound[m]
                                      ELSE NewMessage(inbound[m].conv)]
    /\ queue' = [t \in Tasks |-> [queue[t] EXCEPT !.stalled = @ + Cardinality(
                    {w \in JobsOf(t, ActivePcs) : worker[w].attempt = "fresh"})]]
    /\ hist' = [t \in Tasks |-> [hist[t] EXCEPT !.unrecorded = @ + Cardinality(
                    {w \in JobsOf(t, {"persist"}) : worker[w].ok})]]
    /\ UNCHANGED <<task, conv, outbound>>

\* Every message handled, every task decided, every job done.
Resting ==
    /\ \A t \in Tasks : ~ IsPending(task[t]) /\ queue[t].fresh = 0 /\ queue[t].stalled = 0
    /\ \A o \in Operators : operator[o].pc = "idle"
    /\ \A w \in Workers : worker[w].pc = "idle"
    /\ \A m \in Messages : \/ inbound[m].pc = "done"
                           \/ inbound[m].pc = "create" /\ \A t \in Tasks : task[t].status # "ABSENT"

Rest == Resting /\ UNCHANGED vars

InboundStep(m) == ReadMessage(m) \/ PauseConversation(m) \/ FindTask(m)
                  \/ AppendToTask(m) \/ CreateTask(m) \/ CompleteMessage(m)

Decide(o) == \E t \in Tasks : \/ \E edit \in Texts \cup {None} : ReadForApproval(o, t, edit)
                              \/ ReadForRejection(o, t)

\* The rest of a request once it has been accepted.
Respond(o) == WriteApproval(o) \/ EnqueueApproval(o) \/ WriteRejection(o)

WorkerStep(w) ==
    \/ \E t \in Tasks, attempt \in {"fresh", "stalled"} : StartJob(w, t, attempt)
    \/ CheckDuplicate(w) \/ MarkDuplicateDone(w)
    \/ ExecuteWithoutSending(w) \/ (\E accepted \in BOOLEAN : SendReply(w, accepted))
    \/ PersistReply(w) \/ VerifyReply(w) \/ ResumeConversation(w) \/ SettleTask(w)
    \/ FailTask(w) \/ CatchError(w) \/ CountRetry(w) \/ Requeue(w) \/ CompleteJob(w)

WorkerFault(w) ==
    \/ Throw(w) \/ LoseJob(w) \/ RequeueFails(w)
    \/ \E t \in Tasks, attempt \in {"fresh", "stalled"} : StartFails(w, t, attempt)

Next ==
    \/ \E m \in Messages : InboundStep(m) \/ InboundFails(m)
    \/ \E o \in Operators : Decide(o) \/ Respond(o) \/ RequestFails(o)
    \/ \E w \in Workers : WorkerStep(w) \/ WorkerFault(w)
    \/ \E c \in Conversations, status \in {"SENT", "FAILED"} :
          \E i \in DOMAIN outbound[c] : StatusCallback(c, i, status)
    \/ Crash
    \/ Rest

Spec == Init /\ [][Next]_vars

\* The event loop runs an accepted request and a queued job to their ends.
\* Operators and candidates may do nothing for ever.
FairSpec == /\ Spec
            /\ \A o \in Operators : WF_vars(Respond(o))
            /\ \A w \in Workers : WF_vars(WorkerStep(w))

-----------------------------------------------------------------------------
(* Types.                                                                  *)

OperatorState == [pc : {"idle", "approve", "enqueue", "reject"},
                  task : Tasks \cup {None}, snap : TaskRow, edit : Texts \cup {None}]

WorkerState == [pc : ActivePcs \cup {"idle"}, task : Tasks \cup {None}, snap : TaskRow,
                ok : BOOLEAN, retry : Nat, attempt : {"fresh", "stalled"}]

InboundState == [pc : {"new", "pause", "find", "append", "create", "finish", "done"},
                 conv : Conversations, path : {"paused", "approval", "unsent"},
                 proposal : Proposals \cup {None}, task : Tasks \cup {None}, snap : TaskRow]

History == [approvals : Nat, rejections : Nat, approved : SUBSET Texts, sends : Nat,
            delivered : SUBSET Texts, unrecorded : Nat, overwritten : BOOLEAN]

\* Every variable keeps its type.
TypeOK ==
    /\ task \in [Tasks -> TaskRow]
    /\ conv \in [Conversations -> ConversationStates]
    /\ outbound \in [Conversations -> Seq(OutboundRow)]
    /\ queue \in [Tasks -> [fresh : Nat, stalled : Nat]]
    /\ operator \in [Operators -> OperatorState]
    /\ worker \in [Workers -> WorkerState]
    /\ inbound \in [Messages -> InboundState]
    /\ used \in [faults : Nat, crashes : Nat, callbacks : Nat]
    /\ hist \in [Tasks -> History]

ExecutingPcs == ActivePcs \ {"finish"}

LiveStatuses == {"OPEN", "APPROVED"}

\* A task that can be approved or executed has a pending reply text, in its row
\* and in the snapshots taken of it: no approval and no send lacks a text.
TextAvailable ==
    /\ \A t \in Tasks : task[t].status \in LiveStatuses => task[t].pending \in Texts
    /\ \A o \in Operators : operator[o].pc = "approve" => operator[o].snap.pending \in Texts
    /\ \A w \in Workers : worker[w].pc \in ExecutingPcs => worker[w].snap.pending \in Texts
    /\ \A m \in Messages : inbound[m].pc = "append" => inbound[m].snap.pending \in Texts

-----------------------------------------------------------------------------
(* Safety.                                                                 *)

\* A reply leaves only with a text an operator approved for its task, however
\* often the worker retries or restarts, unless an inbound message overwrote the
\* payload of the task after the approval (approvedTaskWorker, actionExecutor).
SentTextsApproved ==
    \A t \in Tasks : ~ hist[t].overwritten => hist[t].delivered \subseteq hist[t].approved

\* A message has at most one open task, although its job runs again from the
\* start after a crash (idempotency checks of the inbound worker).
OneOpenTaskPerMessage ==
    \A t, u \in Tasks :
        task[t].status = "OPEN" /\ task[u].status = "OPEN" /\ task[t].msg = task[u].msg
            => t = u

\* The jobs that may still send a reply for a task: each is worth one credit.
Credit(t) ==
    LET workers == JobsOf(t, {"guard", "execute", "catch", "countRetry", "requeue"})
                   \cup {w \in JobsOf(t, {"persist"}) : ~ worker[w].ok}
        operators == {o \in Operators : operator[o].task = t /\ operator[o].pc = "enqueue"}
    IN Cardinality(workers) + Cardinality(operators) + queue[t].fresh + queue[t].stalled

\* The workflow implements the gate: every send is paid for by an approval, a
\* failing call or a crash, and carries an approved text.
Gate == INSTANCE OutboundGate WITH
    Width       <- Cardinality(Workers),
    approvals   <- [t \in Tasks |-> hist[t].approvals],
    approved    <- [t \in Tasks |-> hist[t].approved],
    overwritten <- {t \in Tasks : hist[t].overwritten},
    credit      <- [t \in Tasks |-> Credit(t)],
    sends       <- [t \in Tasks |-> hist[t].sends],
    delivered   <- [t \in Tasks |-> hist[t].delivered],
    incidents   <- used.faults + used.crashes

\* The detailed specification implements the abstract one (tasks.ts, the queue,
\* approvedTaskWorker.ts and actionExecutor.ts together).
ImplementsGate == Gate!Spec

\* The handlers check a task only when they read it, so two requests can both
\* decide it; but no more than were in flight together: once a task is decided
\* no further request gets past the checks (approve and reject handlers).
DecisionsBoundedByConcurrency ==
    \A t \in Tasks : hist[t].approvals + hist[t].rejections <= Cardinality(Operators)

Unedited(t) == task[t].sentText = TextToLookUp(task[t])

\* Guard 2 and the FAILED lookup work for an unedited reply: approved once and
\* with no restart, it is sent again only if the record of a send was lost.
RecordedSendNotRepeated ==
    \A t \in Tasks :
        hist[t].approvals <= 1 /\ used.crashes = 0 /\ Unedited(t) /\ ~ hist[t].overwritten
            => hist[t].sends <= 1 + hist[t].unrecorded

\* Nothing in the process is going to touch the task again by itself.
Abandoned(t) ==
    /\ queue[t].fresh = 0 /\ queue[t].stalled = 0
    /\ JobsOf(t, ActivePcs) = {}
    /\ \A o \in Operators : operator[o].task # t

\* An approved task is left unsettled with no job for one of four reasons only:
\* a failing call or a crash, an edited text, an overwritten payload, or an
\* action that does not send (the exits of the worker that leave it APPROVED).
LimboHasCause ==
    \A t \in Tasks : IsApproved(task[t]) /\ Abandoned(t) =>
        \/ used.faults > 0 \/ used.crashes > 0 \/ hist[t].overwritten
        \/ ~ Unedited(t) /\ TextToLookUp(task[t]) # None
        \/ task[t].kind \notin SendingKinds

\* A task settled as DONE after approval has an outbound message recorded under
\* its text, or nothing to look up (Guard 2 and the final check of the worker).
DoneHasRecord ==
    \A t \in Tasks :
        task[t].status = "DONE" /\ task[t].approval = "APPROVED" /\ ~ hist[t].overwritten
            => \/ TextToLookUp(task[t]) = None
               \/ MatchingMessages(task[t], outbound[task[t].conv]) # {}

-----------------------------------------------------------------------------
(* Liveness, under FairSpec.                                               *)

JobsLeft(t) == queue[t].fresh + queue[t].stalled > 0 \/ JobsOf(t, ActivePcs) # {}

\* The jobs of a task come to an end: retries cannot go on for ever, even if
\* Twilio refuses every message and jobs of the same task overwrite each
\* other's retry counts.
JobsDrain == \A t \in Tasks : JobsLeft(t) ~> ~ JobsLeft(t)

JustApproved(t) == \E o \in Operators : operator[o].pc = "enqueue" /\ operator[o].task = t

Resumed(t) == task[t].conv # None /\ conv[task[t].conv] = "ACTIVE"

\* Nothing interfered with the first decision on a task.
Undisturbed(t) ==
    /\ used.faults = 0 /\ used.crashes = 0
    /\ hist[t].approvals + hist[t].rejections <= 1
    /\ ~ hist[t].overwritten /\ Unedited(t)
    /\ \A u \in Tasks \ {t} : task[u].conv # task[t].conv

\* Approving an unedited reply resumes its conversation or fails the task, when
\* nothing interferes (the last steps of approvedTaskWorker).
ApprovalResumes ==
    \A t \in Tasks :
        JustApproved(t) /\ task[t].kind \in SendingKinds /\ Undisturbed(t)
            ~> \/ task[t].status = "FAILED"
               \/ ~ Undisturbed(t)
               \/ Resumed(t)
=============================================================================

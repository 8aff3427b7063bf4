----------------------- MODULE ApprovalWorkflowProofs -----------------------
(***************************************************************************)
(* Proofs about ApprovalWorkflow, for any number of tasks, conversations,  *)
(* messages, texts, operators and workers and any bounds.                  *)
(*                                                                         *)
(* First the types: their invariant is taken apart by variable, so that    *)
(* each action is checked against the parts it changes and nothing else.   *)
(* Then the safety invariants.  Each gets an inductive one, on top of the  *)
(* types and texts, that follows a task through its row, the requests, the *)
(* queue and the snapshots of the jobs.  On these rests the refinement, in *)
(* the last section: ApprovalWorkflow implements OutboundGate, for every   *)
(* step of the handlers, of the jobs and of what can go wrong is a step of *)
(* the gate, or changes nothing it can see.                                *)
(***************************************************************************)
EXTENDS ApprovalWorkflow, FiniteSetTheorems, TLAPS

TaskInv == /\ task \in [Tasks -> TaskRow]
           /\ \A t \in Tasks : task[t].status \in LiveStatuses => task[t].pending \in Texts

OperatorInv ==
    /\ operator \in [Operators -> OperatorState]
    /\ \A o \in Operators : operator[o].pc = "approve" => operator[o].snap.pending \in Texts

WorkerInv ==
    /\ worker \in [Workers -> WorkerState]
    /\ \A w \in Workers : worker[w].pc \in ExecutingPcs => worker[w].snap.pending \in Texts

InboundInv ==
    /\ inbound \in [Messages -> InboundState]
    /\ \A m \in Messages : inbound[m].pc = "append" => inbound[m].snap.pending \in Texts

RestInv == /\ conv \in [Conversations -> ConversationStates]
           /\ outbound \in [Conversations -> Seq(OutboundRow)]
           /\ queue \in [Tasks -> [fresh : Nat, stalled : Nat]]
           /\ used \in [faults : Nat, crashes : Nat, callbacks : Nat]
           /\ hist \in [Tasks -> History]

TypeInv == TaskInv /\ OperatorInv /\ WorkerInv /\ InboundInv /\ RestInv

LEMMA TypeInvParts == TypeInv <=> TypeOK /\ TextAvailable
BY DEF TypeInv, TaskInv, OperatorInv, WorkerInv, InboundInv, RestInv, TypeOK, TextAvailable

-----------------------------------------------------------------------------
(* Records and single updates.                                             *)

LEMMA InitialRecords ==
    /\ NoRow \in TaskRow
    /\ IdleOperator \in OperatorState
    /\ IdleWorker \in WorkerState
    /\ NoHistory \in History
    /\ \A c \in Conversations : NewMessage(c) \in InboundState
BY DEF NoRow, TaskRow, TaskStatuses, ApprovalStatuses, Kinds, IdleOperator, OperatorState,
       IdleWorker, WorkerState, ActivePcs, NoHistory, History, NewMessage, InboundState

LEMMA TaskUpdate ==
    ASSUME TaskInv, NEW t, NEW row,
           t \in Tasks => row \in TaskRow /\ (row.status \in LiveStatuses => row.pending \in Texts),
           task' = [task EXCEPT ![t] = row]
    PROVE  TaskInv'
BY DEF TaskInv

LEMMA OperatorUpdate ==
    ASSUME OperatorInv, NEW o \in Operators, NEW op \in OperatorState,
           op.pc = "approve" => op.snap.pending \in Texts,
           operator' = [operator EXCEPT ![o] = op]
    PROVE  OperatorInv'
BY DEF OperatorInv

LEMMA WorkerUpdate ==
    ASSUME WorkerInv, NEW w \in Workers, NEW job \in WorkerState,
           job.pc \in ExecutingPcs => job.snap.pending \in Texts,
           worker' = [worker EXCEPT ![w] = job]
    PROVE  WorkerInv'
BY DEF WorkerInv

LEMMA InboundUpdate ==
    ASSUME InboundInv, NEW m \in Messages, NEW in \in InboundState,
           in.pc = "append" => in.snap.pending \in Texts,
           inbound' = [inbound EXCEPT ![m] = in]
    PROVE  InboundInv'
BY DEF InboundInv

LEMMA WorkerGotoInv ==
    ASSUME WorkerInv, NEW w \in Workers, NEW pc \in ExecutingPcs,
           worker[w].pc \in ExecutingPcs, WorkerGoto(w, pc)
    PROVE  WorkerInv'
BY DEF WorkerInv, WorkerGoto, WorkerState, ExecutingPcs

LEMMA FinishInv ==
    ASSUME WorkerInv, NEW w \in Workers, Finish(w)
    PROVE  WorkerInv'
<1> DEFINE job == [IdleWorker EXCEPT !.pc = "finish", !.task = worker[w].task,
                                     !.attempt = worker[w].attempt]
<1>1. job \in WorkerState /\ job.pc \notin ExecutingPcs
  BY InitialRecords DEF WorkerInv, WorkerState, IdleWorker, ExecutingPcs, ActivePcs
<1>2. QED
  BY <1>1, WorkerUpdate DEF Finish

LEMMA InboundGotoInv ==
    ASSUME InboundInv, NEW m \in Messages, NEW pc \in {"pause", "find", "create", "done"},
           InboundGoto(m, pc)
    PROVE  InboundInv'
BY DEF InboundInv, InboundGoto, InboundState

LEMMA InboundResetInv ==
    ASSUME InboundInv, NEW m \in Messages,
           InboundDone(m) \/ inbound' = [inbound EXCEPT ![m] = NewMessage(@.conv)]
    PROVE  InboundInv'
<1> DEFINE new == NewMessage(inbound[m].conv)
           done == [new EXCEPT !.pc = "finish"]
<1>1. new \in InboundState /\ done \in InboundState
      /\ new.pc # "append" /\ done.pc # "append"
  BY InitialRecords DEF InboundInv, InboundState, NewMessage
<1>2. CASE InboundDone(m)
  BY <1>1, <1>2, InboundUpdate DEF InboundDone
<1>3. CASE inbound' = [inbound EXCEPT ![m] = NewMessage(@.conv)]
  BY <1>1, <1>3, InboundUpdate
<1>4. QED
  BY <1>2, <1>3

LEMMA QueueUpdate ==
    ASSUME RestInv, NEW t \in Tasks, NEW attempt \in {"fresh", "stalled"}, NEW n \in Nat,
           queue' = [queue EXCEPT ![t][attempt] = n]
    PROVE  queue' \in [Tasks -> [fresh : Nat, stalled : Nat]]
<1> DEFINE jobs == [queue[t] EXCEPT ![attempt] = n]
<1>1. queue \in [Tasks -> [fresh : Nat, stalled : Nat]]
  BY DEF RestInv
<1>2. jobs \in [fresh : Nat, stalled : Nat]
  BY <1>1
<1>3. queue' = [queue EXCEPT ![t] = jobs]
  BY <1>1
<1>4. QED
  BY <1>1, <1>2, <1>3

LEMMA EnqueueInv ==
    ASSUME RestInv, NEW t, NEW attempt \in {"fresh", "stalled"}, Enqueue(t, attempt)
    PROVE  queue' \in [Tasks -> [fresh : Nat, stalled : Nat]]
<1>1. queue \in [Tasks -> [fresh : Nat, stalled : Nat]]
  BY DEF RestInv
<1>2. CASE t \in Tasks
  <2> DEFINE n == queue[t][attempt] + 1
  <2>1. n \in Nat
    BY <1>1, <1>2
  <2>2. queue' = [queue EXCEPT ![t][attempt] = n]
    BY DEF Enqueue
  <2>3. QED
    BY <1>2, <2>1, <2>2, QueueUpdate
<1>3. CASE t \notin Tasks
  <2>1. queue' = queue
    BY <1>1, <1>3 DEF Enqueue
  <2>2. QED
    BY <1>1, <2>1
<1>4. QED
  BY <1>2, <1>3

LEMMA HistoryUpdate ==
    ASSUME RestInv, NEW t, NEW h, t \in Tasks => h \in History, hist' = [hist EXCEPT ![t] = h]
    PROVE  hist' \in [Tasks -> History]
BY DEF RestInv

LEMMA FaultInv ==
    ASSUME RestInv, Fault
    PROVE  used' \in [faults : Nat, crashes : Nat, callbacks : Nat]
<1>1. used \in [faults : Nat, crashes : Nat, callbacks : Nat]
  BY DEF RestInv
<1>2. used' = [used EXCEPT !.faults = @ + 1]
  BY DEF Fault
<1>3. QED
  BY <1>1, <1>2

-----------------------------------------------------------------------------
(* The type invariant, actor by actor.                                     *)

LEMMA InitTypeInv == Init => TypeInv
<1> SUFFICES ASSUME Init PROVE TypeInv
  OBVIOUS
<1>1. RestInv
  BY InitialRecords DEF Init, RestInv, ConversationStates
<1>2. TaskInv /\ OperatorInv /\ WorkerInv /\ InboundInv
  BY InitialRecords DEF Init, TaskInv, OperatorInv, WorkerInv, InboundInv, NoRow, LiveStatuses,
                        IdleOperator, IdleWorker, NewMessage, ExecutingPcs, ActivePcs
<1>3. QED
  BY <1>1, <1>2 DEF TypeInv

LEMMA InboundTypeInv ==
    ASSUME TypeInv, NEW m \in Messages, InboundStep(m) \/ InboundFails(m)
    PROVE  TypeInv'
<1> DEFINE in == inbound[m]
<1>0. in \in InboundState /\ TaskInv /\ InboundInv /\ RestInv
  BY DEF TypeInv, InboundInv
<1>1. CASE ReadMessage(m)
  <2>1. ASSUME InboundGoto(m, "find") PROVE InboundInv'
    BY <1>0, <2>1, InboundGotoInv
  <2>2. ASSUME NEW path \in {"approval", "unsent"}, NEW p \in Proposals \cup {None},
               inbound' = [inbound EXCEPT ![m] =
                              [@ EXCEPT !.pc = "pause", !.path = path, !.proposal = p]]
        PROVE  InboundInv'
    <3> DEFINE new == [in EXCEPT !.pc = "pause", !.path = path, !.proposal = p]
    <3>1. new \in InboundState /\ new.pc # "append"
      BY <1>0 DEF InboundState
    <3>2. QED
      BY <1>0, <2>2, <3>1, InboundUpdate
  <2>3. InboundInv'
    BY <1>1, <2>1, <2>2 DEF ReadMessage
  <2>4. QED
    BY <1>1, <2>3 DEF ReadMessage, TypeInv, TaskInv, OperatorInv, WorkerInv, RestInv
<1>2. CASE PauseConversation(m)
  <2>1. conv' \in [Conversations -> ConversationStates]
    <3>1. conv \in [Conversations -> ConversationStates]
      BY <1>0 DEF RestInv
    <3>2. QED
      BY <1>2, <3>1 DEF PauseConversation, ConversationStates
  <2>2. InboundInv'
    BY <1>0, <1>2, InboundGotoInv DEF PauseConversation
  <2>3. QED
    BY <1>2, <2>1, <2>2 DEF PauseConversation, TypeInv, TaskInv, OperatorInv, WorkerInv, RestInv
<1>3. CASE FindTask(m)
  <2>1. ASSUME InboundDone(m) PROVE InboundInv'
    BY <1>0, <2>1, InboundResetInv
  <2>2. ASSUME InboundGoto(m, "create") PROVE InboundInv'
    BY <1>0, <2>2, InboundGotoInv
  <2>3. ASSUME NEW t \in PendingTasksIn(in.conv),
               inbound' = [inbound EXCEPT ![m] =
                              [@ EXCEPT !.pc = "append", !.task = t, !.snap = task[t]]]
        PROVE  InboundInv'
    <3> DEFINE new == [in EXCEPT !.pc = "append", !.task = t, !.snap = task[t]]
    <3>1. t \in Tasks /\ task[t] \in TaskRow /\ task[t].pending \in Texts
      BY <1>0 DEF PendingTasksIn, IsPending, TaskInv, LiveStatuses
    <3>2. new \in InboundState /\ new.snap.pending \in Texts
      BY <1>0, <3>1 DEF InboundState
    <3>3. QED
      BY <1>0, <2>3, <3>2, InboundUpdate
  <2>4. InboundInv'
    BY <1>3, <2>1, <2>2, <2>3 DEF FindTask
  <2>5. QED
    BY <1>3, <2>4 DEF FindTask, TypeInv, TaskInv, OperatorInv, WorkerInv, RestInv
<1>4. CASE AppendToTask(m)
  <2> DEFINE t == in.task
             withPayload == [task[t] EXCEPT
                !.sentText = in.snap.sentText,
                !.pending  = IF in.path = "approval" /\ HasText(in.proposal)
                             THEN in.proposal.text ELSE in.snap.pending]
             action == IF in.proposal # None THEN in.proposal ELSE in.snap
             row == IF in.path = "approval"
                    THEN [withPayload EXCEPT !.kind = action.kind, !.text = action.text]
                    ELSE withPayload
  <2>1. in.snap \in TaskRow /\ in.snap.pending \in Texts
    BY <1>0, <1>4 DEF AppendToTask, InboundInv, InboundState
  <2>2. in.proposal # None => /\ in.proposal.kind \in Kinds
                              /\ in.proposal.text \in Texts \cup {None}
    BY <1>0, ProposalsAssumption DEF InboundState
  <2>3. action.kind \in Kinds /\ action.text \in Texts \cup {None}
    BY <2>1, <2>2 DEF TaskRow
  <2>4. ASSUME t \in Tasks
        PROVE  row \in TaskRow /\ row.pending \in Texts
    <3>1. task[t] \in TaskRow
      BY <1>0, <2>4 DEF TaskInv
    <3> DEFINE pending == IF in.path = "approval" /\ HasText(in.proposal)
                          THEN in.proposal.text ELSE in.snap.pending
    <3>2. pending \in Texts
      BY <2>1, <2>2 DEF HasText
    <3>3. in.snap.sentText \in Texts \cup {None}
      BY <2>1 DEF TaskRow
    <3>4. withPayload \in TaskRow /\ withPayload.pending \in Texts
      <4> HIDE DEF pending
      <4>1. withPayload = [task[t] EXCEPT !.sentText = in.snap.sentText, !.pending = pending]
        BY DEF pending
      <4>2. QED
        BY <3>1, <3>2, <3>3, <4>1 DEF TaskRow
    <3> HIDE DEF withPayload, action
    <3>5. QED
      BY <2>3, <3>4 DEF TaskRow
  <2>5. task' = [task EXCEPT ![t] = row]
    BY <1>4 DEF AppendToTask
  <2>6. TaskInv'
    <3> HIDE DEF row, t
    <3>1. QED
      BY <1>0, <2>4, <2>5, TaskUpdate
  <2>7. hist' \in [Tasks -> History]
    <3> DEFINE h == [hist[t] EXCEPT !.overwritten = @ \/ hist[t].approvals > 0]
    <3>1. hist' = [hist EXCEPT ![t] = h]
      BY <1>4 DEF AppendToTask
    <3>2. t \in Tasks => h \in History
      BY <1>0 DEF RestInv, History
    <3> HIDE DEF h, t
    <3>3. QED
      BY <1>0, <3>1, <3>2, HistoryUpdate
  <2>8. InboundInv'
    BY <1>0, <1>4, InboundResetInv DEF AppendToTask
  <2>9. QED
    BY <1>4, <2>6, <2>7, <2>8 DEF AppendToTask, TypeInv, OperatorInv, WorkerInv, RestInv
<1>5. CASE CreateTask(m)
  <2>1. PICK t \in Tasks, x \in Texts :
            task' = [task EXCEPT ![t] =
                [NoRow EXCEPT !.status = "OPEN", !.approval = "PENDING",
                              !.conv = in.conv, !.msg = m,
                              !.since = Len(outbound[in.conv]),
                              !.kind = "SEND_MESSAGE", !.text = x, !.pending = x]]
    BY <1>5 DEF CreateTask
  <2> DEFINE row == [NoRow EXCEPT !.status = "OPEN", !.approval = "PENDING",
                                  !.conv = in.conv, !.msg = m,
                                  !.since = Len(outbound[in.conv]),
                                  !.kind = "SEND_MESSAGE", !.text = x, !.pending = x]
  <2>2. in.conv \in Conversations /\ Len(outbound[in.conv]) \in Nat
    BY <1>0 DEF InboundState, RestInv
  <2>3. row \in TaskRow /\ row.pending \in Texts
    BY <2>2 DEF NoRow, TaskRow, TaskStatuses, ApprovalStatuses, Kinds
  <2>4. TaskInv'
    <3> HIDE DEF row
    <3>1. QED
      BY <1>0, <2>1, <2>3, TaskUpdate DEF row
  <2>5. InboundInv'
    BY <1>0, <1>5, InboundResetInv DEF CreateTask
  <2>6. QED
    BY <1>5, <2>4, <2>5 DEF CreateTask, TypeInv, OperatorInv, WorkerInv, RestInv
<1>6. CASE InboundFails(m)
  <2>1. ASSUME RestartMessage(m) PROVE InboundInv'
    BY <1>0, <2>1, InboundResetInv DEF RestartMessage
  <2>2. ASSUME FallBackToApproval(m) PROVE InboundInv'
    <3> DEFINE new(p) == [in EXCEPT !.pc = "pause", !.path = "approval", !.proposal = p]
    <3>1. PICK p \in Proposals \cup {None} : inbound' = [inbound EXCEPT ![m] = new(p)]
      BY <2>2 DEF FallBackToApproval
    <3>2. new(p) \in InboundState /\ new(p).pc = "pause"
      BY <1>0, <3>1 DEF InboundState
    <3> HIDE DEF new
    <3>3. QED
      BY <1>0, <3>1, <3>2 DEF InboundInv
  <2>3. Fault /\ UNCHANGED <<task, conv, outbound, queue, operator, worker, hist>>
    BY <1>6 DEF InboundFails, RestartMessage, FallBackToApproval
  <2>4. used' \in [faults : Nat, crashes : Nat, callbacks : Nat]
    BY <1>0, <2>3, FaultInv
  <2>5. QED
    BY <1>6, <2>1, <2>2, <2>3, <2>4 DEF InboundFails, TypeInv, TaskInv, OperatorInv, WorkerInv, RestInv
<1>7. CASE CompleteMessage(m)
  <2>1. InboundInv'
    BY <1>0, <1>7, InboundGotoInv DEF CompleteMessage
  <2>2. QED
    BY <1>7, <2>1 DEF CompleteMessage, TypeInv, TaskInv, OperatorInv, WorkerInv, RestInv
<1>8. QED
  BY <1>1, <1>2, <1>3, <1>4, <1>5, <1>6, <1>7 DEF InboundStep

\* The text an operator approves is a text, never null.
LEMMA ApprovedTextIsText ==
    ASSUME NEW row \in TaskRow, row.pending \in Texts, NEW edit \in Texts \cup {None}
    PROVE  ApprovedText(row, edit) \in Texts
BY DEF ApprovedText, ProposedText, TaskRow

LEMMA OperatorTypeInv ==
    ASSUME TypeInv, NEW o \in Operators, Decide(o) \/ Respond(o) \/ RequestFails(o)
    PROVE  TypeInv'
<1> DEFINE op == operator[o]
           t  == op.task
<1>0. op \in OperatorState /\ TaskInv /\ OperatorInv /\ RestInv
  BY DEF TypeInv, OperatorInv
<1>1. ASSUME NEW u \in Tasks, NEW edit \in Texts \cup {None}, ReadForApproval(o, u, edit)
      PROVE  TypeInv'
  <2> DEFINE new == [pc |-> "approve", task |-> u, snap |-> task[u], edit |-> edit]
  <2>1. task[u] \in TaskRow /\ task[u].pending \in Texts
    BY <1>0, <1>1 DEF ReadForApproval, IsPending, TaskInv, LiveStatuses
  <2>2. new \in OperatorState /\ new.snap.pending \in Texts
    BY <2>1 DEF OperatorState
  <2>3. OperatorInv'
    BY <1>0, <1>1, <2>2, OperatorUpdate DEF ReadForApproval
  <2>4. QED
    BY <1>1, <2>3 DEF ReadForApproval, TypeInv, TaskInv, WorkerInv, InboundInv, RestInv
<1>2. CASE WriteApproval(o)
  <2> DEFINE x   == ApprovedText(op.snap, op.edit)
             row == [task[t] EXCEPT !.status = "APPROVED", !.approval = "APPROVED",
                                    !.sentText = x, !.pending = op.snap.pending]
             h   == [hist[t] EXCEPT !.approvals = @ + 1, !.approved = @ \cup {x}]
             new == [IdleOperator EXCEPT !.pc = "enqueue", !.task = t]
  <2>1. op.snap \in TaskRow /\ op.snap.pending \in Texts /\ x \in Texts
    <3>1. op.snap \in TaskRow /\ op.snap.pending \in Texts /\ op.edit \in Texts \cup {None}
      BY <1>0, <1>2 DEF WriteApproval, OperatorInv, OperatorState
    <3>2. QED
      BY <3>1, ApprovedTextIsText
  <2>2. ASSUME t \in Tasks PROVE row \in TaskRow /\ row.pending \in Texts
    <3>1. task[t] \in TaskRow
      BY <1>0, <2>2 DEF TaskInv
    <3>2. QED
      BY <2>1, <3>1 DEF TaskRow, TaskStatuses, ApprovalStatuses
  <2>3. task' = [task EXCEPT ![t] = row]
    BY <1>2 DEF WriteApproval
  <2>4. TaskInv'
    <3> HIDE DEF row, t
    <3>1. QED
      BY <1>0, <2>2, <2>3, TaskUpdate
  <2>5. hist' = [hist EXCEPT ![t] = h]
    BY <1>2 DEF WriteApproval
  <2>6. t \in Tasks => h \in History
    <3> SUFFICES ASSUME t \in Tasks PROVE h \in History
      OBVIOUS
    <3>1. hist[t] \in History
      BY <1>0 DEF RestInv
    <3> HIDE DEF x, t
    <3>2. hist[t].approved \cup {x} \in SUBSET Texts /\ hist[t].approvals + 1 \in Nat
      BY <2>1, <3>1 DEF History
    <3>3. QED
      BY <3>1, <3>2 DEF History
  <2>7. hist' \in [Tasks -> History]
    <3> HIDE DEF h, t
    <3>1. QED
      BY <1>0, <2>5, <2>6, HistoryUpdate
  <2>8. OperatorInv'
    <3>1. new \in OperatorState /\ new.pc = "enqueue"
      BY <1>0, InitialRecords DEF IdleOperator, OperatorState
    <3>2. operator' = [operator EXCEPT ![o] = new]
      BY <1>2 DEF WriteApproval
    <3>3. QED
      BY <1>0, <3>1, <3>2, OperatorUpdate
  <2>9. QED
    BY <1>2, <2>4, <2>7, <2>8 DEF WriteApproval, TypeInv, WorkerInv, InboundInv, RestInv
<1>3. ASSUME operator' = [operator EXCEPT ![o] = IdleOperator] PROVE OperatorInv'
  BY <1>0, <1>3, InitialRecords, OperatorUpdate DEF IdleOperator
<1>4. CASE EnqueueApproval(o)
  <2>1. queue' \in [Tasks -> [fresh : Nat, stalled : Nat]]
    BY <1>0, <1>4, EnqueueInv DEF EnqueueApproval
  <2>2. OperatorInv'
    BY <1>3, <1>4 DEF EnqueueApproval
  <2>3. QED
    BY <1>4, <2>1, <2>2 DEF EnqueueApproval, TypeInv, TaskInv, WorkerInv, InboundInv, RestInv
<1>5. ASSUME NEW u \in Tasks, ReadForRejection(o, u)
      PROVE  TypeInv'
  <2> DEFINE new == [pc |-> "reject", task |-> u, snap |-> task[u], edit |-> None]
  <2>1. new \in OperatorState /\ new.pc = "reject"
    BY <1>0 DEF TaskInv, OperatorState
  <2>2. OperatorInv'
    BY <1>0, <1>5, <2>1, OperatorUpdate DEF ReadForRejection
  <2>3. QED
    BY <1>5, <2>2 DEF ReadForRejection, TypeInv, TaskInv, WorkerInv, InboundInv, RestInv
<1>6. CASE WriteRejection(o)
  <2> DEFINE row == [task[t] EXCEPT !.status = "DONE", !.approval = "REJECTED"]
             h   == [hist[t] EXCEPT !.rejections = @ + 1]
  <2>1. ASSUME t \in Tasks PROVE row \in TaskRow /\ row.status = "DONE"
    <3>1. task[t] \in TaskRow
      BY <1>0, <2>1 DEF TaskInv
    <3>2. QED
      BY <3>1 DEF TaskRow, TaskStatuses, ApprovalStatuses
  <2>2. TaskInv'
    <3>1. task' = [task EXCEPT ![t] = row]
      BY <1>6 DEF WriteRejection
    <3> HIDE DEF row, t
    <3>2. QED
      BY <1>0, <2>1, <3>1, TaskUpdate DEF LiveStatuses
  <2>3. OperatorInv'
    BY <1>3, <1>6 DEF WriteRejection
  <2>4. hist' \in [Tasks -> History]
    <3>1. t \in Tasks => h \in History
      <4>1. hist \in [Tasks -> History]
        BY <1>0 DEF RestInv
      <4>2. QED
        BY <4>1 DEF History
    <3>2. hist' = [hist EXCEPT ![t] = h]
      BY <1>6 DEF WriteRejection
    <3> HIDE DEF h, t
    <3>3. QED
      BY <1>0, <3>1, <3>2, HistoryUpdate
  <2>5. QED
    BY <1>6, <2>2, <2>3, <2>4 DEF WriteRejection, TypeInv, WorkerInv, InboundInv, RestInv
<1>7. CASE RequestFails(o)
  <2>1. OperatorInv'
    BY <1>3, <1>7 DEF RequestFails
  <2>2. used' \in [faults : Nat, crashes : Nat, callbacks : Nat]
    BY <1>0, <1>7, FaultInv DEF RequestFails
  <2>3. QED
    BY <1>7, <2>1, <2>2 DEF RequestFails, TypeInv, TaskInv, WorkerInv, InboundInv, RestInv
<1>8. QED
  BY <1>1, <1>2, <1>4, <1>5, <1>6, <1>7 DEF Decide, Respond

\* A task row whose status and retry count change keeps its type; a live status
\* needs a live row.
LEMMA SettleInv ==
    ASSUME TaskInv, NEW t, NEW status \in {"DONE", "FAILED"}, NEW n \in Nat,
           \/ task' = [task EXCEPT ![t].status = status]
           \/ task' = [task EXCEPT ![t] = [@ EXCEPT !.status = status, !.retry = n]]
    PROVE  TaskInv'
<1> DEFINE done   == [task[t] EXCEPT !.status = status]
           failed == [task[t] EXCEPT !.status = status, !.retry = n]
<1>1. ASSUME t \in Tasks
      PROVE  /\ done \in TaskRow /\ done.status \notin LiveStatuses
             /\ failed \in TaskRow /\ failed.status \notin LiveStatuses
  <2>1. task[t] \in TaskRow
    BY <1>1 DEF TaskInv
  <2>2. QED
    BY <2>1 DEF TaskRow, TaskStatuses, LiveStatuses
<1>2. task' = [task EXCEPT ![t] = done] \/ task' = [task EXCEPT ![t] = failed]
  OBVIOUS
<1> HIDE DEF done, failed
<1>3. QED
  BY <1>1, <1>2, TaskUpdate

\* What the job of a worker looks like, and the parts its steps work on.
LEMMA StartJobTypeInv ==
    ASSUME TypeInv, NEW w \in Workers, NEW t \in Tasks, NEW attempt \in {"fresh", "stalled"},
           StartJob(w, t, attempt)
    PROVE  TypeInv'
<1> DEFINE approved == IsApproved(task[t])
           pc == CASE ~ approved                                     -> "finish"
                   [] approved /\ TextToLookUp(task[t]) # None       -> "guard"
                   [] OTHER                                          -> "execute"
           job == [IdleWorker EXCEPT !.pc = pc, !.task = t, !.attempt = attempt,
                                     !.snap = IF approved THEN task[t] ELSE NoRow]
<1>1. TaskInv /\ WorkerInv /\ RestInv
  BY DEF TypeInv
<1>2. worker' = [worker EXCEPT ![w] = job]
  BY DEF StartJob
<1>3. task[t] \in TaskRow /\ (approved => task[t].pending \in Texts)
  BY <1>1 DEF TaskInv, IsApproved, LiveStatuses
<1>4. pc \in {"finish", "guard", "execute"} /\ (~ approved => pc = "finish")
  OBVIOUS
<1>5. job \in WorkerState /\ (job.pc \in ExecutingPcs => job.snap.pending \in Texts)
  <2> HIDE DEF pc, approved
  <2>1. QED
    BY <1>3, <1>4, InitialRecords DEF IdleWorker, WorkerState, ActivePcs, ExecutingPcs
<1>6. WorkerInv'
  <2> HIDE DEF job
  <2>1. QED
    BY <1>1, <1>2, <1>5, WorkerUpdate
<1>7. queue' \in [Tasks -> [fresh : Nat, stalled : Nat]]
  <2> DEFINE n == queue[t][attempt] - 1
  <2>1. queue \in [Tasks -> [fresh : Nat, stalled : Nat]]
    BY <1>1 DEF RestInv
  <2>2. n \in Nat /\ queue' = [queue EXCEPT ![t][attempt] = n]
    BY <2>1 DEF StartJob
  <2>3. QED
    BY <1>1, <2>2, QueueUpdate
<1>8. QED
  BY <1>6, <1>7 DEF StartJob, TypeInv, TaskInv, OperatorInv, InboundInv, RestInv

\* The steps of a worker on its job, up to the settling of the task.
LEMMA WorkerTypeInv ==
    ASSUME TypeInv, NEW w \in Workers, WorkerStep(w)
    PROVE  TypeInv'
<1> DEFINE job  == worker[w]
           snap == job.snap
           t    == job.task
<1>0. job \in WorkerState /\ snap \in TaskRow /\ TaskInv /\ WorkerInv /\ RestInv
  BY DEF TypeInv, WorkerInv, WorkerState
<1> DEFINE Untouched == UNCHANGED <<task, conv, outbound, queue, operator, inbound, used, hist>>
<1>a. ASSUME Untouched, WorkerInv' PROVE TypeInv'
  BY <1>a DEF TypeInv, TaskInv, OperatorInv, InboundInv, RestInv
<1>1. CASE \E u \in Tasks, attempt \in {"fresh", "stalled"} : StartJob(w, u, attempt)
  BY <1>1, StartJobTypeInv
<1>2. CASE CheckDuplicate(w)
  <2>1. WorkerInv'
    BY <1>0, <1>2, WorkerGotoInv DEF CheckDuplicate, ExecutingPcs, ActivePcs
  <2>2. QED
    BY <1>2, <1>a, <2>1 DEF CheckDuplicate
<1>3. CASE MarkDuplicateDone(w) \/ SettleTask(w)
  <2>1. SetStatus(t, "DONE") /\ Finish(w)
    BY <1>3 DEF MarkDuplicateDone, SettleTask
  <2>2. TaskInv' /\ WorkerInv'
    BY <1>0, <2>1, SettleInv, FinishInv DEF SetStatus
  <2>3. QED
    BY <1>3, <2>2 DEF MarkDuplicateDone, SettleTask, TypeInv, OperatorInv, InboundInv, RestInv
<1>4. CASE ExecuteWithoutSending(w)
  <2>1. WorkerInv'
    BY <1>0, <1>4, WorkerGotoInv, FinishInv DEF ExecuteWithoutSending, ExecutingPcs, ActivePcs
  <2>2. QED
    BY <1>4, <1>a, <2>1 DEF ExecuteWithoutSending
<1>5. CASE \E accepted \in BOOLEAN : SendReply(w, accepted)
  <2>1. PICK accepted \in BOOLEAN : SendReply(w, accepted)
    BY <1>5
  <2> DEFINE x   == TextToSend(snap)
             new == [job EXCEPT !.pc = "persist", !.ok = accepted]
             h   == [hist[t] EXCEPT !.sends = @ + 1, !.delivered = @ \cup {x}]
  <2>2. snap.pending \in Texts
    BY <1>0, <2>1 DEF SendReply, WorkerInv, ExecutingPcs, ActivePcs
  <2>3. x \in Texts
    BY <1>0, <2>2 DEF TextToSend, ProposedText, TaskRow
  <2>4. WorkerInv'
    <3>1. worker' = [worker EXCEPT ![w] = new]
      BY <2>1 DEF SendReply
    <3>2. new \in WorkerState /\ new.snap.pending \in Texts
      BY <1>0, <2>2 DEF WorkerState, ActivePcs
    <3> HIDE DEF new
    <3>3. QED
      BY <1>0, <3>1, <3>2, WorkerUpdate
  <2>5. hist' \in [Tasks -> History]
    <3>1. hist' = [hist EXCEPT ![t] = h] \/ hist' = hist
      BY <2>1 DEF SendReply
    <3>2. ASSUME t \in Tasks PROVE h \in History
      <4>1. hist[t] \in History
        BY <1>0, <3>2 DEF RestInv
      <4> HIDE DEF x, t
      <4>2. hist[t].delivered \cup {x} \in SUBSET Texts /\ hist[t].sends + 1 \in Nat
        BY <2>3, <4>1 DEF History
      <4>3. QED
        BY <4>1, <4>2 DEF History
    <3>3. hist \in [Tasks -> History]
      BY <1>0 DEF RestInv
    <3> HIDE DEF h, t
    <3>4. QED
      BY <1>0, <3>1, <3>2, <3>3, HistoryUpdate
  <2>6. QED
    BY <2>1, <2>4, <2>5 DEF SendReply, TypeInv, TaskInv, OperatorInv, InboundInv, RestInv
<1>6. CASE PersistReply(w)
  <2> DEFINE x   == TextToSend(snap)
             row == [text |-> x, hasSid |-> job.ok,
                     status |-> IF job.ok THEN "SENT" ELSE "FAILED"]
             c   == snap.conv
  <2>1. snap.pending \in Texts
    BY <1>0, <1>6 DEF PersistReply, WorkerInv, ExecutingPcs, ActivePcs
  <2>2. x \in Texts
    BY <1>0, <2>1 DEF TextToSend, ProposedText, TaskRow
  <2>3. row \in OutboundRow
    <3> HIDE DEF x
    <3>1. QED
      BY <1>0, <2>2 DEF OutboundRow, WorkerState
  <2>4. outbound' \in [Conversations -> Seq(OutboundRow)]
    <3>1. outbound \in [Conversations -> Seq(OutboundRow)]
      BY <1>0 DEF RestInv
    <3>2. outbound' = [outbound EXCEPT ![c] = Append(outbound[c], row)]
      BY <1>6 DEF PersistReply
    <3> HIDE DEF row, c
    <3>3. c \in Conversations => Append(outbound[c], row) \in Seq(OutboundRow)
      BY <2>3, <3>1
    <3>4. QED
      BY <3>1, <3>2, <3>3
  <2>5. WorkerInv'
    BY <1>0, <1>6, WorkerGotoInv DEF PersistReply, ExecutingPcs, ActivePcs
  <2>6. QED
    BY <1>6, <2>4, <2>5 DEF PersistReply, TypeInv, TaskInv, OperatorInv, InboundInv, RestInv
<1>7. CASE VerifyReply(w)
  <2> DEFINE new == [job EXCEPT !.pc = "markFailed", !.retry = snap.retry]
  <2>1. job.pc = "verify"
    BY <1>7 DEF VerifyReply
  <2>2. \/ WorkerGoto(w, "settle") \/ WorkerGoto(w, "resume") \/ Finish(w)
        \/ worker' = [worker EXCEPT ![w] = new]
    BY <1>7 DEF VerifyReply
  <2>3. snap.pending \in Texts
    BY <1>0, <2>1 DEF WorkerInv, ExecutingPcs, ActivePcs
  <2>4. new \in WorkerState /\ new.snap.pending \in Texts
    BY <1>0, <2>3 DEF WorkerState, TaskRow, ActivePcs
  <2>5. WorkerInv'
    <3> HIDE DEF new
    <3>1. QED
      BY <1>0, <2>1, <2>2, <2>4, WorkerUpdate, WorkerGotoInv, FinishInv
         DEF ExecutingPcs, ActivePcs
  <2>6. QED
    BY <1>7, <1>a, <2>5 DEF VerifyReply
<1>8. CASE ResumeConversation(w)
  <2>1. conv' \in [Conversations -> ConversationStates]
    <3>1. conv \in [Conversations -> ConversationStates]
      BY <1>0 DEF RestInv
    <3>2. conv' = [conv EXCEPT ![snap.conv] = "ACTIVE"]
      BY <1>8 DEF ResumeConversation
    <3>3. QED
      BY <3>1, <3>2 DEF ConversationStates
  <2>2. WorkerInv'
    BY <1>0, <1>8, WorkerGotoInv DEF ResumeConversation, ExecutingPcs, ActivePcs
  <2>3. QED
    BY <1>8, <2>1, <2>2 DEF ResumeConversation, TypeInv, TaskInv, OperatorInv, InboundInv, RestInv
<1>9. CASE FailTask(w)
  <2>1. TaskInv'
    <3>1. job.retry \in Nat
      BY <1>0 DEF WorkerState
    <3>2. task' = [task EXCEPT ![t] = [@ EXCEPT !.status = "FAILED", !.retry = job.retry]]
      BY <1>9 DEF FailTask
    <3>3. QED
      BY <1>0, <3>1, <3>2, SettleInv
  <2>2. WorkerInv'
    BY <1>0, <1>9, FinishInv DEF FailTask
  <2>3. QED
    BY <1>9, <2>1, <2>2 DEF FailTask, TypeInv, OperatorInv, InboundInv, RestInv
<1>10. CASE CatchError(w)
  <2>1. \E n \in {snap.retry, snap.retry + 1}, pc \in {"giveUp", "countRetry"} :
            worker' = [worker EXCEPT ![w] = [@ EXCEPT !.retry = n, !.pc = pc]]
    <3> DEFINE log    == outbound[snap.conv]
               failed == {i \in MatchingMessages(snap, log) : log[i].status = "FAILED"}
               final  == TextToLookUp(snap) # None /\ failed # {}
               count  == IF final THEN snap.retry ELSE snap.retry + 1
               next   == IF final \/ count > MaxRetries THEN "giveUp" ELSE "countRetry"
    <3>1. worker' = [worker EXCEPT ![w] = [@ EXCEPT !.retry = count, !.pc = next]]
      BY <1>10 DEF CatchError
    <3>2. count \in {snap.retry, snap.retry + 1} /\ next \in {"giveUp", "countRetry"}
      OBVIOUS
    <3>3. QED
      BY <3>1, <3>2
  <2> PICK n \in {snap.retry, snap.retry + 1}, pc \in {"giveUp", "countRetry"} :
            worker' = [worker EXCEPT ![w] = [@ EXCEPT !.retry = n, !.pc = pc]]
    BY <2>1
  <2> DEFINE new == [job EXCEPT !.retry = n, !.pc = pc]
  <2>2. n \in Nat /\ pc \in ActivePcs
    <3>1. snap.retry \in Nat
      BY <1>0 DEF TaskRow
    <3>2. QED
      BY <3>1 DEF ActivePcs
  <2>3. snap.pending \in Texts
    BY <1>0, <1>10 DEF CatchError, WorkerInv, ExecutingPcs, ActivePcs
  <2>4. new \in WorkerState /\ new.snap.pending \in Texts
    BY <1>0, <2>2, <2>3 DEF WorkerState
  <2>5. WorkerInv'
    <3> HIDE DEF new
    <3>1. QED
      BY <1>0, <2>4, WorkerUpdate DEF new
  <2>6. QED
    BY <1>10, <1>a, <2>5 DEF CatchError
<1>11. CASE CountRetry(w)
  <2> DEFINE row == [task[t] EXCEPT !.retry = job.retry]
  <2>1. ASSUME t \in Tasks
        PROVE  row \in TaskRow /\ (row.status \in LiveStatuses => row.pending \in Texts)
    <3>1. task[t] \in TaskRow /\ (task[t].status \in LiveStatuses => task[t].pending \in Texts)
      BY <1>0, <2>1 DEF TaskInv
    <3>2. QED
      BY <1>0, <3>1 DEF TaskRow, WorkerState
  <2>2. TaskInv'
    <3>1. task' = [task EXCEPT ![t] = row]
      BY <1>11 DEF CountRetry
    <3> HIDE DEF row, t
    <3>2. QED
      BY <1>0, <2>1, <3>1, TaskUpdate
  <2>3. WorkerInv'
    BY <1>0, <1>11, WorkerGotoInv DEF CountRetry, ExecutingPcs, ActivePcs
  <2>4. QED
    BY <1>11, <2>2, <2>3 DEF CountRetry, TypeInv, OperatorInv, InboundInv, RestInv
<1>12. CASE Requeue(w)
  <2>1. queue' \in [Tasks -> [fresh : Nat, stalled : Nat]]
    BY <1>0, <1>12, EnqueueInv DEF Requeue
  <2>2. WorkerInv'
    BY <1>0, <1>12, FinishInv DEF Requeue
  <2>3. QED
    BY <1>12, <2>1, <2>2 DEF Requeue, TypeInv, TaskInv, OperatorInv, InboundInv, RestInv
<1>13. CASE CompleteJob(w)
  <2>1. WorkerInv'
    BY <1>0, <1>13, InitialRecords, WorkerUpdate
       DEF CompleteJob, IdleWorker, ExecutingPcs, ActivePcs
  <2>2. QED
    BY <1>13, <1>a, <2>1 DEF CompleteJob
<1>14. QED
  BY <1>1, <1>2, <1>3, <1>4, <1>5, <1>6, <1>7, <1>8, <1>9, <1>10, <1>11, <1>12, <1>13
     DEF WorkerStep

LEMMA WorkerFaultTypeInv ==
    ASSUME TypeInv, NEW w \in Workers, WorkerFault(w)
    PROVE  TypeInv'
<1> DEFINE job == worker[w]
           t   == job.task
<1>0. job \in WorkerState /\ TaskInv /\ WorkerInv /\ RestInv
  BY DEF TypeInv, WorkerInv
<1>1. ASSUME Fault PROVE used' \in [faults : Nat, crashes : Nat, callbacks : Nat]
  BY <1>0, <1>1, FaultInv
<1>2. CASE Throw(w)
  <2>1. hist' \in [Tasks -> History]
    <3> DEFINE h == [hist[t] EXCEPT !.unrecorded = @ + 1]
    <3>1. hist' = [hist EXCEPT ![t] = h] \/ hist' = hist
      BY <1>2 DEF Throw
    <3>2. hist \in [Tasks -> History]
      BY <1>0 DEF RestInv
    <3>3. t \in Tasks => h \in History
      BY <3>2 DEF History
    <3> HIDE DEF h, t
    <3>4. QED
      BY <1>0, <3>1, <3>2, <3>3, HistoryUpdate
  <2>2. WorkerInv'
    BY <1>0, <1>2, WorkerGotoInv DEF Throw, ExecutingPcs, ActivePcs
  <2>3. used' \in [faults : Nat, crashes : Nat, callbacks : Nat]
    BY <1>1, <1>2 DEF Throw
  <2>4. QED
    BY <1>2, <2>1, <2>2, <2>3 DEF Throw, TypeInv, TaskInv, OperatorInv, InboundInv, RestInv
<1>3. CASE LoseJob(w) \/ RequeueFails(w)
  <2>1. WorkerInv'
    BY <1>0, <1>3, WorkerGotoInv, FinishInv DEF LoseJob, RequeueFails, ExecutingPcs, ActivePcs
  <2>2. used' \in [faults : Nat, crashes : Nat, callbacks : Nat]
    BY <1>1, <1>3 DEF LoseJob, RequeueFails
  <2>3. QED
    BY <1>3, <2>1, <2>2
       DEF LoseJob, RequeueFails, TypeInv, TaskInv, OperatorInv, InboundInv, RestInv
<1>4. CASE \E u \in Tasks, attempt \in {"fresh", "stalled"} : StartFails(w, u, attempt)
  <2>1. PICK u \in Tasks, attempt \in {"fresh", "stalled"} : StartFails(w, u, attempt)
    BY <1>4
  <2> DEFINE n == queue[u][attempt] - 1
  <2>2. queue \in [Tasks -> [fresh : Nat, stalled : Nat]]
    BY <1>0 DEF RestInv
  <2>3. n \in Nat /\ queue' = [queue EXCEPT ![u][attempt] = n]
    BY <2>1, <2>2 DEF StartFails
  <2>4. queue' \in [Tasks -> [fresh : Nat, stalled : Nat]]
    BY <1>0, <2>3, QueueUpdate
  <2>5. used' \in [faults : Nat, crashes : Nat, callbacks : Nat]
    BY <1>1, <2>1 DEF StartFails
  <2>6. QED
    BY <2>1, <2>4, <2>5
       DEF StartFails, TypeInv, TaskInv, WorkerInv, OperatorInv, InboundInv, RestInv
<1>5. QED
  BY <1>2, <1>3, <1>4 DEF WorkerFault

LEMMA CallbackTypeInv ==
    ASSUME TypeInv, NEW c \in Conversations, NEW i \in DOMAIN outbound[c],
           NEW status \in {"SENT", "FAILED"}, StatusCallback(c, i, status)
    PROVE  TypeInv'
<1> DEFINE log == outbound[c]
           row == [log[i] EXCEPT !.status = status]
           new == [log EXCEPT ![i] = row]
<1>1. outbound \in [Conversations -> Seq(OutboundRow)] /\ log \in Seq(OutboundRow)
      /\ used \in [faults : Nat, crashes : Nat, callbacks : Nat]
  BY DEF TypeInv, RestInv
<1>2. row \in OutboundRow
  <2>1. log[i] \in OutboundRow
    BY <1>1
  <2>2. QED
    BY <2>1 DEF OutboundRow
<1>3. new \in Seq(OutboundRow)
  <2> HIDE DEF row
  <2>1. QED
    BY <1>1, <1>2
<1>4. outbound' = [outbound EXCEPT ![c] = new]
  BY DEF StatusCallback
<1>5. outbound' \in [Conversations -> Seq(OutboundRow)]
  <2> HIDE DEF new
  <2>1. QED
    BY <1>1, <1>3, <1>4
<1>6. used' \in [faults : Nat, crashes : Nat, callbacks : Nat]
  <2>1. used' = [used EXCEPT !.callbacks = @ + 1]
    BY DEF StatusCallback
  <2>2. QED
    BY <1>1, <2>1
<1>7. QED
  BY <1>5, <1>6
     DEF StatusCallback, TypeInv, RestInv, TaskInv, OperatorInv, WorkerInv, InboundInv

\* A crash counts the jobs it interrupts: there are finitely many.
LEMMA CrashTypeInv ==
    ASSUME TypeInv, Crash
    PROVE  TypeInv'
<1>1. \A S \in SUBSET Workers : Cardinality(S) \in Nat
  BY ProcessesAssumption, FS_Subset, FS_CardinalityType
<1>2. queue' \in [Tasks -> [fresh : Nat, stalled : Nat]]
  <2> SUFFICES ASSUME NEW t \in Tasks PROVE queue'[t] \in [fresh : Nat, stalled : Nat]
    BY DEF Crash
  <2> DEFINE n == Cardinality({w \in JobsOf(t, ActivePcs) : worker[w].attempt = "fresh"})
  <2>1. n \in Nat
    BY <1>1 DEF JobsOf
  <2>2. queue[t] \in [fresh : Nat, stalled : Nat]
    BY DEF TypeInv, RestInv
  <2>3. queue'[t] = [queue[t] EXCEPT !.stalled = @ + n]
    BY DEF Crash
  <2> HIDE DEF n
  <2>4. QED
    BY <2>1, <2>2, <2>3
<1>3. hist' \in [Tasks -> History]
  <2> SUFFICES ASSUME NEW t \in Tasks PROVE hist'[t] \in History
    BY DEF Crash
  <2> DEFINE n == Cardinality({w \in JobsOf(t, {"persist"}) : worker[w].ok})
  <2>1. n \in Nat
    BY <1>1 DEF JobsOf
  <2>2. hist[t] \in History
    BY DEF TypeInv, RestInv
  <2>3. hist'[t] = [hist[t] EXCEPT !.unrecorded = @ + n]
    BY DEF Crash
  <2> HIDE DEF n
  <2>4. QED
    BY <2>1, <2>2, <2>3 DEF History
<1>4. OperatorInv' /\ WorkerInv'
  BY InitialRecords DEF Crash, OperatorInv, WorkerInv, IdleOperator, IdleWorker, ExecutingPcs,
                        ActivePcs
<1>5. InboundInv'
  <2>1. \A m \in Messages : inbound[m] \in InboundState
    BY DEF TypeInv, InboundInv
  <2>2. \A m \in Messages : NewMessage(inbound[m].conv) \in InboundState
    BY <2>1, InitialRecords DEF InboundState
  <2>3. \A m \in Messages : inbound'[m] \in InboundState /\ inbound'[m].pc # "append"
    BY <2>1, <2>2 DEF Crash, NewMessage
  <2>4. QED
    BY <2>3 DEF Crash, InboundInv
<1>6. used' \in [faults : Nat, crashes : Nat, callbacks : Nat]
  <2>1. used \in [faults : Nat, crashes : Nat, callbacks : Nat]
    BY DEF TypeInv, RestInv
  <2>2. used' = [used EXCEPT !.crashes = @ + 1]
    BY DEF Crash
  <2>3. QED
    BY <2>1, <2>2
<1>7. QED
  BY <1>2, <1>3, <1>4, <1>5, <1>6 DEF Crash, TypeInv, TaskInv, RestInv

LEMMA NextTypeInv == TypeInv /\ [Next]_vars => TypeInv'
<1> SUFFICES ASSUME TypeInv, [Next]_vars PROVE TypeInv'
  OBVIOUS
<1>1. CASE \E m \in Messages : InboundStep(m) \/ InboundFails(m)
  BY <1>1, InboundTypeInv
<1>2. CASE \E o \in Operators : Decide(o) \/ Respond(o) \/ RequestFails(o)
  BY <1>2, OperatorTypeInv
<1>3. CASE \E w \in Workers : WorkerStep(w) \/ WorkerFault(w)
  BY <1>3, WorkerTypeInv, WorkerFaultTypeInv
<1>4. CASE \E c \in Conversations, status \in {"SENT", "FAILED"} :
              \E i \in DOMAIN outbound[c] : StatusCallback(c, i, status)
  BY <1>4, CallbackTypeInv
<1>5. CASE Crash
  BY <1>5, CrashTypeInv
<1>6. CASE UNCHANGED vars
  BY <1>6 DEF vars, TypeInv, TaskInv, OperatorInv, WorkerInv, InboundInv, RestInv
<1>7. QED
  BY <1>1, <1>2, <1>3, <1>4, <1>5, <1>6 DEF Next, Rest

LEMMA TypeInvariant == Spec => []TypeInv
BY InitTypeInv, NextTypeInv, PTL DEF Spec

\* Every reachable state is well typed, and every task that can be approved or
\* sent has a text: for any bounds and any number of processes.
THEOREM TypeCorrect == Spec => []TypeOK /\ []TextAvailable
<1>1. TypeInv => TypeOK /\ TextAvailable
  BY TypeInvParts
<1>2. QED
  BY <1>1, TypeInvariant, PTL

-----------------------------------------------------------------------------
(* Only approved texts leave.  SentTextsApproved is not inductive: a text  *)
(* is approved in the row, then read into a snapshot, then sent from the   *)
(* snapshot.  TextInv follows it along.                                    *)

TextInv ==
    \A t \in Tasks :
      /\ task[t].approval = "APPROVED" => hist[t].approvals > 0
      /\ ~ hist[t].overwritten =>
        /\ hist[t].delivered \subseteq hist[t].approved
        /\ task[t].approval = "APPROVED" => task[t].sentText \in hist[t].approved
        /\ \A w \in Workers : worker[w].task = t /\ worker[w].pc \in ExecutingPcs
                                  => worker[w].snap.sentText \in hist[t].approved

\* Most steps approve no task, take up no job, and change no text.
TasksKept ==
    \A t \in Tasks : task'[t].approval = "APPROVED"
        => task[t].approval = "APPROVED" /\ task'[t].sentText = task[t].sentText

WorkersKept ==
    \A w \in Workers : worker'[w].pc \in ExecutingPcs
        => /\ worker[w].pc \in ExecutingPcs
           /\ worker'[w].task = worker[w].task /\ worker'[w].snap = worker[w].snap

HistoryKept ==
    \A t \in Tasks : /\ hist'[t].overwritten = hist[t].overwritten
                     /\ hist'[t].approvals = hist[t].approvals
                     /\ hist'[t].approved = hist[t].approved
                     /\ hist'[t].delivered = hist[t].delivered

LEMMA TextKept ==
    ASSUME TextInv, TasksKept, WorkersKept, HistoryKept
    PROVE  TextInv'
BY DEF TextInv, TasksKept, WorkersKept, HistoryKept

LEMMA Unchanged ==
    /\ UNCHANGED task => TasksKept
    /\ UNCHANGED worker => WorkersKept
    /\ UNCHANGED hist => HistoryKept
BY DEF TasksKept, WorkersKept, HistoryKept

LEMMA GotoKeepsWorkers ==
    ASSUME WorkerInv, NEW w \in Workers, NEW pc, worker[w].pc \in ExecutingPcs, WorkerGoto(w, pc)
    PROVE  WorkersKept
BY DEF WorkerGoto, WorkersKept, WorkerInv, WorkerState

LEMMA FinishKeepsWorkers ==
    ASSUME WorkerInv, NEW w \in Workers, Finish(w)
    PROVE  WorkersKept
BY DEF Finish, WorkersKept, WorkerInv, WorkerState, IdleWorker, ExecutingPcs, ActivePcs

LEMMA InboundTextInv ==
    ASSUME TypeInv, TextInv, NEW m \in Messages, InboundStep(m) \/ InboundFails(m)
    PROVE  TextInv'
<1>1. CASE \/ ReadMessage(m) \/ PauseConversation(m) \/ FindTask(m)
           \/ CompleteMessage(m) \/ InboundFails(m)
  BY <1>1, TextKept, Unchanged
     DEF ReadMessage, PauseConversation, FindTask, CompleteMessage, InboundFails,
         RestartMessage, FallBackToApproval
<1>2. CASE AppendToTask(m)
  <2> DEFINE t == inbound[m].task
  <2>1. /\ task \in [Tasks -> TaskRow] /\ hist \in [Tasks -> History]
        /\ UNCHANGED worker
    BY <1>2 DEF AppendToTask, TypeInv, TaskInv, RestInv
  <2>2. \A u \in Tasks \ {t} : task'[u] = task[u] /\ hist'[u] = hist[u]
    BY <1>2, <2>1 DEF AppendToTask
  <2>3. ASSUME t \in Tasks
        PROVE  /\ task'[t].approval = task[t].approval
               /\ hist'[t] = [hist[t] EXCEPT !.overwritten = @ \/ hist[t].approvals > 0]
    <3>1. task[t] \in TaskRow /\ hist[t] \in History
      BY <2>1, <2>3
    <3>2. QED
      BY <1>2, <2>1, <2>3, <3>1 DEF AppendToTask, TaskRow
  <2>4. ASSUME t \in Tasks
        PROVE  /\ hist'[t].delivered = hist[t].delivered
               /\ hist'[t].approved = hist[t].approved
               /\ hist'[t].approvals = hist[t].approvals
               /\ hist'[t].overwritten = (hist[t].overwritten \/ hist[t].approvals > 0)
    <3>1. hist[t] \in History
      BY <2>1, <2>4
    <3> HIDE DEF t
    <3>2. QED
      BY <2>3, <2>4, <3>1 DEF History
  <2>5. QED
    <3> HIDE DEF t
    <3>1. ASSUME NEW u \in Tasks
          PROVE  task'[u].approval = "APPROVED" => hist'[u].approvals > 0
      BY <2>1, <2>2, <2>3, <2>4, <3>1 DEF TextInv
    <3>2. ASSUME NEW u \in Tasks, ~ hist'[u].overwritten
          PROVE  /\ ~ hist[u].overwritten
                 /\ task'[u].approval # "APPROVED" \/ task'[u] = task[u]
                 /\ hist'[u].delivered = hist[u].delivered
                 /\ hist'[u].approved = hist[u].approved
      BY <2>1, <2>2, <2>3, <2>4, <3>2 DEF TextInv
    <3>3. QED
      BY <2>1, <3>1, <3>2 DEF TextInv
<1>3. CASE CreateTask(m)
  <2>1. TasksKept
    BY <1>3 DEF CreateTask, TasksKept, TypeInv, TaskInv, NoRow
  <2>2. QED
    BY <1>3, <2>1, TextKept, Unchanged DEF CreateTask
<1>4. QED
  BY <1>1, <1>2, <1>3 DEF InboundStep

LEMMA OperatorTextInv ==
    ASSUME TypeInv, TextInv, NEW o \in Operators, Decide(o) \/ Respond(o) \/ RequestFails(o)
    PROVE  TextInv'
<1>1. CASE Decide(o) \/ EnqueueApproval(o) \/ RequestFails(o)
  BY <1>1, TextKept, Unchanged
     DEF Decide, ReadForApproval, ReadForRejection, EnqueueApproval, RequestFails
<1>2. CASE WriteApproval(o)
  <2> DEFINE op == operator[o]
             t  == op.task
             x  == ApprovedText(op.snap, op.edit)
  <2>1. /\ task \in [Tasks -> TaskRow] /\ hist \in [Tasks -> History]
        /\ UNCHANGED worker
    BY <1>2 DEF WriteApproval, TypeInv, TaskInv, RestInv
  <2>2. \A u \in Tasks \ {t} : task'[u] = task[u] /\ hist'[u] = hist[u]
    BY <1>2, <2>1 DEF WriteApproval
  <2>3. ASSUME t \in Tasks
        PROVE  /\ task'[t].sentText = x
               /\ hist'[t].approvals > 0
               /\ hist'[t].approved = hist[t].approved \cup {x}
               /\ hist'[t].delivered = hist[t].delivered
               /\ hist'[t].overwritten = hist[t].overwritten
    <3>1. task[t] \in TaskRow /\ hist[t] \in History
      BY <2>1, <2>3
    <3>2. /\ task'[t] = [task[t] EXCEPT !.status = "APPROVED", !.approval = "APPROVED",
                                        !.sentText = x, !.pending = op.snap.pending]
          /\ hist'[t] = [hist[t] EXCEPT !.approvals = @ + 1, !.approved = @ \cup {x}]
      BY <1>2, <2>1, <2>3 DEF WriteApproval
    <3> HIDE DEF x, t
    <3>3. QED
      BY <3>1, <3>2 DEF TaskRow, History
  <2>4. QED
    <3> HIDE DEF t, x
    <3>1. QED
      BY <2>1, <2>2, <2>3 DEF TextInv
<1>3. CASE WriteRejection(o)
  <2>1. TasksKept
    <3> DEFINE t == operator[o].task
    <3>1. task \in [Tasks -> TaskRow]
      BY DEF TypeInv, TaskInv
    <3>2. \A u \in Tasks \ {t} : task'[u] = task[u]
      BY <1>3, <3>1 DEF WriteRejection
    <3>3. t \in Tasks => task'[t].approval = "REJECTED"
      BY <1>3, <3>1 DEF WriteRejection, TaskRow
    <3>4. QED
      BY <3>2, <3>3 DEF TasksKept
  <2>2. HistoryKept
    BY <1>3 DEF WriteRejection, HistoryKept, TypeInv, RestInv, History
  <2>3. QED
    BY <1>3, <2>1, <2>2, TextKept, Unchanged DEF WriteRejection
<1>4. QED
  BY <1>1, <1>2, <1>3 DEF Respond

\* Settling a task and counting a retry leave its approval and texts alone.
LEMMA WorkerTasksKept ==
    ASSUME TypeInv, NEW w \in Workers,
           MarkDuplicateDone(w) \/ SettleTask(w) \/ FailTask(w) \/ CountRetry(w)
    PROVE  TasksKept
<1> DEFINE t == worker[w].task
<1>1. task \in [Tasks -> TaskRow]
  BY DEF TypeInv, TaskInv
<1>2. \A u \in Tasks \ {t} : task'[u] = task[u]
  BY <1>1 DEF MarkDuplicateDone, SettleTask, FailTask, CountRetry, SetStatus
<1>3. t \in Tasks => task'[t].approval = task[t].approval /\ task'[t].sentText = task[t].sentText
  <2> SUFFICES ASSUME t \in Tasks
               PROVE  /\ task'[t].approval = task[t].approval
                      /\ task'[t].sentText = task[t].sentText
    OBVIOUS
  <2>1. task[t] \in TaskRow
    BY <1>1
  <2>2. \/ task'[t] = [task[t] EXCEPT !.status = "DONE"]
        \/ task'[t] = [task[t] EXCEPT !.status = "FAILED", !.retry = worker[w].retry]
        \/ task'[t] = [task[t] EXCEPT !.retry = worker[w].retry]
    BY <1>1 DEF MarkDuplicateDone, SettleTask, FailTask, CountRetry, SetStatus
  <2>3. QED
    BY <2>1, <2>2 DEF TaskRow
<1>4. QED
  BY <1>2, <1>3 DEF TasksKept

\* The text of an approved task goes from its row into the snapshot of the job.
LEMMA StartJobTextInv ==
    ASSUME TypeInv, TextInv, NEW w \in Workers, NEW t \in Tasks,
           NEW attempt \in {"fresh", "stalled"}, StartJob(w, t, attempt)
    PROVE  TextInv'
<1>1. worker \in [Workers -> WorkerState] /\ UNCHANGED <<task, hist>>
  BY DEF StartJob, TypeInv, WorkerInv
<1>2. \A v \in Workers \ {w} : worker'[v] = worker[v]
  BY <1>1 DEF StartJob
<1>3. CASE IsApproved(task[t])
  <2>1. worker'[w].task = t /\ worker'[w].snap = task[t]
    BY <1>1, <1>3 DEF StartJob, IdleWorker
  <2>2. task[t].approval = "APPROVED"
    BY <1>3 DEF IsApproved
  <2>3. QED
    BY <1>1, <1>2, <2>1, <2>2 DEF TextInv
<1>4. CASE ~ IsApproved(task[t])
  <2>1. worker'[w].pc = "finish"
    BY <1>1, <1>4 DEF StartJob, IdleWorker
  <2>2. QED
    BY <1>1, <1>2, <2>1 DEF TextInv, ExecutingPcs
<1>5. QED
  BY <1>3, <1>4

\* An approved text is not null, so the executor prefers it to the proposal.
LEMMA SendReplyTextInv ==
    ASSUME TypeInv, TextInv, NEW w \in Workers, NEW accepted \in BOOLEAN, SendReply(w, accepted)
    PROVE  TextInv'
<1> DEFINE job == worker[w]
           t   == job.task
           x   == TextToSend(job.snap)
<1>1. /\ worker \in [Workers -> WorkerState] /\ hist \in [Tasks -> History]
      /\ job.pc \in ExecutingPcs
  BY DEF SendReply, TypeInv, WorkerInv, RestInv, ExecutingPcs, ActivePcs
<1>2. WorkersKept /\ TasksKept
  BY <1>1, Unchanged DEF SendReply, WorkersKept, WorkerState
<1>3. ASSUME t \in Tasks, ~ hist[t].overwritten PROVE x \in hist[t].approved
  <2>1. job.snap.sentText \in hist[t].approved
    BY <1>1, <1>3 DEF TextInv
  <2>2. hist[t].approved \subseteq Texts
    BY <1>1, <1>3 DEF History
  <2>3. job.snap.sentText # None
    BY <2>1, <2>2, NoneAssumption
  <2>4. QED
    BY <2>1, <2>3 DEF TextToSend
<1>4. \A u \in Tasks \ {t} : hist'[u] = hist[u]
  BY <1>1 DEF SendReply
<1>5. ASSUME t \in Tasks
      PROVE  /\ hist'[t].approved = hist[t].approved
             /\ hist'[t].approvals = hist[t].approvals
             /\ hist'[t].overwritten = hist[t].overwritten
             /\ hist'[t].delivered \subseteq hist[t].delivered \cup {x}
  <2>1. hist[t] \in History
    BY <1>1, <1>5
  <2>2. \/ hist'[t] = [hist[t] EXCEPT !.sends = @ + 1, !.delivered = @ \cup {x}]
        \/ hist'[t] = hist[t]
    BY <1>1, <1>5 DEF SendReply
  <2> HIDE DEF x, t
  <2>3. QED
    BY <2>1, <2>2 DEF History
<1>6. QED
  <2> HIDE DEF t, x
  <2>1. QED
    BY <1>2, <1>3, <1>4, <1>5 DEF TextInv, TasksKept, WorkersKept

LEMMA WorkerTextInv ==
    ASSUME TypeInv, TextInv, NEW w \in Workers, WorkerStep(w) \/ WorkerFault(w)
    PROVE  TextInv'
<1>0. WorkerInv
  BY DEF TypeInv
<1>1. CASE \E t \in Tasks, attempt \in {"fresh", "stalled"} : StartJob(w, t, attempt)
  BY <1>1, StartJobTextInv
<1>2. CASE \E accepted \in BOOLEAN : SendReply(w, accepted)
  BY <1>2, SendReplyTextInv
<1>3. CASE MarkDuplicateDone(w) \/ SettleTask(w) \/ FailTask(w) \/ CountRetry(w)
  <2>1. TasksKept
    BY <1>3, WorkerTasksKept
  <2>2. WorkersKept
    BY <1>0, <1>3, GotoKeepsWorkers, FinishKeepsWorkers
       DEF MarkDuplicateDone, SettleTask, FailTask, CountRetry, ExecutingPcs, ActivePcs
  <2>3. HistoryKept
    BY <1>3, Unchanged DEF MarkDuplicateDone, SettleTask, FailTask, CountRetry
  <2>4. QED
    BY <2>1, <2>2, <2>3, TextKept
<1>4. CASE \/ CheckDuplicate(w) \/ ExecuteWithoutSending(w) \/ PersistReply(w)
           \/ ResumeConversation(w) \/ Requeue(w) \/ LoseJob(w) \/ RequeueFails(w)
  <2>1. WorkersKept
    BY <1>0, <1>4, GotoKeepsWorkers, FinishKeepsWorkers
       DEF CheckDuplicate, ExecuteWithoutSending, PersistReply, ResumeConversation, Requeue,
           LoseJob, RequeueFails, ExecutingPcs, ActivePcs
  <2>2. TasksKept /\ HistoryKept
    BY <1>4, Unchanged
       DEF CheckDuplicate, ExecuteWithoutSending, PersistReply, ResumeConversation, Requeue,
           LoseJob, RequeueFails
  <2>3. QED
    BY <2>1, <2>2, TextKept
<1>5. CASE VerifyReply(w) \/ CatchError(w)
  <2>1. \/ WorkerGoto(w, "settle") \/ WorkerGoto(w, "resume") \/ Finish(w)
        \/ \E n, pc : worker' = [worker EXCEPT ![w] = [@ EXCEPT !.pc = pc, !.retry = n]]
        \/ \E n, pc : worker' = [worker EXCEPT ![w] = [@ EXCEPT !.retry = n, !.pc = pc]]
    <3>1. CASE VerifyReply(w)
      BY <3>1 DEF VerifyReply
    <3>2. CASE CatchError(w)
      BY <3>2 DEF CatchError
    <3>3. QED
      BY <1>5, <3>1, <3>2
  <2>2. worker[w].pc \in ExecutingPcs
    BY <1>5 DEF VerifyReply, CatchError, ExecutingPcs, ActivePcs
  <2>3. ASSUME NEW n, NEW pc,
               \/ worker' = [worker EXCEPT ![w] = [@ EXCEPT !.pc = pc, !.retry = n]]
               \/ worker' = [worker EXCEPT ![w] = [@ EXCEPT !.retry = n, !.pc = pc]]
        PROVE  WorkersKept
    <3>1. worker \in [Workers -> WorkerState]
      BY <1>0 DEF WorkerInv
    <3>2. \A v \in Workers \ {w} : worker'[v] = worker[v]
      BY <2>3, <3>1
    <3>3. worker'[w].task = worker[w].task /\ worker'[w].snap = worker[w].snap
      BY <2>3, <3>1 DEF WorkerState
    <3>4. QED
      BY <2>2, <3>2, <3>3 DEF WorkersKept
  <2>4. WorkersKept
    BY <1>0, <2>1, <2>2, <2>3, GotoKeepsWorkers, FinishKeepsWorkers
  <2>5. QED
    BY <1>5, <2>4, TextKept, Unchanged DEF VerifyReply, CatchError
<1>6. CASE CompleteJob(w)
  <2>1. WorkersKept
    BY <1>0, <1>6 DEF CompleteJob, WorkersKept, WorkerInv, IdleWorker, ExecutingPcs, ActivePcs
  <2>2. QED
    BY <1>6, <2>1, TextKept, Unchanged DEF CompleteJob
<1>7. CASE Throw(w)
  <2>1. WorkersKept
    BY <1>0, <1>7, GotoKeepsWorkers DEF Throw, ExecutingPcs, ActivePcs
  <2>2. HistoryKept
    BY <1>7 DEF Throw, HistoryKept, TypeInv, RestInv, History
  <2>3. QED
    BY <1>7, <2>1, <2>2, TextKept, Unchanged DEF Throw
<1>8. CASE \E t \in Tasks, attempt \in {"fresh", "stalled"} : StartFails(w, t, attempt)
  BY <1>8, TextKept, Unchanged DEF StartFails
<1>9. QED
  BY <1>1, <1>2, <1>3, <1>4, <1>5, <1>6, <1>7, <1>8 DEF WorkerStep, WorkerFault

LEMMA NextTextInv == TypeInv /\ TextInv /\ [Next]_vars => TextInv'
<1> SUFFICES ASSUME TypeInv, TextInv, [Next]_vars PROVE TextInv'
  OBVIOUS
<1>1. CASE \E m \in Messages : InboundStep(m) \/ InboundFails(m)
  BY <1>1, InboundTextInv
<1>2. CASE \E o \in Operators : Decide(o) \/ Respond(o) \/ RequestFails(o)
  BY <1>2, OperatorTextInv
<1>3. CASE \E w \in Workers : WorkerStep(w) \/ WorkerFault(w)
  BY <1>3, WorkerTextInv
<1>4. CASE \E c \in Conversations, status \in {"SENT", "FAILED"} :
              \E i \in DOMAIN outbound[c] : StatusCallback(c, i, status)
  BY <1>4, TextKept, Unchanged DEF StatusCallback
<1>5. CASE Crash
  <2>1. WorkersKept
    BY <1>5 DEF Crash, WorkersKept, IdleWorker, ExecutingPcs, ActivePcs
  <2>2. HistoryKept
    <3>1. hist \in [Tasks -> History]
      BY DEF TypeInv, RestInv
    <3>2. \A t \in Tasks : hist'[t] = [hist[t] EXCEPT !.unrecorded = @ + Cardinality(
                    {w \in JobsOf(t, {"persist"}) : worker[w].ok})]
      BY <1>5 DEF Crash
    <3>3. QED
      BY <3>1, <3>2 DEF HistoryKept, History
  <2>3. QED
    BY <1>5, <2>1, <2>2, TextKept, Unchanged DEF Crash
<1>6. CASE UNCHANGED vars
  BY <1>6, TextKept, Unchanged DEF vars
<1>7. QED
  BY <1>1, <1>2, <1>3, <1>4, <1>5, <1>6 DEF Next, Rest

\* Whatever is sent for a task was approved for it, as long as no inbound message
\* overwrote the task after the approval: however many operators, jobs, retries,
\* failing calls and crashes.
THEOREM TextSafety == Spec => []SentTextsApproved
<1>1. Init => TextInv
  BY DEF Init, TextInv, NoHistory, NoRow, IdleWorker, ExecutingPcs, ActivePcs
<1>2. TextInv => SentTextsApproved
  BY DEF TextInv, SentTextsApproved
<1>3. QED
  BY <1>1, <1>2, TypeInvariant, NextTextInv, PTL DEF Spec

-----------------------------------------------------------------------------
(* What the steps do to the rows, the requests and the jobs.               *)

\* Whoever is at work is at work on a task.
AssignedInv ==
    /\ \A o \in Operators : operator[o].pc # "idle" => operator[o].task \in Tasks
    /\ \A w \in Workers : worker[w].pc # "idle" => worker[w].task \in Tasks
    /\ \A m \in Messages : inbound[m].pc = "append" => inbound[m].task \in Tasks

Base == TypeInv /\ AssignedInv

LEMMA BaseTypes ==
    ASSUME Base
    PROVE  /\ task \in [Tasks -> TaskRow] /\ hist \in [Tasks -> History]
           /\ operator \in [Operators -> OperatorState] /\ worker \in [Workers -> WorkerState]
           /\ inbound \in [Messages -> InboundState]
           /\ outbound \in [Conversations -> Seq(OutboundRow)]
           /\ queue \in [Tasks -> [fresh : Nat, stalled : Nat]]
           /\ used \in [faults : Nat, crashes : Nat, callbacks : Nat]
BY DEF Base, TypeInv, TaskInv, OperatorInv, WorkerInv, InboundInv, RestInv

LEMMA AppendEffect ==
    ASSUME Base, NEW m \in Messages, AppendToTask(m)
    PROVE  /\ inbound[m].task \in Tasks
           /\ \A u \in Tasks \ {inbound[m].task} : task'[u] = task[u] /\ hist'[u] = hist[u]
           /\ \A u \in Tasks :
                /\ task'[u].status = task[u].status /\ task'[u].approval = task[u].approval
                /\ task'[u].conv = task[u].conv /\ task'[u].msg = task[u].msg
                /\ task'[u].since = task[u].since
                /\ hist'[u].approvals = hist[u].approvals
                /\ hist'[u].rejections = hist[u].rejections
                /\ hist'[u].sends = hist[u].sends /\ hist'[u].unrecorded = hist[u].unrecorded
                /\ hist'[u].approved = hist[u].approved /\ hist'[u].delivered = hist[u].delivered
           /\ hist'[inbound[m].task].overwritten =
                (hist[inbound[m].task].overwritten \/ hist[inbound[m].task].approvals > 0)
           /\ UNCHANGED <<operator, worker, outbound, queue, used>>
<1> DEFINE in == inbound[m]
           t  == in.task
<1>1. t \in Tasks
  BY DEF AppendToTask, Base, AssignedInv
<1>2. task[t] \in TaskRow /\ hist[t] \in History
  BY <1>1, BaseTypes
<1>3. PICK sentText, pending, kind, text :
          task' = [task EXCEPT ![t] = [task[t] EXCEPT !.sentText = sentText, !.pending = pending,
                                                      !.kind = kind, !.text = text]]
  <2> DEFINE sentText == in.snap.sentText
             pending  == IF in.path = "approval" /\ HasText(in.proposal)
                         THEN in.proposal.text ELSE in.snap.pending
             withPayload == [task[t] EXCEPT !.sentText = sentText, !.pending = pending]
             action == IF in.proposal # None THEN in.proposal ELSE in.snap
  <2>1. task' = [task EXCEPT ![t] = IF in.path = "approval"
                  THEN [withPayload EXCEPT !.kind = action.kind, !.text = action.text]
                  ELSE withPayload]
    BY DEF AppendToTask
  <2> HIDE DEF sentText, pending, action, t
  <2>2. [withPayload EXCEPT !.kind = action.kind, !.text = action.text]
          = [task[t] EXCEPT !.sentText = sentText, !.pending = pending,
                            !.kind = action.kind, !.text = action.text]
    BY <1>2 DEF TaskRow
  <2>3. withPayload = [task[t] EXCEPT !.sentText = sentText, !.pending = pending,
                                      !.kind = task[t].kind, !.text = task[t].text]
    BY <1>2 DEF TaskRow
  <2> HIDE DEF withPayload
  <2>4. CASE in.path = "approval"
    <3>1. task' = [task EXCEPT ![t] = [task[t] EXCEPT !.sentText = sentText, !.pending = pending,
                                                  !.kind = action.kind, !.text = action.text]]
      BY <2>1, <2>2, <2>4
    <3>2. QED
      BY <3>1
  <2>5. CASE in.path # "approval"
    <3>1. task' = [task EXCEPT ![t] = [task[t] EXCEPT !.sentText = sentText, !.pending = pending,
                                                  !.kind = task[t].kind, !.text = task[t].text]]
      BY <2>1, <2>3, <2>5
    <3>2. QED
      BY <3>1
  <2>6. QED
    BY <2>4, <2>5
<1>4. hist' = [hist EXCEPT ![t] = [hist[t] EXCEPT !.overwritten = @ \/ hist[t].approvals > 0]]
  BY <1>1, BaseTypes DEF AppendToTask
<1>5. UNCHANGED <<operator, worker, outbound, queue, used>>
  BY DEF AppendToTask
<1> HIDE DEF t
<1>6. \A u \in Tasks \ {t} : task'[u] = task[u] /\ hist'[u] = hist[u]
  BY <1>3, <1>4, BaseTypes
<1>7. /\ task'[t].status = task[t].status /\ task'[t].approval = task[t].approval
      /\ task'[t].conv = task[t].conv /\ task'[t].msg = task[t].msg
      /\ task'[t].since = task[t].since
  BY <1>1, <1>2, <1>3, BaseTypes DEF TaskRow
<1>8. /\ hist'[t].approvals = hist[t].approvals /\ hist'[t].rejections = hist[t].rejections
      /\ hist'[t].sends = hist[t].sends /\ hist'[t].unrecorded = hist[t].unrecorded
      /\ hist'[t].approved = hist[t].approved /\ hist'[t].delivered = hist[t].delivered
      /\ hist'[t].overwritten = (hist[t].overwritten \/ hist[t].approvals > 0)
  BY <1>1, <1>2, <1>4, BaseTypes DEF History
<1>9. QED
  BY <1>1, <1>5, <1>6, <1>7, <1>8 DEF t

LEMMA CreateEffect ==
    ASSUME Base, NEW m \in Messages, CreateTask(m)
    PROVE  /\ \E t \in Tasks :
                /\ task[t].status = "ABSENT"
                /\ task'[t].status = "OPEN" /\ task'[t].approval = "PENDING"
                /\ task'[t].msg = m /\ task'[t].conv = inbound[m].conv
                /\ task'[t].since = Len(outbound[inbound[m].conv])
                /\ \A u \in Tasks \ {t} : task'[u] = task[u]
           /\ inbound[m].conv \in Conversations
           /\ UNCHANGED <<operator, worker, outbound, queue, used, hist>>
<1>1. PICK t \in Tasks, x \in Texts :
            /\ task[t].status = "ABSENT"
            /\ task' = [task EXCEPT ![t] =
                [NoRow EXCEPT !.status = "OPEN", !.approval = "PENDING",
                              !.conv = inbound[m].conv, !.msg = m,
                              !.since = Len(outbound[inbound[m].conv]),
                              !.kind = "SEND_MESSAGE", !.text = x, !.pending = x]]
  BY DEF CreateTask
<1>2. inbound[m].conv \in Conversations
  BY BaseTypes DEF InboundState
<1>3. /\ task'[t].status = "OPEN" /\ task'[t].approval = "PENDING"
      /\ task'[t].msg = m /\ task'[t].conv = inbound[m].conv
      /\ task'[t].since = Len(outbound[inbound[m].conv])
      /\ \A u \in Tasks \ {t} : task'[u] = task[u]
  BY <1>1, BaseTypes DEF NoRow
<1>4. QED
  BY <1>1, <1>2, <1>3 DEF CreateTask

LEMMA ApprovalEffect ==
    ASSUME Base, NEW o \in Operators, WriteApproval(o)
    PROVE  LET t == operator[o].task
               x == ApprovedText(operator[o].snap, operator[o].edit) IN
           /\ t \in Tasks /\ operator[o].pc = "approve" /\ x \in Texts
           /\ \A u \in Tasks \ {t} : task'[u] = task[u] /\ hist'[u] = hist[u]
           /\ task'[t].status = "APPROVED" /\ task'[t].approval = "APPROVED"
           /\ task'[t].conv = task[t].conv /\ task'[t].msg = task[t].msg
           /\ task'[t].since = task[t].since /\ task'[t].kind = task[t].kind
           /\ task'[t].text = task[t].text /\ task'[t].sentText = x
           /\ hist'[t].approvals = hist[t].approvals + 1
           /\ hist'[t].rejections = hist[t].rejections
           /\ hist'[t].approved = hist[t].approved \cup {x}
           /\ hist'[t].sends = hist[t].sends /\ hist'[t].unrecorded = hist[t].unrecorded
           /\ hist'[t].delivered = hist[t].delivered
           /\ hist'[t].overwritten = hist[t].overwritten
           /\ operator'[o].pc = "enqueue" /\ operator'[o].task = t
           /\ \A p \in Operators \ {o} : operator'[p] = operator[p]
           /\ UNCHANGED <<worker, inbound, outbound, queue, used>>
<1> DEFINE op == operator[o]
           t  == op.task
           x  == ApprovedText(op.snap, op.edit)
<1>1. op \in OperatorState /\ op.pc = "approve" /\ t \in Tasks
  BY BaseTypes DEF WriteApproval, Base, AssignedInv
<1>2. task[t] \in TaskRow /\ hist[t] \in History
  BY <1>1, BaseTypes
<1>3. x \in Texts
  BY <1>1, ApprovedTextIsText DEF OperatorState, Base, TypeInv, OperatorInv
<1>4. /\ task' = [task EXCEPT ![t] = [task[t] EXCEPT !.status = "APPROVED", !.approval = "APPROVED",
                                        !.sentText = x, !.pending = op.snap.pending]]
      /\ hist' = [hist EXCEPT ![t] =
                     [hist[t] EXCEPT !.approvals = @ + 1, !.approved = @ \cup {x}]]
      /\ operator' = [operator EXCEPT ![o] = [IdleOperator EXCEPT !.pc = "enqueue", !.task = t]]
      /\ UNCHANGED <<worker, inbound, outbound, queue, used>>
  BY <1>1, BaseTypes DEF WriteApproval
<1> HIDE DEF t, x
<1>5. \A u \in Tasks \ {t} : task'[u] = task[u] /\ hist'[u] = hist[u]
  BY <1>4, BaseTypes
<1>6. /\ task'[t].status = "APPROVED" /\ task'[t].approval = "APPROVED"
      /\ task'[t].conv = task[t].conv /\ task'[t].msg = task[t].msg
      /\ task'[t].since = task[t].since /\ task'[t].kind = task[t].kind
      /\ task'[t].text = task[t].text /\ task'[t].sentText = x
  BY <1>1, <1>2, <1>4, BaseTypes DEF TaskRow
<1>7. /\ hist'[t].approvals = hist[t].approvals + 1
      /\ hist'[t].rejections = hist[t].rejections
      /\ hist'[t].approved = hist[t].approved \cup {x}
      /\ hist'[t].sends = hist[t].sends /\ hist'[t].unrecorded = hist[t].unrecorded
      /\ hist'[t].delivered = hist[t].delivered
      /\ hist'[t].overwritten = hist[t].overwritten
  BY <1>1, <1>2, <1>4, BaseTypes DEF History
<1>8. /\ operator'[o].pc = "enqueue" /\ operator'[o].task = t
      /\ \A p \in Operators \ {o} : operator'[p] = operator[p]
  BY <1>4, BaseTypes DEF IdleOperator
<1>9. QED
  BY <1>1, <1>3, <1>4, <1>5, <1>6, <1>7, <1>8 DEF t, x

LEMMA RejectionEffect ==
    ASSUME Base, NEW o \in Operators, WriteRejection(o)
    PROVE  LET t == operator[o].task IN
           /\ t \in Tasks /\ operator[o].pc = "reject"
           /\ \A u \in Tasks \ {t} : task'[u] = task[u] /\ hist'[u] = hist[u]
           /\ task'[t].status = "DONE" /\ task'[t].approval = "REJECTED"
           /\ task'[t].conv = task[t].conv /\ task'[t].msg = task[t].msg
           /\ task'[t].since = task[t].since /\ task'[t].kind = task[t].kind
           /\ task'[t].text = task[t].text /\ task'[t].sentText = task[t].sentText
           /\ hist'[t].rejections = hist[t].rejections + 1
           /\ hist'[t].approvals = hist[t].approvals
           /\ hist'[t].approved = hist[t].approved
           /\ hist'[t].sends = hist[t].sends /\ hist'[t].unrecorded = hist[t].unrecorded
           /\ hist'[t].delivered = hist[t].delivered
           /\ hist'[t].overwritten = hist[t].overwritten
           /\ operator' = [operator EXCEPT ![o] = IdleOperator]
           /\ UNCHANGED <<worker, inbound, outbound, queue, used>>
<1> DEFINE t == operator[o].task
<1>1. operator[o].pc = "reject" /\ t \in Tasks
  BY DEF WriteRejection, Base, AssignedInv
<1>2. task[t] \in TaskRow /\ hist[t] \in History
  BY <1>1, BaseTypes
<1>3. /\ task' = [task EXCEPT ![t] = [task[t] EXCEPT !.status = "DONE", !.approval = "REJECTED"]]
      /\ hist' = [hist EXCEPT ![t] = [hist[t] EXCEPT !.rejections = @ + 1]]
      /\ operator' = [operator EXCEPT ![o] = IdleOperator]
      /\ UNCHANGED <<worker, inbound, outbound, queue, used>>
  BY <1>1, BaseTypes DEF WriteRejection
<1> HIDE DEF t
<1>4. \A u \in Tasks \ {t} : task'[u] = task[u] /\ hist'[u] = hist[u]
  BY <1>3, BaseTypes
<1>5. /\ task'[t].status = "DONE" /\ task'[t].approval = "REJECTED"
      /\ task'[t].conv = task[t].conv /\ task'[t].msg = task[t].msg
      /\ task'[t].since = task[t].since /\ task'[t].kind = task[t].kind
      /\ task'[t].text = task[t].text /\ task'[t].sentText = task[t].sentText
  BY <1>1, <1>2, <1>3, BaseTypes DEF TaskRow
<1>6. /\ hist'[t].rejections = hist[t].rejections + 1
      /\ hist'[t].approvals = hist[t].approvals
      /\ hist'[t].approved = hist[t].approved
      /\ hist'[t].sends = hist[t].sends /\ hist'[t].unrecorded = hist[t].unrecorded
      /\ hist'[t].delivered = hist[t].delivered
      /\ hist'[t].overwritten = hist[t].overwritten
  BY <1>1, <1>2, <1>3, BaseTypes DEF History
<1>7. QED
  BY <1>1, <1>3, <1>4, <1>5, <1>6 DEF t

\* The four writes of the worker change the status and the retry count only.
LEMMA SettleEffect ==
    ASSUME Base, NEW w \in Workers,
           MarkDuplicateDone(w) \/ SettleTask(w) \/ FailTask(w) \/ CountRetry(w)
    PROVE  /\ worker[w].task \in Tasks
           /\ \A u \in Tasks \ {worker[w].task} : task'[u] = task[u]
           /\ \A u \in Tasks :
                /\ task'[u].approval = task[u].approval
                /\ task'[u].conv = task[u].conv /\ task'[u].msg = task[u].msg
                /\ task'[u].since = task[u].since /\ task'[u].kind = task[u].kind
                /\ task'[u].text = task[u].text /\ task'[u].sentText = task[u].sentText
           /\ MarkDuplicateDone(w) \/ SettleTask(w) => task'[worker[w].task].status = "DONE"
           /\ FailTask(w) => task'[worker[w].task].status = "FAILED"
           /\ CountRetry(w) => task'[worker[w].task].status = task[worker[w].task].status
           /\ UNCHANGED <<operator, inbound, outbound, queue, used, hist>>
<1> DEFINE t == worker[w].task
<1>1. t \in Tasks
  BY DEF MarkDuplicateDone, SettleTask, FailTask, CountRetry, Base, AssignedInv
<1>2. task[t] \in TaskRow
  BY <1>1, BaseTypes
<1> DEFINE done   == [task[t] EXCEPT !.status = "DONE"]
           failed == [task[t] EXCEPT !.status = "FAILED", !.retry = worker[w].retry]
           again  == [task[t] EXCEPT !.retry = worker[w].retry]
<1>3. /\ MarkDuplicateDone(w) \/ SettleTask(w) => task' = [task EXCEPT ![t] = done]
      /\ FailTask(w) => task' = [task EXCEPT ![t] = failed]
      /\ CountRetry(w) => task' = [task EXCEPT ![t] = again]
  BY <1>1, BaseTypes DEF MarkDuplicateDone, SettleTask, FailTask, CountRetry, SetStatus
<1> HIDE DEF t
<1>4. \A row \in {done, failed, again} :
          /\ row.approval = task[t].approval /\ row.conv = task[t].conv /\ row.msg = task[t].msg
          /\ row.since = task[t].since /\ row.kind = task[t].kind
          /\ row.text = task[t].text /\ row.sentText = task[t].sentText
  BY <1>2 DEF TaskRow
<1>5. done.status = "DONE" /\ failed.status = "FAILED" /\ again.status = task[t].status
  BY <1>2 DEF TaskRow
<1> HIDE DEF done, failed, again
<1>6. \E row \in {done, failed, again} : task' = [task EXCEPT ![t] = row]
  BY <1>3
<1>7. /\ \A u \in Tasks \ {t} : task'[u] = task[u]
      /\ task'[t] \in {done, failed, again}
  BY <1>1, <1>6, BaseTypes
<1>8. \A u \in Tasks :
          /\ task'[u].approval = task[u].approval
          /\ task'[u].conv = task[u].conv /\ task'[u].msg = task[u].msg
          /\ task'[u].since = task[u].since /\ task'[u].kind = task[u].kind
          /\ task'[u].text = task[u].text /\ task'[u].sentText = task[u].sentText
  BY <1>4, <1>7
<1>9. /\ MarkDuplicateDone(w) \/ SettleTask(w) => task'[t].status = "DONE"
      /\ FailTask(w) => task'[t].status = "FAILED"
      /\ CountRetry(w) => task'[t].status = task[t].status
  BY <1>1, <1>3, <1>5, BaseTypes
<1>10. UNCHANGED <<operator, inbound, outbound, queue, used, hist>>
  BY DEF MarkDuplicateDone, SettleTask, FailTask, CountRetry
<1>11. QED
  BY <1>1, <1>7, <1>8, <1>9, <1>10 DEF t

\* The other jobs do not move.
OthersKept(w) == \A v \in Workers \ {w} : worker'[v] = worker[v]

SameJob(w) == worker'[w].task = worker[w].task /\ worker'[w].snap = worker[w].snap

LEMMA GotoEffect ==
    ASSUME Base, NEW w \in Workers, NEW pc, WorkerGoto(w, pc)
    PROVE  /\ OthersKept(w) /\ SameJob(w)
           /\ worker'[w].pc = pc /\ worker'[w].ok = worker[w].ok
BY BaseTypes DEF WorkerGoto, OthersKept, SameJob, WorkerState

LEMMA FinishEffect ==
    ASSUME Base, NEW w \in Workers, Finish(w)
    PROVE  OthersKept(w) /\ worker'[w].pc = "finish" /\ worker'[w].task = worker[w].task
BY BaseTypes DEF Finish, OthersKept, IdleWorker

\* Every step of a job but its start: where it goes from where.
Moves(w) ==
    \/ CheckDuplicate(w) \/ MarkDuplicateDone(w) \/ ExecuteWithoutSending(w)
    \/ (\E accepted \in BOOLEAN : SendReply(w, accepted))
    \/ PersistReply(w) \/ VerifyReply(w) \/ ResumeConversation(w) \/ SettleTask(w)
    \/ FailTask(w) \/ CatchError(w) \/ CountRetry(w) \/ Requeue(w)
    \/ Throw(w) \/ LoseJob(w) \/ RequeueFails(w)

LEMMA GuardEffect ==
    ASSUME Base, NEW w \in Workers, CheckDuplicate(w)
    PROVE  /\ OthersKept(w) /\ SameJob(w) /\ worker[w].pc = "guard"
           /\ worker'[w].ok = worker[w].ok
           /\ \/ /\ worker'[w].pc = "markDuplicate"
                 /\ MatchingMessages(worker[w].snap, outbound[worker[w].snap.conv]) # {}
              \/ /\ worker'[w].pc = "execute"
                 /\ MatchingMessages(worker[w].snap, outbound[worker[w].snap.conv]) = {}
BY GotoEffect DEF CheckDuplicate

LEMMA SendEffect ==
    ASSUME Base, NEW w \in Workers, NEW accepted \in BOOLEAN, SendReply(w, accepted)
    PROVE  LET t == worker[w].task IN
           /\ OthersKept(w) /\ SameJob(w) /\ worker[w].pc = "execute" /\ worker'[w].pc = "persist"
           /\ worker'[w].ok = accepted /\ worker[w].snap.kind \in SendingKinds /\ t \in Tasks
           /\ \A u \in Tasks :
                /\ hist'[u].approvals = hist[u].approvals
                /\ hist'[u].rejections = hist[u].rejections
                /\ hist'[u].approved = hist[u].approved
                /\ hist'[u].unrecorded = hist[u].unrecorded
                /\ hist'[u].overwritten = hist[u].overwritten
                /\ hist'[u].sends = IF u = t /\ accepted THEN hist[u].sends + 1 ELSE hist[u].sends
                /\ hist'[u].delivered = IF u = t /\ accepted
                                        THEN hist[u].delivered \cup {TextToSend(worker[w].snap)}
                                        ELSE hist[u].delivered
           /\ UNCHANGED <<task, outbound, queue, operator, inbound, used>>
<1> DEFINE t == worker[w].task
           x == TextToSend(worker[w].snap)
<1>1. /\ worker[w].pc = "execute" /\ worker[w].snap.kind \in SendingKinds /\ t \in Tasks
      /\ UNCHANGED <<task, outbound, queue, operator, inbound, used>>
  BY DEF SendReply, Base, AssignedInv
<1>2. OthersKept(w) /\ SameJob(w) /\ worker'[w].pc = "persist" /\ worker'[w].ok = accepted
  BY BaseTypes DEF SendReply, OthersKept, SameJob, WorkerState
<1>3. \/ accepted /\ hist' = [hist EXCEPT ![t] =
                       [hist[t] EXCEPT !.sends = @ + 1, !.delivered = @ \cup {x}]]
      \/ ~ accepted /\ hist' = hist
  BY DEF SendReply
<1> HIDE DEF t, x
<1>4. ASSUME NEW u \in Tasks
      PROVE  /\ hist'[u].approvals = hist[u].approvals
             /\ hist'[u].rejections = hist[u].rejections
             /\ hist'[u].approved = hist[u].approved
             /\ hist'[u].unrecorded = hist[u].unrecorded
             /\ hist'[u].overwritten = hist[u].overwritten
             /\ hist'[u].sends = IF u = t /\ accepted THEN hist[u].sends + 1 ELSE hist[u].sends
             /\ hist'[u].delivered = IF u = t /\ accepted THEN hist[u].delivered \cup {x}
                                     ELSE hist[u].delivered
  <2>1. hist[u] \in History /\ hist \in [Tasks -> History]
    BY BaseTypes
  <2>2. CASE ~ accepted \/ u # t
    BY <1>3, <2>1, <2>2
  <2>3. CASE accepted /\ u = t
    <3> DEFINE h == hist[u]
    <3>1. hist'[u] = [h EXCEPT !.sends = @ + 1, !.delivered = @ \cup {x}]
      BY <1>1, <1>3, <2>1, <2>3
    <3>2. h \in History
      BY <2>1
    <3> HIDE DEF h
    <3>3. /\ hist'[u].approvals = h.approvals /\ hist'[u].rejections = h.rejections
          /\ hist'[u].approved = h.approved /\ hist'[u].unrecorded = h.unrecorded
          /\ hist'[u].overwritten = h.overwritten /\ hist'[u].sends = h.sends + 1
          /\ hist'[u].delivered = h.delivered \cup {x}
      BY <3>1, <3>2 DEF History
    <3>4. QED
      BY <2>3, <3>3 DEF h
  <2>4. QED
    BY <2>2, <2>3
<1>5. QED
  BY <1>1, <1>2, <1>4 DEF t, x

LEMMA PersistEffect ==
    ASSUME Base, NEW w \in Workers, PersistReply(w)
    PROVE  /\ OthersKept(w) /\ SameJob(w) /\ worker[w].pc = "persist"
           /\ worker'[w].ok = worker[w].ok
           /\ worker'[w].pc = IF worker[w].ok THEN "verify" ELSE "catch"
           /\ \E status, hasSid : outbound' = [outbound EXCEPT ![worker[w].snap.conv] =
                 Append(@, [text |-> TextToSend(worker[w].snap), hasSid |-> hasSid, status |-> status])]
           /\ UNCHANGED <<task, queue, operator, inbound, used, hist>>
<1>1. WorkerGoto(w, IF worker[w].ok THEN "verify" ELSE "catch") /\ worker[w].pc = "persist"
      /\ UNCHANGED <<task, queue, operator, inbound, used, hist>>
  BY DEF PersistReply
<1>2. \E status, hasSid : outbound' = [outbound EXCEPT ![worker[w].snap.conv] =
         Append(@, [text |-> TextToSend(worker[w].snap), hasSid |-> hasSid, status |-> status])]
  BY DEF PersistReply
<1>3. QED
  BY <1>1, <1>2, GotoEffect

LEMMA VerifyEffect ==
    ASSUME Base, NEW w \in Workers, VerifyReply(w)
    PROVE  LET snap == worker[w].snap
               hits == MatchingMessages(snap, outbound[snap.conv]) IN
           /\ OthersKept(w) /\ worker[w].pc = "verify" /\ worker'[w].task = worker[w].task
           /\ \/ worker'[w].pc = "finish" /\ snap.text # None /\ hits = {}
              \/ worker'[w].pc = "settle" /\ SameJob(w) /\ snap.text = None
              \/ worker'[w].pc = "markFailed" /\ SameJob(w)
              \/ worker'[w].pc = "resume" /\ SameJob(w) /\ hits # {}
<1> DEFINE snap == worker[w].snap
           hits == MatchingMessages(snap, outbound[snap.conv])
<1>1. worker[w].pc = "verify"
  BY DEF VerifyReply
<1>2. CASE TextToLookUp(snap) = None /\ WorkerGoto(w, "settle")
  BY <1>1, <1>2, GotoEffect DEF TextToLookUp, SameJob
<1>3. CASE TextToLookUp(snap) # None /\ hits = {} /\ Finish(w)
  BY <1>1, <1>3, FinishEffect DEF TextToLookUp
<1>4. CASE worker' = [worker EXCEPT ![w] = [@ EXCEPT !.pc = "markFailed", !.retry = snap.retry]]
  <2>1. OthersKept(w) /\ SameJob(w) /\ worker'[w].pc = "markFailed"
    BY <1>4, BaseTypes DEF OthersKept, SameJob, WorkerState
  <2>2. QED
    BY <1>1, <2>1 DEF SameJob
<1>5. CASE hits # {} /\ WorkerGoto(w, "resume")
  BY <1>1, <1>5, GotoEffect DEF SameJob
<1>6. QED
  BY <1>2, <1>3, <1>4, <1>5 DEF VerifyReply

LEMMA CatchEffect ==
    ASSUME Base, NEW w \in Workers, CatchError(w)
    PROVE  /\ OthersKept(w) /\ SameJob(w) /\ worker[w].pc = "catch"
           /\ worker'[w].pc \in {"giveUp", "countRetry"}
<1>1. PICK n, pc : /\ worker' = [worker EXCEPT ![w] = [@ EXCEPT !.retry = n, !.pc = pc]]
                   /\ pc \in {"giveUp", "countRetry"}
  BY DEF CatchError
<1>2. QED
  BY <1>1, BaseTypes DEF CatchError, OthersKept, SameJob, WorkerState

\* Throwing after an accepted send loses its record.
LEMMA ThrowEffect ==
    ASSUME Base, NEW w \in Workers, Throw(w)
    PROVE  LET t == worker[w].task IN
           /\ OthersKept(w) /\ SameJob(w) /\ worker'[w].pc = "catch" /\ t \in Tasks
           /\ worker[w].pc \in {"execute", "persist", "verify", "resume", "settle", "markFailed"}
           /\ \A u \in Tasks :
                /\ hist'[u].approvals = hist[u].approvals
                /\ hist'[u].rejections = hist[u].rejections
                /\ hist'[u].approved = hist[u].approved
                /\ hist'[u].sends = hist[u].sends /\ hist'[u].delivered = hist[u].delivered
                /\ hist'[u].overwritten = hist[u].overwritten
                /\ hist'[u].unrecorded = IF u = t /\ worker[w].pc = "persist" /\ worker[w].ok
                                         THEN hist[u].unrecorded + 1 ELSE hist[u].unrecorded
           /\ Fault /\ UNCHANGED <<task, outbound, queue, operator, inbound>>
<1> DEFINE t == worker[w].task
           lost == worker[w].pc = "persist" /\ worker[w].ok
<1>1. /\ OthersKept(w) /\ SameJob(w) /\ worker'[w].pc = "catch" /\ Fault
      /\ worker[w].pc \in {"execute", "persist", "verify", "resume", "settle", "markFailed"}
      /\ UNCHANGED <<task, outbound, queue, operator, inbound>>
  BY GotoEffect DEF Throw
<1>2. t \in Tasks
  BY <1>1 DEF Base, AssignedInv
<1>3. \/ lost /\ hist' = [hist EXCEPT ![t] = [hist[t] EXCEPT !.unrecorded = @ + 1]]
      \/ ~ lost /\ hist' = hist
  BY <1>2, BaseTypes DEF Throw
<1> HIDE DEF t, lost
<1>4. ASSUME NEW u \in Tasks
      PROVE  /\ hist'[u].approvals = hist[u].approvals
             /\ hist'[u].rejections = hist[u].rejections
             /\ hist'[u].approved = hist[u].approved
             /\ hist'[u].sends = hist[u].sends /\ hist'[u].delivered = hist[u].delivered
             /\ hist'[u].overwritten = hist[u].overwritten
             /\ hist'[u].unrecorded = IF u = t /\ lost
                                      THEN hist[u].unrecorded + 1 ELSE hist[u].unrecorded
  <2>1. hist[u] \in History /\ hist \in [Tasks -> History]
    BY BaseTypes
  <2>2. CASE ~ lost \/ u # t
    BY <1>3, <2>1, <2>2
  <2>3. CASE lost /\ u = t
    BY <1>2, <1>3, <2>1, <2>3 DEF History
  <2>4. QED
    BY <2>2, <2>3
<1>5. QED
  BY <1>1, <1>2, <1>4 DEF t, lost

LEMMA StartEffect ==
    ASSUME Base, NEW w \in Workers, NEW t \in Tasks, NEW attempt \in {"fresh", "stalled"},
           StartJob(w, t, attempt)
    PROVE  /\ OthersKept(w) /\ worker[w].pc = "idle" /\ worker'[w].task = t
           /\ queue[t][attempt] > 0 /\ queue' = [queue EXCEPT ![t][attempt] = @ - 1]
           /\ \/ ~ IsApproved(task[t]) /\ worker'[w].pc = "finish"
              \/ /\ IsApproved(task[t]) /\ worker'[w].snap = task[t]
                 /\ worker'[w].pc = IF TextToLookUp(task[t]) # None THEN "guard" ELSE "execute"
           /\ UNCHANGED <<task, outbound, operator, inbound, used, hist>>
<1>1. CASE IsApproved(task[t])
  BY <1>1, BaseTypes DEF StartJob, OthersKept, IdleWorker
<1>2. CASE ~ IsApproved(task[t])
  BY <1>2, BaseTypes DEF StartJob, OthersKept, IdleWorker
<1>3. QED
  BY <1>1, <1>2

\* A job that moves is on the same task, with the same snapshot while it executes.
LEMMA MovesEffect ==
    ASSUME Base, NEW w \in Workers, Moves(w)
    PROVE  /\ OthersKept(w) /\ worker[w].pc \in ExecutingPcs
           /\ worker'[w].task = worker[w].task /\ worker[w].task \in Tasks
           /\ worker'[w].pc = "finish" \/ (worker'[w].pc \in ExecutingPcs /\ SameJob(w))
           /\ UNCHANGED <<operator, inbound>>
<1>1. worker[w].pc \in ExecutingPcs => worker[w].task \in Tasks
  BY DEF Base, AssignedInv, ExecutingPcs, ActivePcs
<1>2. CASE CheckDuplicate(w) \/ PersistReply(w) \/ VerifyReply(w) \/ CatchError(w) \/ Throw(w)
           \/ \E accepted \in BOOLEAN : SendReply(w, accepted)
  <2>1. UNCHANGED <<operator, inbound>>
    BY <1>2 DEF CheckDuplicate, PersistReply, VerifyReply, CatchError, Throw, SendReply
  <2>2. OthersKept(w) /\ worker[w].pc \in ExecutingPcs /\ worker'[w].task = worker[w].task
        /\ (worker'[w].pc = "finish" \/ (worker'[w].pc \in ExecutingPcs /\ SameJob(w)))
    <3>1. CASE CheckDuplicate(w) \/ PersistReply(w) \/ CatchError(w)
      BY <3>1, GuardEffect, PersistEffect, CatchEffect DEF SameJob, ExecutingPcs, ActivePcs
    <3>2. CASE VerifyReply(w)
      BY <3>2, VerifyEffect DEF SameJob, ExecutingPcs, ActivePcs
    <3>3. CASE Throw(w)
      BY <3>3, ThrowEffect DEF SameJob, ExecutingPcs, ActivePcs
    <3>4. ASSUME NEW accepted \in BOOLEAN, SendReply(w, accepted)
          PROVE  /\ OthersKept(w) /\ SameJob(w)
                 /\ worker[w].pc \in ExecutingPcs /\ worker'[w].pc \in ExecutingPcs
      BY <3>4, SendEffect DEF ExecutingPcs, ActivePcs
    <3>5. QED
      BY <1>2, <3>1, <3>2, <3>3, <3>4 DEF SameJob
  <2>3. QED
    BY <1>1, <2>1, <2>2
<1>3. CASE MarkDuplicateDone(w) \/ ExecuteWithoutSending(w) \/ ResumeConversation(w) \/ SettleTask(w)
           \/ FailTask(w) \/ CountRetry(w) \/ Requeue(w) \/ LoseJob(w) \/ RequeueFails(w)
  <2>1. UNCHANGED <<operator, inbound>> /\ worker[w].pc \in ExecutingPcs
    BY <1>3 DEF MarkDuplicateDone, ExecuteWithoutSending, ResumeConversation, SettleTask, FailTask,
                CountRetry, Requeue, LoseJob, RequeueFails, ExecutingPcs, ActivePcs
  <2>2. \/ Finish(w)
        \/ \E pc \in {"verify", "settle", "requeue", "giveUp"} : WorkerGoto(w, pc)
    BY <1>3 DEF MarkDuplicateDone, ExecuteWithoutSending, ResumeConversation, SettleTask, FailTask,
                CountRetry, Requeue, LoseJob, RequeueFails
  <2>3. QED
    BY <1>1, <2>1, <2>2, GotoEffect, FinishEffect DEF SameJob, ExecutingPcs, ActivePcs
<1>4. QED
  BY <1>2, <1>3 DEF Moves

LEMMA WorkerSteps ==
    ASSUME NEW w \in Workers, WorkerStep(w) \/ WorkerFault(w)
    PROVE  \/ Moves(w) \/ CompleteJob(w)
           \/ \E t \in Tasks, attempt \in {"fresh", "stalled"} :
                 StartJob(w, t, attempt) \/ StartFails(w, t, attempt)
BY DEF WorkerStep, WorkerFault, Moves

LEMMA InitAssigned == Init => AssignedInv
BY DEF Init, AssignedInv, IdleOperator, IdleWorker, NewMessage

LEMMA NextAssigned == Base /\ [Next]_vars => AssignedInv'
<1> SUFFICES ASSUME Base, [Next]_vars PROVE AssignedInv'
  OBVIOUS
<1>0. AssignedInv
  BY DEF Base
<1>1. ASSUME NEW m \in Messages, InboundStep(m) \/ InboundFails(m) PROVE AssignedInv'
  <2>1. UNCHANGED <<operator, worker>>
    BY <1>1 DEF InboundStep, InboundFails, ReadMessage, PauseConversation, FindTask, AppendToTask,
                CreateTask, CompleteMessage, RestartMessage, FallBackToApproval
  <2>2. /\ \A n \in Messages \ {m} : inbound'[n] = inbound[n]
        /\ inbound'[m].pc = "append" => inbound'[m].task \in Tasks
    <3>1. CASE ReadMessage(m)
      BY <3>1, BaseTypes DEF ReadMessage, InboundGoto, InboundState
    <3>2. CASE PauseConversation(m) \/ CompleteMessage(m)
      BY <3>2, BaseTypes DEF PauseConversation, CompleteMessage, InboundGoto, InboundState
    <3>3. CASE FindTask(m)
      <4>1. CASE InboundDone(m)
        BY <4>1, BaseTypes DEF InboundDone, NewMessage
      <4>2. CASE \E t \in PendingTasksIn(inbound[m].conv) :
                inbound' = [inbound EXCEPT ![m] =
                              [@ EXCEPT !.pc = "append", !.task = t, !.snap = task[t]]]
        BY <4>2, BaseTypes DEF PendingTasksIn, InboundState
      <4>3. CASE InboundGoto(m, "create")
        BY <4>3, BaseTypes DEF InboundGoto, InboundState
      <4>4. QED
        BY <3>3, <4>1, <4>2, <4>3 DEF FindTask
    <3>4. CASE AppendToTask(m) \/ CreateTask(m)
      BY <3>4, BaseTypes DEF AppendToTask, CreateTask, InboundDone, NewMessage
    <3>5. CASE RestartMessage(m)
      BY <3>5, BaseTypes DEF RestartMessage, NewMessage
    <3>6. CASE FallBackToApproval(m)
      BY <3>6, BaseTypes DEF FallBackToApproval, InboundState
    <3>7. QED
      BY <1>1, <3>1, <3>2, <3>3, <3>4, <3>5, <3>6 DEF InboundStep, InboundFails
  <2>3. QED
    BY <1>0, <2>1, <2>2 DEF AssignedInv
<1>2. ASSUME NEW o \in Operators, Decide(o) \/ Respond(o) \/ RequestFails(o) PROVE AssignedInv'
  <2>1. UNCHANGED <<worker, inbound>>
    BY <1>2 DEF Decide, ReadForApproval, ReadForRejection, Respond, WriteApproval, EnqueueApproval,
                WriteRejection, RequestFails
  <2>2. /\ \A p \in Operators \ {o} : operator'[p] = operator[p]
        /\ operator'[o].pc # "idle" => operator'[o].task \in Tasks
    <3>1. CASE WriteApproval(o)
      BY <3>1, ApprovalEffect
    <3>2. CASE EnqueueApproval(o) \/ WriteRejection(o) \/ RequestFails(o)
      BY <3>2, BaseTypes DEF EnqueueApproval, WriteRejection, RequestFails, IdleOperator
    <3>3. CASE Decide(o)
      BY <3>3, BaseTypes DEF Decide, ReadForApproval, ReadForRejection
    <3>4. QED
      BY <1>2, <3>1, <3>2, <3>3 DEF Respond
  <2>3. QED
    BY <1>0, <2>1, <2>2 DEF AssignedInv
<1>3. ASSUME NEW w \in Workers, WorkerStep(w) \/ WorkerFault(w) PROVE AssignedInv'
  <2>1. CASE Moves(w)
    BY <1>0, <2>1, MovesEffect DEF AssignedInv, OthersKept
  <2>2. CASE CompleteJob(w)
    BY <1>0, <2>2, BaseTypes DEF CompleteJob, AssignedInv, IdleWorker
  <2>3. ASSUME NEW t \in Tasks, NEW attempt \in {"fresh", "stalled"}, StartJob(w, t, attempt)
        PROVE  AssignedInv'
    BY <1>0, <2>3, StartEffect DEF AssignedInv, OthersKept
  <2>4. ASSUME NEW t \in Tasks, NEW attempt \in {"fresh", "stalled"}, StartFails(w, t, attempt)
        PROVE  AssignedInv'
    BY <1>0, <2>4 DEF StartFails, AssignedInv
  <2>5. QED
    BY <1>3, <2>1, <2>2, <2>3, <2>4, WorkerSteps
<1>4. CASE Crash
  BY <1>0, <1>4, BaseTypes DEF Crash, AssignedInv, IdleOperator, IdleWorker, NewMessage
<1>5. CASE UNCHANGED vars
  BY <1>0, <1>5 DEF vars, AssignedInv
<1>6. CASE \E c \in Conversations, status \in {"SENT", "FAILED"} :
              \E i \in DOMAIN outbound[c] : StatusCallback(c, i, status)
  BY <1>0, <1>6 DEF StatusCallback, AssignedInv
<1>7. QED
  BY <1>1, <1>2, <1>3, <1>4, <1>5, <1>6 DEF Next, Rest

LEMMA BaseInvariant == Spec => []Base
<1>1. Init => Base
  BY InitTypeInv, InitAssigned DEF Base
<1>2. Base /\ [Next]_vars => Base'
  BY NextTypeInv, NextAssigned DEF Base
<1>3. QED
  BY <1>1, <1>2, PTL DEF Spec

\* A job changes of the rows no more than the status and the retry count, and of
\* the history no more than the sends.
LEMMA WorkerKeeps ==
    ASSUME Base, NEW w \in Workers, WorkerStep(w) \/ WorkerFault(w)
    PROVE  /\ \A u \in Tasks :
                /\ task'[u].status \in {task[u].status, "DONE", "FAILED"}
                /\ task'[u].approval = task[u].approval
                /\ task'[u].conv = task[u].conv /\ task'[u].msg = task[u].msg
                /\ task'[u].since = task[u].since /\ task'[u].kind = task[u].kind
                /\ task'[u].text = task[u].text /\ task'[u].sentText = task[u].sentText
                /\ hist'[u].approvals = hist[u].approvals
                /\ hist'[u].rejections = hist[u].rejections
                /\ hist'[u].approved = hist[u].approved
                /\ hist'[u].overwritten = hist[u].overwritten
           /\ UNCHANGED <<operator, inbound>>
<1>1. CASE MarkDuplicateDone(w) \/ SettleTask(w) \/ FailTask(w) \/ CountRetry(w)
  <2>1. task'[worker[w].task].status \in {task[worker[w].task].status, "DONE", "FAILED"}
    BY <1>1, SettleEffect
  <2>2. QED
    BY <1>1, <2>1, SettleEffect
<1>2. CASE Throw(w)
  BY <1>2, ThrowEffect
<1>3. ASSUME NEW accepted \in BOOLEAN, SendReply(w, accepted)
      PROVE  /\ UNCHANGED <<operator, inbound, task>>
             /\ \A u \in Tasks : /\ hist'[u].approvals = hist[u].approvals
                                 /\ hist'[u].rejections = hist[u].rejections
                                 /\ hist'[u].approved = hist[u].approved
                                 /\ hist'[u].overwritten = hist[u].overwritten
  BY <1>3, SendEffect
<1>4. CASE \/ CheckDuplicate(w) \/ ExecuteWithoutSending(w) \/ PersistReply(w) \/ VerifyReply(w)
           \/ ResumeConversation(w) \/ CatchError(w) \/ Requeue(w) \/ CompleteJob(w)
           \/ LoseJob(w) \/ RequeueFails(w)
  BY <1>4 DEF CheckDuplicate, ExecuteWithoutSending, PersistReply, VerifyReply, ResumeConversation,
              CatchError, Requeue, CompleteJob, LoseJob, RequeueFails
<1>5. CASE \E t \in Tasks, attempt \in {"fresh", "stalled"} :
              StartJob(w, t, attempt) \/ StartFails(w, t, attempt)
  BY <1>5 DEF StartJob, StartFails
<1>6. QED
  BY <1>1, <1>2, <1>3, <1>4, <1>5 DEF WorkerStep, WorkerFault

LEMMA CrashEffect ==
    ASSUME Base, Crash
    PROVE  /\ \A u \in Tasks :
                /\ hist'[u].approvals = hist[u].approvals
                /\ hist'[u].rejections = hist[u].rejections
                /\ hist'[u].approved = hist[u].approved
                /\ hist'[u].sends = hist[u].sends /\ hist'[u].delivered = hist[u].delivered
                /\ hist'[u].overwritten = hist[u].overwritten
           /\ \A o \in Operators : operator'[o].pc = "idle"
           /\ \A w \in Workers : worker'[w].pc = "idle"
           /\ \A m \in Messages : inbound'[m].pc \in {"new", "done"}
           /\ used'.crashes > 0 /\ used'.crashes = used.crashes + 1 /\ used'.faults = used.faults
           /\ UNCHANGED <<task, conv, outbound>>
<1>1. ASSUME NEW u \in Tasks
      PROVE  /\ hist'[u].approvals = hist[u].approvals
             /\ hist'[u].rejections = hist[u].rejections
             /\ hist'[u].approved = hist[u].approved
             /\ hist'[u].sends = hist[u].sends /\ hist'[u].delivered = hist[u].delivered
             /\ hist'[u].overwritten = hist[u].overwritten
  <2> DEFINE n == Cardinality({w \in JobsOf(u, {"persist"}) : worker[w].ok})
  <2>1. hist'[u] = [hist[u] EXCEPT !.unrecorded = @ + n]
    BY DEF Crash
  <2>2. hist[u] \in History
    BY BaseTypes
  <2> HIDE DEF n
  <2>3. QED
    BY <2>1, <2>2 DEF History
<1>2. /\ used'.crashes > 0 /\ used'.crashes = used.crashes + 1 /\ used'.faults = used.faults
  <2>1. used' = [used EXCEPT !.crashes = @ + 1]
    BY DEF Crash
  <2>2. QED
    BY <2>1, BaseTypes
<1>3. QED
  BY <1>1, <1>2 DEF Crash, IdleOperator, IdleWorker, NewMessage

\* The steps of an inbound job that leave the rows alone.
LEMMA InboundKeeps ==
    ASSUME NEW m \in Messages, InboundStep(m) \/ InboundFails(m)
    PROVE  /\ UNCHANGED <<operator, worker, outbound, queue>>
           /\ AppendToTask(m) \/ CreateTask(m) \/ UNCHANGED <<task, hist>>
           /\ UNCHANGED used \/ Fault
BY DEF InboundStep, InboundFails, ReadMessage, PauseConversation, FindTask, AppendToTask,
       CreateTask, CompleteMessage, RestartMessage, FallBackToApproval

LEMMA RequestKeeps ==
    ASSUME NEW o \in Operators, Decide(o) \/ Respond(o) \/ RequestFails(o)
    PROVE  /\ UNCHANGED <<worker, inbound, outbound>>
           /\ WriteApproval(o) \/ WriteRejection(o) \/ UNCHANGED <<task, hist>>
           /\ EnqueueApproval(o) \/ UNCHANGED queue
           /\ UNCHANGED used \/ Fault
BY DEF Decide, Respond, RequestFails, ReadForApproval, ReadForRejection, WriteApproval,
       EnqueueApproval, WriteRejection

LEMMA CallbackKeeps ==
    ASSUME Base, NEW c \in Conversations, NEW i \in DOMAIN outbound[c],
           NEW status \in {"SENT", "FAILED"}, StatusCallback(c, i, status)
    PROVE  /\ UNCHANGED <<task, operator, worker, inbound, queue, hist>>
           /\ used'.faults = used.faults /\ used'.crashes = used.crashes
<1>1. used' = [used EXCEPT !.callbacks = @ + 1]
  BY DEF StatusCallback
<1>2. QED
  BY <1>1, BaseTypes DEF StatusCallback

-----------------------------------------------------------------------------
(* The inductive invariants.                                               *)

\* The requests that have read the task and are about to decide it.
Deciding(t) == {o \in Operators : operator[o].task = t /\ operator[o].pc \in {"approve", "reject"}}

Decisions(t) == hist[t].approvals + hist[t].rejections

\* Once a task is decided no request reads it any more: each decision after the
\* first was one of the requests that were deciding at that time.
DecisionInv ==
    \A t \in Tasks :
        /\ Decisions(t) + Cardinality(Deciding(t)) <= Cardinality(Operators)
        /\ task[t].approval = "PENDING" => Decisions(t) = 0
        /\ task[t].status = "ABSENT" => Decisions(t) = 0 /\ Deciding(t) = {}

\* A job about to create a task of its message has found none, and no other job
\* makes one.
OpenInv ==
    /\ OneOpenTaskPerMessage
    /\ \A m \in Messages : inbound[m].pc = "create" => OpenTasksOf(m) = {}

\* A snapshot agrees with its task, which was approved, in all that the search
\* for recorded messages depends on, unless the task was overwritten.
SnapshotInv ==
    /\ \A t \in Tasks : task[t].status # "ABSENT" =>
          task[t].conv \in Conversations /\ task[t].since <= Len(outbound[task[t].conv])
    /\ \A t \in Tasks : hist[t].approvals > 0 => task[t].status # "ABSENT"
    /\ \A o \in Operators : operator[o].pc \in {"approve", "reject"} =>
          task[operator[o].task].status # "ABSENT"
    /\ \A w \in Workers : worker[w].pc \in ExecutingPcs =>
          LET t == worker[w].task IN
          /\ hist[t].approvals > 0
          /\ worker[w].snap.conv = task[t].conv /\ worker[w].snap.since = task[t].since
          /\ ~ hist[t].overwritten => /\ worker[w].snap.text = task[t].text
                                      /\ worker[w].snap.kind = task[t].kind

Recorded(row, logs) ==
    TextToLookUp(row) = None \/ MatchingMessages(row, logs[row.conv]) # {}

\* A job settles a task as done only when it has found the record.
RecordInv ==
    /\ DoneHasRecord
    /\ \A w \in Workers : worker[w].pc \in {"markDuplicate", "resume", "settle"}
          => Recorded(worker[w].snap, outbound)

\* Something is going to settle the approved task: a request about to queue it, a
\* job in the queue, or a job at work with the text of the row.
Responsible(t) ==
    \/ \E o \in Operators : operator[o].pc = "enqueue" /\ operator[o].task = t
    \/ queue[t].fresh + queue[t].stalled > 0
    \/ \E w \in Workers :
          /\ worker[w].task = t /\ worker[w].pc \in ExecutingPcs
          /\ worker[w].snap.sentText = task[t].sentText
          /\ worker[w].pc = "verify" => Recorded(worker[w].snap, outbound)

Findable(row) == row.kind \in SendingKinds /\ (row.text = None \/ row.sentText = row.text)

LimboInv ==
    used.faults = 0 /\ used.crashes = 0 =>
        \A t \in Tasks : IsApproved(task[t]) /\ ~ hist[t].overwritten /\ Findable(task[t])
                            => Responsible(t)

Enqueueing(t) == {o \in Operators : operator[o].task = t /\ operator[o].pc = "enqueue"}

Executing(t) == JobsOf(t, ExecutingPcs)

\* Every job of a task stems from an approval, unless a crash multiplied them.
Load(t) == Cardinality(Enqueueing(t)) + Cardinality(Executing(t)) + queue[t].fresh

LoadInv ==
    used.crashes = 0 => \A t \in Tasks : queue[t].stalled = 0 /\ Load(t) <= hist[t].approvals

\* With one job at a time, a send that is not lost is recorded or about to be.
SentOnce(t) ==
    /\ hist[t].sends <= 1 + hist[t].unrecorded
    /\ hist[t].sends > hist[t].unrecorded =>
          \/ MatchingMessages(task[t], outbound[task[t].conv]) # {}
          \/ \E w \in JobsOf(t, {"persist"}) : worker[w].ok
    /\ JobsOf(t, {"execute"}) # {} => hist[t].sends <= hist[t].unrecorded

RepeatAt(t) ==
    /\ hist[t].approvals = 0 => hist[t].sends = 0
    /\ \A w \in Executing(t) : worker[w].snap.sentText = task[t].sentText
    /\ Unedited(t) => SentOnce(t)

Single(t) == used.crashes = 0 /\ hist[t].approvals <= 1 /\ ~ hist[t].overwritten

RepeatInv == \A t \in Tasks : Single(t) => RepeatAt(t)

-----------------------------------------------------------------------------
(* No more decisions than requests in flight.                              *)

LEMMA DecidingFinite ==
    ASSUME NEW t
    PROVE  /\ IsFiniteSet(Operators) /\ Cardinality(Operators) \in Nat
           /\ IsFiniteSet(Deciding(t)) /\ Cardinality(Deciding(t)) \in Nat
           /\ Cardinality(Deciding(t)) <= Cardinality(Operators)
<1>1. Deciding(t) \subseteq Operators
  BY DEF Deciding
<1>2. QED
  BY <1>1, ProcessesAssumption, FS_Subset, FS_CardinalityType

\* A step that decides nothing and reads no task keeps the balance.
LEMMA DecisionKept ==
    ASSUME Base, Base', DecisionInv, NEW t \in Tasks,
           Decisions(t)' = Decisions(t), Deciding(t)' \subseteq Deciding(t),
           task'[t].approval = "PENDING" => task[t].approval = "PENDING",
           task'[t].status = "ABSENT" => task[t].status = "ABSENT"
    PROVE  /\ (Decisions(t) + Cardinality(Deciding(t)) <= Cardinality(Operators))'
           /\ (task[t].approval = "PENDING" => Decisions(t) = 0)'
           /\ (task[t].status = "ABSENT" => Decisions(t) = 0 /\ Deciding(t) = {})'
<1>1. Cardinality(Deciding(t)') <= Cardinality(Deciding(t)) /\ Cardinality(Deciding(t)') \in Nat
  BY DecidingFinite, FS_Subset, FS_CardinalityType
<1>2. Decisions(t) \in Nat
  BY BaseTypes DEF Decisions, History
<1>3. Decisions(t)' + Cardinality(Deciding(t)') <= Cardinality(Operators)
  BY <1>1, <1>2, DecidingFinite DEF DecisionInv
<1>4. QED
  BY <1>3 DEF DecisionInv

LEMMA NextDecision == Base /\ Base' /\ DecisionInv /\ [Next]_vars => DecisionInv'
<1> SUFFICES ASSUME Base, Base', DecisionInv, [Next]_vars, NEW t \in Tasks
             PROVE  /\ (Decisions(t) + Cardinality(Deciding(t)) <= Cardinality(Operators))'
                    /\ (task[t].approval = "PENDING" => Decisions(t) = 0)'
                    /\ (task[t].status = "ABSENT" => Decisions(t) = 0 /\ Deciding(t) = {})'
  BY DEF DecisionInv
<1> DEFINE Goal == /\ (Decisions(t) + Cardinality(Deciding(t)) <= Cardinality(Operators))'
                   /\ (task[t].approval = "PENDING" => Decisions(t) = 0)'
                   /\ (task[t].status = "ABSENT" => Decisions(t) = 0 /\ Deciding(t) = {})'
<1> SUFFICES Goal
  OBVIOUS
<1>a. DecisionInv /\ Decisions(t) \in Nat /\ Cardinality(Deciding(t)) \in Nat
  BY BaseTypes, DecidingFinite DEF Decisions, History
<1>b. UNCHANGED operator => Deciding(t)' = Deciding(t)
  BY DEF Deciding
<1>c. UNCHANGED hist => Decisions(t)' = Decisions(t)
  BY DEF Decisions
<1>1. ASSUME NEW m \in Messages, InboundStep(m) \/ InboundFails(m) PROVE Goal
  <2>1. CASE AppendToTask(m)
    <3>1. Decisions(t)' = Decisions(t)
      BY <2>1, AppendEffect DEF Decisions
    <3> HIDE DEF Goal
    <3>2. QED
      BY <1>1, <1>b, <2>1, <3>1, AppendEffect, InboundKeeps, DecisionKept DEF Goal
  <2>2. CASE CreateTask(m)
    <3>1. PICK u \in Tasks : /\ task[u].status = "ABSENT" /\ task'[u].status = "OPEN"
                             /\ \A v \in Tasks \ {u} : task'[v] = task[v]
      BY <2>2, CreateEffect
    <3>2. Decisions(t)' = Decisions(t) /\ Deciding(t)' = Deciding(t)
      BY <2>2, <1>b, <1>c, CreateEffect
    <3>3. t = u => Decisions(t) = 0 /\ Deciding(t) = {}
      BY <3>1 DEF DecisionInv
    <3>4. t # u => task'[t] = task[t]
      BY <3>1
    <3>5. CASE t = u
      BY <1>a, <3>1, <3>2, <3>3, <3>5 DEF DecisionInv
    <3>6. CASE t # u
      <4> HIDE DEF Goal
      <4>1. QED
        BY <3>2, <3>4, <3>6, DecisionKept DEF Goal
    <3>7. QED
      BY <3>5, <3>6
  <2>3. CASE UNCHANGED <<task, hist>>
    <3> HIDE DEF Goal
    <3>1. QED
      BY <1>1, <1>b, <1>c, <2>3, InboundKeeps, DecisionKept DEF Goal
  <2>4. QED
    BY <1>1, <2>1, <2>2, <2>3, InboundKeeps
<1>2. ASSUME NEW o \in Operators, Decide(o) \/ Respond(o) \/ RequestFails(o) PROVE Goal
  <2>1. CASE WriteApproval(o) \/ WriteRejection(o)
    <3>1. PICK u \in Tasks :
          /\ u = operator[o].task /\ operator[o].pc \in {"approve", "reject"}
          /\ operator'[o].pc \in {"enqueue", "idle"}
          /\ \A p \in Operators \ {o} : operator'[p] = operator[p]
          /\ \A v \in Tasks \ {u} : task'[v] = task[v] /\ hist'[v] = hist[v]
          /\ task'[u].approval # "PENDING" /\ task'[u].status # "ABSENT"
      BY <2>1, ApprovalEffect, RejectionEffect, BaseTypes DEF IdleOperator
    <3>2. hist[u] \in History
      BY <3>1, BaseTypes
    <3>3. Decisions(u)' = Decisions(u) + 1
      <4>1. CASE WriteApproval(o)
        BY <3>1, <3>2, <4>1, ApprovalEffect DEF Decisions, History
      <4>2. CASE WriteRejection(o)
        BY <3>1, <3>2, <4>2, RejectionEffect DEF Decisions, History
      <4>3. QED
        BY <2>1, <4>1, <4>2
    <3>4. CASE t = u
      <4>1. Deciding(t)' = Deciding(t) \ {o} /\ o \in Deciding(t)
        BY <3>1, <3>4 DEF Deciding
      <4>2. Cardinality(Deciding(t)') = Cardinality(Deciding(t)) - 1
        BY <4>1, DecidingFinite, FS_RemoveElement
      <4>3. QED
        BY <1>a, <3>1, <3>3, <3>4, <4>2, DecidingFinite DEF DecisionInv
    <3>5. CASE t # u
      <4>1. Deciding(t)' \subseteq Deciding(t) /\ Decisions(t)' = Decisions(t) /\ task'[t] = task[t]
        BY <3>1, <3>5 DEF Deciding, Decisions
      <4> HIDE DEF Goal
      <4>2. QED
        BY <4>1, DecisionKept DEF Goal
    <3>6. QED
      BY <3>4, <3>5
  <2>2. CASE EnqueueApproval(o) \/ RequestFails(o)
    <3>1. operator' = [operator EXCEPT ![o] = IdleOperator] /\ UNCHANGED <<task, hist>>
      BY <2>2 DEF EnqueueApproval, RequestFails
    <3>2. Deciding(t)' \subseteq Deciding(t)
      BY <3>1, BaseTypes DEF Deciding, IdleOperator
    <3> HIDE DEF Goal
    <3>3. QED
      BY <1>c, <3>1, <3>2, DecisionKept DEF Goal
  <2>3. CASE Decide(o)
    <3>1. PICK u \in Tasks : /\ task[u].status # "ABSENT" /\ task[u].approval = "PENDING"
                             /\ operator'[o].task = u
                             /\ \A p \in Operators \ {o} : operator'[p] = operator[p]
      BY <2>3, BaseTypes DEF Decide, ReadForApproval, ReadForRejection, IsPending
    <3>2. UNCHANGED <<task, hist>> /\ operator[o].pc = "idle"
      BY <2>3 DEF Decide, ReadForApproval, ReadForRejection
    <3>3. CASE t = u
      <4>1. Decisions(t)' = 0 /\ task'[t].status # "ABSENT"
        BY <1>c, <3>1, <3>2, <3>3 DEF DecisionInv
      <4>2. Cardinality(Deciding(t)') <= Cardinality(Operators) /\ Cardinality(Deciding(t)') \in Nat
            /\ Cardinality(Operators) \in Nat
        <5>1. Deciding(t)' \subseteq Operators
          BY DEF Deciding
        <5>2. QED
          BY <5>1, ProcessesAssumption, FS_Subset, FS_CardinalityType
      <4>3. QED
        BY <4>1, <4>2
    <3>4. CASE t # u
      <4>1. Deciding(t)' \subseteq Deciding(t)
        BY <3>1, <3>4 DEF Deciding
      <4> HIDE DEF Goal
      <4>2. QED
        BY <1>c, <3>2, <4>1, DecisionKept DEF Goal
    <3>5. QED
      BY <3>3, <3>4
  <2>4. QED
    BY <1>2, <2>1, <2>2, <2>3 DEF Respond
<1>3. ASSUME NEW w \in Workers, WorkerStep(w) \/ WorkerFault(w) PROVE Goal
  <2>1. Decisions(t)' = Decisions(t) /\ Deciding(t)' = Deciding(t)
    BY <1>3, <1>b, WorkerKeeps DEF Decisions
  <2>2. task'[t].approval = task[t].approval
        /\ (task'[t].status = "ABSENT" => task[t].status = "ABSENT")
    BY <1>3, WorkerKeeps
  <2> HIDE DEF Goal
  <2>3. QED
    BY <2>1, <2>2, DecisionKept DEF Goal
<1>4. CASE Crash
  <2>1. Decisions(t)' = Decisions(t) /\ Deciding(t)' \subseteq Deciding(t) /\ UNCHANGED task
    BY <1>4, CrashEffect DEF Decisions, Deciding
  <2> HIDE DEF Goal
  <2>2. QED
    BY <2>1, DecisionKept DEF Goal
<1>5. CASE \/ UNCHANGED vars
           \/ \E c \in Conversations, status \in {"SENT", "FAILED"} :
                 \E i \in DOMAIN outbound[c] : StatusCallback(c, i, status)
  <2>1. UNCHANGED <<task, hist, operator>>
    BY <1>5 DEF vars, StatusCallback
  <2> HIDE DEF Goal
  <2>2. QED
    BY <1>b, <1>c, <2>1, DecisionKept DEF Goal
<1>6. QED
  BY <1>1, <1>2, <1>3, <1>4, <1>5 DEF Next, Rest

LEMMA InitDecision == Init => DecisionInv
<1> SUFFICES ASSUME Init, NEW t \in Tasks
             PROVE  Decisions(t) = 0 /\ Deciding(t) = {} /\ task[t].approval # "PENDING"
  BY DecidingFinite, FS_EmptySet DEF DecisionInv
<1>1. QED
  BY DEF Init, Decisions, Deciding, NoHistory, NoRow, IdleOperator

\* For any number of requests, jobs, failing calls and crashes: no task is decided
\* more often than requests can be in flight together (approve, reject).
THEOREM DecisionsBounded == Spec => []DecisionsBoundedByConcurrency
<1>1. Base /\ DecisionInv => DecisionsBoundedByConcurrency
  <2> SUFFICES ASSUME Base, DecisionInv, NEW t \in Tasks
               PROVE  Decisions(t) <= Cardinality(Operators)
    BY DEF DecisionsBoundedByConcurrency, Decisions
  <2>1. Decisions(t) \in Nat
    BY BaseTypes DEF Decisions, History
  <2>2. QED
    BY <2>1, DecidingFinite DEF DecisionInv
<1>2. QED
  BY <1>1, InitDecision, NextDecision, BaseInvariant, PTL DEF Spec
-----------------------------------------------------------------------------
(* One open task per message.                                              *)

LEMMA OpenKept ==
    ASSUME OpenInv,
           \A t \in Tasks : task'[t].status = "OPEN" =>
                               task[t].status = "OPEN" /\ task'[t].msg = task[t].msg,
           \A m \in Messages : inbound'[m].pc = "create" =>
                                  inbound[m].pc = "create" \/ OpenTasksOf(m) = {}
    PROVE  OpenInv'
BY DEF OpenInv, OneOpenTaskPerMessage, OpenTasksOf

\* A job gets to the creation of a task by a search that found none.
LEMMA InboundToCreate ==
    ASSUME Base, NEW m \in Messages, InboundStep(m) \/ InboundFails(m)
    PROVE  /\ \A n \in Messages \ {m} : inbound'[n] = inbound[n]
           /\ inbound'[m].pc = "create" => OpenTasksOf(m) = {} /\ UNCHANGED task
<1>1. CASE ReadMessage(m)
  BY <1>1, BaseTypes DEF ReadMessage, InboundGoto, InboundState
<1>2. CASE PauseConversation(m) \/ CompleteMessage(m)
  BY <1>2, BaseTypes DEF PauseConversation, CompleteMessage, InboundGoto, InboundState
<1>3. CASE FindTask(m)
  <2>1. CASE InboundDone(m)
    BY <2>1, BaseTypes DEF InboundDone, NewMessage
  <2>2. CASE \E t \in PendingTasksIn(inbound[m].conv) :
            inbound' = [inbound EXCEPT ![m] =
                          [@ EXCEPT !.pc = "append", !.task = t, !.snap = task[t]]]
    BY <2>2, BaseTypes DEF InboundState
  <2>3. CASE InboundGoto(m, "create") /\ OpenTasksOf(m) = {}
    BY <1>3, <2>3, BaseTypes DEF FindTask, InboundGoto
  <2>4. QED
    BY <1>3, <2>1, <2>2, <2>3 DEF FindTask
<1>4. CASE AppendToTask(m) \/ CreateTask(m)
  <2>1. InboundDone(m)
    BY <1>4 DEF AppendToTask, CreateTask
  <2>2. QED
    BY <2>1, BaseTypes DEF InboundDone, NewMessage
<1>5. CASE RestartMessage(m)
  BY <1>5, BaseTypes DEF RestartMessage, NewMessage
<1>6. CASE FallBackToApproval(m)
  BY <1>6, BaseTypes DEF FallBackToApproval, InboundState
<1>7. QED
  BY <1>1, <1>2, <1>3, <1>4, <1>5, <1>6 DEF InboundStep, InboundFails

LEMMA NextOpen == Base /\ OpenInv /\ [Next]_vars => OpenInv'
<1> SUFFICES ASSUME Base, OpenInv, [Next]_vars PROVE OpenInv'
  OBVIOUS
<1>1. ASSUME NEW m \in Messages, InboundStep(m) \/ InboundFails(m) PROVE OpenInv'
  <2>1. /\ \A n \in Messages \ {m} : inbound'[n] = inbound[n]
        /\ inbound'[m].pc = "create" => OpenTasksOf(m) = {} /\ UNCHANGED task
    BY <1>1, InboundToCreate
  <2>2. CASE AppendToTask(m)
    BY <2>1, <2>2, AppendEffect, OpenKept
  <2>3. CASE CreateTask(m)
    <3>1. PICK t \in Tasks : /\ task[t].status = "ABSENT"
                             /\ task'[t].status = "OPEN" /\ task'[t].msg = m
                             /\ \A u \in Tasks \ {t} : task'[u] = task[u]
      BY <2>3, CreateEffect
    <3>2. OpenTasksOf(m) = {}
      BY <2>3 DEF CreateTask, OpenInv
    <3>3. inbound'[m].pc # "create"
      BY <2>3, BaseTypes DEF CreateTask, InboundDone, NewMessage
    <3>4. \A u \in Tasks \ {t} : task'[u].status = "OPEN" => task'[u].msg # m
      BY <3>1, <3>2 DEF OpenTasksOf
    <3>5. OneOpenTaskPerMessage'
      BY <3>1, <3>4 DEF OneOpenTaskPerMessage, OpenInv
    <3>6. ASSUME NEW n \in Messages, inbound'[n].pc = "create" PROVE OpenTasksOf(n)' = {}
      <4>1. n # m /\ inbound[n].pc = "create"
        BY <2>1, <3>3, <3>6
      <4>2. OpenTasksOf(n) = {}
        BY <4>1 DEF OpenInv
      <4>3. QED
        BY <3>1, <4>1, <4>2 DEF OpenTasksOf
    <3>7. QED
      BY <3>5, <3>6 DEF OpenInv
  <2>4. CASE UNCHANGED task
    BY <2>1, <2>4, OpenKept
  <2>5. QED
    BY <1>1, <2>2, <2>3, <2>4, InboundKeeps
<1>2. ASSUME NEW o \in Operators, Decide(o) \/ Respond(o) \/ RequestFails(o) PROVE OpenInv'
  <2>1. \A t \in Tasks : task'[t].status = "OPEN" => task'[t] = task[t]
    BY <1>2, RequestKeeps, ApprovalEffect, RejectionEffect
  <2>2. QED
    BY <1>2, <2>1, RequestKeeps, OpenKept
<1>3. ASSUME NEW w \in Workers, WorkerStep(w) \/ WorkerFault(w) PROVE OpenInv'
  <2>1. \A t \in Tasks : task'[t].status \in {task[t].status, "DONE", "FAILED"}
                          /\ task'[t].msg = task[t].msg
    BY <1>3, WorkerKeeps
  <2>2. \A t \in Tasks : task'[t].status = "OPEN" => task[t].status = "OPEN"
    BY <2>1
  <2>3. UNCHANGED inbound
    BY <1>3, WorkerKeeps
  <2>4. QED
    BY <2>1, <2>2, <2>3, OpenKept
<1>4. CASE Crash
  BY <1>4, CrashEffect, OpenKept
<1>5. CASE \/ UNCHANGED vars
           \/ \E c \in Conversations, status \in {"SENT", "FAILED"} :
                 \E i \in DOMAIN outbound[c] : StatusCallback(c, i, status)
  <2>1. UNCHANGED <<task, inbound>>
    BY <1>5 DEF vars, StatusCallback
  <2>2. QED
    BY <2>1, OpenKept
<1>6. QED
  BY <1>1, <1>2, <1>3, <1>4, <1>5 DEF Next, Rest

\* However often the job of a message runs again after a crash or a failing call,
\* the message never has two open tasks.
THEOREM OneOpenTask == Spec => []OneOpenTaskPerMessage
<1>1. Init => OpenInv
  BY DEF Init, OpenInv, OneOpenTaskPerMessage, NoRow, NewMessage
<1>2. OpenInv => OneOpenTaskPerMessage
  BY DEF OpenInv
<1>3. QED
  BY <1>1, <1>2, NextOpen, BaseInvariant, PTL DEF Spec
-----------------------------------------------------------------------------
(* Logs, snapshots and records.                                            *)

LEMMA TextInvariant == Spec => []TextInv
<1>1. Init => TextInv
  BY DEF Init, TextInv, NoHistory, NoRow, IdleWorker, ExecutingPcs, ActivePcs
<1>2. QED
  BY <1>1, TypeInvariant, NextTextInv, PTL DEF Spec

\* Messages are added to a log and never taken away, and their texts stay.
LogKept ==
    \A c \in Conversations :
        /\ Len(outbound[c]) <= Len(outbound'[c])
        /\ \A i \in 1 .. Len(outbound[c]) : outbound'[c][i].text = outbound[c][i].text

LEMMA LogTypes ==
    ASSUME Base
    PROVE  /\ \A c \in Conversations : outbound[c] \in Seq(OutboundRow) /\ Len(outbound[c]) \in Nat
           /\ \A c \in Conversations : DOMAIN outbound[c] = 1 .. Len(outbound[c])
BY BaseTypes

LEMMA PersistLog ==
    ASSUME Base, NEW w \in Workers, PersistReply(w), worker[w].snap.conv \in Conversations
    PROVE  LET c == worker[w].snap.conv
               n == Len(outbound[c]) + 1 IN
           /\ \A d \in Conversations \ {c} : outbound'[d] = outbound[d]
           /\ Len(outbound'[c]) = n /\ outbound'[c][n].text = TextToSend(worker[w].snap)
           /\ \A i \in 1 .. Len(outbound[c]) : outbound'[c][i] = outbound[c][i]
<1> DEFINE c == worker[w].snap.conv
           log == outbound[c]
<1>1. PICK status, hasSid : outbound' = [outbound EXCEPT ![c] =
              Append(@, [text |-> TextToSend(worker[w].snap), hasSid |-> hasSid, status |-> status])]
  BY PersistEffect
<1> DEFINE row == [text |-> TextToSend(worker[w].snap), hasSid |-> hasSid, status |-> status]
<1>2. log \in Seq(OutboundRow) /\ outbound \in [Conversations -> Seq(OutboundRow)]
  BY BaseTypes
<1>3. row.text = TextToSend(worker[w].snap)
  OBVIOUS
<1> HIDE DEF row
<1>4. outbound'[c] = Append(log, row) /\ \A d \in Conversations \ {c} : outbound'[d] = outbound[d]
  BY <1>1, <1>2 DEF row
<1> HIDE DEF log, c
<1>5. /\ Len(Append(log, row)) = Len(log) + 1
      /\ Append(log, row)[Len(log) + 1] = row
      /\ \A i \in 1 .. Len(log) : Append(log, row)[i] = log[i]
  BY <1>2
<1>6. QED
  BY <1>3, <1>4, <1>5 DEF c, log

LEMMA CallbackLog ==
    ASSUME Base, NEW c \in Conversations, NEW i \in DOMAIN outbound[c],
           NEW status \in {"SENT", "FAILED"}, StatusCallback(c, i, status)
    PROVE  LogKept
<1> DEFINE log == outbound[c]
           row == [log[i] EXCEPT !.status = status]
<1>1. outbound' = [outbound EXCEPT ![c] = [log EXCEPT ![i] = row]]
  BY DEF StatusCallback
<1>2. log \in Seq(OutboundRow) /\ log[i] \in OutboundRow /\ i \in 1 .. Len(log)
      /\ outbound \in [Conversations -> Seq(OutboundRow)]
  BY BaseTypes
<1>3. row.text = log[i].text
  BY <1>2 DEF OutboundRow
<1> HIDE DEF row
<1>4. outbound'[c] = [log EXCEPT ![i] = row] /\ \A d \in Conversations \ {c} : outbound'[d] = outbound[d]
  BY <1>1, <1>2
<1>5. Len([log EXCEPT ![i] = row]) = Len(log)
      /\ \A j \in 1 .. Len(log) : [log EXCEPT ![i] = row][j].text = log[j].text
  BY <1>2, <1>3
<1>6. \A d \in Conversations : outbound[d] \in Seq(OutboundRow)
  BY <1>2
<1>7. Len(outbound'[c]) = Len(log) /\ \A j \in 1 .. Len(log) : outbound'[c][j].text = log[j].text
  BY <1>4, <1>5
<1>8. ASSUME NEW d \in Conversations
      PROVE  /\ Len(outbound[d]) <= Len(outbound'[d])
             /\ \A j \in 1 .. Len(outbound[d]) : outbound'[d][j].text = outbound[d][j].text
  <2>1. Len(outbound[d]) \in Nat
    BY <1>6
  <2>2. CASE d = c
    BY <1>7, <2>1, <2>2
  <2>3. CASE d # c
    BY <1>4, <2>1, <2>3
  <2>4. QED
    BY <2>2, <2>3
<1>9. QED
  BY <1>8 DEF LogKept

LEMMA SameLog ==
    ASSUME Base, UNCHANGED outbound
    PROVE  LogKept
BY LogTypes DEF LogKept

\* The conversation of a job at work.
LEMMA JobConversation ==
    ASSUME Base, SnapshotInv, NEW w \in Workers, worker[w].pc \in ExecutingPcs
    PROVE  /\ worker[w].task \in Tasks /\ worker[w].snap.conv \in Conversations
           /\ task[worker[w].task].status # "ABSENT"
           /\ worker[w].snap.since <= Len(outbound[worker[w].snap.conv])
<1>1. worker[w].task \in Tasks
  BY DEF Base, AssignedInv, ExecutingPcs, ActivePcs
<1>2. task[worker[w].task].status # "ABSENT"
  BY <1>1 DEF SnapshotInv
<1>3. QED
  BY <1>1, <1>2 DEF SnapshotInv

LEMMA WorkerLog ==
    ASSUME Base, SnapshotInv, NEW w \in Workers, WorkerStep(w) \/ WorkerFault(w)
    PROVE  LogKept
<1>1. CASE PersistReply(w)
  <2>1. worker[w].pc = "persist"
    BY <1>1 DEF PersistReply
  <2>2. worker[w].snap.conv \in Conversations
    BY <2>1, JobConversation DEF ExecutingPcs, ActivePcs
  <2>3. QED
    BY <1>1, <2>2, PersistLog, LogTypes DEF LogKept
<1>2. CASE UNCHANGED outbound
  BY <1>2, SameLog
<1>3. PersistReply(w) \/ UNCHANGED outbound
  BY DEF WorkerStep, WorkerFault, StartJob, CheckDuplicate, MarkDuplicateDone,
         ExecuteWithoutSending, SendReply, VerifyReply, ResumeConversation, SettleTask, FailTask,
         CatchError, CountRetry, Requeue, CompleteJob, Throw, LoseJob, RequeueFails, StartFails
<1>4. QED
  BY <1>1, <1>2, <1>3

LEMMA NextLog == Base /\ SnapshotInv /\ [Next]_vars => LogKept
<1> SUFFICES ASSUME Base, SnapshotInv, [Next]_vars PROVE LogKept
  OBVIOUS
<1>1. CASE \E w \in Workers : WorkerStep(w) \/ WorkerFault(w)
  BY <1>1, WorkerLog
<1>2. CASE \E c \in Conversations, status \in {"SENT", "FAILED"} :
              \E i \in DOMAIN outbound[c] : StatusCallback(c, i, status)
  BY <1>2, CallbackLog
<1>3. CASE \/ \E m \in Messages : InboundStep(m) \/ InboundFails(m)
           \/ \E o \in Operators : Decide(o) \/ Respond(o) \/ RequestFails(o)
  BY <1>3, InboundKeeps, RequestKeeps, SameLog
<1>4. CASE Crash \/ UNCHANGED vars
  BY <1>4, SameLog DEF Crash, vars
<1>5. QED
  BY <1>1, <1>2, <1>3, <1>4 DEF Next, Rest

\* What was found in a log is found in the longer log too.
LEMMA MatchesKept ==
    ASSUME Base, LogKept, NEW row, row.conv \in Conversations,
           Recorded(row, outbound), Base'
    PROVE  Recorded(row, outbound')
<1>1. CASE TextToLookUp(row) = None
  BY <1>1 DEF Recorded
<1>2. CASE TextToLookUp(row) # None
  <2>1. PICK i \in DOMAIN outbound[row.conv] :
                i > row.since /\ outbound[row.conv][i].text = TextToLookUp(row)
    BY <1>2 DEF Recorded, MatchingMessages
  <2>2. i \in 1 .. Len(outbound[row.conv]) /\ Len(outbound[row.conv]) \in Nat
    BY <2>1, LogTypes
  <2>3. outbound' \in [Conversations -> Seq(OutboundRow)]
    BY BaseTypes DEF Base, TypeInv, RestInv
  <2>4. Len(outbound[row.conv]) <= Len(outbound'[row.conv]) /\ Len(outbound'[row.conv]) \in Nat
        /\ DOMAIN outbound'[row.conv] = 1 .. Len(outbound'[row.conv])
    BY <2>3 DEF LogKept
  <2>5. i \in DOMAIN outbound'[row.conv]
    BY <2>2, <2>4
  <2>6. outbound'[row.conv][i].text = TextToLookUp(row)
    BY <2>1, <2>2 DEF LogKept
  <2>7. i \in MatchingMessages(row, outbound'[row.conv])
    BY <2>1, <2>5, <2>6 DEF MatchingMessages
  <2>8. QED
    BY <2>7 DEF Recorded
<1>3. QED
  BY <1>1, <1>2
\* A step that approves nothing, starts no job and overwrites no task that was
\* approved before.
RowsKept ==
    \A t \in Tasks :
        /\ task'[t].status = "ABSENT" <=> task[t].status = "ABSENT"
        /\ task'[t].conv = task[t].conv /\ task'[t].since = task[t].since
        /\ hist[t].overwritten => hist'[t].overwritten
        /\ hist[t].approvals > 0 <=> hist'[t].approvals > 0
        /\ \/ task'[t].text = task[t].text /\ task'[t].kind = task[t].kind
           \/ hist'[t].overwritten \/ ~ hist[t].approvals > 0

\* The two halves of SnapshotInv: the rows, and who works on them.
RowsPlaced ==
    /\ \A t \in Tasks : task[t].status # "ABSENT" =>
          task[t].conv \in Conversations /\ task[t].since <= Len(outbound[task[t].conv])
    /\ \A t \in Tasks : hist[t].approvals > 0 => task[t].status # "ABSENT"
    /\ \A o \in Operators : operator[o].pc \in {"approve", "reject"} =>
          task[operator[o].task].status # "ABSENT"

SnapshotOf(w, t) ==
    /\ hist[t].approvals > 0
    /\ worker[w].snap.conv = task[t].conv /\ worker[w].snap.since = task[t].since
    /\ ~ hist[t].overwritten => /\ worker[w].snap.text = task[t].text
                                /\ worker[w].snap.kind = task[t].kind

LEMMA SnapshotHalves ==
    SnapshotInv <=> /\ RowsPlaced
                    /\ \A w \in Workers : worker[w].pc \in ExecutingPcs
                                             => SnapshotOf(w, worker[w].task)
BY DEF SnapshotInv, RowsPlaced, SnapshotOf

LEMMA RowsPlacedKept ==
    ASSUME Base, Base', LogKept, RowsKept, RowsPlaced, UNCHANGED operator
    PROVE  RowsPlaced'
<1>1. ASSUME NEW t \in Tasks, task'[t].status # "ABSENT"
      PROVE  task'[t].conv \in Conversations /\ task'[t].since <= Len(outbound'[task'[t].conv])
  <2>1. /\ task'[t].conv = task[t].conv /\ task'[t].since = task[t].since
        /\ task[t].conv \in Conversations /\ task[t].since <= Len(outbound[task[t].conv])
    BY <1>1 DEF RowsKept, RowsPlaced
  <2>2. task[t].since \in Nat /\ Len(outbound[task[t].conv]) \in Nat
    BY <2>1, BaseTypes DEF TaskRow
  <2>3. outbound' \in [Conversations -> Seq(OutboundRow)]
    BY DEF Base, TypeInv, RestInv
  <2>4. Len(outbound'[task[t].conv]) \in Nat
    BY <2>1, <2>3
  <2>5. Len(outbound[task[t].conv]) <= Len(outbound'[task[t].conv])
    BY <2>1 DEF LogKept
  <2>6. QED
    BY <2>1, <2>2, <2>4, <2>5
<1>2. ASSUME NEW t \in Tasks, hist'[t].approvals > 0 PROVE task'[t].status # "ABSENT"
  BY <1>2 DEF RowsKept, RowsPlaced
<1>3. ASSUME NEW o \in Operators, operator'[o].pc \in {"approve", "reject"}
      PROVE  task'[operator'[o].task].status # "ABSENT"
  <2>1. operator[o].task \in Tasks /\ operator'[o] = operator[o]
    BY <1>3 DEF Base, AssignedInv
  <2>2. QED
    BY <1>3, <2>1 DEF RowsKept, RowsPlaced
<1>4. QED
  BY <1>1, <1>2, <1>3 DEF RowsPlaced

LEMMA SnapshotsKept ==
    ASSUME Base, RowsKept, SnapshotInv, WorkersKept
    PROVE  \A w \in Workers : worker'[w].pc \in ExecutingPcs => SnapshotOf(w, worker[w].task)'
<1> SUFFICES ASSUME NEW w \in Workers, worker'[w].pc \in ExecutingPcs
             PROVE  SnapshotOf(w, worker[w].task)'
  OBVIOUS
<1>1. /\ worker[w].pc \in ExecutingPcs
      /\ worker'[w].task = worker[w].task /\ worker'[w].snap = worker[w].snap
  BY DEF WorkersKept
<1>2. PICK t \in Tasks : t = worker[w].task
  BY <1>1, JobConversation
<1>3. SnapshotOf(w, t)
  BY <1>1, <1>2, SnapshotHalves
<1>4. QED
  BY <1>1, <1>2, <1>3 DEF SnapshotOf, RowsKept

LEMMA SnapshotKept ==
    ASSUME Base, Base', LogKept, RowsKept, SnapshotInv, UNCHANGED operator, WorkersKept
    PROVE  SnapshotInv'
<1>1. RowsPlaced'
  BY RowsPlacedKept, SnapshotHalves
<1>2. \A w \in Workers : worker'[w].pc \in ExecutingPcs => SnapshotOf(w, worker[w].task)'
  BY SnapshotsKept
<1>3. QED
  BY <1>1, <1>2 DEF SnapshotInv, RowsPlaced, SnapshotOf

LEMMA NextSnapshot ==
    Base /\ Base' /\ TextInv /\ SnapshotInv /\ [Next]_vars => SnapshotInv'
<1> SUFFICES ASSUME Base, Base', TextInv, SnapshotInv, [Next]_vars PROVE SnapshotInv'
  OBVIOUS
<1>a. LogKept
  BY NextLog
<1>b. UNCHANGED <<task, hist>> => RowsKept
  BY DEF RowsKept
<1>c. UNCHANGED worker => WorkersKept
  BY Unchanged
<1>d. RowsPlaced
  BY SnapshotHalves
<1>1. ASSUME NEW m \in Messages, InboundStep(m) \/ InboundFails(m) PROVE SnapshotInv'
  <2>0. UNCHANGED <<operator, worker, outbound>>
    BY <1>1, InboundKeeps
  <2>1. CASE AppendToTask(m)
    <3>1. ASSUME NEW t \in Tasks
          PROVE  \/ task'[t] = task[t] \/ hist'[t].overwritten \/ ~ hist[t].approvals > 0
      BY <2>1, AppendEffect
    <3>2. \A t \in Tasks : hist[t].overwritten => hist'[t].overwritten
      BY <2>1, AppendEffect
    <3>3. RowsKept
      BY <2>1, <3>1, <3>2, AppendEffect DEF RowsKept
    <3>4. QED
      BY <1>a, <1>c, <2>0, <3>3, SnapshotKept
  <2>2. CASE CreateTask(m)
    <3>1. PICK t \in Tasks :
              /\ task[t].status = "ABSENT"
              /\ task'[t].status = "OPEN" /\ task'[t].conv = inbound[m].conv
              /\ task'[t].since = Len(outbound[inbound[m].conv])
              /\ \A u \in Tasks \ {t} : task'[u] = task[u]
      BY <2>2, CreateEffect
    <3>2. inbound[m].conv \in Conversations /\ UNCHANGED hist
      BY <2>2, CreateEffect
    <3>3. ~ hist[t].approvals > 0
      BY <1>d, <3>1 DEF RowsPlaced
    <3>4. \A u \in Tasks : task'[u].status # "ABSENT" =>
              task'[u].conv \in Conversations /\ task'[u].since <= Len(outbound[task'[u].conv])
      <4>1. Len(outbound[inbound[m].conv]) \in Nat
        BY <3>2, LogTypes
      <4>2. QED
        BY <1>d, <3>1, <3>2, <4>1 DEF RowsPlaced
    <3>5. RowsPlaced'
      <4>1. \A u \in Tasks : task[u].status # "ABSENT" => task'[u].status # "ABSENT"
        BY <3>1
      <4>2. ASSUME NEW o \in Operators, operator'[o].pc \in {"approve", "reject"}
            PROVE  task'[operator'[o].task].status # "ABSENT"
        <5>1. operator'[o] = operator[o] /\ operator[o].task \in Tasks
          BY <2>0, <4>2 DEF Base, AssignedInv
        <5>2. QED
          BY <1>d, <4>1, <4>2, <5>1 DEF RowsPlaced
      <4>3. QED
        BY <1>d, <2>0, <3>2, <3>4, <4>1, <4>2 DEF RowsPlaced
    <3>6. ASSUME NEW w \in Workers, worker'[w].pc \in ExecutingPcs
          PROVE  SnapshotOf(w, worker[w].task)'
      <4>1. PICK u \in Tasks : u = worker[w].task /\ SnapshotOf(w, u)
        BY <2>0, <3>6, JobConversation, SnapshotHalves
      <4>2. u # t
        BY <3>3, <4>1 DEF SnapshotOf
      <4>3. QED
        BY <2>0, <3>1, <3>2, <4>1, <4>2 DEF SnapshotOf
    <3>7. QED
      BY <3>5, <3>6 DEF SnapshotInv, RowsPlaced, SnapshotOf
  <2>3. CASE UNCHANGED <<task, hist>>
    BY <1>a, <1>b, <1>c, <2>0, <2>3, SnapshotKept
  <2>4. QED
    BY <1>1, <2>1, <2>2, <2>3, InboundKeeps
<1>2. ASSUME NEW o \in Operators, Decide(o) \/ Respond(o) \/ RequestFails(o) PROVE SnapshotInv'
  <2>0. UNCHANGED <<worker, outbound>>
    BY <1>2, RequestKeeps
  <2>1. \A t \in Tasks :
            /\ task'[t].conv = task[t].conv /\ task'[t].since = task[t].since
            /\ task'[t].text = task[t].text /\ task'[t].kind = task[t].kind
            /\ hist[t].overwritten => hist'[t].overwritten
            /\ hist[t].approvals > 0 => hist'[t].approvals > 0
            /\ task[t].status # "ABSENT" => task'[t].status # "ABSENT"
            /\ hist'[t].approvals > 0 => hist[t].approvals > 0 \/ task'[t].status # "ABSENT"
            /\ task'[t].status # "ABSENT" => task[t].status # "ABSENT"
    <3>1. CASE WriteApproval(o)
      <4>1. PICK t \in Tasks : t = operator[o].task /\ operator[o].pc = "approve"
        BY <3>1, ApprovalEffect
      <4>2. /\ \A u \in Tasks \ {t} : task'[u] = task[u] /\ hist'[u] = hist[u]
            /\ task'[t].status = "APPROVED" /\ task'[t].conv = task[t].conv
            /\ task'[t].since = task[t].since /\ task'[t].kind = task[t].kind
            /\ task'[t].text = task[t].text
            /\ hist'[t].approvals = hist[t].approvals + 1
            /\ hist'[t].overwritten = hist[t].overwritten
        BY <3>1, <4>1, ApprovalEffect
      <4>3. task[t].status # "ABSENT"
        BY <1>d, <4>1 DEF RowsPlaced
      <4>4. hist[t].approvals \in Nat
        BY BaseTypes DEF History
      <4>5. QED
        BY <4>2, <4>3, <4>4
    <3>2. CASE WriteRejection(o)
      <4>1. PICK t \in Tasks : t = operator[o].task /\ operator[o].pc = "reject"
        BY <3>2, RejectionEffect
      <4>2. /\ \A u \in Tasks \ {t} : task'[u] = task[u] /\ hist'[u] = hist[u]
            /\ task'[t].status = "DONE" /\ task'[t].conv = task[t].conv
            /\ task'[t].since = task[t].since /\ task'[t].kind = task[t].kind
            /\ task'[t].text = task[t].text
            /\ hist'[t].approvals = hist[t].approvals
            /\ hist'[t].overwritten = hist[t].overwritten
        BY <3>2, <4>1, RejectionEffect
      <4>3. task[t].status # "ABSENT"
        BY <1>d, <4>1 DEF RowsPlaced
      <4>4. QED
        BY <4>2, <4>3
    <3>3. QED
      BY <1>2, <3>1, <3>2, RequestKeeps
  <2>2. ASSUME NEW p \in Operators, operator'[p].pc \in {"approve", "reject"}
        PROVE  task'[operator'[p].task].status # "ABSENT"
    <3>1. CASE operator'[p] = operator[p]
      <4>1. operator[p].task \in Tasks
        BY <2>2, <3>1 DEF Base, AssignedInv
      <4>2. QED
        BY <1>d, <2>1, <2>2, <3>1, <4>1 DEF RowsPlaced
    <3>2. CASE Decide(o) /\ p = o
      <4>1. \E t \in Tasks : operator'[o].task = t /\ task[t].status # "ABSENT"
        BY <3>2, BaseTypes DEF Decide, ReadForApproval, ReadForRejection, IsPending
      <4>2. QED
        BY <2>1, <3>2, <4>1
    <3>3. CASE WriteApproval(o)
      BY <2>2, <3>1, <3>3, ApprovalEffect
    <3>4. CASE EnqueueApproval(o) \/ WriteRejection(o) \/ RequestFails(o)
      BY <2>2, <3>1, <3>4, BaseTypes DEF EnqueueApproval, WriteRejection, RequestFails, IdleOperator
    <3>5. CASE Decide(o) /\ p # o
      BY <3>1, <3>5, BaseTypes DEF Decide, ReadForApproval, ReadForRejection
    <3>6. QED
      BY <1>2, <3>2, <3>3, <3>4, <3>5 DEF Respond
  <2>3. RowsPlaced'
    BY <1>d, <2>0, <2>1, <2>2 DEF RowsPlaced
  <2>4. ASSUME NEW w \in Workers, worker'[w].pc \in ExecutingPcs
        PROVE  SnapshotOf(w, worker[w].task)'
    <3>1. PICK u \in Tasks : u = worker[w].task /\ SnapshotOf(w, u)
      BY <2>0, <2>4, JobConversation, SnapshotHalves
    <3>2. QED
      BY <2>0, <2>1, <3>1 DEF SnapshotOf
  <2>5. QED
    BY <2>3, <2>4 DEF SnapshotInv, RowsPlaced, SnapshotOf
<1>3. ASSUME NEW w \in Workers, WorkerStep(w) \/ WorkerFault(w) PROVE SnapshotInv'
  <2>1. RowsKept
    <3> SUFFICES ASSUME NEW t \in Tasks
                 PROVE  /\ task'[t].status = "ABSENT" <=> task[t].status = "ABSENT"
                        /\ task'[t].conv = task[t].conv /\ task'[t].since = task[t].since
                        /\ task'[t].text = task[t].text /\ task'[t].kind = task[t].kind
                        /\ hist'[t].overwritten = hist[t].overwritten
                        /\ hist'[t].approvals = hist[t].approvals
      BY DEF RowsKept
    <3>1. CASE MarkDuplicateDone(w) \/ SettleTask(w) \/ FailTask(w) \/ CountRetry(w)
      <4>1. worker[w].pc \in ExecutingPcs
        BY <3>1 DEF MarkDuplicateDone, SettleTask, FailTask, CountRetry, ExecutingPcs, ActivePcs
      <4>2. task[worker[w].task].status # "ABSENT"
        BY <4>1, JobConversation
      <4>3. task[t].status = "ABSENT" => task'[t] = task[t]
        BY <3>1, <4>2, SettleEffect
      <4>4. task'[t].status \in {task[t].status, "DONE", "FAILED"}
        BY <1>3, WorkerKeeps
      <4>5. QED
        BY <1>3, <4>3, <4>4, WorkerKeeps
    <3>2. CASE UNCHANGED task
      BY <1>3, <3>2, WorkerKeeps
    <3>3. \/ UNCHANGED task
          \/ MarkDuplicateDone(w) \/ SettleTask(w) \/ FailTask(w) \/ CountRetry(w)
      BY <1>3 DEF WorkerStep, WorkerFault, StartJob, CheckDuplicate, ExecuteWithoutSending, SendReply,
                  PersistReply, VerifyReply, ResumeConversation, CatchError, Requeue, CompleteJob,
                  Throw, LoseJob, RequeueFails, StartFails
    <3>4. QED
      BY <3>1, <3>2, <3>3
  <2>2. UNCHANGED operator
    BY <1>3, WorkerKeeps
  <2>3. CASE Moves(w) \/ CompleteJob(w) \/ UNCHANGED worker
    <3>1. WorkersKept
      <4>1. CASE Moves(w)
        BY <4>1, MovesEffect DEF WorkersKept, OthersKept, SameJob, ExecutingPcs, ActivePcs
      <4>2. CASE CompleteJob(w)
        BY <4>2, BaseTypes DEF CompleteJob, WorkersKept, IdleWorker, ExecutingPcs, ActivePcs
      <4>3. QED
        BY <2>3, <4>1, <4>2, <1>c
    <3>2. QED
      BY <1>a, <2>1, <2>2, <3>1, SnapshotKept
  <2>4. ASSUME NEW t \in Tasks, NEW attempt \in {"fresh", "stalled"}, StartJob(w, t, attempt)
        PROVE  SnapshotInv'
    <3>1. UNCHANGED <<task, outbound, hist>> /\ OthersKept(w) /\ worker'[w].task = t
      BY <2>4, StartEffect
    <3>2. RowsPlaced'
      BY <1>a, <1>d, <2>1, <2>2, RowsPlacedKept
    <3>3. ASSUME NEW v \in Workers, worker'[v].pc \in ExecutingPcs
          PROVE  SnapshotOf(v, worker[v].task)'
      <4>1. CASE v = w
        <5>1. IsApproved(task[t]) /\ worker'[w].snap = task[t]
          BY <2>4, <3>3, <4>1, StartEffect DEF ExecutingPcs
        <5>2. hist[t].approvals > 0
          BY <5>1 DEF TextInv, IsApproved
        <5>3. QED
          BY <3>1, <4>1, <5>1, <5>2 DEF SnapshotOf
      <4>2. CASE v # w
        <5>1. worker'[v] = worker[v] /\ SnapshotOf(v, worker[v].task)
          BY <3>1, <3>3, <4>2, SnapshotHalves DEF OthersKept
        <5>2. QED
          BY <3>1, <5>1 DEF SnapshotOf
      <4>3. QED
        BY <4>1, <4>2
    <3>4. QED
      BY <3>2, <3>3 DEF SnapshotInv, RowsPlaced, SnapshotOf
  <2>5. QED
    BY <1>3, <2>3, <2>4, WorkerSteps DEF StartFails
<1>4. CASE Crash
  <2>1. RowsKept /\ WorkersKept
    BY <1>4, CrashEffect DEF RowsKept, WorkersKept, ExecutingPcs, ActivePcs
  <2>2. \A o \in Operators : operator'[o].pc = "idle"
    BY <1>4, CrashEffect
  <2>3. \A w \in Workers : worker'[w].pc \notin ExecutingPcs
    BY <1>4, CrashEffect DEF ExecutingPcs, ActivePcs
  <2>4. UNCHANGED <<task, outbound>>
    BY <1>4, CrashEffect
  <2>5. QED
    BY <1>d, <2>1, <2>2, <2>3, <2>4 DEF SnapshotInv, RowsPlaced, RowsKept
<1>5. CASE \/ UNCHANGED vars
           \/ \E c \in Conversations, status \in {"SENT", "FAILED"} :
                 \E i \in DOMAIN outbound[c] : StatusCallback(c, i, status)
  <2>1. UNCHANGED <<task, hist, operator, worker>>
    BY <1>5 DEF vars, StatusCallback
  <2>2. QED
    BY <1>a, <1>b, <1>c, <2>1, SnapshotKept
<1>6. QED
  BY <1>1, <1>2, <1>3, <1>4, <1>5 DEF Next, Rest

LEMMA SnapshotInvariant == Spec => []SnapshotInv
<1>1. Init => SnapshotInv
  BY DEF Init, SnapshotInv, NoHistory, NoRow, IdleOperator, IdleWorker, ExecutingPcs, ActivePcs
<1>2. QED
  BY <1>1, NextSnapshot, BaseInvariant, TextInvariant, PTL DEF Spec
-----------------------------------------------------------------------------
(* A task settled as done has its record.                                  *)

\* Only the conversation, the time and the text of a row decide what it matches.
LEMMA SameMatches ==
    ASSUME NEW row, NEW copy, NEW logs, Recorded(row, logs),
           copy.conv = row.conv, copy.since = row.since, copy.text = row.text
    PROVE  Recorded(copy, logs)
BY DEF Recorded, MatchingMessages, TextToLookUp

LEMMA RecordOfDone ==
    ASSUME NEW t \in Tasks, DoneHasRecord, task[t].status = "DONE", task[t].approval = "APPROVED",
           ~ hist[t].overwritten
    PROVE  Recorded(task[t], outbound)
BY DEF DoneHasRecord, Recorded

\* A step that settles nothing as done.
LEMMA DoneKept ==
    ASSUME Base, Base', SnapshotInv, LogKept, DoneHasRecord,
           \A t \in Tasks :
               task'[t].status = "DONE" /\ task'[t].approval = "APPROVED" /\ ~ hist'[t].overwritten
                  => /\ task[t].status = "DONE" /\ task[t].approval = "APPROVED"
                     /\ ~ hist[t].overwritten
                     /\ task'[t].conv = task[t].conv /\ task'[t].since = task[t].since
                     /\ task'[t].text = task[t].text
    PROVE  DoneHasRecord'
<1> SUFFICES ASSUME NEW t \in Tasks, task'[t].status = "DONE", task'[t].approval = "APPROVED",
                    ~ hist'[t].overwritten
             PROVE  Recorded(task'[t], outbound')
  BY DEF DoneHasRecord, Recorded
<1>1. Recorded(task[t], outbound)
  BY RecordOfDone
<1>2. task[t].conv \in Conversations
  BY DEF SnapshotInv
<1>3. Recorded(task[t], outbound')
  BY <1>1, <1>2, MatchesKept
<1>4. QED
  BY <1>3, SameMatches

\* A job that has found the record keeps it.
LEMMA FoundKept ==
    ASSUME Base, Base', SnapshotInv, LogKept, NEW w \in Workers,
           worker[w].pc \in {"markDuplicate", "resume", "settle"}, RecordInv,
           worker'[w].snap = worker[w].snap
    PROVE  Recorded(worker'[w].snap, outbound')
<1>1. Recorded(worker[w].snap, outbound) /\ worker[w].pc \in ExecutingPcs
  BY DEF RecordInv, ExecutingPcs, ActivePcs
<1>2. worker[w].snap.conv \in Conversations
  BY <1>1, JobConversation
<1>3. QED
  BY <1>1, <1>2, MatchesKept

Finding == {"markDuplicate", "resume", "settle"}

LEMMA NextRecord ==
    Base /\ Base' /\ TextInv /\ SnapshotInv /\ RecordInv /\ [Next]_vars => RecordInv'
<1> SUFFICES ASSUME Base, Base', TextInv, SnapshotInv, RecordInv, [Next]_vars PROVE RecordInv'
  OBVIOUS
<1>a. LogKept
  BY NextLog
<1>b. DoneHasRecord
  BY DEF RecordInv
<1>c. UNCHANGED worker => \A w \in Workers : worker'[w].pc \in Finding
                                                => Recorded(worker'[w].snap, outbound')
  BY <1>a, FoundKept DEF Finding
<1>d. UNCHANGED <<task, hist>> => DoneHasRecord'
  BY <1>a, <1>b, DoneKept
<1>e. DoneHasRecord' /\ (\A w \in Workers : worker'[w].pc \in Finding
                                               => Recorded(worker'[w].snap, outbound'))
      => RecordInv'
  BY DEF RecordInv, Finding
<1>1. ASSUME NEW m \in Messages, InboundStep(m) \/ InboundFails(m) PROVE RecordInv'
  <2>0. UNCHANGED worker
    BY <1>1, InboundKeeps
  <2>1. CASE AppendToTask(m)
    <3>1. ASSUME NEW t \in Tasks, task'[t].status = "DONE", task'[t].approval = "APPROVED",
                 ~ hist'[t].overwritten
          PROVE  task'[t] = task[t] /\ hist'[t] = hist[t]
      <4>1. hist[t].approvals > 0
        BY <2>1, <3>1, AppendEffect DEF TextInv
      <4>2. QED
        BY <2>1, <3>1, <4>1, AppendEffect
    <3>2. DoneHasRecord'
      BY <1>a, <1>b, <3>1, DoneKept
    <3>3. QED
      BY <1>c, <1>e, <2>0, <3>2
  <2>2. CASE CreateTask(m)
    <3>1. \A t \in Tasks : task'[t].status = "DONE" => task'[t] = task[t]
      BY <2>2, CreateEffect
    <3>2. UNCHANGED hist
      BY <2>2, CreateEffect
    <3>3. DoneHasRecord'
      BY <1>a, <1>b, <3>1, <3>2, DoneKept
    <3>4. QED
      BY <1>c, <1>e, <2>0, <3>3
  <2>3. QED
    BY <1>1, <1>c, <1>d, <1>e, <2>0, <2>1, <2>2, InboundKeeps
<1>2. ASSUME NEW o \in Operators, Decide(o) \/ Respond(o) \/ RequestFails(o) PROVE RecordInv'
  <2>0. UNCHANGED worker
    BY <1>2, RequestKeeps
  <2>1. CASE WriteApproval(o) \/ WriteRejection(o)
    <3>1. \A t \in Tasks : task'[t].status = "DONE" /\ task'[t].approval = "APPROVED"
              => task'[t] = task[t] /\ hist'[t] = hist[t]
      BY <2>1, ApprovalEffect, RejectionEffect
    <3>2. DoneHasRecord'
      BY <1>a, <1>b, <3>1, DoneKept
    <3>3. QED
      BY <1>c, <1>e, <2>0, <3>2
  <2>2. QED
    BY <1>2, <1>c, <1>d, <1>e, <2>0, <2>1, RequestKeeps
<1>3. ASSUME NEW w \in Workers, Moves(w) PROVE RecordInv'
  <2>0. WorkerStep(w) \/ WorkerFault(w)
    BY <1>3 DEF Moves, WorkerStep, WorkerFault
  <2>1. ASSUME NEW v \in Workers, worker'[v].pc \in Finding
        PROVE  Recorded(worker'[v].snap, outbound')
    <3>1. CASE v # w
      <4>1. worker'[v] = worker[v]
        BY <1>3, <3>1, MovesEffect DEF OthersKept
      <4>2. QED
        BY <1>a, <2>1, <4>1, FoundKept DEF Finding
    <3>2. CASE v = w /\ CheckDuplicate(w)
      <4>1. /\ MatchingMessages(worker[w].snap, outbound[worker[w].snap.conv]) # {}
            /\ worker'[w].snap = worker[w].snap
        BY <2>1, <3>2, GuardEffect DEF SameJob, Finding
      <4>2. UNCHANGED outbound
        BY <3>2 DEF CheckDuplicate
      <4>3. QED
        BY <3>2, <4>1, <4>2 DEF Recorded
    <3>3. CASE v = w /\ VerifyReply(w)
      <4>1. /\ Recorded(worker[w].snap, outbound) /\ worker'[w].snap = worker[w].snap
        BY <2>1, <3>3, VerifyEffect DEF SameJob, Finding, Recorded, TextToLookUp
      <4>2. UNCHANGED outbound
        BY <3>3 DEF VerifyReply
      <4>3. QED
        BY <3>3, <4>1, <4>2
    <3>4. CASE v = w /\ ResumeConversation(w)
      <4>1. worker[w].pc = "resume" /\ SameJob(w)
        BY <3>4, GotoEffect DEF ResumeConversation
      <4>2. QED
        BY <1>a, <3>4, <4>1, FoundKept DEF SameJob
    <3>5. CASE v = w /\ ExecuteWithoutSending(w)
      BY <2>1, <3>5, GotoEffect, FinishEffect DEF ExecuteWithoutSending, Finding
    <3>6. CASE v = w /\ (\E accepted \in BOOLEAN : SendReply(w, accepted))
      BY <2>1, <3>6, SendEffect DEF Finding
    <3>7. CASE v = w /\ (PersistReply(w) \/ CatchError(w) \/ Throw(w))
      BY <2>1, <3>7, PersistEffect, CatchEffect, ThrowEffect DEF Finding
    <3>8. CASE v = w /\ (\/ MarkDuplicateDone(w) \/ SettleTask(w) \/ FailTask(w) \/ CountRetry(w)
                         \/ Requeue(w) \/ LoseJob(w) \/ RequeueFails(w))
      <4>1. Finish(w) \/ WorkerGoto(w, "requeue") \/ WorkerGoto(w, "giveUp")
        BY <3>8 DEF MarkDuplicateDone, SettleTask, FailTask, CountRetry, Requeue, LoseJob,
                    RequeueFails
      <4>2. QED
        BY <2>1, <3>8, <4>1, GotoEffect, FinishEffect DEF Finding
    <3>9. QED
      BY <1>3, <3>1, <3>2, <3>3, <3>4, <3>5, <3>6, <3>7, <3>8 DEF Moves
  <2>2. CASE MarkDuplicateDone(w) \/ SettleTask(w)
    <3> DEFINE u == worker[w].task
    <3>1. worker[w].pc \in ExecutingPcs /\ worker[w].pc \in {"markDuplicate", "settle"}
      BY <2>2 DEF MarkDuplicateDone, SettleTask, ExecutingPcs, ActivePcs
    <3>2. PICK t \in Tasks : t = u
      BY <2>2, SettleEffect
    <3>3. /\ UNCHANGED <<outbound, hist>>
          /\ \A v \in Tasks \ {t} : task'[v] = task[v]
          /\ task'[t].conv = task[t].conv /\ task'[t].since = task[t].since
          /\ task'[t].text = task[t].text
      BY <2>2, <3>2, SettleEffect
    <3>4. Recorded(worker[w].snap, outbound)
      BY <3>1 DEF RecordInv
    <3>5. ~ hist[t].overwritten => Recorded(task'[t], outbound')
      <4>1. /\ worker[w].snap.conv = task[t].conv /\ worker[w].snap.since = task[t].since
            /\ ~ hist[t].overwritten => worker[w].snap.text = task[t].text
        BY <3>1, <3>2 DEF SnapshotInv
      <4>2. QED
        BY <3>3, <3>4, <4>1, SameMatches
    <3>6. ASSUME NEW v \in Tasks, task'[v].status = "DONE", task'[v].approval = "APPROVED",
                 ~ hist'[v].overwritten
          PROVE  Recorded(task'[v], outbound')
      <4>1. CASE v = t
        BY <3>3, <3>5, <3>6, <4>1
      <4>2. CASE v # t
        <5>1. task'[v] = task[v] /\ Recorded(task[v], outbound)
          BY <1>b, <3>3, <3>6, <4>2, RecordOfDone
        <5>2. QED
          BY <3>3, <5>1
      <4>3. QED
        BY <4>1, <4>2
    <3>7. DoneHasRecord'
      BY <3>6 DEF DoneHasRecord, Recorded
    <3>8. QED
      BY <1>e, <2>1, <3>7
  <2>3. CASE FailTask(w) \/ CountRetry(w)
    <3>1. ASSUME NEW t \in Tasks, task'[t].status = "DONE" PROVE task[t].status = "DONE"
      BY <2>3, <3>1, SettleEffect
    <3>2. DoneHasRecord'
      BY <1>a, <1>b, <2>3, <3>1, SettleEffect, DoneKept
    <3>3. QED
      BY <1>e, <2>1, <3>2
  <2>4. CASE UNCHANGED task
    <3>1. \A t \in Tasks : hist'[t].overwritten = hist[t].overwritten
      BY <2>0, WorkerKeeps
    <3>2. DoneHasRecord'
      BY <1>a, <1>b, <2>4, <3>1, DoneKept
    <3>3. QED
      BY <1>e, <2>1, <3>2
  <2>5. \/ MarkDuplicateDone(w) \/ SettleTask(w) \/ FailTask(w) \/ CountRetry(w) \/ UNCHANGED task
    BY <1>3 DEF Moves, CheckDuplicate, ExecuteWithoutSending, SendReply, PersistReply, VerifyReply,
                ResumeConversation, CatchError, Requeue, Throw, LoseJob, RequeueFails
  <2>6. QED
    BY <2>2, <2>3, <2>4, <2>5
<1>4. ASSUME NEW w \in Workers, NEW t \in Tasks, NEW attempt \in {"fresh", "stalled"},
             StartJob(w, t, attempt)
      PROVE  RecordInv'
  <2>1. UNCHANGED <<task, hist>> /\ OthersKept(w) /\ worker'[w].pc \in {"finish", "guard", "execute"}
    BY <1>4, StartEffect
  <2>2. \A v \in Workers : worker'[v].pc \in Finding => worker'[v] = worker[v]
    BY <2>1 DEF OthersKept, Finding
  <2>3. \A v \in Workers : worker'[v].pc \in Finding => Recorded(worker'[v].snap, outbound')
    BY <1>a, <2>2, FoundKept DEF Finding
  <2>4. QED
    BY <1>d, <1>e, <2>1, <2>3
<1>5. ASSUME NEW w \in Workers, CompleteJob(w) PROVE RecordInv'
  <2>1. UNCHANGED <<task, hist>>
    BY <1>5 DEF CompleteJob
  <2>2. \A v \in Workers : worker'[v].pc \in Finding => worker'[v] = worker[v]
    BY <1>5, BaseTypes DEF CompleteJob, IdleWorker, Finding
  <2>3. \A v \in Workers : worker'[v].pc \in Finding => Recorded(worker'[v].snap, outbound')
    BY <1>a, <2>2, FoundKept DEF Finding
  <2>4. QED
    BY <1>d, <1>e, <2>1, <2>3
<1>6. CASE Crash
  <2>1. \A w \in Workers : worker'[w].pc \notin Finding
    BY <1>6, CrashEffect DEF Finding
  <2>2. UNCHANGED task /\ \A t \in Tasks : hist'[t].overwritten = hist[t].overwritten
    BY <1>6, CrashEffect
  <2>3. DoneHasRecord'
    BY <1>a, <1>b, <2>2, DoneKept
  <2>4. QED
    BY <1>e, <2>1, <2>3
<1>7. CASE UNCHANGED <<task, hist, worker>>
  BY <1>c, <1>d, <1>e, <1>7
<1>8. ASSUME NEW w \in Workers, WorkerStep(w) \/ WorkerFault(w) PROVE RecordInv'
  <2>1. CASE \E t \in Tasks, attempt \in {"fresh", "stalled"} : StartFails(w, t, attempt)
    BY <1>7, <2>1 DEF StartFails
  <2>2. QED
    BY <1>3, <1>4, <1>5, <1>8, <2>1, WorkerSteps
<1>9. CASE \/ UNCHANGED vars
           \/ \E c \in Conversations, status \in {"SENT", "FAILED"} :
                 \E i \in DOMAIN outbound[c] : StatusCallback(c, i, status)
  BY <1>7, <1>9 DEF vars, StatusCallback
<1>10. QED
  BY <1>1, <1>2, <1>6, <1>8, <1>9 DEF Next, Rest

\* A task settled as done after its approval has a message recorded under its
\* text, whatever fails, is retried or overlaps, unless it was overwritten.
THEOREM DoneIsRecorded == Spec => []DoneHasRecord
<1>1. Init => RecordInv
  BY DEF Init, RecordInv, DoneHasRecord, NoRow, IdleWorker
<1>2. RecordInv => DoneHasRecord
  BY DEF RecordInv
<1>3. QED
  BY <1>1, <1>2, NextRecord, BaseInvariant, TextInvariant, SnapshotInvariant, PTL DEF Spec
-----------------------------------------------------------------------------
(* An approved task has somebody to settle it.                             *)

LEMMA EnqueueEffect ==
    ASSUME Base, NEW t \in Tasks, Enqueue(t, "fresh")
    PROVE  /\ queue'[t].fresh = queue[t].fresh + 1 /\ queue'[t].stalled = queue[t].stalled
           /\ \A u \in Tasks \ {t} : queue'[u] = queue[u]
<1> DEFINE jobs == queue[t]
<1>1. jobs \in [fresh : Nat, stalled : Nat] /\ queue' = [queue EXCEPT ![t] = [jobs EXCEPT !.fresh = @ + 1]]
  BY BaseTypes DEF Enqueue
<1> HIDE DEF jobs
<1>2. queue'[t] = [jobs EXCEPT !.fresh = @ + 1] /\ \A u \in Tasks \ {t} : queue'[u] = queue[u]
  BY <1>1, BaseTypes
<1>3. QED
  BY <1>1, <1>2 DEF jobs

LEMMA DequeueEffect ==
    ASSUME Base, NEW t \in Tasks, NEW attempt \in {"fresh", "stalled"}, queue[t][attempt] > 0,
           queue' = [queue EXCEPT ![t][attempt] = @ - 1]
    PROVE  /\ queue'[t].fresh + queue'[t].stalled = queue[t].fresh + queue[t].stalled - 1
           /\ attempt = "fresh" => queue'[t].fresh = queue[t].fresh - 1
                                   /\ queue'[t].stalled = queue[t].stalled
           /\ attempt = "stalled" => queue'[t].fresh = queue[t].fresh
                                     /\ queue'[t].stalled = queue[t].stalled - 1
           /\ \A u \in Tasks \ {t} : queue'[u] = queue[u]
<1> DEFINE jobs == queue[t]
<1>1. jobs \in [fresh : Nat, stalled : Nat] /\ queue' = [queue EXCEPT ![t] = [jobs EXCEPT ![attempt] = @ - 1]]
  BY BaseTypes
<1> HIDE DEF jobs
<1>2. queue'[t] = [jobs EXCEPT ![attempt] = @ - 1] /\ \A u \in Tasks \ {t} : queue'[u] = queue[u]
  BY <1>1, BaseTypes
<1>3. CASE attempt = "fresh"
  BY <1>1, <1>2, <1>3 DEF jobs
<1>4. CASE attempt = "stalled"
  BY <1>1, <1>2, <1>4 DEF jobs
<1>5. QED
  BY <1>2, <1>3, <1>4

\* What makes somebody responsible for a task, apart from incidents.
Expected(t) == IsApproved(task[t]) /\ ~ hist[t].overwritten /\ Findable(task[t])

InCharge(w, t) ==
    /\ worker[w].task = t /\ worker[w].pc \in ExecutingPcs
    /\ worker[w].snap.sentText = task[t].sentText
    /\ worker[w].pc = "verify" => Recorded(worker[w].snap, outbound)

LEMMA ResponsibleOne ==
    ASSUME NEW t \in Tasks
    PROVE  Responsible(t) <=> \/ \E o \in Operators : operator[o].pc = "enqueue" /\ operator[o].task = t
                              \/ queue[t].fresh + queue[t].stalled > 0
                              \/ \E w \in Workers : InCharge(w, t)
BY DEF Responsible, InCharge

\* Only an approval makes a task expected.
LEMMA ExpectedBefore ==
    ASSUME Base, TextInv, [Next]_vars, NEW t \in Tasks, Expected(t)'
    PROVE  \/ \E o \in Operators : WriteApproval(o) /\ operator[o].task = t
           \/ Expected(t) /\ task'[t].sentText = task[t].sentText
<1>0. task'[t].status = "APPROVED" /\ task'[t].approval = "APPROVED" /\ ~ hist'[t].overwritten
      /\ Findable(task'[t])
  BY DEF Expected, IsApproved
<1>1. ASSUME NEW m \in Messages, InboundStep(m) \/ InboundFails(m)
      PROVE  Expected(t) /\ task'[t].sentText = task[t].sentText
  <2>1. CASE AppendToTask(m)
    <3>1. hist[t].approvals > 0
      BY <1>0, <2>1, AppendEffect DEF TextInv
    <3>2. task'[t] = task[t] /\ hist'[t] = hist[t]
      BY <1>0, <2>1, <3>1, AppendEffect
    <3>3. QED
      BY <1>0, <3>2 DEF Expected, IsApproved
  <2>2. CASE CreateTask(m)
    <3>1. task'[t] = task[t] /\ UNCHANGED hist
      BY <1>0, <2>2, CreateEffect
    <3>2. QED
      BY <1>0, <3>1 DEF Expected, IsApproved
  <2>3. QED
    BY <1>0, <1>1, <2>1, <2>2, InboundKeeps DEF Expected, IsApproved
<1>2. ASSUME NEW o \in Operators, Decide(o) \/ Respond(o) \/ RequestFails(o),
             ~ (WriteApproval(o) /\ operator[o].task = t)
      PROVE  Expected(t) /\ task'[t].sentText = task[t].sentText
  <2>1. task'[t] = task[t] /\ hist'[t] = hist[t]
    BY <1>0, <1>2, RequestKeeps, ApprovalEffect, RejectionEffect
  <2>2. QED
    BY <1>0, <2>1 DEF Expected, IsApproved
<1>3. ASSUME NEW w \in Workers, WorkerStep(w) \/ WorkerFault(w)
      PROVE  Expected(t) /\ task'[t].sentText = task[t].sentText
  <2>1. /\ task'[t].status \in {task[t].status, "DONE", "FAILED"}
        /\ task'[t].approval = task[t].approval /\ hist'[t].overwritten = hist[t].overwritten
        /\ task'[t].kind = task[t].kind /\ task'[t].text = task[t].text
        /\ task'[t].sentText = task[t].sentText
    BY <1>3, WorkerKeeps
  <2>2. task[t].status = "APPROVED"
    BY <1>0, <2>1
  <2>3. QED
    BY <1>0, <2>1, <2>2 DEF Expected, IsApproved, Findable
<1>4. CASE Crash
  <2>1. task'[t] = task[t] /\ hist'[t].overwritten = hist[t].overwritten
    BY <1>4, CrashEffect
  <2>2. QED
    BY <1>0, <2>1 DEF Expected, IsApproved
<1>5. CASE \/ UNCHANGED vars
           \/ \E c \in Conversations, status \in {"SENT", "FAILED"} :
                 \E i \in DOMAIN outbound[c] : StatusCallback(c, i, status)
  <2>1. UNCHANGED <<task, hist>>
    BY <1>5 DEF vars, StatusCallback
  <2>2. QED
    BY <1>0, <2>1 DEF Expected, IsApproved
<1>6. QED
  BY <1>1, <1>2, <1>3, <1>4, <1>5 DEF Next, Rest

\* A job in charge that does not move, or moves on, stays in charge.
LEMMA InChargeKept ==
    ASSUME Base, Base', SnapshotInv, LogKept, NEW w \in Workers, NEW t \in Tasks, InCharge(w, t),
           worker'[w].task = worker[w].task, worker'[w].snap = worker[w].snap,
           worker'[w].pc \in ExecutingPcs, task'[t].sentText = task[t].sentText,
           worker'[w].pc = "verify" => \/ worker[w].pc = "verify"
                                       \/ Recorded(worker[w].snap, outbound')
    PROVE  InCharge(w, t)'
<1>1. worker[w].pc = "verify" => Recorded(worker[w].snap, outbound')
  <2> SUFFICES ASSUME worker[w].pc = "verify" PROVE Recorded(worker[w].snap, outbound')
    OBVIOUS
  <2>1. Recorded(worker[w].snap, outbound) /\ worker[w].snap.conv \in Conversations
    BY JobConversation DEF InCharge
  <2>2. QED
    BY <2>1, MatchesKept
<1>2. QED
  BY <1>1 DEF InCharge

\* The reply a job in charge sends is the one its record is looked up by.
LEMMA PersistRecords ==
    ASSUME Base, Base', TextInv, SnapshotInv, NEW w \in Workers, NEW t \in Tasks,
           worker[w].task = t, ~ hist[t].overwritten, PersistReply(w),
           worker[w].snap.text = None \/ worker[w].snap.sentText = worker[w].snap.text
    PROVE  Recorded(worker[w].snap, outbound')
<1> DEFINE snap == worker[w].snap
           c == snap.conv
           n == Len(outbound[c]) + 1
<1>1. worker[w].pc = "persist" /\ worker[w].pc \in ExecutingPcs
  BY DEF PersistReply, ExecutingPcs, ActivePcs
<1>2. c \in Conversations /\ snap.since <= Len(outbound[c])
  BY <1>1, JobConversation
<1>3. snap.sentText \in Texts
  <2>1. snap.sentText \in hist[t].approved
    BY <1>1 DEF TextInv
  <2>2. hist[t].approved \subseteq Texts
    BY BaseTypes DEF History
  <2>3. QED
    BY <2>1, <2>2
<1>4. TextToSend(snap) = snap.sentText
  BY <1>3, NoneAssumption DEF TextToSend
<1>5. Len(outbound'[c]) = n /\ outbound'[c][n].text = snap.sentText
  BY <1>2, <1>4, PersistLog
<1>6. n \in DOMAIN outbound'[c] /\ n > snap.since
  <2>1. outbound' \in [Conversations -> Seq(OutboundRow)]
    BY DEF Base, TypeInv, RestInv
  <2>2. DOMAIN outbound'[c] = 1 .. n
    BY <1>2, <1>5, <2>1
  <2>3. Len(outbound[c]) \in Nat /\ snap.since \in Nat
    BY <1>2, LogTypes, BaseTypes DEF WorkerState, TaskRow
  <2>4. QED
    BY <1>2, <2>2, <2>3
<1>7. CASE snap.text = None
  BY <1>7 DEF Recorded, TextToLookUp
<1>8. CASE snap.sentText = snap.text
  <2> HIDE DEF n, c
  <2>1. n \in MatchingMessages(snap, outbound'[c])
    BY <1>5, <1>6, <1>8 DEF MatchingMessages, TextToLookUp
  <2>2. QED
    BY <2>1 DEF Recorded, c
<1>9. QED
  BY <1>7, <1>8
LEMMA InChargeMoves ==
    ASSUME Base, Base', TextInv, SnapshotInv, LogKept, NEW w \in Workers, NEW t \in Tasks,
           InCharge(w, t), Expected(t), Expected(t)', task'[t].sentText = task[t].sentText,
           Moves(w), ~ Fault
    PROVE  InCharge(w, t)' \/ queue'[t].fresh + queue'[t].stalled > 0
<1>0. /\ worker[w].task = t /\ worker[w].pc \in ExecutingPcs
      /\ worker[w].snap.sentText = task[t].sentText
      /\ worker[w].snap.text = task[t].text /\ worker[w].snap.kind = task[t].kind
      /\ ~ hist[t].overwritten
  BY DEF InCharge, Expected, SnapshotInv
<1>1. SameJob(w) /\ worker'[w].pc \in ExecutingPcs /\ worker'[w].pc # "verify" => InCharge(w, t)'
  BY InChargeKept DEF SameJob
<1>2. CASE CheckDuplicate(w) \/ CatchError(w)
  BY <1>1, <1>2, GuardEffect, CatchEffect DEF ExecutingPcs, ActivePcs
<1>3. CASE MarkDuplicateDone(w) \/ SettleTask(w) \/ FailTask(w)
  <2>1. task'[t].status \in {"DONE", "FAILED"}
    BY <1>0, <1>3, SettleEffect
  <2>2. QED
    BY <2>1 DEF Expected, IsApproved
<1>4. CASE ExecuteWithoutSending(w)
  <2>1. worker[w].snap.kind \notin SendingKinds
    BY <1>4 DEF ExecuteWithoutSending, SendingKinds
  <2>2. QED
    BY <1>0, <2>1 DEF Expected, Findable
<1>5. ASSUME NEW accepted \in BOOLEAN, SendReply(w, accepted)
      PROVE  InCharge(w, t)'
  <2>1. SameJob(w) /\ worker'[w].pc = "persist"
    BY <1>5, SendEffect
  <2>2. QED
    BY <1>1, <2>1 DEF ExecutingPcs, ActivePcs
<1>6. CASE PersistReply(w)
  <2>1. SameJob(w) /\ worker'[w].pc \in {"verify", "catch"}
    BY <1>6, PersistEffect
  <2>2. Recorded(worker[w].snap, outbound')
    BY <1>0, <1>6, PersistRecords DEF Expected, Findable
  <2>3. worker'[w].pc \in ExecutingPcs
    BY <2>1 DEF ExecutingPcs, ActivePcs
  <2>4. QED
    BY <2>1, <2>2, <2>3, InChargeKept DEF SameJob
<1>7. CASE VerifyReply(w)
  <2>1. Recorded(worker[w].snap, outbound)
    BY <1>7, VerifyEffect DEF InCharge
  <2>2. SameJob(w) /\ worker'[w].pc \in {"settle", "markFailed", "resume"}
    BY <1>7, <2>1, VerifyEffect DEF Recorded, TextToLookUp
  <2>3. QED
    BY <1>1, <2>2 DEF ExecutingPcs, ActivePcs
<1>8. CASE ResumeConversation(w) \/ CountRetry(w)
  <2>1. SameJob(w) /\ worker'[w].pc \in {"settle", "requeue"}
    BY <1>8, GotoEffect DEF ResumeConversation, CountRetry
  <2>2. QED
    BY <1>1, <2>1 DEF ExecutingPcs, ActivePcs
<1>9. CASE Requeue(w)
  <2>1. Enqueue(t, "fresh")
    BY <1>0, <1>9 DEF Requeue
  <2>2. queue'[t].fresh = queue[t].fresh + 1 /\ queue'[t].stalled = queue[t].stalled
    BY <2>1, EnqueueEffect
  <2>3. queue[t].fresh \in Nat /\ queue[t].stalled \in Nat
    BY BaseTypes
  <2>4. QED
    BY <2>2, <2>3
<1>10. QED
  BY <1>2, <1>3, <1>4, <1>5, <1>6, <1>7, <1>8, <1>9 DEF Moves, Throw, LoseJob, RequeueFails

\* The queue of a task gets shorter only by the start of a job, or by an incident.
LEMMA QueueKept ==
    ASSUME Base, NEW w \in Workers, Moves(w), NEW t \in Tasks
    PROVE  queue'[t].fresh >= queue[t].fresh /\ queue'[t].stalled = queue[t].stalled
<1>0. queue[t].fresh \in Nat /\ queue[t].stalled \in Nat
  BY BaseTypes
<1>1. CASE Requeue(w)
  <2>1. PICK u \in Tasks : Enqueue(u, "fresh")
    BY <1>1, MovesEffect DEF Requeue
  <2>2. CASE u = t
    BY <1>0, <2>1, <2>2, EnqueueEffect
  <2>3. CASE u # t
    BY <1>0, <2>1, <2>3, EnqueueEffect
  <2>4. QED
    BY <2>2, <2>3
<1>2. CASE UNCHANGED queue
  BY <1>0, <1>2
<1>3. Requeue(w) \/ UNCHANGED queue
  BY DEF Moves, CheckDuplicate, MarkDuplicateDone, ExecuteWithoutSending, SendReply, PersistReply,
         VerifyReply, ResumeConversation, SettleTask, FailTask, CatchError, CountRetry, Throw,
         LoseJob, RequeueFails
<1>4. QED
  BY <1>1, <1>2, <1>3

LEMMA NextLimbo ==
    Base /\ Base' /\ TextInv /\ SnapshotInv /\ LimboInv /\ [Next]_vars => LimboInv'
<1> SUFFICES ASSUME Base, Base', TextInv, SnapshotInv, LimboInv, [Next]_vars,
                    used'.faults = 0, used'.crashes = 0, NEW t \in Tasks, Expected(t)'
             PROVE  Responsible(t)'
  BY DEF LimboInv, Expected
<1>a. LogKept
  BY NextLog
<1>b. ~ Fault
  <2>1. ASSUME Fault PROVE FALSE
    <3>1. used' = [used EXCEPT !.faults = @ + 1]
      BY <2>1 DEF Fault
    <3>2. QED
      BY <3>1, BaseTypes
  <2>2. QED
    BY <2>1
<1>c. used.faults = 0 /\ used.crashes = 0
  <2>1. UNCHANGED used => used.faults = 0 /\ used.crashes = 0
    OBVIOUS
  <2>2. ASSUME NEW w \in Workers, WorkerStep(w) \/ WorkerFault(w) PROVE UNCHANGED used \/ Fault
    BY <2>2 DEF WorkerStep, WorkerFault, StartJob, CheckDuplicate, MarkDuplicateDone,
         ExecuteWithoutSending, SendReply, PersistReply, VerifyReply, ResumeConversation, SettleTask,
         FailTask, CatchError, CountRetry, Requeue, CompleteJob, Throw, LoseJob, RequeueFails, StartFails
  <2>3. ~ Crash
    BY CrashEffect
  <2>4. ASSUME NEW c \in Conversations, NEW i \in DOMAIN outbound[c], NEW status \in {"SENT", "FAILED"},
               StatusCallback(c, i, status)
        PROVE  used.faults = 0 /\ used.crashes = 0
    BY <2>4, CallbackKeeps
  <2>5. CASE \/ \E m \in Messages : InboundStep(m) \/ InboundFails(m)
             \/ \E o \in Operators : Decide(o) \/ Respond(o) \/ RequestFails(o)
    BY <1>b, <2>1, <2>5, InboundKeeps, RequestKeeps
  <2>6. QED
    BY <1>b, <2>1, <2>2, <2>3, <2>4, <2>5 DEF Next, Rest, vars
<1>1. ASSUME NEW o \in Operators, WriteApproval(o), operator[o].task = t PROVE Responsible(t)'
  BY <1>1, ApprovalEffect DEF Responsible
<1>2. ASSUME Expected(t), task'[t].sentText = task[t].sentText PROVE Responsible(t)'
  <2>0. Responsible(t)
    BY <1>2, <1>c DEF LimboInv, Expected
  <2>q. queue[t].fresh \in Nat /\ queue[t].stalled \in Nat
    BY BaseTypes
  <2>c. ASSUME NEW w \in Workers, InCharge(w, t), worker'[w] = worker[w] PROVE InCharge(w, t)'
    <3>1. worker[w].pc \in ExecutingPcs
      BY <2>c DEF InCharge
    <3>2. QED
      BY <1>2, <1>a, <2>c, <3>1, InChargeKept
  <2>1. CASE /\ UNCHANGED <<operator, worker>> /\ queue'[t] = queue[t]
    <3>1. CASE \E w \in Workers : InCharge(w, t)
      BY <2>1, <2>c, <3>1 DEF Responsible, InCharge
    <3>2. QED
      BY <2>0, <2>1, <3>1, ResponsibleOne DEF Responsible
  <2>2. ASSUME NEW o \in Operators, Decide(o) \/ Respond(o) \/ RequestFails(o) PROVE Responsible(t)'
    <3>0. UNCHANGED worker
      BY <2>2, RequestKeeps
    <3>1. CASE EnqueueApproval(o)
      <4>1. PICK u \in Tasks : operator[o].task = u /\ Enqueue(u, "fresh")
        BY <3>1 DEF EnqueueApproval, Base, AssignedInv
      <4>2. /\ queue'[u].fresh = queue[u].fresh + 1 /\ queue'[u].stalled = queue[u].stalled
            /\ \A v \in Tasks \ {u} : queue'[v] = queue[v]
        BY <4>1, EnqueueEffect
      <4>3. CASE u = t
        BY <2>q, <4>2, <4>3 DEF Responsible
      <4>4. CASE u # t
        <5>1. queue'[t] = queue[t]
          BY <4>2, <4>4
        <5>2. \A p \in Operators : operator[p].task = t => operator'[p] = operator[p]
          BY <3>1, <4>1, <4>4, BaseTypes DEF EnqueueApproval
        <5>3. CASE \E w \in Workers : InCharge(w, t)
          BY <3>0, <2>c, <5>3 DEF Responsible, InCharge
        <5>4. QED
          BY <2>0, <5>1, <5>2, <5>3, ResponsibleOne DEF Responsible
      <4>5. QED
        BY <4>3, <4>4
    <3>2. CASE ~ EnqueueApproval(o)
      <4>1. UNCHANGED queue /\ ~ RequestFails(o)
        BY <1>b, <2>2, <3>2, RequestKeeps DEF RequestFails
      <4>2. operator[o].pc # "enqueue" /\ \A p \in Operators \ {o} : operator'[p] = operator[p]
        BY <2>2, <3>2, <4>1, BaseTypes
           DEF Decide, Respond, ReadForApproval, ReadForRejection, WriteApproval, WriteRejection
      <4>3. CASE \E w \in Workers : InCharge(w, t)
        BY <3>0, <2>c, <4>3 DEF Responsible, InCharge
      <4>4. QED
        BY <2>0, <4>1, <4>2, <4>3, ResponsibleOne DEF Responsible
    <3>3. QED
      BY <3>1, <3>2
  <2>3. ASSUME NEW w \in Workers, Moves(w) PROVE Responsible(t)'
    <3>1. UNCHANGED operator /\ OthersKept(w)
      BY <2>3, MovesEffect
    <3>2. queue'[t].fresh >= queue[t].fresh /\ queue'[t].stalled = queue[t].stalled
      BY <2>3, QueueKept
    <3>3. queue'[t].fresh \in Nat /\ queue'[t].stalled \in Nat
      BY DEF Base, TypeInv, RestInv
    <3>4. CASE queue[t].fresh + queue[t].stalled > 0
      BY <2>q, <3>2, <3>3, <3>4 DEF Responsible
    <3>5. CASE \E o \in Operators : operator[o].pc = "enqueue" /\ operator[o].task = t
      BY <3>1, <3>5 DEF Responsible
    <3>6. ASSUME NEW v \in Workers, InCharge(v, t) PROVE Responsible(t)'
      <4>1. CASE v # w
        <5>1. InCharge(v, t)'
          BY <2>c, <3>1, <3>6, <4>1 DEF OthersKept
        <5>2. QED
          BY <5>1 DEF Responsible, InCharge
      <4>2. CASE v = w
        <5>1. InCharge(w, t)' \/ queue'[t].fresh + queue'[t].stalled > 0
          BY <1>2, <1>a, <1>b, <2>3, <3>6, <4>2, InChargeMoves
        <5>2. QED
          BY <5>1 DEF Responsible, InCharge
      <4>3. QED
        BY <4>1, <4>2
    <3>7. QED
      BY <2>0, <3>4, <3>5, <3>6, ResponsibleOne
  <2>4. ASSUME NEW w \in Workers, NEW u \in Tasks, NEW attempt \in {"fresh", "stalled"},
               StartJob(w, u, attempt)
        PROVE  Responsible(t)'
    <3>1. /\ UNCHANGED <<operator, task>> /\ OthersKept(w) /\ worker[w].pc = "idle"
          /\ worker'[w].task = u /\ queue[u][attempt] > 0
          /\ queue' = [queue EXCEPT ![u][attempt] = @ - 1]
      BY <2>4, StartEffect
    <3>2. CASE u = t
      <4>1. IsApproved(task[t])
        BY <1>2 DEF Expected
      <4>2. worker'[w].snap = task[t] /\ worker'[w].pc \in {"guard", "execute"}
        BY <2>4, <3>2, <4>1, StartEffect
      <4>3. QED
        BY <3>1, <3>2, <4>2 DEF Responsible, ExecutingPcs, ActivePcs
    <3>3. CASE u # t
      <4>1. queue'[t] = queue[t]
        BY <3>1, <3>3, DequeueEffect
      <4>2. ASSUME NEW v \in Workers, InCharge(v, t) PROVE InCharge(v, t)'
        <5>1. v # w
          BY <3>1, <4>2 DEF InCharge, ExecutingPcs, ActivePcs
        <5>2. QED
          BY <2>c, <3>1, <4>2, <5>1 DEF OthersKept
      <4>3. CASE \E v \in Workers : InCharge(v, t)
        BY <4>2, <4>3 DEF Responsible, InCharge
      <4>4. QED
        BY <2>0, <3>1, <4>1, <4>3, ResponsibleOne DEF Responsible
    <3>4. QED
      BY <3>2, <3>3
  <2>5. ASSUME NEW w \in Workers, CompleteJob(w) PROVE Responsible(t)'
    <3>1. UNCHANGED <<operator, queue>> /\ worker[w].pc = "finish"
          /\ \A v \in Workers \ {w} : worker'[v] = worker[v]
      BY <2>5, BaseTypes DEF CompleteJob
    <3>2. ASSUME NEW v \in Workers, InCharge(v, t) PROVE InCharge(v, t)'
      <4>1. v # w
        BY <3>1, <3>2 DEF InCharge, ExecutingPcs
      <4>2. QED
        BY <2>c, <3>1, <3>2, <4>1
    <3>3. CASE \E v \in Workers : InCharge(v, t)
      BY <3>2, <3>3 DEF Responsible, InCharge
    <3>4. QED
      BY <2>0, <3>1, <3>3, ResponsibleOne DEF Responsible
  <2>6. ASSUME NEW w \in Workers, WorkerStep(w) \/ WorkerFault(w) PROVE Responsible(t)'
    BY <1>b, <2>3, <2>4, <2>5, <2>6, WorkerSteps DEF StartFails
  <2>7. CASE \/ UNCHANGED vars
             \/ \E m \in Messages : InboundStep(m) \/ InboundFails(m)
             \/ \E c \in Conversations, status \in {"SENT", "FAILED"} :
                   \E i \in DOMAIN outbound[c] : StatusCallback(c, i, status)
    <3>1. UNCHANGED <<operator, worker, queue>>
      BY <2>7, InboundKeeps DEF vars, StatusCallback
    <3>2. QED
      BY <2>1, <3>1
  <2>8. ~ Crash
    BY CrashEffect
  <2>9. QED
    BY <2>2, <2>6, <2>7, <2>8 DEF Next, Rest
<1>3. QED
  BY <1>1, <1>2, ExpectedBefore

\* An approved task that nothing is going to settle has one of the causes listed:
\* for any number of operators, jobs and messages.
THEOREM LimboIsCaused == Spec => []LimboHasCause
<1>1. Init => LimboInv
  BY DEF Init, LimboInv, IsApproved, NoRow
<1>2. Base /\ LimboInv => LimboHasCause
  <2> SUFFICES ASSUME LimboInv, NEW t \in Tasks, IsApproved(task[t]), Abandoned(t),
                      ~ used.faults > 0, ~ used.crashes > 0, ~ hist[t].overwritten,
                      ~ (~ Unedited(t) /\ TextToLookUp(task[t]) # None),
                      task[t].kind \in SendingKinds, Base
               PROVE  FALSE
    BY DEF LimboHasCause
  <2>1. used.faults = 0 /\ used.crashes = 0
    BY BaseTypes
  <2>2. Responsible(t)
    BY <2>1 DEF LimboInv, Findable, Unedited, TextToLookUp
  <2>3. ~ Responsible(t)
    BY BaseTypes DEF Abandoned, Responsible, JobsOf, ExecutingPcs
  <2>4. QED
    BY <2>2, <2>3
<1>3. QED
  BY <1>1, <1>2, NextLimbo, BaseInvariant, TextInvariant, SnapshotInvariant, PTL DEF Spec
-----------------------------------------------------------------------------
(* One approval, one job: the jobs of a task are counted.                  *)

LEMMA LoadTypes ==
    ASSUME Base, NEW t \in Tasks
    PROVE  /\ IsFiniteSet(Enqueueing(t)) /\ Cardinality(Enqueueing(t)) \in Nat
           /\ IsFiniteSet(Executing(t)) /\ Cardinality(Executing(t)) \in Nat
           /\ queue[t].fresh \in Nat /\ queue[t].stalled \in Nat /\ hist[t].approvals \in Nat
<1>1. Enqueueing(t) \subseteq Operators /\ Executing(t) \subseteq Workers
  BY DEF Enqueueing, Executing, JobsOf
<1>2. QED
  BY <1>1, ProcessesAssumption, FS_Subset, FS_CardinalityType, BaseTypes DEF History

Balanced(t) == queue[t].stalled = 0 /\ Load(t) <= hist[t].approvals

\* A step that gives nobody a new job.
LEMMA LoadKept ==
    ASSUME Base, Base', NEW t \in Tasks, Balanced(t),
           Enqueueing(t)' \subseteq Enqueueing(t), Executing(t)' \subseteq Executing(t),
           queue'[t].fresh <= queue[t].fresh, queue'[t].stalled = queue[t].stalled,
           hist'[t].approvals = hist[t].approvals
    PROVE  Balanced(t)'
<1>1. /\ Cardinality(Enqueueing(t)') <= Cardinality(Enqueueing(t))
      /\ Cardinality(Enqueueing(t)') \in Nat
      /\ Cardinality(Executing(t)') <= Cardinality(Executing(t))
      /\ Cardinality(Executing(t)') \in Nat
  BY LoadTypes, FS_Subset, FS_CardinalityType
<1>2. queue'[t].fresh \in Nat
  BY DEF Base, TypeInv, RestInv
<1>3. QED
  BY <1>1, <1>2, LoadTypes DEF Balanced, Load

\* A step by which an approval, a job in the queue or a job at work becomes the next.
LEMMA LoadShifted ==
    ASSUME Base, Base', NEW t \in Tasks, Balanced(t),
           queue'[t].stalled = queue[t].stalled,
           Cardinality(Enqueueing(t)') + Cardinality(Executing(t)') + queue'[t].fresh
              - hist'[t].approvals
           <= Cardinality(Enqueueing(t)) + Cardinality(Executing(t)) + queue[t].fresh
              - hist[t].approvals
    PROVE  Balanced(t)'
<1>1. /\ Cardinality(Enqueueing(t)') \in Nat /\ Cardinality(Executing(t)') \in Nat
      /\ queue'[t].fresh \in Nat /\ hist'[t].approvals \in Nat
  <2>1. Enqueueing(t)' \subseteq Operators /\ Executing(t)' \subseteq Workers
    BY DEF Enqueueing, Executing, JobsOf
  <2>2. QED
    BY <2>1, ProcessesAssumption, FS_Subset, FS_CardinalityType
       DEF Base, TypeInv, RestInv, History
<1>2. QED
  BY <1>1, LoadTypes DEF Balanced, Load

LEMMA OperatorLoad ==
    ASSUME Base, Base', NEW t \in Tasks, Balanced(t), NEW o \in Operators,
           Decide(o) \/ Respond(o) \/ RequestFails(o)
    PROVE  Balanced(t)'
<1>0. Executing(t)' = Executing(t)
  BY RequestKeeps DEF Executing, JobsOf
<1>1. CASE WriteApproval(o)
  <2>1. PICK u \in Tasks :
          /\ u = operator[o].task /\ operator[o].pc = "approve"
          /\ operator'[o].pc = "enqueue" /\ operator'[o].task = u
          /\ \A p \in Operators \ {o} : operator'[p] = operator[p]
          /\ \A v \in Tasks \ {u} : hist'[v] = hist[v]
          /\ hist'[u].approvals = hist[u].approvals + 1
          /\ UNCHANGED queue
    BY <1>1, ApprovalEffect
  <2>2. CASE u = t
    <3>1. Enqueueing(t)' = Enqueueing(t) \cup {o} /\ o \notin Enqueueing(t)
      BY <2>1, <2>2 DEF Enqueueing
    <3>2. Cardinality(Enqueueing(t)') = Cardinality(Enqueueing(t)) + 1
      BY <3>1, LoadTypes, FS_AddElement
    <3>3. QED
      BY <1>0, <2>1, <2>2, <3>2, LoadTypes, LoadShifted
  <2>3. CASE u # t
    <3>1. Enqueueing(t)' = Enqueueing(t)
      BY <2>1, <2>3 DEF Enqueueing
    <3>2. QED
      BY <1>0, <2>1, <2>3, <3>1, LoadTypes, LoadKept
  <2>4. QED
    BY <2>2, <2>3
<1>2. CASE EnqueueApproval(o)
  <2>1. PICK u \in Tasks : operator[o].task = u /\ operator[o].pc = "enqueue" /\ Enqueue(u, "fresh")
    BY <1>2 DEF EnqueueApproval, Base, AssignedInv
  <2>2. operator' = [operator EXCEPT ![o] = IdleOperator] /\ UNCHANGED hist
    BY <1>2 DEF EnqueueApproval
  <2>3. CASE u = t
    <3>1. Enqueueing(t)' = Enqueueing(t) \ {o} /\ o \in Enqueueing(t)
      BY <2>1, <2>2, <2>3, BaseTypes DEF Enqueueing, IdleOperator
    <3>2. Cardinality(Enqueueing(t)') = Cardinality(Enqueueing(t)) - 1
      BY <3>1, LoadTypes, FS_RemoveElement
    <3>3. queue'[t].fresh = queue[t].fresh + 1 /\ queue'[t].stalled = queue[t].stalled
      BY <2>1, <2>3, EnqueueEffect
    <3>4. QED
      BY <1>0, <2>2, <3>2, <3>3, LoadTypes, LoadShifted
  <2>4. CASE u # t
    <3>1. Enqueueing(t)' \subseteq Enqueueing(t)
      BY <2>2, BaseTypes DEF Enqueueing, IdleOperator
    <3>2. queue'[t] = queue[t]
      BY <2>1, <2>4, EnqueueEffect
    <3>3. QED
      BY <1>0, <2>2, <3>1, <3>2, LoadTypes, LoadKept
  <2>5. QED
    BY <2>3, <2>4
<1>3. CASE Decide(o) \/ WriteRejection(o) \/ RequestFails(o)
  <2>1. Enqueueing(t)' \subseteq Enqueueing(t)
    <3>1. operator'[o].pc # "enqueue" /\ \A p \in Operators \ {o} : operator'[p] = operator[p]
      <4>1. CASE WriteRejection(o) \/ RequestFails(o)
        BY <4>1, BaseTypes DEF WriteRejection, RequestFails, IdleOperator
      <4>2. CASE Decide(o)
        BY <4>2, BaseTypes DEF Decide, ReadForApproval, ReadForRejection
      <4>3. QED
        BY <1>3, <4>1, <4>2
    <3>2. QED
      BY <3>1 DEF Enqueueing
  <2>2. UNCHANGED queue
    BY <1>3 DEF Decide, ReadForApproval, ReadForRejection, WriteRejection, RequestFails
  <2>3. hist'[t].approvals = hist[t].approvals
    BY <1>3, RejectionEffect DEF Decide, ReadForApproval, ReadForRejection, RequestFails
  <2>4. QED
    BY <1>0, <2>1, <2>2, <2>3, LoadTypes, LoadKept
<1>4. QED
  BY <1>1, <1>2, <1>3 DEF Respond

LEMMA WorkerLoad ==
    ASSUME Base, Base', NEW t \in Tasks, Balanced(t), NEW w \in Workers,
           WorkerStep(w) \/ WorkerFault(w)
    PROVE  Balanced(t)'
<1>0. Enqueueing(t)' = Enqueueing(t) /\ hist'[t].approvals = hist[t].approvals
  BY WorkerKeeps DEF Enqueueing
<1>1. CASE Requeue(w)
  <2>1. PICK u \in Tasks : u = worker[w].task /\ Enqueue(u, "fresh")
    BY <1>1, MovesEffect DEF Requeue, Moves
  <2>2. OthersKept(w) /\ worker'[w].pc = "finish" /\ worker[w].pc = "requeue"
    BY <1>1, FinishEffect DEF Requeue
  <2>3. CASE u = t
    <3>1. Executing(t)' = Executing(t) \ {w} /\ w \in Executing(t)
      BY <2>1, <2>2, <2>3 DEF Executing, JobsOf, OthersKept, ExecutingPcs, ActivePcs
    <3>2. Cardinality(Executing(t)') = Cardinality(Executing(t)) - 1
      BY <3>1, LoadTypes, FS_RemoveElement
    <3>3. queue'[t].fresh = queue[t].fresh + 1 /\ queue'[t].stalled = queue[t].stalled
      BY <2>1, <2>3, EnqueueEffect
    <3>4. QED
      BY <1>0, <3>2, <3>3, LoadTypes, LoadShifted
  <2>4. CASE u # t
    <3>1. Executing(t)' \subseteq Executing(t)
      BY <2>2 DEF Executing, JobsOf, OthersKept, ExecutingPcs
    <3>2. queue'[t] = queue[t]
      BY <2>1, <2>4, EnqueueEffect
    <3>3. QED
      BY <1>0, <3>1, <3>2, LoadTypes, LoadKept
  <2>5. QED
    BY <2>3, <2>4
<1>2. CASE Moves(w) /\ ~ Requeue(w)
  <2>1. Executing(t)' \subseteq Executing(t)
    BY <1>2, MovesEffect DEF Executing, JobsOf, OthersKept, ExecutingPcs, ActivePcs
  <2>2. UNCHANGED queue
    BY <1>2 DEF Moves, CheckDuplicate, MarkDuplicateDone, ExecuteWithoutSending, SendReply,
                PersistReply, VerifyReply, ResumeConversation, SettleTask, FailTask, CatchError,
                CountRetry, Throw, LoseJob, RequeueFails
  <2>3. QED
    BY <1>0, <2>1, <2>2, LoadTypes, LoadKept
<1>3. CASE CompleteJob(w)
  <2>1. Executing(t)' \subseteq Executing(t) /\ UNCHANGED queue
    BY <1>3, BaseTypes DEF CompleteJob, Executing, JobsOf, IdleWorker, ExecutingPcs, ActivePcs
  <2>2. QED
    BY <1>0, <2>1, LoadTypes, LoadKept
<1>4. ASSUME NEW u \in Tasks, NEW attempt \in {"fresh", "stalled"}, StartJob(w, u, attempt)
      PROVE  Balanced(t)'
  <2>1. /\ OthersKept(w) /\ worker[w].pc = "idle" /\ worker'[w].task = u /\ queue[u][attempt] > 0
        /\ queue' = [queue EXCEPT ![u][attempt] = @ - 1]
    BY <1>4, StartEffect
  <2>2. CASE u = t
    <3>1. attempt = "fresh"
      BY <2>1, <2>2 DEF Balanced
    <3>2. queue'[t].fresh = queue[t].fresh - 1 /\ queue'[t].stalled = queue[t].stalled
      BY <2>1, <2>2, <3>1, DequeueEffect
    <3>3. w \notin Executing(t) /\ Executing(t)' \subseteq Executing(t) \cup {w}
      BY <2>1 DEF Executing, JobsOf, OthersKept, ExecutingPcs, ActivePcs
    <3>4. Cardinality(Executing(t)') <= Cardinality(Executing(t)) + 1 /\ Cardinality(Executing(t)') \in Nat
      <4>1. /\ IsFiniteSet(Executing(t) \cup {w})
            /\ Cardinality(Executing(t) \cup {w}) = Cardinality(Executing(t)) + 1
        BY <3>3, LoadTypes, FS_AddElement
      <4>2. QED
        BY <3>3, <4>1, FS_Subset, FS_CardinalityType
    <3>5. QED
      BY <1>0, <3>2, <3>4, LoadTypes, LoadShifted
  <2>3. CASE u # t
    <3>1. Executing(t)' \subseteq Executing(t)
      BY <2>1, <2>3 DEF Executing, JobsOf, OthersKept
    <3>2. queue'[t] = queue[t]
      BY <2>1, <2>3, DequeueEffect
    <3>3. QED
      BY <1>0, <3>1, <3>2, LoadTypes, LoadKept
  <2>4. QED
    BY <2>2, <2>3
<1>5. ASSUME NEW u \in Tasks, NEW attempt \in {"fresh", "stalled"}, StartFails(w, u, attempt)
      PROVE  Balanced(t)'
  <2>1. /\ UNCHANGED worker /\ queue[u][attempt] > 0
        /\ queue' = [queue EXCEPT ![u][attempt] = @ - 1]
    BY <1>5 DEF StartFails
  <2>2. Executing(t)' = Executing(t)
    BY <2>1 DEF Executing, JobsOf
  <2>3. CASE u = t
    <3>1. attempt = "fresh"
      BY <2>1, <2>3 DEF Balanced
    <3>2. queue'[t].fresh = queue[t].fresh - 1 /\ queue'[t].stalled = queue[t].stalled
      BY <2>1, <2>3, <3>1, DequeueEffect
    <3>3. queue'[t].fresh <= queue[t].fresh
      BY <3>2, LoadTypes
    <3>4. QED
      BY <1>0, <2>2, <3>2, <3>3, LoadKept
  <2>4. CASE u # t
    <3>1. queue'[t] = queue[t]
      BY <2>1, <2>4, DequeueEffect
    <3>2. QED
      BY <1>0, <2>2, <3>1, LoadTypes, LoadKept
  <2>5. QED
    BY <2>3, <2>4
<1>6. QED
  BY <1>1, <1>2, <1>3, <1>4, <1>5, WorkerSteps

\* Only a crash is counted as one.
LEMMA CrashesGrow ==
    ASSUME Base, [Next]_vars
    PROVE  used.crashes <= used'.crashes
<1>0. used.crashes \in Nat
  BY BaseTypes
<1>1. Fault => used'.crashes = used.crashes
  <2>1. Fault => used' = [used EXCEPT !.faults = @ + 1]
    BY DEF Fault
  <2>2. QED
    BY <2>1, BaseTypes
<1>2. ASSUME NEW w \in Workers, WorkerStep(w) \/ WorkerFault(w) PROVE UNCHANGED used \/ Fault
  BY <1>2 DEF WorkerStep, WorkerFault, StartJob, CheckDuplicate, MarkDuplicateDone,
       ExecuteWithoutSending, SendReply, PersistReply, VerifyReply, ResumeConversation, SettleTask,
       FailTask, CatchError, CountRetry, Requeue, CompleteJob, Throw, LoseJob, RequeueFails, StartFails
<1>3. CASE \/ \E m \in Messages : InboundStep(m) \/ InboundFails(m)
           \/ \E o \in Operators : Decide(o) \/ Respond(o) \/ RequestFails(o)
  BY <1>0, <1>1, <1>3, InboundKeeps, RequestKeeps
<1>4. CASE \E w \in Workers : WorkerStep(w) \/ WorkerFault(w)
  BY <1>0, <1>1, <1>2, <1>4
<1>5. CASE \E c \in Conversations, status \in {"SENT", "FAILED"} :
              \E i \in DOMAIN outbound[c] : StatusCallback(c, i, status)
  BY <1>0, <1>5, CallbackKeeps
<1>6. CASE Crash
  BY <1>0, <1>6, CrashEffect
<1>7. QED
  BY <1>0, <1>3, <1>4, <1>5, <1>6 DEF Next, Rest, vars

LEMMA NextLoad == Base /\ Base' /\ LoadInv /\ [Next]_vars => LoadInv'
<1> SUFFICES ASSUME Base, Base', LoadInv, [Next]_vars, used'.crashes = 0, NEW t \in Tasks
             PROVE  Balanced(t)'
  BY DEF LoadInv, Balanced
<1>1. ~ Crash
  BY CrashEffect
<1>2. used.crashes = 0
  BY CrashesGrow, BaseTypes
<1>3. Balanced(t)
  BY <1>2 DEF LoadInv, Balanced
<1>4. CASE \/ \E m \in Messages : InboundStep(m) \/ InboundFails(m)
           \/ \E c \in Conversations, status \in {"SENT", "FAILED"} :
                 \E i \in DOMAIN outbound[c] : StatusCallback(c, i, status)
           \/ UNCHANGED vars
  <2>1. UNCHANGED <<operator, worker, queue>>
    BY <1>4, InboundKeeps, CallbackKeeps DEF vars
  <2>2. hist'[t].approvals = hist[t].approvals
    BY <1>4, InboundKeeps, AppendEffect, CreateEffect, CallbackKeeps DEF vars
  <2>3. Enqueueing(t)' = Enqueueing(t) /\ Executing(t)' = Executing(t)
    BY <2>1 DEF Enqueueing, Executing, JobsOf
  <2>4. QED
    BY <1>3, <2>1, <2>2, <2>3, LoadTypes, LoadKept
<1>5. QED
  BY <1>1, <1>3, <1>4, OperatorLoad, WorkerLoad DEF Next, Rest

LEMMA LoadInvariant == Spec => []LoadInv
<1>1. Init => LoadInv
  <2> SUFFICES ASSUME Init, NEW t \in Tasks PROVE queue[t].stalled = 0 /\ Load(t) <= hist[t].approvals
    BY DEF LoadInv
  <2>1. Enqueueing(t) = {} /\ Executing(t) = {}
    BY DEF Init, Enqueueing, Executing, JobsOf, IdleOperator, IdleWorker, ExecutingPcs, ActivePcs
  <2>2. queue[t].fresh = 0 /\ queue[t].stalled = 0 /\ hist[t].approvals = 0
    BY DEF Init, NoHistory
  <2>3. QED
    BY <2>1, <2>2, FS_EmptySet DEF Load
<1>2. QED
  BY <1>1, NextLoad, BaseInvariant, PTL DEF Spec-----------------------------------------------------------------------------
(* A recorded send is not repeated.                                        *)

LEMMA MatchesGrow ==
    ASSUME Base, Base', LogKept, NEW row, row.conv \in Conversations,
           MatchingMessages(row, outbound[row.conv]) # {}
    PROVE  MatchingMessages(row, outbound'[row.conv]) # {}
<1>1. CASE TextToLookUp(row) # None
  BY <1>1, MatchesKept DEF Recorded
<1>2. CASE TextToLookUp(row) = None
  <2>1. PICK i \in DOMAIN outbound[row.conv] : outbound[row.conv][i].text = None
    BY <1>2 DEF MatchingMessages
  <2>2. outbound[row.conv] \in Seq(OutboundRow)
    BY BaseTypes
  <2>3. outbound[row.conv][i] \in OutboundRow
    BY <2>1, <2>2
  <2>4. QED
    BY <2>1, <2>3, NoneAssumption DEF OutboundRow
<1>3. QED
  BY <1>1, <1>2

\* One approval and no crash: one job.
LEMMA Alone ==
    ASSUME Base, LoadInv, NEW t \in Tasks, Single(t)
    PROVE  /\ \A v, w \in Executing(t) : v = w
           /\ queue[t].stalled = 0
           /\ queue[t].fresh > 0 => Executing(t) = {}
<1>1. queue[t].stalled = 0 /\ Load(t) <= 1
  BY LoadTypes DEF LoadInv, Single, Load
<1>2. Cardinality(Executing(t)) + queue[t].fresh <= 1
  BY <1>1, LoadTypes DEF Load
<1>3. queue[t].fresh > 0 => Executing(t) = {}
  <2>1. queue[t].fresh > 0 => Cardinality(Executing(t)) = 0
    BY <1>2, LoadTypes
  <2>2. QED
    BY <2>1, LoadTypes, FS_EmptySet
<1>4. ASSUME NEW v \in Executing(t), NEW w \in Executing(t) PROVE v = w
  <2>1. SUFFICES ASSUME v # w PROVE FALSE
    OBVIOUS
  <2>2. /\ IsFiniteSet(Executing(t) \ {v})
        /\ Cardinality(Executing(t) \ {v}) = Cardinality(Executing(t)) - 1
    BY LoadTypes, FS_RemoveElement
  <2>3. Cardinality(Executing(t) \ {v}) = 0
    BY <1>2, <2>2, LoadTypes, FS_CardinalityType
  <2>4. QED
    BY <2>1, <2>2, <2>3, FS_EmptySet
<1>5. QED
  BY <1>1, <1>3, <1>4

\* While a task was not approved nothing has been sent and nobody is at work on it.
LEMMA RepeatUntouched ==
    ASSUME Base', NEW t \in Tasks, hist'[t].sends = 0, Executing(t)' = {}
    PROVE  RepeatAt(t)'
<1>1. hist'[t].unrecorded \in Nat
  BY DEF Base, TypeInv, RestInv, History
<1>2. JobsOf(t, {"execute"})' \subseteq Executing(t)'
  BY DEF Executing, JobsOf, ExecutingPcs, ActivePcs
<1>3. QED
  BY <1>1, <1>2 DEF RepeatAt, SentOnce

\* The row of the task, as far as a lookup depends on it, and its history of sends.
SameReply(t) ==
    /\ task'[t].conv = task[t].conv /\ task'[t].since = task[t].since
    /\ task'[t].text = task[t].text /\ task'[t].sentText = task[t].sentText
    /\ hist'[t].approvals = hist[t].approvals

\* The jobs of the task: none starts, none comes to send, none drops a send.
SameJobs(t) ==
    /\ \A w \in Executing(t)' : w \in Executing(t) /\ worker'[w].snap = worker[w].snap
    /\ JobsOf(t, {"execute"})' \subseteq JobsOf(t, {"execute"})
    /\ \A w \in JobsOf(t, {"persist"}) :
          worker[w].ok => w \in JobsOf(t, {"persist"})' /\ worker'[w].ok

\* The record of a reply stays where it was found.
LEMMA ReplyRecordKept ==
    ASSUME Base, Base', SnapshotInv, LogKept, NEW t \in Tasks, RepeatAt(t), SameReply(t),
           hist[t].sends > 0, MatchingMessages(task[t], outbound[task[t].conv]) # {}
    PROVE  MatchingMessages(task'[t], outbound'[task'[t].conv]) # {}
<1>1. hist[t].approvals > 0
  BY BaseTypes DEF RepeatAt, History
<1>2. task[t].conv \in Conversations
  BY <1>1 DEF SnapshotInv
<1>3. MatchingMessages(task[t], outbound'[task[t].conv]) # {}
  BY <1>2, MatchesGrow
<1>4. QED
  BY <1>3 DEF SameReply, MatchingMessages, TextToLookUp

LEMMA RepeatKept ==
    ASSUME Base, Base', SnapshotInv, LogKept, NEW t \in Tasks, RepeatAt(t), SameReply(t),
           SameJobs(t), hist'[t].sends = hist[t].sends, hist'[t].unrecorded = hist[t].unrecorded
    PROVE  RepeatAt(t)'
<1>0. hist[t].sends \in Nat /\ hist[t].unrecorded \in Nat
  BY BaseTypes DEF History
<1>1. hist'[t].approvals = 0 => hist'[t].sends = 0
  BY DEF RepeatAt, SameReply
<1>2. \A w \in Executing(t)' : worker'[w].snap.sentText = task'[t].sentText
  BY DEF RepeatAt, SameReply, SameJobs
<1>3. ASSUME Unedited(t)' PROVE SentOnce(t)'
  <2>1. SentOnce(t)
    BY <1>3 DEF Unedited, TextToLookUp, SameReply, RepeatAt
  <2>2. ASSUME hist[t].sends > hist[t].unrecorded
        PROVE  \/ MatchingMessages(task'[t], outbound'[task'[t].conv]) # {}
               \/ \E w \in JobsOf(t, {"persist"})' : worker'[w].ok
    <3>1. CASE MatchingMessages(task[t], outbound[task[t].conv]) # {}
      BY <1>0, <2>2, <3>1, ReplyRecordKept
    <3>2. CASE \E w \in JobsOf(t, {"persist"}) : worker[w].ok
      BY <3>2 DEF SameJobs
    <3>3. QED
      BY <2>1, <2>2, <3>1, <3>2 DEF SentOnce
  <2>3. JobsOf(t, {"execute"})' # {} => hist[t].sends <= hist[t].unrecorded
    BY <2>1 DEF SentOnce, SameJobs
  <2>4. QED
    BY <2>1, <2>2, <2>3 DEF SentOnce
<1>4. QED
  BY <1>1, <1>2, <1>3 DEF RepeatAt
\* What a job knows of the task it alone is at work on.
LEMMA JobOfSingle ==
    ASSUME Base, TextInv, SnapshotInv, LoadInv, NEW w \in Workers, NEW t \in Tasks,
           worker[w].task = t, worker[w].pc \in ExecutingPcs, Single(t), RepeatAt(t)
    PROVE  /\ Executing(t) = {w}
           /\ worker[w].snap.conv = task[t].conv /\ worker[w].snap.since = task[t].since
           /\ worker[w].snap.text = task[t].text
           /\ worker[w].snap.sentText = task[t].sentText /\ worker[w].snap.sentText \in Texts
<1>1. w \in Executing(t)
  BY DEF Executing, JobsOf
<1>2. Executing(t) = {w}
  BY <1>1, Alone
<1>3. worker[w].snap.sentText \in hist[t].approved
  BY DEF TextInv, Single
<1>4. hist[t].approved \subseteq Texts
  BY BaseTypes DEF History
<1>5. QED
  BY <1>1, <1>2, <1>3, <1>4 DEF SnapshotInv, Single, RepeatAt

\* A step of the job that does not touch the sends.
LEMMA RepeatJob ==
    ASSUME Base, Base', SnapshotInv, LogKept, NEW w \in Workers, NEW t \in Tasks,
           RepeatAt(t), SameReply(t), OthersKept(w), worker'[w].task = worker[w].task,
           worker[w].pc \in ExecutingPcs,
           worker'[w].pc = "finish" \/ (worker'[w].pc \in ExecutingPcs \ {"execute"} /\ SameJob(w)),
           worker[w].pc = "persist" => ~ worker[w].ok,
           hist'[t].sends = hist[t].sends, hist'[t].unrecorded = hist[t].unrecorded
    PROVE  RepeatAt(t)'
<1>1. \A v \in Executing(t)' : v \in Executing(t) /\ worker'[v].snap = worker[v].snap
  BY DEF Executing, JobsOf, OthersKept, SameJob, ExecutingPcs, ActivePcs
<1>2. JobsOf(t, {"execute"})' \subseteq JobsOf(t, {"execute"})
  BY DEF JobsOf, OthersKept
<1>3. \A v \in JobsOf(t, {"persist"}) :
          worker[v].ok => v \in JobsOf(t, {"persist"})' /\ worker'[v].ok
  BY DEF JobsOf, OthersKept
<1>4. QED
  BY <1>1, <1>2, <1>3, RepeatKept DEF SameJobs

\* Guard 2 lets a job send only if no send of the task is recorded.
LEMMA RepeatGuard ==
    ASSUME Base, Base', TextInv, SnapshotInv, LoadInv, LogKept, NEW w \in Workers, NEW t \in Tasks,
           worker[w].task = t, Single(t), RepeatAt(t), CheckDuplicate(w)
    PROVE  RepeatAt(t)'
<1>1. /\ OthersKept(w) /\ SameJob(w) /\ worker[w].pc = "guard" /\ worker[w].pc \in ExecutingPcs
      /\ UNCHANGED <<task, outbound, hist>>
  BY GuardEffect DEF CheckDuplicate, ExecutingPcs, ActivePcs
<1>2. Executing(t) = {w}
  BY <1>1, JobOfSingle
<1>3. SameReply(t)
  BY <1>1 DEF SameReply
<1>4. CASE worker'[w].pc = "markDuplicate"
  <2>1. worker'[w].pc \in ExecutingPcs \ {"execute"} /\ worker'[w].task = worker[w].task
    BY <1>1, <1>4 DEF ExecutingPcs, ActivePcs, SameJob
  <2>2. QED
    BY <1>1, <1>3, <2>1, RepeatJob
<1>5. CASE worker'[w].pc = "execute"
  <2>1. MatchingMessages(worker[w].snap, outbound[worker[w].snap.conv]) = {}
    BY <1>5, GuardEffect
  <2>2. MatchingMessages(task[t], outbound[task[t].conv]) = {}
    BY <1>1, <2>1, JobOfSingle DEF MatchingMessages, TextToLookUp
  <2>3. \A v \in Workers : v \notin JobsOf(t, {"persist"})
    <3>1. JobsOf(t, {"persist"}) \subseteq Executing(t)
      BY DEF JobsOf, Executing, ExecutingPcs, ActivePcs
    <3>2. QED
      BY <1>1, <1>2, <3>1 DEF JobsOf
  <2>4. hist[t].sends \in Nat /\ hist[t].unrecorded \in Nat
    BY BaseTypes DEF History
  <2>5. Unedited(t) => hist[t].sends <= hist[t].unrecorded
    <3>1. JobsOf(t, {"persist"}) = {}
      BY <2>3 DEF JobsOf
    <3>2. QED
      BY <2>2, <2>4, <3>1 DEF RepeatAt, SentOnce
  <2>6. Executing(t)' \subseteq {w} /\ worker'[w].snap = worker[w].snap
    BY <1>1, <1>2 DEF Executing, JobsOf, OthersKept, SameJob
  <2>7. \A v \in Executing(t)' : worker'[v].snap.sentText = task'[t].sentText
    BY <1>1, <2>6, JobOfSingle
  <2>8. Unedited(t)' => SentOnce(t)'
    BY <1>1, <2>4, <2>5 DEF Unedited, TextToLookUp, SentOnce
  <2>9. QED
    BY <1>1, <2>7, <2>8 DEF RepeatAt
<1>6. QED
  BY <1>4, <1>5, GuardEffect

\* The send itself.
LEMMA RepeatSend ==
    ASSUME Base, Base', TextInv, SnapshotInv, LoadInv, LogKept, NEW w \in Workers, NEW t \in Tasks,
           worker[w].task = t, Single(t), RepeatAt(t), SendReply(w, TRUE)
    PROVE  RepeatAt(t)'
<1>1. /\ OthersKept(w) /\ SameJob(w) /\ worker[w].pc = "execute" /\ worker[w].pc \in ExecutingPcs
      /\ worker'[w].pc = "persist" /\ worker'[w].ok
      /\ UNCHANGED <<task, outbound>>
      /\ hist'[t].sends = hist[t].sends + 1 /\ hist'[t].unrecorded = hist[t].unrecorded
      /\ hist'[t].approvals = hist[t].approvals
  BY SendEffect DEF ExecutingPcs, ActivePcs
<1>2. Executing(t) = {w}
  BY <1>1, JobOfSingle
<1>3. Executing(t)' \subseteq {w} /\ worker'[w].snap = worker[w].snap
  BY <1>1, <1>2 DEF Executing, JobsOf, OthersKept, SameJob
<1>4. \A v \in Executing(t)' : worker'[v].snap.sentText = task'[t].sentText
  BY <1>1, <1>3, JobOfSingle
<1>5. hist[t].sends \in Nat /\ hist[t].unrecorded \in Nat
  BY BaseTypes DEF History
<1>6. ASSUME Unedited(t)' PROVE SentOnce(t)'
  <2>1. w \in JobsOf(t, {"execute"})
    BY <1>1 DEF JobsOf
  <2>2. SentOnce(t)
    BY <1>1, <1>6 DEF Unedited, TextToLookUp, RepeatAt
  <2>3. hist[t].sends <= hist[t].unrecorded
    BY <2>1, <2>2 DEF SentOnce
  <2>4. JobsOf(t, {"execute"})' = {}
    <3>1. JobsOf(t, {"execute"})' \subseteq Executing(t)'
      BY DEF JobsOf, Executing, ExecutingPcs, ActivePcs
    <3>2. QED
      BY <1>1, <1>3, <3>1 DEF JobsOf
  <2>5. w \in JobsOf(t, {"persist"})'
    BY <1>1 DEF JobsOf, SameJob
  <2>6. hist'[t].sends <= 1 + hist'[t].unrecorded
    BY <1>1, <1>5, <2>3
  <2>7. QED
    BY <1>1, <2>4, <2>5, <2>6 DEF SentOnce
<1>7. hist'[t].approvals > 0
  BY <1>1 DEF SnapshotInv
<1>8. QED
  BY <1>4, <1>6, <1>7 DEF RepeatAt

\* The record of an accepted send is one its text finds again.
LEMMA RepeatPersist ==
    ASSUME Base, Base', TextInv, SnapshotInv, LoadInv, LogKept, NEW w \in Workers, NEW t \in Tasks,
           worker[w].task = t, Single(t), RepeatAt(t), PersistReply(w), worker[w].ok
    PROVE  RepeatAt(t)'
<1>1. /\ OthersKept(w) /\ SameJob(w) /\ worker[w].pc = "persist" /\ worker[w].pc \in ExecutingPcs
      /\ worker'[w].pc = "verify" /\ UNCHANGED <<task, hist>>
  BY PersistEffect DEF ExecutingPcs, ActivePcs
<1>2. /\ Executing(t) = {w}
      /\ worker[w].snap.conv = task[t].conv /\ worker[w].snap.since = task[t].since
      /\ worker[w].snap.text = task[t].text
      /\ worker[w].snap.sentText = task[t].sentText /\ worker[w].snap.sentText \in Texts
  BY <1>1, JobOfSingle
<1>3. Executing(t)' \subseteq {w} /\ worker'[w].snap = worker[w].snap
  BY <1>1, <1>2 DEF Executing, JobsOf, OthersKept, SameJob
<1>4. \A v \in Executing(t)' : worker'[v].snap.sentText = task'[t].sentText
  BY <1>1, <1>2, <1>3
<1>5. ASSUME Unedited(t)' PROVE SentOnce(t)'
  <2>1. SentOnce(t)
    BY <1>1, <1>5 DEF Unedited, TextToLookUp, RepeatAt
  <2>2. task[t].sentText = task[t].text
    BY <1>1, <1>5 DEF Unedited, TextToLookUp
  <2>3. worker[w].snap.sentText = worker[w].snap.text
    BY <1>2, <2>2
  <2>4. ~ hist[t].overwritten
    BY DEF Single
  <2>5. Recorded(worker[w].snap, outbound')
    BY <2>3, <2>4, PersistRecords
  <2>6. MatchingMessages(worker[w].snap, outbound'[worker[w].snap.conv]) # {}
    BY <1>2, <2>3, <2>5, NoneAssumption DEF Recorded, TextToLookUp
  <2>7. MatchingMessages(task'[t], outbound'[task'[t].conv]) # {}
    BY <1>1, <1>2, <2>6 DEF MatchingMessages, TextToLookUp
  <2>8. JobsOf(t, {"execute"})' = {}
    <3>1. JobsOf(t, {"execute"})' \subseteq Executing(t)'
      BY DEF JobsOf, Executing, ExecutingPcs, ActivePcs
    <3>2. QED
      BY <1>1, <1>3, <3>1 DEF JobsOf
  <2>9. QED
    BY <1>1, <2>1, <2>7, <2>8 DEF SentOnce
<1>6. QED
  BY <1>1, <1>4, <1>5 DEF RepeatAt

\* An error before the record is written: the send is lost.
LEMMA RepeatLost ==
    ASSUME Base, Base', TextInv, SnapshotInv, LoadInv, LogKept, NEW w \in Workers, NEW t \in Tasks,
           worker[w].task = t, Single(t), RepeatAt(t), Throw(w), worker[w].pc = "persist",
           worker[w].ok
    PROVE  RepeatAt(t)'
<1>1. /\ OthersKept(w) /\ SameJob(w) /\ worker[w].pc \in ExecutingPcs /\ worker'[w].pc = "catch"
      /\ UNCHANGED <<task, outbound>>
      /\ hist'[t].sends = hist[t].sends /\ hist'[t].unrecorded = hist[t].unrecorded + 1
      /\ hist'[t].approvals = hist[t].approvals
  BY ThrowEffect DEF ExecutingPcs, ActivePcs
<1>2. Executing(t) = {w}
  BY <1>1, JobOfSingle
<1>3. Executing(t)' \subseteq {w} /\ worker'[w].snap = worker[w].snap
  BY <1>1, <1>2 DEF Executing, JobsOf, OthersKept, SameJob
<1>4. \A v \in Executing(t)' : worker'[v].snap.sentText = task'[t].sentText
  BY <1>1, <1>3, JobOfSingle
<1>5. hist[t].sends \in Nat /\ hist[t].unrecorded \in Nat
  BY BaseTypes DEF History
<1>6. ASSUME Unedited(t)' PROVE SentOnce(t)'
  <2>1. SentOnce(t)
    BY <1>1, <1>6 DEF Unedited, TextToLookUp, RepeatAt
  <2>2. hist'[t].sends <= hist'[t].unrecorded
    BY <1>1, <1>5, <2>1 DEF SentOnce
  <2>3. hist'[t].sends <= 1 + hist'[t].unrecorded /\ ~ hist'[t].sends > hist'[t].unrecorded
    BY <1>1, <1>5, <2>2
  <2>4. QED
    BY <2>2, <2>3 DEF SentOnce
<1>7. hist'[t].approvals > 0
  BY <1>1 DEF SnapshotInv
<1>8. QED
  BY <1>4, <1>6, <1>7 DEF RepeatAt
LEMMA RepeatMoves ==
    ASSUME Base, Base', TextInv, SnapshotInv, LoadInv, LogKept, NEW w \in Workers, NEW t \in Tasks,
           worker[w].task = t, Single(t), RepeatAt(t), Moves(w), SameReply(t)
    PROVE  RepeatAt(t)'
<1>0. OthersKept(w) /\ worker[w].pc \in ExecutingPcs /\ worker'[w].task = worker[w].task
  BY MovesEffect
<1>1. CASE CheckDuplicate(w)
  BY <1>1, RepeatGuard
<1>2. CASE SendReply(w, TRUE)
  BY <1>2, RepeatSend
<1>3. CASE SendReply(w, FALSE)
  <2>1. /\ SameJob(w) /\ worker[w].pc = "execute" /\ worker'[w].pc = "persist"
        /\ hist'[t].sends = hist[t].sends /\ hist'[t].unrecorded = hist[t].unrecorded
    BY <1>3, SendEffect
  <2>2. worker'[w].pc \in ExecutingPcs \ {"execute"}
    BY <2>1 DEF ExecutingPcs, ActivePcs
  <2>3. QED
    BY <1>0, <2>1, <2>2, RepeatJob
<1>4. CASE PersistReply(w)
  <2>1. CASE worker[w].ok
    BY <1>4, <2>1, RepeatPersist
  <2>2. CASE ~ worker[w].ok
    <3>1. SameJob(w) /\ worker'[w].pc = "catch" /\ UNCHANGED hist
      BY <1>4, <2>2, PersistEffect
    <3>2. worker'[w].pc \in ExecutingPcs \ {"execute"}
      BY <3>1 DEF ExecutingPcs, ActivePcs
    <3>3. QED
      BY <1>0, <2>2, <3>1, <3>2, RepeatJob
  <2>3. QED
    BY <2>1, <2>2
<1>5. CASE Throw(w)
  <2>1. CASE worker[w].pc = "persist" /\ worker[w].ok
    BY <1>5, <2>1, RepeatLost
  <2>2. CASE ~ (worker[w].pc = "persist" /\ worker[w].ok)
    <3>1. /\ SameJob(w) /\ worker'[w].pc = "catch"
          /\ hist'[t].sends = hist[t].sends /\ hist'[t].unrecorded = hist[t].unrecorded
      BY <1>5, <2>2, ThrowEffect
    <3>2. worker'[w].pc \in ExecutingPcs \ {"execute"}
      BY <3>1 DEF ExecutingPcs, ActivePcs
    <3>3. QED
      BY <1>0, <2>2, <3>1, <3>2, RepeatJob
  <2>3. QED
    BY <2>1, <2>2
<1>6. CASE \/ MarkDuplicateDone(w) \/ ExecuteWithoutSending(w) \/ VerifyReply(w)
           \/ ResumeConversation(w) \/ SettleTask(w) \/ FailTask(w) \/ CatchError(w)
           \/ CountRetry(w) \/ Requeue(w) \/ LoseJob(w) \/ RequeueFails(w)
  <2>1. UNCHANGED hist /\ worker[w].pc # "persist"
    BY <1>6 DEF MarkDuplicateDone, ExecuteWithoutSending, VerifyReply, ResumeConversation,
                SettleTask, FailTask, CatchError, CountRetry, Requeue, LoseJob, RequeueFails
  <2>2. worker'[w].pc # "execute"
    <3>1. CASE VerifyReply(w) \/ CatchError(w)
      BY <3>1, VerifyEffect, CatchEffect
    <3>2. CASE ~ (VerifyReply(w) \/ CatchError(w))
      <4>1. Finish(w) \/ \E pc \in {"verify", "settle", "requeue", "giveUp"} : WorkerGoto(w, pc)
        BY <1>6, <3>2 DEF MarkDuplicateDone, ExecuteWithoutSending, ResumeConversation, SettleTask,
                          FailTask, CountRetry, Requeue, LoseJob, RequeueFails
      <4>2. QED
        BY <4>1, GotoEffect, FinishEffect
    <3>3. QED
      BY <3>1, <3>2
  <2>3. worker'[w].pc = "finish" \/ (worker'[w].pc \in ExecutingPcs \ {"execute"} /\ SameJob(w))
    BY <2>2, MovesEffect
  <2>4. QED
    BY <1>0, <2>1, <2>3, RepeatJob
<1>7. QED
  BY <1>1, <1>2, <1>3, <1>4, <1>5, <1>6 DEF Moves

\* The next job of the task starts when no other is at work on it; an unedited
\* reply has a text to look up, so it starts with Guard 2.
LEMMA RepeatStart ==
    ASSUME Base, Base', TextInv, SnapshotInv, LoadInv, LogKept, NEW w \in Workers, NEW t \in Tasks,
           NEW attempt \in {"fresh", "stalled"}, Single(t), RepeatAt(t), StartJob(w, t, attempt)
    PROVE  RepeatAt(t)'
<1>1. /\ OthersKept(w) /\ worker[w].pc = "idle" /\ worker'[w].task = t
      /\ queue[t][attempt] > 0 /\ UNCHANGED <<task, outbound, hist>>
  BY StartEffect
<1>2. Executing(t) = {}
  BY <1>1, Alone
<1>3. CASE ~ IsApproved(task[t])
  <2>1. worker'[w].pc = "finish"
    BY <1>3, StartEffect
  <2>2. OthersKept(w) /\ worker'[w].pc \notin ExecutingPcs
    BY <1>1, <2>1 DEF ExecutingPcs
  <2>3. Executing(t)' = {}
    BY <1>2, <2>2 DEF Executing, JobsOf, OthersKept
  <2>4. SameJobs(t)
    <3>1. /\ JobsOf(t, {"execute"})' \subseteq Executing(t)'
          /\ JobsOf(t, {"persist"}) \subseteq Executing(t)
      BY DEF JobsOf, Executing, ExecutingPcs, ActivePcs
    <3>2. QED
      BY <1>2, <2>3, <3>1 DEF SameJobs
  <2>5. QED
    BY <1>1, <2>4, RepeatKept DEF SameReply
<1>4. CASE IsApproved(task[t])
  <2>1. worker'[w].snap = task[t]
        /\ worker'[w].pc = IF TextToLookUp(task[t]) # None THEN "guard" ELSE "execute"
    BY <1>4, StartEffect
  <2>2. Executing(t)' \subseteq {w}
    BY <1>1, <1>2 DEF Executing, JobsOf, OthersKept
  <2>3. \A v \in Executing(t)' : worker'[v].snap.sentText = task'[t].sentText
    BY <1>1, <2>1, <2>2
  <2>4. task[t].sentText # None
    <3>1. task[t].sentText \in hist[t].approved
      BY <1>4 DEF TextInv, Single, IsApproved
    <3>2. hist[t].approved \subseteq Texts
      BY BaseTypes DEF History
    <3>3. QED
      BY <3>1, <3>2, NoneAssumption
  <2>5. ASSUME Unedited(t)' PROVE SentOnce(t)'
    <3>1. SentOnce(t) /\ TextToLookUp(task[t]) # None
      BY <1>1, <2>4, <2>5 DEF Unedited, RepeatAt
    <3>2. worker'[w].pc = "guard"
      BY <2>1, <3>1
    <3>3. JobsOf(t, {"execute"})' = {}
      <4>1. JobsOf(t, {"execute"})' \subseteq Executing(t)'
        BY DEF JobsOf, Executing, ExecutingPcs, ActivePcs
      <4>2. QED
        BY <2>2, <3>2, <4>1 DEF JobsOf
    <3>4. JobsOf(t, {"persist"}) = {}
      <4>1. JobsOf(t, {"persist"}) \subseteq Executing(t)
        BY DEF JobsOf, Executing, ExecutingPcs, ActivePcs
      <4>2. QED
        BY <1>2, <4>1
    <3>5. QED
      BY <1>1, <3>1, <3>3, <3>4 DEF SentOnce
  <2>6. QED
    BY <1>1, <2>3, <2>5 DEF RepeatAt
<1>5. QED
  BY <1>3, <1>4

\* A step of a job of another task.
LEMMA RepeatElsewhere ==
    ASSUME Base, Base', SnapshotInv, LogKept, NEW w \in Workers, NEW t \in Tasks, RepeatAt(t),
           SameReply(t), OthersKept(w), worker[w].task # t \/ worker[w].pc \notin ExecutingPcs,
           worker'[w].task # t \/ worker'[w].pc \notin ExecutingPcs,
           hist'[t].sends = hist[t].sends, hist'[t].unrecorded = hist[t].unrecorded
    PROVE  RepeatAt(t)'
<1>1. \A v \in Executing(t)' : v \in Executing(t) /\ worker'[v].snap = worker[v].snap
  BY DEF Executing, JobsOf, OthersKept
<1>2. w \notin JobsOf(t, {"persist"}) /\ w \notin JobsOf(t, {"execute"})'
  BY DEF JobsOf, ExecutingPcs, ActivePcs
<1>3. JobsOf(t, {"execute"})' \subseteq JobsOf(t, {"execute"})
  BY <1>2 DEF JobsOf, OthersKept
<1>4. \A v \in JobsOf(t, {"persist"}) :
          worker[v].ok => v \in JobsOf(t, {"persist"})' /\ worker'[v].ok
  BY <1>2 DEF JobsOf, OthersKept
<1>5. QED
  BY <1>1, <1>3, <1>4, RepeatKept DEF SameJobs

LEMMA RepeatWorker ==
    ASSUME Base, Base', TextInv, SnapshotInv, LoadInv, LogKept, NEW w \in Workers, NEW t \in Tasks,
           Single(t), RepeatAt(t), WorkerStep(w) \/ WorkerFault(w)
    PROVE  RepeatAt(t)'
<1>0. SameReply(t)
  BY WorkerKeeps DEF SameReply
<1>1. CASE Moves(w)
  <2>1. CASE worker[w].task = t
    BY <1>0, <1>1, <2>1, RepeatMoves
  <2>2. CASE worker[w].task # t
    <3>1. OthersKept(w) /\ worker'[w].task # t
      BY <1>1, <2>2, MovesEffect
    <3>2. hist'[t].sends = hist[t].sends /\ hist'[t].unrecorded = hist[t].unrecorded
      <4>1. CASE Throw(w)
        BY <2>2, <4>1, ThrowEffect
      <4>2. ASSUME NEW accepted \in BOOLEAN, SendReply(w, accepted)
            PROVE  hist'[t].sends = hist[t].sends /\ hist'[t].unrecorded = hist[t].unrecorded
        BY <2>2, <4>2, SendEffect
      <4>3. Throw(w) \/ (\E accepted \in BOOLEAN : SendReply(w, accepted)) \/ UNCHANGED hist
        BY <1>1 DEF Moves, CheckDuplicate, MarkDuplicateDone, ExecuteWithoutSending, PersistReply,
             VerifyReply, ResumeConversation, SettleTask, FailTask, CatchError, CountRetry, Requeue,
             LoseJob, RequeueFails
      <4>4. QED
        BY <4>1, <4>2, <4>3
    <3>3. QED
      BY <1>0, <2>2, <3>1, <3>2, RepeatElsewhere
  <2>3. QED
    BY <2>1, <2>2
<1>2. CASE CompleteJob(w)
  <2>1. OthersKept(w) /\ worker[w].pc = "finish" /\ worker'[w].pc = "idle" /\ UNCHANGED hist
    BY <1>2, BaseTypes DEF CompleteJob, OthersKept, IdleWorker
  <2>2. worker[w].pc \notin ExecutingPcs /\ worker'[w].pc \notin ExecutingPcs
    BY <2>1 DEF ExecutingPcs, ActivePcs
  <2>3. QED
    BY <1>0, <2>1, <2>2, RepeatElsewhere
<1>3. ASSUME NEW u \in Tasks, NEW attempt \in {"fresh", "stalled"}, StartJob(w, u, attempt)
      PROVE  RepeatAt(t)'
  <2>1. CASE u = t
    BY <1>3, <2>1, RepeatStart
  <2>2. CASE u # t
    <3>1. /\ OthersKept(w) /\ worker[w].pc = "idle" /\ worker'[w].task # t /\ UNCHANGED hist
      BY <1>3, <2>2, StartEffect
    <3>2. worker[w].pc \notin ExecutingPcs
      BY <3>1 DEF ExecutingPcs, ActivePcs
    <3>3. QED
      BY <1>0, <3>1, <3>2, RepeatElsewhere
  <2>3. QED
    BY <2>1, <2>2
<1>4. ASSUME NEW u \in Tasks, NEW attempt \in {"fresh", "stalled"}, StartFails(w, u, attempt)
      PROVE  RepeatAt(t)'
  <2>1. worker[w].pc = "idle" /\ UNCHANGED <<worker, hist>>
    BY <1>4 DEF StartFails
  <2>2. OthersKept(w) /\ worker[w].pc \notin ExecutingPcs /\ worker'[w].pc \notin ExecutingPcs
    BY <2>1 DEF OthersKept, ExecutingPcs, ActivePcs
  <2>3. QED
    BY <1>0, <2>1, <2>2, RepeatElsewhere
<1>5. QED
  BY <1>1, <1>2, <1>3, <1>4, WorkerSteps

LEMMA RepeatOperator ==
    ASSUME Base, Base', SnapshotInv, LogKept, NEW o \in Operators, NEW t \in Tasks,
           RepeatAt(t), Single(t)', Decide(o) \/ Respond(o) \/ RequestFails(o)
    PROVE  RepeatAt(t)'
<1>1. UNCHANGED <<worker, outbound>>
  BY RequestKeeps
<1>2. SameJobs(t)
  BY <1>1 DEF SameJobs, Executing, JobsOf
<1>3. CASE WriteApproval(o) /\ operator[o].task = t
  <2>1. hist'[t].approvals = hist[t].approvals + 1 /\ hist'[t].sends = hist[t].sends
    BY <1>3, ApprovalEffect
  <2>2. hist[t].approvals = 0
    BY <2>1, BaseTypes DEF Single, History
  <2>3. hist'[t].sends = 0
    BY <2>1, <2>2 DEF RepeatAt
  <2>4. Executing(t) = {}
    BY <2>2 DEF SnapshotInv, Executing, JobsOf
  <2>5. Executing(t)' = {}
    BY <1>1, <2>4 DEF Executing, JobsOf
  <2>6. QED
    BY <2>3, <2>5, RepeatUntouched
<1>4. CASE ~ (WriteApproval(o) /\ operator[o].task = t)
  <2>1. SameReply(t) /\ hist'[t].sends = hist[t].sends /\ hist'[t].unrecorded = hist[t].unrecorded
    <3>1. CASE UNCHANGED <<task, hist>>
      BY <3>1 DEF SameReply
    <3>2. CASE WriteApproval(o)
      BY <1>4, <3>2, ApprovalEffect DEF SameReply
    <3>3. CASE WriteRejection(o)
      BY <3>3, RejectionEffect DEF SameReply
    <3>4. QED
      BY <3>1, <3>2, <3>3, RequestKeeps
  <2>2. QED
    BY <1>2, <2>1, RepeatKept
<1>5. QED
  BY <1>3, <1>4

LEMMA RepeatInbound ==
    ASSUME Base, Base', SnapshotInv, LogKept, NEW m \in Messages, NEW t \in Tasks,
           RepeatAt(t), Single(t)', InboundStep(m) \/ InboundFails(m)
    PROVE  RepeatAt(t)'
<1>1. UNCHANGED <<worker, outbound>>
  BY InboundKeeps
<1>2. SameJobs(t)
  BY <1>1 DEF SameJobs, Executing, JobsOf
<1>3. ASSUME hist[t].approvals = 0, hist'[t].sends = hist[t].sends PROVE RepeatAt(t)'
  <2>1. hist'[t].sends = 0
    BY <1>3 DEF RepeatAt
  <2>2. Executing(t) = {}
    BY <1>3 DEF SnapshotInv, Executing, JobsOf
  <2>3. Executing(t)' = {}
    BY <1>1, <2>2 DEF Executing, JobsOf
  <2>4. QED
    BY <2>1, <2>3, RepeatUntouched
<1>4. ASSUME UNCHANGED <<task[t], hist[t]>> PROVE RepeatAt(t)'
  BY <1>2, <1>4, RepeatKept DEF SameReply
<1>5. CASE AppendToTask(m)
  <2>1. CASE inbound[m].task = t
    <3>1. ~ hist[t].approvals > 0 /\ hist'[t].sends = hist[t].sends
      BY <1>5, <2>1, AppendEffect DEF Single
    <3>2. hist[t].approvals = 0
      BY <3>1, BaseTypes DEF History
    <3>3. QED
      BY <1>3, <3>1, <3>2
  <2>2. CASE inbound[m].task # t
    BY <1>4, <1>5, <2>2, AppendEffect
  <2>3. QED
    BY <2>1, <2>2
<1>6. CASE CreateTask(m)
  <2>1. UNCHANGED hist /\ (task[t].status = "ABSENT" \/ task'[t] = task[t])
    BY <1>6, CreateEffect
  <2>2. CASE task[t].status = "ABSENT"
    <3>1. hist[t].approvals = 0
      BY <2>2, BaseTypes DEF SnapshotInv, History
    <3>2. QED
      BY <1>3, <2>1, <3>1
  <2>3. QED
    BY <1>4, <2>1, <2>2
<1>7. QED
  BY <1>4, <1>5, <1>6, InboundKeeps

\* What makes a task single now made it single before.
LEMMA SingleBefore ==
    ASSUME Base, Base', [Next]_vars, NEW t \in Tasks, Single(t)'
    PROVE  Single(t)
<1>1. hist[t].approvals \in Nat /\ used.crashes \in Nat
  BY BaseTypes DEF History
<1>2. hist[t].approvals <= hist'[t].approvals /\ (hist[t].overwritten => hist'[t].overwritten)
  <2>1. CASE \E m \in Messages : InboundStep(m) \/ InboundFails(m)
    <3>1. PICK m \in Messages : InboundStep(m) \/ InboundFails(m)
      BY <2>1
    <3>2. CASE AppendToTask(m)
      <4>1. hist'[t].approvals = hist[t].approvals
        BY <3>2, AppendEffect
      <4>2. hist[t].overwritten => hist'[t].overwritten
        BY <3>2, AppendEffect
      <4>3. QED
        BY <1>1, <4>1, <4>2
    <3>3. CASE UNCHANGED hist
      BY <1>1, <3>3
    <3>4. AppendToTask(m) \/ UNCHANGED hist
      BY <3>1, InboundKeeps, CreateEffect
    <3>5. QED
      BY <3>2, <3>3, <3>4
  <2>2. ASSUME NEW o \in Operators, Decide(o) \/ Respond(o) \/ RequestFails(o)
        PROVE  hist[t].approvals <= hist'[t].approvals /\ hist[t].overwritten = hist'[t].overwritten
    <3>1. CASE UNCHANGED hist
      BY <1>1, <3>1
    <3>2. CASE WriteApproval(o)
      BY <1>1, <3>2, ApprovalEffect
    <3>3. CASE WriteRejection(o)
      BY <1>1, <3>3, RejectionEffect
    <3>4. QED
      BY <2>2, <3>1, <3>2, <3>3, RequestKeeps
  <2>3. CASE \E w \in Workers : WorkerStep(w) \/ WorkerFault(w)
    BY <1>1, <2>3, WorkerKeeps
  <2>4. CASE Crash
    BY <1>1, <2>4, CrashEffect
  <2>5. CASE \/ UNCHANGED vars
             \/ \E c \in Conversations, status \in {"SENT", "FAILED"} :
                   \E i \in DOMAIN outbound[c] : StatusCallback(c, i, status)
    <3>1. UNCHANGED hist
      BY <2>5 DEF vars, StatusCallback
    <3>2. QED
      BY <1>1, <3>1
  <2>6. QED
    BY <2>1, <2>2, <2>3, <2>4, <2>5 DEF Next, Rest
<1>3. used.crashes <= used'.crashes
  BY <1>1, CrashesGrow
<1>4. hist'[t].approvals <= 1 /\ ~ hist'[t].overwritten /\ used'.crashes = 0
  BY DEF Single
<1>5. hist[t].approvals <= 1 /\ used.crashes = 0
  <2>1. hist'[t].approvals \in Nat /\ used'.crashes \in Nat
    BY DEF Base, TypeInv, RestInv, History
  <2>2. QED
    BY <1>1, <1>2, <1>3, <1>4, <2>1
<1>6. QED
  BY <1>2, <1>4, <1>5 DEF Single
LEMMA NextRepeat ==
    Base /\ Base' /\ TextInv /\ SnapshotInv /\ LoadInv /\ RepeatInv /\ [Next]_vars => RepeatInv'
<1> SUFFICES ASSUME Base, Base', TextInv, SnapshotInv, LoadInv, RepeatInv, [Next]_vars,
                    NEW t \in Tasks, Single(t)'
             PROVE  RepeatAt(t)'
  BY DEF RepeatInv
<1>1. Single(t) /\ RepeatAt(t)
  BY SingleBefore DEF RepeatInv
<1>2. LogKept
  BY NextLog
<1>3. CASE \E m \in Messages : InboundStep(m) \/ InboundFails(m)
  BY <1>1, <1>2, <1>3, RepeatInbound
<1>4. CASE \E o \in Operators : Decide(o) \/ Respond(o) \/ RequestFails(o)
  BY <1>1, <1>2, <1>4, RepeatOperator
<1>5. CASE \E w \in Workers : WorkerStep(w) \/ WorkerFault(w)
  BY <1>1, <1>2, <1>5, RepeatWorker
<1>6. CASE \/ UNCHANGED vars
           \/ \E c \in Conversations, status \in {"SENT", "FAILED"} :
                 \E i \in DOMAIN outbound[c] : StatusCallback(c, i, status)
  <2>1. UNCHANGED <<task, worker, hist>>
    BY <1>6 DEF vars, StatusCallback
  <2>2. SameReply(t) /\ SameJobs(t)
    BY <2>1 DEF SameReply, SameJobs, Executing, JobsOf
  <2>3. QED
    BY <1>1, <1>2, <2>1, <2>2, RepeatKept
<1>7. ~ Crash
  BY CrashEffect DEF Single
<1>8. QED
  BY <1>3, <1>4, <1>5, <1>6, <1>7 DEF Next, Rest

\* Approved once, unedited and not overwritten, a reply is sent again only as
\* often as the record of a send was lost, as long as the process does not crash:
\* whatever else fails, and whatever jobs and requests run beside it.
THEOREM RecordedSendsNotRepeated == Spec => []RecordedSendNotRepeated
<1>1. Init => RepeatInv
  <2> SUFFICES ASSUME Init, NEW t \in Tasks PROVE RepeatAt(t)
    BY DEF RepeatInv
  <2>1. Executing(t) = {} /\ JobsOf(t, {"execute"}) = {}
    BY DEF Init, Executing, JobsOf, IdleWorker, ExecutingPcs, ActivePcs
  <2>2. hist[t].sends = 0 /\ hist[t].unrecorded = 0
    BY DEF Init, NoHistory
  <2>3. QED
    BY <2>1, <2>2 DEF RepeatAt, SentOnce
<1>2. RepeatInv => RecordedSendNotRepeated
  BY DEF RepeatInv, Single, RepeatAt, SentOnce, RecordedSendNotRepeated
<1>3. QED
  BY <1>1, <1>2, NextRepeat, BaseInvariant, TextInvariant, SnapshotInvariant, LoadInvariant, PTL
     DEF Spec

-----------------------------------------------------------------------------
(* ApprovalWorkflow implements OutboundGate.                               *)

(* The credit of a task.                                                   *)

\* The job may still send for the task, or lead to a job that may.
Pays(w, t) ==
    /\ worker[w].task = t
    /\ \/ worker[w].pc \in {"guard", "execute", "catch", "countRetry", "requeue"}
       \/ worker[w].pc = "persist" /\ ~ worker[w].ok

CreditJobs(t) == {w \in Workers : Pays(w, t)}

LEMMA CreditParts ==
    ASSUME NEW t \in Tasks
    PROVE  Credit(t) = Cardinality(CreditJobs(t)) + Cardinality(Enqueueing(t))
                       + queue[t].fresh + queue[t].stalled
<1>1. JobsOf(t, {"guard", "execute", "catch", "countRetry", "requeue"})
          \cup {w \in JobsOf(t, {"persist"}) : ~ worker[w].ok} = CreditJobs(t)
  BY DEF JobsOf, CreditJobs, Pays
<1>2. QED
  BY <1>1 DEF Credit, Enqueueing

LEMMA CreditPartsNext ==
    ASSUME NEW t \in Tasks
    PROVE  Credit(t)' = Cardinality(CreditJobs(t)') + Cardinality(Enqueueing(t)')
                        + queue'[t].fresh + queue'[t].stalled
<1>1. (JobsOf(t, {"guard", "execute", "catch", "countRetry", "requeue"})
          \cup {w \in JobsOf(t, {"persist"}) : ~ worker[w].ok})' = CreditJobs(t)'
  BY DEF JobsOf, CreditJobs, Pays
<1>2. QED
  BY <1>1 DEF Credit, Enqueueing

LEMMA PartTypes ==
    ASSUME Base, NEW t \in Tasks
    PROVE  /\ IsFiniteSet(CreditJobs(t)) /\ Cardinality(CreditJobs(t)) \in Nat
           /\ IsFiniteSet(Enqueueing(t)) /\ Cardinality(Enqueueing(t)) \in Nat
           /\ queue[t].fresh \in Nat /\ queue[t].stalled \in Nat
           /\ Cardinality(Workers) \in Nat
<1>1. CreditJobs(t) \subseteq Workers
  BY DEF CreditJobs
<1>2. QED
  BY <1>1, LoadTypes, ProcessesAssumption, FS_Subset, FS_CardinalityType

LEMMA PartTypesNext ==
    ASSUME Base', NEW t \in Tasks
    PROVE  /\ IsFiniteSet(CreditJobs(t)') /\ Cardinality(CreditJobs(t)') \in Nat
           /\ IsFiniteSet(Enqueueing(t)') /\ Cardinality(Enqueueing(t)') \in Nat
           /\ queue'[t].fresh \in Nat /\ queue'[t].stalled \in Nat
<1>1. CreditJobs(t)' \subseteq Workers /\ Enqueueing(t)' \subseteq Operators
  BY DEF CreditJobs, Enqueueing
<1>2. queue'[t].fresh \in Nat /\ queue'[t].stalled \in Nat
  BY DEF Base, TypeInv, RestInv
<1>3. QED
  BY <1>1, <1>2, ProcessesAssumption, FS_Subset, FS_CardinalityType

\* One job moves: the jobs that pay stay the same, or lose or gain this one.
LEMMA JobStays ==
    ASSUME NEW w \in Workers, NEW t \in Tasks, OthersKept(w), Pays(w, t)' <=> Pays(w, t)
    PROVE  CreditJobs(t)' = CreditJobs(t)
BY DEF CreditJobs, Pays, OthersKept

LEMMA JobLeaves ==
    ASSUME Base, NEW w \in Workers, NEW t \in Tasks, OthersKept(w), Pays(w, t), ~ Pays(w, t)'
    PROVE  /\ Cardinality(CreditJobs(t)') = Cardinality(CreditJobs(t)) - 1
           /\ Cardinality(CreditJobs(t)) > 0
<1>1. CreditJobs(t)' = CreditJobs(t) \ {w} /\ w \in CreditJobs(t)
  BY DEF CreditJobs, Pays, OthersKept
<1>2. /\ IsFiniteSet(CreditJobs(t) \ {w})
      /\ Cardinality(CreditJobs(t) \ {w}) = Cardinality(CreditJobs(t)) - 1
  BY <1>1, PartTypes, FS_RemoveElement
<1>3. Cardinality(CreditJobs(t) \ {w}) \in Nat
  BY <1>2, FS_CardinalityType
<1>4. QED
  BY <1>1, <1>2, <1>3, PartTypes

LEMMA JobComes ==
    ASSUME Base, NEW w \in Workers, NEW t \in Tasks, OthersKept(w), ~ Pays(w, t), Pays(w, t)'
    PROVE  Cardinality(CreditJobs(t)') = Cardinality(CreditJobs(t)) + 1
<1>1. CreditJobs(t)' = CreditJobs(t) \cup {w} /\ w \notin CreditJobs(t)
  BY DEF CreditJobs, Pays, OthersKept
<1>2. QED
  BY <1>1, PartTypes, FS_AddElement

LEMMA JobAtMostComes ==
    ASSUME Base, Base', NEW w \in Workers, NEW t \in Tasks, OthersKept(w)
    PROVE  Cardinality(CreditJobs(t)') <= Cardinality(CreditJobs(t)) + 1
<1>1. CASE Pays(w, t)' <=> Pays(w, t)
  BY <1>1, JobStays, PartTypes
<1>2. CASE Pays(w, t) /\ ~ Pays(w, t)'
  BY <1>2, JobLeaves, PartTypes
<1>3. CASE ~ Pays(w, t) /\ Pays(w, t)'
  BY <1>3, JobComes, PartTypes
<1>4. QED
  BY <1>1, <1>2, <1>3

-----------------------------------------------------------------------------
(* The steps of the gate, told from the state of the workflow.             *)

\* The history the gate sees stays.
HistorySame(u) ==
    /\ hist'[u].approvals = hist[u].approvals /\ hist'[u].approved = hist[u].approved
    /\ hist'[u].overwritten = hist[u].overwritten
    /\ hist'[u].sends = hist[u].sends /\ hist'[u].delivered = hist[u].delivered

CreditSame(u) == Credit(u)' = Credit(u)

Incidents == used.faults + used.crashes

GateStep == [Gate!Next]_(Gate!gateVars)

LEMMA Stutters ==
    ASSUME \A u \in Tasks : HistorySame(u) /\ CreditSame(u), Incidents' = Incidents
    PROVE  GateStep
BY DEF HistorySame, CreditSame, Incidents, GateStep, Gate!gateVars

LEMMA Forfeits ==
    ASSUME NEW t \in Tasks, \A u \in Tasks : HistorySame(u), Incidents' = Incidents,
           \A u \in Tasks \ {t} : CreditSame(u), Credit(t)' = Credit(t) - 1, Credit(t) > 0
    PROVE  GateStep
<1>1. [u \in Tasks |-> Credit(u)]' = [[u \in Tasks |-> Credit(u)] EXCEPT ![t] = @ - 1]
  BY DEF CreditSame
<1>2. Gate!Forfeit(t)
  BY <1>1 DEF HistorySame, Incidents, Gate!Forfeit
<1>3. QED
  BY <1>2 DEF GateStep, Gate!Next

LEMMA HasIncident ==
    ASSUME \A u \in Tasks : HistorySame(u), Incidents' = Incidents + 1,
           \A u \in Tasks : Credit(u)' \in Nat /\ Credit(u)' <= Credit(u) + Cardinality(Workers)
    PROVE  GateStep
<1>1. [u \in Tasks |-> Credit(u)]' \in [Tasks -> Nat]
  OBVIOUS
<1>2. Gate!Incident
  BY <1>1 DEF HistorySame, Incidents, Gate!Incident
<1>3. QED
  BY <1>2 DEF GateStep, Gate!Next
LEMMA FaultCounts == Base /\ Fault => Incidents' = Incidents + 1
<1> SUFFICES ASSUME Base, Fault PROVE Incidents' = Incidents + 1
  OBVIOUS
<1>1. used' = [used EXCEPT !.faults = @ + 1]
  BY DEF Fault
<1>2. QED
  BY <1>1, BaseTypes DEF Incidents

\* No job, request or queue entry changes.
LEMMA CreditKept ==
    ASSUME UNCHANGED <<operator, worker, queue>>, NEW u \in Tasks
    PROVE  CreditSame(u)
<1>1. CreditJobs(u)' = CreditJobs(u) /\ Enqueueing(u)' = Enqueueing(u)
  BY DEF CreditJobs, Pays, Enqueueing
<1>2. QED
  BY <1>1, CreditParts, CreditPartsNext DEF CreditSame

LEMMA CreditNat ==
    ASSUME Base', NEW u \in Tasks
    PROVE  Credit(u)' \in Nat
BY PartTypesNext, CreditPartsNext

-----------------------------------------------------------------------------
(* Inbound jobs: they overwrite a task, or the gate sees nothing of them.  *)

LEMMA InboundGate ==
    ASSUME Base, Base', NEW m \in Messages, InboundStep(m)
    PROVE  GateStep
<1>1. UNCHANGED <<operator, worker, queue, used>>
  BY DEF InboundStep, ReadMessage, PauseConversation, FindTask, AppendToTask, CreateTask,
         CompleteMessage
<1>2. \A u \in Tasks : CreditSame(u)
  BY <1>1, CreditKept
<1>3. Incidents' = Incidents
  BY <1>1 DEF Incidents
<1>4. CASE AppendToTask(m)
  <2>1. PICK t \in Tasks :
            /\ \A u \in Tasks \ {t} : hist'[u] = hist[u]
            /\ hist'[t].overwritten = (hist[t].overwritten \/ hist[t].approvals > 0)
    BY <1>4, AppendEffect
  <2>2. \A u \in Tasks : /\ hist'[u].approvals = hist[u].approvals
                         /\ hist'[u].approved = hist[u].approved
                         /\ hist'[u].sends = hist[u].sends
                         /\ hist'[u].delivered = hist[u].delivered
    BY <1>4, AppendEffect
  <2>3. CASE hist[t].approvals > 0
    <3>1. hist'[t].overwritten
      BY <2>1, <2>3
    <3>2. {u \in Tasks : hist[u].overwritten}' = {u \in Tasks : hist[u].overwritten} \cup {t}
      BY <2>1, <3>1
    <3>3. Gate!Overwrite(t)
      BY <1>2, <1>3, <2>2, <3>2 DEF CreditSame, Incidents, Gate!Overwrite
    <3>4. QED
      BY <3>3 DEF GateStep, Gate!Next
  <2>4. CASE ~ hist[t].approvals > 0
    <3>1. hist[t].overwritten \in BOOLEAN
      BY BaseTypes DEF History
    <3>2. hist'[t].overwritten = hist[t].overwritten
      BY <2>1, <2>4, <3>1
    <3>3. \A u \in Tasks : HistorySame(u)
      BY <2>1, <2>2, <3>2 DEF HistorySame
    <3>4. QED
      BY <1>2, <1>3, <3>3, Stutters
  <2>5. QED
    BY <2>3, <2>4
<1>5. CASE ~ AppendToTask(m)
  <2>1. UNCHANGED hist
    BY <1>5, InboundKeeps, CreateEffect
  <2>2. \A u \in Tasks : HistorySame(u)
    BY <2>1 DEF HistorySame
  <2>3. QED
    BY <1>2, <1>3, <2>2, Stutters
<1>6. QED
  BY <1>4, <1>5

\* A step that costs a failing call and changes no history.
LEMMA FaultGate ==
    ASSUME Base, Base', Fault, \A u \in Tasks : HistorySame(u),
           \A u \in Tasks : Credit(u)' <= Credit(u) + Cardinality(Workers)
    PROVE  GateStep
BY FaultCounts, CreditNat, HasIncident

LEMMA InboundFaultGate ==
    ASSUME Base, Base', NEW m \in Messages, InboundFails(m)
    PROVE  GateStep
<1>1. UNCHANGED <<operator, worker, queue, hist>> /\ Fault
  BY DEF InboundFails, RestartMessage, FallBackToApproval
<1>2. \A u \in Tasks : HistorySame(u) /\ CreditSame(u)
  BY <1>1, CreditKept DEF HistorySame
<1>3. \A u \in Tasks : Credit(u)' <= Credit(u) + Cardinality(Workers)
  BY <1>2, CreditNat, PartTypes DEF CreditSame
<1>4. QED
  BY <1>1, <1>2, <1>3, FaultGate

-----------------------------------------------------------------------------
(* Requests: a decision to approve is what pays.                           *)

LEMMA ApproveGate ==
    ASSUME Base, Base', NEW o \in Operators, WriteApproval(o)
    PROVE  GateStep
<1>1. PICK t \in Tasks, x \in Texts :
          /\ t = operator[o].task /\ operator[o].pc = "approve"
          /\ operator'[o].pc = "enqueue" /\ operator'[o].task = t
          /\ \A p \in Operators \ {o} : operator'[p] = operator[p]
          /\ \A u \in Tasks \ {t} : hist'[u] = hist[u]
          /\ hist'[t].approvals = hist[t].approvals + 1
          /\ hist'[t].approved = hist[t].approved \cup {x}
          /\ hist'[t].sends = hist[t].sends /\ hist'[t].delivered = hist[t].delivered
          /\ hist'[t].overwritten = hist[t].overwritten
          /\ UNCHANGED <<worker, queue, used>>
  BY ApprovalEffect
<1>2. \A u \in Tasks : CreditJobs(u)' = CreditJobs(u)
  BY <1>1 DEF CreditJobs, Pays
<1>3. \A u \in Tasks \ {t} : Enqueueing(u)' = Enqueueing(u)
  BY <1>1 DEF Enqueueing
<1>4. Cardinality(Enqueueing(t)') = Cardinality(Enqueueing(t)) + 1
  <2>1. Enqueueing(t)' = Enqueueing(t) \cup {o} /\ o \notin Enqueueing(t)
    BY <1>1 DEF Enqueueing
  <2>2. QED
    BY <2>1, PartTypes, FS_AddElement
<1>5. \A u \in Tasks \ {t} : CreditSame(u)
  BY <1>1, <1>2, <1>3, CreditParts, CreditPartsNext DEF CreditSame
<1>6. Credit(t)' = Credit(t) + 1
  BY <1>1, <1>2, <1>4, PartTypes, CreditParts, CreditPartsNext
<1>7. /\ [u \in Tasks |-> hist[u].approvals]'
            = [[u \in Tasks |-> hist[u].approvals] EXCEPT ![t] = @ + 1]
      /\ [u \in Tasks |-> hist[u].approved]'
            = [[u \in Tasks |-> hist[u].approved] EXCEPT ![t] = @ \cup {x}]
      /\ [u \in Tasks |-> hist[u].sends]' = [u \in Tasks |-> hist[u].sends]
      /\ [u \in Tasks |-> hist[u].delivered]' = [u \in Tasks |-> hist[u].delivered]
  BY <1>1
<1>8. [u \in Tasks |-> Credit(u)]' = [[u \in Tasks |-> Credit(u)] EXCEPT ![t] = @ + 1]
  BY <1>5, <1>6 DEF CreditSame
<1>9. {u \in Tasks : hist[u].overwritten}' = {u \in Tasks : hist[u].overwritten}
  BY <1>1
<1>10. Gate!Approve(t, x)
  BY <1>1, <1>7, <1>8, <1>9 DEF Gate!Approve
<1>11. QED
  BY <1>10 DEF GateStep, Gate!Next

LEMMA OperatorGate ==
    ASSUME Base, Base', NEW o \in Operators, Decide(o) \/ Respond(o) \/ RequestFails(o)
    PROVE  GateStep
<1>0. \A u \in Tasks : CreditJobs(u)' = CreditJobs(u)
  BY RequestKeeps DEF CreditJobs, Pays
<1>1. CASE WriteApproval(o)
  BY <1>1, ApproveGate
<1>2. CASE EnqueueApproval(o)
  <2>1. PICK t \in Tasks : operator[o].task = t /\ operator[o].pc = "enqueue" /\ Enqueue(t, "fresh")
    BY <1>2 DEF EnqueueApproval, Base, AssignedInv
  <2>2. operator' = [operator EXCEPT ![o] = IdleOperator] /\ UNCHANGED <<hist, used>>
    BY <1>2 DEF EnqueueApproval
  <2>3. Enqueueing(t)' = Enqueueing(t) \ {o} /\ o \in Enqueueing(t)
    BY <2>1, <2>2, BaseTypes DEF Enqueueing, IdleOperator
  <2>4. Cardinality(Enqueueing(t)') = Cardinality(Enqueueing(t)) - 1
    BY <2>3, PartTypes, FS_RemoveElement
  <2>5. queue'[t].fresh = queue[t].fresh + 1 /\ queue'[t].stalled = queue[t].stalled
        /\ \A u \in Tasks \ {t} : queue'[u] = queue[u]
    BY <2>1, EnqueueEffect
  <2>6. CreditSame(t)
    BY <1>0, <2>4, <2>5, PartTypes, CreditParts, CreditPartsNext DEF CreditSame
  <2>7. \A u \in Tasks \ {t} : Enqueueing(u)' = Enqueueing(u)
    BY <2>1, <2>2, BaseTypes DEF Enqueueing, IdleOperator
  <2>8. \A u \in Tasks \ {t} : CreditSame(u)
    BY <1>0, <2>5, <2>7, CreditParts, CreditPartsNext DEF CreditSame
  <2>9. (\A u \in Tasks : HistorySame(u) /\ CreditSame(u)) /\ Incidents' = Incidents
    BY <2>2, <2>6, <2>8 DEF HistorySame, Incidents
  <2>10. QED
    BY <2>9, Stutters
<1>3. CASE Decide(o) \/ WriteRejection(o)
  <2>1. UNCHANGED <<queue, used>> /\ operator[o].pc # "enqueue"
    BY <1>3 DEF Decide, ReadForApproval, ReadForRejection, WriteRejection
  <2>2. operator'[o].pc # "enqueue" /\ \A p \in Operators \ {o} : operator'[p] = operator[p]
    <3>1. CASE WriteRejection(o)
      BY <3>1, BaseTypes DEF WriteRejection, IdleOperator
    <3>2. CASE Decide(o)
      BY <3>2, BaseTypes DEF Decide, ReadForApproval, ReadForRejection
    <3>3. QED
      BY <1>3, <3>1, <3>2
  <2>3. \A u \in Tasks : Enqueueing(u)' = Enqueueing(u)
    BY <2>1, <2>2 DEF Enqueueing
  <2>4. \A u \in Tasks : CreditSame(u)
    BY <1>0, <2>1, <2>3, CreditParts, CreditPartsNext DEF CreditSame
  <2>5. \A u \in Tasks : HistorySame(u)
    <3>1. CASE WriteRejection(o)
      BY <3>1, RejectionEffect DEF HistorySame
    <3>2. CASE Decide(o)
      BY <3>2 DEF Decide, ReadForApproval, ReadForRejection, HistorySame
    <3>3. QED
      BY <1>3, <3>1, <3>2
  <2>6. QED
    BY <2>1, <2>4, <2>5, Stutters DEF Incidents
<1>4. CASE RequestFails(o)
  <2>1. UNCHANGED <<queue, hist>> /\ Fault /\ operator' = [operator EXCEPT ![o] = IdleOperator]
    BY <1>4 DEF RequestFails
  <2>2. ASSUME NEW u \in Tasks
        PROVE  Credit(u)' <= Credit(u) + Cardinality(Workers)
    <3>1. Enqueueing(u)' \subseteq Enqueueing(u)
      BY <2>1, BaseTypes DEF Enqueueing, IdleOperator
    <3>2. Cardinality(Enqueueing(u)') <= Cardinality(Enqueueing(u))
      BY <3>1, PartTypes, FS_Subset
    <3>3. QED
      BY <1>0, <2>1, <3>2, PartTypes, PartTypesNext, CreditParts, CreditPartsNext
  <2>3. QED
    BY <2>1, <2>2, FaultGate DEF HistorySame
<1>5. QED
  BY <1>1, <1>2, <1>3, <1>4 DEF Respond
-----------------------------------------------------------------------------
(* Jobs: one leaves the paying ones, comes to them, or stays where it is.  *)

\* The step of one job, with the queue as it was: which jobs pay decides.
LEMMA JobStepGate ==
    ASSUME Base, Base', NEW w \in Workers, NEW t \in Tasks, OthersKept(w),
           worker[w].task = t, worker'[w].task = t, UNCHANGED <<operator, queue, used>>,
           \A u \in Tasks : HistorySame(u), Pays(w, t)' => Pays(w, t)
    PROVE  GateStep
<1>1. \A u \in Tasks : Enqueueing(u)' = Enqueueing(u)
  BY DEF Enqueueing
<1>2. Incidents' = Incidents
  BY DEF Incidents
<1>3. \A u \in Tasks \ {t} : ~ Pays(w, u) /\ ~ Pays(w, u)'
  BY DEF Pays
<1>4. \A u \in Tasks \ {t} : CreditJobs(u)' = CreditJobs(u)
  BY <1>3, JobStays
<1>5. \A u \in Tasks \ {t} : CreditSame(u)
  BY <1>1, <1>4, CreditParts, CreditPartsNext DEF CreditSame
<1>6. CASE Pays(w, t)' <=> Pays(w, t)
  <2>1. CreditJobs(t)' = CreditJobs(t)
    BY <1>6, JobStays
  <2>2. CreditSame(t)
    BY <1>1, <2>1, CreditParts, CreditPartsNext DEF CreditSame
  <2>3. QED
    BY <1>2, <1>5, <2>2, Stutters
<1>7. CASE Pays(w, t) /\ ~ Pays(w, t)'
  <2>1. /\ Cardinality(CreditJobs(t)') = Cardinality(CreditJobs(t)) - 1
        /\ Cardinality(CreditJobs(t)) > 0
    BY <1>7, JobLeaves
  <2>2. Credit(t)' = Credit(t) - 1 /\ Credit(t) > 0
    BY <1>1, <2>1, PartTypes, CreditParts, CreditPartsNext
  <2>3. QED
    BY <1>2, <1>5, <2>2, Forfeits
<1>8. QED
  BY <1>6, <1>7

LEMMA StartGate ==
    ASSUME Base, Base', NEW w \in Workers, NEW t \in Tasks, NEW attempt \in {"fresh", "stalled"},
           StartJob(w, t, attempt)
    PROVE  GateStep
<1>1. /\ OthersKept(w) /\ worker[w].pc = "idle" /\ worker'[w].task = t
      /\ queue[t][attempt] > 0 /\ queue' = [queue EXCEPT ![t][attempt] = @ - 1]
      /\ UNCHANGED <<operator, used, hist>>
  BY StartEffect
<1>2. Incidents' = Incidents /\ \A u \in Tasks : HistorySame(u) /\ Enqueueing(u)' = Enqueueing(u)
  BY <1>1 DEF Incidents, HistorySame, Enqueueing
<1>3. \A u \in Tasks : ~ Pays(w, u)
  BY <1>1 DEF Pays
<1>4. \A u \in Tasks \ {t} : ~ Pays(w, u)' /\ queue'[u] = queue[u]
  BY <1>1, DequeueEffect DEF Pays
<1>5. \A u \in Tasks \ {t} : CreditJobs(u)' = CreditJobs(u)
  BY <1>1, <1>3, <1>4, JobStays
<1>6. \A u \in Tasks \ {t} : CreditSame(u)
  BY <1>2, <1>4, <1>5, CreditParts, CreditPartsNext DEF CreditSame
<1>7. queue'[t].fresh + queue'[t].stalled = queue[t].fresh + queue[t].stalled - 1
  BY <1>1, DequeueEffect
<1>8. CASE Pays(w, t)'
  <2>1. Cardinality(CreditJobs(t)') = Cardinality(CreditJobs(t)) + 1
    BY <1>1, <1>3, <1>8, JobComes
  <2>2. CreditSame(t)
    BY <1>2, <1>7, <2>1, PartTypes, PartTypesNext, CreditParts, CreditPartsNext DEF CreditSame
  <2>3. QED
    BY <1>2, <1>6, <2>2, Stutters
<1>9. CASE ~ Pays(w, t)'
  <2>1. CreditJobs(t)' = CreditJobs(t)
    BY <1>1, <1>3, <1>9, JobStays
  <2>2. Credit(t)' = Credit(t) - 1
    BY <1>2, <1>7, <2>1, PartTypes, PartTypesNext, CreditParts, CreditPartsNext
  <2>3. Credit(t) > 0
    BY <2>2, CreditNat, PartTypes, CreditParts
  <2>4. QED
    BY <1>2, <1>6, <2>2, <2>3, Forfeits
<1>10. QED
  BY <1>8, <1>9

\* Twilio accepts a reply: one credit is spent, on a text that was approved.
LEMMA SendGate ==
    ASSUME Base, Base', TextInv, NEW w \in Workers, SendReply(w, TRUE)
    PROVE  GateStep
<1> DEFINE snap == worker[w].snap
           x == TextToSend(snap)
<1>1. PICK t \in Tasks :
          /\ t = worker[w].task /\ worker'[w].task = t /\ OthersKept(w)
          /\ worker[w].pc = "execute" /\ worker'[w].pc = "persist" /\ worker'[w].ok
          /\ \A u \in Tasks :
                /\ hist'[u].approvals = hist[u].approvals
                /\ hist'[u].approved = hist[u].approved
                /\ hist'[u].overwritten = hist[u].overwritten
                /\ hist'[u].sends = IF u = t THEN hist[u].sends + 1 ELSE hist[u].sends
                /\ hist'[u].delivered = IF u = t THEN hist[u].delivered \cup {x}
                                        ELSE hist[u].delivered
          /\ UNCHANGED <<operator, queue, used>>
  <2> DEFINE t == worker[w].task
  <2>1. /\ OthersKept(w) /\ SameJob(w) /\ worker[w].pc = "execute" /\ worker'[w].pc = "persist"
        /\ worker'[w].ok /\ t \in Tasks /\ UNCHANGED <<operator, queue, used>>
    BY SendEffect
  <2>2. \A u \in Tasks :
                /\ hist'[u].approvals = hist[u].approvals
                /\ hist'[u].approved = hist[u].approved
                /\ hist'[u].overwritten = hist[u].overwritten
                /\ hist'[u].sends = IF u = t THEN hist[u].sends + 1 ELSE hist[u].sends
                /\ hist'[u].delivered = IF u = t THEN hist[u].delivered \cup {x}
                                        ELSE hist[u].delivered
    <3>1. \A u \in Tasks : /\ hist'[u].approvals = hist[u].approvals
                           /\ hist'[u].approved = hist[u].approved
                           /\ hist'[u].overwritten = hist[u].overwritten
      BY SendEffect
    <3>2. \A u \in Tasks :
              hist'[u].sends = IF u = t /\ TRUE THEN hist[u].sends + 1 ELSE hist[u].sends
      BY SendEffect
    <3>3. \A u \in Tasks :
              hist'[u].delivered = IF u = t /\ TRUE THEN hist[u].delivered \cup {x}
                                   ELSE hist[u].delivered
      BY SendEffect
    <3> HIDE DEF t, x
    <3>4. QED
      BY <3>1, <3>2, <3>3
  <2>3. worker'[w].task = t
    BY <2>1 DEF SameJob
  <2>4. QED
    BY <2>1, <2>2, <2>3
<1>2. worker[w].pc \in ExecutingPcs
  BY <1>1 DEF ExecutingPcs, ActivePcs
<1>3. x \in Texts
  <2>1. snap.pending \in Texts /\ snap \in TaskRow
    BY <1>2, BaseTypes DEF Base, TypeInv, WorkerInv, WorkerState
  <2>2. QED
    BY <2>1 DEF TextToSend, ProposedText, TaskRow
<1>4. ~ hist[t].overwritten => x \in hist[t].approved
  <2> SUFFICES ASSUME ~ hist[t].overwritten PROVE x \in hist[t].approved
    OBVIOUS
  <2>1. snap.sentText \in hist[t].approved
    BY <1>1, <1>2 DEF TextInv
  <2>2. hist[t].approved \subseteq Texts
    BY BaseTypes DEF History
  <2>3. x = snap.sentText
    BY <2>1, <2>2, NoneAssumption DEF TextToSend
  <2>4. QED
    BY <2>1, <2>3
<1> HIDE DEF x, snap
<1>5. Pays(w, t) /\ ~ Pays(w, t)' /\ \A u \in Tasks \ {t} : ~ Pays(w, u) /\ ~ Pays(w, u)'
  BY <1>1 DEF Pays
<1>6. \A u \in Tasks : Enqueueing(u)' = Enqueueing(u)
  BY <1>1 DEF Enqueueing
<1>7. \A u \in Tasks \ {t} : CreditJobs(u)' = CreditJobs(u)
  BY <1>1, <1>5, JobStays
<1>8. \A u \in Tasks \ {t} : CreditSame(u)
  BY <1>1, <1>6, <1>7, CreditParts, CreditPartsNext DEF CreditSame
<1>9. /\ Cardinality(CreditJobs(t)') = Cardinality(CreditJobs(t)) - 1
      /\ Cardinality(CreditJobs(t)) > 0
  BY <1>1, <1>5, JobLeaves
<1>10. Credit(t)' = Credit(t) - 1 /\ Credit(t) > 0
  BY <1>1, <1>6, <1>9, PartTypes, CreditParts, CreditPartsNext
<1>11. [u \in Tasks |-> Credit(u)]' = [[u \in Tasks |-> Credit(u)] EXCEPT ![t] = @ - 1]
  BY <1>8, <1>10 DEF CreditSame
<1>12. PICK y \in Texts : y = x
  BY <1>3
<1>13. /\ [u \in Tasks |-> hist[u].sends]'
             = [[u \in Tasks |-> hist[u].sends] EXCEPT ![t] = @ + 1]
       /\ [u \in Tasks |-> hist[u].delivered]'
             = [[u \in Tasks |-> hist[u].delivered] EXCEPT ![t] = @ \cup {y}]
       /\ [u \in Tasks |-> hist[u].approvals]' = [u \in Tasks |-> hist[u].approvals]
       /\ [u \in Tasks |-> hist[u].approved]' = [u \in Tasks |-> hist[u].approved]
       /\ {u \in Tasks : hist[u].overwritten}' = {u \in Tasks : hist[u].overwritten}
  BY <1>1, <1>12
<1>14. y \in [u \in Tasks |-> hist[u].approved][t] \/ t \in {u \in Tasks : hist[u].overwritten}
  BY <1>4, <1>12
<1>15. [u \in Tasks |-> Credit(u)][t] > 0
  BY <1>10
<1>16. UNCHANGED (used.faults + used.crashes)
  BY <1>1
<1>17. Gate!Send(t, y)
  BY <1>11, <1>13, <1>14, <1>15, <1>16 DEF Gate!Send
<1>18. QED
  BY <1>17 DEF GateStep, Gate!Next

LEMMA RequeueGate ==
    ASSUME Base, Base', NEW w \in Workers, Requeue(w)
    PROVE  GateStep
<1>1. PICK t \in Tasks : t = worker[w].task /\ worker'[w].task = t /\ Enqueue(t, "fresh")
  BY MovesEffect DEF Requeue, Moves
<1>2. /\ OthersKept(w) /\ worker'[w].pc = "finish" /\ worker[w].pc = "requeue"
      /\ UNCHANGED <<operator, used, hist>>
  BY FinishEffect DEF Requeue
<1>3. Incidents' = Incidents /\ \A u \in Tasks : HistorySame(u) /\ Enqueueing(u)' = Enqueueing(u)
  BY <1>2 DEF Incidents, HistorySame, Enqueueing
<1>4. Pays(w, t) /\ ~ Pays(w, t)' /\ \A u \in Tasks \ {t} : ~ Pays(w, u) /\ ~ Pays(w, u)'
  BY <1>1, <1>2 DEF Pays
<1>5. queue'[t].fresh = queue[t].fresh + 1 /\ queue'[t].stalled = queue[t].stalled
      /\ \A u \in Tasks \ {t} : queue'[u] = queue[u]
  BY <1>1, EnqueueEffect
<1>6. Cardinality(CreditJobs(t)') = Cardinality(CreditJobs(t)) - 1
  BY <1>2, <1>4, JobLeaves
<1>7. CreditSame(t)
  BY <1>3, <1>5, <1>6, PartTypes, CreditParts, CreditPartsNext DEF CreditSame
<1>8. \A u \in Tasks \ {t} : CreditJobs(u)' = CreditJobs(u)
  BY <1>2, <1>4, JobStays
<1>9. \A u \in Tasks \ {t} : CreditSame(u)
  BY <1>3, <1>5, <1>8, CreditParts, CreditPartsNext DEF CreditSame
<1>10. \A u \in Tasks : HistorySame(u) /\ CreditSame(u)
  BY <1>3, <1>7, <1>9
<1>11. QED
  BY <1>3, <1>10, Stutters
\* The other steps of a job at work: it stops paying or goes on as it did.
LEMMA MovesGate ==
    ASSUME Base, Base', NEW w \in Workers, Moves(w), ~ Requeue(w), ~ SendReply(w, TRUE), ~ Fault
    PROVE  GateStep
<1>1. PICK t \in Tasks : t = worker[w].task /\ worker'[w].task = t /\ OthersKept(w)
  BY MovesEffect
<1>2. UNCHANGED <<operator, queue, used, hist>>
  BY DEF Moves, CheckDuplicate, MarkDuplicateDone, ExecuteWithoutSending, SendReply, PersistReply,
         VerifyReply, ResumeConversation, SettleTask, FailTask, CatchError, CountRetry, Throw,
         LoseJob, RequeueFails
<1>3. Pays(w, t)' => Pays(w, t)
  <2>1. CASE CheckDuplicate(w)
    <3>1. worker[w].pc = "guard"
      BY <2>1, GuardEffect
    <3>2. QED
      BY <1>1, <3>1 DEF Pays
  <2>2. CASE SendReply(w, FALSE)
    <3>1. worker[w].pc = "execute"
      BY <2>2, SendEffect
    <3>2. QED
      BY <1>1, <3>1 DEF Pays
  <2>3. CASE PersistReply(w)
    <3>1. worker[w].pc = "persist" /\ worker'[w].pc = IF worker[w].ok THEN "verify" ELSE "catch"
      BY <2>3, PersistEffect
    <3>2. QED
      BY <1>1, <3>1 DEF Pays
  <2>4. CASE VerifyReply(w)
    <3>1. worker'[w].pc \in {"finish", "settle", "markFailed", "resume"}
      BY <2>4, VerifyEffect
    <3>2. QED
      BY <3>1 DEF Pays
  <2>5. CASE CatchError(w) \/ CountRetry(w) \/ ExecuteWithoutSending(w)
    <3>1. worker[w].pc \in {"catch", "countRetry", "execute"}
      BY <2>5 DEF CatchError, CountRetry, ExecuteWithoutSending
    <3>2. QED
      BY <1>1, <3>1 DEF Pays
  <2>6. CASE MarkDuplicateDone(w) \/ ResumeConversation(w) \/ SettleTask(w) \/ FailTask(w)
    <3>1. Finish(w) \/ WorkerGoto(w, "settle")
      BY <2>6 DEF MarkDuplicateDone, ResumeConversation, SettleTask, FailTask
    <3>2. worker'[w].pc \in {"finish", "settle"}
      BY <3>1, GotoEffect, FinishEffect
    <3>3. QED
      BY <3>2 DEF Pays
  <2>7. QED
    BY <2>1, <2>2, <2>3, <2>4, <2>5, <2>6 DEF Moves, Throw, LoseJob, RequeueFails
<1>4. \A u \in Tasks : HistorySame(u)
  BY <1>2 DEF HistorySame
<1>5. QED
  BY <1>1, <1>2, <1>3, <1>4, JobStepGate

LEMMA WorkerFaultGate ==
    ASSUME Base, Base', NEW w \in Workers, WorkerFault(w)
    PROVE  GateStep
<1>1. Fault /\ UNCHANGED operator
  BY DEF WorkerFault, Throw, LoseJob, RequeueFails, StartFails
<1>2. \A u \in Tasks : HistorySame(u)
  <2>1. CASE Throw(w)
    BY <2>1, ThrowEffect DEF HistorySame
  <2>2. CASE ~ Throw(w)
    <3>1. UNCHANGED hist
      BY <2>2 DEF WorkerFault, LoseJob, RequeueFails, StartFails
    <3>2. QED
      BY <3>1 DEF HistorySame
  <2>3. QED
    BY <2>1, <2>2
<1>3. \A u \in Tasks : Enqueueing(u)' = Enqueueing(u)
  BY <1>1 DEF Enqueueing
<1>4. Cardinality(Workers) >= 1
  <2>1. Cardinality(Workers) # 0
    BY ProcessesAssumption, FS_EmptySet
  <2>2. Cardinality(Workers) \in Nat
    BY ProcessesAssumption, FS_CardinalityType
  <2>3. QED
    BY <2>1, <2>2
<1>5. ASSUME NEW u \in Tasks
      PROVE  Credit(u)' <= Credit(u) + Cardinality(Workers)
  <2>1. OthersKept(w)
    <3>1. CASE Throw(w) \/ LoseJob(w) \/ RequeueFails(w)
      BY <3>1, MovesEffect DEF Moves
    <3>2. CASE \E t \in Tasks, attempt \in {"fresh", "stalled"} : StartFails(w, t, attempt)
      BY <3>2 DEF StartFails, OthersKept
    <3>3. QED
      BY <3>1, <3>2 DEF WorkerFault
  <2>2. Cardinality(CreditJobs(u)') <= Cardinality(CreditJobs(u)) + 1
    BY <2>1, JobAtMostComes
  <2>3. queue'[u].fresh + queue'[u].stalled <= queue[u].fresh + queue[u].stalled
    <3>1. CASE UNCHANGED queue
      BY <3>1, PartTypes
    <3>2. ASSUME NEW t \in Tasks, NEW attempt \in {"fresh", "stalled"}, StartFails(w, t, attempt)
          PROVE  queue'[u].fresh + queue'[u].stalled <= queue[u].fresh + queue[u].stalled
      <4>1. queue[t][attempt] > 0 /\ queue' = [queue EXCEPT ![t][attempt] = @ - 1]
        BY <3>2 DEF StartFails
      <4>2. CASE u = t
        BY <4>1, <4>2, DequeueEffect, PartTypes
      <4>3. CASE u # t
        <5>1. queue'[u] = queue[u]
          BY <4>1, <4>3, DequeueEffect
        <5>2. QED
          BY <5>1, PartTypes
      <4>4. QED
        BY <4>2, <4>3
    <3>3. UNCHANGED queue \/ \E t \in Tasks, attempt \in {"fresh", "stalled"} :
                                StartFails(w, t, attempt)
      BY DEF WorkerFault, Throw, LoseJob, RequeueFails
    <3>4. QED
      BY <3>1, <3>2, <3>3
  <2>4. QED
    BY <1>3, <1>4, <2>2, <2>3, PartTypes, PartTypesNext, CreditParts, CreditPartsNext
<1>6. QED
  BY <1>1, <1>2, <1>5, FaultGate

\* A crash gives back at most one credit for each job that was at work.
LEMMA CrashGate ==
    ASSUME Base, Base', Crash
    PROVE  GateStep
<1>1. \A u \in Tasks : HistorySame(u)
  BY CrashEffect DEF HistorySame
<1>2. Incidents' = Incidents + 1
  <2>1. used'.crashes = used.crashes + 1 /\ used'.faults = used.faults
    BY CrashEffect
  <2>2. QED
    BY <2>1, BaseTypes DEF Incidents
<1>3. ASSUME NEW u \in Tasks
      PROVE  Credit(u)' <= Credit(u) + Cardinality(Workers)
  <2> DEFINE back == {w \in JobsOf(u, ActivePcs) : worker[w].attempt = "fresh"}
  <2>1. CreditJobs(u)' = {}
    BY CrashEffect DEF CreditJobs, Pays
  <2>2. Enqueueing(u)' = {}
    BY CrashEffect DEF Enqueueing
  <2>3. Cardinality(back) \in Nat /\ Cardinality(back) <= Cardinality(Workers)
    <3>1. back \subseteq Workers
      BY DEF JobsOf
    <3> HIDE DEF back
    <3>2. QED
      BY <3>1, ProcessesAssumption, FS_Subset, FS_CardinalityType
  <2>4. queue'[u] = [queue[u] EXCEPT !.stalled = @ + Cardinality(back)]
    BY DEF Crash
  <2> HIDE DEF back
  <2>5. queue[u] \in [fresh : Nat, stalled : Nat]
    BY BaseTypes
  <2>6. queue'[u].fresh = queue[u].fresh /\ queue'[u].stalled = queue[u].stalled + Cardinality(back)
    BY <2>4, <2>5
  <2>7. Cardinality(CreditJobs(u)') = 0 /\ Cardinality(Enqueueing(u)') = 0
    BY <2>1, <2>2, FS_EmptySet
  <2>8. QED
    BY <2>3, <2>6, <2>7, PartTypes, CreditParts, CreditPartsNext
<1>4. QED
  BY <1>1, <1>2, <1>3, CreditNat, HasIncident

-----------------------------------------------------------------------------

LEMMA NextGate == Base /\ Base' /\ TextInv /\ [Next]_vars => GateStep
<1> SUFFICES ASSUME Base, Base', TextInv, [Next]_vars PROVE GateStep
  OBVIOUS
<1>1. CASE \E m \in Messages : InboundStep(m) \/ InboundFails(m)
  BY <1>1, InboundGate, InboundFaultGate
<1>2. CASE \E o \in Operators : Decide(o) \/ Respond(o) \/ RequestFails(o)
  BY <1>2, OperatorGate
<1>3. ASSUME NEW w \in Workers, WorkerStep(w) PROVE GateStep
  <2>1. CASE SendReply(w, TRUE)
    BY <2>1, SendGate
  <2>2. CASE Requeue(w)
    BY <2>2, RequeueGate
  <2>3. CASE \E t \in Tasks, attempt \in {"fresh", "stalled"} : StartJob(w, t, attempt)
    BY <2>3, StartGate
  <2>4. CASE CompleteJob(w)
    <3>1. /\ OthersKept(w) /\ worker[w].pc = "finish" /\ worker'[w].pc = "idle"
          /\ UNCHANGED <<operator, queue, used, hist>>
      BY <2>4, BaseTypes DEF CompleteJob, OthersKept, IdleWorker
    <3>2. \A u \in Tasks : ~ Pays(w, u) /\ ~ Pays(w, u)'
      BY <3>1 DEF Pays
    <3>3. \A u \in Tasks : CreditJobs(u)' = CreditJobs(u)
      BY <3>1, <3>2, JobStays
    <3>4. \A u \in Tasks : Enqueueing(u)' = Enqueueing(u)
      BY <3>1 DEF Enqueueing
    <3>5. \A u \in Tasks : CreditSame(u)
      BY <3>1, <3>3, <3>4, CreditParts, CreditPartsNext DEF CreditSame
    <3>6. (\A u \in Tasks : HistorySame(u)) /\ Incidents' = Incidents
      BY <3>1 DEF HistorySame, Incidents
    <3>7. QED
      BY <3>5, <3>6, Stutters
  <2>5. CASE Moves(w) /\ ~ SendReply(w, TRUE) /\ ~ Requeue(w)
    <3>1. UNCHANGED used => ~ Fault
      <4>1. Fault => used'.faults = used.faults + 1
        <5>1. Fault => used' = [used EXCEPT !.faults = @ + 1]
          BY DEF Fault
        <5>2. QED
          BY <5>1, BaseTypes
      <4>2. QED
        BY <4>1, BaseTypes
    <3>2. UNCHANGED used \/ WorkerFault(w)
      BY <2>5 DEF Moves, CheckDuplicate, MarkDuplicateDone, ExecuteWithoutSending, SendReply,
                  PersistReply, VerifyReply, ResumeConversation, SettleTask, FailTask, CatchError,
                  CountRetry, WorkerFault
    <3>3. QED
      BY <2>5, <3>1, <3>2, MovesGate, WorkerFaultGate
  <2>6. QED
    BY <1>3, <2>1, <2>2, <2>3, <2>4, <2>5 DEF WorkerStep, Moves
<1>4. CASE \E w \in Workers : WorkerFault(w)
  BY <1>4, WorkerFaultGate
<1>5. CASE Crash
  BY <1>5, CrashGate
<1>6. CASE \E c \in Conversations, status \in {"SENT", "FAILED"} :
              \E i \in DOMAIN outbound[c] : StatusCallback(c, i, status)
  <2>1. /\ UNCHANGED <<operator, worker, queue, hist>>
        /\ used'.faults = used.faults /\ used'.crashes = used.crashes
    BY <1>6, CallbackKeeps
  <2>2. \A u \in Tasks : HistorySame(u) /\ CreditSame(u)
    BY <2>1, CreditKept DEF HistorySame
  <2>3. QED
    BY <2>1, <2>2, Stutters DEF Incidents
<1>7. CASE UNCHANGED vars
  <2>1. UNCHANGED <<operator, worker, queue, hist, used>>
    BY <1>7 DEF vars
  <2>2. \A u \in Tasks : HistorySame(u) /\ CreditSame(u)
    BY <2>1, CreditKept DEF HistorySame
  <2>3. QED
    BY <2>1, <2>2, Stutters DEF Incidents
<1>8. QED
  BY <1>1, <1>2, <1>3, <1>4, <1>5, <1>6, <1>7 DEF Next, Rest

LEMMA InitGate == Init => Gate!Init
<1> SUFFICES ASSUME Init PROVE Gate!Init
  OBVIOUS
<1>1. ASSUME NEW t \in Tasks PROVE Credit(t) = 0
  <2>1. CreditJobs(t) = {} /\ Enqueueing(t) = {}
    BY DEF Init, CreditJobs, Pays, Enqueueing, IdleOperator, IdleWorker
  <2>2. queue[t].fresh = 0 /\ queue[t].stalled = 0
    BY DEF Init
  <2>3. QED
    BY <2>1, <2>2, FS_EmptySet, CreditParts
<1>2. \A t \in Tasks : hist[t] = NoHistory
  BY DEF Init
<1>3. used.faults + used.crashes = 0
  BY DEF Init
<1>4. [t \in Tasks |-> Credit(t)] = [t \in Tasks |-> 0]
  BY <1>1
<1>5. /\ [t \in Tasks |-> hist[t].approvals] = [t \in Tasks |-> 0]
      /\ [t \in Tasks |-> hist[t].approved] = [t \in Tasks |-> {}]
      /\ {t \in Tasks : hist[t].overwritten} = {}
      /\ [t \in Tasks |-> hist[t].sends] = [t \in Tasks |-> 0]
      /\ [t \in Tasks |-> hist[t].delivered] = [t \in Tasks |-> {}]
  BY <1>2 DEF NoHistory
<1>6. QED
  BY <1>3, <1>4, <1>5 DEF Gate!Init

\* The handlers, the queue and the worker implement the gate: a reply leaves only
\* against an approval, a failing call or a crash that has not been used up, and
\* with an approved text; for any number of tasks, requests and jobs.
THEOREM GateImplemented == Spec => ImplementsGate
<1>1. Base /\ Base' /\ TextInv /\ [Next]_vars => [Gate!Next]_(Gate!gateVars)
  BY NextGate DEF GateStep
<1>2. QED
  BY <1>1, InitGate, BaseInvariant, TextInvariant, PTL DEF Spec, ImplementsGate, Gate!Spec
=============================================================================

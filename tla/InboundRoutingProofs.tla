------------------------ MODULE InboundRoutingProofs ------------------------
(***************************************************************************)
(* Proofs about InboundRouting: types, that a message is settled once, and *)
(* that a paused conversation has somebody responsible for it.             *)
(*                                                                         *)
(* Types need to know that a job has a stored message and an attempt left. *)
(* The other two count what a job may still do, and say which places of    *)
(* its program a paused conversation can rely on.                          *)
(***************************************************************************)
EXTENDS InboundRouting, FiniteSetTheorems, TLAPS

Types ==
    /\ request \in [Deliveries -> RequestState]
    /\ conv \in [Conversations -> [contact : Contacts \cup {None},
                                   state : {"ACTIVE", "PAUSED_FOR_APPROVAL"}]]
    /\ job \in [Deliveries -> JobState]
    /\ log \in [Conversations -> Nat]
    /\ pending \subseteq Deliveries
    /\ decided \in [rejected : SUBSET Deliveries, approved : SUBSET Deliveries]
    /\ replies \in [Deliveries -> Nat]
    /\ handled \in [tasked : SUBSET Deliveries, ignored : SUBSET Deliveries]
    /\ used \in [faults : Nat, crashes : Nat]

Tasked == pending \cup decided.rejected \cup decided.approved

\* A job and a task belong to a message that was stored, in a conversation; a job
\* that runs, waits or is still to come has an attempt left.
RequestOK(d) ==
    request[d].pc \in {"store", "enqueue", "answered"} => request[d].conv \in Conversations

JobOK(d) ==
    /\ job[d].pc # "none" => request[d].pc = "answered"
    /\ job[d].pc \in ActivePcs \cup {"none", "waiting"} => job[d].failures < Attempts

TaskOK(d) == d \in Tasked => request[d].pc = "answered"

Linked == \A d \in Deliveries : RequestOK(d) /\ JobOK(d) /\ TaskOK(d)

TypeInv == Types /\ Linked

LEMMA TypesOfTypeInv == TypeInv => TypeOK
BY DEF TypeInv, Types, Linked, RequestOK, JobOK, TypeOK, Stored

-----------------------------------------------------------------------------
(* Jobs.                                                                   *)

Pcs == ActivePcs \cup {"none", "waiting", "completed", "failed"}

LEMMA JobAt ==
    ASSUME NEW j \in JobState, NEW pc \in Pcs
    PROVE  /\ [j EXCEPT !.pc = pc] \in JobState
           /\ [j EXCEPT !.pc = pc].pc = pc /\ [j EXCEPT !.pc = pc].failures = j.failures
BY DEF JobState, Pcs

LEMMA ForgetFields ==
    ASSUME NEW j \in JobState, NEW pc \in Pcs
    PROVE  /\ Forget(j, pc) \in JobState
           /\ Forget(j, pc).pc = pc
           /\ Forget(j, pc).failures = j.failures
<1> DEFINE q == Forget(j, pc)
<1>1. /\ q.pc = pc /\ q.failures = j.failures /\ q.stalls = j.stalls /\ q.history = FALSE
      /\ q.path = "paused" /\ q.sensitive = FALSE /\ q.answer = None
  BY DEF Forget, NewJob
<1>2. NewJob \in JobState
  BY BoundsAssumption DEF NewJob, JobState
<1>3. j.failures \in 0 .. Attempts /\ j.stalls \in Nat /\ pc \in Pcs
  BY DEF JobState
<1>4. q \in JobState
  BY <1>2, <1>3 DEF Forget, JobState, Pcs
<1> HIDE DEF q
<1> QED
  BY <1>1, <1>4 DEF q

\* What a failed attempt makes of a job that had one left.
LEMMA FailedFields ==
    ASSUME NEW j \in JobState, j.failures < Attempts
    PROVE  /\ FailedJob(j) \in JobState
           /\ FailedJob(j).pc \in {"waiting", "failed"}
           /\ FailedJob(j).pc = "waiting" => FailedJob(j).failures < Attempts
<1> DEFINE k == [j EXCEPT !.failures = @ + 1]
           pc == IF j.failures + 1 < Attempts THEN "waiting" ELSE "failed"
<1>1. k \in JobState /\ k.failures = j.failures + 1
  BY BoundsAssumption DEF JobState
<1>2. pc \in Pcs /\ pc \in {"waiting", "failed"} /\ (pc = "waiting" => j.failures + 1 < Attempts)
  BY DEF Pcs
<1>3. FailedJob(j) = Forget(k, pc)
  BY DEF FailedJob
<1> HIDE DEF k, pc
<1> QED
  BY <1>1, <1>2, <1>3, ForgetFields

LEMMA StalledFields ==
    ASSUME NEW j \in JobState
    PROVE  /\ StalledJob(j) \in JobState
           /\ StalledJob(j).pc \in (Pcs \ ActivePcs)
           /\ j.pc \in ActivePcs => StalledJob(j).pc \in {"waiting", "failed"}
           /\ j.pc \notin ActivePcs => StalledJob(j) = j
           /\ StalledJob(j).failures = j.failures
<1> DEFINE k == [j EXCEPT !.stalls = @ + 1]
           pc == IF j.stalls < MaxStalls THEN "waiting" ELSE "failed"
<1>1. k \in JobState /\ k.failures = j.failures
  BY DEF JobState
<1>2. pc \in {"waiting", "failed"}
  OBVIOUS
<1>3. j.pc \in ActivePcs => StalledJob(j) = Forget(k, pc)
  BY DEF StalledJob
<1>4. j.pc \notin ActivePcs => StalledJob(j) = j
  BY DEF StalledJob
<1>5. j.pc \in Pcs /\ {"waiting", "failed"} \subseteq (Pcs \ ActivePcs)
  BY DEF JobState, Pcs, ActivePcs
<1> HIDE DEF k, pc
<1>6. CASE j.pc \in ActivePcs
  <2>1. /\ Forget(k, pc) \in JobState /\ Forget(k, pc).pc = pc
        /\ Forget(k, pc).failures = k.failures
    BY <1>1, <1>2, <1>5, ForgetFields
  <2> QED
    BY <1>1, <1>2, <1>3, <1>5, <1>6, <2>1
<1>7. CASE j.pc \notin ActivePcs
  BY <1>4, <1>5, <1>7
<1> QED
  BY <1>6, <1>7

\* A job at d goes to pc, with an attempt left if it had one.
Goes(d, pcs) ==
    \E q \in JobState :
        /\ job' = [job EXCEPT ![d] = q]
        /\ q.pc \in pcs
        /\ q.pc \in ActivePcs \cup {"waiting"} => q.failures < Attempts

LEMMA GotoGoes ==
    ASSUME Types, Linked, NEW d \in Deliveries, NEW pc \in ActivePcs, JobGoto(d, pc),
           job[d].pc \in ActivePcs \cup {"waiting"}
    PROVE  Goes(d, {pc})
<1>1. [job[d] EXCEPT !.pc = pc] \in JobState /\ [job[d] EXCEPT !.pc = pc].pc = pc
      /\ [job[d] EXCEPT !.pc = pc].failures = job[d].failures
  <2>1. job[d] \in JobState /\ pc \in Pcs
    BY DEF Types, Pcs
  <2> QED
    BY <2>1, JobAt
<1>2. job' = [job EXCEPT ![d] = [job[d] EXCEPT !.pc = pc]]
  BY DEF JobGoto, Types
<1> QED
  BY <1>1, <1>2 DEF Goes, Linked, JobOK

LEMMA ApprovalGoes ==
    ASSUME Types, Linked, NEW d \in Deliveries, NEW path \in {"approval", "unsent"},
           NeedsApproval(d, path), job[d].pc \in ActivePcs \cup {"waiting"}
    PROVE  Goes(d, {"pause"})
<1> DEFINE f == Forget(job[d], "pause")
<1>1. f \in JobState /\ f.pc = "pause" /\ f.failures = job[d].failures
  BY ForgetFields DEF Types, Pcs, ActivePcs
<1>2. job' = [job EXCEPT ![d] = [f EXCEPT !.path = path]]
  BY DEF NeedsApproval
<1> HIDE DEF f
<1>3. [f EXCEPT !.path = path] \in JobState /\ [f EXCEPT !.path = path].pc = "pause"
      /\ [f EXCEPT !.path = path].failures = job[d].failures
  BY <1>1 DEF JobState
<1> QED
  BY <1>2, <1>3 DEF Goes, Linked, JobOK

\* Where each step of a job takes it.
LEMMA ReadGoes ==
    ASSUME Types, Linked, NEW d \in Deliveries, ReadConversation(d)
    PROVE  IF IsPaused(request[d].conv) THEN Goes(d, {"find"}) ELSE Goes(d, {"suggest"})
<1>1. job[d] \in JobState /\ job[d].pc = "waiting" /\ job[d].failures < Attempts
  BY DEF Types, ReadConversation, Linked, JobOK
<1>2. CASE IsPaused(request[d].conv)
  <2> DEFINE q == [job[d] EXCEPT !.pc = "find", !.path = "paused"]
  <2>1. job' = [job EXCEPT ![d] = q]
    BY <1>2 DEF ReadConversation, Types
  <2>2. q.pc = "find" /\ q.failures = job[d].failures
    BY <1>1 DEF JobState
  <2>3. q \in JobState
    BY <1>1 DEF JobState, ActivePcs
  <2> HIDE DEF q
  <2> QED
    BY <1>1, <1>2, <2>1, <2>2, <2>3 DEF Goes
<1>3. CASE ~ IsPaused(request[d].conv)
  <2> DEFINE h == HasHistory(request[d].conv)
             q(s) == [job[d] EXCEPT !.pc = "suggest", !.path = "reply", !.history = h, !.sensitive = s]
  <2>1. PICK s \in BOOLEAN : job' = [job EXCEPT ![d] = q(s)]
    BY <1>3 DEF ReadConversation, Types
  <2>2. h \in BOOLEAN
    BY DEF HasHistory
  <2> HIDE DEF h
  <2>3. q(s).pc = "suggest" /\ q(s).failures = job[d].failures
    BY <1>1 DEF JobState
  <2>4. q(s) \in JobState
    BY <1>1, <2>2 DEF JobState, ActivePcs
  <2> HIDE DEF q
  <2> QED
    BY <1>1, <1>3, <2>1, <2>3, <2>4 DEF Goes
<1> QED
  BY <1>2, <1>3

LEMMA SuggestGoes ==
    ASSUME Types, Linked, NEW d \in Deliveries, SuggestReply(d)
    PROVE  \/ Goes(d, {"finish"}) /\ handled' = [handled EXCEPT !.ignored = @ \cup {d}]
           \/ Goes(d, {"send"}) /\ UNCHANGED handled
<1> DEFINE q(a, pc) == [job[d] EXCEPT !.answer = a, !.pc = pc]
<1>1. PICK a \in AiAnswers :
        /\ job' = [job EXCEPT ![d] = q(a, IF SkipsReply(a, job[d].history) THEN "finish" ELSE "send")]
        /\ handled' = IF SkipsReply(a, job[d].history)
                      THEN [handled EXCEPT !.ignored = @ \cup {d}] ELSE handled
  BY DEF SuggestReply, Types
<1>2. job[d] \in JobState /\ job[d].failures < Attempts
  BY DEF Types, SuggestReply, Linked, JobOK, ActivePcs
<1>3. ASSUME NEW pc \in {"finish", "send"}
      PROVE  q(a, pc) \in JobState /\ q(a, pc).pc = pc /\ q(a, pc).failures = job[d].failures
  BY <1>2 DEF JobState, ActivePcs
<1> HIDE DEF q
<1>4. CASE SkipsReply(a, job[d].history)
  BY <1>1, <1>2, <1>3, <1>4 DEF Goes
<1>5. CASE ~ SkipsReply(a, job[d].history)
  BY <1>1, <1>2, <1>3, <1>5 DEF Goes
<1> QED
  BY <1>4, <1>5

LEMMA ThrowGoes ==
    ASSUME Types, Linked, NEW d \in Deliveries, JobThrows(d)
    PROVE  Goes(d, {"waiting", "failed"})
<1>1. job[d] \in JobState /\ job[d].failures < Attempts
  BY DEF Types, JobThrows, Linked, JobOK, ActivePcs
<1> QED
  BY <1>1, FailedFields DEF JobThrows, Goes, ActivePcs

LEMMA CompleteGoes ==
    ASSUME Types, Linked, NEW d \in Deliveries, CompleteJob(d)
    PROVE  Goes(d, {"completed"})
<1>1. job' = [job EXCEPT ![d] = Forget(job[d], "completed")]
  BY DEF CompleteJob, Types
<1>2. /\ Forget(job[d], "completed") \in JobState
      /\ Forget(job[d], "completed").pc = "completed"
  BY ForgetFields DEF Types, Pcs
<1> QED
  BY <1>1, <1>2 DEF Goes, ActivePcs

\* All of them at once: the places a job may be at, and how it leaves them.
LEMMA JobGoes ==
    ASSUME Types, Linked, NEW d \in Deliveries,
           JobStep(d) \/ JobThrows(d) \/ ReplyThrows(d)
    PROVE  /\ job[d].pc \in ActivePcs \cup {"waiting"}
           /\ Goes(d, Pcs \ {"none"})
           /\ UNCHANGED request
<1>1. job[d].pc \in ActivePcs \cup {"waiting"} /\ UNCHANGED request
  BY DEF JobStep, JobThrows, ReplyThrows, ReadConversation, SuggestReply, SendAutoReply,
         AutoReplyFails, RecordAutoReply, PauseConversation, FindTask, AppendToTask, CreateTask,
         CompleteJob, ActivePcs
<1>2. ASSUME NEW pc \in ActivePcs, JobGoto(d, pc) PROVE Goes(d, Pcs \ {"none"})
  <2>1. Goes(d, {pc})
    BY <1>1, <1>2, GotoGoes
  <2> QED
    BY <2>1 DEF Goes, Pcs, ActivePcs
<1>3. /\ Goes(d, {"find"}) \/ Goes(d, {"suggest"}) => Goes(d, Pcs \ {"none"})
      /\ Goes(d, {"finish"}) \/ Goes(d, {"send"}) => Goes(d, Pcs \ {"none"})
      /\ Goes(d, {"pause"}) => Goes(d, Pcs \ {"none"})
      /\ Goes(d, {"completed"}) \/ Goes(d, {"waiting", "failed"}) => Goes(d, Pcs \ {"none"})
  BY DEF Goes, Pcs, ActivePcs
<1>4. CASE ReadConversation(d)
  BY <1>1, <1>3, <1>4, ReadGoes
<1>5. CASE SuggestReply(d)
  BY <1>1, <1>3, <1>5, SuggestGoes
<1>6. CASE AutoReplyFails(d) \/ ReplyThrows(d)
  <2>1. PICK path \in {"approval", "unsent"} : NeedsApproval(d, path)
    BY <1>6 DEF AutoReplyFails, ReplyThrows
  <2> QED
    BY <1>1, <1>3, <2>1, ApprovalGoes
<1>7. CASE JobThrows(d) \/ CompleteJob(d)
  BY <1>1, <1>3, <1>7, ThrowGoes, CompleteGoes
<1>8. CASE \/ SendAutoReply(d) \/ RecordAutoReply(d) \/ PauseConversation(d) \/ FindTask(d)
           \/ AppendToTask(d) \/ CreateTask(d)
  BY <1>1, <1>2, <1>8 DEF SendAutoReply, RecordAutoReply, PauseConversation, FindTask, AppendToTask,
                    CreateTask, ActivePcs
<1> QED
  BY <1>1, <1>4, <1>5, <1>6, <1>7, <1>8 DEF JobStep

-----------------------------------------------------------------------------
(* Types.                                                                  *)

LEMMA InitTypes == Init => TypeInv
<1> SUFFICES ASSUME Init PROVE TypeInv
  OBVIOUS
<1>1. NewJob \in JobState /\ NewJob.pc = "none" /\ NewJob.failures < Attempts
  BY BoundsAssumption DEF NewJob, JobState
<1>2. Types
  BY <1>1 DEF Init, Types, RequestState
<1>3. Linked
  BY <1>1 DEF Init, Linked, RequestOK, JobOK, TaskOK, Tasked, ActivePcs
<1> QED
  BY <1>2, <1>3 DEF TypeInv

\* A webhook call d changes nothing of the others, nor a job, nor a task.
LEMMA RequestStep ==
    ASSUME TypeInv, NEW d \in Deliveries, NEW q \in RequestState,
           request' = [request EXCEPT ![d] = q],
           request[d].pc = "answered" => q.pc = "answered",
           q.pc \in {"store", "enqueue", "answered"} => q.conv \in Conversations,
           UNCHANGED <<job, pending, decided>>
    PROVE  request' \in [Deliveries -> RequestState] /\ Linked'
<1>1. request' \in [Deliveries -> RequestState] /\ request'[d] = q
      /\ \A e \in Deliveries \ {d} : request'[e] = request[e]
  BY DEF TypeInv, Types
<1>2. ASSUME NEW e \in Deliveries PROVE (RequestOK(e) /\ JobOK(e) /\ TaskOK(e))'
  BY <1>1 DEF TypeInv, Linked, RequestOK, JobOK, TaskOK, Tasked
<1> QED
  BY <1>1, <1>2 DEF Linked

LEMMA WebhookTypes ==
    ASSUME TypeInv, NEW d \in Deliveries, WebhookStep(d) \/ WebhookFails(d)
    PROVE  TypeInv'
<1>1. request[d] \in RequestState
  BY DEF TypeInv, Types
<1>2. CASE FindConversation(d)
  <2>1. CASE request' = [request EXCEPT ![d].pc = "open"]
    <3> DEFINE q == [request[d] EXCEPT !.pc = "open"]
    <3>1. q \in RequestState /\ q.pc = "open"
      BY <1>1 DEF RequestState
    <3>2. request' = [request EXCEPT ![d] = q]
      BY <2>1
    <3> HIDE DEF q
    <3> QED
      BY <1>2, <3>1, <3>2, RequestStep DEF FindConversation, TypeInv, Types
  <2>2. ASSUME NEW c \in ConversationsOf(request[d].phone),
               request' = [request EXCEPT ![d] = [@ EXCEPT !.pc = "store", !.conv = c]]
        PROVE  TypeInv'
    <3> DEFINE q == [request[d] EXCEPT !.pc = "store", !.conv = c]
    <3>1. q.pc = "store" /\ q.conv = c /\ c \in Conversations
      BY <1>1 DEF RequestState, ConversationsOf
    <3>2. q \in RequestState
      BY <1>1, <3>1 DEF RequestState
    <3>3. request' = [request EXCEPT ![d] = q]
      BY <2>2
    <3> HIDE DEF q
    <3> QED
      BY <1>2, <3>1, <3>2, <3>3, RequestStep DEF FindConversation, TypeInv, Types
  <2> QED
    BY <1>2, <2>1, <2>2 DEF FindConversation
<1>3. CASE CreateConversation(d)
  <2> DEFINE c == CHOOSE x \in ConversationsOf(None) : TRUE
             q == [request[d] EXCEPT !.pc = "store", !.conv = c]
  <2>1. c \in Conversations
    BY <1>3 DEF CreateConversation, ConversationsOf
  <2>2. request' = [request EXCEPT ![d] = q] /\ conv' = [conv EXCEPT ![c].contact = request[d].phone]
        /\ UNCHANGED <<job, pending, decided>> /\ request[d].pc = "open"
    BY <1>3 DEF CreateConversation
  <2> HIDE DEF c
  <2>3. q.pc = "store" /\ q.conv = c
    BY <1>1 DEF RequestState
  <2>4. q \in RequestState
    BY <1>1, <2>1 DEF RequestState
  <2> HIDE DEF q
  <2>5. conv' \in [Conversations -> [contact : Contacts \cup {None},
                                     state : {"ACTIVE", "PAUSED_FOR_APPROVAL"}]]
    BY <1>1, <2>1, <2>2 DEF TypeInv, Types, RequestState
  <2> QED
    BY <1>3, <2>1, <2>2, <2>3, <2>4, <2>5, RequestStep DEF CreateConversation, TypeInv, Types
<1>4. CASE StoreMessage(d) \/ WebhookFails(d)
  <2>1. PICK pc \in {"enqueue", "answered", "lost"} :
          /\ request' = [request EXCEPT ![d].pc = pc]
          /\ pc # "lost" => request[d].pc \in {"store", "enqueue"}
          /\ request[d].pc # "answered"
    BY <1>4 DEF StoreMessage, WebhookFails, Stored
  <2> DEFINE q == [request[d] EXCEPT !.pc = pc]
  <2>2. q \in RequestState /\ q.pc = pc /\ q.conv = request[d].conv
    BY <1>1 DEF RequestState
  <2>3. request' = [request EXCEPT ![d] = q]
    BY <2>1
  <2> HIDE DEF q
  <2>4. q.pc \in {"store", "enqueue", "answered"} => q.conv \in Conversations
    BY <2>1, <2>2 DEF TypeInv, Linked, RequestOK
  <2>5. /\ UNCHANGED <<conv, job, log, pending, decided, replies, handled>>
        /\ used' \in [faults : Nat, crashes : Nat]
    BY <1>4 DEF StoreMessage, WebhookFails, Fault, TypeInv, Types
  <2>6. request' \in [Deliveries -> RequestState] /\ Linked'
    BY <2>1, <2>2, <2>3, <2>4, <2>5, RequestStep
  <2> QED
    BY <2>5, <2>6 DEF TypeInv, Types
<1>5. CASE EnqueueMessage(d)
  <2> DEFINE q == [request[d] EXCEPT !.pc = "answered"]
             j == [job[d] EXCEPT !.pc = "waiting"]
  <2>1. q \in RequestState /\ q.pc = "answered" /\ q.conv = request[d].conv
    BY <1>1 DEF RequestState
  <2>2. j \in JobState /\ j.pc = "waiting" /\ j.failures = job[d].failures
    <3>1. job[d] \in JobState /\ "waiting" \in Pcs
      BY DEF TypeInv, Types, Pcs
    <3> QED
      BY <3>1, JobAt
  <2>3. request' = [request EXCEPT ![d] = q] /\ job' = [job EXCEPT ![d] = j]
    BY <1>5 DEF EnqueueMessage
  <2>4. request[d].pc = "enqueue" /\ UNCHANGED <<conv, log, pending, decided, replies, handled, used>>
    BY <1>5 DEF EnqueueMessage
  <2>5. request[d].conv \in Conversations /\ job[d].failures < Attempts
    BY <2>4 DEF TypeInv, Linked, RequestOK, JobOK
  <2> HIDE DEF q, j
  <2>6. /\ request' \in [Deliveries -> RequestState] /\ request'[d] = q
        /\ \A e \in Deliveries \ {d} : request'[e] = request[e]
    BY <2>1, <2>3 DEF TypeInv, Types
  <2>7. /\ job' \in [Deliveries -> JobState] /\ job'[d] = j
        /\ \A e \in Deliveries \ {d} : job'[e] = job[e]
    BY <2>2, <2>3 DEF TypeInv, Types
  <2>8. ASSUME NEW e \in Deliveries PROVE (RequestOK(e) /\ JobOK(e) /\ TaskOK(e))'
    <3>1. CASE e = d
      BY <2>1, <2>2, <2>4, <2>5, <2>6, <2>7, <3>1 DEF RequestOK, JobOK, TaskOK
    <3>2. CASE e # d
      BY <2>4, <2>6, <2>7, <3>2 DEF TypeInv, Linked, RequestOK, JobOK, TaskOK, Tasked
    <3> QED
      BY <3>1, <3>2
  <2> QED
    BY <2>4, <2>6, <2>7, <2>8 DEF TypeInv, Types, Linked
<1> QED
  BY <1>2, <1>3, <1>4, <1>5 DEF WebhookStep

\* The rows a step of a job may change besides the job.
LEMMA JobTypes ==
    ASSUME TypeInv, NEW d \in Deliveries, JobStep(d) \/ JobThrows(d) \/ ReplyThrows(d)
    PROVE  TypeInv'
<1>1. /\ job[d].pc \in ActivePcs \cup {"waiting"} /\ Goes(d, Pcs \ {"none"}) /\ UNCHANGED request
  BY JobGoes DEF TypeInv
<1>2. PICK q \in JobState :
        /\ job' = [job EXCEPT ![d] = q]
        /\ q.pc \in Pcs \ {"none"}
        /\ q.pc \in ActivePcs \cup {"waiting"} => q.failures < Attempts
  BY <1>1 DEF Goes
<1>3. /\ job' \in [Deliveries -> JobState] /\ job'[d] = q
      /\ \A e \in Deliveries \ {d} : job'[e] = job[e]
  BY <1>2 DEF TypeInv, Types
<1>4. request[d].pc = "answered" /\ request[d].conv \in Conversations
  BY <1>1 DEF TypeInv, Linked, JobOK, RequestOK, ActivePcs
<1>5. /\ pending' \in {pending, pending \cup {d}} /\ UNCHANGED decided
      /\ UNCHANGED replies \/ replies' = [replies EXCEPT ![d] = @ + 1]
      /\ UNCHANGED log \/ log' = [log EXCEPT ![request[d].conv] = @ + 1]
      /\ UNCHANGED conv \/ conv' = [conv EXCEPT ![request[d].conv].state = "PAUSED_FOR_APPROVAL"]
      /\ UNCHANGED used \/ Fault
      /\ \/ UNCHANGED handled
         \/ handled' = [handled EXCEPT !.ignored = @ \cup {d}]
         \/ handled' = [handled EXCEPT !.tasked = @ \cup {d}]
  <2>1. CASE ReadConversation(d)
    BY <2>1 DEF ReadConversation
  <2>2. CASE SuggestReply(d)
    BY <2>2 DEF SuggestReply
  <2>3. CASE SendAutoReply(d) \/ AutoReplyFails(d) \/ RecordAutoReply(d) \/ PauseConversation(d)
    BY <2>3 DEF SendAutoReply, AutoReplyFails, RecordAutoReply, PauseConversation
  <2>4. CASE FindTask(d) \/ AppendToTask(d) \/ CreateTask(d) \/ CompleteJob(d)
    BY <2>4 DEF FindTask, AppendToTask, CreateTask, CompleteJob
  <2>5. CASE JobThrows(d) \/ ReplyThrows(d)
    BY <2>5 DEF JobThrows, ReplyThrows
  <2> QED
    BY <2>1, <2>2, <2>3, <2>4, <2>5 DEF JobStep
<1>6. /\ conv' \in [Conversations -> [contact : Contacts \cup {None},
                                      state : {"ACTIVE", "PAUSED_FOR_APPROVAL"}]]
      /\ log' \in [Conversations -> Nat]
      /\ pending' \subseteq Deliveries
      /\ decided' \in [rejected : SUBSET Deliveries, approved : SUBSET Deliveries]
      /\ replies' \in [Deliveries -> Nat]
      /\ handled' \in [tasked : SUBSET Deliveries, ignored : SUBSET Deliveries]
      /\ used' \in [faults : Nat, crashes : Nat]
  <2>1. conv' \in [Conversations -> [contact : Contacts \cup {None},
                                    state : {"ACTIVE", "PAUSED_FOR_APPROVAL"}]]
    BY <1>4, <1>5 DEF TypeInv, Types
  <2>2. log' \in [Conversations -> Nat] /\ replies' \in [Deliveries -> Nat]
    BY <1>4, <1>5 DEF TypeInv, Types
  <2>3. /\ pending' \subseteq Deliveries
        /\ decided' \in [rejected : SUBSET Deliveries, approved : SUBSET Deliveries]
        /\ handled' \in [tasked : SUBSET Deliveries, ignored : SUBSET Deliveries]
    BY <1>5 DEF TypeInv, Types
  <2>4. used' \in [faults : Nat, crashes : Nat]
    BY <1>5 DEF TypeInv, Types, Fault
  <2> QED
    BY <2>1, <2>2, <2>3, <2>4
<1>7. ASSUME NEW e \in Deliveries PROVE (RequestOK(e) /\ JobOK(e) /\ TaskOK(e))'
  <2>1. CASE e = d
    BY <1>1, <1>2, <1>3, <1>4, <2>1 DEF RequestOK, JobOK, TaskOK
  <2>2. CASE e # d
    BY <1>1, <1>3, <1>5, <2>2 DEF TypeInv, Linked, RequestOK, JobOK, TaskOK, Tasked
  <2> QED
    BY <2>1, <2>2
<1> QED
  BY <1>1, <1>3, <1>6, <1>7 DEF TypeInv, Types, Linked

LEMMA OperatorTypes ==
    ASSUME TypeInv, NEW d \in Deliveries, Decide(d) \/ ResumeConversation(d)
    PROVE  TypeInv'
<1>1. d \in Tasked /\ Tasked' \subseteq Tasked /\ UNCHANGED <<request, job, replies, handled, used>>
  <2>1. CASE Decide(d)
    BY <2>1 DEF Decide, Tasked, TypeInv, Types
  <2>2. CASE ResumeConversation(d)
    BY <2>2 DEF ResumeConversation, Tasked, TypeInv, Types
  <2> QED
    BY <2>1, <2>2
<1>2. request[d].conv \in Conversations
  BY <1>1 DEF TypeInv, Linked, TaskOK, RequestOK
<1>3. Linked'
  BY <1>1 DEF TypeInv, Linked, RequestOK, JobOK, TaskOK
<1>4. CASE Decide(d)
  BY <1>1, <1>3, <1>4 DEF TypeInv, Types, Decide
<1>5. CASE ResumeConversation(d)
  <2>1. conv' \in [Conversations -> [contact : Contacts \cup {None},
                                    state : {"ACTIVE", "PAUSED_FOR_APPROVAL"}]]
    BY <1>2, <1>5 DEF TypeInv, Types, ResumeConversation
  <2>2. log' \in [Conversations -> Nat]
    BY <1>2, <1>5 DEF TypeInv, Types, ResumeConversation
  <2> QED
    BY <1>1, <1>3, <1>5, <2>1, <2>2 DEF TypeInv, Types, ResumeConversation
<1> QED
  BY <1>4, <1>5

LEMMA CrashTypes ==
    ASSUME TypeInv, Crash
    PROVE  TypeInv'
<1>1. ASSUME NEW d \in Deliveries
      PROVE  /\ request'[d] \in RequestState /\ request'[d].conv = request[d].conv
             /\ request'[d].pc \in {request[d].pc, "lost"}
                \/ (request'[d].pc = "answered" /\ request[d].pc = "enqueue")
             /\ request[d].pc = "answered" => request'[d].pc = "answered"
  <2> DEFINE pc == CASE request[d].pc \in {"open", "store"} -> "lost"
                     [] request[d].pc = "enqueue"           -> "answered"
                     [] OTHER                               -> request[d].pc
             q == [request[d] EXCEPT !.pc = pc]
  <2>1. request'[d] = q
    BY DEF Crash
  <2>2. pc \in {request[d].pc, "lost"} \/ (pc = "answered" /\ request[d].pc = "enqueue")
    OBVIOUS
  <2>3. request[d].pc = "answered" => pc = "answered"
    OBVIOUS
  <2>4. request[d] \in RequestState
    BY DEF TypeInv, Types
  <2> HIDE DEF pc
  <2>5. q.pc = pc /\ q.conv = request[d].conv /\ q \in RequestState
    BY <2>2, <2>4 DEF RequestState
  <2> HIDE DEF q
  <2> QED
    BY <2>1, <2>2, <2>3, <2>5
<1>2. ASSUME NEW d \in Deliveries
      PROVE  /\ job'[d] \in JobState /\ job'[d].failures = job[d].failures
             /\ job'[d].pc = job[d].pc \/ (job[d].pc \in ActivePcs /\ job'[d].pc \in {"waiting", "failed"})
  <2>1. job'[d] = StalledJob(job[d]) /\ job[d] \in JobState
    BY DEF Crash, TypeInv, Types
  <2> QED
    BY <2>1, StalledFields
<1>3. request' \in [Deliveries -> RequestState] /\ job' \in [Deliveries -> JobState]
  <2>1. request' = [d \in Deliveries |-> request'[d]] /\ job' = [d \in Deliveries |-> job'[d]]
    BY DEF Crash
  <2> QED
    BY <1>1, <1>2, <2>1
<1>4. UNCHANGED <<conv, log, pending, decided, replies, handled>>
      /\ used' \in [faults : Nat, crashes : Nat]
  BY DEF Crash, TypeInv, Types
<1>5. ASSUME NEW d \in Deliveries PROVE (RequestOK(d) /\ JobOK(d) /\ TaskOK(d))'
  BY <1>1, <1>2, <1>4 DEF TypeInv, Linked, RequestOK, JobOK, TaskOK, Tasked, ActivePcs
<1> QED
  BY <1>3, <1>4, <1>5 DEF TypeInv, Types, Linked

LEMMA NextTypes == TypeInv /\ [Next]_vars => TypeInv'
<1> SUFFICES ASSUME TypeInv, [Next]_vars PROVE TypeInv'
  OBVIOUS
<1>1. CASE UNCHANGED vars
  BY <1>1 DEF vars, TypeInv, Types, Linked, RequestOK, JobOK, TaskOK, Tasked
<1>2. CASE Rest
  BY <1>1, <1>2 DEF Rest
<1>3. CASE Crash
  BY <1>3, CrashTypes
<1> QED
  BY <1>1, <1>2, <1>3, WebhookTypes, JobTypes, OperatorTypes DEF Next

\* Every variable keeps its type: no job is tried more often than its attempts, and
\* every job has the conversation it works on.
THEOREM RoutingTypeCorrect == Spec => []TypeOK
<1> QED
  BY InitTypes, NextTypes, TypesOfTypeInv, PTL DEF Spec

-----------------------------------------------------------------------------
(* A message is settled once.                                              *)

\* Places from which a job may still answer the message or give it away.
Deciding == {"none", "waiting", "suggest", "send", "pause", "find", "append", "create"}

GivenAway(d) == d \in handled.tasked \cup handled.ignored

\* What was done with the message, and what its job may still do.
Budget(d) ==
    replies[d] + (IF GivenAway(d) THEN 1 ELSE 0) + (IF job[d].pc \in Deciding THEN 1 ELSE 0)
        <= 1 + used.crashes

BudgetInv == \A d \in Deliveries : Budget(d)

LEMMA BudgetSettles == TypeInv /\ BudgetInv => SettledOnce
<1> SUFFICES ASSUME TypeInv, BudgetInv, NEW d \in Deliveries
             PROVE  replies[d] + Cardinality({d} \cap (handled.tasked \cup handled.ignored))
                      <= 1 + used.crashes
  BY DEF SettledOnce
<1>1. replies[d] \in Nat /\ used.crashes \in Nat
  BY DEF TypeInv, Types
<1>2. Budget(d)
  BY DEF BudgetInv
<1>3. CASE GivenAway(d)
  <2>1. {d} \cap (handled.tasked \cup handled.ignored) = {d}
    BY <1>3 DEF GivenAway
  <2>2. Cardinality({d}) = 1
    BY FS_Singleton
  <2> QED
    BY <1>1, <1>2, <1>3, <2>1, <2>2 DEF Budget
<1>4. CASE ~ GivenAway(d)
  <2>1. {d} \cap (handled.tasked \cup handled.ignored) = {}
    BY <1>4 DEF GivenAway
  <2>2. Cardinality({}) = 0
    BY FS_EmptySet
  <2> QED
    BY <1>1, <1>2, <1>4, <2>1, <2>2 DEF Budget
<1> QED
  BY <1>3, <1>4

LEMMA InitBudget == Init => BudgetInv
BY DEF Init, BudgetInv, Budget, GivenAway, NewJob, Deciding

\* The others keep their budgets.
LEMMA BudgetStays ==
    ASSUME TypeInv, BudgetInv, NEW d \in Deliveries,
           \A e \in Deliveries \ {d} : /\ replies'[e] = replies[e] /\ job'[e] = job[e]
                                       /\ GivenAway(e)' <=> GivenAway(e),
           used'.crashes = used.crashes,
           Budget(d)'
    PROVE  BudgetInv'
<1> SUFFICES ASSUME NEW e \in Deliveries, e # d PROVE Budget(e)'
  BY DEF BudgetInv
<1> QED
  BY DEF BudgetInv, Budget

\* A job that only moves on, from a place where it decides or to one where it does not.
LEMMA BudgetOfMove ==
    ASSUME TypeInv, BudgetInv, NEW d \in Deliveries, NEW q, job' = [job EXCEPT ![d] = q],
           UNCHANGED <<replies, handled>>, used'.crashes = used.crashes,
           job[d].pc \in Deciding \/ q.pc \notin Deciding
    PROVE  BudgetInv'
<1>1. job'[d] = q /\ \A e \in Deliveries \ {d} : job'[e] = job[e]
  BY DEF TypeInv, Types
<1>2. replies[d] \in Nat /\ used.crashes \in Nat
  BY DEF TypeInv, Types
<1>3. Budget(d)'
  BY <1>1, <1>2 DEF BudgetInv, Budget, GivenAway
<1> QED
  BY <1>1, <1>3, BudgetStays DEF GivenAway

\* A job that decides: the message is answered or given away, and that was its last word.
LEMMA BudgetOfDecision ==
    ASSUME TypeInv, BudgetInv, NEW d \in Deliveries, NEW q, job' = [job EXCEPT ![d] = q],
           job[d].pc \in Deciding, q.pc \notin Deciding, UNCHANGED used,
           \/ replies' = [replies EXCEPT ![d] = @ + 1] /\ UNCHANGED handled
           \/ handled' = [handled EXCEPT !.ignored = @ \cup {d}] /\ UNCHANGED replies
           \/ handled' = [handled EXCEPT !.tasked = @ \cup {d}] /\ UNCHANGED replies
    PROVE  BudgetInv'
<1>1. job'[d] = q /\ \A e \in Deliveries \ {d} : job'[e] = job[e]
  BY DEF TypeInv, Types
<1>2. replies[d] \in Nat /\ used.crashes \in Nat
  BY DEF TypeInv, Types
<1>3. \A e \in Deliveries \ {d} : replies'[e] = replies[e] /\ (GivenAway(e)' <=> GivenAway(e))
  BY DEF TypeInv, Types, GivenAway
<1>4. replies'[d] + (IF GivenAway(d)' THEN 1 ELSE 0)
        <= replies[d] + (IF GivenAway(d) THEN 1 ELSE 0) + 1
  <2>1. CASE replies' = [replies EXCEPT ![d] = @ + 1] /\ UNCHANGED handled
    BY <1>2, <2>1 DEF TypeInv, Types, GivenAway
  <2>2. CASE UNCHANGED replies
    BY <1>2, <2>2
  <2> QED
    BY <2>1, <2>2
<1>5. Budget(d)'
  <2>1. Budget(d) /\ used'.crashes = used.crashes
    BY DEF BudgetInv
  <2>2. replies'[d] \in Nat
    BY <1>2 DEF TypeInv, Types
  <2> QED
    BY <1>1, <1>2, <1>4, <2>1, <2>2 DEF Budget
<1> QED
  BY <1>1, <1>3, <1>5, BudgetStays

LEMMA JobBudget ==
    ASSUME TypeInv, BudgetInv, NEW d \in Deliveries,
           JobStep(d) \/ JobThrows(d) \/ ReplyThrows(d)
    PROVE  BudgetInv'
<1>1. /\ job[d].pc \in ActivePcs \cup {"waiting"} /\ Goes(d, Pcs \ {"none"}) /\ Types /\ Linked
  BY JobGoes DEF TypeInv
<1>2. CASE \/ ReadConversation(d) \/ AutoReplyFails(d) \/ PauseConversation(d) \/ FindTask(d)
           \/ JobThrows(d) \/ ReplyThrows(d)
  <2>1. PICK q \in JobState : job' = [job EXCEPT ![d] = q]
    BY <1>1 DEF Goes
  <2>2. job[d].pc \in Deciding /\ UNCHANGED <<replies, handled>> /\ used'.crashes = used.crashes
    BY <1>2 DEF ReadConversation, AutoReplyFails, PauseConversation, FindTask, JobThrows, ReplyThrows,
                Deciding, Fault, TypeInv, Types
  <2> QED
    BY <2>1, <2>2, BudgetOfMove
<1>3. CASE SuggestReply(d)
  <2>1. job[d].pc \in Deciding /\ UNCHANGED <<replies, used>>
    BY <1>3 DEF SuggestReply, Deciding
  <2>2. CASE Goes(d, {"finish"}) /\ handled' = [handled EXCEPT !.ignored = @ \cup {d}]
    <3>1. PICK q \in JobState : job' = [job EXCEPT ![d] = q] /\ q.pc = "finish"
      BY <2>2 DEF Goes
    <3> QED
      BY <2>1, <2>2, <3>1, BudgetOfDecision DEF Deciding
  <2>3. CASE Goes(d, {"send"}) /\ UNCHANGED handled
    <3>1. PICK q \in JobState : job' = [job EXCEPT ![d] = q]
      BY <2>3 DEF Goes
    <3> QED
      BY <2>1, <2>3, <3>1, BudgetOfMove
  <2> QED
    BY <1>1, <1>3, <2>2, <2>3, SuggestGoes
<1>4. CASE SendAutoReply(d) \/ AppendToTask(d) \/ CreateTask(d)
  <2>1. PICK pc \in {"record", "finish"} : JobGoto(d, pc)
    BY <1>4 DEF SendAutoReply, AppendToTask, CreateTask
  <2>2. PICK q \in JobState : job' = [job EXCEPT ![d] = q] /\ q.pc = pc
    <3>1. pc \in ActivePcs
      BY DEF ActivePcs
    <3>2. Goes(d, {pc})
      BY <1>1, <2>1, <3>1, GotoGoes
    <3> QED
      BY <3>2 DEF Goes
  <2>3. /\ job[d].pc \in Deciding /\ UNCHANGED used
        /\ \/ replies' = [replies EXCEPT ![d] = @ + 1] /\ UNCHANGED handled
           \/ handled' = [handled EXCEPT !.tasked = @ \cup {d}] /\ UNCHANGED replies
    BY <1>4 DEF SendAutoReply, AppendToTask, CreateTask, Deciding
  <2>4. pc \notin Deciding
    BY DEF Deciding
  <2> QED
    BY <2>2, <2>3, <2>4, BudgetOfDecision
<1>5. CASE RecordAutoReply(d)
  <2>1. PICK q \in JobState : job' = [job EXCEPT ![d] = q] /\ q.pc = "finish"
    <3>1. JobGoto(d, "finish") /\ "finish" \in ActivePcs
      BY <1>5 DEF RecordAutoReply, ActivePcs
    <3>2. Goes(d, {"finish"})
      BY <1>1, <3>1, GotoGoes
    <3> QED
      BY <3>2 DEF Goes
  <2>2. UNCHANGED <<replies, handled>> /\ used'.crashes = used.crashes
    BY <1>5 DEF RecordAutoReply, Fault, TypeInv, Types
  <2> QED
    BY <2>1, <2>2, BudgetOfMove DEF Deciding
<1>6. CASE CompleteJob(d)
  <2>1. PICK q \in JobState : job' = [job EXCEPT ![d] = q] /\ q.pc = "completed"
    BY <1>1, <1>6, CompleteGoes DEF Goes
  <2>2. UNCHANGED <<replies, handled, used>>
    BY <1>6 DEF CompleteJob
  <2> QED
    BY <2>1, <2>2, BudgetOfMove DEF Deciding
<1> QED
  BY <1>2, <1>3, <1>4, <1>5, <1>6 DEF JobStep

LEMMA NextBudget == TypeInv /\ BudgetInv /\ [Next]_vars => BudgetInv'
<1> SUFFICES ASSUME TypeInv, BudgetInv, [Next]_vars PROVE BudgetInv'
  OBVIOUS
<1>1. CASE UNCHANGED <<job, replies, handled, used>>
  BY <1>1 DEF BudgetInv, Budget, GivenAway
<1>2. CASE UNCHANGED vars \/ Rest
  BY <1>1, <1>2 DEF vars, Rest
<1>3. ASSUME NEW d \in Deliveries, WebhookStep(d) \/ WebhookFails(d) PROVE BudgetInv'
  <2>1. CASE EnqueueMessage(d)
    <3>1. job' = [job EXCEPT ![d] = [job[d] EXCEPT !.pc = "waiting"]]
          /\ UNCHANGED <<replies, handled, used>> /\ job[d].pc = "none"
      BY <2>1 DEF EnqueueMessage, TypeInv, Types, Linked, JobOK
    <3> QED
      BY <3>1, BudgetOfMove DEF Deciding
  <2>2. CASE WebhookFails(d)
    BY <2>2 DEF WebhookFails, Fault, TypeInv, Types, BudgetInv, Budget, GivenAway
  <2> QED
    BY <1>1, <1>3, <2>1, <2>2 DEF WebhookStep, FindConversation, CreateConversation, StoreMessage
<1>4. ASSUME NEW d \in Deliveries, Decide(d) \/ ResumeConversation(d) PROVE BudgetInv'
  BY <1>1, <1>4 DEF Decide, ResumeConversation
<1>5. CASE Crash
  <2> SUFFICES ASSUME NEW d \in Deliveries PROVE Budget(d)'
    BY DEF BudgetInv
  <2>1. UNCHANGED <<replies, handled>> /\ used'.crashes = used.crashes + 1
    BY <1>5 DEF Crash, TypeInv, Types
  <2>2. replies[d] \in Nat /\ used.crashes \in Nat
    BY DEF TypeInv, Types
  <2>3. replies[d] + (IF GivenAway(d) THEN 1 ELSE 0) <= 1 + used.crashes
    BY <2>2 DEF BudgetInv, Budget
  <2> QED
    BY <2>1, <2>2, <2>3 DEF Budget, GivenAway
<1> QED
  BY <1>2, <1>3, <1>4, <1>5, JobBudget DEF Next

\* Whatever fails and is tried again: a message is answered automatically, ignored or
\* given to an operator, in one way and once, and only a restart of the process adds one.
THEOREM MessagesSettledOnce == Spec => []SettledOnce
<1> QED
  BY InitTypes, NextTypes, InitBudget, NextBudget, BudgetSettles, PTL DEF Spec

-----------------------------------------------------------------------------
(* A paused conversation has somebody responsible for it.                  *)

\* Places from which a job makes a task, unless there is one or it fails for good.  A
\* job that is about to append to a task is not one of them: the task may be gone.
Responsible == {"waiting", "pause", "find", "create", "failed"}

Owner(d) == d \in Tasked \/ job[d].pc \in Responsible

Owned(c) == \E d \in Deliveries : request[d].conv = c /\ Owner(d)

OwnerInv == \A c \in Conversations : IsPaused(c) => Owned(c)

LEMMA OwnersOwn == OwnerInv => PausedHasOwner
<1>1. Responsible \subseteq ActivePcs \cup {"waiting", "failed"}
  BY DEF Responsible, ActivePcs
<1> QED
  BY <1>1 DEF OwnerInv, Owned, Owner, Tasked, PausedHasOwner

LEMMA InitOwners == Init => OwnerInv
BY DEF Init, OwnerInv, IsPaused

\* The owners besides d stay; where d is no owner any more, its conversation is not
\* paused or has another one.
LEMMA OwnersStay ==
    ASSUME TypeInv, OwnerInv, NEW d \in Deliveries,
           \A e \in Deliveries \ {d} : Owner(e) => Owner(e)' /\ request'[e].conv = request[e].conv,
           Owner(d)' \/ ~ Owner(d) \/ ~ IsPaused(request[d].conv)' \/ Owned(request[d].conv)',
           Owner(d) => request'[d].conv = request[d].conv,
           \A c \in Conversations : IsPaused(c)' => IsPaused(c) \/ Owned(c)'
    PROVE  OwnerInv'
<1> SUFFICES ASSUME NEW c \in Conversations, IsPaused(c)' PROVE Owned(c)'
  BY DEF OwnerInv
<1>1. CASE Owned(c)'
  BY <1>1
<1>2. CASE IsPaused(c)
  <2>1. PICK e \in Deliveries : request[e].conv = c /\ Owner(e)
    BY <1>2 DEF OwnerInv, Owned
  <2>2. CASE e = d
    BY <2>1, <2>2 DEF Owned
  <2>3. CASE e # d
    BY <2>1, <2>3 DEF Owned
  <2> QED
    BY <2>2, <2>3
<1> QED
  BY <1>1, <1>2

LEMMA JobOwners ==
    ASSUME TypeInv, OwnerInv, NEW d \in Deliveries,
           JobStep(d) \/ JobThrows(d) \/ ReplyThrows(d)
    PROVE  OwnerInv'
<1> DEFINE c == request[d].conv
<1>1. /\ job[d].pc \in ActivePcs \cup {"waiting"} /\ Goes(d, Pcs \ {"none"}) /\ Types /\ Linked
      /\ UNCHANGED request
  BY JobGoes DEF TypeInv
<1>2. \A e \in Deliveries \ {d} : job'[e] = job[e]
  BY <1>1 DEF Goes, Types
<1>3. pending \subseteq pending' /\ UNCHANGED decided
  BY DEF JobStep, JobThrows, ReplyThrows, ReadConversation, SuggestReply, SendAutoReply,
         AutoReplyFails, RecordAutoReply, PauseConversation, FindTask, AppendToTask, CreateTask,
         CompleteJob
<1>4. \A e \in Deliveries : e \in Tasked => e \in Tasked'
  BY <1>3 DEF Tasked
<1>5. \A e \in Deliveries \ {d} : Owner(e) => Owner(e)' /\ request'[e].conv = request[e].conv
  BY <1>1, <1>2, <1>4 DEF Owner
<1>6. ASSUME NEW pcs, Goes(d, pcs) PROVE job'[d].pc \in pcs
  BY <1>1, <1>6 DEF Goes, Types
<1>7. ASSUME UNCHANGED conv,
             Owner(d)' \/ ~ Owner(d) \/ ~ IsPaused(c) \/ Owned(c)'
      PROVE  OwnerInv'
  BY <1>1, <1>5, <1>7, OwnersStay DEF IsPaused
<1>8. CASE ReadConversation(d)
  <2>1. UNCHANGED conv
    BY <1>8 DEF ReadConversation
  <2>2. CASE IsPaused(c)
    <3>1. job'[d].pc \in {"find"}
      BY <1>1, <1>6, <1>8, <2>2, ReadGoes
    <3> QED
      BY <1>7, <2>1, <3>1 DEF Owner, Responsible
  <2> QED
    BY <1>7, <2>1, <2>2
<1>9. CASE SuggestReply(d) \/ SendAutoReply(d) \/ RecordAutoReply(d) \/ AppendToTask(d)
           \/ CompleteJob(d)
  <2>1. UNCHANGED conv /\ job[d].pc \notin Responsible
    BY <1>9 DEF SuggestReply, SendAutoReply, RecordAutoReply, AppendToTask, CompleteJob, Responsible
  <2>2. Owner(d)' \/ ~ Owner(d)
    BY <1>4, <2>1 DEF Owner
  <2> QED
    BY <1>7, <2>1, <2>2
<1>10. CASE AutoReplyFails(d) \/ ReplyThrows(d)
  <2>1. PICK path \in {"approval", "unsent"} : NeedsApproval(d, path) /\ UNCHANGED conv
    BY <1>10 DEF AutoReplyFails, ReplyThrows
  <2>2. job'[d].pc \in {"pause"}
    BY <1>1, <1>6, <2>1, ApprovalGoes
  <2> QED
    BY <1>7, <2>1, <2>2 DEF Owner, Responsible
<1>11. CASE PauseConversation(d)
  <2>1. job'[d].pc \in {"find"}
    BY <1>1, <1>6, <1>11, GotoGoes DEF PauseConversation, ActivePcs
  <2>2. Owner(d)' /\ Owned(c)'
    BY <1>1, <2>1 DEF Owner, Owned, Responsible
  <2>3. c \in Conversations
    BY <1>1 DEF Linked, JobOK, RequestOK, ActivePcs
  <2>4. \A k \in Conversations : k # c => (IsPaused(k)' <=> IsPaused(k))
    BY <1>1, <1>11, <2>3 DEF PauseConversation, IsPaused, Types
  <2>5. \A k \in Conversations : IsPaused(k)' => IsPaused(k) \/ Owned(k)'
    BY <1>1, <2>1, <2>4 DEF Owned, Owner, Responsible
  <2> QED
    BY <1>1, <1>5, <2>2, <2>5, OwnersStay
<1>12. CASE FindTask(d)
  <2>1. UNCHANGED <<conv, pending>>
    BY <1>12 DEF FindTask
  <2>2. CASE d \in pending
    BY <1>4, <1>7, <2>1, <2>2 DEF Owner, Tasked
  <2>3. CASE PendingIn(c) # {}
    <3>1. PICK e \in Deliveries : e \in pending /\ request[e].conv = c
      BY <1>1, <2>3 DEF PendingIn, Types
    <3>2. Owned(c)'
      BY <1>1, <2>1, <3>1 DEF Owned, Owner, Tasked
    <3> QED
      BY <1>7, <2>1, <3>2
  <2>4. CASE JobGoto(d, "create")
    <3>1. job'[d].pc \in {"create"}
      BY <1>1, <1>6, <2>4, GotoGoes DEF ActivePcs
    <3> QED
      BY <1>7, <2>1, <3>1 DEF Owner, Responsible
  <2> QED
    BY <1>12, <2>2, <2>3, <2>4 DEF FindTask
<1>13. CASE CreateTask(d)
  BY <1>7, <1>13 DEF CreateTask, Owner, Tasked
<1>14. CASE JobThrows(d)
  <2>1. job'[d].pc \in {"waiting", "failed"} /\ UNCHANGED conv
    BY <1>1, <1>6, <1>14, ThrowGoes DEF JobThrows
  <2> QED
    BY <1>7, <2>1 DEF Owner, Responsible
<1> QED
  BY <1>8, <1>9, <1>10, <1>11, <1>12, <1>13, <1>14 DEF JobStep

LEMMA WebhookOwners ==
    ASSUME TypeInv, OwnerInv, NEW d \in Deliveries, WebhookStep(d) \/ WebhookFails(d)
    PROVE  OwnerInv'
<1>1. /\ UNCHANGED <<pending, decided>> /\ request[d].pc # "answered"
      /\ \A e \in Deliveries \ {d} : request'[e] = request[e] /\ job'[e] = job[e]
  BY DEF WebhookStep, WebhookFails, FindConversation, CreateConversation, StoreMessage,
         EnqueueMessage, TypeInv, Types
<1>2. ~ Owner(d)
  BY <1>1 DEF TypeInv, Linked, JobOK, TaskOK, Owner, Responsible
<1>3. \A k \in Conversations : IsPaused(k)' => IsPaused(k)
  <2>1. CASE CreateConversation(d)
    <3>1. PICK x \in Conversations : conv' = [conv EXCEPT ![x].contact = request[d].phone]
      BY <2>1 DEF CreateConversation, ConversationsOf
    <3> QED
      BY <3>1 DEF TypeInv, Types, IsPaused
  <2>2. CASE UNCHANGED conv
    BY <2>2 DEF IsPaused
  <2> QED
    BY <2>1, <2>2 DEF WebhookStep, WebhookFails, FindConversation, StoreMessage, EnqueueMessage
<1>4. \A e \in Deliveries \ {d} : Owner(e) => Owner(e)' /\ request'[e].conv = request[e].conv
  BY <1>1 DEF Owner, Tasked
<1> QED
  BY <1>2, <1>3, <1>4, OwnersStay

LEMMA OperatorOwners ==
    ASSUME TypeInv, OwnerInv, NEW d \in Deliveries, Decide(d) \/ ResumeConversation(d)
    PROVE  OwnerInv'
<1>1. UNCHANGED <<request, job>> /\ \A e \in Deliveries \ {d} : e \in Tasked => e \in Tasked'
  BY DEF Decide, ResumeConversation, Tasked, TypeInv, Types
<1>2. \A e \in Deliveries \ {d} : Owner(e) => Owner(e)' /\ request'[e].conv = request[e].conv
  BY <1>1 DEF Owner
<1>3. CASE Decide(d)
  <2>1. d \in Tasked' /\ UNCHANGED conv
    BY <1>3 DEF Decide, Tasked, TypeInv, Types
  <2> QED
    BY <1>1, <1>2, <2>1, OwnersStay DEF Owner, IsPaused
<1>4. CASE ResumeConversation(d)
  <2>1. request[d].conv \in Conversations
    BY <1>4 DEF ResumeConversation, TypeInv, Types, Linked, TaskOK, RequestOK, Tasked
  <2>2. /\ ~ IsPaused(request[d].conv)'
        /\ \A k \in Conversations : IsPaused(k)' => IsPaused(k)
    BY <1>1, <1>4, <2>1 DEF ResumeConversation, IsPaused, TypeInv, Types
  <2> QED
    BY <1>1, <1>2, <2>2, OwnersStay
<1> QED
  BY <1>3, <1>4

LEMMA CrashOwners ==
    ASSUME TypeInv, OwnerInv, Crash
    PROVE  OwnerInv'
<1>1. \A d \in Deliveries : Owner(d) => Owner(d)' /\ request'[d].conv = request[d].conv
  <2> SUFFICES ASSUME NEW d \in Deliveries, Owner(d)
               PROVE  Owner(d)' /\ request'[d].conv = request[d].conv
    OBVIOUS
  <2>1. request'[d].conv = request[d].conv
    BY DEF Crash, TypeInv, Types, RequestState
  <2>2. job'[d] = StalledJob(job[d]) /\ job[d] \in JobState /\ Tasked' = Tasked
    BY DEF Crash, TypeInv, Types, Tasked
  <2> QED
    BY <2>1, <2>2, StalledFields DEF Owner, Responsible
<1>2. \A c \in Conversations : IsPaused(c)' => IsPaused(c)
  BY DEF Crash, IsPaused
<1> QED
  BY <1>1, <1>2 DEF OwnerInv, Owned

LEMMA NextOwners == TypeInv /\ OwnerInv /\ [Next]_vars => OwnerInv'
<1> SUFFICES ASSUME TypeInv, OwnerInv, [Next]_vars PROVE OwnerInv'
  OBVIOUS
<1>1. CASE UNCHANGED vars \/ Rest
  BY <1>1 DEF vars, Rest, OwnerInv, Owned, Owner, Tasked, IsPaused
<1> QED
  BY <1>1, JobOwners, WebhookOwners, OperatorOwners, CrashOwners DEF Next

\* A conversation is never paused with nobody to take care of it, however its jobs fail,
\* are tried again and overtake each other: it has a task that waits, was rejected or is
\* to be sent, or a job that will still make one or has failed for good.
THEOREM PausedIsOwned == Spec => []PausedHasOwner
<1> QED
  BY InitTypes, NextTypes, InitOwners, NextOwners, OwnersOwn, PTL DEF Spec
=============================================================================

--------------------------- MODULE InboundRouting ---------------------------
(***************************************************************************)
(* How an inbound WhatsApp message comes to be answered.  The webhook      *)
(* stores it in the conversation of its contact and queues a job; the      *)
(* inbound worker reads the conversation, asks the AI for a reply, and     *)
(* sends it, ignores the message, or pauses the conversation and leaves    *)
(* the message to an operator in an approval task.                         *)
(*                                                                         *)
(* ApprovalWorkflow models what becomes of the approval task; here it is   *)
(* pending until an operator decides, and that may resume the              *)
(* conversation.  The memory pack, the candidate profile and the timeline  *)
(* the job also updates do not influence how the message is answered.      *)
(***************************************************************************)
EXTENDS Integers, FiniteSets

CONSTANTS Deliveries,     \* webhook calls of Twilio, one inbound message each
          Contacts,       \* phone numbers of candidates
          Conversations,  \* ids of conversations the database may come to hold
          None,           \* a null column
          Attempts,       \* attempts of an inbound job
          MaxStalls,      \* times BullMQ restarts a job that was active in a crash
          MaxFaults,      \* bound: failing database or queue calls
          MaxCrashes      \* bound: crashes of the process

ASSUME NoneAssumption == None \notin Contacts \cup Conversations

ASSUME BoundsAssumption ==
    /\ Attempts \in Nat \ {0} /\ MaxStalls \in Nat
    /\ MaxFaults \in Nat /\ MaxCrashes \in Nat

VARIABLES
    request,    \* the webhook calls and how far their handlers got
    conv,       \* the Conversation rows: whose, and in which state
    job,        \* the inbound jobs, one per stored message
    log,        \* per conversation the number of outbound Message rows
    pending,    \* messages with an open approval task of their own
    decided,    \* messages whose task was rejected, or approved and not yet sent
    replies,    \* history: per message the auto-replies that left
    handled,    \* history: messages that were given to a task, or ignored
    used        \* how much of each bound has been used up

vars == <<request, conv, job, log, pending, decided, replies, handled, used>>

\* What the AI comes back with.  "unavailable" is an error, a timeout or a missing
\* key; "reply" stands for every answer that leads to a text, the AI's own or a
\* fallback (the AI is switched off, or its answer cannot be read).
AiAnswers == {"reply", "lowRiskReply", "noAction", "unavailable"}

\* The suggester turns an error into an action like the others.
ActionOf(answer) == IF answer = "unavailable" THEN "noAction" ELSE answer

NewJob == [pc |-> "none", failures |-> 0, stalls |-> 0, history |-> FALSE,
           path |-> "paused", sensitive |-> FALSE, answer |-> None]

Init ==
    /\ \E phone \in [Deliveries -> Contacts] :
           request = [d \in Deliveries |-> [pc |-> "sent", phone |-> phone[d], conv |-> None]]
    /\ conv = [c \in Conversations |-> [contact |-> None, state |-> "ACTIVE"]]
    /\ job = [d \in Deliveries |-> NewJob]
    /\ log = [c \in Conversations |-> 0]
    /\ pending = {}
    /\ decided = [rejected |-> {}, approved |-> {}]
    /\ replies = [d \in Deliveries |-> 0]
    /\ handled = [tasked |-> {}, ignored |-> {}]
    /\ used = [faults |-> 0, crashes |-> 0]

Fault == used.faults < MaxFaults /\ used' = [used EXCEPT !.faults = @ + 1]

-----------------------------------------------------------------------------
(* The webhook.                                                            *)

ConversationsOf(k) == {c \in Conversations : conv[c].contact = k}

Stored(d) == request[d].pc \in {"enqueue", "answered"}

\* The conversation found is not kept.
BuggyFindConversation(d) ==
    /\ request[d].pc = "sent"
    /\ request' = [request EXCEPT ![d].pc =
                      IF ConversationsOf(request[d].phone) = {} THEN "open" ELSE "store"]
    /\ UNCHANGED <<conv, job, log, pending, decided, replies, handled, used>>

\* findOrCreateConversation: the search.
FindConversation(d) ==
    /\ request[d].pc = "sent"
    /\ \/ \E c \in ConversationsOf(request[d].phone) :
             request' = [request EXCEPT ![d] = [@ EXCEPT !.pc = "store", !.conv = c]]
       \/ /\ ConversationsOf(request[d].phone) = {}
          /\ request' = [request EXCEPT ![d].pc = "open"]
    /\ UNCHANGED <<conv, job, log, pending, decided, replies, handled, used>>

\* A new row has an id of its own; which one does not matter.
CreateConversation(d) ==
    /\ request[d].pc = "open" /\ ConversationsOf(None) # {}
    /\ LET c == CHOOSE x \in ConversationsOf(None) : TRUE IN
          /\ conv' = [conv EXCEPT ![c].contact = request[d].phone]
          /\ request' = [request EXCEPT ![d] = [@ EXCEPT !.pc = "store", !.conv = c]]
    /\ UNCHANGED <<job, log, pending, decided, replies, handled, used>>

StoreMessage(d) ==
    /\ request[d].pc = "store"
    /\ request' = [request EXCEPT ![d].pc = "enqueue"]
    /\ UNCHANGED <<conv, job, log, pending, decided, replies, handled, used>>

EnqueueMessage(d) ==
    /\ request[d].pc = "enqueue"
    /\ request' = [request EXCEPT ![d].pc = "answered"]
    /\ job' = [job EXCEPT ![d].pc = "waiting"]
    /\ UNCHANGED <<conv, log, pending, decided, replies, handled, used>>

\* A failing call is logged and Twilio is told that all is well: it does not
\* send the message again.
WebhookFails(d) ==
    /\ request[d].pc \in {"sent", "open", "store", "enqueue"}
    /\ request' = [request EXCEPT ![d].pc = IF Stored(d) THEN "answered" ELSE "lost"]
    /\ Fault
    /\ UNCHANGED <<conv, job, log, pending, decided, replies, handled>>

-----------------------------------------------------------------------------
(* The inbound job.                                                        *)

JobGoto(d, pc) == job' = [job EXCEPT ![d].pc = pc]

\* The job goes on without what it read and was answered.
Forget(j, pc) == [NewJob EXCEPT !.pc = pc, !.failures = j.failures, !.stalls = j.stalls]

IsPaused(c) == conv[c].state = "PAUSED_FOR_APPROVAL"

\* More than one message in the conversation: the latest inbound one is the first.
HasHistory(c) == Cardinality({d \in Deliveries : Stored(d) /\ request[d].conv = c}) + log[c] > 1

\* A message in a paused conversation is blocked, and that is all.
BuggyReadConversation(d) ==
    /\ job[d].pc = "waiting"
    /\ job' = [job EXCEPT ![d] =
          IF IsPaused(request[d].conv) THEN [@ EXCEPT !.pc = "finish"]
          ELSE [@ EXCEPT !.pc = "suggest", !.path = "reply",
                         !.history = HasHistory(request[d].conv)]]
    /\ UNCHANGED <<request, conv, log, pending, decided, replies, handled, used>>

\* The job reads the message with its conversation.  Whether the message is
\* sensitive (a trigger of the escalation rules, or an unsafe intent) is found
\* from its text; the AI answers later, from what was read here.
ReadConversation(d) ==
    LET c == request[d].conv IN
    /\ job[d].pc = "waiting"
    /\ \/ /\ IsPaused(c)
          /\ job' = [job EXCEPT ![d] = [@ EXCEPT !.pc = "find", !.path = "paused"]]
       \/ /\ ~ IsPaused(c)
          /\ \E sensitive \in BOOLEAN :
                job' = [job EXCEPT ![d] = [@ EXCEPT !.pc = "suggest", !.path = "reply",
                                                    !.history = HasHistory(c),
                                                    !.sensitive = sensitive]]
    /\ UNCHANGED <<request, conv, log, pending, decided, replies, handled, used>>

\* No reply at all: the message is ignored.
SkipsReply(answer, history) == ActionOf(answer) = "noAction" /\ history

\* The reply is the AI's or, if it gave none, a fallback text.  The code runs
\* this for a sensitive message too: the block that was to be skipped for it
\* ends right after the conversation was set to ACTIVE.
SuggestReply(d) ==
    /\ job[d].pc = "suggest"
    /\ \E answer \in AiAnswers :
          /\ job' = [job EXCEPT ![d] =
                [@ EXCEPT !.answer = answer,
                          !.pc = IF SkipsReply(answer, job[d].history) THEN "finish" ELSE "send"]]
          /\ handled' = IF SkipsReply(answer, job[d].history)
                        THEN [handled EXCEPT !.ignored = @ \cup {d}] ELSE handled
    /\ UNCHANGED <<request, conv, log, pending, decided, replies, used>>

SendAutoReply(d) ==
    /\ job[d].pc = "send"
    /\ replies' = [replies EXCEPT ![d] = @ + 1]
    /\ JobGoto(d, "record")
    /\ UNCHANGED <<request, conv, log, pending, decided, handled, used>>

\* The fallback after a failure: an operator has to approve.
NeedsApproval(d, path) ==
    job' = [job EXCEPT ![d] = [Forget(@, "pause") EXCEPT !.path = path]]

\* Twilio refuses the reply, and a task takes its place.
AutoReplyFails(d) ==
    /\ job[d].pc = "send"
    /\ NeedsApproval(d, IF job[d].answer = "lowRiskReply" THEN "unsent" ELSE "approval")
    /\ UNCHANGED <<request, conv, log, pending, decided, replies, handled, used>>

\* A failing record counts as a failing reply.
BuggyRecordAutoReply(d) ==
    /\ job[d].pc = "record"
    /\ \/ /\ log' = [log EXCEPT ![request[d].conv] = @ + 1]
          /\ JobGoto(d, "finish")
          /\ UNCHANGED used
       \/ /\ Fault
          /\ NeedsApproval(d, "approval")
          /\ UNCHANGED log
    /\ UNCHANGED <<request, conv, pending, decided, replies, handled>>

\* A reply that was sent but cannot be recorded is logged and nothing more.
RecordAutoReply(d) ==
    /\ job[d].pc = "record"
    /\ \/ log' = [log EXCEPT ![request[d].conv] = @ + 1] /\ UNCHANGED used
       \/ Fault /\ UNCHANGED log
    /\ JobGoto(d, "finish")
    /\ UNCHANGED <<request, conv, pending, decided, replies, handled>>

PauseConversation(d) ==
    /\ job[d].pc = "pause"
    /\ conv' = [conv EXCEPT ![request[d].conv].state = "PAUSED_FOR_APPROVAL"]
    /\ JobGoto(d, "find")
    /\ UNCHANGED <<request, log, pending, decided, replies, handled, used>>

PendingIn(c) == {d \in pending : request[d].conv = c}

\* Look for the task of this very message, then for one of the conversation.
FindTask(d) ==
    LET others == PendingIn(request[d].conv) IN
    /\ job[d].pc = "find"
    /\ \/ job[d].path # "paused" /\ d \in pending /\ JobGoto(d, "finish")
       \/ /\ job[d].path = "paused" \/ (job[d].path = "approval" /\ d \notin pending)
          /\ others # {} /\ JobGoto(d, "append")
       \/ /\ job[d].path = "unsent" => d \notin pending
          /\ job[d].path # "unsent" => others = {}
          /\ JobGoto(d, "create")
    /\ UNCHANGED <<request, conv, log, pending, decided, replies, handled, used>>

AppendToTask(d) ==
    /\ job[d].pc = "append"
    /\ handled' = [handled EXCEPT !.tasked = @ \cup {d}]
    /\ JobGoto(d, "finish")
    /\ UNCHANGED <<request, conv, log, pending, decided, replies, used>>

CreateTask(d) ==
    /\ job[d].pc = "create"
    /\ pending' = pending \cup {d}
    /\ handled' = [handled EXCEPT !.tasked = @ \cup {d}]
    /\ JobGoto(d, "finish")
    /\ UNCHANGED <<request, conv, log, decided, replies, used>>

CompleteJob(d) ==
    /\ job[d].pc = "finish"
    /\ job' = [job EXCEPT ![d] = Forget(@, "completed")]
    /\ UNCHANGED <<request, conv, log, pending, decided, replies, handled, used>>

-----------------------------------------------------------------------------
(* Failures.                                                               *)

\* Jobs are not tried again.
BuggyFailedJob(j) == Forget([j EXCEPT !.failures = @ + 1], "failed")

\* The job after a failed attempt.
FailedJob(j) ==
    Forget([j EXCEPT !.failures = @ + 1],
           IF j.failures + 1 < Attempts THEN "waiting" ELSE "failed")

\* Before the reply and on the approval path the job throws, and is tried again
\* from the start.
JobThrows(d) ==
    /\ \/ job[d].pc = "waiting"
       \/ job[d].pc \in {"pause", "find", "append", "create"} /\ job[d].path # "unsent"
    /\ Fault
    /\ job' = [job EXCEPT ![d] = FailedJob(job[d])]
    /\ UNCHANGED <<request, conv, log, pending, decided, replies, handled>>

\* In between failures are caught, and an operator has to approve.
ReplyThrows(d) ==
    /\ \/ job[d].pc = "suggest"
       \/ job[d].pc \in {"pause", "find", "create"} /\ job[d].path = "unsent"
    /\ Fault
    /\ NeedsApproval(d, "approval")
    /\ UNCHANGED <<request, conv, log, pending, decided, replies, handled>>

ActivePcs == {"suggest", "send", "record", "pause", "find", "append", "create", "finish"}

StalledJob(j) ==
    IF j.pc \notin ActivePcs THEN j
    ELSE Forget([j EXCEPT !.stalls = @ + 1],
                IF j.stalls < MaxStalls THEN "waiting" ELSE "failed")

\* Webhook calls in flight are lost; jobs that were active run again from the start.
Crash ==
    /\ used.crashes < MaxCrashes
    /\ used' = [used EXCEPT !.crashes = @ + 1]
    /\ request' = [d \in Deliveries |->
          [request[d] EXCEPT !.pc = CASE @ \in {"open", "store"} -> "lost"
                                      [] @ = "enqueue"           -> "answered"
                                      [] OTHER                   -> @]]
    /\ job' = [d \in Deliveries |-> StalledJob(job[d])]
    /\ UNCHANGED <<conv, log, pending, decided, replies, handled>>

-----------------------------------------------------------------------------
(* The operator, and the worker that sends what was approved.              *)

Decide(d) ==
    /\ d \in pending
    /\ pending' = pending \ {d}
    /\ \E verdict \in {"rejected", "approved"} :
          decided' = [decided EXCEPT ![verdict] = @ \cup {d}]
    /\ UNCHANGED <<request, conv, job, log, replies, handled, used>>

\* The approved reply is recorded and its conversation resumed.
ResumeConversation(d) ==
    LET c == request[d].conv IN
    /\ d \in decided.approved
    /\ decided' = [decided EXCEPT !.approved = @ \ {d}]
    /\ conv' = [conv EXCEPT ![c].state = "ACTIVE"]
    /\ log' = [log EXCEPT ![c] = @ + 1]
    /\ UNCHANGED <<request, job, pending, replies, handled, used>>

\* Every message answered for, every decision carried out.
Rest ==
    /\ pending = {} /\ decided.approved = {}
    /\ \A d \in Deliveries : /\ \/ request[d].pc \in {"answered", "lost"}
                                \/ request[d].pc = "open" /\ ConversationsOf(None) = {}
                             /\ job[d].pc \in {"none", "completed", "failed"}
    /\ UNCHANGED vars

WebhookStep(d) == FindConversation(d) \/ CreateConversation(d) \/ StoreMessage(d)
                  \/ EnqueueMessage(d)

JobStep(d) ==
    \/ ReadConversation(d) \/ SuggestReply(d) \/ SendAutoReply(d) \/ AutoReplyFails(d)
    \/ RecordAutoReply(d) \/ PauseConversation(d) \/ FindTask(d) \/ AppendToTask(d)
    \/ CreateTask(d) \/ CompleteJob(d)

Next ==
    \/ \E d \in Deliveries : \/ WebhookStep(d) \/ WebhookFails(d)
                             \/ JobStep(d) \/ JobThrows(d) \/ ReplyThrows(d)
                             \/ Decide(d) \/ ResumeConversation(d)
    \/ Crash
    \/ Rest

Spec == Init /\ [][Next]_vars

\* The event loop runs the handler of a webhook call and a queued job to their
\* ends.  Operators may do nothing for ever.
FairSpec == Spec /\ \A d \in Deliveries : WF_vars(WebhookStep(d)) /\ WF_vars(JobStep(d))

-----------------------------------------------------------------------------
(* Properties.                                                             *)

RequestState == [pc : {"sent", "open", "store", "enqueue", "answered", "lost"},
                 phone : Contacts, conv : Conversations \cup {None}]

JobState == [pc : ActivePcs \cup {"none", "waiting", "completed", "failed"},
             failures : 0 .. Attempts, stalls : Nat, history : BOOLEAN,
             path : {"paused", "reply", "approval", "unsent"}, sensitive : BOOLEAN,
             answer : AiAnswers \cup {None}]

\* Every variable keeps its type; in particular no job is tried too often, and
\* a job has the conversation it works on.
TypeOK ==
    /\ request \in [Deliveries -> RequestState]
    /\ conv \in [Conversations -> [contact : Contacts \cup {None},
                                   state : {"ACTIVE", "PAUSED_FOR_APPROVAL"}]]
    /\ job \in [Deliveries -> JobState]
    /\ log \in [Conversations -> Nat]
    /\ pending \subseteq Deliveries
    /\ decided \in [rejected : SUBSET Deliveries, approved : SUBSET Deliveries]
    /\ replies \in [Deliveries -> Nat]
    /\ handled \in [tasked : SUBSET Deliveries, ignored : SUBSET Deliveries]
    /\ used \in [faults : Nat, crashes : Nat]
    /\ \A d \in Deliveries : job[d].pc # "none" \/ Stored(d) => request[d].conv \in Conversations

Settled(d) == replies[d] > 0 \/ d \in handled.tasked \cup handled.ignored

\* A message is settled in one way and once: answered automatically, given to an
\* operator, or ignored.  A retry never adds another answer, only a restart of
\* the process can: what fails after a reply has left fails no attempt (the
\* swallowed errors after the auto-reply, "no task created").
SettledOnce ==
    \A d \in Deliveries :
        replies[d] + Cardinality({d} \cap (handled.tasked \cup handled.ignored))
            <= 1 + used.crashes

\* Somebody is responsible for a paused conversation: it is paused before its
\* task exists and the attempt may fail in between, but then a task waits for
\* an operator, was rejected or is about to be sent, or a job is still to come
\* that will make one, or has failed for good (inbound worker, paused branch).
PausedHasOwner ==
    \A c \in Conversations : IsPaused(c) =>
        \E d \in Deliveries :
            /\ request[d].conv = c
            /\ \/ d \in pending \cup decided.rejected \cup decided.approved
               \/ job[d].pc \in ActivePcs \cup {"waiting", "failed"}

\* A queued message is answered, ignored or given to an operator in the end,
\* although a call less than its attempts may fail and the process may restart
\* as often as BullMQ forgives (the retries of the inbound queue).
QueuedIsSettled == \A d \in Deliveries : job[d].pc = "waiting" ~> Settled(d)
=============================================================================

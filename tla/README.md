# Verification of the WhatsApp recruitment assistant

The repository is a Node.js service (Fastify, Prisma on Postgres, BullMQ on
Redis, Twilio) and a Next.js console.  It talks to job candidates over WhatsApp:
their messages arrive by webhook, an AI suggests what to do, some replies go out
automatically, and whatever is commercially sensitive waits for an operator.
This directory holds TLA+ specifications of it, the TLC runs that check them,
and proofs checked by TLAPS.

What makes the service hard to get right is not any single function.  HTTP
handlers and BullMQ workers run in one process and share rows of a database that
they read, hold across several awaits, and write back by id, without
transactions, version columns or conditional updates.  The properties here are
about what those interleavings, the retries and the restarts can do.

Contents: 1 Inventory, 2 Modules, 3 Runs, 4 Where code and documentation differ,
5 Proofs, 6 What is left.

## 1. Inventory

| Component | State | Operations | Modelled in |
|---|---|---|---|
| Inbound webhook and queue (`routes/webhooks/whatsapp.ts`, `queues/inboundQueue.ts`) | Contact, Conversation, Message rows; queue `inbound-messages` | store a message, queue its job | `InboundRouting` |
| Inbound worker (`workers/inboundWorker.ts`) | Conversation.state, Task rows | answer, ignore, or leave a message to an operator | `InboundRouting` (which way a message goes), `ApprovalWorkflow` (what happens to the task rows) |
| Approval API (`routes/tasks.ts`) | Task row | approve, reject | `ApprovalWorkflow`; cards in `CscsVerification`, outreach in `JobPipeline` |
| Approved-task queue and worker (`queues/approvedTasksQueue.ts`, `workers/approvedTaskWorker.ts`) | jobs, Task.status, Task.retryCount, Conversation.state | execute, verify, resume, retry | `ApprovalWorkflow` |
| Action executor (`services/actionExecutor.ts`) | outbound Message rows | send and record a reply | `ApprovalWorkflow` |
| Delivery callback (`routes/webhooks/whatsapp.ts`) | Message.deliveryStatus | record what Twilio reports | `ApprovalWorkflow` (`StatusCallback`), coarsely |
| CSCS verification (`workers/cscsAutoVerifyWorker.ts`, `routes/tasks.ts`) | Task.payload.cscs, Placement | check a card automatically or by hand, confirm a placement, attach photos | `CscsVerification` |
| Job pipeline (`services/jobPipelineService.ts`) | JobPipelineItem.stage, Task rows | move a candidate between stages, make the tasks of a move | `JobPipeline`, `ProgressUpdates` (in `StageUpdates`) |
| Contact progress and memory (`services/progress/stateMachine.ts`, `progressEngine.ts`, `memoryPackUpdater.ts`, `continuity/`, `routes/memoryRefresh.ts`) | progress stage and data, memory pack | correct a stage, merge facts and questions, refresh | `ProgressRules`, `ConversationMemory`, `ProgressUpdates` |
| Opportunities (`services/opportunities/`) | Task rows, action log | compute opportunities, make their tasks | `Opportunities` |
| Follow-ups (`followUpTaskCreator.ts`, `followUpReminderWorker.ts`) | Task rows | a task for an open question, a reminder for a due date | `FollowUps` |
| Stuck tasks (`stuckTaskDetection.ts`, `stuckTaskMonitorWorker.ts`) | timeline events | mark a task nobody decides on | `StuckTasks` |
| Timeline (`services/timelineService.ts`) | TimelineEvent rows | append once per dedupe key, page through | `Timeline` |
| Review sampling (`reviewSamplingService.ts`, `reviewSamplingWorker.ts`) | ReviewSample rows | sample yesterday's approvals, give a verdict | `ReviewSampling` |
| Candidate profile (`services/candidateExtractor.ts` as used by the inbound worker) | Candidate columns, rawProfile | merge what the AI extracted | `CandidateProfile` |
| Jobs and matching (`routes/jobs.ts`, `jobMatcher.ts`, `jobSnapshot.ts`, `taskPriority.ts`) | Job rows, payload.job of a task | patch and fill a job, score a candidate, rank a task | `JobBoard` |
| Earnings (`routes/earnings.ts`, `EarningsSetupModal.tsx`) | operator's settings and revenue | the form, the rate and what is missing to the next | `Earnings` |
| Console (`app/operator/messages`, `inbox`, `ActionPanel.tsx`, `CscsVerificationTaskDetail.tsx`) | React state | poll, show, edit, approve | `OperatorConsole`, `CardPanel` |
| Outreach sending, prompts and intents, search, exports, sessions, development replay | - | - | not modelled, see section 6 |

Interaction: the webhook and the inbound worker share the conversation rows and
the queue; the inbound worker, the API and the approved-task worker share the task
rows and `Conversation.state`; the worker and the callback share the outbound
messages.  The CSCS worker, the API and the image branch of the inbound worker
share the payload of a CSCS task, and the pipeline creates tasks that the API may
reject.  Inbound jobs, refreshes, the pipeline and the check of a card all write
the progress of a contact.  The approved-task worker finds a reply it has sent
only by looking for its text among the outbound messages of the conversation, and
follow-ups, pipeline and opportunities find the tasks they have made by looking
for open ones of a kind: none of them holds a lock or a unique index while it
looks.

What each part has to guarantee:

* webhook and routing: a message that was queued is settled, and only once; a
  conversation is never paused with nobody responsible for it;
* approval API: a task is decided once;
* worker and executor: what leaves was approved, is recorded, and does not leave
  twice; the conversation goes on afterwards; retries end;
* CSCS: what operators and candidates add to a task is not lost; a confirmed
  placement is accounted for by its task; a candidate is told one decision; a
  check ends;
* pipeline, opportunities, follow-ups: each transition, opportunity or question
  has its task, once;
* progress and memory: no value is lost but by an overtaken write or a new one the AI
  tells, no question is put twice or left open although it is answered, the stage comes
  to rest;
* timeline, review, profile: nothing is skipped, and a row tells where it is from;
* console: what is typed for one task is not sent for another.

`PROJECT.json` lists the hazards at their lines of code, and the properties aimed
at each.  One has no property (`inboundWorker.ts:876`): an automatic reply may
leave after another message has paused the conversation, and the code has no
check that could be stated as holding.

## 2. Modules

| Module | What it is |
|---|---|
| `ApprovalData` | the rows of the approval workflow and the pure rules by which API and workers choose a text |
| `ApprovalWorkflow` | inbound worker (approval path), API, queue, worker, executor, failures, restarts |
| `OutboundGate` | what the workflow promises about replies, in seven variables: approvals grant credits, a reply spends one and carries an approved text, incidents give credits back |
| `InboundRouting` | webhook, storing, inbound job, automatic reply, retries, restarts |
| `CscsVerification` | creation, automatic check, operator's result, approval, rejection, photos, failures, restarts |
| `JobPipeline` | moving and removing pipeline items, the stage rules, the tasks of a move |
| `ProgressRules` | both sets of progress rules as pure operators |
| `ConversationMemory` | inbound jobs, refreshes and updates that read, merge and write one memory row |
| `ProgressUpdates` | what the pipeline and the check of a card look at before they move a stage |
| `StageUpdates` | both ways the stage of a contact is written, side by side |
| `FollowUps`, `Opportunities`, `Timeline`, `StuckTasks`, `ReviewSampling`, `CandidateProfile` | one service each, as in the inventory |
| `Services` | the six of them together, in any interleaving |
| `JobBoard`, `Earnings` | jobs with their two scorings; the commission form |
| `OperatorFigures` | the two of them: all figures that operators are shown |
| `OperatorConsole`, `CardPanel` | the messages page and the panel of a card |
| `OperatorForms` | the two of them: all forms that outlive their task |
| `ApprovalClaims`, `RoutingClaims`, `CscsClaims`, `OpportunityClaims` | statements of the documentation that the code does not keep |
| `MC...` | TLC instances: proposals of the AI, situations, answers, symmetry, and the scenes of section 3 |
| `...Proofs` | theorems, section 5 |

### How code becomes actions

An action is what a handler does between two awaits: what it read earlier is in
its process's record (`snap`, `row`), and it writes to the row as that is now.  So
`ReadForApproval` takes a snapshot of the task and makes all the handler's
checks, `WriteApproval` writes the payload of the snapshot, and `EnqueueApproval`
adds the job; the same with the six steps of an approved task and those of an
inbound job.  Steps that only log, write the timeline or compute a priority are
left out where they are not the subject.

`pc` values name the next step: `guard` (Guard 2 of the worker), `execute`,
`persist`, `verify`, `resume`, `settle`, `catch`, `countRetry`, `requeue`,
`giveUp`.  "finish" is the time between the return of the processor and BullMQ
hearing of it, when a restart runs the whole job again.

Data is reduced to what the properties tell apart:

* a text is a member of `Texts`; only equality matters, as in the code's lookups;
* Prisma's `createdAt >= task.createdAt` is a position in the conversation's log
  of outbound messages (`since`);
* of the delivery statuses only FAILED matters to the worker;
* a memory pack is who wrote each of its values last (a value is what `mergeNonNull`
  replaces as a whole: a text, a number, a list) and the questions asked; an answer
  of the AI is a record of the few fields the rules look at;
* of a next action only what it speaks of is kept; the time of a follow-up is none,
  one the row holds, or "now", counted from the call that sets it, which differs from
  every time the row holds;
* the outcome of the AI and of Twilio is a nondeterministic choice.  That includes
  one oddity: `actionExecutor.ts` declares a local `sendWhatsAppMessage` (line 53)
  under the name it also imports (line 11), and calls that name from inside itself
  (line 138).  The TypeScript compiler rejects this; a bundler that drops the
  import makes the call recurse with wrong arguments, so that every approved
  reply fails.  `SendReply` has both outcomes in any case.

`InboundRouting` folds the approval task of a message into "pending", because
`ApprovalWorkflow` models it in full; `ApprovalWorkflow` folds everything before
the decision "needs approval" into `ReadMessage`.  There it lets a failing
inbound job run again without limit, where the code tries three times; this adds
behaviours and hides none.  In `InboundRouting` the attempts are counted.

Who read a row that somebody has written since is `overtaken`: most of what these
models promise is promised up to overtaken writers, and the mark says which they
are.  `hist`, `replies`, `handled`, `promised`, `excused`, `torn`, `lost`, `missed`
are history: what was decided, what left the process, what was dropped and by
whom, which no single row records.

The branch of the inbound worker that attaches photos to a CSCS task is modelled,
though dormant: the webhook stores no metadata (`whatsapp.ts:193`), and the Prisma
schema has no such field (only a migration adds a column).  Voice notes, which
need the same, are left out.

### Variants with a bug

Definitions named `Buggy...` are small mistakes one could make in the code.
Nothing uses them.  Each of them, put in place of the definition that follows it,
makes one property fail; this shows that the property depends on the code:

| Variant | Of | Breaks |
|---|---|---|
| `BuggyApprovedText` (without an edit there is no text) | `ApprovalData.ApprovedText` | `TypeOK` |
| `BuggyIsPending` (the approval status is not looked at) | `ApprovalData.IsPending` | `DecisionsBoundedByConcurrency` |
| `BuggyMatchingMessages` (later than the first message after the task: off by one) | `ApprovalData.MatchingMessages` | `RecordedSendNotRepeated` |
| `BuggyFailTask` (the failure is settled as success) | `ApprovalWorkflow.FailTask` | `DoneHasRecord` |
| `BuggyTextToSend` (the proposal has priority over the approved text) | `ApprovalData.TextToSend` | `SentTextsApproved` |
| `BuggyEnqueueNothing` (the job is never added) | `ApprovalWorkflow.Enqueue` | `LimboHasCause` |
| `BuggyMatchTier` (a tier that a candidate without the card can reach) | `JobBoard.getMatchTier` | `FiguresHold` |
| `BuggyExpectedHours` (weeks before days, an urgent start counts one week, and a job without either four) | `JobBoard.calculateExpectedHours` | `FiguresHold` |
| `BuggyFollows` (sorted, but they may overlap) | `Earnings.Follows` | `FiguresHold` |
| `BuggyLoaded` (the base pay is not loaded) | `Earnings.Loaded` | `FiguresHold` |
| `BuggyOpenTasksOf` (the search names the wrong status) | `ApprovalWorkflow.OpenTasksOf` | `OneOpenTaskPerMessage` |
| `BuggyEnqueueTwice` (two attempts in the job options, on top of the worker's own retries) | `ApprovalWorkflow.Enqueue` | `ImplementsGate` |
| `BuggyCompleteJob` (the job is queued again: a task that is not settled yet is to be seen to) | `ApprovalWorkflow.CompleteJob` | `JobsDrain` |
| `BuggyResumeConversation` (the state is written back as it was read) | `ApprovalWorkflow.ResumeConversation` | `ApprovalResumes` |
| `BuggyFindConversation` (the conversation found is not kept) | `InboundRouting.FindConversation` | `TypeOK` |
| `BuggyRecordAutoReply` (a failing record counts as a failing reply) | `InboundRouting.RecordAutoReply` | `SettledOnce` |
| `BuggyReadConversation` (a message in a paused conversation is blocked, and that is all) | `InboundRouting.ReadConversation` | `PausedHasOwner` |
| `BuggyRetriedJob` (one attempt too many) | `CscsVerification.FailedJob` | `TypeOK` |
| `BuggyIsRejectable` (a task that was approved can be rejected) | `CscsVerification.IsRejectable` | `PlacementAccounted` |
| `BuggyIsPending` (the status of the approval is not looked at) | `CscsVerification.IsPending` | `AnswersBounded` |
| `BuggyUnchecked` (the result is not looked at) | `CscsVerification.Unchecked` | `UndisturbedWritesKeep` |
| `BuggyMergedMeta` (the metadata of the answer, whether it was accepted or not) | `CandidateProfile.MergedMeta` | `RowsInOrder` |
| `BuggyFilled` (only empty fields are filled from the task) | `CardPanel.Filled` | `FormsStayWithTask` |
| `BuggyWithTask` (the page keeps its task when there is none any more) | `OperatorConsole.WithTask` | `PanelCatchesUp` |
| `BuggyNear` (the difference without Math.abs) | `CandidateProfile.Near` | `GuessesYield` |
| `BuggyCandidateFails` (the candidate is not known where the error is handled) | `Opportunities.CandidateFails` | `RowsInOrder` |
| `BuggyAlreadyCreated` (nobody is skipped) | `Opportunities.AlreadyCreated` | `RepeatsBounded` |
| `BuggyAfterCursor` (the cursor as the time alone) | `Timeline.AfterCursor` | `NothingMissed` |
| `BuggySees` (a check that leaves its own kind of task out) | `ProgressUpdates.Sees` | `StagesExplained` |
| `BuggyInWindow` (today's messages only) | `ReviewSampling.InWindow` | `NothingMissed` |
| `BuggyCap` (one task too many in a week) | `FollowUps.shouldCreateFollowUpTask` | `RepeatsBounded` |
| `BuggyMarkTask` (every scan marks what it finds) | `StuckTasks.MarkTask` | `RowsInOrder` |
| `BuggyNeedsReminder` (due dates that have passed only) | `FollowUps.NeedsReminder` | `DueIsReminded` |
| `BuggyIsStuck` (the conversation has to be paused) | `StuckTasks.IsStuck` | `StuckIsMarked` |
| `BuggyProgressStage` (a question's key among the missing fields) | `ProgressRules.determineProgressStage` | `TypeOK` |
| `BuggyMerged` (what the patch leaves out becomes null) | `ConversationMemory.Merged` | `UndisturbedMergesKeep` |
| `BuggyNewQuestions` (a question that has been answered may be asked again) | `ConversationMemory.NewQuestions` | `QuestionsAskedOnce` |
| `BuggyResolutions` (nothing is resolved by what was extracted) | `ConversationMemory.Resolutions` | `OpenQuestionsUnanswered` |
| `BuggyMatchedStage` (a matched contact stays matched, any other one is matched again) | `ProgressRules.MatchedStage` | `StagesConverge` |
| `BuggyFailedJob` (the job is never given up) | `CscsVerification.FailedJob` | `CheckEnds` |
| `BuggyRejectOutreach` (the task is not looked at before it is closed) | `JobPipeline.RejectOutreach` | `TypeOK` |
| `BuggyUnseenTask` (the search finds nothing) | `JobPipeline.HasOpenTask` | `OpenTasksBounded` |
| `BuggyHasOpenTask` (tasks of any type count) | `JobPipeline.HasOpenTask` | `PromisedTaskExists` |
| `BuggyValid` (the requirements are checked, the transition is not) | `JobPipeline.Valid` | `UndisturbedMovesAllowed` |
| `BuggyFailedJob` (jobs are not tried again) | `InboundRouting.FailedJob` | `QueuedIsSettled` |

## 3. Runs

| Run | Instance | Properties | Shows |
|---|---|---|---|
| `approval_race` | 1 task, 2 requests, 2 jobs at a time, 2 texts, 1 retry, 1 failing call, 1 callback | `TypeOK`, `DecisionsBoundedByConcurrency`, `RecordedSendNotRepeated`, `DoneHasRecord`, `ImplementsGate` | Two operators decide on one task while two jobs of it may run, with a failing call and a status callback: what the stale checks of handlers and worker still guarantee, and that every send is paid for by an approval or a failure. |
| `inbound_context` | scenes: approvals (2 messages, 2 tasks, 1 request, 2 jobs, all kinds of action, 1 failing call); jobs (2 jobs, 1 candidate, 2 callers, 1 day); earnings (1 form, 2 months, 2 brackets, 3 edits) | `SentTextsApproved`, `LimboHasCause`, `FiguresHold` | Scenes of their own: new messages write into a pending task while it is approved and executed, with a failing call: what is sent was approved, and which approved tasks get stuck; and jobs that are patched and filled while they are matched with candidates: the two scores agree, and the inbox ranks a task by its job; and the commission brackets, typed while they load and stored in two requests: the rate and the promise that the dashboard shows hold. |
| `process_restart` | 2 messages, 3 tasks (a message may need a second after its first is decided), 1 restart | `OneOpenTaskPerMessage`, `ImplementsGate` | The process restarts in the middle of inbound and approved-task jobs: no message ends up with two open tasks, and every send is paid for by an approval or the restart. |
| `unapproved_text` (violated) | 2 messages, 2 tasks, 1 request, 1 job, 2 texts | `HeldForApproval` | A message that arrives during the approval replaces the approved text, and the new one is sent. |
| `message_routing` | 2 webhook calls of one candidate, 2 conversations (a race creates both), 2 attempts, 1 lost heartbeat, 1 failing call, 1 restart, fairness | `TypeOK`, `SettledOnce`, `PausedHasOwner`, `QueuedIsSettled` | Two messages of a candidate from webhook to answer, with a failing call, retries and a restart: each is settled, and once only, and a paused conversation has somebody responsible for it. |
| `cscs_check` | 1 task, 2 requests, 1 photo, 2 attempts, 1 failing call, 1 restart | `TypeOK`, `PlacementAccounted`, `AnswersBounded`, `UndisturbedWritesKeep` | Two requests, the automatic check with two attempts, a photo and a failing call or a restart share one task: what their whole-payload writes may lose, how often the candidate is told, and what becomes of a confirmed placement. |
| `manual_result` (violated) | 1 task, 1 request, 3 attempts, 1 lost heartbeat | `ManualResultKept` | An automatic check that was waiting for the AI replaces the result an operator entered meanwhile. |
| `memory_merge` | scenes: memory (2 messages, 1 refresh, 1 update, of which one at least never gets to work, 1 value, 2 answers of the AI, 2 situations, 1 day); updates (1 task, 2 moves or checks at a time, 2 changes around them, 1 failing call); console (1 conversation, 2 tasks, 3 actions of the operator, who starts a request while none is under way: polls, loads and inbound messages still come in between); cards (2 tasks, 2 requests at a time, 3 actions) | `TypeOK`, `QuestionsAskedOnce`, `OpenQuestionsUnanswered`, `StagesConverge`, `StagesExplained`, `FormsStayWithTask`, `UndisturbedMergesKeep` | What is filled in bit by bit, in scenes of their own: two messages, a refresh and an update of the stage write one memory row, what their merges lose, which questions are asked again or stay open, and that the stages come to rest but for the follow-up of a silent contact; pipeline moves and card checks that recompute the stage of one contact while its tasks come and go; and the forms of two pages of the console, which keep their fields when another task is shown in them. |
| `services` | scenes: pipeline (1 item, 2 requests, 1 failing call, 1 restart); opportunities (1 job, 2 candidates, 2 requests at a time, 3 in all); timeline (2 writers, 4 ids, pages of 1); review (3 messages, 3 mornings); follow-ups (2 callers, 2 scans, 3 days); stuck tasks (2 tasks of 2 agencies, 2 scans); profile (2 messages, 4 answers, 2 attempts); 1 failing call in each | `TypeOK`, `OpenTasksBounded`, `PromisedTaskExists`, `RowsInOrder`, `RepeatsBounded`, `NothingMissed`, `UndisturbedMovesAllowed`, `GuessesYield` | Parts that touch none of each other's state, each in a scene of its own: two requests on a pipeline item; two requests for the tasks of an opportunity; two writers and a reader of a timeline; three mornings of review sampling; overlapping follow-up scans; two scans for stuck tasks; two jobs that merge what they learned of a candidate. |
| `eventually` | scenes, each with its fairness: follow-ups (1 caller, 2 scans), stuck tasks (2 agencies, 2 scans), approvals (2 requests, 2 jobs, 2 retries), checks (2 attempts, 2 failing calls, 2 restarts), console (2 conversations, 2 requests, 1 failing call) | `DueIsReminded`, `StuckIsMarked`, `JobsDrain`, `ApprovalResumes`, `CheckEnds`, `PanelCatchesUp` | What must happen in the end, each in a scene of its own: due follow-ups are reminded of and stuck tasks marked although a scan fails; jobs whose retry counts overwrite each other end; an undisturbed approval resumes the conversation or fails the task; a CSCS check ends after two restarts. |
| `sensitive_reply` (violated) | 1 delivery, 2 attempts | `SensitiveHeld` | A sensitive message is answered automatically. |
| `opportunity_tasks` (violated) | 1 job, 2 candidates, 1 request at a time, 4 in all, 1 failing call | `DuplicatesAvoided` | After one failed attempt every request makes another task of the same opportunity. |

Models that touch none of each other's state share a run as *scenes*: an initial
choice says which one moves, while the others rest in one initial state.  The state
space is the sum of the scenes', not their product, and the properties of a scene
say nothing in the others.  Where parts do interact, they are in one module.

Bounds.  The races are between two actors over one row, so two requests, two jobs
and two messages produce every pairwise order; a third adds only longer chains of
the same overwrites, and where a count could depend on it there is a proof for any
number (section 5).  One retry separates "first attempt" from "later attempt";
`MAX_RETRIES` is 3 in the code (`approvedTaskWorker.ts:14`), a parameter here, and only its comparison with the
count matters.  BullMQ tries a job three times, the runs twice, which tells a
retry from the last attempt.  Failing calls, restarts and lost heartbeats are
bounded (`MaxFaults`, `MaxCrashes`, `MaxStalls`), because each can be repeated at
will; the properties that count them are stated relative to their number.
`MaxDays`, `MaxTime`, `MaxTouches`, `MaxCalls`, `MaxCardCalls`, `MaxNews`, `MaxEdits`, `MaxSaves`,
`MaxRequests`, `MaxWrites`, `MaxCallbacks`, `MaxTasks` bound what would go on for ever.  `Tasks`,
`Conversations` are the rows that may come to exist; a step that needs one more does
not happen.  A week is one day in the runs and its cap one task: two days are then
"the same week" or not.  Three samples in two buckets with a limit of one fill a
bucket and leave one.  Requests of the messages page that overlap by the
operator's doing are in `eventually` and in the proof for any number of them.

Symmetry: tasks, messages, requests and jobs are interchangeable, and taken so
only in the runs without liveness properties.  Deadlock is checked but for
`memory_merge` and `services`, whose scenes end when their messages or days do (in
`inbound_context` the scene of the jobs stutters when its bounds are used up).

Fairness.  Weak fairness of each webhook handler, each request that has started,
each inbound job, each worker slot, each automatic check (whose call to the AI is
aborted after a timeout), each scan of the periodic workers, and, on the messages
page, of the poll, of the answers to requests and of the lock that a timer lifts:
the event loop runs a pending continuation eventually, BullMQ hands a waiting job
to a free slot, and `setInterval` fires.  No fairness for operators (they may never
decide), for Twilio's callbacks, for failing calls or for restarts.

## 4. Where the code and its documentation differ

Four runs each refute one statement of the documentation; their counterexamples
are short and worth reading.

* `sensitive_reply`.  `inboundWorker.ts:1661` closes two blocks at once: that
  which makes the conversation ACTIVE, and `if (shouldAutoReply)`.  Generating
  and sending the automatic reply therefore happens for every message, the
  sensitive ones too, against line 2129 ("REQUIRES_APPROVAL: Pause conversation,
  create task, NO reply sent").  The approval path is reached only when the reply
  fails.
* `unapproved_text`.  An inbound job that read the task while pending writes its
  payload back after the approval, which removes `sentText`; the executor falls
  back to the suggestion, and with a new suggestion of the AI to a text nobody
  saw (`DEMO-GUIDE.md:41`).
* `manual_result`.  The CSCS worker checks that there is no result yet, asks the AI,
  and writes back the payload it read: an operator's result entered in between is
  replaced, against line 97 ("don't overwrite manual verification").  The error
  path resets it to UNKNOWN even when it reads it after the operator's write.
* `opportunity_tasks`.  Once an attempt is logged as FAILED, the unique index
  refuses the row that would log a later one as CREATED, after the task was made:
  every further request makes another task.

Observed while modelling, with no run of their own:

* Approval.  Both handlers check what they read and update by id: a rejection
  written between the read and the write of an approval is overwritten
  (`tasks.ts:123`, "Prevent approving a task that was already rejected"), and two
  approvals both pass "Prevent double approval" (line 109), so that the reply is
  queued twice.  An edited reply is recorded under the edited text and looked up
  under the suggested one, so its task stays APPROVED and its conversation paused,
  with no job left (`DEMO-GUIDE.md:78`).  Executing one task resumes the
  conversation of another that is pending (`stuckTaskDetection.ts:151`).  Guard 2
  takes any message with the same text for the reply, a FAILED one too, and marks
  the task DONE.  The progress update after an approval reads a relation its query
  did not include, and never runs.
* Routing.  `aiActionSuggester.ts:856` answers an error or a timeout with
  `NO_ACTION`; the worker takes that for a decision and drops the message (line
  1864: "Only skip fallback if AI explicitly said NO_ACTION").  An automatic reply
  is sent into a conversation that another job has paused since.  The conversation
  history is reversed in place twice (1095 and 1623), so the AI gets it newest
  first.
* CSCS.  A card that is INVALID, or not checked at all, can be approved through the
  API; only the browser hides the button.  The photo of a task created for a
  photo is stored at another place than those attached later, so a repeated
  inbound job attaches the same photo again.
* Pipeline.  A new item is not validated: `validateStageTransition` has a branch for
  it (lines 38-50) that its only caller skips (line 240), so an item can start at
  START_CONFIRMED without a date.  An edit that leaves out the start date writes
  null over it.  DROPPED is left, and two OUTREACH tasks are made, by requests that
  overlap (`JOB_PIPELINE_DELIVERABLES.md:94`, "Only one OUTREACH task exists").  A
  move whose task was lost to a restart cannot be repeated: the stage is unchanged.
  No handler closes a FOLLOW_UP task.
* Outreach.  Its tasks can never be approved (`tasks.ts:97`), so the executor's
  branch is unreachable; a request makes one task per candidate without looking
  for one, and a failure leaves part of them; the text is stored under `message`,
  where the panel reads `suggestedMessage`.
* Progress.  "Idempotent: running twice ..." (`stateMachine.ts:417`) is not true: a
  contact moves from LOOKING on to MATCHED and READY, and the follow-up of a silent one
  is counted from now at every call (lines 183-187), which line 574 takes for a change,
  so that the row is written each time.  `StagesConverge` says what comes to rest.  The queries of the CSCS callers ask for placements of status
  "ACTIVE", which no placement has: they fail, and no placement is seen.  A placed
  candidate with matches becomes READY_TO_PLACE.  PLACED and AFTERCARE are reached
  by the pipeline only through NO_SHOW or DROPPED, because the intent made up for
  the other moves decides before the placement does.  `waitingForOperator` is
  never cleared but by the placement rules.  In the engine, rule 4's `else if`
  disables rules 5-7 on a refresh; the inbound call passes none of the tasks and
  matches it gathered (line 1313).
* Memory.  A refresh looks at the 20 oldest of the 25 newest messages
  (`memoryRefresh.ts:155`).  A failing AI call on the message that answers a
  question leaves it open, and a question may be put although the profile answers
  it: the candidate and the conversation's row are read in two awaits
  (`inboundWorker.ts:1202` and `1237`), and another job may note the answer and write its
  pack in between.  `mergeNonNull` replaces a list as a whole (`memoryPack.ts:136`):
  the entries that the AI's new list leaves out are gone.
* Follow-ups.  "Max 3 follow-ups per conversation per week" is per question, and
  counts open tasks only.  `lastRemindedAt` is never set, a reminder does not clear
  `followUpAt`, and one error ends the scan of all conversations.
* Opportunities.  `generateOpportunityKey` sorts, and so reorders, the candidates it
  is given.
* Timeline, review, stuck tasks.  The dedupe index exists only in a SQL migration.  The
  review list's cursor skips samples of the same time, its timeline shows the first
  verdict only, and a 9 o'clock run that is missed is not caught up.  A task
  without a conversation cannot be marked as stuck.
* Profile.  An inferred value overrides a stated one that is up to 0.15 surer; a
  sure null blocks later values; "newer" means processed later; the race that
  creates a candidate loses one job's facts.
* Jobs.  A job that asks for no CSCS card has a maximal score of 70, so every candidate
  is WEAK, and PROVEN cannot be reached at all.  An empty trade, which a patch may
  set, matches every candidate on the job's page and none in the matcher.  A task's
  snapshot is never refreshed; an urgent start without a duration lowers a task's
  priority, and a negative margin sorts below no job at all.  Nothing but the seed
  writes JobCandidateMatch.
* Earnings.  The response for a configured operator lacks `configured: true`
  (`lib/api.ts:496`), so the card always offers "Set up".  Brackets may have gaps and
  a finite end; revenue outside of them gets the *first* bracket.  A failed or late
  load leaves defaults in the form, which saving then writes over the stored
  brackets; the second request may fail after the first, and computes the month
  anew.  A base pay of 0 is stored as null.
* Console.  A late answer shows another conversation's task until the next poll.
  The poll does not take over a new text of the same task; clearing the text sends
  the suggestion; the keys A and R pass by the confirmation; a second click may
  approve another task after a poll.  In the inbox, the action of one task closes
  whichever is open, and the answer to a save reopens a task decided meanwhile.
  The card panel keeps polling after "30 seconds max".

## 5. Proofs

TLC checks the instances of section 3; the theorems hold for every value of the
constants.  Every invariant and every action property that a passing run checks is
stated by one of them.  Assumptions, besides those the modules name:

* bounds are naturals, and what is counted (requests, job slots, callers, scans) is
  finite; the cap of follow-ups in a week and the attempts of a job are at least one;
* `None` (`Null`, `Nothing`) is a value of its own: no id, task, number, text, stage or
  row (of rows: it has not their fields);
* inputs have the types that the code's parsing gives them: the confidence and the
  ends of a salary that the AI claims are numbers where there are any; the bodies of
  job requests hold numbers, known statuses and postcodes of known districts; the tasks
  the console shows are numbered up to a last one.

| Module | Theorem | States |
|---|---|---|
| `ApprovalWorkflowProofs` | `TypeCorrect` (`TypeOK`) | Every variable of the approval workflow keeps its type, and every task that can be approved or executed has a reply text, for any number of tasks, conversations, messages, operators and jobs at a time. |
| `ApprovalWorkflowProofs` | `TextSafety` (`SentTextsApproved`) | Whatever the interleaving, retries, failing calls and restarts: a reply leaves only with a text an operator approved for its task, unless an inbound message overwrote the task after its approval. |
| `ApprovalWorkflowProofs` | `DecisionsBounded` (`DecisionsBoundedByConcurrency`) | For any number of operators: a task is decided no more often than there are requests in flight at once, because nobody reads a decided task as pending. |
| `ApprovalWorkflowProofs` | `OneOpenTask` (`OneOpenTaskPerMessage`) | However often the job of an inbound message starts again, the message has at most one open task: a job about to create one has found none, and no other job creates one. |
| `ApprovalWorkflowProofs` | `DoneIsRecorded` (`DoneHasRecord`) | An approved task settled as done has an outbound message recorded under its text, for any number of requests and jobs on it, whatever fails; only a payload overwritten after an approval breaks it. |
| `ApprovalWorkflowProofs` | `LimboIsCaused` (`LimboHasCause`) | The exits of the worker that leave a task approved with nothing to settle it are complete: a failing call, a crash, an edited text, an overwritten payload or an action that does not send, and no other. |
| `ApprovalWorkflowProofs` | `RecordedSendsNotRepeated` (`RecordedSendNotRepeated`) | Approved once and unedited, with no crash, a reply is sent once and again only as often as the record of a send was lost, with any number of retries: the jobs of the task are counted to be one, and the guard, the send and the record of that one are followed. |
| `ApprovalWorkflowProofs` | `GateImplemented` (`ImplementsGate`) | The refinement, step by step: every action of the handlers, jobs, faults and crashes is a step of the abstract gate or changes nothing it sees, so every send is paid for by an approval or an incident, for any number of tasks, operators and jobs at a time. |
| `InboundRoutingProofs` | `RoutingTypeCorrect` (`TypeOK`) | Every variable of the routing of an inbound message keeps its type, for any number of messages, deliveries and job slots. |
| `InboundRoutingProofs` | `MessagesSettledOnce` (`SettledOnce`) | However often the attempts of a message fail and start again, it is answered, given to an operator or ignored once, and once more at most for each restart of the process. |
| `InboundRoutingProofs` | `PausedIsOwned` (`PausedHasOwner`) | Behind every paused conversation stands a delivery with a task, or with a job that is still to come, at work or failed for good, for any number of conversations and messages. |
| `CscsVerificationProofs` | `CscsTypeCorrect` (`TypeOK`) | Every variable of the CSCS verification keeps its type for any number of tasks, requests and jobs. |
| `CscsVerificationProofs` | `PayloadsKept` (`UndisturbedWritesKeep`) | A write of a task's payload drops what another request or job wrote only if that one came in between the read and the write. |
| `CscsVerificationProofs` | `PlacementsAccounted` (`PlacementAccounted`) | Behind every confirmed placement stands a task of its own that is done, whose approval is on the way, or that was cut off or overruled: for any number of requests, photos and automatic checks at once. |
| `CscsVerificationProofs` | `CandidateAnswersBounded` (`AnswersBounded`) | However many operators approve and reject a card at once, its candidate hears of one task at most once per request served at a time, per restart and per failing call: while the decision is open, every answer given is owed to a request that is still to write it or that was cut off, and afterwards none starts. |
| `JobPipelineProofs` | `PipelineTypeCorrect` (`TypeOK`) | Every variable of the job pipeline keeps its type for any number of items and requests; no more outreach tasks are closed than were open. |
| `JobPipelineProofs` | `StagesFollowRules` (`UndisturbedMovesAllowed`) | For any number of items and concurrent requests, with failing calls and restarts: an item leaves the machine of stages only by the write of a request that was overtaken by another one. |
| `JobPipelineProofs` | `PromisesKept` (`PromisedTaskExists`) | A change of stage that asks for an outreach or follow-up task has one, or a request that is about to make it, unless it is excused by a rejection, a failing call, a restart or an early return: for any number of overlapping requests. |
| `JobPipelineProofs` | `TasksBounded` (`OpenTasksBounded`) | Tasks of one kind for one item, made or about to be, are never more than the requests that run at the same time, from what each request finds before it creates. |
| `ConversationMemoryProofs` | `MemoryTypeCorrect` (`TypeOK`) | Every variable of the progress and memory model keeps its type, for any number of jobs, refreshes and messages that overlap, fail and restart. |
| `ConversationMemoryProofs` | `MergesKept` (`UndisturbedMergesKeep`) | A value the AI does not tell anew, and the state of a question, get lost only where a job or a refresh writes the whole pack although another one wrote it after the read: for any number of writers of the row, and whatever else they write; what the AI tells replaces a value, a list as a whole. |
| `ConversationMemoryProofs` | `QuestionsBounded` (`QuestionsAskedOnce`) | The candidate is asked a question once, and once more at most for each pack that was lost to a job or refresh that was overtaken: however the stage moves, whatever the AI lists as missing, and for any number of messages and refreshes. |
| `ConversationMemoryProofs` | `OpenMeansUnanswered` (`OpenQuestionsUnanswered`) | An open question of the memory pack is one the candidate's row does not answer, or its answer's job is still to note it, or the answer was passed over: by a failing call of the AI, an old pack, a wrong list, or because another job noted it between the candidate's read and the row's of the job that asked; for any number of jobs, from what each one in flight knows. |
| `ConversationMemoryProofs` | `StagesComeToRest` (`StagesConverge`) | Wherever the memory row and the candidate's profile have come to, applying the progress rules again and again to the row they give comes to rest within three calls, in every situation: the stage and the data stay, and nothing is written, but for the time of a silent contact's follow-up, which every call sets anew. |
| `ConversationMemoryProofs` | `OwnTasksHold` | A task that waits for an operator -- the card that is checked, or the outreach a move has made -- holds the stage of every contact but a new one while it is open: its own update moves nothing, whatever other tasks are created and decided between the looks of a caller (part of StagesExplained of the run memory_merge). |
| `ConversationMemoryProofs` | `PlacementsByMoves` | A contact comes to be PLACED, or in AFTERCARE, only by a move in the pipeline of the job of a confirmed placement, while no job matches, and the move is to NO_SHOW or DROPPED unless the profile is incomplete (part of StagesExplained). |
| `ConversationMemoryProofs` | `StagesAreExplained` (`StagesExplained`) | Where the stage of a contact came from, for any number of tasks and of moves and card checks that overlap and fail: the row is one the rules can make, a task that waits for an operator holds the stage against its own update, and a placement is found by a move at its job alone. |
| `ServicesProofs` | `ColumnsAreVouched` | The column of a profile field is the value its metadata vouch for, after any number of merges, conflicts and failures; only an older row's write tears them apart (part of RowsInOrder of the run services). |
| `ServicesProofs` | `NothingUnsampled` | Every approved message is sampled by the run of the next morning, passed over because there were too many of its kind, or lost with a morning that failed; for any number of messages and days (part of NothingMissed). |
| `ServicesProofs` | `NothingUnread` | A reader of the timeline who came to the end was given every event there was at its first page, once, for any page size, equal times and events that arrive between pages (part of NothingMissed). |
| `ServicesProofs` | `FollowUpsFew` | Follow-ups of a question and a day, and reminders of a conversation, are at most as many as callers and scans at a time, and the weekly cap is overshot by concurrent callers only; creations on the way are counted with the rows (part of RepeatsBounded). |
| `ServicesProofs` | `OpportunityTasksFew` | A candidate gets from one opportunity at most as many tasks as requests run at a time and calls have failed, unless a failure was logged for the two: for any jobs, candidates and matches, however often operators ask (part of RepeatsBounded). |
| `ServicesProofs` | `ProfilesTyped` | A candidate's row keeps confidences that are percents, salaries that are ranges the right way round, and a review flag that is up exactly when a field is in conflict: whatever the AI claims, and however often jobs overlap, fail and run again (part of RowsInOrder). |
| `ServicesProofs` | `OpportunitiesTyped` | The requests for the tasks of an opportunity write log rows and tasks of candidates only, whichever step fails: a request that failed knows for whom (part of RowsInOrder). |
| `ServicesProofs` | `RowsKeptInOrder` (`RowsInOrder`) | The rows of the six services keep their types, and the columns of a profile tell what its metadata vouch for, whatever runs and fails at the same time, for any number of requests, jobs, scans, readers and rows. |
| `ServicesProofs` | `RepeatsFew` (`RepeatsBounded`) | Second tasks come from concurrency and failed calls alone: of an opportunity for a candidate until a failure is logged, of a question and a day, of a reminder; with any number of requests, jobs and scans at a time. |
| `ServicesProofs` | `NothingIsMissed` (`NothingMissed`) | A reader of the timeline who came to its end was given every event there was when it began, each once; and an approved message has a sample two days later, unless a run had too many of its kind or its morning failed. |
| `ServicesProofs` | `GuessesKept` (`GuessesYield`) | A value of a profile gives way only to one as sure but for 15 percents, or to a stated one that replaces a guess, unless an older row's write came in between. |
| `ConsoleProofs` | `CardsKeptApart` | The card of another candidate is saved for a task only if the page knew none of its own when it opened the task: however late the answers come that move the page, and whatever requests are repeated from their toasts (part of FormsStayWithTask of the run memory_merge). |
| `ConsoleProofs` | `EditsKeptWithTask` | A text the operator typed goes out with the task it was typed for; with another one only if the panel suggested the same text for both: for any number of tasks and conversations, and requests that overlap, get lost, are answered late or repeated (part of FormsStayWithTask). |
| `ConsoleProofs` | `FormsKept` (`FormsStayWithTask`) | Both forms of the console at once, with their types: what an operator typed, for a reply or for a card, goes out with the task it was typed for. |
| `FiguresProofs` | `FilledJobsStay` | A job marked as filled has all its positions filled, whatever other callers read in between, unless it was patched: the number of positions was read in an earlier step (part of FiguresHold of the run inbound_context). |
| `FiguresProofs` | `SnapshotsTellMatch` | The snapshot in a task is of the first match it shows and tells the pay that is shown, unless the job was patched between the two reads (part of FiguresHold). |
| `FiguresProofs` | `TiersTold` | Whoever the page of a job shows in a good tier has the card the job requires, its trade and its place; and nobody reaches the proven tier (part of FiguresHold). |
| `FiguresProofs` | `ScoresAgree` | The two ways to score a candidate for a job agree: whom the page of a job shows in a good tier, a task scores with a trade and a place that match, unless the trade of the job was emptied; over every trade, place, card and rate (part of FiguresHold). |
| `FiguresProofs` | `RankTellsMargin` | The inbox ranks a task for full weeks of work by what the page of its job says the job is worth, as long as the job tells what the snapshot does (part of FiguresHold). |
| `FiguresProofs` | `RankFalls` | A task that pays does not rise in the inbox as the start of its job comes nearer, for any rate, hours and date (part of FiguresHold). |
| `FiguresProofs` | `EarningsKept` | The rate on the dashboard is that of the bracket the revenue has reached, who earns the missing amount gets the next one, what is stored passed the checks, and an untouched form shows what is stored: whatever is typed, loaded late, saved in two requests or lost between them (part of FiguresHold). |
| `FiguresProofs` | `FiguresKept` (`FiguresHold`) | All of the figures that operators are shown, of jobs and of their earnings, are what the rows behind them say, for any jobs, candidates, callers, brackets and revenues, and the types they rest on. |

### Approval workflow

* `TypeCorrect`.  `TypeOK` alone is not inductive.  That an approved text is a text,
  and that the executor has one to send, needs every task that can still be
  approved or executed to have a pending reply text, in its row and in each
  snapshot in flight (`TextAvailable`).
* `TextSafety`.  A reply is sent from a snapshot, and the row may have changed
  since: `TextInv` says of every job about to send that the text it would send was
  approved, or its task was overwritten, and of every approved row that its text was
  approved.
* `DecisionsBounded`.  Nobody reads a decided task as pending, so every decision after
  the first comes from a request that had read before: `DecisionInv` bounds the
  decisions made and those on their way together.
* `OneOpenTask`.  `OpenInv`: a job about to create a task of its message has found
  none, and no other job creates one; jobs of one message do not overlap.
* `DoneIsRecorded`.  `SnapshotInv` ties the snapshot of a job to its row in all that
  the lookup of a recorded message depends on, `RecordInv` says that a job which is
  about to settle has found the record.  An attempt to prove it for any number of
  requests showed the property itself to be false with three: after two approvals a
  third append was not counted as overwriting.  The history variable was corrected
  (`overwritten` is about `approvals > 0`, not about the row's status), and the
  property holds and is proved.
* `LimboIsCaused`.  `LimboInv`: an approved task has somebody `Responsible` (a request
  about to queue it, a job in the queue, a job at work with the row's text), unless
  one of the causes holds.
* `RecordedSendsNotRepeated`.  `LoadInv`: without a restart the jobs of a task,
  waiting and at work, and the requests about to queue one are no more than the
  approvals.  So there is one job, and `RepeatInv` follows that one: a send that is
  not lost is recorded, or about to be.
* `GateImplemented`.  The refinement, step by step.  `WriteApproval` is the gate's
  Approve; an append is Overwrite or changes nothing it sees; a reply that Twilio
  takes is Send; the exits of a job that do not send (a duplicate found, an action
  without a reply, giving up) are Forfeit; failing calls and restarts are Incident;
  the rest stutters.  The mapping computes the credits from requests, queue and
  jobs, so the proof counts the jobs that may still send (`CreditJobs`) before and
  after each action.

### Routing, CSCS, pipeline

* `MessagesSettledOnce`.  `Budget`: while a job can still answer the message or give it
  away nothing was done with it, but for what restarts account for.
* `PausedIsOwned`.  `OwnerInv`: a paused conversation has a delivery with a task, or at
  a place from which a job makes one or has failed for good.  A job about to append
  to a task is not such a place: the task may be decided before it appends.
* `PayloadsKept`.  `Undisturbed`: who was not overtaken has in hand what is in the row.
* `PlacementsAccounted`.  A rejection that was not overtaken is of a task that was not
  approved meanwhile (`RejectionsOK`).
* `CandidateAnswersBounded`.  `AnswersInv`: while the decision is open, answers given
  are owed to a request still on its way to write it, to a failure or a restart;
  when it is made, only requests that began before add one each.
* `StagesFollowRules`.  The rules were checked at the read, the item is written later;
  `Undisturbed` joins the two.
* `PromisesKept`, `TasksBounded`.  `Kept` says by what a move still can count on its task;
  `Bounded` adds the requests about to create to the tasks there are.

### Memory and services

* `MergesKept`.  `PacksCurrent`: who was not overtaken has the pack that is there.
* `QuestionsBounded`.  `AskedInv`: a question the pack does not know was asked no more
  often than packs were lost.
* `OpenMeansUnanswered`.  `Informed`: a job knows what the profile told when it read the
  candidate and what was noted between its two reads, and so all that the profile tells,
  but for what other messages at work are still bringing.
* `MemoryTypeCorrect` has to know that the first rule that applies gives a stage; that
  there is a first one is the least number principle (`FirstOf`).
* `StagesComeToRest`.  The rules are applied to a row they have given: the lemmas say
  what each situation gives from each stage, that a rule that applies to its own written
  result gives it again (`RestsBySameRule`), but for a follow-up that is counted from
  now, and the chains this leaves are followed to their ends.
* `OwnTasksHold`, `PlacementsByMoves`.  `UpdateInv` says what a caller has found at each
  of its looks (its own task, while it is open, is among the pending ones), from
  which follows what the first rule that applies can be.
* `ColumnsAreVouched`, `GuessesKept`.  `ProfileInv`: the row has columns its metadata
  vouch for, unless an older row was written, and so do the rows that jobs have read.
* `ProfilesTyped`.  `ProfileTypes`: the salaries of the row, of each row that a job has
  read and of each answer are ranges (`NormalizedIsRange`: whatever the AI claims); a
  merge makes up none of its own (`SalaryMerged`).
* `NothingUnsampled`.  `SamplingInv` dates each approved message against the runs.
* `NothingUnread`.  `TimelineInv` says where each event stands to a reader's cursor;
  that a page holds the newest of what is older than the cursor rests on every finite
  set having a first element under the order of events.
* `FollowUpsFew`, `OpportunityTasksFew`.  Tasks about to be created count as if they were
  there.  For an opportunity the count changes sides when its first row is logged:
  before, copies are of requests about to log; afterwards, of those who had looked
  before.  `FollowUpsBounded`, `DuplicatesBounded`, `ReaderSeesAll`, `ApprovedIsSampled`
  and `ColumnsFollowMetas`, with the types, are what `RepeatsBounded`, `NothingMissed` and
  `RowsInOrder` of the run `services` are made of, and `RepeatsFew`, `NothingIsMissed` and
  `RowsKeptInOrder` join their theorems over `ServicesSpec`.

### Console and figures

* `CardsKeptApart`, `EditsKeptWithTask`.  The forms outlive their task, so the invariants
  follow what was typed for which: through the page, each request in flight and the
  toasts that repeat one.
* `FilledJobsStay`, `SnapshotsTellMatch`.  `BoardInv`: what a caller has read still holds,
  unless the job was patched since.
* `TiersTold`, `ScoresAgree`, `RankTellsMargin`, `RankFalls`.  Lemmas about the operators of
  `JobBoard`, over all trades, places, cards, rates and dates: the scores are sums of
  a few weights, compared case by case.
* `EarningsKept`.  What is stored passed the checks, in both requests; of sorted
  brackets that do not overlap, the one that holds a revenue is followed by the next.

### Left to TLC

Liveness under fairness and whatever needs ENABLED (`QueuedIsSettled`, `JobsDrain`,
`ApprovalResumes`, `CheckEnds`, `DueIsReminded`, `StuckIsMarked`, `PanelCatchesUp`), and
what recursive definitions compute for all inputs.

## 6. What is left

Next: the outreach tasks that requests make, up to the point where the approval API
refuses them; voice notes and the image branch, once the webhook stores metadata; the
lists of jobs, samples and earnings as far as their cursors go.

Not modelled: text processing (prompts, classifiers, extraction, transcription),
whose outcomes are nondeterministic choices; queries and formatting (dashboards,
exports, lists, search); sessions and tenant scoping (each query carries one
agency; there is one agency in the models); outreach sending, which nothing
reaches; the development replay and the seed; contacts, which the webhook is taken
to know; voice notes.

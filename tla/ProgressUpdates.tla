--------------------------- MODULE ProgressUpdates ---------------------------
(***************************************************************************)
(* The requests that move the progress stage of a candidate by the rules:  *)
(* a move in a job's pipeline, and a checked CSCS card, whether an         *)
(* operator checked it or the worker.  Each gathers what the rules look at *)
(* with one query after the other, then reads the conversation's row and   *)
(* writes it.  They do not look at the same things: the pipeline finds     *)
(* tasks by candidate, the check of a card by conversation, and each of    *)
(* the tasks has only one of the two, but for the cards.                   *)
(***************************************************************************)
EXTENDS ProgressRules

CONSTANTS Tasks,       \* ids of tasks
          Callers,     \* requests and jobs at a time
          MaxTouches,  \* bound: what operators, candidates and time do
          MaxFaults    \* bound: failing queries

VARIABLES
    row,        \* stage and data of the conversation
    tasks,      \* the tasks of the candidate
    match,      \* the candidate matches no job, an open one, or one that is not open any more
    placement,  \* the placement at one of the jobs
    profile,    \* what the Candidate row tells
    idle,       \* days since the last message
    caller,     \* the callers
    used        \* how much of each bound has been used up

vars == <<row, tasks, match, placement, profile, idle, caller, used>>

-----------------------------------------------------------------------------
(* What the callers see.                                                   *)

\* An approval and a follow-up of a question have a message or a conversation but no
\* candidate, what the pipeline makes has a candidate but neither, and a card has both.
ByConversation == {"approval", "question", "card"}

ByCandidate == {"outreach", "checkIn", "card"}

FollowUpKinds == {"question", "checkIn"}

PendingKinds == {"approval", "outreach", "card"}

NoTask == [kind |-> None, open |-> FALSE]

Visible(by) == IF by = "move" THEN ByCandidate ELSE ByConversation

\* A check that leaves its own kind of task out.
BuggySees(by, kinds) ==
    \E t \in Tasks : tasks[t].open /\ tasks[t].kind \in kinds \cap (Visible(by) \ {"card"})

\* There is an open task of these kinds.
Sees(by, kinds) == \E t \in Tasks : tasks[t].open /\ tasks[t].kind \in kinds \cap Visible(by)

\* The check asks for jobs that are still open.
SeesMatch(by) == match \in (IF by = "move" THEN {"open", "closed"} ELSE {"open"})

\* The pipeline looks for a placement at its own job; the check asks for a status no
\* placement can have, which the database refuses.
SeesPlacement(c) == IF caller[c].by = "move" /\ caller[c].atJob THEN placement ELSE "none"

Moves == {"SHORTLISTED", "OFFER_SENT", "START_CONFIRMED", "NO_SHOW", "DROPPED"}

Intent(move) ==
    CASE move \in {"SHORTLISTED", "OFFER_SENT"} -> "LOOKING_FOR_WORK"
      [] move = "START_CONFIRMED"               -> "AVAILABILITY_UPDATE"
      [] OTHER                                  -> "none"

Unseen == [pending |-> FALSE, cscs |-> FALSE, followUp |-> FALSE, matched |-> FALSE,
           placement |-> "none", intent |-> "none"]

Fresh == [stage |-> "NEW", data |-> NoData]

Rest == [pc |-> "idle", by |-> None, task |-> None, move |-> None, atJob |-> FALSE,
         profile |-> {}, seen |-> Unseen, read |-> Fresh, next |-> Fresh]

Init ==
    /\ row = Fresh
    /\ tasks \in [Tasks -> {NoTask, [kind |-> "card", open |-> TRUE]}]
    /\ match \in {"none", "open"}
    /\ placement = "none" /\ profile \in {{}, RequiredFields} /\ idle = 0
    /\ caller = [c \in Callers |-> Rest]
    /\ used = [touches |-> 0, faults |-> 0]

Touch == used.touches < MaxTouches /\ used' = [used EXCEPT !.touches = @ + 1]

-----------------------------------------------------------------------------
(* The callers.                                                            *)

Free(t) == tasks[t].kind = None

NewTask(t, kind) == tasks' = [tasks EXCEPT ![t] = [kind |-> kind, open |-> TRUE]]

\* The item is written, and an outreach or a check-in may have been made; the candidate
\* was read before.
StartMove(c) ==
    /\ caller[c].pc = "idle" /\ Touch
    /\ \E move \in Moves, atJob \in BOOLEAN, t \in Tasks \cup {None} :
          /\ t # None => Free(t) /\ move \in {"OFFER_SENT", "START_CONFIRMED"}
          /\ caller' = [caller EXCEPT ![c] =
                [Rest EXCEPT !.pc = "tasks", !.by = "move", !.task = t, !.move = move, !.atJob = atJob,
                             !.profile = profile, !.seen.intent = Intent(move)]]
          /\ IF t = None THEN UNCHANGED tasks
             ELSE NewTask(t, IF move = "OFFER_SENT" THEN "outreach" ELSE "checkIn")
    /\ UNCHANGED <<row, match, placement, profile, idle>>

\* The result of a card has been written.
StartCheck(c) ==
    /\ caller[c].pc = "idle" /\ Touch
    /\ \E t \in Tasks :
          /\ tasks[t].kind = "card"
          /\ caller' = [caller EXCEPT ![c] = [Rest EXCEPT !.pc = "profile", !.by = "check", !.task = t]]
    /\ UNCHANGED <<row, tasks, match, placement, profile, idle>>

Step(c, next) ==
    /\ caller' = [caller EXCEPT ![c] = next]
    /\ UNCHANGED <<row, tasks, match, placement, profile, idle, used>>

ReadProfile(c) ==
    /\ caller[c].pc = "profile"
    /\ Step(c, [caller[c] EXCEPT !.pc = "tasks", !.profile = profile])

\* The pipeline takes one look at the tasks, the check three.
ReadTasks(c) ==
    LET q == caller[c] IN
    /\ q.pc = "tasks"
    /\ Step(c, IF q.by = "move"
               THEN [q EXCEPT !.pc = "match", !.seen.pending = Sees(q.by, PendingKinds),
                              !.seen.cscs = Sees(q.by, {"card"}),
                              !.seen.followUp = Sees(q.by, FollowUpKinds)]
               ELSE [q EXCEPT !.pc = "cards", !.seen.pending = Sees(q.by, PendingKinds)])

ReadCards(c) ==
    /\ caller[c].pc = "cards"
    /\ Step(c, [caller[c] EXCEPT !.pc = "followUps", !.seen.cscs = Sees("check", {"card"})])

ReadFollowUps(c) ==
    /\ caller[c].pc = "followUps"
    /\ Step(c, [caller[c] EXCEPT !.pc = "match", !.seen.followUp = Sees("check", FollowUpKinds)])

ReadMatch(c) ==
    /\ caller[c].pc = "match"
    /\ Step(c, [caller[c] EXCEPT !.pc = "placement", !.seen.matched = SeesMatch(caller[c].by)])

ReadPlacement(c) ==
    /\ caller[c].pc = "placement"
    /\ Step(c, [caller[c] EXCEPT !.pc = "row", !.seen.placement = SeesPlacement(c)])

\* The row is read and the rules are applied; nothing is written when nothing changes, but
\* a follow-up that is counted from now is a change.
ReadRow(c) ==
    LET q    == caller[c]
        next == computeNextProgressState(row.stage, row.data, q.profile, idle, q.seen)
    IN  /\ q.pc = "row"
        /\ Step(c, IF next = row THEN Rest ELSE [q EXCEPT !.pc = "write", !.read = row, !.next = Written(next)])

WriteRow(c) ==
    /\ caller[c].pc = "write"
    /\ row' = caller[c].next
    /\ caller' = [caller EXCEPT ![c] = Rest]
    /\ UNCHANGED <<tasks, match, placement, profile, idle, used>>

\* Without its matches a check goes on as if there were none; after any other failure the
\* update is given up, and the request succeeds without.
Fails(c) ==
    /\ caller[c].pc # "idle"
    /\ used.faults < MaxFaults /\ used' = [used EXCEPT !.faults = @ + 1]
    /\ caller' = [caller EXCEPT ![c] = IF @.pc = "match" /\ @.by = "check" THEN [@ EXCEPT !.pc = "placement"]
                                       ELSE Rest]
    /\ UNCHANGED <<row, tasks, match, placement, profile, idle>>

-----------------------------------------------------------------------------
(* What goes on meanwhile.                                                 *)

Learn ==
    /\ Touch /\ profile = {} /\ profile' = RequiredFields
    /\ UNCHANGED <<row, tasks, match, placement, idle, caller>>

Create(t) ==
    /\ Touch /\ Free(t)
    /\ \E kind \in ByConversation : NewTask(t, kind)
    /\ UNCHANGED <<row, match, placement, profile, idle, caller>>

\* A task is decided; approving a card confirms the placement at its job.
Decide(t) ==
    /\ Touch /\ tasks[t].open
    /\ tasks' = [tasks EXCEPT ![t].open = FALSE]
    /\ \/ UNCHANGED placement
       \/ tasks[t].kind = "card" /\ placement' \in {"future", "started"}
    /\ UNCHANGED <<row, match, profile, idle, caller>>

CloseJob ==
    /\ Touch /\ match = "open" /\ match' = "closed"
    /\ UNCHANGED <<row, tasks, placement, profile, idle, caller>>

\* Days without a message, or a message after them.
Wait ==
    /\ Touch /\ idle' = DormantAfter - idle
    /\ UNCHANGED <<row, tasks, match, placement, profile, caller>>

Next ==
    \/ \E c \in Callers : \/ StartMove(c) \/ StartCheck(c)
                          \/ ReadProfile(c) \/ ReadTasks(c) \/ ReadCards(c) \/ ReadFollowUps(c)
                          \/ ReadMatch(c) \/ ReadPlacement(c) \/ ReadRow(c) \/ WriteRow(c) \/ Fails(c)
    \/ \E t \in Tasks : Create(t) \/ Decide(t)
    \/ Learn \/ CloseJob \/ Wait

Spec == Init /\ [][Next]_vars

-----------------------------------------------------------------------------
(* Properties.                                                             *)

Rows == [stage : Stages, data : Data]

\* The row stays one the rules can make, and a caller looks at it as a whole.
TypeOK ==
    /\ row \in Rows
    /\ \A c \in Callers : /\ caller[c].read \in Rows /\ caller[c].next \in Rows
                          /\ caller[c].seen \in Contexts
                          /\ caller[c].by = "check" => tasks[caller[c].task].kind = "card"

\* The caller is about to change the stage.
Moving(c) == caller[c].pc = "write" /\ caller[c].next.stage # caller[c].read.stage

\* A task that waits for an operator holds the stage, of every contact but a new one, and
\* the card that is checked is such a task, as is the outreach that a move has made: until
\* it is decided, its own update moves nothing but a new contact.  The rule for cards under
\* verification is there for those alone.
OwnTaskHolds ==
    \A c \in Callers :
        /\ Moving(c) /\ caller[c].task # None
        /\ tasks[caller[c].task].kind \in PendingKinds /\ tasks[caller[c].task].open
        => caller[c].read.stage = "NEW"

\* A contact is PLACED, or in AFTERCARE, only by a move in the pipeline of the job of a
\* confirmed placement, while no job matches.  The move is to NO_SHOW or DROPPED: all others
\* count as a sign of looking for work, which comes first, unless the contact was dormant
\* with an incomplete profile.
PlacementsFoundByMoves ==
    \A c \in Callers :
        Moving(c) /\ caller[c].next.stage \in {"PLACED", "AFTERCARE"}
        => /\ caller[c].by = "move" /\ caller[c].atJob /\ placement # "none"
           /\ ~ caller[c].seen.matched \/ caller[c].profile = {}
           /\ caller[c].move \in {"NO_SHOW", "DROPPED"} \/ caller[c].profile = {}
=============================================================================

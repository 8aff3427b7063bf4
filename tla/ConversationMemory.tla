------------------------- MODULE ConversationMemory -------------------------
(***************************************************************************)
(* What the program remembers of one conversation: a single database row   *)
(* with the progress stage, the progress data and the memory pack.  Three  *)
(* kinds of writers change it: the job of an inbound message, an operator  *)
(* who asks for a refresh, and applyProgressStateMachine, called after a   *)
(* CSCS result or a move in the job pipeline.  All of them read the row,   *)
(* wait for the AI or for queries, and write what they computed by id.     *)
(*                                                                         *)
(* A memory pack is reduced to who wrote each of its values last, and to   *)
(* the questions the candidate has been asked.  A value is what            *)
(* mergeNonNull replaces as a whole: a text, a number, a list of skills.   *)
(***************************************************************************)
EXTENDS ProgressRules, FiniteSets

CONSTANTS Messages,     \* inbound messages, each with its job
          Refreshes,    \* operators who ask for a refresh
          Updates,      \* calls of applyProgressStateMachine
          Values,       \* the values a memory pack keeps apart from the questions
          Learned,      \* the sets of fields a message may tell
          Answers,      \* what the AI may suggest
          Situations,   \* the contexts an update may find
          MaxDays       \* bound: days that pass

Writers == Messages \cup Refreshes \cup Updates

ASSUME WritersAssumption ==
    /\ Messages \cap Refreshes = {} /\ Messages \cap Updates = {} /\ Refreshes \cap Updates = {}
    /\ None \notin Writers

ASSUME InputsAssumption ==
    /\ Learned \subseteq SUBSET Fields /\ Answers \subseteq Suggestions
    /\ Situations \subseteq Contexts /\ MaxDays \in Nat

VARIABLES
    row,      \* stage, data and pack of the Conversation row
    last,     \* the day of its last message
    profile,  \* what the Candidate row tells
    writer,   \* the writers
    hist,     \* history: how often each question was asked, how many writes took a newer pack
              \* away, and the questions that are open although the answer is known
    today     \* the day

vars == <<row, last, profile, writer, hist, today>>

QuestionStates == {"none", "open", "resolved"}

\* Who wrote a value last; None: it is null.
Packs == [values : [Values -> Messages \cup Refreshes \cup {None}], questions : [Keys -> QuestionStates]]

\* The pack of a conversation that has none, as sanitizeMemoryPack makes it.
EmptyPack == [values |-> [v \in Values |-> None], questions |-> [k \in Keys |-> "none"]]

NewRow == [stage |-> "NEW", data |-> NoData, pack |-> EmptyPack]

\* What a writer has read, and what it will tell the engine; the answers other jobs noted
\* between its two reads, and the parts of the row that were written after the second.
Idle == [pc |-> "idle", row |-> NewRow, input |-> None, learned |-> {}, passed |-> {}, overtaken |-> {}]

Init ==
    /\ row = NewRow /\ last = 0
    /\ profile = {}
    /\ writer = [w \in Writers |-> Idle]
    /\ hist = [asked |-> [k \in Keys |-> 0], lost |-> 0, missed |-> {}]
    /\ today = 0

-----------------------------------------------------------------------------
(* Reading and writing the row.                                            *)

\* Whoever has read the row and will write it.
Holds(w) == writer[w].pc = "write"

\* The writers after w wrote parts of the row: the others hold old ones now, or know a
\* candidate who had not yet told what w noted.
AfterWrite(w, parts, pc) ==
    [v \in Writers |-> IF v = w THEN [Idle EXCEPT !.pc = pc]
                       ELSE IF Holds(v) THEN [writer[v] EXCEPT !.overtaken = @ \cup parts]
                       ELSE IF writer[v].pc = "known"
                            THEN [writer[v] EXCEPT !.passed = @ \cup KeysOf(writer[w].learned)]
                       ELSE writer[v]]

Give(w, pc) == writer' = [writer EXCEPT ![w] = [Idle EXCEPT !.pc = pc]]

\* What the patch leaves out becomes null.
BuggyMerged(pack, told, w, questions) ==
    [values |-> [v \in Values |-> IF v \in told THEN w ELSE None], questions |-> questions]

\* mergeNonNull replaces the values that the patch of w tells, whole lists too, and keeps
\* what it leaves out, also when a recomputation is forced.
Merged(pack, told, w, questions) ==
    [values |-> [v \in Values |-> IF v \in told THEN w ELSE pack.values[v]], questions |-> questions]

\* A question that has been answered may be asked again.
BuggyNewQuestions(questions, required) == {k \in required : questions[k] # "open"}

\* A question that was asked is not added again, open or resolved.
NewQuestions(questions, required) == {k \in required : questions[k] = "none"}

OpenOnes(questions) == {k \in Keys : questions[k] = "open"}

Overtaken(w) == "pack" \in writer[w].overtaken

\* What writing next over a newer pack takes away.
Reopened(w, next) ==
    {k \in OpenOnes(next.questions) : Overtaken(w) /\ row.pack.questions[k] # "open"}

Forgotten(w, next) ==
    {k \in Keys : Overtaken(w) /\ row.pack.questions[k] # "none" /\ next.questions[k] = "none"}

WritePack(w, stage, data, next, asked, missed) ==
    /\ row' = [row EXCEPT !.stage = stage, !.data = data, !.pack = next]
    /\ hist' = [asked  |-> [k \in Keys |-> hist.asked[k] + (IF k \in asked THEN 1 ELSE 0)],
                lost   |-> hist.lost + (IF \/ Overtaken(w) /\ asked # {}
                                          \/ Forgotten(w, next) # {} THEN 1 ELSE 0),
                missed |-> hist.missed \cup missed \cup Reopened(w, next)]

-----------------------------------------------------------------------------
(* The job of a message.                                                   *)

\* The message is stored, and what can be extracted from it goes to the candidate's row.
Receive(m) ==
    /\ writer[m].pc = "idle"
    /\ \E fields \in Learned :
          /\ profile' = profile \cup fields
          /\ writer' = [writer EXCEPT ![m] = [Idle EXCEPT !.pc = "learned", !.learned = fields]]
    /\ last' = today
    /\ UNCHANGED <<row, hist, today>>

\* The candidate is read, for the engine and the questions.
ReadCandidate(m) ==
    /\ writer[m].pc = "learned"
    /\ writer' = [writer EXCEPT ![m] = [@ EXCEPT !.pc = "known",
                                          !.input = EngineInput(FALSE, 0, FALSE, FALSE, profile)]]
    /\ UNCHANGED <<row, last, profile, hist, today>>

\* The conversation's row is read with a query of its own.
ReadForMemory(m) ==
    /\ writer[m].pc = "known"
    /\ writer' = [writer EXCEPT ![m] = [@ EXCEPT !.pc = "write", !.row = row]]
    /\ UNCHANGED <<row, last, profile, hist, today>>

\* Nothing is resolved by what was extracted.
BuggyResolutions(questions, learned) ==
    SUBSET (OpenOnes(questions) \cap {"LOCATION", "AVAILABILITY", "CSCS_PHOTO"})

\* The questions after the message: what it tells resolves them, and so may its wording
\* and its pictures.
Resolutions(questions, learned) ==
    LET open == OpenOnes(questions)
        told == open \cap KeysOf(learned)
    IN  {told \cup more : more \in SUBSET (open \cap {"LOCATION", "AVAILABILITY", "CSCS_PHOTO"})}

Marked(questions, keys, state) == [k \in Keys |-> IF k \in keys THEN state ELSE questions[k]]

\* The AI has answered; the engine corrects its stage, questions are resolved and added,
\* and the row is written.  The list of missing fields may be the AI's, or an old one, and
\* the answer may have come after the candidate was read: a question can be added although
\* the profile tells the answer.
SaveMemory(m) ==
    LET w == writer[m] IN
    /\ w.pc = "write" /\ m \in Messages
    /\ \E answer \in Answers, told \in SUBSET Values,
          resolved \in Resolutions(w.row.pack.questions, w.learned) :
          LET next  == MergedProgress(w.row.data, answer, w.input)
              questions == Marked(w.row.pack.questions, resolved, "resolved")
              added == NewQuestions(questions, RequiredQuestions(next.stage, next.data.missing, w.input.profile))
          IN  WritePack(m, next.stage, next.data,
                        Merged(w.row.pack, told, m, Marked(questions, added, "open")), added,
                        (added \cap (KeysOf(w.input.profile) \cup w.passed))
                        \cup (IF Overtaken(m) THEN KeysOf(w.learned) ELSE {}))
    /\ writer' = AfterWrite(m, {"pack", "progress"}, "done")
    /\ UNCHANGED <<last, profile, today>>

\* No answer of the AI, one that cannot be understood, a timeout, or a failing query:
\* nothing is written, the job goes on, and the questions the message answers stay open.
SkipMemory(m) ==
    /\ writer[m].pc \in {"learned", "known", "write"} /\ m \in Messages
    /\ hist' = [hist EXCEPT !.missed = @ \cup KeysOf(writer[m].learned)]
    /\ Give(m, "done")
    /\ UNCHANGED <<row, last, profile, today>>

-----------------------------------------------------------------------------
(* POST /conversations/:id/refresh-memory.                                 *)

\* Only open tasks that wait for an approval are looked at.  The candidate is read after the
\* row, and no rule that this input reaches looks at it.
ReadForRefresh(r) ==
    /\ writer[r].pc = "idle"
    /\ \E s \in Situations :
          LET input == EngineInput(TRUE, today - last, s.cscs /\ s.pending, s.pending, profile)
          IN  writer' = [writer EXCEPT ![r] = [Idle EXCEPT !.pc = "write", !.row = row, !.input = input]]
    /\ UNCHANGED <<row, last, profile, hist, today>>

\* The AI reads the last 25 messages; the questions are left as they were read.
SaveRefresh(r) ==
    LET w == writer[r] IN
    /\ w.pc = "write" /\ r \in Refreshes
    /\ \E answer \in Answers, told \in SUBSET Values :
          LET next == MergedProgress(w.row.data, answer, w.input)
          IN  WritePack(r, next.stage, next.data, Merged(w.row.pack, told, r, w.row.pack.questions), {}, {})
    /\ writer' = AfterWrite(r, {"pack", "progress"}, "done")
    /\ UNCHANGED <<last, profile, today>>

\* Without an answer, or after a failing call, the request is answered with an error.
RefreshFails(r) ==
    /\ Holds(r) /\ r \in Refreshes
    /\ Give(r, "done")
    /\ UNCHANGED <<row, last, profile, hist, today>>

-----------------------------------------------------------------------------
(* applyProgressStateMachine.                                              *)

\* The stage and the data that follow in situation s from what was read.
Computed(read, fields, s) ==
    LET next == computeNextProgressState(read.stage, read.data, fields, today - last, s)
    IN  [stage |-> next.stage, data |-> next.data]

\* The callers have gathered the situation, and the candidate, who may have told less then;
\* the row is read and the rules are applied.  When nothing changes, nothing is written; a
\* follow-up that is counted from now is a change, and so is the first data of a row.
ReadForUpdate(u) ==
    /\ writer[u].pc = "idle"
    /\ \E s \in Situations, told \in SUBSET profile :
          LET next == Computed(row, told, s)
              held == Written(next)
          IN  /\ next # [stage |-> row.stage, data |-> row.data]
              /\ writer' = [writer EXCEPT ![u] = [Idle EXCEPT !.pc = "write", !.row.stage = held.stage,
                                                                             !.row.data = held.data]]
    /\ UNCHANGED <<row, last, profile, hist, today>>

\* Only the stage and the data are written, whatever they have become meanwhile.
WriteStage(u) ==
    /\ Holds(u) /\ u \in Updates
    /\ row' = [row EXCEPT !.stage = writer[u].row.stage, !.data = writer[u].row.data]
    /\ writer' = AfterWrite(u, {"progress"}, "done")
    /\ UNCHANGED <<last, profile, hist, today>>

\* The callers log the error and go on.
UpdateFails(u) ==
    /\ Holds(u) /\ u \in Updates
    /\ Give(u, "done")
    /\ UNCHANGED <<row, last, profile, hist, today>>

-----------------------------------------------------------------------------

NextDay ==
    /\ today < MaxDays
    /\ today' = today + 1
    /\ UNCHANGED <<row, last, profile, writer, hist>>

Next ==
    \/ \E m \in Messages : \/ Receive(m) \/ ReadCandidate(m) \/ ReadForMemory(m)
                           \/ SaveMemory(m) \/ SkipMemory(m)
    \/ \E r \in Refreshes : ReadForRefresh(r) \/ SaveRefresh(r) \/ RefreshFails(r)
    \/ \E u \in Updates : ReadForUpdate(u) \/ WriteStage(u) \/ UpdateFails(u)
    \/ NextDay

Spec == Init /\ [][Next]_vars

-----------------------------------------------------------------------------
(* Properties.                                                             *)

Rows == [stage : Stages, data : Data, pack : Packs]

Inputs == [known : BOOLEAN, dormant : BOOLEAN, cscs : BOOLEAN, pending : BOOLEAN, profile : SUBSET Fields]

\* The row and what the writers hold of it keep their shape.
TypeOK ==
    /\ row \in Rows /\ last \in 0..MaxDays
    /\ profile \subseteq Fields
    /\ writer \in [Writers -> [pc : {"idle", "learned", "known", "write", "done"}, row : Rows,
                              input : Inputs \cup {None}, learned : SUBSET Fields,
                              passed : SUBSET Keys, overtaken : SUBSET {"pack", "progress"}]]
    /\ hist \in [asked : [Keys -> Nat], lost : Nat, missed : SUBSET Keys]
    /\ today \in 0..MaxDays

\* What w does not tell stays as it is now, not as it was when w read it: no value goes back
\* to null or to an older writer's, and no question is forgotten.
PackKept(w) ==
    /\ \A v \in Values : row'.pack.values[v] \in {row.pack.values[v], w}
    /\ \A k \in Keys : row'.pack.questions[k] = "none" => row.pack.questions[k] = "none"

\* A value the AI does not tell anew and the state of a question get lost in one way only:
\* a job or a refresh writes the whole pack although another one wrote it after the read.
\* The updates of the stage, which write the same row, never do it.  What the AI tells
\* replaces the old value, a list as a whole: an entry the new list leaves out is gone.
UndisturbedMergesKeep ==
    [][\/ row'.pack = row.pack
       \/ \E w \in Messages \cup Refreshes :
             Holds(w) /\ ~ Holds(w)' /\ (PackKept(w) \/ Overtaken(w))]_vars

\* The candidate is asked a question once, however the stage moves and whatever the AI
\* lists as missing, unless a job asked from an old pack or an old pack was put back.
QuestionsAskedOnce == \A k \in Keys : hist.asked[k] <= 1 + hist.lost

\* An open question is one the candidate's row does not answer, or its message has still
\* to get there, or the answer was passed over: the AI failed on the message that held
\* it, an old pack was written over it, the list of missing fields was wrong, or another
\* job noted it between the two reads of the job that asked.
OpenQuestionsUnanswered ==
    \A k \in OpenOnes(row.pack.questions) \cap KeysOf(profile) :
        \/ k \in hist.missed
        \/ \E m \in Messages : /\ writer[m].pc \in {"learned", "known", "write"}
                               /\ k \in KeysOf(writer[m].learned)

\* The row after another call in situation s, and a contact who has been silent for long:
\* the rule counts his follow-up from now whenever it is called.
After(read, s) == Written(Computed(read, profile, s))

Silent(read, s) == read.stage = "DORMANT" /\ ~ s.pending /\ today - last >= DormantAfter

\* The next call leaves stage and data alone; it writes nothing, or nothing but another
\* time of the follow-up of a silent contact.
Settled(read, s) ==
    LET next == Computed(read, profile, s)
    IN  Written(next) = read /\ (next = read \/ Silent(read, s))

\* Applying the state machine again to its own result comes to rest: within three calls
\* in one situation, on one day, the stage and the data no longer move and nothing is
\* written, but for the follow-up of a silent contact, which every call puts off.
StagesConverge ==
    \A s \in Situations :
        LET here  == [stage |-> row.stage, data |-> row.data]
            one   == After(here, s)
            two   == After(one, s)
            three == After(two, s)
        IN  Settled(here, s) \/ Settled(one, s) \/ Settled(two, s) \/ Settled(three, s)
=============================================================================

---------------------------- MODULE ProgressRules ----------------------------
(***************************************************************************)
(* How far a contact has come.  The program decides it in two places, by   *)
(* two sets of rules: computeNextProgressState after a CSCS result or a    *)
(* change of the job pipeline, and determineProgressStage, which corrects  *)
(* the stage the AI suggests after a message or on an operator's request.  *)
(*                                                                         *)
(* Wording is left out: of the next action only what it speaks of is kept, *)
(* and nothing of the reason of a stage.                                   *)
(***************************************************************************)
EXTENDS Integers, Sequences

CONSTANTS None,           \* a null column, a date that is not set
          DormantAfter    \* days without a message that make a contact dormant (30)

ASSUME DormantAssumption == DormantAfter \in Nat \ {0}

Stages == {"NEW", "PROFILE_INCOMPLETE", "LOOKING_FOR_WORK", "MATCHED_TO_JOBS", "DOCS_NEEDED",
           "CSCS_VERIFICATION", "READY_TO_PLACE", "PLACED", "AFTERCARE", "DORMANT", "CLOSED"}

RequiredFields == {"desiredRole", "location", "availability"}

\* What the candidate's row may tell; no row tells nothing.
Fields == RequiredFields \cup {"salary"}

Flags == {"waitingForOperator", "needsFollowUp", "highPriority"}

\* What a next action speaks of; one that speaks of nothing is null.
Words == Fields \cup {"approval", "engage", "find", "profile", "send", "interest", "card", "result",
                      "start", "aftercare", "other"}

\* The progressData column: missing fields ("card": the CSCS card), the time of the next
\* follow-up, the next action, the flags that are set.  A rule may set the time anew, a day
\* from the call: "now" is unlike any time a row holds, and is "set" once it is written.
DataWith(times) == [stored : BOOLEAN, missing : SUBSET (Fields \cup {"card"}), followUp : times,
                    action : SUBSET Words, flags : SUBSET Flags]

Data == DataWith({"none", "set"})

\* The column is null.
NoData == [stored |-> FALSE, missing |-> {}, followUp |-> "none", action |-> {}, flags |-> {}]

\* What the rules look at apart from the row: open tasks, the placement, the intent
\* and whether jobs match.  No caller passes a placement that is not confirmed.
Contexts == [pending : BOOLEAN, cscs : BOOLEAN, followUp : BOOLEAN, matched : BOOLEAN,
             placement : {"none", "cancelled", "future", "started"},
             intent : {"none", "LOOKING_FOR_WORK", "AVAILABILITY_UPDATE"}]

Progress(stage, missing, followUp, action, flags) ==
    [stage |-> stage, data |-> [stored |-> TRUE, missing |-> missing, followUp |-> followUp,
                                action |-> action, flags |-> flags]]

\* The stage and the data as the row holds them after the write.
Written(progress) ==
    [progress EXCEPT !.data.followUp = IF @ = "now" THEN "set" ELSE @]

\* The result of the first rule that applies; the last one always does.
FirstOf(rules) ==
    LET applying == {i \in DOMAIN rules : rules[i].when}
    IN  rules[CHOOSE i \in applying : \A j \in applying : i <= j].gives

Rule(when, gives) == [when |-> when, gives |-> gives]

-----------------------------------------------------------------------------
(* computeNextProgressState.                                               *)

\* Nothing applies: the stage stays, and with it what the row says.
DefaultProgress(stage, data, profile, context, flags) ==
    LET next == IF stage = "NEW" /\ RequiredFields \subseteq profile THEN "LOOKING_FOR_WORK" ELSE stage
        due  == IF ~ context.pending /\ context.followUp THEN {"needsFollowUp"} ELSE {}
    IN  IF next = stage THEN Progress(stage, data.missing, data.followUp, data.action, flags \cup due)
        ELSE Progress(next, {}, "none", {"find"}, flags \cup due)

\* A matched contact stays matched, any other one is matched again.
BuggyMatchedStage(stage, profile, context) ==
    CASE ~ context.matched                                   -> "none"
      [] context.matched /\ stage # "MATCHED_TO_JOBS"        -> "MATCHED_TO_JOBS"
      [] context.matched /\ stage = "MATCHED_TO_JOBS"        -> "READY_TO_PLACE"

\* Rules 5 and 7: to what matching jobs lead.  Rule 0 may just have made a new contact
\* with a complete profile one that looks for work.
MatchedStage(stage, profile, context) ==
    LET complete == RequiredFields \subseteq profile
        looking  == \/ stage = "LOOKING_FOR_WORK"
                    \/ stage = "NEW" /\ context.pending /\ complete
    IN  FirstOf(<<
            Rule(~ context.matched, "none"),
            Rule(looking, "MATCHED_TO_JOBS"),
            Rule(complete /\ ~ context.pending /\ ~ context.cscs, "READY_TO_PLACE"),
            Rule(TRUE, "none") >>)

\* Rules 0 to 2: a task that waits for the operator, a placement that is off, a closed
\* conversation, a silent contact.  The second and the last count the follow-up from now.
HoldingRules(stage, data, idle, context, flags) == <<
    Rule(context.pending /\ stage # "NEW",
         Progress(stage, data.missing, data.followUp, {"approval"}, flags)),
    Rule(context.placement = "cancelled" /\ stage = "PLACED",
         Progress("LOOKING_FOR_WORK", {}, "now", {"engage", "find"},
                  (flags \ {"waitingForOperator"}) \cup {"needsFollowUp"})),
    Rule(stage = "CLOSED", Progress("CLOSED", {}, "none", {}, flags)),
    Rule(idle >= DormantAfter,
         Progress("DORMANT", {}, "now", IF context.pending THEN {"approval"} ELSE {},
                  flags \cup {"needsFollowUp"})) >>

\* Rules 3 and 4: what the profile lacks, and what the contact asked for.
ProfileRules(stage, profile, context, flags) ==
    LET missing == RequiredFields \ profile IN <<
    Rule(missing # {} /\ stage # "DORMANT", Progress("PROFILE_INCOMPLETE", missing, "none", missing, flags)),
    Rule(missing = {} /\ context.intent # "none",
         Progress("LOOKING_FOR_WORK", {"salary"} \ profile, "none", {"send"} \cup ({"salary"} \ profile), flags)) >>

\* Rules 5 to 7: jobs that match, and the card in between.
MatchRules(match, context, urgent) == <<
    Rule(match = "MATCHED_TO_JOBS", Progress(match, {}, "none", {"interest"}, urgent)),
    Rule(context.cscs, Progress("CSCS_VERIFICATION", {"card"}, "none", {"card", "result"},
                                urgent \cup {"waitingForOperator"})),
    Rule(match = "READY_TO_PLACE", Progress(match, {}, "none", {"start"}, urgent)) >>

\* Rule 8: the flags are taken back here only, and where a placement is off.
PlacementRules(context, flags) == <<
    Rule(context.placement = "started", Progress("AFTERCARE", {}, "none", {"aftercare"}, flags)),
    Rule(context.placement = "future",
         Progress("PLACED", {}, "none", {"aftercare"}, flags \ {"highPriority", "waitingForOperator"})) >>

\* What follows on stage and data, idle days after the last message.
computeNextProgressState(stage, data, profile, idle, context) ==
    LET flags == data.flags \cup (IF context.pending THEN {"waitingForOperator"} ELSE {})
    IN FirstOf(HoldingRules(stage, data, idle, context, flags)
               \o ProfileRules(stage, profile, context, flags)
               \o MatchRules(MatchedStage(stage, profile, context), context,
                             flags \cup {"highPriority"})
               \o PlacementRules(context, flags)
               \o <<Rule(TRUE, DefaultProgress(stage, data, profile, context, flags))>>)

-----------------------------------------------------------------------------
(* determineProgressStage and what becomes of the AI's answer.             *)

\* What the engine is told.  After a message that is the profile alone; on an
\* operator's request the last message is known too, and with it the rules after the
\* fourth are never reached.
EngineInput(known, idle, cscs, pending, profile) ==
    [known |-> known, dormant |-> idle > DormantAfter, cscs |-> cscs, pending |-> pending,
     profile |-> profile]

\* A question's key among the missing fields.
BuggyProgressStage(suggested, input) ==
    IF input.cscs THEN [stage |-> "CSCS_VERIFICATION", missing |-> {"CSCS_PHOTO"}, action |-> {"card"}]
    ELSE [stage |-> suggested, missing |-> None, action |-> {}]

\* The stage, and the missing fields and the next action when a rule sets them.
determineProgressStage(suggested, input) ==
    LET missing == {"desiredRole", "location"} \ input.profile
    IN FirstOf(<<
        Rule(input.cscs, [stage |-> "CSCS_VERIFICATION", missing |-> {"card"}, action |-> {"card"}]),
        Rule(input.known, [stage |-> IF input.dormant THEN "DORMANT" ELSE suggested, missing |-> None,
                           action |-> IF input.dormant THEN {"engage"} ELSE {}]),
        Rule(missing # {}, [stage |-> "PROFILE_INCOMPLETE", missing |-> missing, action |-> {"profile"}]),
        Rule(TRUE, [stage |-> suggested, missing |-> None, action |-> {}]) >>)

UrgentStages == {"CSCS_VERIFICATION", "READY_TO_PLACE", "MATCHED_TO_JOBS"}

\* An answer of the AI about the progress: None, or an action of no words, for what it
\* leaves out; whether it names a follow-up; the flags it mentions, and those it sets.
Suggestions == [stage : Stages, missing : (SUBSET (Fields \cup {"card"})) \cup {None},
                followUp : BOOLEAN, action : SUBSET Words,
                mentions : SUBSET {"waitingForOperator", "highPriority"}, sets : SUBSET Flags]

\* The flags of the engine take the place of the AI's when it sets any.
FlagsPatch(suggestion, stage, input) ==
    LET engine == (IF input.pending THEN {"waitingForOperator"} ELSE {})
                  \cup (IF stage \in UrgentStages THEN {"highPriority"} ELSE {})
    IN  IF engine # {} THEN [mentions |-> engine, sets |-> engine]
        ELSE [mentions |-> suggestion.mentions, sets |-> suggestion.sets]

\* mergeNonNull: what the patch leaves out stays.
MergedProgress(data, suggestion, input) ==
    LET engine  == determineProgressStage(suggestion.stage, input)
        patch   == FlagsPatch(suggestion, engine.stage, input)
        missing == IF engine.missing # None THEN engine.missing ELSE suggestion.missing
        action  == IF engine.action # {} THEN engine.action ELSE suggestion.action
    IN  Progress(engine.stage,
                 IF missing # None THEN missing ELSE data.missing,
                 IF suggestion.followUp THEN "set" ELSE data.followUp,
                 IF action # {} THEN action ELSE data.action,
                 (data.flags \ patch.mentions) \cup (patch.sets \cap patch.mentions))

-----------------------------------------------------------------------------
(* getRequiredQuestionsFromProgress.                                       *)

Keys == {"LOCATION", "AVAILABILITY", "ROLE", "SALARY", "CSCS_PHOTO"}

KeyOf == [location |-> "LOCATION", availability |-> "AVAILABILITY", desiredRole |-> "ROLE",
          salary |-> "SALARY", card |-> "CSCS_PHOTO"]

KeysOf(fields) == {KeyOf[f] : f \in fields}

\* The questions a stage asks.  A missing card counts in the other stages only, a
\* missing salary only while the profile is incomplete.
RequiredQuestions(stage, missing, profile) ==
    CASE stage = "PROFILE_INCOMPLETE" -> KeysOf((missing \ {"card"}) \cup (RequiredFields \ profile))
      [] stage = "LOOKING_FOR_WORK"   -> KeysOf(RequiredFields \ profile)
      [] stage \in {"DOCS_NEEDED", "CSCS_VERIFICATION"} -> {"CSCS_PHOTO"}
      [] OTHER -> KeysOf(missing \cap {"card"})
=============================================================================

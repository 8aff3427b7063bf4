----------------------- MODULE ConversationMemoryProofs -----------------------
(***************************************************************************)
(* Proofs about ConversationMemory: types; what is lost from a memory pack *)
(* and how; that a question is asked once; that an open question has no    *)
(* answer in the candidate's row; and that the stages of a conversation    *)
(* come to rest.  And, with what that takes of the rules, about the        *)
(* requests that move the stage by them, ProgressUpdates, an instance.     *)
(***************************************************************************)
EXTENDS StageUpdates, WellFoundedInduction, TLAPS

-----------------------------------------------------------------------------
(* The rules.                                                              *)

ProgressTypes == [stage : Stages, data : Data]

\* What the rules give: the follow-up may be counted from now.
Times == {"none", "set", "now"}

ResultTypes == [stage : Stages, data : DataWith(Times)]

\* A set of indices has a first one.
LEMMA FirstExists ==
    ASSUME NEW T \in SUBSET Nat, T # {}
    PROVE  \E i \in T : \A j \in T : i <= j
<1> DEFINE R == OpToRel(<, Nat)
<1>1. IsWellFoundedOn(R, Nat)
  BY NatLessThanWellFounded, Zenon
<1>2. R = {ss \in Nat \X Nat : ss[1] < ss[2]}
  BY Zenon DEF OpToRel
<1> HIDE DEF R
<1>3. PICK i \in T : \A j \in T : <<j, i>> \notin R
  BY <1>1, WFMin
<1>4. \A j \in T : ~ (j < i)
  BY <1>2, <1>3
<1> QED
  BY <1>3, <1>4

\* A rule that gives one of S when it applies.
RuleOf(S, T) == {rule \in [when : BOOLEAN, gives : T] : rule.when => rule.gives \in S}

LEMMA RuleIsRule ==
    ASSUME NEW S, NEW T, NEW when \in BOOLEAN, NEW x \in T, when => x \in S
    PROVE  /\ Rule(when, x) \in RuleOf(S, T)
           /\ Rule(when, x).gives = x
           /\ Rule(when, x).when = when
BY DEF Rule, RuleOf

\* When some rule applies, what is given is what a rule gives.
LEMMA FirstOfGives ==
    ASSUME NEW S, NEW T, NEW rules \in Seq(RuleOf(S, T)), NEW k \in DOMAIN rules, rules[k].when
    PROVE  FirstOf(rules) \in S
<1> DEFINE applying == {i \in DOMAIN rules : rules[i].when}
           first == CHOOSE i \in applying : \A j \in applying : i <= j
<1>1. applying \in SUBSET Nat /\ k \in applying
  OBVIOUS
<1>2. \E i \in applying : \A j \in applying : i <= j
  BY <1>1, FirstExists
<1>3. first \in DOMAIN rules /\ rules[first].when
  BY <1>2
<1>4. FirstOf(rules) = rules[first].gives
  BY DEF FirstOf
<1> HIDE DEF first
<1>5. rules[first] \in RuleOf(S, T)
  BY <1>3
<1>6. \A rule \in RuleOf(S, T) : rule.when => rule.gives \in S
  BY DEF RuleOf
<1> QED
  BY <1>3, <1>4, <1>5, <1>6

LEMMA Appended ==
    ASSUME NEW R, NEW rules \in Seq(R), NEW x \in R
    PROVE  /\ rules \o <<x>> \in Seq(R)
           /\ Len(rules) + 1 \in DOMAIN (rules \o <<x>>)
           /\ (rules \o <<x>>)[Len(rules) + 1] = x
OBVIOUS

\* The rules up to the one that always applies.
LEMMA LastApplies ==
    ASSUME NEW S, NEW T, NEW rules \in Seq(RuleOf(S, T)), NEW x \in S, x \in T
    PROVE  FirstOf(rules \o <<Rule(TRUE, x)>>) \in S
<1>1. PICK rule \in RuleOf(S, T) : rule = Rule(TRUE, x) /\ rule.when
  BY RuleIsRule
<1>2. FirstOf(rules \o <<rule>>) \in S
  BY <1>1, Appended, FirstOfGives
<1> QED
  BY <1>1, <1>2

LEMMA Sequences ==
    ASSUME NEW R
    PROVE  /\ \A a \in R : <<a>> \in Seq(R)
           /\ \A a, b \in R : <<a, b>> \in Seq(R)
           /\ \A a, b, c \in R : <<a, b, c>> \in Seq(R)
           /\ \A a, b, c, d \in R : <<a, b, c, d>> \in Seq(R)
           /\ \A s, t \in Seq(R) : s \o t \in Seq(R)
OBVIOUS

LEMMA ProgressIsProgress ==
    ASSUME NEW times, NEW stage \in Stages, NEW missing \in SUBSET (Fields \cup {"card"}),
           NEW followUp \in times, NEW action \in SUBSET Words, NEW flags \in SUBSET Flags
    PROVE  Progress(stage, missing, followUp, action, flags) \in [stage : Stages, data : DataWith(times)]
BY DEF Progress, DataWith

\* What is written is a row.
LEMMA WrittenTypes ==
    ASSUME NEW result \in ResultTypes
    PROVE  /\ Written(result) \in ProgressTypes
           /\ Written(result).stage = result.stage
           /\ Written(result).data \in Data
<1>1. PICK data \in DataWith(Times) : result = [stage |-> result.stage, data |-> data] /\ data = result.data
  BY DEF ResultTypes
<1>2. result.stage \in Stages
  BY DEF ResultTypes
<1> DEFINE held == [data EXCEPT !.followUp = IF data.followUp = "now" THEN "set" ELSE data.followUp]
<1>3. held \in Data
  BY DEF Data, DataWith, Times
<1>4. Written(result) = [stage |-> result.stage, data |-> held]
  BY <1>1 DEF Written, DataWith
<1> QED
  BY <1>2, <1>3, <1>4 DEF ProgressTypes

MissingFields == SUBSET (Fields \cup {"card"})

LEMMA MissingTypes ==
    ASSUME NEW told
    PROVE  /\ RequiredFields \ told \in MissingFields /\ {"salary"} \ told \in MissingFields
           /\ {} \in MissingFields /\ {"card"} \in MissingFields
           /\ {"desiredRole", "location"} \ told \in MissingFields
BY DEF MissingFields, Fields, RequiredFields

LEMMA ActionTypes ==
    ASSUME NEW told
    PROVE  /\ RequiredFields \ told \in SUBSET Words /\ {"salary"} \ told \in SUBSET Words
           /\ {"send"} \cup ({"salary"} \ told) \in SUBSET Words
           /\ {} \in SUBSET Words /\ {"approval"} \in SUBSET Words /\ {"engage", "find"} \in SUBSET Words
           /\ {"find"} \in SUBSET Words /\ {"interest"} \in SUBSET Words
           /\ {"card", "result"} \in SUBSET Words /\ {"start"} \in SUBSET Words
           /\ {"aftercare"} \in SUBSET Words /\ {"card"} \in SUBSET Words
           /\ {"engage"} \in SUBSET Words /\ {"profile"} \in SUBSET Words
BY DEF Words, Fields, RequiredFields

LEMMA MatchedStageTypes ==
    ASSUME NEW stage, NEW fields, NEW s, s.matched \in BOOLEAN, s.pending \in BOOLEAN, s.cscs \in BOOLEAN
    PROVE  MatchedStage(stage, fields, s) \in {"none", "MATCHED_TO_JOBS", "READY_TO_PLACE"}
<1> DEFINE S == {"none", "MATCHED_TO_JOBS", "READY_TO_PLACE"}
           complete == RequiredFields \subseteq fields
           looking == \/ stage = "LOOKING_FOR_WORK"
                      \/ stage = "NEW" /\ s.pending /\ complete
<1>1. complete \in BOOLEAN /\ looking \in BOOLEAN /\ (~ s.matched) \in BOOLEAN
      /\ (complete /\ ~ s.pending /\ ~ s.cscs) \in BOOLEAN
  OBVIOUS
<1> HIDE DEF complete, looking
<1>2. PICK r1 \in RuleOf(S, S) : r1 = Rule(~ s.matched, "none")
  BY <1>1, RuleIsRule
<1>3. PICK r2 \in RuleOf(S, S) : r2 = Rule(looking, "MATCHED_TO_JOBS")
  BY <1>1, RuleIsRule
<1>4. PICK r3 \in RuleOf(S, S) : r3 = Rule(complete /\ ~ s.pending /\ ~ s.cscs, "READY_TO_PLACE")
  BY <1>1, RuleIsRule
<1>5. PICK r4 \in RuleOf(S, S) : r4 = Rule(TRUE, "none") /\ r4.when
  BY RuleIsRule
<1>6. MatchedStage(stage, fields, s) = FirstOf(<<r1, r2, r3, r4>>)
  BY <1>2, <1>3, <1>4, <1>5 DEF MatchedStage, complete, looking
<1>7. <<r1, r2, r3, r4>> \in Seq(RuleOf(S, S)) /\ 4 \in DOMAIN <<r1, r2, r3, r4>> /\ <<r1, r2, r3, r4>>[4] = r4
  BY Sequences
<1> QED
  BY <1>5, <1>6, <1>7, FirstOfGives

\* The rules give a stage and data.
LEMMA ComputedTypes ==
    ASSUME NEW stage \in Stages, NEW data \in Data, NEW fields, NEW idle \in Int, NEW s \in Contexts
    PROVE  computeNextProgressState(stage, data, fields, idle, s) \in ResultTypes
<1> DEFINE T == [stage : Stages \cup {"none"}, data : DataWith(Times)]
           R == RuleOf(ResultTypes, T)
           flags == data.flags \cup (IF s.pending THEN {"waitingForOperator"} ELSE {})
           match == MatchedStage(stage, fields, s)
           urgent == flags \cup {"highPriority"}
<1>1. /\ data.missing \in MissingFields /\ data.followUp \in Times /\ data.flags \in SUBSET Flags
      /\ data.action \in SUBSET Words
      /\ s.pending \in BOOLEAN /\ s.cscs \in BOOLEAN /\ s.followUp \in BOOLEAN /\ s.matched \in BOOLEAN
  BY DEF Data, DataWith, Times, Contexts, MissingFields
<1>2. flags \in SUBSET Flags /\ urgent \in SUBSET Flags
  BY <1>1 DEF Flags
<1>3. ASSUME NEW st \in Stages, NEW missing \in MissingFields, NEW f \in Times,
             NEW a \in SUBSET Words, NEW fl \in SUBSET Flags
      PROVE  Progress(st, missing, f, a, fl) \in ResultTypes
  BY ProgressIsProgress DEF MissingFields, ResultTypes
<1>4. /\ {"LOOKING_FOR_WORK", "CLOSED", "DORMANT", "PROFILE_INCOMPLETE", "CSCS_VERIFICATION", "AFTERCARE", "PLACED"}
         \subseteq Stages
      /\ "none" \in Times /\ "now" \in Times
  BY DEF Stages, Times
<1>8. ResultTypes \subseteq T
  BY DEF ResultTypes
<1>9. match \in {"none", "MATCHED_TO_JOBS", "READY_TO_PLACE"}
  BY <1>1, MatchedStageTypes DEF match
<1> HIDE DEF flags, urgent, match
<1>5. HoldingRules(stage, data, idle, s, flags) \in Seq(R)
  <2>1. PICK p1 \in ResultTypes : p1 = Progress(stage, data.missing, data.followUp, {"approval"}, flags)
    BY <1>1, <1>2, <1>3, ActionTypes
  <2>2. PICK p2 \in ResultTypes :
          p2 = Progress("LOOKING_FOR_WORK", {}, "now", {"engage", "find"},
                        (flags \ {"waitingForOperator"}) \cup {"needsFollowUp"})
    <3>1. (flags \ {"waitingForOperator"}) \cup {"needsFollowUp"} \in SUBSET Flags
      BY <1>2 DEF Flags
    <3> QED
      BY <1>3, <1>4, <3>1, MissingTypes, ActionTypes
  <2>3. PICK p3 \in ResultTypes : p3 = Progress("CLOSED", {}, "none", {}, flags)
    BY <1>2, <1>3, <1>4, MissingTypes, ActionTypes
  <2>4. PICK p4 \in ResultTypes : p4 = Progress("DORMANT", {}, "now", IF s.pending THEN {"approval"} ELSE {},
                                                         flags \cup {"needsFollowUp"})
    <3>1. flags \cup {"needsFollowUp"} \in SUBSET Flags
      BY <1>2 DEF Flags
    <3>2. (IF s.pending THEN {"approval"} ELSE {}) \in SUBSET Words
      BY ActionTypes
    <3> QED
      BY <1>3, <1>4, <3>1, <3>2, MissingTypes
  <2>5. PICK r1 \in R : r1 = Rule(s.pending /\ stage # "NEW", p1)
    BY <1>8, RuleIsRule
  <2>6. PICK r2 \in R : r2 = Rule(s.placement = "cancelled" /\ stage = "PLACED", p2)
    BY <1>8, RuleIsRule
  <2>7. PICK r3 \in R : r3 = Rule(stage = "CLOSED", p3)
    BY <1>8, RuleIsRule
  <2>8. PICK r4 \in R : r4 = Rule(idle >= DormantAfter, p4)
    <3>1. (idle >= DormantAfter) \in BOOLEAN
      BY DormantAssumption
    <3> QED
      BY <1>8, <3>1, RuleIsRule
  <2>9. HoldingRules(stage, data, idle, s, flags) = <<r1, r2, r3, r4>>
    BY <2>1, <2>2, <2>3, <2>4, <2>5, <2>6, <2>7, <2>8 DEF HoldingRules
  <2> HIDE DEF R
  <2> QED
    BY <2>9, Sequences
<1>6. ProfileRules(stage, fields, s, flags) \in Seq(R)
  <2> DEFINE missing == RequiredFields \ fields
  <2>1. PICK p1 \in ResultTypes : p1 = Progress("PROFILE_INCOMPLETE", missing, "none", missing, flags)
    BY <1>2, <1>3, <1>4, MissingTypes, ActionTypes
  <2>2. PICK p2 \in ResultTypes : 
          p2 = Progress("LOOKING_FOR_WORK", {"salary"} \ fields, "none", {"send"} \cup ({"salary"} \ fields), flags)
    BY <1>2, <1>3, <1>4, MissingTypes, ActionTypes
  <2>3. PICK r1 \in R : r1 = Rule(missing # {} /\ stage # "DORMANT", p1)
    BY <1>8, RuleIsRule
  <2>4. PICK r2 \in R : r2 = Rule(missing = {} /\ s.intent # "none", p2)
    BY <1>8, RuleIsRule
  <2>5. ProfileRules(stage, fields, s, flags) = <<r1, r2>>
    BY <2>1, <2>2, <2>3, <2>4 DEF ProfileRules
  <2> HIDE DEF R
  <2> QED
    BY <2>5, Sequences
<1>7. MatchRules(match, s, urgent) \in Seq(R)
  <2>7. ASSUME NEW act \in SUBSET Words
        PROVE  /\ Progress(match, {}, "none", act, urgent) \in T
               /\ match # "none" => Progress(match, {}, "none", act, urgent) \in ResultTypes
    <3> DEFINE data2 == [stored |-> TRUE, missing |-> {}, followUp |-> "none", action |-> act, flags |-> urgent]
    <3>1. Progress(match, {}, "none", act, urgent) = [stage |-> match, data |-> data2]
      BY DEF Progress
    <3>2. data2 \in DataWith(Times)
      BY <1>2, <1>4 DEF DataWith
    <3>3. /\ match \in Stages \cup {"none"}
          /\ match # "none" => match \in Stages
      BY <1>9 DEF Stages
    <3> HIDE DEF data2
    <3>5. [stage |-> match, data |-> data2] \in T
      BY <3>2, <3>3
    <3>6. match # "none" => [stage |-> match, data |-> data2] \in ResultTypes
      BY <3>2, <3>3 DEF ResultTypes
    <3> QED
      BY <3>1, <3>5, <3>6
  <2>1. PICK p1 \in T : /\ p1 = Progress(match, {}, "none", {"interest"}, urgent)
                        /\ match # "none" => p1 \in ResultTypes
    BY <2>7, ActionTypes
  <2>8. PICK p3 \in T : /\ p3 = Progress(match, {}, "none", {"start"}, urgent)
                        /\ match # "none" => p3 \in ResultTypes
    BY <2>7, ActionTypes
  <2>2. PICK p2 \in ResultTypes :
          p2 = Progress("CSCS_VERIFICATION", {"card"}, "none", {"card", "result"}, urgent \cup {"waitingForOperator"})
    <3>1. urgent \cup {"waitingForOperator"} \in SUBSET Flags
      BY <1>2 DEF Flags
    <3> QED
      BY <1>3, <1>4, <3>1, MissingTypes, ActionTypes
  <2>3. PICK r1 \in R : r1 = Rule(match = "MATCHED_TO_JOBS", p1)
    BY <2>1, RuleIsRule
  <2>4. PICK r2 \in R : r2 = Rule(s.cscs, p2)
    BY <1>1, <1>8, RuleIsRule
  <2>5. PICK r3 \in R : r3 = Rule(match = "READY_TO_PLACE", p3)
    BY <2>8, RuleIsRule
  <2>6. MatchRules(match, s, urgent) = <<r1, r2, r3>>
    BY <2>1, <2>2, <2>3, <2>4, <2>5, <2>8 DEF MatchRules
  <2> HIDE DEF R
  <2> QED
    BY <2>6, Sequences
<1>10. PlacementRules(s, flags) \in Seq(R)
  <2>1. PICK p1 \in ResultTypes : p1 = Progress("AFTERCARE", {}, "none", {"aftercare"}, flags)
    BY <1>2, <1>3, <1>4, MissingTypes, ActionTypes
  <2>2. PICK p2 \in ResultTypes :
          p2 = Progress("PLACED", {}, "none", {"aftercare"}, flags \ {"highPriority", "waitingForOperator"})
    <3>1. flags \ {"highPriority", "waitingForOperator"} \in SUBSET Flags
      BY <1>2
    <3> QED
      BY <1>3, <1>4, <3>1, MissingTypes, ActionTypes
  <2>3. PICK r1 \in R : r1 = Rule(s.placement = "started", p1)
    BY <1>8, RuleIsRule
  <2>4. PICK r2 \in R : r2 = Rule(s.placement = "future", p2)
    BY <1>8, RuleIsRule
  <2>5. PlacementRules(s, flags) = <<r1, r2>>
    BY <2>1, <2>2, <2>3, <2>4 DEF PlacementRules
  <2> HIDE DEF R
  <2> QED
    BY <2>5, Sequences
<1>11. DefaultProgress(stage, data, fields, s, flags) \in ResultTypes
  <2> DEFINE next == IF stage = "NEW" /\ RequiredFields \subseteq fields THEN "LOOKING_FOR_WORK" ELSE stage
             due == IF ~ s.pending /\ s.followUp THEN {"needsFollowUp"} ELSE {}
  <2>1. next \in Stages /\ flags \cup due \in SUBSET Flags
    BY <1>2 DEF Stages, Flags
  <2> HIDE DEF next, due
  <2>2. DefaultProgress(stage, data, fields, s, flags) =
          IF next = stage THEN Progress(stage, data.missing, data.followUp, data.action, flags \cup due)
          ELSE Progress(next, {}, "none", {"find"}, flags \cup due)
    BY DEF DefaultProgress, next, due
  <2>3. /\ Progress(stage, data.missing, data.followUp, data.action, flags \cup due) \in ResultTypes
        /\ Progress(next, {}, "none", {"find"}, flags \cup due) \in ResultTypes
    BY <1>1, <1>3, <1>4, <2>1, MissingTypes, ActionTypes
  <2> QED
    BY <2>2, <2>3
<1> DEFINE rules == HoldingRules(stage, data, idle, s, flags) \o ProfileRules(stage, fields, s, flags)
                    \o MatchRules(match, s, urgent) \o PlacementRules(s, flags)
<1>12. rules \in Seq(R)
  <2> HIDE DEF R
  <2> QED
    BY <1>5, <1>6, <1>7, <1>10, Sequences
<1>13. computeNextProgressState(stage, data, fields, idle, s)
         = FirstOf(rules \o <<Rule(TRUE, DefaultProgress(stage, data, fields, s, flags))>>)
  BY DEF computeNextProgressState, flags, match, urgent
<1> HIDE DEF rules, T
<1>14. PICK x \in ResultTypes : x = DefaultProgress(stage, data, fields, s, flags)
  BY <1>11
<1>15. FirstOf(rules \o <<Rule(TRUE, x)>>) \in ResultTypes
  BY <1>8, <1>12, LastApplies
<1> QED
  BY <1>13, <1>14, <1>15
LEMMA EngineTypes ==
    ASSUME NEW suggested \in Stages, NEW input \in Inputs
    PROVE  determineProgressStage(suggested, input)
             \in [stage : Stages, missing : MissingFields \cup {None}, action : SUBSET Words]
<1> DEFINE S == [stage : Stages, missing : MissingFields \cup {None}, action : SUBSET Words]
           missing == {"desiredRole", "location"} \ input.profile
           At(st, m, a) == [stage |-> st, missing |-> m, action |-> a]
<1>1. ASSUME NEW st \in Stages, NEW m \in MissingFields \cup {None}, NEW a \in SUBSET Words
      PROVE  At(st, m, a) \in S
  OBVIOUS
<1>2. missing \in MissingFields /\ {"card"} \in MissingFields
  BY MissingTypes
<1>3. /\ input.known \in BOOLEAN /\ input.cscs \in BOOLEAN
      /\ "CSCS_VERIFICATION" \in Stages /\ "PROFILE_INCOMPLETE" \in Stages
      /\ (IF input.dormant THEN "DORMANT" ELSE suggested) \in Stages
      /\ (IF input.dormant THEN {"engage"} ELSE {}) \in SUBSET Words
  BY ActionTypes DEF Inputs, Stages
<1>4. (missing # {}) \in BOOLEAN
  OBVIOUS
<1> HIDE DEF missing, S, At
<1>5. PICK r1 \in RuleOf(S, S) : r1 = Rule(input.cscs, At("CSCS_VERIFICATION", {"card"}, {"card"}))
  BY <1>1, <1>2, <1>3, ActionTypes, RuleIsRule
<1>6. PICK r2 \in RuleOf(S, S) :
        r2 = Rule(input.known, At(IF input.dormant THEN "DORMANT" ELSE suggested, None,
                               IF input.dormant THEN {"engage"} ELSE {}))
  BY <1>1, <1>3, RuleIsRule
<1>7. PICK r3 \in RuleOf(S, S) : r3 = Rule(missing # {}, At("PROFILE_INCOMPLETE", missing, {"profile"}))
  BY <1>1, <1>2, <1>3, <1>4, ActionTypes, RuleIsRule
<1>8. PICK r4 \in RuleOf(S, S) : r4 = Rule(TRUE, At(suggested, None, {})) /\ r4.when
  BY <1>1, ActionTypes, RuleIsRule
<1>9. determineProgressStage(suggested, input) = FirstOf(<<r1, r2, r3, r4>>)
  BY <1>5, <1>6, <1>7, <1>8 DEF determineProgressStage, missing, At
<1>10. <<r1, r2, r3, r4>> \in Seq(RuleOf(S, S)) /\ 4 \in DOMAIN <<r1, r2, r3, r4>> /\ <<r1, r2, r3, r4>>[4] = r4
  BY Sequences
<1>11. FirstOf(<<r1, r2, r3, r4>>) \in S
  BY <1>8, <1>10, FirstOfGives
<1> QED
  BY <1>9, <1>11 DEF S

\* What becomes of an answer of the AI is a stage and data.
LEMMA MergedTypes ==
    ASSUME NEW data \in Data, NEW suggestion \in Suggestions, NEW input \in Inputs
    PROVE  MergedProgress(data, suggestion, input) \in ProgressTypes
<1> DEFINE engine == determineProgressStage(suggestion.stage, input)
           patch == FlagsPatch(suggestion, engine.stage, input)
           missing == IF engine.missing # None THEN engine.missing ELSE suggestion.missing
           action == IF engine.action # {} THEN engine.action ELSE suggestion.action
           flags == (data.flags \ patch.mentions) \cup (patch.sets \cap patch.mentions)
<1>1. /\ suggestion.stage \in Stages /\ suggestion.missing \in MissingFields \cup {None}
      /\ suggestion.followUp \in BOOLEAN /\ suggestion.sets \in SUBSET Flags
      /\ suggestion.action \in SUBSET Words /\ data.action \in SUBSET Words
      /\ data.missing \in MissingFields /\ data.followUp \in {"none", "set"} /\ data.flags \in SUBSET Flags
  BY DEF Suggestions, Data, DataWith, MissingFields
<1>2. /\ engine.stage \in Stages /\ engine.missing \in MissingFields \cup {None}
      /\ engine.action \in SUBSET Words
  <2>1. engine \in [stage : Stages, missing : MissingFields \cup {None}, action : SUBSET Words]
    BY <1>1, EngineTypes
  <2> HIDE DEF engine
  <2> QED
    BY <2>1
<1>3. patch.sets \subseteq Flags
  <2> HIDE DEF engine
  <2> QED
    BY <1>1 DEF FlagsPatch, Flags, UrgentStages
<1> HIDE DEF engine, patch
<1>4. flags \in SUBSET Flags
  BY <1>1, <1>3
<1>5. (IF missing # None THEN missing ELSE data.missing) \in MissingFields
  BY <1>1, <1>2
<1>6. MergedProgress(data, suggestion, input) =
        Progress(engine.stage, IF missing # None THEN missing ELSE data.missing,
                 IF suggestion.followUp THEN "set" ELSE data.followUp,
                 IF action # {} THEN action ELSE data.action, flags)
  BY DEF MergedProgress, engine, patch
<1>9. PICK a \in SUBSET Words : a = IF action # {} THEN action ELSE data.action
  BY <1>1, <1>2
<1> HIDE DEF flags, missing, action
<1>7. PICK m \in SUBSET (Fields \cup {"card"}) : m = IF missing # None THEN missing ELSE data.missing
  BY <1>5 DEF MissingFields
<1>8. PICK f \in {"none", "set"} : f = IF suggestion.followUp THEN "set" ELSE data.followUp
  BY <1>1
<1>10. Progress(engine.stage, m, f, a, flags) \in [stage : Stages, data : DataWith({"none", "set"})]
  BY <1>2, <1>4, ProgressIsProgress
<1> QED
  BY <1>6, <1>7, <1>8, <1>9, <1>10 DEF ProgressTypes, Data

LEMMA KeysAreKeys ==
    ASSUME NEW fields \in SUBSET (Fields \cup {"card"})
    PROVE  KeysOf(fields) \in SUBSET Keys
<1>1. ASSUME NEW f \in Fields \cup {"card"} PROVE KeyOf[f] \in Keys
  <2>1. f \in {"desiredRole", "location", "availability", "salary", "card"}
    BY DEF Fields, RequiredFields
  <2>2. /\ KeyOf["desiredRole"] = "ROLE" /\ KeyOf["location"] = "LOCATION"
        /\ KeyOf["availability"] = "AVAILABILITY" /\ KeyOf["salary"] = "SALARY"
        /\ KeyOf["card"] = "CSCS_PHOTO"
    BY DEF KeyOf
  <2>3. KeyOf[f] \in {"ROLE", "LOCATION", "AVAILABILITY", "SALARY", "CSCS_PHOTO"}
    BY <2>1, <2>2
  <2> QED
    BY <2>3 DEF Keys
<1> QED
  BY <1>1 DEF KeysOf

LEMMA MarkedTypes ==
    ASSUME NEW questions \in [Keys -> QuestionStates], NEW keys, NEW state \in QuestionStates
    PROVE  /\ Marked(questions, keys, state) \in [Keys -> QuestionStates]
           /\ \A k \in Keys : Marked(questions, keys, state)[k] = IF k \in keys THEN state ELSE questions[k]
BY DEF Marked

-----------------------------------------------------------------------------
(* Types.                                                                  *)

WriterTypes == [pc : {"idle", "learned", "known", "write", "done"}, row : Rows, input : Inputs \cup {None},
                learned : SUBSET Fields, passed : SUBSET Keys, overtaken : SUBSET {"pack", "progress"}]

\* Who merges into the pack has asked for an answer with what it was told.
InputsTold ==
    \A w \in Messages \cup Refreshes : writer[w].pc \in {"known", "write"} => writer[w].input \in Inputs

TypeInv == TypeOK /\ InputsTold

LEMMA WritersOfTypeOK ==
    ASSUME TypeOK
    PROVE  /\ writer \in [Writers -> WriterTypes] /\ row \in Rows
           /\ hist \in [asked : [Keys -> Nat], lost : Nat, missed : SUBSET Keys]
           /\ today - last \in Int
BY InputsAssumption DEF TypeOK, WriterTypes

LEMMA EmptyTypes ==
    /\ NewRow \in Rows /\ Idle \in WriterTypes
    /\ \A pc \in {"idle", "learned", "known", "write", "done"} : [Idle EXCEPT !.pc = pc] \in WriterTypes
<1>1. EmptyPack \in Packs
  BY DEF EmptyPack, Packs, QuestionStates
<1>2. NoData \in Data
  BY DEF NoData, Data, DataWith
<1>3. NewRow \in Rows
  BY <1>1, <1>2 DEF NewRow, Rows, Stages
<1>4. Idle \in WriterTypes
  BY <1>3 DEF Idle, WriterTypes
<1> QED
  BY <1>3, <1>4 DEF WriterTypes
-----------------------------------------------------------------------------
(* Writing the row.                                                        *)

\* A writer that is where it was; if it holds the row, parts of it may be old now, and if it
\* knows the candidate, it does not know what was noted.
Disturbed(v, parts, noted) ==
    /\ writer'[v].pc = writer[v].pc /\ writer'[v].row = writer[v].row
    /\ writer'[v].input = writer[v].input /\ writer'[v].learned = writer[v].learned
    /\ writer[v].passed \subseteq writer'[v].passed
    /\ writer[v].overtaken \subseteq writer'[v].overtaken
    /\ writer[v].pc = "write" => writer'[v].overtaken = writer[v].overtaken \cup parts
    /\ writer[v].pc = "known" => noted \subseteq writer'[v].passed

LEMMA AfterWriteFacts ==
    ASSUME TypeOK, NEW w \in Writers, NEW parts \in SUBSET {"pack", "progress"},
           writer' = AfterWrite(w, parts, "done")
    PROVE  /\ writer' \in [Writers -> WriterTypes]
           /\ writer'[w].pc = "done"
           /\ \A v \in Writers \ {w} : Disturbed(v, parts, KeysOf(writer[w].learned))
<1> DEFINE noted == KeysOf(writer[w].learned)
<1>1. writer \in [Writers -> WriterTypes]
  BY WritersOfTypeOK
<1>2. [Idle EXCEPT !.pc = "done"] \in WriterTypes /\ [Idle EXCEPT !.pc = "done"].pc = "done"
  BY EmptyTypes DEF Idle
<1>9. noted \in SUBSET Keys
  BY <1>1, KeysAreKeys DEF WriterTypes
<1> HIDE DEF noted
<1> DEFINE ended == [Idle EXCEPT !.pc = "done"]
           old(q) == [q EXCEPT !.overtaken = @ \cup parts]
           told(q) == [q EXCEPT !.passed = @ \cup noted]
<1>3. ASSUME NEW q \in WriterTypes
      PROVE  /\ old(q) \in WriterTypes
             /\ old(q).pc = q.pc /\ old(q).row = q.row /\ old(q).input = q.input
             /\ old(q).learned = q.learned /\ old(q).passed = q.passed
             /\ old(q).overtaken = q.overtaken \cup parts
  BY DEF WriterTypes
<1>10. ASSUME NEW q \in WriterTypes
       PROVE  /\ told(q) \in WriterTypes
              /\ told(q).pc = q.pc /\ told(q).row = q.row /\ told(q).input = q.input
              /\ told(q).learned = q.learned /\ told(q).overtaken = q.overtaken
              /\ told(q).passed = q.passed \cup noted
  BY <1>9 DEF WriterTypes
<1>4. writer' = [v \in Writers |-> IF v = w THEN ended
                                   ELSE IF Holds(v) THEN old(writer[v])
                                   ELSE IF writer[v].pc = "known" THEN told(writer[v])
                                   ELSE writer[v]]
  BY DEF AfterWrite, noted
<1>5. ended \in WriterTypes /\ ended.pc = "done"
  BY <1>2
<1> HIDE DEF ended, old, told
<1>6. writer' \in [Writers -> WriterTypes]
  BY <1>1, <1>3, <1>4, <1>5, <1>10
<1>7. writer'[w] = ended
  BY <1>4
<1>8. ASSUME NEW v \in Writers \ {w} PROVE Disturbed(v, parts, noted)
  <2>1. writer'[v] = IF Holds(v) THEN old(writer[v])
                     ELSE IF writer[v].pc = "known" THEN told(writer[v]) ELSE writer[v]
    BY <1>4
  <2>2. writer[v] \in WriterTypes
    BY <1>1
  <2>3. CASE Holds(v)
    BY <1>3, <2>1, <2>2, <2>3 DEF Disturbed, Holds
  <2>4. CASE writer[v].pc = "known"
    BY <1>10, <2>1, <2>2, <2>4 DEF Disturbed, Holds
  <2>5. CASE ~ Holds(v) /\ writer[v].pc # "known"
    BY <2>1, <2>5 DEF Disturbed, Holds
  <2> QED
    BY <2>3, <2>4, <2>5
<1> QED
  BY <1>5, <1>6, <1>7, <1>8 DEF noted

\* What w makes of the pack it has read: a value it does not write stays, a question is asked if it was
\* not yet, and a question the message answers does not stay open.
Merges(w, next, asked, missed) ==
    /\ \A v \in Values : next.values[v] \in {writer[w].row.pack.values[v], w}
    /\ \A k \in Keys : next.questions[k] = "none" => writer[w].row.pack.questions[k] = "none"
    /\ \A k \in Keys : k \in asked =>
          writer[w].row.pack.questions[k] = "none" /\ next.questions[k] # "none"
    /\ \A k \in Keys : next.questions[k] = "open" =>
          \/ k \in asked
          \/ /\ writer[w].row.pack.questions[k] = "open"
             /\ w \in Messages => k \notin KeysOf(writer[w].learned)
    /\ w \in Refreshes => asked = {}
    /\ w \in Messages => asked \cap (KeysOf(writer[w].input.profile) \cup writer[w].passed) \subseteq missed
    /\ w \in Messages /\ Overtaken(w) => KeysOf(writer[w].learned) \subseteq missed

LEMMA HeldTypes ==
    ASSUME TypeInv, NEW w \in Messages \cup Refreshes, writer[w].pc = "write"
    PROVE  /\ writer[w] \in WriterTypes /\ writer[w].row.data \in Data
           /\ writer[w].row.pack.values \in [Values -> Messages \cup Refreshes \cup {None}]
           /\ writer[w].row.pack.questions \in [Keys -> QuestionStates]
           /\ writer[w].row.pack \in Packs
           /\ writer[w].input \in Inputs /\ writer[w].learned \in SUBSET Fields
           /\ KeysOf(writer[w].learned) \in SUBSET Keys
           /\ KeysOf(writer[w].input.profile) \in SUBSET Keys
           /\ writer[w].passed \in SUBSET Keys
<1>1. writer[w] \in WriterTypes /\ writer[w].input \in Inputs
  BY WritersOfTypeOK DEF TypeInv, InputsTold, Writers
<1>2. /\ writer[w].row \in Rows /\ writer[w].learned \in SUBSET Fields
      /\ writer[w].passed \in SUBSET Keys
  BY <1>1 DEF WriterTypes
<1>3. writer[w].row.data \in Data /\ writer[w].row.pack \in Packs
  BY <1>2 DEF Rows
<1>4. /\ writer[w].row.pack.values \in [Values -> Messages \cup Refreshes \cup {None}]
      /\ writer[w].row.pack.questions \in [Keys -> QuestionStates]
  BY <1>3 DEF Packs
<1>5. writer[w].input.profile \in SUBSET Fields
  BY <1>1 DEF Inputs
<1> QED
  BY <1>1, <1>2, <1>3, <1>4, <1>5, KeysAreKeys

LEMMA SaveMemoryFacts ==
    ASSUME TypeInv, NEW m, SaveMemory(m)
    PROVE  \E stage \in Stages, data \in Data, next \in Packs, missed \in SUBSET Keys : \E asked :
              WritePack(m, stage, data, next, asked, missed) /\ Merges(m, next, asked, missed)
<1> DEFINE w == writer[m]
           pack == w.row.pack
           profile_ == w.input.profile
<1>1. w.pc = "write" /\ m \in Messages
  BY DEF SaveMemory
<1>2. PICK answer \in Answers, told \in SUBSET Values, resolved \in Resolutions(pack.questions, w.learned) :
        LET next  == MergedProgress(w.row.data, answer, w.input)
            questions == Marked(pack.questions, resolved, "resolved")
            added == NewQuestions(questions, RequiredQuestions(next.stage, next.data.missing, profile_))
        IN  WritePack(m, next.stage, next.data, Merged(pack, told, m, Marked(questions, added, "open")), added,
                      (added \cap (KeysOf(profile_) \cup w.passed))
                      \cup (IF Overtaken(m) THEN KeysOf(w.learned) ELSE {}))
  BY DEF SaveMemory
<1> DEFINE merged == MergedProgress(w.row.data, answer, w.input)
           questions == Marked(pack.questions, resolved, "resolved")
           added == NewQuestions(questions, RequiredQuestions(merged.stage, merged.data.missing, profile_))
           next == Merged(pack, told, m, Marked(questions, added, "open"))
           missed == (added \cap (KeysOf(profile_) \cup w.passed))
                     \cup (IF Overtaken(m) THEN KeysOf(w.learned) ELSE {})
<1>3. /\ pack \in Packs /\ pack.values \in [Values -> Messages \cup Refreshes \cup {None}]
      /\ pack.questions \in [Keys -> QuestionStates]
      /\ w.input \in Inputs /\ KeysOf(w.learned) \in SUBSET Keys /\ KeysOf(profile_) \in SUBSET Keys
      /\ w.passed \in SUBSET Keys
      /\ w.row.data \in Data
  BY <1>1, HeldTypes
<1>4. merged.stage \in Stages /\ merged.data \in Data
  <2>1. answer \in Suggestions
    BY InputsAssumption
  <2>2. merged \in ProgressTypes
    BY <1>3, <2>1, MergedTypes
  <2> HIDE DEF merged
  <2> QED
    BY <2>2 DEF ProgressTypes
<1> HIDE DEF merged
<1>5. /\ questions \in [Keys -> QuestionStates]
      /\ \A k \in Keys : questions[k] = IF k \in resolved THEN "resolved" ELSE pack.questions[k]
  BY <1>3, MarkedTypes DEF QuestionStates
<1> HIDE DEF questions
<1>6. /\ Marked(questions, added, "open") \in [Keys -> QuestionStates]
      /\ \A k \in Keys : Marked(questions, added, "open")[k] = IF k \in added THEN "open" ELSE questions[k]
  BY <1>5, MarkedTypes DEF QuestionStates
<1>7. \A k \in Keys : k \in added => questions[k] = "none"
  BY DEF NewQuestions
<1> HIDE DEF added
<1> DEFINE values == [v \in Values |-> IF v \in told THEN m ELSE pack.values[v]]
<1>8. /\ next.values = values
      /\ next.questions = Marked(questions, added, "open")
      /\ next = [values |-> values, questions |-> Marked(questions, added, "open")]
  BY DEF Merged
<1>14. values \in [Values -> Messages \cup Refreshes \cup {None}]
  BY <1>1, <1>3
<1>15. \A v \in Values : values[v] \in {pack.values[v], m}
  OBVIOUS
<1> HIDE DEF values
<1>9. next \in Packs
  BY <1>1, <1>3, <1>6, <1>8, <1>14 DEF Packs
<1>10. \A k \in Keys : k \in KeysOf(w.learned) /\ pack.questions[k] = "open" => k \in resolved
  <2>1. OpenOnes(pack.questions) \cap KeysOf(w.learned) \subseteq resolved
    BY <1>2 DEF Resolutions
  <2> QED
    BY <2>1 DEF OpenOnes
<1>11. missed \in SUBSET Keys
  BY <1>3
<1>12. WritePack(m, merged.stage, merged.data, next, added, missed)
  BY <1>2 DEF merged, questions, added
<1> HIDE DEF next, missed
<1>13. Merges(m, next, added, missed)
  <2>1. \A v \in Values : next.values[v] \in {pack.values[v], m}
    BY <1>8, <1>15
  <2>2. \A k \in Keys : next.questions[k] = "none" => pack.questions[k] = "none"
    BY <1>5, <1>6, <1>8
  <2>3. \A k \in Keys : k \in added => pack.questions[k] = "none" /\ next.questions[k] # "none"
    BY <1>5, <1>6, <1>7, <1>8
  <2>4. \A k \in Keys : next.questions[k] = "open" =>
           k \in added \/ (pack.questions[k] = "open" /\ k \notin KeysOf(w.learned))
    BY <1>5, <1>6, <1>8, <1>10
  <2>5. /\ added \cap (KeysOf(profile_) \cup w.passed) \subseteq missed
        /\ Overtaken(m) => KeysOf(w.learned) \subseteq missed
    BY DEF missed
  <2>6. m \notin Refreshes
    BY <1>1, WritersAssumption
  <2> QED
    BY <2>1, <2>2, <2>3, <2>4, <2>5, <2>6 DEF Merges
<1> QED
  BY <1>4, <1>9, <1>11, <1>12, <1>13

LEMMA SaveRefreshFacts ==
    ASSUME TypeInv, NEW r, SaveRefresh(r)
    PROVE  \E stage \in Stages, data \in Data, next \in Packs, missed \in SUBSET Keys : \E asked :
              WritePack(r, stage, data, next, asked, missed) /\ Merges(r, next, asked, missed)
<1> DEFINE w == writer[r]
           pack == w.row.pack
<1>1. w.pc = "write" /\ r \in Refreshes
  BY DEF SaveRefresh
<1>2. PICK answer \in Answers, told \in SUBSET Values :
        LET merged == MergedProgress(w.row.data, answer, w.input)
        IN  WritePack(r, merged.stage, merged.data, Merged(pack, told, r, pack.questions), {}, {})
  BY DEF SaveRefresh
<1> DEFINE next == Merged(pack, told, r, pack.questions)
           values == [v \in Values |-> IF v \in told THEN r ELSE pack.values[v]]
<1> DEFINE merged == MergedProgress(w.row.data, answer, w.input)
<1>3. /\ pack.values \in [Values -> Messages \cup Refreshes \cup {None}]
      /\ pack.questions \in [Keys -> QuestionStates]
      /\ w.input \in Inputs /\ w.row.data \in Data
  BY <1>1, HeldTypes
<1>4. merged.stage \in Stages /\ merged.data \in Data
  <2>1. answer \in Suggestions
    BY InputsAssumption
  <2>2. merged \in ProgressTypes
    BY <1>3, <2>1, MergedTypes
  <2> HIDE DEF merged
  <2> QED
    BY <2>2 DEF ProgressTypes
<1>5. /\ next = [values |-> values, questions |-> pack.questions]
      /\ next.values = values /\ next.questions = pack.questions
  BY DEF Merged
<1>10. /\ values \in [Values -> Messages \cup Refreshes \cup {None}]
       /\ \A v \in Values : values[v] \in {pack.values[v], r}
  BY <1>1, <1>3
<1> HIDE DEF values
<1>6. next \in Packs
  BY <1>3, <1>5, <1>10 DEF Packs
<1>7. WritePack(r, merged.stage, merged.data, next, {}, {})
  BY <1>2
<1> HIDE DEF next, merged
<1>8. r \notin Messages
  BY <1>1, WritersAssumption
<1>9. Merges(r, next, {}, {})
  BY <1>5, <1>8, <1>10 DEF Merges
<1> QED
  BY <1>4, <1>6, <1>7, <1>9
\* A job's or a refresh's write: of the row, and of what it asked, lost and passed over.
Loses(w, next, asked) == (Overtaken(w) /\ asked # {}) \/ Forgotten(w, next) # {}

LEMMA WritePackFacts ==
    ASSUME TypeOK, NEW w, NEW stage \in Stages, NEW data \in Data, NEW next \in Packs,
           NEW missed \in SUBSET Keys, NEW asked, WritePack(w, stage, data, next, asked, missed)
    PROVE  /\ row' \in Rows /\ row'.pack = next
           /\ hist' \in [asked : [Keys -> Nat], lost : Nat, missed : SUBSET Keys]
           /\ \A k \in Keys : hist'.asked[k] = hist.asked[k] + (IF k \in asked THEN 1 ELSE 0)
           /\ hist'.lost = hist.lost + (IF Loses(w, next, asked) THEN 1 ELSE 0)
           /\ hist'.missed = hist.missed \cup missed \cup Reopened(w, next)
<1>1. /\ row \in Rows /\ hist.asked \in [Keys -> Nat] /\ hist.lost \in Nat /\ hist.missed \in SUBSET Keys
  BY WritersOfTypeOK
<1>2. row' \in Rows /\ row'.pack = next
  <2>1. row' = [row EXCEPT !.stage = stage, !.data = data, !.pack = next]
    BY DEF WritePack
  <2> QED
    BY <1>1, <2>1 DEF Rows
<1> DEFINE counts == [k \in Keys |-> hist.asked[k] + (IF k \in asked THEN 1 ELSE 0)]
           lost == hist.lost + (IF Loses(w, next, asked) THEN 1 ELSE 0)
           all == hist.missed \cup missed \cup Reopened(w, next)
<1>3. hist' = [asked |-> counts, lost |-> lost, missed |-> all]
  BY DEF WritePack, Loses
<1>4. counts \in [Keys -> Nat] /\ \A k \in Keys : counts[k] = hist.asked[k] + (IF k \in asked THEN 1 ELSE 0)
  BY <1>1
<1>5. lost \in Nat
  BY <1>1
<1>6. all \in SUBSET Keys
  BY <1>1 DEF Reopened, OpenOnes
<1> HIDE DEF counts, lost, all
<1>7. /\ hist'.asked = counts /\ hist'.lost = lost /\ hist'.missed = all
      /\ hist' \in [asked : [Keys -> Nat], lost : Nat, missed : SUBSET Keys]
  BY <1>3, <1>4, <1>5, <1>6
<1> QED
  BY <1>2, <1>4, <1>7 DEF lost, all

LEMMA SaveTypes ==
    ASSUME TypeInv, NEW w, SaveMemory(w) \/ SaveRefresh(w) PROVE TypeInv'
<1>1. w \in Messages \cup Refreshes /\ w \in Writers
  BY DEF SaveMemory, SaveRefresh, Writers
<1>2. PICK stage \in Stages, data \in Data, next \in Packs, missed \in SUBSET Keys : \E asked :
        WritePack(w, stage, data, next, asked, missed)
  BY SaveMemoryFacts, SaveRefreshFacts
<1>3. row' \in Rows /\ hist' \in [asked : [Keys -> Nat], lost : Nat, missed : SUBSET Keys]
  BY <1>2, WritePackFacts DEF TypeInv
<1>4. writer' = AfterWrite(w, {"pack", "progress"}, "done") /\ UNCHANGED <<last, profile, today>>
  BY DEF SaveMemory, SaveRefresh
<1>5. /\ writer' \in [Writers -> WriterTypes]
      /\ writer'[w].pc = "done"
      /\ \A v \in Writers \ {w} : Disturbed(v, {"pack", "progress"}, KeysOf(writer[w].learned))
  BY <1>1, <1>4, AfterWriteFacts DEF TypeInv
<1>6. InputsTold'
  BY <1>5 DEF TypeInv, InputsTold, Disturbed, Writers
<1>7. TypeOK'
  BY <1>3, <1>4, <1>5 DEF TypeInv, TypeOK, WriterTypes
<1> QED
  BY <1>6, <1>7 DEF TypeInv

\* Steps of one writer that leave the row alone.
LEMMA OneWriter ==
    ASSUME TypeInv, NEW w \in Writers, NEW q \in WriterTypes, writer' = [writer EXCEPT ![w] = q],
           q.pc \in {"known", "write"} /\ w \in Messages \cup Refreshes => q.input \in Inputs,
           UNCHANGED <<row, today>>, last' \in 0..MaxDays, profile' \in SUBSET Fields,
           hist' \in [asked : [Keys -> Nat], lost : Nat, missed : SUBSET Keys]
    PROVE  TypeInv' /\ writer'[w] = q /\ \A v \in Writers \ {w} : writer'[v] = writer[v]
<1>1. writer \in [Writers -> WriterTypes]
  BY WritersOfTypeOK DEF TypeInv
<1>2. /\ writer' \in [Writers -> WriterTypes] /\ writer'[w] = q
      /\ \A v \in Writers \ {w} : writer'[v] = writer[v]
  BY <1>1
<1>3. TypeOK'
  BY <1>2 DEF TypeInv, TypeOK, WriterTypes
<1>4. InputsTold'
  BY <1>2 DEF TypeInv, InputsTold, Writers
<1> QED
  BY <1>2, <1>3, <1>4 DEF TypeInv

\* Where a writer begins.
Begins(pc, learned) == [Idle EXCEPT !.pc = pc, !.learned = learned]

Knows(w, input) == [writer[w] EXCEPT !.pc = "known", !.input = input]

Reads(w) == [writer[w] EXCEPT !.pc = "write", !.row = row]

LEMMA InputIsInput ==
    ASSUME NEW known \in BOOLEAN, NEW idle \in Int, NEW cscs \in BOOLEAN, NEW pending \in BOOLEAN,
           NEW fields \in SUBSET Fields
    PROVE  EngineInput(known, idle, cscs, pending, fields) \in Inputs
           /\ EngineInput(known, idle, cscs, pending, fields).profile = fields
<1>1. (idle > DormantAfter) \in BOOLEAN
  BY DormantAssumption
<1> QED
  BY <1>1 DEF EngineInput, Inputs

LEMMA BeginsTypes ==
    ASSUME TypeInv
    PROVE  /\ \A learned \in SUBSET Fields : /\ Begins("learned", learned) \in WriterTypes
                                             /\ Begins("learned", learned).pc = "learned"
                                             /\ Begins("learned", learned).learned = learned
           /\ \A w \in Writers, input \in Inputs :
                 /\ Knows(w, input) \in WriterTypes /\ Knows(w, input).pc = "known"
                 /\ Knows(w, input).input = input /\ Knows(w, input).learned = writer[w].learned
           /\ \A w \in Writers :
                 /\ Reads(w) \in WriterTypes /\ Reads(w).pc = "write" /\ Reads(w).row = row
                 /\ Reads(w).input = writer[w].input /\ Reads(w).learned = writer[w].learned
                 /\ Reads(w).passed = writer[w].passed /\ Reads(w).overtaken = writer[w].overtaken
<1>1. writer \in [Writers -> WriterTypes] /\ row \in Rows
  BY WritersOfTypeOK DEF TypeInv
<1>2. ASSUME NEW learned \in SUBSET Fields
      PROVE  /\ Begins("learned", learned) \in WriterTypes
             /\ Begins("learned", learned).pc = "learned"
             /\ Begins("learned", learned).learned = learned
  <2>1. Idle \in WriterTypes
    BY EmptyTypes
  <2> QED
    BY <2>1 DEF Begins, WriterTypes
<1>3. ASSUME NEW w \in Writers, NEW input \in Inputs
      PROVE  /\ Knows(w, input) \in WriterTypes /\ Knows(w, input).pc = "known"
             /\ Knows(w, input).input = input /\ Knows(w, input).learned = writer[w].learned
  <2>1. writer[w] \in WriterTypes
    BY <1>1
  <2> QED
    BY <2>1 DEF Knows, WriterTypes
<1>4. ASSUME NEW w \in Writers
      PROVE  /\ Reads(w) \in WriterTypes /\ Reads(w).pc = "write" /\ Reads(w).row = row
             /\ Reads(w).input = writer[w].input /\ Reads(w).learned = writer[w].learned
             /\ Reads(w).passed = writer[w].passed /\ Reads(w).overtaken = writer[w].overtaken
  <2>1. writer[w] \in WriterTypes
    BY <1>1
  <2> QED
    BY <1>1, <2>1 DEF Reads, WriterTypes
<1> QED
  BY <1>2, <1>3, <1>4

\* The steps that leave the row alone, each with the writer it makes.
Step(w, q) == writer' = [writer EXCEPT ![w] = q] /\ UNCHANGED <<row, today>>

ReadsForRefresh(input) == [Idle EXCEPT !.pc = "write", !.row = row, !.input = input]

Ended == [Idle EXCEPT !.pc = "done"]

LEMMA EndedTypes == Ended \in WriterTypes /\ Ended.pc = "done"
BY EmptyTypes DEF Ended, Idle

LEMMA ReceiveTypes ==
    ASSUME TypeInv, NEW m \in Messages, Receive(m)
    PROVE  /\ TypeInv'
           /\ \A v \in Writers \ {m} : writer'[v] = writer[v]
           /\ UNCHANGED <<row, hist>>
           /\ \E fields \in SUBSET Fields : /\ profile' = profile \cup fields
                                            /\ writer'[m].pc = "learned" /\ writer'[m].learned = fields
<1>1. PICK fields \in Learned : profile' = profile \cup fields /\ Step(m, Begins("learned", fields))
  BY DEF Receive, Step, Begins
<1>2. last' = today /\ hist' = hist /\ UNCHANGED row
  BY DEF Receive
<1>3. fields \in SUBSET Fields /\ profile' \in SUBSET Fields /\ last' \in 0..MaxDays /\ m \in Writers
  BY <1>1, <1>2, InputsAssumption DEF TypeInv, TypeOK, Writers
<1>4. PICK q \in WriterTypes : /\ q = Begins("learned", fields) /\ q.pc = "learned" /\ q.learned = fields
  BY <1>3, BeginsTypes
<1>5. TypeInv' /\ writer'[m] = q /\ \A v \in Writers \ {m} : writer'[v] = writer[v]
  BY <1>1, <1>2, <1>3, <1>4, WritersOfTypeOK, OneWriter DEF Step, TypeInv
<1> QED
  BY <1>1, <1>2, <1>3, <1>4, <1>5

LEMMA ReadCandidateTypes ==
    ASSUME TypeInv, NEW m \in Messages, ReadCandidate(m)
    PROVE  /\ TypeInv'
           /\ \A v \in Writers \ {m} : writer'[v] = writer[v]
           /\ UNCHANGED <<row, hist, profile>>
           /\ writer[m].pc = "learned" /\ writer'[m].pc = "known"
           /\ writer'[m].learned = writer[m].learned
           /\ writer'[m].input.profile = profile
<1> DEFINE told == EngineInput(FALSE, 0, FALSE, FALSE, profile)
<1>1. profile \in SUBSET Fields /\ last \in 0..MaxDays /\ m \in Writers
  BY DEF TypeInv, TypeOK, Writers
<1>2. PICK input \in Inputs : input = told /\ input.profile = profile
  <2>1. FALSE \in BOOLEAN /\ 0 \in Int
    OBVIOUS
  <2>2. told \in Inputs /\ told.profile = profile
    BY <1>1, <2>1, InputIsInput, Zenon
  <2> QED
    BY <2>2, Zenon
<1>3. PICK q \in WriterTypes : /\ q = Knows(m, input) /\ q.pc = "known"
                               /\ q.input = input /\ q.learned = writer[m].learned
  BY <1>1, BeginsTypes
<1>4. writer' = [writer EXCEPT ![m] = q] /\ UNCHANGED <<row, last, profile, hist, today>>
      /\ writer[m].pc = "learned"
  BY <1>2, <1>3 DEF ReadCandidate, Knows
<1>5. TypeInv' /\ writer'[m] = q /\ \A v \in Writers \ {m} : writer'[v] = writer[v]
  BY <1>1, <1>3, <1>4, WritersOfTypeOK, OneWriter DEF TypeInv
<1> QED
  BY <1>2, <1>3, <1>4, <1>5

LEMMA ReadForMemoryTypes ==
    ASSUME TypeInv, NEW m \in Messages, ReadForMemory(m)
    PROVE  /\ TypeInv'
           /\ \A v \in Writers \ {m} : writer'[v] = writer[v]
           /\ UNCHANGED <<row, hist, profile>>
           /\ writer[m].pc = "known" /\ writer'[m].pc = "write"
           /\ writer'[m].row = row /\ writer'[m].learned = writer[m].learned
           /\ writer'[m].input = writer[m].input /\ writer'[m].passed = writer[m].passed
           /\ writer'[m].overtaken = writer[m].overtaken
<1>1. profile \in SUBSET Fields /\ last \in 0..MaxDays /\ m \in Writers
  BY DEF TypeInv, TypeOK, Writers
<1>2. writer' = [writer EXCEPT ![m] = Reads(m)] /\ UNCHANGED <<row, last, profile, hist, today>>
      /\ writer[m].pc = "known"
  BY DEF ReadForMemory, Reads
<1>3. PICK q \in WriterTypes : /\ q = Reads(m) /\ q.pc = "write" /\ q.row = row
                               /\ q.input = writer[m].input /\ q.learned = writer[m].learned
                               /\ q.passed = writer[m].passed /\ q.overtaken = writer[m].overtaken
  BY <1>1, BeginsTypes
<1>4. q.input \in Inputs
  BY <1>2, <1>3 DEF TypeInv, InputsTold
<1>5. TypeInv' /\ writer'[m] = q /\ \A v \in Writers \ {m} : writer'[v] = writer[v]
  BY <1>1, <1>2, <1>3, <1>4, WritersOfTypeOK, OneWriter DEF TypeInv
<1> QED
  BY <1>2, <1>3, <1>5

LEMMA ReadForRefreshTypes ==
    ASSUME TypeInv, NEW r \in Refreshes, ReadForRefresh(r)
    PROVE  /\ TypeInv'
           /\ \A v \in Writers \ {r} : writer'[v] = writer[v]
           /\ UNCHANGED <<row, hist, profile>>
           /\ writer'[r].row = row
<1>1. PICK s \in Situations :
        Step(r, ReadsForRefresh(EngineInput(TRUE, today - last, s.cscs /\ s.pending, s.pending, profile)))
  BY DEF ReadForRefresh, Step, ReadsForRefresh
<1>2. profile \in SUBSET Fields /\ last \in 0..MaxDays /\ r \in Writers /\ today - last \in Int /\ row \in Rows
  BY WritersOfTypeOK DEF TypeInv, TypeOK, Writers
<1>3. s.pending \in BOOLEAN /\ (s.cscs /\ s.pending) \in BOOLEAN
  BY InputsAssumption DEF Contexts
<1>4. PICK input \in Inputs : input = EngineInput(TRUE, today - last, s.cscs /\ s.pending, s.pending, profile)
  BY <1>2, <1>3, InputIsInput
<1>5. PICK q \in WriterTypes : q = ReadsForRefresh(input) /\ q.row = row /\ q.input = input
  <2>1. Idle \in WriterTypes
    BY EmptyTypes
  <2>2. ReadsForRefresh(input) \in WriterTypes
    BY <1>2, <2>1 DEF ReadsForRefresh, WriterTypes
  <2>3. ReadsForRefresh(input).row = row /\ ReadsForRefresh(input).input = input
    BY <2>1 DEF ReadsForRefresh, WriterTypes
  <2> QED
    BY <2>2, <2>3
<1>6. writer' = [writer EXCEPT ![r] = q] /\ UNCHANGED <<row, last, profile, hist, today>>
  BY <1>1, <1>4, <1>5 DEF Step, ReadForRefresh
<1>7. TypeInv' /\ writer'[r] = q /\ \A v \in Writers \ {r} : writer'[v] = writer[v]
  BY <1>2, <1>5, <1>6, WritersOfTypeOK, OneWriter DEF TypeInv
<1> QED
  BY <1>5, <1>6, <1>7

\* A writer gives up.
LEMMA GivesUpTypes ==
    ASSUME TypeInv, NEW w \in Writers, SkipMemory(w) \/ RefreshFails(w) \/ UpdateFails(w)
    PROVE  /\ TypeInv'
           /\ \A v \in Writers \ {w} : writer'[v] = writer[v]
           /\ UNCHANGED <<row, profile>>
           /\ writer'[w].pc = "done"
           /\ hist'.asked = hist.asked /\ hist'.lost = hist.lost
           /\ hist.missed \subseteq hist'.missed
           /\ w \in Messages => KeysOf(writer[w].learned) \subseteq hist'.missed
<1>1. Step(w, Ended) /\ UNCHANGED <<last, profile>>
  BY DEF SkipMemory, RefreshFails, UpdateFails, Give, Step, Ended
<1>2. profile \in SUBSET Fields /\ last \in 0..MaxDays /\ writer[w] \in WriterTypes
      /\ hist \in [asked : [Keys -> Nat], lost : Nat, missed : SUBSET Keys]
  BY WritersOfTypeOK DEF TypeInv, TypeOK
<1>3. /\ hist' \in [asked : [Keys -> Nat], lost : Nat, missed : SUBSET Keys]
      /\ hist'.asked = hist.asked /\ hist'.lost = hist.lost
      /\ hist.missed \subseteq hist'.missed
      /\ w \in Messages => KeysOf(writer[w].learned) \subseteq hist'.missed
  <2>1. CASE SkipMemory(w)
    <3>1. hist' = [hist EXCEPT !.missed = @ \cup KeysOf(writer[w].learned)]
      BY <2>1 DEF SkipMemory
    <3>2. KeysOf(writer[w].learned) \in SUBSET Keys
      BY <1>2, KeysAreKeys DEF WriterTypes
    <3> QED
      BY <1>2, <3>1, <3>2
  <2>2. CASE RefreshFails(w) \/ UpdateFails(w)
    <3>1. hist' = hist /\ w \notin Messages
      BY <2>2, WritersAssumption DEF RefreshFails, UpdateFails
    <3> QED
      BY <1>2, <3>1
  <2> QED
    BY <2>1, <2>2
<1>4. TypeInv' /\ writer'[w] = Ended /\ \A v \in Writers \ {w} : writer'[v] = writer[v]
  BY <1>1, <1>2, <1>3, EndedTypes, OneWriter DEF Step
<1> QED
  BY <1>1, <1>3, <1>4, EndedTypes DEF Step

LEMMA ReadForUpdateTypes ==
    ASSUME TypeInv, NEW u \in Updates, ReadForUpdate(u)
    PROVE  /\ TypeInv'
           /\ \A v \in Writers \ {u} : writer'[v] = writer[v]
           /\ UNCHANGED <<row, hist, profile>>
<1> DEFINE q(next) == [Idle EXCEPT !.pc = "write", !.row.stage = next.stage, !.row.data = next.data]
<1>1. PICK s \in Situations, told \in SUBSET profile :
        writer' = [writer EXCEPT ![u] = q(Written(Computed(row, told, s)))]
  BY DEF ReadForUpdate
<1>2. profile \in SUBSET Fields /\ last \in 0..MaxDays /\ today - last \in Int
      /\ row \in Rows /\ u \in Writers /\ u \notin Messages \cup Refreshes
  BY WritersOfTypeOK, WritersAssumption DEF TypeInv, TypeOK, Writers
<1>3. PICK next \in ResultTypes : next = computeNextProgressState(row.stage, row.data, told, today - last, s)
  <2>1. row.stage \in Stages /\ row.data \in Data /\ s \in Contexts
    BY <1>2, InputsAssumption DEF Rows
  <2> QED
    BY <1>2, <2>1, ComputedTypes
<1>4. Computed(row, told, s) = next
  BY <1>3 DEF Computed, ResultTypes
<1>5. q(Written(next)) \in WriterTypes
  <2>1. Idle \in WriterTypes
    BY EmptyTypes
  <2>2. Written(next).stage \in Stages /\ Written(next).data \in Data
    BY WrittenTypes DEF ResultTypes
  <2> QED
    BY <2>1, <2>2 DEF WriterTypes, Rows
<1>6. writer' = [writer EXCEPT ![u] = q(Written(next))]
  BY <1>1, <1>4
<1> HIDE DEF q
<1>7. UNCHANGED <<row, last, profile, hist, today>>
  BY DEF ReadForUpdate
<1> QED
  BY <1>2, <1>5, <1>6, <1>7, WritersOfTypeOK, OneWriter DEF TypeInv

LEMMA WriteStageTypes ==
    ASSUME TypeInv, NEW u \in Updates, WriteStage(u)
    PROVE  /\ TypeInv' /\ row'.pack = row.pack
           /\ UNCHANGED <<hist, profile>>
           /\ \A w \in Messages \cup Refreshes : Disturbed(w, {"progress"}, KeysOf(writer[u].learned))
<1>1. u \in Writers /\ u \notin Messages \cup Refreshes /\ row \in Rows
      /\ writer \in [Writers -> WriterTypes]
  BY WritersOfTypeOK, WritersAssumption DEF TypeInv, Writers
<1>2. writer' = AfterWrite(u, {"progress"}, "done") /\ UNCHANGED <<last, profile, hist, today>>
      /\ row' = [row EXCEPT !.stage = writer[u].row.stage, !.data = writer[u].row.data]
  BY DEF WriteStage
<1>3. writer[u].row \in Rows
  BY <1>1 DEF WriterTypes
<1>4. row' \in Rows /\ row'.pack = row.pack
  BY <1>1, <1>2, <1>3 DEF Rows
<1>5. /\ writer' \in [Writers -> WriterTypes]
      /\ \A v \in Writers \ {u} : Disturbed(v, {"progress"}, KeysOf(writer[u].learned))
  BY <1>1, <1>2, AfterWriteFacts DEF TypeInv
<1>6. \A w \in Messages \cup Refreshes : Disturbed(w, {"progress"}, KeysOf(writer[u].learned))
  BY <1>1, <1>5 DEF Writers
<1>7. InputsTold'
  BY <1>6 DEF TypeInv, InputsTold, Disturbed
<1>8. TypeOK'
  BY <1>2, <1>4, <1>5 DEF TypeInv, TypeOK, WriterTypes
<1> QED
  BY <1>2, <1>4, <1>6, <1>7, <1>8 DEF TypeInv

LEMMA NextTypeInv == TypeInv /\ [Next]_vars => TypeInv'
<1> SUFFICES ASSUME TypeInv, [Next]_vars PROVE TypeInv'
  OBVIOUS
<1>1. CASE \E m \in Messages : \/ Receive(m) \/ ReadCandidate(m) \/ ReadForMemory(m)
                               \/ SaveMemory(m) \/ SkipMemory(m)
  BY <1>1, ReceiveTypes, ReadCandidateTypes, ReadForMemoryTypes, SaveTypes, GivesUpTypes DEF Writers
<1>2. CASE \E r \in Refreshes : ReadForRefresh(r) \/ SaveRefresh(r) \/ RefreshFails(r)
  BY <1>2, ReadForRefreshTypes, SaveTypes, GivesUpTypes DEF Writers
<1>3. CASE \E u \in Updates : ReadForUpdate(u) \/ WriteStage(u) \/ UpdateFails(u)
  BY <1>3, ReadForUpdateTypes, WriteStageTypes, GivesUpTypes DEF Writers
<1>4. CASE NextDay
  <2>1. today + 1 \in 0..MaxDays
    BY <1>4, InputsAssumption DEF NextDay, TypeInv, TypeOK
  <2> QED
    BY <1>4, <2>1 DEF NextDay, TypeInv, TypeOK, InputsTold
<1>5. CASE UNCHANGED vars
  BY <1>5 DEF vars, TypeInv, TypeOK, InputsTold
<1> QED
  BY <1>1, <1>2, <1>3, <1>4, <1>5 DEF Next

LEMMA InitTypeInv == Init => TypeInv
<1> SUFFICES ASSUME Init PROVE TypeInv
  OBVIOUS
<1>1. writer \in [Writers -> WriterTypes] /\ row \in Rows
  BY EmptyTypes DEF Init
<1>2. hist \in [asked : [Keys -> Nat], lost : Nat, missed : SUBSET Keys]
  BY DEF Init
<1>3. TypeOK
  BY <1>1, <1>2, InputsAssumption DEF Init, TypeOK, WriterTypes
<1>4. InputsTold
  BY DEF Init, InputsTold, Idle, Writers
<1> QED
  BY <1>3, <1>4 DEF TypeInv

LEMMA TypeInvAlways == Spec => []TypeInv
BY InitTypeInv, NextTypeInv, PTL DEF Spec

\* The row and what the writers hold of it keep their shape: what the rules give is a stage
\* and data, whichever of them is the first to apply.
THEOREM MemoryTypeCorrect == Spec => []TypeOK
<1>1. TypeInv => TypeOK
  BY DEF TypeInv
<1> QED
  BY <1>1, TypeInvAlways, PTL
-----------------------------------------------------------------------------
(* What is in the pack.                                                    *)

\* Who has read the row and was not overtaken has the pack that is there.
PacksCurrent ==
    \A w \in Messages \cup Refreshes :
        writer[w].pc = "write" /\ ~ Overtaken(w) => writer[w].row.pack = row.pack

\* A save, in the terms of the pack.
SavedBy(w, next, asked, missed) ==
    /\ writer[w].pc = "write" /\ w \in Messages \cup Refreshes
    /\ Merges(w, next, asked, missed)
    /\ row'.pack = next /\ profile' = profile
    /\ \A k \in Keys : hist'.asked[k] = hist.asked[k] + (IF k \in asked THEN 1 ELSE 0)
    /\ hist'.lost = hist.lost + (IF Loses(w, next, asked) THEN 1 ELSE 0)
    /\ hist'.missed = hist.missed \cup missed \cup Reopened(w, next)
    /\ writer'[w].pc = "done"
    /\ \A v \in Writers \ {w} : Disturbed(v, {"pack", "progress"}, KeysOf(writer[w].learned))

LEMMA SaveFacts ==
    ASSUME TypeInv, NEW w, SaveMemory(w) \/ SaveRefresh(w)
    PROVE  \E next \in Packs, missed \in SUBSET Keys : \E asked : SavedBy(w, next, asked, missed)
<1>1. PICK stage \in Stages, data \in Data, next \in Packs, missed \in SUBSET Keys : \E asked :
        WritePack(w, stage, data, next, asked, missed) /\ Merges(w, next, asked, missed)
  BY SaveMemoryFacts, SaveRefreshFacts
<1>2. PICK asked : WritePack(w, stage, data, next, asked, missed) /\ Merges(w, next, asked, missed)
  BY <1>1
<1>3. /\ w \in Messages \cup Refreshes /\ w \in Writers /\ writer[w].pc = "write"
      /\ writer' = AfterWrite(w, {"pack", "progress"}, "done") /\ UNCHANGED <<last, profile, today>>
  BY DEF SaveMemory, SaveRefresh, Writers
<1>4. writer'[w].pc = "done" /\ \A v \in Writers \ {w} : Disturbed(v, {"pack", "progress"}, KeysOf(writer[w].learned))
  BY <1>3, AfterWriteFacts DEF TypeInv
<1>5. /\ row'.pack = next
      /\ \A k \in Keys : hist'.asked[k] = hist.asked[k] + (IF k \in asked THEN 1 ELSE 0)
      /\ hist'.lost = hist.lost + (IF Loses(w, next, asked) THEN 1 ELSE 0)
      /\ hist'.missed = hist.missed \cup missed \cup Reopened(w, next)
  <2>1. TypeOK
    BY DEF TypeInv
  <2>2. WritePack(w, stage, data, next, asked, missed)
    BY <1>2
  <2> QED
    BY <2>1, <2>2, WritePackFacts, SMTT(60)
<1>6. SavedBy(w, next, asked, missed)
  BY <1>2, <1>3, <1>4, <1>5 DEF SavedBy
<1> QED
  BY <1>6

LEMMA SaveKeepsCurrent ==
    ASSUME TypeInv, NEW w, NEW next, NEW asked, NEW missed, SavedBy(w, next, asked, missed)
    PROVE  PacksCurrent'
<1> SUFFICES ASSUME NEW v \in Messages \cup Refreshes, writer'[v].pc = "write"
             PROVE  Overtaken(v)'
  BY DEF PacksCurrent
<1>1. v # w /\ v \in Writers
  BY DEF SavedBy, Writers
<1>2. writer[v].pc = "write" /\ writer'[v].overtaken = writer[v].overtaken \cup {"pack", "progress"}
  BY <1>1 DEF SavedBy, Disturbed
<1> QED
  BY <1>2 DEF Overtaken

\* Steps of one writer that leave the row alone.
LEMMA OneKeepsCurrent ==
    ASSUME PacksCurrent, NEW w, \A v \in Writers \ {w} : writer'[v] = writer[v], UNCHANGED row,
           w \in Messages \cup Refreshes => writer'[w].pc # "write" \/ writer'[w].row = row
    PROVE  PacksCurrent'
BY DEF PacksCurrent, Overtaken, Writers

LEMMA NextCurrent == TypeInv /\ PacksCurrent /\ [Next]_vars => PacksCurrent'
<1> SUFFICES ASSUME TypeInv, PacksCurrent, [Next]_vars PROVE PacksCurrent'
  OBVIOUS
<1>1. CASE \E w : SaveMemory(w) \/ SaveRefresh(w)
  BY <1>1, SaveFacts, SaveKeepsCurrent
<1>2. CASE \E m \in Messages : Receive(m) \/ ReadCandidate(m) \/ ReadForMemory(m) \/ SkipMemory(m)
  <2>1. PICK m \in Messages : Receive(m) \/ ReadCandidate(m) \/ ReadForMemory(m) \/ SkipMemory(m)
    BY <1>2
  <2>2. m \in Writers
    BY DEF Writers
  <2>3. /\ \A v \in Writers \ {m} : writer'[v] = writer[v]
        /\ UNCHANGED row
        /\ writer'[m].pc # "write" \/ writer'[m].row = row
    BY <2>1, <2>2, ReceiveTypes, ReadCandidateTypes, ReadForMemoryTypes, GivesUpTypes
  <2> QED
    BY <2>3, OneKeepsCurrent
<1>3. CASE \E r \in Refreshes : ReadForRefresh(r) \/ RefreshFails(r)
  <2>1. PICK r \in Refreshes : ReadForRefresh(r) \/ RefreshFails(r)
    BY <1>3
  <2>2. r \in Writers
    BY DEF Writers
  <2>3. /\ \A v \in Writers \ {r} : writer'[v] = writer[v]
        /\ UNCHANGED row
        /\ writer'[r].pc # "write" \/ writer'[r].row = row
    BY <2>1, <2>2, ReadForRefreshTypes, GivesUpTypes
  <2> QED
    BY <2>3, OneKeepsCurrent
<1>4. CASE \E u \in Updates : ReadForUpdate(u) \/ UpdateFails(u)
  <2>1. PICK u \in Updates : ReadForUpdate(u) \/ UpdateFails(u)
    BY <1>4
  <2>2. u \in Writers /\ u \notin Messages \cup Refreshes
    BY WritersAssumption DEF Writers
  <2>3. (\A v \in Writers \ {u} : writer'[v] = writer[v]) /\ UNCHANGED row
    BY <2>1, <2>2, ReadForUpdateTypes, GivesUpTypes
  <2> QED
    BY <2>2, <2>3, OneKeepsCurrent
<1>5. CASE \E u \in Updates : WriteStage(u)
  <2>1. PICK u \in Updates : WriteStage(u)
    BY <1>5
  <2>2. row'.pack = row.pack /\ \A w \in Messages \cup Refreshes : Disturbed(w, {"progress"}, KeysOf(writer[u].learned))
    BY <2>1, WriteStageTypes
  <2> QED
    BY <2>2 DEF PacksCurrent, Disturbed, Overtaken
<1>6. CASE NextDay \/ UNCHANGED vars
  BY <1>6 DEF NextDay, vars, PacksCurrent, Overtaken
<1> QED
  BY <1>1, <1>2, <1>3, <1>4, <1>5, <1>6 DEF Next

LEMMA InitCurrent == Init => PacksCurrent
BY DEF Init, PacksCurrent, Idle, Writers

\* What the AI does not tell anew and the state of a question get lost in one way only: a job
\* or a refresh writes the whole pack although another one wrote it after the read.
THEOREM MergesKept == Spec => UndisturbedMergesKeep
<1> DEFINE Kept == \/ row'.pack = row.pack
                   \/ \E w \in Messages \cup Refreshes :
                         Holds(w) /\ ~ Holds(w)' /\ (PackKept(w) \/ Overtaken(w))
<1>1. ASSUME TypeInv, PacksCurrent, [Next]_vars PROVE [Kept]_vars
  <2>1. CASE \E w : SaveMemory(w) \/ SaveRefresh(w)
    <3>1. PICK w : SaveMemory(w) \/ SaveRefresh(w)
      BY <2>1
    <3>2. PICK next \in Packs, missed \in SUBSET Keys : \E asked : SavedBy(w, next, asked, missed)
      BY <1>1, <3>1, SaveFacts
    <3>3. PICK asked : SavedBy(w, next, asked, missed)
      BY <3>2
    <3>4. w \in Messages \cup Refreshes /\ Holds(w) /\ ~ Holds(w)'
      BY <3>3 DEF SavedBy, Holds
    <3>5. CASE ~ Overtaken(w)
      <4>1. writer[w].row.pack = row.pack
        BY <1>1, <3>3, <3>5 DEF PacksCurrent, SavedBy
      <4>2. PackKept(w)
        BY <3>3, <4>1 DEF PackKept, SavedBy, Merges
      <4> QED
        BY <3>4, <4>2
    <3> QED
      BY <3>4, <3>5
  <2>2. CASE row'.pack = row.pack
    BY <2>2
  <2>3. CASE \E m \in Messages : Receive(m) \/ ReadCandidate(m) \/ ReadForMemory(m) \/ SkipMemory(m)
    BY <2>2, <2>3 DEF Receive, ReadCandidate, ReadForMemory, SkipMemory
  <2>4. CASE \E r \in Refreshes : ReadForRefresh(r) \/ RefreshFails(r)
    BY <2>2, <2>4 DEF ReadForRefresh, RefreshFails
  <2>5. CASE \E u \in Updates : ReadForUpdate(u) \/ UpdateFails(u)
    BY <2>2, <2>5 DEF ReadForUpdate, UpdateFails
  <2>6. CASE \E u \in Updates : WriteStage(u)
    BY <1>1, <2>2, <2>6, WriteStageTypes
  <2>7. CASE NextDay \/ UNCHANGED vars
    BY <2>2, <2>7 DEF NextDay, vars
  <2> QED
    BY <1>1, <2>1, <2>3, <2>4, <2>5, <2>6, <2>7 DEF Next
<1> QED
  BY <1>1, InitCurrent, NextCurrent, TypeInvAlways, PTL DEF Spec, UndisturbedMergesKeep

-----------------------------------------------------------------------------
(* Questions.                                                              *)

\* A question the pack does not know was asked no more often than packs were lost: the
\* next job that needs the answer asks it once more.
AskedInv ==
    \A k \in Keys : /\ hist.asked[k] <= 1 + hist.lost
                    /\ row.pack.questions[k] = "none" => hist.asked[k] <= hist.lost

LEMMA SaveAsks ==
    ASSUME TypeInv, PacksCurrent, AskedInv, NEW w, NEW next, NEW asked, NEW missed,
           SavedBy(w, next, asked, missed)
    PROVE  AskedInv'
<1> SUFFICES ASSUME NEW k \in Keys
             PROVE  /\ hist'.asked[k] <= 1 + hist'.lost
                    /\ next.questions[k] = "none" => hist'.asked[k] <= hist'.lost
  BY DEF AskedInv, SavedBy
<1> DEFINE held == writer[w].row.pack.questions[k]
<1>1. hist.asked[k] \in Nat /\ hist.lost \in Nat
  BY WritersOfTypeOK DEF TypeInv
<1>2. /\ hist.asked[k] <= 1 + hist.lost
      /\ row.pack.questions[k] = "none" => hist.asked[k] <= hist.lost
  BY DEF AskedInv
<1>3. /\ k \in asked => held = "none" /\ next.questions[k] # "none"
      /\ next.questions[k] = "none" => held = "none"
  BY DEF SavedBy, Merges
<1>4. /\ hist'.asked[k] = IF k \in asked THEN hist.asked[k] + 1 ELSE hist.asked[k]
      /\ hist'.lost = IF Loses(w, next, asked) THEN hist.lost + 1 ELSE hist.lost
  BY <1>1 DEF SavedBy
<1>5. CASE ~ Overtaken(w)
  <2>1. held = row.pack.questions[k]
    BY <1>5 DEF SavedBy, PacksCurrent
  <2> QED
    BY <1>1, <1>2, <1>3, <1>4, <2>1
<1>6. CASE Overtaken(w)
  <2>1. CASE Loses(w, next, asked)
    BY <1>1, <1>2, <1>3, <1>4, <2>1
  <2>2. CASE ~ Loses(w, next, asked)
    <3>1. k \notin asked
      BY <1>6, <2>2 DEF Loses
    <3>2. next.questions[k] = "none" => row.pack.questions[k] = "none"
      BY <1>6, <2>2 DEF Loses, Forgotten
    <3> QED
      BY <1>1, <1>2, <1>4, <2>2, <3>1, <3>2
  <2> QED
    BY <2>1, <2>2
<1> QED
  BY <1>5, <1>6

LEMMA OthersAsk ==
    ASSUME AskedInv, row'.pack = row.pack, hist'.asked = hist.asked, hist'.lost = hist.lost
    PROVE  AskedInv'
BY DEF AskedInv

LEMMA NextAsks == TypeInv /\ PacksCurrent /\ AskedInv /\ [Next]_vars => AskedInv'
<1> SUFFICES ASSUME TypeInv, PacksCurrent, AskedInv, [Next]_vars PROVE AskedInv'
  OBVIOUS
<1>1. CASE \E w : SaveMemory(w) \/ SaveRefresh(w)
  BY <1>1, SaveFacts, SaveAsks
<1>2. CASE \E w \in Writers : SkipMemory(w) \/ RefreshFails(w) \/ UpdateFails(w)
  BY <1>2, GivesUpTypes, OthersAsk
<1>3. CASE \E m \in Messages : Receive(m) \/ ReadCandidate(m) \/ ReadForMemory(m)
  BY <1>3, ReceiveTypes, ReadCandidateTypes, ReadForMemoryTypes, OthersAsk
<1>4. CASE (\E r \in Refreshes : ReadForRefresh(r)) \/ (\E u \in Updates : ReadForUpdate(u))
  BY <1>4, ReadForRefreshTypes, ReadForUpdateTypes, OthersAsk
<1>5. CASE \E u \in Updates : WriteStage(u)
  BY <1>5, WriteStageTypes, OthersAsk
<1>6. CASE NextDay \/ UNCHANGED vars
  BY <1>6, OthersAsk DEF NextDay, vars
<1> QED
  BY <1>1, <1>2, <1>3, <1>4, <1>5, <1>6 DEF Next, Writers

\* The candidate is asked a question once, and once more at most for each pack that was
\* lost: however the stage moves and whatever the AI lists as missing.
THEOREM QuestionsBounded == Spec => []QuestionsAskedOnce
<1>1. Init => AskedInv
  BY DEF Init, AskedInv
<1>2. AskedInv => QuestionsAskedOnce
  BY DEF AskedInv, QuestionsAskedOnce
<1> QED
  BY <1>1, <1>2, InitCurrent, NextCurrent, NextAsks, TypeInvAlways, PTL DEF Spec
\* The message of m is at work and holds the answer to k.
Telling(m, k) == writer[m].pc \in {"learned", "known", "write"} /\ k \in KeysOf(writer[m].learned)

\* The job of m has read the candidate, and not the row as it was before the last write.
Knowing(m) == writer[m].pc \in {"known", "write"} /\ ~ Overtaken(m)

\* The job of m knows what the profile tells, but for what other messages bring, or have
\* brought since.
Informed(m) ==
    Knowing(m) =>
        \A k \in Keys : k \in KeysOf(profile) /\ k \notin KeysOf(writer[m].input.profile) =>
            \/ k \in hist.missed \/ k \in writer[m].passed
            \/ \E n \in Messages \ {m} : Telling(n, k)

OpenInv ==
    /\ \A k \in Keys : row.pack.questions[k] = "open" /\ k \in KeysOf(profile) =>
          k \in hist.missed \/ \E m \in Messages : Telling(m, k)
    /\ \A m \in Messages : Informed(m)

LEMMA SaveLeavesOpen ==
    ASSUME TypeInv, PacksCurrent, OpenInv, NEW w, NEW next, NEW asked, NEW missed,
           SavedBy(w, next, asked, missed)
    PROVE  OpenInv'
<1>1. \A m \in Messages \ {w}, k \in Keys : Telling(m, k) => Telling(m, k)'
  BY DEF SavedBy, Disturbed, Telling, Writers
<1>2. /\ hist'.missed = hist.missed \cup missed \cup Reopened(w, next)
      /\ profile' = profile /\ row'.pack = next
      /\ w \in Messages \cup Refreshes /\ writer[w].pc = "write"
  BY DEF SavedBy
<1>3. ASSUME NEW k \in Keys, next.questions[k] = "open", k \in KeysOf(profile)
      PROVE  k \in hist'.missed \/ \E m \in Messages : Telling(m, k)'
  <2> DEFINE held == writer[w].row.pack.questions[k]
  <2>1. /\ w \in Refreshes => asked = {}
        /\ w \in Messages => asked \cap (KeysOf(writer[w].input.profile) \cup writer[w].passed) \subseteq missed
        /\ w \in Messages /\ Overtaken(w) => KeysOf(writer[w].learned) \subseteq missed
        /\ \/ k \in asked
           \/ held = "open" /\ (w \in Messages => k \notin KeysOf(writer[w].learned))
    BY <1>3 DEF SavedBy, Merges
  <2>2. CASE Overtaken(w)
    <3>1. CASE row.pack.questions[k] # "open"
      <4>1. k \in Reopened(w, next)
        BY <1>3, <2>2, <3>1 DEF Reopened, OpenOnes
      <4> QED
        BY <1>2, <4>1
    <3>2. CASE row.pack.questions[k] = "open"
      <4>1. k \in hist.missed \/ \E m \in Messages : Telling(m, k)
        BY <1>3, <3>2 DEF OpenInv
      <4>2. CASE w \in Messages /\ Telling(w, k)
        BY <1>2, <2>1, <2>2, <4>2 DEF Telling
      <4> QED
        BY <1>1, <1>2, <4>1, <4>2
    <3> QED
      BY <3>1, <3>2
  <2>3. CASE ~ Overtaken(w)
    <3>1. held = row.pack.questions[k]
      BY <1>2, <2>3 DEF PacksCurrent
    <3>2. CASE k \in asked
      <4>1. w \in Messages /\ Informed(w)
        BY <1>2, <2>1, <3>2 DEF OpenInv
      <4>2. CASE k \in KeysOf(writer[w].input.profile) \cup writer[w].passed
        BY <1>2, <2>1, <3>2, <4>1, <4>2
      <4>3. CASE k \notin KeysOf(writer[w].input.profile) \cup writer[w].passed
        <5>1. k \in hist.missed \/ \E n \in Messages \ {w} : Telling(n, k)
          BY <1>2, <1>3, <2>3, <4>1, <4>3 DEF Informed, Knowing
        <5> QED
          BY <1>1, <1>2, <5>1
      <4> QED
        BY <4>2, <4>3
    <3>3. CASE k \notin asked
      <4>1. row.pack.questions[k] = "open" /\ (w \in Messages => ~ Telling(w, k))
        BY <2>1, <3>1, <3>3 DEF Telling
      <4>2. k \in hist.missed \/ \E m \in Messages : Telling(m, k)
        BY <1>3, <4>1 DEF OpenInv
      <4> QED
        BY <1>1, <1>2, <4>1, <4>2
    <3> QED
      BY <3>2, <3>3
  <2> QED
    BY <2>2, <2>3
<1>4. ASSUME NEW m \in Messages PROVE Informed(m)'
  <2>1. CASE m = w
    BY <2>1 DEF Informed, Knowing, SavedBy
  <2>2. CASE m # w
    <3>1. Disturbed(m, {"pack", "progress"}, KeysOf(writer[w].learned))
      BY <2>2 DEF SavedBy, Writers
    <3>2. CASE writer[m].pc # "known"
      BY <3>1, <3>2 DEF Disturbed, Informed, Knowing, Overtaken
    <3>3. CASE writer[m].pc = "known"
      <4> SUFFICES ASSUME ~ Overtaken(m)', NEW k \in Keys,
                          k \in KeysOf(profile), k \notin KeysOf(writer[m].input.profile)
                   PROVE  \/ k \in hist'.missed \/ k \in writer'[m].passed
                          \/ \E n \in Messages \ {m} : Telling(n, k)'
        BY <1>2, <3>1 DEF Informed, Knowing, Disturbed
      <4>1. ~ Overtaken(m) /\ writer[m].passed \subseteq writer'[m].passed
            /\ KeysOf(writer[w].learned) \subseteq writer'[m].passed
        BY <3>1, <3>3 DEF Disturbed, Overtaken
      <4>2. \/ k \in hist.missed \/ k \in writer[m].passed
            \/ \E n \in Messages \ {m} : Telling(n, k)
        BY <3>3, <4>1 DEF OpenInv, Informed, Knowing
      <4>3. CASE \E n \in Messages \ {m} : Telling(n, k)
        <5>1. PICK n \in Messages \ {m} : Telling(n, k)
          BY <4>3
        <5>2. CASE n = w
          BY <4>1, <5>1, <5>2 DEF Telling
        <5>3. CASE n # w
          BY <1>1, <5>1, <5>3
        <5> QED
          BY <5>2, <5>3
      <4> QED
        BY <1>2, <4>1, <4>2, <4>3
    <3> QED
      BY <3>2, <3>3
  <2> QED
    BY <2>1, <2>2
<1> QED
  BY <1>2, <1>3, <1>4 DEF OpenInv

\* A step that leaves the pack and the profile alone.
LEMMA OthersLeaveOpen ==
    ASSUME OpenInv, row'.pack = row.pack, profile' = profile, hist.missed \subseteq hist'.missed,
           \A m \in Messages, k \in Keys : Telling(m, k) => Telling(m, k)' \/ k \in hist'.missed,
           \A m \in Messages : Knowing(m)' =>
              \/ /\ Knowing(m) /\ writer'[m].input = writer[m].input
                 /\ writer[m].passed \subseteq writer'[m].passed
              \/ writer'[m].input.profile = profile
    PROVE  OpenInv'
<1>1. ASSUME NEW k \in Keys, row'.pack.questions[k] = "open", k \in KeysOf(profile')
      PROVE  k \in hist'.missed \/ \E m \in Messages : Telling(m, k)'
  <2>1. k \in hist.missed \/ \E m \in Messages : Telling(m, k)
    BY <1>1 DEF OpenInv
  <2> QED
    BY <2>1
<1>2. ASSUME NEW m \in Messages PROVE Informed(m)'
  <2> SUFFICES ASSUME Knowing(m)', NEW k \in Keys,
                      k \in KeysOf(profile), k \notin KeysOf(writer'[m].input.profile)
               PROVE  \/ k \in hist'.missed \/ k \in writer'[m].passed
                      \/ \E n \in Messages \ {m} : Telling(n, k)'
    BY DEF Informed
  <2>1. /\ Knowing(m) /\ writer'[m].input = writer[m].input
        /\ writer[m].passed \subseteq writer'[m].passed
    OBVIOUS
  <2>2. \/ k \in hist.missed \/ k \in writer[m].passed
        \/ \E n \in Messages \ {m} : Telling(n, k)
    BY <2>1 DEF OpenInv, Informed
  <2> QED
    BY <2>1, <2>2
<1> QED
  BY <1>1, <1>2 DEF OpenInv

\* A message brings what it tells: it is at work from now on.
LEMMA ReceiveLeavesOpen == ASSUME TypeInv, OpenInv, NEW m \in Messages, Receive(m) PROVE OpenInv'
<1>1. PICK fields \in SUBSET Fields : /\ profile' = profile \cup fields
                                      /\ writer'[m].pc = "learned" /\ writer'[m].learned = fields
  BY ReceiveTypes
<1>2. /\ \A v \in Messages \ {m} : writer'[v] = writer[v]
      /\ row' = row /\ hist' = hist /\ writer[m].pc = "idle"
  BY ReceiveTypes DEF Receive, Writers
<1>3. \A k : k \in KeysOf(profile') => k \in KeysOf(profile) \/ k \in KeysOf(fields)
  BY <1>1 DEF KeysOf
<1>4. \A k \in Keys : k \in KeysOf(fields) => Telling(m, k)'
  BY <1>1 DEF Telling
<1>5. \A n \in Messages, k \in Keys : Telling(n, k) => n # m /\ Telling(n, k)'
  BY <1>2 DEF Telling
<1>6. ASSUME NEW k \in Keys, row'.pack.questions[k] = "open", k \in KeysOf(profile')
      PROVE  k \in hist'.missed \/ \E n \in Messages : Telling(n, k)'
  BY <1>2, <1>3, <1>4, <1>5, <1>6 DEF OpenInv
<1>7. ASSUME NEW n \in Messages PROVE Informed(n)'
  <2>1. CASE n = m
    BY <1>1, <2>1 DEF Informed, Knowing
  <2>2. CASE n # m
    <3> SUFFICES ASSUME Knowing(n), NEW k \in Keys,
                        k \in KeysOf(profile'), k \notin KeysOf(writer[n].input.profile)
                 PROVE  \/ k \in hist'.missed \/ k \in writer[n].passed
                        \/ \E l \in Messages \ {n} : Telling(l, k)'
      BY <1>2, <2>2 DEF Informed, Knowing, Overtaken
    <3>1. CASE k \in KeysOf(fields)
      BY <1>4, <2>2, <3>1
    <3>2. CASE k \in KeysOf(profile)
      <4>1. \/ k \in hist.missed \/ k \in writer[n].passed
            \/ \E l \in Messages \ {n} : Telling(l, k)
        BY <3>2 DEF OpenInv, Informed
      <4> QED
        BY <1>2, <1>5, <4>1
    <3> QED
      BY <1>3, <3>1, <3>2
  <2> QED
    BY <2>1, <2>2
<1> QED
  BY <1>6, <1>7 DEF OpenInv

LEMMA NextLeavesOpen == TypeInv /\ PacksCurrent /\ OpenInv /\ [Next]_vars => OpenInv'
<1> SUFFICES ASSUME TypeInv, PacksCurrent, OpenInv, [Next]_vars PROVE OpenInv'
  OBVIOUS
<1>1. CASE \E w : SaveMemory(w) \/ SaveRefresh(w)
  BY <1>1, SaveFacts, SaveLeavesOpen
<1>2. CASE \E m \in Messages : Receive(m)
  BY <1>2, ReceiveLeavesOpen
<1>9. CASE \E m \in Messages : ReadCandidate(m)
  <2>1. PICK m \in Messages : ReadCandidate(m)
    BY <1>9
  <2>2. /\ \A v \in Messages \ {m} : writer'[v] = writer[v]
        /\ UNCHANGED <<row, hist, profile>>
        /\ writer[m].pc = "learned" /\ writer'[m].pc = "known"
        /\ writer'[m].learned = writer[m].learned /\ writer'[m].input.profile = profile
    BY <2>1, ReadCandidateTypes DEF Writers
  <2>3. \A n \in Messages, k \in Keys : Telling(n, k) => Telling(n, k)'
    BY <2>2 DEF Telling
  <2>4. \A n \in Messages : Knowing(n)' =>
           \/ /\ Knowing(n) /\ writer'[n].input = writer[n].input
              /\ writer[n].passed \subseteq writer'[n].passed
           \/ writer'[n].input.profile = profile
    BY <2>2 DEF Knowing, Overtaken
  <2> QED
    BY <2>2, <2>3, <2>4, OthersLeaveOpen
<1>3. CASE \E m \in Messages : ReadForMemory(m)
  <2>1. PICK m \in Messages : ReadForMemory(m)
    BY <1>3
  <2>2. /\ \A v \in Messages \ {m} : writer'[v] = writer[v]
        /\ UNCHANGED <<row, hist, profile>>
        /\ writer[m].pc = "known" /\ writer'[m].pc = "write"
        /\ writer'[m].learned = writer[m].learned /\ writer'[m].input = writer[m].input
        /\ writer'[m].passed = writer[m].passed /\ writer'[m].overtaken = writer[m].overtaken
    BY <2>1, ReadForMemoryTypes DEF Writers
  <2>3. \A n \in Messages, k \in Keys : Telling(n, k) => Telling(n, k)'
    BY <2>2 DEF Telling
  <2>4. \A n \in Messages : Knowing(n)' =>
           /\ Knowing(n) /\ writer'[n].input = writer[n].input
           /\ writer[n].passed \subseteq writer'[n].passed
    BY <2>2 DEF Knowing, Overtaken
  <2> QED
    BY <2>2, <2>3, <2>4, OthersLeaveOpen
<1>4. CASE \E w \in Writers : SkipMemory(w) \/ RefreshFails(w) \/ UpdateFails(w)
  <2>1. PICK w \in Writers : SkipMemory(w) \/ RefreshFails(w) \/ UpdateFails(w)
    BY <1>4
  <2>2. /\ \A v \in Writers \ {w} : writer'[v] = writer[v]
        /\ UNCHANGED <<row, profile>> /\ writer'[w].pc = "done"
        /\ hist.missed \subseteq hist'.missed
        /\ w \in Messages => KeysOf(writer[w].learned) \subseteq hist'.missed
    BY <2>1, GivesUpTypes
  <2>3. \A n \in Messages, k \in Keys : Telling(n, k) => Telling(n, k)' \/ k \in hist'.missed
    BY <2>2 DEF Telling, Writers
  <2>4. \A n \in Messages : Knowing(n)' =>
           /\ Knowing(n) /\ writer'[n].input = writer[n].input
           /\ writer[n].passed \subseteq writer'[n].passed
    BY <2>2 DEF Knowing, Overtaken, Writers
  <2> QED
    BY <2>2, <2>3, <2>4, OthersLeaveOpen
<1>5. CASE \E r \in Refreshes : ReadForRefresh(r)
  <2>1. PICK r \in Refreshes : ReadForRefresh(r)
    BY <1>5
  <2>2. /\ \A v \in Writers \ {r} : writer'[v] = writer[v]
        /\ row' = row /\ hist' = hist /\ profile' = profile
    BY <2>1, ReadForRefreshTypes DEF ReadForRefresh
  <2>3. r \notin Messages
    BY WritersAssumption
  <2>4. \A n \in Messages : writer'[n] = writer[n]
    BY <2>2, <2>3 DEF Writers
  <2> QED
    BY <2>2, <2>4, OthersLeaveOpen DEF Telling, Knowing, Overtaken
<1>6. CASE \E u \in Updates : ReadForUpdate(u)
  <2>1. PICK u \in Updates : ReadForUpdate(u)
    BY <1>6
  <2>2. /\ \A v \in Writers \ {u} : writer'[v] = writer[v]
        /\ row' = row /\ hist' = hist /\ profile' = profile
    BY <2>1, ReadForUpdateTypes DEF ReadForUpdate
  <2>3. u \notin Messages
    BY WritersAssumption
  <2>4. \A n \in Messages : writer'[n] = writer[n]
    BY <2>2, <2>3 DEF Writers
  <2> QED
    BY <2>2, <2>4, OthersLeaveOpen DEF Telling, Knowing, Overtaken
<1>7. CASE \E u \in Updates : WriteStage(u)
  <2>4. PICK u \in Updates : WriteStage(u)
    BY <1>7
  <2>1. /\ row'.pack = row.pack /\ UNCHANGED <<hist, profile>>
        /\ \A w \in Messages \cup Refreshes : Disturbed(w, {"progress"}, KeysOf(writer[u].learned))
    BY <2>4, WriteStageTypes
  <2>2. \A n \in Messages, k \in Keys : Telling(n, k) => Telling(n, k)'
    BY <2>1 DEF Disturbed, Telling
  <2>3. \A n \in Messages : Knowing(n)' =>
           /\ Knowing(n) /\ writer'[n].input = writer[n].input
           /\ writer[n].passed \subseteq writer'[n].passed
    BY <2>1 DEF Disturbed, Knowing, Overtaken
  <2> QED
    BY <2>1, <2>2, <2>3, OthersLeaveOpen
<1>8. CASE NextDay \/ UNCHANGED vars
  <2>1. UNCHANGED <<row, writer, hist, profile>>
    BY <1>8 DEF NextDay, vars
  <2> QED
    BY <2>1, OthersLeaveOpen DEF Telling, Knowing, Overtaken
<1> QED
  BY <1>1, <1>2, <1>3, <1>4, <1>5, <1>6, <1>7, <1>8, <1>9 DEF Next, Writers

\* An open question is one the candidate's row does not answer, or its message has still to
\* get there, or the answer was passed over, or noted between the two reads of the job that asked.
THEOREM OpenMeansUnanswered == Spec => []OpenQuestionsUnanswered
<1>1. Init => OpenInv
  BY DEF Init, OpenInv, NewRow, EmptyPack, Informed, Knowing, Idle, Writers
<1>2. ASSUME OpenInv PROVE OpenQuestionsUnanswered
  BY <1>2 DEF OpenInv, OpenQuestionsUnanswered, OpenOnes, Telling
<1> QED
  BY <1>1, <1>2, InitCurrent, NextCurrent, NextLeavesOpen, TypeInvAlways, PTL DEF Spec

-----------------------------------------------------------------------------
(* Where the rules lead.  The number of the rule that is used, RuleAt, is  *)
(* found by itself; the stage and the data a rule gives are said of its    *)
(* number.  A rule that is used twice in a row changes nothing the second  *)
(* time, and within three calls a rule is used again.                      *)

\* The rule that is used is the first one that applies.
LEMMA FirstIs ==
    ASSUME NEW rules, DOMAIN rules \in SUBSET Nat, NEW i \in DOMAIN rules, rules[i].when,
           \A j \in DOMAIN rules : rules[j].when => i <= j
    PROVE  FirstOf(rules) = rules[i].gives
<1> DEFINE applying == {k \in DOMAIN rules : rules[k].when}
           first == CHOOSE k \in applying : \A j \in applying : k <= j
<1>1. i \in applying /\ \A j \in applying : i <= j
  OBVIOUS
<1>2. first \in applying /\ \A j \in applying : first <= j
  BY <1>1
<1>3. FirstOf(rules) = rules[first].gives
  BY DEF FirstOf
<1> HIDE DEF first
<1>4. first \in Nat /\ i \in Nat /\ first <= i /\ i <= first
  BY <1>1, <1>2
<1>5. first = i
  BY <1>4
<1> QED
  BY <1>3, <1>5

\* Some rule of the list applies.
Applies(rules) == \E i \in DOMAIN rules : rules[i].when

\* Rules before others come first.
LEMMA FirstOfBoth ==
    ASSUME NEW R, NEW a \in Seq(R), NEW b \in Seq(R)
    PROVE  /\ a \o b \in Seq(R)
           /\ Applies(a \o b) <=> Applies(a) \/ Applies(b)
           /\ Applies(a) => FirstOf(a \o b) = FirstOf(a)
           /\ ~ Applies(a) /\ Applies(b) => FirstOf(a \o b) = FirstOf(b)
<1>1. /\ DOMAIN a \in SUBSET Nat /\ DOMAIN b \in SUBSET Nat /\ DOMAIN (a \o b) \in SUBSET Nat
      /\ DOMAIN a = 1..Len(a) /\ DOMAIN b = 1..Len(b) /\ DOMAIN (a \o b) = 1..(Len(a) + Len(b))
      /\ Len(a) \in Nat /\ Len(b) \in Nat
  OBVIOUS
<1>2. /\ \A i \in DOMAIN a : i \in DOMAIN (a \o b) /\ (a \o b)[i] = a[i]
      /\ \A i \in DOMAIN b : Len(a) + i \in DOMAIN (a \o b) /\ (a \o b)[Len(a) + i] = b[i]
      /\ \A k \in DOMAIN (a \o b) : k \in DOMAIN a \/ (k - Len(a) \in DOMAIN b /\ k = Len(a) + (k - Len(a)))
  OBVIOUS
<1>3. Applies(a \o b) <=> Applies(a) \/ Applies(b)
  <2>2. ASSUME NEW i \in DOMAIN a, a[i].when PROVE Applies(a \o b)
    BY <2>2, <1>2 DEF Applies
  <2>3. ASSUME NEW i \in DOMAIN b, b[i].when PROVE Applies(a \o b)
    BY <2>3, <1>2 DEF Applies
  <2>4. ASSUME NEW k \in DOMAIN (a \o b), (a \o b)[k].when PROVE Applies(a) \/ Applies(b)
    <3>1. CASE k \in DOMAIN a
      BY <3>1, <2>4, <1>2 DEF Applies
    <3>2. CASE k \notin DOMAIN a
      <4>1. PICK n \in DOMAIN b : k = Len(a) + n
        BY <3>2, <1>2
      <4> QED
        BY <4>1, <2>4, <1>2 DEF Applies
    <3> QED
      BY <3>1, <3>2
  <2> QED
    BY <2>2, <2>3, <2>4 DEF Applies
<1>4. ASSUME Applies(a) PROVE FirstOf(a \o b) = FirstOf(a)
  <2>1. PICK i \in DOMAIN a : a[i].when /\ \A j \in DOMAIN a : a[j].when => i <= j
    <3> DEFINE T == {i \in DOMAIN a : a[i].when}
    <3>1. T \in SUBSET Nat /\ T # {}
      BY <1>1, <1>4 DEF Applies
    <3> QED
      BY <3>1, FirstExists
  <2>2. FirstOf(a) = a[i].gives
    BY <1>1, <2>1, FirstIs
  <2>3. i \in DOMAIN (a \o b) /\ (a \o b)[i] = a[i]
    BY <1>2
  <2>4. ASSUME NEW j \in DOMAIN (a \o b), (a \o b)[j].when PROVE i <= j
    <3>1. CASE j \in DOMAIN a
      BY <3>1, <2>1, <2>4, <1>2
    <3>2. CASE j \notin DOMAIN a
      BY <3>2, <1>1
    <3> QED
      BY <3>1, <3>2
  <2>5. FirstOf(a \o b) = (a \o b)[i].gives
    BY <1>1, <2>1, <2>3, <2>4, FirstIs
  <2> QED
    BY <2>2, <2>3, <2>5
<1>5. ASSUME ~ Applies(a), Applies(b) PROVE FirstOf(a \o b) = FirstOf(b)
  <2>1. PICK i \in DOMAIN b : b[i].when /\ \A j \in DOMAIN b : b[j].when => i <= j
    <3> DEFINE T == {i \in DOMAIN b : b[i].when}
    <3>1. T \in SUBSET Nat /\ T # {}
      BY <1>1, <1>5 DEF Applies
    <3> QED
      BY <3>1, FirstExists
  <2>2. FirstOf(b) = b[i].gives
    BY <1>1, <2>1, FirstIs
  <2> DEFINE k == Len(a) + i
  <2>3. k \in DOMAIN (a \o b) /\ (a \o b)[k] = b[i]
    BY <1>2
  <2>4. ASSUME NEW j \in DOMAIN (a \o b), (a \o b)[j].when PROVE k <= j
    <3>1. j \notin DOMAIN a
      BY <2>4, <1>2, <1>5 DEF Applies
    <3>2. j - Len(a) \in DOMAIN b /\ j = Len(a) + (j - Len(a))
      BY <3>1, <1>2
    <3>3. PICK n \in DOMAIN b : n = j - Len(a)
      BY <3>2
    <3>4. j = Len(a) + n /\ b[n].when
      BY <2>4, <3>2, <3>3, <1>2
    <3>5. i <= n
      BY <2>1, <3>4
    <3> QED
      BY <3>3, <3>4, <3>5, <1>1
  <2>5. FirstOf(a \o b) = (a \o b)[k].gives
    <3> HIDE DEF k
    <3> QED
      BY <1>1, <2>1, <2>3, <2>4, FirstIs
  <2> QED
    BY <2>2, <2>3, <2>5
<1>6. a \o b \in Seq(R)
  OBVIOUS
<1> QED
  BY <1>3, <1>4, <1>5, <1>6

\* Short lists of rules.
LEMMA OneRule ==
    ASSUME NEW a
    PROVE  (Applies(<<a>>) <=> a.when) /\ (a.when => FirstOf(<<a>>) = a.gives)
<1>1. DOMAIN <<a>> = {1} /\ <<a>>[1] = a
  OBVIOUS
<1>2. Applies(<<a>>) <=> a.when
  BY <1>1 DEF Applies
<1>3. ASSUME a.when PROVE FirstOf(<<a>>) = a.gives
  <2>1. FirstOf(<<a>>) = <<a>>[1].gives
    BY <1>1, <1>3, FirstIs
  <2> QED
    BY <1>1, <2>1
<1> QED
  BY <1>2, <1>3

LEMMA FourRules ==
    ASSUME NEW a, NEW b, NEW c, NEW d
    PROVE  /\ Applies(<<a, b, c, d>>) <=> a.when \/ b.when \/ c.when \/ d.when
           /\ a.when => FirstOf(<<a, b, c, d>>) = a.gives
           /\ ~ a.when /\ b.when => FirstOf(<<a, b, c, d>>) = b.gives
           /\ ~ a.when /\ ~ b.when /\ c.when => FirstOf(<<a, b, c, d>>) = c.gives
           /\ ~ a.when /\ ~ b.when /\ ~ c.when /\ d.when => FirstOf(<<a, b, c, d>>) = d.gives
<1> DEFINE r == <<a, b, c, d>>
<1>1. DOMAIN r = {1, 2, 3, 4} /\ r[1] = a /\ r[2] = b /\ r[3] = c /\ r[4] = d
  OBVIOUS
<1> HIDE DEF r
<1>2. Applies(r) <=> a.when \/ b.when \/ c.when \/ d.when
  BY <1>1 DEF Applies
<1>3. ASSUME NEW i \in {1, 2, 3, 4}, r[i].when, \A j \in {1, 2, 3, 4} : r[j].when => i <= j
      PROVE  FirstOf(r) = r[i].gives
  BY <1>1, <1>3, FirstIs
<1>4. a.when => FirstOf(r) = a.gives
  BY <1>1, <1>3
<1>5. ~ a.when /\ b.when => FirstOf(r) = b.gives
  BY <1>1, <1>3
<1>6. ~ a.when /\ ~ b.when /\ c.when => FirstOf(r) = c.gives
  BY <1>1, <1>3
<1>7. ~ a.when /\ ~ b.when /\ ~ c.when /\ d.when => FirstOf(r) = d.gives
  BY <1>1, <1>3
<1> QED
  BY <1>2, <1>4, <1>5, <1>6, <1>7 DEF r

LEMMA ThreeRules ==
    ASSUME NEW a, NEW b, NEW c
    PROVE  /\ Applies(<<a, b, c>>) <=> a.when \/ b.when \/ c.when
           /\ a.when => FirstOf(<<a, b, c>>) = a.gives
           /\ ~ a.when /\ b.when => FirstOf(<<a, b, c>>) = b.gives
           /\ ~ a.when /\ ~ b.when /\ c.when => FirstOf(<<a, b, c>>) = c.gives
<1> DEFINE r == <<a, b, c>>
<1>1. DOMAIN r = {1, 2, 3} /\ r[1] = a /\ r[2] = b /\ r[3] = c
  OBVIOUS
<1> HIDE DEF r
<1>2. Applies(r) <=> a.when \/ b.when \/ c.when
  BY <1>1 DEF Applies
<1>3. ASSUME NEW i \in {1, 2, 3}, r[i].when, \A j \in {1, 2, 3} : r[j].when => i <= j
      PROVE  FirstOf(r) = r[i].gives
  BY <1>1, <1>3, FirstIs
<1>4. a.when => FirstOf(r) = a.gives
  BY <1>1, <1>3
<1>5. ~ a.when /\ b.when => FirstOf(r) = b.gives
  BY <1>1, <1>3
<1>6. ~ a.when /\ ~ b.when /\ c.when => FirstOf(r) = c.gives
  BY <1>1, <1>3
<1> QED
  BY <1>2, <1>4, <1>5, <1>6 DEF r

LEMMA TwoRules ==
    ASSUME NEW a, NEW b
    PROVE  /\ Applies(<<a, b>>) <=> a.when \/ b.when
           /\ a.when => FirstOf(<<a, b>>) = a.gives
           /\ ~ a.when /\ b.when => FirstOf(<<a, b>>) = b.gives
<1> DEFINE r == <<a, b>>
<1>1. DOMAIN r = {1, 2} /\ r[1] = a /\ r[2] = b
  OBVIOUS
<1> HIDE DEF r
<1>2. Applies(r) <=> a.when \/ b.when
  BY <1>1 DEF Applies
<1>3. ASSUME NEW i \in {1, 2}, r[i].when, \A j \in {1, 2} : r[j].when => i <= j
      PROVE  FirstOf(r) = r[i].gives
  BY <1>1, <1>3, FirstIs
<1>4. a.when => FirstOf(r) = a.gives
  BY <1>1, <1>3
<1>5. ~ a.when /\ b.when => FirstOf(r) = b.gives
  BY <1>1, <1>3
<1> QED
  BY <1>2, <1>4, <1>5 DEF r

-----------------------------------------------------------------------------
(* The rules of computeNextProgressState, one after the other.             *)

\* To what matching jobs lead, as one case after the other.
LEMMA MatchedStageIs ==
    ASSUME NEW stage, NEW fields, NEW s, s.matched \in BOOLEAN, s.pending \in BOOLEAN, s.cscs \in BOOLEAN
    PROVE  MatchedStage(stage, fields, s) =
              IF ~ s.matched THEN "none"
              ELSE IF stage = "LOOKING_FOR_WORK"
                      \/ (stage = "NEW" /\ s.pending /\ RequiredFields \subseteq fields)
                   THEN "MATCHED_TO_JOBS"
              ELSE IF RequiredFields \subseteq fields /\ ~ s.pending /\ ~ s.cscs THEN "READY_TO_PLACE"
              ELSE "none"
<1> DEFINE complete == RequiredFields \subseteq fields
           looking == stage = "LOOKING_FOR_WORK" \/ (stage = "NEW" /\ s.pending /\ complete)
<1>1. PICK r1 : r1 = Rule(~ s.matched, "none")
  OBVIOUS
<1>2. PICK r2 : r2 = Rule(looking, "MATCHED_TO_JOBS")
  OBVIOUS
<1>3. PICK r3 : r3 = Rule(complete /\ ~ s.pending /\ ~ s.cscs, "READY_TO_PLACE")
  OBVIOUS
<1>4. PICK r4 : r4 = Rule(TRUE, "none")
  OBVIOUS
<1>5. MatchedStage(stage, fields, s) = FirstOf(<<r1, r2, r3, r4>>)
  BY <1>1, <1>2, <1>3, <1>4 DEF MatchedStage
<1>6. /\ (r1.when <=> ~ s.matched) /\ r1.gives = "none"
      /\ (r2.when <=> looking) /\ r2.gives = "MATCHED_TO_JOBS"
      /\ (r3.when <=> (complete /\ ~ s.pending /\ ~ s.cscs)) /\ r3.gives = "READY_TO_PLACE"
      /\ r4.when /\ r4.gives = "none"
  BY <1>1, <1>2, <1>3, <1>4 DEF Rule
<1> QED
  BY <1>5, <1>6, FourRules

\* The flags the rules start from.
FlagsOf(data, s) == data.flags \cup (IF s.pending THEN {"waitingForOperator"} ELSE {})

UrgentFlags(data, s) == FlagsOf(data, s) \cup {"highPriority"}

\* What the next action speaks of where that depends on more than the rule.
Approval(s) == IF s.pending THEN {"approval"} ELSE {}

Sent(fields) == {"send"} \cup ({"salary"} \ fields)

\* What follows from the rules, as one case after the other.
Outcome(stage, data, fields, idle, s) ==
    IF s.pending /\ stage # "NEW" THEN Progress(stage, data.missing, data.followUp, {"approval"}, FlagsOf(data, s))
    ELSE IF s.placement = "cancelled" /\ stage = "PLACED"
    THEN Progress("LOOKING_FOR_WORK", {}, "now", {"engage", "find"}, (FlagsOf(data, s) \ {"waitingForOperator"}) \cup {"needsFollowUp"})
    ELSE IF stage = "CLOSED" THEN Progress("CLOSED", {}, "none", {}, FlagsOf(data, s))
    ELSE IF idle >= DormantAfter THEN Progress("DORMANT", {}, "now", Approval(s), FlagsOf(data, s) \cup {"needsFollowUp"})
    ELSE IF RequiredFields \ fields # {} /\ stage # "DORMANT"
    THEN Progress("PROFILE_INCOMPLETE", RequiredFields \ fields, "none", RequiredFields \ fields, FlagsOf(data, s))
    ELSE IF RequiredFields \ fields = {} /\ s.intent # "none"
    THEN Progress("LOOKING_FOR_WORK", {"salary"} \ fields, "none", Sent(fields), FlagsOf(data, s))
    ELSE IF MatchedStage(stage, fields, s) = "MATCHED_TO_JOBS"
    THEN Progress("MATCHED_TO_JOBS", {}, "none", {"interest"}, UrgentFlags(data, s))
    ELSE IF s.cscs
    THEN Progress("CSCS_VERIFICATION", {"card"}, "none", {"card", "result"}, UrgentFlags(data, s) \cup {"waitingForOperator"})
    ELSE IF MatchedStage(stage, fields, s) = "READY_TO_PLACE"
    THEN Progress("READY_TO_PLACE", {}, "none", {"start"}, UrgentFlags(data, s))
    ELSE IF s.placement = "started" THEN Progress("AFTERCARE", {}, "none", {"aftercare"}, FlagsOf(data, s))
    ELSE IF s.placement = "future"
    THEN Progress("PLACED", {}, "none", {"aftercare"}, FlagsOf(data, s) \ {"highPriority", "waitingForOperator"})
    ELSE DefaultProgress(stage, data, fields, s, FlagsOf(data, s))

\* The first rule that applies is the one the chain finds.
LEMMA RulesAreChain ==
    ASSUME NEW stage, NEW data, NEW fields, NEW idle, NEW s \in Contexts
    PROVE  computeNextProgressState(stage, data, fields, idle, s) = Outcome(stage, data, fields, idle, s)
<1> DEFINE flags == FlagsOf(data, s)
           match == MatchedStage(stage, fields, s)
           missing == RequiredFields \ fields
           urgent == UrgentFlags(data, s)
<1>1. PICK h1 : h1 = Rule(s.pending /\ stage # "NEW", Progress(stage, data.missing, data.followUp, {"approval"}, flags))
  OBVIOUS
<1>2. PICK h2 : h2 = Rule(s.placement = "cancelled" /\ stage = "PLACED",
         Progress("LOOKING_FOR_WORK", {}, "now", {"engage", "find"}, (flags \ {"waitingForOperator"}) \cup {"needsFollowUp"}))
  OBVIOUS
<1>3. PICK h3 : h3 = Rule(stage = "CLOSED", Progress("CLOSED", {}, "none", {}, flags))
  OBVIOUS
<1>4. PICK h4 : h4 = Rule(idle >= DormantAfter, Progress("DORMANT", {}, "now", Approval(s), flags \cup {"needsFollowUp"}))
  OBVIOUS
<1>5. PICK p1 : p1 = Rule(missing # {} /\ stage # "DORMANT", Progress("PROFILE_INCOMPLETE", missing, "none", missing, flags))
  OBVIOUS
<1>6. PICK p2 : p2 = Rule(missing = {} /\ s.intent # "none",
                          Progress("LOOKING_FOR_WORK", {"salary"} \ fields, "none", Sent(fields), flags))
  OBVIOUS
<1>7. PICK m1 : m1 = Rule(match = "MATCHED_TO_JOBS", Progress(match, {}, "none", {"interest"}, urgent))
  OBVIOUS
<1>8. PICK m2 : m2 = Rule(s.cscs, Progress("CSCS_VERIFICATION", {"card"}, "none", {"card", "result"}, urgent \cup {"waitingForOperator"}))
  OBVIOUS
<1>9. PICK m3 : m3 = Rule(match = "READY_TO_PLACE", Progress(match, {}, "none", {"start"}, urgent))
  OBVIOUS
<1>10. PICK l1 : l1 = Rule(s.placement = "started", Progress("AFTERCARE", {}, "none", {"aftercare"}, flags))
  OBVIOUS
<1>11. PICK l2 : l2 = Rule(s.placement = "future",
                           Progress("PLACED", {}, "none", {"aftercare"}, flags \ {"highPriority", "waitingForOperator"}))
  OBVIOUS
<1>12. PICK d : d = Rule(TRUE, DefaultProgress(stage, data, fields, s, flags))
  OBVIOUS
<1> DEFINE H == <<h1, h2, h3, h4>>
           P == <<p1, p2>>
           M == <<m1, m2, m3>>
           L == <<l1, l2>>
           D == <<d>>
           R == {h1, h2, h3, h4, p1, p2, m1, m2, m3, l1, l2, d}
<1>13. /\ HoldingRules(stage, data, idle, s, flags) = H
       /\ ProfileRules(stage, fields, s, flags) = P
       /\ MatchRules(match, s, urgent) = M
       /\ PlacementRules(s, flags) = L
       /\ <<Rule(TRUE, DefaultProgress(stage, data, fields, s, flags))>> = D
  BY <1>1, <1>2, <1>3, <1>4, <1>5, <1>6, <1>7, <1>8, <1>9, <1>10, <1>11, <1>12
     DEF HoldingRules, ProfileRules, MatchRules, PlacementRules, Approval, Sent
<1>14. computeNextProgressState(stage, data, fields, idle, s) = FirstOf(H \o P \o M \o L \o D)
  <2>1. computeNextProgressState(stage, data, fields, idle, s) =
          FirstOf(HoldingRules(stage, data, idle, s, flags) \o ProfileRules(stage, fields, s, flags)
                  \o MatchRules(match, s, urgent) \o PlacementRules(s, flags)
                  \o <<Rule(TRUE, DefaultProgress(stage, data, fields, s, flags))>>)
    BY DEF computeNextProgressState, FlagsOf, UrgentFlags
  <2> HIDE DEF H, P, M, L, D
  <2> QED
    BY <2>1, <1>13
<1>15. H \in Seq(R) /\ P \in Seq(R) /\ M \in Seq(R) /\ L \in Seq(R) /\ D \in Seq(R)
  <2>1. h1 \in R /\ h2 \in R /\ h3 \in R /\ h4 \in R /\ p1 \in R /\ p2 \in R /\ m1 \in R /\ m2 \in R
        /\ m3 \in R /\ l1 \in R /\ l2 \in R /\ d \in R
    OBVIOUS
  <2> HIDE DEF R
  <2> QED
    BY <2>1, Sequences
<1>16. /\ (h1.when <=> s.pending /\ stage # "NEW") /\ h1.gives = Progress(stage, data.missing, data.followUp, {"approval"}, flags)
       /\ (h2.when <=> s.placement = "cancelled" /\ stage = "PLACED")
       /\ h2.gives = Progress("LOOKING_FOR_WORK", {}, "now", {"engage", "find"}, (flags \ {"waitingForOperator"}) \cup {"needsFollowUp"})
       /\ (h3.when <=> stage = "CLOSED") /\ h3.gives = Progress("CLOSED", {}, "none", {}, flags)
       /\ (h4.when <=> idle >= DormantAfter) /\ h4.gives = Progress("DORMANT", {}, "now", Approval(s), flags \cup {"needsFollowUp"})
  BY <1>1, <1>2, <1>3, <1>4 DEF Rule
<1>17. /\ (p1.when <=> missing # {} /\ stage # "DORMANT")
       /\ p1.gives = Progress("PROFILE_INCOMPLETE", missing, "none", missing, flags)
       /\ (p2.when <=> missing = {} /\ s.intent # "none")
       /\ p2.gives = Progress("LOOKING_FOR_WORK", {"salary"} \ fields, "none", Sent(fields), flags)
  BY <1>5, <1>6 DEF Rule
<1>18. /\ (m1.when <=> match = "MATCHED_TO_JOBS") /\ m1.gives = Progress(match, {}, "none", {"interest"}, urgent)
       /\ (m2.when <=> s.cscs)
       /\ m2.gives = Progress("CSCS_VERIFICATION", {"card"}, "none", {"card", "result"}, urgent \cup {"waitingForOperator"})
       /\ (m3.when <=> match = "READY_TO_PLACE") /\ m3.gives = Progress(match, {}, "none", {"start"}, urgent)
  BY <1>7, <1>8, <1>9 DEF Rule
<1>19. /\ (l1.when <=> s.placement = "started") /\ l1.gives = Progress("AFTERCARE", {}, "none", {"aftercare"}, flags)
       /\ (l2.when <=> s.placement = "future")
       /\ l2.gives = Progress("PLACED", {}, "none", {"aftercare"}, flags \ {"highPriority", "waitingForOperator"})
       /\ d.when /\ d.gives = DefaultProgress(stage, data, fields, s, flags)
  BY <1>10, <1>11, <1>12 DEF Rule
<1>20. /\ Applies(H) <=> h1.when \/ h2.when \/ h3.when \/ h4.when
       /\ Applies(P) <=> p1.when \/ p2.when
       /\ Applies(M) <=> m1.when \/ m2.when \/ m3.when
       /\ Applies(L) <=> l1.when \/ l2.when
       /\ Applies(D) <=> d.when
  BY FourRules, ThreeRules, TwoRules, OneRule
<1>21. /\ h1.when => FirstOf(H) = h1.gives
       /\ ~ h1.when /\ h2.when => FirstOf(H) = h2.gives
       /\ ~ h1.when /\ ~ h2.when /\ h3.when => FirstOf(H) = h3.gives
       /\ ~ h1.when /\ ~ h2.when /\ ~ h3.when /\ h4.when => FirstOf(H) = h4.gives
  BY FourRules
<1>22. (p1.when => FirstOf(P) = p1.gives) /\ (~ p1.when /\ p2.when => FirstOf(P) = p2.gives)
  BY TwoRules
<1>23. /\ m1.when => FirstOf(M) = m1.gives
       /\ ~ m1.when /\ m2.when => FirstOf(M) = m2.gives
       /\ ~ m1.when /\ ~ m2.when /\ m3.when => FirstOf(M) = m3.gives
  BY ThreeRules
<1>24. (l1.when => FirstOf(L) = l1.gives) /\ (~ l1.when /\ l2.when => FirstOf(L) = l2.gives)
  BY TwoRules
<1>25. d.when => FirstOf(D) = d.gives
  BY OneRule
<1> DEFINE HP == H \o P
           HPM == HP \o M
           HPML == HPM \o L
<1> HIDE DEF H, P, M, L, D, R
<1>26. /\ HP \in Seq(R) /\ (Applies(HP) <=> Applies(H) \/ Applies(P))
       /\ Applies(H) => FirstOf(HP) = FirstOf(H)
       /\ ~ Applies(H) /\ Applies(P) => FirstOf(HP) = FirstOf(P)
  BY <1>15, FirstOfBoth
<1> HIDE DEF HP
<1>27. /\ HPM \in Seq(R) /\ (Applies(HPM) <=> Applies(HP) \/ Applies(M))
       /\ Applies(HP) => FirstOf(HPM) = FirstOf(HP)
       /\ ~ Applies(HP) /\ Applies(M) => FirstOf(HPM) = FirstOf(M)
  BY <1>15, <1>26, FirstOfBoth DEF HPM
<1> HIDE DEF HPM
<1>28. /\ HPML \in Seq(R)
       /\ (Applies(HPML) <=> Applies(HPM) \/ Applies(L))
       /\ Applies(HPM) => FirstOf(HPML) = FirstOf(HPM)
       /\ ~ Applies(HPM) /\ Applies(L) => FirstOf(HPML) = FirstOf(L)
  BY <1>15, <1>27, FirstOfBoth DEF HPML
<1> HIDE DEF HPML
<1>29. /\ Applies(HPML) => FirstOf(HPML \o D) = FirstOf(HPML)
       /\ ~ Applies(HPML) /\ Applies(D) => FirstOf(HPML \o D) = FirstOf(D)
  BY <1>15, <1>28, FirstOfBoth
<1> DEFINE all == FirstOf(HPML \o D)
<1>30. /\ h1.when => all = h1.gives
       /\ ~ h1.when /\ h2.when => all = h2.gives
       /\ ~ h1.when /\ ~ h2.when /\ h3.when => all = h3.gives
       /\ ~ h1.when /\ ~ h2.when /\ ~ h3.when /\ h4.when => all = h4.gives
  BY <1>20, <1>21, <1>26, <1>27, <1>28, <1>29
<1>31. ASSUME ~ h1.when, ~ h2.when, ~ h3.when, ~ h4.when
       PROVE  /\ p1.when => all = p1.gives
              /\ ~ p1.when /\ p2.when => all = p2.gives
  BY <1>31, <1>20, <1>22, <1>26, <1>27, <1>28, <1>29
<1>32. ASSUME ~ h1.when, ~ h2.when, ~ h3.when, ~ h4.when, ~ p1.when, ~ p2.when
       PROVE  /\ m1.when => all = m1.gives
              /\ ~ m1.when /\ m2.when => all = m2.gives
              /\ ~ m1.when /\ ~ m2.when /\ m3.when => all = m3.gives
  BY <1>32, <1>20, <1>23, <1>26, <1>27, <1>28, <1>29
<1>33. ASSUME ~ h1.when, ~ h2.when, ~ h3.when, ~ h4.when, ~ p1.when, ~ p2.when, ~ m1.when, ~ m2.when, ~ m3.when
       PROVE  /\ l1.when => all = l1.gives
              /\ ~ l1.when /\ l2.when => all = l2.gives
              /\ ~ l1.when /\ ~ l2.when => all = d.gives
  BY <1>33, <1>19, <1>20, <1>24, <1>25, <1>26, <1>27, <1>28, <1>29
<1> HIDE DEF all, flags, match, missing, urgent
<1>34. all = IF h1.when THEN h1.gives ELSE IF h2.when THEN h2.gives ELSE IF h3.when THEN h3.gives
             ELSE IF h4.when THEN h4.gives ELSE IF p1.when THEN p1.gives ELSE IF p2.when THEN p2.gives
             ELSE IF m1.when THEN m1.gives ELSE IF m2.when THEN m2.gives ELSE IF m3.when THEN m3.gives
             ELSE IF l1.when THEN l1.gives ELSE IF l2.when THEN l2.gives ELSE d.gives
  BY <1>30, <1>31, <1>32, <1>33
<1> QED
  BY <1>14, <1>16, <1>17, <1>18, <1>19, <1>34 DEF Outcome, all, HP, HPM, HPML, flags, match, missing, urgent

-----------------------------------------------------------------------------
(* Which rule applies depends on the stage, but not on the data.           *)

\* The number of the rule that is used.
RuleAt(stage, fields, idle, s) ==
    IF s.pending /\ stage # "NEW" THEN 1
    ELSE IF s.placement = "cancelled" /\ stage = "PLACED" THEN 2
    ELSE IF stage = "CLOSED" THEN 3
    ELSE IF idle >= DormantAfter THEN 4
    ELSE IF RequiredFields \ fields # {} /\ stage # "DORMANT" THEN 5
    ELSE IF RequiredFields \ fields = {} /\ s.intent # "none" THEN 6
    ELSE IF MatchedStage(stage, fields, s) = "MATCHED_TO_JOBS" THEN 7
    ELSE IF s.cscs THEN 8
    ELSE IF MatchedStage(stage, fields, s) = "READY_TO_PLACE" THEN 9
    ELSE IF s.placement = "started" THEN 10
    ELSE IF s.placement = "future" THEN 11
    ELSE 12

\* The stage a rule leads to.
StageBy(k, stage, fields) ==
    CASE k = 1 -> stage
      [] k = 2 \/ k = 6 -> "LOOKING_FOR_WORK"
      [] k = 3 -> "CLOSED"
      [] k = 4 -> "DORMANT"
      [] k = 5 -> "PROFILE_INCOMPLETE"
      [] k = 7 -> "MATCHED_TO_JOBS"
      [] k = 8 -> "CSCS_VERIFICATION"
      [] k = 9 -> "READY_TO_PLACE"
      [] k = 10 -> "AFTERCARE"
      [] k = 11 -> "PLACED"
      [] OTHER -> IF stage = "NEW" /\ RequiredFields \subseteq fields THEN "LOOKING_FOR_WORK" ELSE stage

\* The data a rule leads to.
Keeps(k, stage, fields) == k = 1 \/ (k = 12 /\ ~ (stage = "NEW" /\ RequiredFields \subseteq fields))

MissingBy(k, stage, data, fields) ==
    CASE Keeps(k, stage, fields) -> data.missing
      [] k = 5  -> RequiredFields \ fields
      [] k = 6  -> {"salary"} \ fields
      [] k = 8  -> {"card"}
      [] OTHER  -> {}

FollowUpBy(k, stage, data, fields) ==
    CASE Keeps(k, stage, fields) -> data.followUp
      [] k = 2 \/ k = 4            -> "now"
      [] OTHER                     -> "none"

ActionBy(k, stage, data, fields, s) ==
    CASE k = 1 -> {"approval"}
      [] k = 2 -> {"engage", "find"}
      [] k = 3 -> {}
      [] k = 4 -> Approval(s)
      [] k = 5 -> RequiredFields \ fields
      [] k = 6 -> Sent(fields)
      [] k = 7 -> {"interest"}
      [] k = 8 -> {"card", "result"}
      [] k = 9 -> {"start"}
      [] k = 10 \/ k = 11 -> {"aftercare"}
      [] OTHER -> IF Keeps(k, stage, fields) THEN data.action ELSE {"find"}

Due(s) == IF ~ s.pending /\ s.followUp THEN {"needsFollowUp"} ELSE {}

FlagsBy(k, data, s) ==
    CASE k = 2  -> (FlagsOf(data, s) \ {"waitingForOperator"}) \cup {"needsFollowUp"}
      [] k = 4  -> FlagsOf(data, s) \cup {"needsFollowUp"}
      [] k = 7 \/ k = 9 -> UrgentFlags(data, s)
      [] k = 8  -> UrgentFlags(data, s) \cup {"waitingForOperator"}
      [] k = 11 -> FlagsOf(data, s) \ {"highPriority", "waitingForOperator"}
      [] k = 12 -> FlagsOf(data, s) \cup Due(s)
      [] OTHER  -> FlagsOf(data, s)

DataBy(k, stage, data, fields, s) ==
    [stored |-> TRUE, missing |-> MissingBy(k, stage, data, fields),
     followUp |-> FollowUpBy(k, stage, data, fields),
     action |-> ActionBy(k, stage, data, fields, s), flags |-> FlagsBy(k, data, s)]

\* Twelve numbers are enough.
LEMMA RuleNumbers ==
    ASSUME NEW stage, NEW fields, NEW idle, NEW s
    PROVE  RuleAt(stage, fields, idle, s) \in {1, 2, 3, 4, 5, 6, 7, 8, 9, 10, 11, 12}
BY DEF RuleAt

\* The result of the rules, by the rule.
LEMMA OutcomeBy ==
    ASSUME NEW stage, NEW data, NEW fields, NEW idle \in Int, NEW s \in Contexts,
           NEW k \in {1, 2, 3, 4, 5, 6, 7, 8, 9, 10, 11, 12}, k = RuleAt(stage, fields, idle, s)
    PROVE  computeNextProgressState(stage, data, fields, idle, s)
             = [stage |-> StageBy(k, stage, fields), data |-> DataBy(k, stage, data, fields, s)]
<1> DEFINE flags == FlagsOf(data, s)
           urgent == UrgentFlags(data, s)
           lacking == RequiredFields \ fields
           default == DefaultProgress(stage, data, fields, s, flags)
           out == Outcome(stage, data, fields, idle, s)
           result == [stage |-> StageBy(k, stage, fields), data |-> DataBy(k, stage, data, fields, s)]
           c1 == s.pending /\ stage # "NEW"
           c2 == s.placement = "cancelled" /\ stage = "PLACED"
           c3 == stage = "CLOSED"
           c4 == idle >= DormantAfter
           c5 == RequiredFields \ fields # {} /\ stage # "DORMANT"
           c6 == RequiredFields \ fields = {} /\ s.intent # "none"
           c7 == MatchedStage(stage, fields, s) = "MATCHED_TO_JOBS"
           c8 == s.cscs
           c9 == MatchedStage(stage, fields, s) = "READY_TO_PLACE"
           c10 == s.placement = "started"
           c11 == s.placement = "future"
<1>1. computeNextProgressState(stage, data, fields, idle, s) = out
  BY RulesAreChain
<1>2. ASSUME k = 1 PROVE out = Progress(stage, data.missing, data.followUp, {"approval"}, flags)
  <2>1. c1
    BY <1>2, DormantAssumption DEF RuleAt
  <2> QED
    BY <2>1, Zenon DEF Outcome
<1>3. ASSUME k = 2 PROVE out = Progress("LOOKING_FOR_WORK", {}, "now", {"engage", "find"}, (flags \ {"waitingForOperator"}) \cup {"needsFollowUp"})
  <2>1. ~ c1 /\ c2
    BY <1>3, DormantAssumption DEF RuleAt
  <2> QED
    BY <2>1, Zenon DEF Outcome
<1>4. ASSUME k = 3 PROVE out = Progress("CLOSED", {}, "none", {}, flags)
  <2>1. ~ c1 /\ ~ c2 /\ c3
    BY <1>4, DormantAssumption DEF RuleAt
  <2> QED
    BY <2>1, Zenon DEF Outcome
<1>5. ASSUME k = 4 PROVE out = Progress("DORMANT", {}, "now", Approval(s), flags \cup {"needsFollowUp"})
  <2>1. ~ c1 /\ ~ c2 /\ ~ c3 /\ c4
    BY <1>5, DormantAssumption DEF RuleAt
  <2> QED
    BY <2>1, Zenon DEF Outcome
<1>6. ASSUME k = 5 PROVE out = Progress("PROFILE_INCOMPLETE", lacking, "none", lacking, flags)
  <2>1. ~ c1 /\ ~ c2 /\ ~ c3 /\ ~ c4 /\ c5
    BY <1>6, DormantAssumption DEF RuleAt
  <2> QED
    BY <2>1, Zenon DEF Outcome
<1>7. ASSUME k = 6 PROVE out = Progress("LOOKING_FOR_WORK", {"salary"} \ fields, "none", Sent(fields), flags)
  <2>1. ~ c1 /\ ~ c2 /\ ~ c3 /\ ~ c4 /\ ~ c5 /\ c6
    BY <1>7, DormantAssumption DEF RuleAt
  <2> QED
    BY <2>1, Zenon DEF Outcome
<1>8. ASSUME k = 7 PROVE out = Progress("MATCHED_TO_JOBS", {}, "none", {"interest"}, urgent)
  <2>1. ~ c1 /\ ~ c2 /\ ~ c3 /\ ~ c4 /\ ~ c5 /\ ~ c6 /\ c7
    BY <1>8, DormantAssumption DEF RuleAt
  <2> QED
    BY <2>1, Zenon DEF Outcome
<1>9. ASSUME k = 8 PROVE out = Progress("CSCS_VERIFICATION", {"card"}, "none", {"card", "result"}, urgent \cup {"waitingForOperator"})
  <2>1. ~ c1 /\ ~ c2 /\ ~ c3 /\ ~ c4 /\ ~ c5 /\ ~ c6 /\ ~ c7 /\ c8
    BY <1>9, DormantAssumption DEF RuleAt
  <2> QED
    BY <2>1, Zenon DEF Outcome
<1>10. ASSUME k = 9 PROVE out = Progress("READY_TO_PLACE", {}, "none", {"start"}, urgent)
  <2>1. ~ c1 /\ ~ c2 /\ ~ c3 /\ ~ c4 /\ ~ c5 /\ ~ c6 /\ ~ c7 /\ ~ c8 /\ c9
    BY <1>10, DormantAssumption DEF RuleAt
  <2> QED
    BY <2>1, Zenon DEF Outcome
<1>11. ASSUME k = 10 PROVE out = Progress("AFTERCARE", {}, "none", {"aftercare"}, flags)
  <2>1. ~ c1 /\ ~ c2 /\ ~ c3 /\ ~ c4 /\ ~ c5 /\ ~ c6 /\ ~ c7 /\ ~ c8 /\ ~ c9 /\ c10
    BY <1>11, DormantAssumption DEF RuleAt
  <2> QED
    BY <2>1, Zenon DEF Outcome
<1>12. ASSUME k = 11 PROVE out = Progress("PLACED", {}, "none", {"aftercare"}, flags \ {"highPriority", "waitingForOperator"})
  <2>1. ~ c1 /\ ~ c2 /\ ~ c3 /\ ~ c4 /\ ~ c5 /\ ~ c6 /\ ~ c7 /\ ~ c8 /\ ~ c9 /\ ~ c10 /\ c11
    BY <1>12, DormantAssumption DEF RuleAt
  <2> QED
    BY <2>1, Zenon DEF Outcome
<1>13. ASSUME k = 12 PROVE out = default
  <2>1. ~ c1 /\ ~ c2 /\ ~ c3 /\ ~ c4 /\ ~ c5 /\ ~ c6 /\ ~ c7 /\ ~ c8 /\ ~ c9 /\ ~ c10 /\ ~ c11
    BY <1>13, DormantAssumption DEF RuleAt
  <2> QED
    BY <2>1, Zenon DEF Outcome
<1> HIDE DEF out
<1>14. ASSUME k = 1 PROVE out = result
  <2>1. MissingBy(k, stage, data, fields) = data.missing /\ FollowUpBy(k, stage, data, fields) = data.followUp
        /\ ActionBy(k, stage, data, fields, s) = {"approval"}
    BY <1>14 DEF MissingBy, FollowUpBy, ActionBy, Keeps
  <2>2. FlagsBy(k, data, s) = flags /\ StageBy(k, stage, fields) = stage
    BY <1>14 DEF FlagsBy, StageBy
  <2> QED
    BY <1>2, <1>14, <2>1, <2>2 DEF DataBy, Progress
<1>15. ASSUME k = 2 PROVE out = result
  <2>1. MissingBy(k, stage, data, fields) = {} /\ FollowUpBy(k, stage, data, fields) = "now"
        /\ ActionBy(k, stage, data, fields, s) = {"engage", "find"}
    BY <1>15 DEF MissingBy, FollowUpBy, ActionBy, Keeps
  <2>2. FlagsBy(k, data, s) = (flags \ {"waitingForOperator"}) \cup {"needsFollowUp"} /\ StageBy(k, stage, fields) = "LOOKING_FOR_WORK"
    BY <1>15 DEF FlagsBy, StageBy
  <2> QED
    BY <1>3, <1>15, <2>1, <2>2 DEF DataBy, Progress
<1>16. ASSUME k = 3 PROVE out = result
  <2>1. MissingBy(k, stage, data, fields) = {} /\ FollowUpBy(k, stage, data, fields) = "none"
        /\ ActionBy(k, stage, data, fields, s) = {}
    BY <1>16 DEF MissingBy, FollowUpBy, ActionBy, Keeps
  <2>2. FlagsBy(k, data, s) = flags /\ StageBy(k, stage, fields) = "CLOSED"
    BY <1>16 DEF FlagsBy, StageBy
  <2> QED
    BY <1>4, <1>16, <2>1, <2>2 DEF DataBy, Progress
<1>17. ASSUME k = 4 PROVE out = result
  <2>1. MissingBy(k, stage, data, fields) = {} /\ FollowUpBy(k, stage, data, fields) = "now"
        /\ ActionBy(k, stage, data, fields, s) = Approval(s)
    BY <1>17 DEF MissingBy, FollowUpBy, ActionBy, Keeps
  <2>2. FlagsBy(k, data, s) = flags \cup {"needsFollowUp"} /\ StageBy(k, stage, fields) = "DORMANT"
    BY <1>17 DEF FlagsBy, StageBy
  <2> QED
    BY <1>5, <1>17, <2>1, <2>2 DEF DataBy, Progress
<1>18. ASSUME k = 5 PROVE out = result
  <2>1. MissingBy(k, stage, data, fields) = lacking /\ FollowUpBy(k, stage, data, fields) = "none"
        /\ ActionBy(k, stage, data, fields, s) = lacking
    BY <1>18 DEF MissingBy, FollowUpBy, ActionBy, Keeps
  <2>2. FlagsBy(k, data, s) = flags /\ StageBy(k, stage, fields) = "PROFILE_INCOMPLETE"
    BY <1>18 DEF FlagsBy, StageBy
  <2> QED
    BY <1>6, <1>18, <2>1, <2>2 DEF DataBy, Progress
<1>19. ASSUME k = 6 PROVE out = result
  <2>1. MissingBy(k, stage, data, fields) = {"salary"} \ fields /\ FollowUpBy(k, stage, data, fields) = "none"
        /\ ActionBy(k, stage, data, fields, s) = Sent(fields)
    BY <1>19 DEF MissingBy, FollowUpBy, ActionBy, Keeps
  <2>2. FlagsBy(k, data, s) = flags /\ StageBy(k, stage, fields) = "LOOKING_FOR_WORK"
    BY <1>19 DEF FlagsBy, StageBy
  <2> QED
    BY <1>7, <1>19, <2>1, <2>2 DEF DataBy, Progress
<1>20. ASSUME k = 7 PROVE out = result
  <2>1. MissingBy(k, stage, data, fields) = {} /\ FollowUpBy(k, stage, data, fields) = "none"
        /\ ActionBy(k, stage, data, fields, s) = {"interest"}
    BY <1>20 DEF MissingBy, FollowUpBy, ActionBy, Keeps
  <2>2. FlagsBy(k, data, s) = urgent /\ StageBy(k, stage, fields) = "MATCHED_TO_JOBS"
    BY <1>20 DEF FlagsBy, StageBy
  <2> QED
    BY <1>8, <1>20, <2>1, <2>2 DEF DataBy, Progress
<1>21. ASSUME k = 8 PROVE out = result
  <2>1. MissingBy(k, stage, data, fields) = {"card"} /\ FollowUpBy(k, stage, data, fields) = "none"
        /\ ActionBy(k, stage, data, fields, s) = {"card", "result"}
    BY <1>21 DEF MissingBy, FollowUpBy, ActionBy, Keeps
  <2>2. FlagsBy(k, data, s) = urgent \cup {"waitingForOperator"} /\ StageBy(k, stage, fields) = "CSCS_VERIFICATION"
    BY <1>21 DEF FlagsBy, StageBy
  <2> QED
    BY <1>9, <1>21, <2>1, <2>2 DEF DataBy, Progress
<1>22. ASSUME k = 9 PROVE out = result
  <2>1. MissingBy(k, stage, data, fields) = {} /\ FollowUpBy(k, stage, data, fields) = "none"
        /\ ActionBy(k, stage, data, fields, s) = {"start"}
    BY <1>22 DEF MissingBy, FollowUpBy, ActionBy, Keeps
  <2>2. FlagsBy(k, data, s) = urgent /\ StageBy(k, stage, fields) = "READY_TO_PLACE"
    BY <1>22 DEF FlagsBy, StageBy
  <2> QED
    BY <1>10, <1>22, <2>1, <2>2 DEF DataBy, Progress
<1>23. ASSUME k = 10 PROVE out = result
  <2>1. MissingBy(k, stage, data, fields) = {} /\ FollowUpBy(k, stage, data, fields) = "none"
        /\ ActionBy(k, stage, data, fields, s) = {"aftercare"}
    BY <1>23 DEF MissingBy, FollowUpBy, ActionBy, Keeps
  <2>2. FlagsBy(k, data, s) = flags /\ StageBy(k, stage, fields) = "AFTERCARE"
    BY <1>23 DEF FlagsBy, StageBy
  <2> QED
    BY <1>11, <1>23, <2>1, <2>2 DEF DataBy, Progress
<1>24. ASSUME k = 11 PROVE out = result
  <2>1. MissingBy(k, stage, data, fields) = {} /\ FollowUpBy(k, stage, data, fields) = "none"
        /\ ActionBy(k, stage, data, fields, s) = {"aftercare"}
    BY <1>24 DEF MissingBy, FollowUpBy, ActionBy, Keeps
  <2>2. FlagsBy(k, data, s) = flags \ {"highPriority", "waitingForOperator"} /\ StageBy(k, stage, fields) = "PLACED"
    BY <1>24 DEF FlagsBy, StageBy
  <2> QED
    BY <1>12, <1>24, <2>1, <2>2 DEF DataBy, Progress
<1>25. ASSUME k = 12 PROVE out = result
  <2>1. FlagsBy(k, data, s) = flags \cup Due(s)
    BY <1>25 DEF FlagsBy
  <2>2. CASE stage = "NEW" /\ RequiredFields \subseteq fields
    <3>1. MissingBy(k, stage, data, fields) = {} /\ FollowUpBy(k, stage, data, fields) = "none"
          /\ StageBy(k, stage, fields) = "LOOKING_FOR_WORK" /\ ActionBy(k, stage, data, fields, s) = {"find"}
      BY <1>25, <2>2 DEF MissingBy, FollowUpBy, ActionBy, Keeps, StageBy
    <3>2. default = Progress("LOOKING_FOR_WORK", {}, "none", {"find"}, flags \cup Due(s))
      BY <2>2 DEF DefaultProgress, Due
    <3> QED
      BY <1>13, <1>25, <2>1, <3>1, <3>2 DEF DataBy, Progress
  <2>3. CASE ~ (stage = "NEW" /\ RequiredFields \subseteq fields)
    <3>1. MissingBy(k, stage, data, fields) = data.missing /\ FollowUpBy(k, stage, data, fields) = data.followUp
          /\ StageBy(k, stage, fields) = stage /\ ActionBy(k, stage, data, fields, s) = data.action
      BY <1>25, <2>3 DEF MissingBy, FollowUpBy, ActionBy, Keeps, StageBy
    <3>2. default = Progress(stage, data.missing, data.followUp, data.action, flags \cup Due(s))
      BY <2>3 DEF DefaultProgress, Due
    <3> QED
      BY <1>13, <1>25, <2>1, <3>1, <3>2 DEF DataBy, Progress
  <2> QED
    BY <2>2, <2>3
<1> HIDE DEF result
<1> QED
  BY <1>1, <1>14, <1>15, <1>16, <1>17, <1>18, <1>19, <1>20, <1>21, <1>22, <1>23, <1>24, <1>25 DEF result

\* The data once they are written.
HeldBy(k, stage, data, fields, s) ==
    [DataBy(k, stage, data, fields, s) EXCEPT
        !.followUp = IF FollowUpBy(k, stage, data, fields) = "now" THEN "set" ELSE FollowUpBy(k, stage, data, fields)]

\* The stage and the data a rule has made.
MadeBy(k, stage, data, fields, s, st, d) ==
    st = StageBy(k, stage, fields) /\ d = HeldBy(k, stage, data, fields, s)

LEMMA TimeChanges ==
    ASSUME NEW stored, NEW missing, NEW before, NEW after, NEW action, NEW flags, NEW held,
           held = [stored |-> stored, missing |-> missing, followUp |-> before, action |-> action, flags |-> flags]
    PROVE  [held EXCEPT !.followUp = after]
             = [stored |-> stored, missing |-> missing, followUp |-> after, action |-> action, flags |-> flags]
OBVIOUS

\* A rule that applies to its own result, once it is written, gives that result again; but
\* a follow-up that is counted from now is counted anew.
LEMMA SameRuleSettles ==
    ASSUME NEW stage, NEW data, NEW fields, NEW s \in Contexts,
           NEW k \in {1, 2, 3, 4, 5, 6, 7, 8, 9, 10, 11, 12}, NEW st, NEW d,
           MadeBy(k, stage, data, fields, s, st, d)
    PROVE  /\ StageBy(k, st, fields) = st
           /\ HeldBy(k, st, d, fields, s) = d
           /\ k \notin {2, 4} => DataBy(k, st, d, fields, s) = d
<1> SUFFICES ASSUME st = StageBy(k, stage, fields), d = HeldBy(k, stage, data, fields, s)
             PROVE  /\ StageBy(k, st, fields) = st
                    /\ HeldBy(k, st, d, fields, s) = d
                    /\ k \notin {2, 4} => DataBy(k, st, d, fields, s) = d
  BY DEF MadeBy
<1> DEFINE time(f) == IF f = "now" THEN "set" ELSE f
<1>1. StageBy(k, st, fields) = st
  BY DEF StageBy
<1>2. /\ d.missing = MissingBy(k, stage, data, fields) /\ d.followUp = time(FollowUpBy(k, stage, data, fields))
      /\ d.action = ActionBy(k, stage, data, fields, s) /\ d.flags = FlagsBy(k, data, s)
      /\ d = [stored |-> TRUE, missing |-> d.missing, followUp |-> d.followUp, action |-> d.action, flags |-> d.flags]
  BY DEF HeldBy, DataBy
<1>3. Keeps(k, st, fields) \/ ~ Keeps(k, stage, fields)
  BY DEF Keeps, StageBy
<1>4. ~ Keeps(k, stage, fields) /\ Keeps(k, st, fields) => k = 12 /\ d.missing = {} /\ d.action = {"find"}
  <2>1. ~ Keeps(k, stage, fields) /\ Keeps(k, st, fields) => k = 12
    BY DEF Keeps
  <2> QED
    BY <1>2, <2>1 DEF MissingBy, ActionBy
<1>5. MissingBy(k, st, d, fields) = d.missing
  BY <1>2, <1>3, <1>4 DEF MissingBy, Keeps
<1>6. /\ time(FollowUpBy(k, st, d, fields)) = d.followUp
      /\ k \notin {2, 4} => FollowUpBy(k, st, d, fields) = d.followUp
  <2>1. CASE Keeps(k, st, fields)
    <3>1. FollowUpBy(k, st, d, fields) = d.followUp
      BY <2>1 DEF FollowUpBy, Keeps
    <3> QED
      BY <1>2, <3>1
  <2>2. CASE ~ Keeps(k, st, fields)
    <3>1. FollowUpBy(k, st, d, fields) = FollowUpBy(k, stage, data, fields)
      BY <1>3, <2>2 DEF FollowUpBy
    <3>2. k \notin {2, 4} => FollowUpBy(k, st, d, fields) = "none"
      BY <2>2 DEF FollowUpBy
    <3> QED
      BY <1>2, <3>1, <3>2
  <2> QED
    BY <2>1, <2>2
<1>7. FlagsBy(k, d, s) = d.flags
  <2> DEFINE W == IF s.pending THEN {"waitingForOperator"} ELSE {}
             D == Due(s)
  <2>1. FlagsOf(d, s) = d.flags \cup W /\ UrgentFlags(d, s) = (d.flags \cup W) \cup {"highPriority"}
        /\ FlagsOf(data, s) = data.flags \cup W /\ UrgentFlags(data, s) = (data.flags \cup W) \cup {"highPriority"}
    BY DEF FlagsOf, UrgentFlags
  <2>2. W \subseteq {"waitingForOperator"}
    OBVIOUS
  <2> HIDE DEF W, D
  <2>3. CASE k = 2
    BY <2>1, <2>2, <2>3, <1>2 DEF FlagsBy
  <2>4. CASE k = 4
    BY <2>1, <2>4, <1>2 DEF FlagsBy
  <2>5. CASE k = 7 \/ k = 9
    BY <2>1, <2>5, <1>2 DEF FlagsBy
  <2>6. CASE k = 8
    BY <2>1, <2>6, <1>2 DEF FlagsBy
  <2>7. CASE k = 11
    BY <2>1, <2>2, <2>7, <1>2 DEF FlagsBy
  <2>8. CASE k = 12
    BY <2>1, <2>8, <1>2 DEF FlagsBy, D
  <2>9. CASE k \notin {2, 4, 7, 8, 9, 11, 12}
    BY <2>1, <2>9, <1>2 DEF FlagsBy
  <2> QED
    BY <2>3, <2>4, <2>5, <2>6, <2>7, <2>8, <2>9
<1>8. ActionBy(k, st, d, fields, s) = d.action
  <2>1. CASE k = 12
    BY <1>2, <1>3, <1>4, <2>1 DEF ActionBy
  <2>2. CASE k # 12
    BY <1>2, <2>2 DEF ActionBy
  <2> QED
    BY <2>1, <2>2
<1>9. /\ DataBy(k, st, d, fields, s) = [stored |-> TRUE, missing |-> d.missing,
                                        followUp |-> FollowUpBy(k, st, d, fields), action |-> d.action, flags |-> d.flags]
      /\ HeldBy(k, st, d, fields, s) = [stored |-> TRUE, missing |-> d.missing,
                                        followUp |-> time(FollowUpBy(k, st, d, fields)), action |-> d.action, flags |-> d.flags]
  <2>1. PICK yes, f, g : yes = TRUE /\ f = FollowUpBy(k, st, d, fields) /\ g = time(f)
    OBVIOUS
  <2>2. DataBy(k, st, d, fields, s) = [stored |-> yes, missing |-> d.missing, followUp |-> f,
                                       action |-> d.action, flags |-> d.flags]
    BY <1>5, <1>7, <1>8, <2>1 DEF DataBy
  <2>3. HeldBy(k, st, d, fields, s) = [DataBy(k, st, d, fields, s) EXCEPT !.followUp = g]
    BY <2>1 DEF HeldBy
  <2>4. HeldBy(k, st, d, fields, s) = [stored |-> yes, missing |-> d.missing, followUp |-> g,
                                       action |-> d.action, flags |-> d.flags]
    BY <2>2, <2>3, TimeChanges
  <2> HIDE DEF time
  <2> QED
    BY <2>1, <2>2, <2>4
<1> HIDE DEF time
<1> QED
  BY <1>1, <1>2, <1>6, <1>9

\* What a rule that is used tells.
LEMMA RuleTells ==
    ASSUME NEW x, NEW fields, NEW idle \in Int, NEW s \in Contexts, ~ s.pending,
           NEW k \in {1, 2, 3, 4, 5, 6, 7, 8, 9, 10, 11, 12}, k = RuleAt(x, fields, idle, s)
    PROVE  /\ k # 1
           /\ k = 2 => s.placement = "cancelled" /\ x = "PLACED"
           /\ k = 3 => x = "CLOSED"
           /\ k \notin {1, 2} => ~ (s.placement = "cancelled" /\ x = "PLACED")
           /\ k \notin {1, 2, 3} => x # "CLOSED"
           /\ k = 4 => idle >= DormantAfter
           /\ k \notin {1, 2, 3, 4} => ~ (idle >= DormantAfter)
           /\ k = 5 => RequiredFields \ fields # {} /\ x # "DORMANT"
           /\ k = 6 => RequiredFields \ fields = {} /\ s.intent # "none"
           /\ k \notin {1, 2, 3, 4, 5, 6} => RequiredFields \ fields = {} \/ x = "DORMANT"
           /\ k \notin {1, 2, 3, 4, 5, 6} => RequiredFields \ fields # {} \/ s.intent = "none"
           /\ k = 7 => MatchedStage(x, fields, s) = "MATCHED_TO_JOBS"
           /\ k = 8 => s.cscs
           /\ k \notin {1, 2, 3, 4, 5, 6, 7, 8} => ~ s.cscs
           /\ k = 9 => MatchedStage(x, fields, s) = "READY_TO_PLACE"
           /\ k \notin {1, 2, 3, 4, 5, 6, 7, 8, 9} => MatchedStage(x, fields, s) \notin {"MATCHED_TO_JOBS", "READY_TO_PLACE"}
           /\ k = 10 => s.placement = "started"
           /\ k = 11 => s.placement = "future"
<1>1. k # 1
  BY DormantAssumption DEF RuleAt
<1>2. k = 2 => s.placement = "cancelled" /\ x = "PLACED"
  BY DormantAssumption DEF RuleAt
<1>3. k = 3 => x = "CLOSED"
  BY DormantAssumption DEF RuleAt
<1>4. k \notin {1, 2} => ~ (s.placement = "cancelled" /\ x = "PLACED")
  BY DormantAssumption DEF RuleAt
<1>5. k \notin {1, 2, 3} => x # "CLOSED"
  BY DormantAssumption DEF RuleAt
<1>6. k = 4 => idle >= DormantAfter
  BY DormantAssumption DEF RuleAt
<1>7. k \notin {1, 2, 3, 4} => ~ (idle >= DormantAfter)
  BY DormantAssumption DEF RuleAt
<1>8. k = 5 => RequiredFields \ fields # {} /\ x # "DORMANT"
  BY DormantAssumption DEF RuleAt
<1>9. k = 6 => RequiredFields \ fields = {} /\ s.intent # "none"
  BY DormantAssumption DEF RuleAt
<1>10. k \notin {1, 2, 3, 4, 5, 6} => RequiredFields \ fields = {} \/ x = "DORMANT"
  BY DormantAssumption DEF RuleAt
<1>11. k \notin {1, 2, 3, 4, 5, 6} => RequiredFields \ fields # {} \/ s.intent = "none"
  BY DormantAssumption DEF RuleAt
<1>12. k = 7 => MatchedStage(x, fields, s) = "MATCHED_TO_JOBS"
  BY DormantAssumption DEF RuleAt
<1>13. k = 8 => s.cscs
  BY DormantAssumption DEF RuleAt
<1>14. k \notin {1, 2, 3, 4, 5, 6, 7, 8} => ~ s.cscs
  BY DormantAssumption DEF RuleAt
<1>15. k = 9 => MatchedStage(x, fields, s) = "READY_TO_PLACE"
  BY DormantAssumption DEF RuleAt
<1>16. k \notin {1, 2, 3, 4, 5, 6, 7, 8, 9} => MatchedStage(x, fields, s) \notin {"MATCHED_TO_JOBS", "READY_TO_PLACE"}
  BY DormantAssumption DEF RuleAt
<1>17. k = 10 => s.placement = "started"
  BY DormantAssumption DEF RuleAt
<1>18. k = 11 => s.placement = "future"
  BY DormantAssumption DEF RuleAt
<1> QED
  BY <1>1, <1>2, <1>3, <1>4, <1>5, <1>6, <1>7, <1>8, <1>9, <1>10, <1>11, <1>12, <1>13, <1>14, <1>15, <1>16, <1>17, <1>18

\* The stage each rule leads to.
LEMMA StageTells ==
    ASSUME NEW x, NEW fields, NEW k \in {1, 2, 3, 4, 5, 6, 7, 8, 9, 10, 11, 12}
    PROVE  /\ k = 1 => StageBy(k, x, fields) = x
           /\ k = 2 => StageBy(k, x, fields) = "LOOKING_FOR_WORK"
           /\ k = 3 => StageBy(k, x, fields) = "CLOSED"
           /\ k = 4 => StageBy(k, x, fields) = "DORMANT"
           /\ k = 5 => StageBy(k, x, fields) = "PROFILE_INCOMPLETE"
           /\ k = 6 => StageBy(k, x, fields) = "LOOKING_FOR_WORK"
           /\ k = 7 => StageBy(k, x, fields) = "MATCHED_TO_JOBS"
           /\ k = 8 => StageBy(k, x, fields) = "CSCS_VERIFICATION"
           /\ k = 9 => StageBy(k, x, fields) = "READY_TO_PLACE"
           /\ k = 10 => StageBy(k, x, fields) = "AFTERCARE"
           /\ k = 11 => StageBy(k, x, fields) = "PLACED"
           /\ k = 12 /\ x = "NEW" /\ RequiredFields \subseteq fields => StageBy(k, x, fields) = "LOOKING_FOR_WORK"
           /\ k = 12 /\ ~ (x = "NEW" /\ RequiredFields \subseteq fields) => StageBy(k, x, fields) = x
<1>1. k = 1 => StageBy(k, x, fields) = x
  BY DEF StageBy
<1>2. k = 2 => StageBy(k, x, fields) = "LOOKING_FOR_WORK"
  BY DEF StageBy
<1>3. k = 3 => StageBy(k, x, fields) = "CLOSED"
  BY DEF StageBy
<1>4. k = 4 => StageBy(k, x, fields) = "DORMANT"
  BY DEF StageBy
<1>5. k = 5 => StageBy(k, x, fields) = "PROFILE_INCOMPLETE"
  BY DEF StageBy
<1>6. k = 6 => StageBy(k, x, fields) = "LOOKING_FOR_WORK"
  BY DEF StageBy
<1>7. k = 7 => StageBy(k, x, fields) = "MATCHED_TO_JOBS"
  BY DEF StageBy
<1>8. k = 8 => StageBy(k, x, fields) = "CSCS_VERIFICATION"
  BY DEF StageBy
<1>9. k = 9 => StageBy(k, x, fields) = "READY_TO_PLACE"
  BY DEF StageBy
<1>10. k = 10 => StageBy(k, x, fields) = "AFTERCARE"
  BY DEF StageBy
<1>11. k = 11 => StageBy(k, x, fields) = "PLACED"
  BY DEF StageBy
<1>12. k = 12 /\ x = "NEW" /\ RequiredFields \subseteq fields => StageBy(k, x, fields) = "LOOKING_FOR_WORK"
  BY DEF StageBy
<1>13. k = 12 /\ ~ (x = "NEW" /\ RequiredFields \subseteq fields) => StageBy(k, x, fields) = x
  BY DEF StageBy
<1> QED
  BY <1>1, <1>2, <1>3, <1>4, <1>5, <1>6, <1>7, <1>8, <1>9, <1>10, <1>11, <1>12, <1>13

\* After at most two calls the same rule applies again.
LEMMA RulesSettle ==
    ASSUME NEW s0, NEW fields, NEW idle \in Int, NEW s \in Contexts,
           NEW k0, NEW s1, NEW k1, NEW s2, NEW k2, NEW s3, NEW k3,
           k0 = RuleAt(s0, fields, idle, s), s1 = StageBy(k0, s0, fields),
           k1 = RuleAt(s1, fields, idle, s), s2 = StageBy(k1, s1, fields),
           k2 = RuleAt(s2, fields, idle, s), s3 = StageBy(k2, s2, fields),
           k3 = RuleAt(s3, fields, idle, s)
    PROVE  k1 = k0 \/ k2 = k1 \/ k3 = k2
<1> DEFINE silent == idle >= DormantAfter
           lacks == RequiredFields \ fields # {}
           At(x) == RuleAt(x, fields, idle, s)
           Match(x) == MatchedStage(x, fields, s)
<1>1. s.pending \in BOOLEAN /\ s.matched \in BOOLEAN /\ s.cscs \in BOOLEAN /\ silent \in BOOLEAN
  BY DormantAssumption DEF Contexts
<1>2. RequiredFields \subseteq fields <=> ~ lacks
  OBVIOUS
<1>3. k0 \in {1, 2, 3, 4, 5, 6, 7, 8, 9, 10, 11, 12}
  BY RuleNumbers
<1>4. CASE s.pending
  <2>1. CASE s1 # "NEW"
    <3>1. k1 = 1
      BY <1>4, <2>1 DEF RuleAt
    <3>2. s2 = s1
      BY <3>1, StageTells
    <3> QED
      BY <3>2
  <2>2. CASE s1 = "NEW"
    <3>1. s0 = "NEW"
      <4>1. PICK k \in {1, 2, 3, 4, 5, 6, 7, 8, 9, 10, 11, 12} : k = k0
        BY <1>3
      <4>2. s1 = StageBy(k, s0, fields)
        BY <4>1
      <4>3. k = 12 => s1 = "LOOKING_FOR_WORK" \/ s1 = s0
        BY <4>2, StageTells
      <4>4. k = 1 => s1 = s0
        BY <4>2, StageTells
      <4>5. k \notin {1, 12} => s1 # "NEW"
        BY <4>2, StageTells
      <4> QED
        BY <2>2, <4>3, <4>4, <4>5
    <3> QED
      BY <2>2, <3>1
  <2> QED
    BY <2>1, <2>2
<1>5. ASSUME ~ s.pending PROVE k1 = k0 \/ k2 = k1 \/ k3 = k2
  <2> DEFINE off(x) == s.placement = "cancelled" /\ x = "PLACED"
  <2>1. ASSUME NEW x, ~ off(x), x # "CLOSED", silent PROVE At(x) = 4
    BY <2>1, <1>5 DEF RuleAt
  <2>2. ASSUME NEW x, ~ off(x), x # "CLOSED", ~ silent, lacks, x # "DORMANT" PROVE At(x) = 5
    BY <2>2, <1>5 DEF RuleAt
  <2>3. ASSUME NEW x, ~ off(x), x # "CLOSED", ~ silent, ~ lacks, s.intent # "none" PROVE At(x) = 6
    BY <2>3, <1>5 DEF RuleAt
  <2>4. ASSUME NEW x, ~ off(x), x # "CLOSED", ~ silent, lacks => x = "DORMANT", lacks \/ s.intent = "none"
        PROVE  /\ Match(x) = "MATCHED_TO_JOBS" => At(x) = 7
               /\ Match(x) # "MATCHED_TO_JOBS" /\ s.cscs => At(x) = 8
               /\ Match(x) = "READY_TO_PLACE" /\ ~ s.cscs => At(x) = 9
               /\ Match(x) = "none" /\ ~ s.cscs /\ s.placement = "started" => At(x) = 10
               /\ Match(x) = "none" /\ ~ s.cscs /\ s.placement = "future" => At(x) = 11
               /\ Match(x) = "none" /\ ~ s.cscs /\ s.placement \notin {"started", "future"} => At(x) = 12
    BY <2>4, <1>5 DEF RuleAt
  <2>5. ASSUME NEW x
        PROVE  /\ At(x) \in {2, 3, 4, 5, 6, 7, 8, 9, 10, 11, 12}
               /\ At(x) = 2 => off(x)
               /\ At(x) = 3 => x = "CLOSED"
               /\ At(x) \notin {1, 2} => ~ off(x)
               /\ At(x) \notin {1, 2, 3} => x # "CLOSED"
               /\ At(x) = 4 => silent
               /\ At(x) \notin {1, 2, 3, 4} => ~ silent
               /\ At(x) = 5 => lacks /\ x # "DORMANT"
               /\ At(x) = 6 => ~ lacks /\ s.intent # "none"
               /\ At(x) \notin {1, 2, 3, 4, 5, 6} => (lacks => x = "DORMANT") /\ (lacks \/ s.intent = "none")
               /\ At(x) = 7 => Match(x) = "MATCHED_TO_JOBS"
               /\ At(x) = 8 => s.cscs
               /\ At(x) \notin {1, 2, 3, 4, 5, 6, 7, 8} => ~ s.cscs
               /\ At(x) = 9 => Match(x) = "READY_TO_PLACE"
               /\ At(x) \notin {1, 2, 3, 4, 5, 6, 7, 8, 9} => Match(x) \notin {"MATCHED_TO_JOBS", "READY_TO_PLACE"}
               /\ At(x) = 10 => s.placement = "started"
               /\ At(x) = 11 => s.placement = "future"
    <3>1. PICK k \in {1, 2, 3, 4, 5, 6, 7, 8, 9, 10, 11, 12} : k = At(x)
      BY RuleNumbers
    <3> QED
      BY <1>5, <3>1, RuleTells
  <2>6. ASSUME NEW x
        PROVE  /\ Match(x) \in {"none", "MATCHED_TO_JOBS", "READY_TO_PLACE"}
               /\ Match(x) = "MATCHED_TO_JOBS" <=> s.matched /\ x = "LOOKING_FOR_WORK"
               /\ Match(x) = "READY_TO_PLACE"
                    <=> s.matched /\ x # "LOOKING_FOR_WORK" /\ ~ lacks /\ ~ s.cscs
    BY <1>1, <1>2, <1>5, MatchedStageIs
  <2>7. ASSUME NEW x, At(x) \in {10, 11, 12}, ~ lacks PROVE ~ s.matched
    BY <2>7, <2>5, <2>6
  <2> DEFINE By(k, x) == StageBy(k, x, fields)
  <2>8. ASSUME NEW x
        PROVE  /\ By(2, x) = "LOOKING_FOR_WORK" /\ By(3, x) = "CLOSED" /\ By(4, x) = "DORMANT"
               /\ By(5, x) = "PROFILE_INCOMPLETE" /\ By(6, x) = "LOOKING_FOR_WORK" /\ By(7, x) = "MATCHED_TO_JOBS"
               /\ By(8, x) = "CSCS_VERIFICATION" /\ By(9, x) = "READY_TO_PLACE" /\ By(10, x) = "AFTERCARE"
               /\ By(11, x) = "PLACED" /\ (x # "NEW" \/ lacks => By(12, x) = x)
               /\ (x = "NEW" /\ ~ lacks => By(12, x) = "LOOKING_FOR_WORK")
    BY <1>2, StageTells
  <2>9. /\ k0 = At(s0) /\ s1 = By(k0, s0) /\ k1 = At(s1) /\ s2 = By(k1, s1)
        /\ k2 = At(s2) /\ s3 = By(k2, s2) /\ k3 = At(s3)
    OBVIOUS
  <2>10. k0 \in {2, 3, 4, 5, 6, 7, 8, 9, 10, 11, 12} /\ k1 \in {2, 3, 4, 5, 6, 7, 8, 9, 10, 11, 12}
         /\ k2 \in {2, 3, 4, 5, 6, 7, 8, 9, 10, 11, 12}
    BY <2>5, <2>9, RuleNumbers
  <2> HIDE DEF At, Match, By, silent, lacks
  <2>11. CASE k0 = 3
    BY <2>11, <2>5, <2>8, <2>9
  <2>12. CASE k0 = 4
    BY <2>12, <2>1, <2>5, <2>8, <2>9
  <2>13. CASE k0 = 5
    BY <2>13, <2>2, <2>5, <2>8, <2>9
  <2>14. CASE k0 = 6
    BY <2>14, <2>3, <2>5, <2>8, <2>9
  \* A card that is checked, or a placement: the contact was dormant, or stays.
  <2>15. CASE k0 \in {8, 9, 10, 11} /\ lacks
    <3>1. s1 \in {"CSCS_VERIFICATION", "READY_TO_PLACE", "AFTERCARE", "PLACED"} /\ ~ silent
      BY <2>15, <2>5, <2>8, <2>9
    <3>2. ~ off(s1)
      BY <2>15, <2>5, <2>8, <2>9
    <3>3. k1 = 5
      BY <2>2, <2>9, <2>15, <3>1, <3>2
    <3>4. s2 = "PROFILE_INCOMPLETE"
      BY <2>8, <2>9, <3>3
    <3> QED
      BY <2>2, <2>9, <2>15, <3>1, <3>3, <3>4
  <2>16. CASE k0 = 8 /\ ~ lacks
    BY <2>16, <2>4, <2>5, <2>6, <2>8, <2>9
  <2>17. CASE k0 = 9 /\ ~ lacks
    BY <2>17, <2>4, <2>5, <2>6, <2>8, <2>9
  <2>18. CASE k0 = 10 /\ ~ lacks
    BY <2>18, <2>4, <2>5, <2>6, <2>7, <2>8, <2>9
  <2>19. CASE k0 = 11 /\ ~ lacks
    BY <2>19, <2>4, <2>5, <2>6, <2>7, <2>8, <2>9
  <2>20. CASE k0 = 12
    <3>1. CASE s0 = "NEW" /\ ~ lacks
      <4>1. s1 = "LOOKING_FOR_WORK" /\ ~ s.matched /\ ~ silent /\ s.intent = "none" /\ ~ s.cscs
            /\ s.placement \notin {"started", "future"}
        BY <2>20, <3>1, <2>4, <2>5, <2>6, <2>7, <2>8, <2>9
      <4>2. k1 = 12
        BY <4>1, <3>1, <2>4, <2>6, <2>9
      <4> QED
        BY <4>2, <2>20
    <3>2. CASE ~ (s0 = "NEW" /\ ~ lacks)
      BY <2>20, <3>2, <2>8, <2>9
    <3> QED
      BY <3>1, <3>2
  \* Jobs match: the contact is told of them, then checked or ready.
  <2>21. ASSUME NEW x, NEW y, NEW z, At(x) = 7, y = By(7, x), z = By(At(y), y)
         PROVE  At(z) = At(y)
    <3>1. /\ x = "LOOKING_FOR_WORK" /\ s.matched /\ ~ silent /\ ~ lacks /\ s.intent = "none"
          /\ y = "MATCHED_TO_JOBS"
      BY <2>21, <2>5, <2>6, <2>8
    <3>2. CASE s.cscs
      <4>1. At(y) = 8 /\ z = "CSCS_VERIFICATION"
        BY <3>1, <3>2, <2>4, <2>6, <2>8, <2>21
      <4> QED
        BY <3>1, <3>2, <4>1, <2>4, <2>6
    <3>3. CASE ~ s.cscs
      <4>1. At(y) = 9 /\ z = "READY_TO_PLACE"
        BY <3>1, <3>3, <2>4, <2>6, <2>8, <2>21
      <4> QED
        BY <3>1, <3>3, <4>1, <2>4, <2>6
    <3> QED
      BY <3>2, <3>3
  <2>22. CASE k0 = 7
    BY <2>21, <2>22, <2>9
  \* A placement that is off: the contact looks for work again.
  <2>23. CASE k0 = 2
    <3>1. s1 = "LOOKING_FOR_WORK" /\ s.placement = "cancelled"
      BY <2>23, <2>5, <2>8, <2>9
    <3>2. CASE k1 = 4
      BY <3>2, <2>1, <2>5, <2>8, <2>9
    <3>3. CASE k1 = 5
      BY <3>3, <2>2, <2>5, <2>8, <2>9
    <3>4. CASE k1 = 7
      BY <3>4, <2>21, <2>9
    <3>5. CASE k1 = 8
      BY <3>1, <3>5, <2>4, <2>5, <2>6, <2>8, <2>9
    <3>6. k1 \in {4, 5, 6, 7, 8, 12}
      BY <3>1, <2>5, <2>6, <2>9, <2>10
    <3>7. CASE k1 \in {6, 12}
      BY <3>1, <3>7, <2>8, <2>9
    <3> QED
      BY <3>2, <3>3, <3>4, <3>5, <3>6, <3>7
  <2> QED
    BY <2>10, <2>11, <2>12, <2>13, <2>14, <2>15, <2>16, <2>17, <2>18, <2>19, <2>20, <2>22, <2>23
<1> QED
  BY <1>1, <1>4, <1>5

\* One call of the rules from a row is one rule with its stage and its data.
LEMMA OneCall ==
    ASSUME NEW st, NEW d, NEW fields, NEW idle \in Int, NEW s \in Contexts,
           NEW k, k = RuleAt(st, fields, idle, s),
           NEW x, x = computeNextProgressState(st, d, fields, idle, s)
    PROVE  /\ k \in {1, 2, 3, 4, 5, 6, 7, 8, 9, 10, 11, 12}
           /\ x = [stage |-> StageBy(k, st, fields), data |-> DataBy(k, st, d, fields, s)]
           /\ Written(x) = [stage |-> StageBy(k, st, fields), data |-> HeldBy(k, st, d, fields, s)]
<1>1. k \in {1, 2, 3, 4, 5, 6, 7, 8, 9, 10, 11, 12}
  BY RuleNumbers
<1>2. x = [stage |-> StageBy(k, st, fields), data |-> DataBy(k, st, d, fields, s)]
  BY <1>1, OutcomeBy
<1>3. PICK stage, data : stage = StageBy(k, st, fields) /\ data = DataBy(k, st, d, fields, s)
  OBVIOUS
<1>4. x = [stage |-> stage, data |-> data] /\ data.followUp = FollowUpBy(k, st, d, fields)
  BY <1>2, <1>3 DEF DataBy
<1>5. Written(x) = [stage |-> stage, data |-> [data EXCEPT !.followUp = IF data.followUp = "now" THEN "set" ELSE data.followUp]]
  BY <1>4 DEF Written
<1> QED
  BY <1>1, <1>2, <1>3, <1>4, <1>5 DEF HeldBy

\* A row that the next call leaves alone, or that of a silent contact, whose follow-up it
\* counts anew.
Rests(w, fields, idle, s) ==
    LET next == computeNextProgressState(w.stage, w.data, fields, idle, s)
    IN  Written(next) = w /\ (next = w \/ (w.stage = "DORMANT" /\ ~ s.pending /\ idle >= DormantAfter))

\* Where the rule that made a row applies again.
LEMMA RestsBySameRule ==
    ASSUME NEW stage, NEW data, NEW fields, NEW idle \in Int, NEW s \in Contexts,
           NEW k, NEW st, NEW d, k = RuleAt(st, fields, idle, s),
           MadeBy(k, stage, data, fields, s, st, d)
    PROVE  Rests([stage |-> st, data |-> d], fields, idle, s)
<1>1. k \in {1, 2, 3, 4, 5, 6, 7, 8, 9, 10, 11, 12}
  BY RuleNumbers
<1>2. PICK w : w = [stage |-> st, data |-> d]
  OBVIOUS
<1>3. w.stage = st /\ w.data = d
  BY <1>2
<1>4. PICK next : next = computeNextProgressState(st, d, fields, idle, s)
  OBVIOUS
<1>5. /\ next = [stage |-> StageBy(k, st, fields), data |-> DataBy(k, st, d, fields, s)]
      /\ Written(next) = [stage |-> StageBy(k, st, fields), data |-> HeldBy(k, st, d, fields, s)]
  BY <1>4, OneCall
<1>6. /\ StageBy(k, st, fields) = st /\ HeldBy(k, st, d, fields, s) = d
      /\ k \notin {2, 4} => DataBy(k, st, d, fields, s) = d
  BY <1>1, SameRuleSettles
<1>7. Written(next) = w /\ (k \notin {2, 4} => next = w)
  BY <1>2, <1>6, <1>5
<1>8. k # 2
  <2>1. ASSUME k = 2 PROVE FALSE
    <3>1. st = "LOOKING_FOR_WORK"
      BY <1>1, <2>1, StageTells DEF MadeBy
    <3>2. RuleAt(st, fields, idle, s) # 2
      BY <3>1, DormantAssumption DEF RuleAt
    <3> QED
      BY <2>1, <3>2
  <2> QED
    BY <2>1
<1>9. k = 4 => st = "DORMANT" /\ ~ s.pending /\ idle >= DormantAfter
  <2>1. ASSUME k = 4 PROVE st = "DORMANT"
    BY <1>1, <2>1, StageTells DEF MadeBy
  <2>2. RuleAt(st, fields, idle, s) = 4 => ~ (s.pending /\ st # "NEW") /\ idle >= DormantAfter
    BY DormantAssumption DEF RuleAt
  <2> QED
    BY <2>1, <2>2
<1> QED
  BY <1>2, <1>3, <1>4, <1>7, <1>8, <1>9 DEF Rests

\* From any row, one of the first three calls of the rules makes a row that rests.
LEMMA RulesConverge ==
    ASSUME NEW s0, NEW d0, NEW fields, NEW idle \in Int, NEW s \in Contexts, NEW w1, NEW w2, NEW w3,
           w1 = Written(computeNextProgressState(s0, d0, fields, idle, s)),
           w2 = Written(computeNextProgressState(w1.stage, w1.data, fields, idle, s)),
           w3 = Written(computeNextProgressState(w2.stage, w2.data, fields, idle, s))
    PROVE  Rests(w1, fields, idle, s) \/ Rests(w2, fields, idle, s) \/ Rests(w3, fields, idle, s)
<1>1. PICK s1, d1, s2, d2, s3, d3 : /\ s1 = w1.stage /\ d1 = w1.data /\ s2 = w2.stage /\ d2 = w2.data
                                    /\ s3 = w3.stage /\ d3 = w3.data
  OBVIOUS
<1>2. PICK k0, k1, k2, k3 : /\ k0 = RuleAt(s0, fields, idle, s) /\ k1 = RuleAt(s1, fields, idle, s)
                            /\ k2 = RuleAt(s2, fields, idle, s) /\ k3 = RuleAt(s3, fields, idle, s)
  OBVIOUS
<1>3. /\ w1 = Written(computeNextProgressState(s0, d0, fields, idle, s))
      /\ w2 = Written(computeNextProgressState(s1, d1, fields, idle, s))
      /\ w3 = Written(computeNextProgressState(s2, d2, fields, idle, s))
  BY <1>1
<1>4. w1 = [stage |-> StageBy(k0, s0, fields), data |-> HeldBy(k0, s0, d0, fields, s)]
  BY <1>2, <1>3, OneCall
<1>5. w2 = [stage |-> StageBy(k1, s1, fields), data |-> HeldBy(k1, s1, d1, fields, s)]
  BY <1>2, <1>3, OneCall
<1>6. w3 = [stage |-> StageBy(k2, s2, fields), data |-> HeldBy(k2, s2, d2, fields, s)]
  BY <1>2, <1>3, OneCall
<1>7. /\ s1 = StageBy(k0, s0, fields) /\ d1 = HeldBy(k0, s0, d0, fields, s) /\ w1 = [stage |-> s1, data |-> d1]
      /\ s2 = StageBy(k1, s1, fields) /\ d2 = HeldBy(k1, s1, d1, fields, s) /\ w2 = [stage |-> s2, data |-> d2]
      /\ s3 = StageBy(k2, s2, fields) /\ d3 = HeldBy(k2, s2, d2, fields, s) /\ w3 = [stage |-> s3, data |-> d3]
  BY <1>1, <1>4, <1>5, <1>6
<1>8. k1 = k0 \/ k2 = k1 \/ k3 = k2
  BY <1>2, <1>7, RulesSettle
<1>9. ASSUME k1 = k0 PROVE Rests(w1, fields, idle, s)
  <2>1. k0 = RuleAt(s1, fields, idle, s)
    BY <1>2, <1>9
  <2>2. MadeBy(k0, s0, d0, fields, s, s1, d1)
    BY <1>7 DEF MadeBy
  <2>3. Rests([stage |-> s1, data |-> d1], fields, idle, s)
    BY <2>1, <2>2, RestsBySameRule
  <2> QED
    BY <1>7, <2>3
<1>10. ASSUME k2 = k1 PROVE Rests(w2, fields, idle, s)
  <2>1. k1 = RuleAt(s2, fields, idle, s)
    BY <1>2, <1>10
  <2>2. MadeBy(k1, s1, d1, fields, s, s2, d2)
    BY <1>7 DEF MadeBy
  <2>3. Rests([stage |-> s2, data |-> d2], fields, idle, s)
    BY <2>1, <2>2, RestsBySameRule
  <2> QED
    BY <1>7, <2>3
<1>11. ASSUME k3 = k2 PROVE Rests(w3, fields, idle, s)
  <2>1. k2 = RuleAt(s3, fields, idle, s)
    BY <1>2, <1>11
  <2>2. MadeBy(k2, s2, d2, fields, s, s3, d3)
    BY <1>7 DEF MadeBy
  <2>3. Rests([stage |-> s3, data |-> d3], fields, idle, s)
    BY <2>1, <2>2, RestsBySameRule
  <2> QED
    BY <1>7, <2>3
<1> QED
  BY <1>8, <1>9, <1>10, <1>11

\* Applying the state machine of the stages again and again, in one situation and on one
\* day, comes to rest within three calls, from every row the program can have: the stage and
\* the data stay, and nothing is written but another follow-up of a silent contact.
THEOREM StagesComeToRest == Spec => []StagesConverge
<1>1. TypeInv => StagesConverge
  <2> SUFFICES ASSUME TypeInv, NEW s \in Situations
               PROVE  LET here  == [stage |-> row.stage, data |-> row.data]
                          one   == After(here, s)
                          two   == After(one, s)
                          three == After(two, s)
                      IN  Settled(here, s) \/ Settled(one, s) \/ Settled(two, s) \/ Settled(three, s)
    BY DEF StagesConverge
  <2>1. row \in Rows /\ today - last \in Int /\ s \in Contexts
    BY InputsAssumption DEF TypeInv, TypeOK
  <2>2. PICK here, fields, idle :
          here = [stage |-> row.stage, data |-> row.data] /\ fields = profile /\ idle = today - last
    OBVIOUS
  <2>3. here \in ProgressTypes /\ idle \in Int
    BY <2>1, <2>2 DEF Rows, ProgressTypes
  \* A row that the rules lead to: Computed copies what they give.
  <2>4. ASSUME NEW w \in ProgressTypes
        PROVE  /\ Computed(w, profile, s) = computeNextProgressState(w.stage, w.data, fields, idle, s)
               /\ After(w, s) = Written(computeNextProgressState(w.stage, w.data, fields, idle, s))
               /\ After(w, s) \in ProgressTypes
               /\ Rests(w, fields, idle, s) => Settled(w, s)
    <3>1. PICK x \in ResultTypes : x = computeNextProgressState(w.stage, w.data, fields, idle, s)
      BY <2>1, <2>3, ComputedTypes DEF ProgressTypes
    <3>2. x = [stage |-> x.stage, data |-> x.data]
      BY DEF ResultTypes
    <3>3. Computed(w, profile, s) = x
      BY <2>2, <3>1, <3>2 DEF Computed
    <3>4. After(w, s) = Written(x) /\ Written(x) \in ProgressTypes
      BY <3>3, WrittenTypes DEF After
    <3>5. Rests(w, fields, idle, s) => Settled(w, s)
      BY <2>2, <3>1, <3>3 DEF Rests, Settled, Silent
    <3> QED
      BY <3>1, <3>3, <3>4, <3>5
  <2>5. PICK one \in ProgressTypes : one = After(here, s)
    BY <2>3, <2>4
  <2>6. PICK two \in ProgressTypes : two = After(one, s)
    BY <2>4
  <2>7. PICK three \in ProgressTypes : three = After(two, s)
    BY <2>4
  <2>8. Rests(one, fields, idle, s) \/ Rests(two, fields, idle, s) \/ Rests(three, fields, idle, s)
    BY <2>1, <2>3, <2>4, <2>5, <2>6, <2>7, RulesConverge
  <2>9. Settled(one, s) \/ Settled(two, s) \/ Settled(three, s)
    BY <2>4, <2>8
  <2> QED
    BY <2>2, <2>5, <2>6, <2>7, <2>9
<1> QED
  BY <1>1, TypeInvAlways, PTL

-----------------------------------------------------------------------------
(* Updates of the stage: their rules are the same.                         *)

LEMMA SameRules ==
    ASSUME NEW stage, NEW data, NEW fields, NEW days, NEW s
    PROVE  Update!computeNextProgressState(stage, data, fields, days, s)
             = computeNextProgressState(stage, data, fields, days, s)
BY Zenon DEF Update!computeNextProgressState, computeNextProgressState,
             Update!HoldingRules, HoldingRules, Update!ProfileRules, ProfileRules,
             Update!MatchRules, MatchRules, Update!PlacementRules, PlacementRules,
             Update!MatchedStage, MatchedStage, Update!DefaultProgress, DefaultProgress,
             Update!RequiredFields, RequiredFields, Update!Progress, Progress,
             Update!FirstOf, FirstOf, Update!Rule, Rule

LEMMA SameWriting == \A x : Update!Written(x) = Written(x)
BY Zenon DEF Update!Written, Written

Kinds == {"approval", "question", "card", "outreach", "checkIn"}

\* None is no id, no kind of task and no kind of caller.
NoneIsNoTask == None \notin ContactTasks /\ None \notin Kinds /\ None \notin {"move", "check"}

TaskTypes == [kind : Kinds \cup {None}, open : BOOLEAN]

Profiles == {{}, RequiredFields}

CallerTypes ==
    [pc : {"idle", "profile", "tasks", "cards", "followUps", "match", "placement", "row", "write"},
     by : {"move", "check"} \cup {None}, task : ContactTasks \cup {None}, move : Update!Moves \cup {None},
     atJob : BOOLEAN, profile : Profiles, seen : Contexts, read : ProgressTypes, next : ProgressTypes]

\* The task a caller is about is one it can see: a card for a check, what the pipeline has
\* made for a move.
AboutOwn(q, ts) ==
    /\ q.task # None => ts[q.task].kind \in IF q.by = "move" THEN {"outreach", "checkIn"} ELSE {"card"}
    /\ q.by = "check" => q.task # None

\* Once it has looked at the tasks, it has seen its own if that still holds the stage.
SawOwn(q, ts) ==
    /\ q.pc \in {"cards", "followUps", "match", "placement", "row", "write"}
    /\ q.task # None /\ ts[q.task].kind \in {"approval", "outreach", "card"} /\ ts[q.task].open
    => q.seen.pending

\* A placement is seen by a move at its job only.
SawPlacement(q, pl) ==
    /\ q.seen.placement # "cancelled"
    /\ q.seen.placement # "none" => q.by = "move" /\ q.atJob /\ pl # "none"

\* What a move is for.
SawIntent(q) == q.by = "move" => q.move \in Update!Moves /\ q.seen.intent = Update!Intent(q.move)

\* What it is about to write follows from what it has seen.
ByRules(q) ==
    q.pc = "write" =>
      \E days \in Int :
         q.next = Written(computeNextProgressState(q.read.stage, q.read.data, q.profile, days, q.seen))

CallerOK(q, ts, pl) ==
    /\ q \in CallerTypes
    /\ q.pc # "idle" => q.by \in {"move", "check"}
    /\ AboutOwn(q, ts) /\ SawOwn(q, ts) /\ SawPlacement(q, pl) /\ SawIntent(q) /\ ByRules(q)

WorldOK ==
    /\ contact \in ProgressTypes
    /\ contactTasks \in [ContactTasks -> TaskTypes]
    /\ placement \in {"none", "future", "started"}
    /\ contactFacts \in Profiles /\ silentDays \in Int
    /\ jobMatch \in {"none", "open", "closed"}

UpdateInv ==
    /\ WorldOK
    /\ DOMAIN updater = Updaters
    /\ updater = [c \in Updaters |-> updater[c]]
    /\ \A c \in Updaters : CallerOK(updater[c], contactTasks, placement)

\* A task keeps its kind, and is not opened again; a placement stays.
Onwards(ts, ts2, pl, pl2) ==
    /\ \A t \in ContactTasks : ts[t].kind # None => ts2[t].kind = ts[t].kind /\ (ts2[t].open => ts[t].open)
    /\ pl # "none" => pl2 # "none"

LEMMA OnwardsKeeps ==
    ASSUME NoneIsNoTask, NEW q, NEW ts, NEW pl, NEW ts2, NEW pl2,
           CallerOK(q, ts, pl), Onwards(ts, ts2, pl, pl2)
    PROVE  CallerOK(q, ts2, pl2)
<1>1. q.task # None => q.task \in ContactTasks /\ ts[q.task].kind # None
  BY DEF CallerOK, CallerTypes, AboutOwn, NoneIsNoTask, Kinds
<1>2. q.task # None => ts2[q.task].kind = ts[q.task].kind /\ (ts2[q.task].open => ts[q.task].open)
  BY <1>1 DEF Onwards
<1>3. AboutOwn(q, ts2)
  BY <1>2 DEF CallerOK, AboutOwn
<1>4. SawOwn(q, ts2)
  BY <1>2 DEF CallerOK, SawOwn
<1>5. SawPlacement(q, pl2)
  BY DEF CallerOK, SawPlacement, Onwards
<1> QED
  BY <1>3, <1>4, <1>5 DEF CallerOK

\* One caller goes on, and nothing else changes.
LEMMA CallerGoes ==
    ASSUME UpdateInv, NEW c \in Updaters, NEW q, CallerOK(q, contactTasks, placement),
           updater' = [updater EXCEPT ![c] = q],
           UNCHANGED <<contact, contactTasks, jobMatch, placement, contactFacts, silentDays>>
    PROVE  UpdateInv'
<1>1. WorldOK'
  BY DEF UpdateInv, WorldOK
<1>2. \A d \in Updaters : CallerOK(updater'[d], contactTasks, placement)
  BY DEF UpdateInv
<1> QED
  BY <1>1, <1>2 DEF UpdateInv

\* The world goes on, and no caller.
LEMMA WorldGoes ==
    ASSUME NoneIsNoTask, UpdateInv, WorldOK', UNCHANGED updater, Onwards(contactTasks, contactTasks', placement, placement')
    PROVE  UpdateInv'
<1>1. PICK ts, pl : ts = contactTasks' /\ pl = placement'
  OBVIOUS
<1>2. \A d \in Updaters : CallerOK(updater[d], ts, pl)
  BY <1>1, OnwardsKeeps DEF UpdateInv
<1> QED
  BY <1>1, <1>2 DEF UpdateInv

\* A caller that rests.
LEMMA RestOK ==
    ASSUME NEW ts, NEW pl, NoneIsNoTask
    PROVE  CallerOK(Update!Rest, ts, pl)
<1>1. Update!Rest.pc = "idle" /\ Update!Rest.by = None /\ Update!Rest.task = None
      /\ Update!Rest.seen = Update!Unseen
  BY DEF Update!Rest
<1>2. Update!Rest.by \notin {"move", "check"}
  BY <1>1 DEF NoneIsNoTask
<1>3. Update!Fresh \in ProgressTypes /\ Update!Unseen \in Contexts
  BY DEF Update!Fresh, Update!NoData, ProgressTypes, Stages, Data, DataWith, Update!Unseen, Contexts
<1>4. Update!Rest \in CallerTypes
  BY <1>3 DEF Update!Rest, CallerTypes, Profiles
<1> QED
  BY <1>1, <1>2, <1>4 DEF CallerOK, AboutOwn, SawOwn, SawPlacement, SawIntent, ByRules, Update!Unseen

LEMMA UpdateInit == NoneIsNoTask /\ Update!Init => UpdateInv
<1> SUFFICES ASSUME NoneIsNoTask, Update!Init PROVE UpdateInv
  OBVIOUS
<1>1. contact \in ProgressTypes
  BY DEF Update!Init, Update!Fresh, Update!NoData, ProgressTypes, Stages, Data, DataWith
<1>2. contactTasks \in [ContactTasks -> TaskTypes]
  <2>1. PICK none, card : none = Update!NoTask /\ card = [kind |-> "card", open |-> TRUE]
    OBVIOUS
  <2>2. none \in TaskTypes /\ card \in TaskTypes
    BY <2>1 DEF Update!NoTask, TaskTypes, Kinds
  <2>3. contactTasks \in [ContactTasks -> {none, card}]
    BY <2>1 DEF Update!Init
  <2> QED
    BY <2>2, <2>3
<1>3. WorldOK
  BY <1>1, <1>2 DEF Update!Init, WorldOK, Profiles, Update!RequiredFields, RequiredFields
<1>4. updater = [c \in Updaters |-> Update!Rest]
  BY DEF Update!Init
<1> QED
  BY <1>3, <1>4, RestOK DEF UpdateInv

\* A new task takes a free place.
LEMMA NewTaskGoes ==
    ASSUME UpdateInv, NoneIsNoTask, NEW t \in ContactTasks, NEW kind \in Kinds, Update!Free(t), Update!NewTask(t, kind)
    PROVE  /\ contactTasks' \in [ContactTasks -> TaskTypes] /\ contactTasks'[t].kind = kind
           /\ \A pl : Onwards(contactTasks, contactTasks', pl, pl)
<1>1. PICK new : new = [kind |-> kind, open |-> TRUE]
  OBVIOUS
<1>2. new \in TaskTypes /\ new.kind = kind
  BY <1>1 DEF TaskTypes
<1>3. contactTasks' = [contactTasks EXCEPT ![t] = new] /\ contactTasks[t].kind = None
  BY <1>1 DEF Update!NewTask, Update!Free
<1> QED
  BY <1>2, <1>3 DEF UpdateInv, WorldOK, Onwards

LEMMA StartMoveSafe ==
    ASSUME NoneIsNoTask, UpdateInv, NEW c \in Updaters, Update!StartMove(c)
    PROVE  UpdateInv'
<1>1. PICK move \in Update!Moves, atJob \in BOOLEAN, t \in ContactTasks \cup {None} :
          /\ t # None => Update!Free(t) /\ move \in {"OFFER_SENT", "START_CONFIRMED"}
          /\ updater' = [updater EXCEPT ![c] =
                [Update!Rest EXCEPT !.pc = "tasks", !.by = "move", !.task = t, !.move = move, !.atJob = atJob,
                             !.profile = contactFacts, !.seen.intent = Update!Intent(move)]]
          /\ IF t = None THEN UNCHANGED contactTasks
             ELSE Update!NewTask(t, IF move = "OFFER_SENT" THEN "outreach" ELSE "checkIn")
  BY DEF Update!StartMove
<1>2. UNCHANGED <<contact, jobMatch, placement, contactFacts, silentDays>>
  BY DEF Update!StartMove
<1>3. PICK seen : seen = [Update!Unseen EXCEPT !.intent = Update!Intent(move)]
  OBVIOUS
<1>4. seen \in Contexts /\ seen.placement = "none" /\ seen.intent = Update!Intent(move)
  BY <1>3 DEF Update!Unseen, Contexts, Update!Intent, Update!Moves
<1>5. PICK q : q = [Update!Rest EXCEPT !.pc = "tasks", !.by = "move", !.task = t, !.move = move, !.atJob = atJob,
                             !.profile = contactFacts, !.seen.intent = Update!Intent(move)]
  OBVIOUS
<1>6. /\ q.pc = "tasks" /\ q.by = "move" /\ q.task = t /\ q.move = move /\ q.atJob = atJob
      /\ q.profile = contactFacts /\ q.seen = seen
  BY <1>3, <1>5 DEF Update!Rest
<1>7. q \in CallerTypes
  <2>1. Update!Rest \in CallerTypes
    BY RestOK DEF CallerOK
  <2>2. q = [Update!Rest EXCEPT !.pc = "tasks", !.by = "move", !.task = t, !.move = move, !.atJob = atJob,
                             !.profile = contactFacts, !.seen = seen]
    BY <1>3, <1>5 DEF Update!Rest
  <2>3. contactFacts \in Profiles
    BY DEF UpdateInv, WorldOK
  <2> HIDE DEF Profiles
  <2> QED
    BY <1>4, <2>1, <2>2, <2>3 DEF CallerTypes
<1>8. /\ contactTasks' \in [ContactTasks -> TaskTypes] /\ Onwards(contactTasks, contactTasks', placement, placement)
      /\ t # None => contactTasks'[t].kind \in {"outreach", "checkIn"}
  <2>1. CASE t = None
    BY <1>1, <2>1 DEF UpdateInv, WorldOK, Onwards
  <2>2. CASE t # None
    <3>1. PICK kind \in {"outreach", "checkIn"} : Update!NewTask(t, kind)
      BY <1>1, <2>2
    <3> QED
      BY <1>1, <2>2, <3>1, NewTaskGoes DEF Kinds
  <2> QED
    BY <2>1, <2>2
<1>9. PICK ts : ts = contactTasks'
  OBVIOUS
<1>10. CallerOK(q, ts, placement)
  BY <1>4, <1>6, <1>7, <1>8, <1>9 DEF CallerOK, AboutOwn, SawOwn, SawPlacement, SawIntent, ByRules
<1>11. \A d \in Updaters : CallerOK(updater[d], ts, placement)
  BY <1>8, <1>9, OnwardsKeeps DEF UpdateInv
<1>12. updater' = [updater EXCEPT ![c] = q]
  BY <1>1, <1>5
<1>13. WorldOK'
  BY <1>2, <1>8 DEF UpdateInv, WorldOK
<1> QED
  BY <1>2, <1>9, <1>10, <1>11, <1>12, <1>13 DEF UpdateInv

LEMMA StartCheckSafe ==
    ASSUME NoneIsNoTask, UpdateInv, NEW c \in Updaters, Update!StartCheck(c)
    PROVE  UpdateInv'
<1>1. PICK t, q : /\ t \in ContactTasks /\ contactTasks[t].kind = "card"
                  /\ q = [Update!Rest EXCEPT !.pc = "profile", !.by = "check", !.task = t]
                  /\ updater' = [updater EXCEPT ![c] = q]
  BY DEF Update!StartCheck
<1>2. UNCHANGED <<contact, contactTasks, jobMatch, placement, contactFacts, silentDays>>
  BY DEF Update!StartCheck
<1>3. Update!Rest \in CallerTypes /\ Update!Rest.seen = Update!Unseen
  BY RestOK DEF CallerOK, Update!Rest
<1>4. /\ q \in CallerTypes /\ q.pc = "profile" /\ q.by = "check" /\ q.task = t /\ q.seen = Update!Unseen
  BY <1>1, <1>3 DEF CallerTypes
<1>5. CallerOK(q, contactTasks, placement)
  BY <1>1, <1>4 DEF CallerOK, AboutOwn, SawOwn, SawPlacement, SawIntent, ByRules, NoneIsNoTask, Update!Unseen
<1> QED
  BY <1>1, <1>2, <1>5, CallerGoes

\* Each look, by its kind.
LEMMA LooksSafe ==
    ASSUME NoneIsNoTask, UpdateInv, NEW c \in Updaters,
           \/ Update!ReadProfile(c) \/ Update!ReadTasks(c) \/ Update!ReadCards(c) \/ Update!ReadFollowUps(c)
           \/ Update!ReadMatch(c) \/ Update!ReadPlacement(c)
    PROVE  UpdateInv'
<1>1. PICK p, ts, pl : p = updater[c] /\ ts = contactTasks /\ pl = placement
  OBVIOUS
<1>2. CallerOK(p, ts, pl) /\ p \in CallerTypes /\ p.seen \in Contexts
  BY <1>1 DEF UpdateInv, CallerOK, CallerTypes
<1>3. ASSUME NEW q, CallerOK(q, ts, pl), Update!Step(c, q) PROVE UpdateInv'
  BY <1>1, <1>3, CallerGoes DEF Update!Step
<1>4. CASE Update!ReadProfile(c)
  <2>1. PICK told : told = contactFacts
    OBVIOUS
  <2>2. PICK q : q = [p EXCEPT !.pc = "tasks", !.profile = told]
    OBVIOUS
  <2>3. told \in Profiles
    BY <2>1 DEF UpdateInv, WorldOK
  <2>4. /\ p.pc = "profile" /\ Update!Step(c, q)
    BY <1>1, <1>4, <2>1, <2>2 DEF Update!ReadProfile
  <2> HIDE DEF Profiles
  <2>5. /\ q \in CallerTypes /\ q.pc = "tasks" /\ q.by = p.by /\ q.task = p.task /\ q.move = p.move
        /\ q.atJob = p.atJob /\ q.seen = p.seen
    BY <1>2, <2>2, <2>3 DEF CallerTypes
  <2>6. CallerOK(q, ts, pl)
    BY <1>2, <2>4, <2>5 DEF CallerOK, AboutOwn, SawOwn, SawPlacement, SawIntent, ByRules
  <2> QED
    BY <1>3, <2>4, <2>6
<1>5. CASE Update!ReadTasks(c)
  <2>1. p.pc = "tasks" /\ p.by \in {"move", "check"}
    BY <1>1, <1>2, <1>5 DEF Update!ReadTasks, CallerOK
  <2>2. PICK pending, cscs, due : /\ pending = Update!Sees(p.by, Update!PendingKinds)
                                  /\ cscs = Update!Sees(p.by, {"card"})
                                  /\ due = Update!Sees(p.by, Update!FollowUpKinds)
    OBVIOUS
  <2>3. pending \in BOOLEAN /\ cscs \in BOOLEAN /\ due \in BOOLEAN
    BY <2>2 DEF Update!Sees
  <2>4. PICK q : q = IF p.by = "move"
                     THEN [p EXCEPT !.pc = "match", !.seen.pending = pending, !.seen.cscs = cscs,
                                    !.seen.followUp = due]
                     ELSE [p EXCEPT !.pc = "cards", !.seen.pending = pending]
    OBVIOUS
  <2>5. Update!Step(c, q)
    BY <1>1, <1>5, <2>2, <2>4, Zenon DEF Update!ReadTasks
  <2>6. PICK seen : seen = IF p.by = "move" THEN [p.seen EXCEPT !.pending = pending, !.cscs = cscs, !.followUp = due]
                           ELSE [p.seen EXCEPT !.pending = pending]
    OBVIOUS
  <2>7. /\ seen \in Contexts /\ seen.pending = pending /\ seen.placement = p.seen.placement
        /\ seen.intent = p.seen.intent
    BY <1>2, <2>3, <2>6 DEF Contexts
  <2>8. PICK pc : pc = IF p.by = "move" THEN "match" ELSE "cards"
    OBVIOUS
  <2>9. q = [p EXCEPT !.pc = pc, !.seen = seen]
    BY <1>2, <2>4, <2>6, <2>8 DEF CallerTypes, Contexts
  <2>10. /\ q \in CallerTypes /\ q.pc = pc /\ q.by = p.by /\ q.task = p.task /\ q.move = p.move
         /\ q.atJob = p.atJob /\ q.seen = seen
    BY <1>2, <2>7, <2>8, <2>9 DEF CallerTypes
  <2>11. ASSUME q.task # None, ts[q.task].kind \in {"approval", "outreach", "card"}, ts[q.task].open
         PROVE  pending
    <3>1. q.task \in ContactTasks
      BY <2>10, <2>11 DEF CallerTypes
    <3>2. ts[q.task].kind \in Update!PendingKinds \cap Update!Visible(p.by)
      BY <1>2, <2>1, <2>10, <2>11 DEF CallerOK, AboutOwn, Update!PendingKinds, Update!Visible,
            Update!ByCandidate, Update!ByConversation
    <3> QED
      BY <1>1, <2>2, <2>11, <3>1, <3>2 DEF Update!Sees
  <2>12. pc \in {"match", "cards"}
    BY <2>8
  <2>13. CallerOK(q, ts, pl)
    BY <1>2, <2>1, <2>7, <2>10, <2>11, <2>12
       DEF CallerOK, AboutOwn, SawOwn, SawPlacement, SawIntent, ByRules
  <2> QED
    BY <1>3, <2>5, <2>13
\* The others only add to what was seen.
<1>6. ASSUME NEW q, NEW pc, NEW seen \in Contexts, q = [p EXCEPT !.pc = pc, !.seen = seen],
             p.pc \in {"cards", "followUps", "match", "placement"},
             pc \in {"followUps", "match", "placement", "row"},
             seen.pending = p.seen.pending, seen.intent = p.seen.intent,
             SawPlacement(q, pl), Update!Step(c, q)
      PROVE  UpdateInv'
  <2>1. /\ q \in CallerTypes /\ q.pc = pc /\ q.by = p.by /\ q.task = p.task /\ q.move = p.move
        /\ q.atJob = p.atJob /\ q.seen = seen
    BY <1>2, <1>6 DEF CallerTypes
  <2>2. CallerOK(q, ts, pl)
    BY <1>2, <1>6, <2>1 DEF CallerOK, AboutOwn, SawOwn, SawIntent, ByRules
  <2> QED
    BY <1>3, <1>6, <2>2
<1>7. CASE Update!ReadCards(c)
  <2>1. PICK cscs, q, seen : /\ cscs = Update!Sees("check", {"card"})
                             /\ q = [p EXCEPT !.pc = "followUps", !.seen.cscs = cscs]
                             /\ seen = [p.seen EXCEPT !.cscs = cscs]
    OBVIOUS
  <2>2. cscs \in BOOLEAN
    BY <2>1 DEF Update!Sees
  <2>3. /\ seen \in Contexts /\ seen.pending = p.seen.pending /\ seen.intent = p.seen.intent
        /\ seen.placement = p.seen.placement
    BY <1>2, <2>1, <2>2 DEF Contexts
  <2>4. q = [p EXCEPT !.pc = "followUps", !.seen = seen]
    BY <1>2, <2>1 DEF CallerTypes
  <2>5. q.seen = seen /\ q.by = p.by /\ q.atJob = p.atJob
    BY <1>2, <2>4 DEF CallerTypes
  <2>6. p.pc = "cards" /\ Update!Step(c, q)
    BY <1>1, <1>7, <2>1 DEF Update!ReadCards
  <2>7. SawPlacement(q, pl)
    BY <1>2, <2>3, <2>5 DEF CallerOK, SawPlacement
  <2> QED
    BY <1>6, <2>3, <2>4, <2>6, <2>7
<1>8. CASE Update!ReadFollowUps(c)
  <2>1. PICK due, q, seen : /\ due = Update!Sees("check", Update!FollowUpKinds)
                            /\ q = [p EXCEPT !.pc = "match", !.seen.followUp = due]
                            /\ seen = [p.seen EXCEPT !.followUp = due]
    OBVIOUS
  <2>2. due \in BOOLEAN
    BY <2>1 DEF Update!Sees
  <2>3. /\ seen \in Contexts /\ seen.pending = p.seen.pending /\ seen.intent = p.seen.intent
        /\ seen.placement = p.seen.placement
    BY <1>2, <2>1, <2>2 DEF Contexts
  <2>4. q = [p EXCEPT !.pc = "match", !.seen = seen]
    BY <1>2, <2>1 DEF CallerTypes
  <2>5. q.seen = seen /\ q.by = p.by /\ q.atJob = p.atJob
    BY <1>2, <2>4 DEF CallerTypes
  <2>6. p.pc = "followUps" /\ Update!Step(c, q)
    BY <1>1, <1>8, <2>1 DEF Update!ReadFollowUps
  <2>7. SawPlacement(q, pl)
    BY <1>2, <2>3, <2>5 DEF CallerOK, SawPlacement
  <2> QED
    BY <1>6, <2>3, <2>4, <2>6, <2>7
<1>9. CASE Update!ReadMatch(c)
  <2>1. PICK matched, q, seen : /\ matched = Update!SeesMatch(p.by)
                                /\ q = [p EXCEPT !.pc = "placement", !.seen.matched = matched]
                                /\ seen = [p.seen EXCEPT !.matched = matched]
    OBVIOUS
  <2>2. matched \in BOOLEAN
    BY <2>1 DEF Update!SeesMatch
  <2>3. /\ seen \in Contexts /\ seen.pending = p.seen.pending /\ seen.intent = p.seen.intent
        /\ seen.placement = p.seen.placement
    BY <1>2, <2>1, <2>2 DEF Contexts
  <2>4. q = [p EXCEPT !.pc = "placement", !.seen = seen]
    BY <1>2, <2>1 DEF CallerTypes
  <2>5. q.seen = seen /\ q.by = p.by /\ q.atJob = p.atJob
    BY <1>2, <2>4 DEF CallerTypes
  <2>6. p.pc = "match" /\ Update!Step(c, q)
    BY <1>1, <1>9, <2>1 DEF Update!ReadMatch
  <2>7. SawPlacement(q, pl)
    BY <1>2, <2>3, <2>5 DEF CallerOK, SawPlacement
  <2> QED
    BY <1>6, <2>3, <2>4, <2>6, <2>7
<1>10. CASE Update!ReadPlacement(c)
  <2>1. PICK at, q, seen : /\ at = Update!SeesPlacement(c)
                           /\ q = [p EXCEPT !.pc = "row", !.seen.placement = at]
                           /\ seen = [p.seen EXCEPT !.placement = at]
    OBVIOUS
  <2>2. at \in {"none", "future", "started"} /\ (at # "none" => p.by = "move" /\ p.atJob /\ pl # "none")
    BY <1>1, <2>1 DEF Update!SeesPlacement, UpdateInv, WorldOK
  <2>3. /\ seen \in Contexts /\ seen.pending = p.seen.pending /\ seen.intent = p.seen.intent
        /\ seen.placement = at
    BY <1>2, <2>1, <2>2 DEF Contexts
  <2>4. q = [p EXCEPT !.pc = "row", !.seen = seen]
    BY <1>2, <2>1 DEF CallerTypes
  <2>5. q.seen = seen /\ q.by = p.by /\ q.atJob = p.atJob
    BY <1>2, <2>4 DEF CallerTypes
  <2>6. p.pc = "placement" /\ Update!Step(c, q)
    BY <1>1, <1>10, <2>1 DEF Update!ReadPlacement
  <2>7. SawPlacement(q, pl)
    BY <2>2, <2>3, <2>5 DEF SawPlacement
  <2> QED
    BY <1>6, <2>3, <2>4, <2>6, <2>7
<1> QED
  BY <1>4, <1>5, <1>7, <1>8, <1>9, <1>10

\* The row is read, and the rules say what to write; or nothing changes.
LEMMA ReadRowSafe ==
    ASSUME NoneIsNoTask, UpdateInv, NEW c \in Updaters, Update!ReadRow(c)
    PROVE  UpdateInv'
<1>1. PICK p, ts, pl, days, old : p = updater[c] /\ ts = contactTasks /\ pl = placement /\ days = silentDays /\ old = contact
  OBVIOUS
<1>2. /\ CallerOK(p, ts, pl) /\ p \in CallerTypes /\ p.seen \in Contexts
      /\ days \in Int /\ old \in ProgressTypes
  BY <1>1 DEF UpdateInv, WorldOK, CallerOK, CallerTypes
<1>3. PICK result, next : /\ result = computeNextProgressState(old.stage, old.data, p.profile, days, p.seen)
                          /\ next = Written(result)
  OBVIOUS
<1>4. next \in ProgressTypes
  BY <1>2, <1>3, ComputedTypes, WrittenTypes DEF ProgressTypes
<1>5. PICK q : q = [p EXCEPT !.pc = "write", !.read = old, !.next = next]
  OBVIOUS
<1>6. p.pc = "row" /\ (Update!Step(c, Update!Rest) \/ Update!Step(c, q))
  <2>1. Update!computeNextProgressState(contact.stage, contact.data, updater[c].profile, silentDays, updater[c].seen) = result
    BY <1>1, <1>3, SameRules
  <2>2. Update!Written(result) = next
    BY <1>3, SameWriting
  <2> QED
    BY <1>1, <1>5, <2>1, <2>2 DEF Update!ReadRow
<1>7. CASE Update!Step(c, Update!Rest)
  BY <1>7, RestOK, CallerGoes DEF Update!Step
<1>8. CASE Update!Step(c, q)
  <2>1. /\ q \in CallerTypes /\ q.pc = "write" /\ q.by = p.by /\ q.task = p.task /\ q.move = p.move
        /\ q.atJob = p.atJob /\ q.seen = p.seen /\ q.profile = p.profile /\ q.read = old /\ q.next = next
    BY <1>2, <1>4, <1>5 DEF CallerTypes
  <2>2. ByRules(q)
    BY <1>2, <1>3, <2>1 DEF ByRules
  <2>3. CallerOK(q, ts, pl)
    BY <1>2, <1>6, <2>1, <2>2 DEF CallerOK, AboutOwn, SawOwn, SawPlacement, SawIntent
  <2> QED
    BY <1>1, <1>8, <2>3, CallerGoes DEF Update!Step
<1> QED
  BY <1>6, <1>7, <1>8

LEMMA WriteRowSafe ==
    ASSUME NoneIsNoTask, UpdateInv, NEW c \in Updaters, Update!WriteRow(c)
    PROVE  UpdateInv'
<1>1. /\ contact' = updater[c].next /\ updater' = [updater EXCEPT ![c] = Update!Rest]
      /\ UNCHANGED <<contactTasks, jobMatch, placement, contactFacts, silentDays>>
  BY DEF Update!WriteRow
<1>2. updater[c].next \in ProgressTypes
  BY DEF UpdateInv, CallerOK, CallerTypes
<1>3. WorldOK'
  BY <1>1, <1>2 DEF UpdateInv, WorldOK
<1>4. \A d \in Updaters : CallerOK(updater'[d], contactTasks, placement)
  BY <1>1, RestOK DEF UpdateInv
<1> QED
  BY <1>1, <1>3, <1>4 DEF UpdateInv

LEMMA FailsSafe ==
    ASSUME NoneIsNoTask, UpdateInv, NEW c \in Updaters, Update!Fails(c)
    PROVE  UpdateInv'
<1>1. PICK p, ts, pl : p = updater[c] /\ ts = contactTasks /\ pl = placement
  OBVIOUS
<1>2. CallerOK(p, ts, pl) /\ p \in CallerTypes
  BY <1>1 DEF UpdateInv, CallerOK
<1>3. PICK q : q = [p EXCEPT !.pc = "placement"]
  OBVIOUS
<1>4. /\ UNCHANGED <<contact, contactTasks, jobMatch, placement, contactFacts, silentDays>>
      /\ \/ p.pc = "match" /\ updater' = [updater EXCEPT ![c] = q]
         \/ updater' = [updater EXCEPT ![c] = Update!Rest]
  BY <1>1, <1>3 DEF Update!Fails
<1>5. /\ q \in CallerTypes /\ q.pc = "placement" /\ q.by = p.by /\ q.task = p.task /\ q.move = p.move
      /\ q.atJob = p.atJob /\ q.seen = p.seen
  BY <1>2, <1>3 DEF CallerTypes
<1>6. p.pc = "match" => CallerOK(q, ts, pl)
  BY <1>2, <1>5 DEF CallerOK, AboutOwn, SawOwn, SawPlacement, SawIntent, ByRules
<1> QED
  BY <1>1, <1>4, <1>6, RestOK, CallerGoes

LEMMA UpdateNext == NoneIsNoTask /\ UpdateInv /\ [Update!Next]_(Update!vars) => UpdateInv'
<1> SUFFICES ASSUME NoneIsNoTask, UpdateInv, [Update!Next]_(Update!vars) PROVE UpdateInv'
  OBVIOUS
<1>0. UpdateInv /\ WorldOK
  BY DEF UpdateInv
<1>1. CASE UNCHANGED Update!vars
  BY <1>1, <1>0, WorldGoes DEF Update!vars, WorldOK, Onwards
<1>2. CASE \E c \in Updaters : \/ Update!StartMove(c) \/ Update!StartCheck(c)
                              \/ Update!ReadProfile(c) \/ Update!ReadTasks(c) \/ Update!ReadCards(c)
                              \/ Update!ReadFollowUps(c) \/ Update!ReadMatch(c) \/ Update!ReadPlacement(c)
                              \/ Update!ReadRow(c) \/ Update!WriteRow(c) \/ Update!Fails(c)
  BY <1>2, StartMoveSafe, StartCheckSafe, LooksSafe, ReadRowSafe, WriteRowSafe, FailsSafe
<1>3. CASE \E t \in ContactTasks : Update!Create(t)
  <2>1. PICK t \in ContactTasks, kind \in Update!ByConversation : Update!Free(t) /\ Update!NewTask(t, kind)
    BY <1>3 DEF Update!Create
  <2>2. kind \in Kinds
    BY <2>1 DEF Update!ByConversation, Kinds
  <2>3. /\ contactTasks' \in [ContactTasks -> TaskTypes] /\ Onwards(contactTasks, contactTasks', placement, placement)
    BY <2>1, <2>2, NewTaskGoes
  <2>4. UNCHANGED <<contact, jobMatch, placement, contactFacts, silentDays, updater>>
    BY <1>3 DEF Update!Create
  <2>5. WorldOK'
    BY <1>0, <2>3, <2>4 DEF WorldOK
  <2> QED
    BY <2>3, <2>4, <2>5, WorldGoes
<1>4. CASE \E t \in ContactTasks : Update!Decide(t)
  <2>1. PICK t \in ContactTasks : Update!Decide(t)
    BY <1>4
  <2>2. PICK done : done = [contactTasks[t] EXCEPT !.open = FALSE]
    OBVIOUS
  <2>3. contactTasks' = [contactTasks EXCEPT ![t] = done] /\ contactTasks[t].open
    BY <2>1, <2>2 DEF Update!Decide
  <2>4. done \in TaskTypes /\ done.kind = contactTasks[t].kind
    BY <1>0, <2>2 DEF WorldOK, TaskTypes
  <2>5. placement' \in {"none", "future", "started"} /\ (placement # "none" => placement' # "none")
    BY <1>0, <2>1 DEF Update!Decide, WorldOK
  <2>6. UNCHANGED <<contact, jobMatch, contactFacts, silentDays, updater>>
    BY <2>1 DEF Update!Decide
  <2>7. WorldOK'
    BY <1>0, <2>3, <2>4, <2>5, <2>6 DEF WorldOK
  <2>8. Onwards(contactTasks, contactTasks', placement, placement')
    BY <1>0, <2>3, <2>4, <2>5 DEF WorldOK, Onwards
  <2> QED
    BY <2>6, <2>7, <2>8, WorldGoes
<1>5. CASE Update!Learn \/ Update!CloseJob \/ Update!Wait
  <2>1. UNCHANGED <<contact, contactTasks, placement, updater>>
    BY <1>5 DEF Update!Learn, Update!CloseJob, Update!Wait
  <2>2. contactFacts' \in Profiles
    BY <1>0, <1>5 DEF Update!Learn, Update!CloseJob, Update!Wait, WorldOK, Profiles,
          Update!RequiredFields, RequiredFields
  <2>3. silentDays' \in Int
    BY <1>0, <1>5, DormantAssumption DEF Update!Learn, Update!CloseJob, Update!Wait, WorldOK
  <2>4. jobMatch' \in {"none", "open", "closed"}
    BY <1>0, <1>5 DEF Update!Learn, Update!CloseJob, Update!Wait, WorldOK
  <2>5. WorldOK'
    BY <1>0, <2>1, <2>2, <2>3, <2>4 DEF WorldOK
  <2>6. Onwards(contactTasks, contactTasks', placement, placement')
    BY <2>1 DEF Onwards
  <2> QED
    BY <2>1, <2>5, <2>6, WorldGoes
<1> QED
  BY <1>1, <1>2, <1>3, <1>4, <1>5 DEF Update!Next

\* What the rules of a placement tell.
LEMMA PlacementTells ==
    ASSUME NEW x, NEW fields \in Profiles, NEW days \in Int, NEW s \in Contexts,
           NEW k \in {10, 11}, k = RuleAt(x, fields, days, s)
    PROVE  /\ s.placement \in {"started", "future"}
           /\ ~ s.matched \/ fields = {}
           /\ s.intent = "none" \/ fields = {}
<1>1. s.pending \in BOOLEAN /\ s.matched \in BOOLEAN /\ s.cscs \in BOOLEAN
  BY DEF Contexts
<1>2. ~ (s.pending /\ x # "NEW") /\ ~ s.cscs
  BY DormantAssumption DEF RuleAt
<1>3. MatchedStage(x, fields, s) \notin {"MATCHED_TO_JOBS", "READY_TO_PLACE"}
  BY DormantAssumption DEF RuleAt
<1>4. s.placement \in {"started", "future"}
  BY DormantAssumption DEF RuleAt
<1>5. RequiredFields \ fields # {} \/ s.intent = "none"
  BY DormantAssumption DEF RuleAt
<1>6. fields # {} => RequiredFields \subseteq fields
  BY DEF Profiles
<1>7. ASSUME s.matched, fields # {} PROVE FALSE
  <2>1. PICK m : m = MatchedStage(x, fields, s)
    OBVIOUS
  <2>2. RequiredFields \subseteq fields
    BY <1>6, <1>7
  <2>3. m = IF ~ s.matched THEN "none"
            ELSE IF x = "LOOKING_FOR_WORK" \/ (x = "NEW" /\ s.pending /\ RequiredFields \subseteq fields)
                 THEN "MATCHED_TO_JOBS"
            ELSE IF RequiredFields \subseteq fields /\ ~ s.pending /\ ~ s.cscs THEN "READY_TO_PLACE"
            ELSE "none"
    BY <1>1, <2>1, MatchedStageIs
  <2>4. m \in {"MATCHED_TO_JOBS", "READY_TO_PLACE"}
    BY <1>2, <1>7, <2>2, <2>3
  <2> QED
    BY <1>3, <2>1, <2>4
<1> QED
  BY <1>4, <1>5, <1>6, <1>7

\* What a caller is about to write.
LEMMA WritesByRule ==
    ASSUME NEW q, NEW ts, NEW pl, CallerOK(q, ts, pl), q.pc = "write"
    PROVE  \E days \in Int : \E k \in {1, 2, 3, 4, 5, 6, 7, 8, 9, 10, 11, 12} :
              /\ k = RuleAt(q.read.stage, q.profile, days, q.seen)
              /\ q.next.stage = StageBy(k, q.read.stage, q.profile)
<1>1. PICK days \in Int :
        q.next = Written(computeNextProgressState(q.read.stage, q.read.data, q.profile, days, q.seen))
  BY DEF CallerOK, ByRules
<1>2. q.seen \in Contexts
  BY DEF CallerOK, CallerTypes
<1>3. PICK st, d, fields, s, x : /\ st = q.read.stage /\ d = q.read.data /\ fields = q.profile
                                 /\ s = q.seen /\ x = q.next
  OBVIOUS
<1>4. PICK k : k = RuleAt(st, fields, days, s)
  OBVIOUS
<1>5. k \in {1, 2, 3, 4, 5, 6, 7, 8, 9, 10, 11, 12} /\ x.stage = StageBy(k, st, fields)
  BY <1>1, <1>2, <1>3, <1>4, OneCall
<1> QED
  BY <1>3, <1>4, <1>5

\* A task that waits for an operator holds the stage of every contact but a new one, and the
\* card that is checked, or the outreach a move has made, is such a task: whatever else is
\* created and decided between the looks of a caller, its own update moves nothing but a new
\* contact while it is open.
THEOREM OwnTasksHold == ASSUME NoneIsNoTask PROVE Update!Spec => []Update!OwnTaskHolds
<1>1. ASSUME UpdateInv PROVE Update!OwnTaskHolds
  <2> SUFFICES ASSUME NEW c \in Updaters, Update!Moving(c), updater[c].task # None,
                      contactTasks[updater[c].task].kind \in Update!PendingKinds, contactTasks[updater[c].task].open,
                      updater[c].read.stage # "NEW"
               PROVE  FALSE
    BY DEF Update!OwnTaskHolds
  <2>1. PICK q, ts, pl : q = updater[c] /\ ts = contactTasks /\ pl = placement
    OBVIOUS
  <2>2. CallerOK(q, ts, pl) /\ q.pc = "write" /\ q.next.stage # q.read.stage
    BY <1>1, <2>1 DEF UpdateInv, Update!Moving
  <2>3. q.seen.pending
    BY <2>1, <2>2 DEF CallerOK, SawOwn, Update!PendingKinds
  <2>4. PICK days \in Int : \E k \in {1, 2, 3, 4, 5, 6, 7, 8, 9, 10, 11, 12} :
                               /\ k = RuleAt(q.read.stage, q.profile, days, q.seen)
                               /\ q.next.stage = StageBy(k, q.read.stage, q.profile)
    BY <2>2, WritesByRule
  <2>5. RuleAt(q.read.stage, q.profile, days, q.seen) = 1
    BY <2>1, <2>3 DEF RuleAt
  <2>6. q.next.stage = StageBy(1, q.read.stage, q.profile)
    BY <2>4, <2>5
  <2> QED
    BY <2>2, <2>6, StageTells
<1> QED
  BY <1>1, UpdateInit, UpdateNext, PTL DEF Update!Spec

\* A contact is PLACED, or in AFTERCARE, only by a move in the pipeline of the job of a
\* confirmed placement, while no job matches; and the move is to NO_SHOW or DROPPED, unless
\* the profile is incomplete.
THEOREM PlacementsByMoves == ASSUME NoneIsNoTask PROVE Update!Spec => []Update!PlacementsFoundByMoves
<1>1. ASSUME UpdateInv PROVE Update!PlacementsFoundByMoves
  <2> SUFFICES ASSUME NEW c \in Updaters, Update!Moving(c), updater[c].next.stage \in {"PLACED", "AFTERCARE"}
               PROVE  /\ updater[c].by = "move" /\ updater[c].atJob /\ placement # "none"
                      /\ ~ updater[c].seen.matched \/ updater[c].profile = {}
                      /\ updater[c].move \in {"NO_SHOW", "DROPPED"} \/ updater[c].profile = {}
    BY DEF Update!PlacementsFoundByMoves
  <2>1. PICK q, ts, pl : q = updater[c] /\ ts = contactTasks /\ pl = placement
    OBVIOUS
  <2>2. /\ CallerOK(q, ts, pl) /\ q.pc = "write" /\ q.next.stage # q.read.stage
        /\ q.next.stage \in {"PLACED", "AFTERCARE"}
    BY <1>1, <2>1 DEF UpdateInv, Update!Moving
  <2>3. PICK days \in Int, k \in {1, 2, 3, 4, 5, 6, 7, 8, 9, 10, 11, 12} :
           /\ k = RuleAt(q.read.stage, q.profile, days, q.seen)
           /\ q.next.stage = StageBy(k, q.read.stage, q.profile)
    BY <2>2, WritesByRule
  <2>4. k \in {10, 11}
    <3>1. PICK x, fields, y : x = q.read.stage /\ fields = q.profile /\ y = q.next.stage
      OBVIOUS
    <3>2. y = StageBy(k, x, fields) /\ y # x /\ y \in {"PLACED", "AFTERCARE"}
      BY <2>2, <2>3, <3>1
    <3> QED
      BY <3>2, StageTells
  <2>5. q.profile \in Profiles /\ q.seen \in Contexts
    BY <2>2 DEF CallerOK, CallerTypes
  <2>6. /\ q.seen.placement \in {"started", "future"}
        /\ ~ q.seen.matched \/ q.profile = {}
        /\ q.seen.intent = "none" \/ q.profile = {}
    BY <2>3, <2>4, <2>5, PlacementTells
  <2>7. q.by = "move" /\ q.atJob /\ pl # "none"
    BY <2>2, <2>6 DEF CallerOK, SawPlacement
  <2>8. q.seen.intent = "none" => q.move \in {"NO_SHOW", "DROPPED"}
    BY <2>2, <2>7 DEF CallerOK, SawIntent, Update!Intent, Update!Moves
  <2> QED
    BY <2>1, <2>6, <2>7, <2>8
<1> QED
  BY <1>1, UpdateInit, UpdateNext, PTL DEF Update!Spec
\* Both models name the same types.
LEMMA SameTypes == ProgressTypes = Update!Rows /\ Contexts = Update!Contexts
<1>1. ProgressTypes = Update!Rows
  BY Zenon DEF ProgressTypes, Update!Rows, Data, Update!Data, DataWith, Update!DataWith, Words, Update!Words,
               Stages, Update!Stages, Fields, Update!Fields,
               RequiredFields, Update!RequiredFields, Flags, Update!Flags
<1>2. Contexts = Update!Contexts
  BY Zenon DEF Contexts, Update!Contexts
<1> QED
  BY <1>1, <1>2

\* Where the stage of a contact came from, whatever goes on between the looks of a caller: the
\* row is always one the rules can make, a task that waits for an operator holds the stage of
\* its own update, and a placement is found by a move at its job alone.
THEOREM StagesAreExplained == ASSUME NoneIsNoTask PROVE Update!Spec => []StagesExplained
<1>1. ASSUME UpdateInv PROVE Update!TypeOK
  <2>1. contact \in Update!Rows
    BY <1>1, SameTypes DEF UpdateInv, WorldOK
  <2>2. ASSUME NEW c \in Updaters
        PROVE  /\ updater[c].read \in Update!Rows /\ updater[c].next \in Update!Rows
               /\ updater[c].seen \in Update!Contexts
               /\ updater[c].by = "check" => contactTasks[updater[c].task].kind = "card"
    <3>1. PICK q, ts, pl : q = updater[c] /\ ts = contactTasks /\ pl = placement
      OBVIOUS
    <3>2. CallerOK(q, ts, pl)
      BY <1>1, <3>1 DEF UpdateInv
    <3>3. q.read \in ProgressTypes /\ q.next \in ProgressTypes /\ q.seen \in Contexts
      BY <3>2 DEF CallerOK, CallerTypes
    <3>4. q.by = "check" => ts[q.task].kind = "card"
      BY <3>2 DEF CallerOK, AboutOwn
    <3> QED
      BY <3>1, <3>3, <3>4, SameTypes
  <2> QED
    BY <2>1, <2>2 DEF Update!TypeOK
<1>2. Update!Spec => []Update!TypeOK
  BY <1>1, UpdateInit, UpdateNext, PTL DEF Update!Spec
<1> QED
  BY <1>2, OwnTasksHold, PlacementsByMoves, PTL DEF StagesExplained
===============================================================================

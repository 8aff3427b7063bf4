---------------------------- MODULE ServicesProofs ----------------------------
(***************************************************************************)
(* Proofs about the five services, with few theorems each: review sampling *)
(* misses no message, the profile of a candidate says what its metadata    *)
(* vouch for and changes as they allow, a reader of the timeline misses no *)
(* event, and follow-ups, reminders and the tasks of opportunities are     *)
(* duplicated by concurrency and failures alone.  What is assumed of the   *)
(* constants stands in the theorems.                                       *)
(***************************************************************************)
EXTENDS Services, Sequences, FiniteSetTheorems, WellFoundedInduction, TLAPS

-----------------------------------------------------------------------------
(* Review sampling.                                                        *)

Passed(t) == t \in crowded \/ t \in failed.tasks

\* What a morning is for: a message of the day before is sampled, or passed over, or the run
\* is still to insert it; and nothing is left to insert when the run is over.
SamplingInv ==
    /\ clock \in Nat /\ ran \in BOOLEAN
    /\ sample \in [ReviewTasks -> BOOLEAN]
    /\ run \in [on : BOOLEAN, todo : SUBSET ReviewTasks]
    /\ failed \in [tasks : SUBSET ReviewTasks, count : Nat]
    /\ approved \in [ReviewTasks -> Nat \cup {Null}]
    /\ run.on \/ run.todo = {}
    /\ clock % 2 = 0 => ran /\ ~ run.on
    /\ \A t \in ReviewTasks : Review!IsApproved(t) =>
          /\ approved[t] \in Nat /\ approved[t] <= clock
          /\ Review!Day(clock) > Review!Day(approved[t]) + 1 => sample[t] \/ Passed(t)
          /\ Review!Day(clock) = Review!Day(approved[t]) + 1 /\ clock % 2 = 1 /\ ran
             => sample[t] \/ Passed(t) \/ t \in run.todo

\* What is counted is finite, and None is no time.
SamplingAssumption ==
    Null \notin Nat /\ IsFiniteSet(ReviewTasks) /\ MaxMornings \in Nat /\ MaxFailures \in Nat

LEMMA SamplingInit == ASSUME Null \notin Nat, Review!Init PROVE SamplingInv
  BY DEF Review!Init, SamplingInv, Review!IsApproved

LEMMA NoStepOfSampling == ASSUME SamplingInv, UNCHANGED Review!vars PROVE SamplingInv'
  BY DEF SamplingInv, Review!vars, Review!IsApproved, Passed, Review!Day

LEMMA StartRunKeeps == ASSUME SamplingInv, Review!StartRun PROVE SamplingInv'
<1>1. /\ ~ ran /\ ran' /\ run' = [on |-> TRUE, todo |-> Review!Chosen]
      /\ crowded' = crowded \cup (Review!Unsampled \ Review!Chosen)
      /\ UNCHANGED <<approved, order, sample, verdict, clock, failed>>
  BY DEF Review!StartRun
<1>2. Review!Chosen \subseteq ReviewTasks
  BY DEF Review!Chosen, Review!Unsampled
<1>3. run'.on = TRUE /\ run'.todo = Review!Chosen /\ run' \in [on : BOOLEAN, todo : SUBSET ReviewTasks]
  BY <1>1, <1>2
<1>4. ASSUME NEW t \in ReviewTasks, Review!IsApproved(t)'
      PROVE  /\ approved'[t] \in Nat /\ approved'[t] <= clock'
             /\ Review!Day(clock') > Review!Day(approved'[t]) + 1 => sample'[t] \/ Passed(t)'
             /\ Review!Day(clock') = Review!Day(approved'[t]) + 1 =>
                   sample'[t] \/ Passed(t)' \/ t \in run'.todo
  <2>1. /\ approved[t] \in Nat /\ approved[t] <= clock
        /\ Review!Day(clock) > Review!Day(approved[t]) + 1 => sample[t] \/ Passed(t)
    BY <1>1, <1>4 DEF SamplingInv, Review!IsApproved
  <2>2. Review!Day(clock) = Review!Day(approved[t]) + 1 => sample[t] \/ t \in Review!Unsampled
    BY <1>1, <1>4, <2>1 DEF Review!Unsampled, Review!InWindow, Review!IsApproved, SamplingInv, Review!Day
  <2> QED
    BY <1>1, <1>3, <2>1, <2>2 DEF Passed, Review!Day
<1> QED
  BY <1>1, <1>3, <1>4 DEF SamplingInv

LEMMA InsertsKeep == ASSUME SamplingInv, Review!Insert \/ Review!InsertFails PROVE SamplingInv'
<1>1. CASE Review!Insert
  <2>1. PICK t \in run.todo : /\ sample' = [sample EXCEPT ![t] = TRUE]
                              /\ run' = [run EXCEPT !.todo = @ \ {t}]
    BY <1>1 DEF Review!Insert
  <2>2. UNCHANGED <<approved, order, verdict, clock, ran, crowded, failed>>
    BY <1>1 DEF Review!Insert
  <2> QED
    BY <2>1, <2>2 DEF SamplingInv, Passed, Review!IsApproved, Review!Day
<1>2. CASE Review!InsertFails
  <2>1. PICK t \in run.todo :
           /\ run' = [run EXCEPT !.todo = @ \ {t}]
           /\ failed' = [tasks |-> failed.tasks \cup {t}, count |-> failed.count + 1]
    BY <1>2 DEF Review!InsertFails
  <2>2. UNCHANGED <<approved, order, sample, verdict, clock, ran, crowded>>
    BY <1>2 DEF Review!InsertFails
  <2> QED
    BY <2>1, <2>2 DEF SamplingInv, Passed, Review!IsApproved, Review!Day
<1> QED
  BY <1>1, <1>2

\* A run that ends has nothing left to insert, or leaves it as failed.
LEMMA RunsEnd == ASSUME SamplingInv, Review!EndRun \/ Review!MissRun PROVE SamplingInv'
<1>1. CASE Review!EndRun
  BY <1>1 DEF Review!EndRun, SamplingInv, Passed, Review!IsApproved, Review!Day
<1>2. CASE Review!MissRun
  <2>1. /\ run' = [on |-> FALSE, todo |-> {}] /\ ran' = TRUE
        /\ failed' = [tasks |-> failed.tasks \cup {t \in ReviewTasks : Review!IsApproved(t) /\ ~ sample[t]},
                      count |-> failed.count + 1]
        /\ UNCHANGED <<approved, order, sample, verdict, clock, crowded>>
    BY <1>2 DEF Review!MissRun
  <2>2. \A t \in ReviewTasks : Review!IsApproved(t) => sample'[t] \/ Passed(t)'
    BY <2>1 DEF Passed, Review!IsApproved
  <2> QED
    BY <2>1, <2>2 DEF SamplingInv, Review!IsApproved
<1> QED
  BY <1>1, <1>2

\* With the day over, those of the day before are through.
LEMMA TickKeeps == ASSUME SamplingInv, Review!Tick PROVE SamplingInv'
<1>1. /\ ran /\ ~ run.on /\ clock' = clock + 1 /\ ran' = (clock' % 2 = 0)
      /\ UNCHANGED <<approved, order, sample, verdict, run, crowded, failed>>
  BY DEF Review!Tick
<1>2. clock \in Nat /\ clock' \in Nat /\ run.todo = {}
  BY <1>1 DEF SamplingInv
<1>3. ASSUME NEW t \in ReviewTasks, Review!IsApproved(t)'
      PROVE  /\ approved'[t] \in Nat /\ approved'[t] <= clock'
             /\ Review!Day(clock') > Review!Day(approved'[t]) + 1 => sample'[t] \/ Passed(t)'
             /\ ~ (clock' % 2 = 1 /\ ran')
  <2>1. /\ approved[t] \in Nat /\ approved[t] <= clock
        /\ Review!Day(clock) > Review!Day(approved[t]) + 1 => sample[t] \/ Passed(t)
        /\ Review!Day(clock) = Review!Day(approved[t]) + 1 /\ clock % 2 = 1 => sample[t] \/ Passed(t)
    BY <1>1, <1>2, <1>3 DEF SamplingInv, Review!IsApproved
  <2>2. approved[t] <= clock'
    BY <1>1, <1>2, <2>1
  <2>3. Review!Day(clock') > Review!Day(approved[t]) + 1 =>
           \/ Review!Day(clock) > Review!Day(approved[t]) + 1
           \/ Review!Day(clock) = Review!Day(approved[t]) + 1 /\ clock % 2 = 1
    BY <1>1, <1>2, <2>1 DEF Review!Day
  <2>4. clock' % 2 = 1 => ~ (clock' % 2 = 0)
    OBVIOUS
  <2>5. ~ (clock' % 2 = 1 /\ ran')
    BY <1>1, <2>4, Zenon
  <2> QED
    BY <1>1, <2>1, <2>2, <2>3, <2>5 DEF Passed, Review!Day
<1>4. clock' % 2 = 0 => ran' /\ ~ run'.on
  BY <1>1
<1> QED
  BY <1>1, <1>2, <1>3, <1>4 DEF SamplingInv

LEMMA OthersKeepSampling ==
    ASSUME Null \notin Nat, SamplingInv, NEW t \in ReviewTasks, Review!Approve(t) \/ Review!SetVerdict(t)
    PROVE  SamplingInv'
<1>1. CASE Review!Approve(t)
  <2>1. /\ approved' = [approved EXCEPT ![t] = clock] /\ ~ Review!IsApproved(t)
        /\ UNCHANGED <<sample, verdict, run, clock, ran, crowded, failed>>
    BY <1>1 DEF Review!Approve
  <2>2. \A u \in ReviewTasks : u # t => approved'[u] = approved[u]
    BY <2>1 DEF SamplingInv
  <2>3. approved'[t] = clock /\ clock \in Nat
    BY <2>1 DEF SamplingInv
  <2>4. approved' \in [ReviewTasks -> Nat \cup {Null}]
    BY <2>1 DEF SamplingInv
  <2>5. ASSUME NEW u \in ReviewTasks, Review!IsApproved(u)'
        PROVE  /\ approved'[u] \in Nat /\ approved'[u] <= clock'
               /\ Review!Day(clock') > Review!Day(approved'[u]) + 1 => sample'[u] \/ Passed(u)'
               /\ Review!Day(clock') = Review!Day(approved'[u]) + 1 /\ clock' % 2 = 1 /\ ran'
                  => sample'[u] \/ Passed(u)' \/ u \in run'.todo
    <3>1. CASE u = t
      BY <2>1, <2>3, <3>1 DEF Review!Day
    <3>2. CASE u # t
      BY <2>1, <2>2, <2>5, <3>2 DEF SamplingInv, Review!IsApproved, Passed, Review!Day
    <3> QED
      BY <3>1, <3>2
  <2> QED
    BY <2>1, <2>4, <2>5 DEF SamplingInv
<1>2. CASE Review!SetVerdict(t)
  BY <1>2 DEF Review!SetVerdict, SamplingInv, Passed, Review!IsApproved, Review!Day
<1> QED
  BY <1>1, <1>2

\* No message slips through between two mornings: what was approved before yesterday has a
\* sample, or a run had too many of its kind, or its morning failed; for any number of
\* messages and days and any limits, while operators approve and mornings fail.
THEOREM NothingUnsampled ==
    ASSUME Null \notin Nat PROVE Review!Spec => []Review!ApprovedIsSampled
<1>1. SamplingInv /\ [Review!Next]_(Review!vars) => SamplingInv'
  BY NoStepOfSampling, StartRunKeeps, InsertsKeep, RunsEnd, TickKeeps, OthersKeepSampling
  DEF Review!Next
<1>2. SamplingInv => Review!ApprovedIsSampled
  BY DEF SamplingInv, Review!ApprovedIsSampled, Passed
<1> QED
  BY <1>1, <1>2, SamplingInit, PTL DEF Review!Spec

\* The rows of samples and verdicts, and the runs that make them, keep their types.
LEMMA SamplingTypes ==
    ASSUME SamplingAssumption, SamplingInv, Review!TypeOK, [Review!Next]_(Review!vars)
    PROVE  Review!TypeOK'
<1> USE DEF SamplingAssumption
<1>1. CASE UNCHANGED Review!vars
  BY <1>1 DEF Review!vars, Review!TypeOK, Review!Halves
<1>2. CASE Review!StartRun
  <2>1. Review!Chosen \subseteq ReviewTasks /\ Review!Unsampled \subseteq ReviewTasks
    BY DEF Review!Chosen, Review!Unsampled
  <2>2. /\ ran' = TRUE /\ run' = [on |-> TRUE, todo |-> Review!Chosen]
        /\ crowded' = crowded \cup (Review!Unsampled \ Review!Chosen)
        /\ UNCHANGED <<approved, order, sample, verdict, clock, failed>>
    BY <1>2 DEF Review!StartRun
  <2> QED
    BY <2>1, <2>2 DEF Review!TypeOK, Review!Halves
<1>3. CASE Review!Insert
  <2>1. PICK t, next : /\ t \in run.todo /\ sample' = [sample EXCEPT ![t] = TRUE]
                       /\ next = [run EXCEPT !.todo = @ \ {t}] /\ run' = next
    BY <1>3 DEF Review!Insert
  <2>2. next \in [on : BOOLEAN, todo : SUBSET ReviewTasks]
    BY <2>1 DEF Review!TypeOK
  <2>3. UNCHANGED <<approved, order, verdict, clock, ran, crowded, failed>>
    BY <1>3 DEF Review!Insert
  <2>4. t \in ReviewTasks /\ sample' \in [ReviewTasks -> BOOLEAN]
    BY <2>1 DEF Review!TypeOK
  <2> QED
    BY <2>1, <2>2, <2>3, <2>4 DEF Review!TypeOK, Review!Halves
<1>4. CASE Review!InsertFails
  <2>1. PICK t, next : /\ t \in run.todo /\ failed' = [tasks |-> failed.tasks \cup {t},
                                                       count |-> failed.count + 1]
                       /\ next = [run EXCEPT !.todo = @ \ {t}] /\ run' = next
    BY <1>4 DEF Review!InsertFails
  <2>2. t \in ReviewTasks /\ next \in [on : BOOLEAN, todo : SUBSET ReviewTasks]
    BY <2>1 DEF Review!TypeOK
  <2>3. UNCHANGED <<approved, order, sample, verdict, clock, ran, crowded>> /\ failed.count < MaxFailures
    BY <1>4 DEF Review!InsertFails
  <2>4. failed.tasks \cup {t} \in SUBSET ReviewTasks /\ failed.count + 1 \in 0..MaxFailures
    BY <2>2, <2>3 DEF Review!TypeOK
  <2> QED
    BY <2>1, <2>2, <2>3, <2>4 DEF Review!TypeOK, Review!Halves
<1>5. CASE Review!EndRun
  <2>1. PICK next : next = [run EXCEPT !.on = FALSE] /\ run' = next
    BY <1>5 DEF Review!EndRun
  <2>2. next \in [on : BOOLEAN, todo : SUBSET ReviewTasks]
    BY <2>1 DEF Review!TypeOK
  <2> QED
    BY <1>5, <2>1, <2>2 DEF Review!EndRun, Review!TypeOK, Review!Halves
<1>6. CASE Review!MissRun
  <2>1. PICK gone : gone = failed.tasks \cup {t \in ReviewTasks : Review!IsApproved(t) /\ ~ sample[t]}
    OBVIOUS
  <2>2. /\ run' = [on |-> FALSE, todo |-> {}] /\ ran' = TRUE
        /\ failed' = [tasks |-> gone, count |-> failed.count + 1] /\ failed.count < MaxFailures
        /\ UNCHANGED <<approved, order, sample, verdict, clock, crowded>>
    BY <1>6, <2>1 DEF Review!MissRun
  <2>3. gone \in SUBSET ReviewTasks /\ failed.count + 1 \in 0..MaxFailures
    BY <2>1, <2>2 DEF Review!TypeOK
  <2> QED
    BY <2>2, <2>3 DEF Review!TypeOK, Review!Halves
<1>7. CASE Review!Tick
  BY <1>7 DEF Review!Tick, Review!TypeOK, Review!Halves
<1>8. ASSUME NEW t \in ReviewTasks, Review!Approve(t) PROVE Review!TypeOK'
  <2>1. PICK n : n = Cardinality({u \in ReviewTasks : Review!IsApproved(u)})
    OBVIOUS
  <2>2. n \in 0..Cardinality(ReviewTasks)
    BY <2>1, FS_Subset, FS_CardinalityType
  <2>3. \A S : Review!Cardinality(S) = Cardinality(S)
    BY Zenon DEF Review!Cardinality, Cardinality
  <2>4. /\ approved' = [approved EXCEPT ![t] = clock] /\ order' = [order EXCEPT ![t] = n]
        /\ UNCHANGED <<sample, verdict, run, clock, ran, crowded, failed>>
    BY <1>8, <2>1, <2>3 DEF Review!Approve
  <2>5. order' \in [ReviewTasks -> 0..Cardinality(ReviewTasks)]
    BY <2>2, <2>3, <2>4 DEF Review!TypeOK
  <2>6. approved' \in [ReviewTasks -> Review!Halves \cup {Null}]
    BY <2>4 DEF Review!TypeOK
  <2> QED
    BY <2>3, <2>4, <2>5, <2>6 DEF Review!TypeOK, Review!Halves
<1>9. ASSUME NEW t \in ReviewTasks, Review!SetVerdict(t) PROVE Review!TypeOK'
  <2>1. PICK v, new : /\ v \in Verdicts
                      /\ new = [last |-> v, shown |-> IF verdict[t].shown = Null THEN v ELSE verdict[t].shown]
                      /\ verdict' = [verdict EXCEPT ![t] = new]
    BY <1>9 DEF Review!SetVerdict
  <2>2. verdict[t].shown \in Verdicts \cup {Null}
    BY DEF Review!TypeOK
  <2>3. new \in [last : Verdicts \cup {Null}, shown : Verdicts \cup {Null}]
    BY <2>1, <2>2
  <2>4. verdict' \in [ReviewTasks -> [last : Verdicts \cup {Null}, shown : Verdicts \cup {Null}]]
    BY <2>1, <2>3 DEF Review!TypeOK
  <2>5. UNCHANGED <<approved, order, sample, run, clock, ran, crowded, failed>>
    BY <1>9 DEF Review!SetVerdict
  <2> QED
    BY <2>4, <2>5 DEF Review!TypeOK, Review!Halves
<1> QED
  BY <1>1, <1>2, <1>3, <1>4, <1>5, <1>6, <1>7, <1>8, <1>9 DEF Review!Next

THEOREM SamplesTyped ==
    ASSUME SamplingAssumption PROVE Review!Spec => []Review!TypeOK
<1>1. ASSUME Review!Init PROVE Review!TypeOK
  <2>1. \A S : Review!Cardinality(S) = Cardinality(S)
    BY Zenon DEF Review!Cardinality, Cardinality
  <2>2. 0 \in 0..Review!Cardinality(ReviewTasks)
    BY <2>1, FS_CardinalityType DEF SamplingAssumption
  <2> QED
    BY <1>1, <2>2 DEF Review!Init, Review!TypeOK, Review!Halves, SamplingAssumption
<1>2. SamplingInv /\ [Review!Next]_(Review!vars) => SamplingInv'
  BY NoStepOfSampling, StartRunKeeps, InsertsKeep, RunsEnd, TickKeeps, OthersKeepSampling
  DEF Review!Next, SamplingAssumption
<1>3. Review!Init => SamplingInv
  BY SamplingInit DEF SamplingAssumption
<1> QED
  BY <1>1, <1>2, <1>3, SamplingTypes, PTL DEF Review!Spec

-----------------------------------------------------------------------------
(* The profile of a candidate.                                             *)

\* None is a value of its own, and the AI's confidences are numbers where there are any.
ProfileAssumption ==
    /\ \A v, c, m : [value |-> v, conf |-> c, method |-> m] # Null
    /\ \A reply \in Replies, f \in Profile!Fields :
          reply[f] # Null => reply[f].conf \in Int \cup {Null}

IsMeta(x) ==
    x # Null => /\ x = [value |-> x.value, conf |-> x.conf, method |-> x.method]
                /\ x.conf \in 0..100 /\ x.method \in Profile!Methods

LEMMA ValidatedIsMeta ==
    ASSUME ProfileAssumption, NEW reply \in Replies, NEW f \in Profile!Fields
    PROVE  IsMeta(Profile!validateAndNormalizeProfile(reply)[f])
<1> DEFINE meta == Profile!ValidatedField(f, reply[f])
<1>1. Profile!validateAndNormalizeProfile(reply)[f] = Profile!SmokeChecked(f, meta)
  BY DEF Profile!validateAndNormalizeProfile
<1>2. CASE reply[f] = Null
  BY <1>1, <1>2 DEF Profile!ValidatedField, Profile!SmokeChecked, IsMeta
<1>3. CASE reply[f] # Null
  <2>1. reply[f].conf \in Int \cup {Null}
    BY <1>3 DEF ProfileAssumption
  <2>2. meta # Null /\ meta.conf \in 0..100
    BY <1>3, <2>1 DEF Profile!ValidatedField, Profile!Clamp, ProfileAssumption
  <2> DEFINE c == Profile!Clamp(meta.conf)
             m == IF meta.method \in Profile!Methods THEN meta.method ELSE "inferred"
             v == IF f # "salary" \/ meta.value = Null THEN meta.value
                  ELSE [meta.value EXCEPT !.min = Profile!NotNegative(@), !.max = Profile!NotNegative(@)]
  <2>3. c \in 0..100
    BY <2>2 DEF Profile!Clamp
  <2>4. m \in Profile!Methods
    BY DEF Profile!Methods
  <2>5. Profile!SmokeChecked(f, meta) = [value |-> v, conf |-> c, method |-> m]
    BY <2>2, Zenon DEF Profile!SmokeChecked
  <2> HIDE DEF c, m, v, meta
  <2> QED
    BY <1>1, <2>3, <2>4, <2>5 DEF IsMeta
<1> QED
  BY <1>2, <1>3

LEMMA MetaChanged ==
    ASSUME NEW x, NEW conf, NEW method, x = [value |-> x.value, conf |-> x.conf, method |-> x.method]
    PROVE  [x EXCEPT !.conf = conf, !.method = method] = [value |-> x.value, conf |-> conf, method |-> method]
<1> DEFINE y == [x EXCEPT !.conf = conf, !.method = method]
           F == {"value", "conf", "method"}
<1>1. DOMAIN x = F
  OBVIOUS
<1>2. y = [i \in F |-> y[i]]
  BY <1>1
<1>3. y.value = x.value /\ y.conf = conf /\ y.method = method
  BY <1>1
<1> HIDE DEF y
<1> QED
  BY <1>2, <1>3

\* What becomes of one field.  An accepted value has metadata; without one, the metadata
\* stay, or have come to say that there is no value where there was none.
LEMMA Merging ==
    ASSUME ProfileAssumption, NEW f \in Profile!Fields, NEW old, NEW told,
           IsMeta(old.meta[f]), IsMeta(told[f])
    PROVE  LET merged == Profile!MergedMeta(old, told)[f]
           IN  /\ IsMeta(merged)
               /\ f \in Profile!Accepted(old, told) => told[f] # Null /\ merged # Null
               /\ f \notin Profile!Accepted(old, told) =>
                     \/ merged = old.meta[f]
                     \/ merged # Null /\ merged.value = Null /\ (old.meta[f] = Null \/ old.meta[f].value = Null)
<1> DEFINE was    == old.meta[f]
           new    == told[f]
           final  == Profile!FinalMeta(f, was, new)
           merged == Profile!MergedMeta(old, told)[f]
<1>1. ASSUME new = Null PROVE merged = was /\ f \notin Profile!Accepted(old, told)
  BY <1>1 DEF Profile!MergedMeta, Profile!Accepted
<1>2. ASSUME was # Null, new # Null
      PROVE  LET c == Profile!Confirmed(was, new) IN IsMeta(c) /\ c # Null /\ c.value = was.value
  <2> DEFINE conf == IF new.conf > was.conf THEN new.conf ELSE was.conf
             method == IF new.method = "explicit" THEN new.method ELSE was.method
  <2>1. /\ was = [value |-> was.value, conf |-> was.conf, method |-> was.method]
        /\ conf \in 0..100 /\ method \in Profile!Methods
    BY <1>2 DEF IsMeta
  <2>2. Profile!Confirmed(was, new) = [was EXCEPT !.conf = conf, !.method = method]
    BY Zenon DEF Profile!Confirmed
  <2> HIDE DEF conf, method, was, new
  <2>3. [was EXCEPT !.conf = conf, !.method = method]
           = [value |-> was.value, conf |-> conf, method |-> method]
    BY <2>1, MetaChanged
  <2> QED
    BY <2>1, <2>2, <2>3 DEF IsMeta, ProfileAssumption
<1>3. ASSUME new # Null, Profile!Decision(f, was, new) = "accept"
      PROVE  /\ IsMeta(final) /\ final # Null
             /\ final.value = Null => was = Null \/ was.value = Null
  <2>1. final = IF was # Null /\ ~ Profile!valuesMeaningfullyDifferent(f, was.value, new.value)
                THEN Profile!Confirmed(was, new) ELSE new
    BY <1>3, Zenon DEF Profile!FinalMeta
  <2>2. new.value = Null => was = Null
    BY <1>3 DEF Profile!Decision
  <2> QED
    BY <1>2, <1>3, <2>1, <2>2
<1>4. ASSUME new # Null, Profile!Decision(f, was, new) # "accept"
      PROVE  merged = was /\ f \notin Profile!Accepted(old, told)
  BY <1>4 DEF Profile!MergedMeta, Profile!Accepted, Profile!FinalMeta
<1>5. ASSUME new # Null, Profile!Decision(f, was, new) = "accept"
      PROVE  /\ IsMeta(merged) /\ merged # Null
             /\ f \in Profile!Accepted(old, told) \/ merged = final
             /\ f \in Profile!Accepted(old, told) <=> final.value # Null
  <2>1. f \in Profile!Accepted(old, told) <=> final.value # Null
    BY <1>5 DEF Profile!Accepted
  <2>2. merged = IF f = "skills" /\ f \in Profile!Accepted(old, told)
                 THEN [final EXCEPT !.value = Profile!MergedSkills(old, @)] ELSE final
    BY <1>5, Zenon DEF Profile!MergedMeta
  <2>3. PICK v : v = Profile!MergedSkills(old, final.value)
    OBVIOUS
  <2>4. final = [value |-> final.value, conf |-> final.conf, method |-> final.method]
        /\ final.conf \in 0..100 /\ final.method \in Profile!Methods
    BY <1>3, <1>5 DEF IsMeta
  <2>5. [final EXCEPT !.value = Profile!MergedSkills(old, @)]
           = [value |-> v, conf |-> final.conf, method |-> final.method]
    BY <2>3, <2>4
  <2> HIDE DEF final, merged
  <2>6. merged = final \/ merged = [value |-> v, conf |-> final.conf, method |-> final.method]
    BY <2>2, <2>5
  <2>7. IsMeta(final) /\ final # Null
    BY <1>3, <1>5
  <2>8. IsMeta([value |-> v, conf |-> final.conf, method |-> final.method])
        /\ [value |-> v, conf |-> final.conf, method |-> final.method] # Null
    BY <2>4 DEF IsMeta, ProfileAssumption
  <2> QED
    BY <2>1, <2>2, <2>6, <2>7, <2>8
<1> HIDE DEF was, new, final, merged
<1> SUFFICES /\ IsMeta(merged)
             /\ f \in Profile!Accepted(old, told) => new # Null /\ merged # Null
             /\ f \notin Profile!Accepted(old, told) =>
                   \/ merged = was
                   \/ merged # Null /\ merged.value = Null /\ (was = Null \/ was.value = Null)
  BY DEF was, new, merged
<1>6. IsMeta(was)
  BY DEF was
<1> QED
  BY <1>1, <1>3, <1>4, <1>5, <1>6
ReadRow(m) == Profile!Known(job[m].read)

Vouched(r, f) == r.cols[f] = IF r.meta[f] = Null THEN Null ELSE r.meta[f].value

\* A row that a job has read was one like that of now: what its metadata say is all that a
\* merge looks at.
ProfileInv ==
    /\ DOMAIN job = Messages
    /\ \A m \in Messages : DOMAIN job[m] = {"pc", "read", "told", "runs"}
    /\ \A m \in Messages, f \in Profile!Fields : IsMeta(ReadRow(m).meta[f]) /\ IsMeta(job[m].told[f])
    /\ \A f \in Profile!Fields : IsMeta(Profile!Known(candidate).meta[f])
    /\ \A f \in Profile!Fields \ torn : Vouched(Profile!Known(candidate), f)

LEMMA NoRowIsVouched ==
    ASSUME NEW f \in Profile!Fields
    PROVE  IsMeta(Profile!NoRow.meta[f]) /\ Vouched(Profile!NoRow, f)
  BY DEF Profile!NoRow, IsMeta, Vouched

LEMMA RestJob ==
    ASSUME NEW f \in Profile!Fields
    PROVE  IsMeta(Profile!Known(Null).meta[f]) /\ IsMeta(Profile!NoJob.told[f])
  BY NoRowIsVouched DEF Profile!Known, Profile!NoJob, IsMeta

LEMMA ProfileInit == ASSUME Profile!Init PROVE ProfileInv
<1>1. /\ candidate = Null /\ job = [m \in Messages |-> Profile!NoJob]
      /\ Profile!NoJob.read = Null /\ \A f \in Profile!Fields : Profile!NoJob.told[f] = Null
      /\ DOMAIN Profile!NoJob = {"pc", "read", "told", "runs"}
  BY DEF Profile!Init, Profile!NoJob
<1>2. Profile!Known(Null) = Profile!NoRow
  BY DEF Profile!Known
<1> QED
  BY <1>1, <1>2, NoRowIsVouched DEF ProfileInv, ReadRow, IsMeta

\* A write changes the metadata of a field by the merge of the answer into the row as read.
LEMMA UpsertFacts ==
    ASSUME ProfileAssumption, ProfileInv, NEW m \in Messages, Profile!Upsert(m), NEW f \in Profile!Fields
    PROVE  LET cur == Profile!Known(candidate)
               old == ReadRow(m)
               new == job[m].told
           IN  /\ candidate'.meta[f] = Profile!MergedMeta(old, new)[f]
               /\ candidate'.cols[f] = IF f \in Profile!Accepted(old, new)
                                       THEN candidate'.meta[f].value ELSE cur.cols[f]
               /\ f \notin torn' => f \notin torn /\ cur.meta[f] = old.meta[f]
               /\ IsMeta(candidate'.meta[f])
               /\ f \notin torn' => Vouched(candidate', f)
<1>1. PICK cur, old, new : cur = Profile!Known(candidate) /\ old = ReadRow(m) /\ new = job[m].told
  OBVIOUS
<1>2. /\ candidate' = Profile!Upserted(cur, old, new)
      /\ torn' = torn \cup {g \in Profile!Fields : cur.meta[g] # old.meta[g]}
  BY <1>1 DEF Profile!Upsert, ReadRow
<1>3. /\ candidate'.meta[f] = Profile!MergedMeta(old, new)[f]
      /\ candidate'.cols[f] = IF f \in Profile!Accepted(old, new)
                              THEN candidate'.meta[f].value ELSE cur.cols[f]
  BY <1>2 DEF Profile!Upserted
<1>4. f \notin torn' => f \notin torn /\ cur.meta[f] = old.meta[f]
  BY <1>2
<1>5. IsMeta(old.meta[f]) /\ IsMeta(new[f])
  BY <1>1 DEF ProfileInv
<1>6. /\ IsMeta(candidate'.meta[f])
      /\ f \in Profile!Accepted(old, new) => candidate'.meta[f] # Null
      /\ f \notin Profile!Accepted(old, new) =>
            \/ candidate'.meta[f] = old.meta[f]
            \/ /\ candidate'.meta[f] # Null /\ candidate'.meta[f].value = Null
               /\ old.meta[f] = Null \/ old.meta[f].value = Null
  BY <1>3, <1>5, Merging
<1>7. f \notin torn' => Vouched(candidate', f)
  <2> SUFFICES ASSUME f \notin torn' PROVE Vouched(candidate', f)
    OBVIOUS
  <2>1. Vouched(cur, f) /\ cur.meta[f] = old.meta[f]
    BY <1>1, <1>4 DEF ProfileInv
  <2> QED
    BY <1>3, <1>6, <2>1 DEF Vouched
<1> QED
  BY <1>1, <1>3, <1>4, <1>6, <1>7

LEMMA ProfileNext ==
    ASSUME ProfileAssumption, ProfileInv, [Profile!Next]_(Profile!vars) PROVE ProfileInv'
<1>1. ASSUME NEW m \in Messages, Profile!NoAnswer(m) \/ Profile!UpsertFails(m) \/ Profile!Again(m)
      PROVE  ProfileInv'
  <2>1. \/ job' = [job EXCEPT ![m].pc = "done"]
        \/ Profile!Done(m)
        \/ job' = [job EXCEPT ![m] = [Profile!NoJob EXCEPT !.runs = job[m].runs - 1]]
    BY <1>1 DEF Profile!NoAnswer, Profile!UpsertFails, Profile!Again
  <2>2. candidate' = candidate /\ torn' = torn
    BY <1>1 DEF Profile!NoAnswer, Profile!UpsertFails, Profile!Again
  <2>3. /\ DOMAIN job' = Messages /\ DOMAIN job'[m] = {"pc", "read", "told", "runs"}
        /\ \A n \in Messages \ {m} : job'[n] = job[n]
        /\ \/ job'[m].read = Null /\ job'[m].told = Profile!NoJob.told
           \/ job'[m].read = job[m].read /\ job'[m].told = job[m].told
    <3>1. CASE job' = [job EXCEPT ![m].pc = "done"]
      BY <3>1 DEF ProfileInv
    <3>2. CASE Profile!Done(m)
      BY <3>2 DEF ProfileInv, Profile!Done
    <3>3. CASE job' = [job EXCEPT ![m] = [Profile!NoJob EXCEPT !.runs = job[m].runs - 1]]
      BY <3>3 DEF ProfileInv, Profile!NoJob
    <3> QED
      BY <2>1, <3>1, <3>2, <3>3
  <2> QED
    BY <2>2, <2>3, RestJob DEF ProfileInv, ReadRow
<1>2. ASSUME NEW m \in Messages, Profile!Read(m) PROVE ProfileInv'
  <2>1. PICK reply \in Replies :
          job' = [job EXCEPT ![m] = [@ EXCEPT !.pc = "merge", !.read = candidate,
                                              !.told = Profile!validateAndNormalizeProfile(reply)]]
    BY <1>2 DEF Profile!Read
  <2>2. candidate' = candidate /\ torn' = torn
    BY <1>2 DEF Profile!Read
  <2>3. PICK told : told = Profile!validateAndNormalizeProfile(reply)
    OBVIOUS
  <2>4. /\ DOMAIN job' = Messages /\ DOMAIN job'[m] = {"pc", "read", "told", "runs"}
        /\ \A n \in Messages \ {m} : job'[n] = job[n]
        /\ job'[m].read = candidate /\ job'[m].told = told
    BY <2>1, <2>3 DEF ProfileInv
  <2>5. \A f \in Profile!Fields : IsMeta(told[f])
    BY <2>3, ValidatedIsMeta
  <2> QED
    BY <2>2, <2>4, <2>5 DEF ProfileInv, ReadRow
<1>3. ASSUME NEW m \in Messages, Profile!Upsert(m) PROVE ProfileInv'
  <2>1. /\ DOMAIN job' = Messages /\ DOMAIN job'[m] = {"pc", "read", "told", "runs"}
        /\ \A n \in Messages \ {m} : job'[n] = job[n]
        /\ job'[m].read = Null /\ job'[m].told = Profile!NoJob.told
    BY <1>3 DEF ProfileInv, Profile!Upsert, Profile!Done
  <2>2. \A f \in Profile!Fields : IsMeta(candidate'.meta[f]) /\ (f \notin torn' => Vouched(candidate', f))
    BY <1>3, UpsertFacts
  <2>3. Profile!Known(candidate') = candidate' \/ Profile!Known(candidate') = Profile!NoRow
    BY DEF Profile!Known
  <2>4. \A f \in Profile!Fields : /\ IsMeta(Profile!Known(candidate').meta[f])
                                  /\ f \notin torn' => Vouched(Profile!Known(candidate'), f)
    BY <2>2, <2>3, NoRowIsVouched
  <2>5. \A n \in Messages, f \in Profile!Fields : IsMeta(ReadRow(n)'.meta[f]) /\ IsMeta(job'[n].told[f])
    BY <2>1, RestJob DEF ProfileInv, ReadRow
  <2>6. \A n \in Messages : DOMAIN job'[n] = {"pc", "read", "told", "runs"}
    BY <2>1 DEF ProfileInv
  <2> QED
    BY <2>1, <2>4, <2>5, <2>6 DEF ProfileInv
<1>4. CASE UNCHANGED Profile!vars
  BY <1>4 DEF Profile!vars, ProfileInv, ReadRow
<1> QED
  BY <1>1, <1>2, <1>3, <1>4 DEF Profile!Next

\* The column of a field is the value that its metadata vouch for, whatever was accepted,
\* refused or in conflict, with any number of messages whose jobs overlap, fail and start
\* again; only the write of an older row's metadata tears them apart.
THEOREM ColumnsAreVouched ==
    ASSUME ProfileAssumption PROVE Profile!Spec => []Profile!ColumnsFollowMetas
<1>1. ProfileInv => Profile!ColumnsFollowMetas
  BY DEF ProfileInv, Profile!ColumnsFollowMetas, Vouched, Profile!Known
<1> QED
  BY <1>1, ProfileInit, ProfileNext, PTL DEF Profile!Spec

\* A value is replaced only by one that is as sure but for 15 percents, or by one that was
\* said where the old one was guessed, unless an older row's metadata came in between.
THEOREM GuessesGiveWay == ASSUME ProfileAssumption PROVE Profile!Spec => Profile!GuessesYield
<1> DEFINE Yields == \A f \in Profile!Fields \ torn' :
             /\ candidate # Null /\ candidate' # Null
             /\ candidate.cols[f] # Null /\ candidate'.cols[f] # candidate.cols[f] /\ f # "skills"
             => \/ candidate'.meta[f].conf >= candidate.meta[f].conf - 15
                \/ candidate'.meta[f].method = "explicit" /\ candidate.meta[f].method = "inferred"
<1>1. ASSUME ProfileInv, [Profile!Next]_(Profile!vars) PROVE Yields
  <2> SUFFICES ASSUME NEW f \in Profile!Fields \ torn', candidate # Null, candidate' # Null,
                      candidate.cols[f] # Null, candidate'.cols[f] # candidate.cols[f], f # "skills"
               PROVE  \/ candidate'.meta[f].conf >= candidate.meta[f].conf - 15
                      \/ candidate'.meta[f].method = "explicit" /\ candidate.meta[f].method = "inferred"
    OBVIOUS
  <2>1. PICK m \in Messages : Profile!Upsert(m)
    BY <1>1 DEF Profile!Next, Profile!NoAnswer, Profile!Read, Profile!UpsertFails, Profile!Again, Profile!vars
  <2>2. PICK old, told : old = ReadRow(m) /\ told = job[m].told
    OBVIOUS
  <2> DEFINE was == old.meta[f]
             new == told[f]
  <2>3. /\ Profile!Known(candidate) = candidate /\ Vouched(candidate, f) /\ candidate.meta[f] = was
        /\ candidate'.meta[f] = Profile!MergedMeta(old, told)[f]
        /\ candidate'.cols[f] = IF f \in Profile!Accepted(old, told)
                                THEN candidate'.meta[f].value ELSE candidate.cols[f]
    BY <1>1, <2>1, <2>2, UpsertFacts DEF ProfileInv, Profile!Known
  <2>4. /\ f \in Profile!Accepted(old, told) /\ was # Null /\ candidate.cols[f] = was.value
        /\ candidate'.cols[f] = candidate'.meta[f].value
    BY <2>3 DEF Vouched
  <2>5. new # Null /\ Profile!Decision(f, was, new) = "accept"
    BY <2>4 DEF Profile!Accepted
  <2>6. candidate'.meta[f] = Profile!FinalMeta(f, was, new)
    BY <2>3, <2>5 DEF Profile!MergedMeta
  <2>7. IsMeta(was) /\ IsMeta(new)
    BY <1>1, <2>2 DEF ProfileInv
  <2>8. CASE ~ Profile!valuesMeaningfullyDifferent(f, was.value, new.value)
    <3>1. candidate'.meta[f] = Profile!Confirmed(was, new)
      BY <2>4, <2>5, <2>6, <2>8 DEF Profile!FinalMeta
    <3> QED
      BY <2>4, <2>7, <3>1 DEF Profile!Confirmed, IsMeta
  <2>9. CASE Profile!valuesMeaningfullyDifferent(f, was.value, new.value)
    <3>1. candidate'.meta[f] = new
      BY <2>4, <2>5, <2>6, <2>9 DEF Profile!FinalMeta
    <3>2. \/ new.method = "explicit" /\ was.method = "inferred"
          \/ new.conf >= was.conf + 20 \/ Profile!Near(was, new, 15)
      BY <2>4, <2>5, <2>9 DEF Profile!Decision
    <3>3. was.conf \in Int /\ new.conf \in Int
      BY <2>4, <2>5, <2>7 DEF IsMeta
    <3> QED
      BY <2>3, <3>1, <3>2, <3>3 DEF Profile!Near
  <2> QED
    BY <2>8, <2>9
<1>2. ProfileInv /\ [Profile!Next]_(Profile!vars) => [Yields]_(Profile!vars)
  BY <1>1
<1> QED
  BY <1>2, ProfileInit, ProfileNext, PTL DEF Profile!Spec, Profile!GuessesYield

\* What a salary is made of once the AI's answer has been looked over: a range, or an end of one.
IsRange(v) ==
    /\ v = [min |-> v.min, max |-> v.max, currency |-> v.currency]
    /\ v.min \in Nat \cup {Null} /\ v.max \in Nat \cup {Null}
    /\ v.min # Null /\ v.max # Null => v.min <= v.max

\* The ends of a range that the AI claims are numbers where there are any.
SalaryAssumption ==
    \A reply \in Replies :
        LET claim == reply["salary"]
        IN  claim # Null /\ claim.value # Null => /\ claim.value.min \in Int \cup {Null}
                                                  /\ claim.value.max \in Int \cup {Null}

Ranged(meta) == meta # Null /\ meta.value # Null => IsRange(meta.value)

LEMMA NormalizedIsRange ==
    ASSUME NEW v, v # Null => v.min \in Int \cup {Null} /\ v.max \in Int \cup {Null},
           Profile!normalizeSalaryValue(v) # Null
    PROVE  IsRange(Profile!normalizeSalaryValue(v))
<1>1. PICK min, max, c : /\ min = Profile!NotNegative(v.min) /\ max = Profile!NotNegative(v.max)
                         /\ c = IF v.currency = "GBP" THEN "GBP" ELSE Null
  OBVIOUS
<1>2. v # Null
  BY DEF Profile!normalizeSalaryValue
<1>3. min \in Nat \cup {Null} /\ max \in Nat \cup {Null}
  BY <1>1, <1>2 DEF Profile!NotNegative
<1>4. PICK swap \in BOOLEAN : swap <=> (min # Null /\ max # Null /\ min > max)
  OBVIOUS
<1>5. PICK low, high : low = (IF swap THEN max ELSE min) /\ high = (IF swap THEN min ELSE max)
  OBVIOUS
<1>6. Profile!normalizeSalaryValue(v) = [min |-> low, max |-> high, currency |-> c]
  <2>1. \/ Profile!normalizeSalaryValue(v)
              = [min |-> IF min # Null /\ max # Null /\ min > max THEN max ELSE min,
                 max |-> IF min # Null /\ max # Null /\ min > max THEN min ELSE max, currency |-> c]
        \/ Profile!normalizeSalaryValue(v) = Null
    BY <1>1, <1>2, Zenon DEF Profile!normalizeSalaryValue
  <2> QED
    BY <1>4, <1>5, <2>1
<1>7. low \in Nat \cup {Null} /\ high \in Nat \cup {Null} /\ (low # Null /\ high # Null => low <= high)
  BY <1>3, <1>4, <1>5
<1> QED
  BY <1>6, <1>7 DEF IsRange

LEMMA ValidatedIsRanged ==
    ASSUME ProfileAssumption, SalaryAssumption, NEW reply \in Replies
    PROVE  Ranged(Profile!validateAndNormalizeProfile(reply)["salary"])
<1>1. PICK meta : meta = Profile!ValidatedField("salary", reply["salary"])
  OBVIOUS
<1>2. Profile!validateAndNormalizeProfile(reply)["salary"] = Profile!SmokeChecked("salary", meta)
  BY <1>1 DEF Profile!validateAndNormalizeProfile, Profile!Fields
<1>3. CASE reply["salary"] = Null
  BY <1>1, <1>2, <1>3 DEF Profile!ValidatedField, Profile!SmokeChecked, Ranged
<1>4. CASE reply["salary"] # Null
  <2>1. PICK v, w : v = reply["salary"].value /\ w = Profile!normalizeSalaryValue(v)
    OBVIOUS
  <2>2. w # Null => IsRange(w)
    <3>1. v # Null => v.min \in Int \cup {Null} /\ v.max \in Int \cup {Null}
      BY <1>4, <2>1 DEF SalaryAssumption
    <3> QED
      BY <2>1, <3>1, NormalizedIsRange
  <2>3. meta # Null /\ meta.value = w
    BY <1>1, <1>4, <2>1 DEF Profile!ValidatedField, ProfileAssumption
  <2>4. PICK u : u = IF w = Null THEN w ELSE [w EXCEPT !.min = Profile!NotNegative(@),
                                                       !.max = Profile!NotNegative(@)]
    OBVIOUS
  <2>5. Profile!SmokeChecked("salary", meta).value = u
    BY <2>3, <2>4 DEF Profile!SmokeChecked
  <2>6. u # Null => IsRange(u)
    <3> SUFFICES ASSUME w # Null PROVE IsRange(u)
      BY <2>4
    <3>1. Profile!NotNegative(w.min) = w.min /\ Profile!NotNegative(w.max) = w.max
      BY <2>2 DEF IsRange, Profile!NotNegative
    <3>2. u = w
      BY <2>2, <2>4, <3>1 DEF IsRange
    <3> QED
      BY <2>2, <3>2
  <2> QED
    BY <1>2, <2>5, <2>6 DEF Ranged
<1> QED
  BY <1>3, <1>4

\* A merge makes up no salary: it is that of the row or that of the answer.
LEMMA SalaryMerged ==
    ASSUME ProfileAssumption, NEW old, NEW told, IsMeta(old.meta["salary"]),
           IsMeta(told["salary"]), Ranged(old.meta["salary"]), Ranged(told["salary"])
    PROVE  /\ Ranged(Profile!MergedMeta(old, told)["salary"])
           /\ "salary" \in Profile!Accepted(old, told) =>
                 IsRange(Profile!MergedMeta(old, told)["salary"].value)
<1>1. PICK was, new : was = old.meta["salary"] /\ new = told["salary"]
  OBVIOUS
<1>2. PICK final : final = Profile!FinalMeta("salary", was, new)
  OBVIOUS
<1>3. final = was \/ final = new \/ (was # Null /\ final.value = was.value)
  <2>1. CASE was # Null /\ final = Profile!Confirmed(was, new)
    <3>1. was = [value |-> was.value, conf |-> was.conf, method |-> was.method]
      BY <1>1, <2>1 DEF IsMeta
    <3>2. PICK c, m : final = [was EXCEPT !.conf = c, !.method = m]
      BY <2>1, Zenon DEF Profile!Confirmed
    <3> QED
      BY <2>1, <3>1, <3>2
  <2>2. final \in {was, new} \/ (was # Null /\ final = Profile!Confirmed(was, new))
    BY <1>2, Zenon DEF Profile!FinalMeta
  <2> QED
    BY <2>1, <2>2
<1>4. new = Null \/ Profile!MergedMeta(old, told)["salary"] = final
  BY <1>1, <1>2 DEF Profile!MergedMeta, Profile!Fields
<1>5. new = Null => Profile!MergedMeta(old, told)["salary"] = was
  BY <1>1 DEF Profile!MergedMeta, Profile!Fields
<1>6. "salary" \in Profile!Accepted(old, told) => new # Null /\ final.value # Null
  BY <1>1, <1>2 DEF Profile!Accepted
<1>7. Ranged(was) /\ Ranged(new)
  BY <1>1
<1>8. "salary" \in Profile!Accepted(old, told) => final # Null
  <2>1. "salary" \in Profile!Fields
    BY DEF Profile!Fields
  <2> QED
    BY <1>1, <1>4, <2>1, Merging
<1> QED
  BY <1>3, <1>4, <1>5, <1>6, <1>7, <1>8 DEF Ranged

\* What a row says besides its values: the fields in conflict are those that ask for a review.
Flagged(r) == r.conflicts \subseteq Profile!Fields /\ (r.needsReview <=> r.conflicts # {})

ProfileTypes ==
    /\ \A m \in Messages : /\ Ranged(ReadRow(m).meta["salary"]) /\ Ranged(job[m].told["salary"])
                           /\ Flagged(ReadRow(m))
                           /\ job[m].pc \in {"idle", "merge", "done"} /\ job[m].runs \in 1..Attempts
    /\ Ranged(Profile!Known(candidate).meta["salary"])
    /\ Profile!Known(candidate).cols["salary"] # Null => IsRange(Profile!Known(candidate).cols["salary"])
    /\ Flagged(Profile!Known(candidate))
    /\ torn \subseteq Profile!Fields /\ profileFaults \in 0..MaxFailures

\* Before there is a row nothing is known, and nothing asks for a review.
LEMMA NoRowTyped ==
    /\ Profile!Known(Null) = Profile!NoRow
    /\ Ranged(Profile!NoRow.meta["salary"]) /\ Profile!NoRow.cols["salary"] = Null
    /\ Flagged(Profile!NoRow)
    /\ Ranged(Profile!NoJob.told["salary"])
<1>1. Profile!NoRow.conflicts = {} /\ Profile!NoRow.needsReview = FALSE
  BY DEF Profile!NoRow
<1> QED
  BY <1>1 DEF Profile!Known, Profile!NoRow, Profile!NoJob, Profile!Fields, Ranged, Flagged

LEMMA ProfileTypesInit ==
    ASSUME Attempts \in Nat \ {0}, MaxFailures \in Nat, Profile!Init PROVE ProfileTypes
<1>1. /\ candidate = Null /\ torn = {} /\ profileFaults = 0 /\ job = [m \in Messages |-> Profile!NoJob]
  BY DEF Profile!Init
<1>2. Profile!NoJob.pc = "idle" /\ Profile!NoJob.read = Null /\ Profile!NoJob.runs = Attempts
  BY DEF Profile!NoJob
<1> QED
  BY <1>1, <1>2, NoRowTyped DEF ProfileTypes, ReadRow

\* One job goes on, and the row stays.
LEMMA TypesOfJob ==
    ASSUME ProfileTypes, NEW m \in Messages, \A n \in Messages \ {m} : job'[n] = job[n],
           candidate' = candidate, torn' = torn, profileFaults' \in 0..MaxFailures,
           job'[m].read \in {Null, candidate, job[m].read}, Ranged(job'[m].told["salary"]),
           job'[m].pc \in {"idle", "merge", "done"}, job'[m].runs \in 1..Attempts
    PROVE  ProfileTypes'
<1>1. PICK r : r = job'[m].read
  OBVIOUS
<1>2. Ranged(Profile!Known(r).meta["salary"]) /\ Flagged(Profile!Known(r))
  BY <1>1, NoRowTyped DEF ProfileTypes, ReadRow
<1> QED
  BY <1>1, <1>2 DEF ProfileTypes, ReadRow

LEMMA ProfileTypesNext ==
    ASSUME ProfileAssumption, SalaryAssumption, Attempts \in Nat \ {0}, MaxFailures \in Nat,
           ProfileInv, ProfileTypes, [Profile!Next]_(Profile!vars)
    PROVE  ProfileTypes'
<1>1. ASSUME NEW m \in Messages PROVE /\ Ranged(job[m].told["salary"]) /\ job[m].runs \in 1..Attempts
                                     /\ job[m].pc \in {"idle", "merge", "done"}
  BY DEF ProfileTypes
<1>2. ASSUME NEW m \in Messages, NEW q, DOMAIN q = {"pc", "read", "told", "runs"},
             job' = [job EXCEPT ![m] = q]
      PROVE  job'[m] = q /\ \A n \in Messages \ {m} : job'[n] = job[n]
  BY <1>2 DEF ProfileInv
<1>3. profileFaults \in 0..MaxFailures
  BY DEF ProfileTypes
<1>4. Ranged(Profile!NoJob.told["salary"])
  BY NoRowTyped
<1>5. ASSUME NEW m \in Messages, Profile!Done(m)
      PROVE  /\ \A n \in Messages \ {m} : job'[n] = job[n]
             /\ job'[m].read = Null /\ Ranged(job'[m].told["salary"])
             /\ job'[m].pc = "done" /\ job'[m].runs \in 1..Attempts
  <2>1. job'[m].told = Profile!NoJob.told /\ job'[m].runs = job[m].runs
        /\ job'[m].pc = "done" /\ job'[m].read = Null /\ \A n \in Messages \ {m} : job'[n] = job[n]
    BY <1>5 DEF Profile!Done, ProfileInv
  <2> QED
    BY <1>1, <1>4, <2>1
<1>6. ASSUME NEW m \in Messages, Profile!NoAnswer(m) PROVE ProfileTypes'
  <2>1. /\ \A n \in Messages \ {m} : job'[n] = job[n]
        /\ job'[m].read = job[m].read /\ job'[m].told = job[m].told /\ job'[m].runs = job[m].runs
        /\ job'[m].pc = "done"
    BY <1>6 DEF Profile!NoAnswer, ProfileInv
  <2>2. candidate' = candidate /\ torn' = torn /\ profileFaults' = profileFaults
    BY <1>6 DEF Profile!NoAnswer
  <2> QED
    BY <1>1, <1>3, <2>1, <2>2, TypesOfJob
<1>7. ASSUME NEW m \in Messages, Profile!Read(m) PROVE ProfileTypes'
  <2>1. PICK reply \in Replies :
          job' = [job EXCEPT ![m] = [@ EXCEPT !.pc = "merge", !.read = candidate,
                                              !.told = Profile!validateAndNormalizeProfile(reply)]]
    BY <1>7 DEF Profile!Read
  <2>2. PICK told : told = Profile!validateAndNormalizeProfile(reply)
    OBVIOUS
  <2>3. /\ \A n \in Messages \ {m} : job'[n] = job[n]
        /\ job'[m].read = candidate /\ job'[m].told = told /\ job'[m].runs = job[m].runs
        /\ job'[m].pc = "merge"
    BY <2>1, <2>2 DEF ProfileInv
  <2>4. Ranged(told["salary"])
    BY <2>2, ValidatedIsRanged
  <2>5. candidate' = candidate /\ torn' = torn /\ profileFaults' = profileFaults
    BY <1>7 DEF Profile!Read
  <2> QED
    BY <1>1, <1>3, <2>3, <2>4, <2>5, TypesOfJob
<1>8. ASSUME NEW m \in Messages, Profile!UpsertFails(m) PROVE ProfileTypes'
  <2>1. /\ Profile!Done(m) /\ candidate' = candidate /\ torn' = torn
        /\ profileFaults' \in {profileFaults, profileFaults + 1}
        /\ profileFaults' = profileFaults \/ profileFaults < MaxFailures
    BY <1>8 DEF Profile!UpsertFails
  <2>2. profileFaults' \in 0..MaxFailures
    BY <1>3, <2>1
  <2> QED
    BY <1>5, <2>1, <2>2, TypesOfJob
<1>9. ASSUME NEW m \in Messages, Profile!Again(m) PROVE ProfileTypes'
  <2>1. PICK q : /\ q = [Profile!NoJob EXCEPT !.runs = job[m].runs - 1]
                 /\ job' = [job EXCEPT ![m] = q]
    BY <1>9 DEF Profile!Again
  <2>2. /\ q.pc = "idle" /\ q.read = Null /\ q.told = Profile!NoJob.told /\ q.runs = job[m].runs - 1
        /\ DOMAIN q = {"pc", "read", "told", "runs"}
    BY <2>1 DEF Profile!NoJob
  <2>3. q.runs \in 1..Attempts
    BY <1>1, <1>9, <2>2 DEF Profile!Again
  <2>4. job'[m] = q /\ \A n \in Messages \ {m} : job'[n] = job[n]
    BY <1>2, <2>1, <2>2
  <2>5. candidate' = candidate /\ torn' = torn /\ profileFaults' = profileFaults
    BY <1>9 DEF Profile!Again
  <2> QED
    BY <1>3, <1>4, <2>2, <2>3, <2>4, <2>5, TypesOfJob
<1>10. ASSUME NEW m \in Messages, Profile!Upsert(m) PROVE ProfileTypes'
  <2>1. PICK cur, old, new : cur = Profile!Known(candidate) /\ old = ReadRow(m) /\ new = job[m].told
    OBVIOUS
  <2>2. /\ candidate' = Profile!Upserted(cur, old, new) /\ Profile!Done(m)
        /\ torn' = torn \cup {g \in Profile!Fields : cur.meta[g] # old.meta[g]}
        /\ profileFaults' = profileFaults
    BY <1>10, <2>1 DEF Profile!Upsert, ReadRow
  <2>3. "salary" \in Profile!Fields
    BY DEF Profile!Fields
  <2>4. /\ candidate'.meta["salary"] = Profile!MergedMeta(old, new)["salary"]
        /\ candidate'.cols["salary"] = IF "salary" \in Profile!Accepted(old, new)
                                       THEN candidate'.meta["salary"].value ELSE cur.cols["salary"]
    BY <2>2, <2>3 DEF Profile!Upserted
  <2>5. /\ Ranged(candidate'.meta["salary"])
        /\ "salary" \in Profile!Accepted(old, new) => IsRange(candidate'.meta["salary"].value)
    <3>1. IsMeta(old.meta["salary"]) /\ IsMeta(new["salary"])
      BY <2>1, <2>3 DEF ProfileInv
    <3>2. Ranged(old.meta["salary"]) /\ Ranged(new["salary"])
      BY <2>1 DEF ProfileTypes
    <3> QED
      BY <2>4, <3>1, <3>2, SalaryMerged
  <2>6. candidate'.cols["salary"] # Null => IsRange(candidate'.cols["salary"])
    BY <2>1, <2>4, <2>5 DEF ProfileTypes
  <2>7. Flagged(candidate')
    <3>1. Flagged(old) /\ Profile!Conflicting(old, new) \subseteq Profile!Fields
      BY <2>1 DEF ProfileTypes, Profile!Conflicting
    <3>2. /\ candidate'.conflicts = old.conflicts \cup Profile!Conflicting(old, new)
          /\ candidate'.needsReview = (old.needsReview \/ Profile!Conflicting(old, new) # {})
      BY <2>2, Zenon DEF Profile!Upserted
    <3>3. candidate'.needsReview <=> (old.needsReview \/ Profile!Conflicting(old, new) # {})
      BY <3>2, Zenon
    <3> QED
      BY <3>1, <3>2, <3>3 DEF Flagged
  <2>8. PICK row : row = candidate'
    OBVIOUS
  <2>9. /\ Ranged(Profile!Known(row).meta["salary"]) /\ Flagged(Profile!Known(row))
        /\ Profile!Known(row).cols["salary"] # Null => IsRange(Profile!Known(row).cols["salary"])
    BY <2>5, <2>6, <2>7, <2>8, NoRowTyped DEF Profile!Known
  <2>10. torn' \subseteq Profile!Fields
    BY <2>2 DEF ProfileTypes
  <2> QED
    BY <1>3, <1>5, <2>2, <2>8, <2>9, <2>10, NoRowTyped DEF ProfileTypes, ReadRow
<1>11. CASE UNCHANGED Profile!vars
  BY <1>11 DEF Profile!vars, ProfileTypes, ReadRow
<1> QED
  BY <1>6, <1>7, <1>8, <1>9, <1>10, <1>11 DEF Profile!Next

\* A row keeps confidences that are percents, salaries that are ranges and a flag that says
\* whether a field is in conflict, whatever the AI claims and however often a job runs.
THEOREM ProfilesTyped ==
    ASSUME ProfileAssumption, SalaryAssumption, Attempts \in Nat \ {0}, MaxFailures \in Nat
    PROVE  Profile!Spec => []Profile!TypeOK
<1>1. ASSUME NEW v, IsRange(v) PROVE Profile!Salary(v)
  BY <1>1 DEF IsRange, Profile!Salary
<1>2. ASSUME NEW meta, IsMeta(meta) PROVE Profile!MetaOK(meta)
  BY <1>2 DEF IsMeta, Profile!MetaOK
<1>3. ProfileInv /\ ProfileTypes => Profile!TypeOK
  <2> SUFFICES ASSUME ProfileInv, ProfileTypes PROVE Profile!TypeOK
    OBVIOUS
  <2>1. ASSUME candidate # Null
        PROVE  /\ \A f \in Profile!Fields : Profile!MetaOK(candidate.meta[f])
               /\ candidate.cols["salary"] # Null => Profile!Salary(candidate.cols["salary"])
               /\ Flagged(candidate)
    BY <1>1, <1>2, <2>1 DEF ProfileInv, ProfileTypes, Profile!Known
  <2>2. ASSUME NEW m \in Messages
        PROVE  /\ job[m].pc \in {"idle", "merge", "done"} /\ job[m].runs \in 1..Attempts
               /\ \A f \in Profile!Fields : Profile!MetaOK(job[m].told[f])
    BY <1>2 DEF ProfileInv, ProfileTypes
  <2>3. torn \subseteq Profile!Fields /\ profileFaults \in 0..MaxFailures
    BY DEF ProfileTypes
  <2> QED
    BY <2>1, <2>2, <2>3 DEF Profile!TypeOK, Flagged
<1> QED
  BY <1>3, ProfileInit, ProfileNext, ProfileTypesInit, ProfileTypesNext, PTL DEF Profile!Spec

-----------------------------------------------------------------------------
(* The timeline.                                                           *)

\* A set of numbers has a least one.
LEMMA LeastExists ==
    ASSUME NEW T \in SUBSET Nat, T # {}
    PROVE  \E i \in T : \A j \in T : i <= j
<1> DEFINE R == OpToRel(<, Nat)
<1>1. IsWellFoundedOn(R, Nat)
  BY NatLessThanWellFounded, Zenon
<1>2. R = {ss \in Nat \X Nat : ss[1] < ss[2]}
  BY Zenon DEF OpToRel
<1> HIDE DEF R
<1>3. PICK i \in T : \A j \in T : <<j, i>> \notin R
  BY <1>1, WFMin
<1>4. \A j \in T : ~ (j < i)
  BY <1>2, <1>3
<1> QED
  BY <1>3, <1>4

\* A finite set has a first element under an order: one with the fewest before it.
LEMMA FirstExists ==
    ASSUME NEW S, IsFiniteSet(S), S # {}, NEW R, \A a \in S : <<a, a>> \notin R,
           \A a, b, c \in S : <<a, b>> \in R /\ <<b, c>> \in R => <<a, c>> \in R
    PROVE  \E a \in S : \A b \in S : <<b, a>> \notin R
<1> DEFINE Before(a) == {b \in S : <<b, a>> \in R}
           T == {Cardinality(Before(a)) : a \in S}
<1>1. \A a \in S : IsFiniteSet(Before(a)) /\ Cardinality(Before(a)) \in Nat
  BY FS_Subset, FS_CardinalityType
<1>2. PICK i \in T : \A j \in T : i <= j
  <2>1. T \in SUBSET Nat
    <3> HIDE DEF Before
    <3> QED
      BY <1>1
  <2>2. T # {}
    <3>1. PICK a \in S : TRUE
      OBVIOUS
    <3>2. Cardinality(Before(a)) \in T
      OBVIOUS
    <3> QED
      BY <3>2
  <2> HIDE DEF T
  <2> QED
    BY <2>1, <2>2, LeastExists
<1>3. PICK a \in S : i = Cardinality(Before(a))
  BY <1>2
<1>4. ASSUME NEW b \in S, <<b, a>> \in R PROVE FALSE
  <2>1. Before(b) \subseteq Before(a) \ {b} /\ b \in Before(a)
    BY <1>4
  <2> HIDE DEF Before
  <2>2. /\ IsFiniteSet(Before(a) \ {b})
        /\ Cardinality(Before(a) \ {b}) = Cardinality(Before(a)) - 1
    BY <1>1, <2>1, FS_RemoveElement
  <2>3. Cardinality(Before(b)) <= Cardinality(Before(a)) - 1
    BY <2>1, <2>2, FS_Subset
  <2>4. Cardinality(Before(a)) <= Cardinality(Before(b))
    BY <1>2, <1>3
  <2> QED
    BY <1>1, <2>3, <2>4
<1> QED
  BY <1>4

\* Events that a page is made of.
Rows(S) ==
    /\ IsFiniteSet(S)
    /\ \A e \in S : e.at \in Nat /\ e.id \in Nat /\ e # Null
    /\ \A e, f \in S : e.id = f.id => e = f

LEMMA OlderOrders ==
    ASSUME NEW S, Rows(S)
    PROVE  /\ \A e \in S : ~ Log!Older(e, e)
           /\ \A e, f, g \in S : Log!Older(e, f) /\ Log!Older(f, g) => Log!Older(e, g)
           /\ \A e, f \in S : e = f \/ Log!Older(e, f) \/ Log!Older(f, e)
           /\ \A e, f \in S : ~ (Log!Older(e, f) /\ Log!Older(f, e))
  BY DEF Rows, Log!Older

LEMMA OldestExists ==
    ASSUME NEW S, Rows(S), S # {}
    PROVE  Log!Oldest(S) \in S /\ \A f \in S \ {Log!Oldest(S)} : Log!Older(Log!Oldest(S), f)
<1> DEFINE R == {p \in S \X S : Log!Older(p[1], p[2])}
<1>1. \A a, b \in S : <<a, b>> \in R <=> Log!Older(a, b)
  OBVIOUS
<1> HIDE DEF R
<1>2. PICK a \in S : \A b \in S : <<b, a>> \notin R
  <2>1. /\ \A x \in S : <<x, x>> \notin R
        /\ \A x, y, z \in S : <<x, y>> \in R /\ <<y, z>> \in R => <<x, z>> \in R
    BY <1>1, OlderOrders
  <2> QED
    BY <2>1, FirstExists DEF Rows
<1>3. \A f \in S \ {a} : Log!Older(a, f)
  BY <1>1, <1>2, OlderOrders
<1> QED
  BY <1>3 DEF Log!Oldest

LEMMA NewestExists ==
    ASSUME NEW S, Rows(S), S # {}
    PROVE  \E a \in S : \A b \in S : ~ Log!Older(a, b)
<1> DEFINE R == {p \in S \X S : Log!Older(p[2], p[1])}
<1>1. \A a, b \in S : <<a, b>> \in R <=> Log!Older(b, a)
  OBVIOUS
<1> HIDE DEF R
<1>2. PICK a \in S : \A b \in S : <<b, a>> \notin R
  <2>1. /\ \A x \in S : <<x, x>> \notin R
        /\ \A x, y, z \in S : <<x, y>> \in R /\ <<y, z>> \in R => <<x, z>> \in R
    BY <1>1, OlderOrders
  <2> QED
    BY <2>1, FirstExists DEF Rows
<1> QED
  BY <1>1, <1>2

LEMMA SameSize == \A S : Log!Cardinality(S) = Cardinality(S)
  BY Zenon DEF Log!Cardinality, Cardinality

\* A page takes the newest: all there are when they fit, and otherwise some, and what is left
\* is older than all of it.
LEMMA PageFacts ==
    ASSUME NEW S, Rows(S), PageSize \in Nat \ {0}
    PROVE  /\ Log!Page(S) \subseteq S /\ Rows(Log!Page(S))
           /\ Cardinality(S) <= PageSize => Log!Page(S) = S
           /\ S # {} => Log!Page(S) # {}
           /\ \A e \in S \ Log!Page(S), f \in Log!Page(S) : Log!Older(e, f)
<1> DEFINE Newer(e) == {f \in S : Log!Older(e, f)}
<1>1. Log!Page(S) = {e \in S : Cardinality(Newer(e)) < PageSize}
  BY SameSize, Zenon DEF Log!Page
<1>2. \A e \in S : IsFiniteSet(Newer(e)) /\ Cardinality(Newer(e)) \in Nat
  BY FS_Subset, FS_CardinalityType DEF Rows
<1>3. Log!Page(S) \subseteq S /\ Rows(Log!Page(S))
  <2>1. Log!Page(S) \subseteq S
    BY <1>1
  <2>2. IsFiniteSet(Log!Page(S))
    BY <2>1, FS_Subset DEF Rows
  <2> QED
    BY <2>1, <2>2 DEF Rows
<1>4. ASSUME Cardinality(S) <= PageSize, NEW e \in S PROVE Cardinality(Newer(e)) < PageSize
  <2>1. Newer(e) \subseteq S \ {e}
    BY OlderOrders
  <2>2. IsFiniteSet(S \ {e}) /\ Cardinality(S \ {e}) = Cardinality(S) - 1 /\ Cardinality(S) \in Nat
    BY FS_RemoveElement, FS_CardinalityType DEF Rows
  <2>3. Cardinality(Newer(e)) <= Cardinality(S) - 1
    BY <2>1, <2>2, FS_Subset
  <2> QED
    BY <1>2, <1>4, <2>2, <2>3
<1>5. ASSUME S # {} PROVE Log!Page(S) # {}
  <2>1. PICK a \in S : \A b \in S : ~ Log!Older(a, b)
    BY <1>5, NewestExists
  <2>2. Newer(a) = {}
    BY <2>1
  <2>3. Cardinality(Newer(a)) = 0
    BY <2>2, FS_EmptySet
  <2> QED
    BY <1>1, <2>3
<1>6. ASSUME NEW e \in S \ Log!Page(S), NEW f \in Log!Page(S) PROVE Log!Older(e, f)
  <2>1. Cardinality(Newer(f)) < Cardinality(Newer(e))
    <3> HIDE DEF Newer
    <3> QED
      BY <1>1, <1>2, <1>6
  <2>2. ~ (Newer(e) \subseteq Newer(f))
    <3>1. ASSUME Newer(e) \subseteq Newer(f) PROVE Cardinality(Newer(e)) <= Cardinality(Newer(f))
      <4> HIDE DEF Newer
      <4> QED
        BY <1>1, <1>2, <3>1, FS_Subset
    <3> HIDE DEF Newer
    <3> QED
      BY <1>1, <1>2, <2>1, <3>1
  <2>3. PICK g \in S : Log!Older(e, g) /\ ~ Log!Older(f, g)
    BY <2>2
  <2> QED
    BY <1>1, <2>3, OlderOrders
<1> QED
  BY <1>1, <1>3, <1>4, <1>5, <1>6
\* Where a reader stands: what it was given is not older than the cursor, and what of the
\* beginning it was not given is.  Events added meanwhile were not there at the beginning.
Standing(r) ==
    /\ r.repeated = {}
    /\ \A i \in r.seen \cup r.initial : \E e \in events : e.id = i
    /\ \/ /\ ~ r.more
          /\ r.initial \subseteq r.seen
       \/ /\ r.more = TRUE
          /\ r.cursor # Null /\ r.cursor.at \in Nat /\ r.cursor.id \in Nat
          /\ \A e \in events : /\ e.id \in r.seen => ~ Log!Older(e, r.cursor)
                               /\ e.id \in r.initial => e.id \in r.seen \/ Log!Older(e, r.cursor)

TimelineInv == Rows(events) /\ time \in Nat /\ Standing(reader)

\* One turn of a reader whose cursor is at, where old is what it had before.
LEMMA TurnStands ==
    ASSUME Rows(events), PageSize \in Nat \ {0}, NEW at, NEW old,
           old.repeated = {},
           \A i \in old.seen \cup old.initial : \E e \in events : e.id = i,
           at = Null \/ (at.at \in Nat /\ at.id \in Nat),
           \A e \in events : /\ e.id \in old.seen => e \notin Log!AfterCursor(at)
                             /\ e.id \in old.initial => e.id \in old.seen \/ e \in Log!AfterCursor(at)
    PROVE  Standing(Log!Turn(at, old))
<1> DEFINE from == Log!AfterCursor(at)
           page == Log!Page(from)
           ids  == {e.id : e \in page}
           more == Cardinality(from) > PageSize
           turn == Log!Turn(at, old)
<1>1. Rows(from) /\ from \subseteq events
  <2>1. from \subseteq events
    BY DEF Log!AfterCursor
  <2> QED
    BY <2>1, FS_Subset DEF Rows
<1>2. /\ turn.cursor = IF more THEN Log!Oldest(page) ELSE Null
      /\ turn.more = more
      /\ turn.seen = old.seen \cup ids
      /\ turn.repeated = old.repeated \cup (old.seen \cap ids)
      /\ turn.initial = old.initial
  BY SameSize DEF Log!Turn
<1> HIDE DEF turn
<1>3. /\ page \subseteq from /\ Rows(page)
      /\ Cardinality(from) <= PageSize => page = from
      /\ from # {} => page # {}
      /\ \A e \in from \ page, f \in page : Log!Older(e, f)
  <2> HIDE DEF from
  <2> QED
    BY <1>1, PageFacts
<1>4. Cardinality(from) \in Nat
  BY <1>1, FS_CardinalityType DEF Rows
<1> HIDE DEF from, page
<1>5. \A e \in events : e.id \in ids <=> e \in page
  BY <1>1, <1>3 DEF Rows
<1>6. \A i \in ids : \E e \in events : e.id = i
  BY <1>1, <1>3
<1> HIDE DEF ids
<1>7. turn.repeated = {}
  <2>1. ASSUME NEW i \in old.seen \cap ids PROVE FALSE
    <3>1. PICK e \in events : e.id = i
      BY <1>6, <2>1
    <3> QED
      BY <1>3, <1>5, <2>1, <3>1 DEF from
  <2> QED
    BY <1>2, <2>1
<1>8. \A i \in turn.seen \cup turn.initial : \E e \in events : e.id = i
  BY <1>2, <1>6
<1>9. CASE ~ more
  <2>1. page = from
    BY <1>3, <1>4, <1>9
  <2>2. old.initial \subseteq old.seen \cup ids
    BY <1>5, <2>1 DEF from
  <2>3. turn.initial \subseteq turn.seen
    BY <1>2, <2>2
  <2>4. ~ turn.more
    BY <1>2, <1>9, Zenon
  <2> QED
    BY <1>7, <1>8, <2>3, <2>4 DEF Standing, turn
<1>10. CASE more
  <2>1. from # {}
    <3>1. Cardinality({}) = 0
      BY FS_EmptySet
    <3>2. Cardinality(from) # 0
      BY <1>4, <1>10
    <3> QED
      BY <3>1, <3>2
  <2>2. PICK o : o = Log!Oldest(page)
    OBVIOUS
  <2>3. o \in page /\ \A f \in page \ {o} : Log!Older(o, f)
    BY <1>3, <2>1, <2>2, OldestExists
  <2>4. turn.cursor = o /\ o # Null /\ o.at \in Nat /\ o.id \in Nat
    BY <1>2, <1>3, <1>10, <2>2, <2>3 DEF Rows
  <2>5. ASSUME NEW e \in events, e.id \in turn.seen PROVE ~ Log!Older(e, o)
    <3>1. CASE e \in page
      BY <1>3, <2>3, <3>1, OlderOrders
    <3>2. CASE e.id \in old.seen
      <4>1. e \notin from /\ at # Null
        BY <3>2 DEF from, Log!AfterCursor
      <4>2. Log!Older(o, at) /\ ~ Log!Older(e, at)
        BY <1>3, <2>3, <4>1 DEF from, Log!AfterCursor
      <4>3. /\ e.at \in Nat /\ e.id \in Nat /\ o.at \in Nat /\ o.id \in Nat
            /\ at.at \in Nat /\ at.id \in Nat
        BY <2>4, <4>1 DEF Rows
      <4> QED
        BY <4>2, <4>3 DEF Log!Older
    <3> QED
      BY <1>2, <1>5, <2>5, <3>1, <3>2
  <2>6. ASSUME NEW e \in events, e.id \in turn.initial PROVE e.id \in turn.seen \/ Log!Older(e, o)
    BY <1>2, <1>3, <1>5, <2>3, <2>6 DEF from
  <2>7. turn.more = TRUE
    BY <1>2, <1>10
  <2> QED
    BY <1>7, <1>8, <2>4, <2>5, <2>6, <2>7 DEF Standing, turn
<1> QED
  BY <1>9, <1>10

\* An id is of one event, and None is no event.
EventAssumption ==
    /\ Ids \subseteq Nat /\ PageSize \in Nat \ {0}
    /\ \A i, t, k : [id |-> i, at |-> t, key |-> k] # Null

LEMMA TimelineInit == ASSUME Log!Init PROVE TimelineInv
<1>1. events = {} /\ reader = Log!NoReader /\ time = 0
  BY DEF Log!Init
<1> QED
  BY <1>1, FS_EmptySet DEF TimelineInv, Rows, Standing, Log!NoReader

LEMMA TimelineNext ==
    ASSUME EventAssumption, TimelineInv, [Log!Next]_(Log!vars) PROVE TimelineInv'
<1>1. ASSUME NEW w \in Writers, Log!Create(w) PROVE TimelineInv'
  <2>1. PICK id \in Ids \ {e.id : e \in events} :
           events' = events \cup {[id |-> id, at |-> time, key |-> writer[w].key]}
    BY <1>1 DEF Log!Create
  <2>2. PICK e : e = [id |-> id, at |-> time, key |-> writer[w].key]
    OBVIOUS
  <2>3. /\ e.id \in Nat /\ e.at \in Nat /\ e # Null /\ \A f \in events : f.id # e.id
        /\ events' = events \cup {e} /\ reader' = reader /\ time' = time
    BY <1>1, <2>1, <2>2 DEF EventAssumption, TimelineInv, Log!Create
  <2>4. IsFiniteSet(events \cup {e})
    BY FS_AddElement DEF TimelineInv, Rows
  <2>5. Rows(events \cup {e})
    BY <2>3, <2>4 DEF TimelineInv, Rows
  <2>6. Standing(reader)'
    BY <2>3 DEF TimelineInv, Standing
  <2> QED
    BY <2>3, <2>5, <2>6 DEF TimelineInv
<1>2. ASSUME Log!OpenTimeline PROVE TimelineInv'
  <2>1. PICK old : old = [Log!NoReader EXCEPT !.initial = {e.id : e \in events}]
    OBVIOUS
  <2>2. old.repeated = {} /\ old.seen = {} /\ old.initial = {e.id : e \in events}
    BY <2>1 DEF Log!NoReader
  <2>3. Log!AfterCursor(Null) = events
    BY DEF Log!AfterCursor
  <2>4. Standing(Log!Turn(Null, old))
    BY <2>2, <2>3, TurnStands DEF TimelineInv, EventAssumption
  <2> QED
    BY <1>2, <2>1, <2>4 DEF Log!OpenTimeline, TimelineInv, Standing
<1>3. ASSUME Log!NextPage PROVE TimelineInv'
  <2>1. PICK at, old : at = reader.cursor /\ old = reader
    OBVIOUS
  <2>2. at # Null
    BY <1>3, <2>1 DEF Log!NextPage, TimelineInv, Standing
  <2>3. \A e \in events : /\ e.id \in old.seen => e \notin Log!AfterCursor(at)
                          /\ e.id \in old.initial => e.id \in old.seen \/ e \in Log!AfterCursor(at)
    BY <1>3, <2>1, <2>2 DEF Log!NextPage, TimelineInv, Standing, Log!AfterCursor
  <2>4. /\ old.repeated = {} /\ at.at \in Nat /\ at.id \in Nat
        /\ \A i \in old.seen \cup old.initial : \E e \in events : e.id = i
    BY <1>3, <2>1 DEF Log!NextPage, TimelineInv, Standing
  <2>5. Standing(Log!Turn(at, old))
    BY <2>3, <2>4, TurnStands DEF TimelineInv, EventAssumption
  <2> QED
    BY <1>3, <2>1, <2>5 DEF Log!NextPage, TimelineInv, Standing
<1>4. ASSUME UNCHANGED <<events, reader>>, time' \in Nat PROVE TimelineInv'
  BY <1>4 DEF TimelineInv, Standing
<1>5. CASE (\E w \in Writers : Log!Call(w) \/ Log!CreateFails(w)) \/ Log!Tick \/ UNCHANGED Log!vars
  BY <1>4, <1>5 DEF Log!Call, Log!CreateFails, Log!Tick, Log!vars, TimelineInv
<1> QED
  BY <1>1, <1>2, <1>3, <1>5 DEF Log!Next

\* A reader who has come to the end was given every event there was when it began, and none
\* twice: for any number of events and writers, any size of a page, events of the same time
\* and events added between two pages, whatever the order of their ids.
THEOREM NothingUnread == ASSUME EventAssumption PROVE Log!Spec => []Log!ReaderSeesAll
<1>1. TimelineInv => Log!ReaderSeesAll
  BY DEF TimelineInv, Standing, Log!ReaderSeesAll
<1> QED
  BY <1>1, TimelineInit, TimelineNext, PTL DEF Log!Spec

\* As the timeline assumes it, with what its events are.
TimelineAssumption == EventAssumption /\ MaxTime \in Nat /\ MaxFailures \in Nat

\* A turn gives the reader a cursor at an event, and ids of events.
LEMMA TurnTypes ==
    ASSUME TimelineAssumption, Rows(events), events \subseteq Log!Events, NEW at, NEW old,
           old.seen \subseteq Ids, old.repeated \subseteq Ids, old.initial \subseteq Ids
    PROVE  Log!Turn(at, old) \in [cursor : Log!Events \cup {Null}, more : BOOLEAN, seen : SUBSET Ids,
                                  repeated : SUBSET Ids, initial : SUBSET Ids]
<1>1. PICK from, page, ids, more :
         /\ from = Log!AfterCursor(at) /\ page = Log!Page(from) /\ ids = {e.id : e \in page}
         /\ more = (Cardinality(from) > PageSize)
  OBVIOUS
<1>2. Rows(from) /\ from \subseteq events
  <2>1. from \subseteq events
    BY <1>1 DEF Log!AfterCursor
  <2> QED
    BY <2>1, FS_Subset DEF Rows
<1>3. page \subseteq from /\ Rows(page) /\ (from # {} => page # {})
  BY <1>1, <1>2, PageFacts DEF TimelineAssumption, EventAssumption
<1>4. more => from # {}
  <2> SUFFICES ASSUME more, from = {} PROVE FALSE
    OBVIOUS
  <2>1. Cardinality(from) > PageSize /\ Cardinality(from) = 0
    BY <1>1, FS_EmptySet
  <2> QED
    BY <2>1 DEF TimelineAssumption, EventAssumption
<1>5. PICK next : next = IF more THEN Log!Oldest(page) ELSE Null
  OBVIOUS
<1>6. next \in Log!Events \cup {Null}
  BY <1>2, <1>3, <1>4, <1>5, OldestExists
<1>7. ids \subseteq Ids
  BY <1>1, <1>2, <1>3 DEF Log!Events
<1>8. Log!Turn(at, old) = [cursor |-> next, more |-> more, seen |-> old.seen \cup ids,
                           repeated |-> old.repeated \cup (old.seen \cap ids), initial |-> old.initial]
  BY <1>1, <1>5, SameSize, Zenon DEF Log!Turn
<1>9. more \in BOOLEAN
  BY <1>1
<1>10. PICK seen, repeated : seen = old.seen \cup ids /\ repeated = old.repeated \cup (old.seen \cap ids)
  OBVIOUS
<1>11. seen \in SUBSET Ids /\ repeated \in SUBSET Ids /\ old.initial \in SUBSET Ids
  BY <1>7, <1>10
<1>12. Log!Turn(at, old) = [cursor |-> next, more |-> more, seen |-> seen, repeated |-> repeated,
                            initial |-> old.initial]
  BY <1>8, <1>10
<1> QED
  BY <1>6, <1>9, <1>11, <1>12

\* Events, writers and the reader keep their types.
LEMMA TimelineTypes ==
    ASSUME TimelineAssumption, TimelineInv, Log!TypeOK, [Log!Next]_(Log!vars)
    PROVE  Log!TypeOK'
<1> USE DEF TimelineAssumption
<1>0. Rows(events) /\ events \subseteq Log!Events
  BY DEF TimelineInv, Log!TypeOK
<1>1. CASE UNCHANGED Log!vars
  BY <1>1 DEF Log!vars, Log!TypeOK, Log!Events
<1>2. ASSUME NEW w \in Writers, Log!Call(w) PROVE Log!TypeOK'
  <2>1. PICK key, call : /\ key \in EventKeys \cup {Null} /\ call = [pc |-> "create", key |-> key]
                         /\ writer' = [writer EXCEPT ![w] = call]
    BY <1>2 DEF Log!Call
  <2>2. writer' \in [Writers -> [pc : {"idle", "create"}, key : EventKeys \cup {Null}]]
    BY <2>1 DEF Log!TypeOK
  <2>3. UNCHANGED <<events, reader, time>> /\ timelineFaults' \in 0..MaxFailures
    BY <1>2 DEF Log!Call, Log!Fault, Log!TypeOK
  <2> QED
    BY <2>2, <2>3 DEF Log!TypeOK, Log!Events
<1>3. ASSUME NEW w \in Writers, Log!Create(w) \/ Log!CreateFails(w) PROVE Log!TypeOK'
  <2>1. Log!NoCall \in [pc : {"idle", "create"}, key : EventKeys \cup {Null}]
    BY DEF Log!NoCall
  <2>2. writer' = [writer EXCEPT ![w] = Log!NoCall] /\ UNCHANGED <<reader, time>>
    BY <1>3 DEF Log!Create, Log!CreateFails
  <2>3. writer' \in [Writers -> [pc : {"idle", "create"}, key : EventKeys \cup {Null}]]
    BY <2>1, <2>2 DEF Log!TypeOK
  <2>4. timelineFaults' \in 0..MaxFailures
    BY <1>3 DEF Log!Create, Log!CreateFails, Log!Fault, Log!TypeOK
  <2>5. events' \subseteq Log!Events
    <3>1. CASE Log!Create(w)
      <4>1. PICK id \in Ids : events' = events \cup {[id |-> id, at |-> time, key |-> writer[w].key]}
        BY <3>1 DEF Log!Create
      <4>2. writer[w].key \in EventKeys \cup {Null} /\ time \in 0..MaxTime
        BY DEF Log!TypeOK
      <4> QED
        BY <1>0, <4>1, <4>2 DEF Log!Events
    <3>2. CASE Log!CreateFails(w)
      BY <1>0, <3>2 DEF Log!CreateFails
    <3> QED
      BY <1>3, <3>1, <3>2
  <2> QED
    BY <2>2, <2>3, <2>4, <2>5 DEF Log!TypeOK, Log!Events
<1>4. CASE Log!OpenTimeline
  <2>1. PICK old : old = [Log!NoReader EXCEPT !.initial = {e.id : e \in events}]
    OBVIOUS
  <2>2. old.seen = {} /\ old.repeated = {} /\ old.initial \subseteq Ids
    BY <1>0, <2>1 DEF Log!NoReader, Log!Events
  <2>3. reader' = Log!Turn(Null, old) /\ UNCHANGED <<events, writer, time, timelineFaults>>
    BY <1>4, <2>1 DEF Log!OpenTimeline
  <2> QED
    BY <1>0, <2>2, <2>3, TurnTypes DEF Log!TypeOK, Log!Events
<1>5. CASE Log!NextPage
  <2>1. PICK old, at : old = reader /\ at = reader.cursor
    OBVIOUS
  <2>2. old.seen \subseteq Ids /\ old.repeated \subseteq Ids /\ old.initial \subseteq Ids
    BY <2>1 DEF Log!TypeOK
  <2>3. reader' = Log!Turn(at, old) /\ UNCHANGED <<events, writer, time, timelineFaults>>
    BY <1>5, <2>1 DEF Log!NextPage
  <2> QED
    BY <1>0, <2>2, <2>3, TurnTypes DEF Log!TypeOK, Log!Events
<1>6. CASE Log!Tick
  BY <1>6 DEF Log!Tick, Log!TypeOK, Log!Events
<1> QED
  BY <1>1, <1>2, <1>3, <1>4, <1>5, <1>6 DEF Log!Next

THEOREM EventsTyped == ASSUME TimelineAssumption PROVE Log!Spec => []Log!TypeOK
<1>1. ASSUME Log!Init PROVE Log!TypeOK
  <2>1. Log!NoCall \in [pc : {"idle", "create"}, key : EventKeys \cup {Null}]
    BY DEF Log!NoCall
  <2>2. Log!NoReader \in [cursor : Log!Events \cup {Null}, more : BOOLEAN, seen : SUBSET Ids,
                          repeated : SUBSET Ids, initial : SUBSET Ids]
    BY DEF Log!NoReader
  <2> QED
    BY <1>1, <2>1, <2>2 DEF Log!Init, Log!TypeOK, TimelineAssumption
<1>2. TimelineInv /\ [Log!Next]_(Log!vars) => TimelineInv'
  BY TimelineNext DEF TimelineAssumption
<1> QED
  BY <1>1, <1>2, TimelineInit, TimelineTypes, PTL DEF Log!Spec

-----------------------------------------------------------------------------
(* Follow-ups.                                                             *)

\* As FollowUps assumes it, with a cap of at least one task in a week (it is three) and as
\* many jobs, requests and scans at a time as there may be.
FollowUpAssumption ==
    /\ "reminder" \notin Questions
    /\ WeeklyCap \in Nat \ {0} /\ Week \in Nat /\ MaxFollowUpDays \in Nat
    /\ Null \notin Nat /\ Null \notin Conversations
    /\ IsFiniteSet(Callers) /\ IsFiniteSet(Scans)

Days == FollowUp!Days

LEMMA SameCardinality == \A S : FollowUp!Cardinality(S) = Cardinality(S)
  BY Zenon DEF FollowUp!Cardinality, Cardinality

\* The tasks of some days, where f[d] is how many there are of day d.
Open(f, days) == {p \in Days \X Nat : p[1] \in days /\ 1 <= p[2] /\ p[2] <= f[p[1]]}

LEMMA OpenIsFinite ==
    ASSUME NEW f \in [Days -> Nat], IsFiniteSet(Open(f, Days)), NEW days \in SUBSET Days
    PROVE  /\ IsFiniteSet(Open(f, days)) /\ Cardinality(Open(f, days)) \in Nat
           /\ Open(f, days) = UNION {{<<d, n>> : n \in 1..f[d]} : d \in days}
<1>1. Open(f, days) = UNION {{<<d, n>> : n \in 1..f[d]} : d \in days}
  BY DEF Open
<1>2. Open(f, days) \subseteq Open(f, Days)
  BY DEF Open
<1> QED
  BY <1>1, <1>2, FS_Subset, FS_CardinalityType

LEMMA OneMore ==
    ASSUME NEW f \in [Days -> Nat], IsFiniteSet(Open(f, Days)), NEW days \in SUBSET Days, NEW d \in Days
    PROVE  LET g == [f EXCEPT ![d] = @ + 1]
           IN  /\ IsFiniteSet(Open(g, Days))
               /\ d \in days => Cardinality(Open(g, days)) = Cardinality(Open(f, days)) + 1
               /\ d \notin days => Open(g, days) = Open(f, days)
<1> DEFINE g == [f EXCEPT ![d] = @ + 1]
           p == <<d, f[d] + 1>>
<1>1. g[d] = f[d] + 1 /\ \A e \in Days \ {d} : g[e] = f[e]
  OBVIOUS
<1>2. f[d] \in Nat
  OBVIOUS
<1> HIDE DEF g
<1>3. IsFiniteSet(Open(g, Days))
  <2>1. Open(g, Days) = Open(f, Days) \cup {p}
    BY <1>1, <1>2 DEF Open
  <2>2. PICK F : F = Open(f, Days) /\ IsFiniteSet(F)
    OBVIOUS
  <2>3. IsFiniteSet(F \cup {p})
    BY <2>2, FS_AddElement
  <2> QED
    BY <2>1, <2>2, <2>3
<1>4. ASSUME d \in days PROVE Cardinality(Open(g, days)) = Cardinality(Open(f, days)) + 1
  <2>1. Open(g, days) = Open(f, days) \cup {p} /\ p \notin Open(f, days)
    BY <1>1, <1>2, <1>4 DEF Open
  <2>2. PICK F, G : F = Open(f, days) /\ G = Open(g, days) /\ IsFiniteSet(F)
    BY OpenIsFinite
  <2> QED
    BY <2>1, <2>2, FS_AddElement
<1>5. ASSUME d \notin days PROVE Open(g, days) = Open(f, days)
  BY <1>1, <1>5 DEF Open
<1> QED
  BY <1>4, <1>5, <1>3 DEF g

LEMMA OneLess ==
    ASSUME NEW f \in [Days -> Nat], IsFiniteSet(Open(f, Days)),
           NEW days \in SUBSET Days, NEW d \in Days, f[d] > 0
    PROVE  LET g == [f EXCEPT ![d] = @ - 1]
           IN  IsFiniteSet(Open(g, Days)) /\ Cardinality(Open(g, days)) <= Cardinality(Open(f, days))
<1> DEFINE g == [f EXCEPT ![d] = @ - 1]
<1>1. \A e \in Days : g[e] \in Nat /\ f[e] \in Nat /\ g[e] <= f[e]
  OBVIOUS
<1> HIDE DEF g
<1>2. Open(g, days) \subseteq Open(f, days) /\ Open(g, Days) \subseteq Open(f, Days)
  BY <1>1 DEF Open
<1>3. IsFiniteSet(Open(g, Days)) /\ Cardinality(Open(g, days)) <= Cardinality(Open(f, days))
  BY <1>2, OpenIsFinite, FS_Subset
<1> QED
  BY <1>3 DEF g

LEMMA FewerDays ==
    ASSUME NEW f \in [Days -> Nat], IsFiniteSet(Open(f, Days)),
           NEW days \in SUBSET Days, NEW more \in SUBSET Days,
           days \subseteq more
    PROVE  Cardinality(Open(f, days)) <= Cardinality(Open(f, more))
<1>1. Open(f, days) \subseteq Open(f, more)
  BY DEF Open
<1> QED
  BY <1>1, OpenIsFinite, FS_Subset

LEMMA NoneOpen ==
    ASSUME NEW f \in [Days -> Nat], NEW days \in SUBSET Days, \A d \in days : f[d] = 0
    PROVE  Cardinality(Open(f, days)) = 0
<1>1. Open(f, days) = {}
  BY DEF Open
<1> QED
  BY <1>1, FS_EmptySet
\* Callers about to create a follow-up, and scans about to create a reminder.
About(c, q, days) ==
    {j \in Callers : /\ caller[j] # FollowUp!NoTask
                     /\ caller[j].conv = c /\ caller[j].key = q /\ caller[j].day \in days}

Reminding(c) == {s \in Scans : scan[s].next = c}

Week7(d) == {e \in Days : d - Week <= e /\ e <= d}

FollowTypes ==
    /\ openFollowUps \in [Conversations -> [FollowUp!Kinds -> [Days -> Nat]]]
    /\ \A c \in Conversations, k \in FollowUp!Kinds : IsFiniteSet(Open(openFollowUps[c][k], Days))
    /\ caller \in [Callers -> [conv : Conversations, key : Questions, day : Days] \cup {FollowUp!NoTask}]
    /\ scan \in [Scans -> [now : Days \cup {Null}, due : [Conversations -> Days \cup {Null}],
                           left : SUBSET Conversations, next : Conversations \cup {Null}]]
    /\ followUp \in [Conversations -> Days \cup {Null}]
    /\ followUpDay \in Days

DailyLoad(c, q, d) == openFollowUps[c][q][d] + Cardinality(About(c, q, {d}))

WeeklyLoad(c, q, d) == Cardinality(Open(openFollowUps[c][q], Week7(d))) + Cardinality(About(c, q, Week7(d)))

Reminders(c) == Cardinality(Open(openFollowUps[c]["reminder"], Days)) + Cardinality(Reminding(c))

\* A task that is about to be created counts as if it were there.
FollowInv ==
    /\ FollowTypes
    /\ \A c \in Conversations, q \in Questions, d \in Days :
          /\ DailyLoad(c, q, d) <= Cardinality(Callers)
          /\ WeeklyLoad(c, q, d) <= WeeklyCap + Cardinality(Callers) - 1
    /\ \A c \in Conversations : Reminders(c) <= Cardinality(Scans)

LEMMA FollowUpNumbers ==
    ASSUME FollowUpAssumption PROVE Week \in Nat /\ Days \subseteq Nat /\ Days = 0..MaxFollowUpDays
  BY DEF FollowUpAssumption, Days, FollowUp!Days

LEMMA SomeCallers ==
    ASSUME FollowUpAssumption, NEW S, S \subseteq Callers
    PROVE  IsFiniteSet(S) /\ Cardinality(S) \in Nat /\ Cardinality(S) <= Cardinality(Callers)
  BY FS_Subset, FS_CardinalityType DEF FollowUpAssumption

LEMMA SomeScans ==
    ASSUME FollowUpAssumption, NEW S, S \subseteq Scans
    PROVE  IsFiniteSet(S) /\ Cardinality(S) \in Nat /\ Cardinality(S) <= Cardinality(Scans)
  BY FS_Subset, FS_CardinalityType DEF FollowUpAssumption

LEMMA OpenTasksCounted ==
    ASSUME FollowTypes, NEW c \in Conversations, NEW k \in FollowUp!Kinds, NEW days \in SUBSET Days
    PROVE  FollowUp!OpenTasks(c, k, days) = Cardinality(Open(openFollowUps[c][k], days))
<1>1. openFollowUps[c][k] \in [Days -> Nat] /\ IsFiniteSet(Open(openFollowUps[c][k], Days))
  BY DEF FollowTypes
<1>2. PICK f \in [Days -> Nat] : f = openFollowUps[c][k] /\ IsFiniteSet(Open(f, Days))
  BY <1>1
<1>3. Open(f, days) = UNION {{<<d, n>> : n \in 1..f[d]} : d \in days}
  BY <1>2, OpenIsFinite
<1>4. Open(openFollowUps[c][k], days) = UNION {{<<d, n>> : n \in 1..openFollowUps[c][k][d]} : d \in days}
  BY <1>2, <1>3
<1> QED
  BY <1>4, SameCardinality, Zenon DEF FollowUp!OpenTasks

LEMMA LoadTypes ==
    ASSUME FollowUpAssumption, FollowTypes
    PROVE  /\ Cardinality(Callers) \in Nat /\ Cardinality(Scans) \in Nat
           /\ \A c, q, days : /\ IsFiniteSet(About(c, q, days)) /\ Cardinality(About(c, q, days)) \in Nat
                              /\ Cardinality(About(c, q, days)) <= Cardinality(Callers)
           /\ \A c : /\ IsFiniteSet(Reminding(c)) /\ Cardinality(Reminding(c)) \in Nat
                     /\ Cardinality(Reminding(c)) <= Cardinality(Scans)
           /\ \A c \in Conversations, k \in FollowUp!Kinds, days \in SUBSET Days :
                 Cardinality(Open(openFollowUps[c][k], days)) \in Nat
           /\ \A q \in Questions : q \in FollowUp!Kinds /\ q # "reminder"
           /\ "reminder" \in FollowUp!Kinds
           /\ \A d : Week7(d) \in SUBSET Days
           /\ FollowUp!NoTask \notin [conv : Conversations, key : Questions, day : Days]
<1>1. \A c, q, days : About(c, q, days) \subseteq Callers
  BY DEF About
<1>2. \A c : Reminding(c) \subseteq Scans
  BY DEF Reminding
<1>3. IsFiniteSet(Callers) /\ IsFiniteSet(Scans)
  BY DEF FollowUpAssumption
<1>4. \A c, q, days : /\ IsFiniteSet(About(c, q, days)) /\ Cardinality(About(c, q, days)) \in Nat
                      /\ Cardinality(About(c, q, days)) <= Cardinality(Callers)
  BY <1>1, <1>3, FS_Subset, FS_CardinalityType
<1>5. \A c : /\ IsFiniteSet(Reminding(c)) /\ Cardinality(Reminding(c)) \in Nat
             /\ Cardinality(Reminding(c)) <= Cardinality(Scans)
  BY <1>2, <1>3, FS_Subset, FS_CardinalityType
<1>6. ASSUME NEW c \in Conversations, NEW k \in FollowUp!Kinds, NEW days \in SUBSET Days
      PROVE  Cardinality(Open(openFollowUps[c][k], days)) \in Nat
  <2>1. PICK f \in [Days -> Nat] : f = openFollowUps[c][k] /\ IsFiniteSet(Open(f, Days))
    BY DEF FollowTypes
  <2> QED
    BY <2>1, OpenIsFinite
<1>7. \A q \in Questions : q \in FollowUp!Kinds /\ q # "reminder"
  BY DEF FollowUp!Kinds, FollowUpAssumption
<1>8. FollowUp!NoTask \notin [conv : Conversations, key : Questions, day : Days]
  BY DEF FollowUp!NoTask, FollowUpAssumption
<1> QED
  BY <1>3, <1>4, <1>5, <1>6, <1>7, <1>8, FS_CardinalityType DEF FollowUp!Kinds, Week7

LEMMA FollowInit == ASSUME FollowUpAssumption, FollowUp!Init PROVE FollowInv
<1> DEFINE zero == [d \in Days |-> 0]
<1>1. /\ openFollowUps = [c \in Conversations |-> [k \in FollowUp!Kinds |-> zero]]
      /\ caller = [j \in Callers |-> FollowUp!NoTask]
      /\ scan = [s \in Scans |-> FollowUp!NoScan] /\ followUpDay = 0
      /\ followUp = [c \in Conversations |-> Null]
  BY DEF FollowUp!Init, Days
<1>2. zero \in [Days -> Nat] /\ \A d \in Days : zero[d] = 0
  OBVIOUS
<1> HIDE DEF zero
<1>3. \A days \in SUBSET Days : Open(zero, days) = {} /\ Cardinality(Open(zero, days)) = 0
  <2>1. \A days \in SUBSET Days : Open(zero, days) = {}
    BY <1>2 DEF Open
  <2> QED
    BY <2>1, FS_EmptySet
<1>4. 0 \in Days
  BY DEF Days, FollowUp!Days, FollowUpAssumption
<1>5. FollowTypes
  <2>1. \A c \in Conversations, k \in FollowUp!Kinds : IsFiniteSet(Open(openFollowUps[c][k], Days))
    BY <1>1, <1>3, FS_EmptySet
  <2> QED
    BY <1>1, <1>2, <1>4, <2>1 DEF FollowTypes, FollowUp!NoScan
<1>6. \A c, q, days : About(c, q, days) = {}
  BY <1>1 DEF About
<1>7. \A c \in Conversations : Reminding(c) = {}
  BY <1>1 DEF Reminding, FollowUp!NoScan, FollowUpAssumption
<1>8. Cardinality({}) = 0
  BY FS_EmptySet
<1>9. ASSUME NEW c \in Conversations, NEW q \in Questions, NEW d \in Days
      PROVE  DailyLoad(c, q, d) = 0 /\ WeeklyLoad(c, q, d) = 0
  <2>1. openFollowUps[c][q] = zero /\ Week7(d) \in SUBSET Days
    BY <1>1, <1>5, LoadTypes
  <2>2. About(c, q, {d}) = {} /\ About(c, q, Week7(d)) = {}
    BY <1>6
  <2>3. openFollowUps[c][q][d] = 0 /\ Cardinality(Open(openFollowUps[c][q], Week7(d))) = 0
    BY <1>2, <1>3, <2>1
  <2> QED
    BY <1>8, <2>2, <2>3 DEF DailyLoad, WeeklyLoad
<1>10. ASSUME NEW c \in Conversations PROVE Reminders(c) = 0
  <2>1. openFollowUps[c]["reminder"] = zero
    BY <1>1, <1>5, LoadTypes
  <2>2. Cardinality(Open(openFollowUps[c]["reminder"], Days)) = 0
    BY <1>3, <2>1
  <2> QED
    BY <1>7, <1>8, <2>2 DEF Reminders
<1>11. WeeklyCap \in Nat \ {0} /\ Cardinality(Callers) \in Nat /\ Cardinality(Scans) \in Nat
  BY <1>5, LoadTypes DEF FollowUpAssumption
<1> QED
  BY <1>5, <1>9, <1>10, <1>11 DEF FollowInv
\* A job or request that comes through its checks: of that day there is no open task, and
\* of the week before there are fewer than the cap.
LEMMA CheckKeeps ==
    ASSUME FollowUpAssumption, FollowInv, NEW j \in Callers, FollowUp!CheckQuestion(j) PROVE FollowInv'
<1>1. PICK c \in Conversations, q \in Questions :
        /\ FollowUp!shouldCreateFollowUpTask(c, q)
        /\ caller' = [caller EXCEPT ![j] = [conv |-> c, key |-> q, day |-> followUpDay]]
  BY DEF FollowUp!CheckQuestion
<1>2. UNCHANGED <<openFollowUps, scan, followUp, followUpDay>>
  BY DEF FollowUp!CheckQuestion
<1>3. FollowTypes /\ followUpDay \in Days
  BY DEF FollowInv, FollowTypes
<1>4. FollowTypes'
  BY <1>1, <1>2, <1>3 DEF FollowTypes
<1>5. ASSUME NEW c2 \in Conversations, NEW q2 \in Questions, NEW days \in SUBSET Days,
             c2 # c \/ q2 # q \/ followUpDay \notin days
      PROVE  About(c2, q2, days)' \subseteq About(c2, q2, days)
  BY <1>1, <1>3, <1>5 DEF About, FollowTypes
<1>6. ASSUME NEW c2 \in Conversations, NEW q2 \in Questions, NEW days \in SUBSET Days
      PROVE  LET n == Cardinality(About(c2, q2, days)')
             IN  /\ n \in Nat /\ n <= Cardinality(Callers) /\ Cardinality(Callers) \in Nat
                 /\ \/ c2 = c /\ q2 = q /\ followUpDay \in days
                    \/ n <= Cardinality(About(c2, q2, days))
  <2>1. PICK S, T : S = About(c2, q2, days)' /\ T = About(c2, q2, days)
    OBVIOUS
  <2>2. S \subseteq Callers /\ T \subseteq Callers
    BY <2>1 DEF About
  <2>3. ~ (c2 = c /\ q2 = q /\ followUpDay \in days) => S \subseteq T
    BY <1>5, <2>1
  <2>4. IsFiniteSet(S) /\ Cardinality(S) \in Nat /\ Cardinality(S) <= Cardinality(Callers) /\ IsFiniteSet(T)
    BY <2>2, SomeCallers
  <2>5. ~ (c2 = c /\ q2 = q /\ followUpDay \in days) => Cardinality(S) <= Cardinality(T)
    BY <2>3, <2>4, FS_Subset
  <2>6. Cardinality(Callers) \in Nat
    BY <1>3, LoadTypes
  <2> QED
    BY <2>1, <2>4, <2>5, <2>6
<1>7. ASSUME NEW c2 \in Conversations, NEW q2 \in Questions, NEW d \in Days
      PROVE  DailyLoad(c2, q2, d)' <= Cardinality(Callers)
  <2> DEFINE n == Cardinality(About(c2, q2, {d})')
             m == Cardinality(About(c2, q2, {d}))
  <2>1. /\ n \in Nat /\ n <= Cardinality(Callers) /\ Cardinality(Callers) \in Nat
        /\ (c2 = c /\ q2 = q /\ followUpDay = d) \/ n <= m
    BY <1>6
  <2>2. openFollowUps[c2][q2][d] + m <= Cardinality(Callers) /\ m \in Nat /\ openFollowUps[c2][q2][d] \in Nat
    BY <1>3, LoadTypes DEF FollowInv, DailyLoad, FollowTypes
  <2>3. c2 = c /\ q2 = q /\ followUpDay = d => openFollowUps[c2][q2][d] = 0
    BY <1>1 DEF FollowUp!shouldCreateFollowUpTask
  <2>4. DailyLoad(c2, q2, d)' = openFollowUps[c2][q2][d] + n
    BY <1>2 DEF DailyLoad
  <2> HIDE DEF n, m
  <2> QED
    BY <2>1, <2>2, <2>3, <2>4
<1>8. ASSUME NEW c2 \in Conversations, NEW q2 \in Questions, NEW d \in Days
      PROVE  WeeklyLoad(c2, q2, d)' <= WeeklyCap + Cardinality(Callers) - 1
  <2> DEFINE days == Week7(d)
             n == Cardinality(About(c2, q2, days)')
             m == Cardinality(About(c2, q2, days))
             k == Cardinality(Open(openFollowUps[c2][q2], days))
  <2>1. days \in SUBSET Days /\ WeeklyCap \in Nat
    BY <1>3, LoadTypes DEF FollowUpAssumption
  <2>2. /\ n \in Nat /\ n <= Cardinality(Callers) /\ Cardinality(Callers) \in Nat
        /\ (c2 = c /\ q2 = q /\ followUpDay \in days) \/ n <= m
    BY <1>6, <2>1
  <2>3. k + m <= WeeklyCap + Cardinality(Callers) - 1 /\ m \in Nat /\ k \in Nat
    BY <1>3, <2>1, LoadTypes DEF FollowInv, WeeklyLoad
  <2>4. ASSUME c2 = c, q2 = q, followUpDay \in days PROVE k < WeeklyCap
    <3> DEFINE recent == {e \in Days : e >= followUpDay - Week}
    <3>1. FollowUp!OpenTasks(c, q, recent) < WeeklyCap
      BY <1>1 DEF FollowUp!shouldCreateFollowUpTask, Days
    <3>2. PICK f \in [Days -> Nat] : f = openFollowUps[c][q] /\ IsFiniteSet(Open(f, Days))
      BY <1>3, LoadTypes DEF FollowTypes
    <3>3. FollowUp!OpenTasks(c, q, recent) = Cardinality(Open(f, recent))
      BY <1>3, <3>2, LoadTypes, OpenTasksCounted
    <3>4. days \subseteq recent
      BY <2>4, FollowUpNumbers DEF Week7
    <3>5. Cardinality(Open(f, days)) <= Cardinality(Open(f, recent))
      <4> HIDE DEF days
      <4> QED
        BY <2>1, <3>2, <3>4, FewerDays
    <3>6. Cardinality(Open(f, recent)) \in Nat
      BY <3>2, OpenIsFinite
    <3> QED
      BY <2>1, <2>3, <2>4, <3>1, <3>2, <3>3, <3>5, <3>6
  <2>5. WeeklyLoad(c2, q2, d)' = k + n
    BY <1>2 DEF WeeklyLoad, Week7
  <2> HIDE DEF n, m, k, days
  <2> QED
    BY <2>1, <2>2, <2>3, <2>4, <2>5
<1>9. ASSUME NEW c2 \in Conversations PROVE Reminders(c2)' <= Cardinality(Scans)
  BY <1>2 DEF FollowInv, Reminders, Reminding
<1> QED
  BY <1>4, <1>7, <1>8, <1>9 DEF FollowInv
\* A task is created for a caller that was about to, on the day that it counted for; or the
\* caller gives up.
LEMMA CallerEnds ==
    ASSUME FollowUpAssumption, FollowInv, NEW j \in Callers,
           FollowUp!CreateFollowUp(j) \/ FollowUp!CreateFails(j)
    PROVE  FollowInv'
<1>1. /\ caller[j] # FollowUp!NoTask /\ caller' = [caller EXCEPT ![j] = FollowUp!NoTask]
      /\ UNCHANGED <<scan, followUp, followUpDay>>
      /\ \/ openFollowUps' = openFollowUps
         \/ openFollowUps' = [openFollowUps EXCEPT ![caller[j].conv][caller[j].key][caller[j].day] = @ + 1]
  BY DEF FollowUp!CreateFollowUp, FollowUp!CreateFails, FollowUp!Created
<1>2. PICK c \in Conversations, q \in Questions, d \in Days :
         caller[j].conv = c /\ caller[j].key = q /\ caller[j].day = d
  BY <1>1 DEF FollowInv, FollowTypes
<1>3. openFollowUps' = openFollowUps \/ openFollowUps' = [openFollowUps EXCEPT ![c][q][d] = @ + 1]
  BY <1>1, <1>2
<1>4. /\ FollowTypes /\ q \in FollowUp!Kinds /\ q # "reminder"
      /\ openFollowUps \in [Conversations -> [FollowUp!Kinds -> [Days -> Nat]]]
  BY LoadTypes DEF FollowInv, FollowTypes
<1>5. PICK f \in [Days -> Nat] : f = openFollowUps[c][q] /\ IsFiniteSet(Open(f, Days))
  BY <1>4 DEF FollowTypes
<1>6. PICK g : g = [f EXCEPT ![d] = @ + 1]
  OBVIOUS
<1>7. g \in [Days -> Nat] /\ g[d] = f[d] + 1 /\ \A e \in Days \ {d} : g[e] = f[e]
  BY <1>6
<1>8. /\ \A c2 \in Conversations, k \in FollowUp!Kinds : c2 # c \/ k # q =>
              openFollowUps'[c2][k] = openFollowUps[c2][k]
      /\ openFollowUps'[c][q] = f \/ openFollowUps'[c][q] = g
  BY <1>3, <1>4, <1>5, <1>6
<1>9. FollowTypes'
  <2>1. openFollowUps' \in [Conversations -> [FollowUp!Kinds -> [Days -> Nat]]]
    <3>1. PICK r : r = [openFollowUps[c] EXCEPT ![q] = g]
      OBVIOUS
    <3>2. r \in [FollowUp!Kinds -> [Days -> Nat]]
      BY <1>4, <1>7, <3>1
    <3>3. openFollowUps' = openFollowUps \/ openFollowUps' = [openFollowUps EXCEPT ![c] = r]
      BY <1>3, <1>5, <1>6, <3>1
    <3> QED
      BY <1>4, <3>2, <3>3
  <2>2. IsFiniteSet(Open(g, Days))
    <3>1. PICK ds \in SUBSET Days : ds = Days
      OBVIOUS
    <3> QED
      BY <1>5, <1>6, <3>1, OneMore
  <2>3. \A c2 \in Conversations, k \in FollowUp!Kinds : IsFiniteSet(Open(openFollowUps'[c2][k], Days))
    BY <1>4, <1>5, <1>8, <2>2 DEF FollowTypes
  <2> QED
    BY <1>1, <1>4, <2>1, <2>3 DEF FollowTypes
<1>10. ASSUME NEW c2 \in Conversations, NEW q2 \in Questions, NEW days \in SUBSET Days
       PROVE  LET n == Cardinality(About(c2, q2, days)')
                  m == Cardinality(About(c2, q2, days))
              IN  /\ n \in Nat /\ m \in Nat /\ n <= m
                  /\ c2 = c /\ q2 = q /\ d \in days => n = m - 1
  <2>1. PICK S, T : S = About(c2, q2, days)' /\ T = About(c2, q2, days)
    OBVIOUS
  <2>2. S = T \ {j} /\ T \subseteq Callers
    BY <1>1, <1>4, <2>1 DEF About, FollowTypes
  <2>3. c2 = c /\ q2 = q /\ d \in days => j \in T
    BY <1>1, <1>2, <2>1 DEF About
  <2>4. IsFiniteSet(T) /\ Cardinality(T) \in Nat
    BY <2>2, SomeCallers
  <2>5. Cardinality(S) = IF j \in T THEN Cardinality(T) - 1 ELSE Cardinality(T)
    BY <2>2, <2>4, FS_RemoveElement
  <2>6. Cardinality(S) \in Nat
    BY <2>2, SomeCallers
  <2> QED
    BY <2>1, <2>3, <2>4, <2>5, <2>6
<1>11. ASSUME NEW c2 \in Conversations, NEW q2 \in Questions, NEW e \in Days
       PROVE  DailyLoad(c2, q2, e)' <= Cardinality(Callers)
  <2> DEFINE n == Cardinality(About(c2, q2, {e})')
             m == Cardinality(About(c2, q2, {e}))
  <2>1. n \in Nat /\ m \in Nat /\ n <= m /\ (c2 = c /\ q2 = q /\ d = e => n = m - 1)
    BY <1>10
  <2>2. /\ openFollowUps[c2][q2][e] + m <= Cardinality(Callers) /\ openFollowUps[c2][q2][e] \in Nat
        /\ Cardinality(Callers) \in Nat
    BY <1>4, LoadTypes DEF FollowInv, DailyLoad
  <2>3. openFollowUps'[c2][q2][e] = openFollowUps[c2][q2][e] \/
        (c2 = c /\ q2 = q /\ d = e /\ openFollowUps'[c2][q2][e] = openFollowUps[c2][q2][e] + 1)
    BY <1>4, <1>5, <1>7, <1>8, LoadTypes
  <2>4. DailyLoad(c2, q2, e)' = openFollowUps'[c2][q2][e] + n
    BY DEF DailyLoad
  <2> HIDE DEF n, m
  <2> QED
    BY <2>1, <2>2, <2>3, <2>4
<1>12. ASSUME NEW c2 \in Conversations, NEW q2 \in Questions, NEW e \in Days
       PROVE  WeeklyLoad(c2, q2, e)' <= WeeklyCap + Cardinality(Callers) - 1
  <2> DEFINE days == Week7(e)
             n == Cardinality(About(c2, q2, days)')
             m == Cardinality(About(c2, q2, days))
             k == Cardinality(Open(openFollowUps[c2][q2], days))
             l == Cardinality(Open(openFollowUps'[c2][q2], days))
  <2>1. days \in SUBSET Days /\ WeeklyCap \in Nat
    BY <1>4, LoadTypes DEF FollowUpAssumption
  <2>2. n \in Nat /\ m \in Nat /\ n <= m /\ (c2 = c /\ q2 = q /\ d \in days => n = m - 1)
    BY <1>10, <2>1
  <2>3. k + m <= WeeklyCap + Cardinality(Callers) - 1 /\ k \in Nat /\ Cardinality(Callers) \in Nat
    BY <1>4, <2>1, LoadTypes DEF FollowInv, WeeklyLoad
  <2>4. l = k \/ (c2 = c /\ q2 = q /\ d \in days /\ l = k + 1)
    <3>1. CASE c2 # c \/ q2 # q
      BY <1>8, <3>1, LoadTypes, <1>4
    <3>2. CASE c2 = c /\ q2 = q
      <4>1. PICK ds \in SUBSET Days : ds = days
        BY <2>1
      <4>2. /\ d \in ds => Cardinality(Open(g, ds)) = Cardinality(Open(f, ds)) + 1
            /\ d \notin ds => Open(g, ds) = Open(f, ds)
        BY <1>5, <1>6, OneMore
      <4>3. k = Cardinality(Open(f, ds)) /\ (l = Cardinality(Open(f, ds)) \/ l = Cardinality(Open(g, ds)))
        BY <1>5, <1>8, <3>2, <4>1
      <4> QED
        BY <3>2, <4>1, <4>2, <4>3
    <3> QED
      BY <3>1, <3>2
  <2>5. WeeklyLoad(c2, q2, e)' = l + n
    BY DEF WeeklyLoad, Week7
  <2> HIDE DEF n, m, k, l, days
  <2> QED
    BY <2>1, <2>2, <2>3, <2>4, <2>5
<1>13. ASSUME NEW c2 \in Conversations PROVE Reminders(c2)' <= Cardinality(Scans)
  <2>1. openFollowUps'[c2]["reminder"] = openFollowUps[c2]["reminder"]
    BY <1>4, <1>8, LoadTypes
  <2> QED
    BY <1>1, <2>1 DEF FollowInv, Reminders, Reminding
<1> QED
  BY <1>9, <1>11, <1>12, <1>13 DEF FollowInv
\* Steps that open no task and bring no creation on the way.
LEMMA OthersKeepFollowUps ==
    ASSUME FollowUpAssumption, FollowInv, FollowTypes', openFollowUps' = openFollowUps, caller' = caller,
           \A c \in Conversations : Reminding(c)' \subseteq Reminding(c)
    PROVE  FollowInv'
<1>1. ASSUME NEW c \in Conversations PROVE Reminders(c)' <= Cardinality(Scans)
  <2> DEFINE n == Cardinality(Reminding(c)')
             m == Cardinality(Reminding(c))
             k == Cardinality(Open(openFollowUps[c]["reminder"], Days))
  <2>1. PICK S, T : S = Reminding(c)' /\ T = Reminding(c) /\ S \subseteq T
    OBVIOUS
  <2>2. IsFiniteSet(T) /\ Cardinality(T) \in Nat /\ Cardinality(S) \in Nat
    <3>1. T \subseteq Scans
      BY <2>1 DEF Reminding
    <3> QED
      BY <2>1, <3>1, SomeScans
  <2>3. n <= m /\ n \in Nat /\ m \in Nat
    BY <2>1, <2>2, FS_Subset
  <2>4. k + m <= Cardinality(Scans) /\ k \in Nat /\ Cardinality(Scans) \in Nat
    BY LoadTypes DEF FollowInv, Reminders
  <2>5. Reminders(c)' = k + n
    BY DEF Reminders
  <2> HIDE DEF n, m, k
  <2> QED
    BY <2>3, <2>4, <2>5
<1>2. \A c \in Conversations, q \in Questions, d \in Days :
         DailyLoad(c, q, d)' = DailyLoad(c, q, d) /\ WeeklyLoad(c, q, d)' = WeeklyLoad(c, q, d)
  BY DEF DailyLoad, WeeklyLoad, About, Week7
<1> QED
  BY <1>1, <1>2 DEF FollowInv

\* A scan starts, ends or is cut off; a conversation changes; a day passes.
LEMMA QuietSteps ==
    ASSUME FollowUpAssumption, FollowInv,
           \/ \E s \in Scans : FollowUp!StartScan(s) \/ FollowUp!EndScan(s) \/ FollowUp!ScanFails(s)
           \/ \E c \in Conversations : FollowUp!SetFollowUp(c) \/ FollowUp!CloseConversation(c)
           \/ \E c \in Conversations, q \in Questions : FollowUp!Answer(c, q)
           \/ FollowUp!NextDay \/ UNCHANGED FollowUp!vars
    PROVE  FollowInv'
<1>1. ASSUME NEW s \in Scans, FollowUp!StartScan(s) \/ FollowUp!EndScan(s) \/ FollowUp!ScanFails(s)
      PROVE  FollowInv'
  <2>1. UNCHANGED <<openFollowUps, caller, followUp, followUpDay>>
    BY <1>1 DEF FollowUp!StartScan, FollowUp!EndScan, FollowUp!ScanFails
  <2>2. PICK q : /\ scan' = [scan EXCEPT ![s] = q]
                 /\ \/ q = [now |-> followUpDay, due |-> followUp, left |-> Conversations, next |-> Null]
                    \/ q = FollowUp!NoScan
    BY <1>1 DEF FollowUp!StartScan, FollowUp!EndScan, FollowUp!ScanFails
  <2>3. q \in [now : Days \cup {Null}, due : [Conversations -> Days \cup {Null}],
               left : SUBSET Conversations, next : Conversations \cup {Null}]
    BY <2>2 DEF FollowUp!NoScan, FollowInv, FollowTypes
  <2>4. q.next = Null
    BY <2>2 DEF FollowUp!NoScan
  <2>5. FollowTypes'
    BY <2>1, <2>2, <2>3 DEF FollowInv, FollowTypes
  <2>6. \A c \in Conversations : Reminding(c)' \subseteq Reminding(c)
    BY <2>2, <2>4 DEF Reminding, FollowInv, FollowTypes, FollowUpAssumption
  <2> QED
    BY <2>1, <2>5, <2>6, OthersKeepFollowUps
<1>2. ASSUME UNCHANGED <<openFollowUps, caller, scan>>, followUp' \in [Conversations -> Days \cup {Null}],
             followUpDay' \in Days
      PROVE  FollowInv'
  <2>1. FollowTypes' /\ \A c \in Conversations : Reminding(c)' \subseteq Reminding(c)
    BY <1>2 DEF FollowInv, FollowTypes, Reminding
  <2> QED
    BY <1>2, <2>1, OthersKeepFollowUps
<1>3. ASSUME NEW c \in Conversations, FollowUp!SetFollowUp(c) PROVE FollowInv'
  BY <1>2, <1>3 DEF FollowUp!SetFollowUp, FollowInv, FollowTypes, Days
<1>4. ASSUME NEW c \in Conversations,
             FollowUp!CloseConversation(c) \/ \E q \in Questions : FollowUp!Answer(c, q)
      PROVE  FollowInv'
  BY <1>2, <1>4 DEF FollowUp!CloseConversation, FollowUp!Answer, FollowInv, FollowTypes
<1>5. CASE FollowUp!NextDay
  BY <1>2, <1>5, FollowUpNumbers DEF FollowUp!NextDay, FollowInv, FollowTypes, FollowUpAssumption
<1>6. CASE UNCHANGED FollowUp!vars
  BY <1>2, <1>6 DEF FollowUp!vars, FollowInv, FollowTypes
<1> QED
  BY <1>1, <1>3, <1>4, <1>5, <1>6

\* A reminder is on the way only for a conversation without an open task.
LEMMA ScanKeeps ==
    ASSUME FollowUpAssumption, FollowInv, NEW s \in Scans, FollowUp!CheckConversation(s) PROVE FollowInv'
<1>1. PICK c \in Conversations :
        /\ scan' = [scan EXCEPT ![s].left = @ \ {c},
                                ![s].next = IF FollowUp!NeedsReminder(s, c) THEN c ELSE Null]
        /\ c \in scan[s].left
  BY DEF FollowUp!CheckConversation, FollowInv, FollowTypes
<1>2. UNCHANGED <<openFollowUps, caller, followUp, followUpDay>> /\ scan[s].next = Null
  BY DEF FollowUp!CheckConversation
<1>3. PICK n \in {c, Null} : /\ n = IF FollowUp!NeedsReminder(s, c) THEN c ELSE Null
                             /\ scan' = [scan EXCEPT ![s].left = @ \ {c}, ![s].next = n]
  BY <1>1
<1>4. FollowTypes'
  <2>1. PICK q : q = [scan[s] EXCEPT !.left = @ \ {c}, !.next = n]
    OBVIOUS
  <2>2. q \in [now : Days \cup {Null}, due : [Conversations -> Days \cup {Null}],
               left : SUBSET Conversations, next : Conversations \cup {Null}]
    <3>1. scan[s] \in [now : Days \cup {Null}, due : [Conversations -> Days \cup {Null}],
                        left : SUBSET Conversations, next : Conversations \cup {Null}]
      BY DEF FollowInv, FollowTypes
    <3>2. n \in Conversations \cup {Null} /\ scan[s].left \ {c} \in SUBSET Conversations
      BY <1>3, <3>1
    <3> QED
      BY <2>1, <3>1, <3>2
  <2>3. scan' = [scan EXCEPT ![s] = q]
    BY <1>3, <2>1
  <2> QED
    BY <1>2, <2>2, <2>3 DEF FollowInv, FollowTypes
<1>5. /\ \A t \in Scans \ {s} : scan'[t] = scan[t]
      /\ scan'[s].next = n
  BY <1>3 DEF FollowInv, FollowTypes
<1>6. CASE n = Null
  <2>1. \A c2 \in Conversations : Reminding(c2)' \subseteq Reminding(c2)
    BY <1>2, <1>5, <1>6 DEF Reminding, FollowUpAssumption
  <2> QED
    BY <1>2, <1>4, <2>1, OthersKeepFollowUps
<1>7. CASE n = c /\ c # Null
  <2>1. ~ FollowUp!HasOpenFollowUp(c)
    BY <1>3, <1>7 DEF FollowUp!NeedsReminder
  <2>2. PICK f \in [Days -> Nat] : f = openFollowUps[c]["reminder"]
    BY LoadTypes DEF FollowInv, FollowTypes
  <2>3. \A d \in Days : f[d] = 0
    BY <2>1, <2>2, LoadTypes DEF FollowUp!HasOpenFollowUp, FollowInv, Days
  <2>4. Cardinality(Open(f, Days)) = 0
    <3>1. PICK ds \in SUBSET Days : ds = Days
      OBVIOUS
    <3> QED
      BY <2>3, <3>1, NoneOpen
  <2>5. ASSUME NEW c2 \in Conversations PROVE Reminders(c2)' <= Cardinality(Scans)
    <3> DEFINE m == Cardinality(Reminding(c2)')
    <3>1. Reminders(c2)' = Cardinality(Open(openFollowUps[c2]["reminder"], Days)) + m
      BY <1>2 DEF Reminders
    <3>2. CASE c2 = c
      <4>1. PICK S : S = Reminding(c2)' /\ S \subseteq Scans
        BY DEF Reminding
      <4>2. m \in Nat /\ m <= Cardinality(Scans)
        BY <4>1, SomeScans
      <4> QED
        BY <2>2, <2>4, <3>1, <3>2, <4>2
    <3>3. CASE c2 # c
      <4>1. Reminding(c2)' = Reminding(c2)
        BY <1>2, <1>5, <1>7, <3>3 DEF Reminding, FollowUpAssumption
      <4> QED
        BY <3>1, <4>1 DEF FollowInv, Reminders
    <3> QED
      BY <3>2, <3>3
  <2>6. \A c2 \in Conversations, q \in Questions, d \in Days :
           DailyLoad(c2, q, d)' = DailyLoad(c2, q, d) /\ WeeklyLoad(c2, q, d)' = WeeklyLoad(c2, q, d)
    BY <1>2 DEF DailyLoad, WeeklyLoad, About, Week7
  <2> QED
    BY <1>4, <2>5, <2>6 DEF FollowInv
<1> QED
  BY <1>3, <1>6, <1>7
\* The reminder is created for the scan that was about to.
LEMMA ReminderKeeps ==
    ASSUME FollowUpAssumption, FollowInv, NEW s \in Scans, FollowUp!CreateReminder(s) PROVE FollowInv'
<1>1. /\ scan[s].next # Null /\ scan' = [scan EXCEPT ![s].next = Null]
      /\ openFollowUps' = [openFollowUps EXCEPT ![scan[s].next]["reminder"][followUpDay] = @ + 1]
      /\ UNCHANGED <<caller, followUp, followUpDay>>
  BY DEF FollowUp!CreateReminder, FollowUp!Created
<1>2. PICK c \in Conversations, d \in Days : c = scan[s].next /\ d = followUpDay
  BY <1>1 DEF FollowInv, FollowTypes
<1>3. openFollowUps \in [Conversations -> [FollowUp!Kinds -> [Days -> Nat]]] /\ FollowTypes
      /\ "reminder" \in FollowUp!Kinds
  BY LoadTypes DEF FollowInv, FollowTypes
<1>4. PICK f \in [Days -> Nat] : f = openFollowUps[c]["reminder"] /\ IsFiniteSet(Open(f, Days))
  BY <1>3 DEF FollowTypes
<1>5. PICK g : g = [f EXCEPT ![d] = @ + 1]
  OBVIOUS
<1>6. PICK r : r = [openFollowUps[c] EXCEPT !["reminder"] = g]
  OBVIOUS
<1>7. g \in [Days -> Nat] /\ r \in [FollowUp!Kinds -> [Days -> Nat]]
  BY <1>3, <1>5, <1>6
<1>8. openFollowUps' = [openFollowUps EXCEPT ![c] = r]
  BY <1>1, <1>2, <1>4, <1>5, <1>6
<1>9. /\ \A c2 \in Conversations, k \in FollowUp!Kinds :
            c2 # c \/ k # "reminder" => openFollowUps'[c2][k] = openFollowUps[c2][k]
      /\ openFollowUps'[c]["reminder"] = g
  BY <1>3, <1>6, <1>7, <1>8
<1>10. PICK ds \in SUBSET Days : ds = Days
  OBVIOUS
<1>11. /\ IsFiniteSet(Open(g, Days))
       /\ Cardinality(Open(g, Days)) = Cardinality(Open(f, Days)) + 1
  BY <1>4, <1>5, <1>10, OneMore
<1>12. FollowTypes'
  <2>1. openFollowUps' \in [Conversations -> [FollowUp!Kinds -> [Days -> Nat]]]
    BY <1>3, <1>7, <1>8
  <2>2. \A c2 \in Conversations, k \in FollowUp!Kinds : IsFiniteSet(Open(openFollowUps'[c2][k], Days))
    BY <1>3, <1>9, <1>11 DEF FollowTypes
  <2>3. PICK q : q = [scan[s] EXCEPT !.next = Null]
    OBVIOUS
  <2>4. q \in [now : Days \cup {Null}, due : [Conversations -> Days \cup {Null}],
               left : SUBSET Conversations, next : Conversations \cup {Null}]
    BY <1>3, <2>3 DEF FollowTypes
  <2>5. scan' = [scan EXCEPT ![s] = q]
    BY <1>1, <2>3
  <2>6. scan' \in [Scans -> [now : Days \cup {Null}, due : [Conversations -> Days \cup {Null}],
                             left : SUBSET Conversations, next : Conversations \cup {Null}]]
    BY <1>3, <2>4, <2>5 DEF FollowTypes
  <2>7. caller' = caller /\ followUp' = followUp /\ followUpDay' = followUpDay
    BY <1>1
  <2> QED
    BY <1>3, <2>1, <2>2, <2>6, <2>7 DEF FollowTypes
<1>13. ASSUME NEW c2 \in Conversations PROVE Reminders(c2)' <= Cardinality(Scans)
  <2>1. PICK S, T : S = Reminding(c2)' /\ T = Reminding(c2)
    OBVIOUS
  <2>2. T \subseteq Scans /\ S = T \ {s} /\ (c2 = c => s \in T) /\ (c2 # c => S = T)
    BY <1>1, <1>2, <1>3, <2>1 DEF Reminding, FollowTypes, FollowUpAssumption
  <2>3. IsFiniteSet(T) /\ Cardinality(T) \in Nat
    BY <2>2, SomeScans
  <2>4. c2 = c => Cardinality(S) = Cardinality(T) - 1
    BY <2>2, <2>3, FS_RemoveElement
  <2>5. Cardinality(Open(openFollowUps[c2]["reminder"], Days)) + Cardinality(T) <= Cardinality(Scans)
    BY <2>1 DEF FollowInv, Reminders
  <2>6. Cardinality(Open(openFollowUps[c2]["reminder"], Days)) \in Nat /\ Cardinality(Scans) \in Nat
    BY <1>3, LoadTypes
  <2>7. Reminders(c2)' = Cardinality(Open(openFollowUps'[c2]["reminder"], Days)) + Cardinality(S)
    BY <2>1 DEF Reminders
  <2>8. CASE c2 = c
    BY <1>4, <1>9, <1>11, <2>3, <2>4, <2>5, <2>6, <2>7, <2>8
  <2>9. CASE c2 # c
    BY <1>3, <1>9, <2>2, <2>5, <2>7, <2>9
  <2> QED
    BY <2>8, <2>9
<1>14. \A c2 \in Conversations, q \in Questions : openFollowUps'[c2][q] = openFollowUps[c2][q]
  BY <1>3, <1>9, LoadTypes
<1>15. \A c2 \in Conversations, q \in Questions, e \in Days :
          DailyLoad(c2, q, e)' = DailyLoad(c2, q, e) /\ WeeklyLoad(c2, q, e)' = WeeklyLoad(c2, q, e)
  BY <1>1, <1>14 DEF DailyLoad, WeeklyLoad, About, Week7
<1> QED
  BY <1>12, <1>13, <1>15 DEF FollowInv

\* An operator finishes a task.
LEMMA FinishKeeps ==
    ASSUME FollowUpAssumption, FollowInv, NEW c \in Conversations, NEW k \in FollowUp!Kinds,
           NEW d \in Days, FollowUp!FinishTask(c, k, d)
    PROVE  FollowInv'
<1>1. /\ openFollowUps[c][k][d] > 0 /\ openFollowUps' = [openFollowUps EXCEPT ![c][k][d] = @ - 1]
      /\ UNCHANGED <<caller, scan, followUp, followUpDay>>
  BY DEF FollowUp!FinishTask
<1>2. openFollowUps \in [Conversations -> [FollowUp!Kinds -> [Days -> Nat]]] /\ FollowTypes
  BY DEF FollowInv, FollowTypes
<1>3. PICK f \in [Days -> Nat] : f = openFollowUps[c][k] /\ IsFiniteSet(Open(f, Days)) /\ f[d] > 0
  BY <1>1, <1>2 DEF FollowTypes
<1>4. PICK g : g = [f EXCEPT ![d] = @ - 1]
  OBVIOUS
<1>5. PICK r : r = [openFollowUps[c] EXCEPT ![k] = g]
  OBVIOUS
<1>6. g \in [Days -> Nat] /\ r \in [FollowUp!Kinds -> [Days -> Nat]] /\ \A e \in Days : g[e] <= f[e]
  BY <1>2, <1>3, <1>4, <1>5
<1>7. openFollowUps' = [openFollowUps EXCEPT ![c] = r]
  BY <1>1, <1>3, <1>4, <1>5
<1>8. /\ \A c2 \in Conversations, k2 \in FollowUp!Kinds : c2 # c \/ k2 # k =>
              openFollowUps'[c2][k2] = openFollowUps[c2][k2]
      /\ openFollowUps'[c][k] = g
  BY <1>2, <1>5, <1>6, <1>7
<1>9. \A days \in SUBSET Days : /\ IsFiniteSet(Open(g, Days))
                                /\ Cardinality(Open(g, days)) <= Cardinality(Open(f, days))
  BY <1>3, <1>4, OneLess
<1>10. IsFiniteSet(Open(g, Days))
  <2>1. PICK ds \in SUBSET Days : ds = Days
    OBVIOUS
  <2> QED
    BY <1>9, <2>1
<1>11. FollowTypes'
  <2>1. openFollowUps' \in [Conversations -> [FollowUp!Kinds -> [Days -> Nat]]]
    BY <1>2, <1>6, <1>7
  <2>2. \A c2 \in Conversations, k2 \in FollowUp!Kinds : IsFiniteSet(Open(openFollowUps'[c2][k2], Days))
    BY <1>2, <1>8, <1>10 DEF FollowTypes
  <2> QED
    BY <1>1, <1>2, <2>1, <2>2 DEF FollowTypes
<1>12. ASSUME NEW c2 \in Conversations, NEW k2 \in FollowUp!Kinds, NEW days \in SUBSET Days
       PROVE  LET n == Cardinality(Open(openFollowUps'[c2][k2], days))
                  m == Cardinality(Open(openFollowUps[c2][k2], days))
              IN  n \in Nat /\ m \in Nat /\ n <= m
  <2>1. Cardinality(Open(openFollowUps[c2][k2], days)) \in Nat
    BY <1>2, LoadTypes
  <2>2. Cardinality(Open(g, days)) \in Nat
    BY <1>6, <1>10, OpenIsFinite
  <2> QED
    BY <1>3, <1>8, <1>9, <2>1, <2>2
<1>13. ASSUME NEW c2 \in Conversations, NEW q \in Questions, NEW e \in Days
       PROVE  /\ DailyLoad(c2, q, e)' <= DailyLoad(c2, q, e)
              /\ WeeklyLoad(c2, q, e)' <= WeeklyLoad(c2, q, e)
              /\ DailyLoad(c2, q, e)' \in Int /\ DailyLoad(c2, q, e) \in Int
              /\ WeeklyLoad(c2, q, e)' \in Int /\ WeeklyLoad(c2, q, e) \in Int
  <2>1. About(c2, q, {e})' = About(c2, q, {e}) /\ About(c2, q, Week7(e))' = About(c2, q, Week7(e))
    BY <1>1 DEF About, Week7
  <2>2. /\ q \in FollowUp!Kinds /\ Week7(e) \in SUBSET Days
        /\ Cardinality(About(c2, q, {e})) \in Nat /\ Cardinality(About(c2, q, Week7(e))) \in Nat
    BY <1>2, LoadTypes
  <2>3. openFollowUps'[c2][q][e] \in Nat /\ openFollowUps[c2][q][e] \in Nat /\ openFollowUps'[c2][q][e] <= openFollowUps[c2][q][e]
    BY <1>2, <1>3, <1>6, <1>8, <2>2
  <2> DEFINE n == Cardinality(Open(openFollowUps'[c2][q], Week7(e)))
             m == Cardinality(Open(openFollowUps[c2][q], Week7(e)))
  <2>4. n \in Nat /\ m \in Nat /\ n <= m
    BY <1>12, <2>2
  <2>5. /\ DailyLoad(c2, q, e)' = openFollowUps'[c2][q][e] + Cardinality(About(c2, q, {e}))
        /\ DailyLoad(c2, q, e) = openFollowUps[c2][q][e] + Cardinality(About(c2, q, {e}))
    BY <2>1 DEF DailyLoad
  <2>6. /\ WeeklyLoad(c2, q, e)' = n + Cardinality(About(c2, q, Week7(e)))
        /\ WeeklyLoad(c2, q, e) = m + Cardinality(About(c2, q, Week7(e)))
    BY <2>1 DEF WeeklyLoad, Week7
  <2> HIDE DEF n, m
  <2> QED
    BY <2>2, <2>3, <2>4, <2>5, <2>6
<1>14. ASSUME NEW c2 \in Conversations PROVE Reminders(c2)' <= Cardinality(Scans)
  <2>1. PICK ds \in SUBSET Days : ds = Days
    OBVIOUS
  <2>2. /\ "reminder" \in FollowUp!Kinds /\ Cardinality(Reminding(c2)) \in Nat
        /\ Cardinality(Scans) \in Nat
    BY <1>2, LoadTypes
  <2>3. Reminders(c2)' = Cardinality(Open(openFollowUps'[c2]["reminder"], Days)) + Cardinality(Reminding(c2))
    BY <1>1 DEF Reminders, Reminding
  <2>4. Reminders(c2) <= Cardinality(Scans)
    BY DEF FollowInv
  <2> QED
    BY <1>12, <2>1, <2>2, <2>3, <2>4 DEF Reminders
<1>15. Cardinality(Callers) \in Nat /\ WeeklyCap \in Nat
  BY <1>2, LoadTypes DEF FollowUpAssumption
<1>16. ASSUME NEW c2 \in Conversations, NEW q \in Questions, NEW e \in Days
       PROVE  /\ DailyLoad(c2, q, e)' <= Cardinality(Callers)
              /\ WeeklyLoad(c2, q, e)' <= WeeklyCap + Cardinality(Callers) - 1
  BY <1>13, <1>15 DEF FollowInv
<1> QED
  BY <1>11, <1>14, <1>16 DEF FollowInv

LEMMA FollowNext ==
    ASSUME FollowUpAssumption, FollowInv, [FollowUp!Next]_(FollowUp!vars) PROVE FollowInv'
  BY CheckKeeps, CallerEnds, QuietSteps, ScanKeeps, ReminderKeeps, FinishKeeps
  DEF FollowUp!Next, FollowUp!Scanning, Days

\* Duplicates come from concurrency alone: of a question and a day there are at most as many
\* open follow-ups as jobs and requests at a time, the weekly cap is overshot only by those
\* that were let through together, and a conversation has at most one open reminder for each
\* scan that may run at once; however many days pass and whichever calls fail.
THEOREM FollowUpsFew == ASSUME FollowUpAssumption PROVE FollowUp!Spec => []FollowUp!FollowUpsBounded
<1>1. ASSUME FollowInv PROVE FollowUp!FollowUpsBounded
  <2>1. FollowTypes
    BY <1>1 DEF FollowInv
  <2>2. ASSUME NEW c \in Conversations, NEW q \in Questions, NEW d \in Days
        PROVE  /\ openFollowUps[c][q][d] <= FollowUp!Cardinality(Callers)
               /\ FollowUp!OpenTasks(c, q, Week7(d)) <= WeeklyCap + FollowUp!Cardinality(Callers) - 1
    <3> DEFINE n == Cardinality(About(c, q, {d}))
               m == Cardinality(About(c, q, Week7(d)))
               k == Cardinality(Open(openFollowUps[c][q], Week7(d)))
    <3>1. n \in Nat /\ m \in Nat /\ k \in Nat /\ q \in FollowUp!Kinds /\ Week7(d) \in SUBSET Days
          /\ Cardinality(Callers) \in Nat
      BY <2>1, LoadTypes
    <3>2. openFollowUps[c][q][d] \in Nat /\ WeeklyCap \in Nat
      BY <2>1, <3>1 DEF FollowTypes, FollowUpAssumption
    <3>3. /\ openFollowUps[c][q][d] + n <= Cardinality(Callers)
          /\ k + m <= WeeklyCap + Cardinality(Callers) - 1
      BY <1>1 DEF FollowInv, DailyLoad, WeeklyLoad
    <3>4. FollowUp!OpenTasks(c, q, Week7(d)) = k
      BY <2>1, <3>1, OpenTasksCounted
    <3>5. FollowUp!Cardinality(Callers) = Cardinality(Callers)
      BY SameCardinality
    <3> HIDE DEF n, m, k
    <3> QED
      BY <3>1, <3>2, <3>3, <3>4, <3>5
  <2>3. ASSUME NEW c \in Conversations
        PROVE  FollowUp!OpenTasks(c, "reminder", Days) <= FollowUp!Cardinality(Scans)
    <3> DEFINE n == Cardinality(Reminding(c))
               k == Cardinality(Open(openFollowUps[c]["reminder"], Days))
    <3>1. PICK ds \in SUBSET Days : ds = Days
      OBVIOUS
    <3>2. n \in Nat /\ k \in Nat /\ "reminder" \in FollowUp!Kinds /\ Cardinality(Scans) \in Nat
      BY <2>1, <3>1, LoadTypes
    <3>3. n + k <= Cardinality(Scans)
      BY <1>1, <3>2 DEF FollowInv, Reminders
    <3>4. FollowUp!OpenTasks(c, "reminder", ds) = Cardinality(Open(openFollowUps[c]["reminder"], ds))
      BY <2>1, <3>2, OpenTasksCounted
    <3>5. FollowUp!Cardinality(Scans) = Cardinality(Scans)
      BY SameCardinality
    <3>6. FollowUp!OpenTasks(c, "reminder", Days) = k
      BY <3>1, <3>4
    <3> HIDE DEF n, k
    <3> QED
      BY <3>2, <3>3, <3>5, <3>6
  <2> QED
    BY <2>2, <2>3 DEF FollowUp!FollowUpsBounded, FollowUp!DailyFollowUpsBounded,
       FollowUp!WeeklyFollowUpsBounded, FollowUp!RemindersBounded, Week7, Days
<1> QED
  BY <1>1, FollowInit, FollowNext, PTL DEF FollowUp!Spec

\* The other variables: what is asked, who is closed and how often calls failed.
FollowRows ==
    /\ asked \in [Conversations -> [Questions -> Days \cup {Null}]]
    /\ closed \subseteq Conversations
    /\ followUpFaults \in 0..MaxFailures

LEMMA FollowRowsNext ==
    ASSUME FollowUpAssumption, MaxFailures \in Nat, FollowRows, [FollowUp!Next]_(FollowUp!vars)
    PROVE  FollowRows'
<1>1. asked' = asked \/ \E c \in Conversations, q \in Questions : asked' = [asked EXCEPT ![c][q] = Null]
  BY DEF FollowUp!Next, FollowUp!Scanning, FollowUp!CheckQuestion, FollowUp!CreateFollowUp, FollowUp!CreateFails,
         FollowUp!StartScan, FollowUp!CheckConversation, FollowUp!CreateReminder, FollowUp!EndScan,
         FollowUp!ScanFails, FollowUp!Answer, FollowUp!SetFollowUp, FollowUp!CloseConversation,
         FollowUp!FinishTask, FollowUp!NextDay, FollowUp!vars
<1>2. closed' = closed \/ \E c \in Conversations : closed' = closed \cup {c}
  BY DEF FollowUp!Next, FollowUp!Scanning, FollowUp!CheckQuestion, FollowUp!CreateFollowUp, FollowUp!CreateFails,
         FollowUp!StartScan, FollowUp!CheckConversation, FollowUp!CreateReminder, FollowUp!EndScan,
         FollowUp!ScanFails, FollowUp!Answer, FollowUp!SetFollowUp, FollowUp!CloseConversation,
         FollowUp!FinishTask, FollowUp!NextDay, FollowUp!vars
<1>3. followUpFaults' = followUpFaults \/ (followUpFaults < MaxFailures /\ followUpFaults' = followUpFaults + 1)
  BY DEF FollowUp!Next, FollowUp!Scanning, FollowUp!CheckQuestion, FollowUp!CreateFollowUp, FollowUp!CreateFails,
         FollowUp!StartScan, FollowUp!CheckConversation, FollowUp!CreateReminder, FollowUp!EndScan,
         FollowUp!ScanFails, FollowUp!Answer, FollowUp!SetFollowUp, FollowUp!CloseConversation,
         FollowUp!FinishTask, FollowUp!NextDay, FollowUp!vars, FollowUp!Fault
<1>4. asked' \in [Conversations -> [Questions -> Days \cup {Null}]]
  BY <1>1 DEF FollowRows
<1>5. followUpFaults' \in 0..MaxFailures
  BY <1>3 DEF FollowRows
<1> QED
  BY <1>2, <1>4, <1>5 DEF FollowRows

\* What is asked, due and open, and what jobs and scans carry, has its type.
THEOREM FollowUpsTyped ==
    ASSUME FollowUpAssumption, MaxFailures \in Nat PROVE FollowUp!Spec => []FollowUp!TypeOK
<1>1. FollowUp!Init => FollowRows
  BY DEF FollowUp!Init, FollowRows, FollowUpAssumption, Days, FollowUp!Days
<1>2. FollowInv /\ FollowRows => FollowUp!TypeOK
  BY DEF FollowInv, FollowTypes, FollowRows, FollowUp!TypeOK, Days
<1> QED
  BY <1>1, <1>2, FollowInit, FollowNext, FollowRowsNext, PTL DEF FollowUp!Spec

-----------------------------------------------------------------------------
(* The monitor of stuck tasks.                                             *)

StuckAssumption == Stuck!StuckAssumption /\ MaxFailures \in Nat

LEMMA StuckScanTypes ==
    ASSUME Stuck!TypeOK, NEW s \in Sweeps,
           NEW q \in [pc : {"idle", "agency", "task"}, agencies : SUBSET Stuck!Agencies,
                      tasks : SUBSET [id : Watched, pending : BOOLEAN]],
           sweep' = [sweep EXCEPT ![s] = q]
    PROVE  sweep' \in [Sweeps -> [pc : {"idle", "agency", "task"}, agencies : SUBSET Stuck!Agencies,
                                  tasks : SUBSET [id : Watched, pending : BOOLEAN]]]
  BY DEF Stuck!TypeOK

LEMMA StuckTypes ==
    ASSUME StuckAssumption, Stuck!TypeOK, [Stuck!Next]_(Stuck!vars) PROVE Stuck!TypeOK'
<1> DEFINE Found == [id : Watched, pending : BOOLEAN]
           Sweep == [pc : {"idle", "agency", "task"}, agencies : SUBSET Stuck!Agencies, tasks : SUBSET Found]
<1>1. ASSUME NEW s \in Sweeps PROVE sweep[s] \in Sweep
  BY DEF Stuck!TypeOK
<1>2. ASSUME NEW s \in Sweeps, NEW p \in Sweep, NEW pc \in {"idle", "agency", "task"}, NEW T \in SUBSET Found
      PROVE  /\ [p EXCEPT !.pc = pc] \in Sweep
             /\ [p EXCEPT !.tasks = T] \in Sweep
  OBVIOUS
<1>3. ASSUME NEW s \in Sweeps, NEW q \in Sweep, sweep' = [sweep EXCEPT ![s] = q],
             waiting' = waiting, paused' = paused, stuckTime' = stuckTime,
             marked' \in [Watched -> 0..1], stuckFaults' \in 0..MaxFailures
      PROVE  Stuck!TypeOK'
  BY <1>3, StuckScanTypes DEF Stuck!TypeOK, Stuck!Agencies
<1>4. /\ marked \in [Watched -> 0..1] /\ stuckFaults \in 0..MaxFailures
      /\ waiting \in [Watched -> [state : Stuck!States, created : 0..MaxStuckTime]]
      /\ stuckTime \in 0..MaxStuckTime /\ paused \subseteq Watched
  BY DEF Stuck!TypeOK
<1>0. MaxFailures \in Nat /\ MaxStuckTime \in Nat
  BY DEF StuckAssumption, Stuck!StuckAssumption
<1> HIDE DEF Sweep
<1>5. ASSUME NEW s \in Sweeps, Stuck!StartScan(s) PROVE Stuck!TypeOK'
  <2>1. PICK q : q = [pc |-> "agency", agencies |-> Stuck!Agencies, tasks |-> {}]
    OBVIOUS
  <2>2. q \in Sweep
    BY <2>1 DEF Sweep
  <2> QED
    BY <1>3, <1>4, <1>5, <2>1, <2>2 DEF Stuck!StartScan
<1>6. ASSUME NEW s \in Sweeps, Stuck!ReadAgency(s) PROVE Stuck!TypeOK'
  <2>1. PICK a \in sweep[s].agencies :
          sweep' = [sweep EXCEPT ![s] = [pc |-> "task", agencies |-> @.agencies \ {a},
                      tasks |-> {Stuck!Row(t) : t \in {u \in Watched : AgencyOf[u] = a /\ Stuck!Waiting(u)}}]]
    BY <1>6 DEF Stuck!ReadAgency
  <2>2. PICK T : T = {Stuck!Row(t) : t \in {u \in Watched : AgencyOf[u] = a /\ Stuck!Waiting(u)}}
    OBVIOUS
  <2>3. T \subseteq Found
    <3>1. ASSUME NEW t \in Watched PROVE Stuck!Row(t) \in Found
      <4>1. PICK b \in BOOLEAN : b = (waiting[t].state = "pending")
        OBVIOUS
      <4>2. Stuck!Row(t) = [id |-> t, pending |-> b]
        BY <4>1, Zenon DEF Stuck!Row
      <4> QED
        BY <4>2
    <3> HIDE DEF Found
    <3> QED
      BY <2>2, <3>1
  <2>4. PICK q : q = [pc |-> "task", agencies |-> sweep[s].agencies \ {a}, tasks |-> T]
    OBVIOUS
  <2>5. q \in Sweep
    BY <1>1, <2>3, <2>4 DEF Sweep
  <2>6. sweep' = [sweep EXCEPT ![s] = q]
    BY <2>1, <2>2, <2>4
  <2> QED
    BY <1>3, <1>4, <1>6, <2>5, <2>6 DEF Stuck!ReadAgency
<1>7. ASSUME NEW s \in Sweeps, Stuck!MarkTask(s) PROVE Stuck!TypeOK'
  <2>1. PICK r \in sweep[s].tasks :
          /\ sweep' = [sweep EXCEPT ![s].tasks = @ \ {r}]
          /\ \/ /\ marked' = [marked EXCEPT ![r.id] = IF Stuck!IsStuck(r) /\ @ = 0 THEN 1 ELSE @]
                /\ UNCHANGED stuckFaults
             \/ Stuck!Fault /\ UNCHANGED marked
    BY <1>7 DEF Stuck!MarkTask
  <2>2. PICK p : p = sweep[s]
    OBVIOUS
  <2>3. PICK q : q = [p EXCEPT !.tasks = @ \ {r}]
    OBVIOUS
  <2>4. q \in Sweep
    BY <1>1, <2>2, <2>3 DEF Sweep
  <2>5. sweep' = [sweep EXCEPT ![s] = q]
    BY <2>1, <2>2, <2>3
  <2>6. marked' \in [Watched -> 0..1]
    BY <1>4, <2>1
  <2>7. stuckFaults' \in 0..MaxFailures
    BY <1>0, <1>4, <2>1 DEF Stuck!Fault
  <2> QED
    BY <1>3, <1>7, <2>4, <2>5, <2>6, <2>7 DEF Stuck!MarkTask
<1>8. ASSUME NEW s \in Sweeps, Stuck!AgencyFails(s) PROVE Stuck!TypeOK'
  <2>1. PICK p : p = sweep[s]
    OBVIOUS
  <2>2. PICK q : q = [p EXCEPT !.tasks = {}]
    OBVIOUS
  <2>3. q \in Sweep
    BY <1>1, <2>1, <2>2 DEF Sweep
  <2>4. sweep' = [sweep EXCEPT ![s] = q]
    BY <1>8, <2>1, <2>2 DEF Stuck!AgencyFails
  <2>5. stuckFaults' \in 0..MaxFailures
    BY <1>0, <1>4, <1>8 DEF Stuck!AgencyFails, Stuck!Fault
  <2> QED
    BY <1>3, <1>4, <1>8, <2>3, <2>4, <2>5 DEF Stuck!AgencyFails
<1>9. ASSUME NEW s \in Sweeps, Stuck!EndAgency(s) PROVE Stuck!TypeOK'
  <2>1. PICK p, pc : p = sweep[s] /\ pc = IF sweep[s].agencies = {} THEN "idle" ELSE "agency"
    OBVIOUS
  <2>2. PICK q : q = [p EXCEPT !.pc = pc]
    OBVIOUS
  <2>3. q \in Sweep
    BY <1>1, <2>1, <2>2 DEF Sweep
  <2>4. sweep' = [sweep EXCEPT ![s] = q]
    BY <1>9, <2>1, <2>2 DEF Stuck!EndAgency
  <2> QED
    BY <1>3, <1>4, <1>9, <2>3, <2>4 DEF Stuck!EndAgency
<1>10. ASSUME NEW t \in Watched, Stuck!CreateTask(t) PROVE Stuck!TypeOK'
  <2>1. PICK row : row = [state |-> "pending", created |-> stuckTime]
    OBVIOUS
  <2>2. row \in [state : Stuck!States, created : 0..MaxStuckTime] /\ waiting' = [waiting EXCEPT ![t] = row]
    BY <1>4, <1>10, <2>1 DEF Stuck!CreateTask, Stuck!States
  <2>3. waiting' \in [Watched -> [state : Stuck!States, created : 0..MaxStuckTime]]
    BY <1>4, <2>2
  <2> QED
    BY <1>10, <2>3 DEF Stuck!CreateTask, Stuck!TypeOK, Stuck!Agencies
<1>11. ASSUME NEW t \in Watched, Stuck!Decide(t) PROVE Stuck!TypeOK'
  <2>1. PICK state \in Stuck!States : waiting' = [waiting EXCEPT ![t].state = state]
    BY <1>11 DEF Stuck!Decide, Stuck!States
  <2>2. waiting' \in [Watched -> [state : Stuck!States, created : 0..MaxStuckTime]]
    BY <1>4, <2>1
  <2> QED
    BY <1>11, <2>2 DEF Stuck!Decide, Stuck!TypeOK, Stuck!Agencies
<1>12. ASSUME NEW t \in Watched, Stuck!Resume(t) PROVE Stuck!TypeOK'
  BY <1>12 DEF Stuck!Resume, Stuck!TypeOK, Stuck!Agencies
<1>13. ASSUME Stuck!Tick PROVE Stuck!TypeOK'
  <2>1. stuckTime' \in 0..MaxStuckTime
    BY <1>0, <1>4, <1>13 DEF Stuck!Tick
  <2> QED
    BY <1>13, <2>1 DEF Stuck!Tick, Stuck!TypeOK, Stuck!Agencies
<1>14. CASE UNCHANGED Stuck!vars
  BY <1>14 DEF Stuck!vars, Stuck!TypeOK, Stuck!Agencies
<1> QED
  BY <1>5, <1>6, <1>7, <1>8, <1>9, <1>10, <1>11, <1>12, <1>13, <1>14 DEF Stuck!Next, Stuck!Scanning

\* A task is marked at most once, however many scans run at the same time and whichever of
\* their calls fail; and what a scan carries are tasks as they were.
THEOREM StuckTasksTyped == ASSUME StuckAssumption PROVE Stuck!Spec => []Stuck!TypeOK
<1>1. ASSUME Stuck!Init PROVE Stuck!TypeOK
  <2>1. PICK row, none : row = [state |-> "none", created |-> 0] /\ none = Stuck!NoScan
    OBVIOUS
  <2>2. /\ row \in [state : Stuck!States, created : 0..MaxStuckTime]
        /\ none \in [pc : {"idle", "agency", "task"}, agencies : SUBSET Stuck!Agencies,
                     tasks : SUBSET [id : Watched, pending : BOOLEAN]]
    BY <2>1 DEF Stuck!States, Stuck!NoScan, StuckAssumption, Stuck!StuckAssumption
  <2>3. /\ waiting = [t \in Watched |-> row] /\ sweep = [s \in Sweeps |-> none]
        /\ paused = {} /\ marked = [t \in Watched |-> 0] /\ stuckTime = 0 /\ stuckFaults = 0
    BY <1>1, <2>1 DEF Stuck!Init
  <2> QED
    BY <2>2, <2>3 DEF Stuck!TypeOK, StuckAssumption, Stuck!StuckAssumption
<1> QED
  BY <1>1, StuckTypes, PTL DEF Stuck!Spec

-----------------------------------------------------------------------------
(* Opportunities.                                                          *)

\* As Opportunities assumes it, with as many requests at a time as there may be.
OpportunityAssumption == Opportunity!OpportunityAssumption /\ IsFiniteSet(Askers)

Copies(k, c) == IF Opportunity!Entry(k, c) \in DOMAIN tasks THEN tasks[Opportunity!Entry(k, c)] ELSE 0

\* Requests that have created the task, and have not yet logged it.
Logging(k, c) == {r \in Askers : /\ request[r].pc = "log"
                                 /\ request[r].key = k /\ request[r].current = c}

\* Requests that are still to create the task, whatever has been logged since they looked.
Coming(k, c) == {r \in Askers : /\ request[r].pc # "idle" /\ request[r].key = k
                                /\ c \in request[r].todo \ request[r].skip}

RequestType == [pc : {"idle", "next", "log", "failed"}, key : Opportunity!Keys \cup {Null},
                todo : SUBSET Candidates, skip : SUBSET Candidates,
                current : Candidates \cup {Null}]

OpportunityTypes ==
    /\ request \in [Askers -> RequestType]
    /\ \A r \in Askers : request[r].pc # "idle" => request[r].key \in Opportunity!Keys
    /\ \A r \in Askers : request[r].pc = "log" => request[r].current \in Candidates \ request[r].todo
    /\ DOMAIN tasks \subseteq [key : Opportunity!Keys, candidate : Candidates]
    /\ \A e \in DOMAIN tasks : tasks[e] \in Nat
    /\ opportunityDay \in 0..MaxOpportunityDays /\ opportunityFaults \in Nat

\* Before the first row every copy is about to be logged, or its request has failed; with a
\* row that tells of the task, only those who did not see it are still to make theirs.
CopiesFit(k, c) ==
    \/ Opportunity!Logged(k, c, "FAILED") \in log
    \/ /\ Opportunity!Logged(k, c, "CREATED") \notin log
       /\ Copies(k, c) <= Cardinality(Logging(k, c)) + opportunityFaults
    \/ /\ Opportunity!Logged(k, c, "CREATED") \in log
       /\ Copies(k, c) + Cardinality(Coming(k, c)) <= Cardinality(Askers) + opportunityFaults

OpportunityInv ==
    OpportunityTypes /\ \A k \in Opportunity!Keys, c \in Candidates : CopiesFit(k, c)

LEMMA Counting ==
    ASSUME IsFiniteSet(Askers), NEW S \in SUBSET Askers, NEW T \in SUBSET Askers
    PROVE  /\ Cardinality(S) \in Nat /\ Cardinality(Askers) \in Nat
           /\ S \subseteq T => Cardinality(S) <= Cardinality(T)
           /\ \A r \in S : Cardinality(S \ {r}) = Cardinality(S) - 1
           /\ \A r \in Askers \ S : Cardinality(S \cup {r}) = Cardinality(S) + 1
           /\ S \cap T = {} => Cardinality(S) + Cardinality(T) <= Cardinality(Askers)
<1>1. IsFiniteSet(S) /\ IsFiniteSet(T)
  BY FS_Subset
<1>2. Cardinality(S) \in Nat /\ Cardinality(T) \in Nat /\ Cardinality(Askers) \in Nat
  BY <1>1, FS_CardinalityType
<1>3. S \subseteq T => Cardinality(S) <= Cardinality(T)
  BY <1>1, FS_Subset
<1>4. \A r \in S : Cardinality(S \ {r}) = Cardinality(S) - 1
  BY <1>1, FS_RemoveElement
<1>5. \A r \in Askers \ S : Cardinality(S \cup {r}) = Cardinality(S) + 1
  BY <1>1, FS_AddElement
<1>6. ASSUME S \cap T = {} PROVE Cardinality(S) + Cardinality(T) <= Cardinality(Askers)
  <2>1. PICK U : U = S \cup T
    OBVIOUS
  <2>2. U \subseteq Askers
    BY <2>1
  <2>3. Cardinality(U) <= Cardinality(Askers)
    BY <2>2, FS_Subset
  <2>4. Cardinality(S \cup T) = Cardinality(S) + Cardinality(T) - Cardinality(S \cap T)
    BY <1>1, FS_Union
  <2>5. Cardinality(S \cap T) = 0
    BY <1>6, FS_EmptySet
  <2> QED
    BY <1>2, <2>1, <2>3, <2>4, <2>5
<1> QED
  BY <1>2, <1>3, <1>4, <1>5, <1>6

\* The opportunities there are have the candidates of the agency.
LEMMA OpportunityKeys ==
    ASSUME OpportunityAssumption, opportunityDay \in 0..MaxOpportunityDays
    PROVE  Opportunity!getOpportunities \subseteq Opportunity!Keys
<1>1. \A j \in Jobs : \A i \in DOMAIN Matches[j] : Matches[j][i] \in Candidates
  <2>1. \A j \in Jobs : Matches[j] \in Seq(Candidates)
    BY DEF OpportunityAssumption, Opportunity!OpportunityAssumption
  <2> QED
    BY <2>1
<1>2. Opportunity!Underfilled \subseteq Opportunity!Keys
  BY <1>1 DEF Opportunity!Underfilled, Opportunity!Keys, Opportunity!generateOpportunityKey
<1>3. Opportunity!Dormant \subseteq Opportunity!Keys
  BY DEF Opportunity!Dormant, Opportunity!Keys, Opportunity!generateOpportunityKey
<1>4. Opportunity!PendingOffers \subseteq Opportunity!Keys
  BY DEF Opportunity!PendingOffers, Opportunity!Keys, Opportunity!generateOpportunityKey
<1>5. Opportunity!RecentStarts \subseteq Opportunity!Keys
  BY DEF Opportunity!RecentStarts, Opportunity!Keys, Opportunity!generateOpportunityKey
<1> QED
  BY <1>2, <1>3, <1>4, <1>5 DEF Opportunity!getOpportunities

LEMMA OpportunityInit == ASSUME OpportunityAssumption, Opportunity!Init PROVE OpportunityInv
<1>1. OpportunityTypes
  BY DEF Opportunity!Init, OpportunityTypes, OpportunityAssumption, RequestType, Opportunity!NoRequest,
         Opportunity!OpportunityAssumption, Opportunity!EmptyBag, Opportunity!SetToBag
<1>2. ASSUME NEW k \in Opportunity!Keys, NEW c \in Candidates PROVE CopiesFit(k, c)
  <2>1. Copies(k, c) = 0 /\ Opportunity!Logged(k, c, "CREATED") \notin log /\ opportunityFaults = 0
    BY DEF Opportunity!Init, Copies, Opportunity!EmptyBag, Opportunity!SetToBag
  <2>2. PICK S \in SUBSET Askers : S = Logging(k, c)
    BY DEF Logging
  <2>3. Cardinality(S) \in Nat
    BY <2>2, Counting DEF OpportunityAssumption
  <2> QED
    BY <2>1, <2>2, <2>3 DEF CopiesFit
<1> QED
  BY <1>1, <1>2 DEF OpportunityInv

\* What a step of one request does to the others: nothing.
OthersStay(r) == \A s \in Askers \ {r} : request'[s] = request[s]

LEMMA LoggingTypes ==
    ASSUME OpportunityAssumption, NEW k, NEW c
    PROVE  Logging(k, c) \in SUBSET Askers /\ Coming(k, c) \in SUBSET Askers
  BY DEF Logging, Coming

\* Rows, tasks and requests stay as they are, or fewer are to come and more are to log.
LEMMA FitStays ==
    ASSUME OpportunityAssumption, OpportunityTypes, OpportunityTypes', NEW k, NEW c, CopiesFit(k, c),
           UNCHANGED <<tasks, log>>, opportunityFaults <= opportunityFaults',
           Logging(k, c) \subseteq Logging(k, c)', Coming(k, c)' \subseteq Coming(k, c)
    PROVE  CopiesFit(k, c)'
<1>1. PICK L \in SUBSET Askers, M \in SUBSET Askers :
         L = Logging(k, c) /\ M = Logging(k, c)'
  BY DEF Logging
<1>2. PICK C \in SUBSET Askers, D \in SUBSET Askers :
         C = Coming(k, c) /\ D = Coming(k, c)'
  BY DEF Coming
<1>3. Cardinality(L) <= Cardinality(M) /\ Cardinality(L) \in Nat /\ Cardinality(M) \in Nat
  BY <1>1, Counting DEF OpportunityAssumption
<1>4. Cardinality(D) <= Cardinality(C) /\ Cardinality(C) \in Nat /\ Cardinality(D) \in Nat
      /\ Cardinality(Askers) \in Nat
  BY <1>2, Counting DEF OpportunityAssumption
<1>5. PICK n : n = Copies(k, c) /\ n = Copies(k, c)' /\ n \in Nat
  BY DEF Copies, OpportunityTypes
<1>6. opportunityFaults \in Nat /\ opportunityFaults' \in Nat
  BY DEF OpportunityTypes
<1> QED
  BY <1>1, <1>2, <1>3, <1>4, <1>5, <1>6 DEF CopiesFit

LEMMA StartRequestKeeps ==
    ASSUME OpportunityAssumption, OpportunityInv, NEW r \in Askers, Opportunity!StartRequest(r)
    PROVE  OpportunityInv'
<1>1. PICK key \in Opportunity!Keys :
         /\ request' = [request EXCEPT ![r] = [pc |-> "next", key |-> key, todo |-> key.candidates,
                                               skip |-> Opportunity!AlreadyCreated(key), current |-> Null]]
         /\ request[r].pc = "idle" /\ UNCHANGED <<candidates, tasks, log, opportunityDay, opportunityFaults>>
  BY OpportunityKeys DEF Opportunity!StartRequest, OpportunityInv, OpportunityTypes
<1>2. PICK skip \in SUBSET Candidates : skip = Opportunity!AlreadyCreated(key)
  BY DEF Opportunity!AlreadyCreated
<1>3. key.candidates \in SUBSET Candidates
  BY DEF Opportunity!Keys
<1>4. /\ request'[r].pc = "next" /\ request'[r].key = key /\ request'[r].todo = key.candidates
      /\ request'[r].skip = skip /\ OthersStay(r)
      /\ request' \in [Askers -> RequestType]
  BY <1>1, <1>2, <1>3 DEF OpportunityInv, OpportunityTypes, OthersStay, RequestType
<1>5. OpportunityTypes'
  BY <1>1, <1>4 DEF OpportunityInv, OpportunityTypes, OthersStay
<1>6. ASSUME NEW k \in Opportunity!Keys, NEW c \in Candidates PROVE CopiesFit(k, c)'
  <2>1. Logging(k, c) = Logging(k, c)'
    BY <1>1, <1>4 DEF Logging, OthersStay
  <2>2. CASE Opportunity!Logged(k, c, "CREATED") \in log
    <3>1. Coming(k, c)' \subseteq Coming(k, c)
      BY <2>2, <1>1, <1>2, <1>4 DEF Coming, OthersStay, Opportunity!AlreadyCreated
    <3> QED
      BY <2>1, <3>1, <1>1, <1>5, FitStays DEF OpportunityInv, OpportunityTypes
  <2>3. CASE Opportunity!Logged(k, c, "CREATED") \notin log
    <3>1. PICK L \in SUBSET Askers : L = Logging(k, c) /\ L = Logging(k, c)'
      BY <2>1 DEF Logging
    <3> QED
      BY <2>3, <3>1, <1>1 DEF OpportunityInv, CopiesFit, Copies
  <2> QED
    BY <2>2, <2>3
<1> QED
  BY <1>5, <1>6 DEF OpportunityInv

LEMMA CreateTaskKeeps ==
    ASSUME OpportunityAssumption, OpportunityInv, NEW r \in Askers, Opportunity!CreateTask(r)
    PROVE  OpportunityInv'
<1>1. PICK p \in RequestType : p = request[r]
  BY DEF OpportunityInv, OpportunityTypes
<1>2. PICK d \in p.todo \ p.skip :
         /\ tasks' = Opportunity!(+)(tasks, Opportunity!SetToBag({Opportunity!Entry(p.key, d)}))
         /\ request' = [request EXCEPT ![r].pc = "log", ![r].todo = @ \ {d}, ![r].current = d]
         /\ p.pc = "next" /\ UNCHANGED <<candidates, log, made, opportunityDay, opportunityFaults>>
  BY <1>1 DEF Opportunity!CreateTask
<1>3. p.key \in Opportunity!Keys /\ d \in Candidates
  BY <1>1, <1>2 DEF OpportunityInv, OpportunityTypes, RequestType
<1>4. /\ request'[r].pc = "log" /\ request'[r].key = p.key /\ request'[r].todo = p.todo \ {d}
      /\ request'[r].skip = p.skip /\ request'[r].current = d /\ OthersStay(r)
      /\ request' \in [Askers -> RequestType]
  <2>1. request' = [request EXCEPT ![r] = [p EXCEPT !.pc = "log", !.todo = @ \ {d}, !.current = d]]
    BY <1>1, <1>2
  <2>2. PICK q : q = [p EXCEPT !.pc = "log", !.todo = @ \ {d}, !.current = d]
    OBVIOUS
  <2>3. /\ q \in RequestType /\ q.pc = "log" /\ q.key = p.key /\ q.todo = p.todo \ {d}
        /\ q.skip = p.skip /\ q.current = d
    BY <2>2, <1>1, <1>3 DEF RequestType
  <2>4. request' = [request EXCEPT ![r] = q]
    BY <2>1, <2>2
  <2>5. request \in [Askers -> RequestType]
    BY DEF OpportunityInv, OpportunityTypes
  <2> HIDE DEF RequestType
  <2> QED
    BY <2>3, <2>4, <2>5 DEF OthersStay
<1>5. PICK x : x = Opportunity!Entry(p.key, d)
  OBVIOUS
<1>6. tasks' = [e \in DOMAIN tasks \cup {x} |->
                   (IF e \in DOMAIN tasks THEN tasks[e] ELSE 0) + (IF e \in {x} THEN 1 ELSE 0)]
  BY <1>2, <1>5 DEF Opportunity!(+), Opportunity!SetToBag
<1>7. /\ DOMAIN tasks' = DOMAIN tasks \cup {x}
      /\ \A e \in DOMAIN tasks : e # x => tasks'[e] = tasks[e] + 0
      /\ tasks'[x] = (IF x \in DOMAIN tasks THEN tasks[x] ELSE 0) + 1
  BY <1>6
<1>8. \A e \in DOMAIN tasks' : tasks'[e] \in Nat
  BY <1>7 DEF OpportunityInv, OpportunityTypes
<1>9. DOMAIN tasks' \subseteq [key : Opportunity!Keys, candidate : Candidates]
  BY <1>3, <1>5, <1>7 DEF OpportunityInv, OpportunityTypes, Opportunity!Entry
<1>10. OpportunityTypes'
  BY <1>1, <1>2, <1>3, <1>4, <1>8, <1>9 DEF OpportunityInv, OpportunityTypes, OthersStay
<1>11. ASSUME NEW k \in Opportunity!Keys, NEW c \in Candidates PROVE CopiesFit(k, c)'
  <2>1. PICK n, m : n = Copies(k, c) /\ m = Copies(k, c)' /\ n \in Nat
    BY DEF Copies, OpportunityInv, OpportunityTypes
  <2>2. PICK L \in SUBSET Askers, M \in SUBSET Askers : L = Logging(k, c) /\ M = Logging(k, c)'
    BY DEF Logging
  <2>3. PICK C \in SUBSET Askers, D \in SUBSET Askers : C = Coming(k, c) /\ D = Coming(k, c)'
    BY DEF Coming
  <2>4. CASE k = p.key /\ c = d
    <3>1. m = n + 1
      BY <2>1, <2>4, <1>5, <1>7 DEF Copies, OpportunityInv, OpportunityTypes
    <3>2. r \notin L /\ M = L \cup {r}
      BY <2>2, <2>4, <1>1, <1>2, <1>4 DEF Logging, OthersStay
    <3>3. r \in C /\ D = C \ {r}
      BY <2>3, <2>4, <1>1, <1>2, <1>4 DEF Coming, OthersStay
    <3>4. Cardinality(M) = Cardinality(L) + 1 /\ Cardinality(L) \in Nat /\ Cardinality(Askers) \in Nat
      BY <3>2, Counting DEF OpportunityAssumption
    <3>5. Cardinality(D) = Cardinality(C) - 1 /\ Cardinality(C) \in Nat
      BY <3>3, Counting DEF OpportunityAssumption
    <3>6. opportunityFaults \in Nat /\ opportunityFaults' = opportunityFaults /\ log' = log
      BY <1>2 DEF OpportunityInv, OpportunityTypes
    <3> QED
      BY <2>1, <2>2, <2>3, <3>1, <3>4, <3>5, <3>6 DEF OpportunityInv, CopiesFit
  <2>5. CASE ~ (k = p.key /\ c = d)
    <3>1. Opportunity!Entry(k, c) # x
      BY <2>5, <1>5 DEF Opportunity!Entry
    <3>2. m = n
      BY <2>1, <3>1, <1>7 DEF Copies, OpportunityInv, OpportunityTypes
    <3>3. M = L
      BY <2>2, <2>5, <1>1, <1>2, <1>4 DEF Logging, OthersStay
    <3>4. D = C
      BY <2>3, <2>5, <1>1, <1>2, <1>4 DEF Coming, OthersStay
    <3> QED
      BY <2>1, <2>2, <2>3, <3>2, <3>3, <3>4, <1>2 DEF OpportunityInv, CopiesFit
  <2> QED
    BY <2>4, <2>5
<1> QED
  BY <1>10, <1>11 DEF OpportunityInv

\* The records of a request that goes on, and of one that failed.
LEMMA NextRecord ==
    ASSUME NEW r \in Askers, NEW p \in RequestType, p = request[r], request \in [Askers -> RequestType],
           request' = [request EXCEPT ![r].pc = "next", ![r].current = Null]
    PROVE  /\ request'[r].pc = "next" /\ request'[r].key = p.key /\ request'[r].todo = p.todo
           /\ request'[r].skip = p.skip /\ OthersStay(r) /\ request' \in [Askers -> RequestType]
<1>1. PICK q : q = [p EXCEPT !.pc = "next", !.current = Null]
  OBVIOUS
<1>2. /\ q \in RequestType /\ q.pc = "next" /\ q.key = p.key /\ q.todo = p.todo /\ q.skip = p.skip
  BY <1>1 DEF RequestType
<1>3. request' = [request EXCEPT ![r] = q]
  BY <1>1
<1> HIDE DEF RequestType
<1> QED
  BY <1>2, <1>3 DEF OthersStay

LEMMA FailedRecord ==
    ASSUME NEW r \in Askers, NEW p \in RequestType, p = request[r], request \in [Askers -> RequestType],
           \/ request' = [request EXCEPT ![r].pc = "failed"]
           \/ \E d \in p.todo \ p.skip :
                 request' = [request EXCEPT ![r].pc = "failed", ![r].todo = @ \ {d}, ![r].current = d]
    PROVE  /\ request'[r].pc = "failed" /\ request'[r].key = p.key /\ request'[r].todo \subseteq p.todo
           /\ request'[r].skip = p.skip /\ OthersStay(r) /\ request' \in [Askers -> RequestType]
<1>1. CASE request' = [request EXCEPT ![r].pc = "failed"]
  <2>1. PICK q : q = [p EXCEPT !.pc = "failed"]
    OBVIOUS
  <2>2. /\ q \in RequestType /\ q.pc = "failed" /\ q.key = p.key /\ q.todo \subseteq p.todo
        /\ q.skip = p.skip
    BY <2>1 DEF RequestType
  <2>3. request' = [request EXCEPT ![r] = q]
    BY <1>1, <2>1
  <2> HIDE DEF RequestType
  <2> QED
    BY <2>2, <2>3 DEF OthersStay
<1>2. ASSUME NEW d \in p.todo \ p.skip,
             request' = [request EXCEPT ![r].pc = "failed", ![r].todo = @ \ {d}, ![r].current = d]
      PROVE  /\ request'[r].pc = "failed" /\ request'[r].key = p.key /\ request'[r].todo \subseteq p.todo
             /\ request'[r].skip = p.skip /\ OthersStay(r) /\ request' \in [Askers -> RequestType]
  <2>1. PICK q : q = [p EXCEPT !.pc = "failed", !.todo = @ \ {d}, !.current = d]
    OBVIOUS
  <2>2. /\ q \in RequestType /\ q.pc = "failed" /\ q.key = p.key /\ q.todo \subseteq p.todo
        /\ q.skip = p.skip
    BY <2>1 DEF RequestType
  <2>3. request' = [request EXCEPT ![r] = q]
    BY <1>2, <2>1
  <2> HIDE DEF RequestType
  <2> QED
    BY <2>2, <2>3 DEF OthersStay
<1> QED
  BY <1>1, <1>2

\* The row of an entry tells of its task; the request has nothing more to do for it.
LEMMA LogCreatedKeeps ==
    ASSUME OpportunityAssumption, OpportunityInv, NEW r \in Askers, Opportunity!LogCreated(r)
    PROVE  OpportunityInv'
<1>1. PICK p \in RequestType : p = request[r]
  BY DEF OpportunityInv, OpportunityTypes
<1>2. /\ log' = log \cup {Opportunity!Logged(p.key, p.current, "CREATED")}
      /\ Opportunity!NoRow(p.key, p.current)
      /\ request' = [request EXCEPT ![r].pc = "next", ![r].current = Null]
      /\ p.pc = "log" /\ UNCHANGED <<candidates, tasks, made, opportunityDay, opportunityFaults>>
  BY <1>1 DEF Opportunity!LogCreated
<1>3. p.key \in Opportunity!Keys /\ p.current \in Candidates /\ p.current \notin p.todo
  BY <1>1, <1>2 DEF OpportunityInv, OpportunityTypes
<1>4. /\ request'[r].pc = "next" /\ request'[r].key = p.key /\ request'[r].todo = p.todo
      /\ request'[r].skip = p.skip /\ OthersStay(r) /\ request' \in [Askers -> RequestType]
  <2>1. request \in [Askers -> RequestType]
    BY DEF OpportunityInv, OpportunityTypes
  <2> QED
    BY <2>1, <1>1, <1>2, NextRecord
<1>5. OpportunityTypes'
  BY <1>1, <1>2, <1>3, <1>4 DEF OpportunityInv, OpportunityTypes, OthersStay
<1>6. ASSUME NEW k \in Opportunity!Keys, NEW c \in Candidates PROVE CopiesFit(k, c)'
  <2>1. PICK n : n = Copies(k, c) /\ n = Copies(k, c)' /\ n \in Nat
    BY <1>2 DEF Copies, OpportunityInv, OpportunityTypes
  <2>2. PICK L \in SUBSET Askers, M \in SUBSET Askers : L = Logging(k, c) /\ M = Logging(k, c)'
    BY DEF Logging
  <2>3. PICK C \in SUBSET Askers : C = Coming(k, c) /\ C = Coming(k, c)'
    <3>1. Coming(k, c)' = Coming(k, c)
      BY <1>1, <1>2, <1>4 DEF Coming, OthersStay
    <3> QED
      BY <3>1 DEF Coming
  <2>4. opportunityFaults' = opportunityFaults /\ opportunityFaults \in Nat
    BY <1>2 DEF OpportunityInv, OpportunityTypes
  <2>5. CASE k = p.key /\ c = p.current
    <3>1. /\ Opportunity!Logged(k, c, "CREATED") \notin log /\ Opportunity!Logged(k, c, "FAILED") \notin log
          /\ Opportunity!Logged(k, c, "CREATED") \in log'
      BY <2>5, <1>2 DEF Opportunity!NoRow
    <3>2. n <= Cardinality(L) + opportunityFaults
      BY <3>1, <2>1, <2>2 DEF OpportunityInv, CopiesFit
    <3>3. L \cap C = {}
      BY <2>2, <2>3 DEF Logging, Coming, OpportunityInv, OpportunityTypes
    <3>4. /\ Cardinality(L) + Cardinality(C) <= Cardinality(Askers)
          /\ Cardinality(L) \in Nat /\ Cardinality(Askers) \in Nat
      BY <3>3, Counting DEF OpportunityAssumption
    <3>5. Cardinality(C) \in Nat
      BY Counting DEF OpportunityAssumption
    <3>6. n + Cardinality(C) <= Cardinality(Askers) + opportunityFaults
      BY <2>1, <2>4, <3>2, <3>4, <3>5
    <3> QED
      BY <3>1, <3>6, <2>1, <2>3, <2>4 DEF CopiesFit
  <2>6. CASE ~ (k = p.key /\ c = p.current)
    <3>1. \A s \in {"CREATED", "FAILED"} :
             Opportunity!Logged(k, c, s) \in log' <=> Opportunity!Logged(k, c, s) \in log
      BY <2>6, <1>2 DEF Opportunity!Logged
    <3>2. M = L
      BY <2>2, <2>6, <1>1, <1>2, <1>4 DEF Logging, OthersStay
    <3> QED
      BY <2>1, <2>2, <2>3, <2>4, <3>1, <3>2 DEF OpportunityInv, CopiesFit
  <2> QED
    BY <2>5, <2>6
<1> QED
  BY <1>5, <1>6 DEF OpportunityInv

\* A refused row is there already, and one that is not written for a failing call is paid for
\* by the call; a request whose creation failed has given its task up.
LEMMA CandidateFailedKeeps ==
    ASSUME OpportunityAssumption, OpportunityInv, NEW r \in Askers,
           Opportunity!LogRefused(r) \/ Opportunity!CandidateFails(r)
    PROVE  OpportunityInv'
<1>1. PICK p \in RequestType : p = request[r]
  BY DEF OpportunityInv, OpportunityTypes
<1>2. /\ UNCHANGED <<candidates, tasks, log, made, opportunityDay>>
      /\ opportunityFaults' \in Nat /\ opportunityFaults \in Nat /\ opportunityFaults <= opportunityFaults'
      /\ \/ /\ p.pc = "log" /\ (opportunityFaults' = opportunityFaults + 1 \/ ~ Opportunity!NoRow(p.key, p.current))
            /\ request' = [request EXCEPT ![r].pc = "failed"]
         \/ /\ p.pc = "next"
            /\ \E d \in p.todo \ p.skip :
                  request' = [request EXCEPT ![r].pc = "failed", ![r].todo = @ \ {d}, ![r].current = d]
  <2>1. opportunityFaults \in Nat
    BY DEF OpportunityInv, OpportunityTypes
  <2>2. CASE Opportunity!LogRefused(r)
    <3>1. p.pc = "log" /\ ~ Opportunity!NoRow(p.key, p.current)
      BY <2>2, <1>1 DEF Opportunity!LogRefused
    <3>2. /\ request' = [request EXCEPT ![r].pc = "failed"]
          /\ UNCHANGED <<candidates, tasks, log, made, opportunityDay, opportunityFaults>>
      BY <2>2 DEF Opportunity!LogRefused
    <3> QED
      BY <2>1, <3>1, <3>2
  <2>3. CASE Opportunity!CandidateFails(r)
    <3>1. opportunityFaults' = opportunityFaults + 1 /\ UNCHANGED <<candidates, tasks, log, made, opportunityDay>>
      BY <2>3 DEF Opportunity!CandidateFails, Opportunity!Fault
    <3>2. \/ p.pc = "log" /\ request' = [request EXCEPT ![r].pc = "failed"]
          \/ /\ p.pc = "next"
             /\ \E d \in p.todo \ p.skip :
                   request' = [request EXCEPT ![r].pc = "failed", ![r].todo = @ \ {d}, ![r].current = d]
      BY <2>3, <1>1 DEF Opportunity!CandidateFails
    <3>3. opportunityFaults' \in Nat /\ opportunityFaults <= opportunityFaults'
      BY <2>1, <3>1
    <3> QED
      BY <2>1, <3>1, <3>2, <3>3, Zenon
  <2> QED
    BY <2>2, <2>3
<1>3. /\ request'[r].pc = "failed" /\ request'[r].key = p.key /\ request'[r].todo \subseteq p.todo
      /\ request'[r].skip = p.skip /\ OthersStay(r) /\ request' \in [Askers -> RequestType]
  <2>1. request \in [Askers -> RequestType]
    BY DEF OpportunityInv, OpportunityTypes
  <2> QED
    BY <2>1, <1>1, <1>2, FailedRecord
<1>4. OpportunityTypes'
  BY <1>1, <1>2, <1>3 DEF OpportunityInv, OpportunityTypes, OthersStay
<1>5. ASSUME NEW k \in Opportunity!Keys, NEW c \in Candidates PROVE CopiesFit(k, c)'
  <2>1. Coming(k, c)' \subseteq Coming(k, c)
    BY <1>1, <1>2, <1>3 DEF Coming, OthersStay
  <2>2. CASE r \notin Logging(k, c)
    <3>1. Logging(k, c) \subseteq Logging(k, c)'
      BY <2>2, <1>3 DEF Logging, OthersStay
    <3> QED
      BY <2>1, <3>1, <1>2, <1>4, FitStays DEF OpportunityInv
  <2>3. CASE r \in Logging(k, c)
    <3>1. PICK L \in SUBSET Askers, M \in SUBSET Askers : L = Logging(k, c) /\ M = Logging(k, c)'
      BY DEF Logging
    <3>2. PICK C \in SUBSET Askers, D \in SUBSET Askers : C = Coming(k, c) /\ D = Coming(k, c)'
      BY DEF Coming
    <3>3. PICK n : n = Copies(k, c) /\ n = Copies(k, c)' /\ n \in Nat
      BY <1>2 DEF Copies, OpportunityInv, OpportunityTypes
    <3>4. M = L \ {r} /\ r \in L /\ D \subseteq C
      BY <3>1, <3>2, <2>1, <2>3, <1>3 DEF Logging, OthersStay
    <3>5. Cardinality(M) = Cardinality(L) - 1 /\ Cardinality(L) \in Nat /\ Cardinality(Askers) \in Nat
      BY <3>4, Counting DEF OpportunityAssumption
    <3>6. Cardinality(D) <= Cardinality(C) /\ Cardinality(D) \in Nat
      BY <3>4, Counting DEF OpportunityAssumption
    <3>7. Cardinality(C) \in Nat
      BY Counting DEF OpportunityAssumption
    <3>8. p.pc = "log" /\ p.key = k /\ p.current = c
      BY <2>3, <1>1 DEF Logging
    <3>9. CopiesFit(k, c) /\ opportunityFaults \in Nat /\ opportunityFaults' \in Nat /\ opportunityFaults <= opportunityFaults'
      BY <1>2 DEF OpportunityInv
    <3>10. CASE opportunityFaults' = opportunityFaults + 1
      <4>1. \/ Opportunity!Logged(k, c, "FAILED") \in log
            \/ Opportunity!Logged(k, c, "CREATED") \notin log /\ n <= Cardinality(L) + opportunityFaults
            \/ /\ Opportunity!Logged(k, c, "CREATED") \in log
               /\ n + Cardinality(C) <= Cardinality(Askers) + opportunityFaults
        BY <3>1, <3>2, <3>3, <3>9 DEF CopiesFit
      <4>2. \/ Opportunity!Logged(k, c, "FAILED") \in log
            \/ Opportunity!Logged(k, c, "CREATED") \notin log /\ n <= Cardinality(M) + opportunityFaults'
            \/ /\ Opportunity!Logged(k, c, "CREATED") \in log
               /\ n + Cardinality(D) <= Cardinality(Askers) + opportunityFaults'
        BY <4>1, <3>3, <3>5, <3>6, <3>7, <3>9, <3>10
      <4>3. log' = log
        BY <1>2
      <4> QED
        BY <4>2, <4>3, <3>1, <3>2, <3>3 DEF CopiesFit
    <3>11. CASE ~ Opportunity!NoRow(k, c)
      <4>1. Opportunity!Logged(k, c, "CREATED") \in log \/ Opportunity!Logged(k, c, "FAILED") \in log
        BY <3>11 DEF Opportunity!NoRow
      <4> QED
        <5>1. \/ Opportunity!Logged(k, c, "FAILED") \in log
              \/ n + Cardinality(C) <= Cardinality(Askers) + opportunityFaults
          BY <4>1, <3>2, <3>3, <3>9 DEF CopiesFit
        <5>2. \/ Opportunity!Logged(k, c, "FAILED") \in log
              \/ n + Cardinality(D) <= Cardinality(Askers) + opportunityFaults'
          BY <5>1, <3>3, <3>5, <3>6, <3>7, <3>9
        <5>3. log' = log
          BY <1>2
        <5> QED
          BY <4>1, <5>2, <5>3, <3>2, <3>3 DEF CopiesFit
    <3> QED
      BY <3>8, <3>10, <3>11, <1>2
  <2> QED
    BY <2>2, <2>3
<1> QED
  BY <1>4, <1>5 DEF OpportunityInv

\* A row that is written for a failure ends what can be said of its entry.
LEMMA LogFailedKeeps ==
    ASSUME OpportunityAssumption, OpportunityInv, NEW r \in Askers, Opportunity!LogFailed(r)
    PROVE  OpportunityInv'
<1>1. PICK p \in RequestType : p = request[r]
  BY DEF OpportunityInv, OpportunityTypes
<1>2. /\ UNCHANGED <<candidates, tasks, made, opportunityDay>>
      /\ opportunityFaults' \in Nat /\ opportunityFaults \in Nat /\ opportunityFaults <= opportunityFaults'
      /\ p.pc = "failed"
      /\ request' = [request EXCEPT ![r].pc = "next", ![r].current = Null]
      /\ \/ log' = log
         \/ /\ log' = log \cup {Opportunity!Logged(p.key, p.current, "FAILED")}
            /\ Opportunity!NoRow(p.key, p.current)
  <2>1. opportunityFaults \in Nat
    BY DEF OpportunityInv, OpportunityTypes
  <2> QED
    BY <2>1, <1>1 DEF Opportunity!LogFailed, Opportunity!Fault
<1>3. /\ request'[r].pc = "next" /\ request'[r].key = p.key /\ request'[r].todo = p.todo
      /\ request'[r].skip = p.skip /\ OthersStay(r) /\ request' \in [Askers -> RequestType]
  <2>1. request \in [Askers -> RequestType]
    BY DEF OpportunityInv, OpportunityTypes
  <2> QED
    BY <2>1, <1>1, <1>2, NextRecord
<1>4. OpportunityTypes'
  BY <1>1, <1>2, <1>3 DEF OpportunityInv, OpportunityTypes, OthersStay
<1>5. ASSUME NEW k \in Opportunity!Keys, NEW c \in Candidates PROVE CopiesFit(k, c)'
  <2>1. PICK C \in SUBSET Askers : C = Coming(k, c) /\ C = Coming(k, c)'
    <3>1. Coming(k, c)' = Coming(k, c)
      BY <1>1, <1>2, <1>3 DEF Coming, OthersStay
    <3> QED
      BY <3>1 DEF Coming
  <2>2. PICK L \in SUBSET Askers : L = Logging(k, c) /\ L = Logging(k, c)'
    <3>1. Logging(k, c)' = Logging(k, c)
      BY <1>1, <1>2, <1>3 DEF Logging, OthersStay
    <3> QED
      BY <3>1 DEF Logging
  <2>3. CASE log' = log
    BY <2>1, <2>2, <2>3, <1>2, <1>4, FitStays DEF OpportunityInv
  <2>4. CASE /\ log' = log \cup {Opportunity!Logged(p.key, p.current, "FAILED")}
             /\ k = p.key /\ c = p.current
    BY <2>4 DEF CopiesFit
  <2>5. CASE /\ log' = log \cup {Opportunity!Logged(p.key, p.current, "FAILED")}
             /\ ~ (k = p.key /\ c = p.current)
    <3>1. \A s \in {"CREATED", "FAILED"} :
             Opportunity!Logged(k, c, s) \in log' <=> Opportunity!Logged(k, c, s) \in log
      BY <2>5 DEF Opportunity!Logged
    <3>2. PICK n : n = Copies(k, c) /\ n = Copies(k, c)' /\ n \in Nat
      BY <1>2 DEF Copies, OpportunityInv, OpportunityTypes
    <3>3. Cardinality(L) \in Nat /\ Cardinality(Askers) \in Nat
      BY Counting DEF OpportunityAssumption
    <3>4. Cardinality(C) \in Nat
      BY Counting DEF OpportunityAssumption
    <3>5. CopiesFit(k, c)
      BY DEF OpportunityInv
    <3> QED
      BY <2>1, <2>2, <3>1, <3>2, <3>3, <3>4, <3>5, <1>2 DEF CopiesFit
  <2> QED
    BY <2>3, <2>4, <2>5, <1>2
<1> QED
  BY <1>4, <1>5 DEF OpportunityInv

\* A request ends; the pipeline moves on; a day passes; nothing happens.
LEMMA QuietOpportunity ==
    ASSUME OpportunityAssumption, OpportunityInv,
           \/ \E r \in Askers : Opportunity!EndRequest(r)
           \/ \E j \in Jobs, c \in Candidates : Opportunity!Move(j, c)
           \/ Opportunity!NextDay
           \/ UNCHANGED Opportunity!vars
    PROVE  OpportunityInv'
<1>1. UNCHANGED <<tasks, log, opportunityFaults>> /\ opportunityDay' \in 0..MaxOpportunityDays
  BY DEF OpportunityInv, OpportunityTypes, OpportunityAssumption, Opportunity!OpportunityAssumption,
         Opportunity!EndRequest, Opportunity!Move, Opportunity!NextDay, Opportunity!vars
<1>2. /\ request' \in [Askers -> RequestType]
      /\ \A r \in Askers : \/ request'[r] = request[r]
                           \/ request'[r].pc = "idle" /\ request[r].pc = "next"
  <2>1. CASE request' = request
    BY <2>1 DEF OpportunityInv, OpportunityTypes
  <2>2. ASSUME NEW r \in Askers, Opportunity!EndRequest(r)
        PROVE  /\ request' \in [Askers -> RequestType]
               /\ \A s \in Askers : \/ request'[s] = request[s]
                                    \/ request'[s].pc = "idle" /\ request[s].pc = "next"
    <3>1. Opportunity!NoRequest \in RequestType /\ Opportunity!NoRequest.pc = "idle"
      BY DEF Opportunity!NoRequest, RequestType
    <3> QED
      BY <2>2, <3>1 DEF Opportunity!EndRequest, OpportunityInv, OpportunityTypes
  <2> QED
    BY <2>1, <2>2 DEF Opportunity!Move, Opportunity!NextDay, Opportunity!vars
<1>3. OpportunityTypes'
  BY <1>1, <1>2 DEF OpportunityInv, OpportunityTypes
<1>4. ASSUME NEW k \in Opportunity!Keys, NEW c \in Candidates PROVE CopiesFit(k, c)'
  <2>1. Logging(k, c) \subseteq Logging(k, c)'
    BY <1>2 DEF Logging
  <2>2. Coming(k, c)' \subseteq Coming(k, c)
    BY <1>2 DEF Coming
  <2>3. opportunityFaults <= opportunityFaults'
    BY <1>1 DEF OpportunityInv, OpportunityTypes
  <2> QED
    BY <2>1, <2>2, <2>3, <1>1, <1>3, FitStays DEF OpportunityInv
<1> QED
  BY <1>3, <1>4 DEF OpportunityInv

LEMMA OpportunityNext ==
    ASSUME OpportunityAssumption, OpportunityInv, [Opportunity!Next]_(Opportunity!vars)
    PROVE  OpportunityInv'
  BY StartRequestKeeps, CreateTaskKeeps, LogCreatedKeeps, CandidateFailedKeeps, LogFailedKeeps,
     QuietOpportunity DEF Opportunity!Next

\* As long as no failure has been logged for it, a candidate gets from one opportunity at most
\* as many tasks as requests run at a time and calls have failed, however often operators ask
\* for it and whatever moves in the pipeline.
THEOREM OpportunityTasksFew ==
    ASSUME OpportunityAssumption PROVE Opportunity!Spec => []Opportunity!DuplicatesBounded
<1>1. ASSUME OpportunityInv PROVE Opportunity!DuplicatesBounded
  <2>1. ASSUME NEW e \in DOMAIN tasks
        PROVE  \/ tasks[e] <= Opportunity!Cardinality(Askers) + opportunityFaults
               \/ Opportunity!Logged(e.key, e.candidate, "FAILED") \in log
    <3>1. /\ e.key \in Opportunity!Keys /\ e.candidate \in Candidates
          /\ e = Opportunity!Entry(e.key, e.candidate)
      BY <1>1, <2>1 DEF OpportunityInv, OpportunityTypes, Opportunity!Entry
    <3>2. PICK n : n = Copies(e.key, e.candidate) /\ n = tasks[e] /\ n \in Nat
      BY <3>1, <1>1, <2>1 DEF Copies, OpportunityInv, OpportunityTypes
    <3>3. PICK L \in SUBSET Askers : L = Logging(e.key, e.candidate)
      BY DEF Logging
    <3>4. PICK C \in SUBSET Askers : C = Coming(e.key, e.candidate)
      BY DEF Coming
    <3>5. Cardinality(L) <= Cardinality(Askers) /\ Cardinality(L) \in Nat /\ Cardinality(Askers) \in Nat
      BY Counting DEF OpportunityAssumption
    <3>6. Cardinality(C) \in Nat
      BY Counting DEF OpportunityAssumption
    <3>7. CopiesFit(e.key, e.candidate) /\ opportunityFaults \in Nat
      BY <1>1, <3>1 DEF OpportunityInv, OpportunityTypes
    <3>8. \/ n <= Cardinality(Askers) + opportunityFaults
          \/ Opportunity!Logged(e.key, e.candidate, "FAILED") \in log
      BY <3>2, <3>3, <3>4, <3>5, <3>6, <3>7 DEF CopiesFit
    <3>9. Opportunity!Cardinality(Askers) = Cardinality(Askers)
      BY Zenon DEF Opportunity!Cardinality, Cardinality
    <3> QED
      BY <3>2, <3>8, <3>9
  <2> QED
    BY <2>1 DEF Opportunity!DuplicatesBounded, Opportunity!BagToSet
<1> QED
  BY <1>1, OpportunityInit, OpportunityNext, PTL DEF Opportunity!Spec

\* What TypeOK says beyond OpportunityTypes: pipeline items, log rows and counters.  A request
\* that has failed knows the candidate it failed for, or the log would get a row of nobody.
OpportunityRows ==
    /\ candidates \in [Jobs -> [Candidates -> [stage : Opportunity!Stages, day : 0..MaxOpportunityDays]]]
    /\ log \subseteq [key : Opportunity!Keys, candidate : Candidates, status : {"CREATED", "FAILED"}]
    /\ made \in 0..MaxAsked /\ opportunityFaults \in 0..MaxFailures
    /\ \A r \in Askers : request[r].pc = "failed" => request[r].current \in Candidates

\* One request goes on.
LEMMA RowsOfRequest ==
    ASSUME OpportunityRows, NEW r \in Askers, UNCHANGED candidates,
           \A s \in Askers \ {r} : request'[s] = request[s],
           request'[r].pc = "failed" => request'[r].current \in Candidates,
           log' \subseteq [key : Opportunity!Keys, candidate : Candidates, status : {"CREATED", "FAILED"}],
           made' \in 0..MaxAsked, opportunityFaults' \in 0..MaxFailures
    PROVE  OpportunityRows'
  BY DEF OpportunityRows

LEMMA OpportunityRowsNext ==
    ASSUME OpportunityAssumption, MaxFailures \in Nat, OpportunityInv, OpportunityRows,
           [Opportunity!Next]_(Opportunity!vars)
    PROVE  OpportunityRows'
<1> DEFINE LogRows == [key : Opportunity!Keys, candidate : Candidates, status : {"CREATED", "FAILED"}]
<1>1. ASSUME NEW k \in Opportunity!Keys, NEW c \in Candidates
      PROVE  /\ Opportunity!Logged(k, c, "CREATED") \in LogRows
             /\ Opportunity!Logged(k, c, "FAILED") \in LogRows
  BY DEF Opportunity!Logged
<1>2. log \subseteq LogRows
  BY DEF OpportunityRows
<1> HIDE DEF LogRows
<1>3. ASSUME NEW r \in Askers, NEW q, request' = [request EXCEPT ![r] = q]
      PROVE  request'[r] = q /\ \A s \in Askers \ {r} : request'[s] = request[s]
  BY <1>3 DEF OpportunityInv, OpportunityTypes
<1>4. ASSUME NEW r \in Askers, UNCHANGED candidates, \A s \in Askers \ {r} : request'[s] = request[s],
             request'[r].pc = "failed" => request'[r].current \in Candidates,
             log' \subseteq LogRows, made' \in 0..MaxAsked, opportunityFaults' \in 0..MaxFailures
      PROVE  OpportunityRows'
  BY <1>4, RowsOfRequest DEF LogRows
<1>5. ASSUME NEW r \in Askers PROVE /\ request[r] \in RequestType
                                    /\ request[r].pc # "idle" => request[r].key \in Opportunity!Keys
                                    /\ request[r].pc = "log" => request[r].current \in Candidates
                                    /\ request[r].pc = "failed" => request[r].current \in Candidates
  BY DEF OpportunityInv, OpportunityTypes, OpportunityRows
<1>6. made \in 0..MaxAsked /\ opportunityFaults \in 0..MaxFailures
  BY DEF OpportunityRows
<1>7. ASSUME NEW r \in Askers, Opportunity!StartRequest(r) PROVE OpportunityRows'
  <2>1. PICK q : q.pc = "next" /\ request' = [request EXCEPT ![r] = q]
    BY <1>7 DEF Opportunity!StartRequest
  <2>2. /\ made < MaxAsked /\ made' = made + 1 /\ UNCHANGED <<candidates, log, opportunityFaults>>
    BY <1>7 DEF Opportunity!StartRequest
  <2>3. made' \in 0..MaxAsked
    BY <1>6, <2>2 DEF OpportunityAssumption, Opportunity!OpportunityAssumption
  <2> QED
    BY <1>2, <1>3, <1>4, <1>6, <2>1, <2>2, <2>3
<1>8. ASSUME NEW r \in Askers, Opportunity!CreateTask(r) PROVE OpportunityRows'
  <2>1. PICK d, p, q : /\ p = request[r] /\ q = [p EXCEPT !.pc = "log", !.todo = @ \ {d}, !.current = d]
                       /\ request' = [request EXCEPT ![r] = q]
    BY <1>8 DEF Opportunity!CreateTask
  <2>2. q.pc = "log"
    BY <1>5, <2>1 DEF RequestType
  <2>3. UNCHANGED <<candidates, log, made, opportunityFaults>>
    BY <1>8 DEF Opportunity!CreateTask
  <2> QED
    BY <1>2, <1>3, <1>4, <1>6, <2>1, <2>2, <2>3
<1>9. ASSUME NEW r \in Askers, Opportunity!LogCreated(r) PROVE OpportunityRows'
  <2>1. PICK p, q : /\ p = request[r] /\ q = [p EXCEPT !.pc = "next", !.current = Null]
                    /\ request' = [request EXCEPT ![r] = q]
    BY <1>9 DEF Opportunity!LogCreated
  <2>2. q.pc = "next"
    BY <1>5, <2>1 DEF RequestType
  <2>3. /\ log' = log \cup {Opportunity!Logged(request[r].key, request[r].current, "CREATED")}
        /\ request[r].pc = "log" /\ UNCHANGED <<candidates, made, opportunityFaults>>
    BY <1>9 DEF Opportunity!LogCreated
  <2>4. log' \subseteq LogRows
    BY <1>1, <1>2, <1>5, <2>3
  <2> QED
    BY <1>3, <1>4, <1>6, <2>1, <2>2, <2>3, <2>4
<1>10. ASSUME NEW r \in Askers, Opportunity!LogRefused(r) PROVE OpportunityRows'
  <2>1. PICK p, q : /\ p = request[r] /\ q = [p EXCEPT !.pc = "failed"]
                    /\ request' = [request EXCEPT ![r] = q]
    BY <1>10 DEF Opportunity!LogRefused
  <2>2. request[r].pc = "log" /\ UNCHANGED <<candidates, log, made, opportunityFaults>>
    BY <1>10 DEF Opportunity!LogRefused
  <2>3. q.current \in Candidates
    BY <1>5, <2>1, <2>2 DEF RequestType
  <2> QED
    BY <1>2, <1>3, <1>4, <1>6, <2>1, <2>2, <2>3
<1>11. ASSUME NEW r \in Askers, Opportunity!CandidateFails(r) PROVE OpportunityRows'
  <2>1. PICK p : p = request[r]
    OBVIOUS
  <2>2. PICK q : /\ request' = [request EXCEPT ![r] = q] /\ q.current \in Candidates
    <3>1. CASE p.pc = "log" /\ request' = [request EXCEPT ![r].pc = "failed"]
      <4>1. PICK q : q = [p EXCEPT !.pc = "failed"]
        OBVIOUS
      <4>2. q.current = p.current /\ p.current \in Candidates
        BY <1>5, <2>1, <3>1, <4>1 DEF RequestType
      <4>3. request' = [request EXCEPT ![r] = q]
        BY <2>1, <3>1, <4>1
      <4> QED
        BY <4>2, <4>3
    <3>2. CASE \E c \in p.todo \ p.skip :
                  request' = [request EXCEPT ![r].pc = "failed", ![r].todo = @ \ {c}, ![r].current = c]
      <4>1. PICK c \in p.todo \ p.skip :
               request' = [request EXCEPT ![r].pc = "failed", ![r].todo = @ \ {c}, ![r].current = c]
        BY <3>2
      <4>2. PICK q : q = [p EXCEPT !.pc = "failed", !.todo = @ \ {c}, !.current = c]
        OBVIOUS
      <4>3. q.current = c /\ c \in Candidates
        BY <1>5, <2>1, <4>1, <4>2 DEF RequestType
      <4>4. request' = [request EXCEPT ![r] = q]
        BY <2>1, <4>1, <4>2
      <4> QED
        BY <4>3, <4>4
    <3> QED
      BY <1>11, <2>1, <3>1, <3>2 DEF Opportunity!CandidateFails
  <2>3. /\ opportunityFaults < MaxFailures /\ opportunityFaults' = opportunityFaults + 1
        /\ UNCHANGED <<candidates, log, made>>
    BY <1>11 DEF Opportunity!CandidateFails, Opportunity!Fault
  <2>4. opportunityFaults' \in 0..MaxFailures
    BY <1>6, <2>3
  <2> QED
    BY <1>2, <1>3, <1>4, <1>6, <2>2, <2>3, <2>4
<1>12. ASSUME NEW r \in Askers, Opportunity!LogFailed(r) PROVE OpportunityRows'
  <2>1. PICK p, q : /\ p = request[r] /\ q = [p EXCEPT !.pc = "next", !.current = Null]
                    /\ request' = [request EXCEPT ![r] = q]
    BY <1>12 DEF Opportunity!LogFailed
  <2>2. q.pc = "next"
    BY <1>5, <2>1 DEF RequestType
  <2>3. /\ log' \in {log, log \cup {Opportunity!Logged(request[r].key, request[r].current, "FAILED")}}
        /\ request[r].pc = "failed" /\ UNCHANGED <<candidates, made>>
    BY <1>12 DEF Opportunity!LogFailed
  <2>4. log' \subseteq LogRows
    BY <1>1, <1>2, <1>5, <2>3
  <2>5. opportunityFaults' \in 0..MaxFailures
    BY <1>6, <1>12 DEF Opportunity!LogFailed, Opportunity!Fault
  <2> QED
    BY <1>3, <1>4, <1>6, <2>1, <2>2, <2>3, <2>4, <2>5
<1>13. ASSUME NEW r \in Askers, Opportunity!EndRequest(r) PROVE OpportunityRows'
  <2>1. request' = [request EXCEPT ![r] = Opportunity!NoRequest] /\ Opportunity!NoRequest.pc = "idle"
        /\ UNCHANGED <<candidates, log, made, opportunityFaults>>
    BY <1>13 DEF Opportunity!EndRequest, Opportunity!NoRequest
  <2> QED
    BY <1>2, <1>3, <1>4, <1>6, <2>1
<1>14. ASSUME NEW j \in Jobs, NEW c \in Candidates, Opportunity!Move(j, c) PROVE OpportunityRows'
  <2> DEFINE steps == {<<"none", "SHORTLISTED">>, <<"SHORTLISTED", "OFFER_SENT">>,
                       <<"OFFER_SENT", "START_CONFIRMED">>}
  <2>0. PICK s \in steps : candidates' = [candidates EXCEPT ![j][c] =
                                           [stage |-> s[2], day |-> opportunityDay]]
    BY <1>14 DEF Opportunity!Move
  <2>1. PICK new : new = [stage |-> s[2], day |-> opportunityDay]
    OBVIOUS
  <2>1a. candidates' = [candidates EXCEPT ![j][c] = new]
    BY <2>0, <2>1
  <2>2. new \in [stage : Opportunity!Stages, day : 0..MaxOpportunityDays]
    BY <2>1 DEF Opportunity!Stages, OpportunityInv, OpportunityTypes
  <2>3. candidates' \in [Jobs -> [Candidates -> [stage : Opportunity!Stages, day : 0..MaxOpportunityDays]]]
    BY <2>1a, <2>2 DEF OpportunityRows
  <2>4. UNCHANGED <<log, request, made, opportunityFaults>>
    BY <1>14 DEF Opportunity!Move
  <2> QED
    BY <2>3, <2>4 DEF OpportunityRows
<1>15. CASE Opportunity!NextDay \/ UNCHANGED Opportunity!vars
  BY <1>15 DEF Opportunity!NextDay, Opportunity!vars, OpportunityRows
<1> QED
  BY <1>7, <1>8, <1>9, <1>10, <1>11, <1>12, <1>13, <1>14, <1>15 DEF Opportunity!Next

\* Nobody is missing from a task or from a row of the log, whichever step of a request fails.
THEOREM OpportunitiesTyped ==
    ASSUME OpportunityAssumption, MaxFailures \in Nat PROVE Opportunity!Spec => []Opportunity!TypeOK
<1>1. Opportunity!Init => OpportunityRows
  <2> SUFFICES ASSUME Opportunity!Init PROVE OpportunityRows
    OBVIOUS
  <2>1. PICK none : none = [stage |-> "none", day |-> 0]
    OBVIOUS
  <2>2. none \in [stage : Opportunity!Stages, day : 0..MaxOpportunityDays]
    BY <2>1 DEF Opportunity!Stages, OpportunityAssumption, Opportunity!OpportunityAssumption
  <2>3. candidates = [j \in Jobs |-> [c \in Candidates |-> none]]
    BY <2>1 DEF Opportunity!Init
  <2>4. \A r \in Askers : request[r].pc = "idle"
    BY DEF Opportunity!Init, Opportunity!NoRequest
  <2> QED
    BY <2>2, <2>3, <2>4 DEF Opportunity!Init, OpportunityRows, OpportunityAssumption,
                            Opportunity!OpportunityAssumption
<1>2. OpportunityInv /\ OpportunityRows => Opportunity!TypeOK
  BY DEF OpportunityInv, OpportunityTypes, OpportunityRows, RequestType,
         Opportunity!TypeOK, Opportunity!BagToSet
<1> QED
  BY <1>1, <1>2, OpportunityInit, OpportunityNext, OpportunityRowsNext, PTL DEF Opportunity!Spec

-----------------------------------------------------------------------------
(* The five services together.                                             *)

\* Every row of the services holds what its type says, and the columns of a profile tell what
\* its metadata vouch for, in any interleaving of the services and with any failures.
THEOREM RowsKeptInOrder ==
    ASSUME OpportunityAssumption, TimelineAssumption, SamplingAssumption, FollowUpAssumption,
           StuckAssumption, ProfileAssumption, SalaryAssumption, Attempts \in Nat \ {0}
    PROVE  ServicesSpec => []RowsInOrder
<1>1. Opportunity!Spec => []Opportunity!TypeOK
  BY OpportunitiesTyped DEF StuckAssumption
<1>2. Log!Spec => []Log!TypeOK
  BY EventsTyped
<1>3. Review!Spec => []Review!TypeOK
  BY SamplesTyped
<1>4. Profile!Spec => []Profile!TypeOK
  BY ProfilesTyped DEF StuckAssumption
<1>5. Profile!Spec => []Profile!ColumnsFollowMetas
  BY ColumnsAreVouched
<1>6. FollowUp!Spec => []FollowUp!TypeOK
  BY FollowUpsTyped DEF StuckAssumption
<1>7. Stuck!Spec => []Stuck!TypeOK
  BY StuckTasksTyped
<1> QED
  BY <1>1, <1>2, <1>3, <1>4, <1>5, <1>6, <1>7, PTL DEF ServicesSpec, RowsInOrder

\* Second tasks come from concurrency and failed calls alone: of an opportunity for a candidate,
\* until an attempt is logged as failed, of a question and a day, of a reminder.
THEOREM RepeatsFew ==
    ASSUME OpportunityAssumption, FollowUpAssumption PROVE ServicesSpec => []RepeatsBounded
<1>1. Opportunity!Spec => []Opportunity!DuplicatesBounded
  BY OpportunityTasksFew
<1>2. FollowUp!Spec => []FollowUp!FollowUpsBounded
  BY FollowUpsFew
<1> QED
  BY <1>1, <1>2, PTL DEF ServicesSpec, RepeatsBounded

\* A reader who has come to the end was given every event there was when it began, each once,
\* and an approved message has a sample two days later, unless a run had too many of its kind
\* or its morning failed; whatever the other services do meanwhile.
THEOREM NothingIsMissed ==
    ASSUME Null \notin Nat, EventAssumption PROVE ServicesSpec => []NothingMissed
<1>1. Log!Spec => []Log!ReaderSeesAll
  BY NothingUnread
<1>2. Review!Spec => []Review!ApprovedIsSampled
  BY NothingUnsampled
<1> QED
  BY <1>1, <1>2, PTL DEF ServicesSpec, NothingMissed

\* What the services do together leaves GuessesGiveWay as it is.
THEOREM GuessesKept == ASSUME ProfileAssumption PROVE ServicesSpec => GuessesYield
<1>1. Profile!Spec => Profile!GuessesYield
  BY GuessesGiveWay
<1> QED
  BY <1>1 DEF ServicesSpec, GuessesYield
===============================================================================

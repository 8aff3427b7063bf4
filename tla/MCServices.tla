----------------------------- MODULE MCServices -----------------------------
(***************************************************************************)
(* Model instances of parts that touch none of each other's state here:    *)
(* the job pipeline and the six services.  They share a run, not a state   *)
(* space: scene says which one moves, and the others rest in their initial *)
(* states.                                                                 *)
(***************************************************************************)
EXTENDS JobPipeline, Services, TLC

CONSTANTS r1, r2,         \* two of what there is several of, in every scene
          j1, ca, cb, t3

VARIABLE scene

otherVars == <<opportunityVars, timelineVars, reviewVars, followUpVars, stuckVars, profileVars>>

allVars == <<scene, vars, otherVars>>

\* One job that both candidates match, the second of them dormant.
MCMatches == j1 :> <<ca, cb>>

MCBestJob == ca :> Null @@ cb :> j1

MCPositions == j1 :> 1

\* Two edited messages and another one: one is over the limit of its kind.
MCBucket == r1 :> "EDITED" @@ r2 :> "EDITED" @@ t3 :> "RANDOM"

MCLimit == [b \in {"EDITED", "HIGH_RISK", "RANDOM"} |-> 1]

MCIds == 1..4

Claim(value, conf, method) == [value |-> value, conf |-> conf, method |-> method]

Reply(location, skills, salary) == "location" :> location @@ "skills" :> skills @@ "salary" :> salary

Pay(min, max) == [min |-> min, max |-> max, currency |-> "GBP"]

\* Sure and unsure values, a sure absence, a range the wrong way round and claims to repair.
MCReplies ==
    {Reply(Claim("Leeds", 90, "explicit"), Claim({"plant"}, 67, "inferred"), Null),
     Reply(Claim("York", 50, "inferred"), Null, Claim(Pay(300, 200), 140, "explicit")),
     Reply(Claim(Null, 90, "explicit"), Claim({"roads"}, 50, "explicit"),
           Claim(Pay(-5, 250), 67, "inferred")),
     Reply(Claim("York", Null, "guess"), Claim({"roads"}, 50, "inferred"),
           Claim(Pay(200, 250), 50, "inferred"))}

\* The two tasks are of different agencies.
MCAgencyOf == ca :> "a" @@ cb :> "b"

ASSUME /\ Opportunity!OpportunityAssumption /\ Log!TimelineAssumption /\ Review!SamplingAssumption
       /\ FollowUp!FollowUpAssumption /\ Stuck!StuckAssumption

MCInit ==
    /\ scene \in {"pipeline", "opportunities", "timeline", "review", "followUps", "stuck", "profile"}
    /\ Init /\ Opportunity!Init /\ Log!Init /\ Review!Init /\ FollowUp!Init /\ Stuck!Init
    /\ Profile!Init

\* The other scenes rest.
Rest(others) == UNCHANGED <<scene, vars, others>>

MCNext ==
    \/ /\ scene = "pipeline" /\ Next
       /\ UNCHANGED <<scene, otherVars>>
    \/ /\ scene = "opportunities" /\ Opportunity!Next
       /\ Rest(<<timelineVars, reviewVars, followUpVars, stuckVars, profileVars>>)
    \/ /\ scene = "timeline" /\ Log!Next
       /\ Rest(<<opportunityVars, reviewVars, followUpVars, stuckVars, profileVars>>)
    \/ /\ scene = "review" /\ Review!Next
       /\ Rest(<<opportunityVars, timelineVars, followUpVars, stuckVars, profileVars>>)
    \/ /\ scene = "followUps" /\ FollowUp!Next
       /\ Rest(<<opportunityVars, timelineVars, reviewVars, stuckVars, profileVars>>)
    \/ /\ scene = "stuck" /\ Stuck!Next
       /\ Rest(<<opportunityVars, timelineVars, reviewVars, followUpVars, profileVars>>)
    \/ /\ scene = "profile" /\ Profile!Next
       /\ Rest(<<opportunityVars, timelineVars, reviewVars, followUpVars, stuckVars>>)

MCSpec == MCInit /\ [][MCNext]_allVars

Identical == Permutations({r1, r2})
=============================================================================

----------------------------- MODULE MCMessages -----------------------------
(***************************************************************************)
(* Model instances of what the operators are shown: the text that waits    *)
(* for an approval, into which later messages write, the jobs that go with *)
(* it, and what the operator earns by them.  They touch none of each       *)
(* other's state here.  They share a run, not a state space: scene says    *)
(* which one moves, and the others rest in one of their initial states.    *)
(***************************************************************************)
EXTENDS MCApprovalWorkflow, OperatorFigures

CONSTANTS j1, j2, k1,      \* jobs, and a candidate
          f1               \* a tab with the form of the earnings

VARIABLE scene

allVars == <<scene, vars, jobVars, earningsVars>>

Roofer == "trade" :> "roofer" @@ "pay" :> 19 @@ "charge" :> 25

\* A job that starts on no day and is worth two full weeks, and an urgent one.
MCNewJobs ==
    {Roofer @@ "postcode" :> "LS1 4AB" @@ "card" :> "listed" @@ "hours" :> 40 @@ "weeks" :> 2,
     Roofer @@ "city" :> "Leeds" @@ "card" :> "loose" @@ "status" :> "URGENT" @@ "start" :> 2}

MCPatches ==
    {"trade" :> "" @@ "positionsOpen" :> 2, "pay" :> 28 @@ "status" :> "CLOSED", "card" :> "listed"}

Told(trades, place, card, word, from, min, max) ==
    [trades |-> trades, place |-> place, card |-> card, word |-> word, from |-> from,
     min |-> min, max |-> max, currency |-> Null]

\* One fits the first job with its card, the other the second one by its city and its day.
MCProfiles ==
    {Told({"roofer"}, "LS1", TRUE, "ready", Null, 20, 25),
     Told({"roofer"}, "Leeds", TRUE, "monday", 1, 20, Null)}

MCDistrict == "LS1 4AB" :> "LS1"

MCJobs == {j1, j2}

MCCandidates == {k1}

ASSUME Board!JobBoardAssumption

MCForms == {f1}

MCMonths == 1..2

ASSUME Earned!EarningsAssumption

MCInit == scene \in {"approvals", "jobs", "earnings"} /\ Init /\ Board!Init /\ Earned!Init
          /\ (scene # "jobs" => \A k \in {k1} : candidates[k].place = "Leeds")

MCNext ==
    \/ scene = "approvals" /\ Next /\ UNCHANGED <<scene, jobVars, earningsVars>>
    \/ scene = "jobs" /\ Board!Next /\ UNCHANGED <<scene, vars, earningsVars>>
    \/ scene = "earnings" /\ Earned!Next /\ UNCHANGED <<scene, vars, jobVars>>
    \* When the bounds are used up nobody does anything with jobs any more: no deadlock.
    \/ scene = "jobs" /\ UNCHANGED allVars

MCSpec == MCInit /\ [][MCNext]_allVars

IdenticalJobs == Identical \cup Permutations({j1, j2})
=============================================================================

------------------------ MODULE MCConversationMemory ------------------------
(***************************************************************************)
(* Model instances of what is filled in bit by bit: the memory of a        *)
(* conversation, the stage of a contact, and the forms of two pages of the *)
(* operator console.  They touch none of each other's state; they share a  *)
(* run, not a state space: scene says which one moves, and the others rest *)
(* in one of their initial states.                                         *)
(***************************************************************************)
EXTENDS StageUpdates, OperatorForms, TLC

VARIABLE scene

\* A message tells one thing, or all that is required.
MCLearned == {{"location"}, {"location", "desiredRole", "availability"}}

Answer(stage, missing) ==
    [stage |-> stage, missing |-> missing, followUp |-> FALSE, action |-> {}, mentions |-> {}, sets |-> {}]

MCAnswers ==
    {Answer("LOOKING_FOR_WORK", None),
     [Answer("PROFILE_INCOMPLETE", {"salary", "location"}) EXCEPT
         !.followUp = TRUE, !.action = {"other"}, !.mentions = {"waitingForOperator"}, !.sets = {"waitingForOperator"}]}

Situation(pending, cscs, matched, placed) ==
    [pending |-> pending, cscs |-> cscs, followUp |-> FALSE, matched |-> matched,
     placement |-> placed, intent |-> "none"]

MCSituations ==
    {Situation(TRUE, TRUE, FALSE, "none"), Situation(FALSE, FALSE, TRUE, "future")}

\* Two tasks of one conversation.
MCOf == [t \in {1, 2} |-> "talk"]

ASSUME Console!ConsoleAssumption

allVars == <<scene, vars, updateVars, consoleVars, cardVars>>

MCInit ==
    /\ scene \in {"memory", "updates", "console", "cards"}
    /\ Init /\ Update!Init /\ Console!Init /\ Cards!Init
    \* Only the scene of the updates starts in more than one state.
    /\ scene # "updates" => /\ jobMatch = "none" /\ contactFacts = {}
                            /\ \A t \in ContactTasks : ~ contactTasks[t].open

\* Bound: all but one of the writers of the memory row get to work.
OneRests == \E w \in Writers : writer[w].pc = "idle"

MCNext ==
    \/ scene = "memory" /\ Next /\ OneRests' /\ UNCHANGED <<scene, updateVars, consoleVars, cardVars>>
    \/ scene = "updates" /\ Update!Next /\ UNCHANGED <<scene, vars, consoleVars, cardVars>>
    \/ scene = "console" /\ Console!Next /\ UNCHANGED <<scene, vars, updateVars, cardVars>>
    \/ scene = "cards" /\ Cards!Next /\ UNCHANGED <<scene, vars, updateVars, consoleVars>>

MCSpec == MCInit /\ [][MCNext]_allVars

MCSymmetry == Permutations(Messages)
=============================================================================

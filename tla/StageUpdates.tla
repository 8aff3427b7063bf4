---------------------------- MODULE StageUpdates ----------------------------
(***************************************************************************)
(* The two ways in which the stage of a contact is written: after messages *)
(* and on an operator's request, with the memory of the conversation, and  *)
(* by the rules alone, when the job pipeline moves or a card was checked.  *)
(* They share the rules; each has a contact of its own here.               *)
(***************************************************************************)
EXTENDS ConversationMemory

CONSTANTS ContactTasks, Updaters, MaxTouched, MaxFailed

VARIABLES contact, contactTasks, jobMatch, placement, contactFacts, silentDays, updater, spent

updateVars == <<contact, contactTasks, jobMatch, placement, contactFacts, silentDays, updater, spent>>

Update == INSTANCE ProgressUpdates WITH
    Tasks <- ContactTasks, Callers <- Updaters, MaxTouches <- MaxTouched, MaxFaults <- MaxFailed,
    row <- contact, tasks <- contactTasks, match <- jobMatch, profile <- contactFacts,
    idle <- silentDays, caller <- updater, used <- spent

\* Where a stage came from: see TypeOK, OwnTaskHolds and PlacementsFoundByMoves there.
StagesExplained ==
    Update!TypeOK /\ Update!OwnTaskHolds /\ Update!PlacementsFoundByMoves
=============================================================================

-------------------------- MODULE JobPipelineProofs --------------------------
(***************************************************************************)
(* Proofs about JobPipeline: types, that an item leaves the machine of     *)
(* stages only through a request that was overtaken, that a promised task  *)
(* is made, and how many of a kind there may be.                           *)
(*                                                                         *)
(* The second needs an invariant: a request that has read an item and was  *)
(* not overtaken still knows its stage, and its move was checked from it.  *)
(* The last two are inductive beside the types.                            *)
(***************************************************************************)
EXTENDS JobPipeline, FiniteSetTheorems, TLAPS

Undisturbed ==
    \A r \in Requests :
        req[r].pc = "write" /\ ~ req[r].overtaken =>
            /\ req[r].seen = item[req[r].item]
            /\ FollowsRules(req[r].seen, req[r].stage)

-----------------------------------------------------------------------------

\* What the handler lets through follows the rules of validateStageTransition.
LEMMA ValidFollowsRules ==
    ASSUME NEW from, NEW change \in Changes, Valid(from, change)
    PROVE  FollowsRules(from, change.stage)
BY DEF Valid, FollowsRules

LEMMA OvertakeType ==
    ASSUME req \in [Requests -> RequestState], NEW i
    PROVE  /\ Overtake(i) \in [Requests -> RequestState]
           /\ \A r \in Requests :
                 /\ Overtake(i)[r].pc = req[r].pc
                 /\ Overtake(i)[r].item = req[r].item
                 /\ Overtake(i)[r].stage = req[r].stage
                 /\ Overtake(i)[r].seen = req[r].seen
                 /\ Overtake(i)[r].task = req[r].task
                 /\ req[r].pc = "write" /\ req[r].item = i => Overtake(i)[r].overtaken
                 /\ req[r].overtaken => Overtake(i)[r].overtaken
BY DEF Overtake, RequestState

LEMMA IdleType == Idle \in RequestState
BY DEF Idle, RequestState

LEMMA TaskForType ==
    ASSUME NEW change \in Changes
    PROVE  TaskFor(change) \in TaskTypes \cup {None}
BY DEF TaskFor, TaskTypes

LEMMA InitType == Init => TypeOK
BY IdleType DEF Init, TypeOK, Idle, TaskTypes, MakingTask

RequestsOK ==
    /\ req \in [Requests -> RequestState]
    /\ \A r \in Requests : /\ req[r].pc # "idle" => req[r].item \in Items
                           /\ req[r].pc = "write" => req[r].stage \in Stages
                           /\ MakingTask(r) => req[r].task \in TaskTypes

\* A request that ends.
LEMMA ReleaseType ==
    ASSUME TypeOK, NEW r \in Requests, req' = [req EXCEPT ![r] = Idle]
    PROVE  RequestsOK'
<1>1. req' \in [Requests -> RequestState]
  BY IdleType DEF TypeOK
<1>2. ASSUME NEW s \in Requests
      PROVE  req'[s] = req[s] \/ req'[s] = Idle
  BY DEF TypeOK
<1> QED
  BY <1>1, <1>2 DEF TypeOK, RequestsOK, Idle, MakingTask

LEMMA FaultType ==
    ASSUME TypeOK, Fault
    PROVE  used' \in [faults : Nat, crashes : Nat]
BY DEF TypeOK, Fault

LEMMA NextType == TypeOK /\ [Next]_vars => TypeOK'
<1> SUFFICES ASSUME TypeOK, [Next]_vars PROVE TypeOK'
  OBVIOUS
<1> USE IdleType, BoundsAssumption
<1>1. ASSUME NEW r \in Requests, ReadItem(r) PROVE TypeOK'
  BY <1>1, TaskForType DEF TypeOK, ReadItem, RequestState, Changes, MakingTask
<1>2. ASSUME NEW r \in Requests, WriteItem(r) PROVE TypeOK'
  <2> DEFINE q == req[r]
  <2>1. q \in RequestState /\ q.item \in Items /\ q.stage \in Stages
    BY <1>2 DEF TypeOK, WriteItem
  <2>2. item' \in [Items -> Stages \cup {None}]
    BY <1>2, <2>1 DEF TypeOK, WriteItem, RequestState
  <2>3. req' \in [Requests -> RequestState]
    <3>1. [q EXCEPT !.pc = "search"] \in RequestState
      BY <2>1 DEF RequestState
    <3> QED
      BY <1>2, <3>1, OvertakeType DEF TypeOK, WriteItem
  <2>4. WantsTask(q) => Wanted(r) \in TaskTypes \X Items
    BY <2>1 DEF WantsTask, Wanted, RequestState
  <2>5. promised' \subseteq TaskTypes \X Items /\ excused' \subseteq TaskTypes \X Items
    BY <1>2, <2>4 DEF TypeOK, WriteItem
  <2>6. ASSUME NEW s \in Requests
        PROVE  /\ req'[s].pc # "idle" => req'[s].item \in Items
               /\ req'[s].pc = "write" => req'[s].stage \in Stages
               /\ MakingTask(s)' => req'[s].task \in TaskTypes
    <3>1. CASE s = r
      <4>1. req'[r] = IF WantsTask(q) THEN [q EXCEPT !.pc = "search"] ELSE Idle
        BY <1>2, OvertakeType DEF TypeOK, WriteItem
      <4> QED
        BY <3>1, <4>1, <2>1 DEF WantsTask, RequestState, Idle, MakingTask
    <3>2. CASE s # r
      <4>1. req'[s] = Overtake(q.item)[s]
        BY <1>2, <3>2, OvertakeType DEF TypeOK, WriteItem
      <4> QED
        BY <4>1, OvertakeType DEF TypeOK, MakingTask
    <3> QED
      BY <3>1, <3>2
  <2> QED
    BY <1>2, <2>2, <2>3, <2>5, <2>6 DEF TypeOK, WriteItem
<1>3. ASSUME NEW r \in Requests, SearchTask(r) PROVE TypeOK'
  <2>1. Wanted(r) \in TaskTypes \X Items
    BY <1>3 DEF TypeOK, SearchTask, MakingTask, Wanted
  <2> QED
    <3>1. CASE req' = [req EXCEPT ![r] = Idle]
      BY <1>3, <2>1, <3>1, ReleaseType DEF TypeOK, RequestsOK, SearchTask
    <3>2. CASE req' = [req EXCEPT ![r].pc = "create"]
      <4>1. RequestsOK'
        BY <1>3, <3>2 DEF TypeOK, RequestsOK, SearchTask, RequestState, MakingTask
      <4> QED
        BY <1>3, <2>1, <4>1 DEF TypeOK, RequestsOK, SearchTask
    <3> QED
      BY <1>3, <3>1, <3>2 DEF SearchTask
<1>4. ASSUME NEW r \in Requests, CreateTask(r) PROVE TypeOK'
  <2>1. req[r].task \in TaskTypes /\ req[r].item \in Items
    BY <1>4 DEF TypeOK, CreateTask, MakingTask
  <2>2. open' \in [TaskTypes -> [Items -> Nat]]
    BY <1>4, <2>1 DEF TypeOK, CreateTask
  <2> QED
    BY <1>4, <2>2, ReleaseType DEF TypeOK, RequestsOK, CreateTask
<1>5. ASSUME NEW r \in Requests, ReadRemoval(r) PROVE TypeOK'
  <2>1. PICK i \in Items : req' = [req EXCEPT ![r] = [Idle EXCEPT !.pc = "remove", !.item = i]]
    BY <1>5 DEF ReadRemoval
  <2>2. [Idle EXCEPT !.pc = "remove", !.item = i] \in RequestState
    BY DEF Idle, RequestState
  <2>3. ASSUME NEW s \in Requests
        PROVE  req'[s] = req[s] \/ req'[s] = [Idle EXCEPT !.pc = "remove", !.item = i]
    BY <2>1 DEF TypeOK
  <2>4. RequestsOK'
    BY <2>1, <2>2, <2>3 DEF TypeOK, RequestsOK, Idle, MakingTask
  <2> QED
    BY <1>5, <2>4 DEF TypeOK, RequestsOK, ReadRemoval
<1>6. ASSUME NEW r \in Requests, RemoveItem(r) PROVE TypeOK'
  <2>1. item' \in [Items -> Stages \cup {None}]
    BY <1>6 DEF TypeOK, RemoveItem
  <2>2. /\ req' \in [Requests -> RequestState]
        /\ req'[r] = Idle
        /\ \A s \in Requests \ {r} : req'[s] = Overtake(req[r].item)[s]
    BY <1>6, OvertakeType DEF TypeOK, RemoveItem
  <2> QED
    BY <1>6, <2>1, <2>2, OvertakeType DEF TypeOK, RemoveItem, Idle, MakingTask
<1>7. ASSUME NEW r \in Requests, FindRemoved(r) PROVE TypeOK'
  BY <1>7, ReleaseType DEF TypeOK, RequestsOK, FindRemoved
<1>8. ASSUME NEW r \in Requests, RequestFails(r) PROVE TypeOK'
  BY <1>8, ReleaseType, FaultType DEF TypeOK, RequestsOK, RequestFails
<1>9. ASSUME NEW r \in Requests, TaskFails(r) PROVE TypeOK'
  <2>1. Wanted(r) \in TaskTypes \X Items
    BY <1>9 DEF TypeOK, TaskFails, MakingTask, Wanted
  <2> QED
    BY <1>9, <2>1, ReleaseType, FaultType DEF TypeOK, RequestsOK, TaskFails
<1>10. ASSUME NEW i \in Items, RejectOutreach(i) PROVE TypeOK'
  <2>1. open' \in [TaskTypes -> [Items -> Nat]]
    BY <1>10 DEF TypeOK, RejectOutreach, TaskTypes
  <2> QED
    BY <1>10, <2>1 DEF TypeOK, RejectOutreach, TaskTypes, MakingTask
<1>11. CASE Restart
  <2>1. \A r \in Requests : MakingTask(r) => Wanted(r) \in TaskTypes \X Items
    BY DEF TypeOK, MakingTask, Wanted
  <2> QED
    <3>1. excused' \subseteq TaskTypes \X Items
      BY <1>11, <2>1 DEF TypeOK, Restart
    <3>2. RequestsOK'
      BY <1>11 DEF RequestsOK, Restart, Idle, MakingTask
    <3> QED
      BY <1>11, <3>1, <3>2 DEF TypeOK, RequestsOK, Restart
<1>12. CASE UNCHANGED vars
  BY <1>12 DEF TypeOK, vars, MakingTask
<1> QED
  BY <1>1, <1>2, <1>3, <1>4, <1>5, <1>6, <1>7, <1>8, <1>9, <1>10, <1>11, <1>12 DEF Next

\* Every variable of the pipeline keeps its type: no more outreach tasks are closed
\* than were open, and a request that makes a task knows which and for whom.
THEOREM PipelineTypeCorrect == Spec => []TypeOK
<1> QED
  BY InitType, NextType, PTL DEF Spec

-----------------------------------------------------------------------------

\* A write to item i and the request r that made it leave the others undisturbed
\* only if they hold no item, or another one.
LEMMA OvertakeKeeps ==
    ASSUME TypeOK, Undisturbed, NEW r \in Requests, NEW i \in Items,
           \A j \in Items \ {i} : item'[j] = item[j],
           \A s \in Requests \ {r} : req'[s] = Overtake(i)[s],
           req'[r].pc # "write"
    PROVE  Undisturbed'
<1> SUFFICES ASSUME NEW s \in Requests, req'[s].pc = "write", ~ req'[s].overtaken
             PROVE  /\ req'[s].seen = item'[req'[s].item]
                    /\ FollowsRules(req'[s].seen, req'[s].stage)
  BY DEF Undisturbed, FollowsRules, Allowed
<1>1. s # r /\ req'[s] = Overtake(i)[s]
  OBVIOUS
<1>2. /\ req[s].pc = "write" /\ req[s].item # i /\ ~ req[s].overtaken
      /\ req'[s].seen = req[s].seen /\ req'[s].stage = req[s].stage
      /\ req'[s].item = req[s].item
  BY <1>1, OvertakeType DEF TypeOK
<1>3. req[s].item \in Items
  BY <1>2 DEF TypeOK
<1> QED
  BY <1>2, <1>3 DEF Undisturbed

\* A step that writes no item and lets no request begin to write.
LEMMA UndisturbedKept ==
    ASSUME Undisturbed, UNCHANGED item,
           \A s \in Requests : req'[s] = req[s] \/ req'[s].pc # "write"
    PROVE  Undisturbed'
BY DEF Undisturbed, FollowsRules, Allowed

LEMMA InitUndisturbed == Init => Undisturbed
BY DEF Init, Undisturbed, Idle

LEMMA NextUndisturbed == TypeOK /\ Undisturbed /\ [Next]_vars => Undisturbed'
<1> SUFFICES ASSUME TypeOK, Undisturbed, [Next]_vars PROVE Undisturbed'
  OBVIOUS
<1>1. ASSUME NEW r \in Requests, ReadItem(r) PROVE Undisturbed'
  <2>1. PICK i \in Items, change \in Changes :
          /\ Valid(item[i], change)
          /\ req' = [req EXCEPT ![r] =
                [pc |-> "write", item |-> i, stage |-> change.stage, task |-> TaskFor(change),
                 seen |-> item[i], overtaken |-> FALSE]]
    BY <1>1 DEF ReadItem
  <2>2. FollowsRules(item[i], change.stage)
    BY <2>1, ValidFollowsRules
  <2>3. UNCHANGED item
    BY <1>1 DEF ReadItem
  <2>4. ASSUME NEW s \in Requests, req'[s].pc = "write", ~ req'[s].overtaken
        PROVE  /\ req'[s].seen = item'[req'[s].item]
               /\ FollowsRules(req'[s].seen, req'[s].stage)
    <3>1. CASE s = r
      BY <2>1, <2>2, <2>3, <3>1 DEF TypeOK
    <3>2. CASE s # r
      <4>1. req'[s] = req[s]
        BY <2>1, <3>2 DEF TypeOK
      <4> QED
        BY <2>3, <2>4, <4>1 DEF Undisturbed
    <3> QED
      BY <3>1, <3>2
  <2> QED
    BY <2>4 DEF Undisturbed, FollowsRules, Allowed
<1>2. ASSUME NEW r \in Requests, WriteItem(r) PROVE Undisturbed'
  <2>1. req[r].item \in Items
    BY <1>2 DEF TypeOK, WriteItem
  <2>2. \A j \in Items \ {req[r].item} : item'[j] = item[j]
    BY <1>2, <2>1 DEF TypeOK, WriteItem
  <2>3. /\ \A s \in Requests \ {r} : req'[s] = Overtake(req[r].item)[s]
        /\ req'[r].pc # "write"
    BY <1>2, OvertakeType DEF TypeOK, WriteItem, RequestState, Idle
  <2> QED
    BY <2>1, <2>2, <2>3, OvertakeKeeps
<1>3. ASSUME NEW r \in Requests, RemoveItem(r) PROVE Undisturbed'
  <2>1. req[r].item \in Items
    BY <1>3 DEF TypeOK, RemoveItem
  <2>2. \A j \in Items \ {req[r].item} : item'[j] = item[j]
    BY <1>3, <2>1 DEF TypeOK, RemoveItem
  <2>3. /\ \A s \in Requests \ {r} : req'[s] = Overtake(req[r].item)[s]
        /\ req'[r].pc # "write"
    BY <1>3, OvertakeType DEF TypeOK, RemoveItem, Idle
  <2> QED
    BY <2>1, <2>2, <2>3, OvertakeKeeps
<1>4. ASSUME NEW r \in Requests,
             SearchTask(r) \/ CreateTask(r) \/ ReadRemoval(r) \/ FindRemoved(r)
             \/ RequestFails(r) \/ TaskFails(r)
      PROVE Undisturbed'
  <2>1. UNCHANGED item
    BY <1>4 DEF SearchTask, CreateTask, ReadRemoval, FindRemoved, RequestFails, TaskFails
  <2>2. ASSUME NEW s \in Requests PROVE req'[s] = req[s] \/ req'[s].pc # "write"
    <3>1. CASE SearchTask(r)
      BY <3>1 DEF TypeOK, RequestState, SearchTask, Idle
    <3>2. CASE CreateTask(r) \/ FindRemoved(r) \/ RequestFails(r) \/ TaskFails(r)
      BY <3>2 DEF TypeOK, CreateTask, FindRemoved, RequestFails, TaskFails, Idle
    <3>3. CASE ReadRemoval(r)
      BY <3>3 DEF TypeOK, ReadRemoval, Idle
    <3> QED
      BY <1>4, <3>1, <3>2, <3>3
  <2> QED
    BY <2>1, <2>2, UndisturbedKept
<1>5. ASSUME NEW i \in Items, RejectOutreach(i) PROVE Undisturbed'
  BY <1>5, UndisturbedKept DEF RejectOutreach
<1>6. CASE Restart
  BY <1>6, UndisturbedKept DEF Restart, Idle
<1>7. CASE UNCHANGED vars
  BY <1>7, UndisturbedKept DEF vars
<1> QED
  BY <1>1, <1>2, <1>3, <1>4, <1>5, <1>6, <1>7 DEF Next

\* The move of one item in one step.
Moves(i) ==
    \/ FollowsRules(item[i], item'[i])
    \/ \E r \in Requests : /\ req[r].pc = "write" /\ req'[r].pc # "write"
                           /\ req[r].item = i /\ req[r].overtaken

LEMMA StepMoves ==
    ASSUME TypeOK, Undisturbed, Next, NEW i \in Items
    PROVE  Moves(i)
<1>1. ASSUME item'[i] = item[i] PROVE Moves(i)
  BY <1>1 DEF Moves, FollowsRules
<1>2. ASSUME NEW r \in Requests, WriteItem(r) PROVE Moves(i)
  <2>1. CASE req[r].item # i
    BY <1>1, <1>2, <2>1 DEF TypeOK, WriteItem
  <2>2. CASE req[r].item = i /\ req[r].overtaken
    <3>1. req'[r].pc # "write"
      BY <1>2, OvertakeType DEF TypeOK, WriteItem, RequestState, Idle
    <3> QED
      BY <1>2, <2>2, <3>1 DEF Moves, WriteItem
  <2>3. CASE req[r].item = i /\ ~ req[r].overtaken
    <3>1. req[r].pc = "write" /\ item'[i] = req[r].stage
      BY <1>2, <2>3 DEF TypeOK, WriteItem
    <3>2. FollowsRules(item[i], req[r].stage)
      BY <2>3, <3>1 DEF Undisturbed
    <3> QED
      BY <3>1, <3>2 DEF Moves
  <2> QED
    BY <2>1, <2>2, <2>3 DEF TypeOK, RequestState
<1>3. ASSUME NEW r \in Requests, RemoveItem(r) PROVE Moves(i)
  <2>1. CASE req[r].item # i
    BY <1>1, <1>3, <2>1 DEF TypeOK, RemoveItem
  <2>2. CASE req[r].item = i
    BY <1>3, <2>2 DEF TypeOK, RemoveItem, Moves, FollowsRules
  <2> QED
    BY <2>1, <2>2
<1>4. ASSUME UNCHANGED item PROVE Moves(i)
  BY <1>1, <1>4
<1> QED
  BY <1>2, <1>3, <1>4 DEF Next, ReadItem, SearchTask, CreateTask, ReadRemoval, FindRemoved,
                          RequestFails, TaskFails, RejectOutreach, Restart

\* Whatever the interleaving: an item leaves the machine of stages (terminal DROPPED,
\* no way back from NO_SHOW) only by the write of a request that was overtaken.
THEOREM StagesFollowRules == Spec => UndisturbedMovesAllowed
<1>1. TypeOK /\ Undisturbed /\ [Next]_vars
        => [\A i \in Items :
              \/ FollowsRules(item[i], item'[i])
              \/ \E r \in Requests : /\ req[r].pc = "write" /\ req'[r].pc # "write"
                                     /\ req[r].item = i /\ req[r].overtaken]_vars
  BY StepMoves DEF Moves
<1> QED
  BY <1>1, InitType, NextType, InitUndisturbed, NextUndisturbed, PTL
     DEF Spec, UndisturbedMovesAllowed

-----------------------------------------------------------------------------
(* Tasks that were promised.                                               *)

\* What p, a type of task for an item, still can count on.
Kept(p) ==
    \/ open[p[1]][p[2]] > 0
    \/ p \in excused
    \/ \E r \in Requests : MakingTask(r) /\ Wanted(r) = p

LEMMA InitPromised == Init => PromisedTaskExists
BY DEF Init, PromisedTaskExists

\* A step of r that keeps the tasks of others in the making, and p for r.
LEMMA PromiseStays ==
    ASSUME TypeOK, PromisedTaskExists, NEW r \in Requests, NEW p \in promised,
           \A s \in Requests \ {r} : MakingTask(s) => MakingTask(s)' /\ Wanted(s)' = Wanted(s),
           open[p[1]][p[2]] > 0 => Kept(p)',
           p \in excused => Kept(p)',
           MakingTask(r) /\ Wanted(r) = p => Kept(p)'
    PROVE  Kept(p)'
<1>1. CASE open[p[1]][p[2]] > 0 \/ p \in excused
  BY <1>1
<1>2. ASSUME NEW s \in Requests, MakingTask(s), Wanted(s) = p PROVE Kept(p)'
  <2>1. CASE s = r
    BY <1>2, <2>1
  <2>2. CASE s # r
    BY <1>2, <2>2 DEF Kept
  <2> QED
    BY <2>1, <2>2
<1> QED
  BY <1>1, <1>2 DEF PromisedTaskExists

LEMMA NextPromised == TypeOK /\ PromisedTaskExists /\ [Next]_vars => PromisedTaskExists'
<1> SUFFICES ASSUME TypeOK, PromisedTaskExists, [Next]_vars, NEW p \in promised'
             PROVE  Kept(p)'
  BY DEF PromisedTaskExists, Kept
<1>1. ASSUME NEW r \in Requests, WriteItem(r) PROVE Kept(p)'
  <2> DEFINE q == req[r]
  <2>1. /\ req'[r] = IF WantsTask(q) THEN [q EXCEPT !.pc = "search"] ELSE Idle
        /\ \A s \in Requests \ {r} : req'[s] = Overtake(q.item)[s]
    BY <1>1, OvertakeType DEF TypeOK, WriteItem
  <2>2. CASE WantsTask(q) /\ p = Wanted(r)
    <3>1. req'[r] = [q EXCEPT !.pc = "search"] /\ q \in RequestState
      BY <2>1, <2>2 DEF TypeOK
    <3>2. req'[r].pc = "search" /\ req'[r].task = q.task /\ req'[r].item = q.item
      BY <3>1 DEF RequestState
    <3> QED
      BY <2>2, <3>2 DEF Kept, MakingTask, Wanted
  <2>3. CASE ~ WantsTask(q) \/ p # Wanted(r)
    <3>1. p \in promised /\ (p \in excused => p \in excused') /\ UNCHANGED open
      BY <1>1, <2>3 DEF WriteItem
    <3>2. \A s \in Requests \ {r} : MakingTask(s) => MakingTask(s)' /\ Wanted(s)' = Wanted(s)
      BY <2>1, OvertakeType DEF TypeOK, MakingTask, Wanted
    <3>3. ~ MakingTask(r)
      BY <1>1 DEF WriteItem, MakingTask
    <3> QED
      BY <3>1, <3>2, <3>3, PromiseStays DEF Kept
  <2> QED
    BY <2>2, <2>3
<1>2. ASSUME NEW r \in Requests, req' = [req EXCEPT ![r] = Idle], p \in promised,
             open[p[1]][p[2]] > 0 => open'[p[1]][p[2]] > 0, excused \subseteq excused',
             MakingTask(r) /\ Wanted(r) = p => open'[p[1]][p[2]] > 0 \/ p \in excused'
      PROVE  Kept(p)'
  <2>1. \A s \in Requests \ {r} : MakingTask(s) => MakingTask(s)' /\ Wanted(s)' = Wanted(s)
    BY <1>2 DEF TypeOK, MakingTask, Wanted
  <2> QED
    BY <1>2, <2>1, PromiseStays DEF Kept
<1>3. ASSUME NEW r \in Requests, SearchTask(r) PROVE Kept(p)'
  <2>1. p \in promised /\ UNCHANGED open /\ excused \subseteq excused'
    BY <1>3 DEF SearchTask
  <2>2. CASE HasOpenTask(req[r].task, req[r].item)
    BY <1>2, <1>3, <2>1, <2>2 DEF SearchTask, HasOpenTask, Wanted
  <2>3. CASE req' = [req EXCEPT ![r].pc = "create"]
    <3>1. /\ req'[r] = [req[r] EXCEPT !.pc = "create"] /\ req[r] \in RequestState
          /\ \A s \in Requests \ {r} : req'[s] = req[s]
      BY <2>3 DEF TypeOK
    <3>2. req'[r].pc = "create" /\ req'[r].task = req[r].task /\ req'[r].item = req[r].item
      BY <3>1 DEF RequestState
    <3>3. MakingTask(r)' /\ Wanted(r)' = Wanted(r)
      BY <3>2 DEF MakingTask, Wanted
    <3>4. \A s \in Requests \ {r} : MakingTask(s) => MakingTask(s)' /\ Wanted(s)' = Wanted(s)
      BY <3>1 DEF MakingTask, Wanted
    <3> QED
      BY <2>1, <3>3, <3>4, PromiseStays DEF Kept
  <2>4. CASE req' = [req EXCEPT ![r] = Idle] /\ excused' = excused \cup {Wanted(r)}
    BY <1>2, <2>1, <2>4
  <2> QED
    BY <1>3, <2>2, <2>3, <2>4 DEF SearchTask
<1>4. ASSUME NEW r \in Requests, CreateTask(r) PROVE Kept(p)'
  <2>1. p \in TaskTypes \X Items /\ p \in promised
    BY <1>4 DEF TypeOK, CreateTask
  <2>2. PICK k \in TaskTypes, i \in Items : p = <<k, i>>
    BY <2>1
  <2>3. req[r].task \in TaskTypes /\ req[r].item \in Items
    BY <1>4 DEF TypeOK, CreateTask, MakingTask
  <2>4. open'[k][i] = IF Wanted(r) = p THEN open[k][i] + 1 ELSE open[k][i]
    BY <1>4, <2>2, <2>3 DEF CreateTask, TypeOK, Wanted
  <2>5. open[k][i] \in Nat
    BY DEF TypeOK
  <2>6. /\ open[p[1]][p[2]] > 0 => open'[p[1]][p[2]] > 0
        /\ Wanted(r) = p => open'[p[1]][p[2]] > 0
    BY <2>2, <2>4, <2>5
  <2> QED
    BY <1>2, <1>4, <2>1, <2>6 DEF CreateTask
<1>5. ASSUME NEW r \in Requests, ReadItem(r) \/ ReadRemoval(r) PROVE Kept(p)'
  <2>1. UNCHANGED <<open, promised, excused>> /\ ~ MakingTask(r)
        /\ \A s \in Requests \ {r} : req'[s] = req[s]
    BY <1>5 DEF ReadItem, ReadRemoval, MakingTask, TypeOK
  <2> QED
    BY <2>1, PromiseStays DEF Kept, MakingTask, Wanted
<1>6. ASSUME NEW r \in Requests, RemoveItem(r) PROVE Kept(p)'
  <2>1. UNCHANGED <<open, promised, excused>> /\ ~ MakingTask(r)
        /\ \A s \in Requests \ {r} : req'[s] = Overtake(req[r].item)[s]
    BY <1>6, OvertakeType DEF RemoveItem, MakingTask, TypeOK
  <2>2. \A s \in Requests \ {r} : MakingTask(s) => MakingTask(s)' /\ Wanted(s)' = Wanted(s)
    BY <2>1, OvertakeType DEF TypeOK, MakingTask, Wanted
  <2> QED
    BY <2>1, <2>2, PromiseStays DEF Kept
<1>7. ASSUME NEW r \in Requests, FindRemoved(r) \/ RequestFails(r) PROVE Kept(p)'
  BY <1>2, <1>7 DEF FindRemoved, RequestFails, MakingTask
<1>8. ASSUME NEW r \in Requests, TaskFails(r) PROVE Kept(p)'
  BY <1>2, <1>8 DEF TaskFails
<1>9. ASSUME NEW i \in Items, RejectOutreach(i) PROVE Kept(p)'
  <2>1. p \in TaskTypes \X Items /\ p \in promised
    BY <1>9 DEF TypeOK, RejectOutreach
  <2>2. PICK k \in TaskTypes, j \in Items : p = <<k, j>>
    BY <2>1
  <2>3. p = <<"OUTREACH", i>> \/ open'[k][j] = open[k][j]
    BY <1>9, <2>2 DEF RejectOutreach, TypeOK, TaskTypes
  <2>4. UNCHANGED req /\ excused' = excused \cup {<<"OUTREACH", i>>}
    BY <1>9 DEF RejectOutreach
  <2> QED
    BY <2>1, <2>2, <2>3, <2>4 DEF PromisedTaskExists, Kept, MakingTask, Wanted
<1>10. CASE Restart
  BY <1>10 DEF Restart, PromisedTaskExists, Kept
<1>11. CASE UNCHANGED vars
  BY <1>11 DEF vars, PromisedTaskExists, Kept, MakingTask, Wanted
<1> QED
  BY <1>1, <1>3, <1>4, <1>5, <1>6, <1>7, <1>8, <1>9, <1>10, <1>11 DEF Next

\* A move that asks for a task gets it, or the task was rejected, or a failing call, a
\* restart or an early return stands for its absence: no interleaving of requests
\* loses it without one of these.
THEOREM PromisesKept == Spec => []PromisedTaskExists
<1> QED
  BY InitType, NextType, InitPromised, NextPromised, PTL DEF Spec

-----------------------------------------------------------------------------
(* How many tasks of a kind there may be.                                  *)

Creators(k, i) == {r \in Requests : req[r].pc = "create" /\ Wanted(r) = <<k, i>>}

Bounded(k, i) == open[k][i] + Cardinality(Creators(k, i)) <= Cardinality(Requests)

BoundedInv == \A k \in TaskTypes, i \in Items : Bounded(k, i)

LEMMA BoundedIsIt == BoundedInv <=> OpenTasksBounded
BY DEF BoundedInv, Bounded, Creators, OpenTasksBounded

LEMMA CreatorsFinite ==
    ASSUME NEW k, NEW i
    PROVE  /\ IsFiniteSet(Creators(k, i)) /\ Cardinality(Creators(k, i)) \in Nat
           /\ Cardinality(Creators(k, i)) <= Cardinality(Requests)
           /\ Cardinality(Requests) \in Nat
<1>1. Creators(k, i) \subseteq Requests
  BY DEF Creators
<1> QED
  BY <1>1, RequestsAssumption, FS_Subset, FS_CardinalityType

LEMMA InitBounded == Init => BoundedInv
<1> SUFFICES ASSUME Init, NEW k \in TaskTypes, NEW i \in Items PROVE Bounded(k, i)
  BY DEF BoundedInv
<1>1. open[k][i] = 0
  BY DEF Init
<1> QED
  BY <1>1, CreatorsFinite DEF Bounded

\* With no more tasks and no more creators the bound holds on.
LEMMA BoundedStays ==
    ASSUME TypeOK, NEW k \in TaskTypes, NEW i \in Items, Bounded(k, i),
           open'[k][i] \in Nat, open'[k][i] <= open[k][i],
           Creators(k, i)' \subseteq Creators(k, i)
    PROVE  Bounded(k, i)'
<1>1. /\ Cardinality(Creators(k, i)') <= Cardinality(Creators(k, i))
      /\ Cardinality(Creators(k, i)') \in Nat
  BY CreatorsFinite, FS_Subset, FS_CardinalityType
<1>2. open[k][i] \in Nat
  BY DEF TypeOK
<1> QED
  BY <1>1, <1>2, CreatorsFinite DEF Bounded

LEMMA NextBounded == TypeOK /\ TypeOK' /\ BoundedInv /\ [Next]_vars => BoundedInv'
<1> SUFFICES ASSUME TypeOK, TypeOK', BoundedInv, [Next]_vars, NEW k \in TaskTypes, NEW i \in Items
             PROVE  Bounded(k, i)'
  BY DEF BoundedInv
<1>1. Bounded(k, i) /\ open[k][i] \in Nat /\ open'[k][i] \in Nat
  BY DEF BoundedInv, TypeOK
<1>2. ASSUME UNCHANGED open,
             \A r \in Requests : req'[r].pc = "create" => req[r].pc = "create" /\ Wanted(r)' = Wanted(r)
      PROVE  Bounded(k, i)'
  <2>1. Creators(k, i)' \subseteq Creators(k, i)
    BY <1>2 DEF Creators
  <2> QED
    BY <1>1, <1>2, <2>1, BoundedStays
<1>3. ASSUME NEW r \in Requests, req' = [req EXCEPT ![r] = Idle]
      PROVE  \A s \in Requests : req'[s].pc = "create" => /\ s # r /\ req[s].pc = "create"
                                                         /\ Wanted(s)' = Wanted(s)
  BY <1>3 DEF TypeOK, Idle, Wanted
<1>4. ASSUME NEW r \in Requests, ReadItem(r) \/ ReadRemoval(r) PROVE Bounded(k, i)'
  <2>1. UNCHANGED open /\ req'[r].pc # "create" /\ \A s \in Requests \ {r} : req'[s] = req[s]
    <3>1. CASE ReadItem(r)
      BY <3>1 DEF ReadItem, TypeOK
    <3>2. CASE ReadRemoval(r)
      <4>1. PICK j \in Items : req' = [req EXCEPT ![r] = [Idle EXCEPT !.pc = "remove", !.item = j]]
        BY <3>2 DEF ReadRemoval
      <4> DEFINE taken == [Idle EXCEPT !.pc = "remove", !.item = j]
      <4>2. taken.pc = "remove"
        BY DEF Idle
      <4>3. req' = [req EXCEPT ![r] = taken]
        BY <4>1
      <4> HIDE DEF taken
      <4> QED
        BY <3>2, <4>2, <4>3 DEF ReadRemoval, TypeOK
    <3> QED
      BY <1>4, <3>1, <3>2
  <2> QED
    BY <1>2, <2>1 DEF Wanted
<1>5. ASSUME NEW r \in Requests, WriteItem(r) \/ RemoveItem(r) PROVE Bounded(k, i)'
  <2>1. /\ UNCHANGED open /\ req'[r].pc # "create"
        /\ \A s \in Requests \ {r} : req'[s] = Overtake(req[r].item)[s]
    BY <1>5, OvertakeType DEF WriteItem, RemoveItem, TypeOK, RequestState, Idle
  <2> QED
    BY <1>2, <2>1, OvertakeType DEF TypeOK, Wanted
<1>6. ASSUME NEW r \in Requests, SearchTask(r) PROVE Bounded(k, i)'
  <2>1. UNCHANGED open
    BY <1>6 DEF SearchTask
  <2>2. CASE req' = [req EXCEPT ![r] = Idle]
    BY <1>2, <1>3, <2>1, <2>2
  <2>3. CASE req' = [req EXCEPT ![r].pc = "create"] /\ ~ HasOpenTask(req[r].task, req[r].item)
    <3>1. /\ req'[r] = [req[r] EXCEPT !.pc = "create"] /\ req[r] \in RequestState
          /\ \A s \in Requests \ {r} : req'[s] = req[s]
      BY <2>3 DEF TypeOK
    <3>2. Wanted(r)' = Wanted(r)
      BY <3>1 DEF Wanted, RequestState
    <3>3. CASE Wanted(r) = <<k, i>>
      <4>1. open'[k][i] = 0
        BY <1>1, <2>1, <2>3, <3>3 DEF HasOpenTask, Wanted
      <4>2. Creators(k, i)' \subseteq Requests
        BY DEF Creators
      <4>3. /\ Cardinality(Creators(k, i)') <= Cardinality(Requests)
            /\ Cardinality(Creators(k, i)') \in Nat /\ Cardinality(Requests) \in Nat
        BY <4>2, RequestsAssumption, FS_Subset, FS_CardinalityType
      <4> QED
        BY <4>1, <4>3 DEF Bounded
    <3>4. CASE Wanted(r) # <<k, i>>
      <4>1. Creators(k, i)' \subseteq Creators(k, i)
        BY <3>1, <3>2, <3>4 DEF Creators, Wanted
      <4> QED
        BY <1>1, <2>1, <4>1, BoundedStays
    <3> QED
      BY <3>3, <3>4
  <2> QED
    BY <1>6, <2>2, <2>3 DEF SearchTask
<1>7. ASSUME NEW r \in Requests, CreateTask(r) PROVE Bounded(k, i)'
  <2>1. req[r].task \in TaskTypes /\ req[r].item \in Items
    BY <1>7 DEF TypeOK, CreateTask, MakingTask
  <2>2. \A s \in Requests : req'[s].pc = "create" => /\ s # r /\ req[s].pc = "create"
                                                    /\ Wanted(s)' = Wanted(s)
    BY <1>3, <1>7 DEF CreateTask
  <2>3. CASE Wanted(r) = <<k, i>>
    <3>1. open'[k][i] = open[k][i] + 1
      BY <1>7, <2>1, <2>3 DEF CreateTask, TypeOK, Wanted
    <3>2. Creators(k, i)' \subseteq Creators(k, i) \ {r} /\ r \in Creators(k, i)
      BY <1>7, <2>2, <2>3 DEF Creators, CreateTask
    <3>3. /\ IsFiniteSet(Creators(k, i) \ {r})
          /\ Cardinality(Creators(k, i) \ {r}) = Cardinality(Creators(k, i)) - 1
      BY <3>2, CreatorsFinite, FS_RemoveElement
    <3>4. /\ Cardinality(Creators(k, i)') <= Cardinality(Creators(k, i) \ {r})
          /\ Cardinality(Creators(k, i)') \in Nat
      BY <3>2, <3>3, FS_Subset, FS_CardinalityType
    <3> QED
      BY <1>1, <3>1, <3>3, <3>4, CreatorsFinite DEF Bounded
  <2>4. CASE Wanted(r) # <<k, i>>
    <3>1. open'[k][i] = open[k][i]
      BY <1>7, <2>1, <2>4 DEF CreateTask, TypeOK, Wanted
    <3>2. Creators(k, i)' \subseteq Creators(k, i)
      BY <2>2 DEF Creators
    <3> QED
      BY <1>1, <3>1, <3>2, BoundedStays
  <2> QED
    BY <2>3, <2>4
<1>8. ASSUME NEW r \in Requests, FindRemoved(r) \/ RequestFails(r) \/ TaskFails(r) PROVE Bounded(k, i)'
  BY <1>2, <1>3, <1>8 DEF FindRemoved, RequestFails, TaskFails
<1>9. ASSUME NEW j \in Items, RejectOutreach(j) PROVE Bounded(k, i)'
  <2>1. open'[k][i] <= open[k][i]
    BY <1>1, <1>9 DEF RejectOutreach, TypeOK, TaskTypes
  <2>2. Creators(k, i)' = Creators(k, i)
    BY <1>9 DEF RejectOutreach, Creators, Wanted
  <2> QED
    BY <1>1, <2>1, <2>2, BoundedStays
<1>10. CASE Restart
  BY <1>2, <1>10 DEF Restart, Idle
<1>11. CASE UNCHANGED vars
  BY <1>2, <1>11 DEF vars, Wanted
<1> QED
  BY <1>4, <1>5, <1>6, <1>7, <1>8, <1>9, <1>10, <1>11 DEF Next

\* Looking for a task before making one bounds the tasks of a kind for an item by the
\* requests that can overlap, and by no less: it is no "only once per job/candidate".
THEOREM TasksBounded == Spec => []OpenTasksBounded
<1> QED
  BY InitType, NextType, InitBounded, NextBounded, BoundedIsIt, PTL DEF Spec
==============================================================================

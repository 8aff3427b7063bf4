---------------------------- MODULE MCEventually ----------------------------
(***************************************************************************)
(* What must happen in the end, for five parts that touch none of each     *)
(* other's state in these instances: follow-ups, stuck tasks, approvals,   *)
(* CSCS checks, the console.  They share a run, not a state space: scene   *)
(* says which one moves.  The fairness is that of the modules, each in its *)
(* scene.                                                                  *)
(***************************************************************************)
EXTENDS FollowUps, TLC

CONSTANTS c1, t1, t2,              \* a conversation and tasks
          s1, s2,                  \* scans of the stuck task monitor
          m1, tA, tB,              \* a message and texts
          o1, o2, w1, w2,          \* operators' requests and jobs
          b1, q1,                  \* a booking and a request
          c2                       \* another conversation

VARIABLES
    scene,
    waiting, paused, marked, stuckScan, time, stuckFaults,
    task, conv, outbound, queue, operator, worker, inbound, used, hist,
    card, payload, confirmed, req, job, photo, cardHist, cardUsed,
    server, fresh, view, panel, locked, calls, toasts, consoleUsed

stuckVars == <<waiting, paused, marked, stuckScan, time, stuckFaults>>

approvalVars == <<task, conv, outbound, queue, operator, worker, inbound, used, hist>>

cardVars == <<card, payload, confirmed, req, job, photo, cardHist, cardUsed>>

consoleVars == <<server, fresh, view, panel, locked, calls, toasts, consoleUsed>>

allVars == <<scene, vars, stuckVars, approvalVars, cardVars, consoleVars>>

\* Only one of the two tasks is of the type that needs an approval.
Stuck == INSTANCE StuckTasks WITH
    Tasks <- {t1, t2}, Agency <- (t1 :> "a" @@ t2 :> "b"), Approvals <- {t1},
    Scans <- {s1, s2}, Threshold <- 1, MaxTime <- 1, MaxFaults <- 1,
    task <- waiting, scan <- stuckScan, faults <- stuckFaults

\* The AI has a text, asks for information, or escalates (as good as no action).
Approval == INSTANCE ApprovalWorkflow WITH
    Tasks <- {t1}, Conversations <- {c1}, Messages <- {m1}, Texts <- {tA, tB},
    Proposals <- {[kind |-> "SEND_MESSAGE", text |-> tA], [kind |-> "REQUEST_INFO", text |-> None],
                  [kind |-> "ESCALATE", text |-> None]},
    Operators <- {o1, o2}, Workers <- {w1, w2}, MaxRetries <- 2,
    MaxFaults <- 0, MaxCrashes <- 0, MaxCallbacks <- 0

Card == INSTANCE CscsVerification WITH
    Tasks <- {t1}, Bookings <- {b1}, Requests <- {q1}, Photos <- {}, Attempts <- 2,
    MaxStalls <- 1, MaxFaults <- 2, MaxCrashes <- 2,
    task <- card, hist <- cardHist, used <- cardUsed

\* A conversation with a task, and one without.
Console == INSTANCE OperatorConsole WITH
    Conversations <- {c1, c2}, Tasks <- {1}, Of <- (1 :> c1),
    Texts <- {}, Edits <- {}, Fallback <- "fallback", Blank <- "",
    MaxCalls <- 2, MaxTouches <- 2, MaxNews <- 1, MaxFaults <- 1,
    used <- consoleUsed

ASSUME Stuck!StuckAssumption /\ Console!ConsoleAssumption

MCInit ==
    /\ scene \in {"followUps", "stuck", "approvals", "checks", "console"}
    /\ Init /\ Stuck!Init /\ Approval!Init /\ Card!Init /\ Console!Init

MCNext ==
    /\ UNCHANGED scene
    /\ \/ scene = "followUps" /\ Next /\ UNCHANGED <<stuckVars, approvalVars, cardVars, consoleVars>>
       \/ scene = "stuck" /\ Stuck!Next /\ UNCHANGED <<vars, approvalVars, cardVars, consoleVars>>
       \/ scene = "approvals" /\ Approval!Next
          /\ UNCHANGED <<vars, stuckVars, cardVars, consoleVars>>
       \/ scene = "checks" /\ Card!Next /\ UNCHANGED <<vars, stuckVars, approvalVars, consoleVars>>
       \/ scene = "console" /\ Console!Next
          /\ UNCHANGED <<vars, stuckVars, approvalVars, cardVars>>

MCFairSpec ==
    /\ MCInit /\ [][MCNext]_allVars
    /\ \A s \in Scans : /\ WF_vars(scene = "followUps" /\ StartScan(s))
                        /\ WF_vars(scene = "followUps" /\ Scanning(s))
    /\ \A s \in {s1, s2} : /\ WF_stuckVars(scene = "stuck" /\ Stuck!StartScan(s))
                           /\ WF_stuckVars(scene = "stuck" /\ Stuck!Scanning(s))
    /\ \A o \in {o1, o2} : WF_approvalVars(scene = "approvals" /\ Approval!Respond(o))
    /\ \A w \in {w1, w2} : WF_approvalVars(scene = "approvals" /\ Approval!WorkerStep(w))
    /\ WF_cardVars(scene = "checks" /\ Card!CheckStep(t1))
    /\ WF_consoleVars(scene = "console" /\ Console!LockEnds)
    /\ WF_consoleVars(scene = "console" /\ Console!Tick)
    /\ WF_consoleVars(scene = "console" /\ Console!Answering)

\* The stuck task monitor: see StuckIsMarked there.
StuckIsMarked == Stuck!StuckIsMarked

\* The approved-task jobs: see JobsDrain there.
JobsDrain == Approval!JobsDrain

\* Approvals: see ApprovalResumes there.
ApprovalResumes == Approval!ApprovalResumes

\* The automatic CSCS check: see CheckEnds there.
CheckEnds == Card!CheckEnds

\* The operator's console: see PanelCatchesUp there.
PanelCatchesUp == scene = "console" => Console!PanelCatchesUp
=============================================================================

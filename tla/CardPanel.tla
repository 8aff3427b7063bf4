----------------------------- MODULE CardPanel -----------------------------
(***************************************************************************)
(* The inbox of the operator console, with the panel in which an operator  *)
(* checks a CSCS card: what is on the card is typed in or comes from the   *)
(* automatic check, the result is saved, and the task approved or          *)
(* rejected.  The panel keeps its fields when another task is opened in    *)
(* it, and answers to its requests move the page wherever it is by then.   *)
(*                                                                         *)
(* Texts are told apart by the task they were typed for: a card, or a      *)
(* reason, is the id of that task.  The three checks are one.              *)
(***************************************************************************)
EXTENDS Integers, FiniteSets

CONSTANTS Tasks,
          None,       \* no task, row or panel
          MaxCalls,   \* bound: requests under way when the operator starts another
          MaxTouches  \* bound: what the operator does

VARIABLES
    server,   \* the tasks: pending or not, the card's data, the result and whose it is
    list,     \* the tasks the list has loaded, as they were then
    selected, \* the task the page has open, as it was when it was got
    panel,    \* the panel's state, None while no task is open
    calls,    \* requests under way, and failed ones that a toast offers to repeat
    touches   \* what the operator has done, up to MaxTouches

vars == <<server, list, selected, panel, calls, touches>>

Unchecked(t) == [task |-> t, pending |-> TRUE, card |-> None, result |-> "UNKNOWN", auto |-> FALSE]

\* A request about the task of a row: what goes out with it, whether the panel that made
\* it is still there, and the answer.
Call(kind, row) ==
    [kind |-> kind, row |-> row, card |-> None, ok |-> FALSE, reason |-> None, own |-> TRUE,
     state |-> "sent", rows |-> {}]

Init ==
    /\ server = [t \in Tasks |-> Unchecked(t)]
    /\ list = {} /\ selected = None /\ panel = None
    /\ calls = {Call("list", None)}
    /\ touches = 0

-----------------------------------------------------------------------------
(* The panel as React renders it.                                          *)

\* Only empty fields are filled from the task.
BuggyFilled(p, row) == IF row.card = None \/ p.card # None THEN p ELSE [p EXCEPT !.card = row.card]

\* Fields are filled from the card's data of the task, and stay if it has none.
Filled(p, row) == IF row.card = None THEN p ELSE [p EXCEPT !.card = row.card]

\* The check box follows the result unless it has been touched.
Synced(p, row) == IF p.dirty THEN p ELSE [p EXCEPT !.ok = (row.result = "VALID")]

Empty == [card |-> None, ok |-> FALSE, dirty |-> FALSE, reason |-> None,
          asks |-> FALSE, mode |-> "idle", saving |-> FALSE, deciding |-> FALSE]

\* The page opens a row, in the panel that is there or in a new one.
Opened(p, row) == Synced(Filled([(IF p = None THEN Empty ELSE p) EXCEPT !.dirty = FALSE], row), row)

Open(row) == selected' = row /\ panel' = Opened(panel, row)

\* With its panel gone, an answer still reaches the page.
Close(cs) ==
    /\ selected' = None /\ panel' = None
    /\ calls' = {[call EXCEPT !.own = FALSE] : call \in cs}

-----------------------------------------------------------------------------
(* The server.                                                             *)

\* The automatic check writes what it read from the card.
AutoCheck(t) ==
    /\ server[t].pending /\ ~ server[t].auto
    /\ \E result \in {"UNKNOWN", "VALID", "INVALID"} :
          server' = [server EXCEPT ![t].auto = TRUE, ![t].result = result,
                                   ![t].card = IF result = "UNKNOWN" THEN @ ELSE t]
    /\ UNCHANGED <<list, selected, panel, calls, touches>>

Decisions == {"approve", "reject"}

Answer(call, state, rows) ==
    calls' = (calls \ {call}) \cup {[call EXCEPT !.state = state, !.rows = rows]}

Pending == {server[t] : t \in {u \in Tasks : server[u].pending}}

\* A result is saved whatever has become of the task; a decision is refused once there is one.
Serve(call) ==
    LET t == call.row.task IN
    /\ call.state = "sent"
    /\ \/ /\ call.kind \in {"list", "poll"}
          /\ Answer(call, "ok", Pending) /\ UNCHANGED server
       \/ /\ call.kind = "save"
          /\ server' = [server EXCEPT ![t].card = call.card,
                                      ![t].result = IF call.ok THEN "VALID" ELSE "INVALID"]
          /\ Answer(call, "ok", {server'[t]})
       \/ /\ call.kind \in Decisions /\ server[t].pending
          /\ server' = [server EXCEPT ![t].pending = FALSE]
          /\ Answer(call, "ok", {})
       \/ /\ call.kind \in Decisions /\ ~ server[t].pending
          /\ Answer(call, "failed", {}) /\ UNCHANGED server
    /\ UNCHANGED <<list, selected, panel, touches>>

-----------------------------------------------------------------------------
(* Answers.                                                                *)

ListArrives(call) ==
    /\ call.kind = "list" /\ call.state = "ok"
    /\ list' = call.rows /\ calls' = calls \ {call}
    /\ UNCHANGED <<server, selected, panel, touches>>

\* A result that has come moves the page to its task, whichever is open by now.
PollArrives(call) ==
    LET news == {row \in call.rows : /\ row.task = call.row.task
                                     /\ row.result # "UNKNOWN" \/ row.auto}
    IN  /\ call.kind = "poll" /\ call.state = "ok"
        /\ calls' = calls \ {call}
        /\ IF news = {} THEN UNCHANGED <<selected, panel>> ELSE \E row \in news : Open(row)
        /\ UNCHANGED <<server, list, touches>>

\* What was saved replaces the card and the result of the row as it was at the click, and
\* moves the page to it: a task decided meanwhile is open again as if it were not.
SaveArrives(call) ==
    /\ call.kind = "save" /\ call.state = "ok"
    /\ calls' = calls \ {call}
    /\ \E saved \in call.rows :
          LET row == [call.row EXCEPT !.card = saved.card, !.result = saved.result,
                                      !.auto = saved.auto]
          IN  /\ selected' = row
              /\ panel' = [Opened(panel, row) EXCEPT !.saving = IF call.own THEN FALSE ELSE @]
    /\ UNCHANGED <<server, list, touches>>

\* After a decision the page closes the task that is open, whichever it is, and loads its list.
DecisionArrives(call) ==
    /\ call.kind \in Decisions /\ call.state = "ok"
    /\ Close((calls \ {call}) \cup {Call("list", None)})
    /\ UNCHANGED <<server, list, touches>>

\* Whoever asked comes to rest, and a toast offers to ask again.
Fails(call) ==
    /\ call.state = "failed"
    /\ panel' = IF panel = None \/ ~ call.own THEN panel
                ELSE IF call.kind = "save" THEN [panel EXCEPT !.saving = FALSE]
                ELSE [panel EXCEPT !.deciding = FALSE, !.mode = "idle"]
    /\ calls' = (calls \ {call}) \cup {[call EXCEPT !.state = "toast"]}
    /\ UNCHANGED <<server, list, selected, touches>>

-----------------------------------------------------------------------------
(* The operator.                                                           *)

Room == Cardinality({call \in calls : call.state \in {"sent", "ok"}}) < MaxCalls

Touch == touches < MaxTouches /\ touches' = touches + 1

Select(row) ==
    /\ Touch /\ Open(row)
    /\ UNCHANGED <<server, list, calls>>

\* Another tab, or the conversation is closed.
Leave ==
    /\ Touch /\ selected # None /\ Close(calls)
    /\ UNCHANGED <<server, list>>

Change(p) == Touch /\ panel' = p /\ UNCHANGED <<server, list, selected, calls>>

Type ==
    /\ panel # None
    /\ Change([panel EXCEPT !.card = selected.task])

Tick(ok) ==
    /\ panel # None
    /\ Change([panel EXCEPT !.ok = ok, !.dirty = TRUE])

TypeReason ==
    /\ panel # None /\ panel.asks /\ selected.result = "VALID"
    /\ Change([panel EXCEPT !.reason = selected.task])

\* Every two seconds until there is a result: the limit of thirty seconds is only looked at
\* when the timer starts.
Poll ==
    /\ Room
    /\ panel # None /\ selected.result = "UNKNOWN" /\ ~ selected.auto
    /\ calls' = calls \cup {Call("poll", selected)}
    /\ UNCHANGED <<server, list, selected, panel, touches>>

Save ==
    /\ Room /\ Touch
    /\ panel # None /\ ~ panel.saving
    /\ calls' = calls \cup {[Call("save", selected) EXCEPT !.card = panel.card, !.ok = panel.ok]}
    /\ panel' = [panel EXCEPT !.saving = TRUE]
    /\ UNCHANGED <<server, list, selected>>

\* The buttons there are, all of them disabled while a decision is under way, after one, and
\* while an asked for reason is missing.
Offered(kind) ==
    /\ panel # None /\ selected.pending /\ ~ panel.deciding
    /\ selected.result \in (IF kind = "approve" THEN {"VALID"} ELSE {"VALID", "INVALID"})
    /\ ~ (panel.asks /\ selected.result = "VALID" /\ panel.reason = None)

Click(kind) ==
    /\ Offered(kind) /\ panel.mode = "idle"
    /\ Change([panel EXCEPT !.mode = kind])

Cancel ==
    /\ panel # None /\ panel.mode # "idle"
    /\ panel' = [panel EXCEPT !.mode = "idle"]
    /\ UNCHANGED <<server, list, selected, calls, touches>>

\* A first rejection of a valid card only asks for a reason.
AskReason ==
    /\ Offered("reject") /\ panel.mode = "reject"
    /\ selected.result = "VALID" /\ ~ panel.asks
    /\ panel' = [panel EXCEPT !.asks = TRUE, !.mode = "idle"]
    /\ UNCHANGED <<server, list, selected, calls, touches>>

Decide(kind) ==
    /\ Room /\ Offered(kind) /\ panel.mode = kind
    /\ kind = "approve" \/ selected.result = "INVALID" \/ panel.asks
    /\ calls' = calls \cup
          {[Call(kind, selected) EXCEPT !.reason = IF kind = "reject" THEN panel.reason ELSE None]}
    /\ panel' = [panel EXCEPT !.deciding = TRUE]
    /\ UNCHANGED <<server, list, selected, touches>>

Retry(call) ==
    /\ Room /\ call.state = "toast"
    /\ calls' = (calls \ {call}) \cup {[call EXCEPT !.state = "sent"]}
    /\ panel' = IF panel = None \/ ~ call.own THEN panel
                ELSE IF call.kind = "save" THEN [panel EXCEPT !.saving = TRUE]
                ELSE [panel EXCEPT !.deciding = TRUE]
    /\ UNCHANGED <<server, list, selected, touches>>

Dismiss(call) ==
    /\ call.state = "toast" /\ calls' = calls \ {call}
    /\ UNCHANGED <<server, list, selected, panel, touches>>

Next ==
    \/ \E t \in Tasks : AutoCheck(t)
    \/ \E call \in calls : \/ Serve(call) \/ ListArrives(call) \/ PollArrives(call)
                           \/ SaveArrives(call) \/ DecisionArrives(call) \/ Fails(call)
                           \/ Retry(call) \/ Dismiss(call)
    \/ \E row \in list : Select(row)
    \/ Leave \/ Type \/ TypeReason \/ (\E ok \in BOOLEAN : Tick(ok))
    \/ Poll \/ Save \/ Cancel \/ AskReason
    \/ \E kind \in Decisions : Click(kind) \/ Decide(kind)

Spec == Init /\ [][Next]_vars

-----------------------------------------------------------------------------
(* Properties.                                                             *)

TypeOK ==
    /\ \A t \in Tasks : /\ server[t].task = t /\ server[t].card \in Tasks \cup {None}
                        /\ server[t].result \in {"UNKNOWN", "VALID", "INVALID"}
    /\ (selected = None) <=> (panel = None)
    /\ touches \in 0..MaxTouches

\* The card of another candidate is saved for a task only if the page knew none of its own
\* when it opened the task, so that the fields kept the other one, or came by it from the
\* task itself.  (The panel shows what it saves.)
CardsStayApart ==
    \A call \in calls :
        call.kind = "save" => call.card \in {None, call.row.task, call.row.card}
                              \/ call.row.card = None
======================================================================================================================================================

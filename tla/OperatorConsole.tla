-------------------------- MODULE OperatorConsole --------------------------
(***************************************************************************)
(* The messages page of the operator console.  The operator selects a      *)
(* conversation; the page shows it, and in a panel the newest task of it   *)
(* that waits for approval, with a suggested reply to edit, to approve or  *)
(* to reject.  The page polls, and its requests may be answered late and   *)
(* in any order.  The panel is one React component for whatever task is    *)
(* shown: its state lives on when the task changes.                        *)
(*                                                                         *)
(* Tasks are numbered by age.  Rejection reasons are left out.             *)
(***************************************************************************)
EXTENDS Integers, FiniteSets

CONSTANTS Conversations,
          Tasks,        \* approval tasks, by age
          Of,           \* the conversation of a task
          Texts,        \* suggestions of the AI
          Edits,        \* what the operator may type
          Fallback,     \* what the panel shows when there is no suggestion
          Blank,        \* the empty text
          None,
          MaxCalls,     \* bound: requests under way when the operator starts another
          MaxTouches,   \* bound: what the operator does: selects, types, clicks, comes back, scrolls
          MaxNews,      \* bound: tasks created and suggestions replaced by inbound messages
          MaxFaults     \* bound: requests that fail

ConsoleAssumption ==
    /\ Tasks \subseteq Nat /\ Of \in [Tasks -> Conversations]
    /\ None \notin Texts /\ Fallback \notin Texts /\ Blank \notin Texts
    /\ {MaxCalls, MaxTouches, MaxNews, MaxFaults} \subseteq Nat

VARIABLES
    server,   \* the tasks: status and suggestion
    fresh,    \* conversations that changed since the page last listed them (that it has
              \* also loaded one since is left out: it is then loaded once more)
    view,     \* the page: conversation selected, conversation and task shown, last task id,
              \* and whether an error takes the place of the list
    panel,    \* the panel's state, None while it shows no task
    locked,   \* polling waits after a click or a scroll
    calls,    \* requests under way
    toasts,   \* failed decisions that offer to be retried
    used      \* how often the bounded things have happened

vars == <<server, fresh, view, panel, locked, calls, toasts, used>>

Init ==
    /\ server = [t \in Tasks |-> [status |-> "none", text |-> None]]
    /\ fresh = {}
    /\ view = [selected |-> None, conv |-> None, shown |-> None, lastId |-> None,
               error |-> FALSE]
    /\ panel = None
    /\ locked = FALSE
    /\ calls = {} /\ toasts = {}
    /\ used = [touches |-> 0, news |-> 0, faults |-> 0]

-----------------------------------------------------------------------------
(* The server, as the page sees it.                                        *)

\* An inbound message creates a task of its conversation or replaces its suggestion.
News(t) ==
    /\ used.news < MaxNews /\ used' = [used EXCEPT !.news = @ + 1]
    /\ server[t].status \in {"none", "pending"}
    /\ \E text \in Texts \cup {None} :
          server' = [server EXCEPT ![t] = [status |-> "pending", text |-> text]]
    /\ fresh' = fresh \cup {Of[t]}
    /\ UNCHANGED <<view, panel, locked, calls, toasts>>

\* The newest pending task of a conversation.
PendingApproval(c) ==
    LET pending == {t \in Tasks : Of[t] = c /\ server[t].status = "pending"}
    IN  IF pending = {} THEN None
        ELSE LET t == CHOOSE t \in pending : \A u \in pending : u <= t
             IN  [task |-> t, text |-> server[t].text]

-----------------------------------------------------------------------------
(* Rendering.                                                              *)

Visible(v) == v.selected # None /\ v.conv # None /\ v.shown # None

Suggested(shown) == IF shown.text = None THEN Fallback ELSE shown.text

NotTyped == [task |-> None, suggested |-> None]

Mounted(shown) ==
    [suggested |-> Suggested(shown), edited |-> Suggested(shown), typed |-> NotTyped,
     mode |-> "idle", loading |-> FALSE]

\* The panel keeps its text when another task is shown.
BuggyRendered(p, v) ==
    IF ~ Visible(v) THEN None
    ELSE IF p = None THEN Mounted(v.shown) ELSE [p EXCEPT !.suggested = Suggested(v.shown)]

\* The panel after the page changed: gone, new, or the old one, whose text is reset only if
\* the suggestion differs.
Rendered(p, v) ==
    IF ~ Visible(v) THEN None
    ELSE IF p = None THEN Mounted(v.shown)
    ELSE IF p.suggested # Suggested(v.shown)
         THEN [p EXCEPT !.suggested = Suggested(v.shown), !.edited = Suggested(v.shown),
                        !.typed = NotTyped]
    ELSE p

\* The page becomes v.  What a vanished panel waits for comes back to nobody.
Show(v, p) ==
    /\ view' = v
    /\ panel' = Rendered(p, v)

Orphaned(cs, p) == IF p # None THEN cs ELSE {[call EXCEPT !.from = "page"] : call \in cs}

-----------------------------------------------------------------------------
(* Requests.                                                               *)

Call(kind, conv) ==
    [kind |-> kind, conv |-> conv, task |-> None, text |-> None, typed |-> NotTyped,
     suggested |-> None, from |-> "page", state |-> "sent", shown |-> None]

Decisions == {"approve", "reject"}

Room == Cardinality(calls) < MaxCalls

Touch == used.touches < MaxTouches /\ used' = [used EXCEPT !.touches = @ + 1]

\* A click into the list: outside of the buttons, so that a confirmation is cancelled.  The
\* new selection is loaded twice, by two effects, and with the second one the list.
Select(c) ==
    /\ Room /\ Touch /\ c # view.selected /\ ~ view.error
    /\ Show([view EXCEPT !.selected = c],
            IF panel = None THEN None ELSE [panel EXCEPT !.mode = "idle"])
    /\ locked' = TRUE
    /\ fresh' = {}
    /\ calls' = calls \cup {Call("detail", c), Call("reload", c)}
    /\ UNCHANGED <<server, toasts>>

\* The operator comes back to the page: everything is loaded again.
Return ==
    /\ Room /\ Touch /\ view.selected # None
    /\ fresh' = {}
    /\ calls' = calls \cup {Call("reload", view.selected)}
    /\ UNCHANGED <<server, view, panel, locked, toasts>>

Scroll ==
    /\ Touch /\ view.selected # None /\ locked' = TRUE
    /\ UNCHANGED <<server, fresh, view, panel, calls, toasts>>

LockEnds ==
    /\ locked /\ locked' = FALSE
    /\ UNCHANGED <<server, fresh, view, panel, calls, toasts, used>>

Ticking == \E call \in calls : call.kind \in {"poll", "refresh"}

\* One turn of the poll: the list, the detail if it has changed, then the pending task.
Tick ==
    /\ ~ locked /\ ~ Ticking
    /\ view.selected # None
    /\ fresh' = {}
    /\ calls' = calls \cup {Call(IF view.selected \in fresh THEN "refresh" ELSE "poll",
                                 view.selected)}
    /\ UNCHANGED <<server, view, panel, locked, toasts, used>>

\* The server answers; a decision is taken when the task is pending, and refused if not.
Serve(call) ==
    /\ call.state = "sent"
    /\ \/ /\ call.kind \in {"detail", "reload", "refresh"}
          /\ calls' = (calls \ {call}) \cup {[call EXCEPT !.state = "ok"]}
          /\ UNCHANGED <<server, fresh>>
       \/ /\ call.kind \in {"pending", "poll", "after"}
          /\ calls' = (calls \ {call}) \cup {[call EXCEPT !.state = "ok",
                                                          !.shown = PendingApproval(call.conv)]}
          /\ UNCHANGED <<server, fresh>>
       \/ /\ call.kind \in Decisions /\ server[call.task].status = "pending"
          /\ server' = [server EXCEPT ![call.task].status = "decided"]
          /\ fresh' = fresh \cup {Of[call.task]}
          /\ calls' = (calls \ {call}) \cup {[call EXCEPT !.state = "ok"]}
       \/ /\ call.kind \in Decisions /\ server[call.task].status # "pending"
          /\ calls' = (calls \ {call}) \cup {[call EXCEPT !.state = "failed"]}
          /\ UNCHANGED <<server, fresh>>
    /\ UNCHANGED <<view, panel, locked, toasts, used>>

\* A request or its answer is lost; of a request that only reads it does not matter which.
Lose(call) ==
    /\ call.state = "sent" \/ (call.state = "ok" /\ call.kind \in Decisions)
    /\ used.faults < MaxFaults /\ used' = [used EXCEPT !.faults = @ + 1]
    /\ calls' = (calls \ {call}) \cup {[call EXCEPT !.state = "failed"]}
    /\ UNCHANGED <<server, fresh, view, panel, locked, toasts>>

Answered(call) == call.state = "ok"

\* The page keeps its task when there is none any more.
BuggyWithTask(v, shown) ==
    IF shown = None THEN v ELSE [v EXCEPT !.shown = shown, !.lastId = shown.task]

\* A page whose task becomes another one only when its id does.
WithTask(v, shown) ==
    LET id == IF shown = None THEN None ELSE shown.task
    IN  IF id = v.lastId THEN v ELSE [v EXCEPT !.shown = shown, !.lastId = id]

\* What is asked for after the conversation: the task of the conversation selected by now,
\* in a poll unless the operator has clicked or scrolled meanwhile.
Following(call) ==
    IF call.kind # "refresh" THEN {Call("pending", view.selected)}
    ELSE IF locked THEN {} ELSE {Call("poll", view.selected)}

\* The conversation is shown whichever is selected by now.
DetailArrives(call) ==
    /\ call.kind \in {"detail", "reload", "refresh"} /\ Answered(call)
    /\ Show([view EXCEPT !.conv = call.conv], panel)
    /\ calls' = (calls \ {call}) \cup Following(call)
    /\ UNCHANGED <<server, fresh, locked, toasts, used>>

TaskArrives(call) ==
    /\ call.kind \in {"pending", "poll"} /\ Answered(call)
    /\ LET v == WithTask(view, call.shown)
       IN  /\ Show(v, panel)
           /\ calls' = Orphaned(calls \ {call}, panel') /\ toasts' = Orphaned(toasts, panel')
    /\ UNCHANGED <<server, fresh, locked, used>>

\* The refetch after a decision shows the conversation that was selected at its click.
RefetchArrives(call) ==
    /\ call.kind = "after" /\ Answered(call)
    /\ LET v == [view EXCEPT !.conv = call.conv, !.shown = call.shown,
                             !.lastId = IF call.shown = None THEN None ELSE call.shown.task]
       IN  /\ Show(v, panel)
           /\ calls' = Orphaned(calls \ {call}, panel') /\ toasts' = Orphaned(toasts, panel')
    /\ UNCHANGED <<server, fresh, locked, used>>

\* A failed first load takes the task away and the list of conversations, for good; a failed
\* refresh still polls for the task, and the others leave things as they are.
LoadFails(call) ==
    /\ call.kind \notin Decisions /\ call.state = "failed"
    /\ LET v    == IF call.kind # "detail" THEN view
                   ELSE [view EXCEPT !.shown = None, !.lastId = None, !.error = TRUE]
           rest == IF call.kind = "refresh" THEN Following(call) ELSE {}
       IN  /\ Show(v, panel)
           /\ calls' = Orphaned((calls \ {call}) \cup rest, panel')
           /\ toasts' = Orphaned(toasts, panel')
    /\ UNCHANGED <<server, fresh, locked, used>>

-----------------------------------------------------------------------------
(* The panel.                                                              *)

Type(text) ==
    /\ panel # None /\ Touch /\ text # panel.edited
    /\ panel' = [panel EXCEPT !.edited = text, !.typed = [task |-> view.shown.task,
                                                          suggested |-> panel.suggested]]
    /\ UNCHANGED <<server, fresh, view, locked, calls, toasts>>

Reset ==
    /\ panel # None
    /\ panel' = [panel EXCEPT !.edited = panel.suggested, !.typed = NotTyped]
    /\ UNCHANGED <<server, fresh, view, locked, calls, toasts, used>>

\* The text that goes with an approval: none if it is the suggestion, or blank.
Override == IF panel.edited \in {panel.suggested, Blank} THEN None ELSE panel.edited

Decision(kind, from) ==
    [Call(kind, view.selected) EXCEPT
        !.task = view.shown.task, !.text = IF kind = "approve" THEN Override ELSE None,
        !.typed = panel.typed, !.suggested = panel.suggested, !.from = from]

Decide(kind, from) ==
    /\ Room /\ Touch
    /\ calls' = calls \cup {Decision(kind, from)}
    /\ panel' = [panel EXCEPT !.loading = TRUE]
    /\ UNCHANGED <<server, fresh, view, locked, toasts>>

Confirming(kind) == IF kind = "approve" THEN "confirmApprove" ELSE "confirmReject"

\* The first click asks for a second one, of whatever task is shown by then.
Click(kind) ==
    /\ panel # None /\ ~ panel.loading /\ panel.mode = "idle" /\ Touch
    /\ panel' = [panel EXCEPT !.mode = Confirming(kind)]
    /\ UNCHANGED <<server, fresh, view, locked, calls, toasts>>

Confirm(kind) ==
    /\ panel # None /\ ~ panel.loading /\ panel.mode = Confirming(kind)
    /\ Decide(kind, "buttons")

\* Five seconds, the escape key, a click elsewhere or the button.
Cancel ==
    /\ panel # None /\ panel.mode # "idle"
    /\ panel' = [panel EXCEPT !.mode = "idle"]
    /\ UNCHANGED <<server, fresh, view, locked, calls, toasts, used>>

\* The keys A and R decide at once.
Key(kind) ==
    /\ panel # None /\ ~ panel.loading
    /\ Decide(kind, "keys")

\* The panel comes to rest, if it is the one that decided, and its buttons if they did.
Released(call) ==
    IF panel = None \/ call.from = "page" THEN panel
    ELSE [panel EXCEPT !.loading = FALSE, !.mode = IF call.from = "buttons" THEN "idle" ELSE @]

DecisionDone(call) ==
    /\ call.kind \in Decisions /\ Answered(call)
    /\ panel' = Released(call)
    /\ calls' = (calls \ {call}) \cup {Call("after", call.conv)}
    /\ UNCHANGED <<server, fresh, view, locked, toasts, used>>

DecisionFails(call) ==
    /\ call.kind \in Decisions /\ call.state = "failed"
    /\ panel' = Released(call)
    /\ calls' = calls \ {call}
    /\ toasts' = toasts \cup {[call EXCEPT !.state = "sent",
                                                !.from = IF @ = "page" THEN @ ELSE "keys"]}
    /\ UNCHANGED <<server, fresh, view, locked, used>>

\* The toast repeats the call as it was, whatever is shown or under way by now.
Retry(call) ==
    /\ Room /\ Touch
    /\ toasts' = toasts \ {call}
    /\ calls' = calls \cup {call}
    /\ panel' = IF panel = None \/ call.from = "page" THEN panel
                ELSE [panel EXCEPT !.loading = TRUE]
    /\ UNCHANGED <<server, fresh, view, locked>>

Dismiss(call) ==
    /\ toasts' = toasts \ {call}
    /\ UNCHANGED <<server, fresh, view, panel, locked, calls, used>>

Arrives(call) ==
    DetailArrives(call) \/ TaskArrives(call) \/ RefetchArrives(call) \/ LoadFails(call)
    \/ DecisionDone(call) \/ DecisionFails(call)

Next ==
    \/ \E t \in Tasks : News(t)
    \/ \E c \in Conversations : Select(c)
    \/ Return \/ Scroll \/ LockEnds \/ Tick
    \/ \E call \in calls : Serve(call) \/ Lose(call) \/ Arrives(call)
    \/ (\E text \in Edits : Type(text)) \/ Reset
    \/ \E kind \in Decisions : Click(kind) \/ Confirm(kind) \/ Key(kind)
    \/ Cancel
    \/ \E call \in toasts : Retry(call) \/ Dismiss(call)

Spec == Init /\ [][Next]_vars

Answering == \E call \in calls : Serve(call) \/ Arrives(call)

\* The timers of the page run, and some request is answered while there are any.
Fairness == WF_vars(LockEnds) /\ WF_vars(Tick) /\ WF_vars(Answering)

FairSpec == Spec /\ Fairness

-----------------------------------------------------------------------------
(* Properties.                                                             *)

TypeOK ==
    /\ \A t \in Tasks : server[t].status \in {"none", "pending", "decided"}
    /\ fresh \subseteq Conversations
    /\ view.selected \in Conversations \cup {None} /\ view.conv \in Conversations \cup {None}
    /\ view.lastId = IF view.shown = None THEN None ELSE view.shown.task
    /\ (panel # None) <=> Visible(view)
    /\ panel # None => panel.mode \in {"idle", "confirmApprove", "confirmReject"}
    /\ toasts \subseteq {call \in toasts : call.kind \in Decisions}

\* A text the operator typed goes out with the task it was typed for; with another one only
\* if the panel suggested the same text for both, so that it did not notice the change.
EditsStayWithTask ==
    \A call \in calls \cup toasts :
        call.text # None => \/ call.typed.task = call.task
                            \/ call.typed.suggested = call.suggested

\* While a conversation stays selected, the task shown is again and again one of that
\* conversation or none, whatever late answers show meanwhile.
PanelCatchesUp ==
    \A c \in Conversations :
        <>[](view.selected = c)
        => []<>(view.selected = c /\ (view.shown = None \/ Of[view.shown.task] = c))
=============================================================================

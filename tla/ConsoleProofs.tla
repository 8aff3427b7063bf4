---------------------------- MODULE ConsoleProofs ----------------------------
(***************************************************************************)
(* Proofs about the pages of the operator console, whose forms outlive the *)
(* task they were opened for: what an operator typed goes out with the     *)
(* task it was typed for, on the messages page and in the panel of the     *)
(* cards.                                                                  *)
(***************************************************************************)
EXTENDS OperatorForms, WellFoundedInduction, TLAPS

-----------------------------------------------------------------------------
(* The panel of the cards.                                                 *)

PanelFields == {"card", "ok", "dirty", "reason", "asks", "mode", "saving", "deciding"}

CallFields == {"kind", "row", "card", "ok", "reason", "own", "state", "rows"}

\* The card in the panel is that of the task which is open, as far as the page knows one.
OwnCard ==
    cardPanel # Nothing => /\ DOMAIN cardPanel = PanelFields
                        /\ \/ selected.card = Nothing
                           \/ cardPanel.card \in {Nothing, selected.task, selected.card}

\* So is the card in a request to save.
OwnSave(call) ==
    /\ DOMAIN call = CallFields
    /\ call.kind = "save" => call.card \in {Nothing, call.row.task, call.row.card}
                             \/ call.row.card = Nothing

CardsInv == OwnCard /\ \A call \in cardCalls : OwnSave(call)

\* A request starts without a card.
LEMMA NewCall ==
    ASSUME NEW kind, NEW row
    PROVE  /\ DOMAIN Cards!Call(kind, row) = CallFields
           /\ Cards!Call(kind, row).kind = kind
           /\ Cards!Call(kind, row).row = row
           /\ Cards!Call(kind, row).card = Nothing
BY DEF Cards!Call, CallFields

\* Filling the fields from a row makes the row's card the panel's.
LEMMA OpenedShows ==
    ASSUME NEW p, p = Nothing \/ DOMAIN p = PanelFields, NEW row
    PROVE  /\ DOMAIN Cards!Opened(p, row) = PanelFields
           /\ row.card = Nothing \/ Cards!Opened(p, row).card = row.card
<1> DEFINE q == [(IF p = Nothing THEN Cards!Empty ELSE p) EXCEPT !.dirty = FALSE]
           f == Cards!Filled(q, row)
<1>1. DOMAIN q = PanelFields
  <2>1. DOMAIN Cards!Empty = PanelFields
    BY DEF Cards!Empty, PanelFields
  <2> QED
    BY <2>1
<1> HIDE DEF q
<1>2. DOMAIN f = PanelFields /\ (row.card = Nothing \/ f.card = row.card)
  BY <1>1 DEF Cards!Filled, PanelFields
<1> HIDE DEF f
<1>3. DOMAIN Cards!Synced(f, row) = PanelFields /\ Cards!Synced(f, row).card = f.card
  BY <1>2 DEF Cards!Synced, PanelFields
<1>4. Cards!Opened(p, row) = Cards!Synced(f, row)
  BY DEF Cards!Opened, q, f
<1> QED
  BY <1>2, <1>3, <1>4

\* An answer, a toast or a panel that is gone change nothing of what was sent.
LEMMA SameSave ==
    ASSUME NEW call, OwnSave(call), NEW other, DOMAIN other = DOMAIN call,
           other.kind = call.kind, other.row = call.row, other.card = call.card
    PROVE  OwnSave(other)
BY DEF OwnSave

LEMMA CardsInit == Cards!Init => CardsInv
BY NewCall DEF Cards!Init, CardsInv, OwnCard, OwnSave

LEMMA CardsNext == CardsInv /\ [Cards!Next]_(Cards!vars) => CardsInv'
<1> SUFFICES ASSUME CardsInv, [Cards!Next]_(Cards!vars) PROVE CardsInv'
  OBVIOUS
<1> USE DEF CardsInv
<1>1. CASE UNCHANGED Cards!vars
  BY <1>1 DEF Cards!vars, OwnCard, OwnSave
<1>2. CASE \E t \in Tasks : Cards!AutoCheck(t)
  BY <1>2 DEF Cards!AutoCheck, OwnCard, OwnSave
<1>3. CASE \E call \in cardCalls : Cards!Serve(call)
  <2>1. PICK call \in cardCalls : Cards!Serve(call)
    BY <1>3
  <2>2. UNCHANGED <<selected, cardPanel>>
    BY <2>1 DEF Cards!Serve
  <2>3. PICK state, rows : Cards!Answer(call, state, rows)
    BY <2>1 DEF Cards!Serve
  <2>4. OwnSave([call EXCEPT !.state = state, !.rows = rows])
    BY SameSave DEF OwnSave, CallFields
  <2> QED
    BY <2>2, <2>3, <2>4 DEF Cards!Answer, OwnCard, OwnSave
<1>4. CASE \E call \in cardCalls : Cards!ListArrives(call)
  BY <1>4 DEF Cards!ListArrives, OwnCard, OwnSave
<1>5. CASE \E call \in cardCalls : Cards!PollArrives(call)
  <2>1. PICK call \in cardCalls : Cards!PollArrives(call)
    BY <1>5
  <2>2. \/ UNCHANGED <<selected, cardPanel>>
        \/ \E row \in call.rows : Cards!Open(row)
    BY <2>1 DEF Cards!PollArrives
  <2>3. cardCalls' = cardCalls \ {call}
    BY <2>1 DEF Cards!PollArrives
  <2>4. CASE UNCHANGED <<selected, cardPanel>>
    BY <2>3, <2>4 DEF OwnCard, OwnSave
  <2>5. CASE \E row \in call.rows : Cards!Open(row)
    BY <2>3, <2>5, OpenedShows DEF Cards!Open, OwnCard, OwnSave
  <2> QED
    BY <2>2, <2>4, <2>5
<1>6. CASE \E call \in cardCalls : Cards!SaveArrives(call)
  <2>1. PICK call \in cardCalls : Cards!SaveArrives(call)
    BY <1>6
  <2>2. PICK row, saving :
            /\ selected' = row
            /\ cardPanel' = [Cards!Opened(cardPanel, row) EXCEPT !.saving = saving]
    BY <2>1 DEF Cards!SaveArrives
  <2>3. cardCalls' = cardCalls \ {call}
    BY <2>1 DEF Cards!SaveArrives
  <2>4. PICK p : p = Cards!Opened(cardPanel, row)
    OBVIOUS
  <2>5. DOMAIN p = PanelFields /\ (row.card = Nothing \/ p.card = row.card)
    BY <2>4, OpenedShows DEF OwnCard
  <2>6. DOMAIN cardPanel' = PanelFields /\ cardPanel'.card = p.card
    BY <2>2, <2>4, <2>5 DEF PanelFields
  <2> QED
    BY <2>2, <2>3, <2>5, <2>6 DEF OwnCard, OwnSave
<1>7. CASE \E call \in cardCalls : Cards!DecisionArrives(call)
  <2>1. PICK call \in cardCalls : Cards!DecisionArrives(call)
    BY <1>7
  <2>2. Cards!Close((cardCalls \ {call}) \cup {Cards!Call("list", Nothing)})
    BY <2>1 DEF Cards!DecisionArrives
  <2>3. \A c \in (cardCalls \ {call}) \cup {Cards!Call("list", Nothing)} : OwnSave(c)
    BY NewCall DEF OwnSave
  <2> QED
    BY <2>2, <2>3, SameSave DEF Cards!Close, OwnCard, OwnSave, CallFields
<1>8. CASE \E call \in cardCalls : Cards!Fails(call)
  BY <1>8, SameSave DEF Cards!Fails, OwnCard, OwnSave, PanelFields, CallFields
<1>9. CASE \E call \in cardCalls : Cards!Retry(call)
  BY <1>9, SameSave DEF Cards!Retry, OwnCard, OwnSave, PanelFields, CallFields
<1>10. CASE \E call \in cardCalls : Cards!Dismiss(call)
  BY <1>10 DEF Cards!Dismiss, OwnCard, OwnSave
<1>11. CASE \E row \in list : Cards!Select(row)
  BY <1>11, OpenedShows DEF Cards!Select, Cards!Open, OwnCard, OwnSave
<1>12. CASE Cards!Leave
  BY <1>12, SameSave DEF Cards!Leave, Cards!Close, OwnCard, OwnSave, CallFields
<1>13. CASE Cards!Type \/ Cards!TypeReason \/ \E ok \in BOOLEAN : Cards!Tick(ok)
  <2>1. CASE Cards!Type
    BY <2>1 DEF Cards!Type, Cards!Change, OwnCard, OwnSave, PanelFields
  <2>2. CASE Cards!TypeReason
    BY <2>2 DEF Cards!TypeReason, Cards!Change, OwnCard, OwnSave, PanelFields
  <2>3. CASE \E ok \in BOOLEAN : Cards!Tick(ok)
    BY <2>3 DEF Cards!Tick, Cards!Change, OwnCard, OwnSave, PanelFields
  <2> QED
    BY <1>13, <2>1, <2>2, <2>3
<1>14. CASE Cards!Poll
  BY <1>14, NewCall DEF Cards!Poll, OwnCard, OwnSave
<1>15. CASE Cards!Save
  <2>1. PICK call : call = [Cards!Call("save", selected) EXCEPT !.card = cardPanel.card, !.ok = cardPanel.ok]
    OBVIOUS
  <2>2. DOMAIN call = CallFields /\ call.row = selected /\ call.card = cardPanel.card
    BY <2>1, NewCall DEF CallFields
  <2>3. OwnSave(call)
    BY <1>15, <2>2 DEF Cards!Save, OwnCard, OwnSave
  <2>4. cardCalls' = cardCalls \cup {call} /\ selected' = selected
    BY <1>15, <2>1 DEF Cards!Save
  <2>5. cardPanel # Nothing /\ DOMAIN cardPanel' = PanelFields /\ cardPanel'.card = cardPanel.card
    BY <1>15 DEF Cards!Save, OwnCard, PanelFields
  <2> QED
    BY <2>3, <2>4, <2>5 DEF OwnCard, OwnSave
<1>16. CASE Cards!Cancel \/ Cards!AskReason
  <2>1. CASE Cards!Cancel
    BY <2>1 DEF Cards!Cancel, OwnCard, OwnSave, PanelFields
  <2>2. CASE Cards!AskReason
    <3>1. cardPanel # Nothing /\ UNCHANGED <<selected, cardCalls>>
      BY <2>2 DEF Cards!AskReason, Cards!Offered
    <3>2. cardPanel' = [cardPanel EXCEPT !.asks = TRUE, !.mode = "idle"]
      BY <2>2 DEF Cards!AskReason
    <3> QED
      BY <3>1, <3>2 DEF OwnCard, OwnSave, PanelFields
  <2> QED
    BY <1>16, <2>1, <2>2
<1>17. CASE \E kind \in Cards!Decisions : Cards!Click(kind)
  BY <1>17 DEF Cards!Click, Cards!Change, Cards!Offered, OwnCard, OwnSave, PanelFields
<1>18. CASE \E kind \in Cards!Decisions : Cards!Decide(kind)
  <2>1. PICK kind \in Cards!Decisions : Cards!Decide(kind)
    BY <1>18
  <2>2. PICK reason, call : /\ call = [Cards!Call(kind, selected) EXCEPT !.reason = reason]
                            /\ cardCalls' = cardCalls \cup {call}
    BY <2>1 DEF Cards!Decide
  <2>3. DOMAIN call = CallFields /\ call.kind # "save"
    BY <2>1, <2>2, NewCall DEF Cards!Decisions, CallFields
  <2>4. /\ cardPanel # Nothing /\ DOMAIN cardPanel' = PanelFields
        /\ cardPanel'.card = cardPanel.card /\ selected' = selected
    BY <2>1 DEF Cards!Decide, Cards!Offered, OwnCard, PanelFields
  <2> QED
    BY <2>2, <2>3, <2>4 DEF OwnCard, OwnSave
<1> QED
  BY <1>1, <1>2, <1>3, <1>4, <1>5, <1>6, <1>7, <1>8, <1>9, <1>10, <1>11, <1>12, <1>13,
     <1>14, <1>15, <1>16, <1>17, <1>18 DEF Cards!Next

\* The card of another candidate is saved for a task only if the page knew none of its own
\* when it opened the task: however late the answers come that move the page, and whatever
\* requests are repeated from their toasts.
THEOREM CardsKeptApart == Cards!Spec => []Cards!CardsStayApart
<1>1. CardsInv => Cards!CardsStayApart
  BY DEF CardsInv, OwnSave, Cards!CardsStayApart
<1> QED
  BY <1>1, CardsInit, CardsNext, PTL DEF Cards!Spec

-----------------------------------------------------------------------------
(* The page of messages.                                                   *)

FormFields == {"suggested", "edited", "typed", "mode", "loading"}

RequestFields == {"kind", "conv", "task", "text", "typed", "suggested", "from", "state", "shown"}

\* The text of a form is the suggestion it shows, or was typed while it showed that one.
OwnText(p) ==
    /\ DOMAIN p = FormFields
    /\ p.mode \in {"idle", "confirmApprove", "confirmReject"}
    /\ p.edited # p.suggested => p.typed.suggested = p.suggested

\* So is the text in a request.
OwnRequest(call) ==
    /\ DOMAIN call = RequestFields
    /\ call.text # Nothing => call.typed.suggested = call.suggested

\* What the page shows.
ViewOK(v) ==
    /\ DOMAIN v = {"selected", "conv", "shown", "lastId", "error"}
    /\ v.selected \in Conversations \cup {Nothing} /\ v.conv \in Conversations \cup {Nothing}
    /\ v.lastId = IF v.shown = Nothing THEN Nothing ELSE v.shown.task

ConvOK(call) == call.conv \in Conversations \cup {Nothing}

ConsoleInv ==
    /\ ViewOK(view)
    /\ Console!Visible(view) => OwnText(panel)
    /\ ~ Console!Visible(view) => panel = Nothing
    /\ \A call \in calls \cup toasts : OwnRequest(call) /\ ConvOK(call)
    /\ \A call \in toasts : call.kind \in Console!Decisions

LEMMA NewRequest ==
    ASSUME NEW kind, NEW conv
    PROVE  /\ OwnRequest(Console!Call(kind, conv))
           /\ Console!Call(kind, conv).kind = kind /\ Console!Call(kind, conv).conv = conv
BY DEF Console!Call, OwnRequest, RequestFields

\* However the page changes, the form that is rendered shows its own text.
LEMMA RenderedShows ==
    ASSUME NEW v, NEW p, p = Nothing \/ OwnText(p)
    PROVE  /\ Console!Visible(v) => OwnText(Console!Rendered(p, v))
           /\ ~ Console!Visible(v) => Console!Rendered(p, v) = Nothing
<1>1. OwnText(Console!Mounted(v.shown))
  BY DEF OwnText, Console!Mounted, Console!NotTyped, FormFields
<1>2. ASSUME p # Nothing, OwnText(p), p.suggested # Console!Suggested(v.shown)
      PROVE  OwnText([p EXCEPT !.suggested = Console!Suggested(v.shown), !.edited = Console!Suggested(v.shown),
                               !.typed = Console!NotTyped])
  <2>1. PICK s : s = Console!Suggested(v.shown)
    OBVIOUS
  <2>2. PICK q : q = [p EXCEPT !.suggested = s, !.edited = s, !.typed = Console!NotTyped]
    OBVIOUS
  <2>3. DOMAIN q = FormFields /\ q.suggested = s /\ q.edited = s /\ q.typed = Console!NotTyped /\ q.mode = p.mode
    BY <1>2, <2>2 DEF OwnText, FormFields
  <2>4. OwnText(q)
    BY <1>2, <2>3 DEF OwnText
  <2> QED
    BY <2>1, <2>2, <2>4
<1> QED
  BY <1>1, <1>2 DEF Console!Rendered

\* What becomes of a request changes nothing of its text.
LEMMA SameRequest ==
    ASSUME NEW call, OwnRequest(call), NEW other, DOMAIN other = DOMAIN call,
           other.text = call.text, other.typed = call.typed, other.suggested = call.suggested
    PROVE  OwnRequest(other)
BY DEF OwnRequest

\* A panel that is gone, or not.
LEMMA OrphanedOwn ==
    ASSUME NEW cs, NEW p, \A call \in cs : OwnRequest(call) /\ ConvOK(call)
    PROVE  /\ \A call \in Console!Orphaned(cs, p) : OwnRequest(call) /\ ConvOK(call)
           /\ (\A call \in cs : call.kind \in Console!Decisions)
                => \A call \in Console!Orphaned(cs, p) : call.kind \in Console!Decisions
<1>1. ASSUME NEW call \in cs
      PROVE  LET other == [call EXCEPT !.from = "page"]
             IN  OwnRequest(other) /\ ConvOK(other) /\ other.kind = call.kind
  <2>1. PICK other : other = [call EXCEPT !.from = "page"]
    OBVIOUS
  <2>2. /\ DOMAIN other = DOMAIN call /\ other.text = call.text /\ other.typed = call.typed
        /\ other.suggested = call.suggested /\ other.conv = call.conv /\ other.kind = call.kind
    BY <2>1 DEF OwnRequest, RequestFields
  <2>3. OwnRequest(other) /\ ConvOK(other)
    BY <2>2, SameRequest DEF ConvOK
  <2> QED
    BY <2>1, <2>2, <2>3
<1> QED
  BY <1>1 DEF Console!Orphaned

LEMMA ConsoleInit == Console!Init => ConsoleInv
BY DEF Console!Init, ConsoleInv, ViewOK, Console!Visible

\* A step that leaves view and panel alone and adds own requests.
LEMMA ShownKeeps ==
    ASSUME NEW v, NEW p, ConsoleInv, ViewOK(v), p = Nothing \/ OwnText(p), Console!Show(v, p)
    PROVE  /\ ViewOK(view)'
           /\ (Console!Visible(view) => OwnText(panel))'
           /\ (~ Console!Visible(view) => panel = Nothing)'
<1>1. view' = v /\ panel' = Console!Rendered(p, v)
  BY DEF Console!Show
<1>2. /\ Console!Visible(v) => OwnText(Console!Rendered(p, v))
      /\ ~ Console!Visible(v) => Console!Rendered(p, v) = Nothing
  BY RenderedShows
<1>3. PICK q : q = Console!Rendered(p, v)
  OBVIOUS
<1> QED
  BY <1>1, <1>2, <1>3

LEMMA ConsoleNext == ConsoleInv /\ [Console!Next]_(Console!vars) => ConsoleInv'
<1> SUFFICES ASSUME ConsoleInv, [Console!Next]_(Console!vars) PROVE ConsoleInv'
  OBVIOUS
<1> DEFINE Own(cs) == \A call \in cs : OwnRequest(call) /\ ConvOK(call)
           ViewInv == /\ ViewOK(view)
                      /\ Console!Visible(view) => OwnText(panel)
                      /\ ~ Console!Visible(view) => panel = Nothing
<1>0. /\ ViewInv /\ Own(calls) /\ Own(toasts)
      /\ \A call \in toasts : call.kind \in Console!Decisions
  BY DEF ConsoleInv
<1>a. ASSUME ViewInv', Own(calls'), Own(toasts'), \A call \in toasts' : call.kind \in Console!Decisions
      PROVE ConsoleInv'
  BY <1>a DEF ConsoleInv
<1>b. ASSUME UNCHANGED <<view, panel>> PROVE ViewInv'
  BY <1>0, <1>b DEF Console!Visible, ViewOK, OwnText
<1>c. panel = Nothing \/ OwnText(panel)
  BY <1>0
<1>d. \A kind : Own({Console!Call(kind, view.selected)})
  BY <1>0, NewRequest DEF ViewOK, ConvOK
<1>e. \A c \in Conversations \cup {Nothing} : \A kind : Own({Console!Call(kind, c)})
  BY NewRequest DEF ConvOK
\* A form that keeps its suggestion and its text.
<1>f. ASSUME NEW p, panel # Nothing, DOMAIN p = DOMAIN panel, p.suggested = panel.suggested,
             p.edited = panel.edited, p.typed = panel.typed,
             p.mode \in {"idle", "confirmApprove", "confirmReject"},
             view' = view, panel' = p
      PROVE ViewInv'
  BY <1>0, <1>f DEF Console!Visible, ViewOK, OwnText
<1>1. CASE UNCHANGED Console!vars
  BY <1>1, <1>0, <1>a, <1>b DEF Console!vars
<1>2. CASE \E t \in Tasks : Console!News(t)
  BY <1>2, <1>0, <1>a, <1>b DEF Console!News
<1>3. CASE \E c \in Conversations : Console!Select(c)
  <2>1. PICK c \in Conversations : Console!Select(c)
    BY <1>3
  <2>2. PICK p : /\ p = IF panel = Nothing THEN Nothing ELSE [panel EXCEPT !.mode = "idle"]
                 /\ Console!Show([view EXCEPT !.selected = c], p)
    BY <2>1 DEF Console!Select
  <2>3. p = Nothing \/ OwnText(p)
    BY <1>c, <2>2 DEF OwnText, FormFields
  <2>4. PICK v : v = [view EXCEPT !.selected = c]
    OBVIOUS
  <2>5. ViewOK(v)
    BY <1>0, <2>4 DEF ViewOK
  <2>6. ViewInv'
    BY <2>2, <2>3, <2>4, <2>5, ShownKeeps
  <2>7. /\ calls' = calls \cup {Console!Call("detail", c), Console!Call("reload", c)} /\ toasts' = toasts
    BY <2>1 DEF Console!Select
  <2>8. Own({Console!Call("detail", c)}) /\ Own({Console!Call("reload", c)})
    BY <1>e
  <2>9. Own(calls')
    BY <1>0, <2>7, <2>8
  <2> QED
    BY <1>0, <1>a, <2>6, <2>7, <2>9
<1>4. CASE Console!Return
  BY <1>4, <1>0, <1>a, <1>b, <1>d DEF Console!Return
<1>5. CASE Console!Scroll \/ Console!LockEnds
  BY <1>5, <1>0, <1>a, <1>b DEF Console!Scroll, Console!LockEnds
<1>6. CASE Console!Tick
  BY <1>6, <1>0, <1>a, <1>b, <1>d DEF Console!Tick
<1>7. CASE \E call \in calls : Console!Serve(call) \/ Console!Lose(call)
  <2>1. PICK call \in calls : Console!Serve(call) \/ Console!Lose(call)
    BY <1>7
  <2>2. PICK state, shown : calls' = (calls \ {call}) \cup {[call EXCEPT !.state = state, !.shown = shown]}
    <3>1. DOMAIN call = RequestFields
      BY <1>0 DEF OwnRequest
    <3>2. \A state : [call EXCEPT !.state = state] = [call EXCEPT !.state = state, !.shown = call.shown]
      BY <3>1 DEF RequestFields
    <3>3. \/ \E state : calls' = (calls \ {call}) \cup {[call EXCEPT !.state = state]}
          \/ \E state, shown : calls' = (calls \ {call}) \cup {[call EXCEPT !.state = state, !.shown = shown]}
      BY <2>1, Zenon DEF Console!Serve, Console!Lose
    <3>4. CASE \E state : calls' = (calls \ {call}) \cup {[call EXCEPT !.state = state]}
      <4>1. PICK state : calls' = (calls \ {call}) \cup {[call EXCEPT !.state = state]}
        BY <3>4
      <4>2. calls' = (calls \ {call}) \cup {[call EXCEPT !.state = state, !.shown = call.shown]}
        BY <4>1, <3>2, Zenon
      <4> QED
        BY <4>2, Zenon
    <3> QED
      BY <3>3, <3>4
  <2>3. UNCHANGED <<view, panel, toasts>>
    BY <2>1 DEF Console!Serve, Console!Lose
  <2>4. PICK other : other = [call EXCEPT !.state = state, !.shown = shown]
    OBVIOUS
  <2>5. /\ DOMAIN other = DOMAIN call /\ other.text = call.text /\ other.typed = call.typed
        /\ other.suggested = call.suggested /\ other.conv = call.conv
    BY <1>0, <2>4 DEF OwnRequest, RequestFields
  <2>6. OwnRequest(other) /\ ConvOK(other)
    BY <1>0, <2>5, SameRequest DEF ConvOK
  <2> QED
    BY <1>0, <1>a, <1>b, <2>2, <2>3, <2>4, <2>6
<1>8. CASE \E call \in calls : Console!DetailArrives(call)
  <2>1. PICK call \in calls : Console!DetailArrives(call)
    BY <1>8
  <2>2. PICK v : v = [view EXCEPT !.conv = call.conv] /\ Console!Show(v, panel)
    BY <2>1 DEF Console!DetailArrives
  <2>3. ViewOK(v)
    BY <1>0, <2>2 DEF ViewOK, ConvOK
  <2>4. ViewInv'
    BY <1>c, <2>2, <2>3, ShownKeeps
  <2>5. calls' = (calls \ {call}) \cup Console!Following(call) /\ toasts' = toasts
    BY <2>1 DEF Console!DetailArrives
  <2>6. Own(Console!Following(call))
    BY <1>d DEF Console!Following
  <2> QED
    BY <1>0, <1>a, <2>4, <2>5, <2>6
<1>9. CASE \E call \in calls : Console!TaskArrives(call) \/ Console!RefetchArrives(call) \/ Console!LoadFails(call)
  <2>1. PICK call \in calls : Console!TaskArrives(call) \/ Console!RefetchArrives(call) \/ Console!LoadFails(call)
    BY <1>9
  <2>2. PICK v, rest : /\ ViewOK(v) /\ Own(rest) /\ Console!Show(v, panel)
                       /\ calls' = Console!Orphaned((calls \ {call}) \cup rest, panel')
                       /\ toasts' = Console!Orphaned(toasts, panel')
    <3>1. CASE Console!TaskArrives(call)
      <4>1. PICK v : v = Console!WithTask(view, call.shown)
        OBVIOUS
      <4>2. ViewOK(v)
        <5>1. PICK id : id = IF call.shown = Nothing THEN Nothing ELSE call.shown.task
          OBVIOUS
        <5>2. v = IF id = view.lastId THEN view ELSE [view EXCEPT !.shown = call.shown, !.lastId = id]
          BY <4>1, <5>1 DEF Console!WithTask
        <5> QED
          BY <1>0, <5>1, <5>2 DEF ViewOK
      <4>3. /\ Console!Show(v, panel) /\ calls' = Console!Orphaned((calls \ {call}) \cup {}, panel')
            /\ toasts' = Console!Orphaned(toasts, panel')
        BY <3>1, <4>1 DEF Console!TaskArrives
      <4>4. PICK rest : rest = {}
        OBVIOUS
      <4>5. Own(rest) /\ calls' = Console!Orphaned((calls \ {call}) \cup rest, panel')
        BY <4>3, <4>4
      <4> QED
        BY <4>2, <4>3, <4>5
    <3>2. CASE Console!RefetchArrives(call)
      <4>1. PICK id : id = IF call.shown = Nothing THEN Nothing ELSE call.shown.task
        OBVIOUS
      <4>2. PICK v : v = [view EXCEPT !.conv = call.conv, !.shown = call.shown, !.lastId = id]
        OBVIOUS
      <4>3. ViewOK(v)
        BY <1>0, <4>1, <4>2 DEF ViewOK, ConvOK
      <4>4. /\ Console!Show(v, panel) /\ calls' = Console!Orphaned((calls \ {call}) \cup {}, panel')
            /\ toasts' = Console!Orphaned(toasts, panel')
        BY <3>2, <4>1, <4>2 DEF Console!RefetchArrives
      <4>5. PICK rest : rest = {}
        OBVIOUS
      <4>6. Own(rest) /\ calls' = Console!Orphaned((calls \ {call}) \cup rest, panel')
        BY <4>4, <4>5
      <4> QED
        BY <4>3, <4>4, <4>6
    <3>3. CASE Console!LoadFails(call)
      <4>1. PICK v : v = IF call.kind # "detail" THEN view
                         ELSE [view EXCEPT !.shown = Nothing, !.lastId = Nothing, !.error = TRUE]
        OBVIOUS
      <4>2. PICK rest : rest = IF call.kind = "refresh" THEN Console!Following(call) ELSE {}
        OBVIOUS
      <4>3. ViewOK(v)
        BY <1>0, <4>1 DEF ViewOK
      <4>4. Own(rest)
        BY <1>d, <4>2 DEF Console!Following
      <4>5. /\ Console!Show(v, panel) /\ calls' = Console!Orphaned((calls \ {call}) \cup rest, panel')
            /\ toasts' = Console!Orphaned(toasts, panel')
        BY <3>3, <4>1, <4>2 DEF Console!LoadFails
      <4> QED
        BY <4>3, <4>4, <4>5
    <3> QED
      BY <2>1, <3>1, <3>2, <3>3
  <2>3. ViewInv'
    BY <1>c, <2>2, ShownKeeps
  <2>4. Own((calls \ {call}) \cup rest)
    BY <1>0, <2>2
  <2>5. PICK p, before : p = panel' /\ before = (calls \ {call}) \cup rest
    OBVIOUS
  <2>6. PICK left, offered : left = Console!Orphaned(before, p) /\ offered = Console!Orphaned(toasts, p)
    OBVIOUS
  <2>7. Own(left) /\ Own(offered) /\ \A c \in offered : c.kind \in Console!Decisions
    BY <1>0, <2>4, <2>5, <2>6, OrphanedOwn
  <2>8. calls' = left /\ toasts' = offered
    BY <2>2, <2>5, <2>6
  <2> QED
    BY <1>a, <2>3, <2>7, <2>8
<1>10. CASE \E text \in Edits : Console!Type(text)
  <2>1. PICK text \in Edits : Console!Type(text)
    BY <1>10
  <2>2. PICK task, p : /\ p = [panel EXCEPT !.edited = text,
                                            !.typed = [task |-> task, suggested |-> panel.suggested]]
                       /\ panel' = p /\ panel # Nothing /\ text # panel.edited
                       /\ UNCHANGED <<view, calls, toasts>>
    BY <2>1 DEF Console!Type
  <2>3. PICK typed : typed = [task |-> task, suggested |-> panel.suggested]
    OBVIOUS
  <2>4. DOMAIN p = FormFields /\ p.typed = typed /\ p.suggested = panel.suggested /\ p.mode = panel.mode
        /\ p.edited = text
    BY <1>c, <2>2, <2>3 DEF OwnText, FormFields
  <2>5. OwnText(p)
    BY <1>c, <2>2, <2>3, <2>4 DEF OwnText
  <2>6. ViewInv'
    BY <1>0, <2>2, <2>5 DEF Console!Visible, ViewOK
  <2> QED
    BY <1>0, <1>a, <2>2, <2>6
<1>11. CASE Console!Reset
  <2>1. PICK p : p = [panel EXCEPT !.edited = panel.suggested, !.typed = Console!NotTyped]
    OBVIOUS
  <2>2. panel' = p /\ panel # Nothing /\ UNCHANGED <<view, calls, toasts>>
    BY <1>11, <2>1 DEF Console!Reset
  <2>3. OwnText(p)
    BY <1>c, <2>1, <2>2 DEF OwnText, FormFields
  <2>4. ViewInv'
    BY <1>0, <2>2, <2>3 DEF Console!Visible, ViewOK
  <2> QED
    BY <1>0, <1>a, <2>2, <2>4
<1>12. CASE \E kind \in Console!Decisions : Console!Click(kind)
  <2>1. PICK kind \in Console!Decisions : Console!Click(kind)
    BY <1>12
  <2>2. PICK mode, p :
            /\ mode \in {"confirmApprove", "confirmReject"}
            /\ p = [panel EXCEPT !.mode = mode] /\ panel' = p /\ panel # Nothing
            /\ UNCHANGED <<view, calls, toasts>>
    BY <2>1 DEF Console!Click, Console!Confirming
  <2>3. ViewInv'
    BY <1>c, <1>f, <2>2 DEF OwnText, FormFields
  <2> QED
    BY <1>0, <1>a, <2>2, <2>3
<1>13. CASE Console!Cancel
  <2>1. PICK p : p = [panel EXCEPT !.mode = "idle"]
    OBVIOUS
  <2>2. panel' = p /\ panel # Nothing /\ UNCHANGED <<view, calls, toasts>>
    BY <1>13, <2>1 DEF Console!Cancel
  <2>3. ViewInv'
    BY <1>c, <1>f, <2>1, <2>2 DEF OwnText, FormFields
  <2> QED
    BY <1>0, <1>a, <2>2, <2>3
<1>14. CASE \E kind \in Console!Decisions : Console!Confirm(kind) \/ Console!Key(kind)
  <2>1. PICK kind, from : Console!Decide(kind, from) /\ panel # Nothing
    BY <1>14 DEF Console!Confirm, Console!Key
  <2>2. PICK call : call = Console!Decision(kind, from)
    OBVIOUS
  <2>3. calls' = calls \cup {call} /\ UNCHANGED <<view, toasts>>
    BY <2>1, <2>2 DEF Console!Decide
  <2>4. PICK task, text : /\ text = IF kind = "approve" THEN Console!Override ELSE Nothing
                          /\ call = [Console!Call(kind, view.selected) EXCEPT
                                        !.task = task, !.text = text, !.typed = panel.typed,
                                        !.suggested = panel.suggested, !.from = from]
    BY <2>2 DEF Console!Decision
  <2>5. PICK fresh0 : fresh0 = Console!Call(kind, view.selected)
    OBVIOUS
  <2>6. DOMAIN fresh0 = RequestFields /\ fresh0.conv = view.selected
    BY <2>5, NewRequest DEF OwnRequest
  <2>7. /\ DOMAIN call = RequestFields /\ call.text = text /\ call.typed = panel.typed
        /\ call.suggested = panel.suggested /\ call.conv = view.selected
    BY <2>4, <2>5, <2>6 DEF RequestFields
  <2>8. text # Nothing => panel.typed.suggested = panel.suggested
    BY <1>c, <2>1, <2>4 DEF Console!Override, OwnText
  <2>9. OwnRequest(call) /\ ConvOK(call)
    BY <1>0, <2>7, <2>8 DEF OwnRequest, ConvOK, ViewOK
  <2>10. PICK p : p = [panel EXCEPT !.loading = TRUE]
    OBVIOUS
  <2>11. panel' = p
    BY <2>1, <2>10 DEF Console!Decide
  <2>12. ViewInv'
    BY <1>c, <1>f, <2>1, <2>3, <2>10, <2>11 DEF OwnText, FormFields
  <2> QED
    BY <1>0, <1>a, <2>3, <2>9, <2>12
<1>15. CASE \E call \in calls : Console!DecisionDone(call) \/ Console!DecisionFails(call)
  <2>1. PICK call \in calls : Console!DecisionDone(call) \/ Console!DecisionFails(call)
    BY <1>15
  <2>2. panel' = Console!Released(call) /\ view' = view
    BY <2>1 DEF Console!DecisionDone, Console!DecisionFails
  <2>3. ViewInv'
    <3>1. CASE panel = Nothing \/ call.from = "page"
      BY <1>b, <2>2, <3>1 DEF Console!Released
    <3>2. CASE ~ (panel = Nothing \/ call.from = "page")
      <4>1. PICK mode : mode = IF call.from = "buttons" THEN "idle" ELSE panel.mode
        OBVIOUS
      <4>2. PICK p : p = [panel EXCEPT !.loading = FALSE, !.mode = mode]
        OBVIOUS
      <4>3. mode \in {"idle", panel.mode} /\ panel' = p
        BY <2>2, <3>2, <4>1, <4>2 DEF Console!Released
      <4> QED
        BY <1>c, <1>f, <2>2, <3>2, <4>2, <4>3 DEF OwnText, FormFields
    <3> QED
      BY <3>1, <3>2
  <2>4. CASE Console!DecisionDone(call)
    <3>1. calls' = (calls \ {call}) \cup {Console!Call("after", call.conv)} /\ toasts' = toasts
      BY <2>4 DEF Console!DecisionDone
    <3>2. Own({Console!Call("after", call.conv)})
      <4>1. call.conv \in Conversations \cup {Nothing}
        BY <1>0 DEF ConvOK
      <4> QED
        BY <1>e, <4>1
    <3> QED
      BY <1>0, <1>a, <2>3, <3>1, <3>2
  <2>5. CASE Console!DecisionFails(call)
    <3>1. PICK from, other : /\ other = [call EXCEPT !.state = "sent", !.from = from]
                             /\ toasts' = toasts \cup {other}
                             /\ calls' = calls \ {call} /\ call.kind \in Console!Decisions
      BY <2>5 DEF Console!DecisionFails
    <3>2. /\ DOMAIN other = DOMAIN call /\ other.text = call.text /\ other.typed = call.typed
          /\ other.suggested = call.suggested /\ other.conv = call.conv /\ other.kind = call.kind
      BY <1>0, <3>1 DEF OwnRequest, RequestFields
    <3>3. OwnRequest(other) /\ ConvOK(other)
      BY <1>0, <3>2, SameRequest DEF ConvOK
    <3> QED
      BY <1>0, <1>a, <2>3, <3>1, <3>2, <3>3
  <2> QED
    BY <2>1, <2>4, <2>5
<1>16. CASE \E call \in toasts : Console!Retry(call) \/ Console!Dismiss(call)
  <2>1. PICK call \in toasts : Console!Retry(call) \/ Console!Dismiss(call)
    BY <1>16
  <2>2. view' = view /\ toasts' = toasts \ {call} /\ (calls' = calls \/ calls' = calls \cup {call})
    BY <2>1 DEF Console!Retry, Console!Dismiss
  <2>3. CASE panel' = panel
    BY <1>0, <1>a, <1>b, <2>2, <2>3
  <2>4. CASE panel # Nothing /\ panel' = [panel EXCEPT !.loading = TRUE]
    <3>1. PICK p : p = [panel EXCEPT !.loading = TRUE]
      OBVIOUS
    <3>2. ViewInv'
      BY <1>c, <1>f, <2>2, <2>4, <3>1 DEF OwnText, FormFields
    <3> QED
      BY <1>0, <1>a, <2>2, <3>2
  <2> QED
    BY <2>1, <2>3, <2>4 DEF Console!Retry, Console!Dismiss
<1> QED
  BY <1>1, <1>2, <1>3, <1>4, <1>5, <1>6, <1>7, <1>8, <1>9, <1>10, <1>11, <1>12, <1>13,
     <1>14, <1>15, <1>16 DEF Console!Next, Console!Arrives

\* A text the operator typed goes out with the task it was typed for; with another one only
\* if the panel suggested the same text for both.  That holds however requests overlap, get
\* lost, are answered late or repeated from a toast.
THEOREM EditsKeptWithTask == Console!Spec => []Console!EditsStayWithTask
<1>1. ConsoleInv => Console!EditsStayWithTask
  BY DEF ConsoleInv, OwnRequest, Console!EditsStayWithTask
<1> QED
  BY <1>1, ConsoleInit, ConsoleNext, PTL DEF Console!Spec

-----------------------------------------------------------------------------
(* The types of the two pages.                                             *)

TaskFields == {"status", "text"}

CardFields == {"task", "pending", "card", "result", "auto"}

\* Nothing is no task and none of the records; tasks are numbered up to a last one.
FormsAssumption ==
    /\ Console!ConsoleAssumption
    /\ \E last \in Nat : Tasks \subseteq 0..last
    /\ Nothing \notin Tasks
    /\ DOMAIN Nothing \notin {FormFields, PanelFields, CardFields}

LEMMA LeastNatural ==
    ASSUME NEW S \in SUBSET Nat, S # {}
    PROVE  \E n \in S : \A m \in S : n <= m
<1> DEFINE R == OpToRel(<, Nat)
<1>1. IsWellFoundedOn(R, Nat)
  BY NatLessThanWellFounded, Zenon
<1>2. R = {ss \in Nat \X Nat : ss[1] < ss[2]}
  BY Zenon DEF OpToRel
<1> HIDE DEF R
<1>3. PICK n \in S : \A m \in S : <<m, n>> \notin R
  BY <1>1, WFMin
<1>4. \A m \in S : ~ (m < n)
  BY <1>2, <1>3
<1> QED
  BY <1>3, <1>4

\* The newest of some tasks.
LEMMA Newest ==
    ASSUME FormsAssumption, NEW S \in SUBSET Tasks, S # {}
    PROVE  \E t \in S : \A u \in S : u <= t
<1>1. PICK last \in Nat : Tasks \subseteq 0..last
  BY DEF FormsAssumption
<1>2. S \subseteq 0..last
  BY <1>1
<1> DEFINE below == {last - t : t \in S}
<1>3. below # {} /\ below \subseteq Nat
  <2>1. PICK t : t \in S
    OBVIOUS
  <2>2. last - t \in below
    BY <2>1
  <2>3. \A u \in S : last - u \in Nat
    BY <1>1, <1>2
  <2> QED
    BY <2>2, <2>3
<1>4. PICK n \in below : \A m \in below : n <= m
  BY <1>3, LeastNatural
<1>5. PICK t \in S : n = last - t
  BY <1>4
<1>6. ASSUME NEW u \in S PROVE u <= t
  <2>1. last - u \in below
    OBVIOUS
  <2> QED
    BY <1>1, <1>2, <1>4, <1>5, <2>1
<1> QED
  BY <1>6

\* A pending task as the page was given it.
TaskOK(shown) == shown # Nothing => shown.task \in Tasks

\* A request tells of tasks there are.
AboutTasks(call) == TaskOK(call.shown) /\ (call.kind \in Console!Decisions => call.task \in Tasks)

ServerOK ==
    /\ DOMAIN server = Tasks
    /\ \A t \in Tasks : DOMAIN server[t] = TaskFields /\ server[t].status \in {"none", "pending", "decided"}

ConsoleTypes ==
    /\ ServerOK /\ fresh \subseteq Conversations
    /\ TaskOK(view.shown)
    /\ \A call \in calls \cup toasts : AboutTasks(call)

LEMMA PendingIsTask ==
    ASSUME FormsAssumption, NEW c
    PROVE  TaskOK(Console!PendingApproval(c))
<1> DEFINE pending == {t \in Tasks : Of[t] = c /\ server[t].status = "pending"}
           top == CHOOSE t \in pending : \A u \in pending : u <= t
<1>1. CASE pending = {}
  BY <1>1 DEF Console!PendingApproval, TaskOK
<1>2. CASE pending # {}
  <2>1. pending \in SUBSET Tasks
    OBVIOUS
  <2>2. \E t \in pending : \A u \in pending : u <= t
    BY <1>2, <2>1, Newest
  <2>3. top \in pending
    BY <2>2
  <2>4. PICK t : t = top
    OBVIOUS
  <2>5. t \in Tasks
    BY <2>1, <2>3, <2>4
  <2>6. Console!PendingApproval(c) = [task |-> t, text |-> server[t].text]
    BY <1>2, <2>4 DEF Console!PendingApproval
  <2> QED
    BY <2>5, <2>6 DEF TaskOK
<1> QED
  BY <1>1, <1>2

LEMMA NewAbout ==
    ASSUME NEW kind, kind \notin Console!Decisions, NEW conv
    PROVE  AboutTasks(Console!Call(kind, conv))
BY DEF AboutTasks, TaskOK, Console!Call

LEMMA SameAbout ==
    ASSUME NEW call, AboutTasks(call), NEW other,
           other.shown = call.shown, other.kind = call.kind, other.task = call.task
    PROVE  AboutTasks(other)
BY DEF AboutTasks

LEMMA OrphanedAbout ==
    ASSUME NEW cs, NEW p, \A call \in cs : OwnRequest(call) /\ AboutTasks(call)
    PROVE  \A call \in Console!Orphaned(cs, p) : AboutTasks(call)
<1>1. ASSUME NEW call \in cs
      PROVE  AboutTasks([call EXCEPT !.from = "page"])
  <2>1. PICK other : other = [call EXCEPT !.from = "page"]
    OBVIOUS
  <2>2. other.shown = call.shown /\ other.kind = call.kind /\ other.task = call.task
    BY <2>1 DEF OwnRequest, RequestFields
  <2> QED
    BY <2>1, <2>2, SameAbout
<1> QED
  BY <1>1 DEF Console!Orphaned

LEMMA FollowingAbout == ASSUME NEW call PROVE \A c \in Console!Following(call) : AboutTasks(c)
BY NewAbout DEF Console!Following, Console!Decisions

LEMMA ConsoleTypesInit == FormsAssumption /\ Console!Init => ConsoleTypes
BY DEF Console!Init, ConsoleTypes, ServerOK, TaskFields, TaskOK

LEMMA ConsoleTypesNext ==
    FormsAssumption /\ ConsoleInv /\ ConsoleTypes /\ [Console!Next]_(Console!vars) => ConsoleTypes'
<1> SUFFICES ASSUME FormsAssumption, ConsoleInv, ConsoleTypes, [Console!Next]_(Console!vars)
             PROVE  ConsoleTypes'
  OBVIOUS
<1>0. /\ ServerOK /\ fresh \subseteq Conversations /\ TaskOK(view.shown)
      /\ \A call \in calls \cup toasts : AboutTasks(call) /\ OwnRequest(call)
      /\ DOMAIN view = {"selected", "conv", "shown", "lastId", "error"}
      /\ \A t \in Tasks : Of[t] \in Conversations
  BY DEF ConsoleTypes, ConsoleInv, ViewOK, FormsAssumption, Console!ConsoleAssumption
<1>a. ASSUME ServerOK', (fresh \subseteq Conversations)', TaskOK(view.shown)',
             \A call \in calls' : AboutTasks(call), \A call \in toasts' : AboutTasks(call)
      PROVE  ConsoleTypes'
  BY <1>a DEF ConsoleTypes
<1>b. ASSUME UNCHANGED server PROVE ServerOK'
  BY <1>0, <1>b DEF ServerOK
<1>1. CASE UNCHANGED Console!vars
  BY <1>0, <1>1, <1>a, <1>b DEF Console!vars
<1>2. CASE \E t \in Tasks : Console!News(t)
  <2>1. PICK t, text : /\ t \in Tasks /\ server' = [server EXCEPT ![t] = [status |-> "pending", text |-> text]]
                       /\ fresh' = fresh \cup {Of[t]}
                       /\ UNCHANGED <<view, calls, toasts>>
    BY <1>2 DEF Console!News
  <2>2. ServerOK'
    BY <1>0, <2>1 DEF ServerOK, TaskFields
  <2> QED
    BY <1>0, <1>a, <2>1, <2>2
<1>3. CASE \E c \in Conversations : Console!Select(c)
  <2>1. PICK c \in Conversations : Console!Select(c)
    BY <1>3
  <2>2. /\ view' = [view EXCEPT !.selected = c] /\ fresh' = {} /\ UNCHANGED <<server, toasts>>
        /\ calls' = calls \cup {Console!Call("detail", c), Console!Call("reload", c)}
    BY <2>1 DEF Console!Select, Console!Show
  <2>3. TaskOK(view.shown)'
    BY <1>0, <2>2
  <2>4. AboutTasks(Console!Call("detail", c)) /\ AboutTasks(Console!Call("reload", c))
    BY NewAbout DEF Console!Decisions
  <2> QED
    BY <1>0, <1>a, <1>b, <2>2, <2>3, <2>4
<1>4. CASE Console!Return \/ Console!Tick
  <2>1. PICK kind, c : /\ kind \in {"reload", "refresh", "poll"}
                       /\ calls' = calls \cup {Console!Call(kind, c)} /\ fresh' = {}
                       /\ UNCHANGED <<server, view, toasts>>
    BY <1>4 DEF Console!Return, Console!Tick
  <2>2. AboutTasks(Console!Call(kind, c))
    BY <2>1, NewAbout DEF Console!Decisions
  <2> QED
    BY <1>0, <1>a, <1>b, <2>1, <2>2
<1>5. CASE \/ Console!Scroll \/ Console!LockEnds \/ Console!Reset \/ Console!Cancel
           \/ (\E text \in Edits : Console!Type(text)) \/ \E kind \in Console!Decisions : Console!Click(kind)
  <2>1. UNCHANGED <<server, fresh, view, calls, toasts>>
    BY <1>5 DEF Console!Scroll, Console!LockEnds, Console!Reset, Console!Cancel, Console!Type, Console!Click
  <2> QED
    BY <1>0, <1>a, <1>b, <2>1
<1>6. CASE \E call \in calls : Console!Serve(call) \/ Console!Lose(call)
  <2>1. PICK call \in calls : Console!Serve(call) \/ Console!Lose(call)
    BY <1>6
  <2>2. UNCHANGED <<view, toasts>> /\ DOMAIN call = RequestFields
    BY <1>0, <2>1 DEF Console!Serve, Console!Lose, OwnRequest
  <2>3. ASSUME NEW other, other.kind = call.kind, other.task = call.task, TaskOK(other.shown),
               calls' = (calls \ {call}) \cup {other}
        PROVE  \A c \in calls' : AboutTasks(c)
    BY <1>0, <2>3 DEF AboutTasks
  <2>4. \A c \in calls' : AboutTasks(c)
    <3>1. CASE \E state : calls' = (calls \ {call}) \cup {[call EXCEPT !.state = state]}
      <4>1. PICK state, other : /\ other = [call EXCEPT !.state = state]
                                /\ calls' = (calls \ {call}) \cup {other}
        BY <3>1
      <4>2. other.kind = call.kind /\ other.task = call.task /\ other.shown = call.shown
        BY <2>2, <4>1 DEF RequestFields
      <4> QED
        BY <1>0, <2>3, <4>1, <4>2 DEF AboutTasks
    <3>2. CASE calls' = (calls \ {call}) \cup {[call EXCEPT !.state = "ok",
                                                            !.shown = Console!PendingApproval(call.conv)]}
      <4>1. PICK shown, other : /\ shown = Console!PendingApproval(call.conv)
                                /\ other = [call EXCEPT !.state = "ok", !.shown = shown]
        OBVIOUS
      <4>2. other.kind = call.kind /\ other.task = call.task /\ other.shown = shown
        BY <2>2, <4>1 DEF RequestFields
      <4>3. TaskOK(shown)
        BY <4>1, PendingIsTask
      <4> QED
        BY <2>3, <3>2, <4>1, <4>2, <4>3
    <3> QED
      BY <2>1, <3>1, <3>2, Zenon DEF Console!Serve, Console!Lose
  <2>5. ServerOK' /\ (fresh \subseteq Conversations)'
    <3>1. CASE UNCHANGED <<server, fresh>>
      BY <1>0, <1>b, <3>1
    <3>2. CASE ~ UNCHANGED <<server, fresh>>
      <4>1. /\ server' = [server EXCEPT ![call.task].status = "decided"]
            /\ fresh' = fresh \cup {Of[call.task]}
            /\ call.kind \in Console!Decisions
        BY <2>1, <3>2 DEF Console!Serve, Console!Lose
      <4>2. PICK t \in Tasks : t = call.task
        BY <1>0, <4>1 DEF AboutTasks
      <4>3. PICK old, new : old = server[t] /\ new = [old EXCEPT !.status = "decided"]
        OBVIOUS
      <4>4. DOMAIN new = TaskFields /\ new.status = "decided"
        BY <1>0, <4>3 DEF ServerOK, TaskFields
      <4>5. server' = [server EXCEPT ![t] = new]
        BY <1>0, <4>1, <4>2, <4>3 DEF ServerOK
      <4>6. ServerOK'
        BY <1>0, <4>4, <4>5 DEF ServerOK
      <4> QED
        BY <1>0, <4>1, <4>2, <4>6
    <3> QED
      BY <3>1, <3>2
  <2> QED
    BY <1>0, <1>a, <2>2, <2>4, <2>5
<1>7. CASE \E call \in calls : Console!DetailArrives(call)
  <2>1. PICK call \in calls : Console!DetailArrives(call)
    BY <1>7
  <2>2. /\ view' = [view EXCEPT !.conv = call.conv] /\ UNCHANGED <<server, fresh, toasts>>
        /\ calls' = (calls \ {call}) \cup Console!Following(call)
    BY <2>1 DEF Console!DetailArrives, Console!Show
  <2>3. TaskOK(view.shown)'
    BY <1>0, <2>2
  <2> QED
    BY <1>0, <1>a, <1>b, <2>2, <2>3, FollowingAbout
<1>8. CASE \E call \in calls : Console!TaskArrives(call) \/ Console!RefetchArrives(call) \/ Console!LoadFails(call)
  <2>1. PICK call \in calls : Console!TaskArrives(call) \/ Console!RefetchArrives(call) \/ Console!LoadFails(call)
    BY <1>8
  <2>2. UNCHANGED <<server, fresh>>
    BY <2>1 DEF Console!TaskArrives, Console!RefetchArrives, Console!LoadFails
  <2>3. TaskOK(call.shown)
    BY <1>0 DEF AboutTasks
  <2>4. TaskOK(view.shown)'
    <3>1. CASE Console!TaskArrives(call)
      <4>1. PICK id : view' = IF id = view.lastId THEN view ELSE [view EXCEPT !.shown = call.shown, !.lastId = id]
        BY <3>1 DEF Console!TaskArrives, Console!Show, Console!WithTask
      <4> QED
        BY <1>0, <2>3, <4>1
    <3>2. CASE Console!RefetchArrives(call)
      <4>1. PICK id : view' = [view EXCEPT !.conv = call.conv, !.shown = call.shown, !.lastId = id]
        BY <3>2 DEF Console!RefetchArrives, Console!Show
      <4> QED
        BY <1>0, <2>3, <4>1
    <3>3. CASE Console!LoadFails(call)
      <4>1. \/ view' = view
            \/ view' = [view EXCEPT !.shown = Nothing, !.lastId = Nothing, !.error = TRUE]
        BY <3>3 DEF Console!LoadFails, Console!Show
      <4> QED
        BY <1>0, <4>1 DEF TaskOK
    <3> QED
      BY <2>1, <3>1, <3>2, <3>3
  <2>5. PICK rest, p : /\ calls' = Console!Orphaned((calls \ {call}) \cup rest, p)
                       /\ toasts' = Console!Orphaned(toasts, p)
                       /\ rest = {} \/ rest = Console!Following(call)
    <3>1. PICK none : none = {}
      OBVIOUS
    <3>2. (calls \ {call}) = (calls \ {call}) \cup none
      BY <3>1
    <3>3. \/ /\ calls' = Console!Orphaned((calls \ {call}) \cup none, panel')
             /\ toasts' = Console!Orphaned(toasts, panel')
          \/ /\ calls' = Console!Orphaned((calls \ {call}) \cup Console!Following(call), panel')
             /\ toasts' = Console!Orphaned(toasts, panel')
      <4>1. CASE Console!TaskArrives(call) \/ Console!RefetchArrives(call)
        BY <3>2, <4>1 DEF Console!TaskArrives, Console!RefetchArrives
      <4>2. CASE Console!LoadFails(call)
        BY <3>1, <4>2 DEF Console!LoadFails
      <4> QED
        BY <2>1, <4>1, <4>2
    <3> QED
      BY <3>1, <3>3
  <2>6. PICK before : before = (calls \ {call}) \cup rest
    OBVIOUS
  <2>7. \A c \in before : OwnRequest(c) /\ AboutTasks(c)
    BY <1>0, <2>5, <2>6, FollowingAbout, NewRequest DEF Console!Following
  <2>8. (\A c \in calls' : AboutTasks(c)) /\ \A c \in toasts' : AboutTasks(c)
    BY <1>0, <2>5, <2>6, <2>7, OrphanedAbout
  <2> QED
    BY <1>0, <1>a, <1>b, <2>2, <2>4, <2>8
<1>9. CASE \E kind \in Console!Decisions : Console!Confirm(kind) \/ Console!Key(kind)
  <2>1. PICK kind, from : /\ kind \in Console!Decisions /\ Console!Decide(kind, from)
                         /\ panel # Nothing
    BY <1>9 DEF Console!Confirm, Console!Key
  <2>2. PICK text, call : /\ call = [Console!Call(kind, view.selected) EXCEPT
                                !.task = view.shown.task, !.text = text, !.typed = panel.typed,
                                !.suggested = panel.suggested, !.from = from]
                          /\ calls' = calls \cup {call}
    BY <2>1 DEF Console!Decide, Console!Decision
  <2>3. call.task = view.shown.task /\ call.shown = Nothing
    BY <2>2 DEF Console!Call
  <2>4. view.shown # Nothing
    BY <2>1 DEF ConsoleInv, Console!Visible
  <2>5. AboutTasks(call)
    BY <1>0, <2>3, <2>4 DEF AboutTasks, TaskOK
  <2>6. UNCHANGED <<server, fresh, view, toasts>>
    BY <2>1 DEF Console!Decide
  <2> QED
    BY <1>0, <1>a, <1>b, <2>2, <2>5, <2>6
<1>10. CASE \E call \in calls : Console!DecisionDone(call) \/ Console!DecisionFails(call)
  <2>1. PICK call \in calls : Console!DecisionDone(call) \/ Console!DecisionFails(call)
    BY <1>10
  <2>2. UNCHANGED <<server, fresh, view>>
    BY <2>1 DEF Console!DecisionDone, Console!DecisionFails
  <2>3. CASE Console!DecisionDone(call)
    <3>1. AboutTasks(Console!Call("after", call.conv))
      BY NewAbout DEF Console!Decisions
    <3> QED
      BY <1>0, <1>a, <1>b, <2>2, <2>3, <3>1 DEF Console!DecisionDone
  <2>4. CASE Console!DecisionFails(call)
    <3>1. PICK from, other : /\ other = [call EXCEPT !.state = "sent", !.from = from]
                             /\ toasts' = toasts \cup {other} /\ calls' = calls \ {call}
      BY <2>4 DEF Console!DecisionFails
    <3>2. other.shown = call.shown /\ other.kind = call.kind /\ other.task = call.task
      BY <1>0, <3>1 DEF OwnRequest, RequestFields
    <3>3. AboutTasks(other)
      BY <1>0, <3>2, SameAbout
    <3> QED
      BY <1>0, <1>a, <1>b, <2>2, <3>1, <3>3
  <2> QED
    BY <2>1, <2>3, <2>4
<1>11. CASE \E call \in toasts : Console!Retry(call) \/ Console!Dismiss(call)
  <2>1. PICK call \in toasts : Console!Retry(call) \/ Console!Dismiss(call)
    BY <1>11
  <2>2. /\ toasts' = toasts \ {call} /\ (calls' = calls \/ calls' = calls \cup {call})
        /\ UNCHANGED <<server, fresh, view>>
    BY <2>1 DEF Console!Retry, Console!Dismiss
  <2> QED
    BY <1>0, <1>a, <1>b, <2>2
<1> QED
  BY <1>1, <1>2, <1>3, <1>4, <1>5, <1>6, <1>7, <1>8, <1>9, <1>10, <1>11 DEF Console!Next, Console!Arrives

LEMMA ConsoleTyped == FormsAssumption /\ ConsoleInv /\ ConsoleTypes => Console!TypeOK
<1> SUFFICES ASSUME FormsAssumption, ConsoleInv, ConsoleTypes PROVE Console!TypeOK
  OBVIOUS
<1>1. /\ \A t \in Tasks : server[t].status \in {"none", "pending", "decided"}
      /\ fresh \subseteq Conversations
  BY DEF ConsoleTypes, ServerOK
<1>2. /\ view.selected \in Conversations \cup {Nothing} /\ view.conv \in Conversations \cup {Nothing}
      /\ view.lastId = IF view.shown = Nothing THEN Nothing ELSE view.shown.task
  BY DEF ConsoleInv, ViewOK
<1>3. /\ (panel # Nothing) <=> Console!Visible(view)
      /\ panel # Nothing => panel.mode \in {"idle", "confirmApprove", "confirmReject"}
  BY DEF ConsoleInv, OwnText, FormsAssumption
<1>4. toasts \subseteq {call \in toasts : call.kind \in Console!Decisions}
  BY DEF ConsoleInv
<1> QED
  BY <1>1, <1>2, <1>3, <1>4 DEF Console!TypeOK

-----------------------------------------------------------------------------
(* The types of the cards.                                                 *)

Results == {"UNKNOWN", "VALID", "INVALID"}

\* A row of a task.
RowOK(row) ==
    /\ DOMAIN row = CardFields
    /\ row.task \in Tasks /\ row.card \in Tasks \cup {Nothing} /\ row.result \in Results

\* A request about a row, unless it is for the list, and its answer.
CallOK(call) ==
    /\ DOMAIN call = CallFields
    /\ call.kind # "list" => RowOK(call.row)
    /\ call.card \in Tasks \cup {Nothing}
    /\ \A row \in call.rows : RowOK(row)

CardsServerOK ==
    /\ DOMAIN cards = Tasks
    /\ \A t \in Tasks : RowOK(cards[t]) /\ cards[t].task = t

\* A row is open in a panel, or none is.
OpenOK ==
    \/ selected = Nothing /\ cardPanel = Nothing
    \/ /\ RowOK(selected)
       /\ DOMAIN cardPanel = PanelFields /\ cardPanel.card \in Tasks \cup {Nothing}

CardsTypes ==
    /\ CardsServerOK /\ OpenOK
    /\ \A row \in list : RowOK(row)
    /\ \A call \in cardCalls : CallOK(call)
    /\ touches \in 0..MaxTouches

LEMMA NewCallOK ==
    ASSUME NEW kind, NEW row, kind = "list" \/ RowOK(row)
    PROVE  CallOK(Cards!Call(kind, row))
BY DEF CallOK, Cards!Call, CallFields

LEMMA OpenedTyped ==
    ASSUME FormsAssumption, NEW p,
           p = Nothing \/ (DOMAIN p = PanelFields /\ p.card \in Tasks \cup {Nothing}),
           NEW row, RowOK(row)
    PROVE  /\ DOMAIN Cards!Opened(p, row) = PanelFields
           /\ Cards!Opened(p, row).card \in Tasks \cup {Nothing}
<1>1. PICK q : q = [(IF p = Nothing THEN Cards!Empty ELSE p) EXCEPT !.dirty = FALSE]
  OBVIOUS
<1>2. DOMAIN q = PanelFields /\ q.card \in Tasks \cup {Nothing}
  <2>1. DOMAIN Cards!Empty = PanelFields /\ Cards!Empty.card = Nothing
    BY DEF Cards!Empty, PanelFields
  <2> QED
    BY <1>1, <2>1 DEF PanelFields
<1>3. PICK f : f = Cards!Filled(q, row)
  OBVIOUS
<1>4. DOMAIN f = PanelFields /\ f.card \in Tasks \cup {Nothing}
  BY <1>2, <1>3 DEF Cards!Filled, PanelFields, RowOK
<1>5. DOMAIN Cards!Synced(f, row) = PanelFields /\ Cards!Synced(f, row).card = f.card
  BY <1>4 DEF Cards!Synced, PanelFields
<1> QED
  BY <1>1, <1>3, <1>4, <1>5 DEF Cards!Opened

LEMMA SameCall ==
    ASSUME NEW call, CallOK(call), NEW other, DOMAIN other = CallFields,
           other.kind = call.kind, other.row = call.row, other.card = call.card,
           \A row \in other.rows : RowOK(row)
    PROVE  CallOK(other)
BY DEF CallOK

LEMMA CardsTypesInit == FormsAssumption /\ Cards!Init => CardsTypes
<1> SUFFICES ASSUME FormsAssumption, Cards!Init PROVE CardsTypes
  OBVIOUS
<1>1. CardsServerOK
  <2>1. ASSUME NEW t \in Tasks PROVE RowOK(Cards!Unchecked(t)) /\ Cards!Unchecked(t).task = t
    BY <2>1 DEF Cards!Unchecked, RowOK, CardFields, Results
  <2> QED
    BY <2>1 DEF Cards!Init, CardsServerOK
<1>2. OpenOK /\ (\A row \in list : RowOK(row)) /\ \A call \in cardCalls : CallOK(call)
  BY NewCallOK DEF Cards!Init, OpenOK
<1>3. touches \in 0..MaxTouches
  BY DEF Cards!Init, FormsAssumption, Console!ConsoleAssumption
<1> QED
  BY <1>1, <1>2, <1>3 DEF CardsTypes

LEMMA CardsTypesNext ==
    FormsAssumption /\ CardsTypes /\ [Cards!Next]_(Cards!vars) => CardsTypes'
<1> SUFFICES ASSUME FormsAssumption, CardsTypes, [Cards!Next]_(Cards!vars)
             PROVE  CardsTypes'
  OBVIOUS
<1> DEFINE AllOK(cs) == \A call \in cs : CallOK(call)
           RowsOK(rows) == \A row \in rows : RowOK(row)
           PanelOK(p) == DOMAIN p = PanelFields /\ p.card \in Tasks \cup {Nothing}
<1>0. CardsServerOK /\ OpenOK /\ RowsOK(list) /\ AllOK(cardCalls) /\ touches \in 0..MaxTouches
  BY DEF CardsTypes
<1>a. ASSUME CardsServerOK', OpenOK', RowsOK(list'), AllOK(cardCalls'), touches' \in 0..MaxTouches
      PROVE  CardsTypes'
  BY <1>a DEF CardsTypes
<1>b. ASSUME UNCHANGED cards PROVE CardsServerOK'
  BY <1>0, <1>b DEF CardsServerOK
<1>c. ASSUME UNCHANGED <<selected, cardPanel>> PROVE OpenOK'
  BY <1>0, <1>c DEF OpenOK
<1>d. ASSUME Cards!Touch PROVE touches' \in 0..MaxTouches
  BY <1>0, <1>d DEF Cards!Touch, FormsAssumption, Console!ConsoleAssumption
\* A panel that is open is one of a row.
<1>e. ASSUME cardPanel # Nothing PROVE RowOK(selected) /\ PanelOK(cardPanel)
  BY <1>0, <1>e DEF OpenOK
<1>f. ASSUME NEW p, cardPanel # Nothing, PanelOK(p), selected' = selected, cardPanel' = p PROVE OpenOK'
  BY <1>e, <1>f DEF OpenOK
<1>g. cardPanel = Nothing \/ PanelOK(cardPanel)
  BY <1>0 DEF OpenOK
\* A row is opened.
<1>h. ASSUME NEW row, RowOK(row), NEW p, p = Cards!Opened(cardPanel, row),
             selected' = row, DOMAIN cardPanel' = PanelFields, cardPanel'.card = p.card
      PROVE  OpenOK'
  BY <1>g, <1>h, OpenedTyped DEF OpenOK
<1>1. CASE UNCHANGED Cards!vars
  BY <1>0, <1>1, <1>a, <1>b, <1>c DEF Cards!vars
<1>2. CASE \E t \in Tasks : Cards!AutoCheck(t)
  <2>1. PICK t \in Tasks, result \in Results :
            /\ cards' = [cards EXCEPT ![t].auto = TRUE, ![t].result = result,
                                      ![t].card = IF result = "UNKNOWN" THEN @ ELSE t]
            /\ UNCHANGED <<list, selected, cardPanel, cardCalls, touches>>
    BY <1>2 DEF Cards!AutoCheck, Results
  <2>2. PICK old, card : old = cards[t] /\ card = IF result = "UNKNOWN" THEN old.card ELSE t
    OBVIOUS
  <2>3. RowOK(old) /\ old.task = t
    BY <1>0, <2>2 DEF CardsServerOK
  <2>4. PICK new : new = [old EXCEPT !.auto = TRUE, !.result = result, !.card = card]
    OBVIOUS
  <2>5. DOMAIN new = CardFields /\ new.task = t /\ new.result = result /\ new.card = card
    BY <2>3, <2>4 DEF RowOK, CardFields
  <2>6. RowOK(new)
    BY <2>2, <2>3, <2>5 DEF RowOK
  <2>7. cards' = [cards EXCEPT ![t] = new]
    BY <1>0, <2>1, <2>2, <2>4 DEF CardsServerOK
  <2>8. CardsServerOK'
    BY <1>0, <2>5, <2>6, <2>7 DEF CardsServerOK
  <2> QED
    BY <1>0, <1>a, <1>c, <2>1, <2>8
<1>3. CASE \E call \in cardCalls : Cards!Serve(call)
  <2>1. PICK call \in cardCalls : Cards!Serve(call)
    BY <1>3
  <2>2. CallOK(call) /\ UNCHANGED <<list, selected, cardPanel, touches>>
    BY <1>0, <2>1 DEF Cards!Serve
  <2>3. ASSUME NEW state, NEW rows, Cards!Answer(call, state, rows), RowsOK(rows)
        PROVE  AllOK(cardCalls')
    <3>1. PICK other : other = [call EXCEPT !.state = state, !.rows = rows]
      OBVIOUS
    <3>2. /\ DOMAIN other = CallFields /\ other.kind = call.kind /\ other.row = call.row
          /\ other.card = call.card /\ other.rows = rows
      BY <2>2, <3>1 DEF CallOK, CallFields
    <3>3. CallOK(other)
      BY <2>2, <2>3, <3>2, SameCall
    <3> QED
      BY <1>0, <2>3, <3>1, <3>3 DEF Cards!Answer
  <2>4. CASE call.kind \in {"list", "poll"} /\ Cards!Answer(call, "ok", Cards!Pending) /\ UNCHANGED cards
    <3>1. RowsOK(Cards!Pending)
      BY <1>0 DEF Cards!Pending, CardsServerOK
    <3> QED
      BY <1>0, <1>a, <1>b, <1>c, <2>2, <2>3, <2>4, <3>1
  <2>5. CASE /\ call.kind = "save"
             /\ cards' = [cards EXCEPT ![call.row.task].card = call.card,
                                       ![call.row.task].result = IF call.ok THEN "VALID" ELSE "INVALID"]
             /\ Cards!Answer(call, "ok", {cards'[call.row.task]})
    <3>1. PICK t \in Tasks, result \in Results :
              t = call.row.task /\ result = IF call.ok THEN "VALID" ELSE "INVALID"
      BY <2>2, <2>5 DEF CallOK, RowOK, Results
    <3>2. PICK old, new : old = cards[t] /\ new = [old EXCEPT !.card = call.card, !.result = result]
      OBVIOUS
    <3>3. RowOK(old) /\ old.task = t
      BY <1>0, <3>2 DEF CardsServerOK
    <3>4. DOMAIN new = CardFields /\ new.task = t /\ new.result = result /\ new.card = call.card
      BY <3>2, <3>3 DEF RowOK, CardFields
    <3>5. RowOK(new)
      BY <2>2, <3>4 DEF RowOK, CallOK
    <3>6. cards' = [cards EXCEPT ![t] = new]
      BY <1>0, <2>5, <3>1, <3>2 DEF CardsServerOK
    <3>7. CardsServerOK'
      BY <1>0, <3>4, <3>5, <3>6 DEF CardsServerOK
    <3>8. PICK rows : rows = {cards'[call.row.task]}
      OBVIOUS
    <3>9. RowsOK(rows)
      BY <1>0, <3>1, <3>5, <3>6, <3>8 DEF CardsServerOK
    <3> QED
      BY <1>0, <1>a, <1>c, <2>2, <2>3, <2>5, <3>7, <3>8, <3>9
  <2>6. CASE call.kind \in Cards!Decisions /\ Cards!Answer(call, "ok", {})
             /\ cards' = [cards EXCEPT ![call.row.task].pending = FALSE]
    <3>1. PICK t \in Tasks : t = call.row.task
      BY <2>2, <2>6 DEF CallOK, RowOK, Cards!Decisions
    <3>2. PICK old, new : old = cards[t] /\ new = [old EXCEPT !.pending = FALSE]
      OBVIOUS
    <3>3. RowOK(old) /\ old.task = t
      BY <1>0, <3>2 DEF CardsServerOK
    <3>4. DOMAIN new = CardFields /\ new.task = t /\ new.result = old.result /\ new.card = old.card
      BY <3>2, <3>3 DEF RowOK, CardFields
    <3>5. RowOK(new)
      BY <3>3, <3>4 DEF RowOK
    <3>6. cards' = [cards EXCEPT ![t] = new]
      BY <1>0, <2>6, <3>1, <3>2 DEF CardsServerOK
    <3>7. CardsServerOK'
      BY <1>0, <3>4, <3>5, <3>6 DEF CardsServerOK
    <3>8. PICK rows : rows = {}
      OBVIOUS
    <3>9. Cards!Answer(call, "ok", rows) /\ RowsOK(rows)
      BY <2>6, <3>8
    <3> QED
      BY <1>0, <1>a, <1>c, <2>2, <2>3, <3>7, <3>9
  <2>7. CASE Cards!Answer(call, "failed", {}) /\ UNCHANGED cards
    <3>1. PICK rows : rows = {}
      OBVIOUS
    <3>2. Cards!Answer(call, "failed", rows) /\ RowsOK(rows)
      BY <2>7, <3>1
    <3> QED
      BY <1>0, <1>a, <1>b, <1>c, <2>2, <2>3, <2>7, <3>2
  <2> QED
    BY <2>1, <2>4, <2>5, <2>6, <2>7 DEF Cards!Serve
<1>4. CASE \E call \in cardCalls : Cards!ListArrives(call)
  BY <1>0, <1>4, <1>a, <1>b, <1>c DEF Cards!ListArrives, CallOK
<1>5. CASE \E call \in cardCalls : Cards!PollArrives(call)
  <2>1. PICK call \in cardCalls : Cards!PollArrives(call)
    BY <1>5
  <2>2. /\ cardCalls' = cardCalls \ {call} /\ UNCHANGED <<cards, list, touches>>
        /\ \/ UNCHANGED <<selected, cardPanel>>
           \/ \E row \in call.rows : Cards!Open(row)
    BY <2>1 DEF Cards!PollArrives
  <2>3. OpenOK'
    <3>1. CASE \E row \in call.rows : Cards!Open(row)
      <4>1. PICK row \in call.rows : Cards!Open(row)
        BY <3>1
      <4>2. RowOK(row)
        BY <1>0 DEF CallOK
      <4>3. PICK p : p = Cards!Opened(cardPanel, row)
        OBVIOUS
      <4>4. DOMAIN p = PanelFields
        BY <1>g, <4>2, <4>3, OpenedTyped
      <4> QED
        BY <1>h, <4>1, <4>2, <4>3, <4>4 DEF Cards!Open
    <3> QED
      BY <1>c, <2>2, <3>1
  <2> QED
    BY <1>0, <1>a, <1>b, <2>2, <2>3
<1>6. CASE \E call \in cardCalls : Cards!SaveArrives(call)
  <2>1. PICK call \in cardCalls : Cards!SaveArrives(call)
    BY <1>6
  <2>2. cardCalls' = cardCalls \ {call} /\ UNCHANGED <<cards, list, touches>>
    BY <2>1 DEF Cards!SaveArrives
  <2>3. PICK saved, saving, row :
            /\ saved \in call.rows
            /\ row = [call.row EXCEPT !.card = saved.card, !.result = saved.result, !.auto = saved.auto]
            /\ selected' = row
            /\ cardPanel' = [Cards!Opened(cardPanel, row) EXCEPT !.saving = saving]
    BY <2>1 DEF Cards!SaveArrives
  <2>4. RowOK(saved) /\ RowOK(call.row)
    BY <1>0, <2>1, <2>3 DEF CallOK, Cards!SaveArrives
  <2>5. /\ DOMAIN row = CardFields /\ row.task = call.row.task /\ row.card = saved.card
        /\ row.result = saved.result
    BY <2>3, <2>4 DEF RowOK, CardFields
  <2>6. RowOK(row)
    BY <2>4, <2>5 DEF RowOK
  <2>7. PICK p : p = Cards!Opened(cardPanel, row)
    OBVIOUS
  <2>8. DOMAIN p = PanelFields
    BY <1>g, <2>6, <2>7, OpenedTyped
  <2>9. DOMAIN cardPanel' = PanelFields /\ cardPanel'.card = p.card
    BY <2>3, <2>7, <2>8 DEF PanelFields
  <2>10. OpenOK'
    BY <1>h, <2>3, <2>6, <2>7, <2>9
  <2> QED
    BY <1>0, <1>a, <1>b, <2>2, <2>10
\* The page closes: requests go on, and have no panel to come back to.
<1>i. ASSUME NEW cs, AllOK(cs), Cards!Close(cs) PROVE OpenOK' /\ AllOK(cardCalls')
  <2>1. ASSUME NEW call \in cs PROVE CallOK([call EXCEPT !.own = FALSE])
    <3>1. PICK other : other = [call EXCEPT !.own = FALSE]
      OBVIOUS
    <3>2. CallOK(call)
      BY <1>i
    <3>3. /\ DOMAIN other = CallFields /\ other.kind = call.kind /\ other.row = call.row
          /\ other.card = call.card /\ other.rows = call.rows
      BY <3>1, <3>2 DEF CallOK, CallFields
    <3> QED
      BY <3>1, <3>2, <3>3, SameCall DEF CallOK
  <2> QED
    BY <1>i, <2>1 DEF Cards!Close, OpenOK
<1>7. CASE \E call \in cardCalls : Cards!DecisionArrives(call)
  <2>1. PICK call \in cardCalls : Cards!DecisionArrives(call)
    BY <1>7
  <2>2. PICK cs : cs = (cardCalls \ {call}) \cup {Cards!Call("list", Nothing)}
    OBVIOUS
  <2>3. Cards!Close(cs) /\ UNCHANGED <<cards, list, touches>>
    BY <2>1, <2>2 DEF Cards!DecisionArrives
  <2>4. AllOK(cs)
    BY <1>0, <2>2, NewCallOK
  <2> QED
    BY <1>0, <1>a, <1>b, <1>i, <2>3, <2>4
\* A request is repeated or fails, and whoever asked for it is told.
<1>j. ASSUME NEW call \in cardCalls, NEW state,
             cardCalls' = (cardCalls \ {call}) \cup {[call EXCEPT !.state = state]},
             \/ cardPanel' = cardPanel
             \/ /\ cardPanel # Nothing
                /\ \E saving : cardPanel' = [cardPanel EXCEPT !.saving = saving]
             \/ /\ cardPanel # Nothing
                /\ \E deciding : cardPanel' = [cardPanel EXCEPT !.deciding = deciding]
             \/ /\ cardPanel # Nothing
                /\ \E deciding, mode : cardPanel' = [cardPanel EXCEPT !.deciding = deciding, !.mode = mode],
             selected' = selected
      PROVE  OpenOK' /\ AllOK(cardCalls')
  <2>1. OpenOK'
    <3>1. cardPanel # Nothing => PanelOK(cardPanel)
      BY <1>g
    <3>2. CASE cardPanel' = cardPanel
      BY <1>c, <1>j, <3>2
    <3>3. CASE cardPanel' # cardPanel
      <4>1. PICK p : p = cardPanel'
        OBVIOUS
      <4>2. cardPanel # Nothing /\ PanelOK(p)
        BY <1>j, <3>1, <3>3, <4>1 DEF PanelFields
      <4> QED
        BY <1>f, <1>j, <4>1, <4>2
    <3> QED
      BY <3>2, <3>3
  <2>2. PICK other : other = [call EXCEPT !.state = state]
    OBVIOUS
  <2>3. /\ DOMAIN other = CallFields /\ other.kind = call.kind /\ other.row = call.row
        /\ other.card = call.card /\ other.rows = call.rows
    BY <1>0, <2>2 DEF CallOK, CallFields
  <2>4. CallOK(other)
    BY <1>0, <2>3, SameCall DEF CallOK
  <2> QED
    BY <1>0, <1>j, <2>1, <2>2, <2>4
<1>8. CASE \E call \in cardCalls : Cards!Fails(call) \/ Cards!Retry(call)
  <2>1. PICK call \in cardCalls : Cards!Fails(call) \/ Cards!Retry(call)
    BY <1>8
  <2>2. UNCHANGED <<cards, list, selected, touches>>
    BY <2>1 DEF Cards!Fails, Cards!Retry
  <2>3. PICK state : cardCalls' = (cardCalls \ {call}) \cup {[call EXCEPT !.state = state]}
    BY <2>1 DEF Cards!Fails, Cards!Retry
  <2>4. \/ cardPanel' = cardPanel
        \/ /\ cardPanel # Nothing
           /\ \E saving : cardPanel' = [cardPanel EXCEPT !.saving = saving]
        \/ /\ cardPanel # Nothing
           /\ \E deciding : cardPanel' = [cardPanel EXCEPT !.deciding = deciding]
        \/ /\ cardPanel # Nothing
           /\ \E deciding, mode : cardPanel' = [cardPanel EXCEPT !.deciding = deciding, !.mode = mode]
    BY <2>1, Zenon DEF Cards!Fails, Cards!Retry
  <2> QED
    BY <1>0, <1>a, <1>b, <1>j, <2>2, <2>3, <2>4
<1>9. CASE \E call \in cardCalls : Cards!Dismiss(call)
  BY <1>0, <1>9, <1>a, <1>b, <1>c DEF Cards!Dismiss
<1>10. CASE \E row \in list : Cards!Select(row)
  <2>1. PICK row \in list : Cards!Select(row)
    BY <1>10
  <2>2. RowOK(row)
    BY <1>0
  <2>3. PICK p : p = Cards!Opened(cardPanel, row)
    OBVIOUS
  <2>4. DOMAIN p = PanelFields
    BY <1>g, <2>2, <2>3, OpenedTyped
  <2>5. OpenOK' /\ touches' \in 0..MaxTouches
    BY <1>d, <1>h, <2>1, <2>2, <2>3, <2>4 DEF Cards!Select, Cards!Open
  <2> QED
    BY <1>0, <1>a, <1>b, <2>1, <2>5 DEF Cards!Select
<1>11. CASE Cards!Leave
  <2>1. OpenOK' /\ AllOK(cardCalls')
    BY <1>0, <1>11, <1>i DEF Cards!Leave
  <2> QED
    BY <1>0, <1>11, <1>a, <1>b, <1>d, <2>1 DEF Cards!Leave
<1>12. CASE \/ Cards!Type \/ Cards!TypeReason \/ (\E ok \in BOOLEAN : Cards!Tick(ok))
            \/ \E kind \in Cards!Decisions : Cards!Click(kind)
  <2>1. cardPanel # Nothing
    BY <1>12 DEF Cards!Type, Cards!TypeReason, Cards!Tick, Cards!Click, Cards!Offered
  <2>2. PICK p : Cards!Change(p) /\ PanelOK(p)
    <3>1. RowOK(selected) /\ PanelOK(cardPanel)
      BY <1>e, <2>1
    <3>2. CASE Cards!Type
      <4>1. PICK p : p = [cardPanel EXCEPT !.card = selected.task]
        OBVIOUS
      <4>2. PanelOK(p)
        BY <3>1, <4>1 DEF PanelFields, RowOK
      <4> QED
        BY <3>2, <4>1, <4>2 DEF Cards!Type
    <3>3. CASE Cards!TypeReason
      <4>1. PICK p : p = [cardPanel EXCEPT !.reason = selected.task]
        OBVIOUS
      <4>2. PanelOK(p)
        BY <3>1, <4>1 DEF PanelFields
      <4> QED
        BY <3>3, <4>1, <4>2 DEF Cards!TypeReason
    <3>4. CASE \E ok \in BOOLEAN : Cards!Tick(ok)
      <4>1. PICK ok, p : p = [cardPanel EXCEPT !.ok = ok, !.dirty = TRUE] /\ Cards!Change(p)
        BY <3>4 DEF Cards!Tick
      <4>2. PanelOK(p)
        BY <3>1, <4>1 DEF PanelFields
      <4> QED
        BY <4>1, <4>2
    <3>5. CASE \E kind \in Cards!Decisions : Cards!Click(kind)
      <4>1. PICK kind, p : p = [cardPanel EXCEPT !.mode = kind] /\ Cards!Change(p)
        BY <3>5 DEF Cards!Click
      <4>2. PanelOK(p)
        BY <3>1, <4>1 DEF PanelFields
      <4> QED
        BY <4>1, <4>2
    <3> QED
      BY <1>12, <3>2, <3>3, <3>4, <3>5
  <2>3. OpenOK' /\ touches' \in 0..MaxTouches
    BY <1>d, <1>f, <2>1, <2>2 DEF Cards!Change
  <2> QED
    BY <1>0, <1>a, <1>b, <2>2, <2>3 DEF Cards!Change
<1>13. CASE Cards!Poll
  <2>1. CallOK(Cards!Call("poll", selected))
    BY <1>13, <1>e, NewCallOK DEF Cards!Poll
  <2> QED
    BY <1>0, <1>13, <1>a, <1>b, <1>c, <2>1 DEF Cards!Poll
<1>14. CASE Cards!Save
  <2>1. RowOK(selected) /\ PanelOK(cardPanel)
    BY <1>14, <1>e DEF Cards!Save
  <2>2. PICK new, call : /\ new = Cards!Call("save", selected)
                         /\ call = [new EXCEPT !.card = cardPanel.card, !.ok = cardPanel.ok]
    OBVIOUS
  <2>3. /\ DOMAIN call = CallFields /\ call.kind = "save" /\ call.row = selected
        /\ call.card = cardPanel.card /\ call.rows = {}
    BY <2>2 DEF Cards!Call, CallFields
  <2>4. CallOK(call)
    BY <2>1, <2>3 DEF CallOK
  <2>5. PICK p : p = [cardPanel EXCEPT !.saving = TRUE]
    OBVIOUS
  <2>6. PanelOK(p)
    BY <2>1, <2>5 DEF PanelFields
  <2>7. OpenOK'
    BY <1>14, <1>f, <2>5, <2>6 DEF Cards!Save
  <2> QED
    BY <1>0, <1>14, <1>a, <1>b, <1>d, <2>2, <2>4, <2>7 DEF Cards!Save
<1>15. CASE Cards!Cancel \/ Cards!AskReason
  <2>1. PICK p : /\ cardPanel # Nothing /\ cardPanel' = p
                 /\ (p = [cardPanel EXCEPT !.mode = "idle"]
                      \/ p = [cardPanel EXCEPT !.asks = TRUE, !.mode = "idle"])
    BY <1>15 DEF Cards!Cancel, Cards!AskReason, Cards!Offered
  <2>2. PanelOK(p)
    BY <1>e, <2>1 DEF PanelFields
  <2>3. UNCHANGED <<cards, list, selected, cardCalls, touches>>
    BY <1>15 DEF Cards!Cancel, Cards!AskReason
  <2> QED
    BY <1>0, <1>a, <1>b, <1>f, <2>1, <2>2, <2>3
<1>16. CASE \E kind \in Cards!Decisions : Cards!Decide(kind)
  <2>1. PICK kind \in Cards!Decisions : Cards!Decide(kind)
    BY <1>16
  <2>2. cardPanel # Nothing /\ UNCHANGED <<cards, list, selected, touches>>
    BY <2>1 DEF Cards!Decide, Cards!Offered
  <2>3. PICK reason, new, call :
            /\ new = Cards!Call(kind, selected) /\ call = [new EXCEPT !.reason = reason]
            /\ cardCalls' = cardCalls \cup {call}
    BY <2>1 DEF Cards!Decide
  <2>4. /\ DOMAIN call = CallFields /\ call.row = selected
        /\ call.card = Nothing /\ call.rows = {}
    BY <2>3 DEF Cards!Call, CallFields
  <2>5. CallOK(call)
    BY <1>e, <2>2, <2>4 DEF CallOK
  <2>6. PICK p : p = [cardPanel EXCEPT !.deciding = TRUE]
    OBVIOUS
  <2>7. PanelOK(p)
    BY <1>e, <2>2, <2>6 DEF PanelFields
  <2>8. OpenOK'
    BY <1>f, <2>1, <2>2, <2>6, <2>7 DEF Cards!Decide
  <2> QED
    BY <1>0, <1>a, <1>b, <2>2, <2>3, <2>5, <2>8
<1> QED
  BY <1>1, <1>2, <1>3, <1>4, <1>5, <1>6, <1>7, <1>8, <1>9, <1>10, <1>11, <1>12, <1>13,
     <1>14, <1>15, <1>16 DEF Cards!Next

LEMMA CardsTyped == FormsAssumption /\ CardsTypes => Cards!TypeOK
<1> SUFFICES ASSUME FormsAssumption, CardsTypes PROVE Cards!TypeOK
  OBVIOUS
<1>1. \A t \in Tasks : /\ cards[t].task = t /\ cards[t].card \in Tasks \cup {Nothing}
                       /\ cards[t].result \in {"UNKNOWN", "VALID", "INVALID"}
  BY DEF CardsTypes, CardsServerOK, RowOK, Results
<1>2. (selected = Nothing) <=> (cardPanel = Nothing)
  BY DEF CardsTypes, OpenOK, RowOK, FormsAssumption
<1>3. touches \in 0..MaxTouches
  BY DEF CardsTypes
<1> QED
  BY <1>1, <1>2, <1>3 DEF Cards!TypeOK

\* What an operator typed, on the page of messages or for a card, goes out with the task it
\* was typed for, and the pages show what they have open; whatever requests overlap, get
\* lost, are answered late or repeated.
THEOREM FormsKept == ASSUME FormsAssumption PROVE FormsSpec => []FormsStayWithTask
<1> DEFINE ConsoleAll == ConsoleInv /\ ConsoleTypes
           CardsAll == CardsInv /\ CardsTypes
<1>1. Console!Init => ConsoleAll
  BY ConsoleInit, ConsoleTypesInit
<1>2. ConsoleAll /\ [Console!Next]_(Console!vars) => ConsoleAll'
  BY ConsoleNext, ConsoleTypesNext
<1>3. Cards!Init => CardsAll
  BY CardsInit, CardsTypesInit
<1>4. CardsAll /\ [Cards!Next]_(Cards!vars) => CardsAll'
  BY CardsNext, CardsTypesNext
<1>5. ConsoleAll /\ CardsAll => FormsStayWithTask
  <2>1. ConsoleAll => Console!TypeOK /\ Console!EditsStayWithTask
    BY ConsoleTyped DEF ConsoleInv, OwnRequest, Console!EditsStayWithTask
  <2>2. CardsAll => Cards!TypeOK /\ Cards!CardsStayApart
    BY CardsTyped DEF CardsInv, OwnSave, Cards!CardsStayApart
  <2> QED
    BY <2>1, <2>2 DEF FormsStayWithTask
<1> QED
  BY <1>1, <1>2, <1>3, <1>4, <1>5, PTL DEF FormsSpec, Console!Spec, Cards!Spec
=============================================================================

--------------------------- MODULE OperatorForms ---------------------------
(***************************************************************************)
(* The two forms an operator fills in at the console: the reply on the     *)
(* page of messages, and the card in the inbox.  The pages share the tasks *)
(* and what an operator may do, and nothing of each other's state.         *)
(***************************************************************************)
EXTENDS Integers

CONSTANTS Conversations, Tasks, Of, Texts, Edits, Fallback, Blank,
          Nothing,    \* None of both pages
          MaxCalls, MaxTouches, MaxNews, MaxLost,
          MaxCardCalls   \* MaxCalls of the inbox

VARIABLES
    server, fresh, view, panel, locked, calls, toasts, used,
    cards, list, selected, cardPanel, cardCalls, touches

consoleVars == <<server, fresh, view, panel, locked, calls, toasts, used>>

cardVars == <<cards, list, selected, cardPanel, cardCalls, touches>>

\* The page of messages.
Console == INSTANCE OperatorConsole WITH None <- Nothing, MaxFaults <- MaxLost

\* The inbox, with the panel of the cards.
Cards == INSTANCE CardPanel WITH
    None <- Nothing, MaxCalls <- MaxCardCalls, server <- cards, panel <- cardPanel,
    calls <- cardCalls

FormsSpec == Console!Spec /\ Cards!Spec

\* What an operator fills in stays with the task it was filled in for: see TypeOK and
\* EditsStayWithTask of the page of messages, TypeOK and CardsStayApart of the cards.
FormsStayWithTask ==
    /\ Console!TypeOK /\ Console!EditsStayWithTask
    /\ Cards!TypeOK /\ Cards!CardsStayApart
=============================================================================

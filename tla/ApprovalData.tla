---------------------------- MODULE ApprovalData ----------------------------
(***************************************************************************)
(* The database rows the approval workflow works on, and the pure rules    *)
(* by which the API and the workers choose the text of a reply.            *)
(*                                                                         *)
(* A reply text is an element of Texts: the workflow only ever compares    *)
(* texts for equality.  The row of a task keeps the columns of the Prisma  *)
(* model Task, and the fields of its JSON columns, that some step reads:   *)
(* kind and text are proposedAction.actionType and .suggestedMessage,      *)
(* pending and sentText are payload.pendingReplyText and .sentText.        *)
(***************************************************************************)
EXTENDS Integers, Sequences, FiniteSets

CONSTANTS Tasks,          \* ids of approval tasks the database may come to hold
          Conversations,  \* WhatsApp conversations
          Messages,       \* inbound WhatsApp messages
          Texts,          \* reply texts
          Proposals,      \* the suggestions the AI may come back with
          None            \* a null column

Kinds == {"SEND_MESSAGE", "REQUEST_INFO", "ESCALATE", "NO_ACTION"}

ASSUME NoneAssumption ==
    None \notin Tasks \cup Conversations \cup Messages \cup Texts

ASSUME ProposalsAssumption ==
    Proposals \subseteq [kind : Kinds, text : Texts \cup {None}]

TaskStatuses == {"OPEN", "APPROVED", "REJECTED", "DONE", "FAILED"}

ApprovalStatuses == {"NOT_REQUIRED", "PENDING", "APPROVED", "REJECTED"}

\* "ABSENT" marks a task id no row has been created for yet.
TaskRow == [status   : TaskStatuses \cup {"ABSENT"},
            approval : ApprovalStatuses,
            conv     : Conversations \cup {None},
            msg      : Messages \cup {None},
            since    : Nat,
            kind     : Kinds,
            text     : Texts \cup {None},
            pending  : Texts \cup {None},
            sentText : Texts \cup {None},
            retry    : Nat]

NoRow == [status |-> "ABSENT", approval |-> "NOT_REQUIRED", conv |-> None,
          msg |-> None, since |-> 0, kind |-> "NO_ACTION", text |-> None,
          pending |-> None, sentText |-> None, retry |-> 0]

\* An outbound Message row.  Of the delivery status only FAILED is told apart
\* from the rest (SENT here), and of the provider id whether there is one.
OutboundRow == [text : Texts, status : {"SENT", "FAILED"}, hasSid : BOOLEAN]

-----------------------------------------------------------------------------

\* Variants with a bug (Buggy...) stand before the definition they change; the
\* README names the property each one breaks.

\* The approval status is not looked at.
BuggyIsPending(row) == row.status \in {"OPEN", "APPROVED"}

\* An approval task still waiting for the operator.
IsPending(row) == row.status = "OPEN" /\ row.approval = "PENDING"

\* An approval task the worker may execute.
IsApproved(row) == row.status = "APPROVED" /\ row.approval = "APPROVED"

SendingKinds == {"SEND_MESSAGE", "REQUEST_INFO"}

\* The reply put before the operator: the AI's suggestion, else the pending text.
ProposedText(row) == IF row.text # None THEN row.text ELSE row.pending

\* Without an edit there is no text.
BuggyApprovedText(row, edit) == edit

\* The text an approval stores: the operator's edit, else the proposal.
ApprovedText(row, edit) == IF edit # None THEN edit ELSE ProposedText(row)

\* The proposal has priority over the approved text.
BuggyTextToSend(row) == IF row.text # None THEN row.text ELSE row.sentText

\* The text the executor sends: the approved one has priority over the proposal.
TextToSend(row) == IF row.sentText # None THEN row.sentText ELSE ProposedText(row)

\* The text by which the worker looks a reply up among the outbound messages.
TextToLookUp(row) == row.text

\* Later than the first message after the task: off by one.
BuggyMatchingMessages(row, outbound) ==
    {i \in DOMAIN outbound : i > row.since + 1 /\ outbound[i].text = TextToLookUp(row)}

\* The positions in the outbound log that the worker takes for messages of this
\* task: same conversation, same text, created after the task.
MatchingMessages(row, outbound) ==
    {i \in DOMAIN outbound : i > row.since /\ outbound[i].text = TextToLookUp(row)}
=============================================================================

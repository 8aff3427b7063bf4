---------------------------- MODULE OutboundGate ----------------------------
(***************************************************************************)
(* What the approval workflow promises about outbound replies, without     *)
(* its rows, queues and workers.  A decision to approve a task grants one  *)
(* credit; a reply leaves only against a credit and carries an approved    *)
(* text.  An incident (a failing call, a crash) may give credits back,     *)
(* which is how a reply comes to be sent more than once.  A task whose     *)
(* payload was overwritten after its approval has no known text any more.  *)
(***************************************************************************)
EXTENDS Integers

CONSTANTS Tasks, Texts,
          Width         \* the most credits an incident gives back per task

VARIABLES approvals,    \* per task how often it was approved
          approved,     \* per task the texts approved for it
          overwritten,  \* the tasks overwritten after approval
          credit,       \* per task the replies that may still leave
          sends,        \* per task how often a reply left
          delivered,    \* per task the texts that left
          incidents     \* failing calls and crashes so far

gateVars == <<approvals, approved, overwritten, credit, sends, delivered, incidents>>

Init ==
    /\ approvals = [t \in Tasks |-> 0]
    /\ approved = [t \in Tasks |-> {}]
    /\ overwritten = {}
    /\ credit = [t \in Tasks |-> 0]
    /\ sends = [t \in Tasks |-> 0]
    /\ delivered = [t \in Tasks |-> {}]
    /\ incidents = 0

Approve(t, x) ==
    /\ approvals' = [approvals EXCEPT ![t] = @ + 1]
    /\ approved' = [approved EXCEPT ![t] = @ \cup {x}]
    /\ credit' = [credit EXCEPT ![t] = @ + 1]
    /\ UNCHANGED <<overwritten, sends, delivered, incidents>>

Overwrite(t) ==
    /\ overwritten' = overwritten \cup {t}
    /\ UNCHANGED <<approvals, approved, credit, sends, delivered, incidents>>

Send(t, x) ==
    /\ credit[t] > 0
    /\ x \in approved[t] \/ t \in overwritten
    /\ credit' = [credit EXCEPT ![t] = @ - 1]
    /\ sends' = [sends EXCEPT ![t] = @ + 1]
    /\ delivered' = [delivered EXCEPT ![t] = @ \cup {x}]
    /\ UNCHANGED <<approvals, approved, overwritten, incidents>>

\* A job ends without having sent anything.
Forfeit(t) ==
    /\ credit[t] > 0
    /\ credit' = [credit EXCEPT ![t] = @ - 1]
    /\ UNCHANGED <<approvals, approved, overwritten, sends, delivered, incidents>>

Incident ==
    /\ incidents' = incidents + 1
    /\ credit' \in [Tasks -> Nat]
    /\ \A t \in Tasks : credit'[t] <= credit[t] + Width
    /\ UNCHANGED <<approvals, approved, overwritten, sends, delivered>>

Next == \/ \E t \in Tasks : Overwrite(t) \/ Forfeit(t)
        \/ \E t \in Tasks, x \in Texts : Approve(t, x) \/ Send(t, x)
        \/ Incident

Spec == Init /\ [][Next]_gateVars
=============================================================================

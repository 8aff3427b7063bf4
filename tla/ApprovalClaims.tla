--------------------------- MODULE ApprovalClaims ---------------------------
(***************************************************************************)
(* What the guide of the repository says of the approval workflow, as a    *)
(* property of its specification.  It fails in a run of its own; README.md *)
(* tells the story.                                                        *)
(***************************************************************************)
EXTENDS ApprovalWorkflow

\* "Anything commercially sensitive is held back for a human to approve before
\* it sends": what is sent for a task was approved for it (worker and executor).
HeldForApproval == \A t \in Tasks : hist[t].delivered \subseteq hist[t].approved
=============================================================================

------------------------- MODULE MCApprovalWorkflow -------------------------
(* Model instances of ApprovalWorkflow: the AI suggestions, and symmetry.  *)
EXTENDS ApprovalClaims, TLC

CONSTANTS tA, tB

\* The AI has a text, asks for information, or escalates (as good as no action).
MCProposals == {[kind |-> "SEND_MESSAGE", text |-> tA],
                [kind |-> "REQUEST_INFO", text |-> None],
                [kind |-> "ESCALATE", text |-> None]}

SendProposals == {[kind |-> "SEND_MESSAGE", text |-> tA],
                  [kind |-> "SEND_MESSAGE", text |-> tB]}

ReplyOrEscalate == {[kind |-> "SEND_MESSAGE", text |-> tA], [kind |-> "ESCALATE", text |-> None]}

OneProposal == {[kind |-> "SEND_MESSAGE", text |-> tA]}

Identical == Permutations(Operators) \cup Permutations(Workers) \cup Permutations(Tasks)
             \cup Permutations(Messages)
=============================================================================

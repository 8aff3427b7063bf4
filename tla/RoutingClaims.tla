---------------------------- MODULE RoutingClaims ----------------------------
(***************************************************************************)
(* What the comments of the inbound worker say about replies, as           *)
(* a property of InboundRouting.  It fails in a run of its own.            *)
(***************************************************************************)
EXTENDS InboundRouting

\* "REQUIRES_APPROVAL: Pause conversation, create task, NO reply sent": a
\* sensitive message gets no automatic reply (inbound worker).
SensitiveHeld ==
    [][\A d \in Deliveries : replies'[d] > replies[d] => ~ job[d].sensitive]_vars
==============================================================================

----------------------------- MODULE CscsClaims -----------------------------
(***************************************************************************)
(* What the comments of the CSCS worker say, as properties of its          *)
(* specification.  Each one fails in a run of its own.                     *)
(***************************************************************************)
EXTENDS CscsVerification

\* "Check if verification already exists (don't overwrite manual verification)":
\* no automatic check, nor its error path, replaces what an operator entered
\* (CSCS worker).
ManualResultKept ==
    [][\A t \in Tasks : payload[t].result = "manual" /\ JobHolds(job[t]) /\ job'[t].pc # job[t].pc
          => payload'[t].result = "manual"]_vars
=============================================================================

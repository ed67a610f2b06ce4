-------------------------- MODULE MCDriftAttribution --------------------------
(* Model values and bounds for TLC. *)
EXTENDS DriftAttribution, TLC

CONSTANTS c1, c2, s1, s2

\* c1 declares every service, c2 all but s2.
MCDeclares == c1 :> Services @@ c2 :> (Services \ {s2})
===============================================================================

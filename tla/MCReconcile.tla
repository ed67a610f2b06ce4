----------------------------- MODULE MCReconcile -----------------------------
(* Model values and bounds for TLC. *)
EXTENDS Reconcile, TLC

D(r, a) == [ref |-> r, att |-> a]

CONSTANTS d1, d2, tag, a1, a2, o1, o2, c1, c2, c3, c4, bad

\* c1 deploys two services; c2 changes the attachment of service 1 and the
\* image of service 2; c3 drops service 1; c4 changes both fields of
\* service 1; the files of bad do not parse, so what it would declare is
\* never read.
Full == (c1 :> <<D(tag, a1), D(d1, a1)>>)
          @@ (c2 :> <<D(tag, a2), D(d2, a1)>>)
          @@ (c3 :> <<None, D(d1, a1)>>)
          @@ (c4 :> <<D(d2, a2), D(d1, a1)>>)
          @@ (bad :> <<None, None>>)
MCStack == [c \in Commits |-> [s \in Services |-> Full[c][s]]]

Gated(mode, prune) == [gate |-> TRUE, mode |-> mode, prune |-> prune]
\* The loop with the gate and pruning on.
MCGated == {Gated("per-service", TRUE)}
\* The loop without the gate.
MCUngated == {[gate |-> FALSE, mode |-> "per-service", prune |-> TRUE]}
MCConfigs == {Gated("per-service", TRUE), Gated("abort-cycle", TRUE),
              Gated("per-service", FALSE),
              [gate |-> FALSE, mode |-> "per-service", prune |-> TRUE]}

\* At the start the policy accepts d1 for both services, and d2 for neither.
MCInitSigned == {{<<s, d1>> : s \in Services}}
=============================================================================

----------------------------- MODULE AtomicApply -----------------------------
(***************************************************************************)
(* What Apply of internal/apply promises the loop for one service: however *)
(* many calls a change takes and wherever it fails, swarmgate writes the   *)
(* service at most once, as the last thing it does of it, by the verb that *)
(* was asked for, and all at once into the spec that was asked for: the    *)
(* networks, configs and secrets of those names.                           *)
(***************************************************************************)
EXTENDS Naturals

CONSTANTS
    Specs,      \* specs, by name
    None

VARIABLES
    service,    \* the spec of the service, or None
    writes,     \* how often swarmgate has written it
    request     \* the change being worked on: [act, spec], or None

vars == <<service, writes, request>>

Init == service = None /\ writes = 0 /\ request = None

Begin ==
    /\ request = None
    /\ \E act \in {"create", "update", "remove"}, spec \in Specs :
         request' = [act |-> act, spec |-> spec]
    /\ UNCHANGED <<service, writes>>

TakeEffect ==
    /\ request # None
    /\ IF request.act = "create" THEN service = None ELSE service # None
    /\ service' = IF request.act = "remove" THEN None ELSE request.spec
    /\ writes' = writes + 1
    /\ request' = None

\* The change fails before it takes effect.  (It may also fail afterwards: the
\* promise says nothing of the answer.)
Fail ==
    /\ request # None
    /\ request' = None
    /\ UNCHANGED <<service, writes>>

\* Someone else writes the service.
Others ==
    /\ service' \in Specs \cup {None}
    /\ UNCHANGED <<writes, request>>

Next == Begin \/ TakeEffect \/ Fail \/ Others
Spec == Init /\ [][Next]_vars
=============================================================================

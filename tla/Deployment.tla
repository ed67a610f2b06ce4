----------------------------- MODULE Deployment -----------------------------
(***************************************************************************)
(* What swarmgate promises to those who share its cluster, however many    *)
(* calls a cycle takes and wherever it fails.  A cycle draws up an agenda  *)
(* from one commit that parses: every order is one that the commit asks    *)
(* for and the policy accepts, and a service is taken down only if the     *)
(* commit no longer has it or with an accepted replacement on the agenda.  *)
(* From then on it does what is on the agenda, each order once and as a    *)
(* whole, or drops it.  It changes no service otherwise.                   *)
(***************************************************************************)
CONSTANTS
    Services,
    Specs,          \* what a commit can ask of a service: [img, att]
    Settings,       \* values of a setting that specs do not cover
    Default,        \* its value in a new service
    Declarations,   \* of the commits that parse: for every service the specs
                    \* it can come to, depending on what its tags name, or {}
    None

VARIABLES
    services,   \* [img, att, label, setting, by, ours] or None; by: who chose
                \* the image; ours: this very instance has carried the label
                \* at some time
    agenda,     \* the orders of the cycle under way
    trusted,    \* pairs <<s, image>> that the policy accepts
    prune       \* services that are declared no more are removed

vars == <<services, agenda, trusted, prune>>

Order == [act : {"create", "update", "remove"}, svc : Services,
          spec : Specs \cup {None}]

Init ==
    /\ services = [s \in Services |-> None]
    /\ agenda = {}
    /\ prune \in BOOLEAN

-----------------------------------------------------------------------------
\* What stack may ask for, under the policy.
Legal(o, stack) ==
    IF o.spec = None
    THEN o.act = "remove" /\ stack[o.svc] = {} /\ prune
    ELSE o.spec \in stack[o.svc] /\ <<o.svc, o.spec.img>> \in trusted

\* One order for a service, or a removal for the sake of a replacement.
Replaced(o) == [o EXCEPT !.act = "create"]
Coherent(orders) ==
    /\ \A o \in orders : o.act = "remove" /\ o.spec # None => Replaced(o) \in orders
    /\ \A o, q \in orders :
         o.svc = q.svc /\ o # q => q = Replaced(o) \/ o = Replaced(q)

Adopt ==
    /\ agenda = {}
    /\ \E stack \in Declarations :
         /\ agenda' \in SUBSET Order
         /\ Coherent(agenda')
         /\ \A o \in agenda' : Legal(o, stack)
    /\ UNCHANGED <<services, trusted, prune>>

Rest(s) == {o \in agenda : o.svc # s}

\* An order takes effect; if its answer is lost nothing follows on it.
Done(o) == agenda' = agenda \ {o} \/ agenda' = Rest(o.svc)

Create(o) ==
    /\ o.act = "create"
    /\ services[o.svc] = None
    /\ services' = [services EXCEPT ![o.svc] =
         [img |-> o.spec.img, att |-> o.spec.att, label |-> TRUE,
          setting |-> Default, by |-> "swarmgate", ours |-> TRUE]]

\* In place: attachments as they are, settings kept.
Update(o) ==
    LET old == services[o.svc] IN
    /\ o.act = "update"
    /\ old # None /\ old.att = o.spec.att
    /\ services' = [services EXCEPT ![o.svc] =
         [img |-> o.spec.img, att |-> old.att, label |-> TRUE,
          setting |-> old.setting, by |-> "swarmgate", ours |-> TRUE]]

Remove(o) ==
    /\ o.act = "remove"
    /\ services[o.svc] # None /\ services[o.svc].ours
    /\ services' = [services EXCEPT ![o.svc] = None]

TakeEffect ==
    /\ \E o \in agenda : Done(o) /\ (Create(o) \/ Update(o) \/ Remove(o))
    /\ UNCHANGED <<trusted, prune>>

\* An order fails, and with it what was to follow on it; or the cycle stops.
Drop ==
    /\ agenda' = {} \/ \E o \in agenda : agenda' = Rest(o.svc)
    /\ UNCHANGED <<services, trusted, prune>>

-----------------------------------------------------------------------------
\* The policy is extended.
Trust ==
    /\ trusted \subseteq trusted'
    /\ UNCHANGED <<services, agenda, prune>>

\* Someone else writes a service, and answers for any image chosen anew.
Foreign(old, new) ==
    \/ new = None
    \/ new.by = "operator"
    \/ old # None /\ new.by = old.by /\ new.img = old.img

Others ==
    /\ \E s \in Services :
         /\ services' = [services EXCEPT ![s] = services'[s]]
         /\ Foreign(services[s], services'[s])
    /\ UNCHANGED <<agenda, trusted, prune>>

Next == Adopt \/ TakeEffect \/ Drop \/ Trust \/ Others

Spec == Init /\ [][Next]_vars
=============================================================================

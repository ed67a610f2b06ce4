------------------------------- MODULE Changes -------------------------------
(***************************************************************************)
(* What one cycle decides to do: the difference of the desired and the     *)
(* observed services (internal/diff), the changes planned from it and      *)
(* those of them that the gate's verdicts let through (internal/loop plan  *)
(* and verify), as sets of changes with an order.                          *)
(*                                                                         *)
(* A service spec is reduced to two fields: the image digest, standing for *)
(* every field an update may change in place, and the attachments (configs *)
(* and secrets), which an update may not change.                           *)
(***************************************************************************)
EXTENDS Naturals, FiniteSets

CONSTANTS
    Services,   \* service names, each the rank of its name in sort order
    Digests,    \* image digests
    Atts,       \* sets of config/secret attachments
    None        \* "no service", "no declaration", "no inspection"

ServiceSpec == [img : Digests, att : Atts]
Change == [act : {"create", "update", "remove"}, svc : Services,
           spec : ServiceSpec, recreate : BOOLEAN]

ASSUME ChangesAssumption ==
    /\ Services \subseteq Nat
    /\ None \notin ServiceSpec

\* diff.Compute and the classes plan() splits it into.
Creates(want, have) == {s \in Services : want[s] # None /\ have[s] = None}
Updates(want, have) == {s \in Services : /\ want[s] # None
                                         /\ have[s] # None
                                         /\ want[s] # have[s]}
Removes(want, have) == {s \in Services : want[s] = None /\ have[s] # None}
DiffEmpty(want, have) == want = have

\* An attachment-only update, which the plan turns into remove + create.
AttachmentOnly(want, have) ==
    /\ want.img = have.img
    /\ want.att # have.att

Chg(act, s, spec, recreate) ==
    [act |-> act, svc |-> s, spec |-> spec, recreate |-> recreate]

\* The changes for a diff of which the services of gone are removed.
PlanRemoving(want, have, gone) ==
    LET recreated == {s \in Updates(want, have) :
                        AttachmentOnly(want[s], have[s])} IN
    {Chg("remove", s, have[s], TRUE) : s \in recreated}
      \cup {Chg("create", s, want[s], TRUE) : s \in recreated}
      \cup {Chg("create", s, want[s], FALSE) : s \in Creates(want, have)}
      \cup {Chg("update", s, want[s], FALSE) :
              s \in Updates(want, have) \ recreated}
      \cup {Chg("remove", s, have[s], FALSE) : s \in gone}

\* Mutant: removed services are forgotten by the plan.
Plan_NoRemoves(want, have, prune) == PlanRemoving(want, have, {})
\* plan(): recreate pairs, creates, updates and, when pruning, removes.
Plan(want, have, prune) ==
    PlanRemoving(want, have, IF prune THEN Removes(want, have) ELSE {})

\* The order of the plan: recreate pairs first (the remove before its
\* create), then creates, updates and removes, by name within each group.
Group(c) == CASE c.recreate -> 0
              [] ~c.recreate /\ c.act = "create" -> 1
              [] ~c.recreate /\ c.act = "update" -> 2
              [] ~c.recreate /\ c.act = "remove" -> 3
Before(c, d) ==
    \/ Group(c) < Group(d)
    \/ Group(c) = Group(d) /\ c.svc < d.svc
    \/ Group(c) = Group(d) /\ c.svc = d.svc
         /\ c.act = "remove" /\ d.act = "create"

\* Mutant: no removal is tied to a verdict.
Passed_Unpaired(cs, pass) ==
    {c \in cs : c.act = "remove" \/ <<c.svc, c.spec.img>> \in pass}
\* verify(): a removal passes, except that the removal of a recreate pair
\* passes only with its create.
Passed(cs, pass) ==
    {c \in cs :
       IF c.act = "remove"
       THEN c.recreate => \E d \in cs : /\ d.act = "create" /\ d.recreate
                                        /\ d.svc = c.svc
                                        /\ <<d.svc, d.spec.img>> \in pass
       ELSE <<c.svc, c.spec.img>> \in pass}
AllPassed(cs, pass) ==
    \A c \in cs : c.act # "remove" => <<c.svc, c.spec.img>> \in pass

=============================================================================

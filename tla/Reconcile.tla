------------------------------ MODULE Reconcile ------------------------------
(***************************************************************************)
(* The reconcile cycle of swarmgate (internal/loop cycle) running against  *)
(* a Docker Swarm cluster that an operator and the engine also write:      *)
(*                                                                         *)
(*   poll -> parse -> resolve -> observe -> diff -> verify -> apply        *)
(*        -> await converged                                               *)
(*                                                                         *)
(* The plan of a cycle is the set of changes of module Changes, ordered by *)
(* a relation; module PlanVerify shows that the slices of plan() and       *)
(* verify() come to the same.  Wake-ups and back-off between cycles are in *)
(* module WakeLoop, the commit and hint memory that only telemetry reads   *)
(* in module DriftAttribution.                                             *)
(***************************************************************************)
EXTENDS Changes

CONSTANTS
    Tags,       \* mutable image references
    OpVals,     \* values of a setting the model of a service does not cover
    NoOp,       \* its value in a fresh service
    Commits,    \* commits of the tracked branch
    Stack,      \* Stack[c][s]: what commit c declares for s, or None
    BadCommits, \* commits whose stack files do not parse
    InitSigned, \* what the policy may accept at the start
    Configs,    \* the swarmgate configurations considered
    MaxOps,     \* bound on environment changes (push, tag move, operator)
    MaxFaults   \* bound on failures of calls and abandoned cycles

Refs == Tags \cup Digests
Decl == [ref : Refs, att : Atts]
\* A service as the engine stores it.  "by" is a history variable: who wrote
\* the image last.  "up" is TRUE when the tasks of the current spec run.
Service == [id : Nat, ver : Nat, img : Digests, att : Atts,
            managed : BOOLEAN, op : OpVals, up : BOOLEAN,
            by : {"swarmgate", "operator"}]
Inspection == [chg : Change, svc : Service]
\* What others see of a service; ours: it has carried the label at some time.
View == [img : Digests, att : Atts, label : BOOLEAN, setting : OpVals,
         by : {"swarmgate", "operator"}, ours : BOOLEAN]
Config == [gate : BOOLEAN, mode : {"per-service", "abort-cycle"},
           prune : BOOLEAN]

ASSUME ConstantsAssumption ==
    /\ Stack \in [Commits -> [Services -> Decl \cup {None}]]
    /\ BadCommits \subseteq Commits
    /\ Configs \subseteq Config
    /\ InitSigned \subseteq SUBSET (Services \X Digests)
    /\ MaxOps \in Nat /\ MaxFaults \in Nat
    /\ NoOp \in OpVals
    /\ Tags \cap Digests = {}

ASSUME NoneAssumption ==
    /\ None \notin Decl
    /\ None \notin Service
    /\ None \notin Inspection
    /\ None \notin View

VARIABLES
    cfg,        \* the configuration, fixed for the life of the process
    head,       \* head of the tracked branch
    registry,   \* the digest each tag currently names
    signed,     \* pairs <<s, d>>: the policy accepts digest d for service s
    cluster,    \* the services of the cluster
    raft,       \* the engine's store index: source of IDs and versions
    pc,         \* stage of the current cycle
    decl,       \* what the fetched commit declares
    desired,    \* decl with every image pinned to a digest
    changes,    \* the changes that passed the gate
    todo,       \* those the apply loop has not reached yet
    failed,     \* failedRecreates
    pending,    \* services with a failed change
    insp,       \* the inspection an update or a remove in flight works from
    outcome,    \* how the last cycle ended
    ops, faults,\* counters for the bounds
    approved,   \* history: pairs <<s, d>> the gate passed in this cycle
    owned,      \* history: IDs of services that ever carried the label
    calm        \* history: no operator write since this cycle's snapshot

git    == <<cfg, head>>
env    == <<registry, signed, ops>>
world  == <<cluster, raft, owned>>
work   == <<decl, desired>>
plans  == <<changes, todo, failed, pending, insp>>
vars   == <<cfg, head, registry, signed, cluster, raft, pc, decl, desired,
            changes, todo, failed, pending, insp, outcome, ops, faults,
            approved, owned, calm>>

-----------------------------------------------------------------------------
(* Pure parts of the cycle. *)

\* Mutant: the tag is passed on unresolved.
Resolved_Unpinned(ref) == ref
\* Resolve: a pinned reference is kept, a tag is looked up in the registry.
Resolved(ref) == IF ref \in Digests THEN ref ELSE registry[ref]

\* Snapshot: the managed services only, in normal form.
Observed == [s \in Services |->
               IF cluster[s] # None /\ cluster[s].managed
               THEN [img |-> cluster[s].img, att |-> cluster[s].att]
               ELSE None]

\* Mutant: a gate that answers "pass" for every change.
Verdicts_FailOpen(cs) ==
    {<<c.svc, c.spec.img>> : c \in {d \in cs : d.act # "remove"}}
\* gate.Verify over the changes that are not removals: the pairs passed.  The
\* noop gate passes everything, the cosign gate what the policy accepts.
Verdicts(cs) ==
    {<<c.svc, c.spec.img>> :
       c \in {d \in cs : /\ d.act # "remove"
                         /\ cfg.gate => <<d.svc, d.spec.img>> \in signed}}

-----------------------------------------------------------------------------
(* The stages of a cycle. *)

\* What the engine stores when a service is written: every write gets the
\* next version and starts a rollout.
Stored(id, spec, managed, op, by) ==
    [id |-> id, ver |-> raft + 1, img |-> spec.img, att |-> spec.att,
     managed |-> managed, op |-> op, up |-> FALSE, by |-> by]

NoPlan ==
    /\ changes' = {} /\ todo' = {} /\ failed' = {} /\ pending' = {}
    /\ insp' = None

\* cycle() returns: the loop goes back to waiting for a wake or a back-off.
EndCycle(how) == pc' = "idle" /\ outcome' = how

\* Poll and parse: the head is fetched and its stack files are parsed.  A
\* commit that does not parse ends the cycle before anything is applied.
Poll ==
    /\ pc = "idle"
    /\ decl' = Stack[head]
    /\ desired' = [s \in Services |-> None]
    /\ approved' = {}
    /\ NoPlan
    /\ IF head \in BadCommits
       THEN EndCycle("preapply")
       ELSE pc' = "resolve" /\ outcome' = "running"
    /\ UNCHANGED <<git, env, world, faults, calm>>

\* Resolve pins one service after the other, in name order; a tag may move
\* between two look-ups.
Resolve(s) ==
    /\ pc = "resolve"
    /\ decl[s] # None /\ desired[s] = None
    /\ \A t \in Services : t < s /\ decl[t] # None => desired[t] # None
    /\ desired' = [desired EXCEPT ![s] = [img |-> Resolved(decl[s].ref),
                                          att |-> decl[s].att]]
    /\ UNCHANGED <<git, env, world, pc, decl, plans, outcome, faults,
                   approved, calm>>

\* Snapshot, diff and plan.  An empty diff ends the cycle.
Observe ==
    /\ pc = "resolve"
    /\ \A s \in Services : decl[s] # None => desired[s] # None
    /\ IF DiffEmpty(desired, Observed)
       THEN EndCycle("insync") /\ UNCHANGED todo
       ELSE /\ pc' = "verify" /\ UNCHANGED outcome
            /\ todo' = Plan(desired, Observed, cfg.prune)
    /\ calm' = TRUE
    /\ UNCHANGED <<git, env, world, work, changes, failed, pending, insp,
                   faults, approved>>

\* Mutant: abort-cycle behaves like per-service.
Aborts_Never(cs, pass) == FALSE
\* gate.mode abort-cycle: one rejected change stops the whole cycle.
Aborts(cs, pass) == cfg.mode = "abort-cycle" /\ ~AllPassed(cs, pass)

\* verify() and what cycle() makes of its answer, given the pairs that pass.
Judge(pass) ==
    LET keep == Passed(todo, pass) IN
    /\ approved' = pass
    /\ CASE Aborts(todo, pass) ->
              EndCycle("aborted") /\ todo' = {} /\ UNCHANGED changes
         [] ~Aborts(todo, pass) /\ keep = {} ->
              EndCycle("nothing") /\ todo' = {} /\ UNCHANGED changes
         [] ~Aborts(todo, pass) /\ keep # {} ->
              /\ pc' = "apply" /\ UNCHANGED outcome
              /\ changes' = keep /\ todo' = keep

\* The cosign gate fails closed: a check that cannot be made (a registry is
\* unreachable) rejects an image the policy would accept.
Verify ==
    /\ pc = "verify"
    /\ \/ Judge(Verdicts(todo)) /\ UNCHANGED faults
       \/ /\ cfg.gate /\ faults < MaxFaults /\ faults' = faults + 1
          /\ \E pass \in SUBSET Verdicts(todo) : Judge(pass)
    /\ UNCHANGED <<git, env, world, work, failed, pending, insp, calm>>

\* The change the apply loop is at.
IsNext(c) == c \in todo /\ \A d \in todo \ {c} : Before(c, d)

\* Mutant: the loop gives up at the first change that fails.
Return_StopAtFirst(c, ok) ==
    /\ todo' = IF ok THEN todo \ {c} ELSE {}
    /\ insp' = None
    /\ pending' = IF ok THEN pending ELSE pending \cup {c.svc}
    /\ failed' = IF ~ok /\ c.act = "remove" /\ c.recreate
                 THEN failed \cup {c.svc} ELSE failed
\* Apply(c) has returned: a failed change is noted and the loop goes on.
Return(c, ok) ==
    /\ todo' = todo \ {c}
    /\ insp' = None
    /\ pending' = IF ok THEN pending ELSE pending \cup {c.svc}
    /\ failed' = IF ~ok /\ c.act = "remove" /\ c.recreate
                 THEN failed \cup {c.svc} ELSE failed

cycleRest == <<git, env, pc, work, changes, outcome, approved, calm>>

\* The create of a recreate pair whose removal failed is skipped.
Skip(c) ==
    /\ pc = "apply" /\ insp = None /\ IsNext(c)
    /\ c.act = "create" /\ c.recreate /\ c.svc \in failed
    /\ todo' = todo \ {c}
    /\ UNCHANGED <<cycleRest, world, failed, pending, insp, faults>>

\* Mutant: whatever the commit asks for is sent to ServiceUpdate.
ImmutableChange_Never(cur, spec) == FALSE
\* checkImmutableChange: the attachments of a service cannot be updated.
ImmutableChange(cur, spec) == cur.att # spec.att

\* update() and remove() start from an inspection, and refuse there; only
\* remove() asks for the label.
Inspect(c) ==
    /\ pc = "apply" /\ insp = None /\ IsNext(c)
    /\ c.act \in {"update", "remove"}
    /\ LET cur == cluster[c.svc] IN
         IF \/ cur = None
            \/ c.act = "update" /\ ImmutableChange(cur, c.spec)
            \/ c.act = "remove" /\ ~cur.managed
         THEN Return(c, FALSE)
         ELSE /\ insp' = [chg |-> c, svc |-> cur]
              /\ UNCHANGED <<todo, pending, failed>>
    /\ UNCHANGED <<cycleRest, world, faults>>

\* The call took effect; its answer may still be lost to the stage timeout,
\* and then the applier reports an error.
Answer(c) ==
    \/ Return(c, TRUE) /\ UNCHANGED faults
    \/ faults < MaxFaults /\ faults' = faults + 1 /\ Return(c, FALSE)

\* ServiceCreate: the engine refuses a name that is taken.
Create(c) ==
    /\ pc = "apply" /\ insp = None /\ IsNext(c)
    /\ c.act = "create" /\ ~(c.recreate /\ c.svc \in failed)
    /\ IF cluster[c.svc] # None
       THEN Return(c, FALSE) /\ UNCHANGED <<world, faults>>
       ELSE /\ cluster' = [cluster EXCEPT ![c.svc] =
                 Stored(raft + 1, c.spec, TRUE, NoOp, "swarmgate")]
            /\ raft' = raft + 1
            /\ owned' = owned \cup {raft + 1}
            /\ Answer(c)
    /\ UNCHANGED cycleRest

\* Mutant: the update names the service but not the version it read.
VersionMatches_ByName(i) == cluster[i.chg.svc] # None
\* The engine's optimistic lock on ServiceUpdate.
VersionMatches(i) ==
    /\ cluster[i.chg.svc] # None
    /\ cluster[i.chg.svc].id = i.svc.id
    /\ cluster[i.chg.svc].ver = i.svc.ver

\* ServiceUpdate: the inspected spec with the modelled fields overwritten.
Update ==
    /\ pc = "apply" /\ insp # None
    /\ LET c == insp.chg IN
       /\ c.act = "update"
       /\ IF ~VersionMatches(insp)
          THEN Return(c, FALSE) /\ UNCHANGED <<world, faults>>
          ELSE /\ cluster' = [cluster EXCEPT ![c.svc] =
                    Stored(insp.svc.id, c.spec, TRUE, insp.svc.op, "swarmgate")]
               /\ raft' = raft + 1
               /\ owned' = owned \cup {insp.svc.id}
               /\ Answer(c)
    /\ UNCHANGED cycleRest

\* Mutant: the removal names the service, not the inspected instance.
SameInstance_ByName(i) == cluster[i.chg.svc] # None
\* ServiceRemove names the ID that was inspected, and no version.
SameInstance(i) ==
    /\ cluster[i.chg.svc] # None
    /\ cluster[i.chg.svc].id = i.svc.id

Remove ==
    /\ pc = "apply" /\ insp # None
    /\ LET c == insp.chg IN
       /\ c.act = "remove"
       /\ IF ~SameInstance(insp)
          THEN Return(c, FALSE) /\ UNCHANGED <<world, faults>>
          ELSE /\ cluster' = [cluster EXCEPT ![c.svc] = None]
               /\ raft' = raft + 1
               /\ UNCHANGED owned
               /\ Answer(c)
    /\ UNCHANGED cycleRest

\* A call of Apply(c) fails before the cluster changed: the inspection, a
\* network, a config or secret look-up, or the write itself.
CallFails(c) ==
    /\ pc = "apply" /\ faults < MaxFaults
    /\ IF insp = None THEN IsNext(c) ELSE c = insp.chg
    /\ ~(c.act = "create" /\ c.recreate /\ c.svc \in failed)
    /\ faults' = faults + 1
    /\ Return(c, FALSE)
    /\ UNCHANGED <<cycleRest, world>>

\* The loop over the changes is done.  A failed change makes the cycle
\* "partial"; otherwise convergence of what was applied is awaited.
ApplyDone ==
    /\ pc = "apply" /\ todo = {}
    /\ IF pending # {} THEN EndCycle("partial")
                       ELSE pc' = "await" /\ UNCHANGED outcome
    /\ UNCHANGED <<git, env, world, work, plans, faults, approved, calm>>

\* What AwaitConverged checks of one change.  The removal of a recreate pair
\* is not awaited.
Reached(c) ==
    LET cur == cluster[c.svc] IN
    IF c.act = "remove"
    THEN c.recreate \/ cur = None
    ELSE /\ cur # None
         /\ cur.managed /\ cur.img = c.spec.img /\ cur.att = c.spec.att
         /\ cur.up

AwaitConverged ==
    /\ pc = "await"
    /\ \A c \in changes : Reached(c)
    /\ EndCycle("converged")
    /\ UNCHANGED <<git, env, world, work, plans, faults, approved, calm>>

\* The converge timeout; the last poll may be older than the state.
AwaitTimeout ==
    /\ pc = "await"
    /\ EndCycle("unconverged")
    /\ UNCHANGED <<git, env, world, work, plans, faults, approved, calm>>

\* A stage before apply fails: git, registry, engine or gate unreachable.
StageFails ==
    /\ pc \in {"idle", "resolve", "verify"}
    /\ faults < MaxFaults /\ faults' = faults + 1
    /\ EndCycle("preapply")
    /\ NoPlan
    /\ UNCHANGED <<git, env, world, work, approved, calm>>

\* The cycle is abandoned after apply began: a panic recovered by safeCycle,
\* or the process stopped and was started again.
Abandon ==
    /\ pc \in {"apply", "await"}
    /\ faults < MaxFaults /\ faults' = faults + 1
    /\ EndCycle("preapply")
    /\ NoPlan
    /\ UNCHANGED <<git, env, world, work, approved, calm>>

-----------------------------------------------------------------------------
(* The environment: the branch, the registry, the engine, the operator. *)

cycleState == <<pc, work, plans, outcome, approved>>

Spend == ops < MaxOps /\ ops' = ops + 1

Push(c) ==
    /\ Spend /\ c # head
    /\ head' = c
    /\ UNCHANGED <<cfg, registry, signed, world, cycleState, faults, calm>>

MoveTag(t, d) ==
    /\ Spend /\ registry[t] # d
    /\ registry' = [registry EXCEPT ![t] = d]
    /\ UNCHANGED <<git, signed, world, cycleState, faults, calm>>

Sign(s, d) ==
    /\ Spend /\ <<s, d>> \notin signed
    /\ signed' = signed \cup {<<s, d>>}
    /\ UNCHANGED <<git, registry, world, cycleState, faults, calm>>

\* The engine finishes a rollout, which writes the service's status.
Rollout(s) ==
    /\ cluster[s] # None /\ ~cluster[s].up
    /\ cluster' = [cluster EXCEPT ![s] =
         LET old == cluster[s] IN
         [id |-> old.id, ver |-> raft + 1, img |-> old.img, att |-> old.att,
          managed |-> old.managed, op |-> old.op, up |-> TRUE,
          by |-> old.by]]
    /\ raft' = raft + 1
    /\ UNCHANGED <<git, env, owned, cycleState, faults, calm>>

\* The operator creates a service by hand, with the label or without.
OperatorCreate(s, d, a, m) ==
    /\ Spend
    /\ cluster[s] = None
    /\ cluster' = [cluster EXCEPT ![s] =
         Stored(raft + 1, [img |-> d, att |-> a], m, NoOp, "operator")]
    /\ raft' = raft + 1
    /\ owned' = IF m THEN owned \cup {raft + 1} ELSE owned
    /\ calm' = FALSE
    /\ UNCHANGED <<git, registry, signed, cycleState, faults>>

\* One edit by hand: the image, the attachments, the label, or a setting
\* swarmgate does not model.
Edits(old) ==
    LET Edit(d, a, m, o, by) ==
          Stored(old.id, [img |-> d, att |-> a], m, o, by) IN
    {Edit(d, old.att, old.managed, old.op, "operator") :
       d \in Digests \ {old.img}}
      \cup {Edit(old.img, a, old.managed, old.op, old.by) :
              a \in Atts \ {old.att}}
      \cup {Edit(old.img, old.att, m, old.op, old.by) :
              m \in BOOLEAN \ {old.managed}}
      \cup {Edit(old.img, old.att, old.managed, o, old.by) :
              o \in OpVals \ {old.op}}

OperatorUpdate(s) ==
    /\ Spend
    /\ cluster[s] # None
    /\ \E r \in Edits(cluster[s]) :
         /\ cluster' = [cluster EXCEPT ![s] = r]
         /\ owned' = IF r.managed THEN owned \cup {r.id} ELSE owned
    /\ raft' = raft + 1
    /\ calm' = FALSE
    /\ UNCHANGED <<git, registry, signed, cycleState, faults>>

OperatorRemove(s) ==
    /\ Spend
    /\ cluster[s] # None
    /\ cluster' = [cluster EXCEPT ![s] = None]
    /\ raft' = raft + 1
    /\ calm' = FALSE
    /\ UNCHANGED <<git, registry, signed, owned, cycleState, faults>>

-----------------------------------------------------------------------------
Init ==
    /\ cfg \in Configs
    /\ head \in Commits
    /\ registry \in [Tags -> Digests]
    /\ signed \in InitSigned
    /\ cluster = [s \in Services |-> None] /\ raft = 0 /\ owned = {}
    /\ pc = "idle" /\ outcome = "running"
    /\ decl = [s \in Services |-> None]
    /\ desired = [s \in Services |-> None]
    /\ changes = {} /\ todo = {} /\ failed = {} /\ pending = {}
    /\ insp = None
    /\ ops = 0 /\ faults = 0
    /\ approved = {} /\ calm = FALSE

\* The apply loop: one change, one call at a time.
ApplyStep ==
    \/ \E c \in todo : Skip(c) \/ Inspect(c) \/ Create(c)
    \/ Update
    \/ Remove
    \/ ApplyDone

\* The steps the process takes on its own.
LoopStep ==
    \/ Poll
    \/ \E s \in Services : Resolve(s)
    \/ Observe
    \/ Verify
    \/ ApplyStep
    \/ AwaitConverged
    \/ AwaitTimeout

Failure == StageFails \/ Abandon \/ \E c \in todo : CallFails(c)

Operator ==
    \E s \in Services :
      \/ OperatorRemove(s)
      \/ \E d \in Digests, a \in Atts, m \in BOOLEAN :
           OperatorCreate(s, d, a, m)
      \/ OperatorUpdate(s)

Environment ==
    \/ \E c \in Commits : Push(c)
    \/ \E t \in Tags, d \in Digests : MoveTag(t, d)
    \/ \E s \in Services, d \in Digests : Sign(s, d)
    \/ \E s \in Services : Rollout(s)
    \/ Operator

Next == LoopStep \/ Failure \/ Environment

Spec == Init /\ [][Next]_vars

\* The ticker wakes the loop for ever and every call returns, if only by its
\* timeout, so the process keeps taking steps; the engine finishes rollouts.
FairSpec == /\ Spec
            /\ WF_vars(LoopStep)
            /\ \A s \in Services : WF_vars(Rollout(s))

-----------------------------------------------------------------------------
(* Properties. *)

\* Types of the variables; in particular desired holds digests only, so that
\* nothing but a pinned image reaches the plan.
TypeOK ==
    /\ cfg \in Config
    /\ head \in Commits
    /\ registry \in [Tags -> Digests]
    /\ signed \in SUBSET (Services \X Digests)
    /\ cluster \in [Services -> Service \cup {None}]
    /\ raft \in Nat /\ owned \in SUBSET Nat
    /\ pc \in {"idle", "resolve", "verify", "apply", "await"}
    /\ decl \in [Services -> Decl \cup {None}]
    /\ desired \in [Services -> ServiceSpec \cup {None}]
    /\ changes \in SUBSET Change /\ todo \in SUBSET Change
    /\ failed \in SUBSET Services /\ pending \in SUBSET Services
    /\ insp \in Inspection \cup {None}
    /\ outcome \in {"running", "preapply", "insync", "nothing", "aborted",
                    "partial", "unconverged", "converged"}
    /\ ops \in 0 .. MaxOps /\ faults \in 0 .. MaxFaults
    /\ approved \in SUBSET (Services \X Digests)
    /\ calm \in BOOLEAN

\* With the gate on, every image that swarmgate put into the cluster is one
\* the policy accepts for that service, however tags move, cycles fail or
\* the operator interferes between the verdict and the write.
GateSafety ==
    cfg.gate => \A s \in Services :
        cluster[s] # None /\ cluster[s].by = "swarmgate"
          => <<s, cluster[s].img>> \in signed

\* A step of the apply loop (as opposed to one of the environment).
Applying == pc = "apply" /\ raft' # raft /\ todo' # todo

\* A service that the commit still declares is taken down for a recreate
\* only if the gate has passed its replacement.
RecreateOnlyIfApproved ==
    [][\A s \in Services :
         Applying /\ cluster[s] # None /\ cluster'[s] = None
                  /\ desired[s] # None
           => <<s, desired[s].img>> \in approved]_vars

\* In abort-cycle mode a cycle that changes the cluster has a passing verdict
\* for every change it set out to make, those already executed included.
AbortIsAllOrNothing ==
    [][Applying /\ cfg.mode = "abort-cycle" /\ cfg.gate /\ calm
         => \A s \in Services :
              desired[s] # None /\ <<s, desired[s].img>> \notin approved
                => cluster[s] # None /\ cluster[s].managed
                   /\ cluster[s].img = desired[s].img
                   /\ cluster[s].att = desired[s].att]_vars

\* An update keeps what it does not model: a setting the operator made, even
\* one that landed between swarmgate's inspection and its write.
OperatorSettingsSurvive ==
    [][\A s \in Services :
         Applying /\ cluster[s] # None /\ cluster'[s] # None
           => cluster'[s].op = cluster[s].op]_vars

\* swarmgate only ever removes a service that has carried its label: never
\* one that the operator put in the place of the service it inspected.
NeverRemovesForeign ==
    [][\A s \in Services :
         Applying /\ cluster[s] # None /\ cluster'[s] = None
           => cluster[s].id \in owned]_vars

\* What the guard of remove() promises, "never delete a service swarmgate does
\* not own": a service that it deletes carries the label at that moment.
NeverRemovesUnlabelled ==
    [][\A s \in Services :
         Applying /\ cluster[s] # None /\ cluster'[s] = None
           => cluster[s].managed]_vars

\* A cycle that reports "converged", or that found nothing to do, leaves the
\* cluster as the commit declares it, the rejected changes and (without
\* pruning) the removed services apart, if nobody else wrote meanwhile.
OutcomeHonest ==
    pc = "idle" /\ calm /\ outcome \in {"converged", "insync"} =>
      \A s \in Services :
        IF desired[s] = None
        THEN cfg.prune => Observed[s] = None
        ELSE \/ Observed[s] = desired[s]
             \/ outcome = "converged" /\ cfg.gate
                  /\ <<s, desired[s].img>> \notin approved

\* What the head of the branch asks of a service now.
Wanted(s) ==
    IF Stack[head][s] = None THEN None
    ELSE [img |-> Resolved(Stack[head][s].ref), att |-> Stack[head][s].att]
InSync(s) == Observed[s] = Wanted(s)
Rejected(s) ==
    cfg.gate /\ Wanted(s) # None /\ <<s, Wanted(s).img>> \notin signed
Blocked == cfg.mode = "abort-cycle"
             /\ \E s \in Services : Rejected(s) /\ ~InSync(s)
\* The name belongs to a service without the label.
NameTaken(s) == Wanted(s) # None /\ cluster[s] # None /\ ~cluster[s].managed
\* The attachments differ and so does something else: the plan updates the
\* service in place and the applier refuses that.
Mixed(s) == /\ Wanted(s) # None /\ Observed[s] # None
            /\ Wanted(s).img # Observed[s].img
            /\ Wanted(s).att # Observed[s].att

\* Once the environment is quiet every service ends up, and stays, as the head
\* of the branch declares it, unless the gate rejects it, an unmanaged service
\* holds its name, pruning is off or the update is a mixed one: failures of
\* calls, panics, restarts in the middle of a recreate and the trouble of
\* other services only delay it.
EventuallySettled ==
    <>[](head \notin BadCommits => \A s \in Services :
           \/ InSync(s) \/ Rejected(s) \/ Blocked \/ NameTaken(s) \/ Mixed(s)
           \/ Wanted(s) = None /\ ~cfg.prune)

\* A commit that gives a service another config object gets it deployed, gate
\* and name permitting, as README.md tells users to change a config; asked
\* only of services whose image swarmgate deployed.
NewConfigIsDeployed ==
    <>[](head \notin BadCommits => \A s \in Services :
           \/ Wanted(s) = None \/ Observed[s] = None
           \/ cluster[s].by = "operator"
           \/ Rejected(s) \/ Blocked \/ NameTaken(s)
           \/ Observed[s].att = Wanted(s).att)

-----------------------------------------------------------------------------
(* The cycle as an implementation of Deployment: the agenda is what the     *)
(* apply loop still has before it.                                          *)

\* The create of a recreate pair is skipped if the removal has failed.
Skipped(c) == c.act = "create" /\ c.recreate /\ c.svc \in failed
Order(c) == [act |-> c.act, svc |-> c.svc, spec |-> desired[c.svc]]
Agenda == IF pc = "apply" THEN {Order(c) : c \in {d \in todo : ~Skipped(d)}} ELSE {}

\* What a commit can ask of a service, whatever its tags name.
Pinned(c) ==
    [s \in Services |->
       IF Stack[c][s] = None THEN {}
       ELSE [img : IF Stack[c][s].ref \in Digests THEN {Stack[c][s].ref} ELSE Digests,
             att : {Stack[c][s].att}]]

Seen(svc) ==
    [img |-> svc.img, att |-> svc.att, label |-> svc.managed,
     setting |-> svc.op, by |-> svc.by, ours |-> svc.id \in owned]
Visible ==
    [s \in Services |-> IF cluster[s] = None THEN None ELSE Seen(cluster[s])]
Trusted == IF cfg.gate THEN signed ELSE Services \X Digests

Promise == INSTANCE Deployment WITH
    Specs <- ServiceSpec, Settings <- OpVals, Default <- NoOp,
    Declarations <- {Pinned(c) : c \in Commits \ BadCommits},
    services <- Visible, agenda <- Agenda, trusted <- Trusted,
    prune <- cfg.prune

\* What the steps of a cycle come to, with failures, restarts and other writers
\* between any two of them: orders of one commit that parses, accepted by the
\* policy, each taking effect once and as a whole or not at all; settings are
\* kept, and nothing is taken down that was never swarmgate's or without an
\* accepted replacement, unless the commit no longer has it.
DeploysAsDeclared == Promise!Spec

-----------------------------------------------------------------------------
(* Inductive strengthenings, for the proofs. *)

Accepted(c) == c.act # "remove" => <<c.svc, c.spec.img>> \in signed

\* GateSafety follows from what the apply loop still holds in its hands.
GateInv ==
    cfg.gate => /\ pc = "apply" => \A c \in todo : Accepted(c)
                /\ insp # None => pc = "apply" /\ insp.chg \in todo
                /\ GateSafety

\* Versions are never reused, so an inspection whose version is still current
\* is the current service; and a service is inspected for removal, or
\* carries the label, only if its ID is known as one of swarmgate's.
LockInv ==
    /\ \A s \in Services : cluster[s] # None =>
         /\ cluster[s].ver <= raft
         /\ cluster[s].managed => cluster[s].id \in owned
    /\ insp # None =>
         LET s == insp.chg.svc IN
         /\ insp.svc.ver <= raft
         /\ insp.chg.act = "remove" => insp.svc.id \in owned
         /\ cluster[s] # None /\ cluster[s].ver = insp.svc.ver
              => cluster[s] = insp.svc

\* A change of the plan does what the commit asks of its service.
Faithful(c) ==
    LET want == desired[c.svc] IN
    IF c.act = "remove" THEN c.recreate <=> want # None
                        ELSE want # None /\ c.spec = want
\* Among cs is the change that brings s to what the commit asks.
Brings(cs, s) ==
    \E c \in cs : c.svc = s /\ Faithful(c) /\ (c.act = "remove" => ~c.recreate)
\* What the gate has passed of what the commit asks of s.
Approves(s) == desired[s] # None => <<s, desired[s].img>> \in approved

\* In a cycle that nobody disturbs, a service is as wanted unless the plan
\* brings it there or the gate kept it back; the latter, in abort-cycle mode,
\* only of services that were as wanted in the first place.
Accounted(cs, s) ==
    \/ Observed[s] = desired[s]
    \/ desired[s] = None /\ ~cfg.prune
    \/ Brings(cs, s)
PlanInv ==
    /\ insp # None => pc = "apply" /\ insp.chg \in todo
    /\ pc \in {"verify", "apply"} => \A c \in todo : Faithful(c)
    /\ pc = "verify" /\ calm => \A s \in Services : Accounted(todo, s)
    /\ pc = "apply" =>
         \A c \in todo : Approves(c.svc) /\ Brings(changes, c.svc)
    /\ pc \in {"apply", "await"} /\ calm =>
         \A s \in Services :
           \/ Accounted(changes, s)
           \/ cfg.gate /\ cfg.mode = "per-service" /\ ~Approves(s)
    /\ pc = "apply" /\ calm /\ cfg.mode = "abort-cycle" =>
         \A s \in Services : ~Approves(s) => Observed[s] = desired[s]
    /\ OutcomeHonest

\* IDs come from the store index and belong to one service each.
IdInv ==
    \A s \in Services : cluster[s] # None =>
        /\ cluster[s].id <= raft
        /\ \A t \in Services \ {s} : cluster[t] # None => cluster[t].id # cluster[s].id

\* What is desired was declared by one commit that parses.
SourceInv ==
    pc \in {"resolve", "verify", "apply"} =>
        \E c \in Commits \ BadCommits :
            /\ decl = Stack[c]
            /\ \A s \in Services :
                 /\ desired[s] # None => desired[s] \in Pinned(c)[s]
                 /\ pc # "resolve" /\ decl[s] # None => desired[s] # None

\* A plan has one change per service, or a removal and its create.
Paired(cs, pruning) ==
    \A c \in cs :
      /\ c.act = "remove" /\ ~c.recreate => pruning
      /\ c.act = "remove" /\ c.recreate =>
           \E d \in cs : d.svc = c.svc /\ d.act = "create" /\ d.recreate
      /\ \A d \in cs \ {c} : c.svc = d.svc =>
           c.recreate /\ d.recreate /\ {c.act, d.act} = {"remove", "create"}

\* It is drawn up with no removal failed, and what is inspected for an update
\* can be updated in place.
PairInv ==
    /\ pc \in {"resolve", "verify"} => failed = {}
    /\ pc \in {"verify", "apply"} => Paired(todo, cfg.prune)
    /\ insp # None =>
         /\ insp.chg.act \in {"update", "remove"}
         /\ insp.chg.act = "update" => insp.svc.att = insp.chg.spec.att
=============================================================================

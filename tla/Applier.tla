------------------------------- MODULE Applier -------------------------------
(***************************************************************************)
(* The applier of internal/apply at work on one service, call by call: the *)
(* inspection, the networks it creates and waits for, the configs it looks *)
(* up or creates, the secrets it looks up, and the write.  Calls fail      *)
(* before or after their effect, and an operator works on the same         *)
(* cluster.  The loop of internal/loop asks again as long as the service   *)
(* is not as wanted.                                                       *)
(*                                                                         *)
(* Objects have IDs, specs have names.  All services are managed here; the *)
(* label guards are in modules Reconcile and SwarmSpec.                    *)
(***************************************************************************)
EXTENDS Naturals, FiniteSets

CONSTANTS
    Nets,       \* network names, in sort order
    Configs, Secrets,
    Defined,    \* configs that the stack defines by a file
    Wanted,     \* specs that a commit may ask for: [nets, cfgs, secs]
    InitSecrets,\* secrets that exist at the start
    Attempts,   \* how often a new network is looked for (100 in the code)
    MaxOps, MaxFaults, MaxCommits,  \* bounds: operator, failures, commits
    None

Specs == [nets : SUBSET Nets, cfgs : SUBSET Configs, secs : SUBSET Secrets]

Networks == [id : Nat, seen : BOOLEAN]
ServiceObjects == [id : Nat, ver : Nat, nets : SUBSET Nat, cfgs : SUBSET Nat,
                   secs : SUBSET Secrets]
Requests == [act : {"create", "update", "remove"}, spec : Specs]

ASSUME ApplierAssumption ==
    /\ Wanted \subseteq Specs /\ Nets \subseteq Nat
    /\ Defined \subseteq Configs /\ InitSecrets \subseteq SUBSET Secrets
    /\ Attempts \in Nat \ {0}
    /\ None \notin Specs \cup Nat \cup Networks \cup ServiceObjects \cup Requests

VARIABLES
    want,       \* the declared spec
    nets,       \* per network: [id, seen], or None; seen: readable by now
    cfgs,       \* per config: its ID, or None
    secs,       \* existing secrets
    svc,        \* the service: [id, ver, nets, cfgs, secs] with IDs, or None
    raft,       \* source of IDs and versions
    call,       \* the next call of the change, "idle" between changes
    req,        \* the change, or None
    insp,       \* the inspected service
    ids,        \* network IDs resolved so far
    byName,     \* config IDs as listed, with those created since
    waiting,    \* the network just created: [id, tries], or None
    writes,     \* number of writes of the service by the applier
    ops, faults, commits

objects == <<nets, cfgs, secs>>
local   == <<insp, ids, byName, waiting>>
bounds  == <<ops, commits>>
vars == <<want, nets, cfgs, secs, svc, raft, call, req, insp, ids, byName,
          waiting, writes, ops, faults, commits>>

NoIds == [n \in Nets |-> None]
NoCfgs == [c \in Configs |-> None]
NetsOf(v) == {n \in Nets : nets[n] # None /\ nets[n].id \in v.nets}
CfgsOf(v) == {c \in Configs : cfgs[c] # None /\ cfgs[c] \in v.cfgs}
\* The service by the names of what its IDs refer to.
ByName(v) == IF v = None THEN None
             ELSE [nets |-> NetsOf(v), cfgs |-> CfgsOf(v), secs |-> v.secs]
InSync == ByName(svc) = want

\* The attachments differ, and nothing but them.
AttachmentsDiffer(v, s) == CfgsOf(v) # s.cfgs \/ v.secs # s.secs
AttachmentOnly(v, s) == AttachmentsDiffer(v, s) /\ NetsOf(v) = s.nets

-----------------------------------------------------------------------------
(* The calls of one change. *)

\* Apply returns.
Return == /\ call' = "idle" /\ req' = None /\ insp' = None
          /\ ids' = NoIds /\ byName' = NoCfgs /\ waiting' = None
Goto(next) == call' = next /\ UNCHANGED req

\* The loop asks for what the diff of its snapshot says.
Begin ==
    /\ call = "idle" /\ ~InSync
    /\ LET act == CASE svc = None -> "create"
                    [] svc # None /\ AttachmentOnly(svc, want) -> "remove"
                    [] svc # None /\ ~AttachmentOnly(svc, want) -> "update" IN
       /\ req' = [act |-> act, spec |-> want]
       /\ call' = IF act = "create" THEN "networks" ELSE "inspect"
    /\ UNCHANGED <<want, objects, svc, raft, local, writes, bounds, faults>>

\* ServiceInspect, and the guard against a change of attachments in place.
Inspect ==
    /\ call = "inspect"
    /\ IF svc = None \/ (req.act = "update" /\ AttachmentsDiffer(svc, req.spec))
       THEN Return
       ELSE /\ Goto(IF req.act = "remove" THEN "write" ELSE "networks")
            /\ insp' = svc /\ UNCHANGED <<ids, byName, waiting>>
    /\ UNCHANGED <<want, objects, svc, raft, writes, bounds, faults>>

Unresolved == {n \in req.spec.nets : ids[n] = None}
NextNet == CHOOSE n \in Unresolved : \A k \in Unresolved : n <= k

\* Mutant: the list is not looked at.
Listed_Never(n) == FALSE
\* NetworkList finds a network by its exact name, once it is readable.
Listed(n) == nets[n] # None /\ nets[n].seen
\* Mutant: the list, filtered by substring, is taken for the answer.
FoundId_Substring(n) == nets[CHOOSE k \in Nets : Listed(k)].id
FoundId(n) == nets[n].id
ListNetwork ==
    /\ call = "networks" /\ Unresolved # {}
    /\ IF Listed(NextNet)
       THEN ids' = [ids EXCEPT ![NextNet] = FoundId(NextNet)] /\ UNCHANGED call
       ELSE call' = "create network" /\ UNCHANGED ids
    /\ UNCHANGED <<want, objects, svc, raft, req, insp, byName, waiting,
                   writes, bounds, faults>>

\* Mutant: a network that was created counts as readable.
AfterCreate_Ready == "networks"
AfterCreate == "await network"
Fault == faults < MaxFaults /\ faults' = faults + 1
Lost == Return /\ Fault
\* NetworkCreate refuses a name that is taken, also while it is not readable.
CreateNetwork ==
    /\ call = "create network"
    /\ IF nets[NextNet] # None
       THEN Return /\ UNCHANGED <<nets, raft, faults>>
       ELSE /\ nets' = [nets EXCEPT ![NextNet] = [id |-> raft + 1, seen |-> FALSE]]
            /\ raft' = raft + 1
            /\ \/ /\ Goto(AfterCreate) /\ UNCHANGED <<faults, insp, byName>>
                  /\ waiting' = [id |-> raft + 1, tries |-> 0]
                  /\ ids' = IF AfterCreate = "networks"
                            THEN [ids EXCEPT ![NextNet] = raft + 1] ELSE ids
               \/ Lost
    /\ UNCHANGED <<want, cfgs, secs, svc, writes, bounds>>

\* awaitNetwork looks for the ID it was given, a bounded number of times.
AwaitNetwork ==
    /\ call = "await network"
    /\ IF Listed(NextNet) /\ nets[NextNet].id = waiting.id
       THEN /\ Goto("networks") /\ waiting' = None
            /\ ids' = [ids EXCEPT ![NextNet] = waiting.id]
            /\ UNCHANGED <<insp, byName>>
       ELSE IF waiting.tries + 1 = Attempts THEN Return
            ELSE /\ Goto("await network")
                 /\ waiting' = [waiting EXCEPT !.tries = @ + 1]
                 /\ UNCHANGED <<insp, ids, byName>>
    /\ UNCHANGED <<want, objects, svc, raft, writes, bounds, faults>>

\* ConfigList; a service without configs needs no list.
ListConfigs ==
    /\ call = "networks" /\ Unresolved = {}
    /\ byName' = IF req.spec.cfgs = {} THEN NoCfgs ELSE cfgs
    /\ Goto("configs")
    /\ UNCHANGED <<want, objects, svc, raft, insp, ids, waiting, writes, bounds,
                   faults>>

\* Only a create carries the payloads of the configs that a file defines.
MayCreate(c) == req.act = "create" /\ c \in Defined
CreateConfig(c) ==
    /\ call = "configs" /\ c \in req.spec.cfgs /\ byName[c] = None
    /\ IF ~MayCreate(c) \/ cfgs[c] # None
       THEN Return /\ UNCHANGED <<cfgs, raft, faults>>
       ELSE /\ cfgs' = [cfgs EXCEPT ![c] = raft + 1]
            /\ raft' = raft + 1
            /\ \/ /\ Goto("configs")
                  /\ byName' = [byName EXCEPT ![c] = raft + 1]
                  /\ UNCHANGED <<faults, insp, ids, waiting>>
               \/ Lost
    /\ UNCHANGED <<want, nets, secs, svc, writes, bounds>>

\* SecretList: no secret is ever created.
ListSecrets ==
    /\ call = "configs"
    /\ \A c \in req.spec.cfgs : byName[c] # None
    /\ IF req.spec.secs \subseteq secs
       THEN Goto("write") /\ UNCHANGED local
       ELSE Return
    /\ UNCHANGED <<want, objects, svc, raft, writes, bounds, faults>>

Attached == [nets |-> {ids[n] : n \in req.spec.nets},
             cfgs |-> {byName[c] : c \in req.spec.cfgs}]
\* The engine takes a write only if what it refers to exists, the name is
\* free or, for an update, the version is the one that was inspected.
Accepts ==
    IF req.act = "remove" THEN svc # None /\ svc.id = insp.id
    ELSE /\ IF req.act = "create" THEN svc = None
            ELSE svc # None /\ svc.id = insp.id /\ svc.ver = insp.ver
         /\ Attached.nets \subseteq {nets[n].id : n \in {k \in Nets : nets[k] # None}}
         /\ Attached.cfgs \subseteq {cfgs[c] : c \in Configs}
         /\ req.spec.secs \subseteq secs
Write ==
    /\ call = "write"
    /\ IF ~Accepts
       THEN Return /\ UNCHANGED <<svc, raft, writes, faults>>
       ELSE /\ svc' = IF req.act = "remove" THEN None
                      ELSE [id |-> IF req.act = "create" THEN raft + 1 ELSE svc.id,
                            ver |-> raft + 1, nets |-> Attached.nets,
                            cfgs |-> Attached.cfgs, secs |-> req.spec.secs]
            /\ raft' = raft + 1 /\ writes' = writes + 1
            /\ Return
            /\ UNCHANGED faults \/ Fault
    /\ UNCHANGED <<want, objects, bounds>>

\* Any call fails without effect.
CallFails ==
    /\ call # "idle"
    /\ Lost
    /\ UNCHANGED <<want, objects, svc, raft, writes, bounds>>

Change ==
    \/ Begin \/ Inspect \/ ListNetwork \/ CreateNetwork \/ AwaitNetwork
    \/ ListConfigs \/ ListSecrets \/ Write
    \/ \E c \in Configs : CreateConfig(c)

-----------------------------------------------------------------------------
(* The cluster, the operator and the branch. *)

rest == <<call, req, local, writes, faults>>

\* A network that was created becomes readable.
Propagate(n) ==
    /\ nets[n] # None /\ ~nets[n].seen
    /\ nets' = [nets EXCEPT ![n].seen = TRUE]
    /\ UNCHANGED <<want, cfgs, secs, svc, raft, rest, bounds>>

Spend == ops < MaxOps /\ ops' = ops + 1 /\ UNCHANGED <<want, rest, commits>>
InUse(id) == svc # None /\ (id \in svc.nets \/ id \in svc.cfgs)

OperatorNetwork(n) ==
    /\ Spend
    /\ IF nets[n] = None
       THEN nets' = [nets EXCEPT ![n] = [id |-> raft + 1, seen |-> TRUE]]
       ELSE ~InUse(nets[n].id) /\ nets' = [nets EXCEPT ![n] = None]
    /\ raft' = raft + 1
    /\ UNCHANGED <<cfgs, secs, svc>>
OperatorConfig(c) ==
    /\ Spend
    /\ IF cfgs[c] = None THEN cfgs' = [cfgs EXCEPT ![c] = raft + 1]
       ELSE ~InUse(cfgs[c]) /\ cfgs' = [cfgs EXCEPT ![c] = None]
    /\ raft' = raft + 1
    /\ UNCHANGED <<nets, secs, svc>>
OperatorRemoves ==
    /\ Spend /\ svc # None /\ svc' = None /\ raft' = raft + 1
    /\ UNCHANGED objects
\* docker service update --network-rm, for one.
OperatorDetaches(n) ==
    /\ Spend /\ svc # None /\ n \in NetsOf(svc)
    /\ svc' = [svc EXCEPT !.nets = @ \ {nets[n].id}, !.ver = raft + 1]
    /\ raft' = raft + 1
    /\ UNCHANGED objects

Commit(s) ==
    /\ commits < MaxCommits /\ commits' = commits + 1
    /\ s # want /\ want' = s
    /\ UNCHANGED <<objects, svc, raft, rest, ops>>

Init ==
    /\ want \in Wanted
    /\ nets = NoIds /\ cfgs = NoCfgs /\ secs \in InitSecrets
    /\ svc = None /\ raft = 0
    /\ call = "idle" /\ req = None /\ insp = None
    /\ ids = NoIds /\ byName = NoCfgs /\ waiting = None
    /\ writes = 0 /\ ops = 0 /\ faults = 0 /\ commits = 0

Operator == \/ \E n \in Nets : OperatorNetwork(n) \/ OperatorDetaches(n)
            \/ \E c \in Configs : OperatorConfig(c)
            \/ OperatorRemoves
Next ==
    \/ Change
    \/ CallFails
    \/ \E n \in Nets : Propagate(n)
    \/ Operator
    \/ \E s \in Wanted : Commit(s)

Spec == Init /\ [][Next]_vars
\* Cycles go on for ever, every call returns, and a network becomes readable
\* before it has been looked for in vain for the rest of time.
FairSpec == Spec /\ WF_vars(Change) /\ \A n \in Nets : WF_vars(Propagate(n))

-----------------------------------------------------------------------------
(* Properties. *)

\* Apply as the loop sees it: one write per change at most, and that into the
\* spec that was asked for, IDs read as the names they stand for.
Promise == INSTANCE AtomicApply
             WITH service <- ByName(svc), request <- req
Implements == Promise!Spec

\* A service is only written when the networks of its spec are readable, those
\* created a moment ago included, so that a create does not fail over its own
\* networks.
OwnNetworksReadable ==
    call = "write" /\ req.act # "remove" =>
      \A n \in req.spec.nets :
        nets[n] # None /\ nets[n].id = ids[n] => nets[n].seen

\* Wanted, but nobody provides it.
Missing == \/ ~(want.secs \subseteq secs)
           \/ \E c \in want.cfgs \ Defined : cfgs[c] = None
\* An update may not change attachments; one that changes networks as well is
\* refused for ever (Reconcile!Mixed).
Refused == svc # None /\ AttachmentsDiffer(svc, want) /\ NetsOf(svc) # want.nets

\* However often a change stopped half-way, networks and configs that it left
\* behind do not stand in the way: the service ends up as wanted.
PartialWorkHeals == <>[](InSync \/ Missing \/ Refused)
=============================================================================

----------------------------- MODULE Computations -----------------------------
(***************************************************************************)
(* What is computed from a commit and the cluster: ServiceFields,          *)
(* StackParse, SwarmSpec and PlanVerify side by side.  They share no       *)
(* state, so a behaviour is one of them and the others rest; part says     *)
(* which.                                                                  *)
(***************************************************************************)
EXTENDS SwarmSpec, Integers, Sequences

CONSTANTS
    Width, MaxReplicas, MaxEntries, ReplicaValues, MemoryValues,
    ParallelismValues, Absent,                         \* of ServiceFields
    Dir, Inputs, AllowedFields, EnvRootSet, Absolute, Failed,
    Words,                                             \* of StackParse
    Services, Digests, Atts, None                      \* of PlanVerify

ASSUME LimitAssumption ==
    /\ Width \in Nat /\ MaxReplicas \in Nat \ {0} /\ MaxReplicas < 2^Width
    /\ MaxEntries \in [DOMAIN MaxEntries -> Nat]
    /\ ReplicaValues \subseteq Int \cup {Absent}
    /\ MemoryValues \subseteq Nat \cup {Absent}

VARIABLES part,
  used, replicas, memory, parallelism, kind, entries, phase, spec,
  tree, files, step, todo, errors, stack, keys, services, configs, owner,
  declared, have, prune, stage, names, changes, toVerify, passByIndex, i,
  verifyIndex, passedByChange, passed

F == INSTANCE ServiceFields
S == INSTANCE StackParse WITH phase <- step
P == INSTANCE PlanVerify WITH want <- declared

\* The services of a document are a map, their keys sequences of words; Nil is
\* no file.
ASSUME DocAssumption ==
    \A commit \in Inputs : S!Readable(commit) =>
        \A f \in S!StackFiles(commit) :
            /\ f # Nil /\ f.name \in Seq(Words)
            /\ \A s, t \in f.doc.services :
                 s.key \in Seq(Words) /\ (s.key = t.key => s = t)

\* Names have an order; what is not there is not a service.
ASSUME PlanAssumption == Services \subseteq Nat /\ None \notin P!ServiceSpec

-----------------------------------------------------------------------------
fieldVars == <<used, replicas, memory, parallelism, kind, entries, phase, spec>>
stackVars == <<tree, files, step, todo, errors, stack, keys, services, configs,
               owner>>
planVars == <<declared, have, prune, stage, names, changes, toVerify,
              passByIndex, i, verifyIndex, passedByChange, passed>>
allVars == <<part, vars, fieldVars, stackVars, planVars>>

RestFields ==
    /\ used = {} /\ replicas = Nil /\ memory = Nil /\ parallelism = Nil
    /\ kind = Nil /\ entries = Nil /\ phase = Nil /\ spec = Nil
RestStack ==
    /\ tree = Nil /\ files = Nil /\ step = Nil /\ todo = Nil /\ errors = Nil
    /\ stack = Nil /\ keys = Nil /\ services = Nil /\ configs = Nil
    /\ owner = Nil
RestSwarm == want = Nil /\ svc = Nil /\ commits = Nil /\ edits = Nil
RestPlan ==
    /\ declared = Nil /\ have = Nil /\ prune = Nil /\ stage = Nil
    /\ names = Nil /\ changes = Nil /\ toVerify = Nil /\ passByIndex = Nil
    /\ i = Nil /\ verifyIndex = Nil /\ passedByChange = Nil /\ passed = Nil

AllInit ==
    /\ part \in {"fields", "stack", "swarm", "plan"}
    /\ IF part = "fields" THEN F!Init ELSE RestFields
    /\ IF part = "stack" THEN S!Init ELSE RestStack
    /\ IF part = "swarm" THEN Init ELSE RestSwarm
    /\ IF part = "plan" THEN P!Init ELSE RestPlan

AllNext ==
    /\ part' = part
    /\ \/ /\ part = "fields" /\ F!Next
          /\ UNCHANGED <<vars, stackVars, planVars>>
       \/ /\ part = "stack" /\ S!Next
          /\ UNCHANGED <<vars, fieldVars, planVars>>
       \/ /\ part = "swarm" /\ Next
          /\ UNCHANGED <<fieldVars, stackVars, planVars>>
       \/ /\ part = "plan" /\ P!Next
          /\ UNCHANGED <<vars, fieldVars, stackVars>>

AllSpec == AllInit /\ [][AllNext]_allVars

-----------------------------------------------------------------------------
(* The properties of the modules, each of its own part. *)

\* No stack takes a service or a config object of another one, and a parse with
\* an error yields nothing.
StacksKeptApart ==
    part = "stack" => S!NobodyOverwritten /\ S!ConfigsAgree /\ S!FailsWhole
\* What swarmgate writes needs no second update.
WritesSettle == [][part = "swarm" => SettledWrite]_vars
\* An update keeps the labels of others and the settings the code copies.
ForeignSurvives == [][part = "swarm" => ForeignKept]_vars
\* plan() computes its set of changes in order; verify() ties each verdict to its
\* change and keeps a removal and its create together; each service is awaited
\* once.
PlanIsJudged ==
    part = "plan" => /\ P!PlanIsOrdered /\ P!VerifyIsPassed
                     /\ P!RecreateStaysAdjacent /\ P!AwaitedOnce
\* What the tables and limits of the parser allow is deployed, and only that.
AllowedIsDeployed ==
    part = "fields" =>
        F!AllowedIsConverted /\ F!LimitsHold /\ F!WithinIsAccepted
=============================================================================

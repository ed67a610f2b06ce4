---------------------------- MODULE ServiceFields ----------------------------
(***************************************************************************)
(* What a stack file may say of one service, and what of it reaches the    *)
(* engine.  Three tables of the parser have to agree: the fields it lets   *)
(* through (checkAllowedFields, on the raw document), the fields its       *)
(* conversion reads (parseStack, on what the loader decoded), and the      *)
(* limits on what they hold (checkResourceLimits, on the normal form).     *)
(*                                                                         *)
(* A service is the set of fields it uses, each a pair <<parent, key>>,    *)
(* with the numbers that the limits are about.  Short syntax is written    *)
(* by the same fields under a parent of its own; a key that holds a table  *)
(* (deploy.resources) is the parent of what the table holds.               *)
(***************************************************************************)
EXTENDS Integers, FiniteSets

CONSTANTS Width,        \* bits of an unsigned integer (64 in the code)
          MaxReplicas,  \* maxReplicas
          MaxEntries,   \* the other limits: [kind of list -> most entries]
          ReplicaValues, MemoryValues, ParallelismValues,  \* what files say
          Absent        \* a number that is not given

ListKinds == DOMAIN MaxEntries

(* What the compose loader decodes, below a service. *)
Compose ==
    ({"service"} \X {"image", "environment", "labels", "command", "entrypoint", "hostname", "cap_add", "user",
                     "stop_grace_period", "ulimits", "env_file", "dns", "privileged", "read_only"})
    \union ({"deploy"} \X {"replicas", "mode", "labels", "endpoint_mode", "rollback_config"})
    \union ({"deploy.restart_policy"} \X {"condition", "delay", "max_attempts", "window"})
    \union ({"deploy.resources"} \X {"limits", "reservations"})
    \union ({"deploy.resources.limits"} \X {"memory", "cpus", "pids"})
    \union ({"deploy.placement"} \X {"constraints", "preferences", "max_replicas_per_node"})
    \union ({"deploy.update_config"} \X {"parallelism", "delay", "order", "failure_action"})
    \union ({"healthcheck"} \X {"test", "interval", "timeout", "retries", "start_period", "disable", "start_interval"})
    \union ({"ports", "short ports"} \X {"target", "published", "protocol", "host_ip"})
    \union ({"ports"} \X {"mode", "name"})
    \union ({"networks"} \X {"name", "aliases", "ipv4_address"})
    \union ({"volumes"} \X {"type", "source", "target", "read_only", "tmpfs", "volume.subpath"})
    \union ({"configs"} \X {"source", "target", "mode", "uid"})
    \union ({"secrets"} \X {"source", "target", "mode", "uid"})

VARIABLES used,         \* fields of the service
          replicas, memory, parallelism,
          kind, entries,\* one of its lists, and its length
          phase,        \* "written", "checked", "parsed", "refused"
          spec          \* what reaches the service spec

vars == <<used, replicas, memory, parallelism, kind, entries, phase, spec>>

-----------------------------------------------------------------------------
(* The keys checkAllowedFields looks at, by parent; it looks no deeper.    *)
CheckedParents == {"service", "deploy", "healthcheck", "ports", "configs", "secrets"}

(* Mutant: a field is allowed before anything converts it. *)
Allowed_Early(parent) == {f[2] : f \in {g \in Compose : g[1] = parent}} \ {"privileged", "uid", "host_ip"}

Allowed(parent) ==
    CASE parent = "service" -> {"image", "environment", "labels", "command", "entrypoint", "hostname", "cap_add", "user",
                                "stop_grace_period", "ulimits", "env_file"}
      [] parent = "deploy" -> {"replicas", "mode", "labels"}
      [] parent = "healthcheck" -> {"test", "interval", "timeout", "retries", "start_period", "disable"}
      [] parent = "ports" -> {"target", "published", "protocol", "mode"}
      [] parent = "configs" -> {"source", "target", "mode"}
      [] parent = "secrets" -> {"source", "target"}

Check ==
    /\ phase = "written"
    /\ phase' = IF \A f \in used : f[1] \in CheckedParents => f[2] \in Allowed(f[1]) THEN "checked" ELSE "refused"
    /\ UNCHANGED <<used, replicas, memory, parallelism, kind, entries, spec>>

(* The fields parseStack and its helpers read.  env_file is read by the    *)
(* loader, into the environment.                                           *)
Converted ==
    ({"service"} \X {"image", "environment", "labels", "command", "entrypoint", "hostname", "cap_add", "user",
                     "stop_grace_period", "ulimits", "env_file"})
    \union ({"deploy"} \X {"replicas", "mode", "labels"})
    \union ({"deploy.restart_policy"} \X {"condition", "delay", "max_attempts", "window"})
    \union {<<"deploy.resources", "limits">>}
    \union ({"deploy.resources.limits"} \X {"memory", "cpus"})
    \union {<<"deploy.placement", "constraints">>, <<"deploy.update_config", "parallelism">>, <<"networks", "name">>}
    \union ({"healthcheck"} \X {"test", "interval", "timeout", "retries", "start_period", "disable"})
    \union ({"ports", "short ports"} \X {"target", "published", "protocol"})
    \union {<<"ports", "mode">>}
    \union ({"volumes"} \X {"type", "source", "target", "read_only"})
    \union ({"configs"} \X {"source", "target", "mode"})
    \union ({"secrets"} \X {"source", "target"})

Uses(parent) == \E f \in used : f[1] = parent

(* Conversions that refuse: limits need a memory limit, update_config a    *)
(* positive parallelism, a healthcheck a test unless it is disabled, a     *)
(* volume must not be a tmpfs.                                             *)
Mandatory ==
    /\ (Uses("deploy.resources.limits") \/ <<"deploy.resources", "limits">> \in used) => memory \notin {Absent, 0}
    /\ Uses("deploy.update_config") => parallelism \notin {Absent, 0}
    /\ Uses("healthcheck") => {<<"healthcheck", "test">>, <<"healthcheck", "disable">>} \cap used # {}
    /\ <<"volumes", "tmpfs">> \notin used

(* Mutant: the limit is compared as a signed number. *)
Unsigned_Signed(n) == n

(* An int that becomes a uint64. *)
Unsigned(n) == n % 2^Width

Replicas == IF replicas = Absent THEN 1 ELSE Unsigned(replicas)

(* Mutant: the limit itself is refused. *)
Exceeds_Reached(n, limit) == n >= limit

Exceeds(n, limit) == n > limit

Convert ==
    /\ phase = "checked"
    /\ IF Mandatory /\ ~Exceeds(Replicas, MaxReplicas) /\ ~Exceeds(entries, MaxEntries[kind])
       THEN /\ phase' = "parsed"
            /\ spec' = [fields |-> used \intersect Converted, replicas |-> Replicas % 2^Width, entries |-> entries]
       ELSE phase' = "refused" /\ spec' = spec
    /\ UNCHANGED <<used, replicas, memory, parallelism, kind, entries>>

(* Bound: a service uses two fields of one parent. *)
Init ==
    /\ used \in {{f, g} : f \in Compose, g \in Compose} /\ Cardinality({f[1] : f \in used}) = 1
    /\ replicas \in ReplicaValues /\ memory \in MemoryValues /\ parallelism \in ParallelismValues
    /\ kind \in ListKinds /\ entries \in {0, MaxEntries[kind], MaxEntries[kind] + 1}
    /\ phase = "written" /\ spec = [fields |-> {}, replicas |-> 0, entries |-> 0]

Next == Check \/ Convert

Spec == Init /\ [][Next]_vars

-----------------------------------------------------------------------------
(* The allowlist and the conversion agree wherever the allowlist looks: a  *)
(* key it lets through is one that reaches the spec.                       *)
AllowedIsConverted ==
    phase = "parsed" => {f \in used : f[1] \in CheckedParents} \subseteq spec.fields

(* No accepted service asks the engine for more than the limits, also when *)
(* its number of replicas is negative; and none that limits its resources  *)
(* goes without a memory limit.                                            *)
LimitsHold ==
    phase = "parsed" =>
        /\ spec.replicas \in 0..MaxReplicas /\ spec.entries <= MaxEntries[kind]
        /\ Uses("deploy.resources.limits") => memory > 0

(* What the limits and tables allow is not refused: a service of converted *)
(* fields, within the limits and with what is mandatory, is parsed.        *)
WithinIsAccepted ==
    phase = "refused" =>
        \/ ~(used \subseteq Converted) \/ ~Mandatory
        \/ replicas # Absent /\ replicas \notin 0..MaxReplicas
        \/ entries > MaxEntries[kind]
=============================================================================

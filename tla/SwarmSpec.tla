------------------------------ MODULE SwarmSpec ------------------------------
(***************************************************************************)
(* The two forms of one service and the way between them: the normal form  *)
(* that stack files are parsed into and the differ compares (internal/spec *)
(* Normalize), the form the engine stores (ToSwarm, FromSwarm), the fields *)
(* the differ compares (internal/diff changedFields) and those an update   *)
(* overwrites in the engine's form (internal/apply update, mergeLabels).   *)
(*                                                                         *)
(* Slices that the code keeps sorted and free of duplicates are sets, maps *)
(* are functions.  A nil map, pointer or slice is Nil where the code can   *)
(* tell it from an empty one.  Fields that every conversion carries over   *)
(* verbatim (image, environment, hostname, user, capabilities, ulimits)    *)
(* are one field, "plain".                                                 *)
(***************************************************************************)
EXTENDS Integers, FiniteSets

CONSTANTS
    Raws,       \* services as parsed, before Normalize
    Stack,      \* the name of their stack
    Edits,      \* edits by hand: records of engine fields to overwrite
    MaxCommits, \* bound on changes of the declaration
    MaxEdits,   \* bound on edits
    Nil

Managed == "swarmgate.managed"
StackKey == "swarmgate.stack"
Namespace == "com.docker.stack.namespace"
\* Keys under LabelPrefix.
Scoped == {Managed, StackKey, "swarmgate.extra"}
\* The mode that file references have by default, octal 444.
ReadAll == 292

VARIABLES
    want,       \* the declared service in normal form
    svc,        \* the service as the engine stores it, or Nil
    commits, edits

vars == <<want, svc, commits, edits>>

Keys(m) == IF m = Nil THEN {} ELSE DOMAIN m
Only(m, ks) == [k \in Keys(m) \cap ks |-> m[k]]
\* The entries of both, of those with one key the entry of f.
Over(f, g) ==
    [k \in DOMAIN f \cup DOMAIN g |-> IF k \in DOMAIN f THEN f[k] ELSE g[k]]

-----------------------------------------------------------------------------
(* Normal form. *)

DefaultNetwork(stack) == <<stack, "default">>
\* Protocol in lower case and tcp by default, publish mode ingress by default.
NormalPort(p) ==
    [p EXCEPT !.proto = IF @ \in {"", "TCP"} THEN "tcp" ELSE @,
              !.mode = IF @ = "" THEN "ingress" ELSE @]

Normalize(stack, s) ==
    [s EXCEPT
       !.deployLabels = IF Keys(@) = {} THEN Nil ELSE @,
       !.labels = Over([k \in {Managed, StackKey} |->
                          IF k = Managed THEN "true" ELSE stack], Only(@, Scoped)),
       !.networks = IF @ = {} THEN {DefaultNetwork(stack)} ELSE @,
       !.ports = {NormalPort(p) : p \in @},
       !.health = IF @ # Nil /\ @.test = <<>> THEN Nil ELSE @,
       !.mode = IF @ = "" THEN "replicated" ELSE @,
       !.restart = IF @ # Nil /\ @.cond = "" THEN [@ EXCEPT !.cond = "any"]
                                             ELSE @]

-----------------------------------------------------------------------------
(* To the engine and back. *)

\* ToSwarm, with the networks attached by ID (attachByID).  A deploy label
\* overwrites a label of the same key; only a replicated service has a count.
ToSwarm(s) ==
    [plain |-> s.plain, dns |-> Nil, health |-> s.health,
     command |-> s.entrypoint, args |-> s.command,
     grace |-> IF s.grace > 0 THEN s.grace ELSE Nil,
     mounts |-> s.volumes, configs |-> s.configs, secrets |-> s.secrets,
     mode |-> IF s.mode = "replicated" THEN [kind |-> s.mode, n |-> s.replicas]
                                       ELSE [kind |-> s.mode, n |-> Nil],
     restart |-> IF s.restart = Nil THEN Nil
                 ELSE [s.restart EXCEPT !.delay = IF @ > 0 THEN @ ELSE Nil],
     resources |-> IF s.resources = Nil THEN Nil
                   ELSE [limits |-> s.resources, reservations |-> Nil],
     placement |-> IF s.placement = Nil THEN Nil
                   ELSE [constraints |-> s.placement, preferences |-> {}],
     update |-> IF s.update = Nil THEN Nil
                ELSE [parallelism |-> s.update, order |-> ""],
     labels |-> Over(Only(s.deployLabels, Keys(s.deployLabels)), s.labels),
     networks |-> {[id |-> n] : n \in s.networks},
     endpoint |-> IF s.ports = {} THEN Nil ELSE [mode |-> "", ports |-> s.ports]]

\* FromSwarm: what the model does not cover (mounts of other types, placement
\* preferences, reservations, the order of an update) is left out, the default
\* mode of a config reads as "not set", a count only as replicated has one.
FromSwarm(e) ==
    Normalize(IF StackKey \in DOMAIN e.labels THEN e.labels[StackKey] ELSE "",
      [plain |-> e.plain,
       replicas |-> IF e.mode.kind = "replicated" THEN e.mode.n ELSE 0,
       mode |-> e.mode.kind,
       health |-> e.health,
       entrypoint |-> e.command, command |-> e.args,
       grace |-> IF e.grace = Nil THEN 0 ELSE e.grace,
       volumes |-> {m \in e.mounts : m.type \in {"volume", "bind"}},
       configs |-> {[c EXCEPT !.mode = IF @ = ReadAll THEN 0 ELSE @] :
                      c \in e.configs},
       secrets |-> e.secrets,
       restart |-> IF e.restart = Nil THEN Nil
                   ELSE [e.restart EXCEPT !.delay = IF @ = Nil THEN 0 ELSE @],
       resources |-> IF e.resources = Nil THEN Nil ELSE e.resources.limits,
       placement |-> IF e.placement = Nil \/ e.placement.constraints = {}
                     THEN Nil ELSE e.placement.constraints,
       update |-> IF e.update = Nil THEN Nil ELSE e.update.parallelism,
       labels |-> Only(e.labels, Scoped),
       deployLabels |-> Only(e.labels, DOMAIN e.labels
                                         \ (Scoped \cup {Namespace})),
       networks |-> {n.id : n \in e.networks},
       ports |-> IF e.endpoint = Nil THEN {} ELSE e.endpoint.ports])

-----------------------------------------------------------------------------
(* The differ and the applier. *)

\* What a map of the code gives for a key: "" if it is not there.
Lookup(m, k) == IF k \in Keys(m) THEN m[k] ELSE ""
\* changedFields: every field is compared in full, except that deploy labels
\* only have to be found on the service.
Changed(new, old) ==
    {f \in DOMAIN new :
       IF f = "deployLabels"
       THEN \E k \in Keys(new[f]) : Lookup(old[f], k) # new[f][k]
       ELSE new[f] # old[f]}
AttachmentOnly(new, old) ==
    Changed(new, old) \in SUBSET {"configs", "secrets"} \ {{}}

\* checkImmutableChange: the references by source and target; modes may differ.
Attached(refs) == {<<f.source, f.target>> : f \in refs}
Immutable(e, s) ==
    \/ Attached(e.configs) # Attached(s.configs)
    \/ Attached(e.secrets) # Attached(s.secrets)

\* Mutant: every label of the service is kept.
MergeLabels_KeepAll(current, desired) == Over(desired, current)
\* Labels outside the prefix are kept, those under it are replaced.
MergeLabels(current, desired) ==
    Over(desired, Only(current, DOMAIN current \ Scoped))

\* Mutant: the inspected spec is thrown away.
Overwrite_Fresh(e, s) == ToSwarm(s)
\* update(): the inspected spec with the modelled fields overwritten.  Whole
\* engine structures are replaced, apart from labels and the endpoint.
Overwrite(e, s) ==
    LET new == ToSwarm(s) IN
    [new EXCEPT
       !.dns = e.dns,
       !.labels = MergeLabels(e.labels, new.labels),
       !.endpoint = IF e.endpoint # Nil
                    THEN [e.endpoint EXCEPT !.ports = s.ports]
                    ELSE new.endpoint]

\* Snapshot lists by the managed label; the rest swarmgate does not see.
Labelled(e) == Managed \in DOMAIN e.labels /\ e.labels[Managed] = "true"
Visible(e) == e # Nil /\ Labelled(e)
Diff == Changed(want, FromSwarm(svc))

-----------------------------------------------------------------------------
(* What the parser yields, what an edit by hand may write, and that none of  *)
(* it is Nil.                                                                *)

Fields == {"plain", "replicas", "mode", "health", "entrypoint", "command",
           "grace", "volumes", "configs", "secrets", "restart", "resources", "placement",
           "update", "labels", "deployLabels", "networks", "ports"}
Writes(f) == {d[f] : d \in {x \in Edits : f \in DOMAIN x}} \ {Nil}
LabelSources == {r.labels : r \in Raws} \cup {r.deployLabels : r \in Raws}
                                       \cup Writes("labels")
LabelKeys == Scoped \cup UNION {Keys(m) : m \in LabelSources}
LabelValues ==
    {"true", Stack} \cup UNION {{m[k] : k \in Keys(m)} : m \in LabelSources}
IsLabels(m) == DOMAIN m \subseteq LabelKeys /\ m \in [DOMAIN m -> LabelValues]
Conditions ==
    {"any"} \cup {r.restart.cond : r \in {x \in Raws : x.restart # Nil}}
Endpoints(ports) ==
    [mode : {""} \cup {e.mode : e \in Writes("endpoint")}, ports : ports]

ASSUME RawAssumption ==
    \A r \in Raws :
        /\ r = [f \in Fields |-> r[f]]
        /\ r.labels = Nil \/ IsLabels(r.labels)
        /\ r.deployLabels = Nil \/ IsLabels(r.deployLabels)
        /\ r.grace \in Int /\ r.placement # {}
        /\ r.restart = Nil \/ r.restart \in [cond : Conditions, delay : Int]
        /\ \A m \in r.volumes : m.type \in {"volume", "bind"}
        /\ \A c \in r.configs : c = [x \in {"source", "target", "mode"} |-> c[x]]
        /\ \A p \in r.ports :
             p = [x \in {"target", "published", "proto", "mode"} |-> p[x]]
ASSUME EditAssumption ==
    \A d \in Edits :
        /\ "labels" \in DOMAIN d => IsLabels(d["labels"])
        /\ "endpoint" \in DOMAIN d =>
             d["endpoint"] = Nil \/ d["endpoint"] \in Endpoints({d["endpoint"].ports})
ASSUME NilAssumption ==
    /\ Nil \notin Int
    /\ Nil \notin [cond : Conditions, delay : Int \cup {Nil}]
    /\ \A ks \in SUBSET LabelKeys : Nil \notin [ks -> LabelValues]
    /\ \A r \in Raws :
         /\ Nil \notin Endpoints({{NormalPort(p) : p \in r.ports}})
         /\ Nil # [limits |-> r.resources, reservations |-> Nil]
         /\ Nil # [constraints |-> r.placement, preferences |-> {}]
         /\ Nil # [parallelism |-> r.update, order |-> ""]

-----------------------------------------------------------------------------
Declare(r) ==
    /\ commits < MaxCommits /\ commits' = commits + 1
    /\ want' = Normalize(Stack, r)
    /\ UNCHANGED <<svc, edits>>

\* create() refuses a spec without the managed label; the engine a name that
\* is taken.
Create ==
    /\ svc = Nil
    /\ want.labels[Managed] = "true"
    /\ svc' = ToSwarm(want)
    /\ UNCHANGED <<want, commits, edits>>

Update ==
    /\ Visible(svc) /\ Diff # {} /\ ~AttachmentOnly(want, FromSwarm(svc))
    /\ ~Immutable(svc, want)
    /\ svc' = Overwrite(svc, want)
    /\ UNCHANGED <<want, commits, edits>>

\* The remove of a recreate pair; its create is a step of its own.
RemoveToRecreate ==
    /\ Visible(svc) /\ AttachmentOnly(want, FromSwarm(svc))
    /\ svc' = Nil
    /\ UNCHANGED <<want, commits, edits>>

\* An edit by hand overwrites engine fields; labels are added or replaced.
Edit(d) ==
    /\ svc # Nil /\ edits < MaxEdits /\ edits' = edits + 1
    /\ svc' = [f \in DOMAIN svc |->
                 IF f \notin DOMAIN d THEN svc[f]
                 ELSE IF f = "labels" THEN Over(d[f], svc[f]) ELSE d[f]]
    /\ UNCHANGED <<want, commits>>

Init ==
    /\ \E r \in Raws : want = Normalize(Stack, r)
    /\ svc = Nil /\ commits = 0 /\ edits = 0

Write == Create \/ Update
Next ==
    \/ Write
    \/ RemoveToRecreate
    \/ \E r \in Raws : Declare(r)
    \/ \E d \in Edits : Edit(d)

Spec == Init /\ [][Next]_vars

-----------------------------------------------------------------------------
(* Properties. *)

\* Declarations that the engine's form cannot give back: a count with a mode
\* that has none, the default file mode written out, and deploy labels with
\* keys that are read back as something else.
Unstable(s) ==
    \/ s.mode # "replicated"
    \/ \E c \in s.configs : c.mode = ReadAll
    \/ s.grace < 0 \/ (s.restart # Nil /\ s.restart.delay < 0)
    \/ Keys(s.deployLabels) \cap (Scoped \cup {Namespace}) # {}

\* After swarmgate has written a service, whatever edits it carried before,
\* the next cycle sees it and finds nothing to change: there is no difference
\* that an update cannot remove, the unstable declarations apart.
SettledWrite ==
    Write => \/ Unstable(want)
             \/ Labelled(svc') /\ Changed(want, FromSwarm(svc')) = {}

\* An update keeps the labels of other tools and, of the settings without a
\* field in the normal form, those the code copies from the inspected service:
\* the rest of the container's (dns stands for them) and the resolution mode of
\* the endpoint.  It says nothing of reservations, placement preferences, the
\* order of an update and mounts of other types: they go with the structures
\* that update() replaces as a whole.
ForeignKept ==
    Update =>
     /\ \A k \in DOMAIN svc.labels \ (Scoped \cup Keys(want.deployLabels)) :
          k \in DOMAIN svc'.labels /\ svc'.labels[k] = svc.labels[k]
     /\ svc'.dns = svc.dns
     /\ svc.endpoint # Nil => /\ svc'.endpoint # Nil
                            /\ svc'.endpoint.mode = svc.endpoint.mode
=============================================================================

------------------------------- MODULE Status -------------------------------
(***************************************************************************)
(* `swarmgate status`: what the command says of a service after the daemon *)
(* has run for a while.  The command computes a live difference between    *)
(* the branch and the cluster, and marks a service "error" by the last     *)
(* verify or apply event the daemon wrote for it.                          *)
(*                                                                         *)
(* The daemon's cycle appears here with the events it writes and with the  *)
(* result of every change; what a change does to the engine in detail is   *)
(* in Reconcile and Applier.  The order of the changes of different        *)
(* services is left open.  A state function stands for the command, which  *)
(* only reads.                                                             *)
(***************************************************************************)
EXTENDS Naturals, Sequences, FiniteSets, SequencesExt

CONSTANTS Svc,          \* names of services
          None,         \* no service
          Heads,        \* what the branch may declare: a set of [Svc -> Spec or None]
          Rejected,     \* images the policy refuses
          Modes,        \* gate modes this run starts with
          Prunes,       \* values of prune this run starts with
          MaxCycles,    \* bound: cycles
          MaxMoves      \* bound: pushes, operator's changes and crashes together

(* A spec is an image and its attachments (configs, secrets). *)
Specs == {h[s] : h \in Heads, s \in Svc} \ {None}

VARIABLES head,         \* the branch, resolved to digests
          cluster,      \* managed services of the engine
          log,          \* the event file: verify and apply events
          pc,           \* "idle", "gate", "apply"
          want,         \* the cycle's desired state
          todo,         \* [service -> kind] of the changes not applied yet
          mode, prune,  \* configuration
          cycles, moves,
          failing,      \* history: last change was rejected, or failed to apply
          hidden,       \* history: a skipped create was written after the failure
          untold        \* history: the daemon ended before it wrote the result

results == <<log, failing, hidden, untold>>
vars == <<head, cluster, pc, want, todo, mode, prune, cycles, moves, results>>

Kinds == {"create", "update", "remove", "recreate", "replace"}

Init ==
    /\ head \in Heads /\ want = head
    /\ cluster = [s \in Svc |-> None] /\ log = <<>> /\ pc = "idle" /\ todo = <<>>
    /\ mode \in Modes /\ prune \in Prunes
    /\ cycles = 0 /\ moves = 0 /\ failing = {} /\ hidden = {} /\ untold = {}

-----------------------------------------------------------------------------
Differs(s, d, c) == d[s] # c[s]

(* plan over diff.Compute: a removal needs prune, an update of attachments *)
(* alone is a removal and a create.                                        *)
Kind(s, d, c) ==
    IF c[s] = None THEN "create"
    ELSE IF d[s] = None THEN "remove"
    ELSE IF d[s].image = c[s].image THEN "recreate"
    ELSE "update"

Planned(d, c) ==
    {s \in Svc : Differs(s, d, c) /\ (d[s] = None => prune)}

(* cycle up to the difference, with the whole of what it read. *)
Observe ==
    /\ pc = "idle" /\ cycles < MaxCycles /\ cycles' = cycles + 1
    /\ want' = head
    /\ todo' = [s \in Planned(head, cluster) |-> Kind(s, head, cluster)]
    /\ pc' = IF \A s \in Svc : ~Differs(s, head, cluster) THEN "idle" ELSE "gate"
    /\ UNCHANGED <<head, cluster, mode, prune, moves, results>>

(* A stage fails before the apply: one event without a service. *)
StageFails ==
    /\ pc = "gate" /\ pc' = "idle" /\ todo' = <<>>
    /\ UNCHANGED <<head, cluster, want, mode, prune, cycles, moves, results>>

Event(stage, s, o) == [stage |-> stage, service |-> s, outcome |-> o]

ToVerify == {s \in DOMAIN todo : todo[s] # "remove"}
Refused == {s \in ToVerify : want[s].image \in Rejected}

(* Mutant: only rejects are written. *)
VerdictEvents_Rejects(told) ==
    LET order == SetToSeq(told \intersect Refused)
    IN  [i \in 1..Len(order) |-> Event("verify", order[i], "reject")]

(* verify writes one event per verdict, pass and reject alike; told are    *)
(* the services it comes to.                                               *)
VerdictEvents(told) ==
    LET order == SetToSeq(told)
    IN  [i \in 1..Len(order) |->
           Event("verify", order[i], IF order[i] \in Refused THEN "reject" ELSE "pass")]

(* The gate judges the batch, and the verdicts on told are written. *)
Judge(told) ==
    /\ log' = log \o VerdictEvents(told)
    /\ failing' = (failing \ ToVerify) \union Refused
    /\ hidden' = hidden \ ToVerify
    /\ untold' = (untold \union ToVerify) \ told

Verify ==
    /\ pc = "gate" /\ Judge(ToVerify)
    /\ LET kept == IF Refused # {} /\ mode = "abort-cycle" THEN {} ELSE DOMAIN todo \ Refused
       IN  /\ todo' = [s \in kept |-> todo[s]]
           /\ pc' = IF kept = {} THEN "idle" ELSE "apply"
    /\ UNCHANGED <<head, cluster, want, mode, prune, cycles, moves>>

(* One change is applied and reported.  A call that failed may have taken  *)
(* effect.  A removal for a recreate that failed skips its create, whose   *)
(* event says so; one that succeeded leaves the create to be applied.      *)
Target(s) == IF todo[s] \in {"remove", "recreate"} THEN None ELSE want[s]

Rest(s, ok) ==
    IF ok /\ todo[s] = "recreate" THEN [todo EXCEPT ![s] = "replace"]
    ELSE [t \in DOMAIN todo \ {s} |-> todo[t]]

Skips(s, ok) == ~ok /\ todo[s] = "recreate"

Outcome(s, ok) == <<Event("apply", s, IF ok THEN "ok" ELSE "error")>>

ApplyEvents(s, ok) ==
    IF Skips(s, ok) THEN Outcome(s, ok) \o <<Event("apply", s, "skipped")>>
    ELSE Outcome(s, ok)

(* What a daemon that ends before it has written all of them leaves. *)
CutShort(s, ok) == {<<>>} \union (IF Skips(s, ok) THEN {Outcome(s, ok)} ELSE {})

(* The change of s is carried out, and told are the events written of it. *)
Carry(s, ok, told) ==
    /\ \E effect \in BOOLEAN :
         /\ ok => effect
         /\ cluster' = IF effect THEN [cluster EXCEPT ![s] = Target(s)] ELSE cluster
    /\ log' = log \o told
    /\ failing' = IF ok THEN failing \ {s} ELSE failing \union {s}
    /\ hidden' = IF Len(told) = 2 THEN hidden \union {s} ELSE hidden \ {s}
    /\ untold' = IF told = <<>> THEN untold \union {s} ELSE untold \ {s}

Apply(s) ==
    /\ pc = "apply" /\ s \in DOMAIN todo
    /\ \E ok \in BOOLEAN : Carry(s, ok, ApplyEvents(s, ok)) /\ todo' = Rest(s, ok)
    /\ pc' = IF todo' = <<>> THEN "idle" ELSE "apply"
    /\ UNCHANGED <<head, want, mode, prune, cycles, moves>>

Moves ==
    /\ moves < MaxMoves /\ moves' = moves + 1
    /\ UNCHANGED <<want, mode, prune, cycles>>

Push ==
    /\ Moves /\ head' \in Heads \ {head}
    /\ UNCHANGED <<cluster, pc, todo, results>>

Operator ==
    /\ Moves
    /\ \E s \in Svc : \E v \in (Specs \union {None}) \ {cluster[s]} :
          cluster' = [cluster EXCEPT ![s] = v]
    /\ UNCHANGED <<head, pc, todo, results>>

(* The daemon ends, and the file stays: between two steps of a cycle, with *)
(* the verdicts judged and only some of them written, or with a change     *)
(* carried out or failed and its events not, or not all, written.          *)
Crash ==
    /\ pc # "idle" /\ pc' = "idle" /\ todo' = <<>> /\ head' = head /\ Moves
    /\ \/ UNCHANGED <<cluster, results>>
       \/ /\ pc = "gate" /\ cluster' = cluster
          /\ \E told \in SUBSET ToVerify : Judge(told)
       \/ /\ pc = "apply"
          /\ \E s \in DOMAIN todo, ok \in BOOLEAN :
               \E told \in CutShort(s, ok) : Carry(s, ok, told)

Next == Observe \/ StageFails \/ Verify \/ (\E s \in Svc : Apply(s)) \/ Push \/ Operator \/ Crash

Spec == Init /\ [][Next]_vars

-----------------------------------------------------------------------------
(* scanTelemetry: a later event of a service overwrites an earlier one. *)
IsLast(file, i, s) == /\ file[i].service = s
                      /\ \A j \in i + 1 .. Len(file) : file[j].service # s

Errored(file, s) ==
    \E i \in 1..Len(file) :
        /\ IsLast(file, i, s)
        /\ file[i].outcome = (IF file[i].stage = "verify" THEN "reject" ELSE "error")

(* buildStatuses: the row of s. *)
Row(s) ==
    IF Errored(log, s) THEN "error"
    ELSE IF Differs(s, head, cluster) THEN "diverged" ELSE "converged"

(* What runStatus promises: "diverged" and "error" tell a change that is   *)
(* still to come from one that keeps failing.  A row is "error" exactly if *)
(* the last change of the service that was judged was refused or failed,   *)
(* whatever crashes, pushes and failing stages came after it.  Two rows    *)
(* may be wrong: after the failed removal of a recreate, which the event   *)
(* of the skipped create overwrites, and of a service whose last result    *)
(* the daemon did not live to write, until its next result is written.     *)
ErrorMeansFailing ==
    \A s \in Svc \ untold : Row(s) = "error" <=> s \in failing \ hidden
=============================================================================

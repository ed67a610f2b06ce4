--------------------------- MODULE DriftAttribution ---------------------------
(***************************************************************************)
(* The memory drift attribution keeps across cycles (internal/loop         *)
(* cycleState): the last commit, the start of the previous cycle and the   *)
(* pending hints, shared by the loop and the goroutine that watches engine *)
(* events.  The cluster is reduced to the commit each service was deployed *)
(* from and the last edit by hand; module Reconcile has the repair.        *)
(*                                                                         *)
(* A hint is stamped when the event stream receives it and recorded later, *)
(* so a cycle may start in between.  Hints are taken one by one, each under *)
(* the lock, so one may be recorded between the snapshot and the event that *)
(* takes it.                                                               *)
(***************************************************************************)
EXTENDS Naturals, Sequences

CONSTANTS
    Services,  \* services under management
    Commits,   \* commits of the tracked branch
    Declares,  \* Declares[c]: the services commit c declares
    MaxTime,   \* bound on the clock
    MaxHints,  \* bound on engine events not yet recorded
    None       \* no commit, no hint

\* How a service differs from a commit; a change of labels only has no drift
\* kind of its own.
Kinds == {"removed", "field", "labels", "unmanaged"}

ASSUME BoundsAssumption ==
    /\ MaxTime \in Nat /\ MaxHints \in Nat /\ None \notin Commits
    /\ Declares \in [Commits -> SUBSET Services]

VARIABLES
    now,            \* the clock both goroutines read
    head,           \* head of the branch
    deployed,       \* the commit each service was last deployed from, or None
    edit,           \* what somebody changed on it since: "none", "field", "labels"
    events,         \* engine events on their way: [svc, seen, n]; seen and n are
                    \* history: snapshots taken at the change, and which event
    held,           \* stamped hints: one the watcher is about to record, and
                    \* one the stream is blocked on sending to it
    lastCommit, lastCycleStart,
    hints,          \* with those cycleState; [at, seen, n], at: the stamp
    pc,             \* where the cycle is
    commit, same,   \* this cycle's commit; whether it is the last one's
    since,          \* prevCycleStart
    unreported,     \* services whose drift event is still to be emitted
    drift,          \* the last drift event, or None
    snapshots,      \* history: snapshots taken so far
    missed,         \* history: the previous cycle ended before its snapshot
    reached,        \* history: this cycle has taken its snapshot
    used,           \* history: events that have attributed a drift
    changed,        \* history: this cycle fetched another commit than the last
    reconciled,     \* history: commits a cycle brought the cluster to
    n               \* history: events so far

swarm  == <<deployed, edit>>
memory == <<lastCommit, lastCycleStart, hints>>
cycle  == <<pc, commit, same, since, unreported, drift>>
stream == <<events, held, n>>
history == <<snapshots, missed, reached, used, changed, reconciled>>
vars == <<now, head, swarm, memory, cycle, stream, history>>

NoHint == [s \in Services |-> None]

Init ==
    /\ now = 1 /\ head \in Commits
    /\ deployed = [s \in Services |-> None]
    /\ edit = [s \in Services |-> "none"]
    /\ events = <<>> /\ held = <<>> /\ n = 0
    /\ lastCommit = None /\ lastCycleStart = 0 /\ hints = NoHint
    /\ pc = "idle" /\ commit = None /\ same = FALSE /\ since = 0
    /\ unreported = {} /\ drift = None
    /\ snapshots = 0 /\ missed = FALSE /\ reached = FALSE /\ used = {}
    /\ changed = FALSE /\ reconciled = {}

Tick ==
    /\ now < MaxTime
    /\ now' = now + 1
    /\ UNCHANGED <<head, swarm, memory, cycle, stream, history>>

-----------------------------------------------------------------------------
(* The cycle, as far as it uses the memory. *)

\* diff.Compute of commit c against the cluster.
Diff(c) == [s \in Services |->
    CASE deployed[s] = None /\ s \in Declares[c] -> "removed"
      [] deployed[s] = None /\ s \notin Declares[c] -> "none"
      [] deployed[s] # None /\ s \notin Declares[c] -> "unmanaged"
      [] deployed[s] # None /\ s \in Declares[c] /\ edit[s] = "none" ->
           IF deployed[s] = c THEN "none" ELSE "field"
      [] deployed[s] # None /\ s \in Declares[c] /\ edit[s] # "none" -> edit[s]]
Differing(c) == {s \in Services : Diff(c)[s] # "none"}

\* beginCycle: the start of the previous cycle bounds the age of hints.
Begin ==
    /\ pc = "idle"
    /\ since' = lastCycleStart
    /\ lastCycleStart' = now
    /\ pc' = "poll"
    /\ reached' = FALSE /\ missed' = (lastCycleStart > 0 /\ ~reached)
    /\ UNCHANGED <<now, head, swarm, lastCommit, hints, commit, same,
                   unreported, drift, stream, snapshots, used, changed,
                   reconciled>>

\* Mutant: the commit is remembered before it is compared.
SameCommitAsLast_Late(sha) == TRUE
\* An empty lastCommit matches nothing.
SameCommitAsLast(sha) == lastCommit # None /\ lastCommit = sha

\* The fetched commit is compared with the last one, then remembered.
Fetch ==
    /\ pc = "poll"
    /\ commit' = head
    /\ same' = SameCommitAsLast(head)
    /\ lastCommit' = head
    /\ changed' = (commit # head)
    /\ pc' = "observe"
    /\ UNCHANGED <<now, head, swarm, lastCycleStart, hints, since, unreported,
                   drift, stream, snapshots, missed, reached, used, reconciled>>

\* A stage fails, before the snapshot or after it (gate, apply, converge).
Fail ==
    /\ pc \in {"poll", "observe", "apply"}
    /\ pc' = "idle"
    /\ UNCHANGED <<now, head, swarm, memory, commit, same, since, unreported,
                   drift, stream, history>>

\* emitDrift reports these; an update whose changed fields have no drift kind is
\* passed over, and keeps its hint.
Reported == {s \in Services :
               Diff(commit)[s] \in {"removed", "field", "unmanaged"}}

\* Snapshot and diff; with an unchanged commit the difference is drift.  The
\* stages before it take time, so the clock has moved on.
Observe ==
    /\ pc = "observe" /\ now > lastCycleStart
    /\ snapshots' = snapshots + 1 /\ reached' = TRUE
    /\ IF Differing(commit) = {}
       THEN /\ pc' = "idle"
            /\ reconciled' = reconciled \cup {commit}
            /\ UNCHANGED unreported
       ELSE /\ unreported' = IF same THEN Reported ELSE {}
            /\ pc' = IF unreported' = {} THEN "apply" ELSE "attribute"
            /\ UNCHANGED reconciled
    /\ UNCHANGED <<now, head, swarm, memory, commit, same, since, drift, stream,
                   missed, used, changed>>

\* Mutant: consuming a hint leaves it in place.
HintsAfter_Kept(s) == hints
\* takeHint clears the hint of the service it is asked for, fresh or not.
HintsAfter(s) == [hints EXCEPT ![s] = None]

\* Mutant: hints older than the cycle itself are stale.
Fresh_ThisCycle(s) == hints[s] # None /\ hints[s].at > lastCycleStart
\* Fresh: stamped after the previous cycle started.
Fresh(s) == hints[s] # None /\ hints[s].at > since

\* A drift is put down to the poll unless a fresh hint announced it.
DriftEvent(s) ==
    [svc |-> s, origin |-> IF Fresh(s) THEN "event" ELSE "poll",
     hint |-> hints[s], commit |-> commit]

\* emitDriftEvent, for one service after the other.
Attribute(s) ==
    /\ pc = "attribute" /\ s \in unreported
    /\ drift' = DriftEvent(s)
    /\ hints' = HintsAfter(s)
    /\ used' = used \cup {hints[t].n : t \in {u \in {s} : Fresh(u)}}
    /\ unreported' = unreported \ {s}
    /\ pc' = IF unreported' = {} THEN "apply" ELSE "attribute"
    /\ UNCHANGED <<now, head, swarm, lastCommit, lastCycleStart, commit, same,
                   since, stream, snapshots, missed, reached, changed,
                   reconciled>>

\* Apply repairs every service or, when some change is rejected or fails,
\* some of them.
Apply(svcs) ==
    /\ pc = "apply"
    /\ svcs \subseteq Differing(commit)
    /\ deployed' = [s \in Services |->
                      IF s \notin svcs THEN deployed[s]
                      ELSE IF s \in Declares[commit] THEN commit ELSE None]
    /\ edit' = [s \in Services |-> IF s \in svcs THEN "none" ELSE edit[s]]
    /\ reconciled' = reconciled \cup {c \in {commit} : Differing(c) \subseteq svcs}
    /\ pc' = "idle"
    /\ UNCHANGED <<now, head, memory, commit, same, since, unreported, drift,
                   stream, snapshots, missed, reached, used, changed>>

\* The process is stopped and started again: the memory is new.
Restart ==
    /\ lastCycleStart > 0
    /\ lastCommit' = None /\ lastCycleStart' = 0 /\ hints' = NoHint
    /\ pc' = "idle" /\ commit' = None /\ same' = FALSE /\ since' = 0
    /\ unreported' = {} /\ drift' = None /\ events' = <<>> /\ held' = <<>>
    /\ reached' = FALSE /\ missed' = FALSE /\ changed' = FALSE
    /\ UNCHANGED <<now, head, swarm, n, snapshots, used, reconciled>>

-----------------------------------------------------------------------------
(* The environment and the event goroutine. *)

Push(c) ==
    /\ c # head
    /\ head' = c
    /\ UNCHANGED <<now, swarm, memory, cycle, stream, history>>

\* The engine announces a service; the history fields say after which
\* snapshot and as which event.
Announce(s) ==
    /\ n < MaxHints /\ n' = n + 1
    /\ events' = Append(events, [svc |-> s, seen |-> snapshots, n |-> n + 1])

\* Somebody edits a deployed service, or removes it.
Operator(s, k) ==
    /\ deployed[s] # None
    /\ IF k = "removed"
       THEN /\ deployed' = [deployed EXCEPT ![s] = None]
            /\ edit' = [edit EXCEPT ![s] = "none"]
       ELSE /\ edit[s] # k
            /\ edit' = [edit EXCEPT ![s] = k]
            /\ UNCHANGED deployed
    /\ Announce(s)
    /\ UNCHANGED <<now, head, held, memory, cycle, history>>

\* An event that tells of no edit: swarmgate's own write, a rollout.
Echo(s) ==
    /\ Announce(s)
    /\ UNCHANGED <<now, head, swarm, held, memory, cycle, history>>

\* hintFor stamps the event with the time at which it is received.
Stamp ==
    /\ Len(held) < 2 /\ events # <<>>
    /\ held' = Append(held, [svc |-> Head(events).svc,
                hint |-> [at |-> now, seen |-> Head(events).seen,
                          n |-> Head(events).n]])
    /\ events' = Tail(events)
    /\ UNCHANGED <<now, head, swarm, memory, cycle, n, history>>

\* The stream breaks: what it carried is lost.
StreamBreaks ==
    /\ events # <<>>
    /\ events' = <<>>
    /\ UNCHANGED <<now, head, swarm, held, n, memory, cycle, history>>

RecordHint ==
    /\ held # <<>>
    /\ hints' = [hints EXCEPT ![Head(held).svc] = Head(held).hint]
    /\ held' = Tail(held)
    /\ UNCHANGED <<now, head, swarm, lastCommit, lastCycleStart, events, n,
                   cycle, history>>

Next ==
    \/ Tick \/ Begin \/ Fetch \/ Fail \/ Observe \/ Restart
    \/ \E s \in Services : Attribute(s)
    \/ \E svcs \in SUBSET Services : Apply(svcs)
    \/ \E c \in Commits : Push(c)
    \/ \E s \in Services, k \in {"removed", "field", "labels"} : Operator(s, k)
    \/ \E s \in Services : Echo(s)
    \/ Stamp \/ StreamBreaks \/ RecordHint

Spec == Init /\ [][Next]_vars

-----------------------------------------------------------------------------
(* Properties. *)

\* A step that emits a drift event.
Emits == \E s \in Services : Attribute(s)

\* A commit that this process did not fetch in its previous cycle is a
\* deployment: none of its differences is reported as drift.
NewCommitIsDeployment == [][Emits => ~changed]_vars

\* One engine event attributes at most one drift, also when the hint lands in
\* the middle of the cycle that reports it and is fresh for the next one too.
NoHintReuse ==
    [][Emits => (drift'.origin = "event" => drift'.hint.n \notin used)]_vars

\* A hint is discarded as stale only if a snapshot before this cycle's could
\* already see what it tells of, or the previous cycle failed before its
\* snapshot, however long the watcher takes from the stamp to the record.
StaleMeansSeen ==
    [][Emits => (drift'.origin = "poll" /\ drift'.hint # None
                   => drift'.hint.seen + 1 < snapshots \/ missed)]_vars

\* What cycleState says of lastCommit, "the last commit reconciled": drift is
\* reported only for a commit the cluster has been brought to.
DriftMeansReconciled == [][Emits => commit \in reconciled]_vars
=============================================================================

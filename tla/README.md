# swarmgate in TLA+

swarmgate is a GitOps daemon for Docker Swarm: it polls a Git branch for stack
files, pins their images to digests, compares them with the services of the
cluster, asks a supply-chain gate about every image it is about to deploy, and
applies what passed. These modules model the daemon from the branch it reads to
the event file it writes, together with the cluster and the operator it shares
the cluster with, and the experiments that measure it. They are checked with
TLC on small instances, and the most important safety properties are proved
with TLAPS.

## The system

| Component | Code (`src/internal/` unless given) | State | Operations |
|---|---|---|---|
| reconcile cycle | `loop/loop.go` `cycle`, `plan`, `verify` | local to one cycle: desired, diff, changes, failed recreates | poll, parse, resolve, observe, diff, plan, verify, apply, await |
| scheduling | `loop/loop.go` `Run`, `run`, `watchEvents`; `loop/backoff.go` | the wake channel (buffer of one), the back-off attempt | wake, tick, back off, watch events, shut down |
| drift attribution | `loop/drift.go` | last commit, start of the previous cycle, pending hints (under a mutex) | record a hint, take a hint, begin a cycle, compare the commit |
| differ | `diff/diff.go` | none | `Compute` |
| applier | `apply/apply.go` | none of its own; writes services, networks, configs | create, update, remove |
| observer | `observe/` | none of its own; the event stream and its reconnect delay | snapshot, await convergence, events |
| gate | `gate/` | policy, cached trusted root | verify a batch |
| spec | `spec/` | none | parse, normalise, resolve, convert to and from the engine |
| Git source | `source/git.go` | a clone on disk | fetch |
| telemetry, status | `telemetry/`, `src/cmd/swarmgate/status.go` | an append-only event file | emit, summarise |
| start-up | `config/`, `src/cmd/swarmgate/main.go` | the configuration | load, validate, build the parts |
| experiment harness | `harness/`, `src/cmd/harness` | rows of results, the file it tails, restore timers | push, mutate, kill, wait for events, report |
| analysis, pipeline, scripts | `src/analysis`, `src/pipeline`, `src/scripts` | - | evaluation of the measurements, an example build, helpers |

One goroutine runs cycles, one after the other. It calls the source, the parser,
the resolver, the observer, the gate and the applier in this order; each call
has a timeout, and none is retried within the cycle. A ticker goroutine and the
watcher of engine events talk to it through the wake channel only, and the
watcher shares `cycleState` with it. The engine and the people who operate the
cluster write services at the same time, between any two calls.

What makes this hard: the cluster changes between a snapshot, the verdict on it
and the write; a call may fail with or without effect; one change of several
may fail; a service whose configs change is removed and created again, with
anything happening in between; the process may stop or panic anywhere; and
hints, ticks and cycles interleave. `PROJECT.json` lists these hazards line by
line, with the properties that cover them. What each component owes:

- cycle: nothing unverified reaches the cluster; a service is not taken down
  for a replacement that was rejected; abort-cycle is all or nothing; the
  reported outcome is true; the cluster settles on the branch.
- applier: nobody else's settings and services are lost.
- scheduling: no wake is lost, delays are bounded, a panic or a cancellation
  leaves nothing hanging.
- attribution: an event explains one drift at most, and is not dropped while it
  may still explain one; a deployment is not called drift.
- gate: one verdict per change, failing closed; no outage of one host rejects
  what another vouches for, and none outlasts its end.
- spec, differ, observer: the two sides of a comparison agree, so that what was
  applied is seen as applied; convergence is neither reported early nor missed.
- parser: nothing a stack says is silently dropped or overwritten by another
  stack, and no host path outside the configured roots is reachable.
- Git source: a fetch returns a commit that was the head meanwhile, with its own
  files, and recovers from every failure.
- telemetry, status: no event is lost unnoticed; a row shows the error that is
  there, and no other.
- harness: a row is about the run that wrote it, as far as what it waits for can
  tell; an outage ends once.

## Modules

The reconcile loop:

- `Changes` - specs, the diff, the planned changes and their order, and which
  of them a set of verdicts lets through. No variables; the two modules below
  build on it.
- `Reconcile` (on `Changes`) - the cycle against the cluster. Each stage is an
  action (`Poll`, one `Resolve(s)` per service, `Observe`, `Verify`,
  `ApplyDone`, `AwaitConverged`, `AwaitTimeout`), and within apply each engine
  call on a service is one: `Inspect` and `Update` or `Remove` are separate
  steps with the inspection kept in `insp`, as `update()` and `remove()` keep
  it in `current`. `CallFails` is a call that fails without effect, `Answer`
  one that took effect and whose answer may be lost, `StageFails` a failure
  before apply, `Abandon` a recovered panic or a restart after apply began. The
  environment pushes commits, moves tags, signs images, finishes rollouts, and
  creates, edits and removes services by hand. The image digest stands for
  every field that can be updated in place, `att` for configs and secrets,
  which cannot, and `op` for a setting swarmgate does not model. `raft` is the
  engine's store index, from which service IDs and versions come, so that an
  update's version check works as the engine's does. `by`, `approved`, `owned`
  and `calm` are history variables, which no guard reads.
- `Deployment` - the abstract specification of the cycle, for those who share
  the cluster with swarmgate: from one commit that parses it draws up an agenda
  of orders that the commit asks for and the policy accepts (`Adopt`), and then
  each order takes effect once, as a whole (`TakeEffect`), or is dropped
  (`Drop`). Somebody else may write any service at any time (`Others`), but
  answers for the image he chooses. `Reconcile` implements it
  (`DeploysAsDeclared`): the agenda is what the apply loop still has before it,
  without the creates that it will skip, a service is what it is apart from
  version and rollout, and the policy is what is signed, or everything without
  a gate.
- `PlanVerify` (on `Changes`) - `plan()`, `verify()` and `changesToAwaitDiff()`
  loop by loop and element by element: `Visit` proposes and drops, `Send` asks
  the gate (`GateFails` ends the cycle), `MarkRemoval` and `MarkVerified` walk
  the slice of changes and the slice of verdicts with an index each, `Collect`
  takes what passed. Its properties say that the loops compute the sets and the
  order `Reconcile` takes in one step.
- `WakeLoop` - the loop, the ticker and the watcher around the wake channel, and
  `backoff.next` in fixed-width arithmetic. A cycle is reduced to its end.
- `EventStream` - the goroutine of `observe/events.go`: subscriptions that
  break, the back-off between them with its timer, `hintFor` with its inspect,
  and a channel without a buffer.
- `HintPath` - `EventStream` and `WakeLoop` as one system: the send of the one
  is the receive of the other, and both listen to one context.
- `DriftAttribution` - `cycleState` with the clock and the stream of events.
  Stamping a hint (`hintFor`) and recording it (`recordHint`) are separate
  steps; at most two hints are in flight, one with the watcher and one that the
  unbuffered channel holds back. `Observe` is the snapshot and the difference;
  each drift event after it is a step of its own (`Attribute(s)`, for
  `emitDriftEvent`), so a hint may be recorded between the snapshot and the
  event that takes it.

What it reads:

- `StackTree` - which files of a commit are stacks, and which files their
  configs name. No variables.
- `GitSource` (on `StackTree`) - clone, forced update and read of one branch that
  is pushed to, forced back, deleted and created again; calls fail before or
  after their effect.
- `StackParse` (on `StackTree`) - the phases of the parser over a set of stack
  files: env files, allowlist, configs, services; services in any order.
- `HostPaths` - bind mounts and env files on a host with symbolic links, which
  its administrator may change between two parses: `EvalSymlinks`, `Rel`, roots
  and exact entries. A path is walked name by name and links are followed one
  by one (`Walked`, `Followed`), both as recursive functions; a name below a
  file is refused, and so are more than `MaxLinks` links.
- `ServiceFields` - the three tables of the parser for one service: what is let
  through, what is converted, what is limited, with a negative count turned
  unsigned in fixed width.
- `CosignGate` - the decision about a batch, call by call: every static key, the
  trusted root with its raced timer and its cache, every identity, the
  attestation; registry and Sigstore go down and come back meanwhile and the
  registry's content grows. What a call returns is the library's; `LoadPolicy`
  is `Loads`.

What it writes and waits for:

- `SwarmSpec` - `Normalize`, `ToSwarm`, `FromSwarm`, the differ's comparison, in
  which a missing label reads as an empty one (`Lookup`), and the fields an update
  overwrites, with edits by hand between updates. Configs and secrets are fields
  of their own: a change of them alone is a recreate, one beside another change
  is refused.
- `Applier` - `Apply` for one service with networks, configs and secrets as
  engine objects with IDs: each call is an action, fails before or after its
  effect, and an operator creates and removes the same objects in between.
- `AtomicApply` - the abstract specification of the applier: a change takes
  effect once, as a whole, by the verb it was asked for, or not at all.
  `Applier` implements it, with its IDs read as the names they stand for.
- `Converge` - `AwaitConverged`: the polls, the reads of a poll one by one, and
  the deadline, while the engine replaces tasks and tasks fail.
- `Telemetry` - the recorder's file with writes that fail or stop half-way, the
  loop's warning, the reader, restarts on the same file.
- `Status` - the fold of `swarmgate status` over the events that cycles write,
  beside a live difference; pushes, operators, and crashes at any point: after
  some verdicts of a batch are written and before the others, after a change
  was carried out or failed and before its event, between the two events of a
  failed recreate. `failing` follows verdicts and changes, not the file;
  `untold` is the services whose last result was not written.

The experiments:

- `Bench` - what the harness works on: branch, services, and swarmgate reduced
  to the order in which it reads, writes and emits events.
- `Trials` (on `Bench`) - the trials as sequences of steps per kind (`Steps`):
  scale and latency, drift of an environment variable, race, fault. A trial
  reads the events file late (`unread`), runs into deadlines, and restores what
  it took down by a timer or at its end. Every call of a trial may fail
  (`Errors`), with or without effect: a push may reach the branch and its answer
  be lost. A kill or a restore command may fail, and so may the last look at the
  cluster of a fault, which then leaves its row as it was.

Parts that share no state are checked and proved side by side: `Cluster` holds
`Applier` and `Converge`, `Inputs` holds `CosignGate`, `GitSource` and
`HostPaths`, `Computations` holds `ServiceFields`, `StackParse`, `SwarmSpec` and `PlanVerify`,
`Reporting` holds `Telemetry` and `Status`, and `MCLoop` holds `WakeLoop`,
`EventStream` and `HintPath`, where the two do interact. Each has a variable
`part` that is chosen in the initial state and never changes; a behaviour is one
of the parts, while the variables of the others rest. So behaviours and
properties are those of the modules alone, and every property says which part
it is about.

`Reconcile_proofs`, `Loop_proofs`, `DriftAttribution_proofs`, `Inputs_proofs`,
`Cluster_proofs`, `Computations_proofs`, `Reporting_proofs` and `Trials_proofs`
hold the theorems; each extends the module it is named after (`Loop_proofs`
extends `MCLoop`). The other `MC` modules give constants their values.

How the modules fit: what `Reconcile` takes in one step, another module takes
apart. Its `Observe` and plan are `PlanVerify`, its `Verify` is `CosignGate`,
its calls of apply are `Applier` (for `AtomicApply`) with `SwarmSpec`,
`AwaitConverged` is `Converge`, `Poll` is `GitSource` with `StackParse`, and its
cycles start as in `WakeLoop`.

## Runs

| Run | Instance | What it shows |
|---|---|---|
| `reconcile` | 2 services, 4 commits (one does not parse), 4 configurations, 1 environment change, 1 failure, fair | `GateSafety`, `OutcomeHonest`, `RecreateOnlyIfApproved`, `AbortIsAllOrNothing`, `EventuallySettled` |
| `reconcile_race` | 1 service, 3 commits, 3 environment changes, 1 failure | `OperatorSettingsSurvive`, `NeverRemovesForeign`, `DeploysAsDeclared` |
| `drift` | 1 service, 2 commits, 2 events, clock to 4 | `NewCommitIsDeployment`, `NoHintReuse`, `StaleMeansSeen` |
| `loop` | loop alone: 3 events, 1 panic, streaks to 9; stream alone: 2 changes, 1 failed inspect, delays 1 to 4; both: 1 change, 1 break, 1 failure | `NoLostWake`, `HintBeforeWake`, `DelaysFollowFailures`, `ManagedChangeIsTold`, `NobodyGivesUp`, `HintStarts`, `EverythingStops` |
| `cluster` | applier: 2 networks, 2 configs, 1 secret, 2 operator changes, 1 failure, 1 commit; await: 7 starting points, 1 edit, 2 failures | `OwnNetworksReadable`, `Implements`, `AwaitIsHonest`, `FailuresPass` |
| `inputs` | gate: 3 images, 6 policy files, 6 kinds of bundle, 2 pushes, 2 outages; source: 7 trees, 2 moves, 2 failures; host: 3 hosts, 14 mounts and 9 env files against 7 lists of roots, 4 of exact entries and 3 env roots, any number of parses and changes of the host | `PassIsEarned`, `GoodImagePasses`, `MissingMeansMissing`, `FetchIsTrue`, `PathsContained`, `InputsRecover` |
| `computations` | 81 pairs of stacks; 21 declarations, 11 edits, in twos; every pair of states of 3 services; every pair of fields | `StacksKeptApart`, `WritesSettle`, `ForeignSurvives`, `PlanIsJudged`, `AllowedIsDeployed` |
| `reporting` | file: 5 events, 3 failed writes, 2 starts; status: 2 services, 3 cycles, 2 pushes, operator's changes or crashes | `LossIsTold`, `ErrorMeansFailing` |
| `harness` | 2 services, 2 runs of each kind, 2 cycles that find a difference, 3 unread events | `RowsAreTrue`, `PushNotLost`, `OutagesEndOnce`, `RunsEnd` |
| `reconcile_config` | 1 service, no gate, commits `c1` and `c4`, 1 environment change, fair | finding: a config renamed together with another change |
| `reconcile_label` | 1 service, 3 environment changes, no failure | finding: the label guard of `remove()` |
| `drift_commit` | 1 service | finding: `lastCommit` is not the last commit reconciled |

Some of these are conjunctions of properties that stand in the modules under
names of their own, one for each promise: `AwaitIsHonest` of `ConvergedIsHonest`
and `SettledIsConverged`, `FailuresPass` of `PartialWorkHeals` and
`AwaitReturns`, `InputsRecover` of `OutageHeals` and `HeadIsReached`, and so on;
the modules that put parts side by side list them.
`PROJECT.json` names a mutation of the code for each property that TLC finds.

Bounds. Two services are enough for the order within a cycle, for one change
failing while another goes on, and for a rejection in abort-cycle mode to meet a
change that passes; commit `c2` makes one service a recreate while the other is
an update. The hazards of a single service (`reconcile_race`) need three
changes by others: a service must be removed and created again between an
inspection and the call, after it was put there in the first place. The number
of cycles is not bounded in any run of `Reconcile`, `WakeLoop` or `Applier`.
`MaxFaults` of 1 hits every call once, and a second failure starts from a state
that the first, or an operator action, can also leave; where two failures meet
in one operation (a transfer and its retry, two reads of a poll) it is 2.

- `loop` has the program's own back-off constants in tenths of a second and
  integers of 11 bits, in which the shift after the last capped one overflows;
  the history counter of failures goes on to 9, past the cap. The stream's delay
  doubles twice before its cap, and a third short subscription meets the cap.
- `drift` needs a clock that orders two cycle starts, a stamp and a recording.
  One service is enough: hints are kept per service, and each drift event takes
  that of its own; the theorems are for any number.
- `cluster`: two networks, so that one is created while the other is there or
  not readable; a config of the stack and an external one; an object removed
  and created again under the same name takes both operator changes. A network
  is looked for twice (a hundred times in the code) so that it may become
  readable in time or not.
- `inputs`: two keys, an identity and a stranger of the same issuer; two outages,
  so that one host is down when the other comes back; two pushes, since an
  acceptable image may need signature and attestation one after the other.
  Chains of two links and a cycle of links, with `..` before and after, a link
  out of a root and roots that are links or files themselves.
- `computations`: the plan takes three services so that a recreate stands before,
  between and after other changes. Two stacks suffice for every collision.
  `PlanVerify` only compares images and attachments, so these are symmetric.
  Integers of 12 bits hold the replica limit with room for a negative number's
  wrap.
- `reporting`: five events with three failed writes put a cut line between whole
  ones, and two in a row; two starts let a new recorder continue a cut line.
- `harness`: a second run meets what the first left behind: its timer, its
  events, its repair, a cycle still under way. Two tags make the third commit
  declare what the first did. Only scale and drift trials have somebody else
  edit other services, once.

`computations`, `reporting`, `cluster` and `loop`'s parts end or wait for good
when their bounds are reached; the configurations that say `CHECK_DEADLOCK
FALSE` do so for that reason only.

Fairness. `Reconcile!FairSpec` asks for weak fairness of the loop as a whole and
of rollouts: every call has a timeout (`StageTimeout`, `ConvergeTimeout`), the
ticker wakes the loop for ever, and an engine that can run a task does. It asks
for nothing of the environment and nothing of a particular outcome: failures
are limited by `MaxFaults`, so that the property is about what happens when they
end. `WakeLoop`: weak fairness of each goroutine. `EventStream`: of its
goroutine and its timer, and of the send as long as the watcher is there to
receive. `Applier`: of the change in progress and of a network becoming readable.
`CosignGate`: of `Verify` only; hosts need not come back, and a fetch may hang.
`GitSource`: weak fairness of `Fetch`, which the ticker asks for again and
again, strong fairness of a transfer that is possible again and again.
`Converge`: of the poll and of the deadline; strong fairness of taking the
deadline when ticker and deadline are both ready, since Go's `select` chooses at
random. `Telemetry`: of the end of a cycle and its warning. `Trials`: of the
trial and of its deadlines, of nothing of swarmgate.

Three of these rest on more than the code enforces. The goroutine of
`EventStream` asks the engine about a service without a timeout
(`events.go:126`): that it goes on assumes that this inspect answers or fails.
`faultRunShell` runs the kill and the restore command on `context.Background()`
(`fault.go:225`, `:260`), and `gitCommitAndPush` has no deadline: `RunsEnd`
assumes that these return. And `LossIsLogged` speaks of a process that lives to
the end of its cycle: one that dies between a lost event and `warnDropped` never
logs the loss, and its successor counts from zero, as `Restart` does.

## Findings

1. *A config renamed together with another field* (`reconcile_config`). README.md
   tells users to rename a config object when its content changes. `plan()`
   recreates a service only if configs and secrets are all that changed; with
   another change in the same commit (or a tag that moved meanwhile) the update
   goes to `update()`, where `checkImmutableChange` refuses it, in every cycle.
   `EventuallySettled` excludes this case by its disjunct `Mixed`, and
   `PartialWorkHeals` by `Refused`.
2. *The last commit reconciled* (`drift_commit`). `cycleState` calls `lastCommit`
   that, but it is the last commit fetched: when a cycle fails after its fetch,
   the next one reports the differences of a commit that was never deployed as
   drift.
3. *The label guard* (`reconcile_label`). `remove()` promises never to delete a
   service swarmgate does not own. The label is checked on an inspection, the
   removal names the ID only; a label taken away in between is not noticed.
   What does hold, and is proved, is `NeverRemovesForeign`: the removed
   instance has carried the label at some time.

### Disagreements of comments and code met while modelling

These were seen as counterexamples of properties that are no longer checked, or
while reading; each is a named exception or hypothesis of a property that is.

- `ToSwarm` is not the mirror of `FromSwarm` (`spec/swarm.go:164-166`) for a
  service in mode `global` or a job (its default count 1 comes back as 0), for a
  config with the explicit mode 0444 and for a deploy label with the key
  `com.docker.stack.namespace`: the differ reports such a service in every cycle.
  So it does with a negative duration, which the parser accepts
  (`parse.go:751`, `:808`) and `ToSwarm` does not write.
  A deploy label overwrites swarmgate's own stamps (`swarm.go:173-178`), so
  `swarmgate.managed: "false"` creates a service that no later cycle sees. These
  are `Unstable` in `WritesSettle`.
- An update keeps what the model does not cover (`apply/apply.go:134-137`), but
  replaces mounts, resources, placement and update config as a whole, and with
  them tmpfs mounts, reservations, preferences and the update order.
  `ForeignSurvives` is about what is kept: other tools' labels, the container
  settings without a field in the model and the endpoint's resolution mode.
- `attachConfigsAndSecrets` says it never creates a config (`apply.go:334-337`); it
  creates those a stack file defines.
- `AwaitConverged` compares deploy labels with `reflect.DeepEqual` after deleting
  others' keys, so an emptied map differs from a missing one: a service of which
  only an operator's label is left is in sync for the differ and never converges
  (a hypothesis of `SettledIsConverged`). The update-status clause compares images
  only, so an update of the environment alone may count as converged before
  its rollout starts; `ConvergedIsHonest` speaks of the tasks' images.
- `DriftHint` "names a managed service" (`events.go:16`); a removed service that
  was never managed is named too, since it cannot be inspected any more.
- Two configs of one stack with the same object name: one content is lost
  (`spec/parse.go:351`); `ConfigsAgree` speaks of different stacks. An aliased
  config body loses its `file:` when the anchor is prepared (`parse.go:353`). A
  reference to an external config with a `name:` is looked up by its key
  (`parse.go:505`). Keys nested deeper than the allowlist looks
  (`networks.aliases`, `reservations`, ...) are accepted and not deployed;
  `CheckedParents` in `ServiceFields` says where it looks.
- An entry of `volume_bind_roots` that is a file is refused, though
  `parse.go:145-146` allows file roots; and an unusable root fails a path that a
  later root would allow.
- A cut line in the events file also swallows the next event, so two are lost and
  one is counted (`recorder.go:40-42` says every one); `LossIsDetected` asks for a
  count, not for the right one.
- `status` clears an error only by a later event of the service, which a cycle
  that finds it as wanted does not write (`status.go:173-175`), and the skipped
  create of a failed recreate hides the failure (`loop.go:379`): `hidden` in
  `ErrorMeansFailing`. When the daemon dies between a verdict or a change and its
  event, the row of that service speaks of the result before it until the next
  one is written: `untold`.
- An event that a change caused after the snapshot may be taken by a difference
  the snapshot already showed, since hints are matched by service and age only
  (`drift.go:63-73`); the later drift is then put down to the poll. `NoHintReuse`
  asks that one event explains one drift, not which one.
- A panic after apply began is reported like a failure before it; the comment on
  `safeCycle` (`loop.go:162-170`) chooses that.
- Harness: `race.go:176` speaks of an event of the same cycle the push causes, but
  any cycle's diff (or apply, or converged event) fires, and `race.go:248` takes
  the next converged event, whatever its commit, for the convergence: a race row
  that says ok may be about an earlier commit or the repair of an earlier edit, so
  `OkMeansDeployed` speaks of races only if they began and pushed with the cluster
  as declared and no cycle at work (`clean`); a race whose trigger never comes is
  settled as a row all the same, without a mutation (`race.go:203-218`), and its
  winner is then git; the drift event it reports may be of an earlier drift;
  `fault.go` kills on any apply event; scale and latency
  open the tail after the push, against the doc of `Tail`; a cycle that did not
  converge is not followed by a converged event, so a readout may time out
  though the service is right; `driftUnmanagedRepairRow` says converged events fire
  for cycles that skipped every action, which `loop.go` does not do; drift rows of
  a run that begins with an earlier drift may belong to that one (`clean` is the
  hypothesis of `DetectIsOwn` and `RepairIsReal`); a converged event from before
  the push's timestamp gives a negative duration; a failed restore is never tried
  again and its error is in no row (`lost` in `RunsStartUp`); the baseline of
  `ref_drift` is not awaited when the file already matches.

## Proofs

Everything below holds for any sets of services, digests, tags, commits,
configurations, keys, identities, policies, networks, configs, stacks and
declarations and any bounds, under the named assumptions of the modules. TLC
evaluates each of these on the instance of a run. They say that constants have
their types and `None` and `Nil` are not values (`NilAssumption`, ...), and
beyond that:

- a stack and a branch have finitely many services (`ReportingAssumption`,
  `BenchAssumption`), names have an order (`PlanAssumption`), the services of a
  document are a map (`DocAssumption`), the declarations and edits have the
  fields of their Go types (`RawAssumption`, `EditAssumption`);
- the back-off's constants are such that its shift reaches the cap without an
  overflow (`BackoffAssumption`), and the replica limit fits the integer
  (`LimitAssumption`); the program's own constants are;
- a wait starts from a state in which each service has one task per slot of its
  spec (`ClusterAssumption`);
- paths, of a link, a stack or the configuration, are sequences of names
  (`HostAssumption`, `ContentAssumption`);
- powers of two are positive and grow (`PowersGrow`, `PowersDouble`): the provers
  know nothing of exponentiation, not even `2^0 = 1`.

The cycle (`Reconcile_proofs`):

- `TypeCorrect`: `TypeOK` is inductive. `PlanType`, `ObservedType` and
  `EditsType` type the operators; the rest is one step per action.
- `GateHolds`: `GateSafety` alone is not inductive, since a write of the apply
  loop is safe only because what it writes was judged before. `GateInv` adds
  that every change left to do is accepted by the policy, and that an
  inspection belongs to one of these. `PassedVerdict` and `VerdictsSigned` give
  this at `Verify`; the policy only grows.
- `SettingsKept`: from `LockInv`, which says that no version is newer than the
  store index and that an inspection whose version is still the current one
  *is* the current service. Then a write that passes the version check carries
  the setting the service has now.
- `ForeignKept`: from the parts of `LockInv` on IDs: a labelled service, and a
  service inspected for removal, has an ID from `owned`, and removal goes by ID.
- `OutcomeIsHonest`, `RecreateApproved`, `AbortAllOrNothing`: one invariant,
  `PlanInv`, relates the snapshot to what is left of the plan. Every change left
  is `Faithful` to the commit; in a cycle that nobody disturbed every service is
  `Accounted` for: it is as wanted, or exempt, or a change that `Brings` it there
  is still to come; and the gate `Approves` each change left and the create that
  follows a removal. At the end of the plan nothing is left, so what is not as
  wanted was kept back.
- `CycleKeepsPromise` (`DeploysAsDeclared`): every step of the cycle, of a failure
  and of the environment is a step of `Deployment` or is not seen there. Three
  more invariants carry the mapping: `SourceInv` (what is desired was declared by
  one commit that parses, under tags that stand for what they named then),
  `PairInv` (a service has one change left, or a removal and the create that
  replaces it), and `IdInv` (an ID is of one service at most, so that what one
  write makes swarmgate's own shows nowhere else). `PassedIsAdopted` is then the
  step from verdicts to an agenda, `WritesTakeEffect` a call that reaches the
  engine, with or without its answer, and `FailuresDrop` one that does not. An
  update finds the attachments it was judged with because its version check
  passed, and `LockInv` says what follows from that.

Scheduling and the event stream (`Loop_proofs`):

- `WakesAreKept`, `HintsPrecedeWakes`: the channel is only emptied in the step
  that starts a cycle; the watcher asks for a wake only in a state in which all
  hints received are recorded.
- `DelaysAreEarned`: `StreakInv` ties the attempt to the failures in a row (it
  stops at the last one that fits the width), `DelayInv` the delay to the attempt;
  `ShortInv` does the same for the stream, whose delay is a power of two times
  the smallest until the cap. The shift beyond the last attempt, which would
  overflow, is never made.
- `ManagedChangesAreTold`: `WireInv` says what an event on the wire tells of its
  change, so that the handler, which may see the label only on the event, decides
  as the engine knew it.

Attribution (`DriftAttribution_proofs`):

- `NewIsNoDrift`: the commit of a cycle under way is the one remembered, so they
  were equal before the fetch only if it was fetched by the cycle before.
- `HintsUsedOnce`: `HintInv` orders the events by their numbers: what was heard
  (used up, or a pending hint), then what is stamped and held, then what is on
  its way, each in increasing order, and no two pending hints are of one event.
  `NoHintReuse` alone says nothing of the hints that are still to come.
- `StaleIsSeen`: `SeenInv` puts the clock beside the snapshots. The snapshot of a
  cycle comes after its start, so a hint stamped no later than the start of a
  cycle that took its snapshot tells of a change that snapshot could show. While
  a cycle attributes its drifts its own snapshot is one more, also for the hints
  recorded meanwhile.

The gate and the source (`Inputs_proofs`):

- `TypeCorrect`: `TypeOK`, with the indexes into batch and keys.
- `FailsClosed` (`PassIsEarned`): `EarnInv` adds to it where the search stands
  (`Looking`) and what has been found on the way (`Promise`): in the attestation
  phase the image is well formed and the registry holds a bundle of a trusted
  signer for it. What is pushed stays, so a call that saw a bundle is right for
  good.
- `NoFalseReject` (`GoodImagePasses`) and `NamesTheCause` (`MissingMeansMissing`):
  `SearchInv` is the reverse, a search that has been fruitless so far: unless the
  registry was down since the change's turn came, the keys already tried verify
  nothing of what the image had then (`Fruitless`), what is down now is in
  `downs` (`Known`), and what the image had is there still (`Turn`).
  `RejectionHasCause` splits the verdicts by what they say.
- `FetchIsRight` (`FetchIsTrue`): `FetchInv` says that while a fetch runs the branch
  stands at a commit it has been seen at, and after the transfer the local branch
  does too; `ResultInv` that a result is a commit with the stack files read from
  it. That a config's payload is the file it names needs to know what `Clean`
  makes of a path of any length.
- `PathsStayContained` (`PathsContained`): `HostInv` says that what is remembered of
  a parse is what it makes of the host and of the configuration. `ResolvedIsPlain`
  shows that a path `EvalSymlinks` accepts is resolved in full, so that the host
  leads from / to it without a link; `InsideIsBelow` that a `Rel` which does not
  start with `..` means the path continues its root.
- The library's induction theorems cannot be used here, but induction over a
  number can be had from counting: a set of numbers that has 0 and with `n` also
  `n + 1`, and leaves out some `m`, has as many elements below `m` as there are
  numbers below `m`, and so leaves out none (`NatSetInduction`). What a recursive
  function computes then follows by the set of arguments where it is right
  (`Steps`, `Recursion`).

What is computed (`Computations_proofs`):

- `OnlyAllowedIsDeployed`: `FieldsInv` says of each phase which tables and limits
  the declaration has passed; `TablesAgree` compares the tables name by name.
- `StacksStayApart`: `ParseInv` says what each phase of the parser has found of
  the files it is done with (`ScanInv`), that the services taken are those
  declared up to here, each with the stack and the declaration it came from
  (`ServicesInv`), and the same of the config objects (`ConfigsInv`).
- `WritesReadBack`, `OthersSurvive`: `WantInv` (the declaration is in normal form)
  and `SvcInv` (what an update reads of the service). `ReadBack` then compares
  `Normalize` with `FromSwarm` of what was written, field by field.
- `PlanIsJudgedRight`: `Planning` says that the slice of changes is, in order,
  what the loops so far have proposed; `VerifyInv` that the gate is asked about
  it in that order (`AskedInv`), that the second index counts the changes asked
  about that the first has met (`IndexInv`), and that marks and result are those
  of the sets (`MarksInv`, `CollectInv`). `CreateFollows` is why looking at the
  next verdict is right for a removal: its create is the next change, and the
  next to be asked about. No induction over the slice is needed, since each
  step of the loops is a step of the module.

The cluster (`Cluster_proofs`):

- `Refinement` (`Applier` implements `AtomicApply`): `ApplierInv` is a conjunction
  of `Held` (every ID is older than the store index and belongs to one object),
  `Service`, `Asked` (the request is the one the diff asked for), `Resolved`
  (IDs resolved for names of the request are IDs that these names had) and
  `Complete` (at the write every name is resolved). A write the engine accepts
  then refers to live objects, and one ID is one name, so the service read by
  names is the spec of the request. Everything else is a stutter, a failure, or
  the environment.
- `NetworksAreReadable` (`OwnNetworksReadable`): `Readable` says that an ID that is
  still a network's was resolved when that network could be read, and a network
  never becomes unreadable.
- `ConvergenceIsHonest` (`AwaitIsHonest`): the reads of a poll are of different
  instants. `HonestInv` says that what the poll has judged stays so until an
  operator writes, since the engine only replaces tasks by those of the spec;
  `SteadyInv` that a poll which began when all was settled finds nothing pending.

What is reported (`Reporting_proofs`):

- `LossesCounted`, `WarningsBounded` (two of the three parts of `LossIsTold`): as
  long as nothing was counted, over all processes, line `k` of the file is event
  `k` as a whole; warnings never exceed `lastWarned`, nor that the count.
- `ErrorsTell` (`ErrorMeansFailing`): `RowsInv` says that after every step the
  file tells of every service what the last judged change left behind, but for
  those whose last result was not written (`untold`). What a batch of verdicts
  appends, all of it or a part, is described by the last line of each service,
  whatever the order of the batch.

The experiments (`Trials_proofs`):

- `OutagesEnd` (`OutagesEndOnce`): `OutageInv` says that what is down was taken down
  by the present run, which has not used its `restoreOnce`, and that the timers
  of all earlier runs find theirs used. A restore command that failed (`lost`)
  is the exception that the property names.
- `EditsTakeNothingBack` (`PushNotLost`): `EditInv`, an inspection whose version is
  still the current one shows the current tag.
- `RowsTellTheTruth` (`RowsAreTrue`): `RowsInv` relates the unread events to what
  has happened: for trials that push, a converged event still to be read is of a
  commit that was deployed or rejected (`PushInv`); for drift, detections and
  repairs still to be read are of the run's own mutation (`DriftInv`), and none
  of its own is passed over (`SeenInv`); for a race that began and pushed with the
  cluster as declared and no cycle at work, a converged event is read only once the
  pushed commit has been on the cluster (`RaceInv`). Of other races, of a row that
  rests on polling and of a timeout of scale the theorem says nothing.

Only model-checked is what needs fairness, for which the provers have no rule:
`EventuallySettled`, `NobodyGivesUp`, `HintStarts`, `EverythingStops`,
`FailuresPass`, `InputsRecover`, `RunsEnd` and `LossIsLogged`, the third part of
`LossIsTold`. Every other property of a passing run is the
property of a theorem, the first two parts of `LossIsTold` included.

## Not modelled

- Start-up and `config/`: a file is read and validated once; the values are
  constants of the modules.
- `secretfile`: one permission check.
- `spec/resolve.go` in part: how a reference is spelt and which registry it names.
- Harness in part: the reference trials (`ref_converge`, `ref_drift`), the verify
  trial, drift of replicas, image, removal and unmanaged services, network
  shaping, CSV files and preflight checks, which repeat the waits that are
  modelled or format what they found; winner, drift flag and times of a race row;
  the race detector's view of the deferred restore's error.
- Between modules: a goroutine of the event stream that a watcher's panic leaves
  behind (`HintPath` has no panics). In `Status`, a read between a change and its
  event while the daemon lives, which shows what a crash there would leave behind.
- The analysis, the example pipeline and the scripts; cryptography, go-git's
  transfer and the engine beyond what the code relies on; wording and logging.

## What is left of the plan

The verify trial and the reference trials on `Bench`: they repeat the waits of the
trials that are there, with other rows. And the liveness properties on instances
with more services: `EventuallySettled` is checked with two.

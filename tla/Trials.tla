-------------------------------- MODULE Trials --------------------------------
(***************************************************************************)
(* The trials of the experiment harness (internal/harness) on a Bench: a    *)
(* push timed until it converges (scale, latency), a mutation by hand timed *)
(* until it is repaired (drift), one that races a push (race), and a fault  *)
(* that hits in the middle of one (fault).  A row keeps what its honesty    *)
(* depends on, and the step in which the run reported; times and the winner *)
(* and drift flag of a race row are left out, and the row of a detection    *)
(* that succeeds is the step to "await".                                    *)
(***************************************************************************)
EXTENDS Bench

CONSTANTS Kinds,   \* trials of this instance: scale, race, drift, fault
          Offsets, \* when a race fires: diff, apply, after
          MaxRuns  \* runs of an experiment

ASSUME TrialAssumption ==
    Kinds \subseteq {"scale", "drift", "race", "fault"} /\ MaxRuns \in Nat

VARIABLES
    kind, offset, readout, \* the flags of the experiment
    run, at,               \* which run, and which of its Steps is next
    sha, got,              \* what it pushed; what it inspected
    tracked,               \* drift: cycle of Target's last apply event, or 0
    fired, converged,      \* fault: killed; whether convergence was seen
    timers, spent,         \* restore timers; runs whose restoreOnce is spent
    row,                   \* the last row written
    clean, lost            \* history: the run began (a race: and pushed) with
                           \* the cluster as declared and no cycle at work on
                           \* it; a restore command failed

flags == <<kind, offset, readout>>
trial == <<run, at, sha, got, tracked, fired, converged, clean>>
restores == <<timers, spent, lost>>
vars == <<benchVars, flags, trial, restores, row>>

\* Mutant: the tail is opened after the mutation.
DriftSteps_TailLate == <<"inspect", "update", "open", "trigger", "await">>
\* driftRun tails, mutates, detects, then waits for the repair.
DriftSteps == <<"open", "inspect", "update", "trigger", "await">>
\* What a run does, in order.
Steps(k) ==
    CASE k = "scale" -> <<"push", "open", "await">>
      [] k = "drift" -> DriftSteps
      [] k = "race" -> <<"open", "push", "trigger", "inspect", "update",
                         "await", "verify">>
      [] k = "fault" -> <<"open", "push", "trigger", "kill", "await", "verify">>
At(step) == run <= MaxRuns /\ Steps(kind)[at] = step
Next1 == at' = at + 1
\* Mutant: the break leaves the select only, and the waiting goes on.
Skip_Waits(step) == UNCHANGED at
Skip(step) == at' = CHOOSE i \in 1..Len(Steps(kind)) : Steps(kind)[i] = step

Init ==
    /\ BenchInit
    /\ kind \in Kinds /\ offset \in Offsets /\ readout \in {"event", "poll"}
    /\ kind # "race" => offset = "diff"
    /\ kind = "fault" /\ victim = "reconciler" => readout = "poll"
    /\ kind # "fault" => readout = "event" /\ victim = "worker"
    /\ run = 1 /\ at = 1 /\ sha = 0 /\ got = [version |-> 0, tag |-> 0]
    /\ tracked = 0 /\ fired = FALSE /\ converged = FALSE /\ clean = FALSE
    /\ timers = {} /\ spent = {} /\ lost = FALSE
    /\ row = [run |-> 0, step |-> "", outcome |-> "", by |-> "", sha |-> 0,
              falseOk |-> FALSE, clean |-> FALSE]

-----------------------------------------------------------------------------
(* The end of a run. *)

\* Mutant: sync.Once forgotten, so that a timer restores again.
Restores_Again(r) == TRUE
Restores(r) == r \notin spent
\* restoreOnce.Do: the command may fail, and is not tried again.
RestoreOnce(r) ==
    IF Restores(r)
    THEN /\ spent' = spent \cup {r}
         /\ \E ok \in BOOLEAN : up' = (up \/ ok) /\ lost' = (lost \/ ~ok)
    ELSE UNCHANGED <<up, spent, lost>>

\* Mutant: no deferred restore; the timer alone brings the target back.
Deferred_None == UNCHANGED <<up, spent, lost>>
\* The deferred call of a fault run; one that cannot write its stack file
\* returns before it is deferred.
Deferred ==
    \/ kind = "fault" /\ RestoreOnce(run)
    \/ (kind # "fault" \/ at = 1) /\ UNCHANGED <<up, spent, lost>>

\* runner.Run writes the row when the run has returned, then the next begins.
Report(outcome, false) ==
    /\ row' = [run |-> run, step |-> Steps(kind)[at], outcome |-> outcome,
               by |-> IF fired /\ readout = "poll" THEN "poll" ELSE "event",
               sha |-> sha, falseOk |-> false, clean |-> clean]
    /\ Deferred
    /\ run' = run + 1 /\ at' = 1 /\ sha' = 0 /\ tracked' = 0
    /\ fired' = FALSE /\ converged' = FALSE /\ clean' = FALSE
    /\ got' = [version |-> 0, tag |-> 0]
    /\ tailing' = FALSE /\ unread' = <<>>
    /\ UNCHANGED <<victim, cycle, story, flags, timers>>

-----------------------------------------------------------------------------
(* The steps. *)

\* Tail: from the end of the file as it is now.
Open ==
    /\ At("open") /\ Next1
    /\ tailing' = TRUE /\ unread' = <<>>
    /\ clean' = (/\ live = Want(head) /\ cpc \in {"idle", "observe"}
                 /\ commit \in {0, head})
    /\ UNCHANGED <<head, cluster, victim, up, cycle, story, flags, run, sha, got,
                   tracked, fired, converged, restores, row>>

\* gitCommitAndPush; the tag of a run is its number, round and round.
Pushed == head' = run + 1 /\ UNCHANGED cluster
Push ==
    /\ At("push") /\ Next1
    /\ Pushed /\ sha' = run + 1
    /\ clean' = (clean /\ cpc = "idle")
    /\ UNCHANGED <<victim, up, cycle, file, story, flags, run, got, tracked,
                   fired, converged, restores, row>>

\* A mutation by hand reads the service ...
Inspect ==
    /\ At("inspect") /\ Next1
    /\ got' = [version |-> version, tag |-> live[Target].tag]
    /\ UNCHANGED <<benchVars, flags, run, sha, tracked, fired, converged, clean,
                   restores, row>>

\* Mutant: the update carries no version.
Current_Any == TRUE
\* The engine refuses a version that is not the service's.
Current == got.version = version
\* ... and writes back all it read, with one more variable.
Edited ==
    /\ Current
    /\ live' = [live EXCEPT ![Target] = [tag |-> got.tag, edit |-> run]]
    /\ version' = version + 1 /\ UNCHANGED head
Update ==
    /\ At("update") /\ Next1
    /\ Edited
    /\ UNCHANGED <<victim, up, cycle, file, story, flags, run, sha, got, tracked,
                   fired, converged, clean, restores, row>>

\* A step fails and the run returns with an error row (scale takes a tail that
\* cannot be opened for a timeout); the answer of a push or of an update that
\* was carried out may be what is lost.
Errors ==
    /\ \E step \in {"open", "push", "inspect", "update"} : At(step)
    /\ \/ UNCHANGED <<head, cluster>>
       \/ At("push") /\ Pushed
       \/ At("update") /\ Edited
    /\ Report(IF At("open") /\ kind = "scale" THEN "timeout" ELSE "error", FALSE)

\* The operator's trigger, by the offset of the race.
Fires(e) ==
    \/ offset = "diff" /\ e.stage = "diff"
    \/ offset = "apply" /\ e.stage = "apply" /\ e.svc = Target
    \/ offset = "after" /\ e.stage = "converged"
\* Mutant: any service's drift counts as detected.
Detects_AnyService(e) == e.stage = "drift"
\* A drift event of this service.
Detects(e) == e.stage = "drift" /\ e.svc = Target
\* The event that the run waits for before it acts.
Triggers(e) == \/ kind = "race" /\ Fires(e)
               \/ kind = "drift" /\ Detects(e)
               \/ kind = "fault" /\ e.stage = "apply"

\* Mutant: any converged event will do.
Announces_AnyCommit(e) == e.stage = "converged"
\* The converged event of the commit that was pushed.
Announces(e) == e.stage = "converged" /\ e.commit = sha
\* Mutant: the next converged event is taken for the repair.
Repairs_Next(e) == e.stage = "converged"
\* driftAwaitRepair: the one of the cycle that last applied Target.
Repairs(e) == e.stage = "converged" /\ tracked # 0 /\ e.round = tracked
\* Mutant: the write is taken for the convergence.
Converges_Applied(e) == e.stage = "apply"
\* A race takes whatever converged event comes next.
Converges(e) == e.stage = "converged"
Settles(e) == \/ kind \in {"scale", "fault"} /\ Announces(e)
              \/ kind = "race" /\ Converges(e)
              \/ kind = "drift" /\ Repairs(e)

Reading(step) == At(step) /\ unread # <<>>
\* Events that are not waited for are dropped.
Consume ==
    /\ unread' = Tail(unread)
    /\ UNCHANGED <<head, cluster, victim, up, cycle, tailing, story, flags, run,
                   sha, got, fired, clean, restores, row>>
Trigger ==
    /\ Reading("trigger") /\ Consume
    /\ IF Triggers(Head(unread)) THEN Next1 ELSE UNCHANGED at
    /\ UNCHANGED <<tracked, converged>>
Await ==
    /\ Reading("await") /\ readout = "event" /\ ~Settles(Head(unread))
    /\ Consume
    /\ tracked' = IF kind = "drift" /\ Head(unread).stage = "apply"
                     /\ Head(unread).svc = Target
                  THEN Head(unread).round ELSE tracked
    /\ UNCHANGED <<at, converged>>
\* The event is there: a push or a repair is reported, the others look at the
\* cluster once more.
Arrived ==
    /\ Reading("await") /\ readout = "event" /\ Settles(Head(unread))
    /\ IF kind \in {"race", "fault"}
       THEN Consume /\ converged' = TRUE /\ Next1 /\ UNCHANGED tracked
       ELSE Report("ok", FALSE) /\ UNCHANGED <<head, cluster>>

\* The kill command, which may fail; restore is due later.
Kill ==
    /\ At("kill") /\ Next1
    /\ fired' = TRUE /\ timers' = timers \cup {run}
    /\ Down \/ UNCHANGED <<up, cycle>>
    /\ UNCHANGED <<head, cluster, victim, file, story, flags, run, sha, got,
                   tracked, converged, clean, spent, lost, row>>
TimerFires(r) ==
    /\ r \in timers /\ timers' = timers \ {r}
    /\ RestoreOnce(r)
    /\ UNCHANGED <<head, cluster, victim, cycle, file, story, flags, trial, row>>

\* faultPollLiveConverged: no event can tell, so the cluster is asked.
PollLive ==
    /\ At("await") /\ readout = "poll" /\ live[Target] = Want(sha)[Target]
    /\ Next1 /\ converged' = TRUE
    /\ UNCHANGED <<benchVars, flags, run, sha, got, tracked, fired, clean,
                   restores, row>>

\* Every wait of a run has a deadline.
\* It passes; a race and a fault are looked at all the same.
TimesOut ==
    \E step \in {"trigger", "await"} :
        /\ At(step)
        /\ IF kind \in {"race", "fault"}
           THEN /\ Skip("verify")
                /\ UNCHANGED <<benchVars, flags, run, sha, got, tracked, fired,
                               converged, clean, restores, row>>
           ELSE Report("timeout", FALSE) /\ UNCHANGED <<head, cluster>>

\* settle, faultFalseOK: the cluster as it is now.  An inspection that fails
\* leaves the outcome as it was.
Verify ==
    /\ At("verify")
    /\ \E looked \in BOOLEAN :
         Report(IF converged THEN "ok" ELSE "timeout",
                /\ looked /\ kind = "fault" /\ converged
                /\ live[Target] # Want(sha)[Target])
    /\ UNCHANGED <<head, cluster>>

TrialStep == Open \/ Push \/ Inspect \/ Update \/ Errors \/ Trigger \/ Await
             \/ Arrived \/ Kill \/ PollLive \/ TimesOut \/ Verify
Done == run > MaxRuns /\ UNCHANGED vars
Next ==
    \/ BenchNext /\ UNCHANGED <<flags, trial, restores, row>>
    \/ /\ kind \in {"scale", "drift"} \* the others push a stack of one service
       /\ \E s \in Services : Meddle(s)
       /\ UNCHANGED <<flags, trial, restores, row>>
    \/ TrialStep \/ Done \/ \E r \in timers : TimerFires(r)

\* The harness is one goroutine that always goes on, and deadlines pass.
Spec == Init /\ [][Next]_vars /\ WF_vars(TrialStep) /\ WF_vars(TimesOut)

-----------------------------------------------------------------------------
(* Properties. *)

\* A row that says ok because of a converged event is true: swarmgate found
\* the pushed commit on the cluster, whatever earlier cycle was under way and
\* whatever was killed, unless the gate kept the service from it.  For scale and
\* fault that is the event of the pushed commit.  A race takes any converged
\* event (race.go:248): its ok is true only of a run that began and pushed with
\* the cluster as declared and no cycle at work; in any other the event may be
\* of an earlier commit or of the repair of an earlier edit.
OkMeansDeployed ==
    row.outcome = "ok" /\ row.by = "event" /\ row.sha # 0 /\ (kind # "race" \/ row.clean)
        => \/ row.sha \in rejected
           \/ row.sha \in deployed /\ ~row.falseOk

\* In a run that began with the service as wanted, a drift event taken for
\* the detection of the mutation was caused by it.
DetectIsOwn ==
    kind = "drift" /\ At("await") /\ clean => run \in seen

\* ... and one whose repair is reported is undone: the cycle of the converged
\* event is not one that left the service alone.
RepairIsReal ==
    kind = "drift" /\ row.step = "await" /\ row.outcome = "ok" /\ row.clean
        => live[Target].edit # row.run

\* A detection that is reported as timed out did not slip past the tail: no
\* drift event told of the mutation, or it is still to be read.
MissedNothing ==
    kind = "drift" /\ At("trigger") /\ run' # run /\ run \in seen
        => \E i \in 1..Len(unread) : Triggers(unread[i])

\* What a row says happened, and what it says did not happen did not.
RowsAreTrue ==
    [][OkMeansDeployed' /\ DetectIsOwn' /\ RepairIsReal' /\ MissedNothing]_vars

\* The operator's write never takes back what swarmgate wrote in between.
PushNotLost ==
    [][At("update") /\ at' # at => live'[Target].tag = live[Target].tag]_vars

\* A target that a run took down comes back through that run alone: no timer
\* of an earlier run fires into the outage of this one.
RestoreIsOwn == \A r \in timers \ timers' : up' # up => r = run

\* No run begins with the target of an earlier one still down, unless its
\* restore command failed.
RunsStartUp == at = 1 => up \/ lost

\* An outage ends once, by the run that made it and before the next one begins.
OutagesEndOnce == [][RestoreIsOwn /\ RunsStartUp']_vars

\* Every run reports, also when the events it waits for never come.
RunsEnd == <>(run > MaxRuns)
=============================================================================

------------------------------- MODULE Converge -------------------------------
(***************************************************************************)
(* Waiting for convergence (internal/observe AwaitConverged): a poll reads *)
(* the networks once and then, target after target, the service and its    *)
(* tasks, while the engine rolls the new specs out and an operator may     *)
(* still write.  No two of these reads are of the same instant.            *)
(*                                                                         *)
(* A service spec is an image, an environment, a count and the keys of its *)
(* deploy labels (module SwarmSpec has the other fields).                  *)
(***************************************************************************)
EXTENDS Naturals, FiniteSets

CONSTANTS
    Services,   \* names, in sort order
    Scenarios,  \* what is awaited: records of targets and services at the start
    HandSpecs,  \* specs that an operator may write
    MaxEdits,   \* bound on the operator's writes
    MaxFaults,  \* bound on failures: calls, tasks, rollouts
    Gone,       \* target of a removal
    None

VARIABLES
    target,     \* per service: a spec, Gone, or None when not awaited
    svc,        \* per service: [spec, us], or None
    tasks,      \* per service: its slots, each [img, env, run]
    pc,         \* where the poll is
    at,         \* the target being checked
    netErr,     \* the networks of this poll could not be read
    pending,    \* targets found unconverged in this poll
    late,       \* the timeout of AwaitConverged has passed
    edits, faults,
    calm,       \* history: no operator write since this poll began
    steady      \* history: everything was settled when this poll began, and
                \* since then nothing changed and no call failed

engine == <<svc, tasks>>
poll   == <<pc, at, netErr, pending>>
vars   == <<target, svc, tasks, pc, at, netErr, pending, late, edits, faults,
            calm, steady>>

Awaited == {s \in Services : target[s] # None}
Removal(s) == target[s] = Gone
Slots(spec) == 1 .. spec.n

\* A settled service: the spec is stored, nothing is rolling out, every slot
\* runs it.  Labels of others do not matter, as they do not to the differ.
SettledSvc(s) ==
    IF Removal(s) THEN svc[s] = None
    ELSE /\ svc[s] # None
         /\ [svc[s].spec EXCEPT !.labels = {}] = [target[s] EXCEPT !.labels = {}]
         /\ target[s].labels \subseteq svc[s].spec.labels
         /\ svc[s].us \in {None, "completed"}
         /\ \A k \in DOMAIN tasks[s] :
              tasks[s][k] = [img |-> target[s].img, env |-> target[s].env,
                             run |-> TRUE]
Settled == \A s \in Awaited : SettledSvc(s)

-----------------------------------------------------------------------------
(* AwaitConverged. *)

\* Targets are checked in the order of their names.
Remaining(s) == {t \in Awaited : t > s}
Firsts(S) == {s \in S : \A t \in S : s <= t}

\* A target has been judged; the poll goes on with the next one.
Judged(s, ok) ==
    /\ pending' = IF ok THEN pending ELSE pending \cup {s}
    /\ IF Remaining(s) = {} THEN pc' = "select" /\ UNCHANGED at
                            ELSE pc' = "inspect" /\ at' \in Firsts(Remaining(s))

\* A call fails when the deadline has passed, and may fail otherwise.
CallFails ==
    \/ late /\ UNCHANGED faults
    \/ ~late /\ faults < MaxFaults /\ faults' = faults + 1

\* The networks are listed once per poll, if there is more than removals.
StartPoll ==
    /\ pc = "networks"
    /\ IF \A s \in Awaited : Removal(s)
       THEN netErr' = FALSE /\ UNCHANGED faults
       ELSE \/ ~late /\ netErr' = FALSE /\ UNCHANGED faults
            \/ netErr' = TRUE /\ CallFails
    /\ pending' = {}
    /\ pc' = "inspect" /\ at' \in Firsts(Awaited)
    /\ calm' = TRUE
    /\ steady' = (Settled /\ ~netErr')
    /\ UNCHANGED <<target, engine, late, edits>>

\* Mutant: a label only has to be there, but the map is still compared.
SameLabels_Exact(have, wanted) == have = wanted
\* Clause (a) on deploy labels: keys that are not wanted are deleted from the
\* observed map and the rest is compared deeply.  A map emptied in this way is
\* not the nil map of a spec without deploy labels.
SameLabels(have, wanted) ==
    /\ have \cap wanted = wanted
    /\ wanted = {} => have = {}

\* Clauses (a) and (b), both from one inspection.
SpecReached(s) ==
    /\ [svc[s].spec EXCEPT !.labels = {}] = [target[s] EXCEPT !.labels = {}]
    /\ SameLabels(svc[s].spec.labels, target[s].labels)
    /\ svc[s].us \in {None, "completed"}

Inspect ==
    /\ pc = "inspect"
    /\ \/ /\ ~late /\ UNCHANGED faults
          /\ UNCHANGED steady
          /\ CASE Removal(at) -> Judged(at, svc[at] = None)
               [] ~Removal(at) /\ (netErr \/ svc[at] = None) -> Judged(at, FALSE)
               [] ~Removal(at) /\ ~netErr /\ svc[at] # None ->
                    IF SpecReached(at)
                    THEN pc' = "tasks" /\ UNCHANGED <<at, pending>>
                    ELSE Judged(at, FALSE)
       \/ CallFails /\ Judged(at, FALSE) /\ steady' = FALSE
    /\ UNCHANGED <<target, engine, netErr, late, edits, calm>>

\* Mutant: any running task is counted.
Counted_AnyImage(s) == {k \in DOMAIN tasks[s] : tasks[s][k].run}
\* Clause (c): the running tasks on the desired image.
Counted(s) ==
    {k \in DOMAIN tasks[s] : tasks[s][k].run /\ tasks[s][k].img = target[s].img}

ListTasks ==
    /\ pc = "tasks"
    /\ \/ /\ ~late /\ UNCHANGED faults
          /\ Judged(at, Cardinality(Counted(at)) = target[at].n)
          /\ UNCHANGED steady
       \/ CallFails /\ Judged(at, FALSE) /\ steady' = FALSE
    /\ UNCHANGED <<target, engine, netErr, late, edits, calm>>

Finish(how) == pc' = how /\ UNCHANGED <<at, netErr, pending>>
still == <<target, engine, late, edits, faults, calm, steady>>

AllReached == pending = {}
Converged == pc = "select" /\ AllReached /\ Finish("converged")
                           /\ UNCHANGED still
\* With targets left the loop waits for the ticker or the deadline, whichever
\* the select takes when both are ready.
Tick == pc = "select" /\ ~AllReached /\ Finish("networks") /\ UNCHANGED still
\* Mutant: only the ticker is waited for.
DoneFires_Never == FALSE
DoneFires == late
TimeOut == pc = "select" /\ ~AllReached /\ DoneFires /\ Finish("timeout")
                         /\ UNCHANGED still

Deadline ==
    /\ ~late /\ pc \notin {"converged", "timeout"}
    /\ late' = TRUE /\ steady' = FALSE
    /\ UNCHANGED <<target, engine, poll, edits, faults, calm>>

-----------------------------------------------------------------------------
(* The engine and the operator. *)

envRest == <<target, poll, late, edits, calm>>

\* Outdated slots are replaced one after the other, once the update has begun.
\* Until it begins, an update leaves no trace in the update status.
Outdated(s) == {k \in DOMAIN tasks[s] : \/ tasks[s][k].img # svc[s].spec.img
                                        \/ tasks[s][k].env # svc[s].spec.env}
BeginRollout(s) ==
    /\ svc[s] # None /\ svc[s].us = None /\ Outdated(s) # {}
    /\ svc' = [svc EXCEPT ![s].us = "updating"]
    /\ steady' = FALSE
    /\ UNCHANGED <<envRest, tasks, faults>>
ReplaceTask(s) ==
    /\ svc[s] # None /\ svc[s].us = "updating"
    /\ \E k \in Outdated(s) :
         tasks' = [tasks EXCEPT ![s][k] = [img |-> svc[s].spec.img,
                                           env |-> svc[s].spec.env,
                                           run |-> FALSE]]
    /\ steady' = FALSE
    /\ UNCHANGED <<envRest, svc, faults>>
\* A task starts to run (its health check passed), or fails.
TaskRuns(s) ==
    /\ \E k \in DOMAIN tasks[s] :
         ~tasks[s][k].run /\ tasks' = [tasks EXCEPT ![s][k].run = TRUE]
    /\ UNCHANGED <<envRest, svc, faults, steady>>
TaskFails(s) ==
    /\ faults < MaxFaults /\ faults' = faults + 1
    /\ \E k \in DOMAIN tasks[s] :
         tasks[s][k].run /\ tasks' = [tasks EXCEPT ![s][k].run = FALSE]
    /\ steady' = FALSE
    /\ UNCHANGED <<envRest, svc>>
EndRollout(s) ==
    /\ svc[s] # None /\ svc[s].us = "updating"
    /\ \/ /\ Outdated(s) = {} /\ \A k \in DOMAIN tasks[s] : tasks[s][k].run
          /\ svc' = [svc EXCEPT ![s].us = "completed"]
          /\ UNCHANGED faults
       \/ /\ faults < MaxFaults /\ faults' = faults + 1
          /\ svc' = [svc EXCEPT ![s].us = "paused"]
    /\ steady' = FALSE
    /\ UNCHANGED <<envRest, tasks>>
\* A removal becomes visible.
Vanish(s) ==
    /\ Removal(s) /\ svc[s] # None
    /\ svc' = [svc EXCEPT ![s] = None]
    /\ tasks' = [tasks EXCEPT ![s] = <<>>]
    /\ UNCHANGED <<envRest, faults, steady>>

OperatorWrites(s, spec) ==
    /\ edits < MaxEdits /\ edits' = edits + 1
    /\ pc \notin {"converged", "timeout"}
    /\ svc[s] # None /\ svc[s].spec # spec
    /\ svc' = [svc EXCEPT ![s] = [spec |-> spec, us |-> None]]
    /\ tasks' = [tasks EXCEPT ![s] =
         [k \in Slots(spec) |->
            IF k \in DOMAIN tasks[s] THEN tasks[s][k]
            ELSE [img |-> spec.img, env |-> spec.env, run |-> FALSE]]]
    /\ calm' = FALSE /\ steady' = FALSE
    /\ UNCHANGED <<target, poll, late, faults>>

-----------------------------------------------------------------------------
Init ==
    /\ \E sc \in Scenarios :
         target = sc.target /\ svc = sc.svc /\ tasks = sc.tasks
    /\ pc = IF Awaited = {} THEN "converged" ELSE "networks"
    /\ at = 0 /\ netErr = FALSE /\ pending = {} /\ late = FALSE
    /\ edits = 0 /\ faults = 0 /\ calm = TRUE /\ steady = FALSE

Await == StartPoll \/ Inspect \/ ListTasks \/ Converged \/ Tick \/ TimeOut
Engine(s) ==
    \/ BeginRollout(s) \/ ReplaceTask(s) \/ TaskRuns(s) \/ TaskFails(s)
    \/ EndRollout(s) \/ Vanish(s)

Next ==
    \/ Await
    \/ Deadline
    \/ \E s \in Services : Engine(s)
    \/ \E s \in Services, spec \in HandSpecs : OperatorWrites(s, spec)

Spec == Init /\ [][Next]_vars

\* Every call returns, the timer fires, and a select with two ready channels
\* does not for ever prefer the ticker.
FairSpec == Spec /\ WF_vars(Await) /\ WF_vars(Deadline) /\ SF_vars(TimeOut)

-----------------------------------------------------------------------------
(* Properties. *)

\* "converged" is said only of services that are there as desired (or gone),
\* none of whose running tasks has another image, although their checks were
\* made at different times and tasks fail or are replaced meanwhile; asked
\* only when the operator did not write during that poll.
ConvergedIsHonest ==
    pc = "converged" /\ calm =>
      \A s \in Awaited :
        IF Removal(s) THEN svc[s] = None
        ELSE /\ svc[s] # None
             /\ svc[s].spec.img = target[s].img
             /\ svc[s].spec.env = target[s].env
             /\ svc[s].spec.n = target[s].n
             /\ \A k \in DOMAIN tasks[s] :
                  tasks[s][k].run => tasks[s][k].img = target[s].img

\* A poll over services that were settled when it began, and stayed so, finds
\* them converged, unless one carries deploy labels of others and the stack
\* declares none for it.
SettledIsConverged ==
    pc = "select" /\ steady
      /\ (\A s \in Awaited : ~Removal(s) /\ target[s].labels = {}
                               => svc[s].spec.labels = {})
      => pending = {}

\* AwaitConverged returns by its timeout at the latest, also when every call
\* fails and the cluster never settles.
AwaitReturns == <>(pc \in {"converged", "timeout"})
=============================================================================

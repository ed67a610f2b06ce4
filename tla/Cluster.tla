------------------------------- MODULE Cluster -------------------------------
(***************************************************************************)
(* What the daemon does to the cluster and waits for there: Applier and    *)
(* Converge side by side.  The loop calls them one after the other (module *)
(* Reconcile has the order); what one reads the other has left to the      *)
(* engine, so here each meets every state of it on its own.  A behaviour   *)
(* is one of them while the other rests; part says which.                  *)
(***************************************************************************)
EXTENDS Applier

CONSTANTS
    Targets,    \* names of the services that may be awaited, in sort order
    Images, Envs, Labels,   \* of their specs
    Scenarios, HandSpecs, MaxEdits, MaxFailures, Gone   \* as in Converge

VARIABLES part, target, live, tasks, pc, at, netErr, pending, late, edits,
          failures, calm, steady

C == INSTANCE Converge
       WITH Services <- Targets, MaxFaults <- MaxFailures, svc <- live,
            faults <- failures

\* A service as the engine stores it, with the state of its update.
ServiceSpecs == [img : Images, env : Envs, n : Nat, labels : SUBSET Labels]
Stored == [spec : ServiceSpecs, us : {None, "updating", "completed", "paused"}]
TaskStates == [img : Images, env : Envs, run : BOOLEAN]
\* What is awaited, what the engine has stored, and one task per slot of that.
Consistent(wanted, stored, running) ==
    /\ wanted \in [Targets -> ServiceSpecs \cup {Gone, None}]
    /\ stored \in [Targets -> Stored \cup {None}]
    /\ DOMAIN running = Targets
    /\ \A s \in Targets :
         /\ DOMAIN running[s] = IF stored[s] = None THEN {}
                                ELSE C!Slots(stored[s].spec)
         /\ \A k \in DOMAIN running[s] : running[s][k] \in TaskStates

ASSUME ClusterAssumption ==
    /\ Targets \subseteq Nat
    /\ HandSpecs \subseteq ServiceSpecs
    /\ \A sc \in Scenarios : Consistent(sc.target, sc.svc, sc.tasks)
    /\ Gone # None /\ {Gone, None} \cap ServiceSpecs = {} /\ None \notin Stored

-----------------------------------------------------------------------------
waitVars == <<target, live, tasks, pc, at, netErr, pending, late, edits,
              failures, calm, steady>>
allVars == <<part, vars, waitVars>>

RestApplier == Init /\ secs = {} /\ want = CHOOSE w \in Wanted : TRUE
RestWait ==
    /\ target = None /\ live = None /\ tasks = None /\ pc = None /\ at = None
    /\ netErr = None /\ pending = None /\ late = None /\ edits = None
    /\ failures = None /\ calm = None /\ steady = None

InApplier(A) == part = "apply" /\ A /\ UNCHANGED <<part, waitVars>>
InWait(A) == part = "await" /\ A /\ UNCHANGED <<part, vars>>

AllInit == \/ part = "apply" /\ Init /\ RestWait
           \/ part = "await" /\ C!Init /\ RestApplier
AllNext == InApplier(Next) \/ InWait(C!Next)

\* The fairness of the two modules; part never changes.
AllSpec ==
    /\ AllInit /\ [][AllNext]_allVars
    /\ WF_allVars(InApplier(Change) \/ InWait(C!Await))
    /\ \A n \in Nets : WF_allVars(InApplier(Propagate(n)))
    /\ WF_allVars(InWait(C!Deadline)) /\ SF_allVars(InWait(C!TimeOut))

-----------------------------------------------------------------------------
(* The properties of Converge, while it is the one that runs. *)

\* AwaitConverged reports convergence neither early nor not at all, although no
\* two of its reads are of the same instant and tasks come and go meanwhile.
AwaitIsHonest == part = "await" => C!ConvergedIsHonest /\ C!SettledIsConverged

\* However calls fail and wherever they stop, the service ends up as wanted,
\* what was left behind notwithstanding, and a wait returns.
FailuresPass == PartialWorkHeals /\ (part = "await" => C!AwaitReturns)
=============================================================================

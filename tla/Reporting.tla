------------------------------ MODULE Reporting ------------------------------
(***************************************************************************)
(* What the daemon leaves for its operators to read: Telemetry (the event  *)
(* file) and Status (the command that reads it) side by side.  Status      *)
(* takes the events of a file as written, so a behaviour is one of them    *)
(* while the other rests; part says which.                                 *)
(***************************************************************************)
EXTENDS Telemetry

CONSTANTS Svc, None, Heads, Rejected, Modes, Prunes, MaxCycles, MaxMoves

\* A stack has finitely many services.
ASSUME ReportingAssumption == IsFiniteSet(Svc)

VARIABLES part, head, cluster, log, stage, want, todo, mode, prune, cycles,
          moves, failing, hidden, untold

St == INSTANCE Status WITH pc <- stage

statusVars == <<head, cluster, log, stage, want, todo, mode, prune, cycles,
                moves, failing, hidden, untold>>
allVars == <<part, vars, statusVars>>

RestStatus ==
    /\ head = None /\ cluster = None /\ log = None /\ stage = None /\ want = None
    /\ todo = None /\ mode = None /\ prune = None /\ cycles = None
    /\ moves = None /\ failing = None /\ hidden = None /\ untold = None

InFile(A) == part = "file" /\ A /\ UNCHANGED <<part, statusVars>>
InStatus(A) == part = "status" /\ A /\ UNCHANGED <<part, vars>>

AllInit == \/ part = "file" /\ Init /\ RestStatus
           \/ part = "status" /\ Init /\ St!Init
AllNext == InFile(Next) \/ InStatus(St!Next)

\* The fairness of Telemetry.
AllSpec == /\ AllInit /\ [][AllNext]_allVars
           /\ WF_allVars(InFile(EndCycle)) /\ WF_allVars(InFile(WarnDropped))

-----------------------------------------------------------------------------
(* The properties of the two modules. *)

\* Every loss is told: a process has counted if a reader misses an event, and
\* logs what it counted, again and again, with a warning per event at most.
LossIsTold == []LossIsDetected /\ []NoNagging /\ LossIsLogged

\* A row is an error exactly if the last judged change failed, unless the daemon
\* ended before it wrote the result, or a skipped create was written over it.
ErrorMeansFailing == part = "status" => St!ErrorMeansFailing
=============================================================================

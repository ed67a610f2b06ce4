-------------------------------- MODULE Bench --------------------------------
(***************************************************************************)
(* What the experiment harness (internal/harness) works on: a branch it     *)
(* pushes to, services anybody may edit, and one running swarmgate of which *)
(* it sees only the events file.  The cycle of internal/loop is reduced to  *)
(* the order in which it reads the branch and the cluster, writes services  *)
(* and emits the events the harness matches.                                *)
(***************************************************************************)
EXTENDS Naturals, Sequences, SequencesExt

CONSTANTS
    Services,  \* the services of the stack
    Target,    \* the one the trials push, edit and watch
    Tags,      \* tags the trials cycle through
    Victims,   \* what a fault may take down: "reconciler" or "worker"
    MaxRounds, \* bound on cycles that find a difference
    MaxUnread  \* bound on events the trial has not read yet

ASSUME BenchAssumption ==
    /\ Target \in Services /\ IsFiniteSet(Services)
    /\ Tags \in Nat \ {0} /\ MaxRounds \in Nat

VARIABLES
    head,      \* the branch's last commit, numbered by the run that pushed it
               \* (run r pushes r + 1, which declares Want(r + 1))
    live,      \* the services: the tag they run, and whose edit they carry
    version,   \* the engine's version of Target
    victim, up,       \* what faults hit, and whether it is up
    cpc, commit, same, last, round, todo, awaited, failed, \* the cycle
    tailing, unread,  \* whether a trial follows the file; what it has to read
    deployed, rejected, seen \* history: commits Target converged on or was
                             \* kept from; edits of it drift was told of

cluster == <<live, version>>
cycle == <<cpc, commit, same, last, round, todo, awaited, failed>>
file == <<tailing, unread>>
story == <<deployed, rejected, seen>>
benchVars == <<head, cluster, victim, up, cycle, file, story>>

\* Commit c moves Target to the next tag, round and round; 0 is no edit.
Want(c) == [s \in Services |->
              [tag |-> IF s = Target THEN c % Tags ELSE 0, edit |-> 0]]

Event(stage, s, r) == [stage |-> stage, svc |-> s, round |-> r, commit |-> commit]
\* The recorder appends; a trial that follows the file has it to read.
Emit(es) ==
    /\ Len(unread \o es) <= MaxUnread
    /\ unread' = IF tailing THEN unread \o es ELSE unread
    /\ UNCHANGED tailing

BenchInit ==
    /\ head = 1 /\ live = Want(1) /\ version = 0
    /\ victim \in Victims /\ up = TRUE
    /\ cpc = "idle" /\ commit = 0 /\ same = FALSE /\ last = 1
    /\ round = 0 /\ todo = {} /\ awaited = {} /\ failed = FALSE
    /\ tailing = FALSE /\ unread = <<>>
    /\ deployed = {} /\ rejected = {} /\ seen = {}

-----------------------------------------------------------------------------
(* The cycle. *)

\* What a cycle knows ends with it, but for the last commit.
EndCycle ==
    /\ cpc' = "idle" /\ commit' = 0 /\ same' = FALSE
    /\ todo' = {} /\ awaited' = {} /\ failed' = FALSE

Running == up \/ victim # "reconciler"

\* Fetch; the commit of the last cycle tells drift from deployment.
Poll ==
    /\ Running /\ cpc = "idle"
    /\ commit' = head /\ same' = (last = head) /\ last' = head
    /\ cpc' = "observe"
    /\ UNCHANGED <<head, cluster, victim, up, round, todo, awaited, failed,
                   file, story>>

\* Snapshot and diff: a diff event, and drift events if the commit is not
\* new.  A cycle without a difference ends.
Observe ==
    /\ Running /\ cpc = "observe"
    /\ LET D == {s \in Services : live[s] # Want(commit)[s]}
           drifts == [i \in 1..Cardinality(D) |->
                        Event("drift", SetToSeq(D)[i], round')]
       IN /\ round' = IF D = {} THEN round ELSE round + 1
          /\ round' <= MaxRounds
          /\ Emit(<<Event("diff", Target, round')>> \o IF same THEN drifts ELSE <<>>)
          /\ IF D = {}
             THEN EndCycle
             ELSE todo' = D /\ cpc' = "gate" /\ UNCHANGED <<commit, same, awaited, failed>>
    /\ seen' = IF same THEN seen \cup {live[Target].edit} ELSE seen
    /\ UNCHANGED <<head, cluster, victim, up, last, deployed, rejected>>

\* The gate lets some changes pass; with none left the cycle ends.
Gate(pass) ==
    /\ Running /\ cpc = "gate" /\ pass \subseteq todo
    /\ IF pass = {}
       THEN EndCycle
       ELSE todo' = pass /\ cpc' = "apply" /\ UNCHANGED <<commit, same, awaited, failed>>
    /\ rejected' = IF Target \in todo \ pass THEN rejected \cup {commit} ELSE rejected
    /\ UNCHANGED <<head, cluster, victim, up, last, round, file, deployed, seen>>

\* One change is applied, whatever became of the ones before; an apply event
\* follows either way.  A call that fails may have been carried out all the
\* same.  A failure ends the cycle after the last change.
Apply(s, ok, done) ==
    /\ Running /\ cpc = "apply" /\ s \in todo /\ (ok => done)
    /\ live' = IF done THEN [live EXCEPT ![s] = Want(commit)[s]] ELSE live
    /\ version' = IF done /\ s = Target THEN version + 1 ELSE version
    /\ Emit(<<Event("apply", s, round)>>)
    /\ IF todo = {s} /\ (failed \/ ~ok)
       THEN EndCycle
       ELSE /\ todo' = todo \ {s} /\ awaited' = awaited \cup {s}
            /\ failed' = (failed \/ ~ok)
            /\ cpc' = IF todo = {s} THEN "await" ELSE "apply"
            /\ UNCHANGED <<commit, same>>
    /\ UNCHANGED <<head, victim, up, last, round, story>>

\* AwaitConverged finds every applied service as wanted.
Converge ==
    /\ Running /\ cpc = "await" /\ up
    /\ \A s \in awaited : live[s] = Want(commit)[s]
    /\ EndCycle
    /\ Emit(<<Event("converged", Target, round)>>)
    /\ deployed' = IF live[Target] = Want(commit)[Target]
                   THEN deployed \cup {commit} ELSE deployed
    /\ UNCHANGED <<head, cluster, victim, up, last, round, rejected, seen>>

\* A stage fails or times out, before any change was applied or after all.
Fail ==
    /\ Running /\ cpc \in {"observe", "gate", "await"}
    /\ EndCycle
    /\ UNCHANGED <<head, cluster, victim, up, last, round, file, story>>

\* Somebody edits a service that is not the trial's (MaxRounds bounds how
\* often: before the first cycle that finds a difference).
Meddle(s) ==
    /\ s # Target /\ live[s].edit = 0 /\ round = 0
    /\ live' = [live EXCEPT ![s].edit = 1]
    /\ UNCHANGED <<head, version, victim, up, cycle, file, story>>

BenchNext ==
    \/ Poll \/ Observe \/ Converge \/ Fail
    \/ \E pass \in SUBSET Services : Gate(pass)
    \/ \E s \in Services, ok, done \in BOOLEAN : Apply(s, ok, done)

\* A fault command: the reconciler forgets its cycle and its memory when it
\* goes down.
Down ==
    /\ up' = FALSE
    /\ IF victim = "reconciler"
       THEN EndCycle /\ last' = 0 /\ UNCHANGED round
       ELSE UNCHANGED cycle
=============================================================================

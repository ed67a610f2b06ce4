----------------------------- MODULE Trials_proofs -----------------------------
(* Whatever a fault takes down comes back once, through the run that took it   *)
(* down; the operator's write of a trial takes nothing back; and what the rows *)
(* of a run say did happen in it: for any number of runs, services and cycles. *)
EXTENDS Trials, FiniteSetTheorems, TLAPS

\* The number of steps of this kind of trial.
LastStep == IF kind = "scale" THEN 3 ELSE IF kind = "drift" THEN 5
        ELSE IF kind = "race" THEN 7 ELSE 6
\* Where a run can be: one of the steps of its kind.
Place ==
    /\ kind \in Kinds /\ run \in Nat \ {0} /\ at \in Nat \ {0} /\ at <= LastStep
    /\ readout = "poll" => kind = "fault"
    /\ up \in BOOLEAN /\ lost \in BOOLEAN
\* The timers of earlier runs have nothing left to do.
Timers ==
    /\ timers \subseteq 1 .. run /\ spent \subseteq 1 .. run
    /\ \A r \in timers : r # run => r \in spent
    /\ timers # {} => kind = "fault"
    /\ run \in timers \cup spent => at > 4
\* What is down was taken down by this run, which has still to restore it.
Owed == up \/ lost \/ (kind = "fault" /\ at > 4 /\ run \notin spent)
OutageInv == Place /\ Timers /\ Owed

\* The steps as they are numbered.
LEMMA Numbers ==
  ASSUME Place
  PROVE  /\ At("open") => at \in {1, 2}
         /\ At("push") => at \in {1, 2}
         /\ At("trigger") => at \in {3, 4}
         /\ At("inspect") => at \in {2, 4}
         /\ At("update") => at \in {3, 5}
         /\ At("kill") => kind = "fault" /\ at = 4
         /\ At("verify") => at \in {6, 7}
         /\ At("await") => \/ kind \in {"scale", "drift"}
                           \/ kind = "race" /\ at = 6
                           \/ kind = "fault" /\ at = 5
         /\ (At("open") \/ At("push")) /\ at = 2 => kind # "drift"
         /\ kind = "scale" => ~At("trigger") /\ ~At("inspect") /\ ~At("update")
         /\ kind = "drift" => (At("trigger") => at = 4) /\ (At("update") => at = 3)
<1>1. CASE kind = "scale"
  <2>1. at \in {1, 2, 3}
    BY <1>1 DEF Place, LastStep
  <2> QED BY <1>1, <2>1 DEF At, Steps
<1>2. CASE kind = "drift"
  <2>1. at \in {1, 2, 3, 4, 5}
    BY <1>2 DEF Place, LastStep
  <2> QED BY <1>2, <2>1 DEF At, Steps, DriftSteps
<1>3. CASE kind = "race"
  <2>1. at \in {1, 2, 3, 4, 5, 6, 7}
    BY <1>3 DEF Place, LastStep
  <2> QED BY <1>3, <2>1 DEF At, Steps
<1>4. CASE kind = "fault"
  <2>1. at \in {1, 2, 3, 4, 5, 6}
    BY <1>4 DEF Place, LastStep
  <2> QED BY <1>4, <2>1 DEF At, Steps
<1> QED BY <1>1, <1>2, <1>3, <1>4, TrialAssumption DEF Place

\* A look for the last step leads past the kill.
LEMMA SkipsForward ==
  ASSUME Place, kind \in {"race", "fault"}, Skip("verify")
  PROVE  at' = IF kind = "race" THEN 7 ELSE 6
<1>1. CASE kind = "race"
  <2>1. Len(Steps(kind)) = 7 /\ \A i \in 1 .. 7 : Steps(kind)[i] = "verify" <=> i = 7
    BY <1>1 DEF Steps
  <2> QED BY <1>1, <2>1 DEF Skip
<1>2. CASE kind = "fault"
  <2>1. Len(Steps(kind)) = 6 /\ \A i \in 1 .. 6 : Steps(kind)[i] = "verify" <=> i = 6
    BY <1>2 DEF Steps
  <2> QED BY <1>2, <2>1 DEF Skip
<1> QED BY <1>1, <1>2

\* A step that goes on within its run and leaves the outage alone.
LEMMA GoesOn ==
  ASSUME OutageInv, UNCHANGED <<kind, readout, run, up, lost, timers, spent>>,
         at' \in Nat, at' >= at,
         at' <= LastStep
  PROVE  OutageInv' /\ RestoreIsOwn
<1>1. Place'
  BY DEF OutageInv, Place, LastStep
<1>2. Timers' /\ Owed'
  BY DEF OutageInv, Place, Timers, Owed
<1>3. RestoreIsOwn
  BY DEF RestoreIsOwn
<1> QED BY <1>1, <1>2, <1>3 DEF OutageInv

\* The end of a run restores what it owes.
LEMMA Ends ==
  ASSUME OutageInv, NEW outcome, NEW false, Report(outcome, false)
  PROVE  OutageInv' /\ RestoreIsOwn
<1>1. /\ UNCHANGED <<kind, readout, timers>> /\ run' = run + 1 /\ at' = 1
      /\ Deferred
  BY DEF Report, flags
<1>2. CASE kind = "fault" /\ RestoreOnce(run)
  <2>1. RestoreOnce(run)
    BY <1>2
  <2>2. spent' = spent \cup {run}
    BY <2>1 DEF RestoreOnce, Restores
  <2>3. up' \in BOOLEAN /\ lost' \in BOOLEAN /\ (up' \/ lost')
    BY <2>1 DEF RestoreOnce, Restores, OutageInv, Place, Owed
  <2>4. Place' /\ Owed'
    BY <1>1, <1>2, <2>3 DEF OutageInv, Place, LastStep, Owed
  <2>5. Timers'
    <3>1. run \in Nat \ {0} /\ 1 .. run \subseteq 1 .. run' /\ run \in 1 .. run'
      BY <1>1 DEF OutageInv, Place
    <3>2. run' \notin timers' \cup spent'
      BY <1>1, <2>2, <3>1 DEF OutageInv, Timers
    <3> QED BY <1>1, <1>2, <2>2, <3>1, <3>2 DEF OutageInv, Timers
  <2> QED BY <1>1, <2>4, <2>5 DEF OutageInv, RestoreIsOwn
<1>3. CASE (kind # "fault" \/ at = 1) /\ UNCHANGED <<up, spent, lost>>
  <2>1. UNCHANGED <<up, spent, lost>>
    BY <1>3
  <2>2. up \/ lost
    BY <1>3 DEF OutageInv, Owed
  <2>3. Place' /\ Owed'
    BY <1>1, <1>3, <2>1, <2>2 DEF OutageInv, Place, LastStep, Owed
  <2>4. Timers'
    <3>1. run \in Nat \ {0} /\ 1 .. run \subseteq 1 .. run'
      BY <1>1 DEF OutageInv, Place
    <3>2. run' \notin timers' \cup spent' /\ run \notin timers
      BY <1>1, <1>3, <2>1, <3>1 DEF OutageInv, Timers
    <3> QED BY <1>1, <2>1, <3>1, <3>2 DEF OutageInv, Timers
  <2> QED BY <1>1, <2>3, <2>4 DEF OutageInv, RestoreIsOwn
<1> QED BY <1>1, <1>2, <1>3 DEF Deferred

LEMMA StepOutage ==
  ASSUME OutageInv, [Next]_vars PROVE OutageInv' /\ RestoreIsOwn
<1> USE DEF OutageInv
<1>at. /\ at \in Nat /\ kind \in {"scale", "drift", "race", "fault"}
       /\ at <= LastStep
  BY TrialAssumption DEF Place
<1>1. CASE BenchNext /\ UNCHANGED <<flags, trial, restores, row>>
  <2>1. UNCHANGED up
    BY <1>1 DEF BenchNext, Poll, Observe, Converge, Fail, Gate, Apply
  <2> QED BY <1>1, <1>at, <2>1, GoesOn DEF flags, trial, restores
<1>2. CASE /\ UNCHANGED <<flags, trial, restores, row>>
           /\ \E s \in Services : Meddle(s)
  BY <1>2, <1>at, GoesOn DEF Meddle, flags, trial, restores
<1>3. CASE TrialStep
  <2>1. CASE Open
    BY <2>1, <1>at, Numbers, GoesOn DEF LastStep, Open, Next1, flags, restores
  <2>2. CASE Push
    BY <2>2, <1>at, Numbers, GoesOn DEF LastStep, Push, Next1, flags, restores
  <2>3. CASE Inspect
    BY <2>3, <1>at, Numbers, GoesOn DEF LastStep, Inspect, Next1, flags, restores, benchVars
  <2>4. CASE Update
    BY <2>4, <1>at, Numbers, GoesOn DEF LastStep, Update, Next1, flags, restores
  <2>5. CASE Errors
    BY <2>5, Ends DEF Errors
  <2>6. CASE Trigger
    BY <2>6, <1>at, Numbers, GoesOn
      DEF LastStep, Trigger, Reading, Consume, Next1, flags, restores
  <2>7. CASE Await
    BY <2>7, <1>at, GoesOn DEF Await, Consume, flags, restores
  <2>8. CASE Arrived
    <3>1. CASE kind \in {"race", "fault"}
      BY <2>8, <3>1, <1>at, Numbers, GoesOn
         DEF LastStep, Arrived, Reading, Consume, Next1, flags, restores
    <3>2. CASE kind \notin {"race", "fault"}
      BY <2>8, <3>2, Ends DEF Arrived
    <3> QED BY <3>1, <3>2
  <2>9. CASE Kill
    <3>1. /\ kind = "fault" /\ at = 4 /\ at' = 5 /\ timers' = timers \cup {run}
          /\ UNCHANGED <<kind, readout, run, lost, spent>>
      BY <2>9, Numbers DEF Kill, Next1, flags
    <3>2. up' \in BOOLEAN
      BY <2>9 DEF Kill, Down, Place
    <3>3. run \in 1 .. run /\ run \notin spent
      BY <3>1 DEF Timers, Place
    <3> QED BY <3>1, <3>2, <3>3 DEF Place, LastStep, Timers, Owed, RestoreIsOwn
  <2>10. CASE PollLive
    BY <2>10, <1>at, Numbers, GoesOn
       DEF LastStep, PollLive, Next1, flags, restores, benchVars, Place
  <2>11. CASE TimesOut
    <3>1. PICK step \in {"trigger", "await"} :
            /\ At(step)
            /\ IF kind \in {"race", "fault"}
               THEN /\ Skip("verify")
                    /\ UNCHANGED <<benchVars, flags, run, restores>>
               ELSE Report("timeout", FALSE)
      BY <2>11 DEF TimesOut
    <3>2. CASE kind \in {"race", "fault"}
      <4>1. at' = IF kind = "race" THEN 7 ELSE 6
        BY <3>1, <3>2, SkipsForward
      <4> QED BY <3>1, <3>2, <4>1, <1>at, GoesOn DEF LastStep, flags, restores, benchVars
    <3>3. CASE kind \notin {"race", "fault"}
      BY <3>1, <3>3, Ends
    <3> QED BY <3>2, <3>3
  <2>12. CASE Verify
    BY <2>12, Ends DEF Verify
  <2> QED BY <1>3, <2>1, <2>2, <2>3, <2>4, <2>5, <2>6, <2>7, <2>8, <2>9, <2>10, <2>11,
             <2>12 DEF TrialStep
<1>4. CASE Done \/ UNCHANGED vars
  BY <1>4, <1>at, GoesOn DEF Done, vars, benchVars, flags, trial, restores
<1>5. ASSUME NEW r \in timers, TimerFires(r) PROVE OutageInv' /\ RestoreIsOwn
  <2>1. /\ UNCHANGED <<kind, readout, run, at>> /\ timers' = timers \ {r}
        /\ RestoreOnce(r)
    BY <1>5 DEF TimerFires, flags, trial
  <2>2. CASE r \in spent
    <3>1. UNCHANGED <<up, spent, lost>>
      BY <2>1, <2>2 DEF RestoreOnce, Restores
    <3> QED BY <2>1, <3>1 DEF Place, LastStep, Timers, Owed, RestoreIsOwn
  <2>3. CASE r \notin spent
    <3>1. r = run /\ at > 4
      BY <2>3 DEF Timers
    <3>2. /\ spent' = spent \cup {r}
          /\ up' \in BOOLEAN /\ lost' \in BOOLEAN /\ (up' \/ lost')
      BY <2>1, <2>3 DEF RestoreOnce, Restores, Place
    <3> QED BY <2>1, <3>1, <3>2 DEF Place, LastStep, Timers, Owed, RestoreIsOwn
  <2> QED BY <2>2, <2>3
<1> QED BY <1>1, <1>2, <1>3, <1>4, <1>5 DEF Next

LEMMA OutageInit == Init => OutageInv
<1> SUFFICES ASSUME Init PROVE Place /\ Timers /\ Owed
  BY DEF OutageInv
<1>1. /\ kind \in Kinds /\ run = 1 /\ at = 1 /\ up = TRUE /\ lost = FALSE
      /\ timers = {} /\ spent = {} /\ (kind # "fault" => readout = "event")
  BY DEF Init, BenchInit
<1>2. at <= LastStep /\ (readout = "poll" => kind = "fault")
  BY <1>1 DEF LastStep
<1>3. up \in BOOLEAN /\ lost \in BOOLEAN
  BY <1>1
<1>4. Place
  BY <1>1, <1>2, <1>3 DEF Place
<1> QED BY <1>1, <1>4 DEF Timers, Owed

\* The action property OutagesEndOnce of the run: no timer of an earlier run
\* restores the target of this one, and no run begins with the target still
\* down, unless the command that should have restored it failed.
THEOREM OutagesEnd == Spec => OutagesEndOnce
<1>1. Init => OutageInv
  BY OutageInit
<1>2. OutageInv /\ [Next]_vars => OutageInv'
  BY StepOutage
<1>3. OutageInv /\ OutageInv' /\ [Next]_vars => [RestoreIsOwn /\ RunsStartUp']_vars
  BY StepOutage DEF OutageInv, Owed, RunsStartUp
<1> QED BY <1>1, <1>2, <1>3, PTL DEF Spec, OutagesEndOnce

-----------------------------------------------------------------------------
(* What the rows say. *)

\* The events a trial has still to read.
Has(q, e) == \E i \in 1 .. Len(q) : q[i] = e
Told(e) == Has(unread, e)

Evt == [stage : {"diff", "drift", "apply", "converged"}, svc : Services,
        round : Nat, commit : Nat]
Types ==
    /\ unread \in Seq(Evt) /\ round \in Nat /\ head \in Nat \ {0}
    /\ commit \in Nat
    /\ live \in [Services -> [tag : Nat, edit : Nat]]
    /\ version \in Nat /\ got \in [version : Nat, tag : Nat]
    /\ sha \in Nat /\ tracked \in Nat
    /\ todo \subseteq Services /\ awaited \subseteq Services
    /\ deployed \subseteq Nat /\ seen \subseteq Nat
    /\ readout \in {"event", "poll"}
    /\ cpc \in {"idle", "observe", "gate", "apply", "await"}

\* The run has still to push.
Before == at = 1 \/ (at = 2 /\ kind # "scale")
\* A cycle works on a commit of the branch, and a run pushes the last one, which
\* has its number; the trials of drift push nothing.
CycleInv ==
    /\ commit <= head
    /\ IF cpc = "idle" THEN commit = 0 ELSE commit # 0
    /\ cpc \in {"idle", "observe", "await"} => todo = {}
    /\ cpc \in {"idle", "observe", "gate"} => awaited = {}
    /\ \A c \in deployed : c <= head
    /\ sha \in {0, head} /\ head <= run + 1 /\ (Before => head <= run)
    /\ kind = "drift" => sha = 0 /\ head = 1

\* The operator's write goes through only if it takes nothing back.
EditPoint == (kind = "drift" /\ at = 3) \/ (kind = "race" /\ at = 5)
EditInv ==
    EditPoint => /\ got.version <= version
                 /\ got.version = version => got.tag = live[Target].tag

AsWanted(c) == live[Target] = Want(c)[Target]
\* The wait of a fault begins after the kill, and ends with what was pushed.
FaultInv ==
    kind = "fault" =>
      /\ at = 5 => fired
      /\ converged => /\ at = 6 /\ fired
                      /\ readout = "event" => sha \in deployed \cup rejected

\* A trial whose own hands are off the cluster: convergence of a commit means
\* that Target is as it declares, or was kept from it by the gate.
PushInv ==
    kind \in {"scale", "fault"} =>
      /\ head \in deployed => commit \in {0, head} /\ AsWanted(head)
      /\ cpc = "gate" => Target \in todo \/ AsWanted(commit)
      /\ cpc \in {"apply", "await"} =>
           Target \in todo \cup awaited \/ AsWanted(commit) \/ commit \in rejected
      /\ \A e : Told(e) /\ e.stage = "converged" => e.commit \in deployed \cup rejected
      /\ FaultInv

\* A race that pushed to a cluster as declared, with no cycle at work: until its
\* push there is nothing to converge on, and afterwards only what it pushed.
RaceInv ==
    /\ kind = "race" /\ converged => at = 7
    /\ kind = "race" /\ clean =>
         /\ \A s \in Services \ {Target} : live[s] = Want(head)[s]
         /\ commit \in {0, head}
         /\ at <= 2 => /\ AsWanted(head) /\ cpc \in {"idle", "observe"}
                       /\ \A e : Told(e) => e.stage # "converged"
         /\ at > 2 => /\ sha = head /\ todo \subseteq {Target}
                      /\ cpc = "await" => Target \in awaited
                      /\ \A e : Told(e) /\ e.stage = "converged" => sha \in deployed
                      /\ converged => sha \in deployed

\* Cycle r has told of an apply of Target.
Applied(r) ==
    \/ \E e : Told(e) /\ e.stage = "apply" /\ e.svc = Target /\ e.round = r
    \/ tracked # 0 /\ tracked = r
\* A run that found Target as wanted: all that it is told of Target's drift and
\* repair comes from its own mutation.
DriftInv ==
    kind = "drift" /\ clean =>
      /\ AsWanted(head) \/ (at > 3 /\ live[Target].edit = run)
      /\ \A e : Told(e) /\ Detects(e) => run \in seen
      /\ at = 5 => run \in seen
      /\ at <= 3 => Target \notin todo /\ \A r : ~Applied(r)
      /\ tracked <= round /\ \A e : Told(e) => e.round <= round
      /\ cpc \in {"gate", "apply", "await"} =>
           /\ \A e : Told(e) /\ e.stage = "converged" => e.round < round
           /\ Applied(round) => Target \in awaited
      /\ \A e : Told(e) /\ e.stage = "converged" /\ Applied(e.round)
           => live[Target].edit # run

\* What drift tells of a mutation reaches the run that waits for it.
SeenInv ==
    kind = "drift" =>
      /\ at > 1 => tailing
      /\ at <= 4 => tracked = 0
      /\ live[Target].edit <= run /\ \A x \in seen : x <= run
      /\ at <= 3 => live[Target].edit # run /\ run \notin seen
      /\ at = 4 /\ run \in seen => \E e : Told(e) /\ Detects(e)

RowInv ==
    /\ row.run \in Nat /\ row.run < run
    /\ row.outcome = "ok" => row.run # 0
    /\ kind = "drift" => row.sha = 0
    /\ OkMeansDeployed /\ RepairIsReal

RowsInv == /\ Types /\ CycleInv /\ EditInv /\ PushInv /\ RaceInv
           /\ DriftInv /\ SeenInv /\ RowInv

LEMMA HasFacts ==
  ASSUME NEW S, NEW q \in Seq(S), NEW r \in Seq(S)
  PROVE  /\ \A e : Has(q, e) => e \in S
         /\ q \o r \in Seq(S)
         /\ \A e : Has(q \o r, e) => Has(q, e) \/ Has(r, e)
         /\ \A e : Has(q, e) \/ Has(r, e) => Has(q \o r, e)
<1>1. /\ Len(q) \in Nat /\ Len(r) \in Nat
      /\ Len(q \o r) = Len(q) + Len(r)
      /\ \A i \in 1 .. Len(q) + Len(r) :
           (q \o r)[i] = IF i <= Len(q) THEN q[i] ELSE r[i - Len(q)]
  OBVIOUS
<1>2. \A e : Has(q, e) => e \in S
  BY DEF Has
<1>3. ASSUME NEW e, Has(q \o r, e) PROVE Has(q, e) \/ Has(r, e)
  <2>1. PICK i \in 1 .. Len(q) + Len(r) : (q \o r)[i] = e
    BY <1>1, <1>3 DEF Has
  <2>2. CASE i <= Len(q)
    BY <1>1, <2>1, <2>2 DEF Has
  <2>3. CASE ~(i <= Len(q))
    <3>1. i - Len(q) \in 1 .. Len(r) /\ r[i - Len(q)] = e
      BY <1>1, <2>1, <2>3
    <3> QED BY <3>1 DEF Has
  <2> QED BY <2>2, <2>3
<1>4. ASSUME NEW e, Has(q, e) PROVE Has(q \o r, e)
  <2>1. PICK i \in 1 .. Len(q) : q[i] = e
    BY <1>4 DEF Has
  <2>2. i \in 1 .. Len(q \o r) /\ (q \o r)[i] = e
    BY <1>1, <2>1
  <2> QED BY <2>2 DEF Has
<1>5. ASSUME NEW e, Has(r, e) PROVE Has(q \o r, e)
  <2>1. PICK i \in 1 .. Len(r) : r[i] = e
    BY <1>5 DEF Has
  <2>2. /\ Len(q) + i \in 1 .. Len(q) + Len(r) /\ ~(Len(q) + i <= Len(q))
        /\ (Len(q) + i) - Len(q) = i
    BY <1>1
  <2>3. (q \o r)[Len(q) + i] = e
    BY <1>1, <2>1, <2>2
  <2> QED BY <1>1, <2>2, <2>3 DEF Has
<1>6. q \o r \in Seq(S)
  OBVIOUS
<1> QED BY <1>2, <1>3, <1>4, <1>5, <1>6

\* What reading the first event leaves.
LEMMA HasTail ==
  ASSUME NEW S, NEW q \in Seq(S), q # <<>>
  PROVE  /\ Tail(q) \in Seq(S) /\ Has(q, Head(q)) /\ Head(q) \in S
         /\ \A e : Has(Tail(q), e) => Has(q, e)
         /\ \A e : Has(q, e) => e = Head(q) \/ Has(Tail(q), e)
<1>1. /\ Len(q) \in Nat \ {0} /\ Head(q) = q[1] /\ Tail(q) \in Seq(S)
      /\ Len(Tail(q)) = Len(q) - 1 /\ Head(q) \in S
      /\ \A i \in 1 .. Len(q) - 1 : Tail(q)[i] = q[i + 1]
  OBVIOUS
<1>2. Has(q, Head(q))
  BY <1>1 DEF Has
<1>3. ASSUME NEW e, Has(Tail(q), e) PROVE Has(q, e)
  <2>1. PICK i \in 1 .. Len(q) - 1 : Tail(q)[i] = e
    BY <1>1, <1>3 DEF Has
  <2>2. i + 1 \in 1 .. Len(q) /\ q[i + 1] = e
    BY <1>1, <2>1
  <2> QED BY <2>2 DEF Has
<1>4. ASSUME NEW e, Has(q, e), e # Head(q) PROVE Has(Tail(q), e)
  <2>1. PICK i \in 1 .. Len(q) : q[i] = e
    BY <1>4 DEF Has
  <2>2. i # 1
    BY <1>1, <1>4, <2>1
  <2>3. i - 1 \in 1 .. Len(q) - 1 /\ (i - 1) + 1 = i
    BY <1>1, <2>2
  <2>4. Tail(q)[i - 1] = e
    BY <1>1, <2>1, <2>3
  <2> QED BY <1>1, <2>3, <2>4 DEF Has
<1> QED BY <1>1, <1>2, <1>3, <1>4

\* Every service of a set is listed, and no other.
LEMMA Listing ==
  ASSUME NEW D \in SUBSET Services
  PROVE  /\ Cardinality(D) \in Nat
         /\ \A i \in 1 .. Cardinality(D) : SetToSeq(D)[i] \in D
         /\ \A s \in D : \E i \in 1 .. Cardinality(D) : SetToSeq(D)[i] = s
<1> DEFINE I == 1 .. Cardinality(D)
<1>1. IsFiniteSet(D)
  BY FS_Subset, BenchAssumption
<1>2. Cardinality(D) \in Nat /\ ExistsBijection(I, D)
  BY <1>1, FS_CardinalityType
<1>3. IsFiniteSet(I) /\ Cardinality(I) = Cardinality(D)
  BY <1>1, <1>2, FS_Interval
<1>4. \E f \in [I -> D] : IsInjective(f)
  BY <1>2 DEF ExistsBijection, Bijection, Injection
<1>5. SetToSeq(D) \in [I -> D] /\ IsInjective(SetToSeq(D))
  BY <1>4 DEF SetToSeq
<1>6. SetToSeq(D) \in Injection(I, D)
  BY <1>5 DEF Injection
<1>7. SetToSeq(D) \in Surjection(I, D)
  BY <1>1, <1>3, <1>6, FS_Injection
<1> HIDE DEF I
<1>8. \A s \in D : \E i \in I : SetToSeq(D)[i] = s
  BY <1>7 DEF Surjection
<1> QED BY <1>2, <1>5, <1>8 DEF I

LEMMA WantTypes ==
  ASSUME NEW c \in Nat
  PROVE  /\ Want(c) \in [Services -> [tag : Nat, edit : Nat]]
         /\ \A s \in Services : Want(c)[s].edit = 0
<1>1. c % Tags \in Nat
  BY BenchAssumption
<1> QED BY <1>1 DEF Want

LEMMA OneEvent ==
  ASSUME NEW S, NEW v \in S
  PROVE  <<v>> \in Seq(S) /\ \A e : Has(<<v>>, e) <=> e = v
<1>1. Len(<<v>>) = 1 /\ <<v>>[1] = v /\ <<v>> \in Seq(S)
  OBVIOUS
<1>2. \A i \in 1 .. 1 : i = 1
  OBVIOUS
<1> QED BY <1>1, <1>2 DEF Has

\* Emitting adds to what a trial that tails the file has to read.
LEMMA Emitting ==
  ASSUME unread \in Seq(Evt), NEW es \in Seq(Evt), Emit(es)
  PROVE  /\ unread' \in Seq(Evt) /\ tailing' = tailing
         /\ \A e : Told(e)' => Told(e) \/ Has(es, e)
         /\ \A e : Told(e) => Told(e)'
         /\ tailing => \A e : Has(es, e) => Told(e)'
<1>1. unread \o es \in Seq(Evt)
  BY HasFacts
<1>2. /\ \A e : Has(unread \o es, e) => Told(e) \/ Has(es, e)
      /\ \A e : Told(e) \/ Has(es, e) => Has(unread \o es, e)
  BY HasFacts DEF Told
<1>3. tailing' = tailing /\ unread' = IF tailing THEN unread \o es ELSE unread
  BY DEF Emit
<1>4. CASE tailing
  <2>1. \A e : Told(e)' <=> Has(unread \o es, e)
    BY <1>3, <1>4 DEF Told, Has
  <2> QED BY <1>1, <1>2, <1>3, <1>4, <2>1
<1>5. CASE ~tailing
  <2>1. \A e : Told(e)' <=> Told(e)
    BY <1>3, <1>5 DEF Told, Has
  <2> QED BY <1>3, <1>5, <2>1
<1> QED BY <1>4, <1>5

LEMMA EmittingOne ==
  ASSUME unread \in Seq(Evt), NEW v \in Evt, Emit(<<v>>)
  PROVE  /\ unread' \in Seq(Evt) /\ tailing' = tailing
         /\ \A e : Told(e)' => Told(e) \/ e = v
         /\ \A e : Told(e) => Told(e)'
<1>1. <<v>> \in Seq(Evt) /\ \A e : Has(<<v>>, e) <=> e = v
  BY OneEvent
<1> QED BY <1>1, Emitting

\* The services that a cycle finds different.
Different == {s \in Services : live[s] # Want(commit)[s]}

\* A cycle that looks at the cluster tells of the drift of every service that
\* is different, and of no other.
LEMMA Observing ==
  ASSUME Types, Observe
  PROVE  /\ round' = IF Different = {} THEN round ELSE round + 1
         /\ unread' \in Seq(Evt) /\ tailing' = tailing
         /\ \A e : Told(e)' =>
              \/ Told(e)
              \/ e = Event("diff", Target, round')
              \/ same /\ \E s \in Different : e = Event("drift", s, round')
         /\ \A e : Told(e) => Told(e)'
         /\ tailing /\ same /\ Target \in Different
              => \A e : e = Event("drift", Target, round') => Told(e)'
<1> DEFINE D == Different
           first == <<Event("diff", Target, round')>>
           drifts == [i \in 1 .. Cardinality(D) |->
                        Event("drift", SetToSeq(D)[i], round')]
           rest == IF same THEN drifts ELSE <<>>
<1>1. /\ round' = IF D = {} THEN round ELSE round + 1
      /\ Emit(first \o rest)
  BY DEF Observe, Different
<1>2. round' \in Nat /\ commit \in Nat /\ Target \in Services /\ unread \in Seq(Evt)
  BY <1>1, BenchAssumption DEF Types
<1>3. /\ Cardinality(D) \in Nat
      /\ \A i \in 1 .. Cardinality(D) : SetToSeq(D)[i] \in D
      /\ \A s \in D : \E i \in 1 .. Cardinality(D) : SetToSeq(D)[i] = s
  <2>1. D \in SUBSET Services
    BY DEF Different
  <2> QED BY <2>1, Listing
<1>4. Event("diff", Target, round') \in Evt
        /\ \A s \in Services : Event("drift", s, round') \in Evt
  BY <1>2 DEF Event, Evt
<1>5. \A s \in D : s \in Services
  BY DEF Different
<1> HIDE DEF D
<1>6. /\ Len(drifts) = Cardinality(D)
      /\ \A i \in 1 .. Cardinality(D) :
           drifts[i] = Event("drift", SetToSeq(D)[i], round')
      /\ drifts \in Seq(Evt)
  BY <1>3, <1>4, <1>5
<1> HIDE DEF drifts
<1>7. \A e : Has(drifts, e) => \E s \in D : e = Event("drift", s, round')
  BY <1>3, <1>6 DEF Has
<1>8. \A s \in D : Has(drifts, Event("drift", s, round'))
  BY <1>3, <1>6 DEF Has
<1>9. /\ rest \in Seq(Evt)
      /\ \A e : Has(rest, e) => same /\ \E s \in D : e = Event("drift", s, round')
      /\ same => \A s \in D : Has(rest, Event("drift", s, round'))
  <2>1. CASE same
    BY <1>6, <1>7, <1>8, <2>1
  <2>2. CASE ~same
    <3>1. rest = <<>> /\ <<>> \in Seq(Evt) /\ \A e : ~Has(<<>>, e)
      BY <2>2 DEF Has
    <3> QED BY <2>2, <3>1
  <2> QED BY <2>1, <2>2
<1>10. first \in Seq(Evt) /\ \A e : Has(first, e) <=> e = Event("diff", Target, round')
  BY <1>4, OneEvent
<1> HIDE DEF first, rest
<1>11. /\ first \o rest \in Seq(Evt)
       /\ \A e : Has(first \o rest, e) => Has(first, e) \/ Has(rest, e)
       /\ \A e : Has(rest, e) => Has(first \o rest, e)
  BY <1>9, <1>10, HasFacts
<1>12. /\ unread' \in Seq(Evt) /\ tailing' = tailing
       /\ \A e : Told(e)' => Told(e) \/ Has(first \o rest, e)
       /\ \A e : Told(e) => Told(e)'
       /\ tailing => \A e : Has(first \o rest, e) => Told(e)'
  BY <1>1, <1>2, <1>11, Emitting
<1>13. \A e : Told(e)' =>
         \/ Told(e)
         \/ e = Event("diff", Target, round')
         \/ same /\ \E s \in D : e = Event("drift", s, round')
  BY <1>9, <1>10, <1>11, <1>12
<1>14. ASSUME tailing, same, Target \in D,
              NEW e, e = Event("drift", Target, round')
       PROVE  Told(e)'
  <2>1. Has(first \o rest, e)
    BY <1>9, <1>11, <1>14
  <2> QED BY <1>12, <1>14, <2>1
<1> QED BY <1>1, <1>12, <1>13, <1>14 DEF D

\* Where the steps of drift and race are, and which trials have them.
LEMMA Places ==
  ASSUME Place
  PROVE  /\ At("push") => kind # "drift" /\ at = IF kind = "scale" THEN 1 ELSE 2
         /\ At("inspect") \/ At("update") => kind \in {"drift", "race"}
         /\ At("verify") => kind \in {"race", "fault"}
         /\ kind = "drift" =>
              /\ At("open") => at = 1
              /\ At("inspect") => at = 2
              /\ run <= MaxRuns => (At("trigger") <=> at = 4)
              /\ At("trigger") => at = 4
              /\ At("await") => at = 5
         /\ kind = "race" => /\ At("open") => at = 1
                             /\ At("push") => at = 2
                             /\ At("update") => at = 5
                             /\ At("trigger") => at = 3
                             /\ At("inspect") => at = 4
                             /\ At("await") => at = 6
                             /\ At("verify") => at = 7
         /\ kind = "fault" => /\ At("open") => at = 1
                              /\ At("push") => at = 2
                              /\ At("trigger") => at = 3
                              /\ At("await") => at = 5
<1>1. CASE kind = "scale"
  <2>1. at \in {1, 2, 3}
    BY <1>1 DEF Place, LastStep
  <2> QED BY <1>1, <2>1 DEF At, Steps
<1>2. CASE kind = "drift"
  <2>1. at \in {1, 2, 3, 4, 5}
    BY <1>2 DEF Place, LastStep
  <2> QED BY <1>2, <2>1 DEF At, Steps, DriftSteps
<1>3. CASE kind = "race"
  <2>1. at \in {1, 2, 3, 4, 5, 6, 7}
    BY <1>3 DEF Place, LastStep
  <2> QED BY <1>3, <2>1 DEF At, Steps
<1>4. CASE kind = "fault"
  <2>1. at \in {1, 2, 3, 4, 5, 6}
    BY <1>4 DEF Place, LastStep
  <2> QED BY <1>4, <2>1 DEF At, Steps
<1> QED BY <1>1, <1>2, <1>3, <1>4, TrialAssumption DEF Place

LEMMA FlagsKept ==
  ASSUME [Next]_vars PROVE UNCHANGED flags
<1>1. TrialStep => UNCHANGED flags
  BY DEF TrialStep, Open, Push, Inspect, Update, Errors, Trigger, Await, Arrived,
     Consume, Kill, PollLive, TimesOut, Verify, Report
<1> QED BY <1>1 DEF Next, TimerFires, Done, vars

\* An update takes place if the version is still the one that was read.
LEMMA Editing ==
  ASSUME Place, Types, Edited
  PROVE  /\ live' = [live EXCEPT ![Target] = [tag |-> got.tag, edit |-> run]]
         /\ live' \in [Services -> [tag : Nat, edit : Nat]]
         /\ live'[Target].edit = run /\ live'[Target].tag = got.tag
         /\ version' = version + 1 /\ version' \in Nat
         /\ got.version = version /\ UNCHANGED head
<1>1. [tag |-> got.tag, edit |-> run] \in [tag : Nat, edit : Nat]
  BY DEF Types, Place
<1>2. /\ live' = [live EXCEPT ![Target] = [tag |-> got.tag, edit |-> run]]
      /\ version' = version + 1 /\ UNCHANGED head /\ got.version = version
  BY DEF Edited, Current
<1> QED BY <1>1, <1>2, BenchAssumption DEF Types

\* A run that ends with an error ends without an ok, and has pushed or edited
\* at most.
LEMMA Failing ==
  ASSUME Place, Types, Errors
  PROVE  /\ \E o : o # "ok" /\ Report(o, FALSE)
         /\ \/ UNCHANGED <<head, cluster>>
            \/ At("push") /\ kind # "drift" /\ head' = run + 1 /\ UNCHANGED cluster
            \/ At("update") /\ kind \in {"drift", "race"} /\ Edited
<1>1. "error" # "ok" /\ "timeout" # "ok"
  OBVIOUS
<1>2. Report("timeout", FALSE) \/ Report("error", FALSE)
  BY Zenon DEF Errors
<1>3. \E o : o # "ok" /\ Report(o, FALSE)
  BY <1>1, <1>2, Zenon
<1>4. \/ UNCHANGED <<head, cluster>>
      \/ At("push") /\ head' = run + 1 /\ UNCHANGED cluster
      \/ At("update") /\ Edited
  BY DEF Errors, Pushed
<1> QED BY <1>3, <1>4, Places

\* What remains to be read is what was, when an event has been read.
LEMMA Consuming ==
  ASSUME Types, unread # <<>>, unread' = Tail(unread)
  PROVE  /\ unread' \in Seq(Evt) /\ Told(Head(unread)) /\ Head(unread) \in Evt
         /\ \A e : Told(e)' => Told(e)
         /\ \A e : Told(e) => e = Head(unread) \/ Told(e)'
<1>1. \A e : Told(e)' <=> Has(Tail(unread), e)
  BY DEF Told, Has
<1> QED BY <1>1, HasTail DEF Types, Told

\* The end of a run.
LEMMA TypesReport ==
  ASSUME OutageInv, Types, CycleInv, NEW o, NEW f, Report(o, f),
         head' = head \/ (kind # "drift" /\ head' = run + 1),
         live' \in [Services -> [tag : Nat, edit : Nat]], version' \in Nat
  PROVE  Types' /\ CycleInv'
<1>1. /\ UNCHANGED <<round, commit, todo, awaited, deployed, seen, readout, cpc, kind>>
      /\ unread' = <<>> /\ got' = [version |-> 0, tag |-> 0]
      /\ sha' = 0 /\ tracked' = 0 /\ run' = run + 1 /\ at' = 1
  BY DEF Report, cycle, story, flags
<1>2. unread' \in Seq(Evt) /\ got' \in [version : Nat, tag : Nat]
  BY <1>1
<1>3. run \in Nat \ {0} /\ head \in Nat /\ head <= run + 1
  BY DEF OutageInv, Place, CycleInv, Types
<1>4. head' \in Nat \ {0} /\ head <= head' /\ head' <= run'
  BY <1>1, <1>3 DEF Types
<1>5. Types'
  BY <1>1, <1>2, <1>4 DEF Types
<1>6. commit' <= head' /\ \A c \in deployed' : c <= head'
  BY <1>1, <1>3, <1>4 DEF CycleInv, Types
<1>7. head' <= run' + 1
  BY <1>1, <1>3, <1>4
<1> QED BY <1>1, <1>4, <1>5, <1>6, <1>7 DEF CycleInv

\* The bounds on the branch while a run goes on.
LEMMA BranchFrame ==
  ASSUME Place, CycleInv, UNCHANGED <<kind, run, head>>, at' \in Nat, at' >= at
  PROVE  (head <= run + 1 /\ (Before => head <= run))'
BY DEF Place, CycleInv, Before

LEMMA TypesBench ==
  ASSUME OutageInv, Types, CycleInv, BenchNext,
         UNCHANGED <<flags, trial, restores, row>>
  PROVE  Types' /\ CycleInv'
<1>0. UNCHANGED <<kind, readout, sha, got, tracked, run, at>>
  BY DEF flags, trial
<1>b. Before' <=> Before
  BY <1>0 DEF Before
<1>1. CASE Poll
  <2>1. /\ UNCHANGED <<unread, round, head, live, version, todo, awaited, deployed,
                       seen>>
        /\ cpc = "idle" /\ cpc' = "observe" /\ commit' = head
    BY <1>1 DEF Poll, cluster, file, story
  <2>2. Types'
    BY <1>0, <2>1 DEF Types
  <2> QED BY <1>0, <1>b, <2>1, <2>2 DEF Types, CycleInv
<1>2. CASE Observe
  <2>1. /\ UNCHANGED <<head, live, version, deployed>>
        /\ cpc = "observe"
        /\ \/ cpc' = "idle" /\ commit' = 0 /\ todo' = {} /\ awaited' = {}
           \/ /\ cpc' = "gate" /\ todo' = Different
              /\ UNCHANGED <<commit, awaited>>
        /\ seen' = IF same THEN seen \cup {live[Target].edit} ELSE seen
    BY <1>2 DEF Observe, cluster, EndCycle, Different
  <2>2. live[Target].edit \in Nat
    BY BenchAssumption DEF Types
  <2>3. unread' \in Seq(Evt) /\ round' \in Nat
    BY <1>2, Observing DEF Types
  <2>s. seen' \subseteq Nat
    <3>1. seen \subseteq Nat
      BY DEF Types
    <3>2. CASE same
      BY <2>1, <2>2, <3>1, <3>2
    <3>3. CASE ~same
      BY <2>1, <3>1, <3>3
    <3> QED BY <3>2, <3>3
  <2>d. Different \subseteq Services
    BY DEF Different
  <2>t. /\ todo' \subseteq Services /\ awaited' \subseteq Services
        /\ commit' \in Nat /\ cpc' \in {"idle", "gate"}
    BY <2>1, <2>d DEF Types
  <2>4. /\ seen' \subseteq Nat /\ todo' \subseteq Services
        /\ awaited' \subseteq Services /\ commit' \in Nat
        /\ cpc' \in {"idle", "gate"}
    BY <2>s, <2>t
  <2>5. Types'
    BY <1>0, <2>1, <2>3, <2>4 DEF Types
  <2> QED BY <1>0, <1>b, <2>1, <2>5 DEF Types, CycleInv
<1>3. ASSUME NEW pass \in SUBSET Services, Gate(pass) PROVE Types' /\ CycleInv'
  <2>1. /\ UNCHANGED <<unread, round, head, live, version, deployed, seen>>
        /\ cpc = "gate"
        /\ \/ cpc' = "idle" /\ commit' = 0 /\ todo' = {} /\ awaited' = {}
           \/ /\ cpc' = "apply" /\ todo' = pass
              /\ UNCHANGED <<commit, awaited>>
    BY <1>3 DEF Gate, cluster, file, EndCycle
  <2>2. Types'
    BY <1>0, <2>1 DEF Types
  <2> QED BY <1>0, <1>b, <2>1, <2>2 DEF Types, CycleInv
<1>4. ASSUME NEW s \in Services, NEW ok \in BOOLEAN, NEW done \in BOOLEAN,
             Apply(s, ok, done)
      PROVE  Types' /\ CycleInv'
  <2>1. /\ UNCHANGED <<round, head, deployed, seen>>
        /\ cpc = "apply"
        /\ \/ cpc' = "idle" /\ commit' = 0 /\ todo' = {} /\ awaited' = {}
           \/ /\ cpc' = IF todo = {s} THEN "await" ELSE "apply"
              /\ todo' = todo \ {s}
              /\ awaited' = awaited \cup {s}
              /\ UNCHANGED commit
        /\ live' = IF done THEN [live EXCEPT ![s] = Want(commit)[s]] ELSE live
        /\ version' = IF done /\ s = Target THEN version + 1 ELSE version
        /\ Emit(<<Event("apply", s, round)>>)
    BY <1>4 DEF Apply, story, EndCycle
  <2>2. Event("apply", s, round) \in Evt
    BY DEF Event, Evt, Types
  <2>3. unread' \in Seq(Evt)
    BY <2>1, <2>2, EmittingOne DEF Types
  <2>4. Want(commit)[s] \in [tag : Nat, edit : Nat]
    BY WantTypes DEF Types
  <2>5. live' \in [Services -> [tag : Nat, edit : Nat]] /\ version' \in Nat
    BY <2>1, <2>4 DEF Types
  <2>c. /\ todo' \subseteq Services /\ awaited' \subseteq Services
        /\ commit' \in Nat /\ cpc' \in {"idle", "apply", "await"}
    BY <2>1 DEF Types
  <2>6. Types'
    BY <1>0, <2>1, <2>3, <2>5, <2>c DEF Types
  <2> QED BY <1>0, <1>b, <2>1, <2>6 DEF Types, CycleInv
<1>5. CASE Converge
  <2>1. /\ UNCHANGED <<round, head, live, version, seen>>
        /\ cpc' = "idle" /\ commit' = 0 /\ todo' = {} /\ awaited' = {}
        /\ deployed' \subseteq deployed \cup {commit}
        /\ Emit(<<Event("converged", Target, round)>>)
    BY <1>5 DEF Converge, EndCycle, cluster
  <2>2. Event("converged", Target, round) \in Evt
    BY BenchAssumption DEF Event, Evt, Types
  <2>3. unread' \in Seq(Evt)
    BY <2>1, <2>2, EmittingOne DEF Types
  <2>4. Types'
    BY <1>0, <2>1, <2>3 DEF Types
  <2> QED BY <1>0, <1>b, <2>1, <2>4 DEF Types, CycleInv
<1>6. CASE Fail
  <2>1. /\ UNCHANGED <<unread, round, head, live, version, deployed, seen>>
        /\ cpc' = "idle" /\ commit' = 0 /\ todo' = {} /\ awaited' = {}
    BY <1>6 DEF Fail, EndCycle, cluster, file, story
  <2>2. Types'
    BY <1>0, <2>1 DEF Types
  <2> QED BY <1>0, <1>b, <2>1, <2>2 DEF Types, CycleInv
<1> QED BY <1>1, <1>2, <1>3, <1>4, <1>5, <1>6 DEF BenchNext

LEMMA TypesTrial ==
  ASSUME OutageInv, Types, CycleInv, TrialStep
  PROVE  Types' /\ CycleInv'
<1>0. Place /\ at \in Nat /\ run \in Nat
  BY DEF OutageInv, Place
\* A step to another one of the run.
<1>b. ASSUME UNCHANGED <<kind, run, head>>, at' \in Nat, at' >= at
      PROVE  (head <= run + 1 /\ (Before => head <= run))'
  BY <1>0, <1>b, BranchFrame
<1>1. CASE Open
  <2>1. /\ UNCHANGED <<round, head, commit, live, version, got, sha, tracked, todo,
                       awaited, deployed, seen, readout, cpc, kind, run>>
        /\ unread' = <<>> /\ at' = at + 1
    BY <1>1 DEF Open, Next1, cluster, cycle, story, flags
  <2>2. unread' \in Seq(Evt)
    BY <2>1
  <2>3. Types'
    BY <2>1, <2>2 DEF Types
  <2> QED BY <1>0, <1>b, <2>1, <2>3 DEF CycleInv
<1>2. CASE Push
  <2>1. /\ UNCHANGED <<unread, round, commit, live, version, got, tracked, todo,
                       awaited, deployed, seen, readout, cpc, kind>>
        /\ head' = run + 1 /\ sha' = run + 1 /\ kind # "drift"
        /\ at' = at + 1 /\ UNCHANGED run
    BY <1>0, <1>2, Places DEF Push, Pushed, Next1, cluster, cycle, story, flags, file
  <2>2. Types'
    BY <1>0, <2>1 DEF Types
  <2>3. IF kind = "scale" THEN at = 1 ELSE at = 2
    BY <1>0, <1>2, Places DEF Push
  <2>4. head <= run /\ ~Before'
    <3>1. IF kind = "scale" THEN at' = 2 ELSE at' = 3
      BY <2>1, <2>3
    <3> QED BY <2>1, <2>3, <3>1 DEF CycleInv, Before
  <2>5. head' <= run' + 1 /\ commit' <= head' /\ \A c \in deployed' : c <= head'
    BY <1>0, <2>1, <2>4 DEF Types, CycleInv
  <2> QED BY <2>1, <2>2, <2>4, <2>5 DEF CycleInv
<1>3. CASE Inspect
  <2>1. /\ UNCHANGED <<unread, round, head, commit, live, version, sha, tracked,
                       todo, awaited, deployed, seen, readout, cpc, kind, run>>
        /\ got' = [version |-> version, tag |-> live[Target].tag] /\ at' = at + 1
    BY <1>3 DEF Inspect, Next1, benchVars, cluster, cycle, story, flags, file
  <2>2. got' \in [version : Nat, tag : Nat]
    BY <2>1, BenchAssumption DEF Types
  <2>3. Types'
    BY <2>1, <2>2 DEF Types
  <2> QED BY <1>0, <1>b, <2>1, <2>3 DEF CycleInv
<1>4. CASE Update
  <2>1. /\ UNCHANGED <<unread, round, head, commit, got, sha, tracked,
                       todo, awaited, deployed, seen, readout, cpc, kind, run>>
        /\ live' \in [Services -> [tag : Nat, edit : Nat]] /\ version' \in Nat
        /\ at' = at + 1
    BY <1>0, <1>4, Editing DEF Update, Next1, cycle, story, flags, file
  <2>2. Types'
    BY <2>1 DEF Types
  <2> QED BY <1>0, <1>b, <2>1, <2>2 DEF CycleInv
\* The run ends, and the branch and the cluster are left alone.
<1>r. ASSUME NEW o, NEW f, Report(o, f), UNCHANGED <<head, cluster>>
      PROVE  Types' /\ CycleInv'
  <2>1. live' \in [Services -> [tag : Nat, edit : Nat]] /\ version' \in Nat
    BY <1>r DEF cluster, Types
  <2> QED BY <1>r, <2>1, TypesReport
<1>5. CASE Errors
  <2>1. PICK o : Report(o, FALSE)
    BY <1>0, <1>5, Failing
  <2>2. CASE UNCHANGED <<head, cluster>>
    BY <1>r, <2>1, <2>2
  <2>3. CASE kind # "drift" /\ head' = run + 1 /\ UNCHANGED cluster
    <3>1. live' \in [Services -> [tag : Nat, edit : Nat]] /\ version' \in Nat
      BY <2>3 DEF cluster, Types
    <3> QED BY <2>1, <2>3, <3>1, TypesReport
  <2>4. CASE Edited
    BY <1>0, <2>1, <2>4, Editing, TypesReport
  <2> QED BY <1>0, <1>5, <2>2, <2>3, <2>4, Failing
\* An event is read.
<1>6. ASSUME unread # <<>>, Consume, tracked' \in Nat, at' \in {at, at + 1}
      PROVE  Types' /\ CycleInv'
  <2>1. /\ UNCHANGED <<round, head, commit, live, version, got, sha,
                       todo, awaited, deployed, seen, readout, cpc, kind, run>>
        /\ unread' = Tail(unread)
    BY <1>6 DEF Consume, cluster, cycle, story, flags
  <2>2. unread' \in Seq(Evt)
    BY <1>6, <2>1, Consuming
  <2>3. Types'
    BY <1>6, <2>1, <2>2 DEF Types
  <2> QED BY <1>0, <1>6, <1>b, <2>1, <2>3 DEF CycleInv
<1>7. CASE Trigger
  <2>1. at' \in {at, at + 1} /\ tracked' = tracked /\ tracked \in Nat
    BY <1>7 DEF Trigger, Next1, Types
  <2> QED BY <1>6, <1>7, <2>1 DEF Trigger, Reading
<1>8. CASE Await
  <2>1. /\ unread # <<>> /\ Consume /\ at' = at
        /\ tracked' = Head(unread).round \/ tracked' = tracked
    BY <1>8 DEF Await, Reading
  <2>2. Head(unread) \in Evt
    BY <2>1, Consuming DEF Consume
  <2>3. tracked' \in Nat
    BY <2>1, <2>2 DEF Evt, Types
  <2> QED BY <1>6, <2>1, <2>3
<1>9. CASE Arrived
  <2>1. CASE kind \in {"race", "fault"}
    BY <1>6, <1>9, <2>1 DEF Arrived, Reading, Next1, Types
  <2>2. CASE kind \notin {"race", "fault"}
    BY <1>9, <1>r, <2>2 DEF Arrived
  <2> QED BY <2>1, <2>2
<1>10. CASE Kill
  <2>1. /\ UNCHANGED <<unread, round, head, live, version, got, sha, tracked,
                       deployed, seen, readout, kind, run>> /\ at' = at + 1
        /\ \/ UNCHANGED <<cpc, commit, todo, awaited>>
           \/ cpc' = "idle" /\ commit' = 0 /\ todo' = {} /\ awaited' = {}
    BY <1>10 DEF Kill, Next1, Down, EndCycle, cluster, cycle, story, flags, file
  <2>2. Types'
    BY <2>1 DEF Types
  <2>3. (head <= run + 1 /\ (Before => head <= run))'
    BY <1>0, <1>b, <2>1
  <2> QED BY <2>1, <2>2, <2>3 DEF Types, CycleInv
<1>11. ASSUME UNCHANGED <<benchVars, flags, sha, got, tracked, run>>,
              at' \in Nat, at' >= at
       PROVE  Types' /\ CycleInv'
  <2>1. (head <= run + 1 /\ (Before => head <= run))'
    BY <1>b, <1>11 DEF benchVars, flags
  <2> QED BY <1>11, <2>1 DEF Types, CycleInv, benchVars, cluster, cycle, story, flags, file
<1>12. CASE PollLive
  BY <1>0, <1>11, <1>12 DEF PollLive, Next1
<1>13. CASE TimesOut
  <2>1. CASE kind \in {"race", "fault"}
    <3>1. at' = IF kind = "race" THEN 7 ELSE 6
      BY <1>0, <1>13, <2>1, SkipsForward DEF TimesOut
    <3>2. at' \in Nat /\ at' >= at
      BY <1>0, <2>1, <3>1 DEF Place, LastStep
    <3> QED BY <1>11, <1>13, <2>1, <3>2 DEF TimesOut
  <2>2. CASE kind \notin {"race", "fault"}
    BY <1>13, <1>r, <2>2 DEF TimesOut
  <2> QED BY <2>1, <2>2
<1>14. CASE Verify
  BY <1>14, <1>r DEF Verify
<1> QED BY <1>1, <1>2, <1>3, <1>4, <1>5, <1>7, <1>8, <1>9, <1>10, <1>12, <1>13,
           <1>14 DEF TrialStep

LEMMA TypesStep ==
  ASSUME OutageInv, Types, CycleInv, [Next]_vars
  PROVE  Types' /\ CycleInv'
<1>1. ASSUME UNCHANGED <<benchVars, flags, trial>> PROVE Types' /\ CycleInv'
  BY <1>1 DEF Types, CycleInv, Before, benchVars, cluster, cycle, story, flags, file, trial
<1>2. ASSUME NEW s \in Services, Meddle(s), UNCHANGED <<flags, trial>>
      PROVE  Types' /\ CycleInv'
  <2>1. /\ UNCHANGED <<unread, round, head, commit, version, got, sha, tracked,
                       todo, awaited, deployed, seen, readout, cpc, kind, run, at>>
        /\ live' = [live EXCEPT ![s].edit = 1]
    BY <1>2 DEF Meddle, cycle, story, flags, file, trial
  <2>2. live' \in [Services -> [tag : Nat, edit : Nat]]
    BY <2>1 DEF Types
  <2>3. Types'
    BY <2>1, <2>2 DEF Types
  <2> QED BY <2>1, <2>3 DEF CycleInv, Before
<1>3. ASSUME NEW r \in timers, TimerFires(r) PROVE Types' /\ CycleInv'
  <2>1. UNCHANGED <<cluster, cycle, file, story, flags, trial, head>>
    BY <1>3 DEF TimerFires
  <2> QED BY <2>1 DEF Types, CycleInv, Before, cluster, cycle, story, flags, file, trial
<1>4. CASE Done \/ UNCHANGED vars
  BY <1>1, <1>4 DEF Done, vars
<1> QED BY <1>2, <1>3, <1>4, TypesBench, TypesTrial DEF Next

-----------------------------------------------------------------------------
(* The operator's write. *)

LEMMA EditFrame ==
  ASSUME EditInv, UNCHANGED <<kind, at, got, version>>,
         live'[Target].tag = live[Target].tag
  PROVE  EditInv'
BY DEF EditInv, EditPoint

\* Only the inspection leads to the write.
LEMMA EditTrial ==
  ASSUME OutageInv, Types, EditInv, TrialStep
  PROVE  EditInv'
<1>0. Place
  BY DEF OutageInv
<1>1. UNCHANGED kind
  BY FlagsKept DEF Next, flags
<1>r. ASSUME at' = 1 PROVE EditInv'
  BY <1>r DEF EditInv, EditPoint
<1>s. ASSUME kind = "drift" => at' # 3, kind = "race" => at' # 5 PROVE EditInv'
  BY <1>1, <1>s DEF EditInv, EditPoint
<1>2. CASE Open \/ Push
  <2>1. at' = at + 1 /\ at \in {1, 2} /\ (kind = "drift" => at = 1)
    BY <1>0, <1>2, Numbers, Places DEF Open, Push, Next1
  <2> QED BY <1>s, <2>1
<1>3. CASE Inspect
  <2>1. /\ UNCHANGED <<live, version>>
        /\ got' = [version |-> version, tag |-> live[Target].tag]
    BY <1>3 DEF Inspect, benchVars, cluster
  <2>2. version \in Nat
    BY DEF Types
  <2> QED BY <2>1, <2>2 DEF EditInv
<1>4. CASE Update
  <2>1. at' = at + 1 /\ (kind = "drift" => at = 3) /\ (kind = "race" => at = 5)
    BY <1>0, <1>4, Numbers, Places DEF Update, Next1
  <2> QED BY <1>s, <2>1
<1>5. CASE Errors
  BY <1>5, <1>r DEF Errors, Report
<1>6. CASE Trigger
  <2>1. \/ UNCHANGED at
        \/ at' = at + 1 /\ (kind = "drift" => at = 4) /\ (kind = "race" => at = 3)
    BY <1>0, <1>6, Places DEF Trigger, Reading, Next1
  <2>2. UNCHANGED <<got, version, live>>
    BY <1>6 DEF Trigger, Consume, cluster
  <2>3. CASE UNCHANGED at
    BY <1>1, <2>2, <2>3, EditFrame
  <2>4. CASE ~(UNCHANGED at)
    BY <1>s, <2>1, <2>4
  <2> QED BY <2>3, <2>4
<1>7. CASE Await
  BY <1>1, <1>7, EditFrame DEF Await, Consume, cluster
<1>8. CASE Arrived
  <2>1. CASE kind \in {"race", "fault"}
    <3>1. At("await") /\ at' = at + 1
      BY <1>8, <2>1 DEF Arrived, Reading, Next1
    <3>2. kind # "drift" /\ (kind = "race" => at = 6)
      BY <1>0, <2>1, <3>1, Numbers
    <3> QED BY <1>s, <3>1, <3>2
  <2>2. CASE kind \notin {"race", "fault"}
    BY <1>8, <1>r, <2>2 DEF Arrived, Report
  <2> QED BY <2>1, <2>2
<1>9. CASE Kill
  <2>1. kind = "fault"
    BY <1>0, <1>9, Numbers DEF Kill
  <2> QED BY <1>s, <2>1
<1>10. CASE PollLive
  <2>1. kind = "fault"
    BY <1>0, <1>10 DEF PollLive, Place
  <2> QED BY <1>s, <2>1
<1>11. CASE TimesOut
  <2>1. CASE kind \in {"race", "fault"}
    <3>1. at' = IF kind = "race" THEN 7 ELSE 6
      BY <1>0, <1>11, <2>1, SkipsForward DEF TimesOut
    <3> QED BY <1>s, <2>1, <3>1
  <2>2. CASE kind \notin {"race", "fault"}
    BY <1>11, <1>r, <2>2 DEF TimesOut, Report
  <2> QED BY <2>1, <2>2
<1>12. CASE Verify
  BY <1>12, <1>r DEF Verify, Report
<1> QED BY <1>2, <1>3, <1>4, <1>5, <1>6, <1>7, <1>8, <1>9, <1>10, <1>11, <1>12
        DEF TrialStep

LEMMA EditStep ==
  ASSUME OutageInv, Types, EditInv, [Next]_vars
  PROVE  EditInv'
<1>1. CASE BenchNext /\ UNCHANGED <<flags, trial, restores, row>>
  <2>0. UNCHANGED <<kind, at, got>>
    BY <1>1 DEF flags, trial
  <2>1. ASSUME UNCHANGED cluster PROVE EditInv'
    BY <2>0, <2>1, EditFrame DEF cluster
  <2>2. CASE Poll \/ Observe \/ Converge \/ Fail \/ \E pass \in SUBSET Services : Gate(pass)
    BY <2>1, <2>2 DEF Poll, Observe, Converge, Fail, Gate
  \* A service that is applied has a new version.
  <2>3. ASSUME NEW s \in Services, NEW ok \in BOOLEAN, NEW done \in BOOLEAN,
               Apply(s, ok, done)
        PROVE  EditInv'
    <3>1. /\ live' = IF done THEN [live EXCEPT ![s] = Want(commit)[s]] ELSE live
          /\ version' = IF done /\ s = Target THEN version + 1 ELSE version
      BY <2>3 DEF Apply
    <3>2. CASE done /\ s = Target
      <4>1. version' = version + 1 /\ version \in Nat /\ got.version \in Nat
        BY <3>1, <3>2 DEF Types
      <4> QED BY <2>0, <4>1 DEF EditInv, EditPoint
    <3>3. CASE ~(done /\ s = Target)
      <4>1. version' = version /\ live'[Target].tag = live[Target].tag
        BY <3>1, <3>3, BenchAssumption DEF Types
      <4> QED BY <2>0, <4>1, EditFrame
    <3> QED BY <3>2, <3>3
  <2> QED BY <1>1, <2>2, <2>3 DEF BenchNext
<1>2. ASSUME NEW s \in Services, Meddle(s), UNCHANGED <<flags, trial, restores, row>>
      PROVE  EditInv'
  <2>1. UNCHANGED <<kind, at, got, version>> /\ live'[Target].tag = live[Target].tag
    BY <1>2, BenchAssumption DEF Meddle, flags, trial, Types
  <2> QED BY <2>1, EditFrame
<1>3. CASE TrialStep
  BY <1>3, EditTrial
<1>4. CASE Done \/ UNCHANGED vars
  BY <1>4, EditFrame DEF Done, vars, benchVars, cluster, flags, trial
<1>5. ASSUME NEW r \in timers, TimerFires(r) PROVE EditInv'
  BY <1>5, EditFrame DEF TimerFires, cluster, flags, trial
<1> QED BY <1>1, <1>2, <1>3, <1>4, <1>5 DEF Next

LEMMA TypesInit == Init => Types /\ CycleInv
<1> SUFFICES ASSUME Init PROVE Types /\ CycleInv
  OBVIOUS
<1>1. /\ head = 1 /\ live = Want(1) /\ version = 0 /\ cpc = "idle" /\ commit = 0
      /\ round = 0 /\ todo = {} /\ awaited = {} /\ unread = <<>>
      /\ deployed = {} /\ seen = {} /\ readout \in {"event", "poll"} /\ sha = 0
      /\ got = [version |-> 0, tag |-> 0] /\ tracked = 0 /\ run = 1
  BY DEF Init, BenchInit
<1>2. unread \in Seq(Evt) /\ got \in [version : Nat, tag : Nat]
  BY <1>1
<1>3. live \in [Services -> [tag : Nat, edit : Nat]]
  BY <1>1, WantTypes
<1>4. Types
  BY <1>1, <1>2, <1>3 DEF Types
<1> QED BY <1>1, <1>4 DEF CycleInv

\* The action property PushNotLost of the run: the operator's write carries the
\* version it read, so that it never takes back what swarmgate applied since.
THEOREM EditsTakeNothingBack == Spec => PushNotLost
<1> DEFINE Inv == OutageInv /\ Types /\ CycleInv /\ EditInv
<1>1. Init => Inv
  <2>1. Init => EditInv
    <3>1. Init => at = 1
      BY DEF Init
    <3> QED BY <3>1 DEF EditInv, EditPoint
  <2> QED BY <2>1, OutageInit, TypesInit
<1>2. Inv /\ [Next]_vars => Inv'
  BY StepOutage, TypesStep, EditStep
<1>3. ASSUME Inv, Next, At("update"), at' # at
      PROVE  live'[Target].tag = live[Target].tag
  <2>0. EditPoint
    BY <1>3, Numbers, Places DEF OutageInv, EditPoint
  <2>1. TrialStep
    BY <1>3 DEF Next, TimerFires, Done, vars, trial
  <2>2. Update \/ Errors
    BY <1>3, <2>1 DEF TrialStep, Open, Push, Inspect, Trigger, Await, Arrived,
       Reading, Kill, PollLive, TimesOut, Verify, At
  <2>3. CASE Edited
    <3>1. got.version = version /\ live'[Target].tag = got.tag
      BY <1>3, <2>3, Editing DEF OutageInv
    <3> QED BY <1>3, <2>0, <3>1 DEF EditInv
  <2>4. CASE UNCHANGED cluster
    BY <2>4 DEF cluster
  <2>5. Edited \/ UNCHANGED cluster
    BY <1>3, <2>2, Failing DEF Update, OutageInv
  <2> QED BY <2>3, <2>4, <2>5
<1>4. Inv /\ [Next]_vars
        => [At("update") /\ at' # at => live'[Target].tag = live[Target].tag]_vars
  BY <1>3
<1> QED BY <1>1, <1>2, <1>4, PTL DEF Spec, PushNotLost

-----------------------------------------------------------------------------
(* What drift tells of a mutation. *)

LEMMA SameTold ==
  ASSUME UNCHANGED unread PROVE \A e : Told(e)' <=> Told(e)
BY DEF Told, Has

LEMMA SeenFrame ==
  ASSUME OutageInv, SeenInv, UNCHANGED <<kind, run, at, tracked, seen, tailing>>,
         live'[Target].edit \in {live[Target].edit, 0},
         \A e : Told(e) => Told(e)'
  PROVE  SeenInv'
<1>1. run \in Nat \ {0}
  BY DEF OutageInv, Place
<1>2. SUFFICES ASSUME kind = "drift" PROVE SeenInv'
  BY DEF SeenInv
<1>3. (at > 1 => tailing)' /\ (at <= 4 => tracked = 0)'
  BY <1>2 DEF SeenInv
<1>4. (live[Target].edit <= run /\ \A x \in seen : x <= run)'
  BY <1>1, <1>2 DEF SeenInv
<1>5. (at <= 3 => live[Target].edit # run /\ run \notin seen)'
  BY <1>1, <1>2 DEF SeenInv
<1>6. (at = 4 /\ run \in seen => \E e : Told(e) /\ Detects(e))'
  <2>1. \A e : Detects(e)' <=> Detects(e)
    BY DEF Detects
  <2> QED BY <1>2, <2>1 DEF SeenInv
<1> QED BY <1>3, <1>4, <1>5, <1>6 DEF SeenInv

LEMMA SeenBench ==
  ASSUME OutageInv, Types, CycleInv, SeenInv, BenchNext,
         UNCHANGED <<flags, trial, restores, row>>
  PROVE  SeenInv'
<1>0. UNCHANGED <<kind, run, at, tracked>>
  BY DEF flags, trial
<1>1. CASE Poll \/ Fail \/ \E pass \in SUBSET Services : Gate(pass)
  <2>1. UNCHANGED <<seen, tailing, unread, live>>
    BY <1>1 DEF Poll, Fail, Gate, file, story, cluster
  <2> QED BY <1>0, <2>1, SameTold, SeenFrame
<1>2. CASE Observe
  <2>0. SUFFICES ASSUME kind = "drift" PROVE SeenInv'
    BY <1>0 DEF SeenInv
  <2>1. /\ UNCHANGED <<live, tailing>>
        /\ \A e : Told(e) => Told(e)'
        /\ seen' = IF same THEN seen \cup {live[Target].edit} ELSE seen
    BY <1>2, Observing DEF Observe, cluster
  <2>2. run \in Nat \ {0}
    BY DEF OutageInv, Place
  <2>3. CASE UNCHANGED seen
    BY <1>0, <2>1, <2>3, SeenFrame
  <2>4. CASE ~(UNCHANGED seen)
    <3>1. same /\ seen' = seen \cup {live[Target].edit}
      BY <2>1, <2>4
    <3>2. (at > 1 => tailing)' /\ (at <= 4 => tracked = 0)'
      BY <1>0, <2>0, <2>1 DEF SeenInv
    <3>3. (live[Target].edit <= run /\ \A x \in seen : x <= run)'
      BY <1>0, <2>0, <2>1, <3>1 DEF SeenInv
    <3>4. (at <= 3 => live[Target].edit # run /\ run \notin seen)'
      BY <1>0, <2>0, <2>1, <3>1 DEF SeenInv
    <3>5. ASSUME at = 4, run \in seen' PROVE \E e : Told(e)' /\ Detects(e)
      <4>1. CASE run \in seen
        BY <2>0, <2>1, <3>5, <4>1 DEF SeenInv
      <4>2. CASE run \notin seen
        <5>1. live[Target].edit = run
          BY <3>1, <3>5, <4>2
        <5>2. Want(commit)[Target].edit = 0
          BY BenchAssumption, WantTypes DEF Types
        <5>3. Target \in Different
          BY <2>2, <5>1, <5>2, BenchAssumption DEF Different
        <5>4. tailing
          BY <2>0, <3>5 DEF SeenInv
        <5>5. \A e : e = Event("drift", Target, round') => Told(e)'
          BY <1>2, <3>1, <5>3, <5>4, Observing
        <5>6. Detects(Event("drift", Target, round'))
          BY DEF Detects, Event
        <5> QED BY <5>5, <5>6
      <4> QED BY <4>1, <4>2
    <3>6. (at = 4 /\ run \in seen => \E e : Told(e) /\ Detects(e))'
      <4>1. \A e : Detects(e)' <=> Detects(e)
        BY DEF Detects
      <4> QED BY <1>0, <3>5, <4>1
    <3> QED BY <3>2, <3>3, <3>4, <3>6 DEF SeenInv
  <2> QED BY <2>3, <2>4
<1>3. ASSUME NEW s \in Services, NEW ok \in BOOLEAN, NEW done \in BOOLEAN,
             Apply(s, ok, done)
      PROVE  SeenInv'
  <2>1. /\ live' = IF done THEN [live EXCEPT ![s] = Want(commit)[s]] ELSE live
        /\ Emit(<<Event("apply", s, round)>>) /\ UNCHANGED seen
    BY <1>3 DEF Apply, story
  <2>2. Event("apply", s, round) \in Evt
    BY DEF Event, Evt, Types
  <2>3. UNCHANGED tailing /\ \A e : Told(e) => Told(e)'
    BY <2>1, <2>2, EmittingOne DEF Types
  <2>4. Want(commit)[s].edit = 0
    BY WantTypes DEF Types
  <2>5. live'[Target].edit \in {live[Target].edit, 0}
    BY <2>1, <2>4, BenchAssumption DEF Types
  <2> QED BY <1>0, <2>1, <2>3, <2>5, SeenFrame
<1>4. CASE Converge
  <2>1. UNCHANGED <<live, seen>> /\ Emit(<<Event("converged", Target, round)>>)
    BY <1>4 DEF Converge, cluster
  <2>2. Event("converged", Target, round) \in Evt
    BY BenchAssumption DEF Event, Evt, Types
  <2>3. UNCHANGED tailing /\ \A e : Told(e) => Told(e)'
    BY <2>1, <2>2, EmittingOne DEF Types
  <2> QED BY <1>0, <2>1, <2>3, SeenFrame
<1> QED BY <1>1, <1>2, <1>3, <1>4 DEF BenchNext

LEMMA SeenTrial ==
  ASSUME OutageInv, Types, SeenInv, TrialStep
  PROVE  SeenInv'
<1>0. UNCHANGED kind
  BY FlagsKept DEF Next, flags
<1> SUFFICES ASSUME kind = "drift" PROVE SeenInv'
  BY <1>0 DEF SeenInv
<1>p. Place /\ run \in Nat \ {0} /\ at \in Nat /\ readout # "poll"
  BY DEF OutageInv, Place
<1>1. CASE Open
  <2>1. /\ at = 1 /\ at' = 2 /\ tailing' = TRUE
        /\ UNCHANGED <<run, tracked, seen, live>>
    BY <1>p, <1>1, Places DEF Open, Next1, story, cluster
  <2> QED BY <1>0, <2>1 DEF SeenInv
<1>2. CASE Inspect
  <2>1. /\ at = 2 /\ at' = 3
        /\ UNCHANGED <<run, tracked, seen, live, tailing>>
    BY <1>p, <1>2, Places DEF Inspect, Next1, benchVars, story, cluster, file
  <2> QED BY <1>0, <2>1 DEF SeenInv
<1>3. CASE Update
  <2>1. /\ at = 3 /\ at' = 4
        /\ UNCHANGED <<run, tracked, seen, tailing>>
    BY <1>p, <1>3, Numbers DEF Update, Next1, story, file
  <2>2. live'[Target].edit = run
    BY <1>p, <1>3, Editing DEF Update
  <2> QED BY <1>p, <1>0, <2>1, <2>2 DEF SeenInv
<1>4. ASSUME NEW o, NEW f, Report(o, f), live'[Target].edit \in {live[Target].edit, run}
      PROVE  SeenInv'
  <2>1. /\ run' = run + 1 /\ at' = 1 /\ tracked' = 0 /\ UNCHANGED seen
    BY <1>4 DEF Report, story
  <2>2. seen \subseteq Nat /\ live[Target].edit \in Nat /\ live[Target].edit <= run
    BY BenchAssumption DEF Types, SeenInv
  <2>3. (live[Target].edit <= run /\ \A x \in seen : x <= run)'
    BY <1>4, <1>p, <2>1, <2>2 DEF SeenInv
  <2>4. live'[Target].edit # run' /\ run' \notin seen'
    BY <1>4, <1>p, <2>1, <2>2 DEF SeenInv
  <2> QED BY <2>1, <2>3, <2>4 DEF SeenInv
<1>5. CASE Trigger
  <2>1. /\ at = 4 /\ Consume /\ unread # <<>> /\ UNCHANGED tracked
        /\ IF Triggers(Head(unread)) THEN at' = 5 ELSE UNCHANGED at
    BY <1>p, <1>5, Places DEF Trigger, Reading, Next1
  <2>2. UNCHANGED <<run, seen, live, tailing>> /\ unread' = Tail(unread)
    BY <2>1 DEF Consume, story, cluster
  <2>3. \A e : Told(e) => e = Head(unread) \/ Told(e)'
    BY <2>1, <2>2, Consuming
  <2>4. at' = 4 => ~Detects(Head(unread))
    BY <2>1 DEF Triggers
  <2>5. (at = 4 /\ run \in seen => \E e : Told(e) /\ Detects(e))'
    <3>1. \A e : Detects(e)' <=> Detects(e)
      BY DEF Detects
    <3> QED BY <2>1, <2>2, <2>3, <2>4, <3>1 DEF SeenInv
  <2>6. at' \in {4, 5}
    BY <2>1
  <2> QED BY <1>0, <2>1, <2>2, <2>5, <2>6 DEF SeenInv
<1>6. CASE Await
  <2>1. at = 5 /\ UNCHANGED <<at, run, seen, live, tailing>>
    BY <1>p, <1>6, Places DEF Await, Reading, Consume, story, cluster
  <2> QED BY <1>0, <2>1 DEF SeenInv
<1>7. CASE Arrived
  BY <1>4, <1>7 DEF Arrived, cluster
<1>8. CASE TimesOut
  BY <1>4, <1>8 DEF TimesOut, cluster
<1>10. CASE Errors
  <2>1. PICK o : Report(o, FALSE)
    BY <1>p, <1>10, Failing
  <2>2. live'[Target].edit \in {live[Target].edit, run}
    BY <1>p, <1>10, Failing, Editing DEF cluster
  <2> QED BY <1>4, <2>1, <2>2
<1>9. CASE Push \/ Kill \/ PollLive \/ Verify
  BY <1>p, <1>9, Places, Numbers DEF Push, Kill, PollLive, Verify
<1> QED BY <1>1, <1>2, <1>3, <1>4, <1>5, <1>6, <1>7, <1>8, <1>9, <1>10
        DEF TrialStep

LEMMA SeenStep ==
  ASSUME OutageInv, Types, CycleInv, SeenInv, [Next]_vars
  PROVE  SeenInv'
<1>1. ASSUME UNCHANGED <<kind, run, at, tracked, seen, tailing, unread>>,
             live'[Target].edit = live[Target].edit
      PROVE  SeenInv'
  BY <1>1, SameTold, SeenFrame
<1>2. ASSUME NEW s \in Services, Meddle(s), UNCHANGED <<flags, trial, restores, row>>
      PROVE  SeenInv'
  <2>1. live'[Target].edit = live[Target].edit
    BY <1>2, BenchAssumption DEF Meddle, Types
  <2> QED BY <1>1, <1>2, <2>1 DEF Meddle, flags, trial, file, story
<1>3. ASSUME NEW r \in timers, TimerFires(r) PROVE SeenInv'
  BY <1>1, <1>3 DEF TimerFires, cluster, file, story, flags, trial
<1>4. CASE Done \/ UNCHANGED vars
  BY <1>1, <1>4 DEF Done, vars, benchVars, cluster, file, story, flags, trial
<1> QED BY <1>2, <1>3, <1>4, SeenBench, SeenTrial DEF Next

-----------------------------------------------------------------------------
(* What a trial that found Target as wanted is told. *)

\* A step that tells it nothing new.
LEMMA DriftFrame ==
  ASSUME DriftInv, OutageInv,
         UNCHANGED <<kind, clean, run, head, round>>, live'[Target] = live[Target],
         seen \subseteq seen', at' \in Nat, at' >= at,
         at' = 5 => at = 5 \/ run \in seen,
         tracked' <= round, \A e : Told(e)' => Told(e),
         \A r : Applied(r)' => Applied(r),
         Target \notin todo => Target \notin todo',
         cpc' \in {"gate", "apply", "await"} =>
           cpc \in {"gate", "apply", "await"} /\ awaited \subseteq awaited'
  PROVE  DriftInv'
<1>1. SUFFICES ASSUME kind = "drift", clean PROVE DriftInv'
  BY DEF DriftInv
<1>0. at \in Nat
  BY DEF OutageInv, Place
<1>2. AsWanted(head)' <=> AsWanted(head)
  BY DEF AsWanted, Want
<1>3. \A e : Detects(e)' <=> Detects(e)
  BY DEF Detects
<1>4. (AsWanted(head) \/ (at > 3 /\ live[Target].edit = run))'
  BY <1>0, <1>1, <1>2 DEF DriftInv
<1>5. (\A e : Told(e) /\ Detects(e) => run \in seen)'
  BY <1>1, <1>3 DEF DriftInv
<1>6. (at = 5 => run \in seen)'
  BY <1>1 DEF DriftInv
<1>7. (at <= 3 => Target \notin todo /\ \A r : ~Applied(r))'
  <2>1. at' <= 3 => at <= 3
    BY <1>0
  <2> QED BY <1>1, <2>1 DEF DriftInv
<1>8. (tracked <= round /\ \A e : Told(e) => e.round <= round)'
  BY <1>1 DEF DriftInv
<1>9. \A e : Told(e)' /\ e.stage = "converged" /\ Applied(e.round)'
        => live[Target].edit # run
  BY <1>1 DEF DriftInv
<1>10. (\A e : Told(e) /\ e.stage = "converged" /\ Applied(e.round)
        => live[Target].edit # run)'
  BY <1>9
<1>11. (cpc \in {"gate", "apply", "await"} =>
           /\ \A e : Told(e) /\ e.stage = "converged" => e.round < round
           /\ Applied(round) => Target \in awaited)'
  <2>1. SUFFICES ASSUME cpc' \in {"gate", "apply", "await"}
                 PROVE  /\ \A e : Told(e)' /\ e.stage = "converged" => e.round < round
                        /\ Applied(round)' => Target \in awaited'
    OBVIOUS
  <2>2. /\ \A e : Told(e) /\ e.stage = "converged" => e.round < round
        /\ Applied(round) => Target \in awaited
    BY <1>1, <2>1 DEF DriftInv
  <2>3. Applied(round)' => Applied(round)
    OBVIOUS
  <2> QED BY <2>1, <2>2, <2>3
<1> QED BY <1>4, <1>5, <1>6, <1>7, <1>8, <1>10, <1>11 DEF DriftInv

\* What a step tells of Target's apply.
LEMMA SameApplied ==
  ASSUME UNCHANGED tracked
  PROVE  /\ (\A e : Told(e)' => Told(e)) => \A r : Applied(r)' => Applied(r)
         /\ \A r : Applied(r)' =>
              \/ Applied(r)
              \/ \E e : /\ Told(e)' /\ ~Told(e)
                        /\ e.stage = "apply" /\ e.svc = Target /\ e.round = r
BY DEF Applied

\* A cycle looks at the cluster: what it finds of Target is the mutation.
LEMMA DriftObserve ==
  ASSUME OutageInv, Types, CycleInv, DriftInv, Observe,
         UNCHANGED <<flags, trial, restores, row>>
  PROVE  DriftInv'
<1>0. UNCHANGED <<kind, run, at, tracked, clean>>
  BY DEF flags, trial
<1> SUFFICES ASSUME kind = "drift", clean PROVE DriftInv'
  BY <1>0 DEF DriftInv
<1>1. /\ UNCHANGED <<live, head>> /\ cpc = "observe"
      /\ seen' = IF same THEN seen \cup {live[Target].edit} ELSE seen
      /\ \/ cpc' = "idle" /\ todo' = {}
         \/ cpc' = "gate" /\ todo' = Different /\ Different # {}
  BY DEF Observe, cluster, EndCycle, Different
<1>2. /\ round' = IF Different = {} THEN round ELSE round + 1
      /\ \A e : Told(e)' =>
              \/ Told(e)
              \/ e = Event("diff", Target, round')
              \/ same /\ \E s \in Different : e = Event("drift", s, round')
  BY Observing
<1>3. /\ round \in Nat /\ at \in Nat /\ run \in Nat \ {0} /\ Target \in Services
      /\ commit = 1 /\ head = 1 /\ tracked \in Nat
  BY <1>1, BenchAssumption DEF Types, OutageInv, Place, CycleInv
<1>4. Target \in Different => at > 3 /\ live[Target].edit = run
  BY <1>3 DEF DriftInv, AsWanted, Different
<1>5. \A e : Detects(e)' <=> Detects(e)
  BY DEF Detects
<1>6. \A e : Told(e)' /\ ~Told(e) =>
        /\ e.stage \in {"diff", "drift"} /\ e.round = round'
        /\ Detects(e) => same /\ Target \in Different
  BY <1>2 DEF Event, Detects
<1>7. \A r : Applied(r)' => Applied(r)
  <2>1. \A e : Told(e)' /\ ~Told(e) => e.stage # "apply"
    BY <1>6
  <2> QED BY <1>0, <2>1, SameApplied
<1>8. round' \in Nat /\ round <= round'
  BY <1>2, <1>3
<1>a. (AsWanted(head) \/ (at > 3 /\ live[Target].edit = run))'
  BY <1>0, <1>1 DEF DriftInv, AsWanted, Want
<1>b. (\A e : Told(e) /\ Detects(e) => run \in seen)'
  <2>1. ASSUME NEW e, Told(e)', Detects(e) PROVE run \in seen'
    <3>1. CASE Told(e)
      BY <1>1, <2>1, <3>1 DEF DriftInv
    <3>2. CASE ~Told(e)
      <4>1. same /\ live[Target].edit = run
        BY <1>4, <1>6, <2>1, <3>2
      <4> QED BY <1>1, <4>1
    <3> QED BY <3>1, <3>2
  <2> QED BY <1>0, <1>5, <2>1
<1>c. (at = 5 => run \in seen)'
  BY <1>0, <1>1 DEF DriftInv
<1>d. (at <= 3 => Target \notin todo /\ \A r : ~Applied(r))'
  <2>1. at <= 3 => Target \notin Different
    BY <1>3, <1>4
  <2> QED BY <1>0, <1>1, <1>7, <2>1 DEF DriftInv
<1>e. (tracked <= round /\ \A e : Told(e) => e.round <= round)'
  <2>1. ASSUME NEW e, Told(e)' PROVE e.round <= round'
    <3>1. CASE Told(e)
      <4>1. e \in Evt
        BY <3>1, HasFacts DEF Types, Told
      <4>2. e.round \in Nat /\ e.round <= round
        BY <3>1, <4>1 DEF DriftInv, Evt
      <4> QED BY <1>3, <1>8, <4>2
    <3>2. CASE ~Told(e)
      BY <1>6, <1>8, <2>1, <3>2
    <3> QED BY <3>1, <3>2
  <2>2. tracked <= round
    BY DEF DriftInv
  <2>3. tracked' <= round'
    BY <1>0, <1>3, <1>8, <2>2
  <2> QED BY <2>1, <2>3
<1>f. (cpc \in {"gate", "apply", "await"} =>
           /\ \A e : Told(e) /\ e.stage = "converged" => e.round < round
           /\ Applied(round) => Target \in awaited)'
  <2>1. SUFFICES ASSUME cpc' = "gate"
                 PROVE  /\ \A e : Told(e)' /\ e.stage = "converged" => e.round < round'
                        /\ ~Applied(round)'
    BY <1>1
  <2>2. round' = round + 1
    BY <1>1, <1>2, <2>1
  <2>3. ASSUME NEW e, Told(e) PROVE e.round < round' /\ e.round \in Nat
    <3>1. e \in Evt
      BY <2>3, HasFacts DEF Types, Told
    <3>2. e.round \in Nat /\ e.round <= round
      BY <2>3, <3>1 DEF DriftInv, Evt
    <3> QED BY <1>3, <2>2, <3>2
  <2>4. \A e : Told(e)' /\ e.stage = "converged" => e.round < round'
    BY <1>6, <2>3
  <2>5. ASSUME NEW r, r = round' PROVE ~Applied(r)
    <3>1. ~(\E e : Told(e) /\ e.stage = "apply" /\ e.svc = Target /\ e.round = r)
      BY <1>8, <2>3, <2>5
    <3>2. tracked <= round
      BY DEF DriftInv
    <3>3. tracked # r
      BY <1>3, <2>2, <2>5, <3>2
    <3> QED BY <3>1, <3>3 DEF Applied
  <2>6. ~Applied(round)'
    <3>1. \A r : r = round' => ~Applied(r)'
      BY <1>7, <2>5
    <3> QED BY <3>1
  <2> QED BY <2>4, <2>6
<1>g. (\A e : Told(e) /\ e.stage = "converged" /\ Applied(e.round)
           => live[Target].edit # run)'
  <2>1. \A e : Told(e)' /\ e.stage = "converged" => Told(e)
    BY <1>6
  <2>2. \A e : Told(e)' /\ e.stage = "converged" /\ Applied(e.round)'
           => live[Target].edit # run
    BY <1>7, <2>1 DEF DriftInv
  <2> QED BY <1>0, <1>1, <2>2
<1> QED BY <1>a, <1>b, <1>c, <1>d, <1>e, <1>f, <1>g DEF DriftInv

\* A service is applied: the cycle has told of it only when it is as wanted.
LEMMA DriftApply ==
  ASSUME OutageInv, Types, CycleInv, DriftInv,
         NEW s \in Services, NEW ok \in BOOLEAN, NEW done \in BOOLEAN,
         Apply(s, ok, done),
         UNCHANGED <<flags, trial, restores, row>>
  PROVE  DriftInv'
<1>0. UNCHANGED <<kind, run, at, tracked, clean>>
  BY DEF flags, trial
<1> SUFFICES ASSUME kind = "drift", clean PROVE DriftInv'
  BY <1>0 DEF DriftInv
<1>1. /\ cpc = "apply" /\ s \in todo /\ UNCHANGED <<head, round, seen>>
      /\ live' = IF done THEN [live EXCEPT ![s] = Want(commit)[s]] ELSE live
      /\ Emit(<<Event("apply", s, round)>>)
      /\ todo' \subseteq todo
      /\ cpc' = "idle" \/ awaited' = awaited \cup {s}
  BY DEF Apply, story, EndCycle
<1>2. /\ round \in Nat /\ at \in Nat /\ run \in Nat \ {0} /\ Target \in Services
      /\ commit = 1 /\ head = 1
  BY <1>1, BenchAssumption DEF Types, OutageInv, Place, CycleInv
<1>3. Event("apply", s, round) \in Evt
  BY DEF Event, Evt, Types
<1>4. \A e : Told(e)' => Told(e) \/ e = Event("apply", s, round)
  BY <1>1, <1>3, EmittingOne DEF Types
<1>5. \A e : Told(e)' /\ ~Told(e) => e.stage = "apply" /\ e.svc = s /\ e.round = round
  BY <1>4 DEF Event
<1>6. \A r : Applied(r)' => Applied(r) \/ (r = round /\ s = Target)
  BY <1>0, <1>5, SameApplied
<1>7. live'[Target] = live[Target] \/ live'[Target] = Want(commit)[Target]
  BY <1>1, <1>2 DEF Types
<1>8. \A e : Detects(e)' <=> Detects(e)
  BY DEF Detects
<1>9. /\ \A e : Told(e) /\ e.stage = "converged" => e.round < round
      /\ Applied(round) => Target \in awaited
  BY <1>1 DEF DriftInv
<1>a. (AsWanted(head) \/ (at > 3 /\ live[Target].edit = run))'
  BY <1>0, <1>1, <1>2, <1>7 DEF DriftInv, AsWanted, Want
<1>b. (\A e : Told(e) /\ Detects(e) => run \in seen)'
  <2>1. \A e : Told(e)' /\ Detects(e) => Told(e)
    BY <1>5 DEF Detects
  <2> QED BY <1>0, <1>1, <1>8, <2>1 DEF DriftInv
<1>c. (at = 5 => run \in seen)'
  BY <1>0, <1>1 DEF DriftInv
<1>d. (at <= 3 => Target \notin todo /\ \A r : ~Applied(r))'
  BY <1>0, <1>1, <1>6 DEF DriftInv
<1>e. (tracked <= round /\ \A e : Told(e) => e.round <= round)'
  <2>1. \A e : Told(e)' => e.round <= round
    BY <1>2, <1>5 DEF DriftInv
  <2> QED BY <1>0, <1>1, <2>1 DEF DriftInv
<1>f. (cpc \in {"gate", "apply", "await"} =>
           /\ \A e : Told(e) /\ e.stage = "converged" => e.round < round
           /\ Applied(round) => Target \in awaited)'
  <2>1. \A e : Told(e)' /\ e.stage = "converged" => e.round < round
    BY <1>5, <1>9
  <2>2. cpc' # "idle" => (Applied(round)' => Target \in awaited')
    <3>1. Applied(round)' => Applied(round) \/ s = Target
      BY <1>1, <1>6
    <3> QED BY <1>1, <1>9, <3>1
  <2> QED BY <1>1, <2>1, <2>2
<1>g. (\A e : Told(e) /\ e.stage = "converged" /\ Applied(e.round)
           => live[Target].edit # run)'
  <2>1. ASSUME NEW e, Told(e)', e.stage = "converged", Applied(e.round)'
        PROVE  live'[Target].edit # run
    <3>1. Told(e) /\ e.round < round /\ e \in Evt
      BY <1>5, <1>9, <2>1, HasFacts DEF Types, Told
    <3>2. e.round # round
      BY <1>2, <3>1 DEF Evt
    <3>3. Applied(e.round)
      BY <1>6, <2>1, <3>2
    <3>4. live[Target].edit # run
      BY <2>1, <3>1, <3>3 DEF DriftInv
    <3>5. Want(commit)[Target].edit = 0
      BY <1>2, WantTypes
    <3> QED BY <1>2, <1>7, <3>4, <3>5
  <2> QED BY <1>0, <2>1
<1> QED BY <1>a, <1>b, <1>c, <1>d, <1>e, <1>f, <1>g DEF DriftInv

\* Convergence is told of a cycle that left Target alone, or left it as wanted.
LEMMA DriftConverge ==
  ASSUME OutageInv, Types, CycleInv, DriftInv, Converge,
         UNCHANGED <<flags, trial, restores, row>>
  PROVE  DriftInv'
<1>0. UNCHANGED <<kind, run, at, tracked, clean>>
  BY DEF flags, trial
<1> SUFFICES ASSUME kind = "drift", clean PROVE DriftInv'
  BY <1>0 DEF DriftInv
<1>1. /\ cpc = "await" /\ cpc' = "idle" /\ todo' = {}
      /\ UNCHANGED <<head, live, round, seen>>
      /\ Emit(<<Event("converged", Target, round)>>)
      /\ \A x \in awaited : live[x] = Want(commit)[x]
  BY DEF Converge, cluster, EndCycle
<1>2. /\ round \in Nat /\ run \in Nat \ {0} /\ Target \in Services /\ commit \in Nat
  BY BenchAssumption DEF Types, OutageInv, Place
<1>3. Event("converged", Target, round) \in Evt
  BY <1>2 DEF Event, Evt
<1>4. \A e : Told(e)' => Told(e) \/ e = Event("converged", Target, round)
  BY <1>1, <1>3, EmittingOne DEF Types
<1>5. \A e : Told(e)' /\ ~Told(e) => e.stage = "converged" /\ e.round = round
  BY <1>4 DEF Event
<1>6. \A r : Applied(r)' => Applied(r)
  <2>1. \A e : Told(e)' /\ ~Told(e) => e.stage # "apply"
    BY <1>5
  <2> QED BY <1>0, <2>1, SameApplied
<1>7. \A e : Detects(e)' <=> Detects(e)
  BY DEF Detects
<1>a. (AsWanted(head) \/ (at > 3 /\ live[Target].edit = run))'
  BY <1>0, <1>1 DEF DriftInv, AsWanted, Want
<1>b. (\A e : Told(e) /\ Detects(e) => run \in seen)'
  <2>1. \A e : Told(e)' /\ Detects(e) => Told(e)
    BY <1>5 DEF Detects
  <2> QED BY <1>0, <1>1, <1>7, <2>1 DEF DriftInv
<1>c. (at = 5 => run \in seen)'
  BY <1>0, <1>1 DEF DriftInv
<1>d. (at <= 3 => Target \notin todo /\ \A r : ~Applied(r))'
  BY <1>0, <1>1, <1>6 DEF DriftInv
<1>e. (tracked <= round /\ \A e : Told(e) => e.round <= round)'
  <2>1. \A e : Told(e)' => e.round <= round
    BY <1>2, <1>5 DEF DriftInv
  <2> QED BY <1>0, <1>1, <2>1 DEF DriftInv
<1>f. cpc' \notin {"gate", "apply", "await"}
  BY <1>1
<1>g. (\A e : Told(e) /\ e.stage = "converged" /\ Applied(e.round)
           => live[Target].edit # run)'
  <2>1. ASSUME NEW e, Told(e)', e.stage = "converged", Applied(e.round)'
        PROVE  live[Target].edit # run
    <3>1. Applied(e.round)
      BY <1>6, <2>1
    <3>2. CASE Told(e)
      BY <2>1, <3>1, <3>2 DEF DriftInv
    <3>3. CASE ~Told(e)
      <4>1. Applied(round)
        BY <1>5, <2>1, <3>1, <3>3
      <4>2. Target \in awaited
        BY <1>1, <4>1 DEF DriftInv
      <4>3. live[Target] = Want(commit)[Target]
        BY <1>1, <4>2
      <4> QED BY <1>2, <4>3, WantTypes
    <3> QED BY <3>2, <3>3
  <2> QED BY <1>0, <1>1, <2>1
<1> QED BY <1>a, <1>b, <1>c, <1>d, <1>e, <1>f, <1>g DEF DriftInv

\* Steps that tell the trial nothing and leave Target alone.
LEMMA DriftQuiet ==
  ASSUME DriftInv, OutageInv,
         UNCHANGED <<kind, clean, run, head, round, at, tracked, seen, unread>>,
         live'[Target] = live[Target],
         Target \notin todo => Target \notin todo',
         cpc' \in {"gate", "apply", "await"} =>
           cpc \in {"gate", "apply", "await"} /\ awaited \subseteq awaited'
  PROVE  DriftInv'
<1>1. CASE kind = "drift" /\ clean
  <2>1. tracked <= round
    BY <1>1 DEF DriftInv
  <2>2. at \in Nat /\ at >= at
    BY DEF OutageInv, Place
  <2>3. \A e : Told(e)' <=> Told(e)
    BY SameTold
  <2>4. \A r : Applied(r)' => Applied(r)
    BY <2>3, SameApplied
  <2> QED BY <2>1, <2>2, <2>3, <2>4, DriftFrame
<1>2. CASE ~(kind = "drift" /\ clean)
  BY <1>2 DEF DriftInv
<1> QED BY <1>1, <1>2

LEMMA DriftBench ==
  ASSUME OutageInv, Types, CycleInv, DriftInv, BenchNext,
         UNCHANGED <<flags, trial, restores, row>>
  PROVE  DriftInv'
<1>0. UNCHANGED <<kind, clean, run, at, tracked>>
  BY DEF flags, trial
<1>1. CASE Poll
  BY <1>0, <1>1, DriftQuiet DEF Poll, cluster, file, story
<1>2. CASE Fail
  BY <1>0, <1>2, DriftQuiet DEF Fail, EndCycle, cluster, file, story
<1>3. ASSUME NEW pass \in SUBSET Services, Gate(pass) PROVE DriftInv'
  <2>1. /\ UNCHANGED <<head, round, live, unread, seen>>
        /\ Target \notin todo => Target \notin todo'
        /\ cpc = "gate" /\ (cpc' = "idle" \/ UNCHANGED awaited)
    BY <1>3 DEF Gate, EndCycle, cluster, file
  <2> QED BY <1>0, <2>1, DriftQuiet
<1> QED BY <1>1, <1>2, <1>3, DriftObserve, DriftApply, DriftConverge DEF BenchNext

LEMMA DriftTrial ==
  ASSUME OutageInv, Types, CycleInv, SeenInv, DriftInv, TrialStep
  PROVE  DriftInv'
<1>0. UNCHANGED kind
  BY FlagsKept DEF Next, flags
<1> SUFFICES ASSUME kind = "drift" PROVE DriftInv'
  BY <1>0 DEF DriftInv
<1>p. /\ Place /\ run \in Nat \ {0} /\ at \in Nat /\ readout # "poll"
      /\ Target \in Services
  BY BenchAssumption DEF OutageInv, Place
<1>1. CASE Open
  <2>0. /\ unread' = <<>> /\ UNCHANGED <<run, tracked, seen, live, head, round, todo, cpc>>
    BY <1>1 DEF Open, story, cluster, cycle
  <2>c. clean' => live = Want(head) /\ cpc \in {"idle", "observe"}
    BY <1>1, Zenon DEF Open
  <2>1. /\ at = 1 /\ at' = 2 /\ unread' = <<>>
        /\ clean' => live = Want(head) /\ cpc \in {"idle", "observe"}
        /\ UNCHANGED <<run, tracked, seen, live, head, round, todo, cpc>>
    BY <1>p, <1>1, <2>0, <2>c, Places DEF Open, Next1
  <2> SUFFICES ASSUME clean' PROVE DriftInv'
    BY DEF DriftInv
  <2>2. tracked = 0 /\ round \in Nat
    BY <2>1 DEF SeenInv, Types
  <2>3. \A e : ~Told(e)'
    BY <2>1 DEF Told, Has
  <2>4. \A r : ~Applied(r)'
    BY <2>1, <2>2, <2>3 DEF Applied
  <2>5. AsWanted(head)'
    BY <2>1 DEF AsWanted, Want
  <2>6. todo' = {} /\ cpc' \notin {"gate", "apply", "await"}
    BY <2>1 DEF CycleInv
  <2>7. tracked' <= round'
    BY <2>1, <2>2
  <2> QED BY <2>1, <2>3, <2>4, <2>5, <2>6, <2>7 DEF DriftInv
<1>2. CASE Inspect
  <2>1. /\ at = 2 /\ at' = 3
        /\ UNCHANGED <<clean, run, tracked, seen, live, unread, head, round, todo,
                       cpc, awaited>>
    BY <1>p, <1>2, Places DEF Inspect, Next1, benchVars, story, cluster, file, cycle
  <2> SUFFICES ASSUME clean PROVE DriftInv'
    BY <2>1 DEF DriftInv
  <2>2. tracked <= round
    BY DEF DriftInv
  <2>3. \A e : Told(e)' <=> Told(e)
    BY <2>1, SameTold
  <2>4. \A r : Applied(r)' => Applied(r)
    BY <2>1, <2>3, SameApplied
  <2>5. at' \in Nat /\ at' >= at /\ at' # 5
    BY <2>1
  <2> QED BY <1>0, <2>1, <2>2, <2>3, <2>4, <2>5, DriftFrame
<1>3. CASE Update
  <2>1. /\ at = 3 /\ at' = 4
        /\ UNCHANGED <<clean, run, tracked, seen, unread, head, round, todo, cpc,
                       awaited>>
    BY <1>p, <1>3, Numbers DEF Update, Edited, Next1, story, file, cycle
  <2> SUFFICES ASSUME clean PROVE DriftInv'
    BY <2>1 DEF DriftInv
  <2>2. live'[Target].edit = run
    BY <1>p, <1>3, Editing DEF Update
  <2>3. \A e : Told(e)' <=> Told(e)
    BY <2>1, SameTold
  <2>4. \A r : Applied(r)' => Applied(r)
    BY <2>1, <2>3, SameApplied
  <2>5. \A r : ~Applied(r)'
    BY <2>1, <2>4 DEF DriftInv
  <2>6. \A e : Detects(e)' <=> Detects(e)
    BY DEF Detects
  <2>b. (\A e : Told(e) /\ Detects(e) => run \in seen)'
    BY <2>1, <2>3, <2>6 DEF DriftInv
  <2>e. (tracked <= round /\ \A e : Told(e) => e.round <= round)'
    BY <2>1, <2>3 DEF DriftInv
  <2>f. (cpc \in {"gate", "apply", "await"} =>
           /\ \A e : Told(e) /\ e.stage = "converged" => e.round < round
           /\ Applied(round) => Target \in awaited)'
    <3>1. cpc' \in {"gate", "apply", "await"} =>
            \A e : Told(e)' /\ e.stage = "converged" => e.round < round'
      BY <2>1, <2>3 DEF DriftInv
    <3>2. ~Applied(round)'
      BY <2>5
    <3> QED BY <3>1, <3>2
  <2> QED BY <2>1, <2>2, <2>5, <2>b, <2>e, <2>f DEF DriftInv
<1>4. ASSUME NEW o, NEW f, Report(o, f) PROVE DriftInv'
  BY <1>4 DEF Report, DriftInv
\* An event is read.
<1>5. ASSUME unread # <<>>, Consume,
             at' = at \/ (at = 4 /\ at' = 5 /\ Detects(Head(unread))),
             \/ tracked' = tracked
             \/ /\ Head(unread).stage = "apply" /\ Head(unread).svc = Target
                /\ tracked' = Head(unread).round
      PROVE  DriftInv'
  <2>1. /\ UNCHANGED <<clean, run, seen, live, head, round, todo, cpc, awaited>>
        /\ unread' = Tail(unread)
    BY <1>5 DEF Consume, story, cluster, cycle
  <2> SUFFICES ASSUME clean PROVE DriftInv'
    BY <2>1 DEF DriftInv
  <2>2. Told(Head(unread)) /\ \A e : Told(e)' => Told(e)
    BY <1>5, <2>1, Consuming
  <2>3. tracked' <= round
    BY <1>5, <2>2 DEF DriftInv
  <2>4. \A r : Applied(r)' => Applied(r)
    <3>1. ASSUME NEW r, Applied(r)' PROVE Applied(r)
      <4>1. CASE \E e : Told(e)' /\ e.stage = "apply" /\ e.svc = Target /\ e.round = r
        BY <2>2, <4>1 DEF Applied
      <4>2. CASE tracked' # 0 /\ tracked' = r
        BY <1>5, <2>2, <4>2 DEF Applied
      <4> QED BY <3>1, <4>1, <4>2 DEF Applied
    <3> QED BY <3>1
  <2>5. at' = 5 => at = 5 \/ run \in seen
    BY <1>5, <2>2 DEF DriftInv
  <2>6. at' \in Nat /\ at' >= at
    BY <1>p, <1>5
  <2> QED BY <1>0, <2>1, <2>2, <2>3, <2>4, <2>5, <2>6, DriftFrame
<1>6. CASE Trigger
  <2>1. /\ at = 4 /\ Consume /\ unread # <<>> /\ UNCHANGED tracked
        /\ IF Triggers(Head(unread)) THEN at' = 5 ELSE UNCHANGED at
    BY <1>p, <1>6, Places DEF Trigger, Reading, Next1
  <2>2. Triggers(Head(unread)) => Detects(Head(unread))
    BY DEF Triggers
  <2> QED BY <1>5, <2>1, <2>2
<1>7. CASE Await
  <2>1. /\ unread # <<>> /\ Consume /\ at' = at
        /\ \/ tracked' = tracked
           \/ /\ Head(unread).stage = "apply" /\ Head(unread).svc = Target
              /\ tracked' = Head(unread).round
    BY <1>7 DEF Await, Reading
  <2> QED BY <1>5, <2>1
<1>8. CASE Arrived
  BY <1>4, <1>8 DEF Arrived
<1>9. CASE TimesOut
  BY <1>4, <1>9 DEF TimesOut
<1>10. CASE Push \/ Kill \/ PollLive \/ Verify
  BY <1>p, <1>10, Places, Numbers DEF Push, Kill, PollLive, Verify
<1> QED BY <1>1, <1>2, <1>3, <1>4, <1>6, <1>7, <1>8, <1>9, <1>10 DEF TrialStep, Errors

LEMMA DriftStep ==
  ASSUME OutageInv, Types, CycleInv, SeenInv, DriftInv, [Next]_vars
  PROVE  DriftInv'
<1>1. ASSUME NEW s \in Services, Meddle(s), UNCHANGED <<flags, trial, restores, row>>
      PROVE  DriftInv'
  <2>1. live'[Target] = live[Target]
    BY <1>1, BenchAssumption DEF Meddle, Types
  <2> QED BY <1>1, <2>1, DriftQuiet DEF Meddle, flags, trial, file, story, cycle
<1>2. ASSUME NEW r \in timers, TimerFires(r) PROVE DriftInv'
  BY <1>2, DriftQuiet DEF TimerFires, cluster, file, story, flags, trial, cycle
<1>3. CASE Done \/ UNCHANGED vars
  BY <1>3, DriftQuiet
     DEF Done, vars, benchVars, cluster, file, story, flags, trial, cycle
<1> QED BY <1>1, <1>2, <1>3, DriftBench, DriftTrial DEF Next

-----------------------------------------------------------------------------
(* Convergence of what a trial pushed. *)

\* A step that leaves the cycle, Target and the history alone.
LEMMA PushFrame ==
  ASSUME PushInv,
         UNCHANGED <<kind, head, commit, cpc, todo, awaited, deployed, rejected>>,
         live'[Target] = live[Target], UNCHANGED <<at, fired, converged, readout, sha>>,
         \A e : Told(e)' => Told(e)
  PROVE  PushInv'
<1>1. \A c : AsWanted(c)' <=> AsWanted(c)
  BY DEF AsWanted, Want
<1>2. AsWanted(head)' <=> AsWanted(head)
  BY <1>1
<1>3. AsWanted(commit)' <=> AsWanted(commit)
  BY <1>1
<1>4. FaultInv => FaultInv'
  BY DEF FaultInv
<1> QED BY <1>2, <1>3, <1>4 DEF PushInv

LEMMA PushBench ==
  ASSUME OutageInv, Types, CycleInv, PushInv, BenchNext,
         UNCHANGED <<flags, trial, restores, row>>
  PROVE  PushInv'
<1>0. UNCHANGED <<kind, readout, run, at, sha, fired, converged>>
  BY DEF flags, trial
<1> SUFFICES ASSUME kind \in {"scale", "fault"} PROVE PushInv'
  BY <1>0 DEF PushInv
<1>p. Target \in Services /\ head \in Nat \ {0} /\ commit \in Nat
  BY BenchAssumption DEF Types
<1>t. ASSUME deployed \subseteq deployed', rejected \subseteq rejected'
      PROVE  FaultInv'
  <2>1. FaultInv
    BY DEF PushInv
  <2> QED BY <1>0, <1>t, <2>1 DEF FaultInv
\* A cycle ends, or no cycle has begun.
<1>e. ASSUME UNCHANGED <<live, head, deployed, rejected>>,
             cpc' \in {"idle", "observe"}, commit' \in {0, head},
             \A e : Told(e)' /\ e.stage = "converged" => Told(e)
      PROVE  PushInv'
  <2>1. AsWanted(head)' <=> AsWanted(head)
    BY <1>e DEF AsWanted, Want
  <2>2. FaultInv'
    BY <1>e, <1>t
  <2> QED BY <1>0, <1>e, <2>1, <2>2 DEF PushInv
<1>1. CASE Poll
  <2>1. \A e : Told(e)' <=> Told(e)
    BY <1>1, SameTold DEF Poll, file
  <2> QED BY <1>1, <1>e, <2>1 DEF Poll, cluster, story
<1>2. CASE Observe
  <2>1. /\ UNCHANGED <<live, head, deployed, rejected>> /\ cpc = "observe"
        /\ \/ cpc' = "idle" /\ commit' = 0
           \/ cpc' = "gate" /\ todo' = Different /\ UNCHANGED <<commit, awaited>>
    BY <1>2 DEF Observe, cluster, EndCycle, Different
  <2>2. \A e : Told(e)' =>
              \/ Told(e)
              \/ e = Event("diff", Target, round')
              \/ same /\ \E s \in Different : e = Event("drift", s, round')
    BY <1>2, Observing
  <2>3. \A e : Told(e)' /\ e.stage = "converged" => Told(e)
    BY <2>2 DEF Event
  <2>4. CASE cpc' = "idle" /\ commit' = 0
    BY <1>e, <2>1, <2>3, <2>4
  <2>5. CASE cpc' = "gate" /\ todo' = Different /\ UNCHANGED <<commit, awaited>>
    <3>1. AsWanted(head)' <=> AsWanted(head)
      BY <2>1 DEF AsWanted, Want
    <3>2. FaultInv'
      BY <1>t, <2>1
    <3>3. Target \in todo' \/ AsWanted(commit)'
      BY <1>p, <2>1, <2>5 DEF AsWanted, Different, Want
    <3> QED BY <1>0, <2>1, <2>3, <2>5, <3>1, <3>2, <3>3 DEF PushInv
  <2> QED BY <2>1, <2>4, <2>5
<1>3. ASSUME NEW pass \in SUBSET Services, Gate(pass) PROVE PushInv'
  <2>1. /\ UNCHANGED <<live, head, unread, deployed>> /\ cpc = "gate"
        /\ \/ cpc' = "idle" /\ commit' = 0
           \/ cpc' = "apply" /\ todo' = pass /\ UNCHANGED <<commit, awaited>>
        /\ rejected' = IF Target \in todo \ pass THEN rejected \cup {commit} ELSE rejected
    BY <1>3 DEF Gate, cluster, EndCycle, file
  <2>2. \A e : Told(e)' <=> Told(e)
    BY <2>1, SameTold
  <2>3. AsWanted(head)' <=> AsWanted(head)
    BY <2>1 DEF AsWanted, Want
  <2>4. FaultInv'
    BY <1>t, <2>1
  <2>5. rejected \subseteq rejected'
    BY <2>1
  <2>6. cpc' = "apply" =>
          Target \in todo' \cup awaited' \/ AsWanted(commit)' \/ commit' \in rejected'
    <3>1. SUFFICES ASSUME cpc' = "apply", Target \notin pass
                   PROVE  AsWanted(commit)' \/ commit' \in rejected'
      BY <2>1
    <3>2. CASE Target \in todo
      BY <2>1, <3>1, <3>2
    <3>3. CASE Target \notin todo
      <4>1. AsWanted(commit)
        BY <2>1, <3>3 DEF PushInv
      <4> QED BY <2>1, <3>1, <4>1 DEF AsWanted, Want
    <3> QED BY <3>2, <3>3
  <2>7. head' \in deployed' => commit' \in {0, head'} /\ AsWanted(head)'
    BY <2>1, <2>3 DEF PushInv
  <2>8. (\A e : Told(e) /\ e.stage = "converged" => e.commit \in deployed \cup rejected)'
    BY <2>1, <2>2, <2>5 DEF PushInv
  <2>9. cpc' \in {"idle", "apply"}
    BY <2>1
  <2> QED BY <2>4, <2>6, <2>7, <2>8, <2>9 DEF PushInv
<1>4. ASSUME NEW s \in Services, NEW ok \in BOOLEAN, NEW done \in BOOLEAN,
             Apply(s, ok, done)
      PROVE  PushInv'
  <2>1. /\ cpc = "apply" /\ UNCHANGED <<head, deployed, rejected>>
        /\ live' = IF done THEN [live EXCEPT ![s] = Want(commit)[s]] ELSE live
        /\ Emit(<<Event("apply", s, round)>>)
        /\ \/ cpc' = "idle" /\ commit' = 0
           \/ /\ cpc' \in {"apply", "await"}
              /\ todo' = todo \ {s} /\ awaited' = awaited \cup {s}
              /\ UNCHANGED commit
    BY <1>4 DEF Apply, EndCycle, story
  <2>2. Event("apply", s, round) \in Evt
    BY DEF Event, Evt, Types
  <2>3. \A e : Told(e)' => Told(e) \/ e = Event("apply", s, round)
    BY <2>1, <2>2, EmittingOne DEF Types
  <2>4. \A e : Told(e)' /\ e.stage = "converged" => Told(e)
    BY <2>3 DEF Event
  <2>5. live'[Target] = live[Target] \/ live'[Target] = Want(commit)[Target]
    BY <1>p, <2>1 DEF Types
  <2>6. commit # 0
    BY <2>1 DEF CycleInv
  <2>7. head' \in deployed' => commit' \in {0, head'} /\ AsWanted(head)'
    BY <2>1, <2>5, <2>6 DEF PushInv, AsWanted, Want
  <2>8. cpc' \in {"apply", "await"} =>
          Target \in todo' \cup awaited' \/ AsWanted(commit)' \/ commit' \in rejected'
    <3>1. SUFFICES ASSUME cpc' \in {"apply", "await"}, Target \notin todo' \cup awaited'
                   PROVE  AsWanted(commit)' \/ commit' \in rejected'
      OBVIOUS
    <3>2. Target \notin todo \cup awaited /\ UNCHANGED commit
      BY <2>1, <3>1
    <3>3. AsWanted(commit) \/ commit \in rejected
      BY <2>1, <3>2 DEF PushInv
    <3> QED BY <2>1, <2>5, <3>2, <3>3 DEF AsWanted, Want
  <2>9. FaultInv'
    BY <1>t, <2>1
  <2>10. cpc' # "gate"
    BY <2>1
  <2> QED BY <2>1, <2>4, <2>7, <2>8, <2>9, <2>10 DEF PushInv
<1>5. CASE Converge
  <2>1. /\ cpc = "await" /\ cpc' = "idle" /\ commit' = 0
        /\ UNCHANGED <<head, live, rejected>>
        /\ \A x \in awaited : live[x] = Want(commit)[x]
        /\ Emit(<<Event("converged", Target, round)>>)
        /\ deployed' = IF live[Target] = Want(commit)[Target]
                       THEN deployed \cup {commit} ELSE deployed
    BY <1>5 DEF Converge, EndCycle, cluster
  <2>2. Event("converged", Target, round) \in Evt
    BY <1>p DEF Event, Evt, Types
  <2>3. \A e : Told(e)' => Told(e) \/ e = Event("converged", Target, round)
    BY <2>1, <2>2, EmittingOne DEF Types
  <2>4. Event("converged", Target, round).commit = commit
    BY DEF Event
  <2>5. AsWanted(commit) \/ commit \in rejected
    <3>1. todo = {}
      BY <2>1 DEF CycleInv
    <3>2. Target \in awaited => AsWanted(commit)
      BY <2>1 DEF AsWanted
    <3> QED BY <2>1, <3>1, <3>2 DEF PushInv
  <2>6. commit \in deployed' \cup rejected'
    BY <2>1, <2>5 DEF AsWanted
  <2>7. deployed \subseteq deployed'
    BY <2>1
  <2>8. (\A e : Told(e) /\ e.stage = "converged" => e.commit \in deployed \cup rejected)'
    BY <2>1, <2>3, <2>4, <2>6, <2>7 DEF PushInv
  <2>9. head' \in deployed' => commit' \in {0, head'} /\ AsWanted(head)'
    BY <2>1 DEF PushInv, AsWanted, Want
  <2>10. FaultInv'
    BY <1>t, <2>1, <2>7
  <2> QED BY <2>1, <2>8, <2>9, <2>10 DEF PushInv
<1>6. CASE Fail
  <2>1. \A e : Told(e)' <=> Told(e)
    BY <1>6, SameTold DEF Fail, file
  <2> QED BY <1>6, <1>e, <2>1 DEF Fail, EndCycle, cluster, story
<1> QED BY <1>1, <1>2, <1>3, <1>4, <1>5, <1>6 DEF BenchNext

LEMMA PushTrial ==
  ASSUME OutageInv, Types, CycleInv, PushInv, TrialStep
  PROVE  PushInv'
<1>0. UNCHANGED <<kind, readout>>
  BY FlagsKept DEF Next, flags
<1> SUFFICES ASSUME kind \in {"scale", "fault"} PROVE PushInv'
  BY <1>0 DEF PushInv
<1>p. /\ Place /\ at \in Nat /\ Target \in Services /\ head \in Nat \ {0}
      /\ run \in Nat
  BY BenchAssumption DEF Types, OutageInv, Place
\* What a step of the trial leaves alone.
<1>e. ASSUME UNCHANGED <<live, head, commit, cpc, todo, awaited, deployed, rejected>>,
             \A e : Told(e)' => Told(e), FaultInv'
      PROVE  PushInv'
  <2>1. /\ AsWanted(head)' <=> AsWanted(head)
        /\ AsWanted(commit)' <=> AsWanted(commit)
    BY <1>e DEF AsWanted, Want
  <2> QED BY <1>0, <1>e, <2>1 DEF PushInv
<1>1. CASE Open
  <2>1. /\ unread' = <<>> /\ at' = at + 1 /\ (kind = "fault" => at = 1)
        /\ UNCHANGED <<live, head, commit, cpc, todo, awaited, deployed, rejected,
                       fired, converged, sha>>
    BY <1>p, <1>1, Places DEF Open, Next1, story, cluster, cycle
  <2>2. \A e : ~Told(e)'
    BY <2>1 DEF Told, Has
  <2>3. FaultInv'
    BY <1>0, <2>1 DEF PushInv, FaultInv
  <2> QED BY <1>e, <2>1, <2>2, <2>3
\* The branch has a new last commit.
<1>n. ASSUME At("push"), head' = run + 1,
             UNCHANGED <<live, commit, cpc, todo, awaited, deployed, rejected>>,
             \A e : Told(e)' => Told(e), FaultInv'
      PROVE  PushInv'
  <2>1. head <= run
    BY <1>p, <1>n, Places DEF CycleInv, Before
  <2>2. head' \notin deployed'
    BY <1>p, <1>n, <2>1 DEF Types, CycleInv
  <2>3. AsWanted(commit)' <=> AsWanted(commit)
    BY <1>n DEF AsWanted, Want
  <2> QED BY <1>0, <1>n, <2>2, <2>3 DEF PushInv
<1>2. CASE Push
  <2>1. /\ At("push") /\ head' = run + 1 /\ at' = at + 1 /\ (kind = "fault" => at = 2)
        /\ UNCHANGED <<live, commit, cpc, todo, awaited, deployed, rejected,
                       fired, converged, unread>>
    BY <1>p, <1>2, Places DEF Push, Pushed, Next1, story, cluster, cycle, file
  <2>2. \A e : Told(e)' <=> Told(e)
    BY <2>1, SameTold
  <2>3. FaultInv'
    BY <1>0, <2>1 DEF PushInv, FaultInv
  <2> QED BY <1>n, <2>1, <2>2, <2>3
\* An event is read.
<1>3. ASSUME unread # <<>>, Consume, FaultInv' PROVE PushInv'
  <2>1. /\ UNCHANGED <<live, head, commit, cpc, todo, awaited, deployed, rejected>>
        /\ unread' = Tail(unread)
    BY <1>3 DEF Consume, story, cluster, cycle
  <2>2. \A e : Told(e)' => Told(e)
    BY <1>3, <2>1, Consuming
  <2> QED BY <1>e, <1>3, <2>1, <2>2
<1>4. CASE Trigger
  <2>1. /\ Consume /\ unread # <<>> /\ UNCHANGED converged
        /\ at' \in {at, at + 1} /\ (kind = "fault" => at = 3)
    BY <1>p, <1>4, Places DEF Trigger, Reading, Next1
  <2>2. FaultInv'
    BY <1>0, <2>1 DEF PushInv, FaultInv, Consume
  <2> QED BY <1>3, <2>1, <2>2
<1>5. CASE Await
  <2>1. unread # <<>> /\ Consume /\ UNCHANGED <<at, converged>>
    BY <1>5 DEF Await, Reading
  <2>2. FaultInv'
    BY <1>0, <2>1 DEF PushInv, FaultInv, Consume, story
  <2> QED BY <1>3, <2>1, <2>2
<1>6. ASSUME NEW o, NEW f, Report(o, f), UNCHANGED live,
             head' = head \/ (At("push") /\ head' = run + 1)
      PROVE  PushInv'
  <2>1. /\ unread' = <<>> /\ at' = 1 /\ converged' = FALSE
        /\ UNCHANGED <<live, commit, cpc, todo, awaited, deployed, rejected>>
    BY <1>6 DEF Report, story, cycle
  <2>2. \A e : ~Told(e)'
    BY <2>1 DEF Told, Has
  <2>3. FaultInv'
    BY <2>1 DEF FaultInv
  <2> QED BY <1>6, <1>e, <1>n, <2>1, <2>2, <2>3
<1>13. CASE Errors
  <2>1. PICK o : Report(o, FALSE)
    BY <1>p, <1>13, Failing
  <2>2. UNCHANGED live /\ (head' = head \/ (At("push") /\ head' = run + 1))
    BY <1>p, <1>13, Failing DEF cluster
  <2> QED BY <1>6, <2>1, <2>2
<1>7. CASE Arrived
  <2>1. CASE kind = "fault"
    <3>1. /\ unread # <<>> /\ Consume /\ at = 5 /\ at' = 6 /\ readout = "event"
          /\ Announces(Head(unread))
      BY <1>p, <1>7, <2>1, Places DEF Arrived, Reading, Next1, Settles
    <3>2. Told(Head(unread))
      BY <3>1, Consuming DEF Consume
    <3>3. sha \in deployed \cup rejected
      BY <3>1, <3>2 DEF PushInv, Announces
    <3>4. UNCHANGED <<sha, fired, deployed, rejected>>
      BY <3>1 DEF Consume, story
    <3>5. FaultInv'
      BY <1>0, <2>1, <3>1, <3>3, <3>4 DEF PushInv, FaultInv
    <3> QED BY <1>3, <3>1, <3>5
  <2>2. CASE kind = "scale"
    BY <1>6, <1>7, <2>2 DEF Arrived, cluster
  <2> QED BY <2>1, <2>2
<1>8. CASE Kill
  <2>1. /\ kind = "fault" /\ at = 4 /\ at' = 5 /\ fired' = TRUE
        /\ UNCHANGED <<live, head, deployed, rejected, converged, sha, unread>>
        /\ \/ cpc' = "idle" /\ commit' = 0
           \/ UNCHANGED <<cpc, commit, todo, awaited>>
    BY <1>p, <1>8, Numbers
       DEF Kill, Next1, Down, EndCycle, story, cluster, cycle, file
  <2>2. \A e : Told(e)' <=> Told(e)
    BY <2>1, SameTold
  <2>3. FaultInv'
    BY <1>0, <2>1 DEF PushInv, FaultInv
  <2>4. CASE UNCHANGED <<cpc, commit, todo, awaited>>
    BY <1>e, <2>1, <2>2, <2>3, <2>4
  <2>5. CASE cpc' = "idle" /\ commit' = 0
    <3>1. AsWanted(head)' <=> AsWanted(head)
      BY <2>1 DEF AsWanted, Want
    <3> QED BY <1>0, <2>1, <2>2, <2>3, <2>5, <3>1 DEF PushInv
  <2> QED BY <2>1, <2>4, <2>5
\* The trial looks on.
<1>9. ASSUME UNCHANGED benchVars, FaultInv' PROVE PushInv'
  <2>1. UNCHANGED <<live, head, commit, cpc, todo, awaited, deployed, rejected, unread>>
    BY <1>9 DEF benchVars, story, cluster, cycle, file
  <2>2. \A e : Told(e)' <=> Told(e)
    BY <2>1, SameTold
  <2> QED BY <1>e, <1>9, <2>1, <2>2
<1>10. CASE PollLive
  <2>1. /\ kind = "fault" /\ at = 5 /\ at' = 6 /\ readout = "poll"
        /\ UNCHANGED <<fired, benchVars>>
    BY <1>p, <1>10, Places DEF PollLive, Next1, Place
  <2>2. FaultInv'
    BY <1>0, <2>1 DEF PushInv, FaultInv
  <2> QED BY <1>9, <2>1, <2>2
<1>11. CASE TimesOut
  <2>1. CASE kind = "fault"
    <3>1. /\ at' = 6 /\ at \in {3, 5} /\ UNCHANGED <<benchVars, converged>>
      BY <1>p, <1>11, <2>1, SkipsForward, Places DEF TimesOut
    <3>2. FaultInv'
      BY <1>0, <2>1, <3>1 DEF PushInv, FaultInv
    <3> QED BY <1>9, <3>1, <3>2
  <2>2. CASE kind = "scale"
    BY <1>6, <1>11, <2>2 DEF TimesOut, cluster
  <2> QED BY <2>1, <2>2
<1>12. CASE Inspect \/ Update
  BY <1>p, <1>12, Places DEF Inspect, Update
<1>14. CASE Verify
  BY <1>6, <1>14 DEF Verify, cluster
<1> QED BY <1>1, <1>2, <1>4, <1>5, <1>7, <1>8, <1>10, <1>11, <1>12, <1>13, <1>14
        DEF TrialStep

LEMMA PushStep ==
  ASSUME OutageInv, Types, CycleInv, PushInv, [Next]_vars
  PROVE  PushInv'
<1>1. ASSUME UNCHANGED <<kind, head, commit, cpc, todo, awaited, deployed, rejected,
                         at, fired, converged, readout, sha, unread>>,
             live'[Target] = live[Target]
      PROVE  PushInv'
  <2>1. \A e : Told(e)' => Told(e)
    BY <1>1, SameTold
  <2> QED BY <1>1, <2>1, PushFrame
<1>2. ASSUME NEW s \in Services, Meddle(s), UNCHANGED <<flags, trial, restores, row>>
      PROVE  PushInv'
  <2>1. live'[Target] = live[Target]
    BY <1>2, BenchAssumption DEF Meddle, Types
  <2> QED BY <1>1, <1>2, <2>1 DEF Meddle, flags, trial, file, story, cycle
<1>3. ASSUME NEW r \in timers, TimerFires(r) PROVE PushInv'
  BY <1>1, <1>3 DEF TimerFires, cluster, file, story, flags, trial, cycle
<1>4. CASE Done \/ UNCHANGED vars
  BY <1>1, <1>4 DEF Done, vars, benchVars, cluster, file, story, flags, trial, cycle
<1> QED BY <1>2, <1>3, <1>4, PushBench, PushTrial DEF Next

-----------------------------------------------------------------------------
(* Convergence of what a race pushed. *)

\* A step that leaves the services and the run alone.
LEMMA RaceFrame ==
  ASSUME OutageInv, RaceInv, UNCHANGED <<kind, clean, converged, at, head, sha, live>>,
         commit' \in {commit, 0, head}, todo' \subseteq todo,
         deployed \subseteq deployed',
         cpc' \in {"idle", "observe"} \/ (at > 2 /\ cpc' # "await")
           \/ (cpc' = cpc /\ awaited' = awaited),
         \A e : Told(e)' /\ e.stage = "converged" => Told(e)
  PROVE  RaceInv'
<1>1. SUFFICES ASSUME kind = "race", clean PROVE RaceInv'
  BY DEF RaceInv
<1>2. AsWanted(head)' <=> AsWanted(head)
  BY DEF AsWanted, Want
<1>3. at \in Nat
  BY DEF OutageInv, Place
<1>4. \A s \in Services \ {Target} : live'[s] = Want(head')[s]
  BY <1>1 DEF RaceInv
<1>5. (\A s \in Services \ {Target} : live[s] = Want(head)[s])'
  BY <1>4 DEF Want
<1>6. (at <= 2 => /\ AsWanted(head) /\ cpc \in {"idle", "observe"}
                  /\ \A e : Told(e) => e.stage # "converged")'
  BY <1>1, <1>2, <1>3 DEF RaceInv
<1>7. (at > 2 => /\ sha = head /\ todo \subseteq {Target}
                 /\ cpc = "await" => Target \in awaited
                 /\ \A e : Told(e) /\ e.stage = "converged" => sha \in deployed
                 /\ converged => sha \in deployed)'
  BY <1>1 DEF RaceInv
<1> QED BY <1>1, <1>5, <1>6, <1>7 DEF RaceInv

LEMMA RaceBench ==
  ASSUME OutageInv, Types, CycleInv, RaceInv, BenchNext,
         UNCHANGED <<flags, trial, restores, row>>
  PROVE  RaceInv'
<1>0. UNCHANGED <<kind, clean, at, sha, converged>>
  BY DEF flags, trial
<1> SUFFICES ASSUME kind = "race", clean PROVE RaceInv'
  BY <1>0 DEF RaceInv
<1>p. Target \in Services /\ head \in Nat \ {0} /\ commit \in Nat /\ at \in Nat
  BY BenchAssumption DEF Types, OutageInv, Place
<1>1. CASE Poll
  <2>1. \A e : Told(e)' <=> Told(e)
    BY <1>1, SameTold DEF Poll, file
  <2> QED BY <1>0, <1>1, <2>1, RaceFrame DEF Poll, cluster, story
<1>2. CASE Observe
  <2>1. /\ UNCHANGED <<live, head, deployed>> /\ cpc = "observe"
        /\ \/ cpc' = "idle" /\ commit' = 0 /\ todo' = {}
           \/ /\ cpc' = "gate" /\ todo' = Different /\ Different # {}
              /\ UNCHANGED <<commit, awaited>>
    BY <1>2 DEF Observe, cluster, EndCycle, Different
  <2>2. \A e : Told(e)' =>
              \/ Told(e)
              \/ e = Event("diff", Target, round')
              \/ same /\ \E s \in Different : e = Event("drift", s, round')
    BY <1>2, Observing
  <2>3. \A e : Told(e)' /\ e.stage = "converged" => Told(e)
    BY <2>2 DEF Event
  <2>4. CASE cpc' = "idle" /\ commit' = 0 /\ todo' = {}
    BY <1>0, <2>1, <2>3, <2>4, RaceFrame
  \* What is different is what was pushed.
  <2>5. CASE /\ cpc' = "gate" /\ todo' = Different /\ Different # {}
             /\ UNCHANGED <<commit, awaited>>
    <3>1. commit = head
      BY <2>1 DEF RaceInv, CycleInv
    <3>2. Different \subseteq {Target}
      BY <3>1 DEF RaceInv, Different
    <3>3. at > 2
      <4>1. SUFFICES ASSUME at <= 2 PROVE FALSE
        BY <1>p
      <4>2. AsWanted(head)
        BY <4>1 DEF RaceInv
      <4>3. Target \notin Different
        BY <3>1, <4>2 DEF AsWanted, Different
      <4> QED BY <2>5, <3>2, <4>3
    <3>4. (\A s \in Services \ {Target} : live[s] = Want(head)[s])'
      <4>1. \A s \in Services \ {Target} : live'[s] = Want(head')[s]
        BY <2>1 DEF RaceInv
      <4> QED BY <4>1 DEF Want
    <3>5. sha' = head' /\ commit' \in {0, head'} /\ todo' \subseteq {Target}
      BY <1>0, <2>1, <2>5, <3>1, <3>2, <3>3 DEF RaceInv
    <3>6. \A e : Told(e)' /\ e.stage = "converged" => sha' \in deployed'
      BY <1>0, <2>1, <2>3, <3>3 DEF RaceInv
    <3>7. /\ converged' => at' = 7
          /\ converged' => sha' \in deployed'
      BY <1>0, <2>1, <3>3 DEF RaceInv
    <3>8. at' > 2 /\ ~(at' <= 2) /\ cpc' # "await"
      BY <1>0, <1>p, <2>5, <3>3
    <3> QED BY <3>4, <3>5, <3>6, <3>7, <3>8 DEF RaceInv
  <2> QED BY <2>1, <2>4, <2>5
<1>3. ASSUME NEW pass \in SUBSET Services, Gate(pass) PROVE RaceInv'
  <2>1. /\ UNCHANGED <<live, head, unread, deployed>> /\ cpc = "gate"
        /\ \/ cpc' = "idle" /\ commit' = 0 /\ todo' = {}
           \/ cpc' = "apply" /\ todo' = pass /\ UNCHANGED <<commit, awaited>>
        /\ pass \subseteq todo
    BY <1>3 DEF Gate, cluster, EndCycle, file
  <2>2. \A e : Told(e)' <=> Told(e)
    BY <2>1, SameTold
  <2>3. at > 2
    BY <1>p, <2>1 DEF RaceInv
  <2> QED BY <1>0, <2>1, <2>2, <2>3, RaceFrame
<1>4. ASSUME NEW s \in Services, NEW ok \in BOOLEAN, NEW done \in BOOLEAN,
             Apply(s, ok, done)
      PROVE  RaceInv'
  <2>1. /\ cpc = "apply" /\ s \in todo /\ UNCHANGED <<head, deployed>>
        /\ live' = IF done THEN [live EXCEPT ![s] = Want(commit)[s]] ELSE live
        /\ Emit(<<Event("apply", s, round)>>)
        /\ \/ cpc' = "idle" /\ commit' = 0 /\ todo' = {}
           \/ /\ cpc' \in {"apply", "await"}
              /\ todo' = todo \ {s} /\ awaited' = awaited \cup {s}
              /\ UNCHANGED commit
    BY <1>4 DEF Apply, EndCycle, story
  <2>2. at > 2
    BY <1>p, <2>1 DEF RaceInv
  <2>3. s = Target
    BY <2>1, <2>2 DEF RaceInv
  <2>4. Event("apply", s, round) \in Evt
    BY DEF Event, Evt, Types
  <2>5. \A e : Told(e)' => Told(e) \/ e = Event("apply", s, round)
    BY <2>1, <2>4, EmittingOne DEF Types
  <2>6. \A e : Told(e)' /\ e.stage = "converged" => Told(e)
    BY <2>5 DEF Event
  <2>7. (\A x \in Services \ {Target} : live[x] = Want(head)[x])'
    <3>1. \A x \in Services \ {Target} : live'[x] = Want(head')[x]
      BY <2>1, <2>3 DEF RaceInv, Types
    <3> QED BY <3>1 DEF Want
  <2>8. /\ sha' = head' /\ commit' \in {0, head'} /\ todo' \subseteq {Target}
        /\ cpc' = "await" => Target \in awaited'
        /\ \A e : Told(e)' /\ e.stage = "converged" => sha' \in deployed'
        /\ converged' => at' = 7 /\ sha' \in deployed'
    BY <1>0, <2>1, <2>2, <2>3, <2>6 DEF RaceInv
  <2>9. at' > 2 /\ ~(at' <= 2)
    BY <1>0, <1>p, <2>2
  <2> QED BY <2>7, <2>8, <2>9 DEF RaceInv
<1>5. CASE Converge
  <2>1. /\ cpc = "await" /\ cpc' = "idle" /\ commit' = 0 /\ todo' = {}
        /\ UNCHANGED <<head, live>>
        /\ \A x \in awaited : live[x] = Want(commit)[x]
        /\ deployed' = IF live[Target] = Want(commit)[Target]
                       THEN deployed \cup {commit} ELSE deployed
    BY <1>5 DEF Converge, EndCycle, cluster
  <2>2. at > 2
    BY <1>p, <2>1 DEF RaceInv
  <2>3. commit = head /\ sha = head /\ Target \in awaited
    BY <2>1, <2>2 DEF RaceInv, CycleInv
  <2>4. sha' \in deployed'
    BY <1>0, <2>1, <2>3
  <2>5. (\A x \in Services \ {Target} : live[x] = Want(head)[x])'
    <3>1. \A x \in Services \ {Target} : live'[x] = Want(head')[x]
      BY <2>1 DEF RaceInv
    <3> QED BY <3>1 DEF Want
  <2>6. /\ sha' = head' /\ commit' \in {0, head'} /\ todo' \subseteq {Target}
        /\ cpc' # "await" /\ (converged' => at' = 7) /\ at' > 2 /\ ~(at' <= 2)
    BY <1>0, <1>p, <2>1, <2>2, <2>3 DEF RaceInv
  <2> QED BY <2>4, <2>5, <2>6 DEF RaceInv
<1>6. CASE Fail
  <2>1. \A e : Told(e)' <=> Told(e)
    BY <1>6, SameTold DEF Fail, file
  <2> QED BY <1>0, <1>6, <2>1, RaceFrame DEF Fail, EndCycle, cluster, story
<1> QED BY <1>1, <1>2, <1>3, <1>4, <1>5, <1>6 DEF BenchNext

\* A step of a race after its push.
LEMMA RaceOn ==
  ASSUME OutageInv, RaceInv, kind = "race", clean, at > 2, at' \in Nat, at' > 2,
         UNCHANGED <<kind, clean, head, sha, commit, cpc, todo, awaited, deployed>>,
         \A s \in Services \ {Target} : live'[s] = live[s],
         \A e : Told(e)' => Told(e),
         converged' => at' = 7 /\ sha \in deployed
  PROVE  RaceInv'
<1>1. (\A s \in Services \ {Target} : live[s] = Want(head)[s])'
  <2>1. \A s \in Services \ {Target} : live'[s] = Want(head')[s]
    BY DEF RaceInv
  <2> QED BY <2>1 DEF Want
<1>2. ~(at' <= 2)
  OBVIOUS
<1> QED BY <1>1, <1>2 DEF RaceInv

\* Convergence is the last that a race sees before it looks at the cluster.
LEMMA RaceUnclean ==
  ASSUME OutageInv, RaceInv, kind = "race", TrialStep
  PROVE  (converged' => at' = 7) /\ (clean' => clean \/ Open)
<1>p. Place /\ at \in Nat /\ readout # "poll" /\ (converged => at = 7)
  BY DEF OutageInv, Place, RaceInv
<1>1. ASSUME NEW o, NEW f, Report(o, f) PROVE ~converged' /\ ~clean'
  BY <1>1 DEF Report
<1>2. CASE Verify \/ Errors
  BY <1>1, <1>2 DEF Verify, Errors
<1>3. CASE Arrived
  BY <1>p, <1>3, Places DEF Arrived, Reading, Next1, Consume
<1>4. CASE TimesOut
  BY <1>p, <1>4, SkipsForward DEF TimesOut
<1>5. CASE Open
  BY <1>p, <1>5, Places DEF Open
<1>6. CASE Push
  <2>1. UNCHANGED converged /\ at = 2
    BY <1>p, <1>6, Places DEF Push
  <2>2. clean' => clean
    BY <1>6, Zenon DEF Push
  <2> QED BY <1>p, <2>1, <2>2
<1>7. CASE Inspect \/ Update
  BY <1>p, <1>7, Places DEF Inspect, Update
<1>8. CASE Trigger \/ Await
  BY <1>p, <1>8, Places DEF Trigger, Await, Reading, Consume
<1>9. CASE Kill \/ PollLive
  BY <1>p, <1>9, Numbers DEF Kill, PollLive
<1> QED BY <1>2, <1>3, <1>4, <1>5, <1>6, <1>7, <1>8, <1>9 DEF TrialStep

LEMMA RaceTrial ==
  ASSUME OutageInv, Types, CycleInv, RaceInv, TrialStep
  PROVE  RaceInv'
<1>0. UNCHANGED kind
  BY FlagsKept DEF Next, flags
<1> SUFFICES ASSUME kind = "race" PROVE RaceInv'
  BY <1>0 DEF RaceInv
<1>p. /\ Place /\ at \in Nat /\ at <= 7 /\ run \in Nat /\ readout # "poll"
      /\ Target \in Services
  BY BenchAssumption DEF OutageInv, Place, LastStep
<1>1. CASE Open
  <2>1. /\ at = 1 /\ at' = 2 /\ unread' = <<>>
        /\ UNCHANGED <<live, head, commit, cpc, converged>>
    BY <1>p, <1>1, Places DEF Open, Next1, cluster, cycle
  <2>2. clean' => live = Want(head) /\ cpc \in {"idle", "observe"} /\ commit \in {0, head}
    BY <1>1, Zenon DEF Open
  <2>3. \A e : ~Told(e)'
    BY <2>1 DEF Told, Has
  <2>4. ~converged'
    BY <2>1 DEF RaceInv
  <2>5. clean' => live' = Want(head')
    BY <2>1, <2>2
  <2>6. clean' => (\A s \in Services \ {Target} : live[s] = Want(head)[s])'
    BY <2>5
  <2>7. clean' => AsWanted(head)'
    BY <2>5 DEF AsWanted
  <2> QED BY <2>1, <2>2, <2>3, <2>4, <2>6, <2>7 DEF RaceInv
<1>2. CASE Push
  <2>1. /\ at = 2 /\ at' = 3 /\ head' = run + 1 /\ sha' = run + 1
        /\ UNCHANGED <<live, unread, commit, cpc, todo, awaited, deployed, converged>>
    BY <1>p, <1>2, Places DEF Push, Pushed, Next1, cluster, cycle, story, file
  <2>c. clean' => clean /\ cpc = "idle"
    BY <1>2, Zenon DEF Push
  <2>2. ~converged'
    BY <2>1 DEF RaceInv
  <2> SUFFICES ASSUME clean' PROVE RaceInv'
    BY <2>2 DEF RaceInv
  <2>3. clean /\ commit = 0 /\ todo = {}
    BY <2>c DEF CycleInv
  <2>4. \A e : Told(e)' => e.stage # "converged"
    BY <2>1, <2>3, SameTold DEF RaceInv
  <2>5. \A s \in Services \ {Target} : Want(head')[s] = Want(head)[s]
    BY DEF Want
  <2>6. (\A s \in Services \ {Target} : live[s] = Want(head)[s])'
    <3>1. \A s \in Services \ {Target} : live'[s] = Want(head')[s]
      BY <2>1, <2>3, <2>5 DEF RaceInv
    <3> QED BY <3>1 DEF Want
  <2> QED BY <2>1, <2>2, <2>3, <2>4, <2>6 DEF RaceInv
\* The end of a run, or of a run that was not clean.
<1>3. ASSUME NEW o, NEW f, Report(o, f) PROVE RaceInv'
  BY <1>3 DEF Report, RaceInv
<1>4. CASE ~clean /\ ~Open /\ ~Push
  <2>1. ~clean' /\ (converged' => at' = 7)
    BY <1>4, RaceUnclean
  <2> QED BY <2>1 DEF RaceInv
<1> SUFFICES ASSUME clean, ~Open, ~Push PROVE RaceInv'
  BY <1>1, <1>2, <1>4
<1>5. CASE Inspect
  <2>1. /\ at = 4 /\ at' = 5 /\ UNCHANGED <<clean, converged, benchVars, sha>>
    BY <1>p, <1>5, Places DEF Inspect, Next1
  <2>2. \A e : Told(e)' <=> Told(e)
    BY <2>1, SameTold DEF benchVars, file
  <2>3. ~converged
    BY <2>1 DEF RaceInv
  <2> QED BY <1>0, <2>1, <2>2, <2>3, RaceOn DEF benchVars, cluster, cycle, story
<1>6. CASE Update
  <2>1. /\ at = 5 /\ at' = 6
        /\ UNCHANGED <<clean, converged, unread, head, sha, commit, cpc, todo, awaited,
                       deployed>>
    BY <1>p, <1>6, Places DEF Update, Edited, Next1, cycle, story, file
  <2>2. \A e : Told(e)' <=> Told(e)
    BY <2>1, SameTold
  <2>3. ~converged
    BY <2>1 DEF RaceInv
  <2>4. \A s \in Services \ {Target} : live'[s] = live[s]
    BY <1>p, <1>6, Editing DEF Update, Types
  <2> QED BY <1>0, <2>1, <2>2, <2>3, <2>4, RaceOn
\* An event is read.
<1>7. ASSUME unread # <<>>, Consume, at > 2, at' \in Nat, at' > 2,
             converged' => at' = 7 /\ sha \in deployed
      PROVE  RaceInv'
  <2>1. /\ UNCHANGED <<live, head, sha, clean, commit, cpc, todo, awaited, deployed>>
        /\ unread' = Tail(unread)
    BY <1>7 DEF Consume, story, cluster, cycle
  <2>2. \A e : Told(e)' => Told(e)
    BY <1>7, <2>1, Consuming
  <2> QED BY <1>0, <1>7, <2>1, <2>2, RaceOn
<1>8. CASE Trigger
  <2>1. /\ unread # <<>> /\ Consume /\ at = 3 /\ at' \in {3, 4} /\ UNCHANGED converged
    BY <1>p, <1>8, Places DEF Trigger, Reading, Next1
  <2>2. ~converged
    BY <2>1 DEF RaceInv
  <2> QED BY <1>7, <2>1, <2>2
<1>9. CASE Await
  <2>1. unread # <<>> /\ Consume /\ at = 6 /\ at' = 6 /\ UNCHANGED converged
    BY <1>p, <1>9, Numbers DEF Await, Reading
  <2>2. ~converged
    BY <2>1 DEF RaceInv
  <2> QED BY <1>7, <2>1, <2>2
<1>10. CASE Arrived
  <2>1. /\ unread # <<>> /\ Consume /\ at = 6 /\ at' = 7
        /\ Head(unread).stage = "converged"
    BY <1>p, <1>10, Numbers DEF Arrived, Reading, Next1, Settles, Converges
  <2>2. Told(Head(unread))
    BY <2>1, HasTail DEF Types, Told
  <2>3. sha \in deployed
    BY <2>1, <2>2 DEF RaceInv
  <2> QED BY <1>7, <2>1, <2>3
<1>11. CASE TimesOut
  <2>1. /\ at \in {3, 6} /\ at' = 7
        /\ UNCHANGED <<benchVars, sha, clean, converged>>
    BY <1>p, <1>11, SkipsForward, Numbers, Places DEF TimesOut
  <2>2. \A e : Told(e)' <=> Told(e)
    BY <2>1, SameTold DEF benchVars, file
  <2>3. ~converged
    BY <2>1 DEF RaceInv
  <2> QED BY <1>0, <2>1, <2>2, <2>3, RaceOn DEF benchVars, cluster, cycle, story
<1>12. CASE Kill \/ PollLive
  BY <1>p, <1>12, Numbers DEF Kill, PollLive
<1>13. CASE Errors \/ Verify
  BY <1>3, <1>13 DEF Errors, Verify
<1> QED BY <1>5, <1>6, <1>8, <1>9, <1>10, <1>11, <1>12, <1>13 DEF TrialStep

LEMMA RaceStep ==
  ASSUME OutageInv, Types, CycleInv, RaceInv, [Next]_vars
  PROVE  RaceInv'
<1>1. ASSUME UNCHANGED <<flags, trial, cluster, cycle, file, story, head>>
      PROVE  RaceInv'
  <2>1. \A e : Told(e)' => Told(e)
    BY <1>1, SameTold DEF file
  <2> QED BY <1>1, <2>1, RaceFrame DEF flags, trial, cluster, cycle, story
<1>2. CASE kind \in {"scale", "drift"}
  BY <1>2, FlagsKept DEF RaceInv, flags
<1>3. ASSUME NEW r \in timers, TimerFires(r) PROVE RaceInv'
  BY <1>1, <1>3 DEF TimerFires
<1>4. CASE Done \/ UNCHANGED vars
  BY <1>1, <1>4 DEF Done, vars, benchVars
<1> QED BY <1>2, <1>3, <1>4, RaceBench, RaceTrial DEF Next

-----------------------------------------------------------------------------
(* The rows. *)

\* What a row is judged by is never unsaid, and only the run's own write puts
\* an edit of its number on Target.
LEMMA History ==
  ASSUME OutageInv, Types, [Next]_vars
  PROVE  /\ deployed \subseteq deployed' /\ rejected \subseteq rejected'
         /\ kind = "drift" =>
              live'[Target].edit \in {live[Target].edit, 0, run}
<1>p. Target \in Services
  BY BenchAssumption
<1>1. ASSUME UNCHANGED <<live, deployed, rejected>>
      PROVE  /\ deployed \subseteq deployed' /\ rejected \subseteq rejected'
             /\ live'[Target].edit \in {live[Target].edit, 0, run}
  BY <1>1
<1>2. CASE Poll \/ Observe \/ Fail
  BY <1>1, <1>2 DEF Poll, Observe, Fail, cluster, story
<1>3. ASSUME NEW pass \in SUBSET Services, Gate(pass)
      PROVE  deployed \subseteq deployed' /\ rejected \subseteq rejected' /\ UNCHANGED live
  BY <1>3 DEF Gate, cluster
<1>4. ASSUME NEW s \in Services, NEW ok \in BOOLEAN, NEW done \in BOOLEAN,
             Apply(s, ok, done)
      PROVE  /\ UNCHANGED <<deployed, rejected>>
             /\ live'[Target].edit \in {live[Target].edit, 0}
  <2>1. /\ live' = IF done THEN [live EXCEPT ![s] = Want(commit)[s]] ELSE live
        /\ UNCHANGED <<deployed, rejected>>
    BY <1>4 DEF Apply, story
  <2>2. Want(commit)[s].edit = 0
    BY WantTypes DEF Types
  <2> QED BY <1>p, <2>1, <2>2 DEF Types
<1>5. Converge => deployed \subseteq deployed' /\ UNCHANGED <<rejected, live>>
  BY DEF Converge, cluster
<1>6. CASE BenchNext
  BY <1>2, <1>3, <1>4, <1>5, <1>6 DEF BenchNext
<1>7. ASSUME NEW s \in Services, Meddle(s)
      PROVE  UNCHANGED <<deployed, rejected>> /\ live'[Target] = live[Target]
  BY <1>p, <1>7 DEF Meddle, story, Types
<1>8. ASSUME Update \/ Errors
      PROVE  /\ UNCHANGED <<deployed, rejected>>
             /\ live'[Target].edit \in {live[Target].edit, run}
  <2>1. UNCHANGED <<deployed, rejected>>
    BY <1>8 DEF Update, Errors, Report, story
  <2>2. UNCHANGED live \/ Edited
    BY <1>8, Failing DEF Update, OutageInv, cluster
  <2> QED BY <2>1, <2>2, Editing DEF OutageInv
<1>9. TrialStep /\ ~Update /\ ~Errors => UNCHANGED <<live, deployed, rejected>>
  BY DEF TrialStep, Open, Push, Pushed, Inspect, Trigger, Await, Arrived, Consume,
     Kill, PollLive, TimesOut, Verify, Report, benchVars, cluster, story
<1>10. (\E r \in timers : TimerFires(r)) => UNCHANGED <<live, deployed, rejected>>
  BY DEF TimerFires, cluster, story
<1>11. Done \/ UNCHANGED vars => UNCHANGED <<live, deployed, rejected>>
  BY DEF Done, vars, benchVars, cluster, story
<1> QED BY <1>1, <1>6, <1>7, <1>8, <1>9, <1>10, <1>11 DEF Next

\* The two reasons for which a row says ok.
SaysOk(false) ==
    \/ Arrived /\ kind \in {"scale", "drift"} /\ false = FALSE
    \/ /\ Verify /\ converged /\ kind \in {"race", "fault"}
       /\ false => kind = "fault" /\ live[Target] # Want(sha)[Target]

\* Only the end of a run writes a row.
LEMMA RowsAreReports ==
  ASSUME Place, [Next]_vars
  PROVE  \/ UNCHANGED <<row, run>>
         \/ \E o, f : Report(o, f) /\ (o = "ok" => SaysOk(f))
<1>0. kind \in {"scale", "drift", "race", "fault"}
  BY TrialAssumption DEF Place
<1>f. "error" # "ok" /\ "timeout" # "ok"
  OBVIOUS
<1>1. CASE Errors
  <2>1. Report("error", FALSE) \/ Report("timeout", FALSE)
    BY <1>1, Zenon DEF Errors
  <2> QED BY <1>f, <2>1, Zenon
<1>2. CASE Arrived
  <2>1. CASE kind \in {"race", "fault"}
    BY <1>2, <2>1 DEF Arrived, Consume
  <2>2. CASE kind \in {"scale", "drift"}
    <3>1. Report("ok", FALSE)
      BY <1>2, <2>2 DEF Arrived
    <3>2. SaysOk(FALSE)
      BY <1>2, <2>2 DEF SaysOk
    <3> QED BY <3>1, <3>2
  <2> QED BY <1>0, <2>1, <2>2
<1>3. CASE TimesOut
  <2>1. UNCHANGED <<row, run>> \/ Report("timeout", FALSE)
    BY <1>3 DEF TimesOut
  <2> QED BY <1>f, <2>1, Zenon
<1>4. CASE Verify
  <2> DEFINE o == IF converged THEN "ok" ELSE "timeout"
             F(looked) == /\ looked /\ kind = "fault" /\ converged
                          /\ live[Target] # Want(sha)[Target]
  <2>1. PICK f : Report(o, f) /\ (f => kind = "fault" /\ live[Target] # Want(sha)[Target])
    <3>1. PICK looked \in BOOLEAN : Report(o, F(looked))
      BY <1>4 DEF Verify
    <3>2. F(looked) => kind = "fault" /\ live[Target] # Want(sha)[Target]
      OBVIOUS
    <3> HIDE DEF F
    <3> QED BY <3>1, <3>2
  <2>2. kind \in {"race", "fault"}
    BY <1>4, Places DEF Verify
  <2>3. o = "ok" => converged
    OBVIOUS
  <2> HIDE DEF o
  <2>4. o = "ok" => SaysOk(f)
    BY <1>4, <2>1, <2>2, <2>3, Zenon DEF SaysOk
  <2> QED BY <2>1, <2>4
<1>5. CASE Open \/ Push \/ Inspect \/ Update \/ Trigger \/ Await \/ Kill \/ PollLive
  BY <1>5 DEF Open, Push, Inspect, Update, Trigger, Await, Consume, Kill, PollLive
<1>6. CASE (BenchNext \/ \E s \in Services : Meddle(s))
           /\ UNCHANGED <<flags, trial, restores, row>>
  BY <1>6 DEF trial
<1>7. CASE Done \/ UNCHANGED vars \/ \E r \in timers : TimerFires(r)
  BY <1>7 DEF Done, vars, trial, TimerFires
<1> QED BY <1>1, <1>2, <1>3, <1>4, <1>5, <1>6, <1>7 DEF Next, TrialStep

LEMMA RowStep ==
  ASSUME OutageInv, RowsInv, [Next]_vars
  PROVE  RowInv'
<1> USE DEF RowsInv
<1>0. UNCHANGED <<kind, readout>>
  BY FlagsKept DEF flags
<1>p. /\ Place /\ run \in Nat \ {0} /\ Target \in Services
  BY BenchAssumption DEF OutageInv, Place
<1>1. CASE UNCHANGED <<row, run>>
  <2>1. OkMeansDeployed'
    BY <1>0, <1>1, History DEF RowInv, OkMeansDeployed
  <2>2. RepairIsReal'
    <3>1. SUFFICES ASSUME kind = "drift", row.step = "await", row.outcome = "ok", row.clean
                   PROVE  live'[Target].edit # row.run
      BY <1>0, <1>1 DEF RepairIsReal
    <3>2. row.run \in Nat /\ row.run < run /\ row.run # 0 /\ live[Target].edit # row.run
      BY <3>1 DEF RowInv, RepairIsReal
    <3>3. live'[Target].edit \in {live[Target].edit, 0, run}
      BY <3>1, History
    <3> QED BY <1>p, <3>2, <3>3
  <2> QED BY <1>0, <1>1, <2>1, <2>2 DEF RowInv
<1>2. ASSUME NEW o, NEW f, Report(o, f), o = "ok" => SaysOk(f)
      PROVE  RowInv'
  <2>1. /\ run' = run + 1 /\ row'.run = run /\ row'.outcome = o /\ row'.sha = sha
        /\ row'.by = IF fired /\ readout = "poll" THEN "poll" ELSE "event"
        /\ row'.falseOk = f /\ row'.clean = clean
        /\ UNCHANGED <<deployed, rejected>>
    BY <1>2 DEF Report, story
  <2>2. row'.run \in Nat /\ row'.run < run' /\ row'.run # 0
    BY <1>p, <2>1
  <2>3. kind' = "drift" => row'.sha = 0
    BY <1>0, <2>1 DEF CycleInv
  <2>4. OkMeansDeployed'
    <3>1. SUFFICES ASSUME o = "ok", row'.by = "event", sha # 0,
                          kind = "race" => clean
                   PROVE  sha \in rejected \/ (sha \in deployed /\ ~f)
      BY <1>0, <2>1 DEF OkMeansDeployed
    <3>2. CASE Arrived /\ kind \in {"scale", "drift"} /\ f = FALSE
      <4>1. kind = "scale"
        BY <3>1, <3>2 DEF CycleInv
      <4>2. unread # <<>> /\ Announces(Head(unread))
        BY <3>2, <4>1 DEF Arrived, Reading, Settles
      <4>3. Told(Head(unread))
        BY <4>2, HasTail DEF Types, Told
      <4>4. sha \in deployed \cup rejected
        BY <4>1, <4>2, <4>3 DEF PushInv, Announces
      <4> QED BY <3>2, <4>4
    <3>3. CASE /\ Verify /\ converged /\ kind \in {"race", "fault"}
               /\ f => kind = "fault" /\ live[Target] # Want(sha)[Target]
      <4>r. CASE kind = "race"
        <5>1. clean /\ at = 7
          BY <3>1, <3>3, <4>r DEF RaceInv
        <5>2. sha \in deployed
          BY <3>3, <4>r, <5>1 DEF RaceInv
        <5> QED BY <3>3, <4>r, <5>2
      <4> SUFFICES ASSUME kind = "fault"
                   PROVE  sha \in rejected \/ (sha \in deployed /\ ~f)
        BY <3>3, <4>r
      <4>1. kind = "fault" /\ converged
        BY <3>3
      <4>2. fired /\ (readout = "event" => sha \in deployed \cup rejected)
        BY <4>1 DEF PushInv, FaultInv
      <4>3. readout = "event"
        BY <2>1, <3>1, <4>2 DEF Types
      <4>4. sha \in deployed => AsWanted(sha)
        BY <3>1, <4>1 DEF CycleInv, PushInv
      <4>5. sha \in deployed => ~f
        BY <3>3, <4>4, Zenon DEF AsWanted
      <4> QED BY <4>2, <4>3, <4>5
    <3> QED BY <1>2, <3>1, <3>2, <3>3 DEF SaysOk
  <2>5. RepairIsReal'
    <3>1. SUFFICES ASSUME kind = "drift", o = "ok", clean
                   PROVE  live'[Target].edit # run
      BY <1>0, <2>1 DEF RepairIsReal
    <3>2. Arrived /\ UNCHANGED live
      BY <1>2, <3>1 DEF SaysOk, Arrived, cluster
    <3>3. unread # <<>> /\ Repairs(Head(unread))
      BY <3>1, <3>2 DEF Arrived, Reading, Settles
    <3>4. Told(Head(unread))
      BY <3>3, HasTail DEF Types, Told
    <3>5. Applied(Head(unread).round) /\ Head(unread).stage = "converged"
      BY <3>3 DEF Repairs, Applied
    <3> QED BY <3>1, <3>2, <3>4, <3>5 DEF DriftInv
  <2> QED BY <2>1, <2>2, <2>3, <2>4, <2>5 DEF RowInv
<1> QED BY <1>p, <1>1, <1>2, RowsAreReports

LEMMA RowsInit == Init => RowsInv
<1> SUFFICES ASSUME Init PROVE RowsInv
  OBVIOUS
<1>1. /\ at = 1 /\ live = Want(1) /\ head = 1 /\ commit = 0 /\ cpc = "idle"
      /\ deployed = {} /\ seen = {} /\ tracked = 0 /\ run = 1
  BY DEF Init, BenchInit
<1>c. ~clean /\ ~converged
  BY DEF Init
<1>r. row.run = 0 /\ row.sha = 0
  BY DEF Init
<1>o. row.outcome # "ok"
  <2>1. row.outcome = ""
    BY DEF Init
  <2> QED BY <2>1, Zenon
<1>2. \A e : ~Told(e)
  <2>1. unread = <<>>
    BY DEF Init, BenchInit
  <2> QED BY <2>1 DEF Told, Has
<1>3. Want(1)[Target].edit = 0 /\ Target \in Services
  BY WantTypes, BenchAssumption
<1>4. PushInv /\ RaceInv
  BY <1>1, <1>2, <1>c DEF PushInv, FaultInv, RaceInv
<1>5. SeenInv
  BY <1>1, <1>3 DEF SeenInv
<1>6. EditInv /\ DriftInv
  BY <1>1, <1>c DEF EditInv, EditPoint, DriftInv
<1>7. RowInv
  <2>1. row.outcome # "ok" /\ row.run \in Nat /\ row.run < run
    BY <1>1, <1>r, <1>o
  <2>2. OkMeansDeployed /\ RepairIsReal
    BY <2>1 DEF OkMeansDeployed, RepairIsReal
  <2> QED BY <1>r, <2>1, <2>2 DEF RowInv
<1> QED BY <1>4, <1>5, <1>6, <1>7, TypesInit DEF RowsInv

\* The action property RowsAreTrue of the run: a scale or fault row that says ok
\* because of a converged event is of a commit that the cluster ran or the gate
\* kept from it, and so is a race row, if the race began and pushed with the
\* cluster as declared and no cycle at work; what a drift run that began so takes
\* for the detection or the repair of its mutation is its own, and no detection
\* slipped past the tail.  Nothing is said of a row that rests on polling the
\* cluster, of a time-out of scale, or of any other race.
THEOREM RowsTellTheTruth == Spec => RowsAreTrue
<1> DEFINE Inv == OutageInv /\ RowsInv
<1>1. Init => Inv
  BY OutageInit, RowsInit
<1>2. Inv /\ [Next]_vars => Inv'
  BY StepOutage, TypesStep, EditStep, PushStep, RaceStep, DriftStep, SeenStep, RowStep DEF RowsInv
<1>3. Inv => OkMeansDeployed /\ RepairIsReal
  BY DEF RowsInv, RowInv
<1>4. Inv => DetectIsOwn
  <2>1. Inv /\ kind = "drift" /\ At("await") => at = 5
    BY Places DEF OutageInv
  <2> QED BY <2>1 DEF RowsInv, DriftInv, DetectIsOwn
<1>5. Inv => MissedNothing
  <2>1. SUFFICES ASSUME Inv, kind = "drift", At("trigger"), run \in seen
                 PROVE  \E i \in 1 .. Len(unread) : Triggers(unread[i])
    BY DEF MissedNothing
  <2>2. at = 4
    BY <2>1, Places DEF OutageInv
  <2>3. PICK e : Told(e) /\ Detects(e)
    BY <2>1, <2>2 DEF RowsInv, SeenInv
  <2>4. PICK i \in 1 .. Len(unread) : unread[i] = e
    BY <2>3 DEF Told, Has
  <2> QED BY <2>1, <2>3, <2>4 DEF Triggers
<1>6. OkMeansDeployed' /\ RepairIsReal' /\ DetectIsOwn' /\ MissedNothing
        => [OkMeansDeployed' /\ DetectIsOwn' /\ RepairIsReal' /\ MissedNothing]_vars
  OBVIOUS
<1> QED BY <1>1, <1>2, <1>3, <1>4, <1>5, <1>6, PTL DEF Spec, RowsAreTrue
================================================================================

--------------------------- MODULE Reconcile_proofs ---------------------------
(* Theorems about module Reconcile, for every value of its constants. *)
EXTENDS Reconcile, TLAPS

USE DEF git, env, world, work, plans, cycleRest, cycleState

-----------------------------------------------------------------------------
(* Type correctness. *)

\* The plan consists of changes whose specs are pinned.
LEMMA PlanType ==
  ASSUME NEW want \in [Services -> ServiceSpec \cup {None}],
         NEW have \in [Services -> ServiceSpec \cup {None}],
         NEW prune \in BOOLEAN
  PROVE  Plan(want, have, prune) \in SUBSET Change
<1>1. \A s \in Services : want[s] # None => want[s] \in ServiceSpec
  OBVIOUS
<1>2. \A s \in Services : have[s] # None => have[s] \in ServiceSpec
  OBVIOUS
<1>3. ASSUME NEW act \in {"create", "update", "remove"}, NEW s \in Services,
             NEW sp \in ServiceSpec, NEW r \in BOOLEAN
      PROVE  Chg(act, s, sp, r) \in Change
  BY DEF Chg, Change
<1>4. /\ Creates(want, have) \subseteq {s \in Services : want[s] # None}
      /\ Updates(want, have) \subseteq
           {s \in Services : want[s] # None /\ have[s] # None}
      /\ Removes(want, have) \subseteq {s \in Services : have[s] # None}
  BY DEF Creates, Updates, Removes
<1> DEFINE Again == {s \in Updates(want, have) :
                        AttachmentOnly(want[s], have[s])}
<1>5. \A s \in Services : s \in Again => want[s] # None /\ have[s] # None
  BY <1>4
<1>6. Again \subseteq Services
  BY DEF Updates
<1> HIDE DEF Again
<1>7. /\ \A s \in Again : Chg("remove", s, have[s], TRUE) \in Change
      /\ \A s \in Again : Chg("create", s, want[s], TRUE) \in Change
  BY <1>1, <1>2, <1>3, <1>5, <1>6
<1>8. \A s \in Creates(want, have) : Chg("create", s, want[s], FALSE) \in Change
  BY <1>1, <1>3, <1>4
<1>9. \A s \in Updates(want, have) : Chg("update", s, want[s], FALSE) \in Change
  BY <1>1, <1>3, <1>4
<1>10. \A s \in Removes(want, have) : Chg("remove", s, have[s], FALSE) \in Change
  BY <1>2, <1>3, <1>4
<1> QED
  BY <1>7, <1>8, <1>9, <1>10 DEF Plan, PlanRemoving, Again

\* A snapshot is in normal form.
LEMMA ObservedType ==
  ASSUME cluster \in [Services -> Service \cup {None}]
  PROVE  Observed \in [Services -> ServiceSpec \cup {None}]
  BY NoneAssumption DEF Observed, Service, ServiceSpec

\* An edit by hand keeps the ID, and stores the next version; it keeps the
\* writer of the image unless it changes the image.
LEMMA EditsType ==
  ASSUME raft \in Nat, NEW old \in Service
  PROVE  \A r \in Edits(old) :
           /\ r \in Service
           /\ r.id = old.id /\ r.ver = raft + 1
           /\ r.by = "operator" \/ (r.by = old.by /\ r.img = old.img)
<1>1. /\ old.id \in Nat /\ old.img \in Digests /\ old.att \in Atts
      /\ old.managed \in BOOLEAN /\ old.op \in OpVals
      /\ old.by \in {"swarmgate", "operator"}
  BY DEF Service
<1>3. ASSUME NEW r \in Edits(old)
      PROVE  \E d \in Digests, a \in Atts, m \in BOOLEAN, o \in OpVals,
                by \in {"swarmgate", "operator"} :
               /\ r = Stored(old.id, [img |-> d, att |-> a], m, o, by)
               /\ by = "operator" \/ (by = old.by /\ d = old.img)
  <2>1. CASE \E d \in Digests : r = Stored(old.id, [img |-> d, att |-> old.att],
                                         old.managed, old.op, "operator")
    BY <1>1, <2>1
  <2>2. CASE \E a \in Atts : r = Stored(old.id, [img |-> old.img, att |-> a],
                                      old.managed, old.op, old.by)
    BY <1>1, <2>2
  <2>3. CASE \E m \in BOOLEAN : r = Stored(old.id,
                  [img |-> old.img, att |-> old.att], m, old.op, old.by)
    BY <1>1, <2>3
  <2>4. CASE \E o \in OpVals : r = Stored(old.id,
                  [img |-> old.img, att |-> old.att], old.managed, o, old.by)
    BY <1>1, <2>4
  <2> QED
    BY <2>1, <2>2, <2>3, <2>4 DEF Edits
<1> SUFFICES ASSUME NEW r \in Edits(old)
             PROVE  /\ r \in Service
                    /\ r.id = old.id /\ r.ver = raft + 1
                    /\ r.by = "operator" \/ (r.by = old.by /\ r.img = old.img)
  OBVIOUS
<1>4. PICK d \in Digests, a \in Atts, m \in BOOLEAN, o \in OpVals,
           by \in {"swarmgate", "operator"} :
        /\ r = Stored(old.id, [img |-> d, att |-> a], m, o, by)
        /\ by = "operator" \/ (by = old.by /\ d = old.img)
  BY <1>3
<1>5. r \in Service /\ r.id = old.id /\ r.ver = raft + 1
        /\ r.by = by /\ r.img = d
  BY <1>4, <1>1 DEF Stored, Service
<1> QED
  BY <1>4, <1>5

\* What Apply leaves of the plan, whether the answer arrives or not.
LEMMA ReturnType ==
  ASSUME TypeOK, NEW c \in Change, NEW ok \in BOOLEAN, Return(c, ok)
  PROVE  /\ todo' \in SUBSET Change
         /\ failed' \in SUBSET Services /\ pending' \in SUBSET Services
         /\ insp' = None
  BY DEF TypeOK, Return, Change

\* The same, when the answer of the call may be lost.
LEMMA AnswerType ==
  ASSUME TypeOK, NEW c \in Change, Answer(c)
  PROVE  /\ todo' \in SUBSET Change
         /\ failed' \in SUBSET Services /\ pending' \in SUBSET Services
         /\ insp' = None
         /\ faults' \in 0 .. MaxFaults
<1>1. CASE Return(c, TRUE) /\ UNCHANGED faults
  BY <1>1, ReturnType DEF TypeOK
<1>2. CASE faults < MaxFaults /\ faults' = faults + 1 /\ Return(c, FALSE)
  <2>1. faults' \in 0 .. MaxFaults
    BY <1>2, ConstantsAssumption DEF TypeOK
  <2> QED
    BY <1>2, <2>1, ReturnType
<1> QED
  BY <1>1, <1>2 DEF Answer

\* Type correctness, the invariant TypeOK of the runs: in particular only
\* digests, never tags, reach the plan and the cluster.
THEOREM TypeCorrect == Spec => []TypeOK
<1>1. Init => TypeOK
  <2> SUFFICES ASSUME Init PROVE TypeOK
    OBVIOUS
  <2>1. cfg \in Config /\ signed \in SUBSET (Services \X Digests)
    BY ConstantsAssumption DEF Init
  <2>2. ops \in 0 .. MaxOps /\ faults \in 0 .. MaxFaults
    BY ConstantsAssumption DEF Init
  <2> QED
    BY <2>1, <2>2 DEF Init, TypeOK
<1>2. TypeOK /\ [Next]_vars => TypeOK'
  <2> SUFFICES ASSUME TypeOK, [Next]_vars PROVE TypeOK'
    OBVIOUS
  <2>0. /\ MaxOps \in Nat /\ MaxFaults \in Nat /\ NoOp \in OpVals
        /\ raft + 1 \in Nat
    BY ConstantsAssumption DEF TypeOK
  <2>1. CASE Poll
    BY <2>1, ConstantsAssumption DEF Poll, NoPlan, EndCycle, TypeOK
  <2>2. ASSUME NEW s \in Services, Resolve(s) PROVE TypeOK'
    <3>1. decl[s] \in Decl
      BY <2>2, NoneAssumption DEF Resolve, TypeOK
    <3>2. Resolved(decl[s].ref) \in Digests
      BY <3>1 DEF Resolved, Decl, Refs, TypeOK
    <3> QED
      BY <2>2, <3>1, <3>2 DEF Resolve, TypeOK, Decl, ServiceSpec
  <2>3. CASE Observe
    <3>1. Plan(desired, Observed, cfg.prune) \in SUBSET Change
      BY PlanType, ObservedType DEF TypeOK, Config
    <3> QED
      BY <2>3, <3>1 DEF Observe, EndCycle, TypeOK
  <2>4. CASE Verify
    <3>1. Verdicts(todo) \in SUBSET (Services \X Digests)
      <4>1. \A c \in todo : <<c.svc, c.spec.img>> \in Services \X Digests
        BY DEF TypeOK, Change, ServiceSpec
      <4> QED
        BY <4>1 DEF Verdicts
    <3>2. ASSUME NEW pass \in SUBSET Verdicts(todo), Judge(pass)
          PROVE  /\ approved' \in SUBSET (Services \X Digests)
                 /\ changes' \in SUBSET Change /\ todo' \in SUBSET Change
                 /\ pc' \in {"idle", "resolve", "verify", "apply", "await"}
                 /\ outcome' \in {"running", "preapply", "insync", "nothing",
                       "aborted", "partial", "unconverged", "converged"}
      <4>1. Passed(todo, pass) \in SUBSET Change
        BY DEF Passed, TypeOK
      <4> QED
        BY <3>1, <3>2, <4>1 DEF Judge, EndCycle, TypeOK
    <3>3. PICK pass \in SUBSET Verdicts(todo) : Judge(pass)
      BY <2>4 DEF Verify
    <3>4. faults' \in 0 .. MaxFaults
      BY <2>4, ConstantsAssumption DEF Verify, TypeOK
    <3>5. UNCHANGED <<git, env, world, work, failed, pending, insp, calm>>
      BY <2>4 DEF Verify
    <3> QED
      BY <3>2, <3>3, <3>4, <3>5 DEF TypeOK
  <2>5. ASSUME NEW c \in todo, Skip(c) PROVE TypeOK'
    BY <2>5 DEF Skip, TypeOK
  <2>6. ASSUME NEW c \in todo, Inspect(c) PROVE TypeOK'
    BY <2>6 DEF Inspect, ImmutableChange, Return, TypeOK, Change, Inspection
  <2>7. ASSUME NEW c \in todo, Create(c) PROVE TypeOK'
    <3>1. c \in Change /\ c.svc \in Services /\ c.spec \in ServiceSpec
      BY DEF TypeOK, Change
    <3>2. CASE cluster[c.svc] # None
      BY <2>7, <3>1, <3>2, ReturnType DEF Create, TypeOK
    <3>3. CASE cluster[c.svc] = None
      <4>1. Stored(raft + 1, c.spec, TRUE, NoOp, "swarmgate") \in Service
        BY <2>0, <3>1 DEF Stored, Service, ServiceSpec
      <4>2. Answer(c)
        BY <2>7, <3>3 DEF Create
      <4> QED
        BY <2>7, <3>1, <3>3, <4>1, <4>2, AnswerType, <2>0 DEF Create, TypeOK
    <3> QED
      BY <3>2, <3>3
  <2>8. CASE Update
    <3> DEFINE c == insp.chg
    <3>1. /\ insp \in Inspection
          /\ c \in Change /\ c.svc \in Services /\ c.spec \in ServiceSpec
          /\ insp.svc.id \in Nat /\ insp.svc.op \in OpVals
      BY <2>8 DEF Update, TypeOK, Inspection, Change, Service
    <3>2. CASE ~VersionMatches(insp)
      BY <2>8, <3>1, <3>2, ReturnType DEF Update, TypeOK
    <3>3. CASE VersionMatches(insp)
      <4>1. Stored(insp.svc.id, c.spec, TRUE, insp.svc.op, "swarmgate")
              \in Service
        BY <2>0, <3>1 DEF Stored, Service, ServiceSpec
      <4>2. Answer(c)
        BY <2>8, <3>3 DEF Update
      <4> QED
        BY <2>8, <3>1, <3>3, <4>1, <4>2, AnswerType, <2>0 DEF Update, TypeOK
    <3> QED
      BY <3>2, <3>3
  <2>9. CASE Remove
    <3> DEFINE c == insp.chg
    <3>1. c \in Change /\ c.svc \in Services
      BY <2>9 DEF Remove, TypeOK, Inspection, Change
    <3>2. CASE ~SameInstance(insp)
      BY <2>9, <3>1, <3>2, ReturnType DEF Remove, TypeOK
    <3>3. CASE SameInstance(insp)
      <4>1. Answer(c)
        BY <2>9, <3>3 DEF Remove
      <4> QED
        BY <2>9, <3>1, <3>3, <4>1, AnswerType, <2>0 DEF Remove, TypeOK
    <3> QED
      BY <3>2, <3>3
  <2>10. CASE ApplyDone
    BY <2>10 DEF ApplyDone, EndCycle, TypeOK
  <2>11. CASE AwaitConverged \/ AwaitTimeout
    BY <2>11 DEF AwaitConverged, AwaitTimeout, EndCycle, TypeOK
  <2>12. CASE StageFails \/ Abandon
    <3>1. faults' \in 0 .. MaxFaults
      BY <2>0, <2>12 DEF StageFails, Abandon, TypeOK
    <3> QED
      BY <2>12, <3>1 DEF StageFails, Abandon, EndCycle, NoPlan, TypeOK
  <2>13. ASSUME NEW c \in todo, CallFails(c) PROVE TypeOK'
    BY <2>0, <2>13 DEF CallFails, Return, TypeOK, Change
  <2>14. ASSUME NEW c \in Commits, Push(c) PROVE TypeOK'
    BY <2>0, <2>14 DEF Push, Spend, TypeOK
  <2>15. ASSUME NEW t \in Tags, NEW d \in Digests, MoveTag(t, d) PROVE TypeOK'
    BY <2>0, <2>15 DEF MoveTag, Spend, TypeOK
  <2>16. ASSUME NEW s \in Services, NEW d \in Digests, Sign(s, d) PROVE TypeOK'
    BY <2>0, <2>16 DEF Sign, Spend, TypeOK
  <2>17. ASSUME NEW s \in Services, Rollout(s) PROVE TypeOK'
    BY <2>0, <2>17 DEF Rollout, TypeOK, Service
  <2>18. ASSUME NEW s \in Services, OperatorRemove(s) PROVE TypeOK'
    <3>1. ops' \in 0 .. MaxOps
      BY <2>0, <2>18 DEF OperatorRemove, Spend, TypeOK
    <3> QED
      BY <2>0, <2>18, <3>1 DEF OperatorRemove, TypeOK
  <2>19. ASSUME NEW s \in Services, NEW d \in Digests, NEW a \in Atts,
                NEW m \in BOOLEAN, OperatorCreate(s, d, a, m)
         PROVE  TypeOK'
    <3>1. ops' \in 0 .. MaxOps
      BY <2>0, <2>19 DEF OperatorCreate, Spend, TypeOK
    <3>2. Stored(raft + 1, [img |-> d, att |-> a], m, NoOp, "operator")
            \in Service
      BY <2>0 DEF Stored, Service
    <3> QED
      BY <2>0, <2>19, <3>1, <3>2 DEF OperatorCreate, TypeOK
  <2>20. ASSUME NEW s \in Services, OperatorUpdate(s) PROVE TypeOK'
    <3>1. ops' \in 0 .. MaxOps /\ cluster[s] \in Service
      BY <2>0, <2>20 DEF OperatorUpdate, Spend, TypeOK
    <3>2. \A r \in Edits(cluster[s]) : r \in Service /\ r.id = cluster[s].id
      BY <3>1, EditsType DEF TypeOK
    <3>3. cluster[s].id \in Nat
      BY <3>1 DEF Service
    <3> QED
      BY <2>0, <2>20, <3>1, <3>2, <3>3 DEF OperatorUpdate, TypeOK
  <2>21. CASE UNCHANGED vars
    BY <2>21 DEF vars, TypeOK
  <2> QED
    BY <2>1, <2>2, <2>3, <2>4, <2>5, <2>6, <2>7, <2>8, <2>9, <2>10, <2>11,
       <2>12, <2>13, <2>14, <2>15, <2>16, <2>17, <2>18, <2>19, <2>20, <2>21
    DEF Next, LoopStep, ApplyStep, Failure, Environment, Operator
<1>3. QED
  BY <1>1, <1>2, PTL DEF Spec

-----------------------------------------------------------------------------
(* The gate. *)

\* What passes verify() carries a verdict of this cycle.
LEMMA PassedVerdict ==
  ASSUME NEW cs, NEW pass, NEW c \in Passed(cs, pass), c.act # "remove"
  PROVE  <<c.svc, c.spec.img>> \in pass
  BY DEF Passed

\* With the gate on, a verdict "pass" is one of the policy.
LEMMA VerdictsSigned ==
  ASSUME NEW cs, cfg.gate
  PROVE  Verdicts(cs) \subseteq signed
  BY DEF Verdicts

\* Every image swarmgate writes while the gate is on is one the policy
\* accepts: the invariant GateSafety of the runs, for any number of services,
\* commits, operator actions and failures.
THEOREM GateHolds == Spec => []GateSafety
<1>1. Init => GateInv
  BY DEF Init, GateInv, GateSafety
<1>2. TypeOK /\ GateInv /\ [Next]_vars => GateInv'
  <2> SUFFICES ASSUME TypeOK, GateInv, [Next]_vars, cfg.gate
               PROVE  GateInv'
    <3>1. LoopStep => cfg' = cfg
      BY DEF LoopStep, ApplyStep, Poll, Resolve, Observe, Verify, Skip,
             Inspect, Create, Update, Remove, ApplyDone, AwaitConverged,
             AwaitTimeout
    <3>2. Failure \/ Environment \/ UNCHANGED vars => cfg' = cfg
      BY DEF Failure, StageFails, Abandon, CallFails, Environment, Push,
             MoveTag, Sign, Rollout, Operator, OperatorCreate, OperatorUpdate,
             OperatorRemove, vars
    <3>3. [Next]_vars => cfg' = cfg
      BY <3>1, <3>2 DEF Next
    <3> QED
      BY <3>3 DEF GateInv, GateSafety
  <2> USE NoneAssumption DEF GateInv, GateSafety, Accepted
  <2>1. CASE Poll
    BY <2>1 DEF Poll, NoPlan, EndCycle
  <2>2. ASSUME NEW s \in Services, Resolve(s) PROVE GateInv'
    BY <2>2 DEF Resolve
  <2>3. CASE Observe
    BY <2>3 DEF Observe, EndCycle
  <2>4. CASE Verify
    <3>1. PICK pass \in SUBSET Verdicts(todo) : Judge(pass)
      BY <2>4 DEF Verify
    <3>2. \A c \in Passed(todo, pass) :
            c.act # "remove" => <<c.svc, c.spec.img>> \in signed
      BY PassedVerdict, VerdictsSigned
    <3> QED
      BY <2>4, <3>1, <3>2 DEF Verify, Judge, EndCycle
  <2>5. ASSUME NEW c \in todo, Skip(c) PROVE GateInv'
    BY <2>5 DEF Skip
  <2>6. ASSUME NEW c \in todo, Inspect(c) PROVE GateInv'
    BY <2>6 DEF Inspect, ImmutableChange, Return
  <2>7. ASSUME NEW c \in todo, Create(c) PROVE GateInv'
    BY <2>7 DEF Create, Answer, Return, Stored, TypeOK
  <2>8. CASE Update
    BY <2>8 DEF Update, Answer, Return, Stored, TypeOK
  <2>9. CASE Remove
    <3>1. todo' \subseteq todo /\ insp' = None
      BY <2>9 DEF Remove, Answer, Return
    <3>2. \A s \in Services : cluster'[s] = cluster[s] \/ cluster'[s] = None
      BY <2>9 DEF Remove, TypeOK
    <3> QED
      BY <2>9, <3>1, <3>2 DEF Remove
  <2>10. CASE ApplyDone \/ AwaitConverged \/ AwaitTimeout
    BY <2>10 DEF ApplyDone, AwaitConverged, AwaitTimeout, EndCycle
  <2>11. CASE StageFails \/ Abandon
    BY <2>11 DEF StageFails, Abandon, EndCycle, NoPlan
  <2>12. ASSUME NEW c \in todo, CallFails(c) PROVE GateInv'
    BY <2>12 DEF CallFails, Return
  <2>13. ASSUME NEW c \in Commits, Push(c) PROVE GateInv'
    BY <2>13 DEF Push
  <2>14. ASSUME NEW t \in Tags, NEW d \in Digests, MoveTag(t, d) PROVE GateInv'
    BY <2>14 DEF MoveTag
  <2>15. ASSUME NEW s \in Services, NEW d \in Digests, Sign(s, d) PROVE GateInv'
    BY <2>15 DEF Sign
  <2>16. ASSUME NEW s \in Services, Rollout(s) PROVE GateInv'
    BY <2>16 DEF Rollout, TypeOK
  <2>17. ASSUME NEW s \in Services, OperatorRemove(s) PROVE GateInv'
    BY <2>17 DEF OperatorRemove, TypeOK
  <2>18. ASSUME NEW s \in Services, NEW d \in Digests, NEW a \in Atts,
                NEW m \in BOOLEAN, OperatorCreate(s, d, a, m)
         PROVE  GateInv'
    BY <2>18 DEF OperatorCreate, Stored, TypeOK
  <2>19. ASSUME NEW s \in Services, OperatorUpdate(s) PROVE GateInv'
    <3>1. cluster[s] \in Service
      BY <2>19 DEF OperatorUpdate, TypeOK
    <3>2. PICK r \in Edits(cluster[s]) : cluster' = [cluster EXCEPT ![s] = r]
      BY <2>19 DEF OperatorUpdate
    <3>3. r.by = "operator" \/ (r.by = cluster[s].by /\ r.img = cluster[s].img)
      BY <3>1, EditsType DEF TypeOK
    <3> QED
      BY <2>19, <3>1, <3>2, <3>3 DEF OperatorUpdate, TypeOK
  <2>20. CASE UNCHANGED vars
    BY <2>20 DEF vars
  <2> HIDE DEF GateInv, GateSafety, Accepted
  <2>21. CASE LoopStep
    BY <2>21, <2>1, <2>2, <2>3, <2>4, <2>5, <2>6, <2>7, <2>8, <2>9, <2>10
    DEF LoopStep, ApplyStep
  <2>22. CASE Failure
    BY <2>22, <2>11, <2>12 DEF Failure
  <2>23. CASE Environment
    BY <2>23, <2>13, <2>14, <2>15, <2>16, <2>17, <2>18, <2>19
    DEF Environment, Operator
  <2> QED
    BY <2>20, <2>21, <2>22, <2>23 DEF Next
<1>3. GateInv => GateSafety
  BY DEF GateInv, GateSafety
<1> QED
  BY <1>1, <1>2, <1>3, TypeCorrect, PTL DEF Spec

-----------------------------------------------------------------------------
(* The optimistic lock, and the removal by ID. *)

\* An inspection whose version is still current is the current service, and a
\* labelled service, or one inspected for removal, has a known ID.
LEMMA LockInvariant == Spec => []LockInv
<1>1. Init => LockInv
  BY DEF Init, LockInv
<1>2. TypeOK /\ LockInv /\ [Next]_vars => LockInv'
  <2> SUFFICES ASSUME TypeOK, LockInv, [Next]_vars PROVE LockInv'
    OBVIOUS
  <2>0. /\ raft \in Nat
        /\ \A s \in Services : cluster[s] # None => cluster[s] \in Service
        /\ \A x \in Service : x.ver \in Nat /\ x.id \in Nat
        /\ insp # None => insp \in Inspection /\ insp.chg \in Change
                            /\ insp.chg.svc \in Services
                            /\ insp.svc \in Service
    BY DEF TypeOK, Service, Inspection, Change
  \* Any write stores version raft + 1, which no inspection carries.
  <2>1. ASSUME NEW s \in Services, NEW r, raft' = raft + 1,
               cluster' = [cluster EXCEPT ![s] = r],
               r # None => r.ver = raft + 1 /\ (r.managed => r.id \in owned'),
               owned \subseteq owned', insp' = insp \/ insp' = None
        PROVE  LockInv'
    BY <2>0, <2>1, NoneAssumption DEF LockInv, TypeOK
  <2>2. ASSUME UNCHANGED world, insp' = insp \/ insp' = None PROVE LockInv'
    BY <2>2, NoneAssumption DEF LockInv
  <2>3. CASE Poll \/ (\E s \in Services : Resolve(s)) \/ Observe \/ Verify
               \/ ApplyDone \/ AwaitConverged \/ AwaitTimeout
    BY <2>2, <2>3 DEF Poll, NoPlan, Resolve, Observe, Verify, ApplyDone,
       AwaitConverged, AwaitTimeout
  <2>4. ASSUME NEW c \in todo, Skip(c) \/ CallFails(c) PROVE LockInv'
    BY <2>2, <2>4 DEF Skip, CallFails, Return
  <2>5. CASE StageFails \/ Abandon
    BY <2>2, <2>5 DEF StageFails, Abandon, NoPlan
  <2>6. ASSUME NEW c \in todo, Inspect(c) PROVE LockInv'
    <3>1. CASE insp' = None
      BY <2>2, <2>6, <3>1 DEF Inspect
    <3>2. CASE insp' # None
      <4>1. /\ insp' = [chg |-> c, svc |-> cluster[c.svc]]
            /\ cluster[c.svc] # None
            /\ c.act = "remove" => cluster[c.svc].managed
            /\ UNCHANGED world
        BY <2>6, <3>2 DEF Inspect, ImmutableChange, Return
      <4>2. c.svc \in Services
        BY DEF TypeOK, Change
      <4> QED
        BY <4>1, <4>2, <2>0 DEF LockInv
    <3> QED
      BY <3>1, <3>2
  <2>7. ASSUME NEW c \in todo, Create(c) PROVE LockInv'
    <3>1. insp' = None /\ c.svc \in Services
      BY <2>7 DEF Create, Answer, Return, TypeOK, Change
    <3>2. CASE cluster[c.svc] # None
      BY <2>2, <2>7, <3>1, <3>2 DEF Create
    <3>3. CASE cluster[c.svc] = None
      BY <2>1, <2>7, <3>1, <3>3 DEF Create, Stored
    <3> QED
      BY <3>2, <3>3
  <2>8. CASE Update
    <3>1. insp' = None /\ insp.chg.svc \in Services
      BY <2>0, <2>8 DEF Update, Answer, Return
    <3>2. CASE ~VersionMatches(insp)
      BY <2>2, <2>8, <3>1, <3>2 DEF Update
    <3>3. CASE VersionMatches(insp)
      BY <2>1, <2>8, <3>1, <3>3 DEF Update, Stored
    <3> QED
      BY <3>2, <3>3
  <2>9. CASE Remove
    <3>1. insp' = None /\ insp.chg.svc \in Services
      BY <2>0, <2>9 DEF Remove, Answer, Return
    <3>2. CASE ~SameInstance(insp)
      BY <2>2, <2>9, <3>1, <3>2 DEF Remove
    <3>3. CASE SameInstance(insp)
      BY <2>1, <2>9, <3>1, <3>3 DEF Remove
    <3> QED
      BY <3>2, <3>3
  <2>10. CASE \/ \E c \in Commits : Push(c)
              \/ \E t \in Tags, d \in Digests : MoveTag(t, d)
              \/ \E s \in Services, d \in Digests : Sign(s, d)
    BY <2>2, <2>10 DEF Push, MoveTag, Sign
  <2>11. ASSUME NEW s \in Services, Rollout(s) PROVE LockInv'
    <3> DEFINE r == [id |-> cluster[s].id, ver |-> raft + 1,
                     img |-> cluster[s].img, att |-> cluster[s].att,
                     managed |-> cluster[s].managed, op |-> cluster[s].op,
                     up |-> TRUE, by |-> cluster[s].by]
    <3>1. /\ cluster' = [cluster EXCEPT ![s] = r] /\ raft' = raft + 1
          /\ UNCHANGED <<owned, insp>> /\ cluster[s] # None
      BY <2>11 DEF Rollout
    <3>2. r.ver = raft + 1 /\ (r.managed => r.id \in owned)
      BY <3>1 DEF LockInv
    <3> HIDE DEF r
    <3> QED
      BY <2>1, <3>1, <3>2
  <2>12. ASSUME NEW s \in Services, OperatorRemove(s) PROVE LockInv'
    BY <2>1, <2>12 DEF OperatorRemove
  <2>13. ASSUME NEW s \in Services, NEW d \in Digests, NEW a \in Atts,
                NEW m \in BOOLEAN, OperatorCreate(s, d, a, m)
         PROVE  LockInv'
    BY <2>1, <2>13 DEF OperatorCreate, Stored
  <2>14. ASSUME NEW s \in Services, OperatorUpdate(s) PROVE LockInv'
    <3>1. cluster[s] \in Service
      BY <2>0, <2>14 DEF OperatorUpdate
    <3>2. PICK r \in Edits(cluster[s]) :
            /\ cluster' = [cluster EXCEPT ![s] = r]
            /\ owned' = IF r.managed THEN owned \cup {r.id} ELSE owned
      BY <2>14 DEF OperatorUpdate
    <3>3. r.ver = raft + 1
      BY <2>0, <3>1, EditsType
    <3> QED
      BY <2>1, <2>14, <3>2, <3>3 DEF OperatorUpdate
  <2>15. CASE UNCHANGED vars
    BY <2>2, <2>15 DEF vars
  <2> QED
    BY <2>3, <2>4, <2>5, <2>6, <2>7, <2>8, <2>9, <2>10, <2>11, <2>12, <2>13,
       <2>14, <2>15
    DEF Next, LoopStep, ApplyStep, Failure, Environment, Operator
<1> QED
  BY <1>1, <1>2, TypeCorrect, PTL DEF Spec

\* The steps that are Applying are those of Create, Update and Remove.
LEMMA ApplyingSteps ==
  ASSUME TypeOK, [Next]_vars, Applying
  PROVE  (\E c \in todo : Create(c)) \/ Update \/ Remove
  BY DEF Applying, Next, vars, LoopStep, ApplyStep, Failure, Environment,
     Operator, Poll, Resolve, Observe, Verify, Skip, Inspect, ApplyDone,
     AwaitConverged, AwaitTimeout, StageFails, Abandon, CallFails, Push,
     MoveTag, Sign, Rollout, OperatorCreate, OperatorUpdate, OperatorRemove,
     EndCycle, Return

\* swarmgate's updates keep the operator's settings, those made between its
\* inspection and its write included, for every interleaving: the property
\* OperatorSettingsSurvive of the runs.
THEOREM SettingsKept == Spec => OperatorSettingsSurvive
<1>1. ASSUME TypeOK, LockInv, [Next]_vars, NEW s \in Services,
             Applying, cluster[s] # None, cluster'[s] # None
      PROVE  cluster'[s].op = cluster[s].op
  <2>1. ASSUME NEW c \in todo, Create(c) PROVE cluster'[s].op = cluster[s].op
    BY <1>1, <2>1 DEF Create, TypeOK
  <2>2. CASE Update
    <3>1. CASE s # insp.chg.svc \/ ~VersionMatches(insp)
      BY <1>1, <2>2, <3>1 DEF Update, TypeOK
    <3>2. CASE s = insp.chg.svc /\ VersionMatches(insp)
      <4>1. cluster[s] = insp.svc
        BY <2>2, <3>2, <1>1 DEF Update, VersionMatches, LockInv
      <4> QED
        BY <1>1, <2>2, <3>2, <4>1 DEF Update, Stored, TypeOK
    <3> QED
      BY <3>1, <3>2
  <2>3. CASE Remove
    BY <1>1, <2>3 DEF Remove, TypeOK
  <2> QED
    BY <1>1, <2>1, <2>2, <2>3, ApplyingSteps
<1>2. TypeOK /\ LockInv /\ [Next]_vars =>
        [\A s \in Services :
           Applying /\ cluster[s] # None /\ cluster'[s] # None
             => cluster'[s].op = cluster[s].op]_vars
  BY <1>1
<1> QED
  BY <1>2, TypeCorrect, LockInvariant, PTL DEF Spec, OperatorSettingsSurvive

\* The one step of the apply loop after which a service is gone is the removal
\* of the instance that was inspected.
LEMMA TakenDown ==
  ASSUME TypeOK, [Next]_vars, Applying,
         NEW s \in Services, cluster[s] # None, cluster'[s] = None
  PROVE  Remove /\ insp.chg.svc = s /\ SameInstance(insp)
<1>1. ASSUME NEW c \in todo, Create(c) PROVE FALSE
  BY <1>1 DEF Create, TypeOK
<1>2. CASE Update
  <2> DEFINE new == Stored(insp.svc.id, insp.chg.spec, TRUE, insp.svc.op,
                           "swarmgate")
  <2>1. /\ raft + 1 \in Nat /\ insp \in Inspection
        /\ insp.chg.spec \in ServiceSpec
        /\ insp.svc.id \in Nat /\ insp.svc.op \in OpVals
    BY <1>2 DEF Update, TypeOK, Inspection, Change, Service
  <2>2. new # None
    <3>1. new \in Service
      BY <2>1 DEF Stored, Service, ServiceSpec
    <3> HIDE DEF new
    <3> QED
      BY <3>1, NoneAssumption
  <2>3. cluster' = cluster \/ cluster' = [cluster EXCEPT ![insp.chg.svc] = new]
    BY <1>2 DEF Update
  <2> HIDE DEF new
  <2> QED
    BY <2>2, <2>3 DEF TypeOK
<1>3. CASE Remove
  BY <1>3 DEF Remove, TypeOK
<1> QED
  BY <1>1, <1>2, <1>3, ApplyingSteps

\* swarmgate never removes a service instance that has not carried its label:
\* the property NeverRemovesForeign of the runs.
THEOREM ForeignKept == Spec => NeverRemovesForeign
<1>1. ASSUME TypeOK, LockInv, [Next]_vars, NEW s \in Services,
             Applying, cluster[s] # None, cluster'[s] = None
      PROVE  cluster[s].id \in owned
  <2>1. Remove /\ insp.chg.svc = s /\ SameInstance(insp)
    BY <1>1, TakenDown
  <2> QED
    BY <1>1, <2>1 DEF Remove, SameInstance, LockInv
<1>2. TypeOK /\ LockInv /\ [Next]_vars =>
        [\A s \in Services :
           Applying /\ cluster[s] # None /\ cluster'[s] = None
             => cluster[s].id \in owned]_vars
  BY <1>1
<1> QED
  BY <1>2, TypeCorrect, LockInvariant, PTL DEF Spec, NeverRemovesForeign

-----------------------------------------------------------------------------
(* What a cycle reports. *)

\* Every change of the plan does what the desired state asks.
LEMMA PlanFaithful ==
  ASSUME NEW prune, NEW c \in Plan(desired, Observed, prune)
  PROVE  Faithful(c)
<1>1. CASE \E s \in Updates(desired, Observed) :
             \/ c = Chg("remove", s, Observed[s], TRUE)
             \/ c = Chg("create", s, desired[s], TRUE)
             \/ c = Chg("update", s, desired[s], FALSE)
  BY <1>1 DEF Updates, Faithful, Chg
<1>2. CASE \E s \in Creates(desired, Observed) :
             c = Chg("create", s, desired[s], FALSE)
  BY <1>2 DEF Creates, Faithful, Chg
<1>3. CASE \E s \in Removes(desired, Observed) :
             c = Chg("remove", s, Observed[s], FALSE)
  BY <1>3 DEF Removes, Faithful, Chg
<1> QED
  BY <1>1, <1>2, <1>3 DEF Plan, PlanRemoving

\* The plan brings every service to what is desired that is not there yet,
\* except those that are to go while pruning is off.
LEMMA PlanAccounts ==
  ASSUME NEW s \in Services
  PROVE  Accounted(Plan(desired, Observed, cfg.prune), s)
<1> DEFINE plan == Plan(desired, Observed, cfg.prune)
<1>1. ASSUME NEW c \in plan, c.svc = s, c.act = "remove" => ~c.recreate
      PROVE  Brings(plan, s)
  <2>1. Faithful(c)
    BY PlanFaithful
  <2> QED
    BY <1>1, <2>1 DEF Brings
<1>2. CASE s \in Updates(desired, Observed)
  <2>1. \/ Chg("create", s, desired[s], TRUE) \in plan
        \/ Chg("update", s, desired[s], FALSE) \in plan
    BY <1>2 DEF Plan, PlanRemoving
  <2> QED
    BY <1>1, <2>1 DEF Accounted, Chg
<1>3. CASE s \in Creates(desired, Observed)
  <2>1. Chg("create", s, desired[s], FALSE) \in plan
    BY <1>3 DEF Plan, PlanRemoving
  <2> QED
    BY <1>1, <2>1 DEF Accounted, Chg
<1>4. CASE s \in Removes(desired, Observed) /\ cfg.prune
  <2>1. Chg("remove", s, Observed[s], FALSE) \in plan
    BY <1>4 DEF Plan, PlanRemoving
  <2> QED
    BY <1>1, <2>1 DEF Accounted, Chg
<1> QED
  BY <1>2, <1>3, <1>4 DEF Updates, Creates, Removes, Accounted

\* The rollout of a service leaves the snapshot as it is, and a write to one
\* service that of the others.
LEMMA ObservedKept ==
  ASSUME TypeOK, NEW s \in Services, NEW r,
         cluster' = [cluster EXCEPT ![s] = r]
  PROVE  /\ \A t \in Services \ {s} : Observed'[t] = Observed[t]
         /\ (r # None /\ cluster[s] # None /\ r.managed = cluster[s].managed
               /\ r.img = cluster[s].img /\ r.att = cluster[s].att)
               => Observed'[s] = Observed[s]
  BY DEF Observed, TypeOK

\* What the gate lets through.  Of a recreate pair the removal passes only
\* with the create, so every service that a change of keep touches is approved
\* and brought to what is desired.
LEMMA PassedBrings ==
  ASSUME NEW cs, NEW pass, \A c \in cs : Faithful(c),
         NEW c \in Passed(cs, pass)
  PROVE  /\ desired[c.svc] # None => <<c.svc, desired[c.svc].img>> \in pass
         /\ Brings(Passed(cs, pass), c.svc)
<1>0. c \in cs /\ Faithful(c)
  BY DEF Passed
<1>1. CASE c.act # "remove"
  BY <1>0, <1>1 DEF Passed, Faithful, Brings
<1>2. CASE c.act = "remove" /\ ~c.recreate
  BY <1>0, <1>2 DEF Faithful, Brings
<1>3. CASE c.act = "remove" /\ c.recreate
  <2>1. PICK d \in cs : /\ d.act = "create" /\ d.svc = c.svc
                        /\ <<d.svc, d.spec.img>> \in pass
    BY <1>3 DEF Passed
  <2>2. d \in Passed(cs, pass) /\ Faithful(d)
    BY <2>1 DEF Passed
  <2> QED
    BY <2>1, <2>2 DEF Faithful, Brings
<1> QED
  BY <1>1, <1>2, <1>3

\* PlanInv is inductive relative to the types.
LEMMA PlanInvariant == Spec => []PlanInv
<1>1. Init => PlanInv
  BY DEF Init, PlanInv, OutcomeHonest
<1>2. TypeOK /\ PlanInv /\ [Next]_vars => PlanInv'
  <2> SUFFICES ASSUME TypeOK, PlanInv, [Next]_vars PROVE PlanInv'
    OBVIOUS
  <2>0. /\ \A c \in todo : c.svc \in Services
        /\ insp # None => pc = "apply" /\ insp.chg \in todo
    BY DEF TypeOK, Change, PlanInv
  \* A step within a stage that touches at most services of the plan.
  <2>1. ASSUME UNCHANGED <<pc, cfg, desired, changes, approved, outcome,
                           calm>>,
               todo' = todo \/ (pc = "apply" /\ todo' \subseteq todo),
               insp' # None => pc = "apply" /\ insp'.chg \in todo',
               \A s \in Services :
                 \/ Observed'[s] = Observed[s]
                 \/ pc = "apply" /\ \E c \in todo : c.svc = s
        PROVE  PlanInv'
    <3>1. \A c : Faithful(c)' = Faithful(c)
      BY <2>1 DEF Faithful
    <3>2. \A s : /\ Approves(s)' = Approves(s)
                 /\ Brings(changes, s)' = Brings(changes, s)
                 /\ Brings(todo, s) /\ todo' = todo => Brings(todo, s)'
      BY <2>1, <3>1 DEF Approves, Brings
    <3>3. pc = "verify" /\ calm => \A s \in Services : Accounted(todo, s)'
      BY <2>1, <3>2 DEF PlanInv, Accounted
    <3>4. pc = "apply" =>
            \A c \in todo' : Approves(c.svc)' /\ Brings(changes, c.svc)'
      BY <2>1, <3>2 DEF PlanInv
    <3>5. ASSUME pc \in {"apply", "await"} /\ calm, NEW s \in Services
          PROVE  \/ Accounted(changes, s)'
                 \/ cfg.gate /\ cfg.mode = "per-service" /\ ~Approves(s)'
      BY <2>1, <3>2, <3>5 DEF PlanInv, Accounted
    <3>6. ASSUME pc = "apply" /\ calm /\ cfg.mode = "abort-cycle",
                 NEW s \in Services, ~Approves(s)'
          PROVE  (Observed[s] = desired[s])'
      BY <2>1, <3>2, <3>6 DEF PlanInv
    <3>7. OutcomeHonest'
      BY <2>1 DEF PlanInv, OutcomeHonest
    <3> QED
      BY <2>1, <3>1, <3>3, <3>4, <3>5, <3>6, <3>7 DEF PlanInv
  \* A step of the operator.
  <2>2. ASSUME UNCHANGED <<pc, cfg, desired, changes, todo, insp, approved>>,
               calm' = FALSE
        PROVE  PlanInv'
    BY <2>2 DEF PlanInv, OutcomeHonest, Faithful, Approves, Brings
  \* A step that ends the cycle without a claim, or comes before the plan.
  <2>3. ASSUME insp' = None,
               \/ pc' = "resolve"
               \/ pc' = "idle" /\ outcome' \notin {"converged", "insync"}
        PROVE  PlanInv'
    BY <2>3 DEF PlanInv, OutcomeHonest
  <2>4. CASE Poll \/ StageFails \/ Abandon \/ AwaitTimeout
                  \/ \E s \in Services : Resolve(s)
    BY <2>0, <2>3, <2>4 DEF Poll, StageFails, Abandon, AwaitTimeout, Resolve,
       NoPlan, EndCycle
  <2>5. CASE Observe
    <3>1. /\ insp' = None
          /\ UNCHANGED <<cfg, desired, cluster>>
      BY <2>0, <2>5 DEF Observe
    <3>2. CASE DiffEmpty(desired, Observed)
      <4>1. pc' = "idle" /\ \A s \in Services : (Observed[s] = desired[s])'
        BY <2>5, <3>1, <3>2 DEF Observe, EndCycle, DiffEmpty, Observed
      <4> QED
        BY <3>1, <4>1 DEF PlanInv, OutcomeHonest
    <3>3. CASE ~DiffEmpty(desired, Observed)
      <4>1. pc' = "verify" /\ todo' = Plan(desired, Observed, cfg.prune)
        BY <2>5, <3>3 DEF Observe
      <4>2. \A c \in todo' : Faithful(c)'
        BY <3>1, <4>1, PlanFaithful DEF Faithful
      <4>3. \A s \in Services : Accounted(todo, s)'
        <5>1. \A s : Brings(todo', s) => Brings(todo, s)'
          BY <3>1 DEF Brings, Faithful
        <5>2. Observed' = Observed
          BY <3>1 DEF Observed
        <5> QED
          BY <3>1, <4>1, <5>1, <5>2, PlanAccounts DEF Accounted
      <4> QED
        BY <3>1, <4>1, <4>2, <4>3 DEF PlanInv, OutcomeHonest
    <3> QED
      BY <3>2, <3>3
  <2>6. CASE Verify
    <3>1. PICK pass \in SUBSET Verdicts(todo) :
            Judge(pass) /\ (~cfg.gate => pass = Verdicts(todo))
      BY <2>6 DEF Verify
    <3>2. /\ insp' = None
          /\ UNCHANGED <<cfg, desired, cluster, calm>>
          /\ pc = "verify"
      BY <2>0, <2>6 DEF Verify
    <3>3. CASE pc' = "idle"
      BY <2>3, <3>1, <3>2, <3>3 DEF Judge, EndCycle
    <3>4. CASE pc' # "idle"
      <4> DEFINE keep == Passed(todo, pass)
      <4>1. /\ pc' = "apply" /\ changes' = keep /\ todo' = keep
            /\ approved' = pass /\ ~Aborts(todo, pass)
        BY <3>1, <3>4 DEF Judge, EndCycle
      <4>2. /\ \A c \in todo : Faithful(c)
            /\ calm => \A s \in Services : Accounted(todo, s)
        BY <3>2 DEF PlanInv
      <4>3. \A c : Faithful(c)' = Faithful(c)
        BY <3>2 DEF Faithful
      <4>4. \A s : Brings(keep, s) => Brings(changes, s)'
        BY <4>1, <4>3 DEF Brings
      <4>5. \A c \in todo' : /\ Faithful(c)'
                             /\ Approves(c.svc)' /\ Brings(changes, c.svc)'
        <5>1. \A c \in keep : c \in todo
          BY DEF Passed
        <5>2. \A c \in keep :
                /\ desired[c.svc] # None
                     => <<c.svc, desired[c.svc].img>> \in pass
                /\ Brings(keep, c.svc)
          BY <4>2, PassedBrings
        <5> HIDE DEF keep
        <5> QED
          BY <3>2, <4>1, <4>2, <4>3, <4>4, <5>1, <5>2 DEF Approves
      \* What the gate keeps back of the plan of a service.
      <4>6. ASSUME NEW s \in Services, calm
            PROVE  /\ \/ Accounted(changes, s)'
                      \/ cfg.gate /\ cfg.mode = "per-service" /\ ~Approves(s)'
                   /\ cfg.mode = "abort-cycle" /\ ~Approves(s)'
                        => (Observed[s] = desired[s])'
        <5>0. Observed' = Observed
          BY <3>2 DEF Observed
        <5>1. CASE Observed[s] = desired[s] \/ (desired[s] = None /\ ~cfg.prune)
          BY <3>2, <5>0, <5>1 DEF Accounted, Approves
        <5>2. CASE Brings(todo, s)
          <6>1. PICK c \in todo : /\ c.svc = s /\ Faithful(c)
                                  /\ c.act = "remove" => ~c.recreate
            BY <5>2 DEF Brings
          <6>2. CASE c \in keep
            <7>1. Brings(keep, s)
              BY <6>1, <6>2 DEF Brings
            <7> HIDE DEF keep
            <7> QED
              BY <6>1, <6>2, <4>1, <4>4, <4>5, <7>1 DEF Accounted
          <6>3. CASE c \notin keep
            <7>1. c.act # "remove" /\ <<c.svc, c.spec.img>> \notin pass
              BY <6>1, <6>3 DEF Passed
            <7>2. ~AllPassed(todo, pass)
              BY <7>1 DEF AllPassed
            <7>3. cfg.mode = "per-service"
              BY <4>1, <7>2 DEF Aborts, TypeOK, Config
            <7>4. cfg.gate
              BY <3>1, <7>1 DEF Verdicts
            <7>5. ~Approves(s)'
              BY <3>2, <4>1, <6>1, <7>1 DEF Faithful, Approves
            <7> QED
              BY <3>2, <7>3, <7>4, <7>5
          <6> QED
            BY <6>2, <6>3
        <5> QED
          BY <4>2, <4>6, <5>1, <5>2 DEF Accounted
      <4> HIDE DEF keep
      <4> QED
        BY <3>2, <4>1, <4>5, <4>6 DEF PlanInv, OutcomeHonest
    <3> QED
      BY <3>3, <3>4
  <2>7. ASSUME NEW c \in todo, Skip(c) \/ CallFails(c) PROVE PlanInv'
    <3>1. UNCHANGED <<pc, cfg, desired, changes, approved, outcome, calm,
                      cluster>>
      BY <2>7 DEF Skip, CallFails
    <3>2. pc = "apply" /\ todo' \subseteq todo /\ insp' = None
      BY <2>7 DEF Skip, CallFails, Return
    <3> QED
      BY <2>1, <3>1, <3>2 DEF Observed
  <2>8. ASSUME NEW c \in todo, Inspect(c) PROVE PlanInv'
    <3>1. UNCHANGED <<pc, cfg, desired, changes, approved, outcome, calm,
                      cluster>>
      BY <2>8 DEF Inspect
    <3>2. /\ pc = "apply"
          /\ \/ todo' = todo /\ insp'.chg = c
             \/ todo' \subseteq todo /\ insp' = None
      BY <2>8 DEF Inspect, ImmutableChange, Return
    <3> QED
      BY <2>1, <3>1, <3>2 DEF Observed
  \* A write of the apply loop.
  <2>9. ASSUME NEW c \in todo, NEW r,
               UNCHANGED <<pc, cfg, desired, changes, approved, outcome, calm>>,
               pc = "apply", todo' \subseteq todo, insp' = None,
               cluster' = cluster \/ cluster' = [cluster EXCEPT ![c.svc] = r]
        PROVE  PlanInv'
    <3>1. \A s \in Services : Observed'[s] = Observed[s] \/ c.svc = s
      <4>1. CASE cluster' = cluster
        BY <4>1 DEF Observed
      <4>2. CASE cluster' = [cluster EXCEPT ![c.svc] = r]
        BY <2>0, <4>2, ObservedKept
      <4> QED
        BY <2>9, <4>1, <4>2
    <3> QED
      BY <2>1, <2>9, <3>1
  <2>10. ASSUME NEW c \in todo, Create(c) PROVE PlanInv'
    <3>1. UNCHANGED <<pc, cfg, desired, changes, approved, outcome, calm>>
      BY <2>10 DEF Create
    <3>2. pc = "apply" /\ todo' \subseteq todo /\ insp' = None
      BY <2>10 DEF Create, Answer, Return
    <3>3. \E r : cluster' = cluster \/ cluster' = [cluster EXCEPT ![c.svc] = r]
      BY <2>10 DEF Create
    <3> QED
      BY <2>9, <3>1, <3>2, <3>3
  <2>11. CASE Update \/ Remove
    <3>1. UNCHANGED <<pc, cfg, desired, changes, approved, outcome, calm>>
      BY <2>11 DEF Update, Remove
    <3>2. pc = "apply" /\ todo' \subseteq todo /\ insp' = None
      BY <2>11 DEF Update, Remove, Answer, Return
    <3>3. /\ insp.chg \in todo
          /\ \E r : \/ cluster' = cluster
                    \/ cluster' = [cluster EXCEPT ![insp.chg.svc] = r]
      BY <2>0, <2>11 DEF Update, Remove
    <3> QED
      BY <2>9, <3>1, <3>2, <3>3
  <2>12. CASE ApplyDone
    <3>1. /\ todo' = {} /\ insp' = None
          /\ UNCHANGED <<cfg, desired, changes, approved, calm, cluster>>
          /\ pc = "apply"
      BY <2>0, <2>12 DEF ApplyDone
    <3>2. CASE pc' = "idle"
      BY <2>3, <2>12, <3>1, <3>2 DEF ApplyDone, EndCycle
    <3>3. CASE pc' # "idle"
      <4>1. pc' = "await"
        BY <2>12, <3>3 DEF ApplyDone, EndCycle
      <4>2. \A s : /\ Accounted(changes, s)' = Accounted(changes, s)
                   /\ Approves(s)' = Approves(s)
        BY <3>1 DEF Accounted, Brings, Faithful, Approves, Observed
      <4> QED
        BY <3>1, <4>1, <4>2 DEF PlanInv, OutcomeHonest
    <3> QED
      BY <3>2, <3>3
  <2>13. CASE AwaitConverged
    <3>1. /\ insp' = None /\ pc = "await" /\ pc' = "idle"
          /\ outcome' = "converged"
          /\ UNCHANGED <<cfg, desired, approved, calm, cluster>>
          /\ \A c \in changes : Reached(c)
      BY <2>0, <2>13 DEF AwaitConverged, EndCycle
    <3>2. ASSUME NEW s \in Services, Brings(changes, s)
          PROVE  Observed[s] = desired[s]
      <4>1. PICK c \in changes : /\ c.svc = s /\ Faithful(c) /\ Reached(c)
                                 /\ c.act = "remove" => ~c.recreate
        BY <3>1, <3>2 DEF Brings
      <4>2. CASE c.act = "remove"
        BY <4>1, <4>2 DEF Faithful, Reached, Observed
      <4>3. CASE c.act # "remove"
        <5>1. desired[s] = [img |-> desired[s].img, att |-> desired[s].att]
          BY <4>1, <4>3 DEF Faithful, TypeOK, ServiceSpec
        <5>2. Observed[s] = [img |-> desired[s].img, att |-> desired[s].att]
          BY <4>1, <4>3 DEF Faithful, Reached, Observed
        <5> QED
          BY <5>1, <5>2
      <4> QED
        BY <4>2, <4>3
    <3>3. ASSUME NEW s \in Services, calm
          PROVE  \/ Observed[s] = desired[s]
                 \/ desired[s] = None /\ ~cfg.prune
                 \/ cfg.gate /\ ~Approves(s)
      BY <3>1, <3>2, <3>3 DEF PlanInv, Accounted
    <3>4. OutcomeHonest'
      <4>1. Observed' = Observed
        BY <3>1 DEF Observed
      <4> QED
        BY <3>1, <3>3, <4>1 DEF OutcomeHonest, Approves
    <3> QED
      BY <3>1, <3>4 DEF PlanInv
  <2>14. CASE \/ \E c \in Commits : Push(c)
              \/ \E t \in Tags, d \in Digests : MoveTag(t, d)
              \/ \E s \in Services, d \in Digests : Sign(s, d)
              \/ UNCHANGED vars
    <3>1. UNCHANGED <<pc, cfg, desired, changes, todo, insp, approved, outcome,
                      calm, cluster>>
      BY <2>14 DEF Push, MoveTag, Sign, vars
    <3> QED
      BY <2>0, <2>1, <3>1 DEF Observed
  <2>15. ASSUME NEW s \in Services, Rollout(s) PROVE PlanInv'
    <3> DEFINE r == [id |-> cluster[s].id, ver |-> raft + 1,
                     img |-> cluster[s].img, att |-> cluster[s].att,
                     managed |-> cluster[s].managed, op |-> cluster[s].op,
                     up |-> TRUE, by |-> cluster[s].by]
    <3>1. /\ UNCHANGED <<pc, cfg, desired, changes, todo, insp, approved,
                         outcome, calm>>
          /\ cluster' = [cluster EXCEPT ![s] = r] /\ cluster[s] # None
      BY <2>15 DEF Rollout
    <3>2. r # None
      <4>1. r \in Service
        BY <3>1 DEF TypeOK, Service
      <4> HIDE DEF r
      <4> QED
        BY <4>1, NoneAssumption
    <3>3. /\ r.managed = cluster[s].managed /\ r.img = cluster[s].img
          /\ r.att = cluster[s].att
      OBVIOUS
    <3> HIDE DEF r
    <3>4. \A t \in Services : Observed'[t] = Observed[t]
      BY <3>1, <3>2, <3>3, ObservedKept
    <3> QED
      BY <2>0, <2>1, <3>1, <3>4
  <2>16. CASE Operator
    BY <2>2, <2>16 DEF Operator, OperatorRemove, OperatorCreate, OperatorUpdate
  <2> QED
    BY <2>4, <2>5, <2>6, <2>7, <2>8, <2>10, <2>11, <2>12, <2>13, <2>14, <2>15,
       <2>16
    DEF Next, LoopStep, ApplyStep, Failure, Environment
<1> QED
  BY <1>1, <1>2, TypeCorrect, PTL DEF Spec

\* A cycle that reports "converged" or "insync" leaves the cluster as the
\* commit asks, if nobody else wrote: the invariant OutcomeHonest of the runs.
THEOREM OutcomeIsHonest == Spec => []OutcomeHonest
<1>1. PlanInv => OutcomeHonest
  BY DEF PlanInv
<1> QED
  BY <1>1, PlanInvariant, PTL

\* A service that the commit still declares goes down for a recreate only with
\* a verdict for its replacement: the property RecreateOnlyIfApproved of the
\* runs.
THEOREM RecreateApproved == Spec => RecreateOnlyIfApproved
<1>1. ASSUME TypeOK, PlanInv, [Next]_vars, NEW s \in Services,
             Applying, cluster[s] # None, cluster'[s] = None,
             desired[s] # None
      PROVE  <<s, desired[s].img>> \in approved
  <2>1. Remove /\ insp.chg.svc = s
    BY <1>1, TakenDown
  <2> QED
    BY <1>1, <2>1 DEF Remove, PlanInv, Approves
<1>2. TypeOK /\ PlanInv /\ [Next]_vars =>
        [\A s \in Services :
           Applying /\ cluster[s] # None /\ cluster'[s] = None
                    /\ desired[s] # None
             => <<s, desired[s].img>> \in approved]_vars
  BY <1>1
<1> QED
  BY <1>2, TypeCorrect, PlanInvariant, PTL DEF Spec, RecreateOnlyIfApproved

\* In abort-cycle mode the loop writes only when every service without a
\* verdict is as wanted already: the property AbortIsAllOrNothing of the runs.
THEOREM AbortAllOrNothing == Spec => AbortIsAllOrNothing
<1>1. ASSUME TypeOK, PlanInv, Applying, cfg.mode = "abort-cycle", calm,
             NEW s \in Services, desired[s] # None,
             <<s, desired[s].img>> \notin approved
      PROVE  /\ cluster[s] # None /\ cluster[s].managed
             /\ cluster[s].img = desired[s].img
             /\ cluster[s].att = desired[s].att
  <2>1. Observed[s] = desired[s]
    BY <1>1 DEF PlanInv, Applying, Approves
  <2> QED
    BY <1>1, <2>1 DEF Observed
<1>2. TypeOK /\ PlanInv =>
        [Applying /\ cfg.mode = "abort-cycle" /\ cfg.gate /\ calm
           => \A s \in Services :
                desired[s] # None /\ <<s, desired[s].img>> \notin approved
                  => cluster[s] # None /\ cluster[s].managed
                     /\ cluster[s].img = desired[s].img
                     /\ cluster[s].att = desired[s].att]_vars
  BY <1>1
<1> QED
  BY <1>2, TypeCorrect, PlanInvariant, PTL DEF Spec, AbortIsAllOrNothing

-----------------------------------------------------------------------------
(* The cycle implements Deployment. *)

\* IdInv is inductive relative to the types: a write keeps the service's ID or
\* takes the next store index.
LEMMA IdInvariant == Spec => []IdInv
<1>1. Init => IdInv
  BY DEF Init, IdInv
<1>2. TypeOK /\ LockInv /\ IdInv /\ [Next]_vars => IdInv'
  <2> SUFFICES ASSUME TypeOK, LockInv, IdInv, [Next]_vars PROVE IdInv'
    OBVIOUS
  <2>0. /\ raft \in Nat
        /\ \A s \in Services : cluster[s] # None =>
             cluster[s] \in Service /\ cluster[s].id \in Nat
    BY DEF TypeOK, Service
  <2>1. ASSUME NEW s \in Services, NEW r, raft' = raft + 1,
               cluster' = [cluster EXCEPT ![s] = r],
               r # None => \/ r.id = raft + 1
                           \/ cluster[s] # None /\ r.id = cluster[s].id
        PROVE  IdInv'
    <3>1. \A t \in Services \ {s} : cluster'[t] = cluster[t]
      BY <2>1 DEF TypeOK
    <3>2. cluster'[s] = r
      BY <2>1 DEF TypeOK
    <3>3. \A t \in Services : cluster[t] # None => cluster[t].id <= raft
      BY DEF IdInv
    <3>4. \A t \in Services \ {s} : cluster[t] # None /\ r # None => r.id # cluster[t].id
      BY <2>0, <2>1, <3>3 DEF IdInv
    <3>5. \A t \in Services : cluster'[t] # None => cluster'[t].id <= raft'
      BY <2>0, <2>1, <3>1, <3>2, <3>3
    <3>6. ASSUME NEW t \in Services, NEW u \in Services \ {t},
                 cluster'[t] # None, cluster'[u] # None
          PROVE  cluster'[u].id # cluster'[t].id
      BY <3>1, <3>2, <3>4, <3>6 DEF IdInv
    <3> QED
      BY <3>5, <3>6 DEF IdInv
  <2>2. ASSUME UNCHANGED <<cluster, raft>> PROVE IdInv'
    BY <2>2 DEF IdInv
  <2>3. CASE Poll \/ (\E s \in Services : Resolve(s)) \/ Observe \/ Verify
               \/ ApplyDone \/ AwaitConverged \/ AwaitTimeout
               \/ StageFails \/ Abandon
    BY <2>2, <2>3 DEF Poll, Resolve, Observe, Verify, ApplyDone,
       AwaitConverged, AwaitTimeout, StageFails, Abandon
  <2>4. ASSUME NEW c \in todo, Skip(c) \/ CallFails(c) \/ Inspect(c) PROVE IdInv'
    BY <2>2, <2>4 DEF Skip, CallFails, Inspect
  <2>5. ASSUME NEW c \in todo, Create(c) PROVE IdInv'
    <3>1. c.svc \in Services
      BY DEF TypeOK, Change
    <3>2. CASE cluster[c.svc] # None
      BY <2>2, <2>5, <3>2 DEF Create
    <3>3. CASE cluster[c.svc] = None
      BY <2>1, <2>5, <3>1, <3>3 DEF Create, Stored
    <3> QED
      BY <3>2, <3>3
  <2>6. CASE Update
    <3>1. insp.chg.svc \in Services
      BY <2>6 DEF Update, TypeOK, Inspection, Change
    <3>2. CASE ~VersionMatches(insp)
      BY <2>2, <2>6, <3>2 DEF Update
    <3>3. CASE VersionMatches(insp)
      BY <2>1, <2>6, <3>1, <3>3 DEF Update, Stored, VersionMatches
    <3> QED
      BY <3>2, <3>3
  <2>7. CASE Remove
    <3>1. insp.chg.svc \in Services
      BY <2>7 DEF Remove, TypeOK, Inspection, Change
    <3>2. CASE ~SameInstance(insp)
      BY <2>2, <2>7, <3>2 DEF Remove
    <3>3. CASE SameInstance(insp)
      BY <2>1, <2>7, <3>1, <3>3 DEF Remove
    <3> QED
      BY <3>2, <3>3
  <2>8. CASE \/ \E c \in Commits : Push(c)
             \/ \E t \in Tags, d \in Digests : MoveTag(t, d)
             \/ \E s \in Services, d \in Digests : Sign(s, d)
             \/ UNCHANGED vars
    BY <2>2, <2>8 DEF Push, MoveTag, Sign, vars
  <2>9. ASSUME NEW s \in Services, Rollout(s) PROVE IdInv'
    BY <2>1, <2>9 DEF Rollout
  <2>10. ASSUME NEW s \in Services, OperatorRemove(s) PROVE IdInv'
    BY <2>1, <2>10 DEF OperatorRemove
  <2>11. ASSUME NEW s \in Services, NEW d \in Digests, NEW a \in Atts,
                NEW m \in BOOLEAN, OperatorCreate(s, d, a, m)
         PROVE  IdInv'
    BY <2>1, <2>11 DEF OperatorCreate, Stored
  <2>12. ASSUME NEW s \in Services, OperatorUpdate(s) PROVE IdInv'
    <3>1. PICK r \in Edits(cluster[s]) : cluster' = [cluster EXCEPT ![s] = r]
      BY <2>12 DEF OperatorUpdate
    <3>2. cluster[s] # None /\ r.id = cluster[s].id /\ raft' = raft + 1
      BY <2>0, <2>12, EditsType DEF OperatorUpdate
    <3> QED
      BY <2>1, <3>1, <3>2
  <2> QED
    BY <2>3, <2>4, <2>5, <2>6, <2>7, <2>8, <2>9, <2>10, <2>11, <2>12
    DEF Next, LoopStep, ApplyStep, Failure, Environment, Operator
<1> QED
  BY <1>1, <1>2, TypeCorrect, LockInvariant, PTL DEF Spec

\* SourceInv is inductive: one commit is read per cycle, and what is resolved is
\* one of the specs it can come to.
LEMMA SourceInvariant == Spec => []SourceInv
<1>1. Init => SourceInv
  BY DEF Init, SourceInv
<1>2. TypeOK /\ SourceInv /\ [Next]_vars => SourceInv'
  <2> SUFFICES ASSUME TypeOK, SourceInv, [Next]_vars PROVE SourceInv'
    OBVIOUS
  <2>1. ASSUME pc' \notin {"resolve", "verify", "apply"} PROVE SourceInv'
    BY <2>1 DEF SourceInv
  <2>2. ASSUME UNCHANGED work,
               pc' = pc \/ (pc = "verify" /\ pc' = "apply")
        PROVE  SourceInv'
    <3>1. \A c : Pinned(c)' = Pinned(c)
      BY DEF Pinned
    <3> QED
      BY <2>2, <3>1 DEF SourceInv
  <2>3. CASE Poll
    <3>1. CASE head \in BadCommits
      BY <2>1, <2>3, <3>1 DEF Poll, EndCycle
    <3>2. CASE head \notin BadCommits
      BY <2>3, <3>2 DEF Poll, SourceInv, TypeOK
    <3> QED
      BY <3>1, <3>2
  <2>4. ASSUME NEW s \in Services, Resolve(s) PROVE SourceInv'
    <3>1. PICK c \in Commits \ BadCommits :
            /\ decl = Stack[c]
            /\ \A t \in Services : desired[t] # None => desired[t] \in Pinned(c)[t]
      BY <2>4 DEF SourceInv, Resolve
    <3> DEFINE new == [img |-> Resolved(decl[s].ref), att |-> decl[s].att]
    <3>2. /\ pc' = "resolve" /\ decl' = decl
          /\ desired' = [desired EXCEPT ![s] = new] /\ decl[s] # None
      BY <2>4 DEF Resolve
    <3>3. new \in Pinned(c)[s]
      <4>1. decl[s] \in Decl
        BY <3>2 DEF TypeOK
      <4>2. Resolved(decl[s].ref) \in
              IF decl[s].ref \in Digests THEN {decl[s].ref} ELSE Digests
        BY <4>1 DEF Resolved, TypeOK, Decl, Refs
      <4> QED
        BY <3>1, <3>2, <4>2 DEF Pinned
    <3> HIDE DEF new
    <3>4. \A t \in Services : desired'[t] # None => desired'[t] \in Pinned(c)[t]
      BY <3>1, <3>2, <3>3 DEF TypeOK
    <3> QED
      BY <3>1, <3>2, <3>4 DEF SourceInv, Pinned
  <2>5. CASE Observe
    <3>1. CASE pc' = "idle"
      BY <2>1, <3>1
    <3>2. CASE pc' # "idle"
      <4>1. /\ pc = "resolve" /\ pc' = "verify" /\ UNCHANGED work
            /\ \A s \in Services : decl[s] # None => desired[s] # None
        BY <2>5, <3>2 DEF Observe, EndCycle
      <4> QED
        BY <4>1 DEF SourceInv, Pinned
    <3> QED
      BY <3>1, <3>2
  <2>6. CASE Verify
    <3>1. UNCHANGED work /\ pc = "verify" /\ pc' \in {"idle", "apply"}
      BY <2>6 DEF Verify, Judge, EndCycle
    <3> QED
      BY <2>1, <2>2, <3>1
  <2>7. CASE ApplyDone \/ AwaitConverged \/ AwaitTimeout \/ StageFails \/ Abandon
    BY <2>1, <2>7 DEF ApplyDone, AwaitConverged, AwaitTimeout, StageFails,
       Abandon, EndCycle
  <2>8. CASE \/ Update \/ Remove \/ UNCHANGED vars
             \/ \E c \in todo : Skip(c) \/ Inspect(c) \/ Create(c) \/ CallFails(c)
    BY <2>2, <2>8 DEF Update, Remove, Skip, Inspect, Create, CallFails, vars
  <2>9. CASE Environment
    BY <2>2, <2>9 DEF Environment, Push, MoveTag, Sign, Rollout, Operator,
       OperatorRemove, OperatorCreate, OperatorUpdate
  <2> QED
    BY <2>3, <2>4, <2>5, <2>6, <2>7, <2>8, <2>9
    DEF Next, LoopStep, ApplyStep, Failure
<1> QED
  BY <1>1, <1>2, TypeCorrect, PTL DEF Spec

\* What the plan can hold for a service.
Planned(want, have, flag, s, c) ==
    \/ /\ s \in Updates(want, have) /\ AttachmentOnly(want[s], have[s])
       /\ c \in {Chg("remove", s, have[s], TRUE), Chg("create", s, want[s], TRUE)}
    \/ /\ s \in Updates(want, have) /\ ~AttachmentOnly(want[s], have[s])
       /\ c = Chg("update", s, want[s], FALSE)
    \/ s \in Creates(want, have) /\ c = Chg("create", s, want[s], FALSE)
    \/ s \in Removes(want, have) /\ flag /\ c = Chg("remove", s, have[s], FALSE)

LEMMA PlanParts ==
  ASSUME NEW want, NEW have, NEW flag, NEW c \in Plan(want, have, flag)
  PROVE  Planned(want, have, flag, c.svc, c)
<1>1. CASE \E s \in Updates(want, have) :
             /\ AttachmentOnly(want[s], have[s])
             /\ \/ c = Chg("remove", s, have[s], TRUE)
                \/ c = Chg("create", s, want[s], TRUE)
  BY <1>1 DEF Planned, Chg
<1>2. CASE \E s \in Updates(want, have) :
             ~AttachmentOnly(want[s], have[s]) /\ c = Chg("update", s, want[s], FALSE)
  BY <1>2 DEF Planned, Chg
<1>3. CASE \E s \in Creates(want, have) : c = Chg("create", s, want[s], FALSE)
  BY <1>3 DEF Planned, Chg
<1>4. CASE \E s \in Removes(want, have) : flag /\ c = Chg("remove", s, have[s], FALSE)
  BY <1>4 DEF Planned, Chg
<1> QED
  BY <1>1, <1>2, <1>3, <1>4 DEF Plan, PlanRemoving

LEMMA PlanPaired ==
  ASSUME NEW want, NEW have, NEW flag
  PROVE  Paired(Plan(want, have, flag), flag)
<1> DEFINE plan == Plan(want, have, flag)
<1>0. /\ Updates(want, have) \cap Creates(want, have) = {}
      /\ Updates(want, have) \cap Removes(want, have) = {}
      /\ Creates(want, have) \cap Removes(want, have) = {}
  BY DEF Updates, Creates, Removes
<1> SUFFICES ASSUME NEW c \in plan
             PROVE  /\ c.act = "remove" /\ ~c.recreate => flag
                    /\ c.act = "remove" /\ c.recreate =>
                         \E d \in plan : d.svc = c.svc /\ d.act = "create" /\ d.recreate
                    /\ \A d \in plan \ {c} : c.svc = d.svc =>
                         c.recreate /\ d.recreate /\ {c.act, d.act} = {"remove", "create"}
  BY DEF Paired
<1>1. c.act = "remove" /\ ~c.recreate => flag
  BY PlanParts DEF Planned, Chg
<1>2. ASSUME c.act = "remove" /\ c.recreate
      PROVE  \E d \in plan : d.svc = c.svc /\ d.act = "create" /\ d.recreate
  <2>1. c.svc \in Updates(want, have) /\ AttachmentOnly(want[c.svc], have[c.svc])
    BY <1>2, PlanParts DEF Planned, Chg
  <2>2. Chg("create", c.svc, want[c.svc], TRUE) \in plan
    BY <2>1 DEF Plan, PlanRemoving
  <2> QED
    BY <2>2 DEF Chg
<1>3. ASSUME NEW d \in plan, d # c, c.svc = d.svc
      PROVE  c.recreate /\ d.recreate /\ {c.act, d.act} = {"remove", "create"}
  <2> DEFINE s == c.svc
             down == Chg("remove", s, have[s], TRUE)
             up == Chg("create", s, want[s], TRUE)
             Pair == {down, up}
  <2>0. Planned(want, have, flag, s, c) /\ Planned(want, have, flag, s, d)
    BY <1>3, PlanParts
  <2>1. c \in Pair /\ d \in Pair
    <3>1. CASE s \in Updates(want, have) /\ AttachmentOnly(want[s], have[s])
      BY <1>0, <2>0, <3>1 DEF Planned
    <3>2. CASE s \in Updates(want, have) /\ ~AttachmentOnly(want[s], have[s])
      BY <1>0, <1>3, <2>0, <3>2 DEF Planned
    <3>3. CASE s \notin Updates(want, have)
      BY <1>0, <1>3, <2>0, <3>3 DEF Planned
    <3> QED
      BY <3>1, <3>2, <3>3
  <2>2. /\ down.act = "remove" /\ down.recreate
        /\ up.act = "create" /\ up.recreate
    BY DEF Chg
  <2> HIDE DEF down, up
  <2> QED
    BY <1>3, <2>1, <2>2
<1> QED
  BY <1>1, <1>2, <1>3

\* The gate keeps a removal and its create together.
LEMMA PassedPaired ==
  ASSUME NEW cs, NEW flag, Paired(cs, flag), NEW pass
  PROVE  Paired(Passed(cs, pass), flag)
<1> DEFINE keep == Passed(cs, pass)
<1>1. keep \subseteq cs
  BY DEF Passed
<1>2. ASSUME NEW c \in keep, c.act = "remove", c.recreate
      PROVE  \E d \in keep : d.svc = c.svc /\ d.act = "create" /\ d.recreate
  <2>1. PICK d \in cs : /\ d.act = "create" /\ d.recreate /\ d.svc = c.svc
                        /\ <<d.svc, d.spec.img>> \in pass
    BY <1>2 DEF Passed
  <2>2. d \in keep
    BY <2>1 DEF Passed
  <2> QED
    BY <2>1, <2>2
<1> HIDE DEF keep
<1>3. Paired(keep, flag)
  BY <1>1, <1>2 DEF Paired
<1> QED
  BY <1>3 DEF keep

\* Another change of the service whose turn it is can only be the create after
\* its removal.
LEMMA OnlyCreateFollows ==
  ASSUME ChangesAssumption, todo \subseteq Change, NEW flag, Paired(todo, flag),
         NEW c \in todo, IsNext(c) \/ c.act # "create",
         NEW d \in todo \ {c}, d.svc = c.svc
  PROVE  /\ c.act = "remove" /\ c.recreate
         /\ d.act = "create" /\ d.recreate
<1>1. c.recreate /\ d.recreate /\ {c.act, d.act} = {"remove", "create"}
  BY DEF Paired
<1>2. c.act # "create"
  <2> SUFFICES ASSUME c.act = "create", Before(c, d) PROVE FALSE
    BY DEF IsNext
  <2>1. Group(c) = 0 /\ Group(d) = 0 /\ c.svc \in Nat
    BY <1>1, ChangesAssumption DEF Group, Change
  <2> QED
    BY <2>1 DEF Before
<1> QED
  BY <1>1, <1>2

LEMMA ReturnPaired ==
  ASSUME TypeOK, NEW flag, Paired(todo, flag),
         NEW c \in todo, IsNext(c) \/ c.act # "create",
         todo' = todo \ {c}
  PROVE  Paired(todo', flag)
<1>1. \A d \in todo' : d \in todo /\ d # c
  OBVIOUS
<1>2. ASSUME NEW d \in todo', d.act = "remove", d.recreate
      PROVE  \E e \in todo' : e.svc = d.svc /\ e.act = "create" /\ e.recreate
  <2>1. PICK e \in todo : e.svc = d.svc /\ e.act = "create" /\ e.recreate
    BY <1>1, <1>2 DEF Paired
  <2>2. e # c
    BY <1>1, <1>2, <2>1, OnlyCreateFollows, ChangesAssumption DEF TypeOK
  <2> QED
    BY <2>1, <2>2
<1> QED
  BY <1>1, <1>2 DEF Paired

\* PairInv is inductive relative to the types.
LEMMA PairInvariant == Spec => []PairInv
<1>1. Init => PairInv
  BY DEF Init, PairInv
<1>2. TypeOK /\ PlanInv /\ PairInv /\ [Next]_vars => PairInv'
  <2> SUFFICES ASSUME TypeOK, PlanInv, PairInv, [Next]_vars PROVE PairInv'
    OBVIOUS
  \* A step that leaves the plan alone, or ends the cycle.
  <2>1. ASSUME insp' = None \/ insp' = insp,
               \/ pc' = pc /\ UNCHANGED <<todo, failed>>
               \/ pc' \notin {"resolve", "verify", "apply"},
               cfg' = cfg
        PROVE  PairInv'
    BY <2>1 DEF PairInv
  \* A step of the apply loop is done with change c.
  <2>2. ASSUME pc = "apply", pc' = pc, cfg' = cfg, insp' = None,
               NEW c \in todo, IsNext(c) \/ c.act # "create",
               todo' = todo \ {c}
        PROVE  PairInv'
    <3>1. Paired(todo', cfg.prune)
      BY <2>2, ReturnPaired DEF PairInv
    <3> QED
      BY <2>2, <3>1 DEF PairInv
  <2>3. CASE Poll
    <3>1. NoPlan /\ cfg' = cfg /\ pc' \in {"idle", "resolve"}
      BY <2>3 DEF Poll, EndCycle
    <3> QED
      BY <3>1 DEF NoPlan, PairInv
  <2>4. ASSUME NEW s \in Services, Resolve(s) PROVE PairInv'
    BY <2>1, <2>4 DEF Resolve
  <2>5. CASE Observe
    <3>1. /\ pc = "resolve" /\ pc' \in {"idle", "verify"}
          /\ UNCHANGED <<cfg, insp, failed>>
          /\ pc' = "verify" => todo' = Plan(desired, Observed, cfg.prune)
      BY <2>5 DEF Observe, EndCycle
    <3>2. pc' = "verify" => Paired(todo', cfg.prune)
      BY <3>1, PlanPaired
    <3> QED
      BY <3>1, <3>2 DEF PairInv
  <2>6. CASE Verify
    <3>1. PICK pass : Judge(pass)
      BY <2>6 DEF Verify
    <3>2. /\ pc = "verify" /\ pc' \in {"idle", "apply"}
          /\ UNCHANGED <<cfg, insp, failed>>
          /\ pc' = "apply" => todo' = Passed(todo, pass)
      BY <2>6, <3>1 DEF Verify, Judge, EndCycle
    <3>3. pc' = "apply" => Paired(todo', cfg.prune)
      BY <3>2, PassedPaired DEF PairInv
    <3> QED
      BY <3>2, <3>3 DEF PairInv
  <2>7. CASE StageFails \/ Abandon
    BY <2>1, <2>7 DEF StageFails, Abandon, NoPlan, EndCycle
  <2>8. CASE ApplyDone \/ AwaitConverged \/ AwaitTimeout
    BY <2>1, <2>8 DEF ApplyDone, AwaitConverged, AwaitTimeout, EndCycle
  <2>9. ASSUME NEW c \in todo, Skip(c) \/ Create(c) PROVE PairInv'
    BY <2>2, <2>9 DEF Skip, Create, Answer, Return
  <2>10. ASSUME NEW c \in todo, Inspect(c) PROVE PairInv'
    <3>1. CASE Return(c, FALSE)
      BY <2>2, <2>10, <3>1 DEF Inspect, Return
    <3>2. CASE ~Return(c, FALSE)
      <4>1. /\ insp'.chg = c /\ insp'.svc = cluster[c.svc]
            /\ c.act \in {"update", "remove"}
            /\ c.act = "update" => cluster[c.svc].att = c.spec.att
            /\ UNCHANGED <<pc, todo, failed, cfg>>
        <5>1. /\ c.act \in {"update", "remove"} /\ UNCHANGED <<pc, cfg>>
              /\ insp' = [chg |-> c, svc |-> cluster[c.svc]]
              /\ UNCHANGED <<todo, failed>>
          BY <2>10, <3>2 DEF Inspect
        <5>2. c.act = "update" => ~ImmutableChange(cluster[c.svc], c.spec)
          BY <2>10, <3>2 DEF Inspect
        <5> QED
          BY <5>1, <5>2 DEF ImmutableChange
      <4> QED
        BY <4>1 DEF PairInv
    <3> QED
      BY <3>1, <3>2
  <2>11. CASE Update \/ Remove
    <3>1. /\ insp.chg \in todo /\ insp.chg.act # "create"
          /\ pc = "apply" /\ UNCHANGED <<pc, cfg>>
      BY <2>11 DEF Update, Remove, PlanInv
    <3>2. insp' = None /\ todo' = todo \ {insp.chg}
      BY <2>11 DEF Update, Remove, Answer, Return
    <3> QED
      BY <2>2, <3>1, <3>2
  <2>12. ASSUME NEW c \in todo, CallFails(c) PROVE PairInv'
    <3>1. IsNext(c) \/ c.act # "create"
      BY <2>12 DEF CallFails, PairInv
    <3> QED
      BY <2>2, <2>12, <3>1 DEF CallFails, Return
  <2>13. CASE Environment \/ UNCHANGED vars
    BY <2>1, <2>13 DEF Environment, Push, MoveTag, Sign, Rollout, Operator,
       OperatorRemove, OperatorCreate, OperatorUpdate, vars
  <2> QED
    BY <2>3, <2>4, <2>5, <2>6, <2>7, <2>8, <2>9, <2>10, <2>11, <2>12, <2>13
    DEF Next, LoopStep, ApplyStep, Failure
<1> QED
  BY <1>1, <1>2, TypeCorrect, PlanInvariant, PTL DEF Spec

\* What others see of the services, and the agenda, as long as nothing touches
\* them.
LEMMA VisibleKept ==
  ASSUME UNCHANGED <<cluster, owned>>
  PROVE  Visible' = Visible
BY DEF Visible, Seen

LEMMA AgendaKept ==
  ASSUME UNCHANGED <<pc, desired, todo, failed>>
  PROVE  Agenda' = Agenda
BY DEF Agenda, Order, Skipped

LEMMA VisibleType ==
  ASSUME TypeOK, NEW s \in Services
  PROVE  /\ cluster[s] # None => Visible[s] = Seen(cluster[s]) /\ Visible[s] # None
         /\ cluster[s] = None => Visible[s] = None
<1>1. ASSUME cluster[s] # None PROVE Seen(cluster[s]) # None
  <2>1. cluster[s] \in Service
    BY <1>1 DEF TypeOK
  <2>2. Seen(cluster[s]) \in View
    BY <2>1 DEF Seen, View, Service
  <2> QED
    BY <2>2, NoneAssumption
<1> QED
  BY <1>1 DEF Visible

\* A write to one service shows at that service only.
LEMMA VisibleWrite ==
  ASSUME TypeOK, IdInv, NEW s \in Services, NEW r,
         cluster' = [cluster EXCEPT ![s] = r],
         \/ owned' = owned
         \/ /\ r # None /\ owned' = owned \cup {r.id}
            /\ \/ r.id = raft + 1
               \/ cluster[s] # None /\ r.id = cluster[s].id
  PROVE  Visible' = [Visible EXCEPT ![s] = IF r = None THEN None ELSE Seen(r)']
<1>1. /\ raft \in Nat
      /\ \A t \in Services : cluster[t] # None => cluster[t].id \in Nat
  BY DEF TypeOK, Service
<1>2. ASSUME NEW t \in Services \ {s}
      PROVE  /\ cluster'[t] = cluster[t]
             /\ cluster[t] # None =>
                  (cluster[t].id \in owned' <=> cluster[t].id \in owned)
  <2>1. cluster'[t] = cluster[t]
    BY DEF TypeOK
  <2>2. cluster[t] # None /\ r # None /\ owned' # owned => cluster[t].id # r.id
    BY <1>1 DEF IdInv
  <2> QED
    BY <2>1, <2>2
<1>3. ASSUME NEW t \in Services \ {s} PROVE Visible'[t] = Visible[t]
  BY <1>2 DEF Visible, Seen
<1>4. Visible'[s] = IF r = None THEN None ELSE Seen(r)'
  BY DEF Visible, Seen, TypeOK
<1>5. /\ Visible = [t \in Services |-> Visible[t]]
      /\ Visible' = [t \in Services |-> Visible'[t]]
  BY DEF Visible
<1> HIDE DEF Visible
<1> QED
  BY <1>3, <1>4, <1>5

\* What Apply leaves of the agenda.
LEMMA AgendaAfter ==
  ASSUME TypeOK, PairInv, pc = "apply", UNCHANGED <<pc, desired>>,
         NEW c \in todo, ~Skipped(c), IsNext(c) \/ c.act # "create",
         NEW ok \in BOOLEAN, Return(c, ok)
  PROVE  /\ Order(c) \in Agenda
         /\ ok => Agenda' = Agenda \ {Order(c)}
         /\ ~ok => Agenda' = Promise!Rest(c.svc)
<1>1. Agenda = {Order(d) : d \in {e \in todo : ~Skipped(e)}}
  BY DEF Agenda
<1>2. \A d : Order(d)' = Order(d)
  BY DEF Order
<1>3. Agenda' = {Order(d) : d \in {e \in todo \ {c} : ~Skipped(e)'}}
  BY <1>2 DEF Agenda, Return
<1>4. \A d \in todo \ {c} : d.svc = c.svc =>
        /\ c.act = "remove" /\ c.recreate
        /\ d.act = "create" /\ d.recreate
  BY OnlyCreateFollows, ChangesAssumption DEF TypeOK, PairInv
<1>5. \A d \in todo \ {c} : Order(d) # Order(c)
  BY <1>4 DEF Order
<1>6. Order(c) \in Agenda
  BY <1>1
<1>7. ASSUME ok PROVE Agenda' = Agenda \ {Order(c)}
  <2>1. \A d : Skipped(d)' = Skipped(d)
    BY <1>7 DEF Skipped, Return
  <2> QED
    BY <1>1, <1>3, <1>5, <2>1
<1>8. ASSUME ~ok PROVE Agenda' = {q \in Agenda : q.svc # c.svc}
  <2>1. ASSUME NEW d \in todo \ {c}, d.svc = c.svc PROVE Skipped(d)'
    BY <1>4, <1>8, <2>1 DEF Skipped, Return
  <2>2. ASSUME NEW d \in todo \ {c}, d.svc # c.svc PROVE Skipped(d)' = Skipped(d)
    BY <1>8, <2>2 DEF Skipped, Return
  <2>3. \A d : Order(d).svc = d.svc
    BY DEF Order
  <2> QED
    BY <1>1, <1>3, <2>1, <2>2, <2>3
<1> QED
  BY <1>6, <1>7, <1>8 DEF Promise!Rest

\* The changes that passed the gate are an agenda that Deployment allows: of one
\* commit, accepted, and coherent.
LEMMA PassedIsAdopted ==
  ASSUME TypeOK, PlanInv, SourceInv, PairInv, Verify, pc' = "apply"
  PROVE  Promise!Adopt
<1>1. PICK pass \in SUBSET Verdicts(todo) : Judge(pass)
  BY DEF Verify
<1> DEFINE keep == Passed(todo, pass)
<1>2. /\ pc = "verify" /\ failed = {} /\ failed' = {} /\ todo' = keep
      /\ UNCHANGED <<cfg, signed, cluster, owned, desired>>
  BY <1>1 DEF Verify, Judge, EndCycle, PairInv
<1>3. /\ keep \subseteq todo /\ keep \subseteq Change
      /\ \A c \in keep : Faithful(c)
      /\ Paired(keep, cfg.prune)
  <2>1. keep \subseteq todo
    BY DEF Passed
  <2>2. Paired(keep, cfg.prune)
    BY <1>2, PassedPaired DEF PairInv
  <2> QED
    BY <1>2, <2>1, <2>2 DEF TypeOK, PlanInv
<1>4. \A c \in keep : desired[c.svc] # None =>
        <<c.svc, desired[c.svc].img>> \in pass
  BY <1>2, PassedBrings DEF PlanInv
<1> HIDE DEF keep
<1>5. Agenda = {} /\ Agenda' = {Order(c) : c \in keep}
  BY <1>2 DEF Agenda, Order, Skipped
<1>6. Visible' = Visible /\ Trusted' = Trusted
  BY <1>2, VisibleKept DEF Trusted
<1>7. PICK k \in Commits \ BadCommits :
        /\ decl = Stack[k]
        /\ \A s \in Services :
             /\ desired[s] # None => desired[s] \in Pinned(k)[s]
             /\ decl[s] # None => desired[s] # None
  BY <1>2 DEF SourceInv
<1>8. \A c \in keep : c.svc \in Services /\ c.act \in {"create", "update", "remove"}
                      /\ desired[c.svc] \in ServiceSpec \cup {None}
  BY <1>3 DEF Change, TypeOK
<1>9. ASSUME NEW c \in keep
      PROVE  Order(c) \in Promise!Order
  BY <1>8 DEF Order, Promise!Order
<1>10. ASSUME NEW c \in keep
       PROVE  Promise!Legal(Order(c), Pinned(k))
  <2>1. CASE desired[c.svc] = None
    <3>1. c.act = "remove" /\ ~c.recreate
      BY <1>3, <2>1 DEF Faithful
    <3>2. cfg.prune
      BY <1>3, <3>1 DEF Paired
    <3>3. Pinned(k)[c.svc] = {}
      BY <1>7, <1>8, <2>1 DEF Pinned
    <3> QED
      BY <2>1, <3>1, <3>2, <3>3 DEF Promise!Legal, Order
  <2>2. CASE desired[c.svc] # None
    <3>1. desired[c.svc] \in Pinned(k)[c.svc]
      BY <1>7, <1>8, <2>2
    <3>2. <<c.svc, desired[c.svc].img>> \in Trusted
      <4>1. <<c.svc, desired[c.svc].img>> \in Verdicts(todo)
        BY <1>4, <2>2
      <4>2. CASE cfg.gate
        BY <4>1, <4>2 DEF Verdicts, Trusted
      <4>3. CASE ~cfg.gate
        <5>1. desired[c.svc].img \in Digests
          BY <1>8, <2>2 DEF ServiceSpec
        <5> QED
          BY <1>8, <4>3, <5>1 DEF Trusted
      <4> QED
        BY <4>2, <4>3
    <3> QED
      BY <2>2, <3>1, <3>2 DEF Promise!Legal, Order
  <2> QED
    BY <2>1, <2>2
<1>11. ASSUME NEW c \in keep, NEW d \in keep, c.svc = d.svc,
              c.act = "remove", d.act = "create"
       PROVE  Order(d) = Promise!Replaced(Order(c))
  BY <1>11 DEF Order, Promise!Replaced
<1>12. Promise!Coherent(Agenda')
  <2>1. ASSUME NEW c \in keep, Order(c).act = "remove", Order(c).spec # None
        PROVE  Promise!Replaced(Order(c)) \in Agenda'
    <3>1. c.act = "remove" /\ c.recreate
      BY <1>3, <2>1 DEF Faithful, Order
    <3>2. PICK d \in keep : d.svc = c.svc /\ d.act = "create"
      BY <1>3, <3>1 DEF Paired
    <3> QED
      BY <1>5, <1>11, <3>1, <3>2
  <2>2. ASSUME NEW c \in keep, NEW d \in keep,
               Order(c).svc = Order(d).svc, Order(c) # Order(d)
        PROVE  \/ Order(d) = Promise!Replaced(Order(c))
               \/ Order(c) = Promise!Replaced(Order(d))
    <3>1. c # d /\ c.svc = d.svc
      BY <2>2 DEF Order
    <3>2. {c.act, d.act} = {"remove", "create"}
      BY <1>3, <3>1 DEF Paired
    <3>3. \/ c.act = "remove" /\ d.act = "create"
          \/ d.act = "remove" /\ c.act = "create"
      BY <3>2
    <3> QED
      BY <1>11, <3>1, <3>3
  <2> QED
    BY <1>5, <2>1, <2>2 DEF Promise!Coherent
<1>13. Agenda' \in SUBSET Promise!Order /\ \A o \in Agenda' : Promise!Legal(o, Pinned(k))
  BY <1>5, <1>9, <1>10
<1> QED
  BY <1>2, <1>5, <1>6, <1>7, <1>12, <1>13 DEF Promise!Adopt

\* A call of the apply loop that takes effect is an order that does.
LEMMA WritesTakeEffect ==
  ASSUME TypeOK, PlanInv, LockInv, IdInv, PairInv,
         NEW c \in todo, pc = "apply", ~Skipped(c), IsNext(c) \/ c.act # "create",
         UNCHANGED <<cycleRest>>, Answer(c),
         NEW r, cluster' = [cluster EXCEPT ![c.svc] = r],
         \/ /\ c.act = "create" /\ cluster[c.svc] = None
            /\ r = Stored(raft + 1, c.spec, TRUE, NoOp, "swarmgate")
            /\ owned' = owned \cup {raft + 1}
         \/ /\ c.act = "update" /\ cluster[c.svc] # None
            /\ cluster[c.svc].att = c.spec.att
            /\ r = Stored(cluster[c.svc].id, c.spec, TRUE, cluster[c.svc].op, "swarmgate")
            /\ owned' = owned \cup {cluster[c.svc].id}
         \/ /\ c.act = "remove" /\ cluster[c.svc] # None
            /\ cluster[c.svc].id \in owned
            /\ r = None /\ owned' = owned
  PROVE  Promise!TakeEffect
<1> DEFINE s == c.svc
           o == Order(c)
<1>1. /\ s \in Services /\ Faithful(c) /\ c.spec \in ServiceSpec
      /\ raft \in Nat
  BY DEF TypeOK, Change, PlanInv
<1>2. o \in Agenda /\ Promise!Done(o)
  <2>1. PICK ok \in BOOLEAN : Return(c, ok)
    BY DEF Answer
  <2> QED
    BY <2>1, AgendaAfter DEF Promise!Done, Order
<1>3. o.act = c.act /\ o.svc = s /\ (c.act # "remove" => o.spec = c.spec)
  BY <1>1 DEF Order, Faithful
<1>4. Trusted' = Trusted /\ cfg' = cfg
  BY DEF Trusted
<1>5. c.act # "remove" => r # None
  <2>1. ASSUME c.act # "remove" PROVE r \in Service
    <3>1. cluster[s] # None => cluster[s].id \in Nat /\ cluster[s].op \in OpVals
      BY <1>1 DEF TypeOK, Service
    <3>2. ASSUME NEW n \in Nat, NEW v \in OpVals
          PROVE  Stored(n, c.spec, TRUE, v, "swarmgate") \in Service
      BY <1>1 DEF Stored, Service, ServiceSpec
    <3>3. raft + 1 \in Nat /\ NoOp \in OpVals
      BY <1>1, ConstantsAssumption
    <3> QED
      BY <2>1, <3>1, <3>2, <3>3
  <2> QED
    BY <2>1, NoneAssumption
<1>6. Visible' = [Visible EXCEPT ![s] = IF r = None THEN None ELSE Seen(r)']
  <2>1. \/ owned' = owned
        \/ /\ r # None /\ owned' = owned \cup {r.id}
           /\ r.id = raft + 1 \/ (cluster[s] # None /\ r.id = cluster[s].id)
    BY <1>5 DEF Stored
  <2> QED
    BY <1>1, <2>1, VisibleWrite
<1>7. CASE c.act = "create"
  <2>1. Visible[s] = None
    BY <1>1, <1>7, VisibleType
  <2>2. Seen(r)' = [img |-> c.spec.img, att |-> c.spec.att, label |-> TRUE,
                    setting |-> NoOp, by |-> "swarmgate", ours |-> TRUE]
    <3>1. /\ r = Stored(raft + 1, c.spec, TRUE, NoOp, "swarmgate")
          /\ owned' = owned \cup {raft + 1}
      BY <1>7
    <3>2. /\ r.img = c.spec.img /\ r.att = c.spec.att /\ r.managed = TRUE
          /\ r.op = NoOp /\ r.by = "swarmgate" /\ r.id \in owned'
      BY <3>1 DEF Stored
    <3> QED
      BY <3>2 DEF Seen
  <2>3. Promise!Create(o)
    BY <1>3, <1>5, <1>6, <1>7, <2>1, <2>2 DEF Promise!Create
  <2> QED
    BY <1>2, <1>4, <2>3 DEF Promise!TakeEffect
<1>8. CASE c.act = "update"
  <2>1. Visible[s] = Seen(cluster[s]) /\ Visible[s] # None
    BY <1>1, <1>8, VisibleType
  <2>2. Seen(r)' = [img |-> c.spec.img, att |-> c.spec.att, label |-> TRUE,
                    setting |-> cluster[s].op, by |-> "swarmgate",
                    ours |-> TRUE]
    <3>1. /\ r = Stored(cluster[s].id, c.spec, TRUE, cluster[s].op, "swarmgate")
          /\ owned' = owned \cup {cluster[s].id}
      BY <1>8
    <3>2. /\ r.img = c.spec.img /\ r.att = c.spec.att /\ r.managed = TRUE
          /\ r.op = cluster[s].op /\ r.by = "swarmgate" /\ r.id \in owned'
      BY <3>1 DEF Stored
    <3> QED
      BY <3>2 DEF Seen
  <2>3. Visible[s].att = c.spec.att /\ Visible[s].setting = cluster[s].op
    BY <1>8, <2>1 DEF Seen
  <2>4. Promise!Update(o)
    BY <1>3, <1>5, <1>6, <1>8, <2>1, <2>2, <2>3 DEF Promise!Update
  <2> QED
    BY <1>2, <1>4, <2>4 DEF Promise!TakeEffect
<1>9. CASE c.act = "remove"
  <2>1. Visible[s] # None /\ Visible[s].ours
    <3>1. cluster[s] # None /\ cluster[s].id \in owned
      BY <1>9
    <3>2. Visible[s] # None /\ Visible[s] = Seen(cluster[s])
      BY <1>1, <3>1, VisibleType
    <3>3. Seen(cluster[s]).ours = (cluster[s].id \in owned)
      BY DEF Seen
    <3>4. Seen(cluster[s]).ours
      BY <3>1, <3>3
    <3> QED
      BY <3>2, <3>4
  <2>2. Promise!Remove(o)
    BY <1>3, <1>6, <1>9, <2>1 DEF Promise!Remove
  <2> QED
    BY <1>2, <1>4, <2>2 DEF Promise!TakeEffect
<1> QED
  BY <1>1, <1>7, <1>8, <1>9 DEF Change, TypeOK

\* A call that fails drops its order and what was to follow on it.
LEMMA FailuresDrop ==
  ASSUME TypeOK, PairInv, NEW c \in todo, pc = "apply",
         ~Skipped(c), IsNext(c) \/ c.act # "create",
         UNCHANGED <<cycleRest, world>>, Return(c, FALSE)
  PROVE  Promise!Drop
<1>1. Order(c) \in Agenda /\ Agenda' = Promise!Rest(Order(c).svc)
  BY AgendaAfter DEF Order
<1>2. UNCHANGED <<Visible, Trusted, cfg>>
  BY VisibleKept DEF Trusted
<1> QED
  BY <1>1, <1>2 DEF Promise!Drop

\* The reconcile cycle, one call at a time, with everything that may fail and
\* everybody who may write in between, implements Deployment: the property
\* DeploysAsDeclared of the runs.
THEOREM CycleKeepsPromise == Spec => DeploysAsDeclared
<1> DEFINE Inv == TypeOK /\ LockInv /\ PlanInv /\ IdInv /\ SourceInv /\ PairInv
<1>1. Init => Promise!Init
  BY ConstantsAssumption DEF Init, Promise!Init, Visible, Agenda, Config
<1>2. ASSUME Inv, [Next]_vars PROVE [Promise!Next]_(Promise!vars)
  <2> USE <1>2
  \* A step that nobody outside can see.
  <2>1. ASSUME UNCHANGED <<cluster, owned, cfg, signed>>, Agenda' = Agenda
        PROVE  UNCHANGED Promise!vars
    BY <2>1, VisibleKept DEF Promise!vars, Trusted
  <2>2. ASSUME pc # "apply", pc' # "apply" PROVE Agenda' = Agenda
    BY <2>2 DEF Agenda
  <2>3. CASE Poll \/ (\E s \in Services : Resolve(s)) \/ Observe
               \/ AwaitConverged \/ AwaitTimeout \/ StageFails
    <3>1. pc # "apply" /\ pc' # "apply" /\ UNCHANGED <<cluster, owned, cfg, signed>>
      BY <2>3 DEF Poll, Resolve, Observe, AwaitConverged, AwaitTimeout,
         StageFails, EndCycle
    <3> QED
      BY <2>1, <2>2, <3>1
  <2>4. CASE Verify
    <3>1. CASE pc' = "apply"
      BY <2>4, <3>1, PassedIsAdopted DEF Promise!Next
    <3>2. CASE pc' # "apply"
      BY <2>1, <2>2, <2>4, <3>2 DEF Verify
    <3> QED
      BY <3>1, <3>2
  <2>5. ASSUME NEW c \in todo, Skip(c) PROVE UNCHANGED Promise!vars
    <3>1. /\ Skipped(c) /\ todo' = todo \ {c} /\ failed' = failed
          /\ UNCHANGED <<pc, desired, cluster, owned, cfg, signed>>
      BY <2>5 DEF Skip, Skipped
    <3>2. Agenda' = Agenda
      <4>1. \A d : Order(d)' = Order(d) /\ Skipped(d)' = Skipped(d)
        BY <3>1 DEF Order, Skipped
      <4>2. {d \in todo' : ~Skipped(d)'} = {d \in todo : ~Skipped(d)}
        BY <3>1, <4>1
      <4> QED
        BY <3>1, <4>1, <4>2 DEF Agenda
    <3> QED
      BY <2>1, <3>1, <3>2
  <2>6. ASSUME NEW c \in todo, Inspect(c) PROVE [Promise!Next]_(Promise!vars)
    <3>1. /\ pc = "apply" /\ c.act # "create" /\ ~Skipped(c)
          /\ UNCHANGED <<cycleRest, world>>
      BY <2>6 DEF Inspect, Skipped
    <3>2. CASE Return(c, FALSE)
      BY <3>1, <3>2, FailuresDrop DEF Promise!Next
    <3>3. CASE ~Return(c, FALSE)
      <4>1. UNCHANGED <<todo, failed>>
        BY <2>6, <3>3 DEF Inspect
      <4> QED
        BY <2>1, <3>1, <4>1, AgendaKept
    <3> QED
      BY <3>2, <3>3
  <2>7. ASSUME NEW c \in todo, Create(c) PROVE Promise!Next
    <3>1. /\ pc = "apply" /\ IsNext(c) /\ c.act = "create" /\ ~Skipped(c)
          /\ UNCHANGED cycleRest
      BY <2>7 DEF Create, Skipped
    <3>2. CASE cluster[c.svc] # None
      BY <2>7, <3>1, <3>2, FailuresDrop DEF Create, Promise!Next
    <3>3. CASE cluster[c.svc] = None
      BY <2>7, <3>1, <3>3, WritesTakeEffect DEF Create, Promise!Next
    <3> QED
      BY <3>2, <3>3
  <2>8. CASE Update
    <3> DEFINE c == insp.chg
    <3>1. /\ pc = "apply" /\ c \in todo /\ c.act = "update" /\ ~Skipped(c)
          /\ UNCHANGED cycleRest /\ insp # None
      BY <2>8 DEF Update, Skipped, PlanInv
    <3>2. CASE ~VersionMatches(insp)
      BY <2>8, <3>1, <3>2, FailuresDrop DEF Update, Promise!Next
    <3>3. CASE VersionMatches(insp)
      <4>1. /\ cluster[c.svc] # None /\ cluster[c.svc] = insp.svc
            /\ insp.svc.att = c.spec.att
        BY <3>1, <3>3 DEF VersionMatches, LockInv, PairInv
      <4>2. /\ Answer(c)
            /\ cluster' = [cluster EXCEPT ![c.svc] =
                 Stored(cluster[c.svc].id, c.spec, TRUE, cluster[c.svc].op, "swarmgate")]
            /\ owned' = owned \cup {cluster[c.svc].id}
        BY <2>8, <3>3, <4>1 DEF Update
      <4> HIDE DEF c
      <4>3. Promise!TakeEffect
        BY <3>1, <4>1, <4>2, WritesTakeEffect
      <4> QED
        BY <4>3 DEF Promise!Next
    <3> QED
      BY <3>2, <3>3
  <2>9. CASE Remove
    <3> DEFINE c == insp.chg
    <3>1. /\ pc = "apply" /\ c \in todo /\ c.act = "remove" /\ ~Skipped(c)
          /\ UNCHANGED cycleRest /\ insp # None
      BY <2>9 DEF Remove, Skipped, PlanInv
    <3>2. CASE ~SameInstance(insp)
      BY <2>9, <3>1, <3>2, FailuresDrop DEF Remove, Promise!Next
    <3>3. CASE SameInstance(insp)
      <4>1. cluster[c.svc] # None /\ cluster[c.svc].id \in owned
        BY <3>1, <3>3 DEF SameInstance, LockInv
      <4>2. /\ Answer(c) /\ owned' = owned
            /\ cluster' = [cluster EXCEPT ![c.svc] = None]
        BY <2>9, <3>3 DEF Remove
      <4> HIDE DEF c
      <4>3. Promise!TakeEffect
        BY <3>1, <4>1, <4>2, WritesTakeEffect
      <4> QED
        BY <4>3 DEF Promise!Next
    <3> QED
      BY <3>2, <3>3
  <2>10. CASE ApplyDone \/ Abandon
    <3>1. pc' # "apply" /\ UNCHANGED <<cluster, owned, cfg, signed>>
      BY <2>10 DEF ApplyDone, Abandon, EndCycle
    <3>2. Agenda' = {} /\ UNCHANGED <<Visible, Trusted, cfg>>
      BY <3>1, VisibleKept DEF Agenda, Trusted
    <3> QED
      BY <3>2 DEF Promise!Drop, Promise!Next
  <2>11. ASSUME NEW c \in todo, CallFails(c) PROVE Promise!Next
    <3>1. /\ pc = "apply" /\ ~Skipped(c) /\ UNCHANGED <<cycleRest, world>>
          /\ Return(c, FALSE)
      BY <2>11 DEF CallFails, Skipped
    <3>2. IsNext(c) \/ c.act # "create"
      BY <2>11 DEF CallFails, PairInv
    <3> QED
      BY <3>1, <3>2, FailuresDrop DEF Promise!Next
  <2>12. CASE \/ \E c \in Commits : Push(c)
              \/ \E t \in Tags, d \in Digests : MoveTag(t, d)
              \/ UNCHANGED vars
    <3>1. UNCHANGED <<cluster, owned, cfg, signed, pc, desired, todo, failed>>
      BY <2>12 DEF Push, MoveTag, vars
    <3> QED
      BY <2>1, <3>1, AgendaKept
  <2>13. ASSUME NEW s \in Services, NEW d \in Digests, Sign(s, d)
         PROVE  Promise!Next
    <3>1. /\ UNCHANGED <<cluster, owned, cfg, pc, desired, todo, failed>>
          /\ signed \subseteq signed'
      BY <2>13 DEF Sign
    <3>2. UNCHANGED <<Visible, Agenda, cfg>> /\ Trusted \subseteq Trusted'
      BY <3>1, VisibleKept, AgendaKept DEF Trusted
    <3> QED
      BY <3>2 DEF Promise!Trust, Promise!Next
  \* Someone else writes a service, or its rollout ends.
  <2>14. ASSUME NEW s \in Services, NEW r, cluster' = [cluster EXCEPT ![s] = r],
                \/ owned' = owned
                \/ /\ r # None /\ owned' = owned \cup {r.id}
                   /\ \/ r.id = raft + 1
                      \/ cluster[s] # None /\ r.id = cluster[s].id,
                \/ r = None
                \/ r.by = "operator"
                \/ /\ cluster[s] # None
                   /\ r.by = cluster[s].by /\ r.img = cluster[s].img,
                UNCHANGED <<cfg, signed, pc, desired, todo, failed>>
         PROVE  Promise!Next
    <3>1. Visible' = [Visible EXCEPT ![s] = IF r = None THEN None ELSE Seen(r)']
      BY <2>14, VisibleWrite
    <3>2. Visible' = [Visible EXCEPT ![s] = Visible'[s]]
      BY <3>1 DEF Visible
    <3>3. Promise!Foreign(Visible[s], Visible'[s])
      <4>1. CASE r = None
        BY <3>1, <4>1 DEF Visible, Promise!Foreign
      <4>2. CASE r # None
        <5>1. Visible'[s] = Seen(r)'
          BY <3>1, <4>2 DEF Visible
        <5>2. Visible'[s].by = r.by /\ Visible'[s].img = r.img
          BY <5>1 DEF Seen
        <5>3. cluster[s] # None => /\ Visible[s] # None
                                  /\ Visible[s].by = cluster[s].by
                                  /\ Visible[s].img = cluster[s].img
          <6>1. /\ Seen(cluster[s]).by = cluster[s].by
                /\ Seen(cluster[s]).img = cluster[s].img
            BY DEF Seen
          <6>2. TypeOK
            OBVIOUS
          <6>3. cluster[s] # None => Visible[s] = Seen(cluster[s]) /\ Visible[s] # None
            BY <6>2, VisibleType
          <6> QED
            BY <6>1, <6>3
        <5> QED
          BY <2>14, <4>2, <5>2, <5>3 DEF Promise!Foreign
      <4> QED
        BY <4>1, <4>2
    <3>4. UNCHANGED <<Agenda, Trusted, cfg>>
      BY <2>14, AgendaKept DEF Trusted
    <3> QED
      BY <3>2, <3>3, <3>4 DEF Promise!Others, Promise!Next
  <2>15. ASSUME NEW s \in Services, Rollout(s) PROVE Promise!Next
    BY <2>14, <2>15 DEF Rollout
  <2>16. ASSUME NEW s \in Services, OperatorRemove(s) PROVE Promise!Next
    BY <2>14, <2>16 DEF OperatorRemove
  <2>17. ASSUME NEW s \in Services, NEW d \in Digests, NEW a \in Atts,
                NEW m \in BOOLEAN, OperatorCreate(s, d, a, m)
         PROVE  Promise!Next
    <3> DEFINE r == Stored(raft + 1, [img |-> d, att |-> a], m, NoOp, "operator")
    <3>1. r # None /\ r.id = raft + 1 /\ r.by = "operator"
      <4>1. r \in Service
        BY ConstantsAssumption DEF Stored, Service, TypeOK
      <4> QED
        BY <4>1, NoneAssumption DEF Stored
    <3>2. /\ cluster' = [cluster EXCEPT ![s] = r]
          /\ owned' = owned \/ owned' = owned \cup {raft + 1}
          /\ UNCHANGED <<cfg, signed, pc, desired, todo, failed>>
      BY <2>17 DEF OperatorCreate
    <3> HIDE DEF r
    <3> QED
      BY <2>14, <3>1, <3>2
  <2>18. ASSUME NEW s \in Services, OperatorUpdate(s) PROVE Promise!Next
    <3>1. PICK r \in Edits(cluster[s]) :
            /\ cluster' = [cluster EXCEPT ![s] = r]
            /\ owned' = owned \/ owned' = owned \cup {r.id}
      BY <2>18 DEF OperatorUpdate
    <3>2. cluster[s] # None /\ cluster[s] \in Service /\ raft \in Nat
          /\ UNCHANGED <<cfg, signed, pc, desired, todo, failed>>
      BY <2>18 DEF OperatorUpdate, TypeOK
    <3>3. r \in Service /\ r.id = cluster[s].id
      BY <3>2, EditsType
    <3>4. r.by = "operator" \/ (r.by = cluster[s].by /\ r.img = cluster[s].img)
      BY <3>1 DEF Edits, Stored
    <3> QED
      BY <2>14, <3>1, <3>2, <3>3, <3>4, NoneAssumption
  <2> QED
    BY <2>3, <2>4, <2>5, <2>6, <2>7, <2>8, <2>9, <2>10, <2>11, <2>12, <2>13,
       <2>15, <2>16, <2>17, <2>18
    DEF Next, LoopStep, ApplyStep, Failure, Environment, Operator
<1>3. Inv /\ [Next]_vars => [Promise!Next]_(Promise!vars)
  BY <1>2
<1> HIDE DEF Inv
<1>4. Spec => []Inv
  BY TypeCorrect, LockInvariant, PlanInvariant, IdInvariant, SourceInvariant,
     PairInvariant, PTL DEF Inv
<1> QED
  BY <1>1, <1>3, <1>4, PTL DEF Spec, DeploysAsDeclared, Promise!Spec
=============================================================================

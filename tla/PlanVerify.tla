------------------------------ MODULE PlanVerify ------------------------------
(***************************************************************************)
(* plan(), verify() and changesToAwaitDiff() of internal/loop as they are  *)
(* written: loops that append to slices of changes, a batch of verdicts,   *)
(* and two indexes that walk the slice and the batch together.  The        *)
(* properties say that they compute the sets of module Changes, in the     *)
(* order the apply loop relies on; module Reconcile takes one step for     *)
(* what is done here.                                                      *)
(***************************************************************************)
EXTENDS Changes, SequencesExt

VARIABLES
    want, have, \* the services of the two states, as diff.Compute gets them
    prune,      \* cfg.Prune
    stage,      \* "diff", a loop of plan(), one of verify(), "failed", "done"
    names,      \* services that the loop of plan() is still to visit
    changes,    \* the slice of changes
    toVerify,   \* those the gate is asked about
    passByIndex,    \* its verdicts, one for each
    i, verifyIndex, \* the indexes into changes and passByIndex
    passedByChange, \* the marks
    passed      \* the changes that passed

inputs == <<want, have, prune>>
planned == <<names, changes>>
vars == <<inputs, stage, planned, toVerify, passByIndex, i, verifyIndex,
          passedByChange, passed>>

Init ==
    /\ want \in [Services -> ServiceSpec \cup {None}]
    /\ have \in [Services -> ServiceSpec \cup {None}]
    /\ prune \in BOOLEAN
    /\ stage = "diff" /\ names = {}
    /\ changes = <<>> /\ toVerify = <<>> /\ passByIndex = <<>>
    /\ passedByChange = <<>> /\ passed = <<>>
    /\ i = 1 /\ verifyIndex = 0

-----------------------------------------------------------------------------
(* plan(): a loop each for recreates, creates, updates and removes. *)

Recreated == {s \in Updates(want, have) : AttachmentOnly(want[s], have[s])}

\* The services a loop visits, those it skips left out.
Visited(loop) ==
    CASE loop = "recreates" -> Recreated
      [] loop = "creates" -> Creates(want, have)
      [] loop = "updates" -> Updates(want, have) \ Recreated
      [] loop = "removes" -> IF prune THEN Removes(want, have) ELSE {}

\* Mutant: the create of a recreate comes before its removal.
Pair_Reversed(s) ==
    <<Chg("create", s, want[s], TRUE), Chg("remove", s, have[s], TRUE)>>
\* The two changes of a recreate are adjacent in the slice.
Pair(s) ==
    <<Chg("remove", s, have[s], TRUE), Chg("create", s, want[s], TRUE)>>

\* What a loop appends for a service.
Added(loop, s) ==
    CASE loop = "recreates" -> Pair(s)
      [] loop = "creates" -> <<Chg("create", s, want[s], FALSE)>>
      [] loop = "updates" -> <<Chg("update", s, want[s], FALSE)>>
      [] loop = "removes" -> <<Chg("remove", s, have[s], FALSE)>>

PlanLoops == {"recreates", "creates", "updates", "removes"}
NextLoop(loop) == CASE loop = "diff" -> "recreates" [] loop = "recreates" -> "creates"
                    [] loop = "creates" -> "updates" [] loop = "updates" -> "removes"

\* The differ's slices are sorted by name.
Visit ==
    /\ stage \in PlanLoops
    /\ \E s \in names :
         /\ \A t \in names : s <= t
         /\ changes' = changes \o Added(stage, s)
         /\ names' = names \ {s}
    /\ UNCHANGED <<inputs, stage, toVerify, passByIndex, i, verifyIndex,
                   passedByChange, passed>>

EnterLoop ==
    /\ \/ stage = "diff" /\ ~DiffEmpty(want, have)
       \/ stage \in PlanLoops \ {"removes"} /\ names = {}
    /\ stage' = NextLoop(stage) /\ names' = Visited(NextLoop(stage))
    /\ UNCHANGED <<inputs, changes, toVerify, passByIndex, i, verifyIndex,
                   passedByChange, passed>>

PlanReturns ==
    /\ stage = "removes" /\ names = {} /\ stage' = "send"
    /\ UNCHANGED <<inputs, planned, toVerify, passByIndex, i, verifyIndex,
                   passedByChange, passed>>

-----------------------------------------------------------------------------
(* verify() *)

AtChange(loop) == stage = loop /\ i <= Len(changes) /\ i' = i + 1
LoopEnds(loop, next) ==
    stage = loop /\ i > Len(changes) /\ stage' = next /\ i' = 1

\* Removals are never sent to the gate.
Send ==
    /\ AtChange("send")
    /\ toVerify' = IF changes[i].act = "remove" THEN toVerify
                   ELSE Append(toVerify, changes[i])
    /\ UNCHANGED <<inputs, stage, planned, passByIndex, verifyIndex,
                   passedByChange, passed>>

\* gate.Verify answers with one verdict per change, in their order.
GetVerdicts ==
    /\ LoopEnds("send", "mark")
    /\ passByIndex' \in [DOMAIN toVerify -> BOOLEAN]
    /\ UNCHANGED <<inputs, planned, toVerify, verifyIndex, passedByChange,
                   passed>>

\* An error of the gate, in contrast to a rejection, fails the stage.
GateFails ==
    /\ LoopEnds("send", "failed")
    /\ UNCHANGED <<inputs, planned, toVerify, passByIndex, verifyIndex,
                   passedByChange, passed>>

\* The verdict at a (zero-based) index, false beyond the batch.
Pass(k) == k < Len(passByIndex) /\ passByIndex[k + 1]

\* Mutant: a removal is never tied to the create after it.
HeadsPair_Never(k) == FALSE
\* The removal at position k of the slice is the first half of a pair.
HeadsPair(k) ==
    /\ changes[k].recreate /\ k < Len(changes)
    /\ changes[k + 1].recreate /\ changes[k + 1].act = "create"

\* Mutant: the index moves on although no verdict was for the removal.
AfterRemoval_Counted == verifyIndex + 1
\* A removal takes no verdict of its own.
AfterRemoval == verifyIndex

Marked(b) == passedByChange' = Append(passedByChange, b)

MarkRemoval ==
    /\ AtChange("mark") /\ changes[i].act = "remove"
    /\ Marked(HeadsPair(i) => Pass(verifyIndex))
    /\ verifyIndex' = AfterRemoval
    /\ UNCHANGED <<inputs, stage, planned, toVerify, passByIndex, passed>>

MarkVerified ==
    /\ AtChange("mark") /\ changes[i].act # "remove"
    /\ Marked(Pass(verifyIndex))
    /\ verifyIndex' = verifyIndex + 1
    /\ UNCHANGED <<inputs, stage, planned, toVerify, passByIndex, passed>>

MarksEnd ==
    /\ LoopEnds("mark", "collect")
    /\ UNCHANGED <<inputs, planned, toVerify, passByIndex, verifyIndex,
                   passedByChange, passed>>

Collect ==
    /\ AtChange("collect")
    /\ passed' = IF passedByChange[i] THEN Append(passed, changes[i]) ELSE passed
    /\ UNCHANGED <<inputs, stage, planned, toVerify, passByIndex, verifyIndex,
                   passedByChange>>

VerifyReturns ==
    /\ LoopEnds("collect", "done")
    /\ UNCHANGED <<inputs, planned, toVerify, passByIndex, verifyIndex,
                   passedByChange, passed>>

Next ==
    \/ Visit \/ EnterLoop \/ PlanReturns
    \/ Send \/ GetVerdicts \/ GateFails \/ MarkRemoval \/ MarkVerified \/ MarksEnd
    \/ Collect \/ VerifyReturns

Spec == Init /\ [][Next]_vars

\* Mutant: the removal of a recreate is awaited, too.
Awaited_All(c) == TRUE
\* changesToAwaitDiff: the changes whose effect is awaited.
Awaited(c) == ~(c.act = "remove" /\ c.recreate)

-----------------------------------------------------------------------------
(* Properties. *)

\* plan() computes the set Plan, in the order Before, without repetition.
PlanIsOrdered ==
    stage \in {"send", "mark", "collect", "done"} =>
      /\ ToSet(changes) = Plan(want, have, prune)
      /\ \A j, k \in DOMAIN changes : j < k => Before(changes[j], changes[k])

\* The pairs <<service, image>> for which the gate's batch says pass.
Verdict ==
    {<<toVerify[k].svc, toVerify[k].spec.img>> :
       k \in {j \in DOMAIN toVerify : passByIndex[j]}}

\* verify() walks slice and batch in step: every change is judged by the
\* verdict on its own service, the removal of a recreate by that of its
\* create, whatever mix of changes surrounds it; and the order stays.
VerifyIsPassed ==
    stage = "done" =>
      /\ ToSet(passed) = Passed(ToSet(changes), Verdict)
      /\ \A j, k \in DOMAIN passed : j < k => Before(passed[j], passed[k])

\* A service that is taken down for a recreate comes up again at once: its
\* create is the next change of what verify() passes on.
RecreateStaysAdjacent ==
    stage = "done" =>
      \A k \in DOMAIN passed :
        passed[k].act = "remove" /\ passed[k].recreate =>
          /\ k < Len(passed)
          /\ passed[k + 1].act = "create" /\ passed[k + 1].recreate
          /\ passed[k + 1].svc = passed[k].svc

\* AwaitConverged is told of each service once at most, so a recreated
\* service is not awaited as gone and as there at the same time.
AwaitedOnce ==
    stage = "done" =>
      \A j, k \in DOMAIN passed :
        Awaited(passed[j]) /\ Awaited(passed[k]) /\ passed[j].svc = passed[k].svc
          => j = k
=============================================================================

----------------------------- MODULE EventStream -----------------------------
(***************************************************************************)
(* The goroutine that turns the engine's service events into drift hints   *)
(* (internal/observe events.go): it subscribes, handles one event after    *)
(* the other, asks the engine about a service whose event carries no       *)
(* label, sends the hint over a channel without a buffer, and reconnects   *)
(* with a growing delay whenever the subscription ends or the handler      *)
(* panics.  Between an event, its inspect and its hint the service may     *)
(* change again.                                                           *)
(***************************************************************************)
EXTENDS Naturals, Sequences, SequencesExt

CONSTANTS
    Services,      \* services of the cluster, each with one ID and one name
    BackoffMin,    \* eventsBackoffMin
    BackoffMax,    \* eventsBackoffMax
    Carried,       \* what engines put into events: TRUE if the managed label
    MaxWire,       \* bound on the events under way
    MaxChanges,    \* bound on the changes of the cluster
    MaxFaults,     \* bound on the inspects that fail
    Nil            \* no event, no hint

\* What an ID stands for in the cluster.
Status == {"managed", "unmanaged", "gone"}
\* An event: the service, whether it carries the label, and (history) what the
\* service was right before and after the change it tells of.
Event == [svc : Services, carried : BOOLEAN, before : Status, after : Status]

VARIABLES
    cluster,   \* the services
    changes,   \* changes so far
    faults,    \* inspects that failed so far
    pc,        \* "connect", "select", "inspect", "send", "wait" or "closed"
    wire,      \* events of this subscription not yet received
    broken,    \* the subscription has ended; wire may still hold events
    msg,       \* the event in hand
    backoff,   \* the delay before the next subscription
    age,       \* time since the subscription began, up to BackoffMax
    left,      \* what is left of the delay
    short,     \* history: subscriptions in a row that ended within the delay
    cancelled  \* ctx is cancelled

engine == <<cluster, changes, faults, wire, broken>>
timing == <<backoff, age, left, short>>
vars == <<engine, pc, msg, timing, cancelled>>

Init ==
    /\ cluster \in [Services -> Status] /\ changes = 0 /\ faults = 0
    /\ pc = "connect" /\ wire = <<>> /\ broken = FALSE /\ msg = Nil
    /\ backoff = BackoffMin /\ age = 0 /\ left = 0 /\ short = 0
    /\ cancelled = FALSE

Least(x, y) == IF x < y THEN x ELSE y

-----------------------------------------------------------------------------
(* runEvents *)

\* streamEvents subscribes; what happened before is not told.
Connect ==
    /\ pc = "connect"
    /\ pc' = "select" /\ wire' = <<>> /\ broken' = FALSE
    /\ age' = 0
    /\ UNCHANGED <<cluster, changes, faults, msg, backoff, left, short, cancelled>>

\* Mutant: a subscription that lasted does not bring the delay back down.
NextBackoff_NoReset == Least(2 * backoff, BackoffMax)
\* Mutant: the delay is doubled without a limit.
NextBackoff_Uncapped == IF age >= backoff THEN BackoffMin ELSE 2 * backoff
\* A subscription that was up for the whole delay forgives what was before it.
NextBackoff ==
    IF age >= backoff THEN BackoffMin ELSE Least(2 * backoff, BackoffMax)

\* streamEvents returned, or panicked and was recovered.
StreamEnds ==
    /\ msg' = Nil /\ wire' = <<>> /\ broken' = FALSE /\ age' = 0
    /\ IF cancelled
       THEN pc' = "closed" /\ UNCHANGED <<backoff, left, short>>
       ELSE /\ pc' = "wait"
            /\ backoff' = NextBackoff /\ left' = NextBackoff
            /\ short' = IF age >= backoff THEN 0 ELSE Least(short + 1, BackoffMax)
    /\ UNCHANGED <<cluster, changes, faults, cancelled>>

\* Mutant: a panic ends the goroutine.
Recovered_Dies ==
    /\ pc' = "closed" /\ msg' = Nil /\ wire' = <<>> /\ broken' = FALSE
    /\ UNCHANGED <<cluster, changes, faults, timing, cancelled>>
\* streamEventsRecovered: a panic is a stream that ended.
Recovered == StreamEnds

Panic == pc \in {"select", "inspect"} /\ Recovered

\* Mutant: the delay waits for ctx.Done() only.
WaitEnds_Forever ==
    /\ pc = "wait" /\ cancelled
    /\ pc' = "closed"
    /\ UNCHANGED <<engine, msg, timing, cancelled>>
\* The select after the loop: the timer fired, or ctx is done.
WaitEnds ==
    /\ pc = "wait"
    /\ \/ left = 0 /\ pc' = "connect"
       \/ cancelled /\ pc' = "closed"
    /\ UNCHANGED <<engine, msg, timing, cancelled>>

-----------------------------------------------------------------------------
(* streamEvents and hintFor *)

\* The select: ctx is done, or the subscription has ended, whose error is
\* taken although events may still be there.
Stop == pc = "select" /\ (cancelled \/ broken) /\ StreamEnds

\* Without a label on the event hintFor has to ask the engine.
Receive ==
    /\ pc = "select" /\ wire # <<>>
    /\ LET e == Head(wire) IN
       IF e.carried
       THEN IF e.after = "managed"
            THEN pc' = "send" /\ msg' = e
            ELSE pc' = "select" /\ msg' = Nil
       ELSE pc' = "inspect" /\ msg' = e
    /\ wire' = Tail(wire)
    /\ UNCHANGED <<cluster, changes, faults, broken, timing, cancelled>>

\* Mutant: an inspect that finds nothing drops the event like any other error.
Matches_FoundOnly(answer) == answer = "managed"
\* A service that is gone is the removal the hint is for.
Matches(answer) == answer \in {"managed", "gone"}

\* ServiceInspectWithRaw answers with what the service is by now.
Inspect ==
    /\ pc = "inspect"
    /\ IF Matches(cluster[msg.svc])
       THEN pc' = "send" /\ UNCHANGED msg
       ELSE pc' = "select" /\ msg' = Nil
    /\ UNCHANGED <<engine, timing, cancelled>>

\* Any other error leaves the event to the poll.
InspectFails ==
    /\ pc = "inspect" /\ faults < MaxFaults
    /\ faults' = faults + 1
    /\ pc' = "select" /\ msg' = Nil
    /\ UNCHANGED <<cluster, changes, wire, broken, timing, cancelled>>

\* The watcher takes the hint.
Send ==
    /\ pc = "send"
    /\ pc' = "select" /\ msg' = Nil
    /\ UNCHANGED <<engine, timing, cancelled>>

\* Mutant: the hint is sent without a select.
SendCancelled_Blocks == FALSE
\* Nobody takes hints any more once ctx is done.
SendCancelled == pc = "send" /\ cancelled /\ StreamEnds

-----------------------------------------------------------------------------
(* The engine, the clock and the caller. *)

\* A service is created, edited, relabelled or removed, and subscribers hear
\* of it; an event of a removal carries the labels it had.
Change(s, after, carried) ==
    /\ changes < MaxChanges /\ changes' = changes + 1
    /\ <<cluster[s], after>> # <<"gone", "gone">>
    /\ cluster' = [cluster EXCEPT ![s] = after]
    /\ IF pc \in {"select", "inspect", "send"} /\ ~broken /\ Len(wire) < MaxWire
       THEN wire' = Append(wire, [svc |-> s, carried |-> carried,
                                  before |-> cluster[s],
                                  after |-> IF after = "gone"
                                            THEN cluster[s] ELSE after])
       ELSE UNCHANGED wire
    /\ UNCHANGED <<faults, broken, pc, msg, timing, cancelled>>

\* The connection breaks; the client may have handed over some events or not.
Break ==
    /\ pc \in {"select", "inspect", "send"} /\ ~broken
    /\ broken' = TRUE
    /\ UNCHANGED <<cluster, changes, faults, wire, pc, msg, timing, cancelled>>

Tick ==
    /\ \/ /\ pc \in {"select", "inspect", "send"} /\ age < BackoffMax
          /\ age' = age + 1 /\ UNCHANGED left
       \/ /\ pc = "wait" /\ left > 0
          /\ left' = left - 1 /\ UNCHANGED age
    /\ UNCHANGED <<engine, pc, msg, backoff, short, cancelled>>

Cancel ==
    /\ ~cancelled /\ cancelled' = TRUE
    /\ UNCHANGED <<engine, pc, msg, timing>>

Handle == Connect \/ Stop \/ Receive \/ Inspect \/ InspectFails
          \/ SendCancelled \/ WaitEnds
Next ==
    \/ Handle \/ Send \/ Panic \/ Break \/ Tick \/ Cancel
    \/ \E s \in Services, a \in Status, c \in Carried : Change(s, a, c)
    \/ pc = "closed" /\ UNCHANGED <<engine, pc, msg, timing, cancelled>>

Spec == Init /\ [][Next]_vars

\* The goroutine runs when it can, the timer fires, and watchEvents takes
\* hints as long as ctx is not done (then it may have stopped).
FairSpec ==
    /\ Spec /\ WF_vars(Handle) /\ WF_vars(Tick)
    /\ WF_vars(~cancelled /\ Send)

-----------------------------------------------------------------------------
(* Properties. *)

\* The delay doubles with every subscription in a row that did not last, up to
\* the maximum, and is the minimum after one that did, whatever happened
\* before: failures do not add up across unrelated outages.
BackoffForgives ==
    pc = "wait" => backoff = Least(BackoffMin * 2^short, BackoffMax)

\* The handler goes on to the next event without a hint for e, although no
\* inspect failed.
Drops(e) ==
    /\ pc' = "select" /\ faults' = faults
    /\ \/ pc = "inspect" /\ e = msg
       \/ pc = "select" /\ wire # <<>> /\ wire' = Tail(wire) /\ e = Head(wire)

\* An event of a service that was managed before or after the change is dropped
\* only if the service is there without the label: a removal between the event
\* and the inspect does not lose the hint.
ToldOrForeign ==
    \A e \in Range(wire) \cup {msg} :
        Drops(e) => \/ "managed" \notin {e.before, e.after}
                    \/ "unmanaged" \in {cluster[e.svc], e.after}
ManagedChangeIsTold == [][ToldOrForeign]_vars

\* However the subscription ends, the goroutine listens again.
ListensAgain == []<>(pc = "select" \/ cancelled)
=============================================================================

------------------------------ MODULE HintPath ------------------------------
(***************************************************************************)
(* The way of an engine event to a cycle: EventStream and WakeLoop as one  *)
(* system.  The goroutine of internal/observe hands its hints to the       *)
(* watcher of internal/loop over a channel without a buffer, so either     *)
(* waits for the other, and both listen to the same ctx.                   *)
(*                                                                         *)
(* A panic of the watcher leaks the stream's goroutine and starts a second *)
(* one (the doc of watchEventsOnce accepts that); here the watcher does    *)
(* not panic, in WakeLoop alone it does.                                   *)
(***************************************************************************)
EXTENDS WakeLoop

CONSTANTS Services, BackoffMin, BackoffMax, Carried, MaxWire, MaxChanges,
          MaxFaults, Nil,
          JointFailures, \* bound on the loop's failures in a row
          JointBreaks,   \* bound on short subscriptions in a row
          JointChanges   \* bound on the changes

ASSUME StreamAssumption ==
    /\ BackoffMin \in Nat \ {0} /\ BackoffMax \in Nat /\ BackoffMin <= BackoffMax
    /\ Carried \subseteq BOOLEAN

\* Arithmetic, no restriction: what doubling does to a power of two.
ASSUME PowersDouble ==
    \A n \in 0 .. BackoffMax :
        2^n \in Nat /\ n <= 2^n /\ 2^(n + 1) = 2 * 2^n

VARIABLES cluster, changes, faults, pc, wire, broken, msg, backoff, age, left,
          short

S == INSTANCE EventStream

streamVars == <<cluster, changes, faults, pc, wire, broken, msg, backoff, age,
                left, short>>
loopVars == <<loop, wake, ticker, watcher, attempt, delay, streak, pending,
              noted, woken, sent, panics>>

\* Mutant: a hint that nobody waits for is dropped (a select with a default).
HandOver_Dropped == S!Send /\ UNCHANGED loopVars
\* out <- hint meets range src(ctx).
HandOver == S!Send /\ ReceiveHint

StreamStep ==
    /\ \/ S!Handle \/ S!Panic \/ S!Break \/ S!Tick
       \/ \E s \in Services, a \in S!Status, c \in Carried : S!Change(s, a, c)
    /\ changes' <= JointChanges /\ short' <= JointBreaks
    /\ UNCHANGED loopVars

Goroutines == LoopStep \/ TickerStep \/ WatcherStep
JointStep == \/ Goroutines /\ streak' <= JointFailures /\ UNCHANGED streamVars
             \/ HandOver \/ StreamStep
             \/ Cancel /\ UNCHANGED streamVars \* one ctx for all

AllStopped == Stopped /\ pc = "closed"
JointNext ==
    \/ JointStep
    \/ AllStopped /\ UNCHANGED <<loopVars, cancelled, streamVars>>

JointInit == Init /\ S!Init /\ \A s \in Services : cluster[s] = "managed"

-----------------------------------------------------------------------------
(* Properties. *)

\* A hint that the stream has in hand leads to a cycle that begins after the
\* hint was recorded, whatever cycle, back-off, tick or full channel it meets.
HintStartsCycle ==
    \A n \in 0 .. JointChanges - 1 :
        pc = "send" /\ sent = n ~> (woken > n /\ ~pending) \/ cancelled
=============================================================================

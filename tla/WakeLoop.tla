------------------------------- MODULE WakeLoop -------------------------------
(***************************************************************************)
(* When cycles run (internal/loop Run, run, watchEvents and backoff): the  *)
(* loop goroutine, the poll ticker and the watcher of engine events share  *)
(* one wake channel with a buffer of one.  A cycle is reduced to how it    *)
(* ends; what it does is in module Reconcile.                              *)
(*                                                                         *)
(* Delays are counted in tenths of a second, in Width-bit signed integers, *)
(* so that an overflow of the shift shows as it would in time.Duration.    *)
(***************************************************************************)
EXTENDS Integers

CONSTANTS
    Base,        \* backoffBase
    Cap,         \* backoffCap
    MaxAttempt,  \* backoffMaxAttempt
    Width,       \* bits of a duration
    MaxEvents,   \* bound on engine events
    MaxPanics,   \* bound on panics of the watcher
    MaxFailures  \* bound on the failures "streak" counts

ASSUME BackoffAssumption ==
    /\ Base \in Nat \ {0} /\ Cap \in Nat /\ Base <= Cap
    /\ MaxAttempt \in Nat /\ Width \in Nat \ {0}
    /\ MaxEvents \in Nat /\ MaxPanics \in Nat /\ MaxFailures \in Nat
    /\ MaxAttempt < MaxFailures          \* a streak outgrows the last attempt
    /\ Base * 2^MaxAttempt >= Cap        \* the shift reaches the cap
    /\ Base * 2^MaxAttempt < 2^(Width-1) \* without overflow

\* Arithmetic, no restriction: powers of two are positive and grow.  The
\* provers know nothing of exponentiation; TLC evaluates it.
ASSUME PowersGrow ==
    \A m, n \in 0 .. MaxFailures + Width :
        2^m \in Nat \ {0} /\ (m <= n => 2^m <= 2^n)

VARIABLES
    loop,      \* run(): "cycle", "backoff", "wait" or "returned"
    wake,      \* items in the wake channel: 0 or 1
    cancelled, \* ctx is cancelled
    ticker,    \* the ticker goroutine: "running" or "returned"
    watcher,   \* watchEvents: "receive", "record", "wake", "reopen", "returned"
    attempt,   \* backoff.attempt
    delay,     \* what run() waits for in a back-off, 0 outside
    streak,    \* history: failures before apply since the last success
    pending,   \* history: a wake was asked for since the last cycle began
    noted,     \* history: hints recorded in cycleState
    woken,     \* history: hints a wake was asked for
    sent,      \* engine events received so far
    panics     \* panics of the watcher so far

vars == <<loop, wake, cancelled, ticker, watcher, attempt, delay, streak,
          pending, noted, woken, sent, panics>>
watch == <<watcher, noted, woken, sent, panics>>

Init ==
    /\ loop = "cycle" /\ wake = 0 /\ cancelled = FALSE
    /\ ticker = "running" /\ watcher = "receive"
    /\ attempt = 0 /\ delay = 0 /\ streak = 0 /\ pending = FALSE
    /\ noted = 0 /\ woken = 0 /\ sent = 0 /\ panics = 0

-----------------------------------------------------------------------------
(* backoff *)

\* A Width-bit signed integer.
Wrap(x) == LET m == x % 2^Width IN
           IF m >= 2^(Width - 1) THEN m - 2^Width ELSE m

AtMost(x, y) == IF x > y THEN y ELSE x

\* Mutant: the attempt is not capped before the shift.
Capped_Never(a) == a
\* next() caps the attempt before it shifts.
Capped(a) == AtMost(a, MaxAttempt)

\* Mutant: the delay grows linearly.
Nominal_Linear(a) == AtMost(Base * (a + 1), Cap)
\* The delay before jitter: backoffBase << attempt, at most backoffCap.
Nominal(a) == AtMost(Wrap(Base * 2^Capped(a)), Cap)

\* The jittered delays: 80% to 120%, still at most the cap; a negative delay
\* falls back to the base.
Jittered(d) == {LET x == AtMost((d * p) \div 100, Cap) IN
                IF x < 0 THEN Base ELSE x : p \in {80, 100, 119}}

-----------------------------------------------------------------------------
(* run() *)

\* The loop calls safeCycle again.
StartCycle == loop' = "cycle" /\ pending' = FALSE

\* The cycle ends without error: the loop waits for a wake.
CycleOk ==
    /\ loop = "cycle"
    /\ attempt' = 0 /\ streak' = 0
    /\ loop' = "wait"
    /\ UNCHANGED <<wake, cancelled, ticker, delay, pending, watch>>

\* Mutant: an error ends the loop.
AfterError_Return == "returned"
\* Cycle errors are logged and the loop keeps going.
AfterError == "wait"

\* It fails during or after apply: the loop waits for a wake, too.
CycleFails ==
    /\ loop = "cycle"
    /\ loop' = IF cancelled THEN "returned" ELSE AfterError
    /\ UNCHANGED <<wake, cancelled, ticker, attempt, delay, streak, pending,
                   watch>>

\* It fails before apply, or panics: the loop backs off.
CycleFailsEarly ==
    /\ loop = "cycle"
    /\ IF cancelled
       THEN loop' = "returned" /\ UNCHANGED <<attempt, delay, streak>>
       ELSE /\ loop' = "backoff"
            /\ delay' \in Jittered(Nominal(attempt))
            /\ attempt' = Capped(attempt) + 1
            /\ streak' = AtMost(streak + 1, MaxFailures)
    /\ UNCHANGED <<wake, cancelled, ticker, pending, watch>>

\* The back-off does not listen to the wake channel: its item stays there.
BackoffEnds ==
    /\ loop = "backoff"
    /\ StartCycle
    /\ delay' = 0
    /\ UNCHANGED <<wake, cancelled, ticker, attempt, streak, watch>>

TakeWake ==
    /\ loop = "wait" /\ wake = 1
    /\ wake' = 0
    /\ StartCycle
    /\ UNCHANGED <<cancelled, ticker, attempt, delay, streak, watch>>

\* Both selects listen to ctx.Done(), too.
Interruptible == {"wait", "backoff"}

Return ==
    /\ loop \in Interruptible /\ cancelled
    /\ loop' = "returned" /\ delay' = 0
    /\ UNCHANGED <<wake, cancelled, ticker, attempt, streak, pending, watch>>

-----------------------------------------------------------------------------
(* The ticker and the watcher. *)

\* Mutant: the channel has no buffer, so a wake needs a waiting loop.
BufferedWake_Unbuffered == IF loop = "wait" THEN 1 ELSE wake
\* requestWake: one item at most, and never blocking.
BufferedWake == 1

RequestWake == wake' = BufferedWake /\ pending' = TRUE

Tick ==
    /\ ticker = "running" /\ ~cancelled
    /\ RequestWake
    /\ UNCHANGED <<loop, cancelled, ticker, attempt, delay, streak, watch>>

TickerReturns ==
    /\ ticker = "running" /\ cancelled
    /\ ticker' = "returned"
    /\ UNCHANGED <<loop, wake, cancelled, attempt, delay, streak, pending, watch>>

\* Mutant: the wake is asked for before the hint is recorded.
AfterReceive_Wake == "wake"
\* watchEventsOnce records the hint, then asks for the wake.
AfterReceive == "record"

ReceiveHint ==
    /\ watcher = "receive" /\ sent < MaxEvents
    /\ sent' = sent + 1
    /\ watcher' = AfterReceive
    /\ UNCHANGED <<loop, wake, cancelled, ticker, attempt, delay, streak,
                   pending, noted, woken, panics>>

RecordHint ==
    /\ watcher = "record"
    /\ noted' = sent
    /\ watcher' = "wake"
    /\ UNCHANGED <<loop, wake, cancelled, ticker, attempt, delay, streak,
                   pending, woken, sent, panics>>

WakeForHint ==
    /\ watcher = "wake"
    /\ RequestWake
    /\ woken' = sent
    /\ watcher' = "receive"
    /\ UNCHANGED <<loop, cancelled, ticker, attempt, delay, streak, noted, sent,
                   panics>>

\* Mutant: the watcher is not restarted after a panic.
AfterPanic_Dead == "dead"
\* A recovered panic ends the subscription like a closed channel.
AfterPanic == "reopen"

SubscriptionEnds ==
    /\ watcher \in {"receive", "record", "wake"}
    /\ panics < MaxPanics /\ panics' = panics + 1
    /\ watcher' = AfterPanic
    /\ UNCHANGED <<loop, wake, cancelled, ticker, attempt, delay, streak,
                   pending, noted, woken, sent>>

\* After watchEventsReconnectBackoff src(ctx) is called again.
Reopen ==
    /\ watcher = "reopen" /\ ~cancelled
    /\ watcher' = "receive"
    /\ UNCHANGED <<loop, wake, cancelled, ticker, attempt, delay, streak,
                   pending, noted, woken, sent, panics>>

\* src closes its channel on cancellation; the watcher then returns.
WatcherReturns ==
    /\ watcher \in {"receive", "reopen"} /\ cancelled
    /\ watcher' = "returned"
    /\ UNCHANGED <<loop, wake, cancelled, ticker, attempt, delay, streak,
                   pending, noted, woken, sent, panics>>

Cancel ==
    /\ ~cancelled
    /\ cancelled' = TRUE
    /\ UNCHANGED <<loop, wake, ticker, attempt, delay, streak, pending, watch>>

-----------------------------------------------------------------------------
CycleEnds == CycleOk \/ CycleFails \/ CycleFailsEarly
LoopStep == CycleEnds \/ BackoffEnds \/ TakeWake \/ Return
TickerStep == Tick \/ TickerReturns
WatcherStep == RecordHint \/ WakeForHint \/ Reopen \/ WatcherReturns

Stopped == loop = "returned" /\ ticker = "returned" /\ watcher = "returned"

Next ==
    \/ LoopStep \/ TickerStep \/ WatcherStep
    \/ ReceiveHint \/ SubscriptionEnds \/ Cancel
    \/ Stopped /\ UNCHANGED vars

Spec == Init /\ [][Next]_vars

\* A cycle ends because every call has a timeout; timers fire and the Go
\* scheduler runs every goroutine that can run.
FairSpec ==
    /\ Spec
    /\ WF_vars(LoopStep) /\ WF_vars(TickerStep) /\ WF_vars(WatcherStep)

-----------------------------------------------------------------------------
(* Properties. *)

\* No wake is lost: whatever asked for a cycle since the last one began (a
\* tick, a hint, during a cycle, a back-off or a wait) is still in the channel.
NoLostWake == pending => wake = 1

\* The back-off starts at the base, doubles with every failure before apply
\* until it is capped, and starts over only after a success.
BackoffFollowsStreak ==
    loop = "backoff" =>
        delay \in Jittered(AtMost(Base * 2^(streak - 1), Cap))

\* A wake that a hint caused is only asked for once the hint is recorded, so
\* that the cycle it starts can attribute the drift.
HintBeforeWake == woken <= noted

\* Whoever asks for a cycle gets one, as long as the process is not stopped.
WakeIsServed == pending ~> (~pending \/ cancelled)

\* The watcher always listens again, a panic notwithstanding.
WatcherSurvives == []<>(watcher = "receive" \/ cancelled)
=============================================================================

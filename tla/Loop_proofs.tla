------------------------------ MODULE Loop_proofs ------------------------------
(* Safety of the loop, of the event stream and of both together: no wake is    *)
(* lost, none overtakes its hint, both delays are those of the failures        *)
(* before them, and the handler drops no change of a managed service.  Proved  *)
(* for any number of services, events, panics and failed inspects.             *)
EXTENDS MCLoop, Sequences, TLAPS

\* The loop is stepped by WakeLoop alone, whatever part runs.
LEMMA LoopSteps == AllNext => [Next]_vars \/ UNCHANGED loopVars
<1> SUFFICES ASSUME AllNext PROVE [Next]_vars \/ UNCHANGED loopVars
  OBVIOUS
<1>1. CASE InWake(Next) \/ InStream(S!Next)
  BY <1>1 DEF InWake, InStream
<1>2. CASE InBoth(JointNext)
  <2>1. CASE Goroutines
    BY <2>1 DEF Goroutines, Next
  <2>2. CASE HandOver \/ Cancel
    BY <2>2 DEF HandOver, Next
  <2>3. CASE StreamStep \/ (AllStopped /\ UNCHANGED loopVars)
    BY <2>3 DEF StreamStep
  <2> QED
    BY <1>2, <2>1, <2>2, <2>3 DEF InBoth, JointNext, JointStep
<1> QED
  BY <1>1, <1>2 DEF AllNext

\* The event stream is stepped by EventStream alone.
LEMMA StreamSteps == AllNext => /\ part' = part
                                /\ [S!Next]_streamVars
<1> SUFFICES ASSUME AllNext PROVE part' = part /\ [S!Next]_streamVars
  OBVIOUS
<1>1. CASE InWake(Next)
  BY <1>1 DEF InWake
<1>2. CASE InStream(S!Next)
  BY <1>2 DEF InStream
<1>3. CASE InBoth(JointNext)
  <2>1. part' = part
    BY <1>3 DEF InBoth
  <2>2. CASE UNCHANGED streamVars
    BY <2>1, <2>2
  <2>3. CASE HandOver
    BY <2>1, <2>3 DEF HandOver, S!Next
  <2>4. CASE StreamStep
    BY <2>1, <2>4 DEF StreamStep, S!Next
  <2> QED
    BY <1>3, <2>2, <2>3, <2>4 DEF InBoth, JointNext, JointStep
<1> QED
  BY <1>1, <1>2, <1>3 DEF AllNext

-------------------------------------------------------------------------------
(* The wake channel. *)

\* The channel holds whatever was asked for since the last cycle began.
ChannelInv == wake \in {0, 1} /\ NoLostWake

\* Wakes cannot get lost: the invariant NoLostWake of the runs.  The loop
\* empties the channel only in the step in which it starts a cycle.
THEOREM WakesAreKept == AllSpec => []NoLostWake
<1>1. AllInit => ChannelInv
  BY DEF AllInit, JointInit, Init, ChannelInv, NoLostWake
<1>2. ChannelInv /\ [AllNext]_allVars => ChannelInv'
  <2> SUFFICES ASSUME ChannelInv, [AllNext]_allVars PROVE ChannelInv'
    OBVIOUS
  <2> USE DEF ChannelInv, NoLostWake
  <2>1. CASE LoopStep
    BY <2>1 DEF LoopStep, CycleEnds, CycleOk, CycleFails, CycleFailsEarly,
                BackoffEnds, TakeWake, Return, StartCycle
  <2>2. CASE Tick \/ WakeForHint
    BY <2>2 DEF Tick, WakeForHint, RequestWake, BufferedWake
  <2>3. CASE TickerReturns \/ Cancel \/ UNCHANGED vars \/ UNCHANGED loopVars
    BY <2>3 DEF TickerReturns, Cancel, vars, loopVars
  <2>4. CASE RecordHint \/ Reopen \/ WatcherReturns
    BY <2>4 DEF RecordHint, Reopen, WatcherReturns
  <2>5. CASE ReceiveHint \/ SubscriptionEnds
    BY <2>5 DEF ReceiveHint, SubscriptionEnds
  <2> QED
    BY <2>1, <2>2, <2>3, <2>4, <2>5, LoopSteps
       DEF allVars, Next, TickerStep, WatcherStep
<1>3. ChannelInv => NoLostWake
  BY DEF ChannelInv
<1> QED
  BY <1>1, <1>2, <1>3, PTL DEF AllSpec

\* The watcher asks for a wake only in the state that follows the recording,
\* in which the hint just received is the last one recorded.
HintInv ==
    /\ sent \in Nat /\ noted \in Nat /\ woken \in Nat
    /\ noted <= sent
    /\ watcher = "wake" => noted = sent
    /\ HintBeforeWake

\* No wake overtakes the hint it announces, panics of the watcher included:
\* the invariant HintBeforeWake of the runs.
THEOREM HintsPrecedeWakes == AllSpec => []HintBeforeWake
<1>1. AllInit => HintInv
  BY DEF AllInit, JointInit, Init, HintInv, HintBeforeWake
<1>2. HintInv /\ [AllNext]_allVars => HintInv'
  <2> SUFFICES ASSUME HintInv, [AllNext]_allVars PROVE HintInv'
    OBVIOUS
  <2> USE DEF HintInv, HintBeforeWake
  <2>1. CASE LoopStep
    BY <2>1 DEF LoopStep, CycleEnds, CycleOk, CycleFails, CycleFailsEarly,
                BackoffEnds, TakeWake, Return, watch
  <2>2. CASE TickerStep \/ Cancel \/ UNCHANGED vars \/ UNCHANGED loopVars
    BY <2>2 DEF TickerStep, Tick, TickerReturns, Cancel, vars, watch, loopVars
  <2>3. CASE ReceiveHint
    BY <2>3 DEF ReceiveHint, AfterReceive
  <2>4. CASE RecordHint
    BY <2>4 DEF RecordHint
  <2>5. CASE WakeForHint
    BY <2>5 DEF WakeForHint
  <2>6. CASE SubscriptionEnds
    BY <2>6 DEF SubscriptionEnds, AfterPanic
  <2>7. CASE Reopen \/ WatcherReturns
    BY <2>7 DEF Reopen, WatcherReturns
  <2> QED
    BY <2>1, <2>2, <2>3, <2>4, <2>5, <2>6, <2>7, LoopSteps
       DEF allVars, Next, WatcherStep
<1>3. HintInv => HintBeforeWake
  BY DEF HintInv
<1> QED
  BY <1>1, <1>2, <1>3, PTL DEF AllSpec

-------------------------------------------------------------------------------
(* The delay of a cycle that failed early. *)

\* The shift of next() does not overflow, whatever the attempt.
LEMMA ShiftFits ==
  ASSUME NEW a \in Nat
  PROVE  Wrap(Base * 2^Capped(a)) = Base * 2^Capped(a)
<1> DEFINE c == Capped(a)
           x == Base * 2^c
<1>1. c \in 0 .. MaxAttempt /\ MaxAttempt \in 0 .. MaxFailures + Width
  BY BackoffAssumption DEF Capped, AtMost
<1>2. c \in 0 .. MaxFailures + Width /\ Width - 1 \in 0 .. MaxFailures + Width
      /\ Width \in 0 .. MaxFailures + Width
  BY <1>1, BackoffAssumption
<1>3. 2^c \in Nat /\ 2^MaxAttempt \in Nat /\ 2^c <= 2^MaxAttempt
  BY <1>1, <1>2, PowersGrow
<1>4. 2^(Width - 1) \in Nat /\ 2^Width \in Nat \ {0} /\ 2^(Width - 1) <= 2^Width
  BY <1>2, PowersGrow
<1>5. x \in Nat /\ x <= Base * 2^MaxAttempt
  <2>1. \A b, p, q \in Nat : p <= q => b * p \in Nat /\ b * p <= b * q
    OBVIOUS
  <2> QED
    BY <2>1, <1>3, BackoffAssumption
<1>6. x < 2^(Width - 1)
  <2>1. Base * 2^MaxAttempt \in Int
    BY <1>3, BackoffAssumption
  <2> HIDE DEF x
  <2> QED
    BY <2>1, <1>4, <1>5, BackoffAssumption
<1>7. x % 2^Width = x
  <2> HIDE DEF x
  <2> QED
    BY <1>4, <1>5, <1>6
<1> HIDE DEF x
<1>8. Wrap(x) = x
  BY <1>4, <1>5, <1>6, <1>7 DEF Wrap
<1> QED
  BY <1>8 DEF x

\* How often the loop failed early since its last success, and what next()
\* knows of it: the attempt stops counting one after the cap.
StreakInv ==
    /\ streak \in 0 .. MaxFailures
    /\ attempt = AtMost(streak, MaxAttempt + 1)

\* The delay of the next failure is the one its place in the streak stands for.
LEMMA NominalFollowsStreak ==
  ASSUME StreakInv
  PROVE  Nominal(attempt) =
             AtMost(Base * 2^(AtMost(streak + 1, MaxFailures) - 1), Cap)
<1> DEFINE c == Capped(attempt)
           k == AtMost(streak + 1, MaxFailures) - 1
<1>1. attempt \in Nat /\ c \in 0 .. MaxAttempt /\ k \in 0 .. MaxFailures
  BY BackoffAssumption DEF StreakInv, AtMost, Capped
<1>2. Nominal(attempt) = AtMost(Base * 2^c, Cap)
  BY <1>1, ShiftFits DEF Nominal
<1>3. CASE streak <= MaxAttempt
  <2>1. c = k
    BY <1>3, BackoffAssumption DEF StreakInv, AtMost, Capped
  <2> QED
    BY <1>2, <2>1
<1>4. CASE streak > MaxAttempt
  <2>1. c = MaxAttempt /\ k >= MaxAttempt
    BY <1>4, BackoffAssumption DEF StreakInv, AtMost, Capped
  <2>2. 2^c \in Nat /\ 2^k \in Nat /\ 2^c <= 2^k
    BY <1>1, <2>1, PowersGrow, BackoffAssumption
  <2>3. Base * 2^c >= Cap /\ Base * 2^k >= Cap /\ Base * 2^c \in Int
        /\ Base * 2^k \in Int
    <3>1. \A b, p, q \in Nat : p <= q => b * p \in Nat /\ b * q \in Nat /\ b * p <= b * q
      OBVIOUS
    <3>2. Base * 2^c \in Nat /\ Base * 2^k \in Nat /\ Base * 2^c <= Base * 2^k
      BY <3>1, <2>2, BackoffAssumption
    <3>3. Base * 2^c >= Cap
      BY <2>1, BackoffAssumption
    <3> QED
      BY <3>2, <3>3, BackoffAssumption
  <2>4. AtMost(Base * 2^c, Cap) = Cap /\ AtMost(Base * 2^k, Cap) = Cap
    <3>1. \A x \in Int : x >= Cap => AtMost(x, Cap) = Cap
      BY BackoffAssumption DEF AtMost
    <3> QED
      BY <3>1, <2>3
  <2> QED
    BY <1>2, <2>4
<1> QED
  BY <1>3, <1>4, BackoffAssumption DEF StreakInv

DelayInv == StreakInv /\ BackoffFollowsStreak

\* The loop's delay is the one of its streak, whatever wakes, panics and
\* cancellations come between.
LEMMA DelayInvariant == AllSpec => []DelayInv
<1>1. AllInit => DelayInv
  BY BackoffAssumption
     DEF AllInit, JointInit, Init, DelayInv, StreakInv, AtMost, BackoffFollowsStreak
<1>2. DelayInv /\ [AllNext]_allVars => DelayInv'
  <2> SUFFICES ASSUME DelayInv, [AllNext]_allVars PROVE DelayInv'
    OBVIOUS
  <2>r. CASE UNCHANGED <<loop, attempt, delay, streak>>
    BY <2>r DEF DelayInv, StreakInv, BackoffFollowsStreak
  <2>1. CASE CycleOk
    BY <2>1, BackoffAssumption
       DEF CycleOk, DelayInv, StreakInv, BackoffFollowsStreak, AtMost
  <2>2. CASE CycleFails
    BY <2>2 DEF CycleFails, AfterError, DelayInv, StreakInv, BackoffFollowsStreak
  <2>3. CASE CycleFailsEarly
    <3>1. CASE cancelled
      BY <3>1, <2>3
         DEF CycleFailsEarly, DelayInv, StreakInv, BackoffFollowsStreak
    <3>2. CASE ~cancelled
      <4>1. /\ delay' \in Jittered(Nominal(attempt))
            /\ attempt' = Capped(attempt) + 1
            /\ streak' = AtMost(streak + 1, MaxFailures)
        BY <2>3, <3>2 DEF CycleFailsEarly
      <4>2. StreakInv'
        BY <4>1, BackoffAssumption DEF DelayInv, StreakInv, AtMost, Capped
      <4>3. Nominal(attempt) = AtMost(Base * 2^(streak' - 1), Cap)
        BY <4>1, NominalFollowsStreak DEF DelayInv
      <4>4. delay' \in Jittered(AtMost(Base * 2^(streak' - 1), Cap))
        BY <4>1, <4>3
      <4>5. BackoffFollowsStreak'
        BY <4>4 DEF BackoffFollowsStreak, Jittered, AtMost
      <4> QED
        BY <4>2, <4>5 DEF DelayInv
    <3> QED
      BY <3>1, <3>2
  <2>4. CASE BackoffEnds \/ TakeWake \/ Return
    BY <2>4 DEF BackoffEnds, TakeWake, Return, StartCycle, DelayInv, StreakInv,
                BackoffFollowsStreak
  <2>5. CASE TickerStep \/ WatcherStep
    BY <2>5, <2>r DEF TickerStep, Tick, TickerReturns, WatcherStep, RecordHint,
                WakeForHint, Reopen, WatcherReturns
  <2>6. CASE ReceiveHint \/ SubscriptionEnds \/ Cancel
    BY <2>6, <2>r DEF ReceiveHint, SubscriptionEnds, Cancel
  <2>7. CASE UNCHANGED loopVars \/ UNCHANGED vars
    BY <2>7, <2>r DEF loopVars, vars
  <2> QED
    BY <2>1, <2>2, <2>3, <2>4, <2>5, <2>6, <2>7, LoopSteps
       DEF allVars, Next, LoopStep, CycleEnds
<1> QED
  BY <1>1, <1>2, PTL DEF AllSpec

-------------------------------------------------------------------------------
(* The event stream. *)

\* The delay of the stream, and the history of the subscriptions it follows.
ShortInv ==
    /\ age \in Nat /\ short \in 0 .. BackoffMax
    /\ backoff = S!Least(BackoffMin * 2^short, BackoffMax)

\* A subscription that did not last doubles the delay, up to the maximum.
LEMMA DoublesOnce ==
  ASSUME NEW n \in 0 .. BackoffMax
  PROVE  S!Least(2 * S!Least(BackoffMin * 2^n, BackoffMax), BackoffMax) =
             S!Least(BackoffMin * 2^S!Least(n + 1, BackoffMax), BackoffMax)
<1> DEFINE x == BackoffMin * 2^n
<1>0. BackoffMin \in Nat \ {0} /\ BackoffMax \in Nat
  BY StreamAssumption
<1>1. 2^n \in Nat /\ n <= 2^n /\ 2^(n + 1) = 2 * 2^n
  BY PowersDouble
<1>2. x \in Nat /\ n <= x /\ 2 * x = BackoffMin * 2^(n + 1)
  <2>1. \A b \in Nat \ {0}, q \in Nat :
          b * q \in Nat /\ q <= b * q /\ 2 * (b * q) = b * (2 * q)
    OBVIOUS
  <2> QED
    BY <2>1, <1>0, <1>1
<1> HIDE DEF x
<1>3. CASE n < BackoffMax
  <2>1. S!Least(n + 1, BackoffMax) = n + 1
    BY <1>0, <1>3 DEF S!Least
  <2>2. S!Least(2 * S!Least(x, BackoffMax), BackoffMax) = S!Least(2 * x, BackoffMax)
    BY <1>0, <1>2 DEF S!Least
  <2> QED
    BY <1>2, <2>1, <2>2 DEF x
<1>4. CASE n = BackoffMax
  <2>1. S!Least(n + 1, BackoffMax) = n
    BY <1>0, <1>4 DEF S!Least
  <2>2. S!Least(2 * S!Least(x, BackoffMax), BackoffMax) = S!Least(x, BackoffMax)
    BY <1>0, <1>2, <1>4 DEF S!Least
  <2> QED
    BY <2>1, <2>2 DEF x
<1> QED
  BY <1>0, <1>3, <1>4

\* What an event tells of its change; that of a removal tells what was there.
Told == [svc : Services, carried : BOOLEAN, before : S!Status,
         after : {"managed", "unmanaged"}]
\* What the handler decides on: the cluster, the wire and the event in hand.
WireInv ==
    /\ cluster \in [Services -> S!Status] /\ faults \in Nat
    /\ pc \in {"connect", "select", "inspect", "send", "wait", "closed"}
    /\ wire \in Seq(Told)
    /\ pc \in {"inspect", "send"} => msg \in Told

StreamInv == ShortInv /\ WireInv

\* A subscription that ends leaves nothing in hand, and one that lasted
\* forgives the delay.
LEMMA StreamEnding ==
  ASSUME StreamInv, S!StreamEnds PROVE StreamInv'
<1>1. WireInv'
  BY DEF StreamInv, WireInv, S!StreamEnds
<1>2. CASE cancelled
  BY <1>1, <1>2 DEF StreamInv, ShortInv, S!StreamEnds, S!Least
<1>3. CASE ~cancelled
  <2>1. /\ backoff' = S!NextBackoff /\ age' = 0
        /\ short' = IF age >= backoff THEN 0 ELSE S!Least(short + 1, BackoffMax)
    BY <1>3 DEF S!StreamEnds
  <2>2. CASE age >= backoff
    <3>1. backoff' = BackoffMin /\ short' = 0 /\ 2^0 = 1
      BY <2>1, <2>2 DEF S!NextBackoff
    <3> QED
      BY <1>1, <2>1, <3>1, StreamAssumption DEF StreamInv, ShortInv, S!Least
  <2>3. CASE ~(age >= backoff)
    <3>1. backoff' = S!Least(2 * backoff, BackoffMax)
          /\ short' = S!Least(short + 1, BackoffMax)
      BY <2>1, <2>3 DEF S!NextBackoff
    <3>2. short' \in 0 .. BackoffMax
      BY <3>1, StreamAssumption DEF StreamInv, ShortInv, S!Least
    <3>3. backoff' = S!Least(BackoffMin * 2^(short'), BackoffMax)
      BY <3>1, DoublesOnce DEF StreamInv, ShortInv
    <3> QED
      BY <1>1, <2>1, <3>2, <3>3 DEF StreamInv, ShortInv, S!Least
  <2> QED
    BY <2>2, <2>3
<1> QED
  BY <1>2, <1>3

LEMMA StreamInvariant == AllSpec => [](Streams => StreamInv)
<1>1. AllInit => (Streams => StreamInv)
  <2> SUFFICES ASSUME S!Init PROVE StreamInv
    BY DEF AllInit, JointInit, Streams
  <2>1. 2^0 = 1
    OBVIOUS
  <2>2. ShortInv
    BY <2>1, StreamAssumption DEF S!Init, ShortInv, S!Least
  <2>3. WireInv
    BY DEF S!Init, WireInv
  <2> QED
    BY <2>2, <2>3 DEF StreamInv
<1>2. (Streams => StreamInv) /\ [AllNext]_allVars => (Streams => StreamInv)'
  <2> SUFFICES ASSUME StreamInv, [S!Next]_streamVars PROVE StreamInv'
    BY StreamSteps DEF allVars, Streams
  <2>r. ASSUME UNCHANGED <<age, short, backoff>> PROVE ShortInv'
    BY <2>r DEF StreamInv, ShortInv, S!Least
  <2> USE DEF S!engine, S!timing
  <2>1. CASE S!Connect
    BY <2>1, <2>r DEF S!Connect, StreamInv, WireInv, ShortInv, S!Least
  <2>2. CASE S!Stop \/ S!SendCancelled \/ S!Panic
    BY <2>2, StreamEnding DEF S!Stop, S!SendCancelled, S!Panic, S!Recovered
  <2>3. CASE S!Receive
    <3>1. Head(wire) \in Told /\ wire' \in Seq(Told)
      BY <2>3 DEF S!Receive, StreamInv, WireInv
    <3> QED
      BY <2>3, <2>r, <3>1 DEF S!Receive, StreamInv, WireInv
  <2>4. CASE S!Inspect \/ S!InspectFails
    BY <2>4, <2>r DEF S!Inspect, S!InspectFails, StreamInv, WireInv
  <2>5. CASE S!Send \/ S!WaitEnds
    BY <2>5, <2>r DEF S!Send, S!WaitEnds, StreamInv, WireInv
  <2>6. CASE S!Break \/ S!Cancel
    BY <2>6, <2>r DEF S!Break, S!Cancel, StreamInv, WireInv
  <2>7. CASE S!Tick
    BY <2>7 DEF S!Tick, StreamInv, WireInv, ShortInv, S!Least
  <2>8. ASSUME NEW s \in Services, NEW a \in S!Status, NEW c \in Carried,
               S!Change(s, a, c)
        PROVE  StreamInv'
    <3>1. cluster' \in [Services -> S!Status]
      BY <2>8 DEF S!Change, StreamInv, WireInv
    <3> DEFINE e == [svc |-> s, carried |-> c, before |-> cluster[s],
                     after |-> IF a = "gone" THEN cluster[s] ELSE a]
    <3>2. e \in Told
      BY <2>8, StreamAssumption
         DEF S!Change, StreamInv, WireInv, Told, S!Status
    <3>3. wire' \in Seq(Told)
      <4>1. wire' = Append(wire, e) \/ wire' = wire
        BY <2>8 DEF S!Change
      <4> HIDE DEF e
      <4> QED
        BY <4>1, <3>2 DEF StreamInv, WireInv
    <3> QED
      BY <2>8, <2>r, <3>1, <3>3 DEF S!Change, StreamInv, WireInv
  <2>9. CASE UNCHANGED streamVars
    BY <2>9, <2>r DEF streamVars, StreamInv, WireInv
  <2>10. CASE pc = "closed" /\ UNCHANGED <<S!engine, pc, msg, S!timing, cancelled>>
    BY <2>10, <2>r DEF StreamInv, WireInv
  <2> QED
    BY <2>1, <2>2, <2>3, <2>4, <2>5, <2>6, <2>7, <2>8, <2>9, <2>10
       DEF S!Next, S!Handle
<1> QED
  BY <1>1, <1>2, PTL DEF AllSpec

\* Both delays follow the failures that led to them, for every length of a
\* streak and of a row of subscriptions: the invariant of the runs.
THEOREM DelaysAreEarned == AllSpec => []DelaysFollowFailures
<1>1. DelayInv /\ (Streams => StreamInv) => DelaysFollowFailures
  BY DEF DelayInv, StreamInv, ShortInv, DelaysFollowFailures, S!BackoffForgives
<1> QED
  BY <1>1, DelayInvariant, StreamInvariant, PTL

\* The handler lets an event of a managed service go without a hint only if
\* the service is there without the label, whatever changes before the inspect.
THEOREM ManagedChangesAreTold == AllSpec => ManagedChangeIsTold
<1>1. (Streams => StreamInv) /\ [AllNext]_allVars
        => [Streams => S!ToldOrForeign]_streamVars
  <2> SUFFICES ASSUME StreamInv, S!Next, NEW e \in S!Range(wire) \cup {msg},
                      S!Drops(e)
               PROVE  \/ "managed" \notin {e.before, e.after}
                      \/ "unmanaged" \in {cluster[e.svc], e.after}
    BY StreamSteps DEF allVars, S!ToldOrForeign
  <2>0. pc' = "select" /\ faults' = faults
    BY DEF S!Drops
  <2>1. CASE pc = "inspect" /\ e = msg
    <3>1. S!Inspect
      <4>1. ~S!InspectFails
        BY <2>0 DEF StreamInv, WireInv, S!InspectFails
      <4>2. ~S!Panic
        BY <2>0 DEF S!Panic, S!Recovered, S!StreamEnds
      <4>3. pc' # pc
        BY <2>0, <2>1
      <4> QED
        BY <2>1, <4>1, <4>2, <4>3
           DEF S!Next, S!Handle, S!Connect, S!Stop, S!Receive, S!WaitEnds,
               S!SendCancelled, S!Send, S!Break, S!Tick, S!Cancel, S!Change,
               S!engine, S!timing
    <3>2. cluster[e.svc] \in S!Status /\ ~S!Matches(cluster[e.svc])
      BY <2>0, <2>1, <3>1 DEF StreamInv, WireInv, Told, S!Inspect
    <3> QED
      BY <3>2 DEF S!Matches, S!Status
  <2>2. CASE pc = "select" /\ wire # <<>> /\ wire' = Tail(wire) /\ e = Head(wire)
    <3>1. e \in Told
      BY <2>2 DEF StreamInv, WireInv
    <3>2. wire' # wire /\ \A x : wire' # Append(wire, x)
      <4>1. Len(wire') # Len(wire) /\ \A x : Len(wire') # Len(Append(wire, x))
        BY <2>2 DEF StreamInv, WireInv
      <4> QED
        BY <4>1
    <3>3. S!Receive
      <4>1. ~S!Panic /\ ~S!Stop
        BY <2>0 DEF S!Panic, S!Stop, S!Recovered, S!StreamEnds
      <4>2. ~(\E s \in Services, a \in S!Status, c \in Carried : S!Change(s, a, c))
        BY <3>2 DEF S!Change
      <4> QED
        BY <2>2, <3>2, <4>1, <4>2
           DEF S!Next, S!Handle, S!Connect, S!WaitEnds, S!Inspect, S!InspectFails,
               S!SendCancelled, S!Send, S!Break, S!Tick, S!Cancel, S!engine,
               S!timing
    <3>4. e.after = "unmanaged"
      BY <2>0, <2>2, <3>1, <3>3 DEF S!Receive, Told
    <3> QED
      BY <3>4
  <2> QED
    BY <2>1, <2>2 DEF S!Drops
<1> QED
  BY <1>1, StreamInvariant, PTL DEF AllSpec, ManagedChangeIsTold
===============================================================================

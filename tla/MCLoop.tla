-------------------------------- MODULE MCLoop --------------------------------
(***************************************************************************)
(* The three goroutines of the loop and the one of the event stream, for   *)
(* TLC: WakeLoop alone with a hint at any time, EventStream alone with a   *)
(* receiver that is always there, and both as HintPath connects them.      *)
(* part says which; what does not run rests in its first state or at Nil.  *)
(*                                                                         *)
(* Delays of the loop are the code's own, in tenths of a second, in a      *)
(* width in which the shift after the last capped one overflows.           *)
(***************************************************************************)
EXTENDS HintPath

VARIABLE part

allVars == <<part, vars, streamVars>>

RestStream ==
    /\ cluster = Nil /\ changes = Nil /\ faults = Nil /\ pc = Nil /\ wire = Nil
    /\ broken = Nil /\ msg = Nil /\ backoff = Nil /\ age = Nil /\ left = Nil
    /\ short = Nil

InWake(A) == part = "wake" /\ A /\ UNCHANGED <<part, streamVars>>
InStream(A) == part = "stream" /\ A /\ UNCHANGED <<part, loopVars>>
InBoth(A) == part = "both" /\ A /\ UNCHANGED part

AllInit == \/ part = "wake" /\ Init /\ RestStream
           \/ part = "stream" /\ Init /\ S!Init
           \/ part = "both" /\ JointInit
AllNext == InWake(Next) \/ InStream(S!Next) \/ InBoth(JointNext)

Joint(A) == InBoth(A /\ streak' <= JointFailures /\ UNCHANGED streamVars)

\* The fairness of the two modules.  The watcher is always back to take a
\* hint as long as ctx is not done.
AllSpec ==
    /\ AllInit /\ [][AllNext]_allVars
    /\ WF_allVars(InWake(LoopStep) \/ Joint(LoopStep))
    /\ WF_allVars(InWake(TickerStep) \/ Joint(TickerStep))
    /\ WF_allVars(InWake(WatcherStep) \/ Joint(WatcherStep))
    /\ WF_allVars(InStream(S!Handle) \/ InBoth(S!Handle /\ UNCHANGED loopVars))
    /\ WF_allVars(InStream(S!Tick) \/ InBoth(S!Tick /\ UNCHANGED loopVars))
    /\ WF_allVars(InStream(~cancelled /\ S!Send) \/ InBoth(HandOver))

-----------------------------------------------------------------------------
(* The properties of EventStream and HintPath, while they run. *)

Streams == part # "wake"

\* Both delays follow the failures that led to them: they grow with failures in
\* a row, stay within their bounds, and forget them after a success.
DelaysFollowFailures == /\ part # "stream" => BackoffFollowsStreak
                        /\ Streams => S!BackoffForgives
\* No change of a managed service is dropped by the handler.
ManagedChangeIsTold == [][Streams => S!ToldOrForeign]_streamVars
\* No goroutine gives up before ctx is done: whoever asks for a cycle gets one,
\* and watcher and stream listen again after a panic, a broken subscription or a
\* failed inspect.
NobodyGivesUp == /\ part # "stream" => WakeIsServed /\ WatcherSurvives
                 /\ Streams => S!ListensAgain
\* From the hint to the cycle.
HintStarts == part = "both" => HintStartsCycle

\* Once ctx is cancelled every goroutine returns, from a cycle, a back-off, a
\* wait, a delay, or a hint that nobody takes any more.
EverythingStops ==
    cancelled ~> /\ part # "stream" => Stopped
                 /\ Streams => pc = "closed"
=============================================================================

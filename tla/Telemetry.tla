----------------------------- MODULE Telemetry -----------------------------
(***************************************************************************)
(* The event file: the recorder that appends one JSON line per event and   *)
(* counts the events it loses, the loop that warns about them after every  *)
(* cycle, and the reader of `swarmgate status`, which skips what it cannot *)
(* decode.  A write may fail or stop half-way (disk full), and the daemon  *)
(* may be started again, with a new recorder, on the same file.            *)
(*                                                                         *)
(* The file is a sequence of lines, a line the sequence of what was        *)
(* written between two newlines: whole objects and cut ones.  `open` is    *)
(* TRUE while the last line has no newline yet.                            *)
(***************************************************************************)
EXTENDS Naturals, Sequences, FiniteSets

CONSTANTS MaxEvents,    \* bound: events emitted in all
          MaxFaults,    \* bound: writes that fail
          MaxStarts     \* bound: processes started one after the other

VARIABLES lines,        \* Seq of lines, each a Seq of [event, whole]
          open,         \* the last line is not ended
          emitted,      \* events handed to Emit so far
          dropped,      \* Dropped() of the running recorder
          lastWarned,   \* the loop's lastWarned
          pc,           \* "cycle", "warn" (cycle over), "idle" (waits for a wake)
          faults, starts,
          total,        \* history: dropped, over all processes
          warnings      \* history: number of warnings logged by this process

vars == <<lines, open, emitted, dropped, lastWarned, pc, faults, starts, total, warnings>>

Init ==
    /\ lines = <<>> /\ open = FALSE /\ emitted = 0 /\ dropped = 0 /\ lastWarned = 0
    /\ pc = "cycle" /\ faults = 0 /\ starts = 1 /\ total = 0 /\ warnings = 0

(* os.File.Write of one line, with O_APPEND: nothing, a part of the        *)
(* object, the object without its newline, or the line.                    *)
Outcomes == {"none", "cut", "bare", "line"}

AppendTo(ls, o, outcome) ==
    LET chunk == [event |-> emitted + 1, whole |-> outcome # "cut"]
    IN  IF outcome = "none" THEN ls
        ELSE IF o THEN [ls EXCEPT ![Len(ls)] = Append(@, chunk)]
        ELSE Append(ls, <<chunk>>)

-----------------------------------------------------------------------------
(* Mutants: partial writes pass for complete; only the first loss is       *)
(* warned of; a warning is not remembered.                                 *)
Short_Whole(outcome) == outcome = "none"
Rises_First(n, last) == n > 0 /\ last = 0
AfterWarning_Kept(n, last) == last

-----------------------------------------------------------------------------
(* The newline is the last byte written, so only a full write ends a line. *)
StillOpen(o, outcome) == IF outcome = "none" THEN o ELSE outcome # "line"

(* Emit: err # nil or n < len(line). *)
Short(outcome) == outcome # "line"

Emit ==
    /\ pc = "cycle" /\ emitted < MaxEvents
    /\ \E outcome \in Outcomes :
         /\ (outcome # "line") => faults < MaxFaults
         /\ lines' = AppendTo(lines, open, outcome)
         /\ open' = StillOpen(open, outcome)
         /\ faults' = faults + (IF outcome = "line" THEN 0 ELSE 1)
         /\ dropped' = dropped + (IF Short(outcome) THEN 1 ELSE 0)
         /\ total' = total + (IF Short(outcome) THEN 1 ELSE 0)
    /\ emitted' = emitted + 1
    /\ UNCHANGED <<lastWarned, pc, starts, warnings>>

(* An event that cannot be encoded is counted and not written. *)
EmitUnencodable ==
    /\ pc = "cycle" /\ emitted < MaxEvents /\ faults < MaxFaults
    /\ faults' = faults + 1 /\ dropped' = dropped + 1 /\ total' = total + 1
    /\ emitted' = emitted + 1
    /\ UNCHANGED <<lines, open, lastWarned, pc, starts, warnings>>

(* The cycle ends: it returns, with or without an error, or panics and is  *)
(* recovered; the loop and RunOnce warn before anything else.              *)
EndCycle ==
    /\ pc = "cycle" /\ pc' = "warn"
    /\ UNCHANGED <<lines, open, emitted, dropped, lastWarned, faults, starts, total, warnings>>

Rises(n, last) == n > last
AfterWarning(n, last) == n

WarnDropped ==
    /\ pc = "warn" /\ pc' = "idle"
    /\ IF Rises(dropped, lastWarned)
       THEN warnings' = warnings + 1 /\ lastWarned' = AfterWarning(dropped, lastWarned)
       ELSE UNCHANGED <<warnings, lastWarned>>
    /\ UNCHANGED <<lines, open, emitted, dropped, faults, starts, total>>

NextCycle ==
    /\ pc = "idle" /\ pc' = "cycle" /\ emitted < MaxEvents
    /\ UNCHANGED <<lines, open, emitted, dropped, lastWarned, faults, starts, total, warnings>>

(* The daemon ends, at any point, and is started again on the same file. *)
Restart ==
    /\ starts < MaxStarts /\ starts' = starts + 1
    /\ dropped' = 0 /\ lastWarned' = 0 /\ warnings' = 0 /\ pc' = "cycle"
    /\ UNCHANGED <<lines, open, emitted, faults, total>>

Next == Emit \/ EmitUnencodable \/ EndCycle \/ WarnDropped \/ NextCycle \/ Restart

Spec == Init /\ [][Next]_vars

(* A cycle and the warning after it take finitely many steps; nothing      *)
(* obliges the daemon to emit, to start another cycle or to be restarted.  *)
FairSpec == Spec /\ WF_vars(EndCycle) /\ WF_vars(WarnDropped)

-----------------------------------------------------------------------------
(* scanTelemetry: a line counts if it is one whole object. *)
Readable == {lines[i][1].event : i \in {k \in 1..Len(lines) : Len(lines[k]) = 1 /\ lines[k][1].whole}}
Lost == (1..emitted) \ Readable

(* A reader who sees an event missing can know it: some process has counted *)
(* a loss (recorder.go 61-63).                                              *)
LossIsDetected == Lost # {} => total > 0

(* No repeated warnings: a process logs at most one warning per event it   *)
(* counted, however many cycles it runs (loop.go 239-243).                 *)
NoNagging == warnings <= dropped

(* Every counted loss reaches the log: again and again the loop has warned *)
(* of all that its recorder counted.                                       *)
LossIsLogged == []<>(lastWarned = dropped)
=============================================================================

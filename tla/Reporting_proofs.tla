---------------------------- MODULE Reporting_proofs ----------------------------
(* No event is lost in silence, for any number of events, of failed writes,    *)
(* wherever they stop, and of restarts; and the rows of `swarmgate status`     *)
(* tell what fails, for any services, branches and policies.                   *)
EXTENDS Reporting, FiniteSetTheorems, TLAPS

Counters ==
    /\ emitted \in Nat /\ dropped \in Nat /\ total \in Nat
    /\ warnings \in Nat /\ lastWarned \in Nat
    /\ warnings <= lastWarned /\ lastWarned <= dropped

\* The line of an event that was written as a whole.
Line(e) == <<[event |-> e, whole |-> TRUE]>>
\* While no process has counted a loss, line i is event i, as a whole.
Intact ==
    total = 0 =>
        /\ open = FALSE
        /\ lines \in Seq({Line(e) : e \in Nat}) /\ Len(lines) = emitted
        /\ \A k \in 1 .. emitted : lines[k] = Line(k)

FileInv == Counters /\ Intact

\* A step that leaves the file alone.
LEMMA FileRests ==
  ASSUME Intact, UNCHANGED <<lines, open, emitted, total>> PROVE Intact'
  BY DEF Intact

LEMMA FileInvariant == AllSpec => []FileInv
<1>1. AllInit => FileInv
  <2>1. Init => FileInv
    BY DEF Init, FileInv, Counters, Intact
  <2> QED
    BY <2>1 DEF AllInit
<1>2. FileInv /\ [AllNext]_allVars => FileInv'
  <2> SUFFICES ASSUME FileInv, [AllNext]_allVars PROVE Counters' /\ Intact'
    BY DEF FileInv
  <2>t. Counters /\ Intact
    BY DEF FileInv
  <2>1. CASE Emit
    <3>1. PICK outcome \in Outcomes :
            /\ lines' = AppendTo(lines, open, outcome)
            /\ open' = StillOpen(open, outcome)
            /\ dropped' = dropped + (IF Short(outcome) THEN 1 ELSE 0)
            /\ total' = total + (IF Short(outcome) THEN 1 ELSE 0)
      BY <2>1 DEF Emit
    <3>2. emitted' = emitted + 1 /\ UNCHANGED <<lastWarned, warnings>>
      BY <2>1 DEF Emit
    <3>3. Counters'
      BY <2>t, <3>1, <3>2 DEF Counters
    <3>4. Intact'
      <4> SUFFICES ASSUME total' = 0 PROVE Intact'
        BY DEF Intact
      <4>1. total = 0 /\ outcome = "line"
        BY <2>t, <3>1 DEF Counters, Short
      <4>2. open = FALSE /\ lines \in Seq({Line(e) : e \in Nat}) /\ Len(lines) = emitted
        BY <2>t, <4>1 DEF Intact
      <4>3. lines' = Append(lines, Line(emitted + 1))
        BY <3>1, <4>1, <4>2 DEF AppendTo, Line
      <4>4. open' = FALSE
        BY <3>1, <4>1 DEF StillOpen
      <4>5. Line(emitted + 1) \in {Line(e) : e \in Nat} /\ emitted \in Nat
        BY <2>t DEF Counters
      <4>6. /\ lines' \in Seq({Line(e) : e \in Nat}) /\ Len(lines') = emitted + 1
            /\ \A k \in 1 .. emitted : lines'[k] = lines[k]
            /\ lines'[emitted + 1] = Line(emitted + 1)
        BY <4>2, <4>3, <4>5
      <4>7. \A k \in 1 .. emitted : lines'[k] = Line(k)
        BY <2>t, <4>1, <4>6 DEF Intact
      <4>8. \A k \in 1 .. emitted' : lines'[k] = Line(k)
        BY <3>2, <4>5, <4>6, <4>7
      <4> QED BY <3>2, <4>4, <4>6, <4>8 DEF Intact
    <3> QED BY <3>3, <3>4
  <2>2. CASE EmitUnencodable
    BY <2>2, <2>t DEF EmitUnencodable, Counters, Intact
  <2>3. CASE EndCycle
    BY <2>3, <2>t, FileRests DEF EndCycle, Counters
  <2>4. CASE WarnDropped
    BY <2>4, <2>t, FileRests DEF WarnDropped, Counters, Rises, AfterWarning
  <2>5. CASE NextCycle
    BY <2>5, <2>t, FileRests DEF NextCycle, Counters
  <2>6. CASE Restart
    BY <2>6, <2>t, FileRests DEF Restart, Counters
  <2>7. CASE UNCHANGED vars
    BY <2>7, <2>t, FileRests DEF vars, Counters
  <2> QED BY <2>1, <2>2, <2>3, <2>4, <2>5, <2>6, <2>7
    DEF AllNext, InFile, InStatus, allVars, Next
<1> QED BY <1>1, <1>2, PTL DEF AllSpec

\* LossIsDetected, the first part of LossIsTold of the run: a reader can only
\* miss an event of which some process has counted a loss, however writes stop
\* half-way and run into each other, and whoever wrote the line before.
THEOREM LossesCounted == AllSpec => []LossIsDetected
<1>1. FileInv => LossIsDetected
  <2> SUFFICES ASSUME FileInv, total = 0 PROVE Lost = {}
    BY DEF FileInv, Counters, LossIsDetected
  <2>1. \A k \in 1 .. emitted :
          Len(lines[k]) = 1 /\ lines[k][1].whole /\ lines[k][1].event = k
    BY DEF FileInv, Intact, Line
  <2>2. Len(lines) = emitted
    BY DEF FileInv, Intact
  <2> QED BY <2>1, <2>2 DEF Lost, Readable
<1> QED BY <1>1, FileInvariant, PTL

\* NoNagging, the second part: a process warns once per event lost at most, over
\* all its cycles.
THEOREM WarningsBounded == AllSpec => []NoNagging
<1>1. FileInv => NoNagging
  BY DEF FileInv, Counters, NoNagging
<1> QED BY <1>1, FileInvariant, PTL

-------------------------------------------------------------------------------
(* The rows of `swarmgate status`. *)

Events == [stage : {"verify", "apply"}, service : Svc,
           outcome : {"ok", "error", "skipped", "pass", "reject"}]

\* Events of others do not change the row of s.
LEMMA OthersKeepRow ==
  ASSUME NEW s, NEW f \in Seq(Events), NEW t \in Seq(Events),
         \A k \in 1 .. Len(t) : t[k].service # s
  PROVE  St!Errored(f \o t, s) <=> St!Errored(f, s)
<1> DEFINE g == f \o t
<1>1. /\ Len(f) \in Nat /\ Len(g) = Len(f) + Len(t) /\ Len(t) \in Nat
      /\ \A i \in 1 .. Len(f) : g[i] = f[i]
      /\ \A i \in Len(f) + 1 .. Len(g) : g[i].service # s
  <2>1. \A i \in 1 .. Len(f) + Len(t) :
          g[i] = IF i <= Len(f) THEN f[i] ELSE t[i - Len(f)]
    OBVIOUS
  <2>2. Len(g) = Len(f) + Len(t) /\ Len(f) \in Nat /\ Len(t) \in Nat
    OBVIOUS
  <2> QED
    BY <2>1, <2>2
<1> HIDE DEF g
<1>2. \A i \in 1 .. Len(f) : St!IsLast(g, i, s) <=> St!IsLast(f, i, s)
  BY <1>1 DEF St!IsLast
<1>3. \A i \in 1 .. Len(g) : St!IsLast(g, i, s) => i \in 1 .. Len(f)
  BY <1>1 DEF St!IsLast
<1>4. St!Errored(g, s) => St!Errored(f, s)
  <2> SUFFICES ASSUME NEW i \in 1 .. Len(g), St!IsLast(g, i, s),
                      g[i].outcome = (IF g[i].stage = "verify" THEN "reject" ELSE "error")
               PROVE  St!Errored(f, s)
    BY DEF St!Errored
  <2>1. i \in 1 .. Len(f) /\ g[i] = f[i]
    BY <1>1, <1>3
  <2> QED
    BY <1>2, <2>1 DEF St!Errored
<1>5. St!Errored(f, s) => St!Errored(g, s)
  <2> SUFFICES ASSUME NEW i \in 1 .. Len(f), St!IsLast(f, i, s),
                      f[i].outcome = (IF f[i].stage = "verify" THEN "reject" ELSE "error")
               PROVE  St!Errored(g, s)
    BY DEF St!Errored
  <2>1. i \in 1 .. Len(g) /\ g[i] = f[i]
    BY <1>1
  <2> QED
    BY <1>2, <2>1 DEF St!Errored
<1> QED
  BY <1>4, <1>5 DEF g

\* The last event of s decides its row, whatever the file says before it.
LEMMA LastDecides ==
  ASSUME NEW s, NEW f \in Seq(Events), NEW t \in Seq(Events),
         NEW k \in 1 .. Len(t), t[k].service = s,
         \A j \in k + 1 .. Len(t) : t[j].service # s
  PROVE  St!Errored(f \o t, s) <=>
             t[k].outcome = (IF t[k].stage = "verify" THEN "reject" ELSE "error")
<1> DEFINE g == f \o t
           n == Len(f) + k
<1>1. /\ Len(f) \in Nat /\ Len(t) \in Nat /\ Len(g) = Len(f) + Len(t)
      /\ g[n] = t[k]
      /\ \A i \in n + 1 .. Len(g) : g[i] = t[i - Len(f)]
  OBVIOUS
<1> HIDE DEF g
<1>2. n \in 1 .. Len(g) /\ St!IsLast(g, n, s)
  <2>1. \A j \in n + 1 .. Len(g) : j - Len(f) \in k + 1 .. Len(t)
    BY <1>1
  <2> QED
    BY <1>1, <2>1 DEF St!IsLast
<1>3. \A i \in 1 .. Len(g) : St!IsLast(g, i, s) => i = n
  <2> SUFFICES ASSUME NEW i \in 1 .. Len(g), St!IsLast(g, i, s) PROVE i = n
    OBVIOUS
  <2>1. i \in Nat /\ n \in Nat /\ Len(g) \in Nat /\ n <= Len(g) /\ i <= Len(g)
    BY <1>1, <1>2
  <2>2. ~(n < i)
    <3>1. n < i => i \in n + 1 .. Len(g)
      BY <2>1
    <3> QED
      BY <1>2, <3>1 DEF St!IsLast
  <2>3. ~(i < n)
    <3>1. i < n => n \in i + 1 .. Len(g)
      BY <2>1
    <3> QED
      BY <1>2, <3>1 DEF St!IsLast
  <2> QED
    BY <2>1, <2>2, <2>3
<1>4. St!Errored(g, s) <=>
        g[n].outcome = (IF g[n].stage = "verify" THEN "reject" ELSE "error")
  BY <1>2, <1>3 DEF St!Errored
<1> QED
  BY <1>1, <1>4 DEF g

\* Every service of a finite set has its place in the order of the verdicts.
LEMMA OrderIsComplete ==
  ASSUME NEW T, IsFiniteSet(T)
  PROVE  LET order == St!SetToSeq(T) IN
         /\ order \in Seq(T)
         /\ \A s \in T : \E k \in 1 .. Len(order) :
              /\ order[k] = s
              /\ \A j \in 1 .. Len(order) : order[j] = s => j = k
<1> DEFINE order == St!SetToSeq(T)
           n == Cardinality(T)
<1>1. n \in Nat /\ ExistsBijection(1 .. n, T)
  BY FS_CardinalityType
<1>2. \E g \in [1 .. n -> T] : St!IsInjective(g)
  BY <1>1 DEF ExistsBijection, Bijection, Injection, IsInjective, St!IsInjective
<1>3. order \in [1 .. n -> T] /\ St!IsInjective(order)
  <2>1. order = CHOOSE g \in [1 .. n -> T] : St!IsInjective(g)
    <3>1. St!Cardinality(T) = n
      BY DEF St!Cardinality, Cardinality
    <3> QED
      BY <3>1 DEF St!SetToSeq
  <2> QED
    BY <1>2, <2>1
<1> HIDE DEF order
<1>4. order \in Injection(1 .. n, T)
  BY <1>3 DEF Injection, IsInjective, St!IsInjective
<1>5. order \in Surjection(1 .. n, T)
  <2>1. IsFiniteSet(1 .. n) /\ Cardinality(1 .. n) = n
    BY <1>1, FS_Interval
  <2> QED
    BY <1>4, <2>1, FS_Injection
<1>6. order \in Seq(T) /\ Len(order) = n
  BY <1>1, <1>3
<1>7. \A s \in T : \E k \in 1 .. n : order[k] = s /\ \A j \in 1 .. n : order[j] = s => j = k
  BY <1>3, <1>5 DEF Surjection, St!IsInjective
<1> QED
  BY <1>6, <1>7 DEF order

\* The file tells of every service what the last judged change left behind,
\* except of those whose result the daemon did not live to write.
RowsInv ==
    /\ log \in Seq(Events) /\ DOMAIN todo \subseteq Svc
    /\ \A s \in Svc \ untold : St!Errored(log, s) <=> s \in failing \ hidden

\* The verdicts of the gate are the last events of the services they judge, if
\* all of them are written and if only those on told are.
LEMMA VerdictsTell ==
  ASSUME RowsInv, NEW told \in SUBSET St!ToVerify, St!Judge(told),
         DOMAIN todo' \subseteq Svc
  PROVE  RowsInv'
<1> DEFINE order == St!SetToSeq(told)
           t == St!VerdictEvents(told)
<1>1. /\ St!ToVerify \subseteq Svc /\ St!Refused \subseteq St!ToVerify
      /\ told \subseteq Svc /\ IsFiniteSet(told)
  <2>1. St!ToVerify \subseteq Svc /\ St!Refused \subseteq St!ToVerify
    BY DEF RowsInv, St!ToVerify, St!Refused
  <2> QED
    BY <2>1, FS_Subset, ReportingAssumption
<1>2. /\ order \in Seq(told)
      /\ \A s \in told : \E k \in 1 .. Len(order) :
           order[k] = s /\ \A j \in 1 .. Len(order) : order[j] = s => j = k
  BY <1>1, OrderIsComplete
<1>3. t = [i \in 1 .. Len(order) |->
             St!Event("verify", order[i],
                      IF order[i] \in St!Refused THEN "reject" ELSE "pass")]
  BY DEF St!VerdictEvents
<1> HIDE DEF order, t
<1>4. /\ Len(t) = Len(order) /\ Len(order) \in Nat /\ t \in Seq(Events)
      /\ \A k \in 1 .. Len(t) :
           /\ t[k].service = order[k] /\ t[k].stage = "verify"
           /\ t[k].outcome = "reject" <=> order[k] \in St!Refused
  <2>1. \A k \in 1 .. Len(order) : order[k] \in Svc
    BY <1>1, <1>2
  <2>2. \A k \in 1 .. Len(order) :
          St!Event("verify", order[k],
                   IF order[k] \in St!Refused THEN "reject" ELSE "pass") \in Events
    BY <2>1 DEF St!Event, Events
  <2>3. t \in Seq(Events) /\ Len(t) = Len(order) /\ Len(order) \in Nat
    <3>1. Len(order) \in Nat
      BY <1>2
    <3> QED
      BY <1>3, <2>2, <3>1
  <2> QED
    BY <1>3, <2>3 DEF St!Event
<1>5. /\ log' = log \o t /\ log \in Seq(Events)
      /\ failing' = (failing \ St!ToVerify) \union St!Refused
      /\ hidden' = hidden \ St!ToVerify
      /\ untold' = (untold \union St!ToVerify) \ told
  BY DEF St!Judge, RowsInv, t
<1>6. ASSUME NEW s \in Svc \ untold'
      PROVE  St!Errored(log \o t, s) <=> s \in failing' \ hidden'
  <2>1. CASE s \in told
    <3>1. PICK k \in 1 .. Len(order) :
            order[k] = s /\ \A j \in 1 .. Len(order) : order[j] = s => j = k
      BY <1>2, <2>1
    <3>2. k \in 1 .. Len(t) /\ t[k].service = s
          /\ \A j \in k + 1 .. Len(t) : t[j].service # s
      BY <1>4, <3>1
    <3>3. St!Errored(log \o t, s) <=> t[k].outcome = "reject"
      <4>1. St!Errored(log \o t, s) <=>
              t[k].outcome = (IF t[k].stage = "verify" THEN "reject" ELSE "error")
        <5>1. t \in Seq(Events) /\ log \in Seq(Events)
          BY <1>4, <1>5
        <5> QED
          BY <5>1, <3>2, LastDecides
      <4> QED
        BY <1>4, <3>2, <4>1
    <3> QED
      BY <1>1, <1>4, <1>5, <2>1, <3>1, <3>2, <3>3
  <2>2. CASE s \notin told
    <3>1. \A k \in 1 .. Len(t) : t[k].service # s
      BY <1>2, <1>4, <2>2
    <3>2. St!Errored(log \o t, s) <=> St!Errored(log, s)
      BY <1>4, <1>5, <3>1, OthersKeepRow
    <3>3. s \notin untold /\ s \notin St!ToVerify
      BY <1>5, <2>2
    <3> QED
      BY <1>1, <1>5, <3>2, <3>3 DEF RowsInv
  <2> QED
    BY <2>1, <2>2
<1>7. log' \in Seq(Events)
  BY <1>4, <1>5
<1>8. \A s \in Svc \ untold' : St!Errored(log', s) <=> s \in failing' \ hidden'
  BY <1>5, <1>6
<1> QED
  BY <1>7, <1>8 DEF RowsInv, St!Errored, St!IsLast

\* So is what is written of a change that is applied, or of one that is skipped,
\* if it is written at all.
LEMMA OutcomesTell ==
  ASSUME RowsInv, NEW s \in Svc, NEW ok \in BOOLEAN,
         NEW told \in {St!ApplyEvents(s, ok)} \union St!CutShort(s, ok),
         St!Carry(s, ok, told), DOMAIN todo' \subseteq Svc
  PROVE  RowsInv'
<1> DEFINE skips == St!Skips(s, ok)
           first == [stage |-> "apply", service |-> s,
                     outcome |-> IF ok THEN "ok" ELSE "error"]
           second == [stage |-> "apply", service |-> s, outcome |-> "skipped"]
<1>1. first \in Events /\ second \in Events /\ (skips => ~ok)
  BY DEF Events, St!Skips
<1>2. /\ told \in {<<>>, <<first>>, <<first>> \o <<second>>}
      /\ told = <<first>> \o <<second>> => skips
  BY DEF St!ApplyEvents, St!CutShort, St!Event, St!Outcome
<1> HIDE DEF first, second, skips
<1>3. /\ <<first>> \in Seq(Events) /\ <<second>> \in Seq(Events)
      /\ <<>> \in Seq(Events) /\ Len(<<first>>) = 1
  BY <1>1
<1>4. /\ <<first>> \o <<second>> \in Seq(Events)
      /\ Len(<<first>> \o <<second>>) = 2
      /\ (<<first>> \o <<second>>)[1] = first
      /\ (<<first>> \o <<second>>)[2] = second
  BY <1>3
<1>5. /\ told \in Seq(Events)
      /\ \A k \in 1 .. Len(told) : told[k].service = s /\ told[k].stage = "apply"
      /\ told # <<>> => /\ Len(told) \in 1 .. Len(told)
                        /\ told[Len(told)].outcome = "error" <=> ~ok /\ Len(told) # 2
  <2>f. /\ first.service = s /\ first.stage = "apply"
        /\ first.outcome = "error" <=> ~ok
        /\ second.service = s /\ second.stage = "apply" /\ second.outcome # "error"
    BY DEF first, second
  <2>1. CASE told = <<>>
    BY <1>3, <2>1
  <2>2. CASE told = <<first>>
    BY <1>3, <2>2, <2>f
  <2>3. CASE told = <<first>> \o <<second>>
    BY <1>4, <2>3, <2>f
  <2> QED
    BY <1>2, <2>1, <2>2, <2>3
<1>6. /\ log' = log \o told /\ log \in Seq(Events)
      /\ failing' = IF ok THEN failing \ {s} ELSE failing \union {s}
      /\ hidden' = IF Len(told) = 2 THEN hidden \union {s} ELSE hidden \ {s}
      /\ untold' = IF told = <<>> THEN untold \union {s} ELSE untold \ {s}
  BY DEF St!Carry, RowsInv
<1>7. ASSUME NEW r \in Svc \ untold'
      PROVE  St!Errored(log \o told, r) <=> r \in failing' \ hidden'
  <2>1. CASE r = s
    <3>1. told # <<>>
      BY <1>6, <2>1
    <3>2. Len(told) \in 1 .. Len(told) /\ told[Len(told)].service = r
          /\ \A j \in Len(told) + 1 .. Len(told) : told[j].service # r
      BY <1>5, <2>1, <3>1
    <3>3. St!Errored(log \o told, r) <=> told[Len(told)].outcome =
            (IF told[Len(told)].stage = "verify" THEN "reject" ELSE "error")
      BY <1>5, <1>6, <3>2, LastDecides
    <3>4. St!Errored(log \o told, r) <=> told[Len(told)].outcome = "error"
      BY <1>5, <3>2, <3>3
    <3>5. Len(told) = 2 => ~ok
      <4>1. told = <<>> \/ told = <<first>> \/ skips
        BY <1>2
      <4>2. told = <<>> => Len(told) = 0
        OBVIOUS
      <4>3. told = <<first>> => Len(told) = 1
        BY <1>3
      <4> QED
        BY <1>1, <4>1, <4>2, <4>3
    <3> QED
      BY <1>5, <1>6, <2>1, <3>1, <3>4, <3>5
  <2>2. CASE r # s
    <3>1. St!Errored(log \o told, r) <=> St!Errored(log, r)
      BY <1>5, <1>6, <2>2, OthersKeepRow
    <3>2. r \notin untold
      BY <1>6, <2>2
    <3> QED
      BY <1>6, <2>2, <3>1, <3>2 DEF RowsInv
  <2> QED
    BY <2>1, <2>2
<1>8. log' \in Seq(Events)
  BY <1>5, <1>6
<1>9. \A r \in Svc \ untold' : St!Errored(log', r) <=> r \in failing' \ hidden'
  BY <1>6, <1>7
<1> QED
  BY <1>8, <1>9 DEF RowsInv, St!Errored, St!IsLast

LEMMA RowsInvariant == AllSpec => [](part = "status" => RowsInv)
<1>1. AllInit => (part = "status" => RowsInv)
  <2> SUFFICES ASSUME St!Init PROVE RowsInv
    BY DEF AllInit
  <2>1. log = <<>> /\ todo = <<>> /\ failing = {}
    BY DEF St!Init
  <2> QED
    BY <2>1 DEF RowsInv, St!Errored
<1>2. (part = "status" => RowsInv) /\ [AllNext]_allVars
        => (part = "status" => RowsInv)'
  <2> SUFFICES ASSUME RowsInv, St!Next \/ UNCHANGED statusVars PROVE RowsInv'
    BY DEF AllNext, InFile, InStatus, allVars
  <2>r. ASSUME UNCHANGED St!results, DOMAIN todo' \subseteq Svc
        PROVE  RowsInv'
    BY <2>r DEF RowsInv, St!Errored, St!IsLast, St!results
  <2>1. CASE St!Observe
    BY <2>1, <2>r DEF St!Observe, St!Planned
  <2>2. CASE St!StageFails
    BY <2>2, <2>r DEF St!StageFails
  <2>3. CASE St!Verify
    <3>1. PICK kept \in SUBSET DOMAIN todo : todo' = [s \in kept |-> todo[s]]
      BY <2>3 DEF St!Verify
    <3>2. DOMAIN todo' \subseteq Svc /\ St!Judge(St!ToVerify)
      BY <2>3, <3>1 DEF RowsInv, St!Verify
    <3> QED
      BY <3>2, VerdictsTell
  <2>4. CASE \E s \in Svc : St!Apply(s)
    <3>1. PICK s \in Svc, ok \in BOOLEAN :
            /\ St!Carry(s, ok, St!ApplyEvents(s, ok)) /\ todo' = St!Rest(s, ok)
            /\ s \in DOMAIN todo
      BY <2>4 DEF St!Apply
    <3>2. DOMAIN todo' \subseteq Svc
      BY <3>1 DEF St!Rest, RowsInv
    <3> QED
      BY <3>1, <3>2, OutcomesTell
  <2>5. CASE St!Push \/ St!Operator
    BY <2>5, <2>r DEF St!Push, St!Operator, St!Moves, RowsInv
  <2>6. CASE St!Crash
    <3>1. DOMAIN todo' \subseteq Svc
      BY <2>6 DEF St!Crash
    <3>2. CASE UNCHANGED St!results
      BY <2>r, <3>1, <3>2
    <3>3. CASE \E told \in SUBSET St!ToVerify : St!Judge(told)
      BY <3>1, <3>3, VerdictsTell
    <3>4. CASE \E s \in DOMAIN todo, ok \in BOOLEAN :
                 \E told \in St!CutShort(s, ok) : St!Carry(s, ok, told)
      BY <3>1, <3>4, OutcomesTell DEF RowsInv
    <3> QED
      BY <2>6, <3>2, <3>3, <3>4 DEF St!Crash
  <2>7. CASE UNCHANGED statusVars
    BY <2>7, <2>r DEF statusVars, RowsInv, St!results
  <2> QED
    BY <2>1, <2>2, <2>3, <2>4, <2>5, <2>6, <2>7 DEF St!Next
<1> QED
  BY <1>1, <1>2, PTL DEF AllSpec

\* A row of `swarmgate status` is an error exactly if the last judged change of
\* the service was refused or failed, wherever the daemon ends in a cycle: the
\* invariant of the runs.  It leaves out a service whose last result the daemon
\* did not live to write, and one whose failure a skipped create was written over.
THEOREM ErrorsTell == AllSpec => []ErrorMeansFailing
<1>1. (part = "status" => RowsInv) => ErrorMeansFailing
  <2>1. \A x \in {"diverged", "converged"} : x # "error"
    OBVIOUS
  <2> QED
    BY <2>1 DEF RowsInv, ErrorMeansFailing, St!ErrorMeansFailing, St!Row
<1> QED
  BY <1>1, RowsInvariant, PTL
===============================================================================

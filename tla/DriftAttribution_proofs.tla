------------------------ MODULE DriftAttribution_proofs ------------------------
(* What drift attribution promises, proved for any number of services, commits *)
(* and events, and however stamps, recordings and cycles interleave.           *)
EXTENDS DriftAttribution, TLAPS

\* The commit compared is the one remembered: a cycle that finds them equal has
\* fetched what the previous fetch of this process did.
SameInv ==
    /\ commit = lastCommit
    /\ pc \in {"observe", "apply"} /\ same => ~changed
    /\ pc = "attribute" => ~changed

\* The action property NewCommitIsDeployment of the run: no commit that is new
\* to this process is reported as drift, whatever cycles failed in between.
THEOREM NewIsNoDrift == Spec => NewCommitIsDeployment
<1>1. Init => SameInv
  BY DEF Init, SameInv
<1>2. SameInv /\ [Next]_vars => SameInv'
  <2> SUFFICES ASSUME SameInv, [Next]_vars PROVE SameInv'
    OBVIOUS
  <2> USE DEF SameInv
  <2>1. CASE Tick \/ RecordHint \/ Stamp \/ StreamBreaks
    BY <2>1 DEF Tick, RecordHint, Stamp, StreamBreaks, swarm, memory, cycle, stream, history
  <2>2. CASE Begin
    BY <2>2 DEF Begin
  <2>3. CASE Fetch
    BY <2>3 DEF Fetch, SameCommitAsLast
  <2>4. CASE Fail
    BY <2>4 DEF Fail, swarm, memory, stream, history
  <2>5. CASE Observe
    BY <2>5 DEF Observe, swarm, memory, stream
  <2>12. ASSUME NEW s \in Services, Attribute(s) PROVE SameInv'
    BY <2>12 DEF Attribute, swarm, stream
  <2>6. CASE Restart
    BY <2>6 DEF Restart, swarm
  <2>7. ASSUME NEW svcs \in SUBSET Services, Apply(svcs) PROVE SameInv'
    BY <2>7 DEF Apply, memory, stream
  <2>8. ASSUME NEW c \in Commits, Push(c) PROVE SameInv'
    BY <2>8 DEF Push, swarm, memory, cycle, stream, history
  <2>9. ASSUME NEW s \in Services, NEW x, Operator(s, x) PROVE SameInv'
    BY <2>9 DEF Operator, memory, cycle, history
  <2>10. ASSUME NEW s \in Services, Echo(s) PROVE SameInv'
    BY <2>10 DEF Echo, swarm, memory, cycle, history
  <2>11. CASE UNCHANGED vars
    BY <2>11 DEF vars, memory, cycle, history
  <2> QED BY <2>1, <2>2, <2>3, <2>4, <2>5, <2>6, <2>7, <2>8, <2>9, <2>10, <2>11,
           <2>12 DEF Next
<1>3. SameInv /\ [Next]_vars => [Emits => ~changed]_vars
  BY DEF SameInv, Emits, Attribute
<1> QED BY <1>1, <1>2, <1>3, PTL DEF Spec, NewCommitIsDeployment

-----------------------------------------------------------------------------
Hint == [at : Nat, seen : Nat, n : Nat]
OnItsWay == [svc : Services, seen : Nat, n : Nat]
Stamped == [svc : Services, hint : Hint]
Types ==
    /\ n \in Nat /\ now \in Nat /\ snapshots \in Nat
    /\ events \in Seq(OnItsWay)
    /\ held \in Seq(Stamped)
    /\ hints \in [Services -> Hint \cup {None}]

\* The events that drift attribution has heard of: used up, or remembered.
Heard(e) == e \in used \/ \E s \in Services : hints[s] # None /\ hints[s].n = e
\* Numbers grow from what was heard over what is held to what is on its way.
Ordered ==
    /\ \A e : Heard(e) => e \in Nat /\ e <= n
    /\ \A x \in 1 .. Len(held) :
         held[x].hint.n <= n /\ \A e : Heard(e) => e < held[x].hint.n
    /\ \A x \in 1 .. Len(events) :
         events[x].n <= n /\ \A e : Heard(e) => e < events[x].n
    /\ \A x, y \in 1 .. Len(held) : x < y => held[x].hint.n < held[y].hint.n
    /\ \A x, y \in 1 .. Len(events) : x < y => events[x].n < events[y].n
    /\ \A x \in 1 .. Len(held), y \in 1 .. Len(events) : held[x].hint.n < events[y].n
\* Two pending hints are of two events, and none is of one used up.
Apart ==
    /\ \A s \in Services : hints[s] # None => hints[s].n \notin used
    /\ \A s, t \in Services :
         s # t /\ hints[s] # None /\ hints[t] # None => hints[s].n # hints[t].n
HintInv == Types /\ Ordered /\ Apart

\* What a queue is without its first element, and with one more.
LEMMA Queues ==
  ASSUME NEW S, NEW q \in Seq(S)
  PROVE  /\ q # <<>> => /\ Head(q) \in S /\ Head(q) = q[1] /\ Len(q) >= 1
                        /\ Tail(q) \in Seq(S) /\ Len(Tail(q)) = Len(q) - 1
                        /\ \A x \in 1 .. Len(q) - 1 : Tail(q)[x] = q[x + 1]
         /\ \A v \in S : /\ Append(q, v) \in Seq(S) /\ Len(Append(q, v)) = Len(q) + 1
                         /\ \A x \in 1 .. Len(q) : Append(q, v)[x] = q[x]
                         /\ Append(q, v)[Len(q) + 1] = v
         /\ Len(q) \in Nat /\ \A x \in 1 .. Len(q) : q[x] \in S
  OBVIOUS

\* A step that takes no event, holds none and remembers none.
LEMMA Rests ==
  ASSUME HintInv, now' \in Nat, snapshots' \in Nat,
         UNCHANGED <<n, events, held, hints, used>>
  PROVE  HintInv'
<1>1. Types'
  BY DEF HintInv, Types
<1>2. Ordered'
  BY DEF HintInv, Ordered, Heard
<1>3. Apart'
  BY DEF HintInv, Apart
<1> QED BY <1>1, <1>2, <1>3 DEF HintInv

LEMMA AnnounceInv ==
  ASSUME HintInv, NEW s \in Services, Announce(s),
         UNCHANGED <<now, snapshots, held, hints, used>>
  PROVE  HintInv'
<1> DEFINE v == [svc |-> s, seen |-> snapshots, n |-> n + 1]
<1>1. n' = n + 1 /\ n \in Nat /\ events' = Append(events, v)
  BY DEF Announce, HintInv, Types
<1>2. v \in OnItsWay /\ v.n = n + 1
  BY <1>1 DEF HintInv, Types, OnItsWay
<1> HIDE DEF v
<1>3. /\ events' \in Seq(OnItsWay)
      /\ Len(events') = Len(events) + 1 /\ Len(events) \in Nat
      /\ \A x \in 1 .. Len(events) : events'[x] = events[x]
      /\ events'[Len(events) + 1] = v
  BY <1>1, <1>2, Queues DEF HintInv, Types
<1>4. Types'
  BY <1>1, <1>3 DEF HintInv, Types
<1>5. \A e : Heard(e)' <=> Heard(e)
  BY DEF Heard
<1>6. \A x \in 1 .. Len(events') : x \in 1 .. Len(events) \/ x = Len(events) + 1
  BY <1>3
<1>7. \A x \in 1 .. Len(held) : held[x].hint.n \in Nat /\ held[x].hint.n <= n
  <2>1. \A x \in 1 .. Len(held) : held[x] \in Stamped
    BY Queues DEF HintInv, Types
  <2>2. \A x \in 1 .. Len(held) : held[x].hint.n \in Nat
    BY <2>1 DEF Stamped, Hint
  <2> QED BY <2>2 DEF HintInv, Ordered
<1>8. /\ \A e : Heard(e) => e \in Nat /\ e <= n
      /\ \A x \in 1 .. Len(events) :
           /\ events[x].n \in Nat /\ events[x].n <= n
           /\ \A e : Heard(e) => e < events[x].n
  <2>1. \A x \in 1 .. Len(events) : events[x] \in OnItsWay
    BY Queues DEF HintInv, Types
  <2>2. \A x \in 1 .. Len(events) : events[x].n \in Nat
    BY <2>1 DEF OnItsWay
  <2> QED BY <2>2 DEF HintInv, Ordered
<1>9. Ordered'
  <2>1. \A e : Heard(e)' => e \in Nat /\ e <= n'
    BY <1>1, <1>5, <1>8
  <2>2. \A x \in 1 .. Len(held') :
          held'[x].hint.n <= n' /\ \A e : Heard(e)' => e < held'[x].hint.n
    BY <1>1, <1>5, <1>7 DEF HintInv, Ordered
  <2>3. \A x \in 1 .. Len(events') :
          events'[x].n <= n' /\ \A e : Heard(e)' => e < events'[x].n
    BY <1>1, <1>2, <1>3, <1>5, <1>6, <1>8
  <2>4. \A x, y \in 1 .. Len(events') : x < y => events'[x].n < events'[y].n
    BY <1>1, <1>2, <1>3, <1>6, <1>8 DEF HintInv, Ordered
  <2>5. \A x \in 1 .. Len(held'), y \in 1 .. Len(events') :
          held'[x].hint.n < events'[y].n
    BY <1>1, <1>2, <1>3, <1>6, <1>7 DEF HintInv, Ordered
  <2>6. \A x, y \in 1 .. Len(held') : x < y => held'[x].hint.n < held'[y].hint.n
    BY DEF HintInv, Ordered
  <2> QED BY <2>1, <2>2, <2>3, <2>4, <2>5, <2>6 DEF Ordered
<1>10. Apart'
  BY DEF HintInv, Apart
<1> QED BY <1>4, <1>9, <1>10 DEF HintInv

LEMMA StampInv ==
  ASSUME HintInv, Stamp PROVE HintInv'
<1> DEFINE v == [svc |-> Head(events).svc,
                 hint |-> [at |-> now, seen |-> Head(events).seen,
                           n |-> Head(events).n]]
<1>1. /\ events # <<>> /\ held' = Append(held, v) /\ events' = Tail(events)
      /\ UNCHANGED <<n, now, snapshots, hints, used>>
  BY DEF Stamp, memory, history
<1>2. /\ events \in Seq(OnItsWay) /\ held \in Seq(Stamped) /\ now \in Nat
      /\ n \in Nat
  BY DEF HintInv, Types
<1>3. /\ Head(events) \in OnItsWay /\ Head(events) = events[1] /\ Len(events) >= 1
      /\ events' \in Seq(OnItsWay) /\ Len(events') = Len(events) - 1
      /\ \A x \in 1 .. Len(events') : events'[x] = events[x + 1]
      /\ Len(events) \in Nat /\ \A x \in 1 .. Len(events) : events[x] \in OnItsWay
  BY <1>1, <1>2, Queues
<1>4. v \in Stamped /\ v.hint.n = events[1].n
  BY <1>2, <1>3 DEF Hint, Stamped, OnItsWay
<1> HIDE DEF v
<1>5. /\ held' \in Seq(Stamped) /\ Len(held') = Len(held) + 1 /\ Len(held) \in Nat
      /\ \A x \in 1 .. Len(held) : held'[x] = held[x] /\ held[x] \in Stamped
      /\ held'[Len(held) + 1] = v
  BY <1>1, <1>2, <1>4, Queues
<1>6. Types'
  BY <1>1, <1>3, <1>5 DEF HintInv, Types
<1>7. \A e : Heard(e)' <=> Heard(e)
  BY <1>1 DEF Heard
<1>8. \A x \in 1 .. Len(held') : x \in 1 .. Len(held) \/ x = Len(held) + 1
  BY <1>5
<1>9. \A x \in 1 .. Len(events') : x \in 1 .. Len(events) /\ x + 1 \in 1 .. Len(events)
  BY <1>3
<1>10. 1 \in 1 .. Len(events)
  BY <1>3
<1>11. Ordered'
  <2>1. \A e : Heard(e)' => e \in Nat /\ e <= n'
    BY <1>1, <1>7 DEF HintInv, Ordered
  <2>2. \A x \in 1 .. Len(held') :
          held'[x].hint.n <= n' /\ \A e : Heard(e)' => e < held'[x].hint.n
    BY <1>1, <1>4, <1>5, <1>7, <1>8, <1>10 DEF HintInv, Ordered
  <2>3. \A x \in 1 .. Len(events') :
          events'[x].n <= n' /\ \A e : Heard(e)' => e < events'[x].n
    BY <1>1, <1>3, <1>7, <1>9 DEF HintInv, Ordered
  <2>4. \A x, y \in 1 .. Len(events') : x < y => events'[x].n < events'[y].n
    <3>1. \A x, y \in 1 .. Len(events') : x < y => x + 1 < y + 1
      OBVIOUS
    <3>2. \A x, y \in 1 .. Len(events) : x < y => events[x].n < events[y].n
      BY DEF HintInv, Ordered
    <3>3. \A x, y \in 1 .. Len(events') :
            x < y => events[x + 1].n < events[y + 1].n
      BY <1>9, <3>1, <3>2
    <3> QED BY <1>3, <3>3
  <2>5. \A x \in 1 .. Len(events') : events[1].n < events'[x].n
    <3>1. \A x \in 1 .. Len(events') : 1 < x + 1
      OBVIOUS
    <3>2. \A x, y \in 1 .. Len(events) : x < y => events[x].n < events[y].n
      BY DEF HintInv, Ordered
    <3>3. \A x \in 1 .. Len(events') : events[1].n < events[x + 1].n
      BY <1>9, <1>10, <3>1, <3>2
    <3> QED BY <1>3, <3>3
  <2>6. \A x \in 1 .. Len(held'), y \in 1 .. Len(events') :
          held'[x].hint.n < events'[y].n
    BY <1>3, <1>4, <1>5, <1>8, <1>9, <2>5 DEF HintInv, Ordered
  <2>7. \A x, y \in 1 .. Len(held') : x < y => held'[x].hint.n < held'[y].hint.n
    BY <1>4, <1>5, <1>8, <1>10 DEF HintInv, Ordered
  <2> QED BY <2>1, <2>2, <2>3, <2>4, <2>6, <2>7 DEF Ordered
<1>12. Apart'
  BY <1>1 DEF HintInv, Apart
<1> QED BY <1>6, <1>11, <1>12 DEF HintInv

LEMMA RecordInv ==
  ASSUME HintInv, RecordHint PROVE HintInv'
<1> DEFINE v == Head(held)
<1>1. /\ held # <<>> /\ held' = Tail(held)
      /\ hints' = [hints EXCEPT ![v.svc] = v.hint]
      /\ UNCHANGED <<n, now, snapshots, events, used>>
  BY DEF RecordHint, cycle, history
<1>2. held \in Seq(Stamped) /\ hints \in [Services -> Hint \cup {None}] /\ n \in Nat
  BY DEF HintInv, Types
<1>3. /\ v \in Stamped /\ v = held[1] /\ Len(held) >= 1
      /\ held' \in Seq(Stamped) /\ Len(held') = Len(held) - 1
      /\ \A x \in 1 .. Len(held') : held'[x] = held[x + 1]
      /\ Len(held) \in Nat
  BY <1>1, <1>2, Queues
<1> HIDE DEF v
<1>4. Types'
  BY <1>1, <1>2, <1>3 DEF HintInv, Types, Stamped
<1>5. /\ \A x \in 1 .. Len(held') : x \in 1 .. Len(held) /\ x + 1 \in 1 .. Len(held)
      /\ 1 \in 1 .. Len(held) /\ v.hint.n \in Nat
  BY <1>3 DEF Hint, Stamped
<1>6. /\ hints'[v.svc] = v.hint
      /\ \A s \in Services : s # v.svc => hints'[s] = hints[s]
  <2>1. v.svc \in Services
    BY <1>3 DEF Stamped
  <2> QED BY <1>1, <1>2, <2>1
<1>7. \A e : Heard(e)' => Heard(e) \/ e = v.hint.n
  BY <1>1, <1>6 DEF Heard
<1>8. \A e : Heard(e) => e < v.hint.n
  BY <1>3, <1>5 DEF HintInv, Ordered
<1>9. /\ \A x \in 1 .. Len(held') : v.hint.n < held'[x].hint.n
      /\ \A x \in 1 .. Len(events) : v.hint.n < events[x].n
      /\ v.hint.n <= n
  <2>1. \A x \in 1 .. Len(held') : 1 < x + 1
    OBVIOUS
  <2>2. \A x \in 1 .. Len(held') : held[1].hint.n < held[x + 1].hint.n
    BY <1>5, <2>1 DEF HintInv, Ordered
  <2> QED BY <1>3, <1>5, <2>2 DEF HintInv, Ordered
<1>10. Ordered'
  <2>1. \A e : Heard(e)' => e \in Nat /\ e <= n'
    BY <1>1, <1>5, <1>7, <1>9 DEF HintInv, Ordered
  <2>2. \A x \in 1 .. Len(held') :
          held'[x].hint.n <= n' /\ \A e : Heard(e)' => e < held'[x].hint.n
    BY <1>1, <1>3, <1>5, <1>7, <1>9 DEF HintInv, Ordered
  <2>3. \A x \in 1 .. Len(events') :
          events'[x].n <= n' /\ \A e : Heard(e)' => e < events'[x].n
    BY <1>1, <1>7, <1>9 DEF HintInv, Ordered
  <2>4. \A x, y \in 1 .. Len(held') : x < y => held'[x].hint.n < held'[y].hint.n
    <3>1. \A x, y \in 1 .. Len(held') : x < y => x + 1 < y + 1
      OBVIOUS
    <3>2. \A x, y \in 1 .. Len(held') :
            x < y => held[x + 1].hint.n < held[y + 1].hint.n
      BY <1>5, <3>1 DEF HintInv, Ordered
    <3> QED BY <1>3, <3>2
  <2>5. \A x \in 1 .. Len(held'), y \in 1 .. Len(events') :
          held'[x].hint.n < events'[y].n
    BY <1>1, <1>3, <1>5 DEF HintInv, Ordered
  <2>6. \A x, y \in 1 .. Len(events') : x < y => events'[x].n < events'[y].n
    BY <1>1 DEF HintInv, Ordered
  <2> QED BY <2>1, <2>2, <2>3, <2>4, <2>5, <2>6 DEF Ordered
<1>11. v.hint.n \notin used
       /\ \A s \in Services : hints[s] # None => hints[s].n # v.hint.n
  <2>1. ~Heard(v.hint.n)
    BY <1>5, <1>8
  <2> QED BY <2>1 DEF Heard
<1>12. Apart'
  BY <1>1, <1>6, <1>11 DEF HintInv, Apart
<1> QED BY <1>4, <1>10, <1>12 DEF HintInv

\* The end of a hint: used up or forgotten.
LEMMA AttributeInv ==
  ASSUME HintInv, NEW s \in Services, Attribute(s)
  PROVE  HintInv'
<1>0. /\ hints' = [hints EXCEPT ![s] = None]
      /\ used' = used \cup {hints[t].n : t \in {u \in {s} : Fresh(u)}}
      /\ UNCHANGED <<now, snapshots, n, events, held>>
  BY DEF Attribute, HintsAfter, stream
<1>1. \A t \in Services : hints'[t] = IF t = s THEN None ELSE hints[t]
  BY <1>0 DEF HintInv, Types
<1>2. Types'
  BY <1>0 DEF HintInv, Types
<1>3. \A e : Heard(e)' => Heard(e)
  BY <1>0, <1>1 DEF Heard, Fresh
<1>4. Ordered'
  BY <1>0, <1>3 DEF HintInv, Ordered
<1>5. Apart'
  BY <1>0, <1>1 DEF HintInv, Apart, Fresh
<1> QED BY <1>2, <1>4, <1>5 DEF HintInv

\* Every event is numbered once on its way from the engine to its use.
LEMMA HintInvariant == Spec => []HintInv
<1>1. Init => HintInv
  <2> SUFFICES ASSUME Init PROVE HintInv
    OBVIOUS
  <2>1. /\ events = <<>> /\ held = <<>> /\ n = 0 /\ used = {} /\ now = 1
        /\ snapshots = 0 /\ hints = [s \in Services |-> None]
    BY DEF Init, NoHint
  <2> QED BY <2>1 DEF HintInv, Types, Ordered, Apart, Heard
<1>2. HintInv /\ [Next]_vars => HintInv'
  <2> SUFFICES ASSUME HintInv, [Next]_vars PROVE HintInv'
    OBVIOUS
  <2>t. now \in Nat /\ snapshots \in Nat
    BY DEF HintInv, Types
  <2>1. CASE Tick
    BY <2>1, <2>t, Rests DEF Tick, memory, stream, history
  <2>2. CASE Begin
    BY <2>2, <2>t, Rests DEF Begin, stream
  <2>3. CASE Fetch
    BY <2>3, <2>t, Rests DEF Fetch, stream
  <2>4. CASE Fail
    BY <2>4, <2>t, Rests DEF Fail, memory, stream, history
  <2>5. CASE Observe
    <3>1. snapshots' = snapshots + 1 /\ UNCHANGED <<n, events, held, now, hints, used>>
      BY <2>5 DEF Observe, memory, stream
    <3> QED BY <2>t, <3>1, Rests
  <2>6. CASE Restart \/ StreamBreaks
    <3>1. /\ n' = n /\ now' = now /\ snapshots' = snapshots /\ used' = used
          /\ events' = <<>> /\ (held' = held \/ held' = <<>>)
          /\ (hints' = hints \/ hints' = [s \in Services |-> None])
      BY <2>6 DEF Restart, StreamBreaks, memory, history, NoHint
    <3>2. Types'
      <4>1. held \in Seq(Stamped) /\ hints \in [Services -> Hint \cup {None}]
        BY DEF HintInv, Types
      <4>2. events' \in Seq(OnItsWay) /\ held' \in Seq(Stamped)
        <5>1. \A S : <<>> \in Seq(S)
          OBVIOUS
        <5> QED BY <3>1, <4>1, <5>1, Zenon
      <4>3. hints' \in [Services -> Hint \cup {None}]
        <5>1. [s \in Services |-> None] \in [Services -> Hint \cup {None}]
          OBVIOUS
        <5> QED BY <3>1, <4>1, <5>1
      <4> QED BY <3>1, <4>2, <4>3 DEF HintInv, Types
    <3>3. \A e : Heard(e)' => Heard(e)
      BY <3>1 DEF Heard
    <3>4. Ordered'
      BY <3>1, <3>3 DEF HintInv, Ordered
    <3>5. Apart'
      BY <3>1 DEF HintInv, Apart
    <3> QED BY <3>2, <3>4, <3>5 DEF HintInv
  <2>7. ASSUME NEW svcs \in SUBSET Services, Apply(svcs) PROVE HintInv'
    BY <2>7, <2>t, Rests DEF Apply, memory, stream
  <2>8. ASSUME NEW c \in Commits, Push(c) PROVE HintInv'
    BY <2>8, <2>t, Rests DEF Push, memory, stream, history
  <2>9. ASSUME NEW s \in Services, NEW x, Operator(s, x) PROVE HintInv'
    BY <2>9, AnnounceInv DEF Operator, memory, history
  <2>10. ASSUME NEW s \in Services, Echo(s) PROVE HintInv'
    BY <2>10, AnnounceInv DEF Echo, memory, history
  <2>11. CASE UNCHANGED vars
    BY <2>11, <2>t, Rests DEF vars, memory, stream, history
  <2>12. CASE Stamp
    BY <2>12, StampInv
  <2>13. CASE RecordHint
    BY <2>13, RecordInv
  <2>14. ASSUME NEW s \in Services, Attribute(s) PROVE HintInv'
    BY <2>14, AttributeInv
  <2> QED BY <2>1, <2>2, <2>3, <2>4, <2>5, <2>6, <2>7, <2>8, <2>9, <2>10, <2>11,
             <2>12, <2>13, <2>14 DEF Next
<1> QED BY <1>1, <1>2, PTL DEF Spec

\* The action property NoHintReuse of the run: one engine event attributes one
\* drift at most, also if it is recorded while the cycle that reports the drift
\* is under way and counts as fresh for the next one.
THEOREM HintsUsedOnce == Spec => NoHintReuse
<1>1. HintInv /\ [Next]_vars =>
        [Emits => (drift'.origin = "event" => drift'.hint.n \notin used)]_vars
  <2> SUFFICES ASSUME HintInv, NEW s \in Services, Attribute(s),
                      drift'.origin = "event"
               PROVE  drift'.hint.n \notin used
    BY DEF Emits
  <2>1. drift' = DriftEvent(s)
    BY DEF Attribute
  <2>2. Fresh(s) /\ drift'.hint = hints[s]
    BY <2>1 DEF DriftEvent
  <2> QED BY <2>2 DEF Fresh, HintInv, Apart
<1> QED BY <1>1, HintInvariant, PTL DEF Spec, NoHintReuse

-----------------------------------------------------------------------------
\* The hints stamped and not yet used up or forgotten.
Pending(h) == \/ \E x \in 1 .. Len(held) : h = held[x].hint
              \/ \E s \in Services : hints[s] # None /\ h = hints[s]

\* A hint stamped no later than time t tells of a change that a snapshot has
\* had the occasion to see.
SeenUpTo(t) == /\ now > t
               /\ \A h : Pending(h) /\ h.at <= t => h.seen < snapshots

\* The snapshot of a cycle comes after its start on the clock, and so after
\* every stamp that a later cycle finds stale.
SeenInv ==
    /\ now >= 1 /\ lastCycleStart \in Nat /\ since \in Nat
    /\ missed \in BOOLEAN /\ reached \in BOOLEAN
    /\ \A x \in 1 .. Len(events) : events[x].seen <= snapshots
    /\ \A h : Pending(h) => h.at >= 1 /\ h.seen <= snapshots
    /\ reached => SeenUpTo(lastCycleStart)
    /\ ~missed => SeenUpTo(since)
    /\ pc = "attribute" /\ ~missed =>
         \A h : Pending(h) /\ h.at <= since => h.seen + 1 < snapshots

LEMMA PendingTypes ==
  ASSUME HintInv PROVE \A h : Pending(h) => h \in Hint
<1>1. \A x \in 1 .. Len(held) : held[x] \in Stamped
  BY Queues DEF HintInv, Types
<1>2. \A s \in Services : hints[s] # None => hints[s] \in Hint
  BY DEF HintInv, Types
<1> QED BY <1>1, <1>2 DEF Pending, Stamped

\* A step within the cycle, or outside: what is pending was so before, or is
\* stamped by it.
LEMMA SeenKept ==
  ASSUME HintInv, SeenInv, now' \in Nat, now' >= now,
         UNCHANGED <<lastCycleStart, since, snapshots, missed, reached>>,
         pc' = "attribute" => pc = "attribute",
         \A x \in 1 .. Len(events') : events'[x].seen <= snapshots,
         \A h : Pending(h)' => Pending(h) \/ (h.at = now /\ h.seen <= snapshots)
  PROVE  SeenInv'
<1>1. /\ now \in Nat /\ snapshots \in Nat
      /\ \A h : Pending(h) => h.at \in Nat /\ h.seen \in Nat
  BY PendingTypes DEF HintInv, Types, Hint
<1>2. ASSUME NEW t \in Nat, SeenUpTo(t) PROVE now' > t /\
        \A h : Pending(h)' /\ h.at <= t => h.seen < snapshots
  BY <1>1, <1>2 DEF SeenUpTo
<1>3. \A h : Pending(h)' => h.at >= 1 /\ h.seen <= snapshots
  BY <1>1 DEF SeenInv
<1>4. reached => SeenUpTo(lastCycleStart)'
  BY <1>2 DEF SeenInv, SeenUpTo
<1>5. ~missed => SeenUpTo(since)'
  BY <1>2 DEF SeenInv, SeenUpTo
<1>6. now' >= 1
  BY <1>1 DEF SeenInv
<1>7. ASSUME pc' = "attribute", ~missed, NEW h, Pending(h)', h.at <= since
      PROVE  h.seen + 1 < snapshots
  <2>1. now > since /\ pc = "attribute"
    BY <1>7 DEF SeenInv, SeenUpTo
  <2>2. Pending(h)
    BY <1>1, <1>7, <2>1 DEF SeenInv
  <2> QED BY <1>7, <2>1, <2>2 DEF SeenInv
<1> QED BY <1>3, <1>4, <1>5, <1>6, <1>7 DEF SeenInv

\* The special case of a step that leaves the stream and the hints alone.
LEMMA SeenRests ==
  ASSUME HintInv, SeenInv, now' \in Nat, now' >= now,
         UNCHANGED <<lastCycleStart, since, snapshots, missed, reached, events,
                     held, hints>>,
         pc' = "attribute" => pc = "attribute"
  PROVE  SeenInv'
<1>1. \A h : Pending(h)' => Pending(h)
  BY DEF Pending
<1>2. \A x \in 1 .. Len(events') : events'[x].seen <= snapshots
  BY DEF SeenInv
<1> QED BY <1>1, <1>2, SeenKept

LEMMA SeenAnnounced ==
  ASSUME HintInv, SeenInv, NEW s \in Services, Announce(s),
         UNCHANGED <<now, lastCycleStart, since, snapshots, missed, reached,
                     held, hints, pc>>
  PROVE  SeenInv'
<1> DEFINE v == [svc |-> s, seen |-> snapshots, n |-> n + 1]
<1>1. now \in Nat /\ snapshots \in Nat /\ n \in Nat /\ events \in Seq(OnItsWay)
  BY DEF HintInv, Types
<1>2. v \in OnItsWay /\ v.seen = snapshots
  BY <1>1 DEF OnItsWay
<1>3. events' = Append(events, v)
  BY DEF Announce
<1> HIDE DEF v
<1>4. /\ Len(events') = Len(events) + 1 /\ Len(events) \in Nat
      /\ \A x \in 1 .. Len(events) : events'[x] = events[x]
      /\ events'[Len(events) + 1] = v
  BY <1>1, <1>2, <1>3, Queues
<1>5. \A x \in 1 .. Len(events') : x \in 1 .. Len(events) \/ x = Len(events) + 1
  BY <1>4
<1>6. \A x \in 1 .. Len(events') : events'[x].seen <= snapshots
  BY <1>1, <1>2, <1>4, <1>5 DEF SeenInv
<1>7. \A h : Pending(h)' => Pending(h)
  BY DEF Pending
<1>8. now' \in Nat /\ now' >= now
  BY <1>1
<1> QED BY <1>6, <1>7, <1>8, SeenKept

LEMMA SeenStamped ==
  ASSUME HintInv, SeenInv, Stamp PROVE SeenInv'
<1> DEFINE v == [svc |-> Head(events).svc,
                 hint |-> [at |-> now, seen |-> Head(events).seen,
                           n |-> Head(events).n]]
<1>1. /\ events # <<>> /\ held' = Append(held, v) /\ events' = Tail(events)
      /\ UNCHANGED <<now, lastCycleStart, since, snapshots, missed, reached,
                     hints, pc>>
  BY DEF Stamp, memory, history, cycle
<1>2. /\ events \in Seq(OnItsWay) /\ held \in Seq(Stamped) /\ now \in Nat
  BY DEF HintInv, Types
<1>3. /\ Head(events) \in OnItsWay /\ Head(events) = events[1] /\ Len(events) >= 1
      /\ Len(events') = Len(events) - 1 /\ Len(events) \in Nat
      /\ \A x \in 1 .. Len(events') : events'[x] = events[x + 1]
  BY <1>1, <1>2, Queues
<1>4. /\ v \in Stamped /\ v.hint.at = now /\ v.hint.seen = events[1].seen
  BY <1>2, <1>3 DEF Hint, Stamped, OnItsWay
<1> HIDE DEF v
<1>5. /\ Len(held') = Len(held) + 1 /\ Len(held) \in Nat
      /\ \A x \in 1 .. Len(held) : held'[x] = held[x]
      /\ held'[Len(held) + 1] = v
  BY <1>1, <1>2, <1>4, Queues
<1>6. /\ \A x \in 1 .. Len(held') : x \in 1 .. Len(held) \/ x = Len(held) + 1
      /\ \A x \in 1 .. Len(events') : x + 1 \in 1 .. Len(events)
      /\ 1 \in 1 .. Len(events)
  BY <1>3, <1>5
<1>7. \A x \in 1 .. Len(events') : events'[x].seen <= snapshots
  BY <1>3, <1>6 DEF SeenInv
<1>8. v.hint.seen <= snapshots
  BY <1>4, <1>6 DEF SeenInv
<1>9. \A h : Pending(h)' => Pending(h) \/ h = v.hint
  BY <1>1, <1>5, <1>6 DEF Pending
<1>10. now' \in Nat /\ now' >= now
  BY <1>1, <1>2
<1> QED BY <1>1, <1>4, <1>7, <1>8, <1>9, <1>10, SeenKept

LEMMA SeenRecorded ==
  ASSUME HintInv, SeenInv, RecordHint PROVE SeenInv'
<1> DEFINE v == Head(held)
<1>1. /\ held # <<>> /\ held' = Tail(held)
      /\ hints' = [hints EXCEPT ![v.svc] = v.hint]
      /\ UNCHANGED <<now, lastCycleStart, since, snapshots, missed, reached,
                     events, pc>>
  BY DEF RecordHint, cycle, history
<1>2. /\ held \in Seq(Stamped) /\ hints \in [Services -> Hint \cup {None}]
      /\ now \in Nat
  BY DEF HintInv, Types
<1>3. /\ v = held[1] /\ Len(held) >= 1 /\ Len(held) \in Nat
      /\ Len(held') = Len(held) - 1
      /\ \A x \in 1 .. Len(held') : held'[x] = held[x + 1]
  BY <1>1, <1>2, Queues
<1> HIDE DEF v
<1>4. /\ \A x \in 1 .. Len(held') : x + 1 \in 1 .. Len(held)
      /\ 1 \in 1 .. Len(held)
  BY <1>3
<1>5. \A s \in Services : hints'[s] = hints[s] \/ hints'[s] = held[1].hint
  BY <1>1, <1>2, <1>3
<1>6. \A h : Pending(h)' => Pending(h)
  BY <1>3, <1>4, <1>5 DEF Pending
<1>7. \A x \in 1 .. Len(events') : events'[x].seen <= snapshots
  BY <1>1 DEF SeenInv
<1>8. now' \in Nat /\ now' >= now
  BY <1>1, <1>2
<1> QED BY <1>1, <1>6, <1>7, <1>8, SeenKept

LEMMA SeenInvariant == Spec => []SeenInv
<1>1. Init => SeenInv
  <2> SUFFICES ASSUME Init PROVE SeenInv
    OBVIOUS
  <2>1. /\ now = 1 /\ lastCycleStart = 0 /\ since = 0 /\ ~missed /\ ~reached
        /\ missed \in BOOLEAN /\ reached \in BOOLEAN /\ pc = "idle"
        /\ events = <<>> /\ held = <<>> /\ hints = NoHint
    BY DEF Init
  <2>2. \A h : ~Pending(h)
    BY <2>1 DEF Pending, NoHint
  <2>3. \A x \in 1 .. Len(events) : events[x].seen <= snapshots
    BY <2>1
  <2> QED BY <2>1, <2>2, <2>3 DEF SeenInv, SeenUpTo
<1>2. HintInv /\ SeenInv /\ [Next]_vars => SeenInv'
  <2> SUFFICES ASSUME HintInv, SeenInv, [Next]_vars PROVE SeenInv'
    OBVIOUS
  <2>t. /\ now \in Nat /\ snapshots \in Nat /\ now >= 1
        /\ \A h : Pending(h) => h.at \in Nat /\ h.seen \in Nat
        /\ now >= now /\ now + 1 \in Nat /\ now + 1 >= now
    BY PendingTypes DEF HintInv, Types, Hint, SeenInv
  <2>1. CASE Tick
    BY <2>1, <2>t, SeenRests DEF Tick, memory, cycle, stream, history
  \* The previous cycle took its snapshot, or there was none before.
  <2>2. CASE Begin
    <3>1. /\ since' = lastCycleStart /\ lastCycleStart' = now
          /\ reached' = FALSE /\ missed' = (lastCycleStart > 0 /\ ~reached)
          /\ UNCHANGED <<now, events, held, hints, snapshots>> /\ pc' = "poll"
      BY <2>2 DEF Begin, stream
    <3>2. \A h : Pending(h)' <=> Pending(h)
      BY <3>1 DEF Pending
    <3>3. SeenUpTo(0)
      BY <2>t DEF SeenInv, SeenUpTo
    <3>4. ~missed' => SeenUpTo(lastCycleStart)
      <4>1. ~missed' => reached \/ ~(lastCycleStart > 0)
        BY <3>1, Zenon
      <4>2. lastCycleStart > 0 \/ lastCycleStart = 0
        BY DEF SeenInv
      <4> QED BY <3>3, <4>1, <4>2 DEF SeenInv
    <3>5. ~missed' => SeenUpTo(since)'
      BY <3>1, <3>2, <3>4 DEF SeenUpTo
    <3> QED BY <2>t, <3>1, <3>2, <3>5 DEF SeenInv
  <2>3. CASE Fetch
    BY <2>3, <2>t, SeenRests DEF Fetch, stream
  <2>4. CASE Fail
    BY <2>4, <2>t, SeenRests DEF Fail, memory, stream, history
  <2>5. CASE Observe
    <3>1. /\ now > lastCycleStart /\ snapshots' = snapshots + 1 /\ reached'
          /\ UNCHANGED <<now, events, held, hints, lastCycleStart, since, missed>>
      BY <2>5 DEF Observe, memory, stream
    <3>3. \A h : Pending(h)' => Pending(h)
      BY <3>1 DEF Pending
    <3>4. \A x \in 1 .. Len(events') : events'[x].seen <= snapshots'
      <4>1. \A x \in 1 .. Len(events) : events[x].seen \in Nat
        <5>1. \A x \in 1 .. Len(events) : events[x] \in OnItsWay
          BY Queues DEF HintInv, Types
        <5> QED BY <5>1 DEF OnItsWay
      <4> QED BY <2>t, <3>1, <4>1 DEF SeenInv
    <3>5. \A h : Pending(h)' => h.at >= 1 /\ h.seen < snapshots'
      BY <2>t, <3>1, <3>3 DEF SeenInv
    <3>6. SeenUpTo(lastCycleStart)'
      BY <3>1, <3>5 DEF SeenUpTo
    <3>7. ~missed => SeenUpTo(since)'
      BY <3>1, <3>5 DEF SeenInv, SeenUpTo
    <3>8. \A h : Pending(h)' => h.at >= 1 /\ h.seen <= snapshots'
      BY <2>t, <3>1, <3>3, <3>5
    <3>9. reached' \in BOOLEAN
      BY <2>5 DEF Observe
    <3>10. ~missed => \A h : Pending(h)' /\ h.at <= since => h.seen + 1 < snapshots'
      BY <2>t, <3>1, <3>3 DEF SeenInv, SeenUpTo
    <3> QED BY <3>1, <3>4, <3>6, <3>7, <3>8, <3>9, <3>10 DEF SeenInv
  <2>6. CASE Restart
    <3>1. /\ lastCycleStart' = 0 /\ since' = 0 /\ hints' = NoHint
          /\ events' = <<>> /\ held' = <<>> /\ reached' = FALSE
          /\ missed' = FALSE /\ now' = now /\ pc' = "idle"
      BY <2>6 DEF Restart
    <3>2. \A h : ~Pending(h)'
      BY <3>1 DEF Pending, NoHint
    <3>3. SeenUpTo(since)'
      BY <2>t, <3>1, <3>2 DEF SeenUpTo
    <3>4. \A x \in 1 .. Len(events') : events'[x].seen <= snapshots'
      BY <3>1
    <3> QED BY <2>t, <3>1, <3>2, <3>3, <3>4 DEF SeenInv
  <2>7. ASSUME NEW svcs \in SUBSET Services, Apply(svcs) PROVE SeenInv'
    BY <2>7, <2>t, SeenRests DEF Apply, memory, stream
  <2>8. ASSUME NEW c \in Commits, Push(c) PROVE SeenInv'
    BY <2>8, <2>t, SeenRests DEF Push, memory, cycle, stream, history
  <2>9. ASSUME NEW s \in Services, NEW x, Operator(s, x) PROVE SeenInv'
    BY <2>9, SeenAnnounced DEF Operator, memory, cycle, history
  <2>10. ASSUME NEW s \in Services, Echo(s) PROVE SeenInv'
    BY <2>10, SeenAnnounced DEF Echo, memory, cycle, history
  <2>11. CASE UNCHANGED vars
    BY <2>11, <2>t, SeenRests DEF vars, memory, cycle, stream, history
  <2>12. CASE StreamBreaks
    <3>1. /\ events' = <<>>
          /\ UNCHANGED <<now, lastCycleStart, since, snapshots, missed, reached,
                         held, hints, pc>>
      BY <2>12 DEF StreamBreaks, memory, cycle, history
    <3>2. \A h : Pending(h)' => Pending(h)
      BY <3>1 DEF Pending
    <3>3. \A x \in 1 .. Len(events') : events'[x].seen <= snapshots
      BY <3>1
    <3> QED BY <2>t, <3>1, <3>2, <3>3, SeenKept
  <2>13. ASSUME NEW s \in Services, Attribute(s) PROVE SeenInv'
    <3>1. /\ UNCHANGED <<now, lastCycleStart, since, snapshots, missed, reached,
                         held, events>>
          /\ hints' = [hints EXCEPT ![s] = None] /\ pc = "attribute"
      BY <2>13 DEF Attribute, HintsAfter, stream
    <3>2. \A u \in Services : hints'[u] = hints[u] \/ hints'[u] = None
      BY <3>1 DEF HintInv, Types
    <3>3. \A h : Pending(h)' => Pending(h)
      BY <3>1, <3>2 DEF Pending
    <3>4. \A x \in 1 .. Len(events') : events'[x].seen <= snapshots
      BY <3>1 DEF SeenInv
    <3> QED BY <2>t, <3>1, <3>3, <3>4, SeenKept
  <2> QED BY <2>1, <2>2, <2>3, <2>4, <2>5, <2>6, <2>7, <2>8, <2>9, <2>10, <2>11,
             <2>12, <2>13, SeenStamped, SeenRecorded DEF Next
<1> QED BY <1>1, <1>2, HintInvariant, PTL DEF Spec

\* The action property StaleMeansSeen of the run: a hint is thrown away as
\* stale only if a snapshot before this cycle's could see the change it tells of, or
\* the previous cycle ended without one, however long the watcher takes.
THEOREM StaleIsSeen == Spec => StaleMeansSeen
<1>1. HintInv /\ SeenInv /\ [Next]_vars =>
        [Emits => (drift'.origin = "poll" /\ drift'.hint # None
                     => drift'.hint.seen + 1 < snapshots \/ missed)]_vars
  <2> SUFFICES ASSUME HintInv, SeenInv, NEW s \in Services, Attribute(s),
                      drift'.origin = "poll", drift'.hint # None, ~missed
               PROVE  drift'.hint.seen + 1 < snapshots
    BY DEF Emits
  <2>1. drift' = DriftEvent(s) /\ pc = "attribute"
    BY DEF Attribute
  <2>2. drift'.hint = hints[s] /\ ~Fresh(s)
    BY <2>1 DEF DriftEvent
  <2>3. Pending(drift'.hint) /\ drift'.hint \in Hint
    BY <2>2, PendingTypes DEF Pending
  <2>4. drift'.hint.at <= since
    BY <2>2, <2>3 DEF Fresh, Hint, SeenInv
  <2> QED BY <2>1, <2>3, <2>4 DEF SeenInv
<1> QED BY <1>1, HintInvariant, SeenInvariant, PTL DEF Spec, StaleMeansSeen
================================================================================

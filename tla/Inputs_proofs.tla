----------------------------- MODULE Inputs_proofs -----------------------------
(* The gate fails closed, proved for every policy, every batch of changes and *)
(* any number of outages and pushes; a fetch returns a head of the branch     *)
(* with its own stack files and their payloads, for any contents, moves and   *)
(* failures; and the host's paths stay contained, for any host,               *)
(* configuration and stack file.                                              *)
EXTENDS Inputs, TLAPS, FiniteSetTheorems, SequenceTheorems

LEMMA BatchFacts ==
    /\ Len(Batch) \in Nat /\ Len(Batch) >= 1
    /\ \A n \in 1 .. Len(Batch) : Batch[n] \in Images
  BY GateAssumption DEF Images

LEMMA KeyFacts ==
  ASSUME NEW p \in Policies
  PROVE  /\ Len(p.keys) \in Nat /\ DOMAIN p.keys = 1 .. Len(p.keys)
         /\ p.keys # <<>> => Len(p.keys) >= 1
  BY GateAssumption

\* TypeOK in three parts: what surrounds the gate, where it is, and what it
\* remembers.
WorldOK ==
    /\ policy \in Policies /\ up \subseteq Hosts
    /\ pushed \in [Images -> SUBSET Bundles]
    /\ pushes \in 0 .. MaxPush /\ outages \in 0 .. MaxOutages
PlaceOK ==
    /\ pc \in {"idle", "key", "root", "fetch", "bundle"}
    /\ phase \in {"signature", "attestation"}
    /\ i \in 0 .. Len(Batch) /\ k \in 0 .. Len(policy.keys)
MemoryOK ==
    /\ trusted \in {"none", "good"} /\ stuck \in BOOLEAN
    /\ downs \subseteq Hosts /\ atStart \subseteq Bundles
    /\ verdicts \in [Images -> Verdict]
RootOK == pc \in {"fetch", "bundle"} \/ trusted = "good" => policy.identities # {}

\* The state is well typed: the invariant TypeOK of the run, for every batch.
THEOREM TypeCorrect == Spec => []TypeOK
<1>1. Init => TypeOK
  <2> SUFFICES ASSUME Init PROVE TypeOK
    OBVIOUS
  <2>1. policy \in Policies /\ Len(policy.keys) \in Nat
    BY KeyFacts DEF Init
  <2>2. pushed \in [Images -> SUBSET Bundles] /\ verdicts \in [Images -> Verdict]
    BY DEF Init, Verdict
  <2>3. Len(Batch) \in Nat
    BY BatchFacts
  <2>4. pushes \in 0 .. MaxPush /\ outages \in 0 .. MaxOutages
    BY GateAssumption DEF Init
  <2>5. i \in 0 .. Len(Batch) /\ k \in 0 .. Len(policy.keys)
    BY <2>1, <2>3 DEF Init
  <2>6. up \subseteq Hosts /\ stuck \in BOOLEAN /\ downs \subseteq Hosts
    BY DEF Init
  <2>7. pc = "idle" /\ trusted = "none"
    BY DEF Init
  <2>8. atStart \subseteq Bundles /\ phase = "signature"
    BY DEF Init
  <2> QED BY <2>1, <2>2, <2>4, <2>5, <2>6, <2>7, <2>8 DEF TypeOK
<1>2. TypeOK /\ [Next]_vars => TypeOK'
  <2> SUFFICES ASSUME TypeOK, [Next]_vars
               PROVE  WorldOK' /\ PlaceOK' /\ MemoryOK' /\ RootOK'
    BY DEF TypeOK, WorldOK, PlaceOK, MemoryOK, RootOK
  <2>t. WorldOK /\ PlaceOK /\ MemoryOK /\ RootOK
    BY DEF TypeOK, WorldOK, PlaceOK, MemoryOK, RootOK
  <2>k. Len(policy.keys) \in Nat /\ (policy.keys # <<>> => Len(policy.keys) >= 1)
    BY <2>t, KeyFacts DEF WorldOK
  <2> DEFINE Quiet == UNCHANGED <<policy, world>>
  <2>q. Quiet => WorldOK'
    BY <2>t DEF WorldOK, world
  <2>p. ASSUME NEW ph \in {"signature", "attestation"}, GotoPhase(ph), Quiet
        PROVE  /\ phase' = ph /\ pc' \in {"key", "root"} /\ k' \in 0 .. Len(policy'.keys)
               /\ stuck' \in BOOLEAN
    <3>1. policy' = policy /\ stuck' = FALSE /\ phase' = ph
      BY <2>p DEF GotoPhase
    <3>2. pc' \in {"key", "root"} /\ k' \in 0 .. Len(policy.keys)
      BY <2>p, <2>k DEF GotoPhase
    <3> QED BY <3>1, <3>2
  <2>g. ASSUME NEW n \in 1 .. Len(Batch), GotoImage(n), Quiet, trusted' \in {"none", "good"},
               verdicts' \in [Images -> Verdict]
        PROVE  PlaceOK' /\ MemoryOK'
    <3>1. atStart' \subseteq Bundles /\ downs' \subseteq Hosts
      BY <2>g, <2>t, BatchFacts DEF GotoImage, WorldOK
    <3>2. i' \in 0 .. Len(Batch) /\ GotoPhase("signature")
      BY <2>g, BatchFacts DEF GotoImage
    <3>3. PlaceOK'
      BY <2>g, <2>p, <3>2 DEF PlaceOK
    <3> QED BY <2>g, <2>p, <3>1, <3>2, <3>3 DEF MemoryOK
  <2>a. ASSUME NEW v \in Verdict, Answer(v), Quiet, trusted' \in {"none", "good"}
        PROVE  PlaceOK' /\ MemoryOK' /\ pc' \in {"idle", "key", "root"}
    <3>1. verdicts' \in [Images -> Verdict]
      BY <2>a, <2>t DEF Answer, MemoryOK
    <3>2. CASE i < Len(Batch)
      <4>1. i + 1 \in 1 .. Len(Batch) /\ GotoImage(i + 1)
        BY <2>a, <2>t, <3>2, BatchFacts DEF Answer, PlaceOK
      <4>2. pc' \in {"key", "root"}
        BY <2>a, <2>p, <4>1 DEF GotoImage
      <4> QED BY <2>a, <2>g, <3>1, <4>1, <4>2
    <3>3. CASE ~(i < Len(Batch))
      <4>1. pc' = "idle" /\ UNCHANGED <<policy, phase, i, k, stuck, atStart, downs>>
        BY <2>a, <3>3 DEF Answer
      <4>2. PlaceOK'
        BY <4>1, <2>t DEF PlaceOK
      <4> QED BY <2>a, <2>t, <3>1, <4>1, <4>2 DEF MemoryOK
    <3> QED BY <3>2, <3>3
  <2>f. ASSUME Found, Quiet
        PROVE  PlaceOK' /\ MemoryOK' /\ pc' \in {"idle", "key", "root"} /\ trusted' = trusted
    <3>1. CASE phase = "signature" /\ NeedsAttestation
      <4>1. GotoPhase("attestation") /\ UNCHANGED <<i, atStart, downs, trusted, verdicts>>
        BY <2>f, <3>1 DEF Found
      <4>2. PlaceOK'
        BY <2>f, <2>t, <2>p, <4>1 DEF PlaceOK
      <4> QED BY <2>f, <2>t, <2>p, <4>1, <4>2 DEF MemoryOK
    <3>2. CASE ~(phase = "signature" /\ NeedsAttestation)
      <4>1. Answer("pass") /\ trusted' = trusted
        BY <2>f, <3>2 DEF Found
      <4> QED BY <2>f, <2>t, <2>a, <4>1 DEF MemoryOK, Verdict
    <3> QED BY <3>1, <3>2
  <2>n. ASSUME NEW b \in BOOLEAN, NotFound(b), Quiet, trusted' \in {"none", "good"}
        PROVE  PlaceOK' /\ MemoryOK' /\ pc' \in {"idle", "key", "root"}
    BY <2>n, <2>a DEF NotFound, Missing, Verdict
  <2>1. CASE Verify
    <3>1. GotoImage(1) /\ Quiet /\ trusted' = trusted /\ 1 \in 1 .. Len(Batch)
      BY <2>1, BatchFacts DEF Verify
    <3>2. verdicts' \in [Images -> Verdict]
      BY <2>1 DEF Verify, Verdict
    <3>3. pc' \in {"key", "root"}
      BY <3>1, <2>p DEF GotoImage
    <3> QED BY <2>g, <2>q, <2>t, <3>1, <3>2, <3>3 DEF MemoryOK, RootOK
  <2>2. CASE ParseFails
    BY <2>2, <2>a, <2>q, <2>t DEF ParseFails, Verdict, MemoryOK, RootOK
  <2>3. CASE TryKey
    <3>1. CASE KeyVerifies
      BY <2>3, <2>f, <2>q, <2>t, <3>1 DEF TryKey, RootOK
    <3>2. CASE ~KeyVerifies
      <4>1. Quiet /\ UNCHANGED <<phase, i, trusted, stuck, verdicts, atStart, downs>>
        BY <2>3, <3>2 DEF TryKey
      <4>2. k' \in 0 .. Len(policy.keys) /\ pc' \in {"key", "root"}
        BY <2>3, <2>k, <2>t, <3>2 DEF TryKey, MoreKeys, PlaceOK
      <4>3. PlaceOK'
        BY <4>1, <4>2, <2>t DEF PlaceOK
      <4> QED BY <4>1, <4>2, <4>3, <2>q, <2>t DEF MemoryOK, RootOK
    <3> QED BY <3>1, <3>2
  <2>4. CASE NoIdentities
    BY <2>4, <2>n, <2>q, <2>t DEF NoIdentities, MemoryOK, RootOK
  <2>5. CASE LoadRoot
    BY <2>5, <2>q, <2>t DEF LoadRoot, MemoryOK, PlaceOK, RootOK
  <2>6. CASE FetchAnswers
    BY <2>6, <2>q, <2>t DEF FetchAnswers, MemoryOK, PlaceOK, RootOK
  <2>7. CASE FetchFails
    BY <2>7, <2>n, <2>q, <2>t DEF FetchFails, AfterFailure, RootOK
  <2>8. CASE TryIdentities
    BY <2>8, <2>f, <2>n, <2>q, <2>t DEF TryIdentities, MemoryOK, RootOK
  <2>9. ASSUME NEW img \in Images \ Malformed, NEW b \in Bundles, Push(img, b)
        PROVE  WorldOK' /\ PlaceOK' /\ MemoryOK' /\ RootOK'
    <3>1. WorldOK'
      BY <2>9, <2>t, GateAssumption DEF Push, WorldOK
    <3> QED BY <2>9, <2>t, <3>1 DEF Push, place, PlaceOK, MemoryOK, RootOK
  <2>10. ASSUME NEW h \in Hosts, GoesDown(h)
         PROVE  WorldOK' /\ PlaceOK' /\ MemoryOK' /\ RootOK'
    <3>1. WorldOK'
      BY <2>10, <2>t, GateAssumption DEF GoesDown, WorldOK
    <3>2. stuck' \in BOOLEAN /\ downs' \subseteq Hosts
      BY <2>10, <2>t DEF GoesDown, MemoryOK
    <3>3. PlaceOK'
      BY <2>10, <2>t DEF GoesDown, place, PlaceOK
    <3> QED BY <2>10, <2>t, <3>1, <3>2, <3>3 DEF GoesDown, place, MemoryOK, RootOK
  <2>11. ASSUME NEW h \in Hosts, ComesBack(h)
         PROVE  WorldOK' /\ PlaceOK' /\ MemoryOK' /\ RootOK'
    <3>1. WorldOK'
      BY <2>11, <2>t DEF ComesBack, WorldOK
    <3> QED BY <2>11, <2>t, <3>1 DEF ComesBack, place, PlaceOK, MemoryOK, RootOK
  <2>12. CASE UNCHANGED vars
    BY <2>12, <2>q, <2>t DEF vars, world, place, PlaceOK, MemoryOK, RootOK
  <2> QED BY <2>1, <2>2, <2>3, <2>4, <2>5, <2>6, <2>7, <2>8, <2>9, <2>10, <2>11, <2>12
       DEF Next, Step
<1> QED BY <1>1, <1>2, PTL DEF Spec

\* A bundle that verifies is one the operator calls his own: LoadPolicy has
\* refused identities of which a half is blank.
LEMMA VerifiedIsTrusted ==
  ASSUME Loads(policy), NEW b,
         (k \in DOMAIN policy.keys /\ ByKey(b, k)) \/ ByIdentity(b)
  PROVE  Trusted(b)
<1>1. CASE k \in DOMAIN policy.keys /\ ByKey(b, k)
  BY <1>1 DEF ByKey, Trusted
<1>2. CASE ByIdentity(b)
  BY <1>2 DEF ByIdentity, Match, Loads, IdentityOK, Trusted
<1> QED BY <1>1, <1>2

\* PassIsEarned is not inductive: the verdict of a change is the outcome of the
\* calls before it.  What they leave behind while the change is looked at:
Looking ==
    /\ Loads(policy)
    /\ pc # "idle" => i \in 1 .. Len(Batch)
    /\ pc = "key" => k \in DOMAIN policy.keys
Promise ==
    /\ pc \in {"fetch", "bundle"} => Image \notin Malformed
    /\ pc # "idle" /\ phase = "attestation"
         => Image \notin Malformed /\ \E b \in pushed[Image] : Trusted(b)
EarnInv == Looking /\ Promise /\ PassIsEarned

LEMMA EarnInvariant == Spec => []EarnInv
<1>1. Init => EarnInv
  BY DEF Init, EarnInv, Looking, Promise, PassIsEarned
<1>2. TypeOK /\ EarnInv /\ [Next]_vars => EarnInv'
  <2> SUFFICES ASSUME TypeOK, EarnInv, [Next]_vars
               PROVE  Looking' /\ Promise' /\ PassIsEarned'
    BY DEF EarnInv
  <2>t. /\ Looking /\ Promise /\ PassIsEarned
        /\ WorldOK /\ PlaceOK /\ MemoryOK
    BY DEF TypeOK, EarnInv, WorldOK, PlaceOK, MemoryOK
  <2>k. /\ Len(policy.keys) \in Nat /\ DOMAIN policy.keys = 1 .. Len(policy.keys)
        /\ policy.keys # <<>> => Len(policy.keys) >= 1
    BY <2>t, KeyFacts DEF WorldOK
  <2> DEFINE Quiet == UNCHANGED <<policy, world>>
  <2>p. ASSUME NEW ph, GotoPhase(ph), Quiet
        PROVE  /\ pc' \in {"key", "root"} /\ phase' = ph
               /\ pc' = "key" => k' \in DOMAIN policy'.keys
    BY <2>p, <2>k DEF GotoPhase
  <2>g. ASSUME NEW n \in 1 .. Len(Batch), GotoImage(n), Quiet
        PROVE  Looking' /\ Promise'
    <3>1. i' = n /\ GotoPhase("signature")
      BY <2>g DEF GotoImage
    <3>2. pc' \in {"key", "root"} /\ phase' = "signature"
      BY <2>g, <2>p, <3>1
    <3>3. Looking'
      BY <2>g, <2>t, <2>p, <3>1 DEF Looking, Loads, IdentityOK
    <3> QED BY <3>2, <3>3 DEF Promise
  \* The verdict of the last call lasts: nothing is ever taken off a registry.
  <2>s. ASSUME UNCHANGED policy, verdicts' = verdicts,
               \A img \in Images : pushed[img] \subseteq pushed'[img]
        PROVE  PassIsEarned'
    BY <2>s, <2>t DEF PassIsEarned, Acceptable, Attested, Trusted, RequireFor
  <2>a. ASSUME NEW v, Answer(v), Quiet, pc # "idle",
               v = "pass" => Acceptable(Image, pushed[Image])
        PROVE  Looking' /\ Promise' /\ PassIsEarned'
    <3>1. Image \in Images
      BY <2>a, <2>t, BatchFacts DEF Looking, Image
    <3>2. verdicts' = [verdicts EXCEPT ![Image] = v]
      BY <2>a DEF Answer
    <3>3. PassIsEarned'
      BY <2>a, <2>t, <3>1, <3>2
         DEF PassIsEarned, Acceptable, Attested, Trusted, RequireFor, world, MemoryOK
    <3>4. CASE i < Len(Batch)
      <4>1. i + 1 \in 1 .. Len(Batch) /\ GotoImage(i + 1)
        BY <2>a, <2>t, <3>4, BatchFacts DEF Answer, Looking
      <4> QED BY <2>a, <2>g, <3>3, <4>1
    <3>5. CASE ~(i < Len(Batch))
      BY <2>a, <2>t, <3>3, <3>5 DEF Answer, Looking, Promise, Loads, IdentityOK
    <3> QED BY <3>4, <3>5
  <2>f. ASSUME Found, Quiet, pc # "idle", Image \notin Malformed,
               \E b \in pushed[Image] : Trusted(b) /\ Counts(b)
        PROVE  Looking' /\ Promise' /\ PassIsEarned'
    <3>1. CASE phase = "signature" /\ NeedsAttestation
      <4>1. GotoPhase("attestation") /\ UNCHANGED <<i, verdicts>>
        BY <2>f, <3>1 DEF Found
      <4>2. Looking'
        BY <2>f, <2>t, <2>p, <4>1 DEF Looking, Loads, IdentityOK
      <4>3. Promise'
        BY <2>f, <2>p, <4>1 DEF Promise, Image, Trusted, world
      <4> QED BY <2>f, <2>s, <4>1, <4>2, <4>3 DEF world
    <3>2. CASE ~(phase = "signature" /\ NeedsAttestation)
      <4>1. Answer("pass")
        BY <2>f, <3>2 DEF Found
      <4>2. phase = "attestation" => Attested(pushed[Image])
        BY <2>f DEF Counts, RightBuilder, Attested
      <4>3. Acceptable(Image, pushed[Image])
        BY <2>f, <2>t, <3>2, <4>2 DEF PlaceOK, Acceptable, NeedsAttestation
      <4> QED BY <2>f, <2>a, <4>1, <4>3
    <3> QED BY <3>1, <3>2
  <2>n. ASSUME NEW b \in BOOLEAN, NotFound(b), Quiet, pc # "idle"
        PROVE  Looking' /\ Promise' /\ PassIsEarned'
    BY <2>n, <2>a DEF NotFound, Missing
  <2>1. CASE Verify
    <3>1. GotoImage(1) /\ Quiet /\ 1 \in 1 .. Len(Batch)
      BY <2>1, BatchFacts DEF Verify
    <3>2. PassIsEarned'
      BY <2>1 DEF Verify, PassIsEarned
    <3> QED BY <2>g, <3>1, <3>2
  <2>2. CASE ParseFails
    BY <2>2, <2>a DEF ParseFails
  <2>3. CASE TryKey
    <3>1. CASE KeyVerifies
      <4>1. \E b \in pushed[Image] : Trusted(b) /\ Counts(b)
        BY <2>3, <2>t, <3>1, VerifiedIsTrusted DEF TryKey, KeyVerifies, Looking
      <4> QED BY <2>3, <2>f, <3>1, <4>1 DEF TryKey, Parses
    <3>2. CASE ~KeyVerifies
      <4>1. Quiet /\ UNCHANGED <<phase, i, verdicts>>
        BY <2>3, <3>2 DEF TryKey
      <4>2. pc' \in {"key", "root"} /\ (pc' = "key" => k' \in DOMAIN policy.keys)
        BY <2>3, <2>k, <2>t, <3>2 DEF TryKey, MoreKeys, Looking
      <4>3. Looking' /\ Promise'
        BY <2>3, <2>t, <4>1, <4>2
           DEF TryKey, Looking, Promise, Image, Trusted, Loads, IdentityOK, world
      <4> QED BY <2>s, <4>1, <4>3 DEF world
    <3> QED BY <3>1, <3>2
  <2>4. CASE NoIdentities
    BY <2>4, <2>n DEF NoIdentities
  <2>5. CASE LoadRoot \/ FetchAnswers
    <3>1. Quiet /\ UNCHANGED <<phase, i, verdicts>> /\ pc # "idle" /\ pc' \in {"fetch", "bundle"}
      BY <2>5 DEF LoadRoot, FetchAnswers
    <3>2. Image \notin Malformed
      BY <2>5, <2>t DEF LoadRoot, FetchAnswers, Parses, Promise
    <3>3. Looking' /\ Promise'
      BY <2>t, <3>1, <3>2 DEF Looking, Promise, Image, Trusted, Loads, IdentityOK, world
    <3> QED BY <2>s, <3>1, <3>3 DEF world
  <2>6. CASE FetchFails
    BY <2>6, <2>n DEF FetchFails
  <2>7. CASE TryIdentities
    <3>1. CASE BundleVerifies
      <4>1. \E b \in pushed[Image] : Trusted(b) /\ Counts(b)
        BY <2>t, <3>1, VerifiedIsTrusted DEF BundleVerifies, Looking
      <4>2. Image \notin Malformed
        BY <2>7, <2>t DEF TryIdentities, Promise
      <4> QED BY <2>7, <2>f, <3>1, <4>1, <4>2 DEF TryIdentities
    <3>2. CASE ~BundleVerifies
      BY <2>7, <2>n, <3>2 DEF TryIdentities
    <3> QED BY <3>1, <3>2
  <2>8. CASE \/ \E img \in Images \ Malformed, b \in Bundles : Push(img, b)
             \/ \E h \in Hosts : GoesDown(h) \/ ComesBack(h)
             \/ UNCHANGED vars
    <3>1. UNCHANGED <<policy, place, verdicts>>
      BY <2>8 DEF Push, GoesDown, ComesBack, vars
    <3>2. \A img \in Images : pushed[img] \subseteq pushed'[img]
      BY <2>8, <2>t DEF Push, GoesDown, ComesBack, vars, world, WorldOK
    <3>3. Looking'
      BY <2>t, <3>1 DEF Looking, Loads, IdentityOK, place
    <3>4. pc # "idle" => Image \in Images
      BY <2>t, BatchFacts DEF Looking, Image
    <3>5. Promise'
      BY <2>t, <3>1, <3>2, <3>4 DEF Promise, Image, Trusted, place
    <3> QED BY <2>s, <3>1, <3>2, <3>3, <3>5
  <2> QED BY <2>1, <2>2, <2>3, <2>4, <2>5, <2>6, <2>7, <2>8 DEF Next, Step
<1> QED BY TypeCorrect, <1>1, <1>2, PTL DEF Spec

\* The gate fails closed, the invariant PassIsEarned of the run: whatever is
\* down, times out or is pushed half-way through, for every policy LoadPolicy
\* accepts and every batch, an image passes only if the registry holds all that
\* the policy asks for.
THEOREM FailsClosed == Spec => []PassIsEarned
<1>1. EarnInv => PassIsEarned
  BY DEF EarnInv
<1> QED BY EarnInvariant, <1>1, PTL

\* What the looks so far have shown of the bundles that were there when the
\* change's turn came, as long as the registry did not go down.
Known ==
    /\ Hosts \ up \subseteq downs
    /\ stuck => "sigstore" \in downs
    /\ pc = "bundle" => trusted = "good"
Searched(n) == (pc = "key" /\ n < k) \/ pc \in {"root", "fetch", "bundle"}
Fruitless ==
    "registry" \notin downs =>
        \A n \in DOMAIN policy.keys : Searched(n) =>
            \A b \in atStart : Counts(b) => ~ByKey(b, n)
Turn ==
    /\ pc # "idle" => atStart \subseteq pushed[Image]
    /\ pc # "idle" /\ phase = "attestation" => NeedsAttestation
SearchInv == Looking /\ Known /\ Fruitless /\ Turn

LEMMA SearchInvariant == Spec => []SearchInv
<1>1. Init => SearchInv
  BY DEF Init, SearchInv, Looking, Known, Fruitless, Searched, Turn
<1>2. TypeOK /\ SearchInv /\ [Next]_vars => SearchInv'
  <2> SUFFICES ASSUME TypeOK, SearchInv, [Next]_vars
               PROVE  Looking' /\ Known' /\ Fruitless' /\ Turn'
    BY DEF SearchInv
  <2>t. /\ Looking /\ Known /\ Fruitless /\ Turn
        /\ WorldOK /\ PlaceOK /\ MemoryOK
    BY DEF TypeOK, SearchInv, WorldOK, PlaceOK, MemoryOK
  <2>k. /\ Len(policy.keys) \in Nat /\ DOMAIN policy.keys = 1 .. Len(policy.keys)
        /\ policy.keys # <<>> => Len(policy.keys) >= 1
    BY <2>t, KeyFacts DEF WorldOK
  <2>l. ASSUME UNCHANGED policy PROVE Loads(policy)'
    BY <2>l, <2>t DEF Looking, Loads, IdentityOK
  <2> DEFINE Quiet == UNCHANGED <<policy, world>>
  \* A phase begins with nothing searched: the first key, or no key at all.
  <2>p. ASSUME NEW ph, GotoPhase(ph), Quiet
        PROVE  /\ pc' \in {"key", "root"} /\ phase' = ph /\ stuck' = FALSE
               /\ pc' = "key" => k' \in DOMAIN policy'.keys
               /\ Fruitless'
    <3>1. /\ pc' \in {"key", "root"} /\ phase' = ph /\ stuck' = FALSE
          /\ pc' = "key" => k' \in DOMAIN policy.keys /\ k' = 1
          /\ pc' = "root" => DOMAIN policy.keys = {}
      BY <2>p, <2>k DEF GotoPhase
    <3>2. policy' = policy /\ \A n \in DOMAIN policy.keys : ~Searched(n)'
      BY <2>p, <2>k, <3>1 DEF Searched
    <3>3. Fruitless'
      BY <3>2 DEF Fruitless
    <3> QED BY <3>1, <3>2, <3>3
  <2>g. ASSUME NEW n \in 1 .. Len(Batch), GotoImage(n), Quiet
        PROVE  Looking' /\ Known' /\ Fruitless' /\ Turn'
    <3>1. /\ i' = n /\ GotoPhase("signature")
          /\ atStart' = pushed[Batch[n]] /\ downs' = Hosts \ up
      BY <2>g DEF GotoImage
    <3>2. Looking'
      BY <2>g, <2>l, <2>p, <3>1 DEF Looking
    <3>3. Known'
      <4>1. ~stuck' /\ pc' # "bundle"
        BY <2>g, <2>p, <3>1
      <4> QED BY <2>g, <3>1, <4>1 DEF Known, world
    <3>4. Turn'
      <4>1. phase' = "signature" /\ pushed' = pushed /\ i' = n
        BY <2>g, <2>p, <3>1 DEF world
      <4>2. atStart' \subseteq (pushed[Image])'
        BY <3>1, <4>1 DEF Image
      <4> QED BY <4>1, <4>2 DEF Turn
    <3> QED BY <2>g, <2>p, <3>1, <3>2, <3>3, <3>4
  <2>a. ASSUME NEW v, Answer(v), Quiet, pc # "idle"
        PROVE  Looking' /\ Known' /\ Fruitless' /\ Turn'
    <3>1. CASE i < Len(Batch)
      <4>1. i + 1 \in 1 .. Len(Batch) /\ GotoImage(i + 1)
        BY <2>a, <2>t, <3>1, BatchFacts DEF Answer, Looking
      <4> QED BY <2>a, <2>g, <4>1
    <3>2. CASE ~(i < Len(Batch))
      <4>1. pc' = "idle" /\ UNCHANGED <<policy, up, downs, stuck>>
        BY <2>a, <3>2 DEF Answer, world
      <4> QED BY <2>t, <2>l, <4>1 DEF Looking, Known, Fruitless, Searched, Turn
    <3> QED BY <3>1, <3>2
  <2>f. ASSUME Found, Quiet, pc # "idle"
        PROVE  Looking' /\ Known' /\ Fruitless' /\ Turn'
    <3>1. CASE phase = "signature" /\ NeedsAttestation
      <4>1. GotoPhase("attestation") /\ UNCHANGED <<i, atStart, downs>>
        BY <2>f, <3>1 DEF Found
      <4>2. Looking'
        BY <2>f, <2>l, <2>t, <2>p, <4>1 DEF Looking
      <4>3. Known'
        BY <2>f, <2>t, <2>p, <4>1 DEF Known, world
      <4>4. Turn'
        BY <2>f, <2>t, <3>1, <4>1 DEF Turn, Image, NeedsAttestation, RequireFor, world
      <4> QED BY <2>f, <2>p, <4>1, <4>2, <4>3, <4>4
    <3>2. CASE ~(phase = "signature" /\ NeedsAttestation)
      BY <2>f, <2>a, <3>2 DEF Found
    <3> QED BY <3>1, <3>2
  <2>n. ASSUME NEW b \in BOOLEAN, NotFound(b), Quiet, pc # "idle"
        PROVE  Looking' /\ Known' /\ Fruitless' /\ Turn'
    BY <2>n, <2>a DEF NotFound
  <2>1. CASE Verify
    BY <2>1, <2>g, BatchFacts DEF Verify
  <2>2. CASE ParseFails
    BY <2>2, <2>a DEF ParseFails
  <2>3. CASE TryKey
    <3>1. CASE KeyVerifies
      BY <2>3, <2>f, <3>1 DEF TryKey
    <3>2. CASE ~KeyVerifies
      <4>1. Quiet /\ UNCHANGED <<phase, i, trusted, stuck, atStart, downs>> /\ pc = "key"
        BY <2>3, <3>2 DEF TryKey
      <4>2. \/ pc' = "key" /\ k' = k + 1 /\ k' \in DOMAIN policy.keys
            \/ pc' = "root" /\ k = Len(policy.keys)
        BY <2>3, <2>k, <2>t, <3>2 DEF TryKey, MoreKeys, Looking
      <4>3. Looking'
        BY <2>l, <2>t, <4>1, <4>2 DEF Looking
      <4>4. Known' /\ Turn'
        BY <2>t, <4>1, <4>2
           DEF Known, Turn, Image, NeedsAttestation, RequireFor, world
      <4>5. "registry" \notin downs => \A b \in atStart : Counts(b) => ~ByKey(b, k)
        BY <2>t, <3>2, <4>1 DEF KeyVerifies, Known, Turn, Hosts
      <4>6. \A n \in DOMAIN policy.keys : Searched(n)' => Searched(n) \/ n = k
        BY <2>k, <2>t, <4>1, <4>2 DEF Searched, Looking
      <4>7. Fruitless'
        BY <2>t, <4>1, <4>5, <4>6 DEF Fruitless, Counts, RightBuilder, ByKey
      <4> QED BY <4>3, <4>4, <4>7
    <3> QED BY <3>1, <3>2
  <2>4. CASE NoIdentities
    BY <2>4, <2>n DEF NoIdentities
  <2>5. CASE LoadRoot \/ FetchAnswers
    <3>1. /\ Quiet /\ UNCHANGED <<phase, i, k, atStart, downs>>
          /\ pc \in {"root", "fetch"} /\ pc' \in {"fetch", "bundle"}
      BY <2>5 DEF LoadRoot, FetchAnswers
    <3>2. Looking' /\ Turn'
      BY <2>l, <2>t, <3>1 DEF Looking, Turn, Image, NeedsAttestation, RequireFor, world
    <3>3. Known'
      BY <2>5, <2>t DEF LoadRoot, FetchAnswers, Known, world, Hosts, MemoryOK
    <3>4. Fruitless'
      BY <2>t, <3>1 DEF Fruitless, Searched, Counts, RightBuilder, ByKey
    <3> QED BY <3>2, <3>3, <3>4
  <2>6. CASE FetchFails
    BY <2>6, <2>n DEF FetchFails
  <2>7. CASE TryIdentities
    BY <2>7, <2>f, <2>n DEF TryIdentities
  <2>8. ASSUME UNCHANGED <<policy, place, trusted, atStart>>, Known',
               downs \subseteq downs', \A img \in Images : pushed[img] \subseteq pushed'[img]
        PROVE  Looking' /\ Known' /\ Fruitless' /\ Turn'
    <3>1. Looking'
      BY <2>8, <2>l, <2>t DEF Looking, place
    <3>2. Fruitless'
      BY <2>8, <2>t DEF Fruitless, Searched, Counts, RightBuilder, ByKey, place
    <3>3. pc # "idle" => Image \in Images
      BY <2>t, BatchFacts DEF Looking, Image
    <3>4. Turn'
      BY <2>8, <2>t, <3>3 DEF Turn, Image, NeedsAttestation, RequireFor, place
    <3> QED BY <2>8, <3>1, <3>2, <3>4
  <2>9. ASSUME NEW img \in Images \ Malformed, NEW b \in Bundles, Push(img, b)
        PROVE  Looking' /\ Known' /\ Fruitless' /\ Turn'
    <3>1. Known'
      BY <2>9, <2>t DEF Push, Known, place
    <3> QED BY <2>8, <2>9, <2>t, <3>1 DEF Push, WorldOK
  <2>10. ASSUME NEW h \in Hosts, GoesDown(h) \/ ComesBack(h)
         PROVE  Looking' /\ Known' /\ Fruitless' /\ Turn'
    <3>1. Known'
      <4>1. CASE GoesDown(h)
        <5>1. stuck' => stuck \/ h = "sigstore"
          BY <4>1 DEF GoesDown
        <5> QED BY <2>t, <4>1, <5>1 DEF GoesDown, Known, place
      <4>2. CASE ComesBack(h)
        BY <2>t, <4>2 DEF ComesBack, Known, place
      <4> QED BY <2>10, <4>1, <4>2
    <3> QED BY <2>8, <2>10, <2>t, <3>1 DEF GoesDown, ComesBack, WorldOK
  <2>11. CASE UNCHANGED vars
    <3>1. Known'
      BY <2>11, <2>t DEF vars, Known, place, world
    <3> QED BY <2>8, <2>11, <2>t, <3>1 DEF vars, world, WorldOK
  <2> QED BY <2>1, <2>2, <2>3, <2>4, <2>5, <2>6, <2>7, <2>9, <2>10, <2>11 DEF Next, Step
<1> QED BY TypeCorrect, <1>1, <1>2, PTL DEF Spec

\* Every way to a verdict other than "pass" for a change whose bundles were all
\* there: either a host was down, or there is none.
LEMMA RejectionHasCause ==
  ASSUME TypeOK, EarnInv, SearchInv, [Next]_vars,
         NEW img \in Images, verdicts[img] = "none",
         verdicts'[img] \notin {"none", "pass"}
  PROVE  \/ verdicts'[img] = "malformed" /\ img \in Malformed
         \/ verdicts'[img] # "unattested" /\ "sigstore" \in downs
         \/ /\ verdicts'[img] = IF phase = "signature" THEN "unsigned" ELSE "unattested"
            /\ phase = "attestation" => RequireFor(policy, StackOf[img])
            /\ phase \in {"signature", "attestation"}
            /\ "registry" \notin downs => ~\E b \in atStart : Trusted(b) /\ Counts(b)
<1>t. /\ Looking /\ Known /\ Fruitless /\ Turn
      /\ WorldOK /\ PlaceOK /\ MemoryOK
  BY DEF TypeOK, SearchInv, WorldOK, PlaceOK, MemoryOK
<1>a. ASSUME NEW v, Answer(v), pc # "idle" PROVE img = Image /\ verdicts'[img] = v
  <2>1. Image \in Images
    BY <1>a, <1>t, BatchFacts DEF Looking, Image
  <2> QED BY <1>a, <1>t, <2>1 DEF Answer, MemoryOK
<1>f. ASSUME Found, pc # "idle" PROVE FALSE
  <2>1. CASE phase = "signature" /\ NeedsAttestation
    BY <1>f, <2>1 DEF Found
  <2>2. CASE ~(phase = "signature" /\ NeedsAttestation)
    BY <1>f, <1>a, <2>2 DEF Found
  <2> QED BY <2>1, <2>2
<1>n. ASSUME NotFound(FALSE), pc # "idle"
      PROVE  /\ img = Image
             /\ verdicts'[img] = IF phase = "signature" THEN "unsigned" ELSE "unattested"
             /\ phase = "attestation" => RequireFor(policy, StackOf[img])
             /\ phase \in {"signature", "attestation"}
  BY <1>n, <1>a, <1>t DEF NotFound, Missing, Turn, NeedsAttestation, PlaceOK
\* Whoever is trusted is found by a key or by an identity.
<1>i. ASSUME NEW b, Trusted(b)
      PROVE  (\E n \in DOMAIN policy.keys : ByKey(b, n)) \/ ByIdentity(b)
  BY <1>i DEF Trusted, ByKey, ByIdentity, Match
<1>1. CASE Verify
  BY <1>1 DEF Verify
<1>2. CASE ParseFails
  BY <1>2, <1>a DEF ParseFails
<1>3. CASE TryKey
  BY <1>3, <1>f DEF TryKey
<1>4. CASE NoIdentities
  <2>1. "registry" \notin downs => ~\E b \in atStart : Trusted(b) /\ Counts(b)
    BY <1>4, <1>t, <1>i DEF NoIdentities, Fruitless, Searched, ByIdentity
  <2> QED BY <1>4, <1>n, <2>1 DEF NoIdentities
<1>5. CASE LoadRoot \/ FetchAnswers
  BY <1>5 DEF LoadRoot, FetchAnswers
<1>6. CASE FetchFails
  <2>1. "sigstore" \in downs
    BY <1>6, <1>t DEF FetchFails, TimerFires, Known
  <2>2. verdicts'[img] \in {"unsigned", "no root"}
    <3> DEFINE v == IF phase = "signature" THEN "unsigned" ELSE "no root"
    <3>1. Answer(v) /\ pc # "idle"
      BY <1>6 DEF FetchFails, NotFound, Missing
    <3>2. verdicts'[img] = v
      BY <3>1, <1>a
    <3> QED BY <3>2
  <2> QED BY <2>1, <2>2
<1>7. CASE TryIdentities
  <2>1. CASE BundleVerifies
    BY <1>7, <1>f, <2>1 DEF TryIdentities
  <2>2. CASE ~BundleVerifies
    <3>1. "registry" \notin downs => ~\E b \in atStart : Trusted(b) /\ Counts(b)
      BY <1>7, <1>t, <1>i, <2>2
         DEF TryIdentities, BundleVerifies, Fruitless, Searched, Known, Turn, Hosts
    <3> QED BY <1>7, <1>n, <2>2, <3>1 DEF TryIdentities
  <2> QED BY <2>1, <2>2
<1>8. CASE \/ \E g \in Images \ Malformed, b \in Bundles : Push(g, b)
           \/ \E h \in Hosts : GoesDown(h) \/ ComesBack(h)
           \/ UNCHANGED vars
  BY <1>8 DEF Push, GoesDown, ComesBack, vars
<1> QED BY <1>1, <1>2, <1>3, <1>4, <1>5, <1>6, <1>7, <1>8 DEF Next, Step

\* No false reject, the action property GoodImagePasses of the run: an image
\* that had all the policy asks for when its turn came, with no host down since,
\* passes, whatever outage there was before and whatever its place in the batch.
THEOREM NoFalseReject == Spec => GoodImagePasses
<1>1. ASSUME TypeOK, EarnInv, SearchInv, [Next]_vars, NEW img \in Images
      PROVE  /\ verdicts[img] = "none" /\ verdicts'[img] \notin {"none", "pass"}
             /\ downs = {} /\ Acceptable(img, atStart)
             => FALSE
  <2> SUFFICES ASSUME verdicts[img] = "none", verdicts'[img] \notin {"none", "pass"},
                      downs = {}, Acceptable(img, atStart)
               PROVE  FALSE
    OBVIOUS
  <2>1. img \notin Malformed
    BY DEF Acceptable
  <2>2. /\ phase \in {"signature", "attestation"}
        /\ phase = "attestation" => RequireFor(policy, StackOf[img])
        /\ ~\E b \in atStart : Trusted(b) /\ Counts(b)
    BY <1>1, <2>1, RejectionHasCause
  <2>3. CASE phase = "signature"
    BY <2>2, <2>3 DEF Acceptable, Counts
  <2>4. CASE phase = "attestation"
    BY <2>2, <2>4 DEF Acceptable, Attested, Counts, RightBuilder
  <2> QED BY <2>2, <2>3, <2>4
<1> DEFINE A == \A img \in Images :
                  /\ verdicts[img] = "none" /\ verdicts'[img] \notin {"none", "pass"}
                  /\ downs = {} /\ Acceptable(img, atStart)
                  => FALSE
<1>2. TypeOK /\ EarnInv /\ SearchInv /\ [Next]_vars => [A]_vars
  BY <1>1
<1> QED BY TypeCorrect, EarnInvariant, SearchInvariant, <1>2, PTL DEF Spec, GoodImagePasses

\* The message names the cause, the action property MissingMeansMissing of the
\* run: "attestation required" is said of an image that carries one only if the
\* registry was down, never because of Sigstore's trusted root.
THEOREM NamesTheCause == Spec => MissingMeansMissing
<1>1. ASSUME TypeOK, EarnInv, SearchInv, [Next]_vars, NEW img \in Images
      PROVE  /\ verdicts[img] = "none" /\ verdicts'[img] = "unattested"
             /\ Attested(atStart)
             => "registry" \in downs
  <2> SUFFICES ASSUME verdicts[img] = "none", verdicts'[img] = "unattested",
                      Attested(atStart), "registry" \notin downs
               PROVE  FALSE
    OBVIOUS
  <2>1. /\ phase = "attestation"
        /\ ~\E b \in atStart : Trusted(b) /\ Counts(b)
    BY <1>1, RejectionHasCause
  <2> QED BY <2>1 DEF Attested, Counts, RightBuilder
<1> DEFINE A == \A img \in Images :
                  /\ verdicts[img] = "none" /\ verdicts'[img] = "unattested"
                  /\ Attested(atStart)
                  => "registry" \in downs
<1>2. TypeOK /\ EarnInv /\ SearchInv /\ [Next]_vars => [A]_vars
  BY <1>1
<1> QED BY TypeCorrect, EarnInvariant, SearchInvariant, <1>2, PTL DEF Spec, MissingMeansMissing

-----------------------------------------------------------------------------
(* Induction.  The library's theorems take an operator, which the provers     *)
(* cannot instantiate; a set will do, and is there by counting.               *)

\* A set with 0 and with the successor of each number it has holds them all: a
\* missing m would map 0 .. m - 1 one to one into fewer numbers.
LEMMA NatSetInduction ==
  ASSUME NEW S, 0 \in S, \A n \in Nat : n \in S => n + 1 \in S
  PROVE  Nat \subseteq S
<1> SUFFICES ASSUME NEW m \in Nat, m \notin S PROVE FALSE
  OBVIOUS
<1> DEFINE A == {t \in 0 .. m : t \in S}
           B == A \ {0}
           succ == [t \in A |-> t + 1]
<1>1. IsFiniteSet(A) /\ 0 \in A
  <2>1. A \subseteq 0 .. m /\ 0 \in A
    OBVIOUS
  <2>2. IsFiniteSet(0 .. m)
    BY FS_Interval
  <2> QED
    BY <2>1, <2>2, FS_Subset
<1>2. IsFiniteSet(B) /\ Cardinality(B) = Cardinality(A) - 1
  BY <1>1, FS_RemoveElement
<1>3. \A t \in A : t + 1 \in B
  OBVIOUS
<1>4. succ \in Injection(A, B)
  BY <1>3 DEF Injection, IsInjective
<1>5. Cardinality(A) <= Cardinality(B)
  BY <1>2, <1>4, FS_Injection
<1>6. Cardinality(A) \in Nat
  BY <1>1, FS_CardinalityType
<1> QED
  BY <1>2, <1>5, <1>6

LEMMA IntervalInduction ==
  ASSUME NEW n \in Nat, NEW S, 0 \in S, \A t \in 1 .. n : t - 1 \in S => t \in S
  PROVE  \A t \in 0 .. n : t \in S
<1> DEFINE T == {t \in Nat : t <= n => t \in S}
<1>1. 0 \in T
  OBVIOUS
<1>2. ASSUME NEW t \in Nat, t \in T PROVE t + 1 \in T
  <2> SUFFICES ASSUME t + 1 <= n PROVE t + 1 \in S
    OBVIOUS
  <2>1. t + 1 \in 1 .. n /\ (t + 1) - 1 = t /\ t \in S
    BY <1>2
  <2> QED
    BY <2>1
<1>3. Nat \subseteq T
  <2> HIDE DEF T
  <2> QED
    BY <1>1, <1>2, NatSetInduction
<1> QED
  BY <1>3

\* g starts with b and takes the steps one after the other.
Steps(T, b, n, step, g) ==
  /\ g \in [0 .. n -> T] /\ g[0] = b
  /\ \A t \in 1 .. n : g[t] = step[t][g[t-1]]

\* There is such a g: a recursive definition over 0 .. n is one.
LEMMA Recursion ==
  ASSUME NEW T, NEW b \in T, NEW n \in Nat, NEW step \in [1 .. n -> [T -> T]]
  PROVE  \E g : Steps(T, b, n, step, g)
<1> DEFINE Good(m, g) == /\ g \in [0 .. m -> T] /\ g[0] = b
                         /\ \A t \in 1 .. m : g[t] = step[t][g[t-1]]
           S == {m \in 0 .. n : \E g : Good(m, g)}
<1>1. 0 \in S
  <2> DEFINE g == [t \in 0 .. 0 |-> b]
  <2>1. g \in [0 .. 0 -> T] /\ g[0] = b
    OBVIOUS
  <2> HIDE DEF g
  <2>2. Good(0, g)
    BY <2>1
  <2> QED
    BY <2>2
<1>2. ASSUME NEW j \in 1 .. n, j - 1 \in S
      PROVE  j \in S
  <2>1. PICK m \in 0 .. n : j = m + 1 /\ m = j - 1
    OBVIOUS
  <2>2. PICK g : Good(m, g)
    BY <1>2, <2>1
  <2>3. PICK c \in T : c = step[m + 1][g[m]]
    <3>1. g[m] \in T /\ m + 1 \in 1 .. n
      BY <2>1, <2>2
    <3>2. step[m + 1] \in [T -> T]
      BY <3>1
    <3> QED
      BY <3>1, <3>2
  <2> DEFINE h == [t \in 0 .. m + 1 |-> IF t <= m THEN g[t] ELSE c]
  <2>4. h \in [0 .. m + 1 -> T] /\ h[0] = b
    BY <2>2, <2>3
  <2>5. ASSUME NEW t \in 1 .. m PROVE h[t] = g[t] /\ h[t-1] = g[t-1]
    BY <2>2
  <2>6. h[m + 1] = c /\ h[(m + 1) - 1] = g[m]
    BY <2>2
  <2> HIDE DEF h
  <2>7. ASSUME NEW t \in 1 .. m + 1 PROVE h[t] = step[t][h[t-1]]
    <3>1. CASE t \in 1 .. m
      <4>1. h[t] = g[t] /\ h[t-1] = g[t-1]
        BY <3>1, <2>5
      <4>2. g[t] = step[t][g[t-1]]
        BY <2>2, <3>1
      <4> QED
        BY <4>1, <4>2
    <3>2. CASE t = m + 1
      BY <3>2, <2>3, <2>6
    <3> QED
      BY <3>1, <3>2
  <2>8. Good(m + 1, h)
    BY <2>4, <2>7
  <2> QED
    BY <2>1, <2>8
<1>3. \A j \in 0 .. n : j \in S
  <2> HIDE DEF S
  <2> QED
    BY <1>1, <1>2, IntervalInduction
<1> QED
  BY <1>3 DEF Steps

-----------------------------------------------------------------------------
(* Paths in the repository. *)

Name == STRING \ {".", ".."}
Above(q) == q # <<>> /\ q[1] = ".."   \* leads out of the repository

LEMMA FrontOf ==
  ASSUME NEW S, NEW q \in Seq(S), q # <<>>
  PROVE  /\ G!Front(q) \in Seq(S) /\ Len(G!Front(q)) = Len(q) - 1
         /\ \A m \in 1 .. Len(q) - 1 : G!Front(q)[m] = q[m]
<1>0. Len(q) \in Nat \ {0}
  OBVIOUS
<1> DEFINE n == Len(q) - 1
<1>1. n \in 0 .. Len(q) /\ n = Len(q) - 1
  BY <1>0
<1> HIDE DEF n
<1>2. G!Front(q) = SubSeq(q, 1, n)
  BY <1>1 DEF G!Front
<1>3. SubSeq(q, 1, n) \in Seq(S) /\ Len(SubSeq(q, 1, n)) = n
  BY <1>1
<1>4. ASSUME NEW m \in 1 .. n PROVE SubSeq(q, 1, n)[m] = q[m]
  BY <1>1
<1> QED
  BY <1>1, <1>2, <1>3, <1>4

LEMMA EnterOf ==
  ASSUME NEW q \in Seq(STRING), NEW x \in STRING
  PROVE  /\ G!Enter(q, x) \in Seq(STRING)
         /\ Above(q) => Above(G!Enter(q, x))
         /\ q \in Seq(Name) /\ ~Above(G!Enter(q, x)) =>
              /\ G!Enter(q, x) \in Seq(Name)
              /\ x = ".." => q # <<>> /\ G!Enter(q, x) = G!Front(q)
<1>1. CASE x = "."
  BY <1>1 DEF G!Enter
<1>2. CASE x = ".." /\ q # <<>> /\ G!Last(q) # ".."
  <2>1. G!Enter(q, x) = G!Front(q)
    BY <1>2 DEF G!Enter
  <2>2. Len(q) \in Nat /\ Len(q) >= 1
    BY <1>2
  <2>3. Above(q) => Len(q) - 1 >= 1
    BY <1>2, <2>2 DEF Above, G!Last
  <2>4. G!Front(q) \in Seq(STRING) /\ (Above(q) => Above(G!Front(q)))
    BY <1>2, <2>2, <2>3, FrontOf DEF Above
  <2>5. q \in Seq(Name) => G!Front(q) \in Seq(Name)
    BY <1>2, FrontOf
  <2> QED
    BY <1>2, <2>1, <2>4, <2>5
<1>3. CASE x # "." /\ ~(x = ".." /\ q # <<>> /\ G!Last(q) # "..")
  <2>1. G!Enter(q, x) = Append(q, x)
    BY <1>3 DEF G!Enter
  <2>2. Append(q, x) \in Seq(STRING) /\ (Above(q) => Above(Append(q, x)))
    BY DEF Above
  <2>3. ASSUME q \in Seq(Name), x = ".." PROVE Above(Append(q, x))
    <3>1. q # <<>> => q[Len(q)] \in Name
      BY <2>3
    <3>2. q = <<>>
      BY <1>3, <2>3, <3>1 DEF G!Last, Name
    <3> QED
      BY <2>3, <3>2 DEF Above
  <2>4. ASSUME q \in Seq(Name), x # ".." PROVE Append(q, x) \in Seq(Name)
    <3>1. x \in Name
      BY <1>3, <2>4 DEF Name
    <3> QED
      BY <2>4, <3>1
  <2> QED
    BY <2>1, <2>2, <2>3, <2>4
<1> QED
  BY <1>1, <1>2, <1>3

LEMMA CleanedSteps ==
  ASSUME NEW p \in Seq(STRING)
  PROVE  /\ G!Cleaned(p) \in [0 .. Len(p) -> Seq(STRING)]
         /\ G!Cleaned(p)[0] = <<>>
         /\ \A t \in 1 .. Len(p) : G!Cleaned(p)[t] = G!Enter(G!Cleaned(p)[t-1], p[t])
<1> DEFINE n == Len(p)
           step == [t \in 1 .. n |-> [q \in Seq(STRING) |-> G!Enter(q, p[t])]]
           F(at) == [t \in 0 .. n |-> IF t = 0 THEN <<>> ELSE G!Enter(at[t-1], p[t])]
           w == G!Cleaned(p)
<1>0. n \in Nat /\ <<>> \in Seq(STRING) /\ \A t \in 1 .. n : p[t] \in STRING
  OBVIOUS
<1>1. step \in [1 .. n -> [Seq(STRING) -> Seq(STRING)]]
  BY <1>0, EnterOf
<1>2. PICK g : Steps(Seq(STRING), <<>>, n, step, g)
  <2> HIDE DEF step, n
  <2> QED
    BY <1>0, <1>1, Recursion, Zenon
<1>3. g = F(g)
  <2>1. ASSUME NEW t \in 1 .. n PROVE g[t] = G!Enter(g[t-1], p[t])
    <3>1. t - 1 \in 0 .. n
      <4> HIDE DEF n
      <4> QED
        BY <1>0
    <3>2. step[t][g[t-1]] = G!Enter(g[t-1], p[t])
      BY <1>2, <3>1 DEF Steps
    <3> QED
      BY <1>2, <3>2 DEF Steps
  <2> QED
    BY <1>2, <2>1 DEF Steps
<1>4. w = CHOOSE at : at = F(at)
  BY DEF G!Cleaned
<1>5. w = F(w)
  BY <1>3, <1>4
<1> HIDE DEF w, n
<1>6. w[0] = <<>> /\ \A t \in 1 .. n : w[t] = G!Enter(w[t-1], p[t])
  BY <1>0, <1>5
<1>7. \A t \in 0 .. n : w[t] \in Seq(STRING)
  <2> DEFINE Typed == {t \in 0 .. n : w[t] \in Seq(STRING)}
  <2>1. 0 \in Typed
    <3>1. w[0] \in Seq(STRING)
      BY <1>0, <1>6
    <3> QED
      BY <1>0, <3>1
  <2>2. ASSUME NEW t \in 1 .. n, t - 1 \in Typed PROVE t \in Typed
    <3>1. w[t-1] \in Seq(STRING) /\ p[t] \in STRING
      BY <1>0, <2>2
    <3>2. w[t] = G!Enter(w[t-1], p[t])
      BY <1>6
    <3>3. w[t] \in Seq(STRING)
      BY <3>1, <3>2, EnterOf
    <3> QED
      BY <1>0, <3>3
  <2> HIDE DEF Typed
  <2>3. \A t \in 0 .. n : t \in Typed
    BY <1>0, <2>1, <2>2, IntervalInduction
  <2> QED
    BY <2>3 DEF Typed
<1>8. w \in [0 .. n -> Seq(STRING)]
  BY <1>5, <1>7
<1> QED
  BY <1>6, <1>8 DEF w, n

\* A path that stays in the repository never left it on the way.
LEMMA CleanedStays ==
  ASSUME NEW p \in Seq(STRING), ~G!Escapes(G!Clean(p))
  PROVE  /\ \A t \in 0 .. Len(p) : G!Cleaned(p)[t] \in Seq(Name)
         /\ \A t \in 1 .. Len(p) : p[t] = ".." =>
              /\ G!Cleaned(p)[t-1] # <<>>
              /\ G!Cleaned(p)[t] = G!Front(G!Cleaned(p)[t-1])
<1> DEFINE n == Len(p)
           w == G!Cleaned(p)
<1>1. /\ w \in [0 .. n -> Seq(STRING)] /\ w[0] = <<>>
      /\ \A t \in 1 .. n : w[t] = G!Enter(w[t-1], p[t])
  BY CleanedSteps
<1>2. n \in Nat /\ \A t \in 1 .. n : p[t] \in STRING /\ t - 1 \in 0 .. n
  OBVIOUS
<1>3. ~Above(w[n])
  <2>1. w[n] # <<>> => Head(w[n]) = w[n][1]
    BY <1>1, <1>2
  <2> QED
    BY <2>1 DEF G!Escapes, G!Clean, Above
<1> HIDE DEF w, n
<1>4. ASSUME NEW t \in 1 .. n PROVE Above(w[t-1]) => Above(w[t])
  BY <1>1, <1>2, EnterOf
<1>5. \A t \in 0 .. n : ~Above(w[t])
  <2> DEFINE S == {t \in 0 .. n : \A j \in 0 .. t : Above(w[j]) => Above(w[t])}
  <2>1. 0 \in S
    BY <1>2
  <2>2. ASSUME NEW t \in 1 .. n, t - 1 \in S PROVE t \in S
    <3>1. \A j \in 0 .. t - 1 : Above(w[j]) => Above(w[t])
      BY <1>4, <2>2
    <3> QED
      BY <1>2, <3>1
  <2> HIDE DEF S
  <2>3. \A t \in 0 .. n : t \in S
    BY <1>2, <2>1, <2>2, IntervalInduction
  <2>4. n \in S
    BY <1>2, <2>3
  <2> QED
    BY <1>2, <1>3, <2>4 DEF S
<1>6. \A t \in 0 .. n : w[t] \in Seq(Name)
  <2> DEFINE S == {t \in 0 .. n : w[t] \in Seq(Name)}
  <2>1. 0 \in S
    <3>1. w[0] \in Seq(Name)
      BY <1>1
    <3> QED
      BY <1>2, <3>1
  <2>2. ASSUME NEW t \in 1 .. n, t - 1 \in S PROVE t \in S
    <3>1. w[t-1] \in Seq(Name) /\ w[t-1] \in Seq(STRING) /\ ~Above(w[t]) /\ p[t] \in STRING
      BY <1>1, <1>2, <1>5, <2>2
    <3>2. w[t] \in Seq(Name)
      BY <1>1, <3>1, EnterOf
    <3> QED
      BY <1>2, <3>2
  <2> HIDE DEF S
  <2>3. \A t \in 0 .. n : t \in S
    BY <1>2, <2>1, <2>2, IntervalInduction
  <2> QED
    BY <2>3 DEF S
<1>7. ASSUME NEW t \in 1 .. n, p[t] = ".."
      PROVE  w[t-1] # <<>> /\ w[t] = G!Front(w[t-1])
  <2>1. /\ w[t-1] \in Seq(Name) /\ w[t-1] \in Seq(STRING) /\ ~Above(w[t])
        /\ w[t] = G!Enter(w[t-1], p[t]) /\ p[t] \in STRING
    BY <1>1, <1>2, <1>5, <1>6
  <2> QED
    BY <1>7, <2>1, EnterOf
<1> QED
  BY <1>6, <1>7 DEF w, n

\* Cleaning the path of a config file is walking the tree from its stack file.
LEMMA CleanIsWalk ==
  ASSUME NEW p \in Seq(STRING), NEW file \in Seq(STRING), p # <<>>,
         G!Front(p) \in Seq(Name), ~G!Escapes(G!ConfigPath(p, file))
  PROVE  G!Walk(p, file) = G!ConfigPath(p, file)
<1> DEFINE dir == G!Front(p)
           l == Len(dir)
           n == Len(file)
           path == dir \o file
           w == G!Cleaned(path)
           Into(q, x) ==
             IF x = ".." THEN (IF q = <<>> THEN <<Nil>> ELSE G!Front(q))
             ELSE IF x = "." THEN q ELSE Append(q, x)
           F(step) == [t \in 0 .. n |-> IF t = 0 THEN dir ELSE Into(step[t-1], file[t])]
           g == [t \in 0 .. n |-> w[l + t]]
           walked == CHOOSE step : step = F(step)
<1>0. /\ dir \in Seq(STRING) /\ path \in Seq(STRING) /\ l \in Nat /\ n \in Nat
      /\ Len(path) = l + n
      /\ \A t \in 1 .. l : path[t] = dir[t] /\ dir[t] \in Name
      /\ \A t \in 1 .. n : path[l + t] = file[t]
  BY FrontOf DEF Name
<1>1. G!ConfigPath(p, file) = w[l + n] /\ ~G!Escapes(G!Clean(path))
  BY <1>0 DEF G!ConfigPath, G!Clean
<1>2. G!Walk(p, file) = walked[n]
  BY DEF G!Walk
<1>3. /\ w[0] = <<>>
      /\ \A t \in 1 .. l + n : w[t] = G!Enter(w[t-1], path[t])
      /\ \A t \in 0 .. l + n : w[t] \in Seq(Name)
      /\ \A t \in 1 .. l + n : path[t] = ".." => w[t-1] # <<>> /\ w[t] = G!Front(w[t-1])
  BY <1>0, <1>1, CleanedSteps, CleanedStays
<1> HIDE DEF path, w, l, n, dir
<1>4. w[l] = dir
  <2> DEFINE S == {t \in 0 .. l : w[t] = SubSeq(dir, 1, t)}
  <2>0. SubSeq(dir, 1, 0) = <<>> /\ SubSeq(dir, 1, l) = dir
    BY <1>0, SubSeqEmpty, SubSeqFull DEF l
  <2>1. 0 \in S
    BY <1>0, <1>3, <2>0
  <2>2. ASSUME NEW t \in 1 .. l, t - 1 \in S PROVE t \in S
    <3>1. w[t-1] = SubSeq(dir, 1, t - 1) /\ t \in 1 .. l + n
      BY <1>0, <2>2
    <3>2. w[t] = Append(w[t-1], dir[t])
      BY <1>0, <1>3, <3>1 DEF G!Enter, Name
    <3>3. Append(SubSeq(dir, 1, t - 1), dir[t]) = SubSeq(dir, 1, t)
      BY <1>0 DEF l
    <3>4. w[t] = SubSeq(dir, 1, t)
      BY <3>1, <3>2, <3>3
    <3> QED
      BY <1>0, <3>4
  <2> HIDE DEF S
  <2>3. \A t \in 0 .. l : t \in S
    BY <1>0, <2>1, <2>2, IntervalInduction
  <2> QED
    BY <1>0, <2>0, <2>3 DEF S
<1>5. ASSUME NEW t \in 1 .. n
      PROVE  w[l + t] = Into(w[l + (t - 1)], file[t])
  <2>1. l + t \in 1 .. l + n /\ l + (t - 1) = (l + t) - 1 /\ path[l + t] = file[t]
    BY <1>0
  <2>2. w[l + t] = G!Enter(w[l + (t - 1)], file[t])
    BY <1>3, <2>1
  <2> QED
    BY <1>3, <2>1, <2>2 DEF G!Enter
<1> HIDE DEF Into
<1>6. g = F(g)
  <2>1. ASSUME NEW t \in 1 .. n PROVE g[t] = Into(g[t-1], file[t])
    <3>1. t - 1 \in 0 .. n /\ t \in 0 .. n
      BY <1>0
    <3> QED
      BY <1>5, <3>1
  <2>2. g[0] = dir
    BY <1>0, <1>4
  <2>3. g = [t \in 0 .. n |-> g[t]]
    OBVIOUS
  <2> HIDE DEF g
  <2>4. \A t \in 0 .. n : g[t] = IF t = 0 THEN dir ELSE Into(g[t-1], file[t])
    BY <1>0, <2>1, <2>2
  <2> QED
    BY <2>3, <2>4
<1>7. walked = F(walked)
  BY <1>6
<1> HIDE DEF walked
<1>8. walked[n] = w[l + n]
  <2> DEFINE S == {t \in 0 .. n : walked[t] = w[l + t]}
  <2>1. 0 \in S
    BY <1>0, <1>4, <1>7
  <2>2. ASSUME NEW t \in 1 .. n, t - 1 \in S PROVE t \in S
    <3>1. walked[t-1] = w[l + (t - 1)]
      BY <2>2
    <3>2. walked[t] = w[l + t]
      BY <1>0, <1>5, <1>7, <3>1
    <3> QED
      BY <1>0, <3>2
  <2> HIDE DEF S
  <2>3. \A t \in 0 .. n : t \in S
    BY <1>0, <2>1, <2>2, IntervalInduction
  <2> QED
    BY <1>0, <2>3 DEF S
<1> QED
  BY <1>1, <1>2, <1>8
-----------------------------------------------------------------------------
(* The Git source. *)

\* While a fetch runs, the branch is where it has been seen, and once the
\* transfer is done the local branch is at one of these commits.
FetchInv ==
    /\ head \in DOMAIN Content \cup {Nil}
    /\ fetching # "idle" => head \in seen
    /\ fetching = "read" => ref \in seen \cap DOMAIN Content
\* A result is a commit with the stack files read from it.
ResultInv ==
    result # Failed => LET files == G!StackFiles(Content[result.commit]) IN
                       /\ result.commit \in DOMAIN Content
                       /\ files # Failed /\ result.files = files

LEMMA SourceStep ==
  ASSUME FetchInv, ResultInv, G!Next
  PROVE  FetchInv' /\ ResultInv' /\ G!FreshReturn
<1>1. CASE G!Fetch
  BY <1>1 DEF G!Fetch, FetchInv, ResultInv, G!FreshReturn
<1>2. CASE G!Transfer
  BY <1>2 DEF G!Transfer, G!Fetched, G!AfterUpToDate, FetchInv, ResultInv, G!FreshReturn
<1>3. CASE G!TransferFails
  BY <1>3 DEF G!TransferFails, G!Return, FetchInv, ResultInv, G!FreshReturn
<1>4. CASE G!ReadFiles
  <2> DEFINE files == G!StackFiles(Content[ref])
  <2>1. /\ fetching = "read" /\ fetching' = "idle" /\ UNCHANGED <<head, seen, ref>>
        /\ result' = IF files = Failed THEN Failed ELSE [commit |-> ref, files |-> files]
    BY <1>4 DEF G!ReadFiles, G!Return
  <2>2. result' # Failed => /\ files # Failed /\ result'.files = files
                            /\ result'.commit = ref
    BY <2>1
  <2>3. FetchInv'
    BY <2>1 DEF FetchInv
  <2>4. ref \in seen \cap DOMAIN Content
    BY <2>1 DEF FetchInv
  <2> QED
    BY <2>1, <2>2, <2>3, <2>4 DEF ResultInv, G!FreshReturn
<1>5. ASSUME NEW c \in DOMAIN Content \cup {Nil}, G!Push(c)
      PROVE  FetchInv' /\ ResultInv' /\ G!FreshReturn
  BY <1>5 DEF G!Push, FetchInv, ResultInv, G!FreshReturn
<1> QED
  BY <1>1, <1>2, <1>3, <1>4, <1>5 DEF G!Next, G!Work

\* Two stacks of one name make a commit unreadable, so each name is found once.
LEMMA OneFilePerStack ==
  ASSUME NEW tree, G!StackFiles(tree) # Failed, NEW p \in G!StackPaths(tree)
  PROVE  Cardinality({f \in G!StackFiles(tree) : f.name = tree[p].base}) = 1
<1> DEFINE file(q) == [name |-> tree[q].base, path |-> q, doc |-> tree[q].doc,
                       files |-> G!ConfigFiles(tree, q)]
<1>1. G!Readable(tree) /\ G!StackFiles(tree) = {file(q) : q \in G!StackPaths(tree)}
  BY DEF G!StackFiles
<1>2. \A q \in G!StackPaths(tree) : tree[q].base = tree[p].base => q = p
  BY <1>1 DEF G!Readable, G!Ambiguous
<1>3. {f \in G!StackFiles(tree) : f.name = tree[p].base} = {file(p)}
  BY <1>1, <1>2
<1> QED
  BY <1>3, FS_Singleton

\* The payloads of a result are those its configs name.
LEMMA PayloadsFollow ==
  ASSUME ResultInv
  PROVE  G!PayloadsAreTheCommits
<1> DEFINE tree == Content[result.commit]
<1> SUFFICES ASSUME result # Failed, NEW f \in result.files, NEW c \in G!Read(f.doc)
             PROVE  /\ G!Walk(f.path, c.file) \in DOMAIN f.files
                    /\ f.files[G!Walk(f.path, c.file)] = tree[G!Walk(f.path, c.file)].doc
  BY DEF G!PayloadsAreTheCommits
<1>1. result.commit \in DOMAIN Content /\ G!Readable(tree) /\ result.files = G!StackFiles(tree)
  BY DEF ResultInv, G!StackFiles
<1>2. PICK p \in G!StackPaths(tree) :
         f = [name |-> tree[p].base, path |-> p, doc |-> tree[p].doc,
              files |-> G!ConfigFiles(tree, p)]
  BY <1>1 DEF G!StackFiles
<1>3. /\ f.path = p /\ f.files = G!ConfigFiles(tree, p) /\ c \in G!Read(tree[p].doc)
  BY <1>2
<1>4. c.file # Absolute /\ ~G!Escapes(G!ConfigPath(p, c.file))
  BY <1>1, <1>3 DEF G!Readable, G!ConfigsReadable, G!ConfigReadable
<1>5. p \in Seq(STRING) /\ c.file \in Seq(STRING) /\ Dir \in Seq(Name)
  BY <1>1, <1>3, <1>4, ContentAssumption DEF Name
<1>6. p # <<>> /\ G!Front(p) = Dir
  <2>1. Len(p) = Len(Dir) + 1 /\ Dir = SubSeq(p, 1, Len(Dir))
    <3>1. SubSeq(Dir, 1, Len(Dir)) = Dir
      BY <1>5, SubSeqFull
    <3> QED
      BY <3>1 DEF G!StackPaths, G!IsPrefix
  <2> QED
    BY <1>5, <2>1 DEF G!Front
<1>7. G!Walk(p, c.file) = G!ConfigPath(p, c.file)
  BY <1>4, <1>5, <1>6, CleanIsWalk
<1> QED
  BY <1>3, <1>7 DEF G!ConfigFiles

\* The action property FetchIsTrue of the run.  Whatever fails and however the
\* branch is moved, forced back, deleted and created again: a fetch returns a
\* commit that was its head meanwhile, with all of that commit's stack files,
\* each once and with its own content, and with the payloads its configs name.
THEOREM FetchIsRight == AllSpec => FetchIsTrue
<1> DEFINE Inv == part = "git" => FetchInv /\ ResultInv
<1>1. AllInit => Inv
  BY DEF AllInit, G!Init, FetchInv, ResultInv
<1>2. Inv /\ [AllNext]_allVars
        => Inv' /\ (part = "git" => G!FreshReturn \/ UNCHANGED gitVars)
  <2> SUFFICES ASSUME Inv, [AllNext]_allVars
               PROVE  Inv' /\ (part = "git" => G!FreshReturn \/ UNCHANGED gitVars)
    OBVIOUS
  <2>1. CASE InGit(G!Next)
    BY <2>1, SourceStep DEF InGit
  <2>2. CASE InGate(Next) \/ InHost(H!Next)
    BY <2>2 DEF InGate, InHost, gitVars
  <2>3. CASE UNCHANGED allVars
    BY <2>3 DEF allVars, gitVars, FetchInv, ResultInv
  <2> QED
    BY <2>1, <2>2, <2>3 DEF AllNext
<1>3. ResultInv => G!StacksAreTheCommits
  <2> SUFFICES ASSUME ResultInv, result # Failed
               PROVE  G!StacksAreTheCommits
    BY DEF G!StacksAreTheCommits
  <2> DEFINE tree == Content[result.commit]
  <2>1. result.files = G!StackFiles(tree) /\ G!StackFiles(tree) # Failed
    BY DEF ResultInv
  <2>2. \A p \in G!StackPaths(tree) :
          Cardinality({f \in result.files : f.name = tree[p].base}) = 1
    BY <2>1, OneFilePerStack
  <2>3. \A f \in result.files : f.path \in DOMAIN tree /\ f.doc = tree[f.path].doc
    BY <2>1 DEF G!StackFiles, G!StackPaths
  <2> QED
    BY <2>2, <2>3 DEF G!StacksAreTheCommits, G!StackPaths, G!Extensions,
                      G!Cardinality, Cardinality
<1>p. ResultInv => G!PayloadsAreTheCommits
  BY PayloadsFollow
<1>4. ResultInv' => G!StacksAreTheCommits' /\ G!PayloadsAreTheCommits'
  BY <1>3, <1>p, PTL
<1>5. Inv /\ [AllNext]_allVars
        => [part = "git" => /\ G!FreshReturn
                            /\ G!StacksAreTheCommits' /\ G!PayloadsAreTheCommits']_gitVars
  <2>1. [AllNext]_allVars => part' = part
    BY DEF AllNext, InGit, InGate, InHost, allVars
  <2> QED
    BY <1>2, <1>4, <2>1
<1> QED
  BY <1>1, <1>2, <1>5, PTL DEF AllSpec, FetchIsTrue

-----------------------------------------------------------------------------
(* Paths of the host. *)

Plain == Names \ {Up}

LEMMA PrefixType ==
  ASSUME NEW S, NEW q \in Seq(S), NEW n \in 0 .. Len(q)
  PROVE  /\ SubSeq(q, 1, n) \in Seq(S) /\ Len(SubSeq(q, 1, n)) = n
         /\ \A m \in 0 .. n : SubSeq(SubSeq(q, 1, n), 1, m) = SubSeq(q, 1, m)
<1>1. SubSeq(q, 1, n) \in Seq(S) /\ Len(SubSeq(q, 1, n)) = n
  OBVIOUS
<1>2. ASSUME NEW m \in 0 .. n PROVE SubSeq(SubSeq(q, 1, n), 1, m) = SubSeq(q, 1, m)
  OBVIOUS
<1> QED
  BY <1>1, <1>2

LEMMA FrontType ==
  ASSUME NEW S, NEW q \in Seq(S), q # <<>>
  PROVE  /\ H!Front(q) \in Seq(S) /\ Len(H!Front(q)) = Len(q) - 1
         /\ \A m \in 0 .. Len(q) - 1 : SubSeq(H!Front(q), 1, m) = SubSeq(q, 1, m)
<1>0. Len(q) \in Nat \ {0}
  OBVIOUS
<1> DEFINE n == Len(q) - 1
<1>1. n \in 0 .. Len(q) /\ n = Len(q) - 1
  BY <1>0
<1> HIDE DEF n
<1>2. H!Front(q) = SubSeq(q, 1, n)
  BY <1>1 DEF H!Front
<1> QED
  BY <1>1, <1>2, PrefixType

LEMMA EnterType ==
  ASSUME NEW q \in Seq(Plain), NEW nm \in Names
  PROVE  H!Enter(q, nm) \in Seq(Plain)
  BY FrontType DEF H!Enter, Plain

\* Walked takes one name after the other, and .. is in none of its paths.
LEMMA WalkedSteps ==
  ASSUME NEW p \in Seq(Names)
  PROVE  /\ H!Walked(p) \in [0 .. Len(p) -> Seq(Plain)]
         /\ H!Walked(p)[0] = <<>>
         /\ \A t \in 1 .. Len(p) : H!Walked(p)[t] = H!Enter(H!Walked(p)[t-1], p[t])
<1> DEFINE n == Len(p)
           step == [t \in 1 .. n |-> [q \in Seq(Plain) |-> H!Enter(q, p[t])]]
           F(at) == [t \in 0 .. n |-> IF t = 0 THEN <<>> ELSE H!Enter(at[t-1], p[t])]
           w == H!Walked(p)
<1>0. n \in Nat /\ <<>> \in Seq(Plain) /\ \A t \in 1 .. n : p[t] \in Names
  OBVIOUS
<1>1. step \in [1 .. n -> [Seq(Plain) -> Seq(Plain)]]
  BY <1>0, EnterType
<1>2. PICK g : Steps(Seq(Plain), <<>>, n, step, g)
  <2> HIDE DEF step, n
  <2> QED
    BY <1>0, <1>1, Recursion, Zenon
<1>3. g = F(g)
  <2>1. ASSUME NEW t \in 1 .. n PROVE g[t] = H!Enter(g[t-1], p[t])
    <3>1. t - 1 \in 0 .. n
      <4> HIDE DEF n
      <4> QED
        BY <1>0
    <3>2. step[t][g[t-1]] = H!Enter(g[t-1], p[t])
      BY <1>2, <3>1 DEF Steps
    <3> QED
      BY <1>2, <3>2 DEF Steps
  <2> QED
    BY <1>2, <2>1 DEF Steps
<1>4. w = CHOOSE at : at = F(at)
  BY DEF H!Walked
<1>5. w = F(w)
  BY <1>3, <1>4
<1> HIDE DEF w, n
<1>6. w[0] = <<>> /\ \A t \in 1 .. n : w[t] = H!Enter(w[t-1], p[t])
  BY <1>0, <1>5
<1>7. \A t \in 0 .. n : w[t] \in Seq(Plain)
  <2> DEFINE Typed == {t \in 0 .. n : w[t] \in Seq(Plain)}
  <2>1. 0 \in Typed
    <3>1. w[0] \in Seq(Plain)
      BY <1>0, <1>6
    <3> QED
      BY <1>0, <3>1
  <2>2. ASSUME NEW t \in 1 .. n, t - 1 \in Typed PROVE t \in Typed
    <3>1. w[t-1] \in Seq(Plain) /\ p[t] \in Names
      BY <1>0, <2>2
    <3>2. w[t] = H!Enter(w[t-1], p[t])
      BY <1>6
    <3>3. w[t] \in Seq(Plain)
      BY <3>1, <3>2, EnterType
    <3> QED
      BY <1>0, <3>3
  <2> HIDE DEF Typed
  <2>3. \A t \in 0 .. n : t \in Typed
    BY <1>0, <2>1, <2>2, IntervalInduction
  <2> QED
    BY <2>3 DEF Typed
<1>8. w \in [0 .. n -> Seq(Plain)]
  BY <1>5, <1>7
<1> QED
  BY <1>6, <1>8 DEF w, n

\* On the way to a path it has been to all that is above.
LEMMA WalkedAncestors ==
  ASSUME NEW p \in Seq(Names)
  PROVE  \A t \in 0 .. Len(p) : \A m \in 0 .. Len(H!Walked(p)[t]) :
           \E j \in 0 .. t : H!Walked(p)[j] = SubSeq(H!Walked(p)[t], 1, m)
<1> DEFINE n == Len(p)
           w == H!Walked(p)
           Been(t) == \A m \in 0 .. Len(w[t]) : \E j \in 0 .. t : w[j] = SubSeq(w[t], 1, m)
           S == {t \in 0 .. n : Been(t)}
<1>1. /\ w \in [0 .. n -> Seq(Plain)] /\ w[0] = <<>>
      /\ \A t \in 1 .. n : w[t] = H!Enter(w[t-1], p[t])
  BY WalkedSteps
<1>2. n \in Nat
  OBVIOUS
<1> HIDE DEF w, n
<1>3. 0 \in S
  BY <1>1, <1>2
<1>4. ASSUME NEW t \in 1 .. n, t - 1 \in S PROVE t \in S
  <2> DEFINE q == w[t-1]
             nm == p[t]
  <2>1. q \in Seq(Plain) /\ t - 1 \in 0 .. n /\ t \in 0 .. n
    BY <1>1, <1>2
  <2>2. w[t] = H!Enter(q, nm)
    BY <1>1
  <2>3. ASSUME NEW m \in 0 .. Len(q) PROVE \E j \in 0 .. t : w[j] = SubSeq(q, 1, m)
    BY <1>2, <1>4, <2>1
  <2> HIDE DEF q, nm
  <2>4. CASE nm = Up /\ q # <<>>
    <3>1. w[t] = H!Front(q)
      BY <2>2, <2>4 DEF H!Enter
    <3>2. Len(H!Front(q)) = Len(q) - 1 /\ Len(q) \in Nat
      BY <2>1, <2>4, FrontType
    <3>3. \A m \in 0 .. Len(q) - 1 : SubSeq(H!Front(q), 1, m) = SubSeq(q, 1, m)
      BY <2>1, <2>4, FrontType
    <3>4. ASSUME NEW m \in 0 .. Len(w[t])
          PROVE  \E j \in 0 .. t : w[j] = SubSeq(w[t], 1, m)
      <4>1. m \in 0 .. Len(q) - 1 /\ m \in 0 .. Len(q)
        BY <3>1, <3>2
      <4> QED
        BY <2>3, <3>1, <3>3, <4>1
    <3> QED
      BY <2>1, <3>4
  <2>5. CASE nm = Up /\ q = <<>>
    BY <2>1, <2>2, <2>3, <2>5 DEF H!Enter
  <2>6. CASE nm # Up
    <3>1. w[t] = Append(q, nm)
      BY <2>2, <2>6 DEF H!Enter
    <3>2. w[t] \in Seq(Plain) /\ Len(w[t]) = Len(q) + 1
      BY <1>1, <2>1, <3>1
    <3>3. ASSUME NEW m \in 0 .. Len(w[t])
          PROVE  \E j \in 0 .. t : w[j] = SubSeq(w[t], 1, m)
      <4>1. CASE m = Len(w[t])
        BY <3>2, <4>1
      <4>2. CASE m \in 0 .. Len(q)
        <5>1. SubSeq(w[t], 1, m) = SubSeq(q, 1, m)
          BY <2>1, <3>1, <4>2
        <5> QED
          BY <2>3, <4>2, <5>1
      <4> QED
        BY <2>1, <3>2, <4>1, <4>2
    <3> QED
      BY <2>1, <3>3
  <2> QED
    BY <2>4, <2>5, <2>6
<1>5. \A t \in 0 .. n : t \in S
  <2> HIDE DEF S
  <2> QED
    BY <1>2, <1>3, <1>4, IntervalInduction
<1> QED
  BY <1>5 DEF n, w
\* Follow replaces a link by a path.
LEMMA FollowType ==
  ASSUME NEW f \in FileSystems, NEW p \in Seq(Names)
  PROVE  H!Follow(f, p) \in Seq(Names)
<1> DEFINE FirstLink(t) == /\ \A j \in 1 .. t - 1 : ~H!Stops(f, p, j)
                           /\ H!Exists(f, H!Walked(p)[t])
                           /\ H!Kind(f, H!Walked(p)[t]) = "link"
<1>1. CASE ~\E t \in 1 .. Len(p) : FirstLink(t)
  BY <1>1 DEF H!Follow
<1>2. CASE \E t \in 1 .. Len(p) : FirstLink(t)
  <2> DEFINE t == CHOOSE t \in 1 .. Len(p) : FirstLink(t)
             here == H!Walked(p)[t]
  <2>1. t \in 1 .. Len(p) /\ FirstLink(t)
    BY <1>2
  <2>2. H!Follow(f, p) = f[here].to \o SubSeq(p, t + 1, Len(p))
    BY <1>2 DEF H!Follow
  <2> HIDE DEF t
  <2>3. here \in DOMAIN f /\ f[here].kind = "link"
    BY <2>1 DEF H!Exists, H!Kind
  <2> HIDE DEF here
  <2>4. f[here].to \in Seq(Names)
    BY <2>3, HostAssumption
  <2>5. SubSeq(p, t + 1, Len(p)) \in Seq(Names)
    BY <2>1
  <2> QED
    BY <2>2, <2>4, <2>5
<1> QED
  BY <1>1, <1>2

LEMMA FollowedType ==
  ASSUME NEW f \in FileSystems, NEW p \in Seq(Names)
  PROVE  H!Followed(f, p)[MaxLinks] \in Seq(Names)
<1> DEFINE T == Seq(Names)
           step == [t \in 1 .. MaxLinks |-> [q \in T |-> H!Follow(f, q)]]
           F(turn) == [n \in 0 .. MaxLinks |->
                         IF n = 0 THEN p ELSE H!Follow(f, turn[n-1])]
           w == H!Followed(f, p)
<1>0. MaxLinks \in Nat /\ p \in T
  BY HostAssumption
<1>1. step \in [1 .. MaxLinks -> [T -> T]]
  BY FollowType
<1>2. PICK g : Steps(T, p, MaxLinks, step, g)
  <2> HIDE DEF step, T
  <2> QED
    BY <1>0, <1>1, Recursion, Zenon
<1>3. g = F(g)
  <2>1. ASSUME NEW n \in 1 .. MaxLinks PROVE g[n] = H!Follow(f, g[n-1])
    <3>1. n - 1 \in 0 .. MaxLinks
      BY <1>0
    <3>2. step[n][g[n-1]] = H!Follow(f, g[n-1])
      BY <1>2, <3>1 DEF Steps
    <3> QED
      BY <1>2, <3>2 DEF Steps
  <2> QED
    BY <1>2, <2>1 DEF Steps
<1>4. w = CHOOSE turn : turn = F(turn)
  BY DEF H!Followed
<1>5. w = F(w)
  BY <1>3, <1>4
<1> HIDE DEF w
<1> DEFINE Typed == {n \in 0 .. MaxLinks : w[n] \in T}
<1>6. 0 \in Typed
  BY <1>0, <1>5
<1>7. ASSUME NEW n \in 1 .. MaxLinks, n - 1 \in Typed PROVE n \in Typed
  <2>1. w[n] = H!Follow(f, w[n-1]) /\ w[n-1] \in T
    BY <1>5, <1>7
  <2>2. w[n] \in T
    BY <2>1, FollowType
  <2> QED
    BY <1>0, <2>2
<1>8. \A n \in 0 .. MaxLinks : n \in Typed
  <2> HIDE DEF Typed
  <2> QED
    BY <1>0, <1>6, <1>7, IntervalInduction
<1>9. w[MaxLinks] \in T
  BY <1>0, <1>8
<1> QED
  BY <1>9 DEF w

\* What EvalSymlinks answers is there, and has neither .. nor a link on it.
LEMMA ResolvedIsPlain ==
  ASSUME NEW f \in FileSystems, NEW p \in Seq(Names),
         H!EvalSymlinks(f, p) # Refused
  PROVE  /\ H!EvalSymlinks(f, p) \in Seq(Plain)
         /\ H!NoLinks(f, H!EvalSymlinks(f, p))
<1> DEFINE q == H!Followed(f, p)[MaxLinks]
           w == H!Walked(q)
           real == H!EvalSymlinks(f, p)
<1>1. q \in Seq(Names)
  BY FollowedType
<1>2. real = w[Len(q)] /\ \A t \in 1 .. Len(q) : ~H!Stops(f, q, t)
  BY DEF H!EvalSymlinks, H!Clean
<1> HIDE DEF q, real
<1>3. Len(q) \in Nat /\ w \in [0 .. Len(q) -> Seq(Plain)] /\ w[0] = <<>>
  BY <1>1, WalkedSteps
<1>4. real \in Seq(Plain)
  BY <1>2, <1>3
<1>5. ASSUME NEW m \in 0 .. Len(real)
      PROVE  /\ H!Exists(f, SubSeq(real, 1, m))
             /\ H!Kind(f, SubSeq(real, 1, m)) # "link"
  <2>1. PICK j \in 0 .. Len(q) : w[j] = SubSeq(real, 1, m)
    <3>1. \A t \in 0 .. Len(q) : \A l \in 0 .. Len(w[t]) :
            \E j \in 0 .. t : w[j] = SubSeq(w[t], 1, l)
      BY <1>1, WalkedAncestors
    <3>2. Len(q) \in 0 .. Len(q)
      BY <1>3
    <3> QED
      BY <1>2, <3>1, <3>2
  <2>2. CASE j = 0
    BY <2>1, <2>2, <1>3 DEF H!Exists, H!Kind
  <2>3. CASE j \in 1 .. Len(q)
    BY <2>1, <2>3, <1>2 DEF H!Stops
  <2> QED
    BY <1>3, <2>2, <2>3
<1>6. H!NoLinks(f, real)
  BY <1>5 DEF H!NoLinks, H!Ancestors
<1> QED
  BY <1>4, <1>6 DEF real

\* A non-empty set of numbers up to n has a largest one.
LEMMA Largest ==
  ASSUME NEW n \in Nat, NEW A \in SUBSET (0 .. n), A # {}
  PROVE  \E m \in A : \A j \in A : j <= m
<1> DEFINE S == {t \in 0 .. n : (\E j \in A : j <= t) =>
                                 \E m \in A : m <= t /\ \A j \in A : j <= t => j <= m}
<1>1. 0 \in S
  OBVIOUS
<1>2. ASSUME NEW t \in 1 .. n, t - 1 \in S PROVE t \in S
  <2>1. CASE t \in A
    BY <2>1
  <2>2. CASE t \notin A
    <3>1. \A j \in A : j <= t => j <= t - 1
      BY <2>2
    <3> QED
      BY <1>2, <3>1
  <2> QED
    BY <2>1, <2>2
<1>3. \A t \in 0 .. n : t \in S
  <2> HIDE DEF S
  <2> QED
    BY <1>1, <1>2, IntervalInduction
<1>4. n \in S /\ \A j \in A : j <= n
  BY <1>3
<1> QED
  BY <1>4

\* For two paths without .. in them, Rel says inside when the one is above the
\* other.
LEMMA InsideIsBelow ==
  ASSUME NEW a \in Seq(Plain), NEW b \in Seq(Plain)
  PROVE  H!Inside(a, b) <=> a \in H!Ancestors(b)
<1> DEFINE C == H!CommonPrefixes({a, b})
           c == H!LongestCommonPrefix({a, b})
           r == H!Rel(a, b)
<1>0. Len(a) \in Nat /\ Len(b) \in Nat
  OBVIOUS
<1> DEFINE Common == {m \in 0 .. Len(a) : m <= Len(b) /\ SubSeq(a, 1, m) = SubSeq(b, 1, m)}
<1>1. C = {SubSeq(a, 1, m) : m \in Common}
  <2>1. ASSUME NEW m \in Common PROVE SubSeq(a, 1, m) \in C
    <3> DEFINE x == SubSeq(a, 1, m)
    <3>1. Len(x) = m /\ SubSeq(x, 1, m) = x /\ x = SubSeq(b, 1, m)
      BY <1>0, PrefixType
    <3>2. H!IsPrefix(x, a) /\ H!IsPrefix(x, b)
      BY <1>0, <3>1 DEF H!IsPrefix
    <3>3. x \in H!Prefixes(a)
      BY DEF H!Prefixes
    <3> HIDE DEF x
    <3> QED
      BY <3>2, <3>3 DEF H!CommonPrefixes, x
  <2>2. ASSUME NEW x \in C PROVE \E m \in Common : x = SubSeq(a, 1, m)
    <3>1. H!IsPrefix(x, a) /\ H!IsPrefix(x, b) /\ x \in H!Prefixes(a) \cup H!Prefixes(b)
      BY DEF H!CommonPrefixes
    <3>2. x \in Seq(Plain) /\ SubSeq(x, 1, Len(x)) = x
      <4>1. PICK s \in {a, b} : \E m \in 0 .. Len(s) : x = SubSeq(s, 1, m)
        BY <3>1 DEF H!Prefixes
      <4> QED
        BY <1>0, <4>1, PrefixType
    <3>3. Len(x) \in Nat
      BY <3>2
    <3>4. /\ Len(x) <= Len(a) /\ x = SubSeq(a, 1, Len(x))
          /\ Len(x) <= Len(b) /\ x = SubSeq(b, 1, Len(x))
      BY <3>1, <3>2 DEF H!IsPrefix
    <3>5. Len(x) \in Common
      BY <1>0, <3>3, <3>4
    <3> QED
      BY <3>4, <3>5
  <2> QED
    BY <2>1, <2>2
<1>2. PICK n \in Common : \A m \in Common : m <= n
  <2>1. SubSeq(a, 1, 0) = SubSeq(b, 1, 0)
    BY <1>0, SubSeqEmpty
  <2>2. 0 \in Common
    BY <1>0, <2>1
  <2>3. Common \in SUBSET (0 .. Len(a))
    OBVIOUS
  <2> HIDE DEF Common
  <2> QED
    BY <1>0, <2>2, <2>3, Largest
<1>3. c = SubSeq(a, 1, n) /\ Len(c) = n
  <2>1. \A m \in Common : Len(SubSeq(a, 1, m)) = m
    BY PrefixType
  <2> DEFINE Best(x) == \A y \in C : Len(y) <= Len(x)
  <2>2. SubSeq(a, 1, n) \in C /\ Best(SubSeq(a, 1, n))
    BY <1>1, <1>2, <2>1
  <2>3. c = CHOOSE x \in C : Best(x)
    BY DEF H!LongestCommonPrefix
  <2> HIDE DEF C
  <2>4. c \in C /\ Best(c)
    BY <2>2, <2>3
  <2> HIDE DEF c
  <2>5. PICK m \in Common : c = SubSeq(a, 1, m)
    BY <1>1, <2>4
  <2>6. m = n
    <3>1. n <= m
      BY <1>2, <2>1, <2>2, <2>4, <2>5
    <3> QED
      BY <1>0, <1>2, <2>5, <3>1
  <2> QED
    BY <2>1, <2>5, <2>6
<1>4. r = [j \in 1 .. Len(a) - n |-> Up] \o SubSeq(b, n + 1, Len(b))
  BY <1>3 DEF H!Rel
<1>n. n \in 0 .. Len(a) /\ n <= Len(b) /\ SubSeq(a, 1, n) = SubSeq(b, 1, n)
  BY <1>2
<1> HIDE DEF C, c, r
<1>f. SubSeq(a, 1, Len(a)) = a
  BY SubSeqFull
<1>5. CASE n = Len(a)
  <2>1. a \in H!Ancestors(b)
    <3>1. n \in 0 .. Len(b) /\ a = SubSeq(b, 1, n)
      BY <1>0, <1>n, <1>f, <1>5
    <3> QED
      BY <3>1 DEF H!Ancestors
  <2>2. r = SubSeq(b, n + 1, Len(b))
    BY <1>0, <1>n, <1>4, <1>5
  <2>3. r = <<>> \/ Head(r) \in Plain
    BY <1>0, <1>n, <2>2
  <2> QED
    BY <2>1, <2>3 DEF H!Inside, Plain, r
<1>6. CASE n # Len(a)
  <2> DEFINE u == [j \in 1 .. Len(a) - n |-> Up]
             v == SubSeq(b, n + 1, Len(b))
  <2>1. u \in Seq({Up}) /\ Len(u) >= 1 /\ u[1] = Up /\ Len(u) \in Nat
    BY <1>0, <1>n, <1>6
  <2>2. v \in Seq(Plain)
    BY <1>0, <1>n
  <2>3. r = u \o v
    BY <1>4
  <2> HIDE DEF u, v
  <2>4. r # <<>> /\ Head(r) = Up
    <3>1. u \in Seq(Names \cup {Up}) /\ v \in Seq(Names \cup {Up})
      BY <2>1, <2>2 DEF Plain
    <3> QED
      BY <2>1, <2>3, <3>1
  <2>5. a \notin H!Ancestors(b)
    <3> SUFFICES ASSUME NEW m \in 0 .. Len(b), a = SubSeq(b, 1, m) PROVE FALSE
      BY DEF H!Ancestors
    <3>1. Len(a) = m
      BY PrefixType
    <3>2. m \in Common
      BY <1>0, <1>f, <3>1
    <3> QED
      BY <1>0, <1>2, <1>n, <1>6, <3>1, <3>2
  <2> QED
    BY <2>4, <2>5 DEF H!Inside, r
<1> QED
  BY <1>5, <1>6

\* Clean leaves a path.
LEMMA CleanType ==
  ASSUME NEW p \in Seq(Names)
  PROVE  H!Clean(p) \in Seq(Names)
<1>1. Len(p) \in 0 .. Len(p)
  OBVIOUS
<1>2. H!Clean(p) \in Seq(Plain)
  BY <1>1, WalkedSteps DEF H!Clean
<1> QED
  BY <1>2 DEF Plain

\* What is remembered of a parse is what it makes of the host as it is.
HostInv ==
    /\ fs \in FileSystems /\ config \in Settings /\ entry \in Entries
    /\ parsed => /\ bound = H!Bind(fs, entry.source, entry.ro)
                 /\ env = H!EnvFile(fs, entry.env)

LEMMA HostStep ==
  ASSUME HostInv, H!Next
  PROVE  HostInv'
<1>1. CASE H!Parse
  BY <1>1 DEF H!Parse, HostInv, H!Bind, H!EnvFile, H!ExactFails, H!ExactAllows,
              H!RootAllows
<1>2. CASE H!Administer
  BY <1>2 DEF H!Administer, HostInv
<1> QED
  BY <1>1, <1>2 DEF H!Next

LEMMA Contained ==
  ASSUME HostInv
  PROVE  H!MountsContained /\ H!EnvContained /\ H!AllowedIsMounted
<1> DEFINE real == H!EvalSymlinks(fs, entry.source)
           roots == config.roots
           exact == config.exact
<1>0. /\ fs \in FileSystems /\ config \in Settings /\ entry \in Entries
      /\ entry.source \in Seq(Names) /\ entry.env.path \in Seq(Names)
      /\ roots \in Seq(Seq(Names))
      /\ config.envRoot # NoRoot => config.envRoot \in Seq(Names)
  BY HostAssumption DEF HostInv
<1>r. ASSUME NEW m \in DOMAIN roots PROVE roots[m] \in Seq(Names)
  BY <1>0
<1>1. H!MountsContained
  <2> SUFFICES ASSUME parsed, bound # Refused
               PROVE  /\ H!NoLinks(fs, bound)
                      /\ \/ \E m \in DOMAIN roots :
                              LET r == H!EvalSymlinks(fs, roots[m])
                              IN  r \notin {Refused, <<>>} /\ H!AtOrBelow(r, bound)
                         \/ \E m \in DOMAIN exact :
                              H!MatchesExact(fs, bound, entry.ro, exact[m])
    BY DEF H!MountsContained
  <2>1. /\ bound = real /\ real # Refused
        /\ H!ExactAllows(fs, real, entry.ro) \/ H!RootAllows(fs, real)
    BY DEF HostInv, H!Bind, H!Mounted
  <2>2. real \in Seq(Plain) /\ H!NoLinks(fs, real)
    BY <1>0, <2>1, ResolvedIsPlain
  <2> HIDE DEF real
  <2>3. CASE H!ExactAllows(fs, real, entry.ro)
    BY <2>1, <2>2, <2>3 DEF H!ExactAllows
  <2>4. CASE H!RootAllows(fs, real)
    <3>1. PICK m \in DOMAIN roots : /\ H!Inside(H!EvalSymlinks(fs, roots[m]), real)
                                    /\ H!UsableRoot(fs, roots[m])
      <4>1. \A m \in DOMAIN roots : m \in 1 .. m
        BY <1>0
      <4> QED
        BY <2>4, <4>1 DEF H!RootAllows
    <3> DEFINE r == H!EvalSymlinks(fs, roots[m])
    <3>2. r \notin {Refused, <<>>} /\ H!Kind(fs, r) = "dir"
      BY <3>1 DEF H!UsableRoot
    <3>3. r \in Seq(Plain)
      BY <1>0, <1>r, <3>2, ResolvedIsPlain
    <3>4. r \in H!Ancestors(real)
      BY <2>2, <3>1, <3>3, InsideIsBelow
    <3> QED
      BY <2>1, <2>2, <3>2, <3>4 DEF H!AtOrBelow
  <2> QED
    BY <2>1, <2>3, <2>4
<1>2. H!EnvContained
  <2> SUFFICES ASSUME parsed, env # Refused
               PROVE  /\ config.envRoot # NoRoot /\ H!NoLinks(fs, env)
                      /\ H!Kind(fs, env) = "file"
                      /\ H!AtOrBelow(H!EvalSymlinks(fs, H!Clean(config.envRoot)), env)
    BY DEF H!EnvContained
  <2> DEFINE e == entry.env
             written == IF e.abs THEN e.path ELSE config.envRoot \o e.path
             root == H!EvalSymlinks(fs, H!Clean(config.envRoot))
             file == H!EvalSymlinks(fs, H!Clean(written))
  <2>1. /\ config.envRoot # NoRoot /\ env = file /\ root # Refused /\ file # Refused
        /\ H!Kind(fs, root) = "dir" /\ H!Kind(fs, file) = "file"
        /\ H!Inside(root, file)
    BY DEF HostInv, H!EnvFile, H!WithinEnvRoot
  <2>2. written \in Seq(Names)
    BY <1>0, <2>1
  <2>3. root \in Seq(Plain)
    BY <1>0, <2>1, CleanType, ResolvedIsPlain
  <2>4. file \in Seq(Plain) /\ H!NoLinks(fs, file)
    BY <1>0, <2>1, <2>2, CleanType, ResolvedIsPlain
  <2> HIDE DEF root, file
  <2>5. root \in H!Ancestors(file)
    BY <2>1, <2>3, <2>4, InsideIsBelow
  <2> QED
    BY <2>1, <2>4, <2>5 DEF H!AtOrBelow, root
<1>3. H!AllowedIsMounted
  <2> SUFFICES ASSUME parsed, bound = Refused, real # Refused
               PROVE  /\ ~\E m \in DOMAIN exact :
                            /\ \A t \in 1 .. m : H!Resolves(fs, exact[t])
                            /\ H!MatchesExact(fs, real, entry.ro, exact[m])
                      /\ Len(roots) = 1 /\ exact = <<>> /\ H!UsableRoot(fs, roots[1])
                           => H!EvalSymlinks(fs, roots[1]) \notin H!Ancestors(real)
    BY DEF H!AllowedIsMounted
  <2>1. ~(/\ roots # <<>> \/ exact # <<>>
          /\ ~H!ExactFails(fs, real, entry.ro)
          /\ H!ExactAllows(fs, real, entry.ro) \/ H!RootAllows(fs, real))
    BY DEF HostInv, H!Bind, H!Mounted
  <2>2. ASSUME NEW m \in DOMAIN exact, \A t \in 1 .. m : H!Resolves(fs, exact[t]),
               H!MatchesExact(fs, real, entry.ro, exact[m])
        PROVE  FALSE
    <3>1. DOMAIN exact \subseteq Int /\ exact # <<>>
      BY <1>0, HostAssumption
    <3>2. H!ExactAllows(fs, real, entry.ro)
      BY <2>2, <3>1 DEF H!ExactAllows
    <3> QED
      BY <2>1, <3>1, <3>2 DEF H!ExactFails
  <2>3. ASSUME Len(roots) = 1, exact = <<>>, H!UsableRoot(fs, roots[1]),
               H!EvalSymlinks(fs, roots[1]) \in H!Ancestors(real)
        PROVE  FALSE
    <3> DEFINE r == H!EvalSymlinks(fs, roots[1])
    <3>1. 1 \in DOMAIN roots /\ roots # <<>> /\ DOMAIN exact = {}
      BY <1>0, <2>3
    <3>2. r \in Seq(Plain)
      BY <1>0, <1>r, <2>3, <3>1, ResolvedIsPlain DEF H!UsableRoot
    <3>3. real \in Seq(Plain)
      BY <1>0, ResolvedIsPlain
    <3>4. H!Inside(r, real)
      BY <2>3, <3>2, <3>3, InsideIsBelow
    <3>5. H!RootAllows(fs, real)
      BY <2>3, <3>1, <3>4 DEF H!RootAllows
    <3> QED
      BY <2>1, <3>1, <3>5 DEF H!ExactFails
  <2> QED
    BY <2>2, <2>3
<1> QED
  BY <1>1, <1>2, <1>3

\* Binds and env files, the invariant PathsContained of the run, for every host,
\* configuration and stack file: through any chain of links and any spelling,
\* what is mounted or read is at or below a directory the configuration allows
\* and has no link on it when it is parsed, and what it allows is mounted.
THEOREM PathsStayContained == AllSpec => []PathsContained
<1> DEFINE Inv == part = "host" => HostInv
<1>1. AllInit => Inv
  BY DEF AllInit, H!Init, HostInv
<1>2. Inv /\ [AllNext]_allVars => Inv'
  <2> SUFFICES ASSUME Inv, [AllNext]_allVars PROVE Inv'
    OBVIOUS
  <2>1. CASE InHost(H!Next)
    BY <2>1, HostStep DEF InHost
  <2>2. CASE InGate(Next) \/ InGit(G!Next)
    BY <2>2 DEF InGate, InGit
  <2>3. CASE UNCHANGED allVars
    BY <2>3 DEF allVars, hostVars, HostInv, H!Bind, H!EnvFile, H!ExactFails,
                H!ExactAllows, H!RootAllows
  <2> QED
    BY <2>1, <2>2, <2>3 DEF AllNext
<1>3. Inv => PathsContained
  BY Contained DEF PathsContained
<1> QED
  BY <1>1, <1>2, <1>3, PTL DEF AllSpec
=============================================================================

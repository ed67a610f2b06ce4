------------------------------ MODULE CosignGate ------------------------------
(***************************************************************************)
(* The gate that verifies images with cosign (internal/gate cosign.go,     *)
(* policy.go): for every change it looks for a bundle that a static key of *)
(* the policy verifies, then for one of a keyless identity, which needs    *)
(* Sigstore's trusted root; stacks that require it need a provenance       *)
(* attestation of the trusted builder, too.  Each look is a call to a      *)
(* registry whose content grows meanwhile, registry and Sigstore go down   *)
(* and come back, and the fetch of the trusted root is raced against a     *)
(* timer.                                                                  *)
(***************************************************************************)
EXTENDS Naturals, Sequences

CONSTANTS
    Batch,       \* the images Verify is called with, in order
    Malformed,   \* those whose reference does not parse
    StackOf,     \* StackOf[img]: the stack label of the service
    Bundles,     \* what signers push: [key, issuer, subject, slsa, builder]
    Policies,    \* policy files an operator writes
    MaxPush,     \* bound on the bundles pushed
    MaxOutages,  \* bound on outages
    Nil          \* no key, no builder, a blank field

Images == {Batch[i] : i \in DOMAIN Batch}
Hosts == {"registry", "sigstore"}
Verdict == {"none", "pass", "unsigned", "unattested", "no root", "malformed"}

ASSUME GateAssumption ==
    /\ Batch \in Seq(Images) /\ Batch # <<>> /\ Malformed \subseteq Images
    /\ \A p \in Policies : p.keys \in Seq({p.keys[n] : n \in DOMAIN p.keys})
    /\ DOMAIN StackOf = Images
    /\ MaxPush \in Nat /\ MaxOutages \in Nat

VARIABLES
    policy,    \* the policy that was loaded
    pushed,    \* pushed[img]: the bundles in the registry
    pushes,    \* their number
    up,        \* the hosts that answer
    outages,   \* outages so far
    pc,        \* "idle", "key", "root", "fetch" or "bundle"
    phase,     \* "signature" or "attestation"
    i,         \* the change that is verified
    k,         \* the key that is tried
    trusted,   \* the cached trusted root: "none" or "good"
    stuck,     \* the fetch that is waited for will not answer in time
    verdicts,  \* the verdicts of the last or current call
    atStart,   \* history: what the registry held when the change's turn came
    downs      \* history: the hosts that were down at some time since

world == <<pushed, pushes, up, outages>>
place == <<pc, phase, i, k>>
vars == <<policy, world, place, trusted, stuck, verdicts, atStart,
          downs>>

-----------------------------------------------------------------------------
(* policy.go *)

\* A blank half of an identity would be no constraint at all.
IdentityOK(id) == id.issuer # Nil /\ id.subjects # Nil

RequireFor(p, stack) ==
    IF stack \in DOMAIN p.perStack THEN p.perStack[stack] ELSE p.require

\* LoadPolicy refuses every other file.
Loads(p) ==
    /\ p.keys # <<>> \/ p.identities # {}
    /\ p.require \/ (\E s \in DOMAIN p.perStack : p.perStack[s])
         => p.builder # Nil
    /\ \A id \in p.identities : IdentityOK(id)

\* cosign's match of a certificate against an identity.
Match(id, b) ==
    /\ b.key = Nil
    /\ id.issuer = Nil \/ b.issuer = id.issuer
    /\ id.subjects = Nil \/ b.subject \in id.subjects

ByKey(b, n) == b.key = policy.keys[n]
ByIdentity(b) == \E id \in policy.identities : Match(id, b)

\* matchesPredicateType and matchesBuilderID.
RightBuilder(b) == b.slsa /\ b.builder # Nil /\ b.builder = policy.builder

\* Any verified bundle is a signature; an attestation has to say more.
Counts(b) == phase = "attestation" => RightBuilder(b)

-----------------------------------------------------------------------------
(* Verify and verifyOne *)

Init ==
    /\ policy \in {p \in Policies : Loads(p)}
    /\ pushed = [img \in Images |-> {}] /\ pushes = 0
    /\ up = Hosts /\ outages = 0
    /\ pc = "idle" /\ phase = "signature" /\ i = 0 /\ k = 0
    /\ trusted = "none" /\ stuck = FALSE
    /\ verdicts = [img \in Images |-> "none"]
    /\ atStart = {} /\ downs = {}

Image == Batch[i]

\* A phase begins with the first static key, or without any with identities.
GotoPhase(ph) ==
    /\ phase' = ph /\ stuck' = FALSE
    /\ IF policy.keys = <<>> THEN pc' = "root" /\ k' = 0
                             ELSE pc' = "key" /\ k' = 1

\* verifyOne is called for the n-th change.
GotoImage(n) ==
    /\ i' = n /\ GotoPhase("signature")
    /\ atStart' = pushed[Batch[n]] /\ downs' = Hosts \ up

\* The verdict of this change is in, and it is the turn of the next.
Answer(v) ==
    /\ verdicts' = [verdicts EXCEPT ![Image] = v]
    /\ IF i < Len(Batch)
       THEN GotoImage(i + 1)
       ELSE /\ pc' = "idle"
            /\ UNCHANGED <<phase, i, k, stuck, atStart, downs>>

NeedsAttestation == RequireFor(policy, StackOf[Image])

\* The phase found a bundle that counts.
Found ==
    IF phase = "signature" /\ NeedsAttestation
    THEN /\ GotoPhase("attestation")
         /\ UNCHANGED <<i, atStart, downs, trusted, verdicts>>
    ELSE Answer("pass") /\ UNCHANGED trusted

\* Mutant: an unreachable trusted root counts as an attestation not found.
Missing_Always(noRoot) == "unattested"
Missing(noRoot) == IF noRoot THEN "no root" ELSE "unattested"

\* Neither keys nor identities gave one.  An unreachable trusted root is told
\* apart from an attestation that is not there.
NotFound(noRoot) ==
    Answer(IF phase = "signature" THEN "unsigned"
           ELSE Missing(noRoot))

Verify ==
    /\ pc = "idle"
    /\ verdicts' = [img \in Images |-> "none"]
    /\ GotoImage(1)
    /\ UNCHANGED <<policy, world, trusted>>

ParseFails ==
    /\ pc \in {"key", "root"} /\ Image \in Malformed
    /\ Answer("malformed")
    /\ UNCHANGED <<policy, world, trusted>>

Parses == i > 0 /\ Image \notin Malformed

\* Mutant: a registry that does not answer is taken for a signature.
KeyVerifies_FailOpen ==
    "registry" \notin up \/ \E b \in pushed[Image] : ByKey(b, k) /\ Counts(b)
\* verifyBundle with the verifier of one key; every error is a "no".
KeyVerifies ==
    "registry" \in up /\ \E b \in pushed[Image] : ByKey(b, k) /\ Counts(b)

\* Mutant: only the first key is tried.
MoreKeys_First == FALSE
MoreKeys == k < Len(policy.keys)

TryKey ==
    /\ pc = "key" /\ Parses
    /\ IF KeyVerifies
       THEN Found
       ELSE /\ IF MoreKeys THEN k' = k + 1 /\ pc' = "key"
                                       ELSE k' = k /\ pc' = "root"
            /\ UNCHANGED <<phase, i, trusted, stuck, verdicts,
                           atStart, downs>>
    /\ UNCHANGED <<policy, world>>

-----------------------------------------------------------------------------
(* Identities and the trusted root. *)

NoIdentities ==
    /\ pc = "root" /\ Parses /\ policy.identities = {}
    /\ NotFound(FALSE)
    /\ UNCHANGED <<policy, world, trusted>>

\* trustedRoot: cached, or a fetch in a goroutine of its own.
LoadRoot ==
    /\ pc = "root" /\ Parses /\ policy.identities # {}
    /\ IF trusted # "none" THEN pc' = "bundle" /\ UNCHANGED stuck
                    ELSE pc' = "fetch" /\ stuck' = ("sigstore" \notin up)
    /\ UNCHANGED <<policy, world, phase, i, k, trusted, verdicts,
                   atStart, downs>>

\* The fetch answers in time and is cached.
FetchAnswers ==
    /\ pc = "fetch" /\ ~stuck
    /\ trusted' = "good" /\ pc' = "bundle"
    /\ UNCHANGED <<policy, world, phase, i, k, stuck, verdicts, atStart, downs>>

\* Mutant: nothing bounds the fetch.
TimerFires_Never == FALSE
\* time.After(trustedRootTimeout), of use when the fetch does not answer.
TimerFires == stuck

\* Mutant: the outcome of the first fetch is cached, as with sync.Once.
AfterFailure_Cached == "broken"
\* Only a fetch that succeeded is durable.
AfterFailure == "none"

\* A fetch that fails or does not answer before the timer; a later answer goes
\* to a channel nobody reads.
FetchFails ==
    /\ pc = "fetch" /\ TimerFires
    /\ NotFound(TRUE) /\ trusted' = AfterFailure
    /\ UNCHANGED <<policy, world>>

BundleVerifies ==
    /\ "registry" \in up /\ trusted = "good"
    /\ \E b \in pushed[Image] : ByIdentity(b) /\ Counts(b)

TryIdentities ==
    /\ pc = "bundle"
    /\ IF BundleVerifies THEN Found ELSE NotFound(FALSE) /\ UNCHANGED trusted
    /\ UNCHANGED <<policy, world>>

-----------------------------------------------------------------------------
(* Signers and outages. *)

Push(img, b) ==
    /\ pushes < MaxPush /\ b \notin pushed[img]
    /\ pushes' = pushes + 1
    /\ pushed' = [pushed EXCEPT ![img] = @ \cup {b}]
    /\ UNCHANGED <<policy, up, outages, place, trusted, stuck,
                   verdicts, atStart, downs>>

\* A fetch that is under way may hang for good.
GoesDown(h) ==
    /\ h \in up /\ outages < MaxOutages
    /\ up' = up \ {h} /\ outages' = outages + 1
    /\ stuck' = (stuck \/ (h = "sigstore" /\ pc = "fetch"))
    /\ downs' = downs \cup {h}
    /\ UNCHANGED <<policy, pushed, pushes, place, trusted, verdicts, atStart>>

ComesBack(h) ==
    /\ h \in Hosts \ up
    /\ up' = up \cup {h}
    /\ UNCHANGED <<policy, pushed, pushes, outages, place, trusted,
                   stuck, verdicts, atStart, downs>>

Step == \/ ParseFails \/ TryKey \/ NoIdentities \/ LoadRoot \/ FetchAnswers
        \/ FetchFails \/ TryIdentities

Next ==
    \/ Verify \/ Step
    \/ \E img \in Images \ Malformed, b \in Bundles : Push(img, b)
    \/ \E h \in Hosts : GoesDown(h) \/ ComesBack(h)

Spec == Init /\ [][Next]_vars

\* The gate runs and its timer fires; nothing is assumed of the hosts, except
\* that a fetch which is not stuck answers.
FairSpec == Spec /\ WF_vars(Step)

-----------------------------------------------------------------------------
(* Properties. *)

TypeOK ==
    /\ policy \in Policies /\ up \subseteq Hosts
    /\ pushed \in [Images -> SUBSET Bundles]
    /\ pushes \in 0 .. MaxPush /\ outages \in 0 .. MaxOutages
    /\ pc \in {"idle", "key", "root", "fetch", "bundle"}
    /\ phase \in {"signature", "attestation"}
    /\ i \in 0 .. Len(Batch) /\ k \in 0 .. Len(policy.keys)
    /\ trusted \in {"none", "good"} /\ stuck \in BOOLEAN
    /\ downs \subseteq Hosts /\ atStart \subseteq Bundles
    /\ verdicts \in [Images -> Verdict]
    \* A trusted root is only ever asked for on behalf of an identity.
    /\ pc \in {"fetch", "bundle"} \/ trusted = "good" => policy.identities # {}

\* The bundles a reader of the policy takes for the operator's own: signed with
\* a listed key, or by an identity of which both halves are named.
Trusted(b) ==
    \/ \E n \in DOMAIN policy.keys : b.key = policy.keys[n]
    \/ \E id \in policy.identities :
         b.key = Nil /\ b.issuer = id.issuer /\ b.subject \in id.subjects

\* Attested by the builder the policy trusts, with a signature it trusts.
Attested(bs) == \E b \in bs : /\ Trusted(b) /\ b.slsa
                              /\ b.builder = policy.builder /\ b.builder # Nil

Acceptable(img, bs) ==
    /\ img \notin Malformed
    /\ \E b \in bs : Trusted(b)
    /\ RequireFor(policy, StackOf[img]) => Attested(bs)

\* Fail closed: whatever is down, times out or is pushed half-way through, an
\* image passes only if the registry holds all that the policy asks for.
PassIsEarned ==
    \A img \in Images : verdicts[img] = "pass" => Acceptable(img, pushed[img])

\* No false reject: an image that had all of it when its turn came, with no
\* host down since, passes, after whatever outage and whatever its place.
GoodImagePasses ==
    [][\A img \in Images :
         /\ verdicts[img] = "none" /\ verdicts'[img] \notin {"none", "pass"}
         /\ downs = {} /\ Acceptable(img, atStart)
         => FALSE]_vars

\* "attestation required" is not said of an image that carries one whenever the
\* reason is Sigstore's trusted root: what the doc of hasValidAttestation
\* promises the operator.
MissingMeansMissing ==
    [][\A img \in Images :
         /\ verdicts[img] = "none" /\ verdicts'[img] = "unattested"
         /\ Attested(atStart)
         => "registry" \in downs]_vars

\* A failed fetch is not the end of keyless verification: once outages end and
\* the loop verifies again, an image that has what the policy asks for passes.
OutageHeals ==
    <>[](up = Hosts) /\ []<>(pc # "idle") =>
        \A img \in Images :
            Acceptable(img, pushed[img]) ~> verdicts[img] = "pass"
=============================================================================

------------------------- MODULE Computations_proofs -------------------------
(***************************************************************************)
(* Proofs about what is computed from a commit and the cluster: the fields *)
(* of a service, the parse of the stacks, the two forms of a service, and  *)
(* the plan with its verdicts.                                             *)
(***************************************************************************)
EXTENDS Computations, SequenceTheorems, TLAPS

-------------------------------------------------------------------------------
(* The fields of a service. *)

\* The allowlist and the conversion have the same keys wherever the allowlist
\* looks.
LEMMA TablesAgree ==
  ASSUME NEW f \in F!Compose, f[1] \in F!CheckedParents
  PROVE  f[2] \in F!Allowed(f[1]) <=> f \in F!Converted
<1> PICK p, k : f = <<p, k>>
  <2>1. \A x, y, C : f \in {x, y} \X C => f = <<f[1], f[2]>>
    OBVIOUS
  <2>2. \A x, C : f \in {x} \X C => f = <<f[1], f[2]>>
    OBVIOUS
  <2> SUFFICES f = <<f[1], f[2]>>
    OBVIOUS
  <2> QED
    BY <2>1, <2>2, Zenon DEF F!Compose
<1>1. p \in {"service", "deploy", "healthcheck", "ports", "configs", "secrets"}
  BY DEF F!CheckedParents
<1>2. CASE p = "service"
  BY <1>2 DEF F!Allowed, F!Converted
<1>3. CASE p = "deploy"
  BY <1>3 DEF F!Allowed, F!Converted
<1>4. CASE p = "healthcheck"
  BY <1>4 DEF F!Allowed, F!Converted
<1>5. CASE p = "ports"
  BY <1>5, ZenonT(60) DEF F!Allowed, F!Converted
<1>6. CASE p = "configs"
  BY <1>6 DEF F!Allowed, F!Converted
<1>7. CASE p = "secrets"
  BY <1>7 DEF F!Allowed, F!Converted
<1> QED
  BY <1>1, <1>2, <1>3, <1>4, <1>5, <1>6, <1>7

\* What has been decided of the service, and on what grounds.
Passes == \A f \in used : f[1] \in F!CheckedParents => f[2] \in F!Allowed(f[1])
Fits ==
    /\ F!Mandatory
    /\ ~F!Exceeds(F!Replicas, MaxReplicas) /\ ~F!Exceeds(entries, MaxEntries[kind])
FieldsInv ==
    /\ used \subseteq F!Compose
    /\ replicas \in ReplicaValues /\ memory \in MemoryValues
    /\ kind \in F!ListKinds /\ entries \in Nat
    /\ phase \in {"written", "checked", "parsed", "refused"}
    /\ phase = "checked" => Passes
    /\ phase = "parsed" =>
         /\ Passes /\ Fits
         /\ spec = [fields |-> used \intersect F!Converted,
                    replicas |-> F!Replicas % 2^Width, entries |-> entries]
    /\ phase = "refused" => ~(Passes /\ Fits)

LEMMA FieldsInvariant == AllSpec => [](part = "fields" => FieldsInv)
<1>1. AllInit => (part = "fields" => FieldsInv)
  <2> SUFFICES ASSUME F!Init PROVE FieldsInv
    BY DEF AllInit
  <2>1. used \subseteq F!Compose
    BY DEF F!Init
  <2>2. MaxEntries[kind] \in Nat
    BY LimitAssumption DEF F!Init, F!ListKinds
  <2> QED
    BY <2>1, <2>2 DEF F!Init, FieldsInv
<1>2. (part = "fields" => FieldsInv) /\ [AllNext]_allVars
        => (part = "fields" => FieldsInv)'
  <2> SUFFICES ASSUME FieldsInv, F!Next \/ UNCHANGED fieldVars PROVE FieldsInv'
    BY DEF AllNext, allVars
  <2>i. UNCHANGED <<used, replicas, memory, parallelism, kind, entries>>
    BY DEF F!Next, F!Check, F!Convert, fieldVars
  <2>u. /\ Passes' <=> Passes
        /\ Fits' <=> Fits
        /\ (F!Replicas)' = F!Replicas
    BY <2>i DEF Passes, Fits, F!Mandatory, F!Uses, F!Replicas
  <2>1. CASE F!Check
    <3>1. phase' = IF Passes THEN "checked" ELSE "refused"
      BY <2>1 DEF F!Check, Passes
    <3> QED
      BY <2>i, <2>u, <3>1 DEF FieldsInv
  <2>2. CASE F!Convert
    <3>1. phase = "checked" /\
          IF Fits
          THEN /\ phase' = "parsed"
               /\ spec' = [fields |-> used \intersect F!Converted,
                           replicas |-> F!Replicas % 2^Width, entries |-> entries]
          ELSE phase' = "refused"
      BY <2>2 DEF F!Convert, Fits
    <3> QED
      BY <2>i, <2>u, <3>1 DEF FieldsInv
  <2>3. CASE UNCHANGED fieldVars
    BY <2>3, <2>i, <2>u DEF FieldsInv, fieldVars
  <2> QED
    BY <2>1, <2>2, <2>3 DEF F!Next
<1> QED
  BY <1>1, <1>2, PTL DEF AllSpec

\* A number of replicas within the limit is taken as it is.
LEMMA WithinIsKept ==
  ASSUME NEW n \in 0 .. MaxReplicas
  PROVE  F!Unsigned(n) = n /\ n % 2^Width = n
<1>1. 2^Width \in Int /\ n < 2^Width /\ n \in Nat /\ 2^Width > 0
  BY LimitAssumption
<1>2. \A m \in Int : n < m => n % m = n
  BY <1>1
<1> QED
  BY <1>1, <1>2 DEF F!Unsigned

\* What the tables and limits of the parser allow is deployed, and only that, for
\* every set of fields, width and limit: the invariant of the runs.
THEOREM OnlyAllowedIsDeployed == AllSpec => []AllowedIsDeployed
<1>1. FieldsInv => F!AllowedIsConverted
  BY TablesAgree DEF FieldsInv, Passes, F!AllowedIsConverted
<1>2. FieldsInv => F!LimitsHold
  <2> SUFFICES ASSUME FieldsInv, phase = "parsed"
               PROVE  /\ spec.replicas \in 0 .. MaxReplicas
                      /\ spec.entries <= MaxEntries[kind]
                      /\ F!Uses("deploy.resources.limits") => memory > 0
    BY DEF F!LimitsHold
  <2>1. F!Mandatory /\ ~F!Exceeds(F!Replicas, MaxReplicas)
        /\ ~F!Exceeds(entries, MaxEntries[kind])
    BY DEF FieldsInv, Fits
  <2>2. F!Replicas \in Nat
    <3>1. 2^Width \in Int /\ 2^Width > 0
      BY LimitAssumption
    <3>2. \A n, m \in Int : m > 0 => n % m \in Nat
      OBVIOUS
    <3> QED
      BY <3>1, <3>2, LimitAssumption DEF FieldsInv, F!Replicas, F!Unsigned
  <2>3. F!Replicas \in 0 .. MaxReplicas
    BY <2>1, <2>2, LimitAssumption DEF F!Exceeds
  <2>4. spec.replicas = F!Replicas
    BY <2>3, WithinIsKept DEF FieldsInv
  <2>5. spec.entries <= MaxEntries[kind]
    BY <2>1, LimitAssumption DEF FieldsInv, F!Exceeds, F!ListKinds
  <2>6. F!Uses("deploy.resources.limits") => memory > 0
    BY <2>1, LimitAssumption DEF FieldsInv, F!Mandatory
  <2> QED
    BY <2>3, <2>4, <2>5, <2>6
<1>3. FieldsInv => F!WithinIsAccepted
  <2> SUFFICES ASSUME FieldsInv, phase = "refused", used \subseteq F!Converted,
                      F!Mandatory, replicas = Absent \/ replicas \in 0 .. MaxReplicas,
                      ~(entries > MaxEntries[kind])
               PROVE  FALSE
    BY DEF F!WithinIsAccepted
  <2>1. Passes
    BY TablesAgree DEF FieldsInv, Passes
  <2>2. F!Replicas \in 0 .. MaxReplicas
    BY WithinIsKept, LimitAssumption DEF F!Replicas
  <2>3. Fits
    BY <2>2, LimitAssumption DEF Fits, F!Exceeds
  <2> QED
    BY <2>1, <2>3 DEF FieldsInv
<1>4. (part = "fields" => FieldsInv) => AllowedIsDeployed
  BY <1>1, <1>2, <1>3 DEF AllowedIsDeployed
<1> QED
  BY <1>4, FieldsInvariant, PTL

-------------------------------------------------------------------------------
(* The stacks of a commit. *)

Name(d) == S!Qualified(d[1].name, d[2].key)
NoEnvErrors == \A f \in files : S!EnvErrors(f) = {}
AllFieldErrors == UNION {S!FieldErrors(f) : f \in files}

\* The files, and those not looked at.
FilesInv ==
    /\ tree \in Inputs /\ S!Readable(tree) /\ files = S!StackFiles(tree)
    /\ todo \subseteq files
    /\ step \in {"env", "fields", "stacks", "ok", "failed"}

\* What the first two phases have found, and what a failed parse leaves.
ScanInv ==
    /\ step = "env" => errors = UNION {S!EnvErrors(f) : f \in files \ todo}
    /\ step = "fields" =>
         NoEnvErrors /\ errors = UNION {S!FieldErrors(f) : f \in files \ todo}
    /\ step = "stacks" => errors = {} /\ AllFieldErrors = {}
    /\ step = "failed" /\ NoEnvErrors => errors = AllFieldErrors
    /\ step \in {"env", "fields", "failed"} =>
         services = S!Empty /\ configs = S!Empty
    /\ step \in {"env", "fields"} =>
         stack = Nil /\ keys = {} /\ owner = S!Empty

\* The services parsed so far: those of the files done, except what is left of
\* the stack at hand.
Taken == {d \in S!Declared : d[1] \notin todo /\ ~(d[1] = stack /\ d[2] \in keys)}

ServicesInv ==
    /\ stack = Nil => keys = {}
    /\ stack # Nil => stack \in files \ todo /\ keys \subseteq stack.doc.services
    /\ DOMAIN services = {Name(d) : d \in Taken}
    /\ DOMAIN owner = {Name(d) : d \in Taken}
    /\ \A d \in Taken : /\ owner[Name(d)] = d[1].name
                        /\ services[Name(d)].by = d[1].name
                        /\ services[Name(d)].of = d[2]

\* What f says of the config object o.
Says(f, o) == {S!Data(f, c) : c \in {d \in S!Prepared(f) : S!ObjectName(d) = o}}
ConfigsInv ==
    \A f \in files \ todo : \A c \in S!Prepared(f) :
        /\ S!ObjectName(c) \in DOMAIN configs
        /\ configs[S!ObjectName(c)] \in Says(f, S!ObjectName(c))

ParseInv ==
    /\ FilesInv /\ ScanInv
    /\ step \in {"stacks", "ok"} => ServicesInv /\ ConfigsInv
    /\ step = "ok" => todo = {} /\ stack = Nil

\* A stack name belongs to one file.
LEMMA NamesDistinct ==
  ASSUME FilesInv, NEW f \in files, NEW g \in files, f.name = g.name
  PROVE  f = g
<1>1. files = {[name |-> tree[p].base, path |-> p, doc |-> tree[p].doc,
                files |-> S!ConfigFiles(tree, p)] : p \in S!StackPaths(tree)}
  BY DEF FilesInv, S!StackFiles
<1>2. ~S!Ambiguous(tree)
  BY DEF FilesInv, S!Readable
<1> QED
  BY <1>1, <1>2 DEF S!Ambiguous

\* A qualified name belongs to one service of its stack.
LEMMA KeysDistinct ==
  ASSUME FilesInv, NEW d \in S!Declared, NEW e \in S!Declared,
         d[1] = e[1], Name(d) = Name(e)
  PROVE  d = e
<1>1. /\ d = <<d[1], d[2]>> /\ e = <<e[1], e[2]>> /\ d[1] \in files
      /\ d[2] \in d[1].doc.services /\ e[2] \in d[1].doc.services
  BY DEF S!Declared, S!Pairs
<1>2. /\ d[1].name \in Seq(Words) /\ d[2].key \in Seq(Words) /\ e[2].key \in Seq(Words)
      /\ d[2].key = e[2].key => d[2] = e[2]
  BY <1>1, DocAssumption DEF FilesInv
<1>3. \A n, k, l \in Seq(Words) : n \o k = n \o l => k = l
  <2> SUFFICES ASSUME NEW n \in Seq(Words), NEW k \in Seq(Words),
                      NEW l \in Seq(Words), n \o k = n \o l
               PROVE  k = l
    OBVIOUS
  <2>1. Len(k) = Len(l) /\ Len(k) \in Nat
    <3>1. Len(n \o k) = Len(n) + Len(k) /\ Len(n \o l) = Len(n) + Len(l)
      OBVIOUS
    <3> QED
      BY <3>1
  <2>2. \A i_1 \in 1 .. Len(k) : k[i_1] = l[i_1]
    <3>1. \A i_1 \in 1 .. Len(k) : (n \o k)[Len(n) + i_1] = k[i_1]
      OBVIOUS
    <3>2. \A i_1 \in 1 .. Len(k) : (n \o l)[Len(n) + i_1] = l[i_1]
      BY <2>1
    <3> QED
      BY <3>1, <3>2
  <2> QED
    BY <2>1, <2>2
<1> QED
  BY <1>1, <1>2, <1>3 DEF Name, S!Qualified

LEMMA StackStart == AllInit => (part = "stack" => ParseInv)
<1> SUFFICES ASSUME S!Init PROVE ParseInv
  BY DEF AllInit
<1> QED
  BY DEF S!Init, ParseInv, FilesInv, ScanInv

\* A look at one file, or the end of a phase.
LEMMA ScanKeeps ==
  ASSUME ParseInv, S!EnvFiles \/ S!Fields
  PROVE  ParseInv'
<1>s. UNCHANGED <<tree, files, stack, keys, services, configs, owner>>
  BY DEF S!EnvFiles, S!Fields, S!Scan, S!ds
<1>u. NoEnvErrors' = NoEnvErrors /\ AllFieldErrors' = AllFieldErrors
  BY <1>s, Zenon DEF NoEnvErrors, AllFieldErrors, S!EnvErrors, S!FieldErrors
<1>1. CASE S!EnvFiles
  <2>0. step = "env"
    BY <1>1 DEF S!EnvFiles, S!Scan
  <2>1. CASE todo # {}
    <3> PICK f \in todo : /\ errors' = errors \cup S!EnvErrors(f)
                          /\ todo' = todo \ {f} /\ step' = step
      BY <1>1, <2>1 DEF S!EnvFiles, S!Scan
    <3>1. errors' = UNION {S!EnvErrors(g) : g \in files \ (todo \ {f})}
      BY <2>0 DEF ParseInv, FilesInv, ScanInv
    <3> QED
      BY <1>s, <2>0, <3>1 DEF ParseInv, FilesInv, ScanInv, S!EnvErrors
  <2>2. CASE todo = {}
    <3>0. /\ step' = IF errors # {} THEN "failed" ELSE "fields"
          /\ todo' = files /\ errors' = errors
      BY <1>1, <2>2 DEF S!EnvFiles, S!Scan
    <3>1. errors = {} <=> NoEnvErrors
      BY <2>0, <2>2 DEF ParseInv, FilesInv, ScanInv, NoEnvErrors
    <3> QED
      BY <1>s, <1>u, <2>0, <2>2, <3>0, <3>1 DEF ParseInv, FilesInv, ScanInv
  <2> QED
    BY <2>1, <2>2
<1>2. CASE S!Fields
  <2>0. step = "fields"
    BY <1>2 DEF S!Fields, S!Scan
  <2>1. CASE todo # {}
    <3> PICK f \in todo : /\ errors' = errors \cup S!FieldErrors(f)
                          /\ todo' = todo \ {f} /\ step' = step
      BY <1>2, <2>1 DEF S!Fields, S!Scan
    <3>1. errors' = UNION {S!FieldErrors(g) : g \in files \ (todo \ {f})}
      BY <2>0 DEF ParseInv, FilesInv, ScanInv
    <3> QED
      BY <1>s, <1>u, <2>0, <3>1 DEF ParseInv, FilesInv, ScanInv, S!FieldErrors
  <2>2. CASE todo = {}
    <3>0. /\ step' = IF errors # {} THEN "failed" ELSE "stacks"
          /\ todo' = files /\ errors' = errors
      BY <1>2, <2>2 DEF S!Fields, S!Scan
    <3>1. errors = AllFieldErrors /\ NoEnvErrors
      BY <2>0, <2>2 DEF ParseInv, FilesInv, ScanInv, AllFieldErrors
    <3>2. CASE step' = "failed"
      BY <1>s, <1>u, <2>0, <3>0, <3>1, <3>2 DEF ParseInv, FilesInv, ScanInv
    <3>3. CASE step' = "stacks"
      <4>1. Taken' = {}
        BY <1>s, <3>0 DEF Taken, S!Declared, S!Pairs
      <4>2. ServicesInv'
        BY <1>s, <2>0, <3>0, <4>1 DEF ParseInv, ScanInv, ServicesInv, S!Empty
      <4>3. ConfigsInv'
        BY <1>s, <3>0 DEF ConfigsInv
      <4> QED
        BY <1>s, <1>u, <3>0, <3>1, <3>3, <4>2, <4>3 DEF ParseInv, FilesInv, ScanInv
    <3> QED
      BY <3>0, <3>2, <3>3
  <2> QED
    BY <2>1, <2>2
<1> QED
  BY <1>1, <1>2

LEMMA FailKeeps ==
  ASSUME ParseInv, step = "stacks", S!Fail
  PROVE  ParseInv'
<1>1. /\ step' = "failed" /\ services' = S!Empty /\ configs' = S!Empty
      /\ UNCHANGED <<tree, files, todo, errors, stack, keys, owner>>
  BY DEF S!Fail
<1>2. AllFieldErrors' = AllFieldErrors
  BY <1>1, Zenon DEF AllFieldErrors, S!FieldErrors
<1> QED
  BY <1>1, <1>2 DEF ParseInv, FilesInv, ScanInv

\* The configs of one stack: what agrees with the stacks before is added.
LEMMA PrepareKeeps ==
  ASSUME ParseInv, S!PrepareStack
  PROVE  ParseInv'
<1>0. step = "stacks" /\ stack = Nil
  BY DEF S!PrepareStack
<1>1. CASE S!Fail
  BY <1>0, <1>1, FailKeeps
<1>2. CASE ~S!Fail
  <2> DEFINE Payloads(f) ==
        {g \in [{S!ObjectName(c) : c \in S!Prepared(f)} ->
               {S!Data(f, c) : c \in S!Prepared(f)}] :
           \A o \in DOMAIN g : \E c \in S!Prepared(f) :
               S!ObjectName(c) = o /\ g[o] = S!Data(f, c)}
  <2> PICK f \in todo : \E payload \in Payloads(f) :
         /\ ~S!Conflict(configs, payload)
         /\ configs' = [o \in DOMAIN payload \cup DOMAIN configs |->
                          IF o \in DOMAIN payload THEN payload[o] ELSE configs[o]]
         /\ stack' = f /\ keys' = f.doc.services /\ todo' = todo \ {f}
         /\ UNCHANGED <<tree, files, step, errors, services, owner>>
    BY <1>2 DEF S!PrepareStack
  <2> PICK payload \in Payloads(f) :
         /\ ~S!Conflict(configs, payload)
         /\ configs' = [o \in DOMAIN payload \cup DOMAIN configs |->
                          IF o \in DOMAIN payload THEN payload[o] ELSE configs[o]]
         /\ stack' = f /\ keys' = f.doc.services /\ todo' = todo \ {f}
         /\ UNCHANGED <<tree, files, step, errors, services, owner>>
    OBVIOUS
  <2>0. f \in files /\ f # Nil /\ keys = {}
    BY <1>0, DocAssumption DEF ParseInv, FilesInv, ServicesInv
  <2>1. Taken' = Taken
    BY <1>0, <2>0 DEF Taken, S!Declared, S!Pairs
  <2>2. ServicesInv'
    BY <1>0, <2>0, <2>1 DEF ParseInv, FilesInv, ServicesInv, Name
  <2>3. \A o \in DOMAIN configs : configs'[o] = configs[o]
    BY DEF S!Conflict
  <2>4. ConfigsInv'
    <3> SUFFICES ASSUME NEW g \in files \ (todo \ {f}), NEW c \in S!Prepared(g)
                 PROVE  /\ S!ObjectName(c) \in DOMAIN configs'
                        /\ configs'[S!ObjectName(c)] \in Says(g, S!ObjectName(c))
      BY DEF ConfigsInv, Says
    <3>1. CASE g = f
      BY <3>1 DEF Says
    <3>2. CASE g # f
      BY <1>0, <2>3, <3>2 DEF ParseInv, ConfigsInv
    <3> QED
      BY <3>1, <3>2
  <2>5. AllFieldErrors' = AllFieldErrors
    BY Zenon DEF AllFieldErrors, S!FieldErrors
  <2> QED
    BY <1>0, <2>2, <2>4, <2>5 DEF ParseInv, FilesInv, ScanInv
<1> QED
  BY <1>1, <1>2

\* One service: its qualified name is new, or the parse fails.
LEMMA ServiceKeeps ==
  ASSUME ParseInv, NEW s \in keys, S!ParseService(s)
  PROVE  ParseInv'
<1>0. step = "stacks" /\ stack # Nil
  BY DEF S!ParseService
<1>1. CASE S!Fail
  BY <1>0, <1>1, FailKeeps
<1>2. CASE ~S!Fail
  <2> DEFINE e == <<stack, s>>
  <2>1. /\ ~S!Collides(Name(e))
        /\ \E r : services' = [n \in DOMAIN services \cup {Name(e)} |->
                 IF n # Name(e) THEN services[n]
                 ELSE [of |-> s, by |-> stack.name, refs |-> r]]
        /\ owner' = [n \in DOMAIN owner \cup {Name(e)} |->
                       IF n = Name(e) THEN stack.name ELSE owner[n]]
        /\ keys' = keys \ {s}
        /\ UNCHANGED <<tree, files, step, todo, errors, stack, configs>>
    BY <1>2 DEF S!ParseService, Name
  <2>2. e \in S!Declared /\ stack \in files \ todo
    BY <1>0 DEF ParseInv, ServicesInv, S!Declared, S!Pairs
  <2>3. Taken' = Taken \cup {e}
    BY <2>1, <2>2 DEF Taken, S!Declared, S!Pairs
  <2>4. \A d \in Taken : Name(d) # Name(e)
    <3> SUFFICES ASSUME NEW d \in Taken, Name(d) = Name(e) PROVE FALSE
      OBVIOUS
    <3>1. owner[Name(d)] = d[1].name /\ Name(d) \in DOMAIN owner
      BY <1>0 DEF ParseInv, ServicesInv
    <3>2. d[1].name = stack.name
      BY <2>1, <3>1 DEF S!Collides
    <3>3. d \in S!Declared /\ d[1] \in files
      BY DEF Taken, S!Declared, S!Pairs
    <3>4. d[1] = stack
      BY <2>2, <3>2, <3>3, NamesDistinct DEF ParseInv
    <3>5. d = e
      BY <2>2, <3>3, <3>4, KeysDistinct DEF ParseInv
    <3> QED
      BY <3>5 DEF Taken
  <2>5. ServicesInv'
    <3> HIDE DEF e
    <3>0. e[1] = stack /\ e[2] = s
      BY DEF e
    <3>1. \A d : (Name(d))' = Name(d)
      BY DEF Name, S!Qualified
    <3>2. stack' # Nil /\ stack' \in files' \ todo' /\ keys' \subseteq stack'.doc.services
      BY <1>0, <2>1, <2>2 DEF ParseInv, ServicesInv
    <3>3. /\ DOMAIN services = {Name(d) : d \in Taken}
          /\ DOMAIN owner = {Name(d) : d \in Taken}
          /\ \A d \in Taken : /\ owner[Name(d)] = d[1].name
                              /\ services[Name(d)].by = d[1].name
                              /\ services[Name(d)].of = d[2]
      BY <1>0 DEF ParseInv, ServicesInv
    <3>4. /\ DOMAIN services' = {Name(d) : d \in Taken \cup {e}}
          /\ DOMAIN owner' = {Name(d) : d \in Taken \cup {e}}
      BY <2>1, <3>3
    <3>5. \A d \in Taken \cup {e} : /\ owner'[Name(d)] = d[1].name
                              /\ services'[Name(d)].by = d[1].name
                              /\ services'[Name(d)].of = d[2]
      BY <2>1, <2>4, <3>0, <3>3
    <3> QED
      BY <2>3, <3>1, <3>2, <3>4, <3>5 DEF ServicesInv
  <2>6. ConfigsInv'
    BY <1>0, <2>1 DEF ParseInv, ConfigsInv, Says
  <2>7. AllFieldErrors' = AllFieldErrors
    BY <2>1, Zenon DEF AllFieldErrors, S!FieldErrors
  <2> QED
    BY <1>0, <2>1, <2>5, <2>6, <2>7 DEF ParseInv, FilesInv, ScanInv
<1> QED
  BY <1>1, <1>2

LEMMA StackDoneKeeps ==
  ASSUME ParseInv, S!StackDone
  PROVE  ParseInv'
<1>1. /\ step = "stacks" /\ keys = {}
      /\ \/ stack # Nil /\ stack' = Nil /\ step' = step
         \/ stack = Nil /\ todo = {} /\ step' = "ok" /\ stack' = stack
      /\ UNCHANGED <<tree, files, todo, errors, keys, services, configs, owner>>
  BY DEF S!StackDone, S!ds
<1>2. Taken' = Taken
  BY <1>1 DEF Taken, S!Declared, S!Pairs
<1>3. ServicesInv' /\ ConfigsInv'
  BY <1>1, <1>2 DEF ParseInv, ServicesInv, ConfigsInv, Name, Says
<1>4. AllFieldErrors' = AllFieldErrors
  BY <1>1, Zenon DEF AllFieldErrors, S!FieldErrors
<1> QED
  BY <1>1, <1>3, <1>4 DEF ParseInv, FilesInv, ScanInv

LEMMA StackInvariant == AllSpec => [](part = "stack" => ParseInv)
<1>2. (part = "stack" => ParseInv) /\ [AllNext]_allVars
        => (part = "stack" => ParseInv)'
  <2> SUFFICES ASSUME ParseInv, S!Next \/ UNCHANGED stackVars PROVE ParseInv'
    BY DEF AllNext, allVars
  <2>1. CASE UNCHANGED stackVars
    BY <2>1 DEF stackVars, ParseInv, FilesInv, ScanInv, ServicesInv, ConfigsInv,
                NoEnvErrors, AllFieldErrors, Taken, S!Declared, S!Pairs, Name, Says
  <2>2. CASE S!Done
    BY <2>1, <2>2 DEF S!Done, S!vars, S!ds, stackVars
  <2> QED
    BY <2>1, <2>2, ScanKeeps, PrepareKeeps, ServiceKeeps, StackDoneKeeps DEF S!Next
<1> QED
  BY StackStart, <1>2, PTL DEF AllSpec

\* No stack takes a service or a config object of another one, and a parse with
\* an error yields nothing, for every tree of files and documents: the
\* invariant of the runs.
THEOREM StacksStayApart == AllSpec => []StacksKeptApart
<1>1. ParseInv => S!NobodyOverwritten
  <2> SUFFICES ASSUME ParseInv, step = "ok" PROVE S!NobodyOverwritten
    BY DEF S!NobodyOverwritten
  <2>1. Taken = S!Declared
    BY DEF ParseInv, ServicesInv, Taken
  <2> QED
    BY <2>1 DEF ParseInv, ServicesInv, Name, S!NobodyOverwritten
<1>2. ParseInv => S!ConfigsAgree
  <2> SUFFICES ASSUME ParseInv, step = "ok", NEW f \in files, NEW c \in S!Prepared(f)
               PROVE  \E d \in S!Prepared(f) :
                        /\ S!ObjectName(d) = S!ObjectName(c)
                        /\ S!ObjectName(c) \in DOMAIN configs
                        /\ configs[S!ObjectName(c)] = S!Data(f, d)
    BY DEF S!ConfigsAgree
  <2> QED
    BY DEF ParseInv, ConfigsInv, Says
<1>3. ParseInv => S!FailsWhole
  <2> SUFFICES ASSUME ParseInv, step = "failed" PROVE S!FailsWhole
    BY DEF S!FailsWhole
  <2> DEFINE env == {d \in S!Declared : d[2].env = "bad"
                                        \/ (d[2].env = "ok" /\ ~EnvRootSet)}
             unsupported ==
               {d \in S!Declared : ~(d[2].fields \subseteq AllowedFields)}
             told == UNION {{<<d[1].name, d[2].key, fld>> :
                             fld \in d[2].fields \ AllowedFields} : d \in unsupported}
  <2>1. env = {} => NoEnvErrors
    <3> SUFFICES ASSUME NEW f \in files, NEW t \in f.doc.services,
                        t.env = "bad" \/ (t.env = "ok" /\ ~EnvRootSet)
                 PROVE  <<f, t>> \in env
      BY DEF NoEnvErrors, S!EnvErrors
    <3> QED
      BY DEF S!Declared, S!Pairs
  <2>2. AllFieldErrors = told
    <3>1. ASSUME NEW x \in AllFieldErrors PROVE x \in told
      <4> PICK f \in files : x \in S!FieldErrors(f)
        BY <3>1 DEF AllFieldErrors
      <4> PICK t \in f.doc.services :
               x \in {<<f.name, t.key, fld>> : fld \in t.fields \ AllowedFields}
        BY DEF S!FieldErrors
      <4>1. <<f, t>> \in unsupported
        BY DEF S!Declared, S!Pairs
      <4> QED
        BY <4>1
    <3>2. ASSUME NEW x \in told PROVE x \in AllFieldErrors
      <4> PICK d \in unsupported :
               x \in {<<d[1].name, d[2].key, fld>> :
                        fld \in d[2].fields \ AllowedFields}
        BY <3>2
      <4>1. d[1] \in files /\ d[2] \in d[1].doc.services
        BY DEF S!Declared, S!Pairs
      <4> QED
        BY <4>1 DEF AllFieldErrors, S!FieldErrors
    <3> QED
      BY <3>1, <3>2
  <2> QED
    BY <2>1, <2>2 DEF ParseInv, ScanInv, S!FailsWhole
<1>4. (part = "stack" => ParseInv) => StacksKeptApart
  BY <1>1, <1>2, <1>3 DEF StacksKeptApart
<1> QED
  BY <1>4, StackInvariant, PTL

-------------------------------------------------------------------------------
(* One service in its two forms. *)

\* The declaration is in normal form; of the service, whoever wrote it, what an
\* update reads.
WantInv == \E r \in Raws : want = Normalize(Stack, r)
SvcInv ==
    svc # Nil =>
      /\ {"labels", "endpoint", "dns"} \subseteq DOMAIN svc
      /\ IsLabels(svc.labels)
      /\ svc.endpoint = Nil \/ svc.endpoint \in Endpoints({svc.endpoint.ports})

\* The labels that Normalize and FromSwarm build from those of a service.
Prefix(st) == [k \in {Managed, StackKey} |-> IF k = Managed THEN "true" ELSE st]
PrefixOf(st, m) == Over(Prefix(st), Only(m, Scoped))
LEMMA PrefixLabels ==
  ASSUME NEW m, NEW st
  PROVE  /\ DOMAIN PrefixOf(st, m) = {Managed, StackKey} \cup (Keys(m) \cap Scoped)
         /\ PrefixOf(st, m)[Managed] = "true" /\ PrefixOf(st, m)[StackKey] = st
         /\ \A k \in (Keys(m) \cap Scoped) \ {Managed, StackKey} :
              PrefixOf(st, m)[k] = m[k]
<1> DEFINE c == Only(m, Scoped)
<1>1. Managed # StackKey
  BY DEF Managed, StackKey
<1>2. /\ DOMAIN Prefix(st) = {Managed, StackKey}
      /\ Prefix(st)[Managed] = "true" /\ Prefix(st)[StackKey] = st
  BY <1>1 DEF Prefix
<1>3. DOMAIN c = Keys(m) \cap Scoped /\ \A k \in DOMAIN c : c[k] = m[k]
  BY DEF Only
<1>4. PrefixOf(st, m) = Over(Prefix(st), c)
  BY DEF PrefixOf
<1> HIDE DEF c
<1> QED
  BY <1>2, <1>3, <1>4 DEF Over

\* Normalize, field by field.
NormalOf(r, w) ==
    /\ w = [f \in Fields |-> w[f]]
    /\ w.plain = r.plain /\ w.replicas = r.replicas
    /\ w.entrypoint = r.entrypoint /\ w.command = r.command
    /\ w.grace = r.grace /\ w.volumes = r.volumes
    /\ w.configs = r.configs /\ w.secrets = r.secrets
    /\ w.resources = r.resources
    /\ w.placement = r.placement /\ w.update = r.update
    /\ w.mode # ""
    /\ w.health = Nil \/ w.health.test # <<>>
    /\ w.networks # {}
    /\ w.ports = {NormalPort(p) : p \in r.ports}
    /\ w.restart = IF r.restart # Nil /\ r.restart.cond = ""
                   THEN [r.restart EXCEPT !.cond = "any"] ELSE r.restart
    /\ w.deployLabels = IF Keys(r.deployLabels) = {} THEN Nil ELSE r.deployLabels
    /\ w.labels = PrefixOf(Stack, r.labels)
LEMMA NormalFields ==
  ASSUME NEW r \in Raws
  PROVE  NormalOf(r, Normalize(Stack, r))
<1>1. r = [f \in Fields |-> r[f]]
  BY RawAssumption
<1> QED
  BY <1>1, ZenonT(60) DEF NormalOf, Normalize, Fields, DefaultNetwork, PrefixOf, Prefix

\* The labels of a declaration are under the prefix, its deploy labels a map.
LEMMA NormalLabels ==
  ASSUME NEW r \in Raws, NEW w, w = Normalize(Stack, r)
  PROVE  /\ {Managed, StackKey} \subseteq DOMAIN w.labels
         /\ DOMAIN w.labels \subseteq Scoped /\ IsLabels(w.labels)
         /\ w.labels[Managed] = "true" /\ w.labels[StackKey] = Stack
         /\ w.deployLabels = Nil \/ IsLabels(w.deployLabels)
<1> DEFINE m == r.labels
           l == w.labels
<1>1. m = Nil \/ IsLabels(m)
  BY RawAssumption
<1>2. Scoped \subseteq LabelKeys /\ {Managed, StackKey} \subseteq Scoped
  BY DEF LabelKeys, Scoped
<1>n. NormalOf(r, w)
  BY NormalFields, Zenon
<1>3. l = PrefixOf(Stack, m)
  BY <1>n DEF NormalOf
<1>10. w.deployLabels = Nil \/ IsLabels(w.deployLabels)
  BY <1>n, RawAssumption DEF NormalOf
<1> HIDE DEF m, l
<1>0. l = [k \in DOMAIN l |-> l[k]]
  BY <1>3 DEF PrefixOf, Over
<1>4. /\ DOMAIN l = {Managed, StackKey} \cup (Keys(m) \cap Scoped)
      /\ l[Managed] = "true" /\ l[StackKey] = Stack
      /\ \A k \in (Keys(m) \cap Scoped) \ {Managed, StackKey} : l[k] = m[k]
  BY <1>3, PrefixLabels
<1>5. \A k \in Keys(m) : m[k] \in LabelValues
  BY <1>1 DEF IsLabels, Keys
<1>6. l[Managed] \in LabelValues /\ l[StackKey] \in LabelValues
  BY <1>4 DEF LabelValues
<1>7. \A k \in DOMAIN l : l[k] \in LabelValues
  BY <1>4, <1>5, <1>6, Zenon
<1>8. IsLabels(l) /\ DOMAIN l \subseteq Scoped /\ {Managed, StackKey} \subseteq DOMAIN l
  BY <1>0, <1>2, <1>4, <1>7 DEF IsLabels
<1> QED
  BY <1>4, <1>8, <1>10 DEF l

\* A map of labels is not Nil.
LEMMA LabelsAreMaps ==
  ASSUME NEW m, IsLabels(m)
  PROVE  m # Nil /\ Keys(m) = DOMAIN m
BY NilAssumption DEF IsLabels, Keys

\* The labels of a service that w was written to: those of w, its deploy labels
\* and none other under the prefix.
Carries(m, w) ==
    /\ IsLabels(m)
    /\ \A k \in Keys(w.deployLabels) : k \in DOMAIN m /\ m[k] = w.deployLabels[k]
    /\ \A k \in Scoped : /\ k \in DOMAIN m <=> k \in DOMAIN w.labels
                         /\ k \in DOMAIN m => m[k] = w.labels[k]

\* Create and update write such labels, an update over any others.
LEMMA LabelsWritten ==
  ASSUME NEW r \in Raws, NEW w, w = Normalize(Stack, r), ~Unstable(w),
         NEW m, IsLabels(m)
  PROVE  /\ Carries(ToSwarm(w).labels, w)
         /\ Carries(MergeLabels(m, ToSwarm(w).labels), w)
<1> DEFINE d == Only(w.deployLabels, Keys(w.deployLabels))
           l == Over(d, w.labels)
           o == Only(m, DOMAIN m \ Scoped)
           n == Over(l, o)
<1>0. ToSwarm(w).labels = l /\ MergeLabels(m, ToSwarm(w).labels) = n
  BY DEF ToSwarm, MergeLabels
<1>1. /\ DOMAIN d = Keys(w.deployLabels)
      /\ \A k \in Keys(w.deployLabels) : d[k] = w.deployLabels[k]
  BY DEF Only
<1>m. DOMAIN o = DOMAIN m \ Scoped /\ \A k \in DOMAIN o : o[k] = m[k]
  BY LabelsAreMaps DEF Only
<1>2. /\ Keys(w.deployLabels) \cap Scoped = {}
      /\ DOMAIN w.labels \subseteq Scoped /\ IsLabels(w.labels)
      /\ w.deployLabels = Nil \/ IsLabels(w.deployLabels)
  BY NormalLabels DEF Unstable
<1>3. /\ Keys(w.deployLabels) \subseteq LabelKeys
      /\ \A k \in Keys(w.deployLabels) : w.deployLabels[k] \in LabelValues
  BY <1>2 DEF IsLabels, Keys
<1>4. DOMAIN w.labels \subseteq LabelKeys /\ \A k \in DOMAIN w.labels : w.labels[k] \in LabelValues
  BY <1>2 DEF IsLabels
<1> HIDE DEF d, o, l, n
<1>l. /\ l = [k \in DOMAIN l |-> l[k]]
      /\ DOMAIN l = DOMAIN d \cup DOMAIN w.labels
      /\ \A k \in DOMAIN d : l[k] = d[k]
      /\ \A k \in DOMAIN w.labels \ DOMAIN d : l[k] = w.labels[k]
  BY DEF l, Over
<1>n. /\ n = [k \in DOMAIN n |-> n[k]]
      /\ DOMAIN n = DOMAIN l \cup DOMAIN o
      /\ \A k \in DOMAIN l : n[k] = l[k]
      /\ \A k \in DOMAIN o \ DOMAIN l : n[k] = o[k]
  BY DEF n, Over
<1>5. IsLabels(l)
  BY <1>1, <1>3, <1>4, <1>l DEF IsLabels
<1>6. Carries(l, w)
  BY <1>1, <1>2, <1>5, <1>l DEF Carries
<1>7. \A k \in DOMAIN m : m[k] \in LabelValues /\ k \in LabelKeys
  BY DEF IsLabels
<1>8. IsLabels(n)
  BY <1>5, <1>7, <1>m, <1>n DEF IsLabels
<1>9. Carries(n, w)
  BY <1>6, <1>8, <1>m, <1>n DEF Carries
<1> QED
  BY <1>0, <1>6, <1>9

\* The engine's form of w, whatever its other labels and its endpoint mode.
Holds(e, w) ==
    /\ e.plain = w.plain /\ e.health = w.health
    /\ e.command = w.entrypoint /\ e.args = w.command
    /\ e.grace = (IF w.grace > 0 THEN w.grace ELSE Nil)
    /\ e.mounts = w.volumes /\ e.configs = w.configs /\ e.secrets = w.secrets
    /\ e.mode = (IF w.mode = "replicated"
                 THEN [kind |-> w.mode, n |-> w.replicas]
                 ELSE [kind |-> w.mode, n |-> Nil])
    /\ e.restart = (IF w.restart = Nil THEN Nil
                    ELSE [w.restart EXCEPT !.delay = IF @ > 0 THEN @ ELSE Nil])
    /\ e.resources = (IF w.resources = Nil THEN Nil
                      ELSE [limits |-> w.resources, reservations |-> Nil])
    /\ e.placement = (IF w.placement = Nil THEN Nil
                      ELSE [constraints |-> w.placement, preferences |-> {}])
    /\ e.update = (IF w.update = Nil THEN Nil
                   ELSE [parallelism |-> w.update, order |-> ""])
    /\ e.networks = {[id |-> n] : n \in w.networks}
    /\ Carries(e.labels, w)
    /\ \/ e.endpoint = Nil /\ w.ports = {}
       \/ e.endpoint \in Endpoints({w.ports})

\* FromSwarm, field by field.
ReadAs(e, h) ==
    /\ h.plain = e.plain
    /\ h.health = (IF e.health # Nil /\ e.health.test = <<>> THEN Nil ELSE e.health)
    /\ h.replicas = (IF e.mode.kind = "replicated" THEN e.mode.n ELSE 0)
    /\ h.mode = (IF e.mode.kind = "" THEN "replicated" ELSE e.mode.kind)
    /\ h.entrypoint = e.command /\ h.command = e.args
    /\ h.grace = (IF e.grace = Nil THEN 0 ELSE e.grace)
    /\ h.volumes = {m \in e.mounts : m.type \in {"volume", "bind"}}
    /\ h.configs = {[c EXCEPT !.mode = IF @ = ReadAll THEN 0 ELSE @] :
                      c \in e.configs}
    /\ h.secrets = e.secrets
    /\ h.resources = (IF e.resources = Nil THEN Nil ELSE e.resources.limits)
    /\ h.placement = (IF e.placement = Nil \/ e.placement.constraints = {}
                      THEN Nil ELSE e.placement.constraints)
    /\ h.update = (IF e.update = Nil THEN Nil ELSE e.update.parallelism)
    /\ h.ports = {NormalPort(p) : p \in
                    IF e.endpoint = Nil THEN {} ELSE e.endpoint.ports}
LEMMA FromFields ==
  ASSUME NEW e
  PROVE  ReadAs(e, FromSwarm(e))
BY ZenonT(60) DEF ReadAs, FromSwarm, Normalize
LEMMA FromNetworks ==
  ASSUME NEW e, {n.id : n \in e.networks} # {}
  PROVE  FromSwarm(e).networks = {n.id : n \in e.networks}
BY DEF FromSwarm, Normalize
LEMMA FromRestart ==
  ASSUME NEW e, NEW d,
         d = (IF e.restart = Nil THEN Nil
              ELSE [e.restart EXCEPT !.delay = IF @ = Nil THEN 0 ELSE @]),
         d = Nil \/ d.cond # ""
  PROVE  FromSwarm(e).restart = d
BY ZenonT(60) DEF FromSwarm, Normalize
LEMMA FromLabels ==
  ASSUME NEW e, NEW l, l = Only(e.labels, DOMAIN e.labels \ (Scoped \cup {Namespace})),
         NEW st, st = (IF StackKey \in DOMAIN e.labels THEN e.labels[StackKey] ELSE "")
  PROVE  /\ FromSwarm(e).deployLabels = (IF Keys(l) = {} THEN Nil ELSE l)
         /\ FromSwarm(e).labels = PrefixOf(st, Only(e.labels, Scoped))
BY DEF FromSwarm, Normalize, PrefixOf, Prefix

\* The labels under the prefix read back as those of the declaration, the others
\* hold its deploy labels.
LEMMA LabelsReadBack ==
  ASSUME NEW r \in Raws, NEW w, w = Normalize(Stack, r), ~Unstable(w),
         NEW e, Carries(e.labels, w)
  PROVE  /\ FromSwarm(e).labels = w.labels
         /\ \A k \in Keys(w.deployLabels) :
              /\ k \in Keys(FromSwarm(e).deployLabels)
              /\ FromSwarm(e).deployLabels[k] = w.deployLabels[k]
<1> DEFINE L == e.labels
           W == w.labels
           D == w.deployLabels
           st == IF StackKey \in DOMAIN L THEN L[StackKey] ELSE ""
           o == Only(L, Scoped)
           others == Only(L, DOMAIN L \ (Scoped \cup {Namespace}))
           H == FromSwarm(e).labels
           HD == FromSwarm(e).deployLabels
<1>1. NormalOf(r, w)
  BY NormalFields, Zenon
<1>2. W = PrefixOf(Stack, r.labels)
  BY <1>1 DEF NormalOf
<1>3. /\ HD = (IF Keys(others) = {} THEN Nil ELSE others)
      /\ H = PrefixOf(st, o)
  BY FromLabels
<1>4. /\ {Managed, StackKey} \subseteq DOMAIN W /\ DOMAIN W \subseteq Scoped
      /\ W[Managed] = "true" /\ W[StackKey] = Stack
  BY NormalLabels
<1>5. /\ IsLabels(L)
      /\ \A k \in Keys(D) : k \in DOMAIN L /\ L[k] = D[k]
      /\ \A k \in Scoped : /\ k \in DOMAIN L <=> k \in DOMAIN W
                           /\ k \in DOMAIN L => L[k] = W[k]
  BY DEF Carries
<1>6. Keys(D) \cap (Scoped \cup {Namespace}) = {}
  BY DEF Unstable
<1>7. \A ks : /\ DOMAIN Only(L, ks) = DOMAIN L \cap ks
              /\ \A k \in DOMAIN L \cap ks : Only(L, ks)[k] = L[k]
              /\ IsLabels(Only(L, ks))
  <2> SUFFICES ASSUME NEW ks
               PROVE  /\ DOMAIN Only(L, ks) = DOMAIN L \cap ks
                      /\ \A k \in DOMAIN L \cap ks : Only(L, ks)[k] = L[k]
                      /\ IsLabels(Only(L, ks))
    OBVIOUS
  <2> HIDE DEF L
  <2>1. Only(L, ks) = [k \in DOMAIN L \cap ks |-> L[k]]
    BY <1>5, LabelsAreMaps, Zenon DEF Only
  <2>2. \A k \in DOMAIN L : L[k] \in LabelValues /\ k \in LabelKeys
    BY <1>5 DEF IsLabels
  <2> QED
    BY <2>1, <2>2 DEF IsLabels
<1>8. Keys(o) = DOMAIN o /\ Keys(others) = DOMAIN others
  BY <1>7, LabelsAreMaps, Zenon
<1> HIDE DEF L, W, D, o, H, HD, others
<1>9. st = Stack
  <2>1. StackKey \in DOMAIN W /\ StackKey \in Scoped /\ W[StackKey] = Stack
    BY <1>4
  <2>2. StackKey \in DOMAIN L /\ L[StackKey] = W[StackKey]
    BY <1>5, <2>1, Zenon
  <2> QED
    BY <2>1, <2>2, Zenon
<1> HIDE DEF st
<1>10. H = W
  <2>0. H = PrefixOf(st, o)
    BY <1>3
  <2>1. /\ DOMAIN H = {Managed, StackKey} \cup (Keys(o) \cap Scoped)
        /\ H[Managed] = "true" /\ H[StackKey] = st
        /\ \A k \in (Keys(o) \cap Scoped) \ {Managed, StackKey} : H[k] = o[k]
    <3> DEFINE X == PrefixOf(st, o)
    <3>1. /\ DOMAIN X = {Managed, StackKey} \cup (Keys(o) \cap Scoped)
          /\ X[Managed] = "true" /\ X[StackKey] = st
          /\ \A k \in (Keys(o) \cap Scoped) \ {Managed, StackKey} : X[k] = o[k]
      BY PrefixLabels, SMTT(30)
    <3>2. H = X
      BY <2>0
    <3> HIDE DEF X
    <3> QED
      BY <3>1, <3>2, Zenon
  <2>2. DOMAIN o = DOMAIN L \cap Scoped /\ \A k \in DOMAIN L \cap Scoped : o[k] = L[k]
    BY <1>7, Zenon DEF o
  <2>3. DOMAIN H = DOMAIN W
    <3>1. DOMAIN L \cap Scoped = DOMAIN W
      BY <1>4, <1>5
    <3> QED
      BY <1>4, <1>8, <2>1, <2>2, <3>1
  <2>4. \A k \in DOMAIN W : H[k] = W[k]
    <3> SUFFICES ASSUME NEW k \in DOMAIN W PROVE H[k] = W[k]
      OBVIOUS
    <3>1. CASE k \in {Managed, StackKey}
      BY <1>4, <1>9, <2>1, <3>1, Zenon
    <3>2. CASE k \notin {Managed, StackKey}
      <4>1. k \in Scoped /\ k \in DOMAIN L /\ L[k] = W[k]
        BY <1>4, <1>5
      <4>2. k \in DOMAIN L \cap Scoped /\ k \in (Keys(o) \cap Scoped) \ {Managed, StackKey}
        BY <1>8, <2>2, <3>2, <4>1
      <4> QED
        BY <2>1, <2>2, <4>1, <4>2, Zenon
    <3> QED
      BY <3>1, <3>2
  <2>5. H = [k \in DOMAIN H |-> H[k]] /\ W = [k \in DOMAIN W |-> W[k]]
    BY <1>2, <1>3 DEF PrefixOf, Over
  <2> QED
    BY <2>3, <2>4, <2>5
<1>11. \A k \in Keys(D) : k \in Keys(HD) /\ HD[k] = D[k]
  <2> SUFFICES ASSUME NEW k \in Keys(D) PROVE k \in Keys(HD) /\ HD[k] = D[k]
    OBVIOUS
  <2>1. k \in DOMAIN L \ (Scoped \cup {Namespace}) /\ L[k] = D[k]
    BY <1>5, <1>6 DEF D
  <2>2. k \in DOMAIN others /\ others[k] = L[k]
    BY <1>7, <2>1 DEF others
  <2>3. HD = others
    BY <1>3, <1>8, <2>2
  <2> QED
    BY <1>8, <2>1, <2>2, <2>3
<1> QED
  BY <1>10, <1>11 DEF H, W, D, HD

\* What swarmgate wrote reads back as the declaration.
LEMMA ReadBack ==
  ASSUME NEW r \in Raws, NEW w, w = Normalize(Stack, r), ~Unstable(w),
         NEW e, Holds(e, w)
  PROVE  Changed(w, FromSwarm(e)) = {}
<1> DEFINE h == FromSwarm(e)
<1>n. NormalOf(r, w)
  BY NormalFields, Zenon
<1>h. ReadAs(e, h)
  BY FromFields, Zenon
<1>a. w.mode = "replicated" /\ w.grace \in Nat /\ Nil \notin Int /\ w.placement # {}
  <2>1. w.mode = "replicated" /\ ~(w.grace < 0)
    BY DEF Unstable
  <2>2. Nil \notin Int
    BY NilAssumption
  <2>3. r.grace \in Int /\ r.placement # {}
    BY RawAssumption
  <2>4. w.grace = r.grace /\ w.placement = r.placement
    BY <1>n DEF NormalOf
  <2> QED
    BY <2>1, <2>2, <2>3, <2>4
<1>1. /\ w.plain = h.plain /\ w.entrypoint = h.entrypoint
      /\ w.command = h.command /\ w.secrets = h.secrets
  BY <1>h DEF Holds, ReadAs
<1>2. w.health = h.health
  BY <1>n, <1>h DEF Holds, NormalOf, ReadAs
<1>3. w.replicas = h.replicas /\ w.mode = h.mode
  <2>1. e.mode = [kind |-> w.mode, n |-> w.replicas]
    BY <1>a DEF Holds
  <2>2. /\ h.replicas = (IF e.mode.kind = "replicated" THEN e.mode.n ELSE 0)
        /\ h.mode = (IF e.mode.kind = "" THEN "replicated" ELSE e.mode.kind)
    BY <1>h DEF ReadAs
  <2> QED
    BY <1>a, <2>1, <2>2
<1>4. w.grace = h.grace
  <2>1. e.grace = (IF w.grace > 0 THEN w.grace ELSE Nil)
    BY DEF Holds
  <2>2. h.grace = (IF e.grace = Nil THEN 0 ELSE e.grace)
    BY <1>h DEF ReadAs
  <2> QED
    BY <1>a, <2>1, <2>2
<1>5. w.volumes = h.volumes
  <2>1. \A m \in w.volumes : m.type \in {"volume", "bind"}
    BY <1>n, RawAssumption DEF NormalOf
  <2>2. h.volumes = {m \in w.volumes : m.type \in {"volume", "bind"}}
    BY <1>h DEF Holds, ReadAs
  <2> QED
    BY <2>1, <2>2
<1>6. w.configs = h.configs
  <2>1. \A c \in w.configs : /\ c = [x \in {"source", "target", "mode"} |-> c[x]]
                            /\ c.mode # ReadAll
    BY <1>n, RawAssumption DEF Unstable, NormalOf
  <2>2. h.configs = {[c EXCEPT !.mode = IF @ = ReadAll THEN 0 ELSE @] :
                       c \in w.configs}
    BY <1>h DEF Holds, ReadAs
  <2>3. \A c \in w.configs : [c EXCEPT !.mode = IF @ = ReadAll THEN 0 ELSE @] = c
    BY <2>1
  <2> QED
    BY <2>2, <2>3
<1>7. w.resources = h.resources /\ w.update = h.update
  <2>1. /\ Nil # [limits |-> w.resources, reservations |-> Nil]
        /\ Nil # [parallelism |-> w.update, order |-> ""]
    BY <1>n, NilAssumption DEF NormalOf
  <2>2. /\ e.resources = (IF w.resources = Nil THEN Nil
                          ELSE [limits |-> w.resources, reservations |-> Nil])
        /\ e.update = (IF w.update = Nil THEN Nil
                       ELSE [parallelism |-> w.update, order |-> ""])
    BY DEF Holds
  <2>3. /\ h.resources = (IF e.resources = Nil THEN Nil ELSE e.resources.limits)
        /\ h.update = (IF e.update = Nil THEN Nil ELSE e.update.parallelism)
    BY <1>h DEF ReadAs
  <2>4. w.resources = h.resources
    <3>1. CASE w.resources = Nil
      BY <2>2, <2>3, <3>1
    <3>2. CASE w.resources # Nil
      <4>1. e.resources = [limits |-> w.resources, reservations |-> Nil]
        BY <2>2, <3>2, Zenon
      <4>2. h.resources = e.resources.limits
        BY <2>1, <2>3, <4>1, Zenon
      <4> QED
        BY <4>1, <4>2
    <3> QED
      BY <3>1, <3>2
  <2>5. w.update = h.update
    <3>1. CASE w.update = Nil
      BY <2>2, <2>3, <3>1
    <3>2. CASE w.update # Nil
      <4>1. e.update = [parallelism |-> w.update, order |-> ""]
        BY <2>2, <3>2, Zenon
      <4>2. h.update = e.update.parallelism
        BY <2>1, <2>3, <4>1, Zenon
      <4>3. \A x, y : [parallelism |-> x, order |-> y].parallelism = x
        OBVIOUS
      <4> QED
        BY <4>1, <4>2, <4>3, Zenon
    <3> QED
      BY <3>1, <3>2
  <2> QED
    BY <2>4, <2>5
<1>8. w.placement = h.placement
  <2>1. Nil # [constraints |-> w.placement, preferences |-> {}]
    BY <1>n, NilAssumption DEF NormalOf
  <2>2. e.placement = (IF w.placement = Nil THEN Nil
                      ELSE [constraints |-> w.placement, preferences |-> {}])
    BY DEF Holds
  <2>3. h.placement = (IF e.placement = Nil \/ e.placement.constraints = {}
                      THEN Nil ELSE e.placement.constraints)
    BY <1>h DEF ReadAs
  <2> QED
    BY <1>a, <2>1, <2>2, <2>3
<1>9. w.networks = h.networks
  <2>1. w.networks # {}
    BY <1>n DEF NormalOf
  <2>2. e.networks = {[id |-> n] : n \in w.networks}
    BY DEF Holds
  <2>3. {n.id : n \in e.networks} = w.networks
    <3>1. \A m : [id |-> m].id = m
      OBVIOUS
    <3>2. ASSUME NEW m \in w.networks PROVE m \in {n.id : n \in e.networks}
      BY <2>2, <3>1, Zenon
    <3>3. ASSUME NEW m \in {n.id : n \in e.networks} PROVE m \in w.networks
      <4> PICK n \in e.networks : m = n.id
        BY <3>3
      <4> PICK k \in w.networks : n = [id |-> k]
        BY <2>2
      <4> QED
        BY <3>1, Zenon
    <3> QED
      BY <3>2, <3>3
  <2> QED
    BY <2>1, <2>3, FromNetworks
<1>10. w.ports = h.ports
  <2>1. w.ports = {NormalPort(p) : p \in r.ports}
    BY <1>n DEF NormalOf
  <2>2. \A p \in r.ports : NormalPort(NormalPort(p)) = NormalPort(p)
    BY RawAssumption, ZenonT(60) DEF NormalPort
  <2>3. (IF e.endpoint = Nil THEN {} ELSE e.endpoint.ports) = w.ports
    <3>1. Nil \notin Endpoints({w.ports})
      BY <2>1, NilAssumption
    <3> QED
      BY <3>1 DEF Holds, Endpoints
  <2>4. h.ports = {NormalPort(p) : p \in w.ports}
    BY <2>3, <1>h DEF ReadAs
  <2> QED
    BY <2>1, <2>2, <2>4
<1>11. w.restart = h.restart
  <2>1. r.restart = Nil \/ r.restart \in [cond : Conditions, delay : Int]
    BY RawAssumption
  <2>2. /\ w.restart = (IF r.restart # Nil /\ r.restart.cond = ""
                        THEN [r.restart EXCEPT !.cond = "any"] ELSE r.restart)
        /\ ~(w.restart # Nil /\ w.restart.delay < 0)
    BY <1>n DEF Unstable, NormalOf
  <2>3. "any" \in Conditions /\ Nil \notin [cond : Conditions, delay : Int \cup {Nil}]
    BY NilAssumption DEF Conditions
  <2> DEFINE rr == r.restart
             wr == w.restart
             er == e.restart
  <2> HIDE DEF rr, wr, er
  <2>4. \/ wr = Nil
        \/ wr \in [cond : Conditions, delay : Nat] /\ wr.cond # ""
    <3>1. rr = Nil \/ rr \in [cond : Conditions, delay : Int]
      BY <2>1 DEF rr
    <3>2. wr = (IF rr # Nil /\ rr.cond = "" THEN [rr EXCEPT !.cond = "any"] ELSE rr)
      BY <2>2 DEF rr, wr
    <3>3. ~(wr # Nil /\ wr.delay < 0)
      BY <2>2 DEF wr
    <3>4. CASE rr = Nil
      BY <3>2, <3>4
    <3>5. CASE rr # Nil /\ rr.cond = ""
      <4>1. wr = [rr EXCEPT !.cond = "any"]
        BY <3>2, <3>5
      <4>2. rr \in [cond : Conditions, delay : Int]
        BY <3>1, <3>5
      <4>3. wr \in [cond : Conditions, delay : Int] /\ wr.cond = "any"
        BY <2>3, <4>1, <4>2
      <4> QED
        BY <3>3, <4>3
    <3>6. CASE rr # Nil /\ rr.cond # ""
      <4>1. wr = rr
        BY <3>2, <3>6, Zenon
      <4>2. rr \in [cond : Conditions, delay : Int] /\ ~(rr.delay < 0)
        BY <3>1, <3>3, <3>6, <4>1
      <4> QED
        <5>1. rr \in [cond : Conditions, delay : Nat]
          BY <4>2
        <5> QED
          BY <3>6, <4>1, <5>1, Zenon
    <3> QED
      BY <3>4, <3>5, <3>6
  <2>5. er = (IF wr = Nil THEN Nil
              ELSE [wr EXCEPT !.delay = IF @ > 0 THEN @ ELSE Nil])
    BY DEF Holds, er, wr
  <2> DEFINE d == IF er = Nil THEN Nil
                  ELSE [er EXCEPT !.delay = IF @ = Nil THEN 0 ELSE @]
  <2>6. d = wr
    <3>1. CASE wr = Nil
      BY <2>5, <3>1
    <3>2. CASE wr \in [cond : Conditions, delay : Nat] /\ wr # Nil
      <4>1. er = [wr EXCEPT !.delay = IF @ > 0 THEN @ ELSE Nil]
        BY <2>5, <3>2, Zenon
      <4>2. er \in [cond : Conditions, delay : Int \cup {Nil}]
        BY <3>2, <4>1
      <4>3. d = [er EXCEPT !.delay = IF @ = Nil THEN 0 ELSE @]
        BY <2>3, <4>2, Zenon
      <4>4. /\ d = [cond |-> er.cond, delay |-> IF er.delay = Nil THEN 0 ELSE er.delay]
            /\ er.cond = wr.cond
            /\ er.delay = IF wr.delay > 0 THEN wr.delay ELSE Nil
        BY <3>2, <4>1, <4>2, <4>3
      <4>5. wr = [cond |-> wr.cond, delay |-> wr.delay] /\ wr.delay \in Nat
        BY <3>2
      <4> QED
        BY <1>a, <4>4, <4>5
    <3> QED
      BY <2>4, <3>1, <3>2
  <2> HIDE DEF d
  <2>7. d = (IF e.restart = Nil THEN Nil
             ELSE [e.restart EXCEPT !.delay = IF @ = Nil THEN 0 ELSE @])
    BY DEF d, er
  <2> QED
    BY <2>4, <2>6, <2>7, FromRestart, Zenon DEF wr
<1>c. Carries(e.labels, w)
  BY DEF Holds
<1>12. w.labels = h.labels
  BY <1>c, LabelsReadBack, Zenon
<1>13. \A k \in Keys(w.deployLabels) :
         k \in Keys(h.deployLabels) /\ h.deployLabels[k] = w.deployLabels[k]
  BY <1>c, LabelsReadBack, Zenon
<1> QED
  <2> SUFFICES ASSUME NEW f \in Fields, f # "deployLabels" PROVE w[f] = h[f]
    <3>1. DOMAIN w = Fields
      BY <1>n DEF NormalOf
    <3> QED
      BY <1>13, <3>1 DEF Changed, Lookup
  <2> HIDE DEF h
  <2> QED
    BY <1>1, <1>2, <1>3, <1>4, <1>5, <1>6, <1>7, <1>8, <1>9, <1>10, <1>11, <1>12
       DEF Fields

LEMMA NormalWant == AllSpec => [](part = "swarm" => WantInv)
<1>1. AllInit => (part = "swarm" => WantInv)
  BY DEF AllInit, Init, WantInv
<1>2. (part = "swarm" => WantInv) /\ [AllNext]_allVars
        => (part = "swarm" => WantInv)'
  <2> SUFFICES ASSUME WantInv, Next \/ UNCHANGED vars PROVE WantInv'
    BY DEF AllNext, allVars
  <2>1. UNCHANGED want \/ \E r \in Raws : want' = Normalize(Stack, r)
    BY DEF Next, Write, Create, Update, RemoveToRecreate, Declare, Edit, vars
  <2> QED
    BY <2>1 DEF WantInv
<1> QED
  BY <1>1, <1>2, PTL DEF AllSpec

\* Create writes the declaration, and so does an update of a service in order.
LEMMA CreateHolds ==
  ASSUME NEW r \in Raws, NEW w, w = Normalize(Stack, r), ~Unstable(w)
  PROVE  Holds(ToSwarm(w), w)
<1> DEFINE n == ToSwarm(w)
<1>1. Carries(n.labels, w)
  BY NormalLabels, LabelsWritten
<1>2. n.endpoint = (IF w.ports = {} THEN Nil ELSE [mode |-> "", ports |-> w.ports])
  BY DEF ToSwarm
<1>3. [mode |-> "", ports |-> w.ports] \in Endpoints({w.ports})
  BY DEF Endpoints
<1>4. \/ n.endpoint = Nil /\ w.ports = {}
      \/ n.endpoint \in Endpoints({w.ports})
  BY <1>2, <1>3, Zenon
<1> QED
  BY <1>1, <1>4 DEF Holds, ToSwarm
LEMMA UpdateHolds ==
  ASSUME NEW r \in Raws, NEW w, w = Normalize(Stack, r), ~Unstable(w),
         NEW e, IsLabels(e.labels),
         e.endpoint = Nil \/ e.endpoint \in Endpoints({e.endpoint.ports})
  PROVE  Holds(Overwrite(e, w), w)
<1> DEFINE n == ToSwarm(w)
           u == Overwrite(e, w)
<1>1. Carries(MergeLabels(e.labels, n.labels), w)
  BY LabelsWritten
<1>2. Holds(n, w)
  BY CreateHolds
<1>3. \/ n.endpoint = Nil /\ w.ports = {}
      \/ n.endpoint \in Endpoints({w.ports})
  BY <1>2, Zenon DEF Holds
<1>4. /\ u.labels = MergeLabels(e.labels, n.labels)
      /\ u.endpoint = (IF e.endpoint # Nil THEN [e.endpoint EXCEPT !.ports = w.ports]
                       ELSE n.endpoint)
  BY DEF Overwrite, ToSwarm
<1>5. \/ u.endpoint = Nil /\ w.ports = {}
      \/ u.endpoint \in Endpoints({w.ports})
  <2>1. e.endpoint # Nil => [e.endpoint EXCEPT !.ports = w.ports] \in Endpoints({w.ports})
    BY DEF Endpoints
  <2> QED
    BY <1>3, <1>4, <2>1, Zenon
<1>6. /\ u.plain = n.plain /\ u.health = n.health /\ u.command = n.command
      /\ u.args = n.args /\ u.grace = n.grace /\ u.mounts = n.mounts
      /\ u.configs = n.configs /\ u.secrets = n.secrets /\ u.mode = n.mode /\ u.restart = n.restart
      /\ u.resources = n.resources /\ u.placement = n.placement
      /\ u.update = n.update /\ u.networks = n.networks
  BY DEF Overwrite, ToSwarm
<1> HIDE DEF n, u
<1>7. Holds(u, w)
  BY <1>1, <1>2, <1>4, <1>5, <1>6 DEF Holds
<1> QED
  BY <1>7 DEF u

\* Two maps of labels make one.
LEMMA LabelsJoin ==
  ASSUME NEW f, IsLabels(f), NEW g, IsLabels(g)
  PROVE  IsLabels(Over(f, g))
<1>1. /\ \A k \in DOMAIN f : f[k] \in LabelValues /\ k \in LabelKeys
      /\ \A k \in DOMAIN g : g[k] \in LabelValues /\ k \in LabelKeys
  BY DEF IsLabels
<1>2. Over(f, g) = [k \in DOMAIN f \cup DOMAIN g |->
                      IF k \in DOMAIN f THEN f[k] ELSE g[k]]
  BY DEF Over
<1> QED
  BY <1>1, <1>2 DEF IsLabels
LEMMA LabelsCut ==
  ASSUME NEW m, m = Nil \/ IsLabels(m), NEW ks
  PROVE  IsLabels(Only(m, ks))
<1>1. \A k \in Keys(m) : m[k] \in LabelValues /\ k \in LabelKeys
  BY DEF IsLabels, Keys
<1> QED
  BY <1>1 DEF IsLabels, Only

LEMMA ServiceInOrder == AllSpec => [](part = "swarm" => SvcInv)
<1>1. AllInit => (part = "swarm" => SvcInv)
  BY DEF AllInit, Init, SvcInv
<1>2. (part = "swarm" => WantInv /\ SvcInv) /\ [AllNext]_allVars
        => (part = "swarm" => SvcInv)'
  <2> SUFFICES ASSUME WantInv, SvcInv, Next \/ UNCHANGED vars PROVE SvcInv'
    BY DEF AllNext, allVars
  <2> PICK r \in Raws : want = Normalize(Stack, r)
    BY DEF WantInv
  <2> DEFINE n == ToSwarm(want)
  <2>1. want.deployLabels = Nil \/ IsLabels(want.deployLabels)
    BY NormalLabels
  <2>2. IsLabels(want.labels)
    BY NormalLabels
  <2>3. IsLabels(n.labels)
    BY <2>1, <2>2, LabelsCut, LabelsJoin DEF ToSwarm
  <2>4. n.endpoint = Nil \/ n.endpoint \in Endpoints({n.endpoint.ports})
    BY DEF ToSwarm, Endpoints
  <2>5. {"labels", "endpoint", "dns"} \subseteq DOMAIN n
    BY DEF ToSwarm
  <2>6. CASE Create
    <3>1. svc' = n
      BY <2>6 DEF Create
    <3> HIDE DEF n
    <3> QED
      BY <2>3, <2>4, <2>5, <3>1 DEF SvcInv
  <2>7. CASE Update
    <3>1. svc' = Overwrite(svc, want) /\ svc # Nil
      BY <2>7 DEF Update, Visible
    <3>2. /\ IsLabels(svc.labels)
          /\ svc.endpoint = Nil \/ svc.endpoint \in Endpoints({svc.endpoint.ports})
      BY <3>1 DEF SvcInv
    <3> DEFINE u == Overwrite(svc, want)
    <3>3. /\ {"labels", "endpoint", "dns"} \subseteq DOMAIN u
          /\ u.labels = MergeLabels(svc.labels, n.labels)
          /\ u.endpoint = (IF svc.endpoint # Nil
                           THEN [svc.endpoint EXCEPT !.ports = want.ports]
                           ELSE n.endpoint)
      BY DEF Overwrite, ToSwarm
    <3>4. IsLabels(u.labels)
      BY <2>3, <3>2, <3>3, LabelsCut, LabelsJoin DEF MergeLabels
    <3>5. u.endpoint = Nil \/ u.endpoint \in Endpoints({u.endpoint.ports})
      <4>1. CASE svc.endpoint = Nil
        BY <2>4, <3>3, <4>1, Zenon
      <4>2. CASE svc.endpoint # Nil
        <5>1. svc.endpoint \in Endpoints({svc.endpoint.ports})
          BY <3>2, <4>2
        <5>2. u.endpoint = [svc.endpoint EXCEPT !.ports = want.ports]
          BY <3>3, <4>2, Zenon
        <5> HIDE DEF u
        <5> QED
          BY <5>1, <5>2 DEF Endpoints
      <4> QED
        BY <4>1, <4>2
    <3> HIDE DEF u
    <3>6. svc' = u
      BY <3>1 DEF u
    <3> QED
      BY <3>3, <3>4, <3>5, <3>6 DEF SvcInv
  <2>8. CASE RemoveToRecreate
    BY <2>8 DEF RemoveToRecreate, SvcInv
  <2>9. ASSUME NEW q \in Raws, Declare(q) PROVE SvcInv'
    BY <2>9 DEF Declare, SvcInv
  <2>10. ASSUME NEW d \in Edits, Edit(d) PROVE SvcInv'
    <3>1. /\ svc # Nil
          /\ svc' = [f \in DOMAIN svc |->
                 IF f \notin DOMAIN d THEN svc[f]
                 ELSE IF f = "labels" THEN Over(d[f], svc[f]) ELSE d[f]]
      BY <2>10 DEF Edit
    <3>2. /\ {"labels", "endpoint", "dns"} \subseteq DOMAIN svc
          /\ IsLabels(svc.labels)
          /\ svc.endpoint = Nil \/ svc.endpoint \in Endpoints({svc.endpoint.ports})
      BY <3>1 DEF SvcInv
    <3>3. /\ DOMAIN svc' = DOMAIN svc
          /\ svc'.labels = IF "labels" \in DOMAIN d THEN Over(d["labels"], svc.labels)
                           ELSE svc.labels
          /\ svc'.endpoint = IF "endpoint" \in DOMAIN d THEN d["endpoint"]
                             ELSE svc.endpoint
      BY <3>1, <3>2
    <3>4. IsLabels(svc'.labels)
      BY <3>2, <3>3, EditAssumption, LabelsJoin
    <3>5. svc'.endpoint = Nil \/ svc'.endpoint \in Endpoints({svc'.endpoint.ports})
      BY <3>2, <3>3, EditAssumption
    <3> QED
      BY <3>2, <3>3, <3>4, <3>5 DEF SvcInv
  <2>11. CASE UNCHANGED vars
    BY <2>11 DEF vars, SvcInv
  <2> QED
    BY <2>6, <2>7, <2>8, <2>9, <2>10, <2>11 DEF Next, Write
<1> QED
  BY <1>1, <1>2, NormalWant, PTL DEF AllSpec

\* What swarmgate writes it finds labelled and unchanged in the next cycle,
\* whatever edits the service carried, for every declaration that the engine's
\* form can give back: the action property of the runs.
THEOREM WritesReadBack == AllSpec => WritesSettle
<1>1. (part = "swarm" => WantInv /\ SvcInv) => (part = "swarm" => SettledWrite)
  <2> SUFFICES ASSUME WantInv, SvcInv, Write, ~Unstable(want)
               PROVE  Labelled(svc') /\ Changed(want, FromSwarm(svc')) = {}
    BY DEF SettledWrite
  <2> PICK r \in Raws : want = Normalize(Stack, r)
    BY DEF WantInv
  <2>1. Holds(svc', want)
    <3>1. CASE Create
      BY <3>1, CreateHolds DEF Create
    <3>2. CASE Update
      <4>1. svc' = Overwrite(svc, want) /\ svc # Nil
        BY <3>2 DEF Update, Visible
      <4>2. /\ IsLabels(svc.labels)
            /\ svc.endpoint = Nil \/ svc.endpoint \in Endpoints({svc.endpoint.ports})
        BY <4>1 DEF SvcInv
      <4> QED
        BY <4>1, <4>2, UpdateHolds
    <3> QED
      BY <3>1, <3>2 DEF Write
  <2>2. Changed(want, FromSwarm(svc')) = {}
    BY <2>1, ReadBack
  <2>3. Labelled(svc')
    <3>1. Carries(svc'.labels, want)
      BY <2>1 DEF Holds
    <3>2. Managed \in Scoped /\ Managed \in DOMAIN want.labels
          /\ want.labels[Managed] = "true"
      BY NormalLabels
    <3> QED
      BY <3>1, <3>2, Zenon DEF Carries, Labelled
  <2> QED
    BY <2>2, <2>3
<1>2. (part = "swarm" => WantInv) /\ (part = "swarm" => SvcInv)
        => [part = "swarm" => SettledWrite]_vars
  BY <1>1
<1> QED
  BY <1>2, NormalWant, ServiceInOrder, PTL DEF WritesSettle

\* An update keeps the labels of other tools, the container settings without a
\* field in the model and the resolution mode of the endpoint, for every service
\* and every declaration: the action property of the runs.  Reservations, placement
\* preferences, the order of an update and mounts of other types are not among
\* what it keeps.
THEOREM OthersSurvive == AllSpec => ForeignSurvives
<1>1. (part = "swarm" => WantInv) /\ (part = "swarm" => SvcInv)
        => [part = "swarm" => ForeignKept]_vars
  <2> SUFFICES ASSUME WantInv, SvcInv, Update PROVE ForeignKept
    BY DEF ForeignKept
  <2> PICK r \in Raws : want = Normalize(Stack, r)
    BY DEF WantInv
  <2> DEFINE n == ToSwarm(want)
             o == Only(svc.labels, DOMAIN svc.labels \ Scoped)
  <2>1. svc' = Overwrite(svc, want) /\ svc # Nil
    BY DEF Update, Visible
  <2>2. svc'.labels = Over(n.labels, o) /\ svc'.dns = svc.dns
    BY <2>1 DEF Overwrite, ToSwarm, MergeLabels
  <2>3. DOMAIN n.labels \subseteq Keys(want.deployLabels) \cup Scoped
    <3>1. DOMAIN want.labels \subseteq Scoped
      BY NormalLabels
    <3>2. n.labels = Over(Only(want.deployLabels, Keys(want.deployLabels)), want.labels)
      BY DEF ToSwarm
    <3> QED
      BY <3>1, <3>2 DEF Over, Only
  <2>4. IsLabels(svc.labels)
    BY <2>1 DEF SvcInv
  <2>5. /\ DOMAIN o = DOMAIN svc.labels \ Scoped
        /\ \A k \in DOMAIN o : o[k] = svc.labels[k]
    BY <2>4, LabelsAreMaps DEF Only
  <2>6. ASSUME svc.endpoint # Nil
        PROVE  svc'.endpoint # Nil /\ svc'.endpoint.mode = svc.endpoint.mode
    <3>1. svc.endpoint \in Endpoints({svc.endpoint.ports})
      BY <2>1, <2>6 DEF SvcInv
    <3>2. svc'.endpoint = [svc.endpoint EXCEPT !.ports = want.ports]
      BY <2>1, <2>6 DEF Overwrite, ToSwarm
    <3>3. /\ svc'.endpoint \in Endpoints({want.ports})
          /\ svc'.endpoint.mode = svc.endpoint.mode
      BY <3>1, <3>2 DEF Endpoints
    <3>4. Nil \notin Endpoints({want.ports})
      BY NormalFields, NilAssumption DEF NormalOf
    <3> QED
      BY <3>3, <3>4
  <2> HIDE DEF n, o
  <2>7. ASSUME NEW k \in DOMAIN svc.labels \ (Scoped \cup Keys(want.deployLabels))
        PROVE  k \in DOMAIN svc'.labels /\ svc'.labels[k] = svc.labels[k]
    BY <2>2, <2>3, <2>5, <2>7 DEF Over
  <2> QED
    BY <2>2, <2>6, <2>7 DEF ForeignKept
<1> QED
  BY <1>1, NormalWant, ServiceInOrder, PTL DEF ForeignSurvives

-------------------------------------------------------------------------------
(* The plan and its verdicts. *)

\* A slice of changes in the order of the plan.
Ordered(q) ==
    /\ q \in Seq(P!Change)
    /\ \A j, k \in DOMAIN q : j < k => P!Before(q[j], q[k])
In(q) == P!ToSet(q)

LEMMA BeforeIsStrict ==
  ASSUME NEW c \in P!Change, NEW d \in P!Change, P!Before(c, d)
  PROVE  ~P!Before(d, c) /\ c # d
<1>1. P!Group(c) \in 0..3 /\ P!Group(d) \in 0..3
  BY DEF P!Group, P!Change
<1>2. c.svc \in Nat /\ d.svc \in Nat
  BY PlanAssumption DEF P!Change
<1>3. c # d
  BY <1>1, <1>2 DEF P!Before
<1> QED
  BY <1>1, <1>2, <1>3 DEF P!Before

\* Slices of which one lies before the other join in order.
LEMMA OrderedJoin ==
  ASSUME NEW q, Ordered(q), NEW r, Ordered(r),
         \A c \in In(q), d \in In(r) : P!Before(c, d)
  PROVE  Ordered(q \o r) /\ In(q \o r) = In(q) \cup In(r)
<1>1. q \in Seq(P!Change) /\ r \in Seq(P!Change)
  BY DEF Ordered
<1>2. /\ q \o r \in Seq(P!Change) /\ DOMAIN q = 1..Len(q) /\ DOMAIN r = 1..Len(r)
      /\ DOMAIN (q \o r) = 1..(Len(q) + Len(r)) /\ Len(q) \in Nat /\ Len(r) \in Nat
      /\ \A k \in DOMAIN q : (q \o r)[k] = q[k]
      /\ \A k \in DOMAIN (q \o r) : k \notin DOMAIN q =>
           k - Len(q) \in DOMAIN r /\ (q \o r)[k] = r[k - Len(q)]
      /\ \A k \in DOMAIN r : Len(q) + k \in DOMAIN (q \o r) /\ (q \o r)[Len(q) + k] = r[k]
  BY <1>1
<1> DEFINE s == q \o r
<1> HIDE DEF s
<1>3. \A j, k \in DOMAIN s : j < k => P!Before(s[j], s[k])
  <2> SUFFICES ASSUME NEW j \in DOMAIN s, NEW k \in DOMAIN s, j < k
               PROVE  P!Before(s[j], s[k])
    OBVIOUS
  <2>1. CASE k \in DOMAIN q
    BY <1>2, <2>1 DEF s, Ordered
  <2>2. CASE j \notin DOMAIN q
    <3>1. k \notin DOMAIN q /\ j - Len(q) < k - Len(q)
      BY <1>2, <2>2 DEF s
    <3> QED
      BY <1>2, <2>2, <3>1 DEF s, Ordered
  <2>3. CASE j \in DOMAIN q /\ k \notin DOMAIN q
    BY <1>2, <2>3 DEF s, In, P!ToSet
  <2> QED
    BY <2>1, <2>2, <2>3
<1>4. In(s) = In(q) \cup In(r)
  <2>1. ASSUME NEW c \in In(s) PROVE c \in In(q) \cup In(r)
    BY <1>2 DEF s, In, P!ToSet
  <2>2. ASSUME NEW c \in In(q) PROVE c \in In(s)
    <3>1. PICK k \in DOMAIN q : c = q[k]
      BY <2>2 DEF In, P!ToSet
    <3>2. k \in DOMAIN (q \o r)
      <4>1. k \in 1..Len(q) /\ Len(q) \in Nat /\ Len(r) \in Nat
        BY <1>2
      <4>2. k \in 1..(Len(q) + Len(r))
        BY <4>1
      <4> QED
        BY <1>2, <4>2
    <3>3. (q \o r)[k] = c
      BY <1>2, <3>1
    <3> QED
      BY <3>2, <3>3 DEF s, In, P!ToSet
  <2>3. ASSUME NEW c \in In(r) PROVE c \in In(s)
    <3>1. PICK k \in DOMAIN r : c = r[k]
      BY <2>3 DEF In, P!ToSet
    <3>2. Len(q) + k \in DOMAIN (q \o r) /\ (q \o r)[Len(q) + k] = c
      BY <1>2, <3>1
    <3> QED
      BY <3>2, Zenon DEF s, In, P!ToSet
  <2> QED
    BY <2>1, <2>2, <2>3
<1> QED
  BY <1>2, <1>3, <1>4 DEF Ordered, s

LEMMA OneIsOrdered ==
  ASSUME NEW c \in P!Change
  PROVE  Ordered(<<c>>) /\ In(<<c>>) = {c}
<1>1. <<c>> \in Seq(P!Change) /\ DOMAIN <<c>> = {1} /\ <<c>>[1] = c
  OBVIOUS
<1> QED
  BY <1>1 DEF Ordered, In, P!ToSet

LEMMA TwoAreOrdered ==
  ASSUME NEW c \in P!Change, NEW d \in P!Change, P!Before(c, d)
  PROVE  Ordered(<<c, d>>) /\ In(<<c, d>>) = {c, d}
<1>1. /\ <<c, d>> \in Seq(P!Change) /\ DOMAIN <<c, d>> = {1, 2}
      /\ <<c, d>>[1] = c /\ <<c, d>>[2] = d
  OBVIOUS
<1> QED
  BY <1>1 DEF Ordered, In, P!ToSet

LEMMA OrderedAppend ==
  ASSUME NEW q, Ordered(q), NEW c \in P!Change, \A d \in In(q) : P!Before(d, c)
  PROVE  Ordered(Append(q, c)) /\ In(Append(q, c)) = In(q) \cup {c}
<1>1. Append(q, c) = q \o <<c>>
  BY DEF Ordered
<1> QED
  BY <1>1, OneIsOrdered, OrderedJoin

LEMMA NoneIsOrdered == Ordered(<<>>) /\ In(<<>>) = {}
<1>1. <<>> \in Seq(P!Change) /\ DOMAIN <<>> = {}
  OBVIOUS
<1> QED
  BY <1>1 DEF Ordered, In, P!ToSet

\* Order and contents settle a slice: what comes before stands before.
LEMMA OrderedPlaces ==
  ASSUME NEW q, Ordered(q), NEW j \in DOMAIN q, NEW k \in DOMAIN q
  PROVE  /\ P!Before(q[j], q[k]) => j < k
         /\ q[j] = q[k] => j = k
<1>1. j \in Nat /\ k \in Nat /\ q[j] \in P!Change /\ q[k] \in P!Change
  BY DEF Ordered
<1>2. CASE j < k
  BY <1>1, <1>2, BeforeIsStrict DEF Ordered
<1>3. CASE k < j
  BY <1>1, <1>3, BeforeIsStrict DEF Ordered
<1>4. CASE j = k
  BY <1>1, <1>4, BeforeIsStrict
<1> QED
  BY <1>1, <1>2, <1>3, <1>4

-------------------------------------------------------------------------------
(* plan(): each loop adds one group of the proposed changes, by name. *)

Proposed == P!Plan(declared, have, prune)
Loops == P!PlanLoops
\* The group of changes that a loop adds; what comes after has them all.
Turn(st) ==
    IF st = "diff" THEN -1 ELSE IF st = "recreates" THEN 0
    ELSE IF st = "creates" THEN 1 ELSE IF st = "updates" THEN 2
    ELSE IF st = "removes" THEN 3 ELSE 4
Changeable ==
    /\ declared \in [Services -> P!ServiceSpec \cup {None}]
    /\ have \in [Services -> P!ServiceSpec \cup {None}]
    /\ prune \in BOOLEAN

\* What a loop adds for a service is proposed, and all that is proposed is added by
\* some loop.
LEMMA AddedInOrder ==
  ASSUME Changeable, NEW st \in Loops, NEW s \in P!Visited(st)
  PROVE  /\ Ordered(P!Added(st, s)) /\ s \in Services
         /\ \A c \in In(P!Added(st, s)) : P!Group(c) = Turn(st) /\ c.svc = s
                                          /\ c \in Proposed
<1>1. CASE st = "recreates"
  <2> DEFINE a == P!Chg("remove", s, have[s], TRUE)
             b == P!Chg("create", s, declared[s], TRUE)
  <2>1. /\ s \in P!Updates(declared, have)
        /\ P!AttachmentOnly(declared[s], have[s])
    BY <1>1 DEF P!Visited, P!Recreated
  <2>2. s \in Services /\ declared[s] \in P!ServiceSpec /\ have[s] \in P!ServiceSpec
    BY <2>1 DEF P!Updates, Changeable
  <2>3. a \in P!Change /\ b \in P!Change
    BY <2>2 DEF P!Chg, P!Change
  <2>4. a \in Proposed /\ b \in Proposed
    BY <2>1 DEF Proposed, P!Plan, P!PlanRemoving
  <2>5. P!Group(a) = 0 /\ P!Group(b) = 0 /\ a.svc = s /\ b.svc = s
        /\ a.act = "remove" /\ b.act = "create"
    BY DEF P!Group, P!Chg
  <2>6. P!Before(a, b)
    BY <2>5 DEF P!Before
  <2> HIDE DEF a, b
  <2>8. Ordered(<<a, b>>) /\ In(<<a, b>>) = {a, b}
    BY <2>3, <2>6, TwoAreOrdered
  <2>9. P!Added(st, s) = <<a, b>>
    BY <1>1 DEF P!Added, P!Pair, a, b
  <2> QED
    BY <1>1, <2>2, <2>4, <2>5, <2>8, <2>9 DEF Turn
<1>2. CASE st = "creates"
  <2> DEFINE a == P!Chg("create", s, declared[s], FALSE)
  <2>1. s \in P!Creates(declared, have)
    BY <1>2 DEF P!Visited
  <2>2. s \in Services /\ declared[s] \in P!ServiceSpec
    BY <2>1 DEF P!Creates, Changeable
  <2>3. a \in P!Change
    BY <2>2 DEF P!Chg, P!Change
  <2>4. a \in Proposed
    BY <2>1 DEF Proposed, P!Plan, P!PlanRemoving
  <2>5. P!Group(a) = 1 /\ a.svc = s
    BY DEF P!Group, P!Chg
  <2>6. P!Added(st, s) = <<a>>
    BY <1>2 DEF P!Added
  <2> HIDE DEF a
  <2> QED
    BY <1>2, <2>2, <2>3, <2>4, <2>5, <2>6, OneIsOrdered DEF Turn
<1>3. CASE st = "updates"
  <2> DEFINE a == P!Chg("update", s, declared[s], FALSE)
  <2>1. s \in P!Updates(declared, have) /\ ~P!AttachmentOnly(declared[s], have[s])
    BY <1>3 DEF P!Visited, P!Recreated
  <2>2. s \in Services /\ declared[s] \in P!ServiceSpec
    BY <2>1 DEF P!Updates, Changeable
  <2>3. a \in P!Change
    BY <2>2 DEF P!Chg, P!Change
  <2>4. a \in Proposed
    BY <2>1 DEF Proposed, P!Plan, P!PlanRemoving
  <2>5. P!Group(a) = 2 /\ a.svc = s
    BY DEF P!Group, P!Chg
  <2>6. P!Added(st, s) = <<a>>
    BY <1>3 DEF P!Added
  <2> HIDE DEF a
  <2> QED
    BY <1>3, <2>2, <2>3, <2>4, <2>5, <2>6, OneIsOrdered DEF Turn
<1>4. CASE st = "removes"
  <2> DEFINE a == P!Chg("remove", s, have[s], FALSE)
  <2>1. s \in (IF prune THEN P!Removes(declared, have) ELSE {})
    BY <1>4 DEF P!Visited
  <2>2. s \in Services /\ have[s] \in P!ServiceSpec
    BY <2>1 DEF P!Removes, Changeable
  <2>3. a \in P!Change
    BY <2>2 DEF P!Chg, P!Change
  <2>4. a \in Proposed
    BY <2>1 DEF Proposed, P!Plan, P!PlanRemoving
  <2>5. P!Group(a) = 3 /\ a.svc = s
    BY DEF P!Group, P!Chg
  <2>6. P!Added(st, s) = <<a>>
    BY <1>4 DEF P!Added
  <2> HIDE DEF a
  <2> QED
    BY <1>4, <2>2, <2>3, <2>4, <2>5, <2>6, OneIsOrdered DEF Turn
<1> QED
  BY <1>1, <1>2, <1>3, <1>4 DEF Loops, P!PlanLoops

LEMMA ProposedIsAdded ==
  ASSUME Changeable, NEW c \in Proposed
  PROVE  \E st \in Loops : /\ c.svc \in P!Visited(st)
                           /\ c \in In(P!Added(st, c.svc))
<1> DEFINE gone == IF prune THEN P!Removes(declared, have) ELSE {}
<1>1. \/ \E s \in P!Recreated : c \in {P!Chg("remove", s, have[s], TRUE),
                                     P!Chg("create", s, declared[s], TRUE)}
      \/ \E s \in P!Creates(declared, have) : c = P!Chg("create", s, declared[s], FALSE)
      \/ \E s \in P!Updates(declared, have) \ P!Recreated :
            c = P!Chg("update", s, declared[s], FALSE)
      \/ \E s \in gone : c = P!Chg("remove", s, have[s], FALSE)
  BY DEF Proposed, P!Plan, P!PlanRemoving, P!Recreated
<1>2. \A a, b : /\ DOMAIN <<a>> = {1} /\ <<a>>[1] = a
               /\ DOMAIN <<a, b>> = {1, 2} /\ <<a, b>>[1] = a /\ <<a, b>>[2] = b
  OBVIOUS
<1>3. \A a, b : In(<<a>>) = {a} /\ In(<<a, b>>) = {a, b}
  BY <1>2 DEF In, P!ToSet
<1>4. ASSUME NEW s \in P!Recreated, c \in {P!Chg("remove", s, have[s], TRUE),
                                          P!Chg("create", s, declared[s], TRUE)}
      PROVE  c.svc \in P!Visited("recreates") /\ c \in In(P!Added("recreates", c.svc))
  <2>1. c.svc = s
    BY <1>4 DEF P!Chg
  <2>2. P!Added("recreates", s) = <<P!Chg("remove", s, have[s], TRUE),
                                    P!Chg("create", s, declared[s], TRUE)>>
    BY DEF P!Added, P!Pair
  <2>3. P!Visited("recreates") = P!Recreated
    BY DEF P!Visited
  <2>4. c \in In(P!Added("recreates", s))
    BY <1>3, <1>4, <2>2, Zenon
  <2> QED
    BY <2>1, <2>3, <2>4
<1>5. ASSUME NEW s \in P!Creates(declared, have), c = P!Chg("create", s, declared[s], FALSE)
      PROVE  c.svc \in P!Visited("creates") /\ c \in In(P!Added("creates", c.svc))
  <2>1. c.svc = s
    BY <1>5 DEF P!Chg
  <2>2. P!Added("creates", s) = <<P!Chg("create", s, declared[s], FALSE)>>
    BY DEF P!Added
  <2>3. s \in P!Visited("creates")
    BY <1>5 DEF P!Visited
  <2>4. c \in In(P!Added("creates", s))
    BY <1>3, <1>5, <2>2, Zenon
  <2> QED
    BY <2>1, <2>3, <2>4
<1>6. ASSUME NEW s \in P!Updates(declared, have) \ P!Recreated,
             c = P!Chg("update", s, declared[s], FALSE)
      PROVE  c.svc \in P!Visited("updates") /\ c \in In(P!Added("updates", c.svc))
  <2>1. c.svc = s
    BY <1>6 DEF P!Chg
  <2>2. P!Added("updates", s) = <<P!Chg("update", s, declared[s], FALSE)>>
    BY DEF P!Added
  <2>3. s \in P!Visited("updates")
    BY <1>6 DEF P!Visited
  <2>4. c \in In(P!Added("updates", s))
    BY <1>3, <1>6, <2>2, Zenon
  <2> QED
    BY <2>1, <2>3, <2>4
<1>7. ASSUME NEW s \in gone, c = P!Chg("remove", s, have[s], FALSE)
      PROVE  c.svc \in P!Visited("removes") /\ c \in In(P!Added("removes", c.svc))
  <2>1. c.svc = s
    BY <1>7 DEF P!Chg
  <2>2. P!Added("removes", s) = <<P!Chg("remove", s, have[s], FALSE)>>
    BY DEF P!Added
  <2>3. s \in P!Visited("removes")
    BY <1>7 DEF P!Visited
  <2>4. c \in In(P!Added("removes", s))
    BY <1>3, <1>7, <2>2, Zenon
  <2> QED
    BY <2>1, <2>3, <2>4
<1> QED
  BY <1>1, <1>4, <1>5, <1>6, <1>7 DEF Loops, P!PlanLoops

-------------------------------------------------------------------------------
\* The slice holds what the loops so far have proposed, and the loop in hand goes
\* by name.
SliceInv ==
    /\ Ordered(changes)
    /\ In(changes) = {c \in Proposed : \/ P!Group(c) < Turn(stage)
                                       \/ /\ P!Group(c) = Turn(stage)
                                          /\ c.svc \notin names}
    /\ stage \in Loops => /\ names \subseteq P!Visited(stage)
                          /\ \A s \in P!Visited(stage) \ names, t \in names : s < t
    /\ stage \notin Loops => names = {}
\* The stages of verify(), and where the indexes of the loops may be.
Later == {"send", "mark", "collect", "done", "failed"}
Planning ==
    /\ Changeable /\ SliceInv
    /\ stage \in {"diff"} \cup Loops \cup Later
    /\ i \in Nat \ {0}
    /\ stage \in Later => i <= Len(changes) + 1
    /\ stage \notin Later => i = 1

LEMMA GroupsAreTurns ==
  ASSUME Changeable, NEW c \in Proposed
  PROVE  /\ c \in P!Change /\ c.svc \in Services /\ c.recreate \in BOOLEAN
         /\ \E st \in Loops : P!Group(c) = Turn(st) /\ c.svc \in P!Visited(st)
<1>1. PICK st \in Loops : c.svc \in P!Visited(st) /\ c \in In(P!Added(st, c.svc))
  BY ProposedIsAdded
<1>2. Ordered(P!Added(st, c.svc)) /\ P!Group(c) = Turn(st)
  BY <1>1, AddedInOrder
<1>3. c \in P!Change
  BY <1>1, <1>2 DEF Ordered, In, P!ToSet
<1> QED
  BY <1>1, <1>2, <1>3 DEF P!Change

LEMMA VisitKeeps ==
  ASSUME Planning, P!Visit
  PROVE  SliceInv'
<1> PICK s \in names : /\ \A t \in names : s <= t
                       /\ changes' = changes \o P!Added(stage, s)
                       /\ names' = names \ {s}
  BY DEF P!Visit
<1> DEFINE a == P!Added(stage, s)
<1>1. /\ stage \in Loops /\ stage' = stage /\ declared' = declared
      /\ have' = have /\ prune' = prune
  BY DEF P!Visit, P!inputs, Loops
<1>2. s \in P!Visited(stage) /\ names \subseteq P!Visited(stage)
  BY <1>1 DEF Planning, SliceInv
<1>3. /\ Ordered(a) /\ s \in Services
      /\ \A c \in In(a) : P!Group(c) = Turn(stage) /\ c.svc = s /\ c \in Proposed
  BY <1>1, <1>2, AddedInOrder DEF Planning
<1>4. P!Visited(stage) \subseteq Nat
  <2> SUFFICES ASSUME NEW t \in P!Visited(stage) PROVE t \in Nat
    OBVIOUS
  <2> QED
    BY <1>1, AddedInOrder, PlanAssumption DEF Planning
<1>5. \A c \in Proposed : /\ c \in P!Change
                          /\ P!Group(c) = Turn(stage) => c.svc \in P!Visited(stage)
                          /\ P!Group(c) \in Int
  <2> SUFFICES ASSUME NEW c \in Proposed
               PROVE  /\ c \in P!Change /\ P!Group(c) \in Int
                      /\ P!Group(c) = Turn(stage) => c.svc \in P!Visited(stage)
    OBVIOUS
  <2>1. PICK st \in Loops : P!Group(c) = Turn(st) /\ c.svc \in P!Visited(st)
    BY GroupsAreTurns DEF Planning
  <2>2. Turn(st) = Turn(stage) => st = stage
    BY <1>1 DEF Turn, Loops, P!PlanLoops
  <2>3. Turn(st) \in Int
    BY DEF Turn
  <2> QED
    BY <2>1, <2>2, <2>3, GroupsAreTurns DEF Planning
<1>6. \A c \in In(changes), d \in In(a) : P!Before(c, d)
  <2> SUFFICES ASSUME NEW c \in In(changes), NEW d \in In(a) PROVE P!Before(c, d)
    OBVIOUS
  <2>1. /\ c \in Proposed
        /\ \/ P!Group(c) < Turn(stage)
           \/ P!Group(c) = Turn(stage) /\ c.svc \notin names
    BY DEF Planning, SliceInv
  <2>2. P!Group(d) = Turn(stage) /\ d.svc = s
    BY <1>3
  <2>3. P!Group(c) = Turn(stage) => c.svc < s
    BY <1>1, <1>5, <2>1 DEF Planning, SliceInv
  <2> QED
    BY <2>1, <2>2, <2>3 DEF P!Before
<1>7. Ordered(changes') /\ In(changes') = In(changes) \cup In(a)
  <2> HIDE DEF a
  <2> QED
    BY <1>3, <1>6, OrderedJoin DEF Planning, SliceInv, a
<1>8. \A c \in Proposed : P!Group(c) = Turn(stage) /\ c.svc = s => c \in In(a)
  <2> SUFFICES ASSUME NEW c \in Proposed, P!Group(c) = Turn(stage), c.svc = s
               PROVE  c \in In(a)
    OBVIOUS
  <2>1. PICK st \in Loops : c.svc \in P!Visited(st) /\ c \in In(P!Added(st, c.svc))
    BY ProposedIsAdded DEF Planning
  <2>2. P!Group(c) = Turn(st)
    BY <2>1, AddedInOrder DEF Planning
  <2>3. st = stage
    BY <1>1, <2>2 DEF Turn, Loops, P!PlanLoops
  <2> QED
    BY <2>1, <2>3
<1>9. Proposed' = Proposed /\ P!Visited(stage)' = P!Visited(stage)
  BY <1>1 DEF Proposed, P!Visited, P!Recreated
<1> HIDE DEF a
<1>10. In(changes') = {c \in Proposed : \/ P!Group(c) < Turn(stage)
                                       \/ /\ P!Group(c) = Turn(stage)
                                          /\ c.svc \notin names'}
  <2>1. In(changes) = {c \in Proposed : \/ P!Group(c) < Turn(stage)
                                       \/ /\ P!Group(c) = Turn(stage)
                                          /\ c.svc \notin names}
    BY DEF Planning, SliceInv
  <2>2. \A c \in In(a) : c \in Proposed /\ P!Group(c) = Turn(stage) /\ c.svc = s
    BY <1>3
  <2> QED
    BY <1>7, <1>8, <2>1, <2>2
<1>11. \A t \in P!Visited(stage) \ names', u \in names' : t < u
  BY <1>1, <1>2, <1>4 DEF Planning, SliceInv
<1> QED
  BY <1>1, <1>2, <1>7, <1>9, <1>10, <1>11 DEF SliceInv

LEMMA EnterKeeps ==
  ASSUME Planning, P!EnterLoop
  PROVE  SliceInv' /\ stage' \in Loops
<1>1. /\ stage' = P!NextLoop(stage) /\ names' = P!Visited(P!NextLoop(stage))
      /\ changes' = changes /\ declared' = declared /\ have' = have
      /\ prune' = prune
      /\ stage \in {"diff", "recreates", "creates", "updates"}
      /\ names = {}
  BY DEF P!EnterLoop, P!inputs, P!PlanLoops, Planning, SliceInv, Loops
<1>2. stage' \in Loops /\ Turn(stage') = Turn(stage) + 1 /\ Turn(stage) \in Int
  BY <1>1 DEF P!NextLoop, Turn, Loops, P!PlanLoops
<1>3. Proposed' = Proposed /\ names' = P!Visited(stage)'
  BY <1>1 DEF Proposed, P!Visited, P!Recreated
<1>4. \A c \in Proposed : /\ P!Group(c) \in Int
                          /\ P!Group(c) = Turn(stage') => c.svc \in names'
  <2> SUFFICES ASSUME NEW c \in Proposed
               PROVE  /\ P!Group(c) \in Int
                      /\ P!Group(c) = Turn(stage') => c.svc \in names'
    OBVIOUS
  <2>1. PICK st \in Loops : P!Group(c) = Turn(st) /\ c.svc \in P!Visited(st)
    BY GroupsAreTurns DEF Planning
  <2>2. Turn(st) = Turn(stage') => st = stage'
    BY <1>2 DEF Turn, Loops, P!PlanLoops
  <2>3. Turn(st) \in Int
    BY DEF Turn
  <2> QED
    BY <1>1, <2>1, <2>2, <2>3
<1>5. In(changes') = {c \in Proposed : \/ P!Group(c) < Turn(stage')
                                      \/ /\ P!Group(c) = Turn(stage')
                                         /\ c.svc \notin names'}
  <2>1. In(changes) = {c \in Proposed : \/ P!Group(c) < Turn(stage)
                                       \/ /\ P!Group(c) = Turn(stage)
                                          /\ c.svc \notin names}
    BY DEF Planning, SliceInv
  <2>2. ASSUME NEW c \in Proposed
        PROVE  (P!Group(c) < Turn(stage) \/ P!Group(c) = Turn(stage))
                 <=> (P!Group(c) < Turn(stage'))
    BY <1>2, <1>4
  <2> QED
    BY <1>1, <1>4, <2>1, <2>2
<1> QED
  BY <1>1, <1>2, <1>3, <1>5 DEF SliceInv, Planning

LEMMA ReturnKeeps ==
  ASSUME Planning, P!PlanReturns
  PROVE  SliceInv'
<1>1. /\ stage = "removes" /\ names = {} /\ stage' = "send" /\ names' = names
      /\ changes' = changes /\ declared' = declared /\ have' = have
      /\ prune' = prune
  BY DEF P!PlanReturns, P!inputs, P!planned
<1>2. Proposed' = Proposed
  BY <1>1 DEF Proposed
<1>3. stage' \notin Loops /\ Turn(stage) = 3 /\ Turn(stage') = 4
  BY <1>1 DEF Turn, Loops, P!PlanLoops
<1>4. \A c \in Proposed : P!Group(c) \in 0..3
  <2> SUFFICES ASSUME NEW c \in Proposed PROVE P!Group(c) \in 0..3
    OBVIOUS
  <2>1. PICK st \in Loops : P!Group(c) = Turn(st)
    BY GroupsAreTurns DEF Planning
  <2> QED
    BY <2>1 DEF Turn, Loops, P!PlanLoops
<1>5. In(changes) = {c \in Proposed : \/ P!Group(c) < 3
                                     \/ (P!Group(c) = 3 /\ c.svc \notin {})}
  BY <1>1, <1>3 DEF Planning, SliceInv
<1>6. In(changes') = {c \in Proposed : \/ P!Group(c) < 4
                                      \/ (P!Group(c) = 4 /\ c.svc \notin {})}
  BY <1>1, <1>4, <1>5
<1> QED
  BY <1>1, <1>2, <1>3, <1>6 DEF SliceInv, Planning

\* verify() leaves the slice alone.
Judging == P!Send \/ P!GetVerdicts \/ P!GateFails \/ P!MarkRemoval \/ P!MarkVerified
           \/ P!MarksEnd \/ P!Collect \/ P!VerifyReturns
LEMMA JudgingLeaves ==
  ASSUME Judging
  PROVE  /\ UNCHANGED <<declared, have, prune, names, changes>>
         /\ stage \in Later /\ stage' \in Later
BY DEF Judging, Later, P!Send, P!GetVerdicts, P!GateFails, P!MarkRemoval,
       P!MarkVerified, P!MarksEnd, P!Collect, P!VerifyReturns, P!AtChange, P!LoopEnds,
       P!inputs, P!planned

LEMMA PlanningHolds == AllSpec => [](part = "plan" => Planning)
<1>1. AllInit => (part = "plan" => Planning)
  <2> SUFFICES ASSUME P!Init PROVE Planning
    BY DEF AllInit
  <2>1. /\ declared \in [Services -> P!ServiceSpec \cup {None}]
        /\ have \in [Services -> P!ServiceSpec \cup {None}]
        /\ prune \in BOOLEAN
        /\ stage = "diff" /\ names = {} /\ changes = <<>> /\ i = 1
    BY DEF P!Init
  <2>2. Changeable
    BY <2>1 DEF Changeable
  <2>3. In(changes) = {} /\ Ordered(changes)
    BY <2>1, NoneIsOrdered
  <2>4. \A c \in Proposed : P!Group(c) \in 0..3
    <3> SUFFICES ASSUME NEW c \in Proposed PROVE P!Group(c) \in 0..3
      OBVIOUS
    <3>1. PICK st \in Loops : P!Group(c) = Turn(st)
      BY <2>2, GroupsAreTurns
    <3> QED
      BY <3>1 DEF Turn, Loops, P!PlanLoops
  <2>5. stage \notin Loops /\ Turn(stage) = -1 /\ stage \notin Later
    BY <2>1 DEF Loops, P!PlanLoops, Turn, Later
  <2>6. {c \in Proposed : \/ P!Group(c) < -1
                          \/ (P!Group(c) = -1 /\ c.svc \notin names)} = {}
    BY <2>4
  <2> QED
    BY <2>1, <2>2, <2>3, <2>5, <2>6 DEF Planning, SliceInv
<1>2. (part = "plan" => Planning) /\ [AllNext]_allVars => (part = "plan" => Planning)'
  <2> SUFFICES ASSUME Planning, P!Next \/ UNCHANGED planVars PROVE Planning'
    BY DEF AllNext, allVars
  <2>1. CASE P!Visit
    <3>1. /\ stage \in Loops /\ stage' = stage /\ i' = i /\ declared' = declared
          /\ have' = have /\ prune' = prune
      BY <2>1 DEF P!Visit, P!inputs, Loops
    <3> QED
      BY <2>1, <3>1, VisitKeeps DEF Planning, Changeable, Loops, P!PlanLoops, Later
  <2>2. CASE P!EnterLoop
    <3>1. /\ stage' \in Loops /\ stage \notin Later /\ i' = i /\ declared' = declared
          /\ have' = have /\ prune' = prune
      BY <2>2, EnterKeeps DEF P!EnterLoop, P!inputs, P!PlanLoops, Later
    <3> QED
      BY <2>2, <3>1, EnterKeeps DEF Planning, Changeable, Loops, P!PlanLoops, Later
  <2>3. CASE P!PlanReturns
    <3>1. /\ stage = "removes" /\ stage' = "send" /\ i' = i /\ declared' = declared
          /\ have' = have /\ prune' = prune /\ changes' = changes
      BY <2>3 DEF P!PlanReturns, P!inputs, P!planned
    <3>2. Len(changes) \in Nat
      BY DEF Planning, SliceInv, Ordered
    <3> QED
      BY <2>3, <3>1, <3>2, ReturnKeeps DEF Planning, Changeable, Loops, P!PlanLoops, Later
  <2>4. CASE Judging
    <3>1. /\ UNCHANGED <<declared, have, prune, names, changes>>
          /\ stage \in Later /\ stage' \in Later
      BY <2>4, JudgingLeaves
    <3>2. Turn(stage) = 4 /\ Turn(stage') = 4 /\ stage \notin Loops /\ stage' \notin Loops
      BY <3>1 DEF Later, Loops, P!PlanLoops, Turn
    <3>3. Proposed' = Proposed /\ Changeable'
      BY <3>1 DEF Proposed, Planning, Changeable
    <3>4. SliceInv'
      BY <3>1, <3>2, <3>3 DEF Planning, SliceInv
    <3>5. \/ i <= Len(changes) /\ i' = i + 1
          \/ i' = 1
      BY <2>4 DEF Judging, P!Send, P!GetVerdicts, P!GateFails, P!MarkRemoval, P!MarkVerified,
                  P!MarksEnd, P!Collect, P!VerifyReturns, P!AtChange, P!LoopEnds
    <3>6. i' \in Nat \ {0} /\ i' <= Len(changes') + 1
      <4>1. Len(changes) \in Nat
        BY DEF Planning, SliceInv, Ordered
      <4> QED
        BY <3>1, <3>5, <4>1 DEF Planning
    <3> QED
      BY <3>1, <3>3, <3>4, <3>6 DEF Planning
  <2>5. CASE UNCHANGED planVars
    BY <2>5 DEF planVars, Planning, Changeable, SliceInv, Proposed, P!Visited,
                P!Recreated
  <2> QED
    BY <2>1, <2>2, <2>3, <2>4, <2>5 DEF P!Next, Judging
<1> QED
  BY <1>1, <1>2, PTL DEF AllSpec

-------------------------------------------------------------------------------
\* What the plan proposes for a service.
LEMMA ProposedForms ==
  ASSUME Changeable, NEW c \in Proposed
  PROVE  \/ /\ c.svc \in P!Recreated /\ c.recreate
            /\ c = P!Chg("remove", c.svc, have[c.svc], TRUE)
         \/ /\ c.svc \in P!Recreated /\ c.recreate
            /\ c = P!Chg("create", c.svc, declared[c.svc], TRUE)
         \/ /\ c.svc \in P!Creates(declared, have) /\ ~c.recreate
            /\ c = P!Chg("create", c.svc, declared[c.svc], FALSE)
         \/ /\ c.svc \in P!Updates(declared, have) \ P!Recreated /\ ~c.recreate
            /\ c = P!Chg("update", c.svc, declared[c.svc], FALSE)
         \/ /\ c.svc \in P!Removes(declared, have) /\ ~c.recreate
            /\ c = P!Chg("remove", c.svc, have[c.svc], FALSE)
<1> DEFINE gone == IF prune THEN P!Removes(declared, have) ELSE {}
<1>1. \/ \E s \in P!Recreated : \/ c = P!Chg("remove", s, have[s], TRUE)
                               \/ c = P!Chg("create", s, declared[s], TRUE)
      \/ \E s \in P!Creates(declared, have) : c = P!Chg("create", s, declared[s], FALSE)
      \/ \E s \in P!Updates(declared, have) \ P!Recreated :
            c = P!Chg("update", s, declared[s], FALSE)
      \/ \E s \in gone : c = P!Chg("remove", s, have[s], FALSE)
  BY DEF Proposed, P!Plan, P!PlanRemoving, P!Recreated
<1>2. gone \subseteq P!Removes(declared, have)
  OBVIOUS
<1>3. ASSUME NEW s \in P!Recreated, c = P!Chg("remove", s, have[s], TRUE)
      PROVE  c.svc = s /\ c.recreate
  BY <1>3 DEF P!Chg
<1>4. ASSUME NEW s \in P!Recreated, c = P!Chg("create", s, declared[s], TRUE)
      PROVE  c.svc = s /\ c.recreate
  BY <1>4 DEF P!Chg
<1>5. ASSUME NEW s, c = P!Chg("create", s, declared[s], FALSE)
      PROVE  c.svc = s /\ ~c.recreate
  BY <1>5 DEF P!Chg
<1>6. ASSUME NEW s, c = P!Chg("update", s, declared[s], FALSE)
      PROVE  c.svc = s /\ ~c.recreate
  BY <1>6 DEF P!Chg
<1>7. ASSUME NEW s, c = P!Chg("remove", s, have[s], FALSE)
      PROVE  c.svc = s /\ ~c.recreate
  BY <1>7 DEF P!Chg
<1> HIDE DEF gone
<1> QED
  BY <1>1, <1>2, <1>3, <1>4, <1>5, <1>6, <1>7, ZenonT(60)

\* No service has two proposed changes that are awaited.
LEMMA OneEach ==
  ASSUME Changeable, NEW c \in Proposed, NEW d \in Proposed, c.svc = d.svc,
         P!Awaited(c), P!Awaited(d)
  PROVE  c = d
<1> DEFINE s == c.svc
<1>1. \A x : P!Awaited(x) => x # P!Chg("remove", s, have[s], TRUE)
  BY DEF P!Awaited, P!Chg
<1>2. c # P!Chg("remove", s, have[s], TRUE) /\ d # P!Chg("remove", s, have[s], TRUE)
  BY <1>1
<1>3. /\ ~(s \in P!Recreated /\ s \in P!Creates(declared, have))
      /\ ~(s \in P!Recreated /\ s \in P!Removes(declared, have))
      /\ ~(s \in P!Updates(declared, have) /\ s \in P!Creates(declared, have))
      /\ ~(s \in P!Updates(declared, have) /\ s \in P!Removes(declared, have))
      /\ ~(s \in P!Creates(declared, have) /\ s \in P!Removes(declared, have))
  BY DEF P!Recreated, P!Updates, P!Creates, P!Removes
<1>4. /\ \/ s \in P!Recreated /\ c = P!Chg("create", s, declared[s], TRUE)
         \/ s \in P!Creates(declared, have) /\ c = P!Chg("create", s, declared[s], FALSE)
         \/ /\ s \in P!Updates(declared, have) \ P!Recreated
            /\ c = P!Chg("update", s, declared[s], FALSE)
         \/ s \in P!Removes(declared, have) /\ c = P!Chg("remove", s, have[s], FALSE)
  BY <1>2, ProposedForms
<1>5. /\ \/ s \in P!Recreated /\ d = P!Chg("create", s, declared[s], TRUE)
         \/ s \in P!Creates(declared, have) /\ d = P!Chg("create", s, declared[s], FALSE)
         \/ /\ s \in P!Updates(declared, have) \ P!Recreated
            /\ d = P!Chg("update", s, declared[s], FALSE)
         \/ s \in P!Removes(declared, have) /\ d = P!Chg("remove", s, have[s], FALSE)
  BY <1>2, ProposedForms
<1> HIDE DEF s
<1>6. CASE s \in P!Recreated /\ c = P!Chg("create", s, declared[s], TRUE)
  BY <1>3, <1>5, <1>6, Zenon
<1>7. CASE s \in P!Creates(declared, have) /\ c = P!Chg("create", s, declared[s], FALSE)
  BY <1>3, <1>5, <1>7, Zenon
<1>8. CASE /\ s \in P!Updates(declared, have) \ P!Recreated
           /\ c = P!Chg("update", s, declared[s], FALSE)
  BY <1>3, <1>5, <1>8, Zenon
<1>9. CASE s \in P!Removes(declared, have) /\ c = P!Chg("remove", s, have[s], FALSE)
  BY <1>3, <1>5, <1>9, Zenon
<1> QED
  BY <1>4, <1>6, <1>7, <1>8, <1>9

\* The create that belongs to the removal of a recreate; nothing lies between.
LEMMA CreateFollows ==
  ASSUME Changeable, NEW c \in Proposed, c.act = "remove", c.recreate
  PROVE  \E d \in Proposed : /\ d.act = "create" /\ d.recreate /\ d.svc = c.svc
                             /\ P!Before(c, d)
                             /\ \A e \in Proposed : ~(P!Before(c, e) /\ P!Before(e, d))
<1> DEFINE s == c.svc
           d == P!Chg("create", s, declared[s], TRUE)
<1>1. s \in P!Recreated
  BY ProposedForms DEF P!Chg
<1>2. d \in Proposed
  BY <1>1 DEF Proposed, P!Plan, P!PlanRemoving, P!Recreated
<1>3. d.act = "create" /\ d.recreate /\ d.svc = s
  BY DEF P!Chg
<1> HIDE DEF d
<1>4. P!Group(c) = 0 /\ P!Group(d) = 0
  BY <1>3 DEF P!Group
<1>5. P!Before(c, d)
  BY <1>3, <1>4 DEF P!Before
<1>6. ASSUME NEW e \in Proposed, P!Before(c, e), P!Before(e, d) PROVE FALSE
  <2>1. s \in Nat /\ e.svc \in Nat
    BY GroupsAreTurns, PlanAssumption
  <2>2. P!Group(e) \in 0..3
    <3>1. PICK st \in Loops : P!Group(e) = Turn(st)
      BY GroupsAreTurns
    <3> QED
      BY <3>1 DEF Turn, Loops, P!PlanLoops
  <2>3. e.svc = s /\ e.act = "create"
    BY <1>3, <1>4, <1>6, <2>1, <2>2 DEF P!Before
  <2> QED
    BY <1>3, <1>4, <1>6, <2>1, <2>2, <2>3 DEF P!Before
<1> QED
  BY <1>2, <1>3, <1>5, <1>6

-------------------------------------------------------------------------------
(* verify(): the batch holds what is not a removal, in order; verifyIndex is   *)
(* the number of its changes that the marking loop has met.                    *)

Marking == {"mark", "collect", "done"}
\* How far the three loops of verify() have come.
Sent == IF stage \in Marking \cup {"failed"} THEN Len(changes) ELSE i - 1
MarkedTo == IF stage = "mark" THEN i - 1
            ELSE IF stage \in Marking THEN Len(changes) ELSE 0
Collected == IF stage = "collect" THEN i - 1
             ELSE IF stage = "done" THEN Len(changes) ELSE 0
Met(c) == \E j \in 1..(i - 1) : changes[j] = c
Passing == P!Passed(Proposed, P!Verdict)

AskedInv ==
    /\ Ordered(toVerify)
    /\ In(toVerify) = {changes[j] : j \in {k \in 1..Sent : changes[k].act # "remove"}}
    /\ stage \in Marking => passByIndex \in [DOMAIN toVerify -> BOOLEAN]
IndexInv ==
    /\ stage \notin Marking => verifyIndex = 0
    /\ stage = "mark" => /\ verifyIndex \in 0..Len(toVerify)
                         /\ \A k \in DOMAIN toVerify :
                              k <= verifyIndex <=> Met(toVerify[k])
MarksInv ==
    /\ passedByChange \in Seq(BOOLEAN) /\ Len(passedByChange) = MarkedTo
    /\ \A j \in 1..MarkedTo : passedByChange[j] <=> changes[j] \in Passing
CollectInv ==
    /\ Ordered(passed)
    /\ In(passed) = {changes[j] : j \in {k \in 1..Collected : changes[k] \in Passing}}

LEMMA LenOfAnswers ==
  ASSUME NEW T, NEW q \in Seq(T), NEW f \in [DOMAIN q -> BOOLEAN]
  PROVE  Len(f) = Len(q)
<1>1. Len(q) \in Nat /\ DOMAIN q = 1..Len(q)
  OBVIOUS
<1>2. f \in Seq(BOOLEAN) /\ DOMAIN f = 1..Len(q)
  BY <1>1, SeqDef
<1>3. Len(f) \in Nat /\ DOMAIN f = 1..Len(f)
  BY <1>2
<1> QED
  BY <1>1, <1>2, <1>3

\* A change of the batch passes if its own verdict says so.
LEMMA OwnVerdict ==
  ASSUME Planning, AskedInv, stage \in Marking, NEW k \in DOMAIN toVerify
  PROVE  <<toVerify[k].svc, toVerify[k].spec.img>> \in P!Verdict <=> passByIndex[k]
<1>1. \A j \in DOMAIN toVerify : /\ toVerify[j] \in Proposed
                                /\ P!Awaited(toVerify[j])
  <2> SUFFICES ASSUME NEW j \in DOMAIN toVerify
               PROVE  toVerify[j] \in Proposed /\ P!Awaited(toVerify[j])
    OBVIOUS
  <2>1. toVerify[j] \in In(toVerify)
    BY DEF In, P!ToSet
  <2>2. PICK n \in 1..Sent : changes[n] = toVerify[j] /\ changes[n].act # "remove"
    BY <2>1 DEF AskedInv
  <2>3. n \in DOMAIN changes
    BY DEF Sent, Planning, SliceInv, Ordered
  <2>4. changes[n] \in Proposed
    BY <2>3 DEF Planning, SliceInv, In, P!ToSet
  <2> QED
    BY <2>2, <2>4 DEF P!Awaited
<1>2. ASSUME <<toVerify[k].svc, toVerify[k].spec.img>> \in P!Verdict
      PROVE  passByIndex[k]
  <2>1. PICK j \in DOMAIN toVerify :
           /\ passByIndex[j]
           /\ <<toVerify[j].svc, toVerify[j].spec.img>>
                = <<toVerify[k].svc, toVerify[k].spec.img>>
    BY <1>2 DEF P!Verdict
  <2>2. toVerify[j].svc = toVerify[k].svc
    BY <2>1
  <2>3. toVerify[j] = toVerify[k]
    BY <1>1, <2>2, OneEach DEF Planning
  <2>4. j = k
    BY <2>3, OrderedPlaces DEF AskedInv
  <2> QED
    BY <2>1, <2>4
<1>3. ASSUME passByIndex[k]
      PROVE  <<toVerify[k].svc, toVerify[k].spec.img>> \in P!Verdict
  BY <1>3 DEF P!Verdict
<1> QED
  BY <1>2, <1>3

\* The next change of the batch is the next of the slice that is no removal.
LEMMA NextIsMet ==
  ASSUME Planning, AskedInv, IndexInv, stage = "mark",
         NEW m \in {i, i + 1}, m <= Len(changes), changes[m].act # "remove",
         m = i + 1 => changes[i].act = "remove"
  PROVE  /\ verifyIndex + 1 \in DOMAIN toVerify
         /\ toVerify[verifyIndex + 1] = changes[m]
<1>1. /\ Ordered(changes) /\ changes \in Seq(P!Change) /\ DOMAIN changes = 1..Len(changes)
      /\ Len(changes) \in Nat /\ i \in Nat \ {0} /\ m \in DOMAIN changes
      /\ DOMAIN toVerify = 1..Len(toVerify) /\ Len(toVerify) \in Nat
      /\ Ordered(toVerify) /\ verifyIndex \in 0..Len(toVerify)
  BY DEF Planning, SliceInv, AskedInv, Ordered, IndexInv
<1>2. Sent = Len(changes)
  BY DEF Sent, Marking
<1>3. changes[m] \in In(toVerify)
  BY <1>1, <1>2 DEF AskedInv
<1>4. PICK k \in DOMAIN toVerify : toVerify[k] = changes[m]
  BY <1>3 DEF In, P!ToSet
<1>5. \A j \in DOMAIN changes : changes[j] = changes[m] => j = m
  BY <1>1, OrderedPlaces
<1>6. ~Met(toVerify[k])
  BY <1>1, <1>4, <1>5 DEF Met
<1>7. k > verifyIndex
  BY <1>1, <1>6 DEF IndexInv
<1>8. ASSUME k > verifyIndex + 1 PROVE FALSE
  <2>1. verifyIndex + 1 \in DOMAIN toVerify
    BY <1>1, <1>8
  <2>2. ~Met(toVerify[verifyIndex + 1])
    BY <1>1, <2>1 DEF IndexInv
  <2>3. toVerify[verifyIndex + 1] \in In(toVerify)
    BY <2>1 DEF In, P!ToSet
  <2>4. PICK n \in 1..Len(changes) : /\ changes[n] = toVerify[verifyIndex + 1]
                                     /\ changes[n].act # "remove"
    BY <1>2, <2>3 DEF AskedInv
  <2>5. P!Before(changes[n], changes[m])
    BY <1>1, <1>4, <1>8, <2>1, <2>4 DEF Ordered
  <2>6. n < m
    BY <1>1, <2>4, <2>5, OrderedPlaces
  <2>7. n \in 1..(i - 1)
    BY <1>1, <2>4, <2>6
  <2> QED
    BY <2>2, <2>4, <2>7 DEF Met
<1>9. k = verifyIndex + 1
  BY <1>1, <1>7, <1>8
<1> QED
  BY <1>4, <1>9

\* When plan() has returned, the slice holds all that is proposed.
LEMMA WholePlan ==
  ASSUME Planning, stage \in Later
  PROVE  In(changes) = Proposed
<1>1. Turn(stage) = 4
  BY DEF Turn, Later
<1>2. \A c \in Proposed : P!Group(c) < 4
  <2> SUFFICES ASSUME NEW c \in Proposed PROVE P!Group(c) < 4
    OBVIOUS
  <2>1. PICK st \in Loops : P!Group(c) = Turn(st)
    BY GroupsAreTurns DEF Planning
  <2> QED
    BY <2>1 DEF Turn, Loops, P!PlanLoops
<1> QED
  BY <1>1, <1>2 DEF Planning, SliceInv

\* The verdict at verifyIndex is that of the change met next.
LEMMA NextPasses ==
  ASSUME Planning, AskedInv, IndexInv, stage = "mark",
         NEW m \in {i, i + 1}, m <= Len(changes), changes[m].act # "remove",
         m = i + 1 => changes[i].act = "remove"
  PROVE  P!Pass(verifyIndex)
           <=> <<changes[m].svc, changes[m].spec.img>> \in P!Verdict
<1>1. /\ verifyIndex + 1 \in DOMAIN toVerify
      /\ toVerify[verifyIndex + 1] = changes[m]
  BY NextIsMet
<1>2. Len(passByIndex) = Len(toVerify)
  BY LenOfAnswers DEF AskedInv, Ordered, Marking
<1>3. verifyIndex \in Nat /\ Len(toVerify) \in Nat /\ verifyIndex < Len(toVerify)
  BY <1>1 DEF IndexInv, AskedInv, Ordered
<1>4. P!Pass(verifyIndex) <=> passByIndex[verifyIndex + 1]
  BY <1>2, <1>3 DEF P!Pass
<1> QED
  BY <1>1, <1>4, OwnVerdict DEF Marking

\* What the marking loop marks: a removal that heads a pair by the verdict on the
\* create after it, any other removal anyway.
LEMMA MarkIsRight ==
  ASSUME Planning, AskedInv, IndexInv, stage = "mark", i <= Len(changes)
  PROVE  IF changes[i].act = "remove"
         THEN (P!HeadsPair(i) => P!Pass(verifyIndex)) <=> changes[i] \in Passing
         ELSE P!Pass(verifyIndex) <=> changes[i] \in Passing
<1> DEFINE c == changes[i]
<1>1. /\ Ordered(changes) /\ changes \in Seq(P!Change) /\ DOMAIN changes = 1..Len(changes)
      /\ Len(changes) \in Nat /\ i \in Nat \ {0} /\ i \in DOMAIN changes
  BY DEF Planning, SliceInv, Ordered
<1>2. In(changes) = Proposed
  BY WholePlan DEF Later
<1>3. c \in Proposed /\ c \in P!Change
  BY <1>1, <1>2 DEF In, P!ToSet
<1>4. CASE c.act # "remove"
  <2>1. c \in Passing <=> <<c.svc, c.spec.img>> \in P!Verdict
    BY <1>3, <1>4 DEF Passing, P!Passed
  <2>2. P!Pass(verifyIndex) <=> <<c.svc, c.spec.img>> \in P!Verdict
    <3>1. i \in {i, i + 1} /\ i # i + 1
      BY <1>1
    <3> QED
      BY <1>4, <3>1, NextPasses
  <2> QED
    BY <1>4, <2>1, <2>2
<1>5. CASE c.act = "remove" /\ ~c.recreate
  <2>1. c \in Passing
    BY <1>3, <1>5 DEF Passing, P!Passed
  <2>2. ~P!HeadsPair(i)
    BY <1>5 DEF P!HeadsPair
  <2> QED
    BY <1>5, <2>1, <2>2
<1>6. CASE c.act = "remove" /\ c.recreate
  <2>1. PICK d \in Proposed : /\ d.act = "create" /\ d.recreate /\ d.svc = c.svc
                              /\ P!Before(c, d)
                              /\ \A e \in Proposed : ~(P!Before(c, e) /\ P!Before(e, d))
    BY <1>3, <1>6, CreateFollows DEF Planning
  <2>2. PICK j \in DOMAIN changes : changes[j] = d
    BY <1>2 DEF In, P!ToSet
  <2>3. i < j
    BY <1>1, <2>1, <2>2, OrderedPlaces
  <2>4. i + 1 \in DOMAIN changes /\ changes[i + 1] \in Proposed
    <3>1. i + 1 \in DOMAIN changes
      BY <1>1, <2>3
    <3> QED
      BY <1>2, <3>1 DEF In, P!ToSet
  <2>5. ~(i + 1 < j)
    <3> SUFFICES ASSUME i + 1 < j PROVE FALSE
      OBVIOUS
    <3>1. P!Before(c, changes[i + 1]) /\ P!Before(changes[i + 1], d)
      BY <1>1, <2>2, <2>4 DEF Ordered
    <3> QED
      BY <2>1, <2>4, <3>1
  <2>6. changes[i + 1] = d /\ i < Len(changes) /\ i + 1 <= Len(changes)
    BY <1>1, <2>2, <2>3, <2>4, <2>5
  <2>7. P!HeadsPair(i)
    BY <1>6, <2>1, <2>6 DEF P!HeadsPair
  <2>8. P!Pass(verifyIndex) <=> <<d.svc, d.spec.img>> \in P!Verdict
    <3>1. /\ i + 1 \in {i, i + 1} /\ i + 1 <= Len(changes)
          /\ changes[i + 1].act # "remove"
          /\ i + 1 = i + 1 => changes[i].act = "remove"
      BY <1>6, <2>1, <2>6
    <3>2. P!Pass(verifyIndex)
            <=> <<changes[i + 1].svc, changes[i + 1].spec.img>> \in P!Verdict
      BY <3>1, NextPasses
    <3> QED
      BY <2>6, <3>2
  <2>9. \A e \in Proposed : e.act = "create" /\ e.recreate /\ e.svc = c.svc => e = d
    <3> SUFFICES ASSUME NEW e \in Proposed, e.act = "create", e.svc = c.svc PROVE e = d
      OBVIOUS
    <3>1. P!Awaited(e) /\ P!Awaited(d)
      BY <2>1 DEF P!Awaited
    <3> QED
      BY <2>1, <3>1, OneEach DEF Planning
  <2>10. c \in Passing <=> <<d.svc, d.spec.img>> \in P!Verdict
    BY <1>3, <1>6, <2>1, <2>9 DEF Passing, P!Passed
  <2> QED
    BY <1>6, <2>7, <2>8, <2>10
<1> HIDE DEF c
<1>7. c.recreate \in BOOLEAN
  BY <1>3 DEF P!Change
<1> QED
  BY <1>4, <1>5, <1>6, <1>7

\* Where the loops stand.
LEMMA Ranges ==
  ASSUME Planning
  PROVE  /\ Ordered(changes) /\ changes \in Seq(P!Change)
         /\ DOMAIN changes = 1..Len(changes)
         /\ Len(changes) \in Nat /\ i \in Nat \ {0}
         /\ stage \in Later => i <= Len(changes) + 1
         /\ stage \notin Later => i = 1
BY DEF Planning, SliceInv, Ordered

Looping == P!Visit \/ P!EnterLoop \/ P!PlanReturns
LEMMA LoopingLeaves ==
  ASSUME Looping, Planning
  PROVE  /\ UNCHANGED <<toVerify, passByIndex, i, verifyIndex, passedByChange, passed>>
         /\ i = 1 /\ stage' \notin Marking /\ stage \notin Marking
         /\ stage # "failed" /\ stage' # "failed"
BY DEF Looping, Later, Marking, Planning, P!PlanLoops, P!NextLoop, P!Visit, P!EnterLoop,
       P!PlanReturns, Loops

LEMMA AskedKeeps ==
  ASSUME Planning, Planning', AskedInv, P!Next
  PROVE  AskedInv'
<1>1. CASE Looping
  <2>1. /\ UNCHANGED <<toVerify, passByIndex, i>>
        /\ i = 1 /\ stage' \notin Marking /\ stage \notin Marking
        /\ stage # "failed" /\ stage' # "failed"
    BY <1>1, LoopingLeaves
  <2>2. Sent = 0 /\ Sent' = 0
    BY <2>1 DEF Sent
  <2>3. In(toVerify) = {} /\ In(toVerify)' = In(toVerify)
    BY <2>1, <2>2 DEF AskedInv, In, P!ToSet
  <2>4. Ordered(toVerify)'
    BY <2>1 DEF AskedInv, Ordered
  <2> QED
    BY <2>1, <2>2, <2>3, <2>4 DEF AskedInv
<1>2. CASE P!Send
  <2>1. /\ stage = "send" /\ stage' = "send" /\ i <= Len(changes) /\ i' = i + 1
        /\ changes' = changes
        /\ toVerify' = IF changes[i].act = "remove" THEN toVerify
                       ELSE Append(toVerify, changes[i])
    BY <1>2 DEF P!Send, P!AtChange, P!planned
  <2>2. Sent = i - 1 /\ Sent' = i /\ stage' \notin Marking
    BY <2>1, Ranges DEF Sent, Marking
  <2>3. i \in DOMAIN changes /\ changes[i] \in P!Change
    BY <2>1, Ranges
  <2>4. CASE changes[i].act = "remove"
    <3>1. {k \in 1..i : changes[k].act # "remove"}
            = {k \in 1..(i - 1) : changes[k].act # "remove"}
      BY <2>4, Ranges
    <3>2. toVerify' = toVerify
      BY <2>1, <2>4
    <3>3. Ordered(toVerify)' /\ In(toVerify)' = In(toVerify)
      BY <3>2 DEF AskedInv, Ordered, In, P!ToSet
    <3> QED
      BY <2>1, <2>2, <3>1, <3>3 DEF AskedInv
  <2>5. CASE changes[i].act # "remove"
    <3>1. {k \in 1..i : changes[k].act # "remove"}
            = {k \in 1..(i - 1) : changes[k].act # "remove"} \cup {i}
      BY <2>5, Ranges
    <3>2. toVerify' = Append(toVerify, changes[i])
      BY <2>1, <2>5
    <3>3. \A d \in In(toVerify) : P!Before(d, changes[i])
      <4> SUFFICES ASSUME NEW d \in In(toVerify) PROVE P!Before(d, changes[i])
        OBVIOUS
      <4>1. PICK n \in 1..(i - 1) : d = changes[n]
        BY <2>2 DEF AskedInv
      <4> QED
        BY <2>3, <4>1, Ranges DEF Ordered
    <3>4. /\ Ordered(Append(toVerify, changes[i]))
          /\ In(Append(toVerify, changes[i])) = In(toVerify) \cup {changes[i]}
      BY <2>3, <3>3, OrderedAppend DEF AskedInv
    <3>5. Ordered(toVerify)' /\ In(toVerify)' = In(toVerify) \cup {changes[i]}
      BY <3>2, <3>4, Zenon DEF Ordered, In, P!ToSet
    <3> QED
      BY <2>1, <2>2, <3>1, <3>5 DEF AskedInv
  <2> QED
    BY <2>4, <2>5
<1>3. CASE P!GetVerdicts \/ P!GateFails
  <2>1. /\ stage = "send" /\ i > Len(changes) /\ stage' \in {"mark", "failed"}
        /\ changes' = changes /\ toVerify' = toVerify
        /\ stage' = "mark" => passByIndex' \in [DOMAIN toVerify -> BOOLEAN]
    BY <1>3 DEF P!GetVerdicts, P!GateFails, P!LoopEnds, P!planned
  <2>2. i - 1 = Len(changes)
    BY <2>1, Ranges DEF Later
  <2>3. Sent = Len(changes) /\ Sent' = Len(changes)
    BY <2>1, <2>2 DEF Sent, Marking
  <2>4. Ordered(toVerify)' /\ In(toVerify)' = In(toVerify)
    BY <2>1 DEF AskedInv, Ordered, In, P!ToSet
  <2> QED
    BY <2>1, <2>3, <2>4 DEF AskedInv, Marking
<1>4. CASE P!MarkRemoval \/ P!MarkVerified \/ P!MarksEnd \/ P!Collect \/ P!VerifyReturns
  <2>1. /\ stage \in Marking /\ stage' \in Marking /\ changes' = changes
        /\ toVerify' = toVerify /\ passByIndex' = passByIndex
    BY <1>4 DEF P!MarkRemoval, P!MarkVerified, P!MarksEnd, P!Collect, P!VerifyReturns,
                P!AtChange, P!LoopEnds, P!planned, Marking
  <2>2. Sent' = Sent
    BY <2>1 DEF Sent
  <2>3. Ordered(toVerify)' /\ In(toVerify)' = In(toVerify)
    BY <2>1 DEF AskedInv, Ordered, In, P!ToSet
  <2> QED
    BY <2>1, <2>2, <2>3 DEF AskedInv
<1> QED
  BY <1>1, <1>2, <1>3, <1>4 DEF P!Next, Looping

LEMMA IndexKeeps ==
  ASSUME Planning, AskedInv, IndexInv, P!Next
  PROVE  IndexInv'
<1>1. CASE Looping
  <2>1. /\ verifyIndex' = verifyIndex
        /\ stage' \notin Marking /\ stage \notin Marking
    BY <1>1, LoopingLeaves
  <2> QED
    BY <2>1 DEF IndexInv, Marking
<1>2. CASE P!Send \/ P!GateFails
  BY <1>2 DEF P!Send, P!GateFails, P!AtChange, P!LoopEnds, IndexInv, Marking
<1>3. CASE P!GetVerdicts
  <2>1. /\ stage = "send" /\ stage' = "mark" /\ i' = 1 /\ toVerify' = toVerify
        /\ verifyIndex' = 0
    BY <1>3 DEF P!GetVerdicts, P!LoopEnds, IndexInv, Marking
  <2>2. \A c : ~Met(c)'
    BY <2>1 DEF Met
  <2>3. DOMAIN toVerify = 1..Len(toVerify) /\ Len(toVerify) \in Nat
    BY DEF AskedInv, Ordered
  <2> QED
    BY <2>1, <2>2, <2>3 DEF IndexInv, Marking
<1>4. CASE P!MarkRemoval \/ P!MarkVerified
  <2>1. /\ stage = "mark" /\ stage' = "mark" /\ i <= Len(changes) /\ i' = i + 1
        /\ toVerify' = toVerify /\ changes' = changes
        /\ verifyIndex' = IF changes[i].act = "remove" THEN verifyIndex
                          ELSE verifyIndex + 1
    BY <1>4 DEF P!MarkRemoval, P!MarkVerified, P!AtChange, P!planned, P!AfterRemoval
  <2>2. DOMAIN toVerify = 1..Len(toVerify) /\ Len(toVerify) \in Nat
    BY DEF AskedInv, Ordered
  <2>3. \A c : Met(c)' <=> Met(c) \/ c = changes[i]
    BY <2>1, Ranges DEF Met
  <2>4. CASE changes[i].act = "remove"
    <3>1. \A k \in DOMAIN toVerify : toVerify[k] # changes[i]
      <4> SUFFICES ASSUME NEW k \in DOMAIN toVerify PROVE toVerify[k].act # "remove"
        BY <2>4
      <4>1. toVerify[k] \in In(toVerify)
        BY DEF In, P!ToSet
      <4> QED
        BY <4>1 DEF AskedInv
    <3> QED
      BY <2>1, <2>3, <2>4, <3>1 DEF IndexInv, Marking
  <2>5. CASE changes[i].act # "remove"
    <3>1. /\ verifyIndex + 1 \in DOMAIN toVerify
          /\ toVerify[verifyIndex + 1] = changes[i]
      <4>1. i \in {i, i + 1} /\ i # i + 1
        BY Ranges
      <4> QED
        BY <2>1, <2>5, <4>1, NextIsMet
    <3>2. \A k \in DOMAIN toVerify : toVerify[k] = changes[i] => k = verifyIndex + 1
      BY <3>1, OrderedPlaces DEF AskedInv
    <3>3. verifyIndex \in Nat /\ verifyIndex' = verifyIndex + 1
      BY <2>1, <2>5 DEF IndexInv
    <3>4. \A k \in DOMAIN toVerify : k <= verifyIndex + 1 <=> Met(toVerify[k])'
      <4> SUFFICES ASSUME NEW k \in DOMAIN toVerify
                   PROVE  k <= verifyIndex + 1 <=> Met(toVerify[k])'
        OBVIOUS
      <4>1. k <= verifyIndex <=> Met(toVerify[k])
        BY <2>1 DEF IndexInv
      <4>2. Met(toVerify[k])' <=> Met(toVerify[k]) \/ toVerify[k] = changes[i]
        BY <2>1, Ranges DEF Met
      <4> QED
        BY <2>2, <3>1, <3>2, <3>3, <4>1, <4>2
    <3> QED
      BY <2>1, <2>2, <3>1, <3>3, <3>4 DEF IndexInv, Marking
  <2> QED
    BY <2>4, <2>5
<1>5. CASE P!MarksEnd \/ P!Collect \/ P!VerifyReturns
  BY <1>5 DEF P!MarksEnd, P!Collect, P!VerifyReturns, P!AtChange, P!LoopEnds, IndexInv,
              Marking
<1> QED
  BY <1>1, <1>2, <1>3, <1>4, <1>5 DEF P!Next, Looping

LEMMA MarksKeeps ==
  ASSUME Planning, AskedInv, IndexInv, MarksInv, P!Next
  PROVE  MarksInv'
<1>1. CASE Looping
  <2>1. /\ passedByChange' = passedByChange
        /\ stage' \notin Marking /\ stage \notin Marking
    BY <1>1, LoopingLeaves
  <2>2. MarkedTo = 0 /\ MarkedTo' = 0
    BY <2>1 DEF MarkedTo, Marking
  <2> QED
    BY <2>1, <2>2 DEF MarksInv
<1>2. CASE P!Send
  <2>1. passedByChange' = passedByChange /\ MarkedTo = 0 /\ MarkedTo' = 0
    BY <1>2 DEF P!Send, P!AtChange, MarkedTo, Marking
  <2> QED
    BY <2>1 DEF MarksInv
<1>3. CASE P!GetVerdicts \/ P!GateFails
  <2>1. passedByChange' = passedByChange /\ MarkedTo = 0 /\ MarkedTo' = 0
    BY <1>3 DEF P!GetVerdicts, P!GateFails, P!LoopEnds, MarkedTo, Marking
  <2> QED
    BY <2>1 DEF MarksInv
<1>4. CASE P!MarkRemoval \/ P!MarkVerified
  <2>1. /\ stage = "mark" /\ stage' = "mark" /\ i <= Len(changes) /\ i' = i + 1
        /\ UNCHANGED <<changes, toVerify, passByIndex, declared, have, prune>>
        /\ passedByChange'
             = IF changes[i].act = "remove"
               THEN Append(passedByChange, P!HeadsPair(i) => P!Pass(verifyIndex))
               ELSE Append(passedByChange, P!Pass(verifyIndex))
    BY <1>4 DEF P!MarkRemoval, P!MarkVerified, P!AtChange, P!planned, P!inputs, P!Marked
  <2>2. PICK b \in BOOLEAN : /\ passedByChange' = Append(passedByChange, b)
                             /\ b <=> changes[i] \in Passing
    <3>1. CASE changes[i].act = "remove"
      <4> DEFINE b == P!HeadsPair(i) => P!Pass(verifyIndex)
      <4>1. passedByChange' = Append(passedByChange, b) /\ b \in BOOLEAN
        BY <2>1, <3>1
      <4>2. b <=> changes[i] \in Passing
        BY <2>1, <3>1, MarkIsRight
      <4> QED
        BY <4>1, <4>2
    <3>2. CASE changes[i].act # "remove"
      <4> DEFINE b == P!Pass(verifyIndex)
      <4>1. passedByChange' = Append(passedByChange, b) /\ b \in BOOLEAN
        BY <2>1, <3>2 DEF P!Pass
      <4>2. b <=> changes[i] \in Passing
        BY <2>1, <3>2, MarkIsRight
      <4> QED
        BY <4>1, <4>2
    <3> QED
      BY <3>1, <3>2
  <2>3. MarkedTo = i - 1 /\ MarkedTo' = i
    BY <2>1, Ranges DEF MarkedTo
  <2>4. Passing' = Passing
    BY <2>1 DEF Passing, Proposed, P!Verdict
  <2>5. passedByChange \in Seq(BOOLEAN) /\ Len(passedByChange) = i - 1
    BY <2>3 DEF MarksInv
  <2>6. /\ passedByChange' \in Seq(BOOLEAN) /\ Len(passedByChange') = i
        /\ passedByChange'[i] = b
        /\ \A j \in 1..(i - 1) : passedByChange'[j] = passedByChange[j]
    BY <2>2, <2>5, Ranges
  <2>7. \A j \in 1..i : passedByChange'[j] <=> changes[j] \in Passing
    <3> SUFFICES ASSUME NEW j \in 1..i PROVE passedByChange'[j] <=> changes[j] \in Passing
      OBVIOUS
    <3>1. CASE j = i
      BY <2>2, <2>6, <3>1
    <3>2. CASE j \in 1..(i - 1)
      BY <2>3, <2>6, <3>2 DEF MarksInv
    <3> QED
      BY <3>1, <3>2, Ranges
  <2> QED
    BY <2>1, <2>3, <2>4, <2>6, <2>7 DEF MarksInv
<1>5. CASE P!MarksEnd \/ P!Collect \/ P!VerifyReturns
  <2>1. /\ UNCHANGED <<changes, toVerify, passByIndex, declared, have, prune,
                       passedByChange>>
        /\ stage \in Marking /\ stage' \in {"collect", "done"}
        /\ stage = "mark" => i > Len(changes)
    BY <1>5 DEF P!MarksEnd, P!Collect, P!VerifyReturns, P!AtChange, P!LoopEnds, P!planned,
                P!inputs, Marking
  <2>2. MarkedTo' = MarkedTo
    BY <2>1, Ranges DEF MarkedTo, Marking, Later
  <2>3. Passing' = Passing
    BY <2>1 DEF Passing, Proposed, P!Verdict
  <2> QED
    BY <2>1, <2>2, <2>3 DEF MarksInv
<1> QED
  BY <1>1, <1>2, <1>3, <1>4, <1>5 DEF P!Next, Looping

LEMMA CollectKeeps ==
  ASSUME Planning, MarksInv, CollectInv, P!Next
  PROVE  CollectInv'
<1>1. CASE stage # "collect"
  <2>1. passed' = passed /\ Collected' = 0 /\ Collected = 0
    <3>1. CASE Looping
      BY <3>1, LoopingLeaves DEF Collected, Marking
    <3>2. CASE P!Send \/ P!GetVerdicts \/ P!GateFails \/ P!MarkRemoval \/ P!MarkVerified
      BY <3>2 DEF P!Send, P!GetVerdicts, P!GateFails, P!MarkRemoval, P!MarkVerified,
                  P!AtChange, P!LoopEnds, Collected
    <3>3. CASE P!MarksEnd
      BY <3>3 DEF P!MarksEnd, P!LoopEnds, Collected
    <3> QED
      BY <1>1, <3>1, <3>2, <3>3
         DEF P!Next, Looping, P!Collect, P!VerifyReturns, P!AtChange, P!LoopEnds
  <2> QED
    BY <2>1 DEF CollectInv, Ordered, In, P!ToSet
<1>2. CASE stage = "collect" /\ i > Len(changes)
  <2>1. /\ P!VerifyReturns /\ stage' = "done"
        /\ UNCHANGED <<passed, changes, toVerify, passByIndex, declared, have, prune>>
    <3>1. P!VerifyReturns
      BY <1>2, Ranges
         DEF P!Next, P!Visit, P!EnterLoop, P!PlanReturns, P!Send, P!GetVerdicts,
             P!GateFails, P!MarkRemoval, P!MarkVerified, P!MarksEnd, P!Collect,
             P!VerifyReturns,
             P!AtChange, P!LoopEnds, P!PlanLoops
    <3> QED
      BY <3>1 DEF P!VerifyReturns, P!LoopEnds, P!planned, P!inputs
  <2>2. Collected' = Collected
    BY <1>2, <2>1, Ranges DEF Collected, Later
  <2>3. Passing' = Passing
    BY <2>1 DEF Passing, Proposed, P!Verdict
  <2> QED
    BY <2>1, <2>2, <2>3 DEF CollectInv, Ordered, In, P!ToSet
<1>3. CASE stage = "collect" /\ i <= Len(changes)
  <2>1. /\ P!Collect
        /\ stage' = "collect" /\ i' = i + 1
        /\ UNCHANGED <<changes, toVerify, passByIndex, declared, have, prune>>
        /\ passed' = IF passedByChange[i] THEN Append(passed, changes[i]) ELSE passed
    <3>1. P!Collect
      BY <1>3, Ranges
         DEF P!Next, P!Visit, P!EnterLoop, P!PlanReturns, P!Send, P!GetVerdicts,
             P!GateFails, P!MarkRemoval, P!MarkVerified, P!MarksEnd, P!Collect,
             P!VerifyReturns,
             P!AtChange, P!LoopEnds, P!PlanLoops
    <3> QED
      BY <3>1 DEF P!Collect, P!AtChange, P!planned, P!inputs
  <2>2. Collected = i - 1 /\ Collected' = i
    BY <1>3, <2>1, Ranges DEF Collected
  <2>3. Passing' = Passing
    BY <2>1 DEF Passing, Proposed, P!Verdict
  <2>4. passedByChange[i] <=> changes[i] \in Passing
    <3>1. MarkedTo = Len(changes) /\ i \in 1..Len(changes)
      BY <1>3, Ranges DEF MarkedTo, Marking
    <3> QED
      BY <3>1 DEF MarksInv
  <2>5. i \in DOMAIN changes /\ changes[i] \in P!Change
    BY <1>3, Ranges
  <2>6. CASE changes[i] \notin Passing
    <3>1. {k \in 1..i : changes[k] \in Passing}
            = {k \in 1..(i - 1) : changes[k] \in Passing}
      BY <2>6, Ranges
    <3>2. passed' = passed
      BY <2>1, <2>4, <2>6
    <3>3. Ordered(passed)' /\ In(passed)' = In(passed)
      BY <3>2 DEF CollectInv, Ordered, In, P!ToSet
    <3> QED
      BY <2>1, <2>2, <2>3, <3>1, <3>3 DEF CollectInv
  <2>7. CASE changes[i] \in Passing
    <3>1. {k \in 1..i : changes[k] \in Passing}
            = {k \in 1..(i - 1) : changes[k] \in Passing} \cup {i}
      BY <2>7, Ranges
    <3>2. passed' = Append(passed, changes[i])
      BY <2>1, <2>4, <2>7
    <3>3. \A d \in In(passed) : P!Before(d, changes[i])
      <4> SUFFICES ASSUME NEW d \in In(passed) PROVE P!Before(d, changes[i])
        OBVIOUS
      <4>1. PICK n \in 1..(i - 1) : d = changes[n]
        BY <2>2 DEF CollectInv
      <4> QED
        BY <2>5, <4>1, Ranges DEF Ordered
    <3>4. /\ Ordered(Append(passed, changes[i]))
          /\ In(Append(passed, changes[i])) = In(passed) \cup {changes[i]}
      BY <2>5, <3>3, OrderedAppend DEF CollectInv
    <3>5. Ordered(passed)' /\ In(passed)' = In(passed) \cup {changes[i]}
      BY <3>2, <3>4, Zenon DEF Ordered, In, P!ToSet
    <3> QED
      BY <2>1, <2>2, <2>3, <3>1, <3>5 DEF CollectInv
  <2> QED
    BY <2>6, <2>7
<1> QED
  BY <1>1, <1>2, <1>3, Ranges

VerifyInv == AskedInv /\ IndexInv /\ MarksInv /\ CollectInv

LEMMA VerifyHolds == AllSpec => [](part = "plan" => VerifyInv)
<1>1. AllInit => (part = "plan" => VerifyInv)
  <2> SUFFICES ASSUME P!Init PROVE VerifyInv
    BY DEF AllInit
  <2>1. /\ stage = "diff" /\ i = 1 /\ toVerify = <<>> /\ passed = <<>>
        /\ passedByChange = <<>> /\ verifyIndex = 0
    BY DEF P!Init
  <2>2. Sent = 0 /\ MarkedTo = 0 /\ Collected = 0 /\ stage \notin Marking
    BY <2>1 DEF Sent, MarkedTo, Collected, Marking
  <2>3. /\ Ordered(toVerify) /\ In(toVerify) = {}
        /\ Ordered(passed) /\ In(passed) = {}
    BY <2>1, NoneIsOrdered
  <2>4. AskedInv
    BY <2>2, <2>3 DEF AskedInv
  <2>5. IndexInv
    BY <2>1 DEF IndexInv
  <2>6. MarksInv
    BY <2>1, <2>2 DEF MarksInv
  <2>7. CollectInv
    BY <2>2, <2>3 DEF CollectInv
  <2> QED
    BY <2>4, <2>5, <2>6, <2>7 DEF VerifyInv
<1>2. (part = "plan" => Planning) /\ (part = "plan" => Planning)'
        /\ (part = "plan" => VerifyInv) /\ [AllNext]_allVars
        => (part = "plan" => VerifyInv)'
  <2> SUFFICES ASSUME Planning, Planning', VerifyInv, P!Next \/ UNCHANGED planVars
               PROVE  VerifyInv'
    BY DEF AllNext, allVars
  <2>1. CASE P!Next
    BY <2>1, AskedKeeps, IndexKeeps, MarksKeeps, CollectKeeps DEF VerifyInv
  <2>2. CASE UNCHANGED planVars
    <3>1. Sent' = Sent /\ MarkedTo' = MarkedTo /\ Collected' = Collected
      BY <2>2 DEF planVars, Sent, MarkedTo, Collected
    <3>2. Passing' = Passing /\ \A c : Met(c)' <=> Met(c)
      BY <2>2 DEF planVars, Passing, Proposed, P!Verdict, Met
    <3>3. AskedInv'
      <4>1. /\ stage' = stage /\ changes' = changes /\ toVerify' = toVerify
            /\ passByIndex' = passByIndex
        BY <2>2 DEF planVars
      <4>2. Ordered(toVerify)' /\ In(toVerify)' = In(toVerify)
        BY <4>1 DEF VerifyInv, AskedInv, Ordered, In, P!ToSet
      <4> QED
        BY <3>1, <4>1, <4>2 DEF VerifyInv, AskedInv
    <3>4. IndexInv'
      BY <2>2 DEF planVars, VerifyInv, IndexInv, Met
    <3>5. MarksInv'
      BY <2>2, <3>1, <3>2 DEF planVars, VerifyInv, MarksInv
    <3>6. CollectInv'
      <4>1. changes' = changes /\ passed' = passed
        BY <2>2 DEF planVars
      <4>2. Ordered(passed)' /\ In(passed)' = In(passed)
        BY <4>1 DEF VerifyInv, CollectInv, Ordered, In, P!ToSet
      <4> QED
        BY <3>1, <3>2, <4>1, <4>2 DEF VerifyInv, CollectInv
    <3> QED
      BY <3>3, <3>4, <3>5, <3>6 DEF VerifyInv
  <2> QED
    BY <2>1, <2>2
<1> QED
  BY <1>1, <1>2, PlanningHolds, PTL DEF AllSpec

\* plan() computes its set of changes in order, verify() judges each change by its
\* own verdict and keeps a removal and its create together, and each service is
\* awaited once, for every mix of changes over every set of services: the
\* invariant of the runs.
THEOREM PlanIsJudgedRight == AllSpec => []PlanIsJudged
<1>1. (part = "plan" => Planning) /\ (part = "plan" => VerifyInv) => PlanIsJudged
  <2> SUFFICES ASSUME Planning, VerifyInv
               PROVE  /\ P!PlanIsOrdered /\ P!VerifyIsPassed
                      /\ P!RecreateStaysAdjacent /\ P!AwaitedOnce
    BY DEF PlanIsJudged
  <2>1. stage \in Later => In(changes) = Proposed
    BY WholePlan
  <2>2. P!PlanIsOrdered
    BY <2>1, Ranges DEF P!PlanIsOrdered, Later, Proposed, In, Ordered
  <2> SUFFICES ASSUME stage = "done"
               PROVE  P!VerifyIsPassed /\ P!RecreateStaysAdjacent /\ P!AwaitedOnce
    BY <2>2 DEF P!VerifyIsPassed, P!RecreateStaysAdjacent, P!AwaitedOnce
  <2>3. Ordered(passed) /\ passed \in Seq(P!Change) /\ DOMAIN passed = 1..Len(passed)
        /\ Len(passed) \in Nat
    BY DEF VerifyInv, CollectInv, Ordered
  <2>4. In(passed) = Passing
    <3>1. In(changes) = Proposed /\ DOMAIN changes = 1..Len(changes)
      BY <2>1, Ranges DEF Later
    <3>2. Collected = Len(changes)
      BY DEF Collected
    <3>3. Passing \subseteq Proposed
      BY DEF Passing, P!Passed
    <3>4. In(passed)
            = {changes[j] : j \in {k \in DOMAIN changes : changes[k] \in Passing}}
      BY <3>1, <3>2 DEF VerifyInv, CollectInv
    <3>5. In(changes) = {changes[j] : j \in DOMAIN changes}
      BY DEF In, P!ToSet
    <3> QED
      BY <3>1, <3>3, <3>4, <3>5
  <2>5. P!VerifyIsPassed
    BY <2>1, <2>3, <2>4 DEF P!VerifyIsPassed, Passing, In, Ordered, Later
  <2>6. \A k \in DOMAIN passed : passed[k] \in Passing /\ passed[k] \in Proposed
    <3>1. \A k \in DOMAIN passed : passed[k] \in Passing
      BY <2>4 DEF In, P!ToSet
    <3> QED
      BY <3>1 DEF Passing, P!Passed
  <2>7. P!AwaitedOnce
    <3> SUFFICES ASSUME NEW j \in DOMAIN passed, NEW k \in DOMAIN passed,
                        P!Awaited(passed[j]), P!Awaited(passed[k]),
                        passed[j].svc = passed[k].svc
                 PROVE  j = k
      BY DEF P!AwaitedOnce
    <3>1. passed[j] = passed[k]
      BY <2>6, OneEach DEF Planning
    <3> QED
      BY <2>3, <3>1, OrderedPlaces
  <2>8. P!RecreateStaysAdjacent
    <3> SUFFICES ASSUME NEW k \in DOMAIN passed, passed[k].act = "remove",
                        passed[k].recreate
                 PROVE  /\ k < Len(passed)
                        /\ passed[k + 1].act = "create" /\ passed[k + 1].recreate
                        /\ passed[k + 1].svc = passed[k].svc
      BY DEF P!RecreateStaysAdjacent
    <3>1. passed[k] \in Proposed /\ passed[k] \in Passing
      BY <2>6
    <3>2. PICK d \in Proposed :
            /\ d.act = "create" /\ d.recreate /\ d.svc = passed[k].svc
            /\ P!Before(passed[k], d)
            /\ \A e \in Proposed : ~(P!Before(passed[k], e) /\ P!Before(e, d))
      BY <3>1, CreateFollows DEF Planning
    <3>3. PICK f \in Proposed : /\ f.act = "create" /\ f.recreate
                                /\ f.svc = passed[k].svc
                                /\ <<f.svc, f.spec.img>> \in P!Verdict
      BY <3>1 DEF Passing, P!Passed
    <3>4. f = d
      <4>1. P!Awaited(f) /\ P!Awaited(d)
        BY <3>2, <3>3 DEF P!Awaited
      <4> QED
        BY <3>2, <3>3, <4>1, OneEach DEF Planning
    <3>5. d \in Passing
      BY <3>2, <3>3, <3>4 DEF Passing, P!Passed
    <3>6. PICK m \in DOMAIN passed : passed[m] = d
      BY <2>4, <3>5 DEF In, P!ToSet
    <3>7. k < m
      BY <2>3, <3>2, <3>6, OrderedPlaces
    <3>8. k + 1 \in DOMAIN passed
      BY <2>3, <3>7
    <3>9. ~(k + 1 < m)
      <4> SUFFICES ASSUME k + 1 < m PROVE FALSE
        OBVIOUS
      <4>1. P!Before(passed[k], passed[k + 1]) /\ P!Before(passed[k + 1], d)
        BY <2>3, <3>6, <3>8 DEF Ordered
      <4> QED
        BY <2>6, <3>2, <3>8, <4>1
    <3>10. k + 1 = m
      BY <2>3, <3>7, <3>9
    <3> QED
      BY <2>3, <3>2, <3>6, <3>8, <3>10
  <2> QED
    BY <2>5, <2>7, <2>8
<1> QED
  BY <1>1, PlanningHolds, VerifyHolds, PTL
===============================================================================

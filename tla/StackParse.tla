------------------------------ MODULE StackParse ------------------------------
(***************************************************************************)
(* From stack files to desired state (internal/spec parse): env files of   *)
(* all stacks, then the allowlist over all stacks, then stack by stack the *)
(* configs and the services.  The files are what StackTree reads from a    *)
(* commit, in any order (the code has them sorted by name); the services   *)
(* of a stack come in the order of a Go map.                               *)
(*                                                                         *)
(* A stack name and a service key are sequences of words, and a qualified  *)
(* name joins the two without a separator of its own.  A service is        *)
(* [key, env, fields, refs, converts]: its env_file entries, its compose   *)
(* fields, the config keys it refers to, and whether its values convert    *)
(* (module ServiceFields).                                                 *)
(***************************************************************************)
EXTENDS StackTree

CONSTANTS
    Inputs,     \* trees of commits
    AllowedFields,    \* fields a stack or service may have
    EnvRootSet  \* env_file_root is configured

Qualified(stack, key) == stack \o key  \* ServiceName

VARIABLES
    tree,     \* the commit that was fetched
    files,    \* its stack files
    phase,    \* "env", "fields", "stacks", "ok" or "failed"
    todo,     \* files this phase has not looked at
    errors,   \* what the first two phases collect
    stack,    \* the file whose services are being parsed, or Nil
    keys,     \* its services not yet parsed
    services, \* DesiredState.Services
    configs,  \* DesiredState.Configs
    owner     \* the stack that claimed a qualified name

ds == <<services, configs>>
vars == <<tree, files, phase, todo, errors, stack, keys, ds, owner>>

Empty == [n \in {} |-> Nil]

Init ==
    /\ tree \in Inputs /\ Readable(tree)
    /\ files = StackFiles(tree) /\ todo = files
    /\ phase = "env" /\ errors = {} /\ stack = Nil /\ keys = {}
    /\ services = Empty /\ configs = Empty /\ owner = Empty

-----------------------------------------------------------------------------
(* Env files and fields. *)

EnvErrors(f) ==
    {<<f.name, s.key, "env">> : s \in
        {t \in f.doc.services : t.env = "bad" \/ (t.env = "ok" /\ ~EnvRootSet)}}

\* Mutant: the scan stops at the first stack with an error.
FieldErrors_First(f) ==
    UNION {{<<f.name, s.key, fld>> : fld \in s.fields \ AllowedFields}
           : s \in {t \in f.doc.services : errors = {}}}
\* checkAllowedFields.
FieldErrors(f) ==
    UNION {{<<f.name, s.key, fld>> : fld \in s.fields \ AllowedFields}
           : s \in f.doc.services}

\* A phase looks at every file before its errors, joined, end the parse.
Scan(ph, found, next) ==
    /\ phase = ph
    /\ IF todo # {}
       THEN \E f \in todo :
              /\ errors' = errors \cup found[f]
              /\ todo' = todo \ {f} /\ UNCHANGED phase
       ELSE /\ phase' = IF errors # {} THEN "failed" ELSE next
            /\ todo' = files /\ UNCHANGED errors
    /\ UNCHANGED <<tree, files, stack, keys, ds, owner>>

EnvFiles == Scan("env", [f \in todo |-> EnvErrors(f)], "fields")
Fields == Scan("fields", [f \in todo |-> FieldErrors(f)], "stacks")

-----------------------------------------------------------------------------
(* Configs and services. *)

\* An error of a stack: Parse returns an empty state.
Fail ==
    /\ phase' = "failed"
    /\ services' = Empty /\ configs' = Empty
    /\ UNCHANGED <<tree, files, todo, errors, stack, keys, owner>>

ObjectName(c) == IF c.object # Nil THEN c.object ELSE c.key

\* The declarations prepareStackConfigs takes from git.  Removing "file" from
\* the shared body of an anchor hides it from the aliases that follow.
Prepared(f) == Read(f.doc)
Data(f, c) == f.files[ConfigPath(f.path, c.file)]

\* Mutant: the payload of the later stack wins.
Conflict_Never(objs, payload) == FALSE
\* A payload of an earlier stack with the same object name.
Conflict(objs, payload) ==
    \E o \in DOMAIN objs \cap DOMAIN payload : objs[o] # payload[o]

\* One stack after the other; of two declarations with one object name in the
\* same stack one wins (in the code the later one).
PrepareStack ==
    /\ phase = "stacks" /\ stack = Nil /\ todo # {}
    /\ \E f \in todo :
         \E payload \in {g \in [{ObjectName(c) : c \in Prepared(f)} ->
                                {Data(f, c) : c \in Prepared(f)}] :
                 \A o \in DOMAIN g : \E c \in Prepared(f) :
                     ObjectName(c) = o /\ g[o] = Data(f, c)} :
           IF Conflict(configs, payload)
           THEN Fail
           ELSE /\ configs' = [o \in DOMAIN payload \cup DOMAIN configs |->
                                 IF o \in DOMAIN payload THEN payload[o]
                                 ELSE configs[o]]
                /\ stack' = f /\ keys' = f.doc.services
                /\ todo' = todo \ {f}
                /\ UNCHANGED <<tree, files, phase, errors, services, owner>>

\* The object a reference attaches: the names of file configs are known, an
\* external one is looked up by its key.
Attached(f, key) ==
    IF \E c \in Prepared(f) : c.key = key
    THEN ObjectName(CHOOSE c \in Prepared(f) : c.key = key)
    ELSE key

\* Mutant: a qualified name may be claimed twice.
Collides_Never(q) == FALSE
Collides(q) == q \in DOMAIN owner /\ owner[q] # stack.name

ParseService(s) ==
    /\ phase = "stacks" /\ stack # Nil /\ s \in keys
    /\ LET q == Qualified(stack.name, s.key) IN
       IF \/ ~s.converts \/ Collides(q)
          \/ ~(s.refs \subseteq {c.key : c \in stack.doc.configs})
       THEN Fail
       ELSE /\ services' = [n \in DOMAIN services \cup {q} |->
                 IF n # q THEN services[n]
                 ELSE [of |-> s, by |-> stack.name,
                       refs |-> {Attached(stack, k) : k \in s.refs}]]
            /\ owner' = [n \in DOMAIN owner \cup {q} |->
                           IF n = q THEN stack.name ELSE owner[n]]
            /\ keys' = keys \ {s}
            /\ UNCHANGED <<tree, files, phase, todo, errors, stack, configs>>

StackDone ==
    /\ phase = "stacks" /\ keys = {}
    /\ IF stack # Nil THEN stack' = Nil /\ UNCHANGED phase
       ELSE todo = {} /\ phase' = "ok" /\ UNCHANGED stack
    /\ UNCHANGED <<tree, files, todo, errors, keys, ds, owner>>

Done == phase \in {"ok", "failed"} /\ UNCHANGED vars

Next == \/ EnvFiles \/ Fields \/ PrepareStack \/ StackDone \/ Done
        \/ \E s \in keys : ParseService(s)

Spec == Init /\ [][Next]_vars

-----------------------------------------------------------------------------
(* Properties. *)

Pairs == {<<f, s>> : f \in files, s \in UNION {g.doc.services : g \in files}}
Declared == {fs \in Pairs : fs[2] \in fs[1].doc.services}

\* No stack redefines a service or a config of another: when the parse
\* succeeds every declared service is there, as its own stack declares it, and
\* nothing else, in whatever order files and services were visited.
NobodyOverwritten ==
    phase = "ok" =>
        /\ DOMAIN services = {Qualified(d[1].name, d[2].key) : d \in Declared}
        /\ \A d \in Declared :
             LET v == services[Qualified(d[1].name, d[2].key)] IN
             v.by = d[1].name /\ v.of = d[2]

\* What is deployed under the name of a config object is what every stack says
\* that declares it, so two stacks never share one with different contents; a
\* stack that declares a name twice has one of the two.
ConfigsAgree ==
    phase = "ok" =>
        \A f \in files : \A c \in Prepared(f) :
            \E d \in Prepared(f) :
                /\ ObjectName(d) = ObjectName(c)
                /\ ObjectName(c) \in DOMAIN configs
                /\ configs[ObjectName(c)] = Data(f, d)

\* A failed parse leaves nothing behind that a cycle could apply, and once it
\* comes to the fields a single run reports every unsupported one.
FailsWhole ==
    phase = "failed" =>
        /\ services = Empty /\ configs = Empty
        /\ LET unsupported == {d \in Declared : ~(d[2].fields \subseteq AllowedFields)}
               env == {d \in Declared : d[2].env = "bad"
                                        \/ (d[2].env = "ok" /\ ~EnvRootSet)}
           IN  env = {} =>
               errors = UNION {{<<d[1].name, d[2].key, fld>> :
                                  fld \in d[2].fields \ AllowedFields} : d \in unsupported}
=============================================================================

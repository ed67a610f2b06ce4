------------------------------ MODULE StackTree ------------------------------
(***************************************************************************)
(* How the stack files of one commit are read (internal/source stackFiles, *)
(* stackConfigFiles): every .yml and .yaml file of one directory, and for  *)
(* each the files its config objects name, relative to the stack file and  *)
(* inside the repository.                                                  *)
(*                                                                         *)
(* A path is a sequence of names.  A commit is a function from paths to    *)
(* entries [kind, base, ext, big, doc]: base and ext are the two parts of  *)
(* the last name, doc is what the file says.  The doc of a stack file is   *)
(* [configs, services], where a config is [key, file, object, body] and    *)
(* body is "plain", "anchor" (a mapping others may alias) or "alias".      *)
(***************************************************************************)
EXTENDS Naturals, Sequences, SequencesExt, FiniteSets

CONSTANTS
    Dir,      \* GitSource.path, cleaned
    Nil,      \* no file, no object name
    Absolute, \* an absolute path in a stack file
    Failed    \* the outcome of reading a commit that cannot be read

-----------------------------------------------------------------------------
(* Paths. *)

\* From q into seg; .. that leads out of the repository stays in front.
Enter(q, seg) ==
    IF seg = "." THEN q
    ELSE IF seg = ".." /\ q # <<>> /\ Last(q) # ".." THEN Front(q)
    ELSE Append(q, seg)

\* path.Clean of a relative path, one name after the other.
Cleaned(p) ==
    LET at[n \in 0 .. Len(p)] == IF n = 0 THEN <<>> ELSE Enter(at[n-1], p[n]) IN at

Clean(p) == Cleaned(p)[Len(p)]

Escapes(p) == p # <<>> /\ Head(p) = ".."

\* Mutant: config files are looked up from the root of the repository.
ConfigPath_Root(stackPath, file) == Clean(file)
\* Where a config file is, relative to its stack file.
ConfigPath(stackPath, file) == Clean(Front(stackPath) \o file)

-----------------------------------------------------------------------------
(* stackConfigFiles *)

\* The declarations it looks at: a body that is an alias is not a mapping for
\* it, although yamlMappingValue follows an alias of the whole block.
Read(doc) == {c \in doc.configs : c.body # "alias" /\ c.file # Nil}

Regular(commit, p) ==
    p \in DOMAIN commit /\ commit[p].kind = "file" /\ ~commit[p].big

ConfigReadable(commit, stackPath, c) ==
    /\ c.file # Absolute
    /\ LET p == ConfigPath(stackPath, c.file) IN
       ~Escapes(p) /\ Regular(commit, p)

ConfigsReadable(commit, stackPath) ==
    \A c \in Read(commit[stackPath].doc) : ConfigReadable(commit, stackPath, c)

\* The payloads, keyed by path from the root of the repository.
ConfigFiles(commit, stackPath) ==
    [p \in {ConfigPath(stackPath, c.file) : c \in Read(commit[stackPath].doc)}
        |-> commit[p].doc]

-----------------------------------------------------------------------------
(* stackFiles *)

Extensions == {"yml", "yaml"}

\* The stack files of a commit: the directory's own entries only.
StackPaths(commit) ==
    {p \in DOMAIN commit :
        /\ Len(p) = Len(Dir) + 1 /\ IsPrefix(Dir, p)
        /\ commit[p].kind = "file" /\ commit[p].ext \in Extensions}

\* Two files with the same stack name.
Ambiguous(commit) ==
    \E p, q \in StackPaths(commit) :
        p # q /\ commit[p].base = commit[q].base

\* The path is a directory: it holds something.
DirExists(commit) ==
    Dir = <<>> \/ \E p \in DOMAIN commit : Len(p) > Len(Dir) /\ IsPrefix(Dir, p)

Readable(commit) ==
    /\ DirExists(commit) /\ ~Ambiguous(commit)
    /\ \A p \in StackPaths(commit) :
         ~commit[p].big /\ ConfigsReadable(commit, p)

StackFiles(commit) ==
    IF ~Readable(commit) THEN Failed
    ELSE {[name |-> commit[p].base, path |-> p, doc |-> commit[p].doc,
           files |-> ConfigFiles(commit, p)] : p \in StackPaths(commit)}
=============================================================================

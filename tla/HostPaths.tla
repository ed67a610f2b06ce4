----------------------------- MODULE HostPaths -----------------------------
(***************************************************************************)
(* Which paths of the host a stack file may name: bind mounts and          *)
(* env_files.  Both are resolved through the host's symbolic links before  *)
(* they are compared with the configured roots, and what goes into the     *)
(* service spec is the resolved path.                                      *)
(*                                                                         *)
(* A path is a sequence of names, / is the empty one; a file system maps   *)
(* every path that exists, / itself apart, to a directory, a file or a     *)
(* link.  Between two parses the host's administrator may point a link     *)
(* elsewhere.                                                              *)
(***************************************************************************)
EXTENDS Naturals, Sequences, SequencesExt

CONSTANTS Names,        \* names of files, and Up
          Up,           \* the name ".."
          FileSystems,  \* file systems the host may have
          Settings,     \* of the configuration: [roots, exact, envRoot], where
                        \* exact is a Seq of [source, ro]
          NoRoot,       \* envRoot is not set
          Entries,      \* of a stack file: [source, ro, env], a bind mount and
                        \* an env_file, [abs, path]
          Refused,      \* result of a refused entry
          MaxLinks      \* links followed before EvalSymlinks gives up

VARIABLES fs,
          config, entry,  \* the configuration, and the entry being parsed
          bound, env,     \* what the parse made of the entry
          parsed          \* they are of the host as it is

vars == <<fs, config, entry, bound, env, parsed>>

Kind(f, p) == IF p = <<>> THEN "dir" ELSE f[p].kind
Exists(f, p) == p = <<>> \/ p \in DOMAIN f

(* From directory q into n; .. leads back. *)
Enter(q, n) == IF n # Up THEN Append(q, n) ELSE IF q = <<>> THEN q ELSE Front(q)

(* Where the first k names of p lead, from / and if there are no links. *)
Walked(p) ==
    LET at[k \in 0..Len(p)] == IF k = 0 THEN <<>> ELSE Enter(at[k-1], p[k]) IN at

(* filepath.Clean of an absolute path: .. removes the name before it,      *)
(* whatever that name is.                                                  *)
Clean(p) == Walked(p)[Len(p)]

(* The k-th name does not just lead on: there is nothing, or a link, or a  *)
(* file that should be a directory.                                        *)
Stops(f, p, k) ==
    LET here == Walked(p)[k]
    IN  \/ ~Exists(f, here)
        \/ Kind(f, here) = "link"
        \/ Kind(f, here) = "file" /\ k < Len(p)

(* The first link on p is replaced by what it points to; .. behind it      *)
(* leaves the directory the link led to.                                   *)
Follow(f, p) ==
    LET FirstLink(k) == /\ \A j \in 1..k-1 : ~Stops(f, p, j)
                        /\ Exists(f, Walked(p)[k]) /\ Kind(f, Walked(p)[k]) = "link"
    IN  IF ~\E k \in 1..Len(p) : FirstLink(k) THEN p
        ELSE LET k == CHOOSE k \in 1..Len(p) : FirstLink(k)
             IN  f[Walked(p)[k]].to \o SubSeq(p, k + 1, Len(p))

Followed(f, p) ==
    LET turn[n \in 0..MaxLinks] == IF n = 0 THEN p ELSE Follow(f, turn[n-1]) IN turn

(* filepath.EvalSymlinks *)
EvalSymlinks(f, p) ==
    LET q == Followed(f, p)[MaxLinks]
    IN  IF \E k \in 1..Len(q) : Stops(f, q, k) THEN Refused ELSE Clean(q)

(* filepath.Rel of two clean paths. *)
Rel(base, target) ==
    LET common == LongestCommonPrefix({base, target})
        n == Len(common)
    IN  [i \in 1..Len(base) - n |-> Up] \o SubSeq(target, n + 1, Len(target))

(* Mutant: the root itself is not inside. *)
Inside_Strict(base, target) == LET r == Rel(base, target) IN r # <<>> /\ Head(r) # Up

Inside(base, target) == LET r == Rel(base, target) IN r = <<>> \/ Head(r) # Up

-----------------------------------------------------------------------------
MatchesExact(f, real, readOnly, a) == EvalSymlinks(f, a.source) = real /\ a.ro = readOnly
Resolves(f, a) == EvalSymlinks(f, a.source) # Refused

(* resolveExactBindMount goes through the allowances in order, up to the   *)
(* first that matches; one that does not resolve is an error.              *)
ExactAllows(f, real, readOnly) ==
    \E i \in DOMAIN config.exact :
        /\ MatchesExact(f, real, readOnly, config.exact[i])
        /\ \A k \in 1..i-1 : Resolves(f, config.exact[k])
ExactFails(f, real, readOnly) ==
    ~ExactAllows(f, real, readOnly) /\ \E i \in DOMAIN config.exact : ~Resolves(f, config.exact[i])

UsableRoot(f, r) ==
    LET real == EvalSymlinks(f, r)
    IN  /\ Clean(r) # <<>>
        /\ real # Refused /\ real # <<>>
        /\ Kind(f, real) = "dir"

(* resolvePathWithinRoot goes through the roots in order; one that cannot  *)
(* be used is an error, even if a later one would allow the path.          *)
RootAllows(f, real) ==
    \E i \in DOMAIN config.roots :
        /\ \A k \in 1..i : UsableRoot(f, config.roots[k])
        /\ Inside(EvalSymlinks(f, config.roots[i]), real)

(* Mutant: the path as written is mounted. *)
Mounted_AsWritten(real, written) == written

Mounted(real, written) == real

(* serviceVolumes, for one bind mount. *)
Bind(f, p, readOnly) ==
    LET real == EvalSymlinks(f, p)
    IN  IF /\ config.roots # <<>> \/ config.exact # <<>>
           /\ real # Refused /\ ~ExactFails(f, real, readOnly)
           /\ ExactAllows(f, real, readOnly) \/ RootAllows(f, real)
        THEN Mounted(real, p) ELSE Refused

(* Mutant: a path that is absolute already is taken as it is. *)
WithinEnvRoot_Relative(f, root, e, real) == e.abs \/ Inside(root, real)

WithinEnvRoot(f, root, e, real) == Inside(root, real)

(* resolveStackEnvFiles, for one entry: a relative path is joined to the   *)
(* root, which cleans it before any link is followed.                      *)
EnvFile(f, e) ==
    IF config.envRoot = NoRoot THEN Refused
    ELSE LET root == EvalSymlinks(f, Clean(config.envRoot))
             real == EvalSymlinks(f, Clean(IF e.abs THEN e.path ELSE config.envRoot \o e.path))
         IN  IF root = Refused \/ real = Refused THEN Refused
             ELSE IF Kind(f, root) = "dir" /\ WithinEnvRoot(f, root, e, real) /\ Kind(f, real) = "file"
             THEN real ELSE Refused

-----------------------------------------------------------------------------
Init ==
    /\ fs \in FileSystems /\ config \in Settings /\ entry \in Entries
    /\ bound = Refused /\ env = Refused /\ parsed = FALSE

(* Every cycle parses the same document again, on the host as it is. *)
Parse ==
    /\ parsed' = TRUE
    /\ bound' = Bind(fs, entry.source, entry.ro)
    /\ env' = EnvFile(fs, entry.env)
    /\ UNCHANGED <<fs, config, entry>>

(* The administrator changes the host; nothing is decided until the next   *)
(* parse.                                                                  *)
Administer ==
    /\ parsed' = FALSE
    /\ fs' \in FileSystems \ {fs}
    /\ UNCHANGED <<config, entry, bound, env>>

Next == Parse \/ Administer

Spec == Init /\ [][Next]_vars

-----------------------------------------------------------------------------
(* Reference: the directories on the way from / to a path that has no      *)
(* links on it.                                                            *)
Ancestors(p) == {SubSeq(p, 1, i) : i \in 0..Len(p)}
NoLinks(f, p) == \A q \in Ancestors(p) : Exists(f, q) /\ Kind(f, q) # "link"

AtOrBelow(r, p) == r \in Ancestors(p) /\ Kind(fs, r) = "dir"

(* A mounted path exists, has no link on it, and lies at or below a        *)
(* configured directory other than /, or is exactly an allowed one with    *)
(* the mode it is allowed with, whatever links and .. the stack file or    *)
(* the configuration spell it with.                                        *)
MountsContained ==
    parsed /\ bound # Refused =>
        /\ NoLinks(fs, bound)
        /\ \/ \E i \in DOMAIN config.roots :
                 LET r == EvalSymlinks(fs, config.roots[i])
                 IN  r \notin {Refused, <<>>} /\ AtOrBelow(r, bound)
           \/ \E i \in DOMAIN config.exact :
                 MatchesExact(fs, bound, entry.ro, config.exact[i])

(* An env_file that is read is a file below the configured root. *)
EnvContained ==
    parsed /\ env # Refused =>
        /\ config.envRoot # NoRoot /\ NoLinks(fs, env) /\ Kind(fs, env) = "file"
        /\ AtOrBelow(EvalSymlinks(fs, Clean(config.envRoot)), env)

(* Nothing is refused for the way it is spelt: a bind below the only root, *)
(* or exactly allowed, is mounted through any chain of links.              *)
AllowedIsMounted ==
    LET real == EvalSymlinks(fs, entry.source)
    IN  parsed /\ bound = Refused /\ real # Refused =>
        /\ ~\E i \in DOMAIN config.exact :
               /\ \A k \in 1..i : Resolves(fs, config.exact[k])
               /\ MatchesExact(fs, real, entry.ro, config.exact[i])
        /\ Len(config.roots) = 1 /\ config.exact = <<>> /\ UsableRoot(fs, config.roots[1])
             => EvalSymlinks(fs, config.roots[1]) \notin Ancestors(real)
=============================================================================

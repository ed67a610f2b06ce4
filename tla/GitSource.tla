------------------------------ MODULE GitSource ------------------------------
(***************************************************************************)
(* The source of desired state (internal/source GitSource): the first      *)
(* Fetch clones one branch into memory, later ones force the local branch  *)
(* to the remote one, and each then reads the stack files at the local     *)
(* branch.  The remote branch is pushed to, forced back, deleted and       *)
(* created again meanwhile; calls fail before or after they took effect.   *)
(***************************************************************************)
EXTENDS StackTree

CONSTANTS
    Commits,   \* commits the branch may point to
    Content,   \* Content[c]: the tree of commit c
    MaxFaults, \* bound on calls that fail
    MaxMoves   \* bound on the moves of the branch

VARIABLES
    head,    \* the commit of the remote branch, or Nil
    moves, faults,
    repo,    \* GitSource.repo is set
    ref,     \* the local branch, or Nil
    pc,      \* "idle", "transfer" or "read"
    result,  \* what the last Fetch returned: [commit, files], or Failed
    seen     \* history: what the branch has pointed to since Fetch was called

vars == <<head, moves, faults, repo, ref, pc, result, seen>>

Init ==
    /\ head \in Commits /\ moves = 0 /\ faults = 0
    /\ repo = FALSE /\ ref = Nil /\ pc = "idle" /\ result = Failed
    /\ seen = {}

-----------------------------------------------------------------------------
Fetch ==
    /\ pc = "idle"
    /\ pc' = "transfer" /\ seen' = {head}
    /\ UNCHANGED <<head, moves, faults, repo, ref, result>>

Return(r) == pc' = "idle" /\ result' = r

\* Mutant: the fetch moves the remote-tracking branch only, as a clone's
\* default refspec would.
Fetched_Tracking == ref
\* The refspec forces the local branch itself.
Fetched == head

\* Mutant: nothing new on the branch counts as a failed fetch.
AfterUpToDate_Error == Return(Failed)
\* NoErrAlreadyUpToDate is no error.
AfterUpToDate == pc' = "read" /\ UNCHANGED result

\* clone or update of a branch that exists.
Transfer ==
    /\ pc = "transfer" /\ head # Nil
    /\ repo' = TRUE
    /\ ref' = IF repo THEN Fetched ELSE head
    /\ IF repo /\ ref = head THEN AfterUpToDate
       ELSE pc' = "read" /\ UNCHANGED result
    /\ UNCHANGED <<head, moves, faults, seen>>

\* The branch is gone, the key file is not private, the network fails or the
\* stage times out; an update may have moved the branch already, while s.repo is
\* only set once a clone is complete.
TransferFails ==
    /\ pc = "transfer"
    /\ IF head = Nil THEN UNCHANGED <<faults, ref>>
       ELSE /\ faults < MaxFaults /\ faults' = faults + 1
            /\ ref' \in {ref, IF repo THEN Fetched ELSE ref}
    /\ Return(Failed)
    /\ UNCHANGED <<head, moves, seen, repo>>

\* A commit whose stack files cannot be read is an error of the whole Fetch.
ReadFiles ==
    /\ pc = "read"
    /\ LET files == StackFiles(Content[ref]) IN
       Return(IF files = Failed THEN Failed ELSE [commit |-> ref, files |-> files])
    /\ UNCHANGED <<head, moves, faults, repo, ref, seen>>

\* Somebody pushes, forces the branch back, deletes it or creates it again.
Push(c) ==
    /\ c # head /\ moves < MaxMoves
    /\ head' = c /\ moves' = moves + 1
    /\ seen' = seen \cup {c}
    /\ UNCHANGED <<faults, repo, ref, pc, result>>

Work == Fetch \/ Transfer \/ TransferFails \/ ReadFiles

Next == Work \/ \E c \in Commits \cup {Nil} : Push(c)

Spec == Init /\ [][Next]_vars

\* The loop fetches again and again, and every call has the stage timeout; a
\* call that could succeed does in the end.
FairSpec == Spec /\ WF_vars(Work) /\ SF_vars(Transfer)

-----------------------------------------------------------------------------
(* Properties. *)

\* What Fetch returns was the head of the branch while Fetch ran: no error, no
\* deleted and no forced branch makes it return an older state of the clone.
FreshReturn ==
    pc # "idle" /\ pc' = "idle" /\ result' # Failed => result'.commit \in seen

\* What is returned with a commit is that commit's: every file of the directory
\* that is a stack by its name, once, with what it says,
StacksAreTheCommits ==
    result # Failed =>
        LET tree == Content[result.commit] IN
        /\ \A p \in DOMAIN tree :
             /\ Len(p) = Len(Dir) + 1 /\ IsPrefix(Dir, p)
             /\ tree[p].kind = "file" /\ tree[p].ext \in {"yml", "yaml"}
             => Cardinality({f \in result.files : f.name = tree[p].base}) = 1
        /\ \A f \in result.files : /\ f.path \in DOMAIN tree
                                   /\ f.doc = tree[f.path].doc

\* and what its configs name, found by walking the tree from the stack file.
Walk(p, file) ==  \* reference definition: from directory to directory
    LET step[n \in 0 .. Len(file)] ==
          IF n = 0 THEN Front(p)
          ELSE IF file[n] = ".." THEN (IF step[n-1] = <<>> THEN <<Nil>>
                                       ELSE Front(step[n-1]))
          ELSE IF file[n] = "." THEN step[n-1]
          ELSE Append(step[n-1], file[n])
    IN step[Len(file)]
PayloadsAreTheCommits ==
    result # Failed =>
        \A f \in result.files : \A c \in Read(f.doc) :
            LET w == Walk(f.path, c.file) IN
            w \in DOMAIN f.files /\ f.files[w] = Content[result.commit][w].doc

\* Once the branch stays (its moves are bounded), Fetch returns it again and
\* again, whatever failed or was deleted before, unless it cannot be read.
HeadIsReached ==
    []<>(\/ head = Nil
         \/ IF StackFiles(Content[head]) = Failed THEN result = Failed
            ELSE result # Failed /\ result.commit = head)
=============================================================================

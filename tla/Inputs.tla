-------------------------------- MODULE Inputs --------------------------------
(***************************************************************************)
(* What the daemon reads from outside its cluster: CosignGate (registry    *)
(* and Sigstore), GitSource (the branch) and HostPaths (the host's files)  *)
(* side by side.  They share no state, so a behaviour is one of them while *)
(* the others rest, in the gate's first state or with all variables Nil;   *)
(* part says which.                                                        *)
(***************************************************************************)
EXTENDS CosignGate

CONSTANTS
    Dir, Absolute, Failed, Content, MaxFaults, MaxMoves,  \* as in GitSource
    Names, Up, FileSystems, Settings, NoRoot, Entries, Refused,
    MaxLinks                                              \* as in HostPaths

VARIABLES
    part, head, moves, faults, repo, ref, fetching, result, seen,
    fs, config, entry, bound, env, parsed

G == INSTANCE GitSource WITH Commits <- DOMAIN Content, pc <- fetching
H == INSTANCE HostPaths

\* GitSource.path is cleaned; the files of a commit and those its configs name
\* have paths.
ASSUME ContentAssumption ==
    /\ Dir \in Seq(STRING \ {".", ".."})
    /\ \A c \in DOMAIN Content : \A p \in G!StackPaths(Content[c]) :
         /\ p \in Seq(STRING)
         /\ \A r \in G!Read(Content[c][p].doc) :
              r.file # Absolute => r.file \in Seq(STRING)

\* A path of the host is a sequence of names, and so is what a link points to.
ASSUME HostAssumption ==
    /\ Up \in Names /\ MaxLinks \in Nat
    /\ \A f \in FileSystems : \A p \in DOMAIN f :
         f[p].kind = "link" => f[p].to \in Seq(Names)
    /\ \A s \in Settings :
         /\ s.roots \in Seq(Seq(Names))
         /\ s.exact \in Seq([source : Seq(Names), ro : BOOLEAN])
         /\ s.envRoot # NoRoot => s.envRoot \in Seq(Names)
    /\ \A e \in Entries : e.source \in Seq(Names) /\ e.env.path \in Seq(Names)

-----------------------------------------------------------------------------
gitVars == <<head, moves, faults, repo, ref, fetching, result, seen>>
hostVars == <<fs, config, entry, bound, env, parsed>>
allVars == <<part, vars, gitVars, hostVars>>

RestGate == Init /\ policy = CHOOSE p \in Policies : Loads(p)
RestGit == /\ head = Nil /\ moves = Nil /\ faults = Nil /\ repo = Nil
           /\ ref = Nil /\ fetching = Nil /\ result = Nil /\ seen = Nil
RestHost == /\ fs = Nil /\ config = Nil /\ entry = Nil
            /\ bound = Nil /\ env = Nil /\ parsed = Nil

InGate(A) == part = "gate" /\ A /\ UNCHANGED <<part, gitVars, hostVars>>
InGit(A) == part = "git" /\ A /\ UNCHANGED <<part, vars, hostVars>>
InHost(A) == part = "host" /\ A /\ UNCHANGED <<part, vars, gitVars>>

AllInit == \/ part = "gate" /\ Init /\ RestGit /\ RestHost
           \/ part = "git" /\ G!Init /\ RestGate /\ RestHost
           \/ part = "host" /\ H!Init /\ RestGate /\ RestGit
AllNext == InGate(Next) \/ InGit(G!Next) \/ InHost(H!Next)

\* The fairness of the gate and the Git source; part never changes.
AllSpec ==
    /\ AllInit /\ [][AllNext]_allVars
    /\ WF_allVars(InGate(Step) \/ InGit(G!Work)) /\ SF_allVars(InGit(G!Transfer))

-----------------------------------------------------------------------------
(* The properties of GitSource and HostPaths, while they run. *)

\* What a fetch returns was a head of the branch while it ran, and the files
\* with it are those of that commit.
FetchIsTrue ==
    [][part = "git" => /\ G!FreshReturn
                       /\ G!StacksAreTheCommits' /\ G!PayloadsAreTheCommits']_gitVars
\* What was broken outside does not stay broken inside: once registry and Sigstore
\* answer, what they vouch for passes, and a branch that stays is reached.
InputsRecover == OutageHeals /\ (part = "git" => G!HeadIsReached)
\* Bind mounts and env files stay inside what the configuration allows, and what
\* it allows is mounted.
PathsContained ==
    part = "host" => H!MountsContained /\ H!EnvContained /\ H!AllowedIsMounted
=============================================================================

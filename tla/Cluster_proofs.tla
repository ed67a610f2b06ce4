---------------------------- MODULE Cluster_proofs ----------------------------
(* Applier implements AtomicApply, proved for any networks, configs, secrets  *)
(* and specs, and any number of failures, edits by hand and commits; and what *)
(* AwaitConverged reports is true, for any targets, specs and tasks.          *)
EXTENDS Cluster, TLAPS, FiniteSetTheorems

\* What the cluster holds: IDs are given out once.
Held ==
    /\ raft \in Nat
    /\ nets \in [Nets -> Networks \cup {None}]
    /\ cfgs \in [Configs -> Nat \cup {None}]
    /\ \A n \in Nets : nets[n] # None => nets[n].id <= raft
    /\ \A c \in Configs : cfgs[c] # None => cfgs[c] <= raft
    /\ \A m, n \in Nets :
         m # n /\ nets[m] # None /\ nets[n] # None => nets[m].id # nets[n].id
    /\ \A c, d \in Configs :
         c # d /\ cfgs[c] # None /\ cfgs[d] # None => cfgs[c] # cfgs[d]
Service ==
    /\ svc \in ServiceObjects \cup {None}
    /\ svc # None => /\ \A x \in svc.nets : x <= raft
                     /\ \A x \in svc.cfgs : x <= raft
Asked ==
    /\ want \in Specs
    /\ req \in Requests \cup {None}
    /\ call # "idle" <=> req # None
\* What the change has resolved: an ID, once resolved for a name, never becomes
\* that of another name.
Resolved ==
    /\ ids \in [Nets -> Nat \cup {None}]
    /\ byName \in [Configs -> Nat \cup {None}]
    /\ \A n \in Nets : ids[n] # None => ids[n] <= raft
    /\ \A c \in Configs : byName[c] # None => byName[c] <= raft
    /\ \A m, n \in Nets :
         m # n /\ nets[m] # None /\ ids[n] # None => nets[m].id # ids[n]
    /\ \A c, d \in Configs :
         c # d /\ cfgs[c] # None /\ byName[d] # None => cfgs[c] # byName[d]
Complete ==
    /\ call \in {"configs", "write"} /\ req.act # "remove"
         => \A n \in req.spec.nets : ids[n] # None
    /\ call = "write" /\ req.act # "remove"
         => \A c \in req.spec.cfgs : byName[c] # None
ApplierInv == Held /\ Service /\ Asked /\ Resolved /\ Complete

LEMMA Nothing ==
    /\ None \notin Specs /\ None \notin Nat /\ None \notin Networks
    /\ None \notin ServiceObjects /\ None \notin Requests
    /\ Wanted \subseteq Specs
  BY ApplierAssumption

LEMMA InitInv == Init => ApplierInv
  BY Nothing DEF Init, ApplierInv, Held, Service, Asked, Resolved, Complete, NoIds, NoCfgs

\* A change that returns leaves nothing behind that was resolved.
LEMMA ReturnInv ==
  ASSUME Return, Asked, UNCHANGED want
  PROVE  Asked' /\ (raft' \in Nat => Resolved') /\ Complete'
  BY Nothing DEF Return, Asked, Resolved, Complete, NoIds, NoCfgs

\* The objects change, by whomever: some go, and what comes gets an ID that was
\* never given out before.
LEMMA NewIDs ==
  ASSUME Held, NEW x, NEW y, raft' \in {raft, raft + 1},
         nets' \in [Nets -> Networks \cup {None}], cfgs' \in [Configs -> Nat \cup {None}],
         \A n \in Nets : nets'[n] # None =>
             \/ nets[n] # None /\ nets'[n].id = nets[n].id
             \/ n = x /\ raft' = raft + 1 /\ nets'[n].id = raft + 1,
         \A c \in Configs : cfgs'[c] # None =>
             \/ cfgs'[c] = cfgs[c]
             \/ c = y /\ raft' = raft + 1 /\ cfgs'[c] = raft + 1
  PROVE  /\ Held'
         /\ Service /\ svc' = svc => Service'
         /\ Resolved /\ UNCHANGED <<ids, byName>> => Resolved'
<1>n. raft \in Nat /\ raft + 1 \in Nat /\ raft' \in Nat /\ raft' >= raft
  BY DEF Held
<1>i. /\ \A n \in Nets : nets[n] # None => nets[n].id \in Nat /\ nets[n].id <= raft
      /\ \A c \in Configs : cfgs[c] # None => cfgs[c] \in Nat /\ cfgs[c] <= raft
  BY DEF Held, Networks
<1>1. /\ \A n \in Nets : nets'[n] # None => nets'[n].id <= raft'
      /\ \A c \in Configs : cfgs'[c] # None => cfgs'[c] <= raft'
  BY <1>n, <1>i
<1>2. \A m, n \in Nets :
        m # n /\ nets'[m] # None /\ nets'[n] # None => nets'[m].id # nets'[n].id
  <2> SUFFICES ASSUME NEW m \in Nets, NEW n \in Nets, m # n, nets'[m] # None, nets'[n] # None
               PROVE  nets'[m].id # nets'[n].id
    OBVIOUS
  <2>1. CASE nets[m] # None /\ nets'[m].id = nets[m].id
    <3>1. CASE nets[n] # None /\ nets'[n].id = nets[n].id
      BY <2>1, <3>1 DEF Held
    <3>2. CASE nets'[n].id = raft + 1
      BY <1>n, <1>i, <2>1, <3>2
    <3> QED BY <3>1, <3>2
  <2>2. CASE m = x /\ nets'[m].id = raft + 1
    BY <1>n, <1>i, <2>2
  <2> QED BY <2>1, <2>2
<1>3. \A c, d \in Configs :
        c # d /\ cfgs'[c] # None /\ cfgs'[d] # None => cfgs'[c] # cfgs'[d]
  BY <1>n, <1>i DEF Held
<1>4. Held'
  BY <1>n, <1>1, <1>2, <1>3 DEF Held
<1>5. ASSUME Service, svc' = svc PROVE Service'
  <2>1. svc # None => /\ \A z \in svc.nets : z \in Nat
                      /\ \A z \in svc.cfgs : z \in Nat
    BY <1>5, Nothing DEF Service, ServiceObjects
  <2> QED BY <1>5, <1>n, <2>1 DEF Service
<1>6. ASSUME Resolved, UNCHANGED <<ids, byName>> PROVE Resolved'
  <2>1. \A n \in Nets : ids[n] # None => ids[n] \in Nat /\ ids[n] <= raft
    BY <1>6 DEF Resolved
  <2>2. \A c \in Configs : byName[c] # None => byName[c] \in Nat /\ byName[c] <= raft
    BY <1>6 DEF Resolved
  <2>3. \A m, n \in Nets :
          m # n /\ nets'[m] # None /\ ids[n] # None => nets'[m].id # ids[n]
    BY <1>6, <1>n, <2>1 DEF Resolved
  <2>4. \A c, d \in Configs :
          c # d /\ cfgs'[c] # None /\ byName[d] # None => cfgs'[c] # byName[d]
    BY <1>6, <1>n, <2>2 DEF Resolved
  <2> QED BY <1>6, <1>n, <2>1, <2>2, <2>3, <2>4 DEF Resolved
<1> QED BY <1>4, <1>5, <1>6

\* A name that is looked up among the networks keeps its ID.
LEMMA ResolvesNetwork ==
  ASSUME Held, Resolved, UNCHANGED <<objects, raft, byName>>, NEW x, Listed(x),
         ids' = [ids EXCEPT ![x] = nets[x].id]
  PROVE  Resolved'
<1>1. CASE x \in Nets
  <2>1. nets[x] # None /\ nets[x].id \in Nat
    BY <1>1 DEF Listed, Held, Networks
  <2>2. ids' \in [Nets -> Nat \cup {None}]
    BY <2>1 DEF Resolved
  <2>3. \A n \in Nets : ids'[n] # None => ids'[n] <= raft'
    BY <1>1, <2>1 DEF Resolved, Held
  <2>4. \A m, n \in Nets : m # n /\ nets[m] # None /\ ids'[n] # None => nets[m].id # ids'[n]
    BY <1>1, <2>1 DEF Resolved, Held
  <2> QED BY <2>2, <2>3, <2>4 DEF Resolved, objects
<1>2. CASE x \notin Nets
  BY <1>2 DEF Resolved, objects
<1> QED BY <1>1, <1>2

LEMMA StepInv == ApplierInv /\ [Next]_vars => ApplierInv'
<1> SUFFICES ASSUME Held, Service, Asked, Resolved, Complete, [Next]_vars
             PROVE  Held' /\ Service' /\ Asked' /\ Resolved' /\ Complete'
  BY DEF ApplierInv
<1>w. ASSUME UNCHANGED <<objects, svc, raft>> PROVE Held' /\ Service'
  BY <1>w DEF objects, Held, Service
<1>r. ASSUME Return, UNCHANGED want, raft' \in Nat
      PROVE  Asked' /\ Resolved' /\ Complete'
  BY <1>r, ReturnInv
<1>n. raft \in Nat /\ raft + 1 \in Nat
  BY DEF Held
<1>1. CASE Begin
  <2>1. UNCHANGED <<objects, svc, raft, ids, byName>> /\ req' \in Requests /\ want' = want
    BY <1>1 DEF Begin, Asked, Requests, local
  <2>2. call' \in {"networks", "inspect"}
    BY <1>1 DEF Begin
  <2>3. Asked'
    BY <2>1, <2>2, Nothing DEF Asked
  <2>4. Resolved'
    BY <2>1 DEF Resolved, objects
  <2> QED BY <1>w, <2>1, <2>2, <2>3, <2>4 DEF Complete
<1>2. CASE Inspect
  <2>1. UNCHANGED <<objects, svc, raft, want>>
    BY <1>2 DEF Inspect
  <2>2. CASE Return
    BY <1>w, <1>r, <1>n, <2>1, <2>2
  <2>3. CASE ~Return
    <3>1. /\ UNCHANGED <<req, ids, byName>> /\ call = "inspect"
          /\ \/ call' = "networks"
             \/ call' = "write" /\ req.act = "remove"
      BY <1>2, <2>3 DEF Inspect, Goto
    <3>2. Asked'
      BY <2>1, <3>1 DEF Asked
    <3>3. Resolved'
      BY <2>1, <3>1 DEF Resolved, objects
    <3> QED BY <1>w, <2>1, <3>1, <3>2, <3>3 DEF Complete
  <2> QED BY <2>2, <2>3
<1>3. CASE ListNetwork
  <2>1. /\ UNCHANGED <<objects, svc, raft, want, req, byName>>
        /\ call = "networks" /\ call' \in {"networks", "create network"}
    BY <1>3 DEF ListNetwork
  <2>2. \/ ids' = ids
        \/ Listed(NextNet) /\ ids' = [ids EXCEPT ![NextNet] = nets[NextNet].id]
    BY <1>3 DEF ListNetwork, FoundId
  <2>3. Asked'
    BY <2>1 DEF Asked
  <2>4. CASE ids' = ids
    BY <1>w, <2>1, <2>3, <2>4 DEF Resolved, objects, Complete
  <2>5. CASE Listed(NextNet) /\ ids' = [ids EXCEPT ![NextNet] = nets[NextNet].id]
    BY <1>w, <2>1, <2>3, <2>5, ResolvesNetwork DEF Complete
  <2> QED BY <2>2, <2>4, <2>5
<1>4. CASE CreateNetwork
  <2>1. UNCHANGED <<cfgs, secs, svc, want>> /\ call = "create network"
    BY <1>4 DEF CreateNetwork
  <2>2. CASE nets[NextNet] # None
    BY <1>4, <1>w, <1>r, <1>n, <2>1, <2>2 DEF CreateNetwork, objects
  <2>3. CASE nets[NextNet] = None
    <3>1. /\ nets' = [nets EXCEPT ![NextNet] = [id |-> raft + 1, seen |-> FALSE]]
          /\ raft' = raft + 1
      BY <1>4, <2>3 DEF CreateNetwork
    <3>2. /\ nets' \in [Nets -> Networks \cup {None}]
          /\ cfgs' \in [Configs -> Nat \cup {None}]
      BY <1>n, <2>1, <3>1 DEF Held, Networks
    <3>3. \A n \in Nets : nets'[n] # None =>
             \/ nets[n] # None /\ nets'[n].id = nets[n].id
             \/ n = NextNet /\ raft' = raft + 1 /\ nets'[n].id = raft + 1
      BY <3>1 DEF Held
    <3>4. /\ Held' /\ Service'
          /\ UNCHANGED <<ids, byName>> => Resolved'
      BY <2>1, <3>1, <3>2, <3>3, NewIDs
    <3>5. CASE Return
      BY <1>r, <1>n, <2>1, <3>1, <3>4, <3>5
    <3>6. CASE ~Return
      <4>1. UNCHANGED <<req, ids, byName>> /\ call' = "await network"
        BY <1>4, <2>3, <3>6 DEF CreateNetwork, Goto, AfterCreate, Lost
      <4>2. Asked'
        BY <2>1, <4>1 DEF Asked
      <4> QED BY <3>4, <4>1, <4>2 DEF Complete
    <3> QED BY <3>5, <3>6
  <2> QED BY <2>2, <2>3
<1>5. CASE AwaitNetwork
  <2>1. UNCHANGED <<objects, svc, raft, want>> /\ call = "await network"
    BY <1>5 DEF AwaitNetwork
  <2>2. CASE Return
    BY <1>w, <1>r, <1>n, <2>1, <2>2
  <2>3. CASE ~Return
    <3>1. UNCHANGED <<req, byName>> /\ call' \in {"networks", "await network"}
      BY <1>5, <2>3 DEF AwaitNetwork, Goto
    <3>2. \/ ids' = ids
          \/ Listed(NextNet) /\ ids' = [ids EXCEPT ![NextNet] = nets[NextNet].id]
      BY <1>5, <2>3 DEF AwaitNetwork
    <3>3. Asked'
      BY <2>1, <3>1 DEF Asked
    <3>4. CASE ids' = ids
      BY <1>w, <2>1, <3>1, <3>3, <3>4 DEF Resolved, objects, Complete
    <3>5. CASE Listed(NextNet) /\ ids' = [ids EXCEPT ![NextNet] = nets[NextNet].id]
      BY <1>w, <2>1, <3>1, <3>3, <3>5, ResolvesNetwork DEF Complete
    <3> QED BY <3>2, <3>4, <3>5
  <2> QED BY <2>2, <2>3
<1>6. CASE ListConfigs
  <2>1. /\ UNCHANGED <<objects, svc, raft, want, req, ids>>
        /\ call = "networks" /\ call' = "configs" /\ Unresolved = {}
        /\ byName' = NoCfgs \/ byName' = cfgs
    BY <1>6 DEF ListConfigs, Goto
  <2>2. Asked'
    BY <2>1 DEF Asked
  <2>3. Resolved'
    BY <2>1 DEF Resolved, Held, NoCfgs, objects
  <2>4. Complete'
    BY <2>1 DEF Complete, Unresolved
  <2> QED BY <1>w, <2>1, <2>2, <2>3, <2>4
<1>7. ASSUME NEW c \in Configs, CreateConfig(c)
      PROVE  Held' /\ Service' /\ Asked' /\ Resolved' /\ Complete'
  <2>1. UNCHANGED <<nets, secs, svc, want>> /\ call = "configs"
    BY <1>7 DEF CreateConfig
  <2>2. CASE ~MayCreate(c) \/ cfgs[c] # None
    BY <1>7, <1>w, <1>r, <1>n, <2>1, <2>2 DEF CreateConfig, objects
  <2>3. CASE ~(~MayCreate(c) \/ cfgs[c] # None)
    <3>1. cfgs' = [cfgs EXCEPT ![c] = raft + 1] /\ raft' = raft + 1
      BY <1>7, <2>3 DEF CreateConfig
    <3>2. /\ nets' \in [Nets -> Networks \cup {None}]
          /\ cfgs' \in [Configs -> Nat \cup {None}]
      BY <1>n, <2>1, <3>1 DEF Held
    <3>3. Held' /\ Service'
      BY <2>1, <3>1, <3>2, NewIDs DEF Held
    <3>4. CASE Return
      BY <1>r, <1>n, <2>1, <3>1, <3>3, <3>4
    <3>5. CASE ~Return
      <4>1. /\ UNCHANGED <<req, ids>> /\ call' = "configs"
            /\ byName' = [byName EXCEPT ![c] = raft + 1]
        BY <1>7, <2>3, <3>5 DEF CreateConfig, Goto, Lost
      <4>2. Asked'
        BY <2>1, <4>1 DEF Asked
      <4>3. /\ \A d \in Configs : byName'[d] # None => byName'[d] \in Nat /\ byName'[d] <= raft'
            /\ byName' \in [Configs -> Nat \cup {None}]
        BY <1>n, <3>1, <4>1 DEF Resolved
      <4>4. \A d, e \in Configs :
              d # e /\ cfgs'[d] # None /\ byName'[e] # None => cfgs'[d] # byName'[e]
        <5> SUFFICES ASSUME NEW d \in Configs, NEW e \in Configs,
                            d # e, cfgs'[d] # None, byName'[e] # None
                     PROVE  cfgs'[d] # byName'[e]
          OBVIOUS
        <5>1. cfgs[d] # None => cfgs[d] \in Nat /\ cfgs[d] <= raft
          BY DEF Held
        <5>2. byName[e] # None => byName[e] \in Nat /\ byName[e] <= raft
          BY DEF Resolved
        <5>3. CASE d = c
          BY <1>n, <3>1, <4>1, <5>2, <5>3 DEF Held, Resolved
        <5>4. CASE d # c
          BY <1>n, <3>1, <4>1, <5>1, <5>4 DEF Held, Resolved
        <5> QED BY <5>3, <5>4
      <4>5. /\ \A n \in Nets : ids'[n] # None => ids'[n] <= raft'
            /\ ids' \in [Nets -> Nat \cup {None}]
        BY <1>n, <3>1, <4>1 DEF Resolved
      <4>6. \A m, n \in Nets :
              m # n /\ nets'[m] # None /\ ids'[n] # None => nets'[m].id # ids'[n]
        BY <2>1, <4>1 DEF Resolved
      <4>7. Resolved'
        BY <4>3, <4>4, <4>5, <4>6 DEF Resolved
      <4>8. Complete'
        BY <2>1, <4>1 DEF Complete
      <4> QED BY <3>3, <4>2, <4>7, <4>8
    <3> QED BY <3>4, <3>5
  <2> QED BY <2>2, <2>3
<1>8. CASE ListSecrets
  <2>1. UNCHANGED <<objects, svc, raft, want>> /\ call = "configs"
    BY <1>8 DEF ListSecrets
  <2>2. CASE Return
    BY <1>w, <1>r, <1>n, <2>1, <2>2
  <2>3. CASE ~Return
    <3>1. /\ UNCHANGED <<req, ids, byName>> /\ call' = "write"
          /\ \A c \in req.spec.cfgs : byName[c] # None
      BY <1>8, <2>3 DEF ListSecrets, Goto, local
    <3>2. Asked'
      BY <2>1, <3>1 DEF Asked
    <3>3. Resolved'
      BY <2>1, <3>1 DEF Resolved, objects
    <3> QED BY <1>w, <2>1, <3>1, <3>2, <3>3 DEF Complete
  <2> QED BY <2>2, <2>3
<1>9. CASE Write
  <2>1. UNCHANGED <<objects, want>> /\ Return
    BY <1>9 DEF Write
  <2>2. CASE UNCHANGED <<svc, raft>>
    BY <1>w, <1>r, <1>n, <2>1, <2>2
  <2>3. CASE ~UNCHANGED <<svc, raft>>
    <3>1. /\ Accepts /\ raft' = raft + 1 /\ call = "write"
          /\ svc' = IF req.act = "remove" THEN None
                    ELSE [id |-> IF req.act = "create" THEN raft + 1 ELSE svc.id,
                          ver |-> raft + 1, nets |-> Attached.nets,
                          cfgs |-> Attached.cfgs, secs |-> req.spec.secs]
      BY <1>9, <2>3 DEF Write
    <3>2. Held'
      BY <1>n, <2>1, <3>1, NewIDs DEF Held, objects
    <3>3. Service'
      <4>1. CASE req.act = "remove"
        BY <3>1, <4>1 DEF Service
      <4>2. CASE req.act # "remove"
        <5>1. req \in Requests
          BY <3>1 DEF Asked
        <5>2. req.spec.nets \subseteq Nets /\ req.spec.cfgs \subseteq Configs
              /\ req.spec.secs \subseteq Secrets
          BY <5>1 DEF Requests, Specs
        <5>3. /\ Attached.nets \subseteq Nat /\ \A x \in Attached.nets : x <= raft
              /\ Attached.cfgs \subseteq Nat /\ \A x \in Attached.cfgs : x <= raft
          BY <3>1, <4>2, <5>2 DEF Attached, Resolved, Complete
        <5>4. svc'.id \in Nat /\ svc' \in ServiceObjects
          BY <1>n, <3>1, <4>2, <5>2, <5>3 DEF Accepts, Service, ServiceObjects
        <5> QED BY <1>n, <3>1, <4>2, <5>3, <5>4 DEF Service
      <4> QED BY <4>1, <4>2
    <3> QED BY <1>r, <1>n, <2>1, <3>1, <3>2, <3>3
  <2> QED BY <2>2, <2>3
<1>10. CASE CallFails
  BY <1>10, <1>w, <1>r, <1>n DEF CallFails, Lost
\* The steps of the others leave the change as it is.
<1>o. ASSUME UNCHANGED <<rest, want>>, Held', Service', Resolved'
      PROVE  Held' /\ Service' /\ Asked' /\ Resolved' /\ Complete'
  BY <1>o DEF rest, local, Asked, Complete
<1>11. ASSUME NEW n \in Nets, Propagate(n)
       PROVE  Held' /\ Service' /\ Asked' /\ Resolved' /\ Complete'
  <2>1. /\ UNCHANGED <<want, cfgs, secs, svc, raft, rest>>
        /\ nets[n] # None /\ nets' = [nets EXCEPT ![n].seen = TRUE]
    BY <1>11 DEF Propagate
  <2>2. nets[n] \in Networks
    BY <2>1 DEF Held
  <2>3. nets' \in [Nets -> Networks \cup {None}]
    BY <2>1, <2>2 DEF Held, Networks
  <2>4. \A m \in Nets : nets'[m] # None => nets[m] # None /\ nets'[m].id = nets[m].id
    BY <2>1, <2>2 DEF Held, Networks
  <2> QED BY <1>o, <2>1, <2>3, <2>4, NewIDs DEF Held, rest, local
<1>12. ASSUME NEW n \in Nets, OperatorNetwork(n)
       PROVE  Held' /\ Service' /\ Asked' /\ Resolved' /\ Complete'
  <2>1. /\ UNCHANGED <<want, rest, cfgs, secs, svc>> /\ raft' = raft + 1
        /\ \/ nets' = [nets EXCEPT ![n] = [id |-> raft + 1, seen |-> TRUE]]
           \/ nets' = [nets EXCEPT ![n] = None]
    BY <1>12 DEF OperatorNetwork, Spend
  <2>2. nets' \in [Nets -> Networks \cup {None}]
    <3>1. [id |-> raft + 1, seen |-> TRUE] \in Networks
      BY <1>n DEF Networks
    <3> QED BY <2>1, <3>1 DEF Held
  <2>3. \A m \in Nets : nets'[m] # None =>
           \/ nets[m] # None /\ nets'[m].id = nets[m].id
           \/ m = n /\ nets'[m].id = raft + 1
    BY <2>1 DEF Held
  <2>4. cfgs' \in [Configs -> Nat \cup {None}] /\ UNCHANGED <<ids, byName>>
    BY <2>1 DEF Held, rest, local
  <2>5. Held' /\ Service' /\ Resolved'
    BY <2>1, <2>2, <2>3, <2>4, NewIDs
  <2> QED BY <1>o, <2>1, <2>5
<1>13. ASSUME NEW c \in Configs, OperatorConfig(c)
       PROVE  Held' /\ Service' /\ Asked' /\ Resolved' /\ Complete'
  <2>1. /\ UNCHANGED <<want, rest, nets, secs, svc>> /\ raft' = raft + 1
        /\ \/ cfgs' = [cfgs EXCEPT ![c] = raft + 1]
           \/ cfgs' = [cfgs EXCEPT ![c] = None]
    BY <1>13 DEF OperatorConfig, Spend
  <2>2. cfgs' \in [Configs -> Nat \cup {None}]
    BY <1>n, <2>1 DEF Held
  <2>3. \A d \in Configs : cfgs'[d] # None =>
           cfgs'[d] = cfgs[d] \/ (d = c /\ cfgs'[d] = raft + 1)
    <3>1. cfgs \in [Configs -> Nat \cup {None}]
      BY DEF Held
    <3>2. CASE cfgs' = [cfgs EXCEPT ![c] = raft + 1]
      BY <3>1, <3>2
    <3>3. CASE cfgs' = [cfgs EXCEPT ![c] = None]
      BY <3>1, <3>3
    <3> QED BY <2>1, <3>2, <3>3
  <2>4. nets' \in [Nets -> Networks \cup {None}] /\ UNCHANGED <<ids, byName>>
    BY <2>1 DEF Held, rest, local
  <2>5. Held' /\ Service' /\ Resolved'
    BY <2>1, <2>2, <2>3, <2>4, NewIDs
  <2> QED BY <1>o, <2>1, <2>5
\* The service alone changes.
<1>v. ASSUME UNCHANGED <<objects, want, rest>>, raft' = raft + 1,
             \/ svc' = None
             \/ \E x : svc # None /\ svc' = [svc EXCEPT !.nets = @ \ {x}, !.ver = raft + 1]
      PROVE  Held' /\ Service' /\ Asked' /\ Resolved' /\ Complete'
  <2>1. Held' /\ Resolved'
    <3>1. /\ nets' = nets /\ cfgs' = cfgs /\ ids' = ids /\ byName' = byName
          /\ nets \in [Nets -> Networks \cup {None}] /\ cfgs \in [Configs -> Nat \cup {None}]
      BY <1>v DEF Held, objects, rest, local
    <3> QED BY <1>v, <3>1, NewIDs
  <2>2. CASE svc' = None
    BY <1>o, <1>v, <2>1, <2>2 DEF Service
  <2>3. CASE svc' # None
    <3>1. PICK x : svc # None /\ svc' = [svc EXCEPT !.nets = @ \ {x}, !.ver = raft + 1]
      BY <1>v, <2>3
    <3>2. svc' \in ServiceObjects /\ svc'.nets \subseteq svc.nets /\ svc'.cfgs = svc.cfgs
      BY <1>n, <3>1 DEF Service, ServiceObjects
    <3>3. svc.nets \subseteq Nat /\ svc.cfgs \subseteq Nat
      BY <3>1 DEF Service, ServiceObjects
    <3>4. /\ \A z \in svc.nets : z \in Nat /\ z <= raft
          /\ \A z \in svc.cfgs : z \in Nat /\ z <= raft
      BY <3>1, <3>3 DEF Service
    <3>5. /\ \A z \in svc'.nets : z <= raft'
          /\ \A z \in svc'.cfgs : z <= raft'
      <4>1. \A z \in Nat : z <= raft => z <= raft'
        <5>1. raft' = raft + 1
          BY <1>v
        <5> QED BY <1>n, <5>1
      <4>2. svc'.nets \subseteq svc.nets /\ svc'.cfgs = svc.cfgs
        BY <3>2
      <4> QED BY <3>4, <4>1, <4>2
    <3>6. Service'
      BY <3>2, <3>5 DEF Service
    <3> QED BY <1>o, <1>v, <2>1, <3>6
  <2> QED BY <2>2, <2>3
<1>14. CASE OperatorRemoves
  BY <1>14, <1>v DEF OperatorRemoves, Spend
<1>15. ASSUME NEW n \in Nets, OperatorDetaches(n)
       PROVE  Held' /\ Service' /\ Asked' /\ Resolved' /\ Complete'
  BY <1>15, <1>v DEF OperatorDetaches, Spend
<1>16. ASSUME NEW s \in Wanted, Commit(s)
       PROVE  Held' /\ Service' /\ Asked' /\ Resolved' /\ Complete'
  <2>1. UNCHANGED <<objects, svc, raft, rest>> /\ want' \in Specs
    BY <1>16, Nothing DEF Commit
  <2>2. Resolved' /\ Complete' /\ Asked'
    BY <2>1 DEF Resolved, Complete, Asked, rest, local, objects
  <2> QED BY <1>w, <2>1, <2>2
<1>17. CASE UNCHANGED vars
  <2>1. UNCHANGED <<objects, svc, raft, rest, want>>
    BY <1>17 DEF vars, objects, rest, local
  <2>2. Resolved' /\ Complete' /\ Asked'
    BY <2>1 DEF Resolved, Complete, Asked, rest, local, objects
  <2> QED BY <1>w, <2>1, <2>2
<1> QED BY <1>1, <1>2, <1>3, <1>4, <1>5, <1>6, <1>7, <1>8, <1>9, <1>10, <1>11, <1>12, <1>13,
           <1>14, <1>15, <1>16, <1>17 DEF Next, Change, Operator

THEOREM Invariant == Spec => []ApplierInv
<1> QED BY InitInv, StepInv, PTL DEF Spec

-----------------------------------------------------------------------------
(* The step simulation. *)

\* Read by names, a service is one of the specs, and no service is none.
LEMMA NamesAreSpecs ==
  ASSUME Held, Service
  PROVE  /\ ByName(svc) \in Specs \cup {None}
         /\ svc = None <=> ByName(svc) = None
<1>1. CASE svc = None
  BY <1>1 DEF ByName
<1>2. CASE svc # None
  <2>1. NetsOf(svc) \subseteq Nets /\ CfgsOf(svc) \subseteq Configs /\ svc.secs \subseteq Secrets
    BY <1>2 DEF NetsOf, CfgsOf, Service, ServiceObjects
  <2>2. ByName(svc) = [nets |-> NetsOf(svc), cfgs |-> CfgsOf(svc), secs |-> svc.secs]
    BY <1>2 DEF ByName
  <2>3. ByName(svc) \in Specs
    BY <2>1, <2>2 DEF Specs
  <2> QED BY <1>2, <2>3, Nothing
<1> QED BY <1>1, <1>2

LEMMA NamesAreSpecsNext ==
  (Held /\ Service => ByName(svc) \in Specs \cup {None})'
<1>1. Held /\ Service => ByName(svc) \in Specs \cup {None}
  BY NamesAreSpecs
<1> QED BY <1>1, PTL

\* Objects that come or change their readability do not change what a service
\* refers to.
LEMMA SameNames ==
  ASSUME Held, Service, svc' = svc, raft' \in {raft, raft + 1},
         \A n \in Nets : \/ nets'[n] = nets[n]
                         \/ nets'[n] # None /\ nets[n] # None /\ nets'[n].id = nets[n].id
                         \/ nets'[n] # None /\ nets[n] = None /\ nets'[n].id = raft + 1,
         \A c \in Configs : \/ cfgs'[c] = cfgs[c]
                            \/ cfgs'[c] = raft + 1 /\ cfgs[c] = None
  PROVE  ByName(svc)' = ByName(svc)
<1>1. CASE svc = None
  BY <1>1 DEF ByName
<1>2. CASE svc # None
  <2>1. raft + 1 \notin svc.nets /\ raft + 1 \notin svc.cfgs
    BY <1>2 DEF Service, Held
  <2>2. None \notin svc.cfgs
    BY <1>2, Nothing DEF Service, ServiceObjects
  <2>3. NetsOf(svc)' = NetsOf(svc)
    BY <2>1 DEF NetsOf
  <2>4. CfgsOf(svc)' = CfgsOf(svc)
    BY <2>1, <2>2 DEF CfgsOf
  <2> QED BY <1>2, <2>3, <2>4 DEF ByName
<1> QED BY <1>1, <1>2

\* What the engine accepts of a create or update stands for the spec that was
\* asked for: the IDs resolved on the way are those of its names, still.
LEMMA WriteMeansSpec ==
  ASSUME ApplierInv, call = "write", Accepts, req.act # "remove", UNCHANGED objects,
         svc'.nets = Attached.nets, svc'.cfgs = Attached.cfgs, svc'.secs = req.spec.secs,
         svc' # None
  PROVE  ByName(svc)' = req.spec
<1>1. req \in Requests
  BY DEF ApplierInv, Asked
<1>2. /\ req.spec \in Specs
      /\ req.spec.nets \subseteq Nets /\ req.spec.cfgs \subseteq Configs
  BY <1>1 DEF Requests, Specs
<1>3. NetsOf(svc)' = req.spec.nets
  <2>1. ASSUME NEW n \in Nets, nets[n] # None, nets[n].id \in Attached.nets
        PROVE  n \in req.spec.nets
    <3>1. PICK m \in req.spec.nets : nets[n].id = ids[m]
      BY <2>1 DEF Attached
    <3>2. m \in Nets /\ ids[m] # None
      BY <1>2 DEF ApplierInv, Complete
    <3>3. m = n
      BY <2>1, <3>1, <3>2 DEF ApplierInv, Resolved
    <3> QED BY <3>3
  <2>2. ASSUME NEW n \in req.spec.nets
        PROVE  n \in Nets /\ nets[n] # None /\ nets[n].id \in Attached.nets
    <3>1. ids[n] \in Attached.nets /\ n \in Nets /\ ids[n] # None
      BY <1>2 DEF Attached, ApplierInv, Complete
    <3>2. PICK m \in Nets : nets[m] # None /\ nets[m].id = ids[n]
      BY <3>1 DEF Accepts
    <3>3. m = n
      BY <3>1, <3>2 DEF ApplierInv, Resolved
    <3> QED BY <3>1, <3>2, <3>3
  <2>3. NetsOf(svc)' = {n \in Nets : nets[n] # None /\ nets[n].id \in Attached.nets}
    BY DEF NetsOf, objects
  <2> QED BY <2>1, <2>2, <2>3
<1>4. CfgsOf(svc)' = req.spec.cfgs
  <2>1. ASSUME NEW c \in Configs, cfgs[c] # None, cfgs[c] \in Attached.cfgs
        PROVE  c \in req.spec.cfgs
    <3>1. PICK d \in req.spec.cfgs : cfgs[c] = byName[d]
      BY <2>1 DEF Attached
    <3>2. d \in Configs /\ byName[d] # None
      BY <1>2 DEF ApplierInv, Complete
    <3>3. d = c
      BY <2>1, <3>1, <3>2 DEF ApplierInv, Resolved
    <3> QED BY <3>3
  <2>2. ASSUME NEW c \in req.spec.cfgs
        PROVE  c \in Configs /\ cfgs[c] # None /\ cfgs[c] \in Attached.cfgs
    <3>1. byName[c] \in Attached.cfgs /\ c \in Configs /\ byName[c] # None
      BY <1>2 DEF Attached, ApplierInv, Complete
    <3>2. PICK d \in Configs : cfgs[d] = byName[c]
      BY <3>1 DEF Accepts
    <3>3. d = c
      BY <3>1, <3>2 DEF ApplierInv, Resolved
    <3> QED BY <3>1, <3>2, <3>3
  <2>3. CfgsOf(svc)' = {c \in Configs : cfgs[c] # None /\ cfgs[c] \in Attached.cfgs}
    BY DEF CfgsOf, objects
  <2> QED BY <2>1, <2>2, <2>3
<1>5. ByName(svc)' = [nets |-> req.spec.nets, cfgs |-> req.spec.cfgs, secs |-> req.spec.secs]
  BY <1>3, <1>4 DEF ByName
<1> QED BY <1>2, <1>5 DEF Specs

\* Apply keeps its promise, the refinement Implements of the run: for any stack
\* and whatever fails, every call is a step of AtomicApply or changes nothing
\* that it speaks of.
THEOREM Refinement == Spec => Implements
<1>1. Init => Promise!Init
  BY DEF Init, Promise!Init, ByName
<1>2. ApplierInv /\ ApplierInv' /\ [Next]_vars => [Promise!Next]_(Promise!vars)
  <2> SUFFICES ASSUME ApplierInv, ApplierInv', [Next]_vars
               PROVE  \/ Promise!Next
                      \/ UNCHANGED <<ByName(svc), writes, req>>
    BY DEF Promise!vars
  <2>t. Held /\ Service /\ Asked /\ Held' /\ Service' /\ Asked'
    BY DEF ApplierInv
  \* A return without a write is a failure.
  <2>r. ASSUME Return, call # "idle", ByName(svc)' = ByName(svc), writes' = writes
        PROVE  Promise!Next
    BY <2>r, <2>t DEF Return, Asked, Promise!Next, Promise!Fail
  \* Nothing of it changes as long as the objects stay.
  <2>s. ASSUME UNCHANGED <<objects, svc>> PROVE ByName(svc)' = ByName(svc)
    BY <2>s DEF objects, ByName, NetsOf, CfgsOf
  <2>1. CASE Begin
    <3>1. /\ req = None /\ UNCHANGED <<objects, svc, writes>>
          /\ req' = [act |-> req'.act, spec |-> want]
          /\ req'.act \in {"create", "update", "remove"}
      BY <2>1, <2>t DEF Begin, Asked
    <3> QED BY <2>s, <2>t, <3>1 DEF Promise!Next, Promise!Begin, Asked
  <2>2. CASE Inspect \/ ListNetwork \/ AwaitNetwork \/ ListConfigs \/ ListSecrets \/ CallFails
    <3>1. UNCHANGED <<objects, svc, writes>> /\ call # "idle" /\ (Return \/ req' = req)
      BY <2>2 DEF Inspect, ListNetwork, AwaitNetwork, ListConfigs, ListSecrets, CallFails,
                  Goto, Lost
    <3> QED BY <2>r, <2>s, <3>1
  <2>3. CASE CreateNetwork
    <3>1. /\ UNCHANGED <<svc, cfgs, writes>> /\ call # "idle"
          /\ Return \/ req' = req
      BY <2>3 DEF CreateNetwork, Goto, Lost
    <3>2. /\ raft' \in {raft, raft + 1}
          /\ \A n \in Nets : \/ nets'[n] = nets[n]
                             \/ nets'[n] # None /\ nets[n] = None /\ nets'[n].id = raft + 1
      <4>1. CASE nets' = nets /\ raft' = raft
        BY <4>1
      <4>2. CASE /\ nets' = [nets EXCEPT ![NextNet] = [id |-> raft + 1, seen |-> FALSE]]
                 /\ raft' = raft + 1 /\ nets[NextNet] = None
        <5>1. [id |-> raft + 1, seen |-> FALSE] \in Networks
          BY <2>t DEF Held, Networks
        <5> QED BY <2>t, <4>2, <5>1, Nothing DEF Held
      <4> QED BY <2>3, <4>1, <4>2 DEF CreateNetwork
    <3>3. ByName(svc)' = ByName(svc)
      BY <2>t, <3>1, <3>2, SameNames
    <3> QED BY <2>r, <3>1, <3>3
  <2>4. ASSUME NEW c \in Configs, CreateConfig(c)
        PROVE  Promise!Next \/ UNCHANGED <<ByName(svc), writes, req>>
    <3>1. /\ UNCHANGED <<svc, nets, writes>> /\ call # "idle"
          /\ Return \/ req' = req
      BY <2>4 DEF CreateConfig, Goto, Lost
    <3>2. /\ raft' \in {raft, raft + 1}
          /\ \A d \in Configs : \/ cfgs'[d] = cfgs[d]
                                \/ cfgs'[d] = raft + 1 /\ cfgs[d] = None
      BY <2>4, <2>t DEF CreateConfig, Held
    <3>3. ByName(svc)' = ByName(svc)
      BY <2>t, <3>1, <3>2, SameNames
    <3> QED BY <2>r, <3>1, <3>3
  <2>5. CASE Write
    <3>1. UNCHANGED objects /\ Return /\ call = "write"
      BY <2>5 DEF Write
    <3>2. CASE UNCHANGED <<svc, writes>>
      BY <2>r, <2>s, <3>1, <3>2
    <3>3. CASE ~UNCHANGED <<svc, writes>>
      <4>1. /\ Accepts /\ writes' = writes + 1
            /\ svc' = IF req.act = "remove" THEN None
                      ELSE [id |-> IF req.act = "create" THEN raft + 1 ELSE svc.id,
                            ver |-> raft + 1, nets |-> Attached.nets,
                            cfgs |-> Attached.cfgs, secs |-> req.spec.secs]
        BY <2>5, <3>3 DEF Write
      <4>2. req # None /\ req' = None /\ req \in Requests
        BY <2>t, <3>1 DEF Asked, Return
      <4>3. IF req.act = "create" THEN ByName(svc) = None ELSE ByName(svc) # None
        BY <2>t, <4>1, NamesAreSpecs DEF Accepts
      <4>4. CASE req.act = "remove"
        <5>1. ByName(svc)' = None
          BY <4>1, <4>4 DEF ByName
        <5> QED BY <4>1, <4>2, <4>3, <4>4, <5>1 DEF Promise!Next, Promise!TakeEffect
      <4>5. CASE req.act # "remove"
        <5>1. svc' \in ServiceObjects
          <6>1. /\ raft + 1 \in Nat /\ req.spec.nets \subseteq Nets
                /\ req.spec.cfgs \subseteq Configs /\ req.spec.secs \subseteq Secrets
            BY <2>t, <4>2 DEF Requests, Specs, Held
          <6>2. Attached.nets \subseteq Nat /\ Attached.cfgs \subseteq Nat
            BY <3>1, <4>5, <6>1 DEF Attached, ApplierInv, Resolved, Complete
          <6>3. req.act # "create" => svc.id \in Nat
            BY <2>t, <4>1, <4>5 DEF Accepts, Service, ServiceObjects
          <6> QED BY <4>1, <4>5, <6>1, <6>2, <6>3 DEF ServiceObjects
        <5>2. ByName(svc)' = req.spec
          BY <3>1, <4>1, <4>5, <5>1, Nothing, WriteMeansSpec
        <5> QED BY <4>1, <4>2, <4>3, <4>5, <5>2 DEF Promise!Next, Promise!TakeEffect
      <4> QED BY <4>4, <4>5
    <3> QED BY <3>2, <3>3
  <2>6. ASSUME NEW n \in Nets, Propagate(n) PROVE UNCHANGED <<ByName(svc), writes, req>>
    <3>1. /\ UNCHANGED <<cfgs, svc, raft, writes, req>>
          /\ nets[n] # None /\ nets' = [nets EXCEPT ![n].seen = TRUE]
      BY <2>6 DEF Propagate, rest
    <3>2. nets[n] \in Networks
      BY <2>t, <3>1 DEF Held
    <3>3. nets'[n] \in Networks /\ nets'[n].id = nets[n].id
      BY <2>t, <3>1, <3>2 DEF Held, Networks
    <3>4. \A m \in Nets : \/ nets'[m] = nets[m]
                          \/ nets'[m] # None /\ nets[m] # None /\ nets'[m].id = nets[m].id
      BY <2>t, <3>1, <3>2, <3>3, Nothing DEF Held
    <3> QED BY <2>t, <3>1, <3>4, SameNames
  <2>7. CASE Operator
    <3>1. UNCHANGED <<writes, req>>
      BY <2>7 DEF Operator, OperatorNetwork, OperatorDetaches, OperatorConfig,
                  OperatorRemoves, Spend, rest
    <3>2. ByName(svc)' \in Specs \cup {None}
      BY <2>t, NamesAreSpecsNext
    <3> QED BY <3>1, <3>2 DEF Promise!Next, Promise!Others
  <2>8. CASE (\E s \in Wanted : Commit(s)) \/ UNCHANGED vars
    BY <2>8, <2>s DEF Commit, vars, objects, rest
  <2> QED BY <2>1, <2>2, <2>3, <2>4, <2>5, <2>6, <2>7, <2>8 DEF Next, Change
<1> QED BY Invariant, <1>1, <1>2, PTL DEF Spec, Implements, Promise!Spec

-----------------------------------------------------------------------------
(* The networks of a write. *)

\* An ID is taken from the list, or after it was found there.
Readable ==
    \A n \in Nets : ids[n] # None /\ nets[n] # None /\ nets[n].id = ids[n] => nets[n].seen

\* Networks that were readable stay so, and new ones have new IDs.
LEMMA StaysReadable ==
  ASSUME ApplierInv, Readable, ids' = ids,
         \A n \in Nets : nets'[n] # None =>
             \/ nets'[n] = nets[n] \/ nets'[n].seen
             \/ nets'[n].id = raft + 1
  PROVE  Readable'
<1>1. \A n \in Nets : ids[n] # None => ids[n] # raft + 1
  BY DEF ApplierInv, Resolved, Held
<1> QED BY <1>1 DEF Readable

\* A service is only written when its own networks are readable, the invariant
\* OwnNetworksReadable of the run: a create does not fail over a network that
\* the same change created.
THEOREM NetworksAreReadable == Spec => []OwnNetworksReadable
<1>1. Init => Readable
  BY DEF Init, Readable, NoIds
<1>2. ApplierInv /\ Readable /\ [Next]_vars => Readable'
  <2> SUFFICES ASSUME ApplierInv, Readable, [Next]_vars PROVE Readable'
    OBVIOUS
  <2>h. Held
    BY DEF ApplierInv
  <2>r. ASSUME Return PROVE Readable'
    BY <2>r DEF Return, Readable, NoIds
  <2>l. ASSUME NEW x, Listed(x), nets' = nets, ids' = [ids EXCEPT ![x] = nets[x].id]
        PROVE  Readable'
    BY <2>l DEF Readable, Listed, ApplierInv, Resolved
  <2>1. CASE ids' = ids /\ nets' = nets
    BY <2>1, StaysReadable
  <2>2. CASE Begin \/ Inspect \/ ListConfigs \/ ListSecrets \/ Write \/ CallFails
    <3>1. nets' = nets /\ (Return \/ ids' = ids)
      BY <2>2 DEF Begin, Inspect, ListConfigs, ListSecrets, Write, CallFails, Lost, objects, local
    <3> QED BY <2>1, <2>r, <3>1
  <2>3. CASE ListNetwork \/ AwaitNetwork
    <3>1. /\ nets' = nets
          /\ \/ Return \/ ids' = ids
             \/ Listed(NextNet) /\ ids' = [ids EXCEPT ![NextNet] = nets[NextNet].id]
      BY <2>3 DEF ListNetwork, AwaitNetwork, FoundId, objects
    <3> QED BY <2>1, <2>r, <2>l, <3>1
  <2>4. CASE CreateNetwork
    <3>1. CASE Return
      BY <2>r, <3>1
    <3>2. CASE ~Return
      <4>1. /\ ids' = ids
            /\ nets' = [nets EXCEPT ![NextNet] = [id |-> raft + 1, seen |-> FALSE]]
        BY <2>4, <3>2 DEF CreateNetwork, AfterCreate, Lost
      <4>2. \A n \in Nets : nets'[n] = nets[n] \/ nets'[n].id = raft + 1
        BY <2>h, <4>1 DEF Held
      <4> QED BY <4>1, <4>2, StaysReadable
    <3> QED BY <3>1, <3>2
  <2>5. CASE \E c \in Configs : CreateConfig(c)
    <3> PICK c \in Configs : CreateConfig(c)
      BY <2>5
    <3>1. nets' = nets
      BY DEF CreateConfig
    <3>2. CASE Return
      BY <2>r, <3>2
    <3>3. CASE ~Return
      <4>1. ids' = ids
        BY <3>3 DEF CreateConfig, Lost
      <4> QED BY <2>1, <3>1, <4>1
    <3> QED BY <3>2, <3>3
  <2>6. ASSUME NEW n \in Nets, Propagate(n) PROVE Readable'
    <3>1. nets[n] \in Networks /\ nets' = [nets EXCEPT ![n].seen = TRUE] /\ ids' = ids
      BY <2>6, <2>h DEF Propagate, Held, rest, local
    <3>2. nets'[n].seen /\ \A m \in Nets : m # n => nets'[m] = nets[m]
      BY <2>h, <3>1 DEF Held, Networks
    <3> QED BY <3>1, <3>2, StaysReadable
  <2>7. ASSUME NEW n \in Nets, OperatorNetwork(n) PROVE Readable'
    <3>1. /\ ids' = ids
          /\ \/ nets' = [nets EXCEPT ![n] = [id |-> raft + 1, seen |-> TRUE]]
             \/ nets' = [nets EXCEPT ![n] = None]
      BY <2>7 DEF OperatorNetwork, Spend, rest, local
    <3>2. \A m \in Nets : nets'[m] # None => nets'[m] = nets[m] \/ nets'[m].id = raft + 1
      BY <2>h, <3>1 DEF Held
    <3> QED BY <3>1, <3>2, StaysReadable
  <2>8. CASE \/ \E n \in Nets : OperatorDetaches(n)
             \/ \E c \in Configs : OperatorConfig(c)
             \/ OperatorRemoves
             \/ \E s \in Wanted : Commit(s)
             \/ UNCHANGED vars
    <3>1. ids' = ids /\ nets' = nets
      BY <2>8 DEF OperatorDetaches, OperatorConfig, OperatorRemoves, Commit, vars, Spend,
                  objects, rest, local
    <3> QED BY <2>1, <3>1
  <2> QED BY <2>2, <2>3, <2>4, <2>5, <2>6, <2>7, <2>8 DEF Next, Change, Operator
<1>3. ApplierInv /\ Readable => OwnNetworksReadable
  <2> SUFFICES ASSUME ApplierInv, Readable, call = "write", req.act # "remove",
                      NEW n \in req.spec.nets, nets[n] # None /\ nets[n].id = ids[n]
               PROVE  nets[n].seen
    BY DEF OwnNetworksReadable
  <2>1. ids[n] # None
    BY DEF ApplierInv, Complete
  <2>2. req \in Requests
    BY DEF ApplierInv, Asked
  <2>3. n \in Nets
    BY <2>2 DEF Requests, Specs
  <2> QED BY <2>1, <2>3 DEF Readable
<1> QED BY Invariant, <1>1, <1>2, <1>3, PTL DEF Spec

-----------------------------------------------------------------------------
(* AwaitConverged: what a poll has judged stays as it was judged, until an     *)
(* operator writes.                                                            *)

WaitTypes ==
    /\ pc \in {"networks", "inspect", "tasks", "select", "converged", "timeout"}
    /\ Consistent(target, live, tasks)
    /\ pc \in {"inspect", "tasks"} => at \in C!Awaited
    /\ pc = "tasks" => target[at] # Gone
\* Targets that are stored as desired, or gone; those whose tasks are, too.
InPlace ==
    {s \in C!Awaited :
       IF target[s] = Gone THEN live[s] = None
       ELSE /\ live[s] # None
            /\ live[s].spec.img = target[s].img
            /\ live[s].spec.env = target[s].env
            /\ live[s].spec.n = target[s].n}
RolledOut ==
    {s \in InPlace : target[s] # Gone =>
                       \A k \in DOMAIN tasks[s] : tasks[s][k].img = target[s].img}
\* The targets that this poll is through with.
Checked ==
    {s \in C!Awaited : \/ pc \in {"select", "converged", "timeout"}
                       \/ pc \in {"inspect", "tasks"} /\ s < at}
HonestInv ==
    /\ calm => Checked \ pending \subseteq RolledOut
    /\ calm /\ pc = "tasks" => at \in InPlace
    /\ pc = "converged" => pending = {}
\* No deploy labels of others on a service for which none are declared.
NoStrays ==
    \A s \in C!Awaited : target[s] # Gone /\ target[s].labels = {}
                           => live[s].spec.labels = {}
SteadyInv == steady => C!Settled /\ ~netErr /\ (NoStrays => pending = {})
WaitInv == WaitTypes /\ HonestInv /\ SteadyInv

LEMMA Distinct ==
    /\ Targets \subseteq Nat /\ HandSpecs \subseteq ServiceSpecs
    /\ Gone # None /\ Gone \notin ServiceSpecs /\ None \notin ServiceSpecs
    /\ None \notin Stored
  BY ClusterAssumption

LEMMA WaitInit == C!Init => WaitInv
<1> SUFFICES ASSUME C!Init PROVE WaitInv
  OBVIOUS
<1>1. WaitTypes
  BY ClusterAssumption DEF C!Init, WaitTypes
<1>2. HonestInv
  BY DEF C!Init, HonestInv, Checked, InPlace, RolledOut
<1>3. SteadyInv
  BY DEF C!Init, SteadyInv
<1> QED
  BY <1>1, <1>2, <1>3 DEF WaitInv

\* A task starts or fails: its image stays.
LEMMA RunFlips ==
  ASSUME NEW s \in Targets, NEW k \in DOMAIN tasks[s], NEW b \in BOOLEAN,
         tasks' = [tasks EXCEPT ![s][k].run = b], UNCHANGED <<target, live>>,
         Consistent(target, live, tasks)
  PROVE  /\ Consistent(target, live, tasks)'
         /\ InPlace \subseteq InPlace' /\ RolledOut \subseteq RolledOut'
<1> DEFINE changed == [tasks[s] EXCEPT ![k] = [tasks[s][k] EXCEPT !.run = b]]
<1>1. /\ DOMAIN tasks = Targets /\ s \in DOMAIN tasks
      /\ \A t \in Targets : \A j \in DOMAIN tasks[t] : tasks[t][j] \in TaskStates
  BY DEF Consistent
<1>2. tasks' = [tasks EXCEPT ![s] = changed]
  BY <1>1
<1>3. /\ DOMAIN tasks' = Targets
      /\ \A t \in Targets : t # s => tasks'[t] = tasks[t]
      /\ tasks'[s] = changed
  BY <1>1, <1>2
<1>4. /\ DOMAIN changed = DOMAIN tasks[s]
      /\ \A j \in DOMAIN changed :
           changed[j] \in TaskStates /\ changed[j].img = tasks[s][j].img
  <2>1. /\ tasks[s][k] \in TaskStates
        /\ [tasks[s][k] EXCEPT !.run = b] \in TaskStates
        /\ [tasks[s][k] EXCEPT !.run = b].img = tasks[s][k].img
    BY <1>1 DEF TaskStates
  <2>2. \A j \in DOMAIN tasks[s] :
          changed[j] = IF j = k THEN [tasks[s][k] EXCEPT !.run = b] ELSE tasks[s][j]
    OBVIOUS
  <2> QED
    BY <1>1, <2>1, <2>2
<1> HIDE DEF changed
<1>5. \A t \in Targets :
        /\ DOMAIN tasks'[t] = DOMAIN tasks[t]
        /\ \A j \in DOMAIN tasks'[t] :
             tasks'[t][j] \in TaskStates /\ tasks'[t][j].img = tasks[t][j].img
  BY <1>1, <1>3, <1>4
<1>6. Consistent(target, live, tasks)'
  BY <1>3, <1>5 DEF Consistent
<1>7. InPlace' = InPlace
  BY DEF InPlace, C!Awaited
<1>8. RolledOut \subseteq RolledOut'
  BY <1>5, <1>7 DEF RolledOut, InPlace, C!Awaited
<1> QED
  BY <1>6, <1>7, <1>8

\* The engine keeps what is stored and what runs on the desired image.
LEMMA EngineKeeps ==
  ASSUME NEW s \in Targets, C!Engine(s), WaitTypes
  PROVE  /\ Consistent(target, live, tasks)'
         /\ InPlace \subseteq InPlace' /\ RolledOut \subseteq RolledOut'
         /\ UNCHANGED <<target, pc, at, netErr, pending, late, edits, calm>>
         /\ steady' /\ steady /\ C!Settled => C!Settled' /\ UNCHANGED live
         /\ steady' => steady
<1>1. CASE C!BeginRollout(s)
  BY <1>1, Distinct DEF C!BeginRollout, WaitTypes, Consistent, C!Awaited, C!envRest, C!poll, InPlace, RolledOut, Stored, C!Slots
<1>2. CASE C!ReplaceTask(s)
  BY <1>2, Distinct DEF C!ReplaceTask, WaitTypes, Consistent, C!Awaited, C!envRest, C!poll, InPlace, RolledOut, Stored, C!Slots,
              C!Outdated, TaskStates, ServiceSpecs
<1>3. CASE C!TaskRuns(s)
  <2>1. PICK k \in DOMAIN tasks[s] :
          ~tasks[s][k].run /\ tasks' = [tasks EXCEPT ![s][k].run = TRUE]
    BY <1>3 DEF C!TaskRuns
  <2>2. /\ UNCHANGED <<target, live, pc, at, netErr, pending, late, edits, calm>>
        /\ UNCHANGED steady
    BY <1>3 DEF C!TaskRuns, C!envRest, C!poll
  <2>3. /\ Consistent(target, live, tasks)'
        /\ InPlace \subseteq InPlace' /\ RolledOut \subseteq RolledOut'
    BY <2>1, <2>2, RunFlips, Zenon DEF WaitTypes
  <2>4. C!Settled => C!Settled'
    <3> SUFFICES ASSUME C!Settled, NEW t \in C!Awaited'
                 PROVE  C!SettledSvc(t)'
      BY DEF C!Settled
    <3>1. t \in C!Awaited /\ t \in Targets /\ C!SettledSvc(t)
      BY <2>2 DEF C!Settled, C!Awaited
    <3>3. CASE t = s
      BY <2>1, <2>2, <3>1, <3>3 DEF C!SettledSvc, C!Removal
    <3>4. CASE t # s
      <4>1. tasks'[t] = tasks[t]
        BY <2>1, <3>1, <3>4 DEF Consistent, WaitTypes
      <4> QED
        BY <2>2, <3>1, <4>1 DEF C!SettledSvc, C!Removal
    <3> QED
      BY <3>3, <3>4
  <2> QED
    BY <2>2, <2>3, <2>4
<1>4. CASE C!TaskFails(s)
  <2>1. PICK k \in DOMAIN tasks[s] : tasks' = [tasks EXCEPT ![s][k].run = FALSE]
    BY <1>4 DEF C!TaskFails
  <2>2. /\ UNCHANGED <<target, live, pc, at, netErr, pending, late, edits, calm>>
        /\ ~steady'
    BY <1>4 DEF C!TaskFails, C!envRest, C!poll
  <2>3. /\ Consistent(target, live, tasks)'
        /\ InPlace \subseteq InPlace' /\ RolledOut \subseteq RolledOut'
    BY <2>1, <2>2, RunFlips, Zenon DEF WaitTypes
  <2> QED
    BY <2>2, <2>3
<1>5. CASE C!EndRollout(s)
  <2>1. PICK u \in {"completed", "paused"} : live' = [live EXCEPT ![s].us = u]
    BY <1>5 DEF C!EndRollout
  <2>2. /\ UNCHANGED <<target, tasks, pc, at, netErr, pending, late, edits, calm>>
        /\ ~steady'
    BY <1>5 DEF C!EndRollout, C!envRest, C!poll
  <2>3. live[s] \in Stored /\ live[s] # None
    BY <1>5 DEF C!EndRollout, WaitTypes, Consistent
  <2> QED
    BY <2>1, <2>2, <2>3, Distinct DEF WaitTypes, Consistent, C!Awaited, InPlace,
       RolledOut, Stored, C!Slots
<1>6. CASE C!Vanish(s)
  <2>1. /\ live' = [live EXCEPT ![s] = None]
        /\ tasks' = [tasks EXCEPT ![s] = <<>>]
        /\ UNCHANGED <<target, pc, at, netErr, pending, late, edits, calm, steady>>
        /\ target[s] = Gone /\ live[s] # None
    BY <1>6 DEF C!Vanish, C!envRest, C!poll, C!Removal
  <2>2. /\ DOMAIN live = Targets /\ DOMAIN tasks = Targets
        /\ DOMAIN tasks' = Targets /\ tasks'[s] = <<>> /\ live'[s] = None
        /\ \A t \in Targets : t # s => tasks'[t] = tasks[t] /\ live'[t] = live[t]
    BY <2>1 DEF WaitTypes, Consistent
  <2>3. DOMAIN <<>> = {}
    OBVIOUS
  <2>4. Consistent(target, live, tasks)'
    BY <2>1, <2>2, <2>3 DEF WaitTypes, Consistent
  <2>5. InPlace \subseteq InPlace' /\ RolledOut \subseteq RolledOut'
    BY <2>1, <2>2, Distinct DEF InPlace, RolledOut, C!Awaited
  <2>6. ~C!Settled
    BY <2>1, Distinct DEF C!Settled, C!SettledSvc, C!Removal, C!Awaited
  <2> QED
    BY <2>1, <2>4, <2>5, <2>6
<1> QED
  BY <1>1, <1>2, <1>3, <1>4, <1>5, <1>6 DEF C!Engine

\* An operator ends the calm.
LEMMA OperatorKeeps ==
  ASSUME NEW s \in Targets, NEW spec \in HandSpecs, C!OperatorWrites(s, spec), WaitInv
  PROVE  WaitInv'
<1>1. /\ live[s] # None /\ ~calm' /\ ~steady'
      /\ live' = [live EXCEPT ![s] = [spec |-> spec, us |-> None]]
      /\ UNCHANGED <<target, pc, at, netErr, pending>>
  BY DEF C!OperatorWrites, C!poll
<1>2. PICK new : /\ tasks' = [tasks EXCEPT ![s] = new]
                 /\ new = [k \in C!Slots(spec) |->
                             IF k \in DOMAIN tasks[s] THEN tasks[s][k]
                             ELSE [img |-> spec.img, env |-> spec.env, run |-> FALSE]]
  BY DEF C!OperatorWrites
<1>3. spec \in ServiceSpecs /\ [spec |-> spec, us |-> None] \in Stored
  BY Distinct DEF Stored
<1>4. /\ DOMAIN new = C!Slots(spec)
      /\ \A k \in C!Slots(spec) : new[k] \in TaskStates
  <2>1. [img |-> spec.img, env |-> spec.env, run |-> FALSE] \in TaskStates
    BY <1>3 DEF ServiceSpecs, TaskStates
  <2>2. \A k \in DOMAIN tasks[s] : tasks[s][k] \in TaskStates
    BY DEF WaitInv, WaitTypes, Consistent
  <2> QED
    BY <1>2, <2>1, <2>2
<1>5. Consistent(target, live, tasks)'
  BY <1>1, <1>2, <1>3, <1>4, Distinct DEF WaitInv, WaitTypes, Consistent
<1>6. WaitTypes'
  BY <1>1, <1>5 DEF WaitInv, WaitTypes, C!Awaited
<1>7. HonestInv'
  BY <1>1 DEF WaitInv, HonestInv
<1> QED
  BY <1>1, <1>6, <1>7 DEF WaitInv, SteadyInv

\* The next target comes in the order of the names, so what lies before it has
\* been judged.
LEMMA NextTarget ==
  ASSUME WaitTypes, pc \in {"inspect", "tasks"}, NEW ok \in BOOLEAN,
         C!Judged(at, ok), UNCHANGED <<target, live, tasks, calm>>,
         HonestInv, calm /\ ok => at \in RolledOut
  PROVE  WaitTypes' /\ HonestInv'
<1> USE DEF C!Judged
<1>1. at \in C!Awaited /\ C!Awaited \subseteq Nat /\ C!Awaited' = C!Awaited
  BY Distinct DEF WaitTypes, C!Awaited
<1>2. /\ C!Remaining(at) = {} => pc' = "select" /\ at' = at
      /\ C!Remaining(at) # {} => pc' = "inspect" /\ at' \in C!Firsts(C!Remaining(at))
  OBVIOUS
<1>3. WaitTypes'
  BY <1>1, <1>2 DEF WaitTypes, C!Firsts, C!Remaining
<1>4. Checked' = Checked \cup {at}
  <2>1. CASE C!Remaining(at) = {}
    <3>1. pc' = "select" /\ \A t \in C!Awaited : t < at \/ t = at
      BY <1>1, <1>2, <2>1 DEF C!Remaining
    <3>2. Checked = {t \in C!Awaited : t < at} /\ Checked' = C!Awaited
      BY <1>1, <3>1 DEF Checked
    <3> QED
      BY <1>1, <3>1, <3>2
  <2>2. CASE C!Remaining(at) # {}
    <3>1. /\ pc' = "inspect" /\ at' \in C!Awaited /\ at' > at
          /\ \A t \in C!Awaited : t > at => at' <= t
      BY <1>2, <2>2 DEF C!Remaining, C!Firsts
    <3>2. /\ Checked = {t \in C!Awaited : t < at}
          /\ Checked' = {t \in C!Awaited : t < at'}
      BY <1>1, <3>1 DEF Checked
    <3>3. \A t \in C!Awaited : t < at' <=> t < at \/ t = at
      BY <1>1, <3>1
    <3> QED
      BY <1>1, <3>2, <3>3
  <2> QED
    BY <2>1, <2>2
<1>5. RolledOut' = RolledOut
  BY DEF RolledOut, InPlace, C!Awaited
<1>6. pending' = IF ok THEN pending ELSE pending \cup {at}
  OBVIOUS
<1> QED
  BY <1>2, <1>3, <1>4, <1>5, <1>6 DEF HonestInv

LEMMA StartKeeps == WaitInv /\ C!StartPoll => WaitInv'
<1> SUFFICES ASSUME WaitInv, C!StartPoll PROVE WaitInv'
  OBVIOUS
<1>1. /\ UNCHANGED <<target, live, tasks>> /\ pending' = {} /\ pc' = "inspect"
      /\ at' \in C!Awaited /\ (\A t \in C!Awaited : at' <= t)
      /\ steady' = (C!Settled /\ ~netErr')
  BY DEF C!StartPoll, C!engine, C!Firsts
<1>2. C!Awaited' = C!Awaited /\ C!Awaited \subseteq Nat /\ C!Settled' = C!Settled
  BY <1>1, Distinct DEF C!Awaited, C!Settled, C!SettledSvc, C!Removal, WaitInv, WaitTypes, Consistent
<1>3. WaitTypes'
  BY <1>1, <1>2 DEF WaitInv, WaitTypes
<1>4. Checked' = {}
  <2>1. Checked' = {t \in C!Awaited : t < at'}
    BY <1>1, <1>2 DEF Checked
  <2>2. \A t \in C!Awaited : ~(t < at')
    BY <1>1, <1>2
  <2> QED
    BY <2>1, <2>2
<1> QED
  BY <1>1, <1>2, <1>3, <1>4 DEF WaitInv, HonestInv, SteadyInv

\* A service that is settled passes clauses (a) and (b), and (c).
LEMMA SettledPasses ==
  ASSUME WaitInv, steady, NoStrays, pc \in {"inspect", "tasks"}
  PROVE  /\ target[at] = Gone => live[at] = None
         /\ target[at] # Gone => /\ live[at] # None /\ ~netErr
                                 /\ C!SpecReached(at)
                                 /\ Cardinality(C!Counted(at)) = target[at].n
<1>1. /\ at \in C!Awaited /\ at \in Targets /\ target[at] # None /\ C!SettledSvc(at)
      /\ ~netErr
  BY DEF WaitInv, WaitTypes, SteadyInv, C!Settled, C!Awaited
<1>2. CASE target[at] = Gone
  BY <1>1, <1>2 DEF C!SettledSvc, C!Removal
<1>3. CASE target[at] # Gone
  <2>1. target[at] \in ServiceSpecs /\ live[at] \in Stored \cup {None}
    BY <1>1, <1>3 DEF WaitInv, WaitTypes, Consistent
  <2>2. /\ live[at] # None /\ live[at].us \in {None, "completed"}
        /\ [live[at].spec EXCEPT !.labels = {}] = [target[at] EXCEPT !.labels = {}]
        /\ target[at].labels \subseteq live[at].spec.labels
        /\ \A k \in DOMAIN tasks[at] :
             tasks[at][k] = [img |-> target[at].img, env |-> target[at].env, run |-> TRUE]
    BY <1>1, <1>3 DEF C!SettledSvc, C!Removal
  <2>3. target[at].labels = {} => live[at].spec.labels = {}
    BY <1>1, <1>3 DEF NoStrays
  <2>4. C!SpecReached(at)
    BY <2>2, <2>3 DEF C!SpecReached, C!SameLabels
  <2>5. live[at].spec.n = target[at].n /\ target[at].n \in Nat
    BY <2>1, <2>2 DEF Stored, ServiceSpecs
  <2>6. DOMAIN tasks[at] = 1 .. target[at].n
    BY <1>1, <2>2, <2>5 DEF WaitInv, WaitTypes, Consistent, C!Slots
  <2>7. C!Counted(at) = 1 .. target[at].n
    BY <2>2, <2>6 DEF C!Counted
  <2>8. Cardinality(1 .. target[at].n) = target[at].n
    BY <2>5, FS_Interval
  <2> QED
    BY <1>1, <1>3, <2>2, <2>4, <2>7, <2>8
<1> QED
  BY <1>2, <1>3

\* If as many tasks as slots run on the desired image, all do.
LEMMA AllCounted ==
  ASSUME WaitTypes, NEW s \in InPlace, target[s] # Gone,
         Cardinality(C!Counted(s)) = target[s].n
  PROVE  s \in RolledOut
<1>1. /\ s \in Targets /\ target[s] \in ServiceSpecs /\ live[s] # None
      /\ live[s].spec.n = target[s].n
  BY DEF InPlace, C!Awaited, WaitTypes, Consistent
<1>2. target[s].n \in Nat /\ DOMAIN tasks[s] = 1 .. target[s].n
  BY <1>1 DEF WaitTypes, Consistent, C!Slots, ServiceSpecs
<1>3. IsFiniteSet(1 .. target[s].n) /\ Cardinality(1 .. target[s].n) = target[s].n
  <2>1. IsFiniteSet(1 .. target[s].n)
    BY <1>2, FS_Interval
  <2>2. Cardinality(1 .. target[s].n) = target[s].n
    BY <1>2, FS_Interval
  <2> QED
    BY <2>1, <2>2
<1>4. C!Counted(s) \subseteq 1 .. target[s].n
  BY <1>2 DEF C!Counted
<1>5. C!Counted(s) = 1 .. target[s].n
  BY <1>3, <1>4, FS_Subset
<1>6. \A k \in DOMAIN tasks[s] : tasks[s][k].img = target[s].img
  BY <1>2, <1>5 DEF C!Counted
<1> QED
  BY <1>6 DEF RolledOut

LEMMA InspectKeeps == WaitInv /\ C!Inspect => WaitInv'
<1> SUFFICES ASSUME WaitInv, C!Inspect PROVE WaitInv'
  OBVIOUS
<1>1. pc = "inspect" /\ UNCHANGED <<target, live, tasks, netErr, calm>>
  BY DEF C!Inspect, C!engine
<1>2. at \in C!Awaited /\ at \in Targets /\ WaitTypes /\ HonestInv
  BY <1>1 DEF WaitInv, WaitTypes, C!Awaited
<1>3. C!Settled' = C!Settled /\ NoStrays' = NoStrays
  BY <1>1 DEF C!Settled, C!SettledSvc, C!Removal, C!Awaited, NoStrays
<1>4. CASE C!Judged(at, FALSE) /\ ~steady'
  <2>1. WaitTypes' /\ HonestInv'
    BY <1>1, <1>2, <1>4, NextTarget
  <2> QED
    BY <1>4, <2>1 DEF WaitInv, SteadyInv
<1>5. CASE target[at] = Gone /\ C!Judged(at, live[at] = None) /\ UNCHANGED steady
  <2>1. live[at] = None => at \in RolledOut
    BY <1>2, <1>5 DEF RolledOut, InPlace
  <2>2. WaitTypes' /\ HonestInv'
    BY <1>1, <1>2, <1>5, <2>1, NextTarget
  <2>3. steady /\ NoStrays => pending' = pending
    BY <1>1, <1>5, SettledPasses DEF C!Judged
  <2> QED
    BY <1>1, <1>3, <1>5, <2>2, <2>3 DEF WaitInv, SteadyInv
<1>6. CASE /\ target[at] # Gone /\ C!Judged(at, FALSE) /\ UNCHANGED steady
           /\ netErr \/ live[at] = None \/ ~C!SpecReached(at)
  <2>1. WaitTypes' /\ HonestInv'
    BY <1>1, <1>2, <1>6, NextTarget
  <2>2. ~(steady /\ NoStrays)
    BY <1>1, <1>6, SettledPasses
  <2> QED
    BY <1>1, <1>3, <1>6, <2>1, <2>2 DEF WaitInv, SteadyInv
<1>7. CASE /\ target[at] # Gone /\ live[at] # None /\ C!SpecReached(at)
           /\ pc' = "tasks" /\ UNCHANGED <<at, pending, steady>>
  <2>1. WaitTypes'
    BY <1>1, <1>2, <1>7 DEF WaitTypes, C!Awaited
  <2>2. at \in InPlace
    <3>1. target[at] \in ServiceSpecs /\ live[at].spec \in ServiceSpecs
      BY <1>2, <1>7 DEF WaitTypes, Consistent, C!Awaited, Stored
    <3>2. [live[at].spec EXCEPT !.labels = {}] = [target[at] EXCEPT !.labels = {}]
      BY <1>7 DEF C!SpecReached
    <3>3. /\ live[at].spec.img = target[at].img /\ live[at].spec.env = target[at].env
          /\ live[at].spec.n = target[at].n
      BY <3>1, <3>2 DEF ServiceSpecs
    <3> QED
      BY <1>2, <1>7, <3>3 DEF InPlace
  <2>3. InPlace' = InPlace /\ RolledOut' = RolledOut /\ Checked' = Checked
    BY <1>1, <1>7 DEF InPlace, RolledOut, Checked, C!Awaited
  <2>4. HonestInv'
    BY <1>1, <1>2, <1>7, <2>2, <2>3 DEF HonestInv
  <2> QED
    BY <1>1, <1>3, <1>7, <2>1, <2>4 DEF WaitInv, SteadyInv
<1> QED
  BY <1>1, <1>4, <1>5, <1>6, <1>7 DEF C!Inspect, C!Removal

LEMMA ListKeeps == WaitInv /\ C!ListTasks => WaitInv'
<1> SUFFICES ASSUME WaitInv, C!ListTasks PROVE WaitInv'
  OBVIOUS
<1>1. pc = "tasks" /\ UNCHANGED <<target, live, tasks, netErr, calm>>
  BY DEF C!ListTasks, C!engine
<1>2. at \in C!Awaited /\ target[at] # Gone /\ WaitTypes /\ HonestInv
  BY <1>1 DEF WaitInv, WaitTypes
<1>3. C!Settled' = C!Settled /\ NoStrays' = NoStrays
  BY <1>1 DEF C!Settled, C!SettledSvc, C!Removal, C!Awaited, NoStrays
<1> DEFINE ok == Cardinality(C!Counted(at)) = target[at].n
<1>0. ok \in BOOLEAN
  OBVIOUS
<1>4. CASE C!Judged(at, ok) /\ UNCHANGED steady
  <2>1. calm /\ ok => at \in RolledOut
    BY <1>1, <1>2, AllCounted DEF HonestInv
  <2>2. steady /\ NoStrays => ok
    BY <1>1, <1>2, SettledPasses
  <2> HIDE DEF ok
  <2>3. WaitTypes' /\ HonestInv'
    BY <1>0, <1>1, <1>2, <1>4, <2>1, NextTarget, Zenon
  <2>4. steady /\ NoStrays => pending' = pending
    BY <1>4, <2>2 DEF C!Judged
  <2> QED
    BY <1>1, <1>3, <1>4, <2>3, <2>4 DEF WaitInv, SteadyInv
<1>5. CASE C!Judged(at, FALSE) /\ ~steady'
  <2>1. WaitTypes' /\ HonestInv'
    BY <1>1, <1>2, <1>5, NextTarget
  <2> QED
    BY <1>5, <2>1 DEF WaitInv, SteadyInv
<1> QED
  <2>1. \/ /\ C!Judged(at, Cardinality(C!Counted(at)) = target[at].n)
           /\ UNCHANGED steady
        \/ C!Judged(at, FALSE) /\ steady' = FALSE
    BY Zenon DEF C!ListTasks, C!Cardinality, Cardinality
  <2>2. ASSUME steady' = FALSE PROVE ~steady'
    BY <2>2
  <2> QED
    BY <1>4, <1>5, <2>1, <2>2, Zenon

LEMMA WaitStep == WaitInv /\ C!Next => WaitInv'
<1> SUFFICES ASSUME WaitInv, C!Next PROVE WaitInv'
  OBVIOUS
<1>1. CASE C!StartPoll
  BY <1>1, StartKeeps
<1>2. CASE C!Inspect
  BY <1>2, InspectKeeps
<1>3. CASE C!ListTasks
  BY <1>3, ListKeeps
<1>4. CASE C!Converged \/ C!Tick \/ C!TimeOut \/ C!Deadline
  <2>1. /\ UNCHANGED <<target, live, tasks, at, netErr, pending, calm>>
        /\ steady' => steady
        /\ \/ pc' = pc
           \/ pc = "select" /\ pc' \in {"networks", "timeout"}
           \/ pc = "select" /\ pc' = "converged" /\ pending = {}
    BY <1>4 DEF C!Converged, C!Tick, C!TimeOut, C!Deadline, C!Finish, C!still, C!engine,
                C!poll, C!AllReached
  <2>2. /\ C!Awaited' = C!Awaited /\ C!Settled' = C!Settled /\ NoStrays' = NoStrays
        /\ InPlace' = InPlace /\ RolledOut' = RolledOut /\ Checked' \subseteq Checked
    BY <2>1 DEF C!Settled, C!SettledSvc, C!Removal, C!Awaited, NoStrays, InPlace,
                RolledOut, Checked
  <2>3. WaitTypes'
    BY <2>1, <2>2 DEF WaitInv, WaitTypes
  <2> QED
    BY <2>1, <2>2, <2>3 DEF WaitInv, HonestInv, SteadyInv
<1>5. ASSUME NEW s \in Targets, C!Engine(s) PROVE WaitInv'
  <2>1. /\ Consistent(target, live, tasks)'
        /\ InPlace \subseteq InPlace' /\ RolledOut \subseteq RolledOut'
        /\ UNCHANGED <<target, pc, at, netErr, pending, calm>>
        /\ steady' /\ steady /\ C!Settled => C!Settled' /\ UNCHANGED live
        /\ steady' => steady
    BY <1>5, EngineKeeps DEF WaitInv
  <2>2. C!Awaited' = C!Awaited /\ Checked' = Checked
    BY <2>1 DEF C!Awaited, Checked
  <2>3. WaitTypes'
    BY <2>1, <2>2 DEF WaitInv, WaitTypes
  <2>4. HonestInv'
    BY <2>1, <2>2 DEF WaitInv, HonestInv
  <2>5. SteadyInv'
    BY <2>1, <2>2 DEF WaitInv, SteadyInv, NoStrays
  <2> QED
    BY <2>3, <2>4, <2>5 DEF WaitInv
<1>6. ASSUME NEW s \in Targets, NEW spec \in HandSpecs, C!OperatorWrites(s, spec)
      PROVE  WaitInv'
  BY <1>6, OperatorKeeps
<1> QED
  BY <1>1, <1>2, <1>3, <1>4, <1>5, <1>6 DEF C!Next, C!Await

LEMMA WaitRests == WaitInv /\ UNCHANGED waitVars => WaitInv'
  BY DEF WaitInv, WaitTypes, Consistent, HonestInv, SteadyInv, waitVars, C!Awaited,
         InPlace, RolledOut, Checked, NoStrays, C!Settled, C!SettledSvc, C!Removal

\* Convergence is reported neither early nor late: "converged" is said only of
\* services that are as desired, none of whose tasks runs another image, and a
\* poll over settled services finds nothing pending; for any number of targets,
\* replicas and failures, whatever happens between the reads of a poll.
THEOREM ConvergenceIsHonest == AllSpec => []AwaitIsHonest
<1> DEFINE Inv == part = "await" => WaitInv
<1>1. AllInit => Inv
  BY WaitInit DEF AllInit
<1>2. Inv /\ [AllNext]_allVars => Inv'
  BY WaitStep, WaitRests DEF AllNext, InApplier, InWait, allVars
<1>3. Inv => AwaitIsHonest
  <2> SUFFICES ASSUME WaitInv PROVE C!ConvergedIsHonest /\ C!SettledIsConverged
    BY DEF AwaitIsHonest
  <2>1. C!ConvergedIsHonest
    BY DEF WaitInv, HonestInv, Checked, RolledOut, InPlace, C!ConvergedIsHonest, C!Removal
  <2>2. C!SettledIsConverged
    BY DEF WaitInv, SteadyInv, NoStrays, C!SettledIsConverged, C!Removal
  <2> QED
    BY <2>1, <2>2
<1> QED
  BY <1>1, <1>2, <1>3, PTL DEF AllSpec
=============================================================================

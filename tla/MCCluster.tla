------------------------------ MODULE MCCluster ------------------------------
(***************************************************************************)
(* Cluster for TLC: what may be wanted of a service, and what is awaited.  *)
(***************************************************************************)
EXTENDS Cluster, TLC

CONSTANTS file, ext, sec, i1, i2, e1, e2

-----------------------------------------------------------------------------
(* Specs that share and do not share networks, configs and secrets: two     *)
(* networks to create, a config of each kind, attachments changed alone and *)
(* together with the networks.                                              *)

W(n, c, s) == [nets |-> n, cfgs |-> c, secs |-> s]
MCWanted == {W({1, 2}, {file}, {}), W({1}, {ext}, {sec}), W({2}, {file}, {})}
MCSecrets == {{sec}, {}}

-----------------------------------------------------------------------------
(* What is awaited: an update, a create, a removal, two of them at once.    *)

S(img, env, n, labels) == [img |-> img, env |-> env, n |-> n, labels |-> labels]
Live(spec) == [spec |-> spec, us |-> None]
Run(img, env, n, run) == [k \in 1 .. n |-> [img |-> img, env |-> env, run |-> run]]
None2 == <<None, None>>

Old == S(i1, e1, 2, {})
New == S(i2, e1, 2, {})
\* The update has been stored, the tasks still run the old image.
Updated == [target |-> <<New, None>>, svc |-> <<Live(New), None>>,
            tasks |-> <<Run(i1, e1, 2, TRUE), <<>>>>]
\* Only the environment changes, and the stack declares a deploy label.
EnvUpdated == [target |-> <<S(i1, e2, 1, {"l"}), None>>,
               svc |-> <<Live(S(i1, e2, 1, {"l"})), None>>,
               tasks |-> <<Run(i1, e1, 1, TRUE), <<>>>>]
\* A service was created and another one removed.
Swapped == [target |-> <<S(i1, e1, 1, {}), Gone>>,
            svc |-> <<Live(S(i1, e1, 1, {})), Live(S(i1, e1, 1, {}))>>,
            tasks |-> <<Run(i1, e1, 1, FALSE), Run(i1, e1, 1, TRUE)>>]
Both == [target |-> <<S(i2, e1, 1, {}), S(i2, e1, 1, {})>>,
         svc |-> <<Live(S(i2, e1, 1, {})), Live(S(i2, e1, 1, {}))>>,
         tasks |-> <<Run(i1, e1, 1, TRUE), Run(i2, e1, 1, FALSE)>>]
\* Scaled to zero, and only removals.
Empty == [target |-> <<S(i1, e1, 0, {}), None>>,
          svc |-> <<Live(S(i1, e1, 0, {})), None>>, tasks |-> <<<<>>, <<>>>>]
OnlyRemoval == [target |-> <<None, Gone>>, svc |-> <<None, Live(Old)>>,
         tasks |-> <<<<>>, Run(i1, e1, 2, TRUE)>>]
Nothing == [target |-> None2, svc |-> None2, tasks |-> <<<<>>, <<>>>>]

MCScenarios == {Updated, EnvUpdated, Swapped, Both, Empty, OnlyRemoval, Nothing}
MCHandSpecs == {Old, New, S(i1, e2, 1, {"l", "proxy"}), S(i2, e1, 1, {"proxy"}),
                S(i1, e1, 1, {"proxy"})}
=============================================================================

---------------------------- MODULE MCComputations ----------------------------
(***************************************************************************)
(* Computations for TLC.                                                   *)
(***************************************************************************)
EXTENDS Computations, TLC

CONSTANTS p1, p2, d1, d2, a1, a2

-----------------------------------------------------------------------------
(* ServiceFields: two fields together, 12-bit integers, the code's limits. *)

Limits == [ports |-> 100, networks |-> 50, env |-> 1000, ulimits |-> 20]
Replicated == {Absent, -1, 0, 1, 1000, 1001}

-----------------------------------------------------------------------------
(* StackParse: every pair of two stacks from a few documents whose services *)
(* and config objects may clash.                                            *)

Svc(key, envFile, fields, refs, ok) ==
    [key |-> key, env |-> envFile, fields |-> fields, refs |-> refs,
     converts |-> ok]
Cfg(key, from, object, body) ==
    [key |-> key, file |-> from, object |-> object, body |-> body]
Doc(svcs, cfgs) == [services |-> svcs, configs |-> cfgs]
Plain(key) == Svc(key, "none", {"image"}, {}, TRUE)
X == <<"x">>
Y == <<"y">>
Docs == {
    Doc({Plain(<<"web">>), Plain(<<"db", "web">>)}, {}),
    Doc({Svc(<<"web">>, "ok", {"image", "ports"}, {"k"}, TRUE)},
        {Cfg("k", X, "v1", "plain")}),
    Doc({Svc(<<"web">>, "none", {"image"}, {"k"}, TRUE)},
        {Cfg("k", Y, "v1", "plain"), Cfg("l", X, Nil, "plain")}),
    Doc({Svc(<<"web">>, "none", {"image", "tty", "dns"}, {}, TRUE),
         Svc(<<"db">>, "none", {"pid"}, {}, TRUE)}, {}),
    Doc({Svc(<<"db">>, "bad", {"tty"}, {}, TRUE), Plain(<<"web">>)}, {}),
    Doc({Svc(<<"db">>, "none", {"image"}, {"k"}, TRUE), Plain(<<"web">>)},
        {Cfg("l", X, Nil, "plain")}),
    Doc({Svc(<<"db">>, "none", {"image"}, {}, FALSE), Plain(<<"web">>)},
        {Cfg("k", X, Nil, "plain")}),
    Doc({Svc(<<"db">>, "none", {"image"}, {"k"}, TRUE), Plain(<<"web">>)},
        {Cfg("k", Nil, Nil, "plain")}),
    Doc({Plain(<<"db">>)}, {Cfg("k", X, "v1", "plain"), Cfg("l", Y, "v1", "plain")})}
Entry(base, ext, doc) ==
    [kind |-> "file", base |-> base, ext |-> ext, big |-> FALSE, doc |-> doc]
Tree(a, b) ==
    (<<"deploy", "a">> :> Entry(<<"pay">>, "yml", a))
 @@ (<<"deploy", "b">> :> Entry(<<"pay", "db">>, "yaml", b))
 @@ (<<"deploy", "x">> :> Entry(<<"x">>, "conf", "X"))
 @@ (<<"deploy", "y">> :> Entry(<<"y">>, "conf", "Y"))

DeployDir == <<"deploy">>
Pairs == {Tree(a, b) : a \in Docs, b \in Docs}

-----------------------------------------------------------------------------
(* SwarmSpec: a base declaration, its variations in one field and in two. *)

Base == [plain |-> p1, replicas |-> 1, mode |-> "", health |-> Nil,
         entrypoint |-> <<>>, command |-> <<>>, grace |-> 0, volumes |-> {},
         configs |-> {}, secrets |-> {}, restart |-> Nil, resources |-> Nil, placement |-> Nil,
         update |-> Nil, labels |-> Nil, deployLabels |-> Nil, networks |-> {},
         ports |-> {}]
With(f, v) == [Base EXCEPT ![f] = v]
Port(proto, mode) == [target |-> 80, published |-> 8080,
                      proto |-> proto, mode |-> mode]
Mounted(src, mode) == [source |-> src, target |-> "/c", mode |-> mode]
Key(src) == [source |-> src, target |-> "/k"]
Full ==
    [Base EXCEPT !.health = [test |-> <<"CMD">>], !.entrypoint = <<"e">>,
       !.command = <<"c">>, !.grace = 7,
       !.volumes = {[type |-> "bind", target |-> "/v"]},
       !.restart = [cond |-> "", delay |-> 5], !.resources = 64,
       !.placement = {"worker"}, !.update = 2,
       !.labels = ("swarmgate.extra" :> "x") @@ ("other" :> "y"),
       !.deployLabels = ("proxy" :> "on"), !.networks = {<<"front">>},
       !.ports = {Port("TCP", ""), [Port("udp", "host") EXCEPT !.target = 53]}]
Raw ==
    {Base, Full, [Full EXCEPT !.plain = p2, !.labels = Nil],
     With("plain", p2), With("replicas", 0), With("health", [test |-> <<>>]),
     With("configs", {Mounted("c1", 0)}), With("configs", {Mounted("c1", 256)}),
     With("configs", {Mounted("c2", 0)}),
     [With("configs", {Mounted("c1", 256)}) EXCEPT !.plain = p2],
     With("command", <<"c">>), With("restart", [cond |-> "", delay |-> 0]),
     With("secrets", {Key("k1")}), With("secrets", {Key("k2")}),
     [With("secrets", {Key("k1")}) EXCEPT !.configs = {Mounted("c1", 0)}],
     [With("secrets", {Key("k2")}) EXCEPT !.plain = p2],
     With("deployLabels", "proxy" :> "off"), With("deployLabels", "proxy" :> ""),
     With("networks", {<<"front">>, <<"web", "default">>}),
     With("ports", {Port("", "")}), With("labels", "swarmgate.extra" :> "x"),
     With("mode", "global"), With("configs", {Mounted("c1", 292)}),
     With("grace", -7),
     With("deployLabels", "com.docker.stack.namespace" :> "shop"),
     With("deployLabels", "swarmgate.managed" :> "false")}
Hand ==
    {[labels |-> "proxy" :> "hand"], [labels |-> "swarmgate.stack" :> "else"],
     [labels |-> "swarmgate.managed" :> "false"], [dns |-> "10.0.0.53"],
     [plain |-> p2], [endpoint |-> [mode |-> "dnsrr", ports |-> {}]],
     [mode |-> [kind |-> "replicated", n |-> 3]],
     [placement |-> [constraints |-> {"worker"}, preferences |-> {"zone"}]],
     [resources |-> [limits |-> 64, reservations |-> 32]],
     [update |-> [parallelism |-> 2, order |-> "start-first"]],
     [mounts |-> {[type |-> "tmpfs", target |-> "/tmp"]}]}

-----------------------------------------------------------------------------
(* PlanVerify only compares images and attachments. *)

Alike == Permutations(Digests) \union Permutations(Atts)

=============================================================================

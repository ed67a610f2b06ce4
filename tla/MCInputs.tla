------------------------------- MODULE MCInputs -------------------------------
(***************************************************************************)
(* Inputs for TLC: a batch with policies and bundles, the trees of a few   *)
(* commits, and a host.                                                    *)
(***************************************************************************)
EXTENDS Inputs, TLC

CONSTANTS i1, i2, i3, k1, k2, ci, ops, eve, ours, theirs, prod, dev,
          near, good, deep, twice, escaping, huge, dangling,
          data, app, srv, file, cur, loop, out

-----------------------------------------------------------------------------
(* Two keys, one identity, a stranger who signs with the same issuer, stacks *)
(* with and without attestation, and a reference that does not parse.        *)

MCBatch == <<i1, i3, i2>>
MCStackOf == [img \in {i1, i2, i3} |-> IF img = i1 THEN prod ELSE dev]
Sig(key) == [key |-> key, issuer |-> Nil, subject |-> Nil, slsa |-> FALSE,
             builder |-> Nil]
Cert(sub, slsa, bld) == [key |-> Nil, issuer |-> ci, subject |-> sub,
                         slsa |-> slsa, builder |-> bld]
MCBundles == {Sig(k2), Cert(ops, FALSE, Nil), Cert(ops, TRUE, ours),
              Cert(eve, TRUE, ours), Cert(ops, TRUE, theirs),
              [Sig(k1) EXCEPT !.slsa = TRUE, !.builder = ours]}

Id(iss, subs) == [issuer |-> iss, subjects |-> subs]
File(keys, ids, req, per, bld) ==
    [keys |-> keys, identities |-> ids, require |-> req, perStack |-> per,
     builder |-> bld]
MCPolicies == {
    File(<<k1, k2>>, {Id(ci, {ops})}, FALSE, (prod :> TRUE), ours),
    File(<<>>, {Id(ci, {ops})}, TRUE, (dev :> FALSE), ours),
    File(<<k1, k2>>, {}, TRUE, <<>>, ours),
    File(<<k1>>, {Id(ci, Nil)}, FALSE, <<>>, Nil),
    File(<<k1>>, {Id(ci, {ops})}, TRUE, <<>>, Nil),
    File(<<>>, {}, FALSE, <<>>, Nil)}

-----------------------------------------------------------------------------
(* Commits with both extensions, payloads beside and above the stack file,  *)
(* and the trees that have to be refused.                                   *)

Deploy == <<"deploy">>
Stack(base, ext, configs) ==
    [kind |-> "file", base |-> base, ext |-> ext, big |-> FALSE,
     doc |-> [configs |-> configs, services |-> {}]]
Blob(text, big) == [kind |-> "file", base |-> text, ext |-> "conf", big |-> big,
                    doc |-> text]
Cfg(key, path) == [key |-> key, file |-> path, object |-> Nil, body |-> "plain"]
At(name) == Append(Deploy, name)

Good == (At("a.yml") :> Stack("a", "yml", {Cfg("k", <<"app.conf">>)}))
     @@ (At("b.yaml") :> Stack("b", "yaml", {Cfg("k", <<"..", "app.conf">>)}))
     @@ (At("app.conf") :> Blob("near", FALSE))
     @@ (<<"app.conf">> :> Blob("far", FALSE))
     @@ (<<"c.yml">> :> Stack("c", "yml", {}))
Trees ==
    (good :> Good)
 @@ (near :> ((At("a.yml") :> Stack("a", "yml", {Cfg("k", <<"app.conf">>)}))
          @@ (At("app.conf") :> Blob("near", FALSE))
          @@ (<<"app.conf">> :> Blob("far", FALSE))))
 @@ (deep :> ((At("a.yml") :> Stack("a", "yml",
                {Cfg("k", <<".", "x", "..", "..", "app.conf">>), Cfg("l", Nil)}))
          @@ (<<"app.conf">> :> Blob("far", FALSE))))
 @@ (twice :> (Good @@ (At("a.yaml") :> Stack("a", "yaml", {}))))
 @@ (escaping :> (At("a.yml") :> Stack("a", "yml", {Cfg("k", <<"..", "..", "x">>)})))
 @@ (huge :> (Good @@ (At("d.yml") :> Stack("d", "yml", {Cfg("k", <<"big">>)}))
          @@ (At("big") :> Blob("big", TRUE))))
 @@ (dangling :> (<<"c.yml">> :> Stack("c", "yml", {Cfg("k", Absolute)})))
-----------------------------------------------------------------------------
(* A host with /data/app, /data/file, /srv/file and links into and out of   *)
(* /data; the administrator may point /cur elsewhere.                       *)

Folder == [kind |-> "dir"]
Plain == [kind |-> "file"]
LinkTo(p) == [kind |-> "link", to |-> p]
Host(target) ==
    (<<data>> :> Folder) @@ (<<data, app>> :> Folder) @@ (<<data, file>> :> Plain)
    @@ (<<data, app, file>> :> Plain) @@ (<<srv>> :> Folder)
    @@ (<<srv, file>> :> Plain)
    @@ (<<data, out>> :> LinkTo(<<srv>>))         \* a link out of /data
    @@ (<<cur>> :> LinkTo(target)) @@ (<<loop>> :> LinkTo(<<loop>>))
Binds == {<<data>>, <<data, app>>, <<data, app, Up>>, <<data, out, file>>,
          <<data, out, Up>>, <<cur>>, <<cur, file>>, <<srv, file>>,
          <<data, file>>, <<data, file, Up>>, <<data, Up, srv>>, <<loop>>, <<>>,
          <<file>>}
Envs ==
    {[abs |-> TRUE, path |-> p] : p \in {<<data, file>>, <<srv, file>>, <<cur, file>>}}
    \union {[abs |-> FALSE, path |-> p] :
              p \in {<<file>>, <<app, Up, file>>, <<out, file>>, <<Up, srv, file>>,
                     <<out, Up, file>>, <<app>>}}
ReadOnly(p) == <<[source |-> p, ro |-> TRUE]>>
Systems == {Host(<<data, app>>), Host(<<srv>>), Host(<<>>)}
Roots == {<<>>, <<<<data>>>>, <<<<cur>>>>, <<<<data, app>>, <<srv>>>>,
          <<<<file>>, <<data>>>>, <<<<data, file>>>>, <<<<data, Up>>>>}
Exacts == {<<>>, ReadOnly(<<srv, file>>), ReadOnly(<<cur>>), ReadOnly(<<>>)}
EnvDirs == {<<data>>, <<cur>>, <<data, out, Up>>}
Configs ==
    [roots : Roots, exact : Exacts, envRoot : {NoRoot}]
    \union [roots : {<<>>}, exact : {<<>>}, envRoot : EnvDirs]
Mentions ==
    [source : Binds, ro : BOOLEAN, env : {[abs |-> FALSE, path |-> <<file>>]}]
    \union [source : {<<data>>}, ro : {TRUE}, env : Envs]
=============================================================================

---------------------------- MODULE MC_Operator ----------------------------
(* Small instances of Operator: users start with a component, a Vimana, a  *)
(* domain or a server and nothing else; a domain and its servers have      *)
(* their route, with or without a Vimana to come; or a Vimana has all it   *)
(* needs for its domains.                                                  *)
EXTENDS Operator, TLC

MCObjects == OperatorObjects

\* The name of one domain is its id, that of the other is not.
MCId == "d" :> "d" @@ "e" :> "x"

Fresh(spec) == [Absent EXCEPT !.exists = TRUE, !.spec = spec]
Available(spec) == [Fresh(spec) EXCEPT !.status = "Reconciled"]
Owned(spec, kind, name) == [Fresh(spec) EXCEPT !.owner = <<kind, name, 0>>]

World(n, these, objects) ==
  [disturbances |-> n, users |-> these, objects |-> objects, starting |-> TRUE]
AtRest(n, these, objects) == [World(n, these, objects) EXCEPT !.starting = FALSE]
ByUsers(n, objects) == World(n, DOMAIN objects, objects)

server == [label |-> "d", versions |-> 1]

\* Domains with their routes.
Routed(these, rules) ==
  [o \in {"Domain"} \X these |-> Available(1)]
    @@ [o \in {<<"GRPCRoute", MCId[d]>> : d \in these} |->
          Owned([aliases |-> 1, rules |-> rules], "Domain", CHOOSE d \in these : MCId[d] = o[2])]

WithServers ==
  Routed({"d"}, <<<<"s", 1>>, <<"t", 1>>>>)
    @@ [o \in {"Server"} \X {"s", "t"} |-> Fresh(server)]

Deployed ==
  <<"Component", "c">> :> Available(1)
    @@ <<"Deployment", "c">> :> Owned([image |-> 1, replicas |-> 1], "Component", "c")
    @@ <<"Service", "c">> :> Owned("c", "Component", "c")

\* A Vimana with the domains in these.
Running(these) ==
  Routed(these, <<>>)
    @@ <<"Vimana", "v">> :> Available("vimana")
    @@ <<"RuntimeClass", "vimana-runtime">> :> Fresh("RuntimeClass")
    @@ <<"GatewayClass", "envoy-gateway">> :> Fresh("GatewayClass")
    @@ <<"EnvoyProxy", "envoy-gateway-config">> :> Fresh("v")
    @@ <<"Gateway", "v">> :> Owned(SetToSeq({<<MCId[d], 1>> : d \in these}), "Vimana", "v")

\* The same when there are no domains any more: without its gateway or, when
\* they were deleted while the operator was away, still with it.
Without(kinds) ==
  LET all == Running({"d"})
  IN  [o \in {o \in DOMAIN all : o[1] \notin kinds} |-> all[o]]

MCWorlds ==
  {World(1, {}, <<"Component", "c">> :> Fresh(1)),
   AtRest(1, {<<"Component", "c">>}, Deployed),
   ByUsers(1, <<"Vimana", "v">> :> Fresh("vimana")),
   World(1, {<<"Vimana", "v">>}, Routed({"d"}, <<>>)),
   ByUsers(2, <<"Domain", "d">> :> Fresh(1)),
   World(2, {<<"Domain", "d">>, <<"Server", "s">>}, <<"Server", "s">> :> Fresh(server)),
   AtRest(1, {<<"Domain", "d">>, <<"Server", "s">>}, WithServers),
   AtRest(2, {<<"Vimana", "v">>}, Running({"d"})),
   AtRest(1, {<<"Domain", "d">>, <<"Domain", "e">>, <<"Vimana", "v">>}, Running({"d", "e"})),
   AtRest(1, {<<"Domain", "d">>}, Without({"Domain", "GRPCRoute", "Gateway"})),
   World(1, {}, Without({"Domain", "GRPCRoute"}))}

\* A domain as in e2e/mvp.yaml, to which a server is added.
MCNamed == {AtRest(1, {<<"Server", "s">>}, Routed({"e"}, <<>>))}
=============================================================================

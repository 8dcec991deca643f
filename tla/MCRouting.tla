----------------------------- MODULE MCRouting -----------------------------
(* Two agents, "a" and "a-gateway": the second file of the first agent and *)
(* the first file of the second one are both a-gateway-config.             *)
EXTENDS WatchRouting

CONSTANTS a, b, cm, aConfig, aGatewayConfig, bGatewayConfig, k1, c1, c2, e1, e2

MCNames    == {cm, aConfig, aGatewayConfig, bGatewayConfig}
MCKindOf   == [n \in MCNames |-> "ConfigMap"]
MCContents == {c1, c2}
MCBase64   == [c \in MCContents |-> IF c = c1 THEN e1 ELSE e2]
MCBackend  == [c \in MCContents |-> None]

MCGeneratedName ==
    [x \in {a, b} |->
        [id \in ConfigIds |->
            CASE x = a /\ id = "config" -> aConfig
              [] x = b /\ id = "gateway-config" -> bGatewayConfig
              [] OTHER -> aGatewayConfig]]

Refers(role, name) ==
    [role |-> role, name |-> name, key |-> k1, items |-> {}, optional |-> FALSE]

Agent(config, gateway, uses) ==
    [raw |-> [id \in ConfigIds |-> IF id = "config" THEN config ELSE gateway], uses |-> uses]

Both    == Agent(c1, c1, {Refers("env", cm)})
First   == Agent(c2, None, {Refers("env", cm)})
Same    == Agent(c2, None, {[Refers("fileMount", cm) EXCEPT !.key = None, !.items = {k1}]})
Chained == Agent(None, None, {Refers("config", aConfig)})

MCAgents == {f \in [{a, b} -> {Both, First, Same, Chained}] :
                f[a] \in {Both, First} /\ f[b] \in {Same, Chained}}

MCAgentEdits ==
    {<<Both, First>>, <<First, Both>>, <<Both, None>>, <<Same, Chained>>, <<Chained, Same>>}

Users(c) == [owner |-> None, entries |-> Rendered(c)]
MCObjects == {[n \in MCNames |-> IF n = cm THEN Users(c1) ELSE None]}
MCObjectEdits ==
    [n \in MCNames |->
        CASE n = cm -> {<<Users(c1), Users(c2)>>, <<Users(c1), None>>, <<None, Users(c1)>>}
          [] n = aConfig -> {<<[owner |-> a, entries |-> Rendered(c1)], None>>}
          [] OTHER -> {}]
=============================================================================

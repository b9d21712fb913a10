------------------------------ MODULE MCExports ------------------------------
(* Workspaces for SubscriptionServing: three sources, five nodes of which two *)
(* make the same connection, two node groups, the default policy groups and   *)
(* three of the operator, rules and rule sets of every kind the clients treat *)
(* differently.                                                               *)
EXTENDS SubscriptionServing

None_ == "none"
NodeRow(id, source, protocol, endpoint, name, region) ==
  [id |-> id, source |-> source, protocol |-> protocol, network |-> "tcp", endpoint |-> endpoint,
   secret |-> "key", complete |-> TRUE, raw |-> None_, name |-> <<name>>, region |-> region, enabled |-> TRUE]
NodeRows == <<NodeRow("n1", "A", "ss", "e1", "alpha", "HK"), NodeRow("n2", "A", "vless", "e2", "beta", "US"),
              NodeRow("n3", "B", "ss", "e1", "gamma", "US"), NodeRow("n4", "B", "trojan", "e4", "beta", "HK"),
              NodeRow("n5", "manual", "snell", "e5", "delta", "US")>>

SourceRow(id) == [id |-> id, enabled |-> TRUE, failed |-> id = "B", refreshed |-> TRUE, count |-> 2]
SourceRows == <<SourceRow("A"), SourceRow("B"), SourceRow("manual")>>

FilterRow == [enabled |-> TRUE, field |-> "country", values |-> {"HK"}, selects |-> TRUE]
PoolRow(id, nodes, sources, filters, rename, dedup, by) ==
  [id |-> id, enabled |-> TRUE, nodes |-> nodes, sources |-> sources, filters |-> filters,
   rename |-> rename, dedup |-> dedup, sort |-> [by |-> by, countries |-> <<"US", "HK">>]]

GroupRow(id, name, type, pools, builtins, likes, hint) ==
  [id |-> id, name |-> <<name>>, type |-> type, enabled |-> TRUE, groupIds |-> <<>>,
   pools |-> pools, builtins |-> builtins, likes |-> likes, hint |-> hint]
GroupRows == <<GroupRow("auto", "AUTO", "url-test", <<>>, <<>>, <<>>, None_),
               GroupRow("proxy", "PROXY", "select", <<>>, <<>>, <<>>, None_),
               GroupRow("direct", "DIRECT", "direct", <<>>, <<>>, <<>>, None_),
               GroupRow("reject", "REJECT", "reject", <<>>, <<>>, <<>>, None_),
               GroupRow("asia", "ASIA", "select", <<"P1">>, <<>>, <<>>, "HK"),
               GroupRow("work", "WORK", "select", <<"P2">>, <<REJECT>>, <<>>, None_),
               GroupRow("stream", "STREAM", "select", <<>>, <<>>, <<"HK">>, None_)>>

RuleRow(id, type, payload, target, noResolve) ==
  [id |-> id, type |-> type, payload |-> payload, target |-> target, override |-> None_,
   enabled |-> TRUE, noResolve |-> noResolve, valid |-> TRUE]
RuleRows == <<RuleRow("r1", "DOMAIN", "d", "stream", FALSE), RuleRow("r2", "NETWORK", "tcp", "asia", FALSE),
              RuleRow("r3", "IP-CIDR", "ip", "direct", TRUE), RuleRow("r4", "SCRIPT", "s", "proxy", FALSE),
              RuleRow("r5", "IN-TYPE", "HTTP", "work", FALSE)>>

RuleSetRow(id, name, format, preset, overrides, target, override, upstream) ==
  [id |-> id, name |-> name, format |-> format, preset |-> preset, overrides |-> overrides,
   target |-> target, override |-> override, enabled |-> TRUE, safe |-> TRUE, upstream |-> upstream]
SetRows == <<RuleSetRow("s1", <<"a", "d">>, "mrs", FALSE, {}, "stream", None_, "whole"),
             RuleSetRow("s2", <<"b", "-">>, "mihomo", TRUE, {}, "asia", "proxy", "whole"),
             RuleSetRow("s3", <<"c">>, "singbox", FALSE, {"mihomo"}, "work", None_, "partial")>>

ProfileRow == [token |-> 0, enabled |-> TRUE, default |-> TRUE, format |-> "mihomo", policy |-> None_,
            groups |-> {}, rules |-> {}, sets |-> {}, pools |-> {}]

Base ==
  [settings |-> [naming |-> "original", unmatched |-> "proxy", policy |-> "compatible", shown |-> TRUE,
                 prefer |-> [g \in {"stream"} |-> "asia"]],
   profile |-> ProfileRow, nodes |-> NodeRows, sources |-> SourceRows,
   pools |-> <<PoolRow("P1", {}, {"A"}, <<>>, "none", "none", "country"),
               PoolRow("P2", {"n3", "n4"}, {}, <<>>, "none", "none", "none")>>,
   groups |-> GroupRows, rules |-> RuleRows, sets |-> SetRows]

(* One source only and nothing a client drops: every format gets a file.      *)
Small == [Base EXCEPT !.nodes = [i \in 1..3 |-> [NodeRows[i] EXCEPT !.protocol = "ss"]],
                      !.pools[2].nodes = {"n3"}]
Strict == [Small EXCEPT !.settings.policy = "strict"]
StrictWhole == [Strict EXCEPT !.sets[3].upstream = "whole"]
ForStash == [Small EXCEPT !.profile.default = FALSE, !.profile.format = "stash",
                          !.profile.policy = "compatible", !.settings.policy = "strict"]

Renames == {[Small EXCEPT !.settings.naming = n, !.pools[1].rename = r, !.pools[1].dedup = d] :
              n \in {"region_sequence", "region_source_sequence", "source_region_sequence"},
              r \in {"none", "one_name"}, d \in {"none", "name"}}
Transforms == {[Small EXCEPT !.pools[1].rename = r, !.pools[1].sort.by = by, !.pools[1].filters = f,
                             !.pools[1].dedup = d] :
                 r \in {"auto_number", "prefix"}, by \in {"name", "protocol", "source"},
                 f \in {<<>>, <<FilterRow>>}, d \in {"server_port", "full_config"}}
Scopes == {[Small EXCEPT !.settings.unmatched = u, !.profile.groups = g, !.profile.rules = r,
                         !.profile.sets = s, !.profile.pools = p] :
             u \in {"proxy", "direct"}, g \in {{}, {"work"}}, r \in {{}, {"r1"}},
             s \in {{}, {"s2"}}, p \in {{}, {"P1"}}}
Broken == {[Small EXCEPT !.sources[1].enabled = FALSE], [Small EXCEPT !.nodes = <<>>], [Small EXCEPT !.rules[1].valid = FALSE],
           [Small EXCEPT !.sets[1].safe = FALSE], [Small EXCEPT !.rules[1].target = "gone"],
           [Small EXCEPT !.sets[1].upstream = "down"], [Strict EXCEPT !.sets[3].upstream = "down"],
           [Small EXCEPT !.nodes[2].complete = FALSE, !.nodes[2].protocol = "wireguard"],
           [Small EXCEPT !.nodes[2].name = <<"alpha">>], [Small EXCEPT !.sets[1].name = <<"b", ".">>],
           [Small EXCEPT !.nodes[2].protocol = "vless", !.nodes[2].network = "grpc"],
           [Small EXCEPT !.rules[1].type = "RULE-SET", !.rules[1].payload = <<"c">>]}
(* One protocol each, in no group that would refuse it.                       *)
Kinds == {[Small EXCEPT !.nodes[2].protocol = p, !.nodes[2].network = n, !.pools[1].sources = {"B"}] :
            p \in Protocols \cup {"unheard-of"}, n \in {"ws", "grpc"}}

(* A workspace as it is before anything was added to it.                      *)
Blank == [Small EXCEPT !.nodes = <<>>, !.pools = <<>>, !.rules = <<>>, !.sets = <<>>]

(* The operator wants no warnings of compatibility.                           *)
Untold == [Base EXCEPT !.settings.shown = FALSE]

MCCalm == {Base, Untold, Blank} \cup Renames \cup Transforms \cup Scopes \cup Broken \cup Kinds
MCWorkspaces == MCCalm \cup {Small, StrictWhole, ForStash}
MCAlphabet == <<"A", "B", "alpha", "beta", "gamma", "pre", "ss", "trojan", "vless">>
MCEditable == {"A", "n1", "P1", "asia", "r2", "s1"}
=============================================================================

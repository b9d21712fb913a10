----------------------------- MODULE ClientConfig ----------------------------
(* What the generators write for each client, kept to what a client resolves  *)
(* by name: the nodes, the policy groups with their members, the rule sets    *)
(* and the rules with the policies they hand traffic to.  The three names a   *)
(* client knows without being told are DIRECT, REJECT and (in Loon, for a     *)
(* target it cannot find) PROXY.  A node says in "complete" whether it has    *)
(* the credentials of its protocol and in "raw" the client it was imported    *)
(* from with an entry of that client.                                         *)
EXTENDS ExportChecks

DIRECT == <<"DIRECT">>
REJECT == <<"REJECT">>
Yaml == {"mihomo", "stash"}
Mapped == Yaml \cup {"singbox"}        \* written from mapped rows, the others from raw rows
Ini == {"surge", "shadowrocket", "loon"}

------------------------------------------------------------------------------
(* The nodes each generator writes; "null" in the code is FALSE here.         *)

Plain == {"ss", "vmess", "trojan", "anytls", "socks5", "http", "https"}

MihomoAlways == Plain \cup {"ssr", "vless", "hysteria2", "hysteria", "tuic"}
MihomoKeyed(f) ==
  {"wireguard", "ssh", "snell", "trusttunnel"}
    \cup (IF f = "mihomo" THEN {"mieru", "sudoku", "masque"} ELSE {"juicity"})
MihomoWrites(node, f) ==
  \/ node.raw = "mihomo" \/ node.protocol \in MihomoAlways
  \/ node.complete /\ node.protocol \in MihomoKeyed(f)

SingboxWrites(node) ==
  \/ node.protocol = "wireguard"       \* as an endpoint, always
  \/ /\ node.protocol # "ssr"
     /\ node.raw = "singbox" \/ node.protocol \in NodeProtocols["singbox"]

LoonWrites(node) ==
  \/ node.protocol \in {"ss", "ssr", "hysteria2", "anytls", "http", "https", "socks5"}
  \/ node.protocol \in {"vmess", "vless", "trojan"} /\ LoonTransport(node.network)
  \/ node.protocol = "wireguard" /\ node.complete

SurgeWrites(node) ==
  \/ node.protocol \in Plain \cup {"hysteria2"}
  \/ node.protocol \in {"ssh", "wireguard", "snell", "trusttunnel"} /\ node.complete

ShadowrocketWrites(node) ==
  \/ node.protocol \in Plain \cup {"ssr"}
  \/ /\ node.protocol \in {"vless", "hysteria", "hysteria2", "tuic", "wireguard", "ssh", "snell",
                           "mieru", "juicity"}
     /\ node.complete

QuantumultXWrites(node) == node.protocol \in Plain \cup {"ssr", "vless"}

EgernWrites(node) ==
  /\ EgernTransport(node.protocol, node.network)
  /\ \/ node.protocol \in Plain \cup {"vless", "hysteria2", "tuic", "ssh", "wireguard"}
     \/ node.protocol = "snell" /\ node.complete

FileWrites(node, f) ==
  CASE f \in Yaml -> MihomoWrites(node, f)
    [] f = "singbox" -> SingboxWrites(node)
    [] f = "loon" -> LoonWrites(node)
    [] f = "surge" -> SurgeWrites(node)
    [] f = "shadowrocket" -> ShadowrocketWrites(node)
    [] f = "quantumultx" -> QuantumultXWrites(node)
    [] f = "egern" -> EgernWrites(node)
    [] OTHER -> HasUri(node)

WrittenNodes(d, f) == Where(d.nodes, LAMBDA n : FileWrites(n, f))

------------------------------------------------------------------------------
(* Policy groups.                                                             *)

IsNative(group) == group.type \in {"direct", "reject"}
PolicyName(group) ==
  CASE group.type = "direct" -> DIRECT [] group.type = "reject" -> REJECT [] OTHER -> group.name

(* The policy an id stands for; a target that is not exported keeps its id.   *)
PolicyOf(groups, id, f) ==
  IF id \in RowIds(groups) THEN PolicyName(RowOf(groups, id))
  ELSE IF f = "loon" THEN <<"PROXY">> ELSE <<id>>

GroupMembers(group, d, written, f) ==
  LET listed == Where(group.groupIds, LAMBDA id : id \in RowIds(d.groups))
      nested == [i \in DOMAIN listed |-> PolicyName(RowOf(d.groups, listed[i]))]
      names == {n.name : n \in ToSet(written)}
      OfPool(p) == IF p \in DOMAIN d.poolNames
                   THEN Where(d.poolNames[p], LAMBDA n : n \in names) ELSE <<>>
      ofPools == Joined([i \in DOMAIN group.pools |-> OfPool(group.pools[i])])
      all == group.pools = <<>> /\ group.groupIds = <<>> /\ group.builtins = <<>>
      nodes == IF ofPools = <<>> /\ all THEN [i \in DOMAIN written |-> written[i].name] ELSE ofPools
      Kept(m) == f = "singbox" => m # REJECT       \* sing-box has no outbound that rejects
      members == FirstOfEach(Where(group.builtins \o nested, Kept) \o nodes, LAMBDA m : m)
  IN  IF members = <<>> THEN <<DIRECT>> ELSE members

WrittenGroups(d, f) ==
  LET policies == Where(d.groups, LAMBDA g : ~IsNative(g))
  IN  [i \in DOMAIN policies |->
         [id |-> policies[i].id, name |-> policies[i].name,
          members |-> ToSet(GroupMembers(policies[i], d, WrittenNodes(d, f), f))]]

------------------------------------------------------------------------------
(* Rule sets.  A name is a sequence of characters; some clients keep Latin    *)
(* letters of it only, and refer to a set by what is left.                    *)

Latin == {"a", "b", "c", "d", "e", "f"}
SafeName(name) == [i \in DOMAIN name |-> IF name[i] \in Latin THEN name[i] ELSE "_"]
Tag(set, f) == IF f \in Mapped THEN SafeName(set.name) ELSE set.name

(* The address a client downloads a set from: what is published in a format   *)
(* it reads, or the endpoint of the export's token that converts it, with the *)
(* client it is for when the name of the file does not say so.                *)
IsConverted(set, f) == ~FormatCompatible(f, PublishedFormat(set, f))
UrlSlipSource(set, f) ==
  [id |-> set.id, to |-> IF IsConverted(set, f) THEN set.format ELSE None, for |-> None]
UrlSlipFor(set, f) ==
  IF IsConverted(set, f)
  THEN [id |-> set.id, to |-> ConversionTarget(PublishedFormat(set, f), f), for |-> None]
  ELSE [id |-> set.id, to |-> None, for |-> None]
ConvertedUrl(set, f) ==
  IF IsConverted(set, f)
  THEN LET to == ConversionTarget(PublishedFormat(set, f), f)
       IN  [id |-> set.id, to |-> to, for |-> IF to = "mihomo" /\ f # "mihomo" THEN f ELSE None]
  ELSE [id |-> set.id, to |-> None, for |-> None]

TakenSets(d, f) == Where(d.sets, LAMBDA s : s.enabled /\ SetTaken(s, f))

(* The raw rows of a set hold its own target; the mapped ones the override.   *)
SetTarget(set, f) == IF f \in Mapped THEN TargetOf(set) ELSE set.target

WrittenSets(d, f) ==
  LET sets == TakenSets(d, f)
      all == [i \in DOMAIN sets |-> [id |-> sets[i].id, tag |-> Tag(sets[i], f), url |-> ConvertedUrl(sets[i], f)]]
  IN  IF f = "singbox" THEN FirstOfEach(all, LAMBDA s : s.tag) ELSE all

------------------------------------------------------------------------------
(* Rules, in the order of the client: the rules, then the sets; the rule that *)
(* matches everything is kept apart.                                          *)

ClientRule(rule, f) == ResolveRule(rule.type, rule.payload, IF f = "stash" THEN "mihomo" ELSE f)
TakenRules(d, f) ==
  Where(d.rules, LAMBDA r : r.enabled /\ r.type # "MATCH" /\ ClientRule(r, f).level # "unsupported")

RuleSetTag(rule, f) ==
  CASE rule.type # "RULE-SET" -> <<>> [] f = "singbox" -> SafeName(rule.payload) [] OTHER -> rule.payload

WrittenRules(d, f) ==
  LET rules == TakenRules(d, f)
      sets == TakenSets(d, f)
  IN  [i \in DOMAIN rules |->
         [id |-> rules[i].id, tag |-> RuleSetTag(rules[i], f),
          policy |-> PolicyOf(d.groups, rules[i].target, f)]]
      \o [i \in DOMAIN sets |->
            [id |-> sets[i].id, tag |-> Tag(sets[i], f),
             policy |-> PolicyOf(d.groups, SetTarget(sets[i], f), f)]]

(* The policy two clients send their own downloads and lookups through.       *)
DetourSlipAlways(d, f) == IF f \in {"mihomo", "singbox"} THEN <<"PROXY">> ELSE DIRECT
Detour(d, f) ==
  IF f \in {"mihomo", "singbox"} /\ "proxy" \in RowIds(d.groups) THEN PolicyOf(d.groups, "proxy", f) ELSE DIRECT

FinalPolicy(d, f) == PolicyOf(d.groups, Last(d.rules).target, f)

(* renderExportData: a configuration for a client, or a list of share links.  *)
Rendered(d, f) ==
  LET written == WrittenNodes(d, f) IN
  IF f \in NodeFormats
  THEN [nodes |-> written, groups |-> <<>>, sets |-> <<>>, rules |-> <<>>,
        final |-> DIRECT, detour |-> DIRECT]
  ELSE [nodes |-> written, groups |-> WrittenGroups(d, f), sets |-> WrittenSets(d, f),
        rules |-> WrittenRules(d, f), final |-> FinalPolicy(d, f), detour |-> Detour(d, f)]
=============================================================================

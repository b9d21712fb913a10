----------------------------- MODULE ExportChecks ----------------------------
(* The checks of an export before anything is rendered.  A warning says how   *)
(* bad it is and which row it is about; an export with an unsupported warning *)
(* among those of BlockingWarnings is refused, the others are shown to the    *)
(* operator beside the export.                                                *)
EXTENDS ExportScope

Warning(level, about, id) == [level |-> level, about |-> about, id |-> id]

(* validateSources: the sources that are switched on and have an address.     *)
SourceWarnings(d) ==
  {Warning(IF s.failed THEN "unsupported" ELSE "partial", "source", s.id) :
     s \in {x \in ToSet(d.sources) : x.failed \/ (~x.refreshed /\ x.count = 0)}}

(* Whether a client takes a node, judged by its protocol and transport alone. *)
TransportChecked == {"vmess", "vless", "trojan"}
NodeRenderable(node, f) ==
  /\ ProtocolSupported(node.protocol, f)
  /\ f = "loon" /\ node.protocol \in TransportChecked => LoonTransport(node.network)
  /\ f = "egern" /\ node.protocol \in TransportChecked => EgernTransport(node.protocol, node.network)

(* nodeToSubscriptionUri: whether a node can be written as a share link.      *)
UriProtocols == Everywhere \cup {"ssr", "vless", "hysteria", "hysteria2", "hy2", "tuic",
                                 "shadowtls", "ssh", "wireguard"}
HasUri(node) == node.protocol \in UriProtocols /\ node.endpoint # None

NodeTaken(node, f) == IF f \in NodeFormats THEN HasUri(node) ELSE NodeRenderable(node, f)

EmptyWarnings(d, f) ==
  IF d.nodes = <<>> THEN {Warning("unsupported", "no nodes", f)}
  ELSE IF \E n \in ToSet(d.nodes) : NodeTaken(n, f) THEN {}
  ELSE {Warning("unsupported", "no supported nodes", f)}

Namesakes(d) ==
  {d.nodes[i].id : i \in {k \in DOMAIN d.nodes :
     \E j \in DOMAIN d.nodes : j # k /\ d.nodes[j].name = d.nodes[k].name}}
NodeWarnings(d, f) ==
  EmptyWarnings(d, f) \cup {Warning("partial", "duplicate", n) : n \in Namesakes(d)}

(* Groups: what they list must be exported.                                   *)
GroupWarnings(d, f) ==
  LET taken == {n.name : n \in {x \in ToSet(d.nodes) : NodeRenderable(x, f)}}
      NamesOf(p) == IF p \in DOMAIN d.poolNames THEN ToSet(d.poolNames[p]) ELSE {}
  IN  {Warning("unsupported", "group", g.id) :
         g \in {x \in ToSet(d.groups) : \/ ~ToSet(x.groupIds) \subseteq RowIds(d.groups)
                                       \/ \E p \in ToSet(x.pools) : ~NamesOf(p) \subseteq taken}}
      \cup {Warning("partial", "group", g.id) :
              g \in {x \in ToSet(d.groups) : \E p \in ToSet(x.pools) : NamesOf(p) = {}}}

(* Rules and rule sets: they point at exported groups, rules have a valid     *)
(* payload and the addresses of sets can be downloaded.                       *)
AimWarnings(rows, d, about) ==
  {Warning("unsupported", about, x.id) : x \in {y \in ToSet(rows) : TargetOf(y) \notin RowIds(d.groups)}}
PayloadWarnings(d) ==
  {Warning("unsupported", "payload", x.id) : x \in {y \in ToSet(d.rules) : ~y.valid}}
UrlWarnings(d, f) ==
  {Warning("unsupported", "url", s.id) :
     s \in {x \in ToSet(d.sets) : PublishedFormat(x, f) # "none" /\ ~x.safe}}

PolicyWarnings(d, f) ==
  GroupWarnings(d, f) \cup AimWarnings(d.rules, d, "rule target") \cup PayloadWarnings(d)
    \cup AimWarnings(d.sets, d, "set target") \cup UrlWarnings(d, f)

ReadinessWarnings(d, f) ==
  SourceWarnings(d) \cup NodeWarnings(d, f) \cup (IF f \in NodeFormats THEN {} ELSE PolicyWarnings(d, f))

(* findBlockingExportWarning.                                                 *)
BlockingWarnings(d, f) ==
  IF EmptyWarnings(d, f) # {} \/ f \in NodeFormats THEN EmptyWarnings(d, f)
  ELSE {w \in PolicyWarnings(d, f) : w.level = "unsupported"}

------------------------------------------------------------------------------
(* What the export will leave out or change.                                  *)

NodeLosses(d, f) ==
  {Warning("partial", "node", n.id) : n \in {x \in ToSet(d.nodes) : ~NodeTaken(x, f)}}

RuleLossesSlipPartial(d, f) ==
  {Warning("partial", "rule", x.id) :
     x \in {y \in ToSet(d.rules) : ResolveRule(y.type, y.payload, f).level = "partial"}}
RuleLosses(d, f) ==
  {Warning(ResolveRule(x.type, x.payload, f).level, "rule", x.id) :
     x \in {y \in ToSet(d.rules) : ResolveRule(y.type, y.payload, f).level \in {"unsupported", "partial"}}}
  \cup {Warning("partial", "no-resolve", x.id) :
          x \in {y \in ToSet(d.rules) : y.noResolve /\ NoResolveHandling(y.type, f) = "omit"}}

SetLosses(d, f) ==
  {Warning("partial", "set", s.id) : s \in {x \in ToSet(d.sets) : ~SetTaken(x, f)}}

CompatibilityWarnings(d, f) ==
  NodeLosses(d, f) \cup (IF f \in NodeFormats THEN {} ELSE RuleLosses(d, f) \cup SetLosses(d, f))

ExportWarnings(d, f, shown) ==
  ReadinessWarnings(d, f) \cup (IF shown THEN CompatibilityWarnings(d, f) ELSE {})
=============================================================================

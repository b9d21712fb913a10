---------------------------- MODULE ExportFormats ----------------------------
(* What the shared package declares of the ten export formats: the node       *)
(* protocols, rule types and rule set formats each of them takes, and how a   *)
(* rule or a rule set of another dialect is resolved for it.  These tables    *)
(* are read by the checks before an export, by the generators, by the token   *)
(* endpoint that converts rule sets and by the web client.                    *)
EXTENDS Naturals, Sequences, FiniteSets

FullFormats ==
  {"mihomo", "singbox", "loon", "surge", "shadowrocket", "quantumultx", "stash", "egern"}
NodeFormats == {"nodes_base64", "nodes_raw"}
Formats == FullFormats \cup NodeFormats
RuleSetFormats == FullFormats \cup {"clash", "mrs", "text"}

------------------------------------------------------------------------------
(* Node protocols.                                                            *)

Everywhere == {"ss", "vmess", "trojan", "anytls", "socks5", "http", "https"}

NodeProtocols == [f \in Formats |->
  Everywhere \cup
  CASE f = "mihomo" -> {"ssr", "vless", "hysteria", "hysteria2", "tuic", "wireguard", "ssh",
                        "snell", "mieru", "sudoku", "trusttunnel", "masque"}
    [] f = "singbox" -> {"vless", "hysteria", "hysteria2", "tuic", "shadowtls", "ssh", "wireguard"}
    [] f = "shadowrocket" -> {"ssr", "vless", "hysteria", "hysteria2", "tuic", "wireguard", "ssh",
                              "snell", "mieru", "juicity"}
    [] f = "surge" -> {"hysteria2", "wireguard", "ssh", "snell", "trusttunnel"}
    [] f = "loon" -> {"ssr", "vless", "hysteria2", "wireguard"}
    [] f = "quantumultx" -> {"ssr", "vless"}
    [] f = "stash" -> {"ssr", "vless", "hysteria", "hysteria2", "tuic", "wireguard", "ssh",
                       "snell", "trusttunnel", "juicity"}
    [] f = "egern" -> {"vless", "hysteria2", "tuic", "ssh", "wireguard", "snell"}
    [] OTHER -> {"ssr", "vless", "hysteria", "hysteria2", "tuic", "shadowtls", "ssh", "wireguard"}]

Protocols == UNION {NodeProtocols[f] : f \in Formats}

ProtocolSupported(protocol, f) == protocol \in NodeProtocols[f]

(* Two text clients take some transports only.                                *)
LoonTransport(network) == network \in {"tcp", "ws", "http"}

EgernTransport(protocol, network) ==
  /\ protocol \in {"vmess", "vless"} => network \in {"tcp", "ws", "http", "h2", "grpc"}
  /\ protocol = "trojan" => network \in {"tcp", "ws"}

------------------------------------------------------------------------------
(* Rules.  A rule is resolved to a level and to the type the target spells.   *)

RuleTypes ==
  {"DOMAIN", "DOMAIN-SUFFIX", "DOMAIN-KEYWORD", "DOMAIN-REGEX", "IP-CIDR", "IP-CIDR6", "IP-ASN",
   "GEOIP", "GEOSITE", "PROCESS-NAME", "PROCESS-PATH", "PORT", "SRC-PORT", "SRC-IP-CIDR",
   "PROTOCOL", "NETWORK", "IN-TYPE", "RULE-SET", "SCRIPT", "MATCH"}

PartialIn == [type \in RuleTypes |->
  CASE type = "DOMAIN-REGEX" -> {"surge", "shadowrocket"}
    [] type \in {"IP-ASN", "RULE-SET"} -> {"shadowrocket"}
    [] type = "PROCESS-NAME" -> {"loon"}
    [] type = "PROCESS-PATH" -> {"stash"}
    [] type = "PROTOCOL" -> {"mihomo", "singbox", "loon", "stash"}
    [] type = "NETWORK" -> {"loon", "surge"}
    [] type = "SCRIPT" -> {"mihomo", "loon", "stash"}
    [] OTHER -> {}]

UnsupportedIn == [type \in RuleTypes |->
  CASE type = "DOMAIN-REGEX" -> {"loon", "quantumultx"}
    [] type = "IP-ASN" -> {"singbox", "quantumultx"}
    [] type = "GEOSITE" -> {"loon", "surge", "shadowrocket", "quantumultx", "egern"}
    [] type = "PROCESS-NAME" -> {"shadowrocket", "quantumultx", "egern"}
    [] type = "PROCESS-PATH" -> {"loon", "shadowrocket", "quantumultx", "egern"}
    [] type = "PORT" -> {"quantumultx"}
    [] type = "SRC-PORT" -> {"shadowrocket", "quantumultx", "egern"}
    [] type = "SRC-IP-CIDR" -> {"loon", "shadowrocket", "quantumultx", "egern"}
    [] type \in {"PROTOCOL", "NETWORK"} -> {"shadowrocket", "quantumultx"}
    [] type = "IN-TYPE" -> FullFormats \ {"mihomo"}
    [] type = "RULE-SET" -> {"loon", "quantumultx"}
    [] type = "SCRIPT" -> FullFormats \ {"mihomo", "loon", "stash"}
    [] OTHER -> {}]

RuleLevel(type, f) ==
  IF f \in NodeFormats \cup UnsupportedIn[type] THEN "unsupported"
  ELSE IF f \in PartialIn[type] THEN "partial" ELSE "full"

Resolved(level, type) == [level |-> level, type |-> type]

(* NETWORK and PROTOCOL are resolved by their value.                          *)
ResolveTransportRule(type, payload, f) ==
  LET layer4 == payload \in {"tcp", "udp"} IN
  CASE type = "NETWORK" /\ f = "singbox" /\ payload \in {"tcp", "udp", "icmp"} -> Resolved("full", type)
    [] type = "NETWORK" /\ f \in {"mihomo", "stash"} /\ layer4 -> Resolved("full", type)
    [] type = "NETWORK" /\ f \in {"surge", "loon", "egern"} /\ layer4 -> Resolved("convert", "PROTOCOL")
    [] type = "PROTOCOL" /\ f \in {"mihomo", "stash", "singbox"} /\ layer4 -> Resolved("convert", "NETWORK")
    [] type = "PROTOCOL" /\ f = "singbox" /\ payload \in {"http", "tls", "quic", "dns", "ssh"} ->
         Resolved("full", type)
    [] type = "PROTOCOL" /\ f = "surge" /\ payload \in {"http", "https", "tcp", "udp", "quic"} ->
         Resolved("full", type)
    [] type = "PROTOCOL" /\ f = "loon" /\ layer4 -> Resolved("full", type)
    [] type = "PROTOCOL" /\ f = "egern" /\ payload \in {"tcp", "udp", "http", "https", "quic"} ->
         Resolved("full", type)
    [] OTHER -> Resolved("unsupported", type)

Spelling == [f \in Formats |->
  CASE f \in {"mihomo", "stash", "shadowrocket"} -> [PORT |-> "DST-PORT"]
    [] f = "surge" -> [t \in {"PORT", "SRC-IP-CIDR"} |-> IF t = "PORT" THEN "DEST-PORT" ELSE "SRC-IP"]
    [] f = "loon" -> [t \in {"PORT", "IP-ASN"} |-> IF t = "PORT" THEN "DEST-PORT" ELSE "IPASN"]
    [] f = "quantumultx" ->
         [t \in {"DOMAIN", "DOMAIN-SUFFIX", "DOMAIN-KEYWORD", "IP-CIDR6", "MATCH"} |->
            CASE t = "DOMAIN" -> "HOST" [] t = "DOMAIN-SUFFIX" -> "HOST-SUFFIX"
              [] t = "DOMAIN-KEYWORD" -> "HOST-KEYWORD" [] t = "IP-CIDR6" -> "IP6-CIDR"
              [] OTHER -> "FINAL"]
    [] OTHER -> [t \in {} |-> ""]]

ResolveRule(type, payload, f) ==
  IF type \in {"NETWORK", "PROTOCOL"} /\ f \in FullFormats THEN ResolveTransportRule(type, payload, f)
  ELSE IF type \in DOMAIN Spelling[f] THEN Resolved("convert", Spelling[f][type])
  ELSE Resolved(RuleLevel(type, f), type)

(* What becomes of the no-resolve option of a rule.                           *)
NoResolveHandling(type, f) ==
  IF type \notin {"IP-CIDR", "IP-CIDR6", "IP-ASN", "GEOIP"} THEN "omit"
  ELSE IF f = "singbox" THEN (IF type = "IP-ASN" THEN "omit" ELSE "implicit")
  ELSE IF f \in NodeFormats \cup {"quantumultx"} THEN "omit" ELSE "native"

------------------------------------------------------------------------------
(* Remote rule sets.  A set is [format, preset, overrides, ...]: the format   *)
(* it is published in, whether it is a Quixotic preset (published for every   *)
(* client) and the clients it has a native address for.                       *)

RuleSetFormatsOf == [f \in Formats |->
  CASE f = "mihomo" -> {"mihomo", "mrs", "clash", "stash", "text"}
    [] f = "singbox" -> {"singbox"}
    [] f = "loon" -> {"loon", "surge", "shadowrocket", "text"}
    [] f = "surge" -> {"surge", "text"}
    [] f = "shadowrocket" -> {"shadowrocket", "surge", "text"}
    [] f = "quantumultx" -> {"quantumultx", "text"}
    [] f = "stash" -> {"stash", "mihomo", "clash", "text"}
    [] f = "egern" -> {"egern", "surge", "text"}
    [] OTHER -> {}]

FormatCompatible(f, format) == format \in RuleSetFormatsOf[f]

(* The dialect a source has to be converted to, "none" when it cannot be.     *)
ConversionTarget(format, f) ==
  CASE f = "singbox" /\ format \in RuleSetFormats \ {"singbox"} -> "singbox"
    [] f \in {"mihomo", "stash"} /\ format \in {"mrs", "singbox", "egern"} -> "mihomo"
    [] f \in {"surge", "loon", "shadowrocket", "quantumultx", "egern"} /\ ~FormatCompatible(f, format)
         /\ format \in RuleSetFormats -> f
    [] OTHER -> "none"

(* The format of the address a client is given for a set: its own address,    *)
(* the preset published for it, or the address of the set.  "none" when a     *)
(* preset is not published for the client.                                    *)
PublishedFormat(set, f) ==
  IF f \in set.overrides \cap FullFormats THEN f
  ELSE IF set.preset THEN (IF f \in FullFormats THEN f ELSE "none")
  ELSE set.format

SetTaken(set, f) ==
  LET format == PublishedFormat(set, f) IN
  format # "none" /\ (FormatCompatible(f, format) \/ ConversionTarget(format, f) # "none")
=============================================================================

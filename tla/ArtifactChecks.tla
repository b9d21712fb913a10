---------------------------- MODULE ArtifactChecks ---------------------------
(* The last check of an export: what was written is parsed again and must be  *)
(* complete (no empty section), refer to nothing that is not there, name      *)
(* nothing twice and hold the fields the client asks for.                     *)
EXTENDS ClientConfig

FileNames(rows) == {row.name : row \in ToSet(rows)}
Repeats(seq, Key(_)) == \E i, j \in DOMAIN seq : i # j /\ Key(seq[i]) = Key(seq[j])

Targets(c) == FileNames(c.nodes) \cup FileNames(c.groups) \cup {DIRECT, REJECT}

(* A section that has to hold something.                                      *)
EmptySections(c, f) ==
  CASE f \in NodeFormats -> {s \in {"nodes"} : c.nodes = <<>>}
    [] f = "singbox" -> {}
    [] OTHER -> {s \in {"nodes"} : c.nodes = <<>>} \cup {s \in {"groups"} : c.groups = <<>>}

(* validateMihomoReferences, validateSingBoxReferences, ...: the members of   *)
(* groups, the policies of rules and rule sets, the rule sets of rules.       *)
MissingReferencesSlipRules(c, f) ==
  {g.id : g \in {x \in ToSet(c.groups) : ~x.members \subseteq Targets(c)}}
MissingReferences(c, f) ==
  {g.id : g \in {x \in ToSet(c.groups) : ~x.members \subseteq Targets(c)}}
  \cup {r.id : r \in {x \in ToSet(c.rules) : x.policy \notin Targets(c)}}
  \cup {s \in {"final"} : c.final \notin Targets(c)}
  \cup (IF f \in Mapped
        THEN {r.id : r \in {x \in ToSet(c.rules) : x.tag # <<>> /\ x.tag \notin {s.tag : s \in ToSet(c.sets)}}}
        ELSE {})

(* A RULE-SET rule of a text client has to hold an address, not a name.       *)
InvalidUrls(c, f) ==
  {r.id : r \in {x \in ToSet(c.rules) :
     f \in {"surge", "egern"} /\ x.tag # <<>> /\ x.id \notin {s.id : s \in ToSet(c.sets)}}}

(* Names are unique; a YAML file with a repeated key does not even parse.     *)
RepeatedNames(c, f) ==
  LET ByName(x) == x.name
      ByTag(s) == s.tag
  IN  CASE f \in Yaml -> Repeats(c.sets, ByTag)
        [] f \in NodeFormats -> FALSE
        [] f = "singbox" -> Repeats(c.nodes, ByName) \/ Repeats(c.groups, ByName)
                              \/ FileNames(c.nodes) \cap FileNames(c.groups) # {} \/ Repeats(c.sets, ByTag)
        [] OTHER -> Repeats(c.nodes, ByName) \/ Repeats(c.groups, ByName)

(* The fields sing-box endpoints and Egern proxies have to have.              *)
FieldsRequired(protocol, f) ==
  \/ f = "singbox" /\ protocol = "wireguard"
  \/ f = "egern" /\ protocol \notin {"socks5", "http", "https"}
MissingFields(c, f) == {n.id : n \in {x \in ToSet(c.nodes) : FieldsRequired(x.protocol, f) /\ ~x.complete}}

(* validateRenderedExport: references are looked at in files without holes.   *)
ArtifactIssues(c, f) ==
  EmptySections(c, f) \cup
  IF EmptySections(c, f) # {} THEN {}
  ELSE MissingReferences(c, f) \cup InvalidUrls(c, f) \cup MissingFields(c, f)
         \cup (IF RepeatedNames(c, f) THEN {"repeated"} ELSE {})
=============================================================================

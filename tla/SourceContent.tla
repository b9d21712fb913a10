---------------------------- MODULE SourceContent ---------------------------
(***************************************************************************)
(* What the text of a source is read as: routes/sources.ts, detectAndParse *)
(* and the parsers it chooses from.  Of a text only its shape is kept, and *)
(* the nodes and groups it holds for a reader of that shape.               *)
(***************************************************************************)
EXTENDS Integers, Sequences, FiniteSets, SequencesExt, RowLists

(* "clash json" is a Clash file written as JSON, which is YAML too;        *)
(* "server_local" an INI file that lists share links in that section;      *)
(* "links" share links line by line, "base64" the same encoded.            *)
Shapes == {"clash", "clash json", "singbox", "ini", "server_local", "links", "base64"}
Grouped == {"clash", "clash json", "singbox"}  \* shapes with groups
SourceFormats == {"clash", "mihomo", "singbox", "base64", "surge", "loon", "quantumultx", "shadowrocket", "raw"}

(* parseBySourceFormat: the shapes the parser of a format finds nodes in.  *)
FoundBy(format) ==
    CASE format \in {"clash", "mihomo"} -> {"clash", "clash json"}
      [] format \in {"surge", "loon", "quantumultx"} -> {"ini", "server_local"}
      [] format = "shadowrocket" -> {"ini", "server_local", "links"}
      [] format = "raw" -> {"links", "server_local"}
      [] OTHER -> {format}

(* detectAndParse of a text no format is given for: the first test that    *)
(* fits decides, and what starts with a brace is taken for sing-box.       *)
DetectFormatSlipIniLast(text) ==
    CASE text.shape = "clash" -> "mihomo"
      [] text.shape \in {"clash json", "singbox"} -> "singbox"
      [] text.shape = "base64" /\ text.nodes # <<>> -> "base64"
      [] OTHER -> "raw"
DetectFormat(text) ==
    CASE text.shape = "clash" -> "mihomo"
      [] text.shape \in {"ini", "server_local"} -> "surge"
      [] text.shape \in {"clash json", "singbox"} -> "singbox"
      [] text.shape = "base64" /\ text.nodes # <<>> -> "base64"
      [] OTHER -> "raw"

(* Groups without some of their names; a group with no other is left out.  *)
Without(groups, names) ==
    Where([i \in DOMAIN groups |->
              [groups[i] EXCEPT !.members = Where(groups[i].members, LAMBDA name : name \notin names)]],
          LAMBDA group : group.members # <<>>)

(* parseClashGroups, parseSingboxGroups: without the built-in policies.    *)
ParseGroups(text) == Without(text.groups, {"DIRECT"})

Parse(text, format) ==
    LET reader == IF format = "auto" THEN DetectFormat(text) ELSE format
        found == text.shape \in FoundBy(reader)
    IN  [nodes |-> IF found THEN text.nodes ELSE <<>>,
         groups |-> IF found /\ text.shape \in Grouped THEN ParseGroups(text) ELSE <<>>]

(* parsedNodeIssue: an entry that only tells about the subscription, or    *)
(* one no client could use.                                                *)
InfoNames == {"info"}
Faulty(node) == node.name \in InfoNames \/ node.fault

(* filterUsableParsedContent *)
UsableContent(parsed) ==
    LET excluded == {node.name : node \in {n \in Range(parsed.nodes) : Faulty(n)}}
    IN  [nodes |-> Where(parsed.nodes, LAMBDA node : ~Faulty(node)),
         groups |-> Without(parsed.groups, excluded \cup InfoNames)]
=============================================================================

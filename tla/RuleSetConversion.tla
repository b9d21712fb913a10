------------------------- MODULE RuleSetConversion -------------------------
(***************************************************************************)
(* The conversion of a remote rule set from the format it is published in  *)
(* to the one a client reads: packages/rule-set, conversion.ts with        *)
(* detect.ts.  A source is read into rules, the rules are written for the  *)
(* target, and what is lost on the way is counted.  The binary codecs and  *)
(* the reasons given with the counts are left out; a payload is one of a   *)
(* few valid ones, or "junk".                                              *)
(***************************************************************************)
EXTENDS ExportFormats, Integers, Sequences, FiniteSets, SequencesExt

VARIABLE conversion   \* the source, the target, and the result once there is one

conversionVars == <<conversion>>

ConvertTargets == {"mihomo", "singbox", "surge", "loon", "shadowrocket", "quantumultx", "egern"}
IpTypes == {"IP-CIDR", "IP-CIDR6"}
TransportTypes == {"NETWORK", "PROTOCOL"}

(* isValidNormalizedRule *)
ValidPayload(type, payload) ==
    CASE type \in {"DOMAIN", "DOMAIN-SUFFIX", "DOMAIN-KEYWORD", "DOMAIN-REGEX"} -> payload = "x"
      [] type \in IpTypes \cup {"SRC-IP-CIDR"} -> payload \in {"v4", "v6"}
      [] type \in {"DST-PORT", "SRC-PORT"} -> payload \in {"80", "80-90"}
      [] type = "NETWORK" -> payload \in {"tcp", "udp", "icmp"}
      [] type = "PROTOCOL" -> payload # "junk"
      [] OTHER -> TRUE

NormalRule(type, payload, noResolve) == [type |-> type, payload |-> payload, noResolve |-> noResolve]
Unread == [rules |-> <<>>, skipped |-> 0]
Taken(parsed, rule) == [parsed EXCEPT !.rules = Append(@, rule)]
Skip(parsed, n) == [parsed EXCEPT !.skipped = @ + n]
Checked(parsed, rule) == IF ValidPayload(rule.type, rule.payload) THEN Taken(parsed, rule) ELSE Skip(parsed, 1)

-----------------------------------------------------------------------------
(* Text: a line is a word, a payload and options; without a word it is a   *)
(* domain, with "+." in front for its subdomains, or a network.            *)
Aliases == [w \in {"HOST", "HOST-SUFFIX", "HOST-KEYWORD", "IP6-CIDR", "PORT", "DEST-PORT"} |->
    CASE w = "HOST" -> "DOMAIN" [] w = "HOST-SUFFIX" -> "DOMAIN-SUFFIX" [] w = "HOST-KEYWORD" -> "DOMAIN-KEYWORD"
      [] w = "IP6-CIDR" -> "IP-CIDR6" [] OTHER -> "DST-PORT"]
TypeOf(word) == IF word \in DOMAIN Aliases THEN Aliases[word] ELSE word

NormalizeClassical(line) ==
    LET type == TypeOf(line.word)
        sourceMatch == "src" \in line.options
        noResolve == "no-resolve" \in line.options
        refused == \/ line.word \in {"", "+."} \/ "unknown" \in line.options
                   \/ (sourceMatch /\ (type \notin IpTypes \/ noResolve))
                   \/ (noResolve /\ type \notin IpTypes)
    IN IF refused THEN <<>> ELSE <<NormalRule(IF sourceMatch THEN "SRC-IP-CIDR" ELSE type, line.payload, noResolve)>>

NormalizeTextRule(line, behavior) ==
    CASE behavior = "domain" ->
           IF line.word \in {"", "+."} THEN <<NormalRule(IF line.word = "" THEN "DOMAIN" ELSE "DOMAIN-SUFFIX", line.payload, FALSE)>>
           ELSE <<>>
      [] behavior = "ipcidr" ->
           IF line.word = "" THEN <<NormalRule(IF line.payload = "v6" THEN "IP-CIDR6" ELSE "IP-CIDR", line.payload, FALSE)>>
           ELSE <<>>
      [] behavior = "classical" -> NormalizeClassical(line)

ParseTextSource(lines, behavior) ==
    FoldLeft(LAMBDA parsed, line : LET read == NormalizeTextRule(line, behavior)
                                   IN IF read = <<>> THEN Skip(parsed, 1) ELSE Checked(parsed, read[1]),
             Unread, lines)

-----------------------------------------------------------------------------
(* sing-box: fields of one family are alternatives, fields of several must *)
(* all match.  A field holds a list of values, or one value by itself.     *)
Families == {{"domain", "domain_suffix", "domain_keyword", "domain_regex"}, {"ip_cidr"}, {"source_ip_cidr"},
             {"port", "port_range"}, {"source_port", "source_port_range"}, {"network"}, {"protocol"}}
Fields == UNION Families
FieldType == [f \in Fields |->
    CASE f = "domain" -> "DOMAIN" [] f = "domain_suffix" -> "DOMAIN-SUFFIX" [] f = "domain_keyword" -> "DOMAIN-KEYWORD"
      [] f = "domain_regex" -> "DOMAIN-REGEX" [] f = "ip_cidr" -> "IP-CIDR" [] f = "source_ip_cidr" -> "SRC-IP-CIDR"
      [] f \in {"port", "port_range"} -> "DST-PORT" [] f \in {"source_port", "source_port_range"} -> "SRC-PORT"
      [] f = "network" -> "NETWORK" [] f = "protocol" -> "PROTOCOL"]

ListFields(item) == {f \in DOMAIN item.fields : f \notin item.single /\ item.fields[f] # <<>>}

FieldRule(field, value) ==
    NormalRule(IF field = "ip_cidr" /\ value = "v6" THEN "IP-CIDR6" ELSE FieldType[field], value, FALSE)
ReadField(parsed, field, values) ==
    FoldLeft(LAMBDA p, value : IF (field \in {"port", "source_port"} /\ value # "80")
                                    \/ (field \in {"port_range", "source_port_range"} /\ value # "80-90")
                               THEN Skip(p, 1) ELSE Checked(p, FieldRule(field, value)), parsed, values)

(* normalizeSingboxRule *)
PopulatedSlipFirst(item) == IF ListFields(item) = {} THEN {} ELSE {CHOOSE family \in Families : family \cap ListFields(item) # {}}
Populated(item) == {family \in Families : family \cap ListFields(item) # {}}

NormalizeSingboxRule(parsed, item) ==
    IF item.other # 0 \/ Cardinality(Populated(item)) # 1 THEN Skip(parsed, 1)
    ELSE FoldLeft(LAMBDA p, field : ReadField(p, field, item.fields[field]), parsed, SetToSeq(ListFields(item)))

ParseSingboxRules(items) == FoldLeft(NormalizeSingboxRule, Unread, items)

-----------------------------------------------------------------------------
(* Egern: a list for each type, and no_resolve for the whole set.          *)
EgernType == [k \in {"domain_set", "domain_suffix_set", "ip_cidr_set", "ip_cidr6_set", "dest_port_set", "protocol_set"} |->
    CASE k = "domain_set" -> "DOMAIN" [] k = "domain_suffix_set" -> "DOMAIN-SUFFIX" [] k = "ip_cidr_set" -> "IP-CIDR"
      [] k = "ip_cidr6_set" -> "IP-CIDR6" [] k = "dest_port_set" -> "DST-PORT" [] k = "protocol_set" -> "PROTOCOL"]

ParseEgernSource(doc) ==
    Skip(FoldLeft(LAMBDA parsed, key :
                       FoldLeft(LAMBDA p, value : Checked(p, NormalRule(EgernType[key], value,
                                                                  doc.noResolve /\ EgernType[key] \in IpTypes)),
                                parsed, doc.sets[key]),
                     Unread, SetToSeq(DOMAIN doc.sets)), doc.other)

(* parseRuleSetContent: binary content goes by what it is, text by what it *)
(* was declared as; text declared as such is looked at.                    *)
Reader(source) ==
    CASE source.is = "srs" -> "singbox"
      [] source.is = "mrs" -> IF source.behavior = "classical" THEN "refused" ELSE "text"
      [] source.declared = "mrs" -> "refused"
      [] source.declared = "text" -> source.is
      [] source.declared \in {"singbox", "egern"} -> source.declared
      [] OTHER -> "text"

ParseRuleSetContent(source) ==
    CASE Reader(source) = "singbox" -> ParseSingboxRules(source.items)
      [] Reader(source) = "egern" -> ParseEgernSource(source.doc)
      [] Reader(source) = "text" -> ParseTextSource(source.lines, source.behavior)
      [] Reader(source) = "refused" -> Unread

-----------------------------------------------------------------------------
(* A rule as a target writes it; <<>> when the target has none like it.    *)
Written(word, rule, noResolve) == <<[word |-> word, value |-> rule.payload, noResolve |-> noResolve]>>

Transport(rule, target, words) ==
    LET r == ResolveTransportRule(rule.type, rule.payload, target) IN
    IF r.level = "unsupported" \/ r.type \notin DOMAIN words THEN <<>> ELSE Written(words[r.type], rule, FALSE)
Worded(rule, words, noResolve) == IF rule.type \in DOMAIN words THEN Written(words[rule.type], rule, noResolve) ELSE <<>>

SingboxWords == [t \in {"DOMAIN", "DOMAIN-SUFFIX", "DOMAIN-KEYWORD", "DOMAIN-REGEX", "IP-CIDR", "IP-CIDR6", "SRC-IP-CIDR"} |->
    CASE t = "DOMAIN" -> "domain" [] t = "DOMAIN-SUFFIX" -> "domain_suffix" [] t = "DOMAIN-KEYWORD" -> "domain_keyword"
      [] t = "DOMAIN-REGEX" -> "domain_regex" [] t = "SRC-IP-CIDR" -> "source_ip_cidr" [] OTHER -> "ip_cidr"]
(* ruleToSingboxSource *)
ToSingbox(rule) ==
    LET range == rule.payload = "80-90"
        ports == [t \in {"DST-PORT", "SRC-PORT"} |->
                    IF t = "DST-PORT" THEN (IF range THEN "port_range" ELSE "port")
                    ELSE IF range THEN "source_port_range" ELSE "source_port"]
    IN CASE rule.type \in TransportTypes -> Transport(rule, "singbox", [t \in TransportTypes |-> IF t = "NETWORK" THEN "network" ELSE "protocol"])
         [] rule.noResolve /\ rule.type \notin IpTypes -> <<>>
         [] rule.type \in DOMAIN ports -> Worded(rule, ports, FALSE)
         [] OTHER -> Worded(rule, SingboxWords, FALSE)

(* convertToEgernSource: no_resolve would hold for the whole set, so a rule *)
(* that has it is left out.                                                *)
EgernWords == [t \in {EgernType[k] : k \in DOMAIN EgernType} \cup {"DOMAIN-KEYWORD", "DOMAIN-REGEX"} |->
    CASE t = "DOMAIN-KEYWORD" -> "domain_keyword_set" [] t = "DOMAIN-REGEX" -> "domain_regex_set"
      [] OTHER -> CHOOSE k \in DOMAIN EgernType : EgernType[k] = t]
ToEgern(rule) ==
    IF rule.noResolve THEN <<>>
    ELSE IF rule.type \in TransportTypes THEN Transport(rule, "egern", [t \in {"PROTOCOL"} |-> "protocol_set"])
    ELSE Worded(rule, EgernWords, FALSE)

(* ruleToTextClient *)
Portable == {"DOMAIN", "DOMAIN-SUFFIX", "DOMAIN-KEYWORD", "IP-CIDR", "IP-CIDR6"}
QuantumultWords == [t \in Portable |->
    CASE t = "DOMAIN" -> "HOST" [] t = "DOMAIN-SUFFIX" -> "HOST-SUFFIX" [] t = "DOMAIN-KEYWORD" -> "HOST-KEYWORD"
      [] t = "IP-CIDR6" -> "IP6-CIDR" [] OTHER -> t]
TextWords(target) ==
    IF target = "quantumultx" THEN QuantumultWords
    ELSE [t \in Portable \cup {"DST-PORT"} \cup (IF target \in {"surge", "loon"} THEN {"SRC-PORT"} ELSE {}) |->
            IF t = "DST-PORT" /\ target \in {"surge", "loon"} THEN "DEST-PORT" ELSE t]
ToText(rule, target) ==
    IF rule.type \in TransportTypes THEN Transport(rule, target, [t \in TransportTypes |-> t])
    ELSE Worded(rule, TextWords(target), rule.noResolve /\ target # "quantumultx")

(* ruleToMihomoPayload: a provider says in its behavior what it holds, so  *)
(* the words are those of the source's behavior.                           *)
ToMihomo(rule, behavior) ==
    CASE behavior = "domain" -> Worded(rule, [t \in {"DOMAIN", "DOMAIN-SUFFIX"} |-> IF t = "DOMAIN" THEN "" ELSE "+."], FALSE)
      [] behavior = "ipcidr" -> IF rule.noResolve THEN <<>> ELSE Worded(rule, [t \in IpTypes |-> ""], FALSE)
      [] behavior = "classical" /\ rule.type \in TransportTypes -> Transport(rule, "mihomo", [t \in TransportTypes |-> t])
      [] OTHER -> Worded(rule, [t \in Portable \cup {"DOMAIN-REGEX", "SRC-IP-CIDR", "DST-PORT", "SRC-PORT"} |-> t], rule.noResolve)

WrittenFor(rule, source, target) ==
    CASE target = "singbox" -> ToSingbox(rule)
      [] target = "egern" -> ToEgern(rule)
      [] target = "mihomo" -> ToMihomo(rule, source.behavior)
      [] OTHER -> ToText(rule, target)

(* Counted though it is written: Quantumult X has no no-resolve.           *)
WeakenedSlipNone(rule, target) == FALSE
Weakened(rule, target) == target = "quantumultx" /\ rule.noResolve

Converted(source, target) ==
    LET parsed == ParseRuleSetContent(source)
        outcome == FoldLeft(LAMBDA out, rule :
                              LET text == WrittenFor(rule, source, target) IN
                              [content |-> out.content \o text,
                               skipped |-> out.skipped + (IF text = <<>> \/ Weakened(rule, target) THEN 1 ELSE 0)],
                            [content |-> <<>>, skipped |-> parsed.skipped], parsed.rules)
    IN [outcome EXCEPT !.skipped = IF outcome.content = <<>> THEN 0 ELSE @]

-----------------------------------------------------------------------------
(* Rule sets of one element, alone or after one that every target takes.   *)
Words == {"", "+.", "HOST", "HOST-SUFFIX", "DOMAIN-KEYWORD", "DOMAIN-REGEX", "IP-CIDR", "IP6-CIDR", "PORT", "SRC-PORT",
          "NETWORK", "PROTOCOL", "SCRIPT"}
Payloads == [w \in Words |->
    CASE w \in {"", "+."} -> {"x", "v4", "v6", "junk"} [] w = "IP-CIDR" -> {"v4", "junk"} [] w = "IP6-CIDR" -> {"v6", "junk"}
      [] w \in {"PORT", "SRC-PORT"} -> {"80", "80-90", "junk"} [] w = "NETWORK" -> {"tcp", "icmp", "junk"}
      [] w = "PROTOCOL" -> {"tcp", "http", "tls"} [] OTHER -> {"x", "junk"}]
Line(word, payload, options) == [word |-> word, payload |-> payload, options |-> options]
TextLines == UNION {{Line(w, p, o) : p \in Payloads[w], o \in {{}, {"no-resolve"}, {"src"}, {"src", "no-resolve"}, {"unknown"}}} : w \in Words}
FirstLine(behavior) == Line(CASE behavior = "classical" -> "HOST-SUFFIX" [] OTHER -> "", IF behavior = "ipcidr" THEN "v4" ELSE "x", {})

FieldLists == [f \in Fields |->
    CASE f = "ip_cidr" -> {<<"v4", "v6">>, <<"v4", "junk">>} [] f = "source_ip_cidr" -> {<<"v4">>}
      [] f \in {"port", "source_port"} -> {<<"80">>, <<"80-90">>} [] f \in {"port_range", "source_port_range"} -> {<<"80-90">>}
      [] f = "network" -> {<<"tcp", "icmp">>} [] f = "protocol" -> {<<"tls">>, <<"http">>} [] OTHER -> {<<"x">>, <<>>}]
Items == UNION {{[fields |-> f, single |-> s, other |-> o] :
                    f \in {g \in [fs -> UNION {FieldLists[x] : x \in fs}] : \A x \in fs : g[x] \in FieldLists[x]},
                    s \in SUBSET {x \in fs : \A l \in FieldLists[x] : Len(l) = 1}, o \in {0, 1}} : fs \in {{x, y} : x \in Fields, y \in Fields}}
NoItem == [fields |-> [f \in {} |-> <<>>], single |-> {}, other |-> 0]

EgernLists == [k \in DOMAIN EgernType |->
    CASE k = "ip_cidr_set" -> {<<"v4", "junk">>} [] k = "ip_cidr6_set" -> {<<"v6">>} [] k = "dest_port_set" -> {<<"80", "80-90">>}
      [] k = "protocol_set" -> {<<"tcp", "tls">>} [] OTHER -> {<<"x">>}]
Docs == UNION {{[sets |-> [k \in ks |-> CHOOSE l \in EgernLists[k] : TRUE], noResolve |-> n, other |-> o] :
                    n \in BOOLEAN, o \in 0..2} : ks \in {{j, k} : j \in DOMAIN EgernType, k \in DOMAIN EgernType}}
NoDoc == [sets |-> [k \in {} |-> <<>>], noResolve |-> FALSE, other |-> 0]

SetSource(declared, is, behavior, lines, items, doc) ==
    [declared |-> declared, is |-> is, behavior |-> behavior, lines |-> lines, items |-> items, doc |-> doc]
TextSources(formats, behavior, entries) ==
    {SetSource(d[1], d[2], behavior, l, <<>>, NoDoc) : d \in formats,
        l \in {<<e>> : e \in entries} \cup {<<FirstLine(behavior), e>> : e \in entries}}
SetSources ==
    TextSources({<<"clash", "text">>, <<"text", "text">>, <<"mrs", "text">>}, "classical", TextLines)
    \cup UNION {TextSources({<<"clash", "text">>, <<"mrs", "mrs">>}, b, {t \in TextLines : t.options = {}}) :
                   b \in {"domain", "ipcidr"}}
    \cup {SetSource(d[1], d[2], d[3], <<>>, <<i>>, NoDoc) : i \in Items,
            d \in {<<"singbox", "singbox", "classical">>, <<"text", "singbox", "classical">>, <<"mihomo", "srs", "domain">>}}
    \cup {SetSource(d, "egern", "classical", <<>>, <<>>, doc) : d \in {"egern", "text"}, doc \in Docs}

NoResult == [content |-> <<>>, skipped |-> -1]

ConversionInit == \E source \in SetSources, target \in ConvertTargets : conversion = [source |-> source, target |-> target, result |-> NoResult]

ConvertRuleSetContent ==
    /\ conversion.result = NoResult
    /\ conversion' = [conversion EXCEPT !.result = Converted(conversion.source, conversion.target)]

ConversionNext == ConvertRuleSetContent

-----------------------------------------------------------------------------
(* What a word of any dialect says of a connection.                        *)
Says(word, value) ==
    CASE word \in {"", "HOST", "DOMAIN", "domain", "domain_set"} -> IF value \in {"v4", "v6"} THEN "address" ELSE "host"
      [] word \in {"+.", "HOST-SUFFIX", "DOMAIN-SUFFIX", "domain_suffix", "domain_suffix_set"} -> "suffix"
      [] word \in {"HOST-KEYWORD", "DOMAIN-KEYWORD", "domain_keyword", "domain_keyword_set"} -> "keyword"
      [] word \in {"DOMAIN-REGEX", "domain_regex", "domain_regex_set"} -> "regex"
      [] word \in {"IP-CIDR", "IP-CIDR6", "IP6-CIDR", "ip_cidr", "ip_cidr_set", "ip_cidr6_set"} -> "address"
      [] word \in {"SRC-IP-CIDR", "source_ip_cidr"} -> "source address"
      [] word \in {"PORT", "DST-PORT", "DEST-PORT", "port", "port_range", "dest_port_set"} -> "port"
      [] word \in {"SRC-PORT", "source_port", "source_port_range"} -> "source port"
      [] word \in {"NETWORK", "PROTOCOL", "network", "protocol", "protocol_set"} -> "transport"
      [] OTHER -> "other"

Condition(says, value, noResolve, at) == [says |-> says, value |-> value, noResolve |-> noResolve, at |-> at]
Beyond(at) == Condition("?", "?", FALSE, at)

(* The conditions a source stands for, one of which is enough; Beyond for  *)
(* those no rule of the model can say.                                     *)
LineMeans(line, behavior, at) ==
    LET bare == line.word \in {"", "+."}
        odd == \/ "unknown" \in line.options \/ {"src", "no-resolve"} \subseteq line.options
               \/ (line.options # {} /\ Says(line.word, line.payload) # "address")
               \/ line.payload = "junk" \/ bare = (behavior = "classical")
               \/ (behavior = "domain" /\ line.payload # "x")
               \/ (behavior = "ipcidr" /\ (line.payload = "x" \/ line.word = "+."))
    IN IF odd THEN Beyond(at)
       ELSE Condition(IF "src" \in line.options THEN "source address" ELSE Says(line.word, line.payload), line.payload,
                      "no-resolve" \in line.options, at)

ItemMeans(item) ==
    LET named == {f \in Fields \cap DOMAIN item.fields : item.fields[f] # <<>>}
        together == item.other # 0 \/ Cardinality({family \in Families : family \cap named # {}}) # 1
    IN IF together THEN {Beyond(0)}
       ELSE UNION {{LET value == item.fields[f][i] IN
                    IF value = "junk" \/ (f \in {"port", "source_port"} /\ value # "80") THEN Beyond(i)
                    ELSE Condition(Says(f, value), value, FALSE, 0) : i \in DOMAIN item.fields[f]} : f \in named}

DocMeans(doc) ==
    {Beyond(i) : i \in 1..doc.other}
    \cup UNION {{IF doc.sets[k][i] = "junk" THEN Beyond(3) ELSE
                 Condition(Says(k, doc.sets[k][i]), doc.sets[k][i], doc.noResolve /\ Says(k, doc.sets[k][i]) = "address", 0) :
                    i \in DOMAIN doc.sets[k]} : k \in DOMAIN doc.sets}

Means(source) ==
    CASE source.is \in {"singbox", "srs"} -> ItemMeans(source.items[1])
      [] source.is = "egern" -> DocMeans(source.doc)
      [] OTHER -> {LineMeans(source.lines[i], source.behavior, i) : i \in DOMAIN source.lines}

ConversionTypes ==
    /\ conversion.target \in ConvertTargets /\ conversion.result.skipped \in -1..8
    /\ \A i \in DOMAIN conversion.result.content : conversion.result.content[i].value # "junk"

(* A converted rule set says nothing its source does not say, but that     *)
(* Quantumult X looks up addresses for want of no-resolve; and what it     *)
(* does not say just so is counted, condition by condition, so that the    *)
(* strict policy refuses exactly what is not complete.  Excepted is a rule *)
(* of sing-box that gives one field a single value and another a list: the *)
(* single value is dropped without a trace.                                *)
ConversionKeepsMeaning ==
    LET source == conversion.source
        target == conversion.target
        content == Range(conversion.result.content)
        overlooked == \E i \in DOMAIN source.items : source.items[i].single # {} /\ ListFields(source.items[i]) # {}
        same(w, m) == Says(w.word, w.value) = m.says /\ w.value = m.value
        just(w, m) == same(w, m) /\ (w.noResolve = m.noResolve \/ target = "singbox")
        lost == {m \in Means(source) : ~\E w \in content : just(w, m)}
    IN content # {} /\ ~overlooked =>
         /\ \A w \in content : \E m \in Means(source) : same(w, m) /\ (w.noResolve => m.noResolve)
         /\ Cardinality(lost) = conversion.result.skipped
=============================================================================

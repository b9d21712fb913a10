----------------------------- MODULE ShareLinks -----------------------------
(***************************************************************************)
(* Nodes as share links: generators/node-subscription.ts writes one for    *)
(* each node of an export, and the parsers of routes/sources.ts read them, *)
(* from a subscription, a pasted text or the form for one node.  Of the    *)
(* fields a connection has, those are kept that most protocols share.      *)
(*                                                                         *)
(* A text is plain, or odd: then it has characters beyond ASCII, and the   *)
(* number beside it says how often it was percent-encoded.                 *)
(***************************************************************************)
EXTENDS SourceContent

VARIABLE sharing  \* one node on its way: a row, the text made of it, a row again

shareVars == <<sharing>>

Lacking == <<"none", 0>>
Plainly == <<"plain", 0>>
Odd == <<"odd", 0>>
Encoded(t) == IF t[1] = "odd" THEN <<t[1], t[2] + 1>> ELSE t
Decoded(t) == IF t[2] > 0 THEN <<t[1], t[2] - 1>> ELSE t
OfUrl(t) == IF t = Odd THEN Encoded(t) ELSE t          \* url.username
OfLatin(t) == IF t = Odd THEN <<"garbled", 0>> ELSE t  \* atob without decoding UTF-8
MaxCodings == 3  \* bound: how often a text is percent-encoded

UrlRead == {"trojan", "vless", "hysteria2"}            \* read with new URL(...)
WithParams == UrlRead \cup {"hysteria", "tuic", "anytls", "shadowtls", "wireguard"}
Logins == {"socks5", "http", "https", "ssh"}
ImpliesTls == {"https", "hysteria", "hysteria2", "anytls", "shadowtls", "naive"}

(* "security" is "", "tls" or "reality"; "cipher" and "method" are the two *)
(* keys of extra under which a cipher is looked for.                       *)
BlankRow == [name |-> Plainly, protocol |-> "none", server |-> "host", port |-> 443, user |-> Lacking,
             secret |-> Lacking, security |-> "", sni |-> "", insecure |-> FALSE, network |-> "tcp",
             cipher |-> "", method |-> ""]

(* Rows as a Clash file, a sing-box file or a form brings them.            *)
Labels == {[name |-> Plainly, port |-> 443], [name |-> Odd, port |-> 1080]}
FormRows ==
    UNION {{[BlankRow EXCEPT !.protocol = p, !.server = server, !.name = l.name, !.port = l.port,
               !.user = IF p = "tuic" THEN Plainly ELSE Lacking,
               !.secret = IF p \in {"vless", "vmess"} THEN Plainly ELSE secret,
               !.security = security, !.sni = sni, !.insecure = insecure, !.network = network] :
              server \in {"host", "v6"}, l \in Labels, secret \in {Plainly, Odd},
              security \in {"", "tls", "reality"}, sni \in {"", "x"}, insecure \in BOOLEAN,
              network \in {"tcp", "ws"}} :
            p \in WithParams \cup {"vmess", "snell"}}
    \cup {[BlankRow EXCEPT !.protocol = p, !.server = server, !.name = l.name, !.port = l.port,
             !.user = user, !.secret = secret] :
           p \in Logins, server \in {"host", "v6"}, l \in Labels, user \in {Lacking, Odd},
           secret \in {Lacking, Plainly, Odd}}
    \cup {[BlankRow EXCEPT !.protocol = p, !.server = server, !.name = l.name, !.port = l.port,
             !.secret = secret, !.cipher = cipher, !.method = method] :
           p \in {"ss", "ssr"}, server \in {"host", "v6"}, l \in Labels, secret \in {Plainly, Odd},
           cipher \in {"", "chacha"}, method \in {"", "rc4"}}

(* A link; port 0 is none.  Links of other programs differ from those      *)
(* written here.                                                           *)
Link == [scheme |-> "none", name |-> Plainly, user |-> Lacking, secret |-> Lacking, server |-> "host", port |-> 0,
         security |-> "", sni |-> "", insecure |-> "", network |-> "", cipher |-> ""]
ForeignLinks ==
    {[Link EXCEPT !.scheme = scheme, !.secret = Plainly, !.user = IF scheme = "tuic" THEN Plainly ELSE Lacking,
        !.server = server, !.port = port, !.security = security, !.insecure = insecure, !.cipher = "rc4"] :
      scheme \in WithParams \cup {"hy2", "vmess", "ss", "ssr", "socks5", "https", "naive", "ftp"},
      server \in {"host", "[v6]"}, port \in {0, 1080}, security \in {"", "tls", "reality"},
      insecure \in {"", "allowInsecure", "insecure"}}

-----------------------------------------------------------------------------
(* nodeToSubscriptionUri: at most one link. *)
LinkFor(row) == [Link EXCEPT !.scheme = row.protocol, !.name = Encoded(row.name), !.server = row.server,
                             !.port = row.port]
Tls(row) == IF row.security # "" \/ row.protocol \in ImpliesTls THEN "tls" ELSE ""
OrElse(first, second) == IF first # "" THEN first ELSE second

ParamLink(row) ==
    [LinkFor(row) EXCEPT !.user = row.user,
       !.secret = IF row.protocol = "vless" THEN row.secret ELSE Encoded(row.secret),
       !.security = Tls(row), !.sni = row.sni, !.insecure = IF row.insecure THEN "allowInsecure" ELSE "",
       !.network = row.network]
LoginLink(row) ==
    [LinkFor(row) EXCEPT !.secret = Encoded(row.secret),
       !.user = IF row.protocol = "ssh" /\ row.user = Lacking THEN <<"root", 0>> ELSE Encoded(row.user)]

LinksOf(row) ==
    CASE row.protocol = "ss" ->
           <<[LinkFor(row) EXCEPT !.secret = row.secret, !.cipher = OrElse(row.cipher, "aes-256-gcm")]>>
      [] row.protocol = "ssr" ->
           <<[LinkFor(row) EXCEPT !.name = row.name, !.secret = row.secret,
                !.cipher = OrElse(row.cipher, OrElse(row.method, "aes-256-cfb"))]>>
      [] row.protocol = "vmess" ->
           <<[LinkFor(row) EXCEPT !.name = row.name, !.secret = row.secret, !.security = Tls(row), !.sni = row.sni,
                !.network = row.network, !.cipher = OrElse(row.cipher, "auto")]>>
      [] row.protocol \in WithParams -> <<ParamLink(row)>>
      [] row.protocol \in Logins -> <<LoginLink(row)>>
      [] OTHER -> <<>>

-----------------------------------------------------------------------------
(* The parsers; each finds at most one node.  ReadSsr has two outcomes for *)
(* one link, so the lists a parser may return are a set.                   *)
RowFor(link) == [BlankRow EXCEPT !.protocol = link.scheme, !.name = Decoded(link.name), !.server = link.server,
                                 !.port = link.port, !.secret = link.secret]

ReadVmess(link) ==
    IF link.port = 0 THEN <<>>
    ELSE <<[RowFor(link) EXCEPT !.name = OfLatin(link.name), !.sni = link.sni,
              !.network = OrElse(link.network, "tcp"),
              !.security = IF link.security = "tls" THEN "tls" ELSE ""]>>

ReadSs(link) ==
    IF link.port = 0 THEN <<>> ELSE <<[RowFor(link) EXCEPT !.secret = OfLatin(@), !.method = link.cipher]>>

(* parseSsrUri splits at every ':', so the groups of an IPv6 address stand *)
(* where the port and all after it should be: depending on the digits they *)
(* make no node, or one with another server, port, cipher and password.    *)
V6 == {"v6", "[v6]"}
Garbled == <<"garbled", 0>>
Shifted(link) == [RowFor(link) EXCEPT !.name = link.name, !.server = "garbled", !.port = 470,
                                      !.secret = Garbled, !.method = "garbled"]
ReadSsr(link) ==
    CASE link.server \in V6 -> {<<>>, <<Shifted(link)>>}
      [] link.server \notin V6 /\ (link.port = 0 \/ link.secret = Lacking) -> {<<>>}
      [] OTHER -> {<<[RowFor(link) EXCEPT !.name = link.name, !.method = link.cipher]>>}

(* An IPv6 address without brackets is no URL, and what throws is skipped. *)
ReadUrl(link, protocol) ==
    IF link.server = "v6" THEN <<>>
    ELSE LET row == [RowFor(link) EXCEPT !.protocol = protocol, !.port = IF @ = 0 THEN 443 ELSE @,
                       !.secret = OfUrl(@), !.sni = link.sni]
         IN  IF protocol = "vless"
             THEN <<[row EXCEPT !.security = link.security, !.network = OrElse(link.network, "tcp"),
                       !.insecure = (link.insecure = "allowInsecure")]>>
             ELSE <<[row EXCEPT !.security = "tls",
                       !.insecure = (link.insecure = IF protocol = "trojan" THEN "allowInsecure" ELSE "insecure")]>>

(* parseGenericUrlUri with the ports a protocol has by default. *)
DefaultPort == [protocol \in (WithParams \ UrlRead) \cup Logins \cup {"naive"} |->
    CASE protocol = "http" -> 80 [] protocol = "socks5" -> 1080 [] protocol = "ssh" -> 22
      [] protocol = "wireguard" -> 51820 [] OTHER -> 443]
ReadGeneric(link) ==
    <<[RowFor(link) EXCEPT !.port = IF @ = 0 THEN DefaultPort[link.scheme] ELSE @,
         !.server = IF @ = "[v6]" THEN "v6" ELSE @, !.user = Decoded(link.user), !.secret = Decoded(@),
         !.sni = link.sni, !.network = OrElse(link.network, "tcp"), !.insecure = (link.insecure # ""),
         !.security = IF link.security # "" \/ link.scheme \in ImpliesTls THEN OrElse(link.security, "tls") ELSE ""]>>

(* parseRawLines, for one line. *)
ReadShareLink(link) ==
    CASE link.scheme = "vmess" -> {ReadVmess(link)}
      [] link.scheme = "ss" -> {ReadSs(link)}
      [] link.scheme = "ssr" -> ReadSsr(link)
      [] link.scheme \in {"trojan", "vless"} -> {ReadUrl(link, link.scheme)}
      [] link.scheme \in {"hysteria2", "hy2"} -> {ReadUrl(link, "hysteria2")}
      [] link.scheme \in DOMAIN DefaultPort -> {ReadGeneric(link)}
      [] OTHER -> {<<>>}

-----------------------------------------------------------------------------
NoNode == [BlankRow EXCEPT !.protocol = "absent"]
Sharing(at, row, link, shape, before) ==
    [at |-> at, row |-> row, link |-> link, shape |-> shape, before |-> before]

ShareInit ==
    \/ \E row \in FormRows : sharing = Sharing("row", row, Link, "links", NoNode)
    \/ \E link \in ForeignLinks : sharing = Sharing("text", NoNode, link, "links", NoNode)

(* An export of nodes, plain or in base64, ... *)
ExportLink ==
    /\ sharing.at = "row" /\ sharing.row.secret[2] < MaxCodings
    /\ LET links == LinksOf(sharing.row) IN
       IF links = <<>> THEN sharing' = [sharing EXCEPT !.at = "unwritable"]
       ELSE \E shape \in {"links", "base64"} :
              sharing' = Sharing("text", NoNode, links[1], shape, sharing.row)

(* ... which some source reads, whether it was given the format or not. *)
ImportLink ==
    /\ sharing.at = "text"
    /\ \E format \in {"auto", IF sharing.shape = "links" THEN "raw" ELSE "base64"},
          nodes \in ReadShareLink(sharing.link) :
         LET text == [shape |-> sharing.shape, nodes |-> nodes, groups |-> <<>>]
             read == Parse(text, format).nodes
         IN  sharing' = IF read = <<>> THEN [sharing EXCEPT !.at = "skipped"]
                        ELSE Sharing("row", read[1], Link, "links", sharing.before)

ShareNext == ExportLink \/ ImportLink

-----------------------------------------------------------------------------
ShareTypes ==
    /\ sharing.at \in {"row", "text", "unwritable", "skipped"} /\ sharing.shape \in {"links", "base64"}
    /\ sharing.row.secret[2] \in 0..MaxCodings /\ sharing.link.secret[2] \in 0..MaxCodings

(* The connection a row makes; without a user, ssh logs in as root.        *)
CipherOf(row) == OrElse(row.cipher, row.method)
UserOf(row) == IF row.protocol = "ssh" /\ row.user = Lacking THEN <<"root", 0>> ELSE row.user
SecurityOf(row) == IF row.protocol \in ImpliesTls THEN OrElse(row.security, "tls") ELSE row.security
SameConnection(x, y) ==
    /\ <<x.protocol, x.server, x.port, UserOf(x)>> = <<y.protocol, y.server, y.port, UserOf(y)>>
    /\ x.secret # y.secret => x.protocol \in {"trojan", "hysteria2", "ss"} /\ x.secret[1] = "odd"
    /\ x.name # y.name => x.protocol = "vmess"
    /\ SecurityOf(x) # SecurityOf(y) =>
         \/ SecurityOf(y) = "tls" /\ (SecurityOf(x) = "reality" \/ x.protocol = "trojan")
         \/ SecurityOf(y) = "" /\ x.protocol \in Logins
    /\ y.insecure => x.insecure
    /\ x.protocol \in WithParams => x.sni = y.sni
    /\ x.protocol \in WithParams \ {"trojan", "hysteria2"} => x.network = y.network /\ x.insecure = y.insecure
    /\ x.protocol = "vmess" => x.sni = y.sni /\ x.network = y.network
    /\ CipherOf(y) # CipherOf(x) => CipherOf(x) = "" \/ (x.protocol = "ss" /\ x.cipher = "")

(* A node exported as a link and read back, over and over, makes the same  *)
(* connection under the same name: no parser and no writer encodes what    *)
(* the other does not decode, and a certificate that was checked is still  *)
(* checked.  What is lost: REALITY, which is written as plain TLS, with    *)
(* its flow and short id; that a trojan node has no TLS, and that a socks5 *)
(* or ssh node has it, whose links have no parameters; trojan and          *)
(* hysteria2 passwords beyond ASCII stay encoded, and their transport is   *)
(* not read; vmess names and ss passwords beyond ASCII are garbled; the    *)
(* cipher of an ss node that came as a link; an exception from the check   *)
(* of certificates in hysteria2; a bare IPv6 address, which makes no URL   *)
(* for trojan, vless and hysteria2 and for ssr no node or another.         *)
LostAddress(row) ==
    \/ row.protocol \in UrlRead /\ row.server = "v6"
    \/ row.protocol = "ssr" /\ row.server \in V6

=============================================================================

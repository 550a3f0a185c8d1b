----------------------------- MODULE SourceUrls -----------------------------
(***************************************************************************)
(* Which addresses this server may ask, and which article a link names     *)
(* (sourceUrl.ts, urlIdentity.ts, resolvesPublicly of feedFetcher.ts).     *)
(*                                                                         *)
(* A URL is a record [scheme, credentials, port, host, path, tracked].  A  *)
(* host is a record: a name, [form |-> "v4", quad |-> <<a, b, c, d>>], or  *)
(* an IPv6 literal, which may itself write an IPv4 address, dotted         *)
(* ("mapped") or as two 16-bit groups ("groups").                          *)
(***************************************************************************)
EXTENDS Integers

NoUrl == [scheme |-> "none"]
NoId  == "no id"

Named(class) == [form |-> "name", class |-> class]   \* class: what the name says of itself
V4(quad) == [form |-> "v4", quad |-> quad]
Mapped(quad) == [form |-> "mapped", quad |-> quad]
Groups(high, low) == [form |-> "groups", high |-> high, low |-> low]
V6(class) == [form |-> "v6", class |-> class]        \* "self", "link", "unique" or "global"

(* A host as the platform writes it down.                                   *)
Bytes == 0..255
IsQuad(quad) == DOMAIN quad = 1..4 /\ \A i \in 1..4 : quad[i] \in Bytes
IsHost(host) ==
    \/ host.form = "name" /\ host.class \in {"public", "internal", "bare", "loopback", "metadata"}
    \/ host.form = "v6" /\ host.class \in {"self", "link", "unique", "global"}
    \/ host.form \in {"v4", "mapped"} /\ IsQuad(host.quad)
    \/ host.form = "groups" /\ {host.high, host.low} \subseteq Nat /\ host.high < 65536 /\ host.low < 65536

isPrivateIpv4(quad) ==
    LET a == quad[1]  b == quad[2] IN
    \/ a \in {0, 10, 127}
    \/ a = 169 /\ b = 254
    \/ a = 172 /\ b \in 16..31
    \/ a = 192 /\ b \in {0, 168}
    \/ a = 100 /\ b \in 64..127
    \/ a >= 224

(* The IPv4 address an IPv4-mapped literal writes. *)
QuadOf(host) ==
    IF host.form = "groups"
    THEN <<host.high \div 256, host.high % 256, host.low \div 256, host.low % 256>>
    ELSE host.quad

isPrivateIpv6(host) ==
    \/ host.form = "v6" /\ host.class # "global"
    \/ host.form \in {"mapped", "groups"} /\ isPrivateIpv4(QuadOf(host))

IsLoopback(host) == host.form = "name" /\ host.class = "loopback"
IsMetadata(host) == host.form = "name" /\ host.class = "metadata"
isInternalHostname(host) == host.form = "name" /\ host.class \in {"internal", "bare"}
IsPrivateLiteral(host) == isPrivateIpv6(host) \/ (host.form = "v4" /\ isPrivateIpv4(host.quad))

(* A URL typed by staff, listed by a feed or given by a redirect.           *)
validateSourceUrl(url) ==
    /\ url.scheme \in {"http", "https"}
    /\ ~url.credentials
    /\ url.port \in {"", "80", "443"}
    /\ ~IsMetadata(url.host) /\ ~IsLoopback(url.host)
    /\ ~IsPrivateLiteral(url.host) /\ ~isInternalHostname(url.host)

isPermittedAddress(host) == ~IsLoopback(host) /\ ~IsMetadata(host) /\ ~IsPrivateLiteral(host)

(* A literal judges itself; a name needs an answer, all of it public.       *)
resolvesPublicly(host, addresses) ==
    IF host.form # "name" THEN isPermittedAddress(host)
    ELSE addresses # {} /\ \A a \in addresses : isPermittedAddress(a)

(***************************************************************************)
(* The article a link names: scheme, usual ports and tracking dropped.     *)
(***************************************************************************)
normalizeArticleUrl(url) ==
    IF url.scheme \notin {"http", "https"} THEN NoUrl
    ELSE [host |-> url.host, path |-> url.path,
          port |-> IF url.port \in {"80", "443"} THEN "" ELSE url.port]
articleIdentity(item) == [ext |-> item.ext, norm |-> normalizeArticleUrl(item.link)]
isIdentifiable(identity) == identity.ext # NoId \/ identity.norm # NoUrl
=============================================================================

----------------------------- MODULE Addresses -----------------------------
(***************************************************************************)
(* Addresses and the checks of what the API asks for                       *)
(* (src/src/util/private_ip.rs, src/src/util/validate.rs), with the one    *)
(* reader of addresses that masks instead of refusing                      *)
(* (src/src/probe/dns_servers.rs).                                         *)
(*                                                                         *)
(* An address is a record: its version and its segments, four octets or    *)
(* eight 16-bit groups.  A target is a record of what the checks look at:  *)
(* the address it parses to, or the classes of the characters of a name.   *)
(***************************************************************************)
EXTENDS Integers, Sequences

CONSTANT LocalIps   \* get_local_ips(): the address of the default route

\* The socket that tells it is bound to an IPv4 address.
ASSUME LocalIpsAssumption == \A ip \in LocalIps : ip.v = 4

IPv4(a, b, c, d) == [v |-> 4, seg |-> <<a, b, c, d>>]
IPv6(s) == [v |-> 6, seg |-> s]

\* All addresses there are.
Octets == [1..4 -> 0..255]
Groups == [1..8 -> 0..65535]
Address == [v : {4}, seg : Octets] \cup [v : {6}, seg : Groups]

\* The option of an address: what does not parse has none.
NoIp == [v |-> 0, seg |-> <<>>]

\* A range a.b.c.d/bits; the tail of an IPv6 prefix is zero.
Net4(a, b, c, bits) == [v |-> 4, seg |-> <<a, b, c, 0>>, bits |-> bits]
Net6(a, b, c, bits) == [v |-> 6, seg |-> <<a, b, c, 0, 0, 0, 0, 0>>, bits |-> bits]

PRIVATE_RANGES == {
  Net4(0, 0, 0, 8), Net4(10, 0, 0, 8), Net4(100, 64, 0, 10), Net4(127, 0, 0, 8),
  Net4(169, 254, 0, 16), Net4(172, 16, 0, 12), Net4(192, 0, 0, 24), Net4(192, 0, 2, 24),
  Net4(192, 88, 99, 24), Net4(192, 168, 0, 16), Net4(198, 18, 0, 15), Net4(198, 51, 100, 24),
  Net4(203, 0, 113, 24), Net4(224, 0, 0, 4), Net4(240, 0, 0, 4),
  [v |-> 4, seg |-> <<255, 255, 255, 255>>, bits |-> 32],
  Net6(0, 0, 0, 128), [Net6(0, 0, 0, 128) EXCEPT !.seg[8] = 1],
  Net6(100, 65435, 1, 48), Net6(256, 0, 0, 64), Net6(8193, 0, 0, 32), Net6(8193, 16, 0, 28),
  Net6(8193, 32, 0, 28), Net6(8193, 3512, 0, 32), Net6(8194, 0, 0, 16), Net6(64512, 0, 0, 7),
  Net6(65152, 0, 0, 10), Net6(65280, 0, 0, 8) }

\* How many low bits of segment i, of so many each, a prefix leaves free.
FreeBits(width, bits, i) ==
  LET rest == i * width - bits
  IN  IF rest <= 0 THEN 0 ELSE IF rest > width THEN width ELSE rest

\* Two segments are the same but for so many low bits.
Agree(a, b, free) == a \div 2^free = b \div 2^free

\* IpNet::contains: the first bits of the address are those of the range.
InNet(net, ip) ==
  LET width == IF net.v = 4 THEN 8 ELSE 16
  IN  /\ net.v = ip.v
      /\ \A i \in DOMAIN ip.seg : Agree(ip.seg[i], net.seg[i], FreeBits(width, net.bits, i))

IPv4In(ip) == IPv4(ip.seg[7] \div 256, ip.seg[7] % 256, ip.seg[8] \div 256, ip.seg[8] % 256)

\* Mutant of canonicalize: without the NAT64 prefix.
CanonicalizeMapped(ip) ==
  IF ip.v = 6 /\ SubSeq(ip.seg, 1, 6) = <<0, 0, 0, 0, 0, 65535>> THEN IPv4In(ip) ELSE ip

\* IPv4-mapped addresses and those behind the NAT64 prefix 64:ff9b::/96 stand
\* for the IPv4 address in their last two groups.
canonicalize(ip) ==
  IF /\ ip.v = 6
     /\ SubSeq(ip.seg, 1, 6) \in {<<0, 0, 0, 0, 0, 65535>>, <<100, 65435, 0, 0, 0, 0>>}
  THEN IPv4In(ip)
  ELSE ip

\* What does not parse is in no range.
is_ip_private(ip) ==
  LET c == canonicalize(ip)
  IN  c \in LocalIps \/ \E net \in PRIVATE_RANGES : InNet(net, c)

\* The check the commands make of a text that may parse to an address.
IsPrivateLiteral(t) == is_ip_private(t.ip)

----------------------------------------------------------------------------
(* Targets: [ip, first, chars, length], the class of the first character    *)
(* of the text, the classes of all of them, and whether the length is right.*)

Target(ip, first, chars, length) ==
  [ip |-> ip, first |-> first, chars |-> chars \cup {first}, length |-> length]

LiteralTarget(ip) == Target(ip, "alnum", {"."}, "fits")
NameTarget == Target(NoIp, "alnum", {".", "-"}, "fits")
NoTarget == Target(NoIp, "none", {}, "empty")

is_safe_host(t) ==
  /\ t.length = "fits"          \* neither empty nor longer than 253 bytes
  /\ \/ t.ip # NoIp
     \/ /\ t.first \notin {"-", "."}
        /\ t.chars \subseteq {"alnum", ".", "-", "_"}

is_safe_url_component(chars) == chars \cap {"control", "space"} = {}

----------------------------------------------------------------------------
(* A line of /etc/resolv.conf: [nameserver, ip], ip being NoIp for a name.  *)

parse_resolv_conf(lines) ==
  LET told(l) == IF is_ip_private(l.ip) THEN "private" ELSE l.text
      servers[n \in 0..Len(lines)] ==
        IF n = 0 THEN <<>>
        ELSE IF lines[n].nameserver /\ lines[n].text # ""
             THEN Append(servers[n - 1], told(lines[n])) ELSE servers[n - 1]
  IN  servers[Len(lines)]
============================================================================

------------------------------ MODULE IPRuleFunc ------------------------------
(***************************************************************************)
(* The IP predicates of src/innerbean/rule_func.go (IPInRange, IPInCIDR,   *)
(* IPInRanges, IPEquals) as operators, over the parts of net.ParseIP, net.ParseCIDR  *)
(* and IPNet.Contains they rely on.                                        *)
(*                                                                         *)
(* An address text is a record: its family as written ("v4" dotted quad,   *)
(* "v6" colon form, "bad" unparsable) and its bytes (4 for v4, 16 for v6). *)
(* A v4 address written in v6 form (::ffff:a.b.c.d) is a "v6" text whose   *)
(* bytes are the IPv4-mapped ones.  A CIDR text is an address text and a   *)
(* prefix length.                                                          *)
(***************************************************************************)
EXTENDS Integers, Sequences, Bitwise

CONSTANTS
    Texts,      \* address texts a rule passes (records [fam, b])
    CIDRs,      \* CIDR texts (records [addr, ones])
    Nil

VARIABLE ip    \* the address of the fact being evaluated

V4MappedPrefix == <<0, 0, 0, 0, 0, 0, 0, 0, 0, 0, 255, 255>>

\* net.ParseIP: a 16-byte IP (v4 texts in IPv4-mapped form), or nil.
ParseIP(t) ==
    CASE t.fam = "v4" -> V4MappedPrefix \o t.b
      [] t.fam = "v6" -> t.b
      [] OTHER        -> Nil

\* IP.To4: the last four bytes of an IPv4-mapped address, else nil.
To4(a) ==
    IF Len(a) = 4 THEN a
    ELSE IF SubSeq(a, 1, 12) = V4MappedPrefix THEN SubSeq(a, 13, 16) ELSE Nil

\* bytes.Compare: -1, 0 or 1 by lexicographic order.
RECURSIVE Compare(_, _)
Compare(a, b) ==
    CASE a = <<>> /\ b = <<>> -> 0
      [] a = <<>>             -> -1
      [] b = <<>>             -> 1
      [] Head(a) < Head(b)    -> -1
      [] Head(a) > Head(b)    -> 1
      [] OTHER                -> Compare(Tail(a), Tail(b))

\* The bug of reading the inclusive bounds as exclusive.
IPInRangeExclusive(ip_, s_, e_) ==
    LET p == ParseIP(ip_)
        s == ParseIP(s_)
        e == ParseIP(e_)
    IN IF p = Nil \/ s = Nil \/ e = Nil THEN FALSE
       ELSE Compare(p, s) > 0 /\ Compare(p, e) < 0

\* IPInRange: parse all three, To16, inclusive bytes.Compare.
IPInRange(ip_, s_, e_) ==
    LET p == ParseIP(ip_)
        s == ParseIP(s_)
        e == ParseIP(e_)
    IN IF p = Nil \/ s = Nil \/ e = Nil THEN FALSE
       ELSE Compare(p, s) >= 0 /\ Compare(p, e) <= 0

\* net.CIDRMask(ones, bits) as bytes.
MaskByte(ones, i) ==
    LET k == IF ones <= 8 * (i - 1) THEN 0
             ELSE IF ones >= 8 * i THEN 8 ELSE ones - 8 * (i - 1)
    IN 256 - 2 ^ (8 - k)
CIDRMask(ones, bits) == [i \in 1..(bits \div 8) |-> MaskByte(ones, i)]

ApplyMask(a, m) == [i \in 1..Len(a) |-> a[i] & m[i]]

\* net.ParseCIDR: the network (masked IP, 4 bytes for a v4 text, else 16)
\* and the mask, or Nil when the address or the prefix length is invalid.
ParseCIDR(c) ==
    LET bits == IF c.addr.fam = "v4" THEN 32 ELSE 128 IN
    IF c.addr.fam = "bad" \/ c.ones > bits THEN Nil
    ELSE [netIP |-> ApplyMask(c.addr.b, CIDRMask(c.ones, bits)),
          mask |-> CIDRMask(c.ones, bits)]

\* IPNet.Contains: network and address are compared in 4-byte form when
\* both have one (networkNumberAndMask, ip.To4), else fail on a length
\* mismatch.
Contains(n, addr) ==
    LET nn == IF To4(n.netIP) # Nil THEN To4(n.netIP) ELSE n.netIP
        m  == IF Len(nn) = 4 /\ Len(n.mask) = 16 THEN SubSeq(n.mask, 13, 16) ELSE n.mask
        x  == IF To4(addr) # Nil THEN To4(addr) ELSE addr
    IN /\ Len(x) = Len(nn) /\ Len(m) = Len(nn)
       /\ \A i \in 1..Len(nn) : (nn[i] & m[i]) = (x[i] & m[i])

\* The bug of using the address ParseCIDR returns instead of its network.
IPInCIDRHostOnly(ip_, c_) ==
    ParseIP(ip_) # Nil /\ ParseCIDR(c_) # Nil /\ ParseIP(c_.addr) = ParseIP(ip_)

\* The bug of normalising to 16 bytes, as IPInRange does, before comparing.
IPInCIDRTo16(ip_, c_) ==
    LET p == ParseIP(ip_)
        n == ParseCIDR(c_)
        net == IF Len(n.netIP) = 4 THEN V4MappedPrefix \o n.netIP ELSE n.netIP
        m == IF Len(n.mask) = 4 THEN [i \in 1..12 |-> 255] \o n.mask ELSE n.mask
    IN p # Nil /\ n # Nil /\ \A i \in 1..16 : (p[i] & m[i]) = (net[i] & m[i])

\* IPInCIDR
IPInCIDR(ip_, c_) ==
    LET p == ParseIP(ip_)
        n == ParseCIDR(c_)
    IN p # Nil /\ n # Nil /\ Contains(n, p)

(***************************************************************************)
(* IPInRanges reads spec texts.  A spec text is a sequence of tokens: an   *)
(* address text [k |-> "addr", a |-> t], the characters "/", "-" and " ",  *)
(* and a prefix length [k |-> "num", n |-> ones].                          *)
(***************************************************************************)
Tok(c) == [k |-> c]
HasTok(r, c) == \E i \in DOMAIN r : r[i].k = c

\* strings.TrimSpace: leading and trailing blanks removed.
RECURSIVE TrimSpace(_)
TrimSpace(r) ==
    IF r # <<>> /\ Head(r).k = " " THEN TrimSpace(Tail(r))
    ELSE IF r # <<>> /\ r[Len(r)].k = " " THEN TrimSpace(SubSeq(r, 1, Len(r) - 1))
    ELSE r

\* strings.Split(r, "-"): the pieces between the dashes.
RECURSIVE SplitDash(_)
SplitDash(r) ==
    IF ~HasTok(r, "-") THEN <<r>>
    ELSE LET i == CHOOSE i \in DOMAIN r :
                      r[i].k = "-" /\ \A j \in 1..(i - 1) : r[j].k # "-"
         IN <<SubSeq(r, 1, i - 1)>> \o SplitDash(SubSeq(r, i + 1, Len(r)))

\* net.ParseIP of a piece: only a lone address text parses.
TextAddr(r) ==
    IF Len(r) = 1 /\ r[1].k = "addr" THEN r[1].a ELSE [fam |-> "bad", b |-> <<>>]

\* net.ParseCIDR of a whole spec text: address, "/", digits, nothing else
\* (no blank is trimmed here).
CIDROfText(r) ==
    IF Len(r) = 3 /\ r[1].k = "addr" /\ r[2].k = "/" /\ r[3].k = "num"
    THEN [addr |-> r[1].a, ones |-> r[3].n]
    ELSE [addr |-> [fam |-> "bad", b |-> <<>>], ones |-> 0]

\* One spec of the loop: CIDR if it contains "/", else a range if it
\* contains "-" and splits into exactly two pieces (each trimmed), else an
\* exact comparison of the fact's text with the trimmed spec.
SpecMatches(ip_, r) ==
    IF HasTok(r, "/") THEN IPInCIDR(ip_, CIDROfText(r))
    ELSE IF HasTok(r, "-")
         THEN LET parts == SplitDash(r) IN
              /\ Len(parts) = 2
              /\ IPInRange(ip_, TextAddr(TrimSpace(parts[1])),
                                TextAddr(TrimSpace(parts[2])))
         ELSE TrimSpace(r) = <<[k |-> "addr", a |-> ip_]>>

\* IPInRanges: true at the first spec that matches, false after the loop.
RECURSIVE IPInRanges(_, _)
IPInRanges(ip_, ranges) ==
    IF ranges = <<>> THEN FALSE
    ELSE SpecMatches(ip_, Head(ranges)) \/ IPInRanges(ip_, Tail(ranges))

\* IPEquals: IP.Equal on the parsed addresses (equal in 16-byte form);
\* when either text does not parse, the texts are compared instead.
IPEquals(ip1, ip2) ==
    LET p == ParseIP(ip1)
        q == ParseIP(ip2)
    IN IF p = Nil \/ q = Nil THEN ip1 = ip2 ELSE p = q

(***************************************************************************)
(* A rule calls the predicates with the fact's address and arguments from *)
(* the rule text; each step evaluates the rules on a new fact.            *)
(***************************************************************************)
Init == ip \in Texts

Evaluate(t) == ip' = t

Spec == Init /\ [][\E t \in Texts : Evaluate(t)]_ip

(***************************************************************************)
(* Reference definitions: an IPv4 address as a number.                     *)
(***************************************************************************)

\* The IPv4 address a text denotes (dotted quad or ::ffff:a.b.c.d), or Nil.
V4Of(t) ==
    CASE t.fam = "v4" -> t.b
      [] t.fam = "v6" /\ SubSeq(t.b, 1, 12) = V4MappedPrefix -> SubSeq(t.b, 13, 16)
      [] OTHER -> Nil

\* 4-byte order: equal, or smaller at the first byte where they differ.
V4Leq(a, b) ==
    \/ a = b
    \/ \E k \in 1..4 : (\A j \in 1..(k - 1) : a[j] = b[j]) /\ a[k] < b[k]

\* Bit j (1 = most significant) of an address of any length.
AddrBit(a, j) == (a[(j - 1) \div 8 + 1] \div 2 ^ (7 - ((j - 1) % 8))) % 2

\* Spec section 8: for IPv4 arguments, IPInRange(t, s, e) holds exactly
\* when s <= t <= e in 4-byte order, whether an address is written as a
\* dotted quad or in IPv4-mapped IPv6 form (the To16 normalisation); an
\* unparsable argument gives false.
RangeIsV4Order(t, s, e) ==
    LET a == V4Of(t) lo == V4Of(s) hi == V4Of(e) IN
    /\ a # Nil /\ lo # Nil /\ hi # Nil =>
          (IPInRange(t, s, e) <=> V4Leq(lo, a) /\ V4Leq(a, hi))
    /\ "bad" \in {t.fam, s.fam, e.fam} => ~IPInRange(t, s, e)

\* An IPv4 CIDR a.b.c.d/n (n <= 32, host bits possibly set) contains
\* exactly the IPv4 addresses that agree with a.b.c.d on the top n bits,
\* however the address is written.
CIDRIsV4Prefix(t, c) ==
    LET a == V4Of(t) IN
    c.addr.fam = "v4" /\ c.ones <= 32 /\ a # Nil =>
        (IPInCIDR(t, c) <=>
            \A j \in 1..c.ones : AddrBit(a, j) = AddrBit(c.addr.b, j))

\* A 16-byte address in the IPv4-mapped block ::ffff:0:0/96.
IsV4Mapped(a) == SubSeq(a, 1, 12) = V4MappedPrefix

\* An IPv6 CIDR (valid prefix length) contains an address exactly when the
\* two agree on the top prefix-length bits of their 16-byte forms and are
\* of the same family: IPv4 addresses, dotted or mapped, lie only in
\* CIDRs whose network is in the mapped block (prefix >= 96), and no other
\* address lies there.  So ::/0 and ::ffff:0:0/80 contain no IPv4
\* address, although IPInRange(ip, "::", "ffff:...") would.
CIDRIsV6SameFamilyPrefix(t, c) ==
    LET p == ParseIP(t) IN
    c.addr.fam = "v6" /\ c.ones <= 128 /\ p # Nil =>
        (IPInCIDR(t, c) <=>
            /\ \A j \in 1..c.ones : AddrBit(p, j) = AddrBit(c.addr.b, j)
            /\ IsV4Mapped(p) = (c.ones >= 96 /\ IsV4Mapped(c.addr.b)))

(***************************************************************************)
(* The properties for the fact's address and every argument a rule text   *)
(* may pass.  Each is a table over the addresses, computed once.          *)
(***************************************************************************)
RangeTable == [t \in Texts |-> \A s, e \in Texts : RangeIsV4Order(t, s, e)]
V4CIDRTable == [t \in Texts |-> \A c \in CIDRs : CIDRIsV4Prefix(t, c)]
V6CIDRTable == [t \in Texts |-> \A c \in CIDRs : CIDRIsV6SameFamilyPrefix(t, c)]

\* IPInRange on the fact's address is the 4-byte order for every range a
\* rule names (RangeIsV4Order).
IPInRangeMatchesV4Order == RangeTable[ip]

\* IPInCIDR on the fact's address is IPv4 prefix membership for every IPv4
\* CIDR a rule names (CIDRIsV4Prefix).
IPInCIDRMatchesPrefix == V4CIDRTable[ip]

\* IPInCIDR on the fact's address is same-family prefix membership for
\* every IPv6 CIDR a rule names (CIDRIsV6SameFamilyPrefix).
IPInCIDRV6IsSameFamilyPrefix == V6CIDRTable[ip]

=============================================================================

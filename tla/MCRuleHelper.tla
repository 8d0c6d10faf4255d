----------------------------- MODULE MCRuleHelper -----------------------------
(* Model-checking instance of RuleHelper: three good rules and a bad one; *)
(* LoadRules is called with every list of at most two distinct rules.     *)
(* Beside the loads, facts arrive whose address the IP predicates         *)
(* (IPRuleFunc) read.  Addresses: IPv4 on both sides of byte boundaries,  *)
(* the same addresses in IPv4-mapped IPv6 form, IPv6 addresses below and  *)
(* above the mapped block, and an unparsable text; IPv4 CIDRs with prefix *)
(* 0, 8, 24, 31, 32 and 33 (invalid), host bits set and unset; mapped     *)
(* IPv6 CIDRs with prefix 80 (network outside the mapped block), 96 and   *)
(* 120; ffff::/16, ::/120, ::/0 and ::/129.                                *)
EXTENDS RuleHelper, Naturals, Sequences

MCRules == {"g1", "g2", "g3", "bad"}
MCConfigs ==
    {<<>>} \cup {<<r>> : r \in MCRules}
      \cup {p \in MCRules \X MCRules : p[1] # p[2]}

VARIABLE ip

Zeros(n) == [i \in 1..n |-> 0]
V4(a, b, c, d) == [fam |-> "v4", b |-> <<a, b, c, d>>]
Mapped(a, b, c, d) == [fam |-> "v6", b |-> Zeros(10) \o <<255, 255, a, b, c, d>>]

MCTexts ==
    {V4(10, 0, 0, 1), V4(10, 0, 0, 255), V4(10, 0, 1, 0), V4(192, 168, 1, 7),
     Mapped(10, 0, 0, 255), Mapped(192, 168, 1, 7),
     [fam |-> "v6", b |-> Zeros(15) \o <<1>>],
     [fam |-> "v6", b |-> <<255, 255>> \o Zeros(14)],
     [fam |-> "bad", b |-> <<>>]}

MCCIDRs ==
    {[addr |-> V4(10, 0, 0, 0), ones |-> n] : n \in {0, 8, 24, 31, 32, 33}}
    \cup {[addr |-> V4(10, 0, 0, 255), ones |-> n] : n \in {24, 31}}
    \cup {[addr |-> Mapped(10, 0, 0, 0), ones |-> n] : n \in {80, 96, 120}}
    \cup {[addr |-> [fam |-> "v6", b |-> <<255, 255>> \o Zeros(14)], ones |-> 16],
          [addr |-> [fam |-> "v6", b |-> Zeros(16)], ones |-> 120],
          [addr |-> [fam |-> "v6", b |-> Zeros(16)], ones |-> 129]}
    \cup {[addr |-> [fam |-> "v6", b |-> Zeros(16)], ones |-> 0],
          [addr |-> [fam |-> "bad", b |-> <<>>], ones |-> 8]}

IP == INSTANCE IPRuleFunc WITH Texts <- MCTexts, CIDRs <- MCCIDRs

\* The engine's loads interleave with facts whose address the rules'
\* conditions read.
MCInit == InitRuleEngine /\ IP!Init
MCNext == \/ Next /\ UNCHANGED ip
          \/ \E t \in MCTexts : IP!Evaluate(t) /\ UNCHANGED vars
MCSpec == MCInit /\ [][MCNext]_<<vars, ip>>

\* The properties' tables, computed once for the model's arguments.
RangeTable == IP!RangeTable
V4CIDRTable == IP!V4CIDRTable
V6CIDRTable == IP!V6CIDRTable

\* The IP predicates a rule's condition calls, on every fact's address and
\* every argument the rule texts pass (the properties of IPRuleFunc):
\* IPInRange is the 4-byte order,
IPInRangeMatchesV4Order == RangeTable[ip]
\* IPInCIDR is IPv4 prefix membership,
IPInCIDRMatchesPrefix == V4CIDRTable[ip]
\* and IPInCIDR is same-family IPv6 prefix membership.
IPInCIDRV6IsSameFamilyPrefix == V6CIDRTable[ip]
=============================================================================

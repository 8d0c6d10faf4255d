---------------------------- MODULE RuleStringFunc ----------------------------
(***************************************************************************)
(* The string and integer predicates of src/innerbean/rule_func.go (In,    *)
(* InIgnoreCase, ContainsAny, ContainsAnyIgnoreCase, ContainsAll,          *)
(* StartsWithAny, EndsWithAny, IntInRange, IntIn) as operators over Go's  *)
(* strings.Contains/HasPrefix/HasSuffix/ToLower.                          *)
(*                                                                         *)
(* A string is a sequence of the characters "a", "A" and "b", where "A"  *)
(* is the upper case of "a".  A rule passes the fact's field value        *)
(* (MF.URL, MF.USER_AGENT, ...) and a variadic list from the rule text.    *)
(***************************************************************************)
EXTENDS Integers, SequencesExt

\* strings.ToLower
ToLower(s) == [i \in DOMAIN s |-> IF s[i] = "A" THEN "a" ELSE s[i]]

\* strings.HasPrefix, strings.HasSuffix, strings.Contains
HasPrefix(s, p) == IsPrefix(p, s)
HasSuffix(s, p) == IsSuffix(p, s)
StrContains(s, sub) ==
    \E i \in 0..(Len(s) - Len(sub)) : SubSeq(s, i + 1, i + Len(sub)) = sub

\* A for-range over list that returns true at the first item satisfying
\* P(item) and false after the loop.
AnyItem(list, P(_)) == \E i \in DOMAIN list : P(list[i])

In(v, list) ==
    LET Eq(item) == v = item IN AnyItem(list, Eq)

InIgnoreCase(v, list) ==
    LET Eq(item) == ToLower(v) = ToLower(item) IN AnyItem(list, Eq)

ContainsAny(v, list) ==
    LET C(item) == StrContains(v, item) IN AnyItem(list, C)

ContainsAnyIgnoreCase(v, list) ==
    LET C(item) == StrContains(ToLower(v), ToLower(item)) IN AnyItem(list, C)

\* ContainsAll: false at the first item not contained; an empty list is
\* false (len(list) > 0).
ContainsAll(v, list) ==
    /\ \A i \in DOMAIN list : StrContains(v, list[i])
    /\ Len(list) > 0

StartsWithAny(v, list) ==
    LET P(item) == HasPrefix(v, item) IN AnyItem(list, P)

EndsWithAny(v, list) ==
    LET P(item) == HasSuffix(v, item) IN AnyItem(list, P)

IntInRange(x, lo, hi) == x >= lo /\ x <= hi

IntIn(x, list) ==
    LET Eq(item) == x = item IN AnyItem(list, Eq)

=============================================================================

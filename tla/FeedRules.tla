----------------------------- MODULE FeedRules ------------------------------
(* The rules of config.yaml by which prices are derived, as execute_rule() of    *)
(* bts_tools/feeds.py reads them.                                                *)
EXTENDS Integers, Sequences

(* A market is <<asset, base>>.  A rule names the markets it reads and the one it *)
(* makes; the elements of a loop are rules already instantiated.                  *)
Compose(m1, m2) == [rule |-> "compose", reads |-> <<m1, m2>>, makes |-> <<m1[1], m2[2]>>]
Invert(m) == [rule |-> "invert", reads |-> <<m>>, makes |-> <<m[2], m[1]>>]
Copy(m, dest) == [rule |-> "copy", reads |-> <<m>>, makes |-> dest]
Publish(m) == [rule |-> "publish", reads |-> <<>>, makes |-> m]
Loop(rules) == [rule |-> "loop", body |-> rules]

(* What config.yaml may say: a sequence of such rules, in whose loops there is none. *)
IsMarket(m) == m = <<m[1], m[2]>>

IsList(s) == Len(s) \in Nat /\ DOMAIN s = 1..Len(s)

IsSimple(r) ==
    \/ r.rule = "compose" /\ r = Compose(r.reads[1], r.reads[2])
    \/ r.rule = "invert" /\ r = Invert(r.reads[1])
    \/ r.rule = "copy" /\ r = Copy(r.reads[1], r.makes) /\ IsMarket(r.makes)
    \/ r.rule = "publish" /\ r = Publish(r.makes) /\ IsMarket(r.makes)

IsRule(r) ==
    \/ IsSimple(r)
    \/ r.rule = "loop" /\ IsList(r.body) /\ \A i \in DOMAIN r.body : IsSimple(r.body[i])

AreRules(rules) == IsList(rules) /\ \A i \in DOMAIN rules : IsRule(rules[i])

(* The rules to execute one after the other for a rule: those in a loop, or itself. *)
Elements(r) == IF r.rule = "loop" THEN {r.body[j] : j \in DOMAIN r.body} ELSE {r}

(* The base of the first market that is composed is the asset of the second. *)
Fits(r) == r.rule = "compose" => r.reads[1][2] = r.reads[2][1]

(* The markets that rules make. *)
Makes(rules) ==
    UNION {IF rules[i].rule = "loop" THEN {rules[i].body[j].makes : j \in DOMAIN rules[i].body}
           ELSE {rules[i].makes} : i \in DOMAIN rules}

(* Rules as the shipped configuration has them (config.yaml:203-228): a market that *)
(* a rule reads was made by the rules before it, if by any, and not by a loop.      *)
Uses(a, b) == b.rule # "publish" /\ \E k \in DOMAIN a.reads : a.reads[k] = b.makes

InOrderOfUse(rules) ==
    /\ \A i \in DOMAIN rules : \A a \in Elements(rules[i]) : Fits(a)
    /\ \A i, j \in DOMAIN rules :
          \A a \in Elements(rules[i]), b \in Elements(rules[j]) :
              Uses(a, b) => j < i /\ rules[j].rule # "loop"
=============================================================================

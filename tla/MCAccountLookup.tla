--------------------------- MODULE MCAccountLookup ---------------------------
(* Constants of the TLC runs of AccountLookup. *)
EXTENDS AccountLookup, TLC

CONSTANTS acme, acmeUK, a1, a2, o1, o2, o3

Names == {acme, acmeUK}
NameWithin == {<<acme, acme>>, <<acmeUK, acmeUK>>, <<acme, acmeUK>>}
TwoAccounts == {a1, a2}
ThreeOpps == {o1, o2, o3}

Spelled(r, d, t) == [root |-> r, doubled |-> d, tail |-> t]

(* "Acme", "Acme.", "Acme .", "Acme" with a doubled blank, "Acme (UK)". *)
FiveSpellings ==
  {Spelled(acme, FALSE, "none"), Spelled(acme, FALSE, "dot"),
   Spelled(acme, FALSE, "blank_dot"), Spelled(acme, TRUE, "none"),
   Spelled(acmeUK, FALSE, "none")}

(* Both ends of a window of one day around day 0, and outside it. *)
CloseDates == {-1, 1, 3}

LookupSymmetry == Permutations(TwoAccounts) \cup Permutations(ThreeOpps)
=============================================================================

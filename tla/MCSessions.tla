----------------------------- MODULE MCSessions -----------------------------
(* Instances of Sessions for TLC: one browser with two tabs. *)
EXTENDS Sessions, TLC

CONSTANT laptop
MCBrowserOf == [r \in Tabs |-> laptop]
Alike == Permutations(Tabs)
=============================================================================

--------------------------- MODULE MCApplyFilters ---------------------------
(***************************************************************************)
(* ApplyFilters on small instances: two windows, so that futures           *)
(* interleave, two desktops, and three lists that treat each window        *)
(* differently, one of them with targets that no desktop is.               *)
(***************************************************************************)
EXTENDS ApplyFilters, TLC

CONSTANTS w1, w2, d1, d2

RuleOf(action, target) == [action |-> action, target |-> target]

MCRuleLists ==
    { (w1 :> RuleOf("Move", d2)) @@ (w2 :> RuleOf("UnpinAndMove", d1)),
      (w1 :> RuleOf("Pin", d1)) @@ (w2 :> RuleOf("Unpin", d1)),
      (w1 :> RuleOf("Move", BeyondU32)) @@ (w2 :> RuleOf("Move", Missing)) }

MCInitialPins == { (w1 :> "no") @@ (w2 :> "window"), (w1 :> "app") @@ (w2 :> "no") }

MCInitialPlaces == { (w1 :> d1) @@ (w2 :> d2) }
=============================================================================

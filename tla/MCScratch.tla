------------------------------ MODULE MCScratch ------------------------------
(* An instance of Scratch for TLC.  The root holds what a crashed round    *)
(* left, with its stamp or from before stamps, one that is not             *)
(* Counterpoint's, and one where a link replaced the checkout.             *)
EXTENDS Scratch

Crashed == [Empty EXCEPT !.owned = TRUE, !.used = 0, !.cache = 0, !.items = PerRound]
UnstampedLeftover == [Crashed EXCEPT !.used = Never]
Foreign == [Empty EXCEPT !.cache = 0]
LinkedCheckout == [Crashed EXCEPT !.items = @ \ {"checkout"}, !.links = {"checkout"}]

FoundDirs ==
  {[d EXCEPT !.last = LastUse(d)] :
     d \in {Empty, Crashed, UnstampedLeftover, Foreign, LinkedCheckout}}
=============================================================================

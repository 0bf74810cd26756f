--------------------------- MODULE MCReviewService ---------------------------
(* Instances of ReviewService for TLC.                                     *)
EXTENDS ReviewService, TLC

CONSTANTS c1, c2, s1, s2

(* One caller at a time.                                                   *)
OneCall == {c1}
AloneServer == [c \in OneCall |-> s1]

(* Two calls that share a server, and a store.                             *)
TwoCalls == {c1, c2}
OneServer == [c \in TwoCalls |-> s1]

(* Two calls, each in a server of its own.                                 *)
OwnServers == [c \in TwoCalls |-> IF c = c1 THEN s1 ELSE s2]

OneWorkflow == {1}
TwoWorkflows == {1, 2}

(* Thread ids and request hashes are only ever compared for equality, and  *)
(* so are the calls that run in one server; calls in servers of their own  *)
(* are exchanged together with the servers.                                *)
SymmetricIds == Permutations(Threads) \cup Permutations(Requests)
SymmetricOneServer == SymmetricIds \cup Permutations(TwoCalls)
SymmetricOwnServers ==
  SymmetricIds \cup {c1 :> c2 @@ c2 :> c1 @@ s1 :> s2 @@ s2 :> s1}
=============================================================================

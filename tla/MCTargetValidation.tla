-------------------------- MODULE MCTargetValidation --------------------------
(* An instance of TargetValidation for TLC: a primary branch, a topic that *)
(* forked from its first commit, an amended topic, and an unrelated root.  *)
EXTENDS TargetValidation, TLC

CONSTANTS root, main2, topic1, topic2, amended, stranger, topic

History == (root :> {root}) @@ (main2 :> {root, main2}) @@ (topic1 :> {root, topic1})
           @@ (topic2 :> {root, topic1, topic2}) @@ (amended :> {root, amended})
           @@ (stranger :> {stranger})

Branches == {Main, Master, topic}

Repo(refs, origin, head, dirty) ==
  LET all == [f \in Refs |-> IF f \in DOMAIN refs THEN refs[f] ELSE None]
      r == [refs |-> all, origin |-> origin, head |-> head, dirty |-> dirty, objects |-> {}]
  IN [r EXCEPT !.objects = Reachable(r)]

Local == <<"heads", topic>>

(* A clone with origin's HEAD, one without, and one whose primary branch   *)
(* is known only from origin; histories with nothing in common.            *)
Start ==
  {Repo((<<"heads", Main>> :> main2) @@ (Local :> topic2), Main, topic, FALSE),
   Repo((<<"heads", Main>> :> root) @@ (Local :> topic1), None, topic, FALSE),
   Repo((<<"remotes", Master>> :> main2) @@ (Local :> amended), None, topic2, FALSE),
   Repo((<<"heads", Main>> :> stranger) @@ (Local :> topic2), topic, topic, FALSE)}

Asked ==
  {[branch |-> topic, commit |-> topic2, build |-> TRUE],
   [branch |-> topic, commit |-> HEAD, build |-> FALSE],
   [branch |-> Main, commit |-> Main, build |-> FALSE]}

Earlier == {None, [commit |-> topic1, base |-> root], [commit |-> topic2, base |-> root]}
=============================================================================

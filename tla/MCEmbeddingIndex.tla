-------------------------- MODULE MCEmbeddingIndex --------------------------
(* Two instances of a package over two facets: the reload edits one doc and      *)
(* drops the other.                                                              *)
EXTENDS EmbeddingIndex, TLC

CONSTANTS p1, p2, f1, f2, t1, t2

DesiredValue == (p1 :> (f1 :> t1 @@ f2 :> t1)) @@ (p2 :> (f1 :> t2 @@ f2 :> NoText))

Symmetric == Permutations(Syncs) \cup Permutations(Calls) \cup Permutations(Metas)
=============================================================================

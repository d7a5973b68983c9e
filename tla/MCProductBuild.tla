---------------------------- MODULE MCProductBuild ----------------------------
(* Small instances of ProductBuildQueue for TLC. *)
EXTENDS ProductBuildQueue, TLC

CONSTANTS a, b, c, w1, w2, h1, h2

(* b needs a, c stands alone; a alone. *)
Three == (a :> 1) @@ (b :> 2) @@ (c :> 3)
Chain == (a :> {}) @@ (b :> {a}) @@ (c :> {})
Two   == (a :> 1) @@ (b :> 2)
One   == a :> 1
Pair  == (a :> {}) @@ (b :> {a})
Lone  == a :> {}

(* The threads are interchangeable. *)
TwoWorkers == Permutations({w1, w2})
Threads    == TwoWorkers \cup Permutations({h1, h2})
=============================================================================

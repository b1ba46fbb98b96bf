-------------------------------- MODULE Tables --------------------------------
(***************************************************************************)
(* Tables, and records, as functions: what HashMap::insert, extend and     *)
(* remove (external) make of them.                                         *)
(***************************************************************************)
EXTENDS Functions

\* The table with a single entry.
Entry(k, v) == [x \in {k} |-> v]

\* The entries of f, and those of g for which f has none.
Override(f, g) ==
    [x \in DOMAIN f \cup DOMAIN g |-> IF x \in DOMAIN f THEN f[x] ELSE g[x]]

Without(f, S) == Restrict(f, DOMAIN f \ S)
==============================================================================

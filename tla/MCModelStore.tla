---- MODULE MCModelStore ----
(***************************************************************************)
(* A small store: two models, two GGUF layers, a template and a config.    *)
(***************************************************************************)
EXTENDS ModelStore, TLC

CONSTANTS s1, s2, n1, n2, m1, m2, t, c

StoreContents == {{m1, c}, {m2, c}}
\* Requests, names and GGUF layers are interchangeable.
StoreSymmetry ==
    Permutations({s1, s2}) \cup Permutations({n1, n2}) \cup Permutations({m1, m2})
====

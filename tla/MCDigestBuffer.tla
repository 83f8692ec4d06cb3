--------------------------- MODULE MCDigestBuffer ---------------------------
(* Small instances of DigestBuffer. *)
EXTENDS DigestBuffer, TLC

Symmetry == Permutations(Writers) \union Permutations(EventKeys)
=============================================================================

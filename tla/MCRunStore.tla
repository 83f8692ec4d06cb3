----------------------------- MODULE MCRunStore -----------------------------
(* Small instances of RunStore. *)
EXTENDS RunStore, TLC

\* A file with both columns, with one, or with none; a table that needs none.
TwoColumns == <<"fault_id", "candidate_patch_count">>
NoColumns == <<>>

Symmetry == Permutations(Inserters) \union Permutations(Recorders)
=============================================================================

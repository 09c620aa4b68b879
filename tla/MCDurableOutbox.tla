-------------------------- MODULE MCDurableOutbox --------------------------
(***************************************************************************)
(* DurableOutbox on small instances.                                        *)
(***************************************************************************)
EXTENDS DurableOutbox, TLC

\* Messages, texts and contexts are only compared for equality.
Symmetry == Permutations(Ids) \cup Permutations(Texts) \cup Permutations(Contexts)

=============================================================================

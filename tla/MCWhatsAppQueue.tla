--------------------------- MODULE MCWhatsAppQueue ---------------------------
(* Instances of WhatsAppQueue for TLC. *)
EXTENDS WhatsAppQueue, TLC

\* Processes of a kind are interchangeable, and so are messages (safety only).
Symmetry == Permutations(Messages) \cup Permutations(Drainers) \cup Permutations(Workers)
=============================================================================

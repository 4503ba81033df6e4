------------------------- MODULE MCLicensePayments -------------------------
(* Instances of LicensePayments for TLC. *)
EXTENDS LicensePayments, TLC

\* Requests and workers are interchangeable; licenses are too.
Symmetry == Permutations(Requests) \cup Permutations(Workers) \cup Permutations(Licenses)
=============================================================================

-------------------------- MODULE MCDocumentUpload --------------------------
(* Instances of DocumentUpload for TLC.                                    *)
EXTENDS DocumentUpload, TLC

CONSTANTS u1, u2, u3, g1, g2, ana

ThreeUploads == {u1, u2, u3}
TwoDownloads == {g1, g2}
OneUser == {ana}

Symmetry == Permutations(Uploads) \cup Permutations(Downloads)
=============================================================================

--------------------------- MODULE MCDocumentParse ---------------------------
(* DocumentParse on small instances.  Pages and clients are interchangeable. *)
EXTENDS DocumentParse, TLC

Symmetry == Permutations(Pages) \cup Permutations(Clients)
=============================================================================

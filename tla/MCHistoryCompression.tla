------------------------ MODULE MCHistoryCompression ------------------------
(* Small instance of the compressed conversation for TLC.                  *)
EXTENDS HistoryCompression, TLC

Symmetry == Permutations(Requests)
=============================================================================

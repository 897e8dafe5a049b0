----------------------------- MODULE MCNonceSend -----------------------------
(* Three threads and a window of two: as many threads as values above the  *)
(* limit, the boundary SendAssumption allows.                              *)
EXTENDS NonceSend
=============================================================================

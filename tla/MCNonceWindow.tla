---------------------------- MODULE MCNonceWindow ----------------------------
(* Four words of two bits and counters up to 19: the window (6) is passed  *)
(* twice before the limit (12), and a jump can be longer than the ring.    *)
EXTENDS NonceWindow
=============================================================================

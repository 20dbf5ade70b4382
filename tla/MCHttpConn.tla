----------------------------- MODULE MCHttpConn -----------------------------
(* HttpConn for TLC: requests shorter than their head, of head only, with  *)
(* a body of one and of several chunks, and beyond the limit.              *)
EXTENDS HttpConn

MCSizes == {3, 4, 5, 7, 10}
=============================================================================

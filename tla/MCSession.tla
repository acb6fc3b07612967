----------------------------- MODULE MCSession -----------------------------
(***************************************************************************)
(* A small instance of Session.  The lengths are the ends of the accepted  *)
(* range and their neighbours outside it.                                  *)
(***************************************************************************)
EXTENDS Session

EdgeLengths == {-1, 0, 16320, 16321}
=============================================================================

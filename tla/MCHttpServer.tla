---------------------------- MODULE MCHttpServer ----------------------------
(* HttpServer with the accept threads declared interchangeable, for the    *)
(* runs that check only safety.                                            *)
EXTENDS HttpServer, TLC

AcceptSymmetry == Permutations(Accept)
=============================================================================

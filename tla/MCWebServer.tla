---------------------------- MODULE MCWebServer ----------------------------
(***************************************************************************)
(* WebServer for TLC.  Connections are interchangeable, and so are workers. *)
(***************************************************************************)
EXTENDS WebServer, TLC

Symmetry == Permutations(Conns) \cup Permutations(Workers)
=============================================================================

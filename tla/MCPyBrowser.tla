----------------------------- MODULE MCPyBrowser -----------------------------
(***************************************************************************)
(* PyBrowser for TLC: the first C++ browser lists two interfaces, the next *)
(* one, as if the system had changed.                                      *)
(***************************************************************************)
EXTENDS PyBrowser, TLC

MCSizes == <<2, 1>>

ThreadSymmetry == Permutations(Threads)
=============================================================================

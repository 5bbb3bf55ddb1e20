---------------------------- MODULE MCJavaBrowser ----------------------------
(***************************************************************************)
(* JavaBrowser for TLC: a browser that found the interfaces lo and eth, of *)
(* the three a client asks for.                                            *)
(***************************************************************************)
EXTENDS JavaBrowser, TLC

CONSTANTS lo, eth, ppp

MCNative == <<lo, eth>>
MCInterfaces == {lo, eth, ppp}
Symmetry == Permutations(Threads)
=============================================================================

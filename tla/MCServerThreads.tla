-------------------------- MODULE MCServerThreads --------------------------
(* Small instances of ServerThreads for TLC. *)
EXTENDS ServerThreads

CONSTANTS h1, h2, h3

OneHandler == {h1}
ThreeHandlers == {h1, h2, h3}
=============================================================================

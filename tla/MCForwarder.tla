---------------------------- MODULE MCForwarder ----------------------------
(* Small instances of Forwarder for TLC. *)
EXTENDS Forwarder

\* The phases of a run, as sets for the configurations.
WriteThenRead == {"write", "read"}
WriteOnly == {"write"}

TwoThreads == {1, 2}
=============================================================================

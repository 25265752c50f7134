--------------------------- MODULE MCExploration ---------------------------
(* Small runs for TLC.                                                      *)
EXTENDS Exploration

Setup(w, f, ph, val, names) ==
    [world |-> w, forwarders |-> f, phases |-> ph, validation |-> val,
     named |-> names]
Both == {"write", "read"}

\* One forwarder, two clients for each of two, one client for each; a single
\* phase, which a time limit may end; too few ranks, and ranks that cannot be
\* shared out; reads that are validated, and names that the file does not have.
SomeSetups ==
    {Setup(3, 1, Both, TRUE, TRUE), Setup(6, 2, Both, FALSE, TRUE),
     Setup(4, 2, {"read"}, FALSE, FALSE), Setup(3, 1, {"write"}, FALSE, TRUE),
     Setup(3, 2, Both, FALSE, TRUE), Setup(5, 2, Both, FALSE, TRUE)}
=============================================================================

--------------------------- MODULE AccessPattern ---------------------------
(***************************************************************************)
(* The arithmetic by which a FORGE run splits work: which forwarder a      *)
(* client talks to, how many requests a client issues, and which bytes of  *)
(* which file each request touches (src/src/main.c).  C integer division   *)
(* truncates; every operand here is non-negative, so it is \div.           *)
(***************************************************************************)
EXTENDS Integers

\* The `number_of_files' and `spatiality' parameters of the configuration.
Layouts == {"shared", "individual"}
Spatialities == {"contiguous", "strided"}

\* The rank of the forwarder that serves world rank r, of W ranks of which
\* the first F are forwarders.
get_forwarding_server(r, F, W) == (r - F) \div ((W - F) \div F)

\* The clients that talk to forwarder s, and how many finished clients make
\* a forwarder stop (server_listener).
ClientsOf(s, F, W) == {r \in F..(W - 1) : get_forwarding_server(r, F, W) = s}
ShutdownCount(F, W) == (W - F) \div F

\* How many requests of `req' bytes each of `clients' clients issues in a
\* phase; the division by `clients' is done on integers, before ceil().
RequestsPerClient_RoundsUp(total, clients, req) ==
    ((total + clients - 1) \div clients + req - 1) \div req
RequestsPerClient(total, clients, req) == (total \div clients) \div req

\* Consecutive requests of one client are adjacent in the file.
ContiguousOffset(i, n, clients, rank, req) ==
    (i \div n) * (req * n * clients) + req * n * rank + i * req

\* The clients take turns, one request each.
StridedOffset_NoRank(i, clients, rank, req) == i * (clients * req)
StridedOffset(i, clients, rank, req) ==
    i * (clients * req) + rank * req

\* The offset of the i-th request of a client.
Offset(layout, spatiality, i, n, clients, rank, req) ==
    CASE layout = "individual" -> i * req
      [] layout = "shared" /\ spatiality = "contiguous" ->
            ContiguousOffset(i, n, clients, rank, req)
      [] OTHER -> StridedOffset(i, clients, rank, req)

\* The file a client opens: the common path, or the path suffixed by its rank.
FileOf(layout, rank) == IF layout = "individual" THEN rank ELSE 0
=============================================================================

-------------------------- MODULE MCConfiguration --------------------------
(* Configuration files for TLC.                                             *)
EXTENDS Configuration

Text(t) == [text |-> t, number |-> 0]
Number(k) == [text |-> "", number |-> k]
Pair(key, value) == <<Text(key), value>>

\* A flat object: every other token is a key.
Flat(tokens) == [tokens |-> tokens,
                 keys |-> {k \in 1..Len(tokens) : k % 2 = 1}]

\* Every parameter, with good and bad values.  A path may be named like a key.
Files == {Flat(Pair("forwarders", Number(f)) \o Pair("handlers", Number(h)) \o
               Pair("path", Text("handlers")) \o Pair("operations", Text(o)) \o
               Pair("number_of_files", Text(l)) \o
               Pair("spatiality", Text(s)) \o Pair("total_size", Number(t)) \o
               Pair("request_size", Number(r)) \o Pair("stone_wall", Number(w))) :
            f \in 0..3, h \in 1..2, o \in {"write", "read", "write,read", "stat"},
            l \in Layouts \cup {"one"}, s \in Spatialities \cup {"random"},
            t \in {7, 12}, r \in 0..2, w \in 0..1}

\* Keys may be missing, be given twice, or be unknown to the program.
Others == {Flat(Pair("request_size", Number(1)) \o Pair(k, Number(a)) \o
                Pair("forwarders", Number(1)) \o Pair("operations", Text("read")) \o
                Pair(k, Number(b))) :
             k \in {"dispatchers", "validation", "direct_io", "forwarders", "comment"},
             a \in 0..2, b \in 0..2}

MostFiles == Files \cup Others

\* The example of the README, with smaller sizes.
Readme == Flat(Pair("forwarders", Number(1)) \o Pair("handlers", Number(16)) \o
               Pair("dispatchers", Number(16)) \o Pair("path", Text("/mnt/pfs/test")) \o
               Pair("number_of_files", Text("shared")) \o
               Pair("spatiality", Text("contiguous")) \o
               Pair("total_size", Number(16)) \o Pair("request_size", Number(2)) \o
               Pair("validation", Number(1)))
ReadmeFile == {Readme}

\* A key the program does not know, with an object for its value.
Nested == [tokens |-> Pair("handlers", Number(2)) \o
                      Pair("cluster", Text("{...}")) \o Pair("handlers", Number(4)) \o
                      Pair("operations", Text("write")) \o
                      Pair("forwarders", Number(1)) \o Pair("request_size", Number(1)),
           keys |-> {1, 3, 7, 9, 11}]
NestedFile == {Nested}
SomeWorlds == {1, 2, 4, 5, 6}
FourClients == {5}
=============================================================================

------------------------------ MODULE FwdList ------------------------------
(***************************************************************************)
(* The circular doubly linked lists in which the requests of a forwarder   *)
(* wait (src/include/fwd_list.h, src/src/fwd_list.c).  A head and the      *)
(* entries are nodes of one memory, which keeps the next and the prev      *)
(* pointer of each; an operation takes the memory and yields the new one.  *)
(***************************************************************************)
EXTENDS Integers, Sequences

CONSTANT Nodes   \* struct fwd_list_head: the heads and a member of each request

Memory == [next : [Nodes -> Nodes], prev : [Nodes -> Nodes]]

\* A node that points to itself: an empty list, or an entry in no list.
init_fwd_list_head(m, list) ==
    [next |-> [m.next EXCEPT ![list] = list],
     prev |-> [m.prev EXCEPT ![list] = list]]

fwd_list_empty(m, head) == m.next[head] = head

\* The assignments in the order of the code, which matters where prev = next.
Add(m, new, prev, next) ==
    [next |-> [m.next EXCEPT ![new] = next, ![prev] = new],
     prev |-> [m.prev EXCEPT ![next] = new, ![new] = prev]]

fwd_list_add(m, new, head) == Add(m, new, head, m.next[head])
fwd_list_add_tail(m, new, head) == Add(m, new, m.prev[head], head)

Unlink(m, prev, next) ==
    [next |-> [m.next EXCEPT ![prev] = next],
     prev |-> [m.prev EXCEPT ![next] = prev]]

fwd_list_del(m, entry) ==
    init_fwd_list_head(Unlink(m, m.prev[entry], m.next[entry]), entry)

----------------------------------------------------------------------------
(* What a list stands for. *)

\* The i-th node around the ring of the head and the entries.
Ring(head, s, i) == IF i \in DOMAIN s THEN s[i] ELSE head

\* The sequence s of distinct entries is the list behind the head.
IsList(m, head, s) ==
    /\ s \in Seq(Nodes \ {head}) /\ head \in Nodes
    /\ \A i, j \in DOMAIN s : s[i] = s[j] => i = j
    /\ \A i \in 0..Len(s) :
          /\ m.next[Ring(head, s, i)] = Ring(head, s, i + 1)
          /\ m.prev[Ring(head, s, i + 1)] = Ring(head, s, i)

\* The nodes of a list.
NodesOf(head, s) == {head} \cup {s[i] : i \in DOMAIN s}

Without(s, k) == [i \in 1..(Len(s) - 1) |-> IF i < k THEN s[i] ELSE s[i + 1]]
=============================================================================

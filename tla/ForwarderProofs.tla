--------------------------- MODULE ForwarderProofs --------------------------
(*****************************************************************************)
(* What Forwarder is proved from, for every size of a run: the lists of      *)
(* fwd_list.h behave as the sequences of the model, every variable stays in  *)
(* its type, and each step keeps the parts of the inductive invariant that   *)
(* say where each request is: the stage of each identifier as the queues,    *)
(* AGIOS and the threads have it, the request each client waits for, the     *)
(* barriers, why an identifier is free when the listener comes round to it,  *)
(* and which files are open for whom.                                        *)
(*****************************************************************************)
EXTENDS ForwarderInvariant, FwdList, AccessPatternProofs, SequenceTheorems

-----------------------------------------------------------------------------
(* The lists in which the requests wait, as sequences. *)

\* An operation yields a memory.
LEMMA AddType ==
    ASSUME NEW m \in Memory, NEW new \in Nodes, NEW p \in Nodes, NEW n \in Nodes
    PROVE  Add(m, new, p, n) \in Memory
  BY DEF Memory, Add

\* So does a deletion.
LEMMA DelType ==
    ASSUME NEW m \in Memory, NEW e \in Nodes PROVE fwd_list_del(m, e) \in Memory
  BY DEF Memory, fwd_list_del, Unlink, init_fwd_list_head

\* A list that is set up is empty, and says so; one with entries does not.
THEOREM InitMakesEmptyList ==
    ASSUME NEW m \in Memory, NEW h \in Nodes
    PROVE  IsList(init_fwd_list_head(m, h), h, <<>>)
  BY DEF IsList, Ring, init_fwd_list_head, Memory

\* fwd_list_empty is true of the list for the empty sequence and of no other.
THEOREM EmptyIsEmpty ==
    ASSUME NEW m \in Memory, NEW h \in Nodes, NEW s, IsList(m, h, s)
    PROVE  fwd_list_empty(m, h) <=> s = <<>>
<1>1. s \in Seq(Nodes \ {h}) /\ Len(s) \in Nat /\ DOMAIN s = 1..Len(s)
  BY LenProperties DEF IsList
<1>2. m.next[Ring(h, s, 0)] = Ring(h, s, 1)
  BY <1>1 DEF IsList
<1>3. Ring(h, s, 0) = h
  BY <1>1 DEF Ring
<1>4. CASE s = <<>>
  BY <1>1, <1>2, <1>3, <1>4 DEF Ring, fwd_list_empty
<1>5. CASE s # <<>>
  <2>1. 1 \in DOMAIN s
    BY <1>1, <1>5, EmptySeq
  <2>2. s[1] # h
    BY <1>1, <2>1, ElementOfSeq
  <2>. QED  BY <1>2, <1>3, <1>5, <2>1, <2>2 DEF Ring, fwd_list_empty
<1>. QED  BY <1>4, <1>5

\* The links at both ends of a list.
LEMMA EndsOfList ==
    ASSUME NEW m \in Memory, NEW h \in Nodes, NEW s, IsList(m, h, s)
    PROVE  /\ m.prev[h] = Ring(h, s, Len(s)) /\ m.next[h] = Ring(h, s, 1)
           /\ m.prev[h] \in Nodes /\ m.next[h] \in Nodes
<1>1. s \in Seq(Nodes \ {h}) /\ Len(s) \in Nat /\ DOMAIN s = 1..Len(s)
  BY LenProperties DEF IsList
<1>2. Ring(h, s, Len(s) + 1) = h /\ Ring(h, s, 0) = h
  BY <1>1 DEF Ring
<1>3. /\ m.prev[Ring(h, s, Len(s) + 1)] = Ring(h, s, Len(s))
      /\ m.next[Ring(h, s, 0)] = Ring(h, s, 0 + 1)
  BY <1>1 DEF IsList
<1>. QED  BY <1>2, <1>3 DEF Memory

\* A request that is added at the tail is the last of the list.
THEOREM AddTailAppends ==
    ASSUME NEW m \in Memory, NEW h \in Nodes, NEW s, IsList(m, h, s),
           NEW e \in Nodes, e \notin NodesOf(h, s)
    PROVE  IsList(fwd_list_add_tail(m, e, h), h, Append(s, e))
<1>. DEFINE t == Append(s, e)
            q == fwd_list_add_tail(m, e, h)
            last == Ring(h, s, Len(s))
<1>1. s \in Seq(Nodes \ {h}) /\ Len(s) \in Nat /\ DOMAIN s = 1..Len(s)
  BY LenProperties DEF IsList
<1>2. e # h /\ \A i \in DOMAIN s : s[i] # e /\ s[i] # h /\ s[i] \in Nodes
  BY <1>1, ElementOfSeq DEF NodesOf
<1>3. /\ t \in Seq(Nodes \ {h}) /\ Len(t) = Len(s) + 1
      /\ DOMAIN t = 1..(Len(s) + 1)
      /\ t[Len(s) + 1] = e /\ \A i \in DOMAIN s : t[i] = s[i]
  BY <1>1, <1>2, AppendProperties
<1>4. \A i, j \in DOMAIN t : t[i] = t[j] => i = j
  <2>. SUFFICES ASSUME NEW i \in DOMAIN t, NEW j \in DOMAIN t, t[i] = t[j]
                PROVE  i = j
    OBVIOUS
  <2>1. CASE i \in DOMAIN s /\ j \in DOMAIN s
    BY <1>3, <2>1 DEF IsList
  <2>2. CASE i \notin DOMAIN s \/ j \notin DOMAIN s
    <3>1. i = Len(s) + 1 \/ j = Len(s) + 1
      BY <1>1, <1>3, <2>2
    <3>2. i \in 1..(Len(s) + 1) /\ j \in 1..(Len(s) + 1)
      BY <1>3
    <3>3. i = Len(s) + 1 \/ i \in DOMAIN s
      BY <1>1, <3>2
    <3>4. j = Len(s) + 1 \/ j \in DOMAIN s
      BY <1>1, <3>2
    <3>. QED  BY <1>2, <1>3, <3>1, <3>3, <3>4
  <2>. QED  BY <2>1, <2>2
<1>5. m.prev[h] = last /\ last \in Nodes /\ last # e
  BY <1>2, EndsOfList DEF Ring
<1>6. /\ q.next = [m.next EXCEPT ![e] = h, ![last] = e]
      /\ q.prev = [m.prev EXCEPT ![h] = e, ![e] = last]
  BY <1>5 DEF fwd_list_add_tail, Add
<1>7. /\ q.next[e] = h /\ q.next[last] = e
      /\ q.prev[h] = e /\ q.prev[e] = last
  BY <1>2, <1>5, <1>6 DEF Memory
<1>8. \A i \in 0..Len(t) : /\ q.next[Ring(h, t, i)] = Ring(h, t, i + 1)
                           /\ q.prev[Ring(h, t, i + 1)] = Ring(h, t, i)
  <2>. SUFFICES ASSUME NEW i \in 0..Len(t)
                PROVE  /\ q.next[Ring(h, t, i)] = Ring(h, t, i + 1)
                       /\ q.prev[Ring(h, t, i + 1)] = Ring(h, t, i)
    OBVIOUS
  <2>. HIDE DEF t, q
  <2>1. CASE i = Len(s) + 1
    <3>1. Ring(h, t, i) = e /\ Ring(h, t, i + 1) = h
      BY <1>1, <1>3, <2>1 DEF Ring
    <3>. QED  BY <1>7, <3>1
  <2>2. CASE i = Len(s)
    <3>1. Ring(h, t, i) = last /\ Ring(h, t, i + 1) = e
      BY <1>1, <1>3, <2>2 DEF Ring
    <3>. QED  BY <1>7, <3>1
  <2>3. CASE i \in 0..(Len(s) - 1)
    <3>1. /\ Ring(h, t, i) = Ring(h, s, i)
          /\ Ring(h, t, i + 1) = Ring(h, s, i + 1) /\ i + 1 \in DOMAIN s
      BY <1>1, <1>3, <2>3 DEF Ring
    <3>2. Ring(h, s, i) \in Nodes /\ Ring(h, s, i + 1) \in Nodes
      BY <1>2 DEF Ring
    <3>3. Ring(h, s, i) # e /\ Ring(h, s, i + 1) # e /\ Ring(h, s, i + 1) # h
      BY <1>2, <3>1 DEF Ring
    <3>4. Ring(h, s, i) # last
      <4>1. CASE i = 0
        BY <1>1, <1>2, <2>3, <4>1 DEF Ring
      <4>2. CASE i # 0
        <5>1. i \in 1..Len(s) /\ Len(s) \in 1..Len(s) /\ i # Len(s)
          <6>1. Len(s) \in Nat
            BY <1>1
          <6>. QED  BY <2>3, <4>2, <6>1
        <5>2. i \in DOMAIN s /\ Len(s) \in DOMAIN s
          BY <1>1, <5>1
        <5>. QED  BY <5>1, <5>2 DEF Ring, IsList
      <4>. QED  BY <4>1, <4>2
    <3>5. /\ m.next[Ring(h, s, i)] = Ring(h, s, i + 1)
          /\ m.prev[Ring(h, s, i + 1)] = Ring(h, s, i)
      BY <1>1, <2>3 DEF IsList
    <3>6. q.next[Ring(h, s, i)] = m.next[Ring(h, s, i)]
      BY <1>6, <3>2, <3>3, <3>4 DEF Memory
    <3>7. q.prev[Ring(h, s, i + 1)] = m.prev[Ring(h, s, i + 1)]
      BY <1>6, <3>2, <3>3 DEF Memory
    <3>. QED  BY <3>1, <3>5, <3>6, <3>7
  <2>4. i \in 0..(Len(s) + 1) /\ Len(s) \in Nat
    BY <1>1, <1>3
  <2>5. i \in 0..(Len(s) - 1) \/ i = Len(s) \/ i = Len(s) + 1
    BY <2>4
  <2>. QED  BY <2>1, <2>2, <2>3, <2>5
<1>. QED  BY <1>3, <1>4, <1>8 DEF IsList

\* The pointers of the nodes of a list go to nodes of that list ...
LEMMA ListIsClosed ==
    ASSUME NEW m \in Memory, NEW h \in Nodes, NEW s, IsList(m, h, s),
           NEW n \in NodesOf(h, s)
    PROVE  n \in Nodes /\ m.next[n] \in NodesOf(h, s) /\ m.prev[n] \in NodesOf(h, s)
<1>1. s \in Seq(Nodes \ {h}) /\ Len(s) \in Nat /\ DOMAIN s = 1..Len(s)
  BY LenProperties DEF IsList
<1>2. \A i \in DOMAIN s : s[i] \in Nodes
  BY <1>1, ElementOfSeq
<1>3. \A i \in Int : Ring(h, s, i) \in NodesOf(h, s)
  BY DEF Ring, NodesOf
<1>4. PICK i \in 0..Len(s) : n = Ring(h, s, i)
  <2>1. CASE n = h
    BY <1>1, <2>1 DEF Ring
  <2>2. CASE n # h
    BY <1>1, <2>2 DEF Ring, NodesOf
  <2>. QED  BY <2>1, <2>2
<1>5. m.next[n] \in NodesOf(h, s)
  BY <1>1, <1>3, <1>4 DEF IsList
<1>6. m.prev[n] \in NodesOf(h, s)
  <2>1. CASE i = 0
    <3>1. n = Ring(h, s, Len(s) + 1)
      BY <1>1, <1>4, <2>1 DEF Ring
    <3>2. m.prev[Ring(h, s, Len(s) + 1)] = Ring(h, s, Len(s))
      BY <1>1 DEF IsList
    <3>. QED  BY <1>1, <1>3, <3>1, <3>2
  <2>2. CASE i # 0
    <3>1. i - 1 \in 0..Len(s) /\ (i - 1) + 1 = i
      BY <1>1, <2>2
    <3>2. m.prev[Ring(h, s, (i - 1) + 1)] = Ring(h, s, i - 1)
      BY <3>1 DEF IsList
    <3>. QED  BY <1>3, <1>4, <3>1, <3>2
  <2>. QED  BY <2>1, <2>2
<1>. QED  BY <1>2, <1>5, <1>6 DEF NodesOf

\* ... so that what changes no pointer of them leaves the list as it is.
LEMMA ListUnchanged ==
    ASSUME NEW m \in Memory, NEW q \in Memory, NEW h \in Nodes, NEW s,
           IsList(m, h, s),
           \A n \in NodesOf(h, s) : q.next[n] = m.next[n] /\ q.prev[n] = m.prev[n]
    PROVE  IsList(q, h, s)
<1>1. \A i \in Int : Ring(h, s, i) \in NodesOf(h, s)
  BY DEF Ring, NodesOf
<1>2. \A i \in 0..Len(s) : i \in Int /\ i + 1 \in Int
  OBVIOUS
<1>. QED  BY <1>1, <1>2 DEF IsList

\* What is done to one list leaves every other alone: the list that waits for
\* the handlers and the one that waits for the dispatcher share no request.
THEOREM AddTailLeavesOthers ==
    ASSUME NEW m \in Memory, NEW h \in Nodes, NEW s, IsList(m, h, s),
           NEW e \in Nodes, e \notin NodesOf(h, s),
           NEW g \in Nodes, NEW u, IsList(m, g, u), e \notin NodesOf(g, u),
           NodesOf(g, u) \cap NodesOf(h, s) = {}
    PROVE  IsList(fwd_list_add_tail(m, e, h), g, u)
<1>. DEFINE q == fwd_list_add_tail(m, e, h)
<1>1. h \in NodesOf(h, s) /\ m.prev[h] \in NodesOf(h, s) /\ m.prev[h] \in Nodes
  BY ListIsClosed, EndsOfList DEF NodesOf
<1>2. q \in Memory
  BY <1>1, AddType DEF fwd_list_add_tail
<1>3. ASSUME NEW n \in NodesOf(g, u)
      PROVE  q.next[n] = m.next[n] /\ q.prev[n] = m.prev[n]
  <2>1. n \in Nodes /\ n # e /\ n # h /\ n # m.prev[h]
    BY <1>1, ListIsClosed
  <2>. QED  BY <1>1, <2>1 DEF fwd_list_add_tail, Add, Memory
<1>4. IsList(q, g, u)
  <2>. HIDE DEF q
  <2>. QED  BY <1>2, <1>3, ListUnchanged
<1>. QED  BY <1>4

\* Likewise what is taken out of one list: deleting an entry leaves every list
\* that shares no node with its own as it is.
THEOREM DelLeavesOthers ==
    ASSUME NEW m \in Memory, NEW h \in Nodes, NEW s, IsList(m, h, s),
           NEW e \in NodesOf(h, s),
           NEW g \in Nodes, NEW u, IsList(m, g, u),
           NodesOf(g, u) \cap NodesOf(h, s) = {}
    PROVE  IsList(fwd_list_del(m, e), g, u)
<1>. DEFINE q == fwd_list_del(m, e)
<1>1. /\ e \in Nodes /\ m.prev[e] \in NodesOf(h, s) /\ m.next[e] \in NodesOf(h, s)
  BY ListIsClosed
<1>2. q \in Memory
  BY <1>1, DelType
<1>3. ASSUME NEW n \in NodesOf(g, u)
      PROVE  q.next[n] = m.next[n] /\ q.prev[n] = m.prev[n]
  <2>1. n \in Nodes /\ n # e /\ n # m.next[e] /\ n # m.prev[e]
    BY <1>1, ListIsClosed
  <2>. QED  BY <1>1, <2>1 DEF fwd_list_del, Unlink, init_fwd_list_head, Memory
<1>4. IsList(q, g, u)
  <2>. HIDE DEF q
  <2>. QED  BY <1>2, <1>3, ListUnchanged
<1>. QED  BY <1>4

\* A request that is taken out, from wherever in the list, leaves the others in
\* their order; it is left as an empty list of its own, so that what follows it
\* has to be read before.  The loops over a list do so: the node after the one
\* that is taken out follows the node before it.
THEOREM DelRemoves ==
    ASSUME NEW m \in Memory, NEW h \in Nodes, NEW s, IsList(m, h, s),
           NEW k \in DOMAIN s
    PROVE  /\ IsList(fwd_list_del(m, s[k]), h, Without(s, k))
           /\ fwd_list_empty(fwd_list_del(m, s[k]), s[k])
<1>. DEFINE t == Without(s, k)
            e == s[k]
            q == fwd_list_del(m, e)
            before == Ring(h, s, k - 1)
            after == Ring(h, s, k + 1)
<1>1. /\ s \in Seq(Nodes \ {h}) /\ Len(s) \in Nat /\ DOMAIN s = 1..Len(s)
      /\ k \in 1..Len(s) /\ k \in Int
  BY LenProperties DEF IsList
<1>2. \A i \in DOMAIN s : s[i] \in Nodes /\ s[i] # h
  BY <1>1, ElementOfSeq
<1>3. /\ t \in Seq(Nodes \ {h}) /\ Len(t) = Len(s) - 1
      /\ DOMAIN t = 1..(Len(s) - 1)
      /\ \A i \in 1..(Len(s) - 1) : t[i] = IF i < k THEN s[i] ELSE s[i + 1]
  <2>1. Len(s) - 1 \in Nat
    BY <1>1
  <2>2. \A i \in 1..(Len(s) - 1) : (IF i < k THEN s[i] ELSE s[i + 1]) \in Nodes \ {h}
    BY <1>1, <1>2
  <2>3. t \in [1..(Len(s) - 1) -> Nodes \ {h}]
    BY <2>2 DEF Without
  <2>. QED  BY <2>1, <2>3 DEF Without
<1>4. \A i, j \in DOMAIN t : t[i] = t[j] => i = j
  <2>. SUFFICES ASSUME NEW i \in 1..(Len(s) - 1), NEW j \in 1..(Len(s) - 1),
                       t[i] = t[j]
                PROVE  i = j
    BY <1>3
  <2>. HIDE DEF t
  <2>1. PICK a \in DOMAIN s : t[i] = s[a] /\ a = IF i < k THEN i ELSE i + 1
    BY <1>1, <1>3
  <2>2. PICK b \in DOMAIN s : t[j] = s[b] /\ b = IF j < k THEN j ELSE j + 1
    BY <1>1, <1>3
  <2>3. a = b
    BY <2>1, <2>2 DEF IsList
  <2>. QED  BY <1>1, <2>1, <2>2, <2>3
<1>5. m.prev[e] = before /\ m.next[e] = after
  <2>1. k - 1 \in 0..Len(s) /\ k \in 0..Len(s) /\ (k - 1) + 1 = k
    BY <1>1
  <2>2. Ring(h, s, k) = e
    BY <1>1 DEF Ring
  <2>3. m.prev[Ring(h, s, (k - 1) + 1)] = Ring(h, s, k - 1)
    BY <2>1 DEF IsList
  <2>. QED  BY <2>1, <2>2, <2>3 DEF IsList
<1>6. before \in Nodes /\ after \in Nodes /\ before # e /\ after # e /\ e # h
  <2>1. k - 1 \in DOMAIN s => s[k - 1] # s[k]
    BY <1>1 DEF IsList
  <2>2. k + 1 \in DOMAIN s => s[k + 1] # s[k]
    BY <1>1 DEF IsList
  <2>. QED  BY <1>2, <2>1, <2>2 DEF Ring
<1>7. /\ q.next = [[m.next EXCEPT ![before] = after] EXCEPT ![e] = e]
      /\ q.prev = [[m.prev EXCEPT ![after] = before] EXCEPT ![e] = e]
  BY <1>5 DEF fwd_list_del, Unlink, init_fwd_list_head
<1>8. q.next[before] = after /\ q.prev[after] = before /\ q.next[e] = e
  BY <1>2, <1>6, <1>7 DEF Memory
<1>9. \A i \in 0..Len(t) : /\ q.next[Ring(h, t, i)] = Ring(h, t, i + 1)
                           /\ q.prev[Ring(h, t, i + 1)] = Ring(h, t, i)
  <2>. SUFFICES ASSUME NEW i \in 0..Len(t)
                PROVE  /\ q.next[Ring(h, t, i)] = Ring(h, t, i + 1)
                       /\ q.prev[Ring(h, t, i + 1)] = Ring(h, t, i)
    OBVIOUS
  <2>. HIDE DEF t, q, e
  <2>0. i \in 0..(Len(s) - 1)
    BY <1>3
  <2>1. CASE i = k - 1
    <3>1. Ring(h, t, i) = before /\ Ring(h, t, i + 1) = after
      BY <1>1, <1>3, <2>1 DEF Ring
    <3>. QED  BY <1>8, <3>1
  <2>2. CASE i # k - 1
    <3>1. PICK j \in 0..Len(s) : /\ j # k - 1 /\ j # k
                                 /\ Ring(h, t, i) = Ring(h, s, j)
                                 /\ Ring(h, t, i + 1) = Ring(h, s, j + 1)
      <4>1. CASE i < k - 1
        BY <1>1, <1>3, <2>0, <4>1 DEF Ring
      <4>2. CASE i > k - 1
        <5>1. /\ i + 1 \in 0..Len(s) /\ i + 1 # k - 1 /\ i + 1 # k
          BY <1>1, <2>0, <4>2
        <5>2. Ring(h, t, i) = Ring(h, s, i + 1)
          BY <1>1, <1>3, <2>0, <4>2 DEF Ring
        <5>3. Ring(h, t, i + 1) = Ring(h, s, (i + 1) + 1)
          BY <1>1, <1>3, <2>0, <4>2 DEF Ring
        <5>. QED  BY <5>1, <5>2, <5>3
      <4>. QED  BY <1>1, <2>0, <2>2, <4>1, <4>2
    <3>2. /\ Ring(h, s, j) \in Nodes /\ Ring(h, s, j + 1) \in Nodes
      BY <1>2 DEF Ring
    <3>3. Ring(h, s, j) # e /\ Ring(h, s, j) # before
      <4>1. CASE j = 0
        BY <1>1, <1>2, <3>1, <4>1 DEF Ring, e
      <4>2. CASE j # 0
        <5>1. j \in DOMAIN s /\ k \in DOMAIN s
          BY <1>1, <4>2
        <5>2. k - 1 \in DOMAIN s => s[j] # s[k - 1]
          BY <3>1, <5>1 DEF IsList
        <5>3. s[j] # s[k] /\ s[j] # h
          BY <1>2, <3>1, <5>1 DEF IsList
        <5>. QED  BY <5>1, <5>2, <5>3 DEF Ring, e
      <4>. QED  BY <4>1, <4>2
    <3>4. Ring(h, s, j + 1) # e /\ Ring(h, s, j + 1) # after
      <4>1. CASE j = Len(s)
        BY <1>1, <1>2, <3>1, <4>1 DEF Ring, e
      <4>2. CASE j # Len(s)
        <5>0. j + 1 \in 1..Len(s)
          <6>1. Len(s) \in Nat
            BY <1>1
          <6>. QED  BY <4>2, <6>1
        <5>1. j + 1 \in DOMAIN s /\ k \in DOMAIN s /\ j + 1 # k /\ j + 1 # k + 1
          BY <1>1, <3>1, <5>0
        <5>2. k + 1 \in DOMAIN s => s[j + 1] # s[k + 1]
          BY <5>1 DEF IsList
        <5>3. s[j + 1] # s[k] /\ s[j + 1] # h
          BY <1>2, <5>1 DEF IsList
        <5>. QED  BY <5>1, <5>2, <5>3 DEF Ring, e
      <4>. QED  BY <4>1, <4>2
    <3>5. /\ m.next[Ring(h, s, j)] = Ring(h, s, j + 1)
          /\ m.prev[Ring(h, s, j + 1)] = Ring(h, s, j)
      BY DEF IsList
    <3>6. q.next[Ring(h, s, j)] = m.next[Ring(h, s, j)]
      BY <1>7, <3>2, <3>3 DEF Memory
    <3>7. q.prev[Ring(h, s, j + 1)] = m.prev[Ring(h, s, j + 1)]
      BY <1>7, <3>2, <3>4 DEF Memory
    <3>. QED  BY <3>1, <3>5, <3>6, <3>7
  <2>. QED  BY <2>1, <2>2
<1>. QED  BY <1>3, <1>4, <1>8, <1>9 DEF IsList, fwd_list_empty

-----------------------------------------------------------------------------
(* The type invariant. *)

\* The offset of a request the client loop issues is one the file has.
LEMMA BlockType ==
    ASSUME NEW c \in Clients, NEW i \in 0..NRequests, i < NRequests
    PROVE  BlockOf(c, i) \in Blocks
<1>1. CASE Layout = "shared"
  <2>1. i \in 0..(NRequests - 1)
    BY SizesAssumption
  <2>2. /\ BlockOf(c, i) \in Nat
        /\ BlockOf(c, i) + 1 <= (NClients * NRequests) * 1
    BY <1>1, <2>1, SharedRequestsInFile, SizesAssumption, LayoutAssumption
    DEF BlockOf, Clients
  <2>3. NClients * NRequests \in Nat
    BY SizesAssumption
  <2>. QED  BY <2>2, <2>3 DEF Blocks
<1>2. CASE Layout = "individual"
  <2>1. BlockOf(c, i) = i
    BY <1>2 DEF BlockOf, Offset
  <2>2. NClients * NRequests = NRequests + (NClients - 1) * NRequests
    BY SizesAssumption
  <2>3. (NClients - 1) * NRequests \in Nat
    BY SizesAssumption
  <2>. QED  BY <2>1, <2>2, <2>3, SizesAssumption DEF Blocks
<1>. QED  BY <1>1, <1>2, LayoutAssumption DEF Layouts

\* What a buffer holds at first, and the descriptor range.
LEMMA FreshType == Nobody \in Bytes /\ FreshBuffer \in Bytes
  BY DEF Bytes, FreshBuffer

\* A descriptor is a number.
LEMMA FdType == Fds \subseteq Nat /\ FirstFd \in Fds
  BY FdAssumption DEF Fds

\* Each client has a file.
LEMMA FileType == ASSUME NEW c \in Clients PROVE FileOf(Layout, c) \in Files
  BY DEF Files

\* Each file has a first block.
LEMMA ZeroBlock == 0 \in Blocks
<1>1. NClients * NRequests \in Nat
  BY SizesAssumption
<1>. QED  BY <1>1 DEF Blocks

\* The program starts in the types.
LEMMA InitTypes == Init => TypeOK
<1>. SUFFICES ASSUME Init PROVE TypeOK
  OBVIOUS
<1>1. ClientTypes
  BY SizesAssumption DEF Init, ClientTypes, FirstPhase, NoFd, NoId
<1>2. NetTypes
  BY DEF Init, NetTypes
<1>3. QueueTypes
  <2>1. FirstId \in Ids
    BY IdAssumption DEF Ids
  <2>2. shutdown_control \in BOOLEAN
    BY Zenon DEF Init
  <2>. QED  BY <2>1, <2>2 DEF Init, QueueTypes
<1>4. FileTypes
  <2>1. NoRequest \in ForwardingRequest
    BY ZeroBlock, FreshType DEF NoRequest, ForwardingRequest, NamesFile, NoFd
  <2>. QED  BY <2>1, FreshType, FdType DEF Init, FileTypes, NotOpened
<1>5. ThreadTypes
  BY DEF Init, ThreadTypes
<1>. QED  BY <1>1, <1>2, <1>3, <1>4, <1>5 DEF TypeOK

\* The actions of a client leave the server alone ...
LEMMA ClientLeavesServer ==
    ASSUME TypeOK, UNCHANGED <<serverVars>>,
           aborted' \in {aborted, "ERROR_VALIDATION_FAILED"}
    PROVE  QueueTypes' /\ FileTypes' /\ ThreadTypes'
<1>1. QueueTypes'
  BY DEF TypeOK, QueueTypes, serverVars, ioVars
<1>2. FileTypes'
  BY DEF TypeOK, FileTypes, serverVars
<1>3. ThreadTypes'
  BY DEF TypeOK, ThreadTypes, serverVars, ioVars
<1>. QED  BY <1>1, <1>2, <1>3

\* ... and a request it sends is a message.
LEMMA RequestTypes ==
    ASSUME NetTypes, NEW c \in Clients, NEW m \in Message,
           requestMsgs' = Send(requestMsgs, c, m),
           UNCHANGED <<handleMsgs, ackMsgs, dataMsgs>>
    PROVE  NetTypes'
  BY DEF NetTypes, Send

\* What is received has the type of the channel, which keeps it.
LEMMA ReceiveTypes ==
    ASSUME NEW S, NEW channel \in [Clients -> Seq(S)], NEW c \in Clients,
           channel[c] # <<>>
    PROVE  Head(channel[c]) \in S /\ Recv(channel, c) \in [Clients -> Seq(S)]
  BY DEF Recv

\* So does going on in the loop of requests.
LEMMA NextIterationTypes ==
    ASSUME ClientTypes, NEW c \in Clients, iter[c] < NRequests, NextIteration(c),
           UNCHANGED <<phase, fh, request_id>>
    PROVE  ClientTypes'
<1>1. CASE /\ iter' = [iter EXCEPT ![c] = @ + 1]
           /\ pc' = [pc EXCEPT ![c] = "issue"] /\ UNCHANGED barrier
  <2>1. iter' \in [Clients -> 0..NRequests]
    BY <1>1, SizesAssumption DEF ClientTypes
  <2>. QED  BY <1>1, <2>1 DEF ClientTypes
<1>2. CASE pc' = [pc EXCEPT ![c] = "drained"] /\ EnterBarrier(c) /\ UNCHANGED iter
  BY <1>2 DEF ClientTypes, EnterBarrier
<1>. QED  BY <1>1, <1>2 DEF NextIteration

\* Every action of a client preserves the types.
LEMMA ClientPreservesTypes ==
    ASSUME TypeOK, NEW c \in Clients, Client(c) PROVE TypeOK'
<1>. USE DEF TypeOK
<1>1. CASE ClientOpen(c)
  <2>1. ClientTypes'
    BY <1>1 DEF ClientTypes, ClientOpen, Request
  <2>2. [operation |-> "open", file |-> FileOf(Layout, c), file_handle |-> NoFd,
         offset |-> 0] \in Message
    BY FileType, ZeroBlock DEF Message, NamesFile, Operations, NoFd
  <2>3. NetTypes'
    BY <1>1, <2>2, RequestTypes DEF ClientOpen, Request
  <2>. QED  BY <1>1, <2>1, <2>3, ClientLeavesServer DEF ClientOpen
<1>2. CASE ClientHandle(c)
  <2>1. /\ Head(handleMsgs[c]) \in Int
        /\ handleMsgs' \in [Clients -> Seq(Int)]
    BY <1>2, ReceiveTypes DEF ClientHandle, NetTypes
  <2>2. ClientTypes'
    BY <1>2, <2>1 DEF ClientTypes, ClientHandle, EnterBarrier
  <2>3. NetTypes'
    BY <1>2, <2>1 DEF NetTypes, ClientHandle
  <2>. QED  BY <1>2, <2>2, <2>3, ClientLeavesServer DEF ClientHandle
<1>3. CASE ClientStart(c)
  <2>1. ClientTypes'
    BY <1>3, SizesAssumption DEF ClientTypes, ClientStart
  <2>2. NetTypes'
    BY <1>3 DEF NetTypes, ClientStart, netVars
  <2>. QED  BY <1>3, <2>1, <2>2, ClientLeavesServer DEF ClientStart
<1>4. CASE ClientIssue(c)
  <2>1. ClientTypes'
    BY <1>4 DEF ClientTypes, ClientIssue, Request
  <2>2. BlockOf(c, iter[c]) \in Blocks
    BY <1>4, BlockType DEF ClientTypes, ClientIssue
  <2>3. [operation |-> phase[c], file |-> Nobody, file_handle |-> fh[c],
         offset |-> BlockOf(c, iter[c])] \in Message
    <3>1. phase[c] \in {"write", "read"} /\ fh[c] \in Int
      BY DEF ClientTypes
    <3>. QED  BY <2>2, <3>1 DEF Message, NamesFile, Operations
  <2>4. NetTypes'
    BY <1>4, <2>3, RequestTypes DEF ClientIssue, Request
  <2>. QED  BY <1>4, <2>1, <2>4, ClientLeavesServer DEF ClientIssue
<1>5. CASE ClientSendData(c)
  <2>1. /\ Head(ackMsgs[c]) \in Int
        /\ ackMsgs' \in [Clients -> Seq(Int)]
    BY <1>5, ReceiveTypes DEF ClientSendData, NetTypes
  <2>2. ClientTypes'
    BY <1>5, <2>1 DEF ClientTypes, ClientSendData
  <2>3. NetTypes'
    BY <1>5, <2>1 DEF NetTypes, ClientSendData, Bytes
  <2>. QED  BY <1>5, <2>2, <2>3, ClientLeavesServer DEF ClientSendData
<1>6. CASE ClientReadId(c)
  <2>1. /\ Head(ackMsgs[c]) \in Int
        /\ ackMsgs' \in [Clients -> Seq(Int)]
    BY <1>6, ReceiveTypes DEF ClientReadId, NetTypes
  <2>2. ClientTypes'
    BY <1>6, <2>1 DEF ClientTypes, ClientReadId
  <2>3. NetTypes'
    BY <1>6, <2>1 DEF NetTypes, ClientReadId
  <2>. QED  BY <1>6, <2>2, <2>3, ClientLeavesServer DEF ClientReadId
<1>7. CASE ClientWriteDone(c)
  <2>1. ackMsgs' \in [Clients -> Seq(Int)]
    BY <1>7, ReceiveTypes DEF ClientWriteDone, NetTypes
  <2>2. ClientTypes'
    BY <1>7, NextIterationTypes DEF ClientTypes, ClientWriteDone
  <2>3. NetTypes'
    BY <1>7, <2>1 DEF NetTypes, ClientWriteDone
  <2>. QED  BY <1>7, <2>2, <2>3, ClientLeavesServer DEF ClientWriteDone
<1>8. CASE ClientReadDone(c)
  <2>1. ClientTypes'
    <3>1. CASE NextIteration(c)
      BY <1>8, <3>1, NextIterationTypes DEF ClientTypes, ClientReadDone
    <3>2. CASE UNCHANGED <<pc, iter, barrier>>
      BY <1>8, <3>2 DEF ClientTypes, ClientReadDone
    <3>. QED  BY <1>8, <3>1, <3>2 DEF ClientReadDone
  <2>2. NetTypes'
    BY <1>8 DEF NetTypes, ClientReadDone
  <2>. QED  BY <1>8, <2>1, <2>2, ClientLeavesServer DEF ClientReadDone
<1>9. CASE ClientLoopEnd(c)
  <2>1. ClientTypes'
    BY <1>9 DEF ClientTypes, ClientLoopEnd, EnterBarrier
  <2>2. NetTypes'
    BY <1>9 DEF NetTypes, ClientLoopEnd, netVars
  <2>. QED  BY <1>9, <2>1, <2>2, ClientLeavesServer DEF ClientLoopEnd
<1>10. CASE ClientClose(c)
  <2>1. ClientTypes'
    BY <1>10 DEF ClientTypes, ClientClose, Request
  <2>2. [operation |-> "close", file |-> FileOf(Layout, c), file_handle |-> NoFd,
         offset |-> 0] \in Message
    BY FileType, ZeroBlock DEF Message, NamesFile, Operations, NoFd
  <2>3. NetTypes'
    BY <1>10, <2>2, RequestTypes DEF ClientClose, Request
  <2>. QED  BY <1>10, <2>1, <2>3, ClientLeavesServer DEF ClientClose
<1>11. CASE ClientClosed(c)
  <2>1. /\ Head(ackMsgs[c]) \in Int
        /\ ackMsgs' \in [Clients -> Seq(Int)]
    BY <1>11, ReceiveTypes DEF ClientClosed, NetTypes
  <2>2. ClientTypes'
    BY <1>11, <2>1 DEF ClientTypes, ClientClosed, EnterBarrier
  <2>3. NetTypes'
    BY <1>11, <2>1 DEF NetTypes, ClientClosed
  <2>. QED  BY <1>11, <2>2, <2>3, ClientLeavesServer DEF ClientClosed
<1>12. CASE ClientNext(c)
  <2>1. ClientTypes'
    BY <1>12 DEF ClientTypes, ClientNext, Follows
  <2>2. NetTypes'
    BY <1>12 DEF NetTypes, ClientNext, netVars
  <2>. QED  BY <1>12, <2>1, <2>2, ClientLeavesServer DEF ClientNext
<1>13. CASE ClientShutdown(c)
  <2>1. ClientTypes'
    BY <1>13 DEF ClientTypes, ClientShutdown, Request
  <2>2. [operation |-> "empty", file |-> Nobody, file_handle |-> NoFd,
         offset |-> 0] \in Message
    BY ZeroBlock DEF Message, NamesFile, NoFd
  <2>3. NetTypes'
    BY <1>13, <2>2, RequestTypes DEF ClientShutdown, Request
  <2>. QED  BY <1>13, <2>1, <2>3, ClientLeavesServer DEF ClientShutdown
<1>. QED
  BY <1>1, <1>2, <1>3, <1>4, <1>5, <1>6, <1>7, <1>8, <1>9, <1>10, <1>11, <1>12,
     <1>13 DEF Client

----------------------------------------------------------------------------
(* The server. *)

\* The identifier that follows one, around the end of the range, is one.
LEMMA IdAfter == ASSUME NEW g \in Ids PROVE generate_identifier(g) \in Ids
  BY IdAssumption DEF Ids, generate_identifier

\* A queue with an identifier appended is a queue.
LEMMA AppendType ==
    ASSUME NEW S, NEW s \in Seq(S), NEW e \in S
    PROVE  Append(s, e) \in Seq(S)
  OBVIOUS

\* So is a queue that lost its head.
LEMMA TakeType ==
    ASSUME NEW S, NEW s \in Seq(S), s # <<>>
    PROVE  Head(s) \in S /\ Tail(s) \in Seq(S)
  OBVIOUS

\* The listener preserves the types.
LEMMA ListenerPreservesTypes ==
    ASSUME TypeOK, Listener PROVE TypeOK'
<1>. USE DEF TypeOK
<1>1. PICK c \in Clients : ListenerRequest(c) \/ ListenerShutdown(c)
  BY DEF Listener
<1>2. CASE ListenerRequest(c)
  <2>1. /\ Head(requestMsgs[c]) \in Message
        /\ requestMsgs' \in [Clients -> Seq(Message)]
    BY <1>2, ReceiveTypes DEF ListenerRequest, NetTypes
  <2>2. global_id' \in Ids
    BY <1>2, IdAfter DEF ListenerRequest, QueueTypes
  <2>3. incoming_queue' \in Seq(Ids)
    BY <1>2, <2>2, AppendType DEF ListenerRequest, QueueTypes
  <2>4. fr' \in [Ids -> ForwardingRequest]
    <3>. DEFINE m == Head(requestMsgs[c])
                r == [operation |-> m.operation, file |-> m.file,
                      file_handle |-> m.file_handle, offset |-> m.offset,
                      rank |-> c, buffer |-> Nobody]
    <3>1. /\ m.operation \in Operations \cup {"empty"} /\ m.operation # "empty"
          /\ m.file \in Files \cup {Nobody} /\ m.file_handle \in Int
          /\ m.offset \in Blocks /\ NamesFile(m)
      BY <1>2, <2>1 DEF ListenerRequest, Message
    <3>2. r \in ForwardingRequest
      BY <3>1, FreshType DEF ForwardingRequest, NamesFile
    <3>3. fr' = [fr EXCEPT ![global_id'] = r]
      BY <1>2 DEF ListenerRequest
    <3>. QED  BY <3>2, <3>3 DEF FileTypes
  <2>5. ClientTypes' /\ ThreadTypes'
    BY <1>2 DEF ListenerRequest, ClientTypes, ThreadTypes, clientVars, ioVars
  <2>6. NetTypes'
    BY <1>2, <2>1 DEF ListenerRequest, NetTypes
  <2>7. QueueTypes'
    BY <1>2, <2>2, <2>3 DEF ListenerRequest, QueueTypes, ioVars
  <2>8. FileTypes'
    BY <1>2, <2>4 DEF ListenerRequest, FileTypes
  <2>. QED  BY <2>5, <2>6, <2>7, <2>8
<1>3. CASE ListenerShutdown(c)
  <2>1. requestMsgs' \in [Clients -> Seq(Message)]
    BY <1>3, ReceiveTypes DEF ListenerShutdown, NetTypes
  <2>2. shutdown_control' \in BOOLEAN
    BY <1>3 DEF ListenerShutdown
  <2>3. ClientTypes' /\ ThreadTypes' /\ FileTypes'
    BY <1>3
    DEF ListenerShutdown, ClientTypes, ThreadTypes, FileTypes, clientVars, ioVars
  <2>4. NetTypes'
    BY <1>3, <2>1 DEF ListenerShutdown, NetTypes
  <2>5. QueueTypes'
    BY <1>3, <2>2 DEF ListenerShutdown, QueueTypes, ioVars
  <2>. QED  BY <2>3, <2>4, <2>5
<1>. QED  BY <1>1, <1>2, <1>3

\* A handler thread at work has a request in hand.
LEMMA HandlerHolds ==
    ASSUME TypeOK, NEW h \in Handlers, handler[h].at \in {"got", "reply"}
    PROVE  /\ handler[h].id \in Ids
           /\ frOf(h) \in ForwardingRequest
           /\ NamesFile(frOf(h))
           /\ frOf(h).operation # "none" => frOf(h).rank \in Clients
  BY DEF TypeOK, ThreadTypes, FileTypes, IdleHandler, frOf, ForwardingRequest

\* A handler with its next step is in its type.
LEMMA HandlerGoesOn ==
    ASSUME TypeOK, NEW h \in Handlers, handler[h].at = "got",
           handler' = [handler EXCEPT ![h].at = "reply"],
           UNCHANGED <<dispatcher, pool>>
    PROVE  ThreadTypes'
<1>1. handler[h] \in [at : {"got", "reply"}, id : Ids]
  BY DEF TypeOK, ThreadTypes, IdleHandler
<1>2. [handler[h] EXCEPT !.at = "reply"] \in [at : {"got", "reply"}, id : Ids]
  BY <1>1
<1>. QED  BY <1>2 DEF TypeOK, ThreadTypes

\* The hash of open files.
Handle == [fh : Fds \cup {NoFd}, references : Nat]

\* An open file with one user more or less is in its type.
LEMMA OpenedType ==
    ASSUME NEW e \in Handle
    PROVE  /\ [e EXCEPT !.references = @ + 1] \in Handle
           /\ e.references # 0 => Release(e) \in Handle
<1>1. [e EXCEPT !.references = @ + 1] \in Handle
  BY DEF Handle
<1>2. NotOpened \in Handle
  BY DEF Handle, NotOpened
<1>3. ASSUME e.references # 0 PROVE [e EXCEPT !.references = @ - 1] \in Handle
  BY <1>3 DEF Handle
<1>. QED  BY <1>1, <1>2, <1>3 DEF Release

\* The mark of a free identifier has the type of a request.
LEMMA NoRequestType == NoRequest \in ForwardingRequest
  BY ZeroBlock, FreshType DEF NoRequest, ForwardingRequest, NamesFile, NoFd

\* The handle of a file that is opened is in the range.
LEMMA NewHandleType ==
    ASSUME TypeOK, NEW d \in NewHandles
    PROVE  d \in Fds
<1>1. pvfs_fh_id \in Fds
  BY DEF TypeOK, FileTypes
<1>2. generate_pfs_identifier(pvfs_fh_id) \in Fds
  BY <1>1, FdAssumption DEF Fds, generate_pfs_identifier
<1>. QED  BY <1>2 DEF NewHandles

\* The handler threads preserve the types.
LEMMA HandlerPreservesTypes ==
    ASSUME TypeOK, NEW h \in Handlers, Handler(h) PROVE TypeOK'
<1>. USE DEF TypeOK
<1>1. CASE HandlerPop(h)
  <2>1. Head(incoming_queue) \in Ids /\ incoming_queue' \in Seq(Ids)
    BY <1>1, TakeType DEF HandlerPop, QueueTypes
  <2>2. ThreadTypes'
    BY <1>1, <2>1 DEF HandlerPop, ThreadTypes, ioVars
  <2>3. QueueTypes'
    BY <1>1, <2>1 DEF HandlerPop, QueueTypes, ioVars
  <2>4. ClientTypes' /\ NetTypes' /\ FileTypes'
    BY <1>1 DEF HandlerPop, ClientTypes, NetTypes, FileTypes, clientVars, netVars
  <2>. QED  BY <2>2, <2>3, <2>4
<1>2. CASE HandlerOpen(h)
  <2>1. ThreadTypes'
    BY <1>2, HandlerGoesOn DEF HandlerOpen, handlerOnly, ioVars
  <2>2. opened_files' \in [Files -> Handle]
    <3>. DEFINE f == frOf(h).file
    <3>0. opened_files \in [Files -> Handle]
      BY DEF FileTypes, Handle
    <3>1. CASE NotYetOpen(f)
      <4>1. PICK d \in NewHandles :
               opened_files' = [opened_files EXCEPT ![f] =
                                   [fh |-> d, references |-> 1]]
        BY <1>2, <3>1 DEF HandlerOpen
      <4>3. d \in Fds
        BY NewHandleType
      <4>2. [fh |-> d, references |-> 1] \in Handle
        BY <4>3 DEF Handle
      <4>. QED  BY <3>0, <4>1, <4>2
    <3>2. CASE ~NotYetOpen(f)
      <4>1. opened_files' = [opened_files EXCEPT ![f].references = @ + 1]
        BY <1>2, <3>2 DEF HandlerOpen
      <4>. DEFINE e == [opened_files[f] EXCEPT !.references = @ + 1]
      <4>2. f \in Files => e \in Handle
        BY <3>0, OpenedType
      <4>3. opened_files' = [opened_files EXCEPT ![f] = e]
        BY <4>1, Zenon
      <4>. HIDE DEF e
      <4>. QED  BY <3>0, <4>2, <4>3
    <3>. QED  BY <3>1, <3>2
  <2>5. pvfs_fh_id' \in Fds
    <3>1. pvfs_fh_id' = pvfs_fh_id \/ pvfs_fh_id' \in NewHandles
      BY <1>2 DEF HandlerOpen
    <3>. QED  BY <3>1, NewHandleType DEF FileTypes
  <2>3. FileTypes'
    BY <1>2, <2>2, <2>5 DEF HandlerOpen, FileTypes, handlerOnly, Handle
  <2>4. ClientTypes' /\ NetTypes' /\ QueueTypes'
    BY <1>2 DEF HandlerOpen, ClientTypes, NetTypes, QueueTypes, handlerOnly,
       clientVars, ioVars
  <2>. QED  BY <2>1, <2>3, <2>4
<1>3. CASE HandlerSendHandle(h)
  <2>1. handler[h].id \in Ids /\ frOf(h).rank \in Clients /\ frOf(h).file \in Files
    BY <1>3, HandlerHolds DEF HandlerSendHandle, NamesFile
  <2>2. opened_files[frOf(h).file].fh \in Int
    <3>1. opened_files[frOf(h).file].fh \in Fds \cup {NoFd}
      BY <2>1 DEF FileTypes
    <3>2. Fds \cup {NoFd} \subseteq Int
      BY FdType DEF NoFd
    <3>. QED  BY <3>1, <3>2, Zenon
  <2>3. ThreadTypes'
    BY <1>3 DEF HandlerSendHandle, ThreadTypes, handlerOnly, ioVars
  <2>4. NetTypes'
    BY <1>3, <2>1, <2>2 DEF HandlerSendHandle, NetTypes, handlerOnly, Send
  <2>5. FileTypes'
    BY <1>3, NoRequestType DEF HandlerSendHandle, FileTypes, handlerOnly
  <2>6. ClientTypes' /\ QueueTypes'
    BY <1>3 DEF HandlerSendHandle, ClientTypes, QueueTypes, handlerOnly,
       clientVars, ioVars
  <2>. QED  BY <2>3, <2>4, <2>5, <2>6
<1>4. CASE HandlerDelegate(h)
  <2>. DEFINE job == [fn |-> IF frOf(h).operation = "read" THEN "handle_read"
                             ELSE "handle_write",
                      ids |-> <<handler[h].id>>]
  <2>1. job \in Job
    <3>1. <<handler[h].id>> \in Seq(Ids) /\ <<handler[h].id>> # <<>>
      BY <1>4, HandlerHolds DEF HandlerDelegate
    <3>. QED  BY <3>1 DEF Job, JobFunctions
  <2>2. jobs' = Append(jobs, job)
    BY <1>4 DEF HandlerDelegate
  <2>3. jobs' \in Seq(Job)
    BY <2>1, <2>2, AppendType DEF QueueTypes
  <2>4. ThreadTypes'
    BY <1>4 DEF HandlerDelegate, ThreadTypes, handlerOnly, ioVars
  <2>5. QueueTypes'
    BY <1>4, <2>3 DEF HandlerDelegate, QueueTypes, handlerOnly, ioVars
  <2>6. ClientTypes' /\ NetTypes' /\ FileTypes'
    BY <1>4 DEF HandlerDelegate, ClientTypes, NetTypes, FileTypes, handlerOnly,
       clientVars
  <2>. QED  BY <2>4, <2>5, <2>6
<1>5. CASE HandlerClose(h)
  <2>1. ThreadTypes'
    BY <1>5, HandlerGoesOn DEF HandlerClose, handlerOnly, ioVars
  <2>2. opened_files' \in [Files -> Handle]
    <3>. DEFINE f == frOf(h).file
    <3>0. opened_files \in [Files -> Handle]
      BY DEF FileTypes, Handle
    <3>1. CASE NotYetOpen(f)
      BY <1>5, <3>0, <3>1 DEF HandlerClose
    <3>2. CASE ~NotYetOpen(f)
      <4>1. opened_files' = [opened_files EXCEPT ![f] = Release(@)]
        BY <1>5, <3>2 DEF HandlerClose
      <4>2. f \in Files => Release(opened_files[f]) \in Handle
        BY <3>0, <3>2, OpenedType DEF NotYetOpen
      <4>. QED  BY <3>0, <4>1, <4>2
    <3>. QED  BY <3>1, <3>2
  <2>4. FileTypes'
    BY <1>5, <2>2 DEF HandlerClose, FileTypes, handlerOnly, Handle
  <2>5. ClientTypes' /\ NetTypes' /\ QueueTypes'
    BY <1>5 DEF HandlerClose, ClientTypes, NetTypes, QueueTypes, handlerOnly,
       clientVars, ioVars
  <2>. QED  BY <2>1, <2>4, <2>5
<1>6. CASE HandlerAckClose(h)
  <2>1. handler[h].id \in Ids /\ frOf(h).rank \in Clients
    BY <1>6, HandlerHolds DEF HandlerAckClose
  <2>2. ThreadTypes'
    BY <1>6 DEF HandlerAckClose, ThreadTypes, handlerOnly, ioVars
  <2>3. NetTypes'
    BY <1>6, <2>1 DEF HandlerAckClose, NetTypes, handlerOnly, Send, NoFd
  <2>4. FileTypes'
    BY <1>6, NoRequestType DEF HandlerAckClose, FileTypes, handlerOnly
  <2>5. ClientTypes' /\ QueueTypes'
    BY <1>6 DEF HandlerAckClose, ClientTypes, QueueTypes, handlerOnly,
       clientVars, ioVars
  <2>. QED  BY <2>2, <2>3, <2>4, <2>5
<1>. QED  BY <1>1, <1>2, <1>3, <1>4, <1>5, <1>6 DEF Handler

----------------------------------------------------------------------------
(* The thread pool. *)

\* What a pool thread has in hand while it is at work.
Work == {w \in [fn : JobFunctions, ids : Seq(Ids) \ {<<>>}, at : Points,
                k : Nat \ {0}] :
            w.fn # "dispatch_operation" => w.k <= Len(w.ids)}

\* A thread at work has a job with identifiers.
LEMMA PoolHolds ==
    ASSUME TypeOK, NEW t \in PoolThreads, pool[t].at \in Points
    PROVE  /\ pool[t] \in Work
           /\ pool[t].k <= Len(pool[t].ids) => Current(t) \in Ids
<1>1. pool[t] \in Work
  BY DEF TypeOK, ThreadTypes, IdleThread, Points, Work
<1>. QED  BY <1>1 DEF Current, Work

\* The request that a thread is at is one of its job.
LEMMA CurrentHolds ==
    ASSUME TypeOK, NEW t \in PoolThreads, pool[t].at \in Points,
           pool[t].k <= Len(pool[t].ids)
    PROVE  /\ Current(t) \in Ids
           /\ fr[Current(t)] \in ForwardingRequest
  BY PoolHolds DEF TypeOK, FileTypes

\* A pool thread moves to another point, to the next request, or is free.
LEMMA PoolGoesOn ==
    ASSUME TypeOK, NEW t \in PoolThreads, NEW w \in Work \cup {IdleThread},
           pool' = [pool EXCEPT ![t] = w], UNCHANGED <<handler, dispatcher>>
    PROVE  ThreadTypes'
  BY DEF TypeOK, ThreadTypes, Work

\* A thread with its next step is in its type.
LEMMA GotoType ==
    ASSUME TypeOK, NEW t \in PoolThreads, pool[t].at \in Points,
           NEW at \in Points, Goto(t, at), UNCHANGED <<handler, dispatcher>>
    PROVE  ThreadTypes'
<1>1. pool[t] \in Work
  BY PoolHolds
<1>2. [pool[t] EXCEPT !.at = at] \in Work
  BY <1>1 DEF Work
<1>. QED  BY <1>2, PoolGoesOn DEF Goto

\* What a job of the pool leaves alone.
LEMMA PoolLeaves ==
    ASSUME TypeOK, UNCHANGED <<poolOnly>>
    PROVE  /\ ClientTypes'
           /\ UNCHANGED <<requestMsgs, handleMsgs, handler, dispatcher>>
           /\ UNCHANGED <<opened_files, pvfs_fh_id>>
           /\ UNCHANGED <<global_id, shutdown, shutdown_control,
                          incoming_queue, ready_queue>>
  BY DEF TypeOK, ClientTypes, poolOnly, clientVars

\* A step of the pool that sends nothing keeps the channels in their types.
LEMMA PoolNetTypes ==
    ASSUME TypeOK, UNCHANGED <<requestMsgs, handleMsgs, ackMsgs, dataMsgs>>
    PROVE  NetTypes'
  BY DEF TypeOK, NetTypes

\* A step of the pool changes of the queues only the jobs, the hash and
\* AGIOS.
LEMMA PoolQueueTypes ==
    ASSUME TypeOK,
           UNCHANGED <<global_id, shutdown, shutdown_control,
                       incoming_queue, ready_queue>>,
           requests' \subseteq Ids, agios' \subseteq Ids, jobs' \in Seq(Job)
    PROVE  QueueTypes'
  BY DEF TypeOK, QueueTypes

\* And of the files only their bytes, and those of the requests.
LEMMA PoolFileTypes ==
    ASSUME TypeOK, UNCHANGED <<opened_files, pvfs_fh_id>>,
           fr' \in [Ids -> ForwardingRequest],
           disk' \in [Files -> [Blocks -> Bytes]],
           aborted' \in {aborted, "SIGSEGV"}
    PROVE  FileTypes'
  BY DEF TypeOK, FileTypes

\* An acknowledgement leaves its channel in its type.
LEMMA AckType ==
    ASSUME TypeOK, NEW c \in Clients, NEW v \in Int, ackMsgs' = Send(ackMsgs, c, v),
           UNCHANGED <<requestMsgs, handleMsgs, dataMsgs>>
    PROVE  NetTypes'
  BY DEF TypeOK, NetTypes, Send

\* A data message has the type of one.
LEMMA DataType ==
    ASSUME TypeOK, NEW c \in Clients, NEW id \in Int, NEW b \in Bytes,
           dataMsgs' = dataMsgs \cup {[to |-> "client", rank |-> c, tag |-> id,
                                      data |-> b]},
           UNCHANGED <<requestMsgs, handleMsgs, ackMsgs>>
    PROVE  NetTypes'
<1>1. [to |-> "client", rank |-> c, tag |-> id, data |-> b]
        \in [to : {"server", "client"}, rank : Clients, tag : Int,
             data : Bytes]
  OBVIOUS
<1>. QED  BY <1>1 DEF TypeOK, NetTypes

\* A thread that has answered goes on with the next request, or is idle.
LEMMA AfterReplyType ==
    ASSUME NEW w \in Work, w.k <= Len(w.ids)
    PROVE  AfterReply(w) \in Work \cup {IdleThread}
<1>1. CASE w.k = Len(w.ids)
  BY <1>1 DEF AfterReply
<1>2. CASE w.k # Len(w.ids)
  <2>. DEFINE u == [w EXCEPT !.at = "begin"]
              v == [u EXCEPT !.k = @ + 1]
  <2>1. AfterReply(w) = v
    BY <1>2 DEF AfterReply
  <2>2. u \in Work /\ u.k = w.k /\ u.ids = w.ids
    BY DEF Work, Points
  <2>. HIDE DEF u
  <2>3. u.k + 1 <= Len(u.ids)
    BY <1>2, <2>2 DEF Work
  <2>4. v \in Work
    BY <2>2, <2>3 DEF Work
  <2>. QED  BY <2>1, <2>4
<1>. QED  BY <1>1, <1>2

\* Identifiers are integers.
LEMMA IdsAreInts == Ids \subseteq Int
  BY IdAssumption DEF Ids

\* A request with new bytes in its buffer is a request.
LEMMA BufferType ==
    ASSUME TypeOK, NEW id \in Ids, NEW b \in Bytes
    PROVE  [fr EXCEPT ![id].buffer = b] \in [Ids -> ForwardingRequest]
<1>1. fr[id] \in ForwardingRequest /\ fr \in [Ids -> ForwardingRequest]
  BY DEF TypeOK, FileTypes
<1>2. [fr[id] EXCEPT !.buffer = b] \in ForwardingRequest
  BY <1>1 DEF ForwardingRequest, NamesFile
<1>. QED  BY <1>1, <1>2

\* A rearrangement of a sequence of identifiers is one of the same length.
LEMMA RearrangedType ==
    ASSUME NEW ids \in Seq(Ids) \ {<<>>},
           NEW order \in Bijection(DOMAIN ids, Range(ids))
    PROVE  order \in Seq(Ids) \ {<<>>} /\ Len(order) = Len(ids)
<1>1. Len(ids) \in Nat /\ Len(ids) # 0 /\ DOMAIN ids = 1..Len(ids)
  BY EmptySeq, LenProperties
<1>2. Range(ids) \subseteq Ids
  BY <1>1 DEF Range
<1>3. order \in [1..Len(ids) -> Ids]
  BY <1>1, <1>2 DEF Bijection, Injection
<1>4. order \in Seq(Ids) /\ Len(order) = Len(ids)
  BY <1>1, <1>3
<1>. QED  BY <1>1, <1>4

\* The jobs of the thread pool preserve the types.
LEMMA PoolPreservesTypes ==
    ASSUME TypeOK, NEW t \in PoolThreads, Pool(t) PROVE TypeOK'
<1>. USE DEF TypeOK
<1>1. CASE PoolPull(t)
  <2>1. Head(jobs) \in Job /\ jobs' \in Seq(Job)
    BY <1>1, TakeType DEF PoolPull, QueueTypes
  <2>2. [fn |-> Head(jobs).fn, ids |-> Head(jobs).ids, at |-> "begin", k |-> 1]
           \in Work
    BY <2>1 DEF Work, Job, Points
  <2>3. ThreadTypes'
    BY <1>1, <2>2, PoolGoesOn DEF PoolPull, ioVars
  <2>4. QueueTypes'
    BY <1>1, <2>1 DEF PoolPull, QueueTypes, ioVars
  <2>5. ClientTypes' /\ NetTypes' /\ FileTypes'
    BY <1>1 DEF PoolPull, ClientTypes, NetTypes, FileTypes, clientVars, netVars
  <2>. QED  BY <2>3, <2>4, <2>5
<1>2. CASE HandleAck(t)
  <2>1. pool[t].at \in Points /\ pool[t] \in Work /\ Current(t) \in Ids
    BY <1>2, PoolHolds DEF HandleAck, Runs, Points, Work
  <2>2. fr[Current(t)].rank \in Clients \/ ackMsgs' = ackMsgs
    <3>1. fr[Current(t)].rank \notin Clients => ackMsgs' = ackMsgs
      BY <1>2 DEF HandleAck, Send, NetTypes
    <3>. QED  BY <3>1
  <2>3. NetTypes'
    BY <1>2, <2>1, <2>2, AckType, PoolNetTypes, IdsAreInts, PoolLeaves DEF HandleAck
  <2>4. AfterAck(pool[t].fn) \in Points
    BY DEF AfterAck, Points
  <2>5. ThreadTypes'
    BY <1>2, <2>1, <2>4, GotoType, PoolLeaves DEF HandleAck
  <2>6. QueueTypes' /\ ClientTypes'
    BY <1>2, PoolLeaves DEF HandleAck, QueueTypes
  <2>7. FileTypes'
    BY <1>2, <2>1, BufferType, FreshType, PoolLeaves DEF HandleAck, FileTypes
  <2>. QED  BY <2>3, <2>5, <2>6, <2>7
<1>3. CASE HandleWriteWait(t)
  <2>1. pool[t].at \in Points /\ pool[t] \in Work /\ Current(t) \in Ids
    BY <1>3, PoolHolds DEF HandleWriteWait, Runs, Points, Work
  <2>2. PICK m \in dataMsgs : /\ dataMsgs' = dataMsgs \ {m}
                              /\ fr' = [fr EXCEPT ![Current(t)].buffer = m.data]
    BY <1>3 DEF HandleWriteWait
  <2>3. m.data \in Bytes
    BY DEF NetTypes
  <2>4. FileTypes'
    BY <1>3, <2>1, <2>2, <2>3, BufferType, PoolLeaves
    DEF HandleWriteWait, FileTypes
  <2>5. ThreadTypes'
    BY <1>3, <2>1, GotoType, PoolLeaves DEF HandleWriteWait, Points
  <2>6. NetTypes' /\ QueueTypes' /\ ClientTypes'
    BY <1>3, <2>2, PoolLeaves DEF HandleWriteWait, NetTypes, QueueTypes
  <2>. QED  BY <2>4, <2>5, <2>6
<1>4. CASE HandleHash(t)
  <2>1. pool[t].at \in Points /\ pool[t] \in Work /\ Current(t) \in Ids
    BY <1>4, PoolHolds DEF HandleHash, Runs, Points, Work
  <2>2. ThreadTypes'
    BY <1>4, <2>1, GotoType, PoolLeaves DEF HandleHash, Points
  <2>3. QueueTypes'
    BY <1>4, <2>1, PoolLeaves DEF HandleHash, QueueTypes
  <2>4. NetTypes' /\ FileTypes' /\ ClientTypes'
    BY <1>4, PoolLeaves, PoolNetTypes DEF HandleHash, FileTypes
  <2>. QED  BY <2>2, <2>3, <2>4
<1>5. CASE HandleAgios(t)
  <2>1. Current(t) \in Ids
    BY <1>5, PoolHolds DEF HandleAgios, Runs, Points, Work
  <2>2. ThreadTypes'
    BY <1>5, PoolGoesOn, PoolLeaves DEF HandleAgios
  <2>3. QueueTypes'
    BY <1>5, <2>1, PoolLeaves DEF HandleAgios, QueueTypes
  <2>4. NetTypes' /\ FileTypes' /\ ClientTypes'
    BY <1>5, PoolLeaves, PoolNetTypes DEF HandleAgios, FileTypes
  <2>. QED  BY <2>2, <2>3, <2>4
<1>6. CASE DispatchWrite(t)
  <2>1. pool[t].at \in Points /\ pool[t] \in Work /\ fr[Current(t)] \in ForwardingRequest
    BY <1>6, PoolHolds, CurrentHolds DEF DispatchWrite, TransfersNext, Runs, Points
  <2>2. [pool[t] EXCEPT !.k = @ + 1] \in Work
    BY <1>6, <2>1 DEF Work, DispatchWrite, TransfersNext, Runs
  <2>3. ThreadTypes'
    BY <1>6, <2>2, PoolGoesOn, PoolLeaves DEF DispatchWrite
  <2>4. disk' \in [Files -> [Blocks -> Bytes]]
    <3>. DEFINE r == fr[Current(t)]
    <3>1. r.buffer \in Bytes
      BY <2>1 DEF ForwardingRequest
    <3>2. PICK moved \in {TRUE, FullTransfers} :
             disk' = [f \in Files |->
                        IF moved /\ f \in FilesOf(r.file_handle)
                        THEN [disk[f] EXCEPT ![r.offset] = r.buffer] ELSE disk[f]]
      BY <1>6 DEF DispatchWrite, Pwrite
    <3>. HIDE DEF r
    <3>3. ASSUME NEW f \in Files
          PROVE  /\ disk[f] \in [Blocks -> Bytes]
                 /\ [disk[f] EXCEPT ![r.offset] = r.buffer]
                       \in [Blocks -> Bytes]
      BY <3>1 DEF FileTypes
    <3>. QED  BY <3>2, <3>3
  <2>5. FileTypes'
    BY <1>6, <2>4, PoolLeaves DEF DispatchWrite, FileTypes
  <2>6. NetTypes' /\ QueueTypes' /\ ClientTypes'
    BY <1>6, PoolLeaves, PoolNetTypes DEF DispatchWrite, QueueTypes
  <2>. QED  BY <2>3, <2>5, <2>6
<1>7. CASE DispatchRead(t)
  <2>1. /\ pool[t].at \in Points /\ pool[t] \in Work
        /\ Current(t) \in Ids /\ fr[Current(t)] \in ForwardingRequest
    BY <1>7, PoolHolds, CurrentHolds DEF DispatchRead, TransfersNext, Runs, Points
  <2>2. [pool[t] EXCEPT !.k = @ + 1] \in Work
    BY <1>7, <2>1 DEF Work, DispatchRead, TransfersNext, Runs
  <2>3. ThreadTypes'
    BY <1>7, <2>2, PoolGoesOn, PoolLeaves DEF DispatchRead
  <2>4. fr' \in [Ids -> ForwardingRequest]
    <3>. DEFINE r == fr[Current(t)]
                g == CHOOSE f \in FilesOf(r.file_handle) : TRUE
    <3>1. CASE fr' = fr
      BY <3>1 DEF FileTypes
    <3>2. CASE /\ FilesOf(r.file_handle) # {}
               /\ fr' = [fr EXCEPT ![Current(t)].buffer = disk[g][r.offset]]
      <4>1. g \in Files
        BY <3>2 DEF FilesOf
      <4>2. r.offset \in Blocks
        BY <2>1 DEF ForwardingRequest
      <4>3. disk[g][r.offset] \in Bytes
        BY <4>1, <4>2 DEF FileTypes
      <4>. HIDE DEF g, r
      <4>. QED  BY <2>1, <3>2, <4>3, BufferType
    <3>. QED  BY <1>7, <3>1, <3>2 DEF DispatchRead, Pread
  <2>5. FileTypes'
    BY <1>7, <2>4, PoolLeaves DEF DispatchRead, FileTypes
  <2>6. NetTypes' /\ QueueTypes' /\ ClientTypes'
    BY <1>7, PoolLeaves, PoolNetTypes DEF DispatchRead, QueueTypes
  <2>. QED  BY <2>3, <2>5, <2>6
<1>8. CASE DispatchDone(t)
  <2>1. pool[t] \in Work
    BY <1>8 DEF DispatchDone, ThreadTypes, IdleThread, Work
  <2>2. [fn |-> "callback", ids |-> pool[t].ids] \in Job
    BY <2>1 DEF Work, Job, JobFunctions
  <2>3. jobs' \in Seq(Job)
    BY <1>8, <2>2, AppendType DEF DispatchDone, QueueTypes
  <2>4. ThreadTypes'
    BY <1>8, PoolGoesOn, PoolLeaves DEF DispatchDone
  <2>5. QueueTypes'
    BY <1>8, <2>3, PoolLeaves DEF DispatchDone, QueueTypes
  <2>6. NetTypes' /\ FileTypes' /\ ClientTypes'
    BY <1>8, PoolLeaves, PoolNetTypes DEF DispatchDone, FileTypes
  <2>. QED  BY <2>4, <2>5, <2>6
<1>9. CASE CallbackDel(t)
  <2>1. pool[t].at \in Points
    BY <1>9 DEF CallbackDel, Runs, Points
  <2>2. ThreadTypes'
    BY <1>9, <2>1, GotoType, PoolLeaves DEF CallbackDel, Points
  <2>3. QueueTypes'
    BY <1>9, PoolLeaves DEF CallbackDel, QueueTypes
  <2>4. FileTypes'
    BY <1>9, PoolLeaves DEF CallbackDel, FileTypes
  <2>5. NetTypes' /\ ClientTypes'
    BY <1>9, PoolLeaves, PoolNetTypes DEF CallbackDel
  <2>. QED  BY <2>2, <2>3, <2>4, <2>5
<1>10. CASE CallbackReply(t)
  <2>1. pool[t] \in Work /\ Current(t) \in Ids
    BY <1>10, PoolHolds DEF CallbackReply, Runs, Points, Work
  <2>. DEFINE r == fr[Current(t)]
  <2>2. r \in ForwardingRequest
    BY <2>1 DEF FileTypes
  <2>3. NetTypes'
    <3>1. CASE r.operation = "read"
      <4>1. r.rank \in Clients /\ r.buffer \in Bytes
        BY <2>2, <3>1 DEF ForwardingRequest
      <4>2. dataMsgs' = dataMsgs \cup {[to |-> "client", rank |-> r.rank,
                                        tag |-> Current(t), data |-> r.buffer]}
        BY <1>10, <3>1 DEF CallbackReply, Answered
      <4>3. UNCHANGED <<ackMsgs, requestMsgs, handleMsgs>>
        BY <1>10, <3>1, PoolLeaves DEF CallbackReply
      <4>4. Current(t) \in Int
        BY <2>1, IdsAreInts
      <4>. HIDE DEF r
      <4>. QED  BY <4>1, <4>2, <4>3, <4>4, DataType
    <3>2. CASE r.operation # "read"
      <4>1. ackMsgs' = Send(ackMsgs, r.rank, 1) /\ UNCHANGED dataMsgs
        BY <1>10, <3>2 DEF CallbackReply, Answered
      <4>2. UNCHANGED <<requestMsgs, handleMsgs>>
        BY <1>10, PoolLeaves DEF CallbackReply
      <4>3. r.rank \notin Clients => ackMsgs' = ackMsgs
        BY <4>1 DEF Send, NetTypes
      <4>. HIDE DEF r
      <4>. QED  BY <4>1, <4>2, <4>3, AckType, PoolNetTypes
    <3>. QED  BY <3>1, <3>2
  <2>4. ThreadTypes'
    <3>1. pool[t].k <= Len(pool[t].ids)
      BY <1>10, <2>1 DEF CallbackReply, Runs, Work
    <3>2. AfterReply(pool[t]) \in Work \cup {IdleThread}
      BY <2>1, <3>1, AfterReplyType
    <3>3. /\ pool' = [pool EXCEPT ![t] = AfterReply(pool[t])]
          /\ UNCHANGED <<handler, dispatcher>>
      BY <1>10, PoolLeaves DEF CallbackReply
    <3>. QED  BY <3>2, <3>3, PoolGoesOn
  <2>5. FileTypes'
    BY <1>10, NoRequestType, PoolLeaves DEF CallbackReply, FileTypes
  <2>6. QueueTypes' /\ ClientTypes'
    BY <1>10, PoolLeaves DEF CallbackReply, QueueTypes
  <2>. QED  BY <2>3, <2>4, <2>5, <2>6
<1>11. CASE DispatchSort(t)
  <2>1. /\ pool[t].at \in Points /\ pool[t] \in Work
        /\ pool[t].ids \in Seq(Ids) \ {<<>>}
    BY <1>11, PoolHolds DEF DispatchSort, Runs, Points, Work
  <2>2. PICK order \in Bijection(DOMAIN pool[t].ids, Range(pool[t].ids)) :
           pool' = [pool EXCEPT ![t].ids = order, ![t].at = "io"]
    BY <1>11 DEF DispatchSort
  <2>3. order \in Seq(Ids) \ {<<>>} /\ Len(order) = Len(pool[t].ids)
    BY <2>1, <2>2, RearrangedType
  <2>4. [pool[t] EXCEPT !.ids = order, !.at = "io"] \in Work
    BY <2>1, <2>3 DEF Work, Points
  <2>5. ThreadTypes'
    <3>. DEFINE w == [pool[t] EXCEPT !.ids = order, !.at = "io"]
    <3>1. pool' = [pool EXCEPT ![t] = w]
      BY <2>2 DEF ThreadTypes
    <3>2. UNCHANGED <<handler, dispatcher>>
      BY <1>11, PoolLeaves DEF DispatchSort
    <3>3. w \in Work
      BY <2>4
    <3>. HIDE DEF w
    <3>. QED  BY <3>1, <3>2, <3>3, PoolGoesOn
  <2>6. FileTypes'
    BY <1>11, PoolLeaves DEF DispatchSort, FileTypes
  <2>7. QueueTypes'
    BY <1>11, PoolLeaves DEF DispatchSort, QueueTypes
  <2>8. NetTypes' /\ ClientTypes'
    BY <1>11, PoolLeaves, PoolNetTypes DEF DispatchSort
  <2>. QED  BY <2>5, <2>6, <2>7, <2>8
<1>. QED
  BY <1>1, <1>2, <1>3, <1>4, <1>5, <1>6, <1>7, <1>8, <1>9, <1>10, <1>11 DEF Pool

----------------------------------------------------------------------------
(* AGIOS and the dispatcher. *)

\* An arrangement of a set of identifiers is a sequence of them.
LEMMA OrderType ==
    ASSUME NEW ids \in SUBSET Ids, NEW order \in Bijection(1..Cardinality(ids), ids)
    PROVE  order \in Seq(Ids)
<1>1. IsFiniteSet(Ids)
  BY FS_Interval, IdAssumption DEF Ids
<1>2. Cardinality(ids) \in Nat
  BY <1>1, FS_Subset, FS_CardinalityType
<1>3. order \in [1..Cardinality(ids) -> Ids]
  BY DEF Bijection, Injection
<1>. QED  BY <1>2, <1>3

\* The steps of AGIOS keep the types.
LEMMA AgiosPreservesTypes == ASSUME TypeOK, Agios PROVE TypeOK'
<1>. USE DEF TypeOK
<1>1. UNCHANGED agiosOnly
  BY DEF Agios, AgiosCallback, AgiosCallbackAggregated
<1>2. agios' \subseteq Ids /\ ready_queue' \in Seq(Ids)
  <2>1. CASE \E id \in agios : AgiosCallback(id)
    BY <2>1, AppendType DEF AgiosCallback, QueueTypes
  <2>2. CASE \E ids \in SUBSET agios : AgiosCallbackAggregated(ids)
    <3>1. PICK ids \in SUBSET agios : AgiosCallbackAggregated(ids)
      BY <2>2
    <3>2. PICK order \in Bijection(1..Cardinality(ids), ids) :
             ready_queue' = ready_queue \o order
      BY <3>1 DEF AgiosCallbackAggregated
    <3>3. order \in Seq(Ids)
      BY OrderType DEF QueueTypes
    <3>4. ready_queue' \in Seq(Ids)
      BY <3>2, <3>3, ConcatProperties DEF QueueTypes
    <3>. QED  BY <3>1, <3>4 DEF AgiosCallbackAggregated, QueueTypes
  <2>. QED  BY <2>1, <2>2 DEF Agios
<1>3. QueueTypes'
  BY <1>1, <1>2 DEF QueueTypes, agiosOnly
<1>4. ClientTypes' /\ NetTypes'
  BY <1>1 DEF ClientTypes, NetTypes, agiosOnly, clientVars, netVars
<1>5. FileTypes' /\ ThreadTypes'
  BY <1>1 DEF FileTypes, ThreadTypes, agiosOnly
<1>. QED  BY <1>3, <1>4, <1>5

\* A batch never takes more from the ready queue than it holds.
LEMMA JoiningType ==
    ASSUME TypeOK, NEW id
    PROVE  Joining(id) \in 0..Len(ready_queue)
<1>. DEFINE T == {n \in DOMAIN ready_queue : n <= BatchRoom /\ \A j \in 1..n :
                    ready_queue[j] \in requests /\ Same(id, ready_queue[j])}
<1>1. DOMAIN ready_queue = 1..Len(ready_queue) /\ Len(ready_queue) \in Nat
  BY DEF TypeOK, QueueTypes
<1>2. /\ IsFiniteSet(1..Len(ready_queue))
      /\ Cardinality(1..Len(ready_queue)) = Len(ready_queue)
  <2>. DEFINE m == Len(ready_queue)
  <2>1. 1 \in Int /\ m \in Nat /\ m \in Int
    BY <1>1
  <2>. HIDE DEF m
  <2>2. /\ IsFiniteSet(1..m)
        /\ Cardinality(1..m) = IF 1 > m THEN 0 ELSE m - 1 + 1
    BY <2>1, FS_Interval
  <2>3. Cardinality(1..m) = m
    BY <2>1, <2>2
  <2>. QED  BY <2>2, <2>3 DEF m
<1>3. T \in SUBSET (1..Len(ready_queue))
  BY <1>1
<1>4. Joining(id) = Cardinality(T)
  BY DEF Joining
<1>. HIDE DEF T
<1>5. IsFiniteSet(T) /\ Cardinality(T) <= Len(ready_queue)
  BY <1>2, <1>3, FS_Subset
<1>6. Cardinality(T) \in Nat
  BY <1>5, FS_CardinalityType
<1>. QED  BY <1>1, <1>4, <1>5, <1>6

\* What the dispatcher takes from the ready queue and what it leaves are
\* queues.
LEMMA SplitType ==
    ASSUME TypeOK, NEW n \in 0..Len(ready_queue)
    PROVE  SubSeq(ready_queue, 1, n) \in Seq(Ids) /\ Remaining(n) \in Seq(Ids)
<1>1. ready_queue \in Seq(Ids) /\ Len(ready_queue) \in Nat
  BY DEF TypeOK, QueueTypes
<1>2. \A i \in 1..n : ready_queue[i] \in Ids
  BY <1>1
<1>3. \A i \in (n + 1)..Len(ready_queue) : ready_queue[i] \in Ids
  BY <1>1
<1>. QED  BY <1>1, <1>2, <1>3, SubSeqProperties DEF Remaining

\* What an action of the dispatcher leaves alone.
LEMMA DispatcherLeaves ==
    ASSUME TypeOK, UNCHANGED dispatcherOnly,
           aborted' \in {aborted, "SIGSEGV", "ERROR_INVALID_REQUEST_ID"},
           ready_queue' \in Seq(Ids), jobs' \in Seq(Job),
           dispatcher' \in {IdleDispatcher} \cup
              [at : {"find", "batch", "submit"}, ids : Seq(Ids) \ {<<>>}]
    PROVE  TypeOK'
<1>. USE DEF TypeOK
<1>1. ClientTypes' /\ NetTypes'
  BY DEF ClientTypes, NetTypes, dispatcherOnly, clientVars, netVars
<1>2. QueueTypes'
  BY DEF QueueTypes, dispatcherOnly
<1>3. FileTypes'
  BY DEF FileTypes, dispatcherOnly
<1>4. ThreadTypes'
  BY DEF ThreadTypes, dispatcherOnly
<1>. QED  BY <1>1, <1>2, <1>3, <1>4

\* The steps of the dispatcher keep the types.
LEMMA DispatcherPreservesTypes == ASSUME TypeOK, Dispatcher PROVE TypeOK'
<1>. DEFINE Held == [at : {"find", "batch", "submit"}, ids : Seq(Ids) \ {<<>>}]
<1>1. ready_queue \in Seq(Ids) /\ jobs \in Seq(Job)
  BY DEF TypeOK, QueueTypes
<1>2. dispatcher.at # "pop" => dispatcher \in Held
  BY DEF TypeOK, ThreadTypes, IdleDispatcher
<1>3. CASE DispatcherPop
  <2>1. Head(ready_queue) \in Ids /\ Tail(ready_queue) \in Seq(Ids)
    BY <1>1, <1>3, TakeType DEF DispatcherPop
  <2>2. [at |-> "find", ids |-> <<Head(ready_queue)>>] \in Held
    BY <2>1
  <2>. HIDE DEF Held
  <2>3. dispatcher' \in Held
    BY <1>3, <2>2 DEF DispatcherPop
  <2>. QED  BY <1>1, <1>3, <2>1, <2>3, DispatcherLeaves DEF DispatcherPop, Held
<1>4. CASE DispatcherFind
  <2>1. dispatcher' \in Held
    BY <1>2, <1>4 DEF DispatcherFind
  <2>. HIDE DEF Held
  <2>. QED  BY <1>1, <1>4, <2>1, DispatcherLeaves DEF DispatcherFind, Held
<1>5. CASE DispatcherBatch
  <2>. DEFINE n == Joining(dispatcher.ids[1])
  <2>1. n \in 0..Len(ready_queue)
    BY JoiningType
  <2>2. /\ dispatcher' = [at |-> "submit",
                          ids |-> dispatcher.ids \o SubSeq(ready_queue, 1, n)]
        /\ ready_queue' = Remaining(n)
        /\ aborted' \in {aborted, "SIGSEGV"}
        /\ UNCHANGED <<dispatcherOnly, jobs>>
    BY <1>5 DEF DispatcherBatch
  <2>. HIDE DEF n
  <2>3. SubSeq(ready_queue, 1, n) \in Seq(Ids) /\ Remaining(n) \in Seq(Ids)
    BY <2>1, SplitType
  <2>4. dispatcher.ids \in Seq(Ids) /\ dispatcher.ids # <<>>
    BY <1>2, <1>5 DEF DispatcherBatch
  <2>5. dispatcher.ids \o SubSeq(ready_queue, 1, n) \in Seq(Ids) \ {<<>>}
    BY <2>3, <2>4, ConcatProperties, ConcatSimplifications
  <2>6. dispatcher' \in Held
    BY <2>2, <2>5
  <2>. HIDE DEF Held
  <2>. QED  BY <1>1, <2>2, <2>3, <2>6, DispatcherLeaves DEF Held
<1>6. CASE DispatcherSubmit
  <2>1. [fn |-> "dispatch_operation", ids |-> dispatcher.ids] \in Job
    BY <1>2, <1>6 DEF DispatcherSubmit, Job, JobFunctions
  <2>2. jobs' \in Seq(Job)
    BY <1>1, <1>6, <2>1, AppendType DEF DispatcherSubmit
  <2>. HIDE DEF Held
  <2>. QED  BY <1>1, <1>6, <2>2, DispatcherLeaves DEF DispatcherSubmit
<1>. QED  BY <1>3, <1>4, <1>5, <1>6 DEF Dispatcher

----------------------------------------------------------------------------

\* Every step keeps the types.
LEMMA NextPreservesTypes == TypeOK /\ [Next]_vars => TypeOK'
<1>. SUFFICES ASSUME TypeOK, [Next]_vars PROVE TypeOK'
  OBVIOUS
<1>1. CASE \E c \in Clients : Client(c)
  BY <1>1, ClientPreservesTypes
<1>2. CASE Listener
  BY <1>2, ListenerPreservesTypes
<1>3. CASE \E h \in Handlers : Handler(h)
  BY <1>3, HandlerPreservesTypes
<1>4. CASE \E t \in PoolThreads : Pool(t)
  BY <1>4, PoolPreservesTypes
<1>5. CASE Agios
  BY <1>5, AgiosPreservesTypes
<1>6. CASE Dispatcher
  BY <1>6, DispatcherPreservesTypes
<1>7. CASE UNCHANGED vars
  <2>1. ClientTypes' /\ NetTypes'
    BY <1>7 DEF TypeOK, ClientTypes, NetTypes, vars, clientVars, netVars
  <2>2. QueueTypes' /\ FileTypes'
    BY <1>7 DEF TypeOK, QueueTypes, FileTypes, vars, ioVars
  <2>3. ThreadTypes'
    BY <1>7 DEF TypeOK, ThreadTypes, vars, ioVars
  <2>. QED  BY <2>1, <2>2, <2>3 DEF TypeOK
<1>. QED
  BY <1>1, <1>2, <1>3, <1>4, <1>5, <1>6, <1>7 DEF Next, Finished

\* For every number of clients, threads, requests and identifiers: whatever
\* the threads of the forwarder do, every value stays in the range that the
\* code takes for granted when it uses it.  The generated identifier indexes
\* the hash, every job carries at least one request, every request of a
\* client is at an offset of the file (main.c, listener.c, dispatcher.c).
THEOREM TypeCorrect == Spec => []TypeOK
<1>. QED  BY InitTypes, NextPreservesTypes, PTL DEF Spec

-----------------------------------------------------------------------------
(* The stages of the requests: the queues. *)

\* Identifiers that move on are at their new stage, the others where they
\* were.
LEMMA MoveType ==
    ASSUME NEW stage \in [Ids -> Stages], NEW X \in SUBSET Ids, NEW to \in Stages
    PROVE  /\ Move(stage, X, to) \in [Ids -> Stages]
           /\ \A id \in Ids : Move(stage, X, to)[id] = IF id \in X THEN to ELSE stage[id]
  BY DEF Move

\* A queue is still right when identifiers of other stages move elsewhere.
LEMMA QueueFrame ==
    ASSUME NEW stage \in [Ids -> Stages], NEW X \in SUBSET Ids, NEW to,
           NEW q, NEW s, QueueHolds(q, s, stage), to # s, \A id \in X : stage[id] # s
    PROVE  QueueHolds(q, s, Move(stage, X, to))
  BY DEF Move, QueueHolds

\* Appending an identifier to a queue moves it to the stage of the queue.
LEMMA QueueAppend ==
    ASSUME NEW stage \in [Ids -> Stages], NEW q \in Seq(Ids), NEW s,
           QueueHolds(q, s, stage), NEW id \in Ids, stage[id] # s
    PROVE  QueueHolds(Append(q, id), s, Move(stage, {id}, s))
<1>. DEFINE r == Append(q, id)
<1>1. /\ Len(q) \in Nat /\ DOMAIN q = 1..Len(q)
      /\ DOMAIN r = 1..(Len(q) + 1) /\ r[Len(q) + 1] = id
      /\ \A j \in 1..Len(q) : r[j] = q[j]
  BY AppendProperties
<1>. HIDE DEF r
<1>2. \A j \in DOMAIN q : q[j] \in Ids /\ stage[q[j]] = s /\ q[j] # id
  BY DEF QueueHolds, Range
<1>3. IsInjective(r)
  BY <1>1, <1>2 DEF QueueHolds, IsInjective
<1>4. Range(r) = Range(q) \cup {id}
  BY <1>1 DEF Range
<1>5. Range(r) = {i \in Ids : Move(stage, {id}, s)[i] = s}
  BY <1>4 DEF QueueHolds, Move
<1>. QED  BY <1>3, <1>5 DEF QueueHolds, r

\* Taking the head of a queue moves that identifier away from its stage.
LEMMA QueueTake ==
    ASSUME NEW stage \in [Ids -> Stages], NEW q \in Seq(Ids), NEW s, NEW to,
           QueueHolds(q, s, stage), q # <<>>, to # s
    PROVE  /\ Head(q) \in Ids /\ stage[Head(q)] = s
           /\ QueueHolds(Tail(q), s, Move(stage, {Head(q)}, to))
<1>. DEFINE r == Tail(q)
<1>1. /\ Len(q) \in Nat \ {0} /\ DOMAIN q = 1..Len(q) /\ Head(q) = q[1]
      /\ DOMAIN r = 1..(Len(q) - 1)
      /\ \A j \in 1..(Len(q) - 1) : r[j] = q[j + 1]
  BY HeadTailProperties, EmptySeq, LenProperties
<1>. HIDE DEF r
<1>2. Head(q) \in Ids /\ stage[Head(q)] = s
  BY <1>1 DEF QueueHolds, Range
<1>3. IsInjective(r)
  <2>. SUFFICES ASSUME NEW j \in DOMAIN r, NEW k \in DOMAIN r, r[j] = r[k] PROVE j = k
    BY DEF IsInjective
  <2>1. /\ j \in Nat /\ k \in Nat /\ j + 1 \in DOMAIN q /\ k + 1 \in DOMAIN q
        /\ q[j + 1] = q[k + 1]
    BY <1>1
  <2>2. j + 1 = k + 1
    BY <2>1 DEF QueueHolds, IsInjective
  <2>. QED  BY <2>1, <2>2
<1>4. Range(r) = Range(q) \ {Head(q)}
  <2>1. ASSUME NEW j \in DOMAIN r PROVE r[j] \in Range(q) \ {Head(q)}
    <3>1. j + 1 \in DOMAIN q /\ j + 1 # 1 /\ 1 \in DOMAIN q
      BY <1>1
    <3>. QED  BY <1>1, <3>1 DEF Range, QueueHolds, IsInjective
  <2>2. ASSUME NEW j \in DOMAIN q, q[j] # Head(q) PROVE q[j] \in Range(r)
    <3>1. j - 1 \in DOMAIN r /\ (j - 1) + 1 = j
      BY <1>1, <2>2
    <3>2. r[j - 1] = q[j]
      BY <1>1, <3>1
    <3>. QED  BY <3>1, <3>2 DEF Range
  <2>. QED  BY <2>1, <2>2 DEF Range
<1>5. Range(r) = {i \in Ids : Move(stage, {Head(q)}, to)[i] = s}
  BY <1>4 DEF QueueHolds, Move
<1>. QED  BY <1>2, <1>3, <1>5 DEF QueueHolds, r

\* Appending a sequence of identifiers moves all of them to the stage of the
\* queue.
LEMMA QueueConcat ==
    ASSUME NEW stage \in [Ids -> Stages], NEW q \in Seq(Ids), NEW r \in Seq(Ids), NEW s,
           QueueHolds(q, s, stage), IsInjective(r), \A id \in Range(r) : stage[id] # s
    PROVE  QueueHolds(q \o r, s, Move(stage, Range(r), s))
<1>. DEFINE u == q \o r
<1>1. /\ Len(q) \in Nat /\ DOMAIN q = 1..Len(q) /\ Len(r) \in Nat /\ DOMAIN r = 1..Len(r)
      /\ DOMAIN u = 1..(Len(q) + Len(r))
      /\ \A j \in 1..Len(q) : u[j] = q[j]
      /\ \A j \in (Len(q) + 1)..(Len(q) + Len(r)) : u[j] = r[j - Len(q)]
  BY ConcatProperties, LenProperties
<1>. HIDE DEF u
<1>2. \A j \in DOMAIN q : q[j] \in Ids /\ stage[q[j]] = s
  BY DEF QueueHolds, Range
<1>3. \A j \in DOMAIN r : r[j] \in Ids /\ stage[r[j]] # s
  BY DEF Range
<1>4. \A j \in DOMAIN u : j \notin 1..Len(q) => j - Len(q) \in DOMAIN r /\ u[j] = r[j - Len(q)]
  BY <1>1
<1>5. IsInjective(u)
  <2>. SUFFICES ASSUME NEW i \in DOMAIN u, NEW j \in DOMAIN u, u[i] = u[j] PROVE i = j
    BY DEF IsInjective
  <2>1. i \in Int /\ j \in Int
    BY <1>1
  <2>2. CASE i \in 1..Len(q) /\ j \in 1..Len(q)
    BY <2>2, <1>1 DEF QueueHolds, IsInjective
  <2>3. CASE i \notin 1..Len(q) /\ j \notin 1..Len(q)
    <3>1. i - Len(q) = j - Len(q)
      BY <2>3, <1>4 DEF IsInjective
    <3>. QED  BY <3>1, <2>1, <1>1
  <2>4. CASE (i \in 1..Len(q)) # (j \in 1..Len(q))
    BY <2>4, <1>1, <1>2, <1>3, <1>4
  <2>. QED  BY <2>2, <2>3, <2>4
<1>6. Range(u) = Range(q) \cup Range(r)
  BY RangeConcatenation DEF u
<1>7. Range(r) \subseteq Ids
  BY <1>3 DEF Range
<1>8. Range(u) = {i \in Ids : Move(stage, Range(r), s)[i] = s}
  BY <1>6, <1>7 DEF QueueHolds, Move
<1>. QED  BY <1>5, <1>8 DEF QueueHolds, u

\* The first n elements of q, and the others.
Splits(q, n, a, b) == /\ n \in 0..Len(q)
                      /\ a = SubSeq(q, 1, n) /\ b = SubSeq(q, n + 1, Len(q))

\* The front of a queue consists of different identifiers of its stage.
LEMMA QueueFront ==
    ASSUME NEW stage \in [Ids -> Stages], NEW q \in Seq(Ids), NEW s,
           QueueHolds(q, s, stage), NEW n, NEW a, NEW b, Splits(q, n, a, b)
    PROVE  /\ a \in Seq(Ids) /\ Len(a) = n /\ \A j \in 1..n : a[j] = q[j]
           /\ IsInjective(a) /\ \A id \in Range(a) : id \in Ids /\ stage[id] = s
<1>. USE DEF Splits
<1>1. /\ Len(q) \in Nat /\ DOMAIN q = 1..Len(q)
      /\ \A j \in DOMAIN q : q[j] \in Ids /\ stage[q[j]] = s
  BY LenProperties DEF QueueHolds, Range
<1>2. /\ a \in Seq(Ids) /\ Len(a) = n /\ DOMAIN a = 1..n
      /\ \A j \in 1..n : a[j] = q[j]
  <2>1. \A j \in 1..n : q[j] \in Ids
    BY <1>1
  <2>. QED  BY <1>1, <2>1, SubSeqProperties
<1>4. IsInjective(a)
  BY <1>1, <1>2 DEF QueueHolds, IsInjective
<1>5. \A id \in Range(a) : id \in Ids /\ stage[id] = s
  BY <1>1, <1>2 DEF Range
<1>. QED  BY <1>2, <1>4, <1>5

\* Taking the front of a queue moves its identifiers away from the stage.
LEMMA QueueSplit ==
    ASSUME NEW stage \in [Ids -> Stages], NEW q \in Seq(Ids), NEW s, NEW to,
           QueueHolds(q, s, stage), to # s,
           NEW n, NEW a, NEW b, Splits(q, n, a, b),
           NEW next, next = Move(stage, Range(a), to)
    PROVE  QueueHolds(b, s, next)
<1>. USE DEF Splits
<1>1. /\ Len(q) \in Nat /\ DOMAIN q = 1..Len(q)
      /\ \A j \in DOMAIN q : q[j] \in Ids /\ stage[q[j]] = s
  BY LenProperties DEF QueueHolds, Range
<1>2. /\ a \in Seq(Ids) /\ Len(a) = n /\ DOMAIN a = 1..n
      /\ \A j \in 1..n : a[j] = q[j]
  <2>1. \A j \in 1..n : q[j] \in Ids
    BY <1>1
  <2>. QED  BY <1>1, <2>1, SubSeqProperties
<1>3. /\ b \in Seq(Ids) /\ DOMAIN b = 1..(Len(q) - n)
      /\ \A j \in 1..(Len(q) - n) : b[j] = q[n + j]
  <2>1. \A j \in (n + 1)..Len(q) : q[j] \in Ids
    BY <1>1
  <2>2. n + 1 \in Int /\ n \in Int /\ n + 1 <= Len(q) + 1
    BY <1>1
  <2>. QED  BY <1>1, <2>1, <2>2, SubSeqProperties
<1>4. IsInjective(a) /\ IsInjective(b)
  <2>1. IsInjective(a)
    BY <1>1, <1>2 DEF QueueHolds, IsInjective
  <2>2. ASSUME NEW i \in DOMAIN b, NEW j \in DOMAIN b, b[i] = b[j] PROVE i = j
    <3>1. n + i \in DOMAIN q /\ n + j \in DOMAIN q
      BY <1>1, <1>3
    <3>2. n + i = n + j
      BY <3>1, <2>2, <1>3 DEF QueueHolds, IsInjective
    <3>. QED  BY <3>2, <1>3
  <2>. QED  BY <2>1, <2>2 DEF IsInjective
<1>5. \A id \in Range(a) : id \in Ids /\ stage[id] = s
  BY <1>1, <1>2 DEF Range
<1>6. Range(b) = Range(q) \ Range(a)
  <2>1. ASSUME NEW j \in DOMAIN b PROVE b[j] \in Range(q) \ Range(a)
    <3>1. n + j \in DOMAIN q /\ n + j \notin 1..n /\ b[j] = q[n + j]
      BY <1>1, <1>3
    <3>2. \A i \in DOMAIN a : i \in DOMAIN q /\ a[i] = q[i] /\ i # n + j
      BY <1>1, <1>2, <3>1
    <3>. QED  BY <3>1, <3>2 DEF Range, QueueHolds, IsInjective
  <2>2. ASSUME NEW j \in DOMAIN q, q[j] \notin Range(a) PROVE q[j] \in Range(b)
    <3>1. j \notin 1..n
      BY <2>2, <1>2 DEF Range
    <3>2. j - n \in DOMAIN b /\ n + (j - n) = j
      BY <1>1, <1>3, <3>1
    <3>3. b[j - n] = q[j]
      BY <1>3, <3>2
    <3>. QED  BY <3>2, <3>3 DEF Range
  <2>3. \A x \in Range(b) : x \in Range(q) \ Range(a)
    BY <2>1 DEF Range
  <2>4. \A x \in Range(q) : x \notin Range(a) => x \in Range(b)
    BY <2>2 DEF Range
  <2>. QED  BY <2>3, <2>4
<1>7. Range(b) = {i \in Ids : next[i] = s}
  BY <1>6 DEF QueueHolds, Move
<1>. QED  BY <1>2, <1>4, <1>5, <1>7 DEF QueueHolds

\* An action leaves alone what the server is to do with the requests it has.
KeepsRequests(stage) ==
    \A id \in Ids : stage[id] \notin {"free", "reply", "last"} =>
        /\ fr'[id].operation = fr[id].operation
        /\ fr'[id].file_handle = fr[id].file_handle

\* A job is one where it is: in the queue of the pool, ...
LEMMA JobAt ==
    ASSUME NEW fn, NEW ids, IsJob(fn, ids)', NEW j,
           fn = jobs'[j].fn, ids = jobs'[j].ids
    PROVE  IsJob(jobs[j].fn, jobs[j].ids)'
<1>1. IsBatch(ids)'
  BY DEF IsJob
<1>2. IsBatch(jobs[j].ids)'
  BY <1>1 DEF IsBatch, Same
<1>3. fn \in Handles => Len(ids) = 1 /\ fn = HandleOf(ids[1])'
  BY DEF IsJob, HandleOf
<1>. QED  BY <1>2, <1>3 DEF IsJob, HandleOf

\* ... or with a thread.
LEMMA JobOfThread ==
    ASSUME NEW fn, NEW ids, IsJob(fn, ids)', NEW t,
           fn = pool'[t].fn, ids = pool'[t].ids
    PROVE  IsJob(pool[t].fn, pool[t].ids)'
<1>1. IsBatch(ids)'
  BY DEF IsJob
<1>2. IsBatch(pool[t].ids)'
  BY <1>1 DEF IsBatch, Same
<1>3. fn \in Handles => Len(ids) = 1 /\ fn = HandleOf(ids[1])'
  BY DEF IsJob, HandleOf
<1>. QED  BY <1>2, <1>3 DEF IsJob, HandleOf

\* A batch and a job stay what they are while the requests in them do.
LEMMA BatchFrame ==
    ASSUME NEW stage \in [Ids -> Stages], KeepsRequests(stage),
           NEW ids \in Seq(Ids),
           \A k \in DOMAIN ids : stage[ids[k]] \notin {"free", "reply", "last"}, NEW fn
    PROVE  /\ IsBatch(ids) => IsBatch(ids)'
           /\ ids # <<>> /\ IsJob(fn, ids) => IsJob(fn, ids)'
<1>1. \A k \in DOMAIN ids : /\ ids[k] \in Ids
                            /\ fr'[ids[k]].operation = fr[ids[k]].operation
                            /\ fr'[ids[k]].file_handle = fr[ids[k]].file_handle
  BY DEF KeepsRequests
<1>2. IsBatch(ids) => IsBatch(ids)'
  BY <1>1 DEF IsBatch, Same
<1>3. ids # <<>> => 1 \in DOMAIN ids
  OBVIOUS
<1>4. ids # <<>> => HandleOf(ids[1])' = HandleOf(ids[1])
  BY <1>1, <1>3 DEF HandleOf
<1>. QED  BY <1>2, <1>4 DEF IsJob

----------------------------------------------------------------------------

\* Identifiers that no handler has may move among the other stages.
LEMMA HandlersFrame ==
    ASSUME TypeOK, NEW stage \in [Ids -> Stages], NEW X \in SUBSET Ids, NEW to \in Stages,
           HandlersHold(stage), UNCHANGED handler,
           to \notin {"got", "reply"}, \A id \in X : stage[id] \notin {"got", "reply"}
    PROVE  HandlersHold(Move(stage, X, to))'
<1>1. \A h \in Handlers : handler[h].at # "idle" =>
          handler[h].id \in Ids /\ handler[h].at \in {"got", "reply"}
  BY DEF TypeOK, ThreadTypes, IdleHandler
<1>. QED  BY <1>1 DEF HandlersHold, Move

\* An idle handler gets an identifier.
LEMMA HandlersTake ==
    ASSUME TypeOK, NEW stage \in [Ids -> Stages], HandlersHold(stage),
           NEW h \in Handlers, handler[h].at = "idle", NEW id \in Ids,
           stage[id] \notin {"got", "reply"},
           handler' = [handler EXCEPT ![h] = [at |-> "got", id |-> id]]
    PROVE  HandlersHold(Move(stage, {id}, "got"))'
<1>1. \A g \in Handlers : handler[g].at # "idle" =>
          handler[g].id \in Ids /\ handler[g].at \in {"got", "reply"}
  BY DEF TypeOK, ThreadTypes, IdleHandler
<1>2. /\ handler'[h] = [at |-> "got", id |-> id]
      /\ \A g \in Handlers : g # h => handler'[g] = handler[g]
  BY DEF TypeOK, ThreadTypes
<1>. QED  BY <1>1, <1>2 DEF HandlersHold, Move

\* A handler that has the request goes on to its answer.
LEMMA HandlersGoOn ==
    ASSUME TypeOK, NEW stage \in [Ids -> Stages], HandlersHold(stage),
           NEW h \in Handlers, handler[h].at = "got",
           NEW id, id = handler[h].id,
           handler' = [handler EXCEPT ![h].at = "reply"]
    PROVE  /\ id \in Ids /\ stage[id] = "got"
           /\ HandlersHold(Move(stage, {id}, "reply"))'
<1>1. \A g \in Handlers : handler[g].at # "idle" =>
          handler[g].id \in Ids /\ handler[g].at \in {"got", "reply"}
  BY DEF TypeOK, ThreadTypes, IdleHandler
<1>2. /\ handler'[h].at = "reply" /\ handler'[h].id = handler[h].id
      /\ \A g \in Handlers : g # h => handler'[g] = handler[g]
  BY DEF TypeOK, ThreadTypes, IdleHandler
<1>. QED  BY <1>1, <1>2 DEF HandlersHold, Move

\* A handler is done with its request.
LEMMA HandlersGiveUp ==
    ASSUME TypeOK, NEW stage \in [Ids -> Stages], HandlersHold(stage),
           NEW h \in Handlers, handler[h].at # "idle",
           NEW id, id = handler[h].id,
           NEW to \in Stages, to \notin {"got", "reply"},
           handler' = [handler EXCEPT ![h] = IdleHandler]
    PROVE  /\ id \in Ids /\ stage[id] = handler[h].at
           /\ HandlersHold(Move(stage, {id}, to))'
<1>1. \A g \in Handlers : handler[g].at # "idle" =>
          handler[g].id \in Ids /\ handler[g].at \in {"got", "reply"}
  BY DEF TypeOK, ThreadTypes, IdleHandler
<1>2. /\ handler'[h].at = "idle"
      /\ \A g \in Handlers : g # h => handler'[g] = handler[g]
  BY DEF TypeOK, ThreadTypes, IdleHandler
<1>3. id \in Ids /\ stage[id] = handler[h].at
  BY <1>1 DEF HandlersHold
<1>. DEFINE next == Move(stage, {id}, to)
<1>4. \A i \in Ids : next[i] = IF i = id THEN to ELSE stage[i]
  BY DEF Move
<1>. HIDE DEF next
<1>5. ASSUME NEW g \in Handlers, handler'[g].at # "idle"
      PROVE  next[handler'[g].id] = handler'[g].at
  BY <1>1, <1>2, <1>4, <1>5 DEF HandlersHold
<1>6. ASSUME NEW i \in Ids, next[i] \in {"got", "reply"}
      PROVE  \E g \in Handlers : handler'[g].at # "idle" /\ handler'[g].id = i
  <2>1. i # id /\ stage[i] = next[i]
    BY <1>4, <1>6
  <2>2. PICK g \in Handlers : handler[g].at # "idle" /\ handler[g].id = i
    BY <2>1, <1>6 DEF HandlersHold
  <2>. QED  BY <1>2, <2>1, <2>2
<1>7. \A f, g \in Handlers :
          handler'[f].at # "idle" /\ handler'[g].at # "idle"
          /\ handler'[f].id = handler'[g].id => f = g
  BY <1>2 DEF HandlersHold
<1>. QED  BY <1>3, <1>5, <1>6, <1>7 DEF HandlersHold, next

----------------------------------------------------------------------------
JobStages == {"handle", "dispatch", "callback"}

\* The identifiers of a queued job are at one of the stages of jobs.
LEMMA JobStageType == ASSUME NEW fn PROVE JobStage(fn) \in JobStages
  BY DEF JobStage, JobStages

\* The queue of jobs has jobs of a known function, with identifiers.
LEMMA JobTypes ==
    ASSUME TypeOK
    PROVE  /\ jobs \in Seq(Job) /\ Len(jobs) \in Nat /\ DOMAIN jobs = 1..Len(jobs)
           /\ \A j \in DOMAIN jobs :
                 jobs[j].fn \in JobFunctions /\ jobs[j].ids \in Seq(Ids) /\ jobs[j].ids # <<>>
<1>1. jobs \in Seq(Job)
  BY DEF TypeOK, QueueTypes
<1>2. Len(jobs) \in Nat /\ DOMAIN jobs = 1..Len(jobs)
  BY <1>1
<1>3. \A j \in DOMAIN jobs : jobs[j] \in Job
  BY <1>1, <1>2
<1>. QED  BY <1>1, <1>2, <1>3 DEF Job

\* Identifiers that no queued job has may move among the other stages.
LEMMA JobsFrame ==
    ASSUME TypeOK, NEW stage \in [Ids -> Stages], NEW X \in SUBSET Ids, NEW to \in Stages,
           JobsHold(stage), UNCHANGED jobs, KeepsRequests(stage),
           to \notin JobStages, \A id \in X : stage[id] \notin JobStages
    PROVE  JobsHold(Move(stage, X, to))'
<1>. DEFINE next == Move(stage, X, to)
<1>1. \A id \in Ids : /\ stage[id] \in JobStages => next[id] = stage[id]
                      /\ next[id] \in JobStages => next[id] = stage[id]
  BY DEF Move
<1>. HIDE DEF next
<1>2. ASSUME NEW j \in DOMAIN jobs
      PROVE  /\ IsJob(jobs[j].fn, jobs[j].ids)'
             /\ \A k \in DOMAIN jobs[j].ids : next[jobs[j].ids[k]] = JobStage(jobs[j].fn)
  <2>. DEFINE fn == jobs[j].fn
              ids == jobs[j].ids
  <2>1. ids \in Seq(Ids) /\ ids # <<>>
    BY JobTypes
  <2>2. IsJob(fn, ids) /\ \A k \in DOMAIN ids : stage[ids[k]] = JobStage(fn)
    BY DEF JobsHold
  <2>3. \A k \in DOMAIN ids : ids[k] \in Ids /\ stage[ids[k]] \in JobStages
    BY <2>1, <2>2, JobStageType
  <2>4. \A k \in DOMAIN ids : stage[ids[k]] \notin {"free", "reply", "last"}
    BY <2>3 DEF JobStages
  <2>5. UNCHANGED <<fn, ids>>
    OBVIOUS
  <2>. HIDE DEF fn, ids
  <2>8. IsJob(fn, ids)'
    BY <2>1, <2>2, <2>4, <2>5, BatchFrame DEF IsJob, IsBatch, Same, HandleOf
  <2>9. \A k \in DOMAIN ids : next[ids[k]] = JobStage(fn)
    BY <2>2, <2>3, <1>1
  <2>. QED  BY <2>8, <2>9 DEF fn, ids
<1>3. \A id \in Ids : next[id] \in JobStages =>
          \E j \in DOMAIN jobs : \E k \in DOMAIN jobs[j].ids : jobs[j].ids[k] = id
  BY <1>1 DEF JobsHold, JobStages
<1>. QED  BY <1>2, <1>3 DEF JobsHold, JobStages, next

\* One thing is appended to a sequence, or taken from its front.
LEMMA AppendIndex ==
    ASSUME NEW S, NEW s \in Seq(S), NEW e \in S
    PROVE  /\ DOMAIN Append(s, e) = DOMAIN s \cup {Len(s) + 1}
           /\ Len(s) + 1 \notin DOMAIN s
           /\ Append(s, e)[Len(s) + 1] = e
           /\ \A j \in DOMAIN s : Append(s, e)[j] = s[j]
  OBVIOUS

\* The indices of a sequence and those of its tail.
LEMMA TailIndex ==
    ASSUME NEW S, NEW s \in Seq(S), s # <<>>
    PROVE  /\ 1 \in DOMAIN s /\ Head(s) = s[1]
           /\ \A j \in DOMAIN Tail(s) :
                 j \in Nat /\ j + 1 \in DOMAIN s /\ j + 1 # 1 /\ Tail(s)[j] = s[j + 1]
           /\ \A j \in DOMAIN s : j # 1 =>
                 j - 1 \in DOMAIN Tail(s) /\ Tail(s)[j - 1] = s[j]
<1>1. /\ Len(s) \in Nat \ {0} /\ DOMAIN s = 1..Len(s) /\ Head(s) = s[1]
      /\ DOMAIN Tail(s) = 1..(Len(s) - 1)
      /\ \A j \in 1..(Len(s) - 1) : Tail(s)[j] = s[j + 1]
  BY HeadTailProperties, EmptySeq, LenProperties
<1>2. \A j \in DOMAIN s : j # 1 => j - 1 \in DOMAIN Tail(s) /\ (j - 1) + 1 = j
  BY <1>1
<1>. QED  BY <1>1, <1>2

\* A new job takes its identifiers to the stage of its function.
LEMMA JobsAppend ==
    ASSUME TypeOK, NEW stage \in [Ids -> Stages], JobsHold(stage), KeepsRequests(stage),
           NEW fn \in JobFunctions, NEW ids \in Seq(Ids), ids # <<>>, IsJob(fn, ids),
           jobs' = Append(jobs, [fn |-> fn, ids |-> ids]),
           \A k \in DOMAIN ids : stage[ids[k]] \notin JobStages \cup {"free", "reply", "last"}
    PROVE  JobsHold(Move(stage, Range(ids), JobStage(fn)))'
<1>. DEFINE next == Move(stage, Range(ids), JobStage(fn))
            n == Len(jobs) + 1
<1>1. \A k \in DOMAIN ids : ids[k] \in Ids /\ ids[k] \in Range(ids)
  BY DEF Range
<1>2. /\ \A id \in Ids : id \notin Range(ids) => next[id] = stage[id]
      /\ \A k \in DOMAIN ids : next[ids[k]] = JobStage(fn)
      /\ \A id \in Ids : stage[id] \in JobStages => next[id] = stage[id] /\ id \notin Range(ids)
  BY <1>1 DEF Move, Range
<1>. HIDE DEF next
<1>3. /\ DOMAIN jobs' = DOMAIN jobs \cup {n} /\ n \notin DOMAIN jobs
      /\ jobs'[n].fn = fn /\ jobs'[n].ids = ids
      /\ \A j \in DOMAIN jobs : jobs'[j] = jobs[j]
  <2>1. [fn |-> fn, ids |-> ids] \in Job
    BY DEF Job
  <2>2. jobs \in Seq(Job)
    BY JobTypes
  <2>. QED  BY <2>1, <2>2, AppendIndex
<1>. HIDE DEF n
<1>4. ASSUME NEW j \in DOMAIN jobs
      PROVE  /\ IsJob(jobs[j].fn, jobs[j].ids)
             /\ \A k \in DOMAIN jobs[j].ids :
                  /\ jobs[j].ids[k] \in Ids
                  /\ stage[jobs[j].ids[k]] = JobStage(jobs[j].fn)
                  /\ stage[jobs[j].ids[k]] \in JobStages
                  /\ jobs[j].ids[k] \notin Range(ids)
  <2>1. jobs[j].ids \in Seq(Ids)
    BY JobTypes
  <2>2. \A k \in DOMAIN jobs[j].ids : jobs[j].ids[k] \in Ids
    BY <2>1
  <2>. QED  BY <1>2, <2>2, JobStageType DEF JobsHold
<1>5. ASSUME NEW j \in DOMAIN jobs'
      PROVE  /\ IsJob(jobs[j].fn, jobs[j].ids)'
             /\ \A k \in DOMAIN jobs'[j].ids : next[jobs'[j].ids[k]] = JobStage(jobs'[j].fn)
  <2>0. PICK gn, gs : gn = jobs'[j].fn /\ gs = jobs'[j].ids
    OBVIOUS
  <2>1. CASE j = n
    <3>1. IsJob(fn, ids)'
      BY BatchFrame DEF IsJob, IsBatch, Same, HandleOf
    <3>2. fn = gn /\ ids = gs
      BY <2>0, <2>1, <1>3
    <3>3. IsJob(jobs[j].fn, jobs[j].ids)'
      BY <2>0, <3>1, <3>2, JobAt
    <3>. QED  BY <2>0, <3>2, <3>3, <1>2
  <2>2. CASE j # n
    <3>1. j \in DOMAIN jobs /\ jobs'[j] = jobs[j]
      BY <2>2, <1>3
    <3>2. gs \in Seq(Ids) /\ gs # <<>> /\ IsJob(gn, gs)
      BY <2>0, <3>1, <1>4, JobTypes
    <3>3. \A k \in DOMAIN gs : stage[gs[k]] \notin {"free", "reply", "last"}
      BY <2>0, <3>1, <1>4 DEF JobStages
    <3>4. \A k \in DOMAIN gs : next[gs[k]] = JobStage(gn)
      BY <2>0, <3>1, <1>2, <1>4
    <3>5. IsJob(gn, gs)'
      BY <3>2, <3>3, BatchFrame
    <3>6. IsJob(jobs[j].fn, jobs[j].ids)'
      BY <2>0, <3>5, JobAt
    <3>. QED  BY <2>0, <3>4, <3>6
  <2>. QED  BY <2>1, <2>2
<1>6. ASSUME NEW i \in DOMAIN jobs', NEW j \in DOMAIN jobs',
             NEW k \in DOMAIN jobs'[i].ids, NEW l \in DOMAIN jobs'[j].ids,
             jobs'[i].ids[k] = jobs'[j].ids[l]
      PROVE  i = j
  <2>1. CASE i \in DOMAIN jobs /\ j \in DOMAIN jobs
    BY <2>1, <1>3, <1>6 DEF JobsHold
  <2>2. CASE i = n /\ j \in DOMAIN jobs
    BY <2>2, <1>1, <1>3, <1>4, <1>6
  <2>3. CASE j = n /\ i \in DOMAIN jobs
    BY <2>3, <1>1, <1>3, <1>4, <1>6
  <2>. QED  BY <2>1, <2>2, <2>3, <1>3
<1>7. ASSUME NEW id \in Ids, next[id] \in {"handle", "dispatch", "callback"}
      PROVE  \E j \in DOMAIN jobs' : \E k \in DOMAIN jobs'[j].ids : jobs'[j].ids[k] = id
  <2>1. CASE id \in Range(ids)
    <3>1. PICK k \in DOMAIN ids : ids[k] = id
      BY <2>1 DEF Range
    <3>. QED  BY <3>1, <1>3
  <2>2. CASE id \notin Range(ids)
    <3>1. stage[id] = next[id]
      BY <2>2, <1>2
    <3>2. PICK j \in DOMAIN jobs : \E k \in DOMAIN jobs[j].ids : jobs[j].ids[k] = id
      BY <3>1, <1>7 DEF JobsHold
    <3>. QED  BY <3>2, <1>3
  <2>. QED  BY <2>1, <2>2
<1>. QED  BY <1>5, <1>6, <1>7 DEF JobsHold, next

\* Pulling the first job takes its identifiers away from the queue.
LEMMA JobsTake ==
    ASSUME TypeOK, NEW stage \in [Ids -> Stages], JobsHold(stage), KeepsRequests(stage),
           jobs # <<>>, jobs' = Tail(jobs), NEW to \in Stages, to \notin JobStages,
           NEW fn, NEW ids, fn = Head(jobs).fn, ids = Head(jobs).ids,
           NEW next, next = Move(stage, Range(ids), to)
    PROVE  /\ fn \in JobFunctions /\ ids \in Seq(Ids) /\ ids # <<>>
           /\ IsJob(fn, ids)
           /\ \A k \in DOMAIN ids : stage[ids[k]] = JobStage(fn)
           /\ JobsHold(next)'
<1>1. /\ 1 \in DOMAIN jobs /\ fn = jobs[1].fn /\ ids = jobs[1].ids
      /\ \A j \in DOMAIN jobs' : /\ j \in Nat /\ j + 1 \in DOMAIN jobs /\ j + 1 # 1
                                 /\ jobs'[j] = jobs[j + 1]
      /\ \A j \in DOMAIN jobs : j # 1 => j - 1 \in DOMAIN jobs' /\ jobs'[j - 1] = jobs[j]
  <2>1. jobs \in Seq(Job)
    BY JobTypes
  <2>. QED  BY <2>1, TailIndex
<1>2. /\ fn \in JobFunctions /\ ids \in Seq(Ids) /\ ids # <<>>
      /\ IsJob(fn, ids)
      /\ \A k \in DOMAIN ids : ids[k] \in Ids /\ stage[ids[k]] = JobStage(fn)
  BY <1>1, JobTypes DEF JobsHold
<1>3. /\ \A id \in Ids : id \notin Range(ids) => next[id] = stage[id]
      /\ \A id \in Ids : next[id] \in JobStages => next[id] = stage[id] /\ id \notin Range(ids)
  BY DEF Move
<1>4. ASSUME NEW j \in DOMAIN jobs, j # 1
      PROVE  /\ IsJob(jobs[j].fn, jobs[j].ids)
             /\ \A k \in DOMAIN jobs[j].ids :
                  /\ jobs[j].ids[k] \in Ids
                  /\ stage[jobs[j].ids[k]] = JobStage(jobs[j].fn)
                  /\ stage[jobs[j].ids[k]] \in JobStages
                  /\ jobs[j].ids[k] \notin Range(ids)
  <2>1. jobs[j].ids \in Seq(Ids)
    BY JobTypes
  <2>2. \A k \in DOMAIN jobs[j].ids : jobs[j].ids[k] \in Ids
    BY <2>1
  <2>3. \A k \in DOMAIN jobs[j].ids : jobs[j].ids[k] \notin Range(ids)
    BY <1>1, <1>4 DEF JobsHold, Range
  <2>. QED  BY <2>2, <2>3, JobStageType DEF JobsHold
<1>5. ASSUME NEW j \in DOMAIN jobs'
      PROVE  /\ IsJob(jobs[j].fn, jobs[j].ids)'
             /\ \A k \in DOMAIN jobs'[j].ids : next[jobs'[j].ids[k]] = JobStage(jobs'[j].fn)
  <2>0. PICK gn, gs : gn = jobs'[j].fn /\ gs = jobs'[j].ids
    OBVIOUS
  <2>1. j + 1 \in DOMAIN jobs /\ j + 1 # 1 /\ jobs'[j] = jobs[j + 1]
    BY <1>1
  <2>2. gs \in Seq(Ids) /\ gs # <<>> /\ IsJob(gn, gs)
    BY <2>0, <2>1, <1>4, JobTypes
  <2>3. \A k \in DOMAIN gs : stage[gs[k]] \notin {"free", "reply", "last"}
    BY <2>0, <2>1, <1>4 DEF JobStages
  <2>4. \A k \in DOMAIN gs : next[gs[k]] = JobStage(gn)
    BY <2>0, <2>1, <1>3, <1>4
  <2>5. IsJob(gn, gs)'
    BY <2>2, <2>3, BatchFrame
  <2>6. IsJob(jobs[j].fn, jobs[j].ids)'
    BY <2>0, <2>5, JobAt
  <2>. QED  BY <2>0, <2>4, <2>6
<1>6. ASSUME NEW i \in DOMAIN jobs', NEW j \in DOMAIN jobs',
             NEW k \in DOMAIN jobs'[i].ids, NEW l \in DOMAIN jobs'[j].ids,
             jobs'[i].ids[k] = jobs'[j].ids[l]
      PROVE  i = j
  <2>1. i + 1 = j + 1
    BY <1>1, <1>6 DEF JobsHold
  <2>. QED  BY <2>1, <1>1
<1>7. ASSUME NEW id \in Ids, next[id] \in {"handle", "dispatch", "callback"}
      PROVE  \E j \in DOMAIN jobs' : \E k \in DOMAIN jobs'[j].ids : jobs'[j].ids[k] = id
  <2>1. stage[id] = next[id] /\ id \notin Range(ids)
    BY <1>3, <1>7 DEF JobStages
  <2>2. PICK j \in DOMAIN jobs : \E k \in DOMAIN jobs[j].ids : jobs[j].ids[k] = id
    BY <2>1, <1>7 DEF JobsHold
  <2>3. j # 1
    BY <2>1, <2>2, <1>1 DEF Range
  <2>4. j - 1 \in DOMAIN jobs' /\ jobs'[j - 1] = jobs[j]
    BY <2>3, <1>1
  <2>5. \E k \in DOMAIN jobs'[j - 1].ids : jobs'[j - 1].ids[k] = id
    BY <2>2, <2>4
  <2>. QED  BY <2>4, <2>5
<1>. QED  BY <1>2, <1>5, <1>6, <1>7 DEF JobsHold

\* The identifiers a pool thread has in hand and has not answered.
Held(w) == {w.ids[k] : k \in Unanswered(w)}

\* What a pool thread works on is a sequence of identifiers.
LEMMA PoolTypes ==
    ASSUME TypeOK, NEW t \in PoolThreads
    PROVE  /\ pool[t] \in Work \cup {IdleThread} /\ pool[t].ids \in Seq(Ids)
           /\ DOMAIN pool[t].ids = 1..Len(pool[t].ids) /\ Len(pool[t].ids) \in Nat
           /\ Unanswered(pool[t]) \subseteq DOMAIN pool[t].ids
           /\ pool[t].at # "idle" <=> pool[t] \in Work
           /\ \A k \in DOMAIN pool[t].ids : pool[t].ids[k] \in Ids
<1>1. pool[t] \in Work \cup {IdleThread}
  BY DEF TypeOK, ThreadTypes, Work
<1>2. pool[t].at # "idle" <=> pool[t] \in Work
  BY <1>1 DEF Work, IdleThread, Points
<1>3. pool[t].ids \in Seq(Ids)
  <2>1. IdleThread.ids \in Seq(Ids)
    BY DEF IdleThread
  <2>2. \A w \in Work : w.ids \in Seq(Ids)
    BY DEF Work
  <2>. QED  BY <1>1, <2>1, <2>2
<1>. QED  BY <1>1, <1>2, <1>3 DEF Unanswered

\* An idle thread has no identifier.
LEMMA IdleHolds == Held(IdleThread) = {} /\ Unanswered(IdleThread) = {}
  BY DEF Held, Unanswered, IdleThread

\* The identifiers a pool thread has are at one of the stages of the pool.
LEMMA PoolStageType ==
    ASSUME NEW w, NEW k, PoolPoint(w) PROVE PoolStage(w, k) \in PoolStages
  BY DEF PoolStage, PoolPoint, PoolStages

\* Identifiers that no pool thread has may move among the other stages.
LEMMA PoolFrame ==
    ASSUME TypeOK, NEW stage \in [Ids -> Stages], NEW X \in SUBSET Ids, NEW to \in Stages,
           PoolHold(stage), UNCHANGED pool, KeepsRequests(stage),
           to \notin PoolStages, \A id \in X : stage[id] \notin PoolStages
    PROVE  PoolHold(Move(stage, X, to))'
<1>. DEFINE next == Move(stage, X, to)
<1>1. \A id \in Ids : /\ stage[id] \in PoolStages => next[id] = stage[id]
                      /\ next[id] \in PoolStages => next[id] = stage[id]
  BY DEF Move
<1>. HIDE DEF next
<1>2. ASSUME NEW t \in PoolThreads, pool[t].at # "idle", pool[t].fn # "callback"
      PROVE  IsJob(pool[t].fn, pool[t].ids)'
  <2>0. PICK fn, ids : fn = pool[t].fn /\ ids = pool[t].ids
    OBVIOUS
  <2>1. ids \in Seq(Ids) /\ ids # <<>> /\ IsJob(fn, ids)
    <3>1. pool[t] \in Work
      BY <1>2, PoolTypes
    <3>. QED  BY <2>0, <3>1, <1>2 DEF PoolHold, Work
  <2>2. \A k \in DOMAIN ids : stage[ids[k]] \notin {"free", "reply", "last"}
    <3>. SUFFICES ASSUME NEW k \in DOMAIN ids PROVE stage[ids[k]] \notin {"free", "reply", "last"}
      OBVIOUS
    <3>1. k \in Unanswered(pool[t])
      BY <2>0, <1>2 DEF Unanswered
    <3>2. PoolPoint(pool[t]) /\ stage[ids[k]] = PoolStage(pool[t], k)
      BY <2>0, <3>1, <1>2 DEF PoolHold
    <3>. QED  BY <3>2, <1>2 DEF PoolStage, PoolPoint
  <2>3. IsJob(fn, ids)'
    BY <2>1, <2>2, BatchFrame
  <2>4. fn = pool'[t].fn /\ ids = pool'[t].ids
    BY <2>0
  <2>. QED  BY <2>3, <2>4, JobOfThread
<1>3. ASSUME NEW t \in PoolThreads, pool[t].at # "idle", NEW k \in Unanswered(pool[t])
      PROVE  next[pool[t].ids[k]] = PoolStage(pool[t], k)
  <2>1. PoolPoint(pool[t]) /\ stage[pool[t].ids[k]] = PoolStage(pool[t], k)
    BY <1>3 DEF PoolHold
  <2>2. pool[t].ids[k] \in Ids
    BY PoolTypes
  <2>. QED  BY <2>1, <2>2, <1>1, PoolStageType
<1>4. \A id \in Ids : next[id] \in PoolStages =>
          \E t \in PoolThreads : \E k \in Unanswered(pool[t]) : pool[t].ids[k] = id
  BY <1>1 DEF PoolHold
<1>. QED  BY <1>2, <1>3, <1>4 DEF PoolHold, PoolPoint, PoolStage, Unanswered, next

\* A thread that had v in hand goes on with w: w is what the invariant says,
\* what the thread takes was in no thread, and what it gives up is in none.
GoesOn(v, w, stage, next) ==
    /\ w \in Work =>
          /\ PoolPoint(w)
          /\ w.fn # "callback" =>
                /\ IsJob(w.fn, w.ids)
                /\ \A k \in DOMAIN w.ids : stage[w.ids[k]] \notin {"free", "reply", "last"}
          /\ IsInjective(w.ids) /\ Len(w.ids) <= MAX_BATCH_SIZE
          /\ \A k \in Unanswered(w) : next[w.ids[k]] = PoolStage(w, k)
    /\ \A id \in Ids \ (Held(v) \cup Held(w)) : next[id] = stage[id]
    /\ \A id \in Held(w) \ Held(v) : stage[id] \notin PoolStages
    /\ \A id \in Held(v) \ Held(w) : next[id] \notin PoolStages

\* One pool thread goes on with its own identifiers; the others are as
\* before.
LEMMA PoolStep ==
    ASSUME TypeOK, NEW stage \in [Ids -> Stages], NEW next \in [Ids -> Stages],
           PoolHold(stage), KeepsRequests(stage),
           NEW t \in PoolThreads, NEW w \in Work \cup {IdleThread},
           pool' = [pool EXCEPT ![t] = w], GoesOn(pool[t], w, stage, next)
    PROVE  PoolHold(next)'
<1>. USE DEF GoesOn
<1>1. /\ pool'[t] = w
      /\ \A u \in PoolThreads : u # t => pool'[u] = pool[u]
  BY DEF TypeOK, ThreadTypes
<1>2. \A u \in PoolThreads : \A k \in Unanswered(pool[u]) :
          /\ pool[u].ids[k] \in Ids /\ pool[u].ids[k] \in Held(pool[u])
          /\ pool[u].at # "idle" /\ PoolPoint(pool[u])
          /\ stage[pool[u].ids[k]] = PoolStage(pool[u], k)
          /\ stage[pool[u].ids[k]] \in PoolStages
  <2>. SUFFICES ASSUME NEW u \in PoolThreads, NEW k \in Unanswered(pool[u])
       PROVE  /\ pool[u].ids[k] \in Ids /\ pool[u].ids[k] \in Held(pool[u])
              /\ pool[u].at # "idle" /\ PoolPoint(pool[u])
              /\ stage[pool[u].ids[k]] = PoolStage(pool[u], k)
              /\ stage[pool[u].ids[k]] \in PoolStages
    OBVIOUS
  <2>1. pool[u].ids[k] \in Ids
    BY PoolTypes
  <2>2. pool[u].at # "idle"
    BY PoolTypes, IdleHolds
  <2>3. PoolPoint(pool[u]) /\ stage[pool[u].ids[k]] = PoolStage(pool[u], k)
    BY <2>2 DEF PoolHold
  <2>. QED  BY <2>1, <2>2, <2>3, PoolStageType DEF Held
<1>3. \A u \in PoolThreads : \A k \in Unanswered(pool[u]) :
          u # t => /\ pool[u].ids[k] \notin Held(pool[t]) \cup Held(w)
                   /\ next[pool[u].ids[k]] = stage[pool[u].ids[k]]
  <2>. SUFFICES ASSUME NEW u \in PoolThreads, NEW k \in Unanswered(pool[u]), u # t
       PROVE  pool[u].ids[k] \notin Held(pool[t]) \cup Held(w)
    BY <1>2
  <2>1. pool[u].ids[k] \notin Held(pool[t])
    BY DEF Held, PoolHold
  <2>. QED  BY <2>1, <1>2
<1>4. \A k \in Unanswered(w) : w.ids[k] \in Held(w)
  BY DEF Held
<1>5. ASSUME NEW u \in PoolThreads, pool'[u].at # "idle"
      PROVE  /\ PoolPoint(pool'[u])
             /\ pool'[u].fn # "callback" => IsJob(pool[u].fn, pool[u].ids)'
             /\ IsInjective(pool'[u].ids) /\ Len(pool'[u].ids) <= MAX_BATCH_SIZE
             /\ \A k \in Unanswered(pool'[u]) : next[pool'[u].ids[k]] = PoolStage(pool'[u], k)
  <2>1. CASE u = t
    <3>1. w \in Work
      BY <1>1, <1>5, <2>1 DEF IdleThread
    <3>2. PICK fn, ids : fn = w.fn /\ ids = w.ids
      OBVIOUS
    <3>3. fn # "callback" => IsJob(fn, ids)'
      <4>1. ids \in Seq(Ids) /\ ids # <<>>
        BY <3>1, <3>2 DEF Work
      <4>. QED  BY <3>1, <3>2, <4>1, BatchFrame
    <3>4. pool'[u] = w /\ pool[u]' = w
      BY <1>1, <2>1
    <3>5. pool'[u].fn # "callback" => IsJob(pool[u].fn, pool[u].ids)'
      <4>1. fn = pool'[u].fn /\ ids = pool'[u].ids
        BY <3>2, <3>4
      <4>. QED  BY <3>3, <4>1, JobOfThread
    <3>. QED  BY <3>1, <3>4, <3>5
  <2>2. CASE u # t
    <3>1. pool'[u] = pool[u] /\ pool[u].at # "idle"
      BY <1>1, <1>5, <2>2
    <3>2. /\ PoolPoint(pool[u])
          /\ pool[u].fn # "callback" => IsJob(pool[u].fn, pool[u].ids)
          /\ IsInjective(pool[u].ids) /\ Len(pool[u].ids) <= MAX_BATCH_SIZE
      BY <3>1 DEF PoolHold
    <3>3. \A k \in Unanswered(pool[u]) : next[pool[u].ids[k]] = PoolStage(pool[u], k)
      BY <1>2, <1>3, <2>2
    <3>4. ASSUME pool[u].fn # "callback" PROVE IsJob(pool[u].fn, pool[u].ids)'
      <4>0. PICK fn, ids : fn = pool[u].fn /\ ids = pool[u].ids
        OBVIOUS
      <4>1. ids \in Seq(Ids) /\ ids # <<>> /\ IsJob(fn, ids)
        <5>1. pool[u] \in Work
          BY <3>1, PoolTypes
        <5>. QED  BY <4>0, <5>1, <3>2, <3>4 DEF Work
      <4>2. \A k \in DOMAIN ids : stage[ids[k]] \notin {"free", "reply", "last"}
        <5>. SUFFICES ASSUME NEW k \in DOMAIN ids
             PROVE stage[ids[k]] \notin {"free", "reply", "last"}
          OBVIOUS
        <5>1. k \in Unanswered(pool[u])
          BY <4>0, <3>4 DEF Unanswered
        <5>2. stage[ids[k]] = PoolStage(pool[u], k)
          BY <4>0, <5>1, <1>2
        <5>. QED  BY <5>2, <3>2, <3>4 DEF PoolStage, PoolPoint
      <4>3. IsJob(fn, ids)'
        BY <4>1, <4>2, BatchFrame
      <4>4. fn = pool'[u].fn /\ ids = pool'[u].ids
        BY <3>1, <4>0
      <4>. QED  BY <4>3, <4>4, JobOfThread
    <3>. QED  BY <3>1, <3>2, <3>3, <3>4
  <2>. QED  BY <2>1, <2>2
<1>6. ASSUME NEW u \in PoolThreads, NEW v \in PoolThreads,
             NEW k \in Unanswered(pool'[u]), NEW l \in Unanswered(pool'[v]),
             pool'[u].ids[k] = pool'[v].ids[l]
      PROVE  u = v
  <2>1. CASE u # t /\ v # t
    BY <2>1, <1>1, <1>6 DEF PoolHold
  <2>2. CASE u = t /\ v # t
    BY <2>2, <1>1, <1>3, <1>4, <1>6
  <2>3. CASE v = t /\ u # t
    BY <2>3, <1>1, <1>3, <1>4, <1>6
  <2>. QED  BY <2>1, <2>2, <2>3
<1>7. ASSUME NEW id \in Ids, next[id] \in PoolStages
      PROVE  \E u \in PoolThreads : \E k \in Unanswered(pool'[u]) : pool'[u].ids[k] = id
  <2>1. CASE id \in Held(w)
    BY <2>1, <1>1 DEF Held
  <2>2. CASE id \notin Held(w)
    <3>1. id \notin Held(pool[t]) /\ stage[id] = next[id]
      BY <2>2, <1>7
    <3>2. PICK u \in PoolThreads : \E k \in Unanswered(pool[u]) : pool[u].ids[k] = id
      BY <3>1, <1>7 DEF PoolHold
    <3>3. u # t
      BY <3>1, <3>2 DEF Held
    <3>. QED  BY <3>2, <3>3, <1>1
  <2>. QED  BY <2>1, <2>2
<1>8. \A u \in PoolThreads : /\ Unanswered(pool'[u]) = Unanswered(pool[u])'
                             /\ PoolPoint(pool'[u]) <=> PoolPoint(pool[u])'
                             /\ \A k : PoolStage(pool'[u], k) = PoolStage(pool[u], k)'
  BY DEF Unanswered, PoolPoint, PoolStage
<1>. QED  BY <1>5, <1>6, <1>7 DEF PoolHold, Unanswered, PoolPoint, PoolStage

----------------------------------------------------------------------------

\* The dispatcher has a batch except when it is about to pop one.
LEMMA DispatcherTypes ==
    ASSUME TypeOK
    PROVE  /\ dispatcher.ids \in Seq(Ids)
           /\ dispatcher.at = "pop" => dispatcher.ids = <<>>
           /\ dispatcher.at # "pop" => dispatcher.ids # <<>>
<1>1. CASE dispatcher = IdleDispatcher
  BY <1>1 DEF IdleDispatcher
<1>2. CASE dispatcher \in [at : {"find", "batch", "submit"}, ids : Seq(Ids) \ {<<>>}]
  BY <1>2
<1>. QED  BY <1>1, <1>2 DEF TypeOK, ThreadTypes

\* Identifiers outside the batch of the dispatcher may move among the other
\* stages.
LEMMA DispatcherFrame ==
    ASSUME TypeOK, NEW stage \in [Ids -> Stages], NEW X \in SUBSET Ids, NEW to \in Stages,
           DispatcherHolds(stage), UNCHANGED dispatcher, KeepsRequests(stage),
           to # "batch", \A id \in X : stage[id] # "batch"
    PROVE  DispatcherHolds(Move(stage, X, to))'
<1>0. PICK ids : ids = dispatcher.ids
  OBVIOUS
<1>1. ids \in Seq(Ids) /\ QueueHolds(ids, "batch", stage) /\ IsBatch(ids)
  BY <1>0, DispatcherTypes DEF DispatcherHolds
<1>2. QueueHolds(ids, "batch", Move(stage, X, to))
  BY <1>1, QueueFrame
<1>3. \A k \in DOMAIN ids : stage[ids[k]] = "batch"
  BY <1>1 DEF QueueHolds, Range
<1>4. IsBatch(ids)'
  BY <1>1, <1>3, BatchFrame
<1>. QED  BY <1>0, <1>2, <1>4 DEF DispatcherHolds, QueueHolds, IsBatch, Same

\* What an action leaves alone still holds what it held, when identifiers go
\* from one stage to another.
Frame(next, from, to) ==
    /\ UNCHANGED incoming_queue /\ from # "incoming" /\ to # "incoming" =>
          QueueHolds(incoming_queue, "incoming", next)'
    /\ UNCHANGED handler /\ from \notin {"got", "reply"} /\ to \notin {"got", "reply"} =>
          HandlersHold(next)'
    /\ UNCHANGED jobs /\ from \notin JobStages /\ to \notin JobStages => JobsHold(next)'
    /\ UNCHANGED pool /\ from \notin PoolStages /\ to \notin PoolStages => PoolHold(next)'
    /\ UNCHANGED agios /\ from # "agios" /\ to # "agios" =>
          agios' = {id \in Ids : next[id] = "agios"}
    /\ UNCHANGED ready_queue /\ from # "ready" /\ to # "ready" =>
          QueueHolds(ready_queue, "ready", next)'
    /\ UNCHANGED dispatcher /\ from # "batch" /\ to # "batch" => DispatcherHolds(next)'
    /\ UNCHANGED requests /\ (from \in Hashed <=> to \in Hashed) =>
          requests' = {id \in Ids : next[id] \in Hashed}

\* When identifiers move from one stage to another, whoever has no part in it
\* is as before.
LEMMA StageFrame ==
    ASSUME TypeOK, NEW stage \in [Ids -> Stages], StageInv(stage), KeepsRequests(stage),
           NEW X \in SUBSET Ids, NEW from \in Stages, NEW to \in Stages,
           \A id \in X : stage[id] = from, NEW next, next = Move(stage, X, to)
    PROVE  Frame(next, from, to)
<1>. USE DEF StageInv
<1>1. ASSUME UNCHANGED incoming_queue, "incoming" \notin {from, to}
      PROVE  QueueHolds(incoming_queue, "incoming", next)'
  <2>1. QueueHolds(incoming_queue, "incoming", next)
    BY <1>1, QueueFrame
  <2>. QED  BY <1>1, <2>1 DEF QueueHolds
<1>2. ASSUME UNCHANGED ready_queue, "ready" \notin {from, to}
      PROVE  QueueHolds(ready_queue, "ready", next)'
  <2>1. QueueHolds(ready_queue, "ready", next)
    BY <1>2, QueueFrame
  <2>. QED  BY <1>2, <2>1 DEF QueueHolds
<1>3. ASSUME UNCHANGED handler, from \notin {"got", "reply"}, to \notin {"got", "reply"}
      PROVE  HandlersHold(next)'
  BY <1>3, HandlersFrame
<1>4. ASSUME UNCHANGED jobs, from \notin JobStages, to \notin JobStages PROVE JobsHold(next)'
  BY <1>4, JobsFrame
<1>5. ASSUME UNCHANGED pool, from \notin PoolStages, to \notin PoolStages PROVE PoolHold(next)'
  BY <1>5, PoolFrame
<1>6. ASSUME UNCHANGED dispatcher, "batch" \notin {from, to} PROVE DispatcherHolds(next)'
  BY <1>6, DispatcherFrame
<1>7. ASSUME UNCHANGED agios, "agios" \notin {from, to}
      PROVE  agios' = {id \in Ids : next[id] = "agios"}
  BY <1>7 DEF Move
<1>8. ASSUME UNCHANGED requests, from \in Hashed <=> to \in Hashed
      PROVE  requests' = {id \in Ids : next[id] \in Hashed}
  BY <1>8 DEF Move
<1>. QED  BY <1>1, <1>2, <1>3, <1>4, <1>5, <1>6, <1>7, <1>8 DEF Frame

----------------------------------------------------------------------------
(* The listener and the handlers. *)

\* The listener puts a new request in the incoming queue.
LEMMA ListenerRequestStages ==
    ASSUME TypeOK, NEW stage \in [Ids -> Stages], StageInv(stage),
           NEW c \in Clients, ListenerRequest(c), NEW id, id = global_id', stage[id] = "free",
           NEW next, next = Move(stage, {id}, "incoming")
    PROVE  id \in Ids /\ StageInv(next)'
<1>0. id \in Ids
  BY IdAfter DEF ListenerRequest, TypeOK, QueueTypes
<1>1. KeepsRequests(stage)
  <2>1. \A i \in Ids : i # id => fr'[i] = fr[i]
    BY DEF ListenerRequest, TypeOK, FileTypes
  <2>. QED  BY <2>1 DEF KeepsRequests
<1>2. QueueHolds(incoming_queue, "incoming", next)'
  <2>1. incoming_queue \in Seq(Ids) /\ QueueHolds(incoming_queue, "incoming", stage)
    BY DEF TypeOK, QueueTypes, StageInv
  <2>2. QueueHolds(Append(incoming_queue, id), "incoming", next)
    BY <1>0, <2>1, QueueAppend
  <2>. QED  BY <2>2 DEF ListenerRequest, QueueHolds
<1>3. UNCHANGED <<handler, jobs, pool, agios, ready_queue, dispatcher, requests>>
  BY DEF ListenerRequest, ioVars
<1>4. "free" \in Stages /\ "incoming" \in Stages /\ {id} \in SUBSET Ids
      /\ \A i \in {id} : stage[i] = "free"
  BY <1>0 DEF Stages
<1>5. Frame(next, "free", "incoming")
  BY <1>1, <1>4, StageFrame
<1>6. /\ HandlersHold(next)' /\ JobsHold(next)' /\ PoolHold(next)'
      /\ agios' = {i \in Ids : next[i] = "agios"}
      /\ QueueHolds(ready_queue, "ready", next)' /\ DispatcherHolds(next)'
      /\ requests' = {i \in Ids : next[i] \in Hashed}
  BY <1>3, <1>5 DEF Frame, JobStages, PoolStages, Hashed
<1>. QED  BY <1>0, <1>2, <1>6 DEF StageInv

\* The names of the stages.
LEMMA StageNames ==
    /\ {"free", "incoming", "got", "reply", "handle", "begin", "wait", "hash"} \subseteq Stages
    /\ {"add", "agios", "ready", "batch", "dispatch", "transfer", "transferred",
        "callback", "answer", "last"} \subseteq Stages
  BY DEF Stages

\* A request is given up only at the end.
LEMMA KeepsAfterGivingUp ==
    ASSUME TypeOK, NEW stage \in [Ids -> Stages], NEW id \in Ids,
           stage[id] \in {"free", "reply", "last"},
           \A i \in Ids : i # id => fr'[i] = fr[i]
    PROVE  KeepsRequests(stage)
  BY DEF KeepsRequests

\* Steps that write no request keep them all.
LEMMA KeepsUnchanged ==
    ASSUME NEW stage, UNCHANGED fr PROVE KeepsRequests(stage)
  BY DEF KeepsRequests

\* A handler pops the head of the incoming queue.
LEMMA HandlerPopStages ==
    ASSUME TypeOK, NEW stage \in [Ids -> Stages], StageInv(stage),
           NEW h \in Handlers, HandlerPop(h), NEW id, id = Head(incoming_queue),
           NEW next, next = Move(stage, {id}, "got")
    PROVE  id \in Ids /\ stage[id] = "incoming" /\ StageInv(next)'
<1>0. incoming_queue \in Seq(Ids) /\ QueueHolds(incoming_queue, "incoming", stage)
      /\ incoming_queue # <<>> /\ incoming_queue' = Tail(incoming_queue)
  BY DEF TypeOK, QueueTypes, StageInv, HandlerPop
<1>1. id \in Ids /\ stage[id] = "incoming" /\ QueueHolds(Tail(incoming_queue), "incoming", next)
  <2>. DEFINE q == incoming_queue
  <2>1. q \in Seq(Ids) /\ QueueHolds(q, "incoming", stage) /\ q # <<>> /\ id = Head(q)
          /\ "got" # "incoming"
    BY <1>0
  <2>. HIDE DEF q
  <2>2. /\ Head(q) \in Ids /\ stage[Head(q)] = "incoming"
        /\ QueueHolds(Tail(q), "incoming", Move(stage, {Head(q)}, "got"))
    BY <2>1, QueueTake, Zenon
  <2>. QED  BY <2>1, <2>2 DEF q
<1>2. HandlersHold(next)'
  BY <1>1, HandlersTake DEF HandlerPop, StageInv
<1>3. KeepsRequests(stage)
  BY KeepsUnchanged DEF HandlerPop
<1>4. Frame(next, "incoming", "got")
  BY <1>1, <1>3, StageFrame, StageNames
<1>5. UNCHANGED <<jobs, pool, agios, ready_queue, dispatcher, requests>>
  BY DEF HandlerPop, ioVars
<1>. QED
  BY <1>0, <1>1, <1>2, <1>4, <1>5
  DEF StageInv, Frame, JobStages, PoolStages, Hashed, QueueHolds

\* The handler opens or closes a file: the answer is next.
LEMMA HandlerOpenStages ==
    ASSUME TypeOK, NEW stage \in [Ids -> Stages], StageInv(stage),
           NEW h \in Handlers, HandlerOpen(h) \/ HandlerClose(h), NEW id, id = handler[h].id,
           NEW next, next = Move(stage, {id}, "reply")
    PROVE  id \in Ids /\ stage[id] = "got" /\ StageInv(next)'
<1>1. /\ handler[h].at = "got" /\ handler' = [handler EXCEPT ![h].at = "reply"]
      /\ UNCHANGED <<fr, jobs, pool, agios, ready_queue, dispatcher, requests, incoming_queue>>
  BY DEF HandlerOpen, HandlerClose, handlerOnly, ioVars
<1>2. id \in Ids /\ stage[id] = "got" /\ HandlersHold(next)'
  BY <1>1, HandlersGoOn DEF StageInv
<1>3. KeepsRequests(stage)
  BY <1>1, KeepsUnchanged
<1>4. Frame(next, "got", "reply")
  BY <1>2, <1>3, StageFrame, StageNames
<1>. QED
  BY <1>1, <1>2, <1>4 DEF StageInv, Frame, JobStages, PoolStages, Hashed

\* The handler answers: the request is over.
LEMMA HandlerAnswerStages ==
    ASSUME TypeOK, NEW stage \in [Ids -> Stages], StageInv(stage),
           NEW h \in Handlers, HandlerSendHandle(h) \/ HandlerAckClose(h),
           NEW id, id = handler[h].id, NEW next, next = Move(stage, {id}, "free")
    PROVE  id \in Ids /\ stage[id] = "reply" /\ StageInv(next)'
<1>1. /\ handler[h].at = "reply" /\ handler' = [handler EXCEPT ![h] = IdleHandler]
      /\ fr' = [fr EXCEPT ![handler[h].id] = NoRequest]
      /\ UNCHANGED <<jobs, pool, agios, ready_queue, dispatcher, requests, incoming_queue>>
  BY DEF HandlerSendHandle, HandlerAckClose, handlerOnly, ioVars
<1>2. id \in Ids /\ stage[id] = "reply" /\ HandlersHold(next)'
  <2>1. HandlersHold(stage)
    BY DEF StageInv
  <2>2. "free" \in Stages
    BY StageNames
  <2>3. handler[h].at # "idle" /\ handler' = [handler EXCEPT ![h] = IdleHandler]
    BY <1>1
  <2>4. /\ id \in Ids /\ stage[id] = handler[h].at
        /\ HandlersHold(Move(stage, {id}, "free"))'
    BY <2>1, <2>2, <2>3, HandlersGiveUp
  <2>. QED  BY <1>1, <2>4
<1>3. KeepsRequests(stage)
  <2>1. \A i \in Ids : i # id => fr'[i] = fr[i]
    BY <1>1 DEF TypeOK, FileTypes
  <2>. QED  BY <1>2, <2>1, KeepsAfterGivingUp
<1>4. Frame(next, "reply", "free")
  BY <1>2, <1>3, StageFrame, StageNames
<1>. QED
  BY <1>1, <1>2, <1>4 DEF StageInv, Frame, JobStages, PoolStages, Hashed

\* Of one request a handler makes a job.
LEMMA HandlerDelegateStages ==
    ASSUME TypeOK, NEW stage \in [Ids -> Stages], StageInv(stage),
           NEW h \in Handlers, HandlerDelegate(h), NEW id, id = handler[h].id,
           NEW next, next = Move(stage, {id}, "handle")
    PROVE  id \in Ids /\ stage[id] = "got" /\ StageInv(next)'
<1>0. PICK fn : fn = HandleOf(id)
  OBVIOUS
<1>1. /\ handler[h].at = "got" /\ handler' = [handler EXCEPT ![h] = IdleHandler]
      /\ UNCHANGED <<fr, pool, agios, ready_queue, dispatcher, requests, incoming_queue>>
      /\ jobs' = Append(jobs, [fn |-> fn, ids |-> <<id>>])
  BY <1>0 DEF HandlerDelegate, handlerOnly, ioVars, HandleOf, frOf
<1>2. id \in Ids /\ stage[id] = "got" /\ HandlersHold(next)'
  <2>1. HandlersHold(stage)
    BY DEF StageInv
  <2>2. "handle" \in Stages
    BY StageNames
  <2>3. handler[h].at # "idle" /\ handler' = [handler EXCEPT ![h] = IdleHandler]
    BY <1>1
  <2>4. /\ id \in Ids /\ stage[id] = handler[h].at
        /\ HandlersHold(Move(stage, {id}, "handle"))'
    BY <2>1, <2>2, <2>3, HandlersGiveUp
  <2>. QED  BY <1>1, <2>4
<1>3. KeepsRequests(stage)
  BY <1>1, KeepsUnchanged
<1>4. Frame(next, "got", "handle")
  BY <1>2, <1>3, StageFrame, StageNames
<1>5. JobsHold(next)'
  <2>. DEFINE ids == <<id>>
  <2>1. /\ ids \in Seq(Ids) /\ ids # <<>> /\ DOMAIN ids = {1} /\ ids[1] = id /\ Len(ids) = 1
        /\ Range(ids) = {id}
    BY <1>2 DEF Range
  <2>. HIDE DEF ids
  <2>2. IsJob(fn, ids)
    BY <1>0, <2>1, SizesAssumption DEF IsJob, IsBatch, IsInjective, Same, Handles
  <2>3. fn \in JobFunctions /\ JobStage(fn) = "handle"
    BY <1>0 DEF HandleOf, JobFunctions, JobStage
  <2>4. \A k \in DOMAIN ids : stage[ids[k]] \notin JobStages \cup {"free", "reply", "last"}
    BY <1>2, <2>1 DEF JobStages
  <2>5. jobs' = Append(jobs, [fn |-> fn, ids |-> ids])
    BY <1>1 DEF ids
  <2>6. JobsHold(stage)
    BY DEF StageInv
  <2>7. JobsHold(Move(stage, Range(ids), JobStage(fn)))'
    BY <1>3, <2>1, <2>2, <2>3, <2>4, <2>5, <2>6, JobsAppend
  <2>. QED  BY <2>1, <2>3, <2>7
<1>. QED
  BY <1>1, <1>2, <1>4, <1>5 DEF StageInv, Frame, JobStages, PoolStages, Hashed

----------------------------------------------------------------------------
(* AGIOS. *)

\* AGIOS hands one request to the ready queue.
LEMMA AgiosCallbackStages ==
    ASSUME TypeOK, NEW stage \in [Ids -> Stages], StageInv(stage),
           NEW id \in agios, AgiosCallback(id), NEW next, next = Move(stage, {id}, "ready")
    PROVE  id \in Ids /\ stage[id] = "agios" /\ StageInv(next)'
<1>1. /\ id \in Ids /\ stage[id] = "agios"
      /\ ready_queue \in Seq(Ids) /\ QueueHolds(ready_queue, "ready", stage)
  BY DEF TypeOK, QueueTypes, StageInv
<1>2. QueueHolds(Append(ready_queue, id), "ready", next)
  BY <1>1, QueueAppend
<1>3. /\ agios' = agios \ {id} /\ ready_queue' = Append(ready_queue, id)
      /\ UNCHANGED <<fr, jobs, pool, handler, dispatcher, requests, incoming_queue>>
  BY DEF AgiosCallback, agiosOnly
<1>4. agios' = {i \in Ids : next[i] = "agios"}
  BY <1>1, <1>3 DEF StageInv, Move
<1>5. KeepsRequests(stage)
  BY <1>3, KeepsUnchanged
<1>6. Frame(next, "agios", "ready")
  BY <1>1, <1>5, StageFrame, StageNames
<1>7. QueueHolds(ready_queue, "ready", next)'
  BY <1>2, <1>3 DEF QueueHolds
<1>. QED
  BY <1>1, <1>3, <1>4, <1>6, <1>7 DEF StageInv, Frame, JobStages, PoolStages, Hashed

\* AGIOS hands several requests to the ready queue at once.
LEMMA AgiosAggregatedStages ==
    ASSUME TypeOK, NEW stage \in [Ids -> Stages], StageInv(stage),
           NEW ids \in SUBSET agios, AgiosCallbackAggregated(ids),
           NEW next, next = Move(stage, ids, "ready")
    PROVE  /\ ids \subseteq Ids /\ \A id \in ids : stage[id] = "agios"
           /\ StageInv(next)'
<1>1. /\ ids \subseteq Ids /\ \A id \in ids : stage[id] = "agios"
      /\ ready_queue \in Seq(Ids) /\ QueueHolds(ready_queue, "ready", stage)
  BY DEF TypeOK, QueueTypes, StageInv
<1>2. PICK order \in Bijection(1..Cardinality(ids), ids) : ready_queue' = ready_queue \o order
  BY DEF AgiosCallbackAggregated
<1>3. order \in Seq(Ids)
  BY <1>1, OrderType
<1>4. IsInjective(order) /\ Range(order) = ids
  BY DEF Bijection, Injection, Surjection, IsInjective, Range
<1>5. QueueHolds(ready_queue \o order, "ready", next)
  BY <1>1, <1>3, <1>4, QueueConcat
<1>6. /\ agios' = agios \ ids
      /\ UNCHANGED <<fr, jobs, pool, handler, dispatcher, requests, incoming_queue>>
  BY DEF AgiosCallbackAggregated, agiosOnly
<1>7. agios' = {i \in Ids : next[i] = "agios"}
  BY <1>1, <1>6 DEF StageInv, Move
<1>8. KeepsRequests(stage)
  BY <1>6, KeepsUnchanged
<1>9. Frame(next, "agios", "ready")
  BY <1>1, <1>8, StageFrame, StageNames
<1>10. QueueHolds(ready_queue, "ready", next)'
  BY <1>2, <1>5 DEF QueueHolds
<1>. QED
  BY <1>1, <1>6, <1>7, <1>9, <1>10 DEF StageInv, Frame, JobStages, PoolStages, Hashed

-----------------------------------------------------------------------------
(* The jobs of the thread pool. *)

\* What a thread does first with the requests of a job.
Pulled(fn) == CASE fn = "dispatch_operation" -> "transfer"
                [] fn = "callback" -> "answer"
                [] OTHER -> "begin"

\* A pool thread pulls a job and has all of its requests.
LEMMA PoolPullStages ==
    ASSUME TypeOK, NEW stage \in [Ids -> Stages], StageInv(stage),
           NEW t \in PoolThreads, PoolPull(t),
           NEW fn, NEW ids, fn = Head(jobs).fn, ids = Head(jobs).ids,
           NEW next, next = Move(stage, Range(ids), Pulled(fn))
    PROVE  /\ Range(ids) \subseteq Ids
           /\ \A id \in Range(ids) : stage[id] = JobStage(fn)
           /\ StageInv(next)'
<1>1. KeepsRequests(stage)
  BY KeepsUnchanged DEF PoolPull
<1>2. jobs # <<>> /\ jobs' = Tail(jobs) /\ JobsHold(stage) /\ PoolHold(stage)
  BY DEF PoolPull, StageInv
<1>3. Pulled(fn) \in Stages /\ Pulled(fn) \notin JobStages
  BY StageNames DEF Pulled, JobStages
<1>31. PICK to \in Stages : to = Pulled(fn) /\ to \notin JobStages
  BY <1>3
<1>4. /\ fn \in JobFunctions /\ ids \in Seq(Ids) /\ ids # <<>>
      /\ IsJob(fn, ids)
      /\ \A k \in DOMAIN ids : stage[ids[k]] = JobStage(fn)
      /\ JobsHold(next)'
  BY <1>1, <1>2, <1>31, JobsTake
<1>5. Range(ids) \subseteq Ids /\ \A id \in Range(ids) : stage[id] = JobStage(fn)
  BY <1>4 DEF Range
<1>6. JobStage(fn) \in Stages /\ JobStage(fn) \in JobStages
  BY StageNames DEF JobStage, JobStages
<1>7. Frame(next, JobStage(fn), Pulled(fn))
  BY <1>1, <1>3, <1>5, <1>6, StageFrame
<1>8. PoolHold(next)'
  <2>00. PICK w : w = [fn |-> fn, ids |-> ids, at |-> "begin", k |-> 1]
    OBVIOUS
  <2>0. pool' = [pool EXCEPT ![t] = w] /\ pool[t] = IdleThread
    <3>1. pool[t] = IdleThread
      BY PoolTypes DEF PoolPull, Work, Points
    <3>. QED  BY <2>00, <3>1 DEF PoolPull
  <2>1. w.fn = fn /\ w.ids = ids /\ w.at = "begin" /\ w.k = 1
    BY <2>00
  <2>2. w \in Work
    <3>1. Len(ids) \in Nat /\ Len(ids) # 0
      BY <1>4, EmptySeq, LenProperties
    <3>. QED  BY <1>4, <2>00, <3>1 DEF Work, Points
  <2>3. PoolPoint(w)
    <3>1. Len(ids) \in Nat /\ DOMAIN ids = 1..Len(ids)
      BY <1>4
    <3>. QED  BY <1>4, <2>1, <3>1 DEF PoolPoint, JobFunctions
  <2>4. Unanswered(w) = DOMAIN ids /\ Held(w) = Range(ids)
    <3>1. DOMAIN ids = 1..Len(ids)
      BY <1>4
    <3>2. Unanswered(w) = DOMAIN ids
      BY <2>1, <3>1 DEF Unanswered
    <3>. QED  BY <2>1, <3>2 DEF Held, Range
  <2>5. /\ IsJob(w.fn, w.ids)
        /\ \A k \in DOMAIN w.ids : stage[w.ids[k]] \notin {"free", "reply", "last"}
    BY <1>4, <2>1 DEF JobStage
  <2>6. IsInjective(w.ids) /\ Len(w.ids) <= MAX_BATCH_SIZE
    BY <1>4, <2>1 DEF IsJob, IsBatch
  <2>7. \A k \in Unanswered(w) : next[w.ids[k]] = PoolStage(w, k)
    <3>. SUFFICES ASSUME NEW k \in DOMAIN ids PROVE next[ids[k]] = PoolStage(w, k)
      BY <2>1, <2>4
    <3>1. ids[k] \in Ids /\ ids[k] \in Range(ids) /\ k \in 1..Len(ids)
      BY <1>4 DEF Range
    <3>2. next[ids[k]] = Pulled(fn)
      BY <3>1 DEF Move
    <3>3. PoolStage(w, k) = Pulled(fn)
      BY <1>4, <2>1, <3>1 DEF PoolStage, Pulled, JobFunctions
    <3>. QED  BY <3>2, <3>3
  <2>8. next \in [Ids -> Stages] /\ \A id \in Ids \ Range(ids) : next[id] = stage[id]
    BY <1>3, <1>5, MoveType DEF Move
  <2>9. \A id \in Range(ids) : stage[id] \notin PoolStages
    BY <1>5 DEF JobStage, PoolStages
  <2>10. Held(pool[t]) = {}
    BY <2>0, IdleHolds
  <2>11. /\ \A id \in Ids \ (Held(pool[t]) \cup Held(w)) : next[id] = stage[id]
         /\ \A id \in Held(w) \ Held(pool[t]) : stage[id] \notin PoolStages
         /\ \A id \in Held(pool[t]) \ Held(w) : next[id] \notin PoolStages
    BY <2>4, <2>8, <2>9, <2>10
  <2>12. GoesOn(pool[t], w, stage, next)
    BY <2>3, <2>5, <2>6, <2>7, <2>11 DEF GoesOn
  <2>. QED  BY <1>1, <1>2, <2>0, <2>2, <2>8, <2>12, PoolStep
<1>9. UNCHANGED <<incoming_queue, handler, agios, ready_queue, dispatcher, requests>>
  BY DEF PoolPull, ioVars
<1>10. JobStage(fn) \notin Hashed \/ Pulled(fn) \in Hashed
  BY DEF JobStage, Pulled, Hashed
<1>11. JobStage(fn) \in Hashed \/ Pulled(fn) \notin Hashed
  BY DEF JobStage, Pulled, Hashed
<1>12. /\ JobStage(fn) \notin {"incoming", "got", "reply", "agios", "ready", "batch"}
       /\ Pulled(fn) \notin {"incoming", "got", "reply", "agios", "ready", "batch"}
  BY DEF JobStage, Pulled
<1>. QED
  BY <1>4, <1>5, <1>7, <1>8, <1>9, <1>10, <1>11, <1>12 DEF StageInv, Frame

----------------------------------------------------------------------------
(* handle_read and handle_write: one request each. *)

HandleStage(at) == IF at = "agios" THEN "add" ELSE at

\* A thread in handle_read or handle_write has one request, at the stage of
\* its next step.
LEMMA HandlePoint ==
    ASSUME TypeOK, NEW stage \in [Ids -> Stages], PoolHold(stage),
           NEW t \in PoolThreads, pool[t].fn \in Handles, NEW id, id = Current(t)
    PROVE  /\ pool[t] \in Work /\ PoolPoint(pool[t]) /\ pool[t].at # "idle"
           /\ pool[t].k = 1 /\ DOMAIN pool[t].ids = {1} /\ pool[t].ids[1] = id
           /\ pool[t].fn = HandleOf(id) /\ IsJob(pool[t].fn, pool[t].ids)
           /\ Unanswered(pool[t]) = {1} /\ Held(pool[t]) = {id}
           /\ id \in Ids /\ stage[id] = HandleStage(pool[t].at)
<1>1. pool[t] \in Work /\ pool[t].at # "idle"
  BY PoolTypes DEF IdleThread, Handles
<1>2. PoolPoint(pool[t]) /\ IsJob(pool[t].fn, pool[t].ids)
  BY <1>1 DEF PoolHold, Handles
<1>3. pool[t].k = 1
  BY <1>2 DEF PoolPoint, Handles
<1>4. DOMAIN pool[t].ids = {1} /\ pool[t].ids[1] = id /\ id \in Ids
  BY <1>2, <1>3, PoolTypes DEF IsJob, Handles, Current
<1>5. Unanswered(pool[t]) = {1} /\ Held(pool[t]) = {id}
  BY <1>4 DEF Unanswered, Held, Handles
<1>6. stage[id] = HandleStage(pool[t].at)
  BY <1>1, <1>4, <1>5 DEF PoolHold, PoolStage, HandleStage, Handles
<1>7. pool[t].fn = HandleOf(id)
  BY <1>2, <1>4 DEF IsJob
<1>. QED  BY <1>1, <1>2, <1>3, <1>4, <1>5, <1>6, <1>7

\* It goes on to the next step with that request.
LEMMA HandleGoesOn ==
    ASSUME TypeOK, NEW stage \in [Ids -> Stages], PoolHold(stage), KeepsRequests(stage),
           NEW t \in PoolThreads, pool[t].fn \in Handles, NEW id, id = Current(t),
           NEW at \in {"begin", "wait", "hash", "agios"},
           at = "wait" => pool[t].fn = "handle_write",
           pool' = [pool EXCEPT ![t].at = at],
           NEW next, next = Move(stage, {id}, HandleStage(at))
    PROVE  PoolHold(next)'
<1>. DEFINE v == pool[t]
            w == [v EXCEPT !.at = at]
<1>1. /\ v \in Work /\ PoolPoint(v) /\ v.at # "idle"
      /\ v.k = 1 /\ DOMAIN v.ids = {1} /\ v.ids[1] = id
      /\ v.fn = HandleOf(id) /\ IsJob(v.fn, v.ids) /\ v.fn \in Handles
      /\ Unanswered(v) = {1} /\ Held(v) = {id}
      /\ id \in Ids /\ stage[id] = HandleStage(v.at)
  BY HandlePoint
<1>2. pool' = [pool EXCEPT ![t] = w]
  OBVIOUS
<1>3. w.fn = v.fn /\ w.ids = v.ids /\ w.at = at /\ w.k = v.k /\ w \in Work
  BY <1>1 DEF Work, Points
<1>4. PICK fn, ids, x : fn = w.fn /\ ids = w.ids /\ x = w
  OBVIOUS
<1>. HIDE DEF w
<1>5. Unanswered(x) = {1} /\ Held(x) = {id}
  BY <1>1, <1>3, <1>4 DEF Unanswered, Held, Handles
<1>6. PoolPoint(x)
  BY <1>1, <1>3, <1>4 DEF PoolPoint, Handles
<1>7. /\ IsJob(x.fn, x.ids)
      /\ \A k \in DOMAIN x.ids : stage[x.ids[k]] \notin {"free", "reply", "last"}
  BY <1>1, <1>3, <1>4 DEF HandleStage, PoolPoint, Handles
<1>8. IsInjective(x.ids) /\ Len(x.ids) <= MAX_BATCH_SIZE
  BY <1>1, <1>3, <1>4 DEF IsJob, IsBatch
<1>9. HandleStage(at) \in Stages
  BY DEF Stages, HandleStage
<1>10. next \in [Ids -> Stages] /\ \A i \in Ids : next[i] = IF i = id THEN HandleStage(at) ELSE stage[i]
  BY <1>1, <1>9 DEF Move
<1>11. \A k \in Unanswered(x) : next[x.ids[k]] = PoolStage(x, k)
  BY <1>1, <1>3, <1>4, <1>5, <1>10 DEF PoolStage, Handles, HandleStage
<1>12. pool' = [pool EXCEPT ![t] = x] /\ x \in Work \cup {IdleThread}
  BY <1>2, <1>3, <1>4
<1>13. /\ \A i \in Ids \ (Held(v) \cup Held(x)) : next[i] = stage[i]
       /\ \A i \in Held(x) \ Held(v) : stage[i] \notin PoolStages
       /\ \A i \in Held(v) \ Held(x) : next[i] \notin PoolStages
  BY <1>1, <1>5, <1>10
<1>14. GoesOn(v, x, stage, next)
  BY <1>6, <1>7, <1>8, <1>11, <1>13 DEF GoesOn
<1>. HIDE DEF v
<1>. QED  BY <1>10, <1>12, <1>14, PoolStep DEF v

\* handle_write acknowledges and waits for the data; handle_read goes on to
\* the hash.
LEMMA HandleAckStages ==
    ASSUME TypeOK, NEW stage \in [Ids -> Stages], StageInv(stage),
           NEW t \in PoolThreads, HandleAck(t), NEW id, id = Current(t),
           NEW to, to = AfterAck(HandleOf(id)), NEW next, next = Move(stage, {id}, to)
    PROVE  /\ id \in Ids /\ stage[id] = "begin" /\ to \in {"wait", "hash"}
           /\ to = IF fr[id].operation = "write" THEN "wait" ELSE "hash"
           /\ StageInv(next)'
<1>1. PoolHold(stage)
  BY DEF StageInv
<1>2. pool[t].fn \in Handles /\ pool[t].at = "begin"
  BY DEF HandleAck, Runs, Handles
<1>3. pool[t].fn = HandleOf(id) /\ id \in Ids /\ stage[id] = "begin"
  BY <1>1, <1>2, HandlePoint DEF HandleStage
<1>4. to \in {"wait", "hash"} /\ to = IF fr[id].operation = "write" THEN "wait" ELSE "hash"
  BY DEF AfterAck, HandleOf
<1>5. KeepsRequests(stage)
  <2>1. fr' = [fr EXCEPT ![id].buffer = FreshBuffer]
    BY DEF HandleAck
  <2>2. fr[id] \in ForwardingRequest
    BY <1>3 DEF TypeOK, FileTypes
  <2>. QED  BY <2>1, <2>2 DEF KeepsRequests, TypeOK, FileTypes, ForwardingRequest
<1>6. PoolHold(next)'
  <2>1. pool' = [pool EXCEPT ![t].at = to] /\ (to = "wait" => pool[t].fn = "handle_write")
        /\ HandleStage(to) = to
    BY <1>3, <1>4 DEF HandleAck, Goto, AfterAck, HandleStage
  <2>. QED  BY <1>1, <1>2, <1>4, <1>5, <2>1, HandleGoesOn
<1>7. Frame(next, "begin", to)
  BY <1>3, <1>4, <1>5, StageFrame, StageNames
<1>8. UNCHANGED <<incoming_queue, handler, agios, ready_queue, dispatcher, requests, jobs>>
  BY DEF HandleAck, poolOnly
<1>. QED  BY <1>3, <1>4, <1>6, <1>7, <1>8 DEF StageInv, Frame, Hashed, JobStages

\* handle_write has the data of its request.
LEMMA HandleWriteWaitStages ==
    ASSUME TypeOK, NEW stage \in [Ids -> Stages], StageInv(stage),
           NEW t \in PoolThreads, HandleWriteWait(t), NEW id, id = Current(t),
           NEW next, next = Move(stage, {id}, "hash")
    PROVE  id \in Ids /\ stage[id] = "wait" /\ StageInv(next)'
<1>1. PoolHold(stage)
  BY DEF StageInv
<1>2. pool[t].fn \in Handles /\ pool[t].at = "wait"
  BY DEF HandleWriteWait, Runs, Handles
<1>3. id \in Ids /\ stage[id] = "wait"
  BY <1>1, <1>2, HandlePoint DEF HandleStage
<1>5. KeepsRequests(stage)
  <2>1. PICK m \in dataMsgs : fr' = [fr EXCEPT ![id].buffer = m.data]
    BY DEF HandleWriteWait
  <2>2. fr[id] \in ForwardingRequest
    BY <1>3 DEF TypeOK, FileTypes
  <2>. QED  BY <2>1, <2>2 DEF KeepsRequests, TypeOK, FileTypes, ForwardingRequest
<1>6. PoolHold(next)'
  <2>1. pool' = [pool EXCEPT ![t].at = "hash"] /\ HandleStage("hash") = "hash"
    BY DEF HandleWriteWait, Goto, HandleStage
  <2>. QED  BY <1>1, <1>2, <1>5, <2>1, HandleGoesOn
<1>7. Frame(next, "wait", "hash")
  BY <1>3, <1>5, StageFrame, StageNames
<1>8. UNCHANGED <<incoming_queue, handler, agios, ready_queue, dispatcher, requests, jobs>>
  BY DEF HandleWriteWait, poolOnly
<1>. QED  BY <1>3, <1>6, <1>7, <1>8 DEF StageInv, Frame, Hashed, JobStages

\* The request is in the hash.
LEMMA HandleHashStages ==
    ASSUME TypeOK, NEW stage \in [Ids -> Stages], StageInv(stage),
           NEW t \in PoolThreads, HandleHash(t), NEW id, id = Current(t),
           NEW next, next = Move(stage, {id}, "add")
    PROVE  id \in Ids /\ stage[id] = "hash" /\ StageInv(next)'
<1>1. PoolHold(stage)
  BY DEF StageInv
<1>2. pool[t].fn \in Handles /\ pool[t].at = "hash"
  BY DEF HandleHash, Runs, Handles
<1>3. id \in Ids /\ stage[id] = "hash"
  BY <1>1, <1>2, HandlePoint DEF HandleStage
<1>5. KeepsRequests(stage)
  BY KeepsUnchanged DEF HandleHash
<1>6. PoolHold(next)'
  <2>1. pool' = [pool EXCEPT ![t].at = "agios"] /\ HandleStage("agios") = "add"
    BY DEF HandleHash, Goto, HandleStage
  <2>. QED  BY <1>1, <1>2, <1>5, <2>1, HandleGoesOn
<1>7. Frame(next, "hash", "add")
  BY <1>3, <1>5, StageFrame, StageNames
<1>8. UNCHANGED <<incoming_queue, handler, agios, ready_queue, dispatcher, jobs>>
      /\ requests' = requests \cup {id}
  BY DEF HandleHash, poolOnly
<1>9. requests' = {i \in Ids : next[i] \in Hashed}
  BY <1>3, <1>8 DEF StageInv, Move, Hashed
<1>. QED  BY <1>3, <1>6, <1>7, <1>8, <1>9 DEF StageInv, Frame, JobStages

\* The request is with AGIOS.
LEMMA HandleAgiosStages ==
    ASSUME TypeOK, NEW stage \in [Ids -> Stages], StageInv(stage),
           NEW t \in PoolThreads, HandleAgios(t), NEW id, id = Current(t),
           NEW next, next = Move(stage, {id}, "agios")
    PROVE  id \in Ids /\ stage[id] = "add" /\ StageInv(next)'
<1>1. PoolHold(stage)
  BY DEF StageInv
<1>2. pool[t].fn \in Handles /\ pool[t].at = "agios"
  BY DEF HandleAgios, Runs, Handles
<1>3. id \in Ids /\ stage[id] = "add" /\ Held(pool[t]) = {id}
  BY <1>1, <1>2, HandlePoint DEF HandleStage
<1>5. KeepsRequests(stage)
  BY KeepsUnchanged DEF HandleAgios
<1>6. PoolHold(next)'
  <2>1. pool' = [pool EXCEPT ![t] = IdleThread]
    BY DEF HandleAgios
  <2>2. next \in [Ids -> Stages] /\ \A i \in Ids : next[i] = IF i = id THEN "agios" ELSE stage[i]
    BY <1>3, StageNames DEF Move
  <2>3. next[id] \notin PoolStages
    BY <1>3, <2>2 DEF PoolStages
  <2>4. IdleThread \notin Work
    BY DEF IdleThread, Work, Points
  <2>5. GoesOn(pool[t], IdleThread, stage, next)
    BY <1>3, <2>2, <2>3, <2>4, IdleHolds DEF GoesOn
  <2>. QED  BY <1>1, <1>5, <2>1, <2>2, <2>5, PoolStep
<1>7. Frame(next, "add", "agios")
  BY <1>3, <1>5, StageFrame, StageNames
<1>8. UNCHANGED <<incoming_queue, handler, requests, ready_queue, dispatcher, jobs>>
      /\ agios' = agios \cup {id}
  BY DEF HandleAgios, poolOnly
<1>9. agios' = {i \in Ids : next[i] = "agios"}
  BY <1>3, <1>8 DEF StageInv, Move
<1>. QED  BY <1>3, <1>6, <1>7, <1>8, <1>9 DEF StageInv, Frame, JobStages, Hashed

-----------------------------------------------------------------------------
(* dispatch_operation, and the callbacks. *)

\* What a thread knows of the batch it transfers.
LEMMA DispatchPoint ==
    ASSUME TypeOK, NEW stage \in [Ids -> Stages], PoolHold(stage),
           NEW t \in PoolThreads, pool[t].fn = "dispatch_operation"
    PROVE  /\ pool[t] \in Work /\ PoolPoint(pool[t]) /\ pool[t].at \in {"begin", "io"}
           /\ pool[t].ids \in Seq(Ids) /\ pool[t].ids # <<>>
           /\ pool[t].k \in 1..(Len(pool[t].ids) + 1)
           /\ DOMAIN pool[t].ids = 1..Len(pool[t].ids) /\ Len(pool[t].ids) \in Nat
           /\ IsJob("dispatch_operation", pool[t].ids) /\ IsInjective(pool[t].ids)
           /\ Len(pool[t].ids) <= MAX_BATCH_SIZE
           /\ Unanswered(pool[t]) = DOMAIN pool[t].ids
           /\ Held(pool[t]) = Range(pool[t].ids)
           /\ \A k \in DOMAIN pool[t].ids :
                 /\ pool[t].ids[k] \in Ids
                 /\ stage[pool[t].ids[k]] = IF k < pool[t].k THEN "transferred" ELSE "transfer"
<1>1. pool[t] \in Work /\ pool[t].at # "idle"
  BY PoolTypes DEF IdleThread
<1>2. /\ PoolPoint(pool[t]) /\ IsJob("dispatch_operation", pool[t].ids)
      /\ IsInjective(pool[t].ids) /\ Len(pool[t].ids) <= MAX_BATCH_SIZE
  BY <1>1 DEF PoolHold
<1>3. pool[t].at \in {"begin", "io"} /\ pool[t].k \in 1..(Len(pool[t].ids) + 1)
  BY <1>1, <1>2, PoolTypes DEF PoolPoint, Work
<1>4. Unanswered(pool[t]) = DOMAIN pool[t].ids /\ Held(pool[t]) = Range(pool[t].ids)
  BY DEF Unanswered, Held, Range
<1>5. \A k \in DOMAIN pool[t].ids :
         stage[pool[t].ids[k]] = IF k < pool[t].k THEN "transferred" ELSE "transfer"
  BY <1>1, <1>4 DEF PoolHold, PoolStage
<1>6. pool[t].ids \in Seq(Ids) /\ pool[t].ids # <<>>
  BY <1>1 DEF Work
<1>. QED  BY <1>1, <1>2, <1>3, <1>4, <1>5, <1>6, PoolTypes

\* Sorting a batch moves none of its requests.
LEMMA DispatchSortStages ==
    ASSUME TypeOK, NEW stage \in [Ids -> Stages], StageInv(stage),
           NEW t \in PoolThreads, DispatchSort(t)
    PROVE  StageInv(stage)'
<1>. DEFINE v == pool[t]
<1>0. PoolHold(stage) /\ v.fn = "dispatch_operation" /\ v.at = "begin" /\ FileSystem = "pvfs"
  BY DEF StageInv, DispatchSort, Runs
<1>1. KeepsRequests(stage)
  BY KeepsUnchanged DEF DispatchSort
<1>2. PICK order \in Bijection(DOMAIN v.ids, Range(v.ids)) :
         pool' = [pool EXCEPT ![t].ids = order, ![t].at = "io"]
  BY DEF DispatchSort
<1>3. /\ v \in Work /\ v.ids \in Seq(Ids) \ {<<>>} /\ v.k = 1
      /\ DOMAIN v.ids = 1..Len(v.ids) /\ Len(v.ids) \in Nat
      /\ IsBatch(v.ids) /\ Len(v.ids) <= MAX_BATCH_SIZE
      /\ Held(v) = Range(v.ids)
      /\ \A k \in DOMAIN v.ids : v.ids[k] \in Ids /\ stage[v.ids[k]] = "transfer"
  BY <1>0, DispatchPoint DEF PoolPoint, IsJob
<1>4. /\ order \in Seq(Ids) \ {<<>>} /\ Len(order) = Len(v.ids)
  BY <1>3, RearrangedType
<1>5. /\ IsInjective(order) /\ DOMAIN order = DOMAIN v.ids
      /\ \A k \in DOMAIN order : \E j \in DOMAIN v.ids : order[k] = v.ids[j]
      /\ Range(order) = Range(v.ids)
  <2>1. /\ order \in [DOMAIN v.ids -> Range(v.ids)]
        /\ \A a, b \in DOMAIN v.ids : order[a] = order[b] => a = b
        /\ \A y \in Range(v.ids) : \E a \in DOMAIN v.ids : order[a] = y
    BY DEF Bijection, Injection, Surjection, IsInjective
  <2>2. DOMAIN order = DOMAIN v.ids /\ IsInjective(order)
    BY <2>1 DEF IsInjective
  <2>3. Range(order) = Range(v.ids)
    <3>. DEFINE R == Range(v.ids)
                D == DOMAIN v.ids
    <3>1. order \in [D -> R] /\ \A y \in R : \E a \in D : order[a] = y
      BY <2>1
    <3>. HIDE DEF R, D
    <3>2. Range(order) = R
      BY <3>1 DEF Range
    <3>. QED  BY <3>2 DEF R
  <2>4. \A k \in DOMAIN order : order[k] \in Range(v.ids)
    BY <2>1
  <2>5. \A k \in DOMAIN order : \E j \in DOMAIN v.ids : order[k] = v.ids[j]
    BY <2>4 DEF Range
  <2>. QED  BY <2>2, <2>3, <2>5
<1>6. PICK w : w = [v EXCEPT !.ids = order, !.at = "io"]
  OBVIOUS
<1>7. /\ pool' = [pool EXCEPT ![t] = w] /\ w \in Work
      /\ w.fn = "dispatch_operation" /\ w.ids = order /\ w.at = "io" /\ w.k = 1
  BY <1>0, <1>2, <1>3, <1>4, <1>6 DEF Work, Points
<1>. HIDE DEF v
<1>8. \A j, k \in DOMAIN order : Same(order[j], order[k])
  BY <1>3, <1>5 DEF IsBatch
<1>9. IsJob(w.fn, w.ids)
  BY <1>3, <1>4, <1>5, <1>7, <1>8 DEF IsJob, IsBatch, Handles
<1>10. \A k \in DOMAIN order : stage[order[k]] = "transfer"
  BY <1>3, <1>5
<1>11. Unanswered(w) = DOMAIN order /\ Held(w) = Range(order)
  BY <1>7 DEF Unanswered, Held, Range
<1>12. PoolPoint(w)
  BY <1>4, <1>7 DEF PoolPoint
<1>13. \A k \in Unanswered(w) : stage[w.ids[k]] = PoolStage(w, k)
  <2>1. DOMAIN order = 1..Len(order)
    BY <1>4
  <2>. QED  BY <2>1, <1>7, <1>10, <1>11 DEF PoolStage
<1>14. GoesOn(v, w, stage, stage)
  BY <1>3, <1>4, <1>5, <1>7, <1>9, <1>10, <1>11, <1>12, <1>13 DEF GoesOn
<1>15. PoolHold(stage)'
  BY <1>0, <1>1, <1>7, <1>14, PoolStep DEF v
<1>16. /\ {} \in SUBSET Ids /\ (\A id \in {} : stage[id] = "free") /\ "free" \in Stages
       /\ stage = Move(stage, {}, "free")
  BY StageNames DEF Move
<1>17. Frame(stage, "free", "free")
  BY <1>1, <1>16, StageFrame
<1>18. UNCHANGED <<incoming_queue, handler, agios, ready_queue, dispatcher, requests, jobs>>
  BY DEF DispatchSort, poolOnly
<1>. QED  BY <1>15, <1>17, <1>18 DEF StageInv, Frame, JobStages

\* One request of the batch is transferred.
LEMMA DispatchStages ==
    ASSUME TypeOK, NEW stage \in [Ids -> Stages], StageInv(stage),
           NEW t \in PoolThreads, DispatchWrite(t) \/ DispatchRead(t),
           NEW id, id = Current(t), NEW next, next = Move(stage, {id}, "transferred")
    PROVE  id \in Ids /\ stage[id] = "transfer" /\ StageInv(next)'
<1>. DEFINE v == pool[t]
<1>0. /\ PoolHold(stage) /\ v.fn = "dispatch_operation" /\ v.k <= Len(v.ids)
      /\ FileSystem = "pvfs" => v.at = "io"
      /\ pool' = [pool EXCEPT ![t].k = @ + 1]
  BY DEF StageInv, DispatchWrite, DispatchRead, TransfersNext, Runs
<1>1. /\ v \in Work /\ v.ids \in Seq(Ids) /\ v.ids # <<>>
      /\ PoolPoint(v) /\ v.k \in 1..(Len(v.ids) + 1)
      /\ DOMAIN v.ids = 1..Len(v.ids) /\ Len(v.ids) \in Nat
      /\ IsJob("dispatch_operation", v.ids) /\ IsInjective(v.ids)
      /\ Len(v.ids) <= MAX_BATCH_SIZE
      /\ Held(v) = Range(v.ids)
      /\ \A k \in DOMAIN v.ids :
            /\ v.ids[k] \in Ids
            /\ stage[v.ids[k]] = IF k < v.k THEN "transferred" ELSE "transfer"
  BY <1>0, DispatchPoint
<1>2. v.k \in DOMAIN v.ids /\ id = v.ids[v.k] /\ id \in Ids /\ stage[id] = "transfer"
  BY <1>0, <1>1 DEF Current
<1>3. KeepsRequests(stage)
  <2>1. CASE fr' = fr
    BY <2>1 DEF KeepsRequests
  <2>2. CASE \E b : fr' = [fr EXCEPT ![id].buffer = b]
    <3>1. fr[id] \in ForwardingRequest
      BY <1>2 DEF TypeOK, FileTypes
    <3>. QED  BY <2>2, <3>1 DEF KeepsRequests, TypeOK, FileTypes, ForwardingRequest
  <2>. QED  BY <2>1, <2>2 DEF DispatchWrite, DispatchRead, Pread
<1>4. PICK w : w = [v EXCEPT !.k = @ + 1]
  OBVIOUS
<1>5. /\ pool' = [pool EXCEPT ![t] = w] /\ w \in Work
      /\ w.fn = "dispatch_operation" /\ w.ids = v.ids /\ w.at = v.at /\ w.k = v.k + 1
  BY <1>0, <1>1, <1>4 DEF Work
<1>. HIDE DEF v
<1>6. next \in [Ids -> Stages] /\ \A i \in Ids : next[i] = IF i = id THEN "transferred" ELSE stage[i]
  BY <1>2, StageNames DEF Move
<1>7. Unanswered(w) = DOMAIN v.ids /\ Held(w) = Range(v.ids)
  BY <1>5 DEF Unanswered, Held, Range
<1>8. PoolPoint(w)
  BY <1>0, <1>1, <1>2, <1>5 DEF PoolPoint
<1>9. \A k \in DOMAIN v.ids : next[v.ids[k]] = IF k < v.k + 1 THEN "transferred" ELSE "transfer"
  <2>. SUFFICES ASSUME NEW k \in DOMAIN v.ids
       PROVE next[v.ids[k]] = IF k < v.k + 1 THEN "transferred" ELSE "transfer"
    OBVIOUS
  <2>1. CASE k = v.k
    <3>1. k < v.k + 1 /\ v.ids[k] = id
      BY <2>1, <1>1, <1>2
    <3>. QED  BY <3>1, <1>2, <1>6
  <2>2. CASE k # v.k
    <3>1. v.ids[k] # id
      BY <2>2, <1>1, <1>2 DEF IsInjective
    <3>2. k < v.k + 1 <=> k < v.k
      BY <2>2, <1>1
    <3>. QED  BY <3>1, <3>2, <1>1, <1>6
  <2>. QED  BY <2>1, <2>2
<1>10. \A k \in Unanswered(w) : next[w.ids[k]] = PoolStage(w, k)
  BY <1>5, <1>7, <1>9 DEF PoolStage
<1>11. /\ \A k \in DOMAIN v.ids : stage[v.ids[k]] \notin {"free", "reply", "last"}
       /\ \A i \in Ids \ Range(v.ids) : next[i] = stage[i]
  <2>1. \A k \in DOMAIN v.ids : stage[v.ids[k]] \notin {"free", "reply", "last"}
    BY <1>1
  <2>2. id \in Range(v.ids)
    BY <1>2 DEF Range
  <2>3. \A i \in Ids \ Range(v.ids) : next[i] = stage[i]
    BY <1>6, <2>2
  <2>. QED  BY <2>1, <2>3
<1>12. GoesOn(v, w, stage, next)
  BY <1>1, <1>5, <1>7, <1>8, <1>10, <1>11 DEF GoesOn
<1>13. PoolHold(next)'
  BY <1>0, <1>3, <1>5, <1>6, <1>12, PoolStep DEF v
<1>14. Frame(next, "transfer", "transferred")
  BY <1>2, <1>3, StageFrame, StageNames
<1>15. UNCHANGED <<incoming_queue, handler, agios, ready_queue, dispatcher, requests, jobs>>
  BY DEF DispatchWrite, DispatchRead, poolOnly
<1>. QED  BY <1>2, <1>13, <1>14, <1>15 DEF StageInv, Frame, JobStages, Hashed

\* The requests of a finished dispatch wait for their callback.
LEMMA DispatchDoneStages ==
    ASSUME TypeOK, NEW stage \in [Ids -> Stages], StageInv(stage),
           NEW t \in PoolThreads, DispatchDone(t),
           NEW ids, ids = pool[t].ids, NEW next, next = Move(stage, Range(ids), "callback")
    PROVE  /\ Range(ids) \subseteq Ids
           /\ \A id \in Range(ids) : stage[id] = "transferred"
           /\ StageInv(next)'
<1>0. /\ PoolHold(stage) /\ JobsHold(stage)
      /\ pool[t].fn = "dispatch_operation" /\ pool[t].k > Len(pool[t].ids)
      /\ jobs' = Append(jobs, [fn |-> "callback", ids |-> ids])
      /\ pool' = [pool EXCEPT ![t] = IdleThread]
  BY DEF StageInv, DispatchDone
<1>1. /\ ids \in Seq(Ids) /\ ids # <<>> /\ IsJob("dispatch_operation", ids)
      /\ Held(pool[t]) = Range(ids)
      /\ \A k \in DOMAIN ids : ids[k] \in Ids /\ stage[ids[k]] = "transferred"
  <2>1. \A k \in 1..Len(pool[t].ids) : k < pool[t].k
    BY <1>0, DispatchPoint
  <2>. QED  BY <1>0, <2>1, DispatchPoint
<1>2. Range(ids) \subseteq Ids /\ \A id \in Range(ids) : stage[id] = "transferred"
  BY <1>1 DEF Range
<1>3. KeepsRequests(stage)
  BY KeepsUnchanged DEF DispatchDone
<1>4. IsJob("callback", ids) /\ JobStage("callback") = "callback" /\ "callback" \in JobFunctions
  BY <1>1 DEF IsJob, Handles, JobStage, JobFunctions
<1>5. \A k \in DOMAIN ids : stage[ids[k]] \notin JobStages \cup {"free", "reply", "last"}
  BY <1>1 DEF JobStages
<1>6. JobsHold(Move(stage, Range(ids), JobStage("callback")))'
  BY <1>0, <1>1, <1>3, <1>4, <1>5, JobsAppend
<1>7. JobsHold(next)'
  BY <1>4, <1>6
<1>8. next \in [Ids -> Stages] /\ \A i \in Ids : next[i] = IF i \in Range(ids) THEN "callback" ELSE stage[i]
  BY <1>2, StageNames DEF Move
<1>9. GoesOn(pool[t], IdleThread, stage, next)
  BY <1>1, <1>2, <1>8, IdleHolds DEF GoesOn, PoolStages, IdleThread, Work, Points
<1>10. PoolHold(next)'
  BY <1>0, <1>3, <1>8, <1>9, PoolStep
<1>11. Frame(next, "transferred", "callback")
  BY <1>2, <1>3, StageFrame, StageNames
<1>12. UNCHANGED <<incoming_queue, handler, agios, ready_queue, dispatcher, requests>>
  BY DEF DispatchDone, poolOnly
<1>. QED  BY <1>2, <1>7, <1>10, <1>11, <1>12 DEF StageInv, Frame, Hashed

----------------------------------------------------------------------------

\* A thread in the callback has the requests from its k-th on yet to answer.
LEMMA CallbackPoint ==
    ASSUME TypeOK, NEW stage \in [Ids -> Stages], PoolHold(stage),
           NEW t \in PoolThreads, pool[t].fn = "callback", NEW id, id = Current(t)
    PROVE  /\ pool[t] \in Work /\ PoolPoint(pool[t]) /\ pool[t].at \in {"begin", "reply"}
           /\ pool[t].ids \in Seq(Ids) /\ pool[t].ids # <<>>
           /\ DOMAIN pool[t].ids = 1..Len(pool[t].ids) /\ Len(pool[t].ids) \in Nat
           /\ pool[t].k \in 1..Len(pool[t].ids) /\ id = pool[t].ids[pool[t].k]
           /\ IsInjective(pool[t].ids) /\ Len(pool[t].ids) <= MAX_BATCH_SIZE
           /\ Unanswered(pool[t]) = pool[t].k..Len(pool[t].ids)
           /\ \A k \in pool[t].k..Len(pool[t].ids) :
                 /\ pool[t].ids[k] \in Ids /\ pool[t].ids[k] \in Held(pool[t])
                 /\ stage[pool[t].ids[k]] = IF k = pool[t].k /\ pool[t].at = "reply"
                                            THEN "last" ELSE "answer"
<1>1. pool[t] \in Work /\ pool[t].at # "idle"
  BY PoolTypes DEF IdleThread
<1>2. /\ PoolPoint(pool[t])
      /\ IsInjective(pool[t].ids) /\ Len(pool[t].ids) <= MAX_BATCH_SIZE
  BY <1>1 DEF PoolHold
<1>3. pool[t].at \in {"begin", "reply"} /\ pool[t].k \in 1..Len(pool[t].ids)
  BY <1>1, <1>2, PoolTypes DEF PoolPoint, Work
<1>4. Unanswered(pool[t]) = pool[t].k..Len(pool[t].ids)
  BY <1>3, PoolTypes DEF Unanswered
<1>5. \A k \in pool[t].k..Len(pool[t].ids) :
         /\ pool[t].ids[k] \in Held(pool[t])
         /\ stage[pool[t].ids[k]] = IF k = pool[t].k /\ pool[t].at = "reply"
                                    THEN "last" ELSE "answer"
  BY <1>1, <1>4 DEF PoolHold, PoolStage, Held
<1>6. pool[t].ids \in Seq(Ids) /\ pool[t].ids # <<>>
  BY <1>1 DEF Work
<1>7. \A k \in pool[t].k..Len(pool[t].ids) : k \in DOMAIN pool[t].ids
  BY <1>3, PoolTypes
<1>. QED  BY <1>1, <1>2, <1>3, <1>4, <1>5, <1>6, <1>7, PoolTypes DEF Current

\* The callback takes the request out of the hash.
LEMMA CallbackDelStages ==
    ASSUME TypeOK, NEW stage \in [Ids -> Stages], StageInv(stage),
           NEW t \in PoolThreads, CallbackDel(t),
           NEW id, id = Current(t), NEW next, next = Move(stage, {id}, "last")
    PROVE  id \in Ids /\ stage[id] = "answer" /\ StageInv(next)'
<1>. DEFINE v == pool[t]
<1>0. /\ PoolHold(stage) /\ v.fn = "callback" /\ v.at = "begin"
      /\ pool' = [pool EXCEPT ![t].at = "reply"]
  BY DEF StageInv, CallbackDel, Runs, Goto
<1>1. /\ v \in Work /\ PoolPoint(v) /\ v.ids \in Seq(Ids) /\ Len(v.ids) \in Nat
      /\ DOMAIN v.ids = 1..Len(v.ids)
      /\ v.k \in 1..Len(v.ids) /\ id = v.ids[v.k]
      /\ IsInjective(v.ids) /\ Len(v.ids) <= MAX_BATCH_SIZE
      /\ Unanswered(v) = v.k..Len(v.ids)
      /\ \A k \in v.k..Len(v.ids) : v.ids[k] \in Ids /\ stage[v.ids[k]] = "answer"
  BY <1>0, CallbackPoint
<1>2. id \in Ids /\ stage[id] = "answer"
  BY <1>1
<1>3. KeepsRequests(stage)
  BY KeepsUnchanged DEF CallbackDel
<1>4. PICK w : w = [v EXCEPT !.at = "reply"]
  OBVIOUS
<1>5. /\ pool' = [pool EXCEPT ![t] = w] /\ w \in Work
      /\ w.fn = "callback" /\ w.ids = v.ids /\ w.at = "reply" /\ w.k = v.k
  BY <1>0, <1>1, <1>4 DEF Work, Points
<1>. HIDE DEF v
<1>6. next \in [Ids -> Stages] /\ \A i \in Ids : next[i] = IF i = id THEN "last" ELSE stage[i]
  BY <1>2, StageNames DEF Move
<1>7. Unanswered(w) = Unanswered(v) /\ Held(w) = Held(v) /\ id \in Held(v)
  BY <1>0, <1>1, <1>5 DEF Unanswered, Held
<1>8. PoolPoint(w)
  BY <1>5 DEF PoolPoint
<1>10. \A k \in Unanswered(w) : next[w.ids[k]] = PoolStage(w, k)
  <2>. SUFFICES ASSUME NEW k \in v.k..Len(v.ids) PROVE next[v.ids[k]] = PoolStage(w, k)
    BY <1>1, <1>5, <1>7
  <2>1. k # v.k => v.ids[k] # id
    BY <1>1 DEF IsInjective
  <2>. QED  BY <1>1, <1>5, <1>6, <2>1 DEF PoolStage
<1>12. GoesOn(v, w, stage, next)
  BY <1>1, <1>5, <1>6, <1>7, <1>8, <1>10 DEF GoesOn
<1>13. PoolHold(next)'
  BY <1>0, <1>3, <1>5, <1>6, <1>12, PoolStep DEF v
<1>14. Frame(next, "answer", "last")
  BY <1>2, <1>3, StageFrame, StageNames
<1>15. /\ UNCHANGED <<incoming_queue, handler, agios, ready_queue, dispatcher, jobs>>
       /\ requests' = requests \ {id}
  BY DEF CallbackDel, poolOnly
<1>16. requests' = {i \in Ids : next[i] \in Hashed}
  BY <1>2, <1>6, <1>15 DEF StageInv, Hashed
<1>. QED  BY <1>2, <1>13, <1>14, <1>15, <1>16 DEF StageInv, Frame, JobStages

\* The callback answers, and frees the request.
LEMMA CallbackReplyStages ==
    ASSUME TypeOK, NEW stage \in [Ids -> Stages], StageInv(stage),
           NEW t \in PoolThreads, CallbackReply(t),
           NEW id, id = Current(t), NEW next, next = Move(stage, {id}, "free")
    PROVE  id \in Ids /\ stage[id] = "last" /\ StageInv(next)'
<1>. DEFINE v == pool[t]
<1>0. /\ PoolHold(stage) /\ v.fn = "callback" /\ v.at = "reply"
      /\ pool' = [pool EXCEPT ![t] = AfterReply(@)]
  BY DEF StageInv, CallbackReply, Runs
<1>1. /\ v \in Work /\ PoolPoint(v) /\ v.ids \in Seq(Ids) /\ Len(v.ids) \in Nat
      /\ v.ids # <<>> /\ DOMAIN v.ids = 1..Len(v.ids)
      /\ v.k \in 1..Len(v.ids) /\ id = v.ids[v.k]
      /\ IsInjective(v.ids) /\ Len(v.ids) <= MAX_BATCH_SIZE
      /\ Unanswered(v) = v.k..Len(v.ids)
      /\ \A k \in v.k..Len(v.ids) :
            v.ids[k] \in Ids /\ stage[v.ids[k]] = IF k = v.k THEN "last" ELSE "answer"
  BY <1>0, CallbackPoint
<1>2. id \in Ids /\ stage[id] = "last"
  BY <1>1
<1>3. KeepsRequests(stage)
  <2>1. fr' = [fr EXCEPT ![id] = NoRequest]
    BY DEF CallbackReply
  <2>2. \A i \in Ids : i # id => fr'[i] = fr[i]
    BY <2>1 DEF TypeOK, FileTypes
  <2>. QED  BY <1>2, <2>2, KeepsAfterGivingUp
<1>4. PICK w : w = AfterReply(v)
  OBVIOUS
<1>5. /\ pool' = [pool EXCEPT ![t] = w] /\ w \in Work \cup {IdleThread}
  <2>1. v.k <= Len(v.ids)
    BY <1>1
  <2>. QED  BY <1>0, <1>1, <1>4, <2>1, AfterReplyType
<1>. HIDE DEF v
<1>6. next \in [Ids -> Stages] /\ \A i \in Ids : next[i] = IF i = id THEN "free" ELSE stage[i]
  BY <1>2, StageNames DEF Move
<1>9. Held(v) = {v.ids[k] : k \in v.k..Len(v.ids)}
  BY <1>1 DEF Held
<1>12. GoesOn(v, w, stage, next)
  <2>1. CASE v.k = Len(v.ids)
    <3>1. w = IdleThread /\ Held(v) = {id}
      <4>1. w = IdleThread
        BY <2>1, <1>1, <1>4 DEF AfterReply
      <4>2. \A k \in v.k..Len(v.ids) : k = v.k
        BY <2>1, <1>1
      <4>. QED  BY <4>1, <4>2, <1>1, <1>9
    <3>2. w \notin Work /\ Held(w) = {}
      BY <3>1, IdleHolds DEF IdleThread, Work, Points
    <3>3. next[id] \notin PoolStages
      BY <1>2, <1>6 DEF PoolStages
    <3>. QED  BY <3>1, <3>2, <3>3, <1>6 DEF GoesOn
  <2>2. CASE v.k # Len(v.ids)
    <3>1. w.fn = "callback" /\ w.ids = v.ids /\ w.at = "begin" /\ w.k = v.k + 1
      BY <2>2, <1>0, <1>1, <1>4 DEF AfterReply, v, Work
    <3>2. Unanswered(w) = (v.k + 1)..Len(v.ids)
      BY <3>1, <1>1 DEF Unanswered
    <3>3. \A k \in (v.k + 1)..Len(v.ids) : /\ v.ids[k] # id /\ v.ids[k] \in Ids
                                           /\ v.ids[k] \in Held(v) /\ stage[v.ids[k]] = "answer"
      BY <1>1, <1>9 DEF IsInjective
    <3>4. Held(w) = Held(v) \ {id} /\ id \in Held(v)
      <4>1. Held(w) = {v.ids[k] : k \in (v.k + 1)..Len(v.ids)}
        BY <3>1, <3>2 DEF Held
      <4>2. \A k \in v.k..Len(v.ids) : v.ids[k] # id => k \in (v.k + 1)..Len(v.ids)
        BY <1>1
      <4>3. v.k \in v.k..Len(v.ids)
        BY <1>1
      <4>. QED  BY <4>1, <4>2, <4>3, <1>1, <1>9, <3>3
    <3>5. PoolPoint(w)
      BY <3>1 DEF PoolPoint
    <3>6. \A k \in Unanswered(w) : next[w.ids[k]] = PoolStage(w, k)
      BY <3>1, <3>2, <3>3, <1>6 DEF PoolStage
    <3>7. IsInjective(w.ids) /\ Len(w.ids) <= MAX_BATCH_SIZE
      BY <3>1, <1>1
    <3>8. /\ \A i \in Ids \ (Held(v) \cup Held(w)) : next[i] = stage[i]
          /\ \A i \in Held(w) \ Held(v) : stage[i] \notin PoolStages
          /\ \A i \in Held(v) \ Held(w) : next[i] \notin PoolStages
      BY <3>4, <1>2, <1>6 DEF PoolStages
    <3>. QED  BY <3>1, <3>5, <3>6, <3>7, <3>8 DEF GoesOn
  <2>. QED  BY <2>1, <2>2
<1>13. PoolHold(next)'
  BY <1>0, <1>3, <1>5, <1>6, <1>12, PoolStep DEF v
<1>14. Frame(next, "last", "free")
  BY <1>2, <1>3, StageFrame, StageNames
<1>15. UNCHANGED <<incoming_queue, handler, agios, ready_queue, dispatcher, jobs, requests>>
  BY DEF CallbackReply, poolOnly
<1>. QED  BY <1>2, <1>13, <1>14, <1>15 DEF StageInv, Frame, JobStages, Hashed

-----------------------------------------------------------------------------
(* The dispatcher. *)

\* How many numbers there are up to n.
LEMMA UpTo ==
    ASSUME NEW n \in Nat
    PROVE  IsFiniteSet(1..n) /\ Cardinality(1..n) = n
<1>1. 1 \in Int /\ n \in Int
  OBVIOUS
<1>2. IsFiniteSet(1..n) /\ Cardinality(1..n) = IF 1 > n THEN 0 ELSE n - 1 + 1
  BY <1>1, FS_Interval
<1>. QED  BY <1>2

\* The requests that join a batch are of its kind, and it has room for them.
LEMMA JoiningIsSound ==
    ASSUME TypeOK, NEW id
    PROVE  /\ Joining(id) \in 0..Len(ready_queue) /\ Joining(id) <= BatchRoom
           /\ \A j \in 1..Joining(id) : Same(id, ready_queue[j])
<1>. DEFINE Fits(j) == ready_queue[j] \in requests /\ Same(id, ready_queue[j])
            T == {n \in DOMAIN ready_queue : n <= BatchRoom /\ \A j \in 1..n : Fits(j)}
            n == Joining(id)
<1>1. DOMAIN ready_queue = 1..Len(ready_queue) /\ Len(ready_queue) \in Nat
  BY DEF TypeOK, QueueTypes
<1>2. n = Cardinality(T) /\ n \in 0..Len(ready_queue)
  BY JoiningType DEF Joining
<1>3. BatchRoom \in Nat
  BY SizesAssumption DEF BatchRoom
<1>4. ASSUME NEW j \in 1..n PROVE j \in T
  <2>1. SUFFICES ASSUME j \notin T PROVE FALSE
    OBVIOUS
  <2>2. j \in Nat /\ j - 1 \in Nat /\ n \in Nat
    BY <1>1, <1>2
  <2>3. T \in SUBSET (1..(j - 1))
    <3>. SUFFICES ASSUME NEW k \in T PROVE k \in 1..(j - 1)
      OBVIOUS
    <3>1. k \in 1..Len(ready_queue) /\ k <= BatchRoom /\ \A i \in 1..k : Fits(i)
      BY <1>1
    <3>. HIDE DEF Fits
    <3>2. ASSUME j <= k PROVE FALSE
      <4>1. j \in DOMAIN ready_queue /\ j <= BatchRoom
        BY <1>1, <1>2, <1>3, <2>2, <3>1, <3>2
      <4>2. \A i \in 1..j : i \in 1..k
        BY <2>2, <3>1, <3>2
      <4>3. \A i \in 1..j : Fits(i)
        BY <3>1, <4>2
      <4>. QED  BY <2>1, <4>1, <4>3
    <3>. QED  BY <2>2, <3>1, <3>2
  <2>. HIDE DEF T
  <2>4. IsFiniteSet(1..(j - 1)) /\ Cardinality(1..(j - 1)) = j - 1
    BY <2>2, UpTo
  <2>5. Cardinality(T) <= j - 1
    <3>1. Cardinality(T) <= Cardinality(1..(j - 1))
      BY <2>3, <2>4, FS_Subset
    <3>. QED  BY <2>4, <3>1
  <2>. QED  BY <1>2, <2>2, <2>5
<1>5. n = 0 \/ n \in T
  <2>. HIDE DEF n
  <2>1. n \in Nat
    BY <1>1, <1>2
  <2>. QED  BY <1>4, <2>1
<1>6. \A j \in 1..n : Same(id, ready_queue[j])
  <2>. HIDE DEF n
  <2>1. \A j \in 1..n : j \in 1..j /\ j \in T
    BY <1>4
  <2>. QED  BY <2>1
<1>. QED  BY <1>2, <1>3, <1>5, <1>6

\* The dispatcher starts a batch with the head of the ready queue.
LEMMA DispatcherPopStages ==
    ASSUME TypeOK, NEW stage \in [Ids -> Stages], StageInv(stage), DispatcherPop,
           NEW id, id = Head(ready_queue), NEW next, next = Move(stage, {id}, "batch")
    PROVE  id \in Ids /\ stage[id] = "ready" /\ StageInv(next)'
<1>0. ready_queue \in Seq(Ids) /\ QueueHolds(ready_queue, "ready", stage)
      /\ ready_queue # <<>> /\ ready_queue' = Tail(ready_queue)
      /\ dispatcher.at = "pop" /\ dispatcher' = [at |-> "find", ids |-> <<id>>]
      /\ DispatcherHolds(stage)
  BY DEF TypeOK, QueueTypes, StageInv, DispatcherPop
<1>1. id \in Ids /\ stage[id] = "ready" /\ QueueHolds(Tail(ready_queue), "ready", next)
  <2>. DEFINE q == ready_queue
  <2>1. q \in Seq(Ids) /\ QueueHolds(q, "ready", stage) /\ q # <<>> /\ id = Head(q)
        /\ "batch" # "ready"
    BY <1>0
  <2>. HIDE DEF q
  <2>2. /\ Head(q) \in Ids /\ stage[Head(q)] = "ready"
        /\ QueueHolds(Tail(q), "ready", Move(stage, {Head(q)}, "batch"))
    BY <2>1, QueueTake, Zenon
  <2>. QED  BY <2>1, <2>2 DEF q
<1>2. QueueHolds(<<id>>, "batch", next)
  <2>1. {} = {i \in Ids : stage[i] = "batch"}
    <3>1. dispatcher.ids = <<>>
      BY <1>0, DispatcherTypes
    <3>2. Range(dispatcher.ids) = {}
      BY <3>1 DEF Range
    <3>. QED  BY <1>0, <3>2 DEF DispatcherHolds, QueueHolds
  <2>2. {id} = {i \in Ids : next[i] = "batch"}
    BY <1>1, <2>1 DEF Move
  <2>3. IsInjective(<<id>>) /\ Range(<<id>>) = {id}
    BY DEF IsInjective, Range
  <2>. QED  BY <2>2, <2>3 DEF QueueHolds
<1>3. DispatcherHolds(next)'
  <2>1. /\ dispatcher'.ids = <<id>> /\ dispatcher'.at = "find"
        /\ Len(<<id>>) = 1 /\ DOMAIN <<id>> = {1} /\ IsInjective(<<id>>)
    BY <1>0 DEF IsInjective
  <2>2. 1 <= MAX_BATCH_SIZE
    BY SizesAssumption
  <2>. QED  BY <1>2, <2>1, <2>2 DEF DispatcherHolds, QueueHolds, IsBatch, Same
<1>4. KeepsRequests(stage)
  BY KeepsUnchanged DEF DispatcherPop, dispatcherOnly
<1>5. Frame(next, "ready", "batch")
  BY <1>1, <1>4, StageFrame, StageNames
<1>6. UNCHANGED <<incoming_queue, handler, agios, requests, jobs, pool>>
  BY DEF DispatcherPop, dispatcherOnly
<1>7. QueueHolds(ready_queue, "ready", next)'
  BY <1>0, <1>1 DEF QueueHolds
<1>. QED  BY <1>1, <1>3, <1>5, <1>6, <1>7 DEF StageInv, Frame, JobStages, PoolStages, Hashed

\* Looking the requests of the batch up moves none of them.
LEMMA DispatcherFindStages ==
    ASSUME TypeOK, NEW stage \in [Ids -> Stages], StageInv(stage), DispatcherFind
    PROVE  StageInv(stage)'
<1>1. KeepsRequests(stage)
  BY KeepsUnchanged DEF DispatcherFind, dispatcherOnly
<1>2. /\ {} \in SUBSET Ids /\ (\A id \in {} : stage[id] = "free") /\ "free" \in Stages
      /\ stage = Move(stage, {}, "free")
  BY StageNames DEF Move
<1>3. Frame(stage, "free", "free")
  BY <1>1, <1>2, StageFrame
<1>4. UNCHANGED <<incoming_queue, handler, agios, requests, jobs, pool, ready_queue, fr>>
  BY DEF DispatcherFind, dispatcherOnly
<1>5. DispatcherHolds(stage)'
  <2>1. /\ dispatcher.at = "find" /\ dispatcher'.at = "batch"
        /\ dispatcher'.ids = dispatcher.ids
    BY DEF DispatcherFind, TypeOK, ThreadTypes, IdleDispatcher
  <2>. QED  BY <1>4, <2>1 DEF StageInv, DispatcherHolds, QueueHolds, IsBatch, Same
<1>. QED  BY <1>3, <1>4, <1>5 DEF StageInv, Frame, JobStages, PoolStages

\* The dispatcher adds identifiers of the ready queue to its batch.
LEMMA DispatcherBatchStages ==
    ASSUME TypeOK, NEW stage \in [Ids -> Stages], StageInv(stage), DispatcherBatch
    PROVE  \E X \in SUBSET {id \in Ids : stage[id] = "ready"} :
              StageInv(Move(stage, X, "batch"))'
<1>0. /\ ready_queue \in Seq(Ids) /\ QueueHolds(ready_queue, "ready", stage)
      /\ DispatcherHolds(stage) /\ dispatcher.at = "batch"
  BY DEF TypeOK, QueueTypes, StageInv, DispatcherBatch
<1>1. PICK first, n : first = dispatcher.ids[1] /\ n = Joining(first)
  OBVIOUS
<1>2. /\ n \in 0..Len(ready_queue) /\ n <= BatchRoom
      /\ \A j \in 1..n : Same(first, ready_queue[j])
  BY <1>1, JoiningIsSound
<1>3. PICK a : a = SubSeq(ready_queue, 1, n)
  OBVIOUS
<1>4. /\ ready_queue' = SubSeq(ready_queue, n + 1, Len(ready_queue))
      /\ dispatcher' = [at |-> "submit", ids |-> dispatcher.ids \o a]
  BY <1>1, <1>3 DEF DispatcherBatch, Remaining
<1>5. PICK next : next = Move(stage, Range(a), "batch")
  OBVIOUS
<1>6. /\ a \in Seq(Ids) /\ Len(a) = n /\ \A j \in 1..n : a[j] = ready_queue[j]
      /\ IsInjective(a) /\ Range(a) \subseteq {id \in Ids : stage[id] = "ready"}
      /\ QueueHolds(ready_queue, "ready", next)'
  <2>1. PICK q, rest, s, to : /\ q = ready_queue /\ rest = SubSeq(q, n + 1, Len(q))
                              /\ s = "ready" /\ to = "batch"
    OBVIOUS
  <2>2. /\ q \in Seq(Ids) /\ QueueHolds(q, s, stage)
        /\ Splits(q, n, a, rest)
        /\ to # s /\ next = Move(stage, Range(a), to)
    BY <1>0, <1>2, <1>3, <1>5, <2>1 DEF Splits
  <2>3. QueueHolds(rest, s, next)
    BY <2>2, QueueSplit
  <2>4. /\ a \in Seq(Ids) /\ Len(a) = n /\ \A j \in 1..n : a[j] = q[j]
        /\ IsInjective(a) /\ \A id \in Range(a) : id \in Ids /\ stage[id] = s
    BY <2>2, QueueFront
  <2>. QED  BY <1>4, <2>1, <2>3, <2>4 DEF QueueHolds
<1>8. /\ dispatcher.ids \in Seq(Ids) /\ Len(dispatcher.ids) = 1 /\ DOMAIN dispatcher.ids = {1}
      /\ QueueHolds(dispatcher.ids, "batch", stage) /\ Same(first, first)
  BY <1>0, <1>1, DispatcherTypes DEF DispatcherHolds, Same
<1>9. PICK b : b = dispatcher.ids \o a
  OBVIOUS
<1>10. QueueHolds(b, "batch", next)
  <2>1. \A id \in Range(a) : stage[id] # "batch"
    BY <1>6
  <2>. QED  BY <1>5, <1>6, <1>8, <1>9, <2>1, QueueConcat
<1>11. /\ b \in Seq(Ids) /\ Len(b) = 1 + n /\ DOMAIN b = 1..(1 + n)
       /\ b[1] = first /\ \A j \in 2..(1 + n) : b[j] = a[j - 1]
  <2>1. PICK q : q = dispatcher.ids
    OBVIOUS
  <2>2. q \in Seq(Ids) /\ Len(q) = 1 /\ q[1] = first /\ b = q \o a /\ n \in Nat
    BY <1>1, <1>2, <1>8, <1>9, <2>1
  <2>3. /\ b \in Seq(Ids) /\ Len(b) = 1 + n
        /\ b[1] = q[1] /\ \A j \in 2..(1 + n) : b[j] = a[j - 1]
    <3>1. /\ q \o a \in Seq(Ids) /\ Len(q \o a) = Len(q) + Len(a)
          /\ \A i \in 1 .. Len(q) + Len(a) : (q \o a)[i] =
                       IF i <= Len(q) THEN q[i] ELSE a[i - Len(q)]
      BY <1>6, <2>2, ConcatProperties, Zenon
    <3>2. \A i \in 1..(1 + n) : b[i] = IF i <= 1 THEN q[i] ELSE a[i - 1]
      BY <1>6, <2>2, <3>1
    <3>3. Len(b) = 1 + n /\ b \in Seq(Ids)
      BY <1>6, <2>2, <3>1
    <3>4. \A j \in 2..(1 + n) : j \in 1..(1 + n) /\ ~(j <= 1)
      BY <2>2
    <3>. QED  BY <2>2, <3>2, <3>3, <3>4
  <2>. QED  BY <2>2, <2>3
<1>12. KeepsRequests(stage) /\ UNCHANGED fr
  BY KeepsUnchanged DEF DispatcherBatch, dispatcherOnly
<1>13. \A j \in DOMAIN b : Same(first, b[j])
  <2>. SUFFICES ASSUME NEW j \in 1..(1 + n), j # 1 PROVE Same(first, b[j])
    BY <1>8, <1>11
  <2>1. n \in Int /\ j - 1 \in 1..n /\ j \in 2..(1 + n)
    BY <1>2
  <2>. QED  BY <2>1, <1>2, <1>6, <1>11
<1>14. DispatcherHolds(next)'
  <2>1. dispatcher'.at = "submit" /\ dispatcher'.ids = b
    BY <1>4, <1>9
  <2>2. Len(b) <= MAX_BATCH_SIZE
    BY <1>2, <1>11, SizesAssumption DEF BatchRoom
  <2>3. \A j, k \in DOMAIN b : Same(b[j], b[k])
    BY <1>13 DEF Same
  <2>. QED  BY <1>10, <1>12, <2>1, <2>2, <2>3 DEF DispatcherHolds, QueueHolds, IsBatch, Same
<1>15. Range(a) \in SUBSET Ids /\ \A id \in Range(a) : stage[id] = "ready"
  BY <1>6
<1>16. Frame(next, "ready", "batch")
  BY <1>5, <1>12, <1>15, StageFrame, StageNames
<1>17. UNCHANGED <<incoming_queue, handler, agios, requests, jobs, pool>>
  BY DEF DispatcherBatch, dispatcherOnly
<1>18. StageInv(next)'
  BY <1>6, <1>14, <1>16, <1>17 DEF StageInv, Frame, JobStages, PoolStages, Hashed
<1>. QED  BY <1>5, <1>6, <1>18

\* The dispatcher submits its batch as a job.
LEMMA DispatcherSubmitStages ==
    ASSUME TypeOK, NEW stage \in [Ids -> Stages], StageInv(stage), DispatcherSubmit,
           NEW ids, ids = dispatcher.ids, NEW next, next = Move(stage, Range(ids), "dispatch")
    PROVE  /\ Range(ids) \subseteq Ids
           /\ \A id \in Range(ids) : stage[id] = "batch"
           /\ StageInv(next)'
<1>0. /\ DispatcherHolds(stage) /\ JobsHold(stage) /\ dispatcher.at = "submit"
      /\ jobs' = Append(jobs, [fn |-> "dispatch_operation", ids |-> ids])
      /\ dispatcher' = IdleDispatcher
  BY DEF StageInv, DispatcherSubmit
<1>1. /\ ids \in Seq(Ids) /\ ids # <<>> /\ IsBatch(ids)
      /\ Range(ids) = {id \in Ids : stage[id] = "batch"}
  BY <1>0, DispatcherTypes DEF DispatcherHolds, QueueHolds
<1>2. \A k \in DOMAIN ids : stage[ids[k]] = "batch"
  BY <1>1 DEF Range
<1>3. KeepsRequests(stage)
  BY KeepsUnchanged DEF DispatcherSubmit, dispatcherOnly
<1>4. /\ IsJob("dispatch_operation", ids) /\ JobStage("dispatch_operation") = "dispatch"
      /\ "dispatch_operation" \in JobFunctions
  BY <1>1 DEF IsJob, Handles, JobStage, JobFunctions
<1>5. \A k \in DOMAIN ids : stage[ids[k]] \notin JobStages \cup {"free", "reply", "last"}
  BY <1>2 DEF JobStages
<1>6. JobsHold(Move(stage, Range(ids), JobStage("dispatch_operation")))'
  BY <1>0, <1>1, <1>3, <1>4, <1>5, JobsAppend
<1>7. JobsHold(next)'
  BY <1>4, <1>6
<1>8. DispatcherHolds(next)'
  <2>1. dispatcher'.at = "pop" /\ dispatcher'.ids = <<>>
    BY <1>0 DEF IdleDispatcher
  <2>2. {} = {id \in Ids : next[id] = "batch"}
    BY <1>1 DEF Move
  <2>3. /\ IsInjective(<<>>) /\ Range(<<>>) = {} /\ Len(<<>>) = 0 /\ DOMAIN <<>> = {}
    BY DEF IsInjective, Range
  <2>4. 0 <= MAX_BATCH_SIZE
    BY SizesAssumption
  <2>. QED  BY <2>1, <2>2, <2>3, <2>4 DEF DispatcherHolds, QueueHolds, IsBatch
<1>9. Range(ids) \in SUBSET Ids /\ \A id \in Range(ids) : stage[id] = "batch"
  BY <1>1
<1>11. Frame(next, "batch", "dispatch")
  BY <1>3, <1>9, StageFrame, StageNames
<1>12. UNCHANGED <<incoming_queue, handler, agios, requests, pool, ready_queue>>
  BY DEF DispatcherSubmit, dispatcherOnly
<1>. QED  BY <1>7, <1>8, <1>9, <1>11, <1>12 DEF StageInv, Frame, PoolStages, Hashed

-----------------------------------------------------------------------------
(* The requests and the clients. *)

\* The markers of nothing are no identifier, descriptor or client.
LEMMA MarkersApart == NoId \notin Ids /\ NoFd \notin Fds /\ Nobody \notin Clients /\ Ids \subseteq Nat
  BY IdAssumption, FdAssumption DEF NoId, NoFd, Nobody, Ids, Fds, Clients

\* A client that the server has a request of, and what the server has of it.
LEMMA ServedClient ==
    ASSUME NEW stage, NEW own, NEW c, ClientOK(c, stage, own), own[c] # NoId
    PROVE  Served(c, stage, own)
  BY DEF ClientOK, Quiet, Asking, HasAnswer, GaveUp

\* The request of a used identifier is the one that its client waits for.
LEMMA RequestOf ==
    ASSUME TypeOK, NEW stage, NEW own, OwnInv(stage, own), ClientInv(stage, own),
           NEW id \in Ids, stage[id] # "free", NEW c, c = fr[id].rank
    PROVE  /\ c \in Clients /\ own[c] = id /\ Served(c, stage, own)
           /\ RequestAt(fr[id], stage[id]) /\ IsRequestOf(fr[id], c)
<1>1. RequestAt(fr[id], stage[id]) /\ own[c] = id
  BY DEF OwnInv
<1>2. fr[id].operation \in Operations /\ fr[id] \in ForwardingRequest
  BY <1>1 DEF RequestAt, TypeOK, FileTypes
<1>3. c \in Clients
  BY <1>2 DEF ForwardingRequest, Operations
<1>4. Served(c, stage, own)
  BY <1>1, <1>3, ServedClient, MarkersApart DEF ClientInv
<1>. QED  BY <1>1, <1>3, <1>4 DEF Served

\* Nothing that client d sees, or the server has of it, has changed.
Undisturbed(d, stage, own, next, nown) ==
    /\ pc'[d] = pc[d] /\ phase'[d] = phase[d] /\ iter'[d] = iter[d]
    /\ fh'[d] = fh[d] /\ request_id'[d] = request_id[d]
    /\ requestMsgs'[d] = requestMsgs[d] /\ handleMsgs'[d] = handleMsgs[d]
    /\ ackMsgs'[d] = ackMsgs[d] /\ Mail(d)' = Mail(d)
    /\ nown[d] = own[d]
    /\ own[d] # NoId => next[own[d]] = stage[own[d]] /\ fr'[own[d]] = fr[own[d]]

\* What a client asks for depends on its own state alone.
LEMMA AsksForFrame ==
    ASSUME NEW c, pc'[c] = pc[c], phase'[c] = phase[c], iter'[c] = iter[c], fh'[c] = fh[c]
    PROVE  /\ AsksFor(c)' = AsksFor(c)
           /\ \A r : IsRequestOf(r, c)' <=> IsRequestOf(r, c)
  BY DEF AsksFor, IsRequestOf

\* A client that a step does not touch is still served as it was.
LEMMA UndisturbedClient ==
    ASSUME NEW stage, NEW own, NEW next, NEW nown, NEW c, Running,
           Undisturbed(c, stage, own, next, nown), ClientOK(c, stage, own)
    PROVE  ClientOK(c, next, nown)'
<1>0. AsksFor(c)' = AsksFor(c)
  BY AsksForFrame DEF Undisturbed
<1>1. CASE pc[c] \in Idle /\ Quiet(c, own)
  <2>1. (pc[c] \in Idle /\ Quiet(c, nown))'
    BY <1>1 DEF Quiet, Undisturbed, Idle
  <2>. QED  BY <2>1 DEF ClientOK
<1>2. CASE Asking(c, own)
  <2>1. Asking(c, nown)'
    BY <1>0, <1>2 DEF Asking, Undisturbed
  <2>. QED  BY <2>1 DEF ClientOK
<1>3. CASE Served(c, stage, own)
  <2>0. PICK id : id = own[c]
    OBVIOUS
  <2>1. /\ id \in Ids /\ id # NoId /\ nown[c] = id /\ next[id] = stage[id] /\ fr'[id] = fr[id]
    BY <1>3, <2>0, MarkersApart DEF Served, Undisturbed
  <2>2. IsRequestOf(fr[nown[c]], c)'
    BY <1>0, <1>3, <2>0, <2>1 DEF Served, IsRequestOf
  <2>3. ServedAs(c, next[nown[c]], nown[c])'
    <3>1. ServedAs(c, stage[id], id)
      BY <1>3, <2>0 DEF Served
    <3>. QED  BY <2>1, <3>1 DEF ServedAs, Undisturbed
  <2>. QED  BY <1>3, <2>0, <2>1, <2>2, <2>3 DEF ClientOK, Served, Undisturbed
<1>4. CASE HasAnswer(c, own)
  <2>1. HasAnswer(c, nown)'
    BY <1>4 DEF HasAnswer, Undisturbed
  <2>. QED  BY <2>1 DEF ClientOK
<1>5. CASE GaveUp(c, own)
  BY <1>5 DEF GaveUp, Running
<1>. QED  BY <1>1, <1>2, <1>3, <1>4, <1>5 DEF ClientOK

-----------------------------------------------------------------------------
(* Steps within the server that no client sees. *)

\* The stages s and t differ in nothing that a client or a file depends on.
Alike(s, t) ==
    /\ s = "free" <=> t = "free"
    /\ s = "reply" <=> t = "reply"
    /\ s = "wait" <=> t = "wait"
    /\ s \in Unacked <=> t \in Unacked
    /\ s \in Buffered <=> t \in Buffered
\* A request for a file itself does not leave the handler.
Silent(stage, next) ==
    \A id \in Ids : /\ Alike(stage[id], next[id])
                    /\ \/ stage[id] \in Arriving <=> next[id] \in Arriving
                       \/ fr[id].operation \in {"read", "write"}

\* Steps within the server keep each request with its client.
LEMMA SilentRequests ==
    ASSUME TypeOK, NEW stage, NEW own, NEW next, Silent(stage, next), UNCHANGED fr,
           OwnInv(stage, own)
    PROVE  OwnInv(next, own)'
<1>. SUFFICES ASSUME NEW id \in Ids
              PROVE  /\ next[id] = "free" <=> fr[id] = NoRequest
                     /\ next[id] # "free" => RequestAt(fr[id], next[id]) /\ own[fr[id].rank] = id
  BY DEF OwnInv
<1>1. next[id] = "free" <=> fr[id] = NoRequest
  BY DEF OwnInv, Silent, Alike
<1>2. ASSUME next[id] # "free" PROVE RequestAt(fr[id], next[id]) /\ own[fr[id].rank] = id
  <2>1. RequestAt(fr[id], stage[id]) /\ own[fr[id].rank] = id
    BY <1>2 DEF OwnInv, Silent, Alike
  <2>2. /\ Alike(stage[id], next[id])
        /\ \/ stage[id] \in Arriving <=> next[id] \in Arriving
           \/ fr[id].operation \in {"read", "write"}
    BY DEF Silent
  <2>3. next[id] \in Delegated =>
            stage[id] \in Delegated \/ fr[id].operation \in {"read", "write"}
    BY <2>2 DEF Alike, Delegated, Unacked, Arriving
  <2>. QED  BY <2>1, <2>2, <2>3 DEF Alike, RequestAt
<1>. QED  BY <1>1, <1>2

\* Steps within the server keep each client served.
LEMMA SilentClients ==
    ASSUME TypeOK, NEW stage, NEW own, NEW next, Silent(stage, next), UNCHANGED <<clientVars, netVars, fr, aborted>>,
           ClientInv(stage, own), NEW c \in Clients
    PROVE  ClientOK(c, next, own)'
<1>0. /\ UNCHANGED <<pc, phase, iter, fh, request_id, requestMsgs, handleMsgs, ackMsgs, dataMsgs,
                     fr, aborted>>
  BY DEF clientVars, netVars
<1>1. ClientOK(c, stage, own)
  BY DEF ClientInv
<1>2. CASE Served(c, stage, own)
  <2>0. PICK id : id = own[c]
    OBVIOUS
  <2>1. /\ id \in Ids /\ stage[id] # "free" /\ IsRequestOf(fr[id], c)
        /\ requestMsgs[c] = <<>> /\ handleMsgs[c] = <<>> /\ ServedAs(c, stage[id], id)
    BY <1>2, <2>0 DEF Served
  <2>2. /\ Alike(stage[id], next[id])
        /\ \/ stage[id] \in Arriving <=> next[id] \in Arriving
           \/ fr[id].operation \in {"read", "write"}
    BY <2>1 DEF Silent
  <2>3. pc[c] \in {"handle", "closing"} => fr[id].operation \in {"open", "close"}
    BY <2>1 DEF IsRequestOf, AsksFor
  <2>4. ServedAs(c, next[id], id)
    BY <2>1, <2>2, <2>3 DEF ServedAs, Alike
  <2>5. (ServedAs(c, next[own[c]], own[c]))'
    BY <1>0, <2>0, <2>4 DEF ServedAs, Mail
  <2>6. IsRequestOf(fr[own[c]], c)'
    BY <1>0, <2>0, <2>1, AsksForFrame
  <2>7. next[own[c]] # "free"
    BY <2>0, <2>1, <2>2 DEF Alike
  <2>. QED  BY <1>0, <2>0, <2>1, <2>5, <2>6, <2>7 DEF ClientOK, Served
<1>3. CASE ~Served(c, stage, own)
  <2>1. AsksFor(c)' = AsksFor(c)
    BY <1>0, AsksForFrame
  <2>2. Mail(c)' = Mail(c)
    BY <1>0 DEF Mail
  <2>3. Quiet(c, own)' <=> Quiet(c, own)
    BY <1>0, <2>2 DEF Quiet
  <2>4. Asking(c, own)' <=> Asking(c, own)
    BY <1>0, <2>1, <2>2 DEF Asking
  <2>5. HasAnswer(c, own)' <=> HasAnswer(c, own)
    BY <1>0, <2>2 DEF HasAnswer
  <2>. QED  BY <1>0, <1>1, <1>3, <2>3, <2>4, <2>5 DEF ClientOK, GaveUp
<1>. QED  BY <1>2, <1>3

\* Steps that issue no identifier age none.
LEMMA SilentAges ==
    ASSUME NEW own, UNCHANGED <<clientVars, netVars, global_id>>, AgeInv(own) PROVE AgeInv(own)'
<1>0. UNCHANGED <<pc, iter, barrier, requestMsgs, dataMsgs, global_id>>
  BY DEF clientVars, netVars
<1>1. \A d \in Clients : Taken(d)' = Taken(d)
  BY <1>0 DEF Taken
<1>2. \A c \in Clients : Overtaking(c)' = Overtaking(c)
  BY <1>0, <1>1 DEF Overtaking
<1>3. \A id : Age(id)' = Age(id)
  BY <1>0 DEF Age
<1>4. \A c, id : Tagged(c, id, own)' <=> Tagged(c, id, own)
  BY <1>0 DEF Tagged
<1>. QED  BY <1>2, <1>3, <1>4 DEF AgeInv

\* Whether a client has its file open depends on its own state and request.
LEMMA OpenFrame ==
    ASSUME NEW c, NEW stage, NEW own, NEW next, NEW nown,
           pc'[c] = pc[c], requestMsgs'[c] = requestMsgs[c],
           (nown[c] # NoId /\ next[nown[c]] # "reply") <=> (own[c] # NoId /\ stage[own[c]] # "reply")
    PROVE  Open(c, next, nown)' <=> Open(c, stage, own)
  BY DEF Open

\* Steps within the server open and close no file.
LEMMA SilentFiles ==
    ASSUME TypeOK, NEW stage, NEW own, NEW next, Silent(stage, next), UNCHANGED <<clientVars, netVars, opened_files, pvfs_fh_id>>,
           \A c \in Clients : own[c] \in Ids \cup {NoId}, FileInv(stage, own)
    PROVE  FileInv(next, own)'
<1>0. UNCHANGED <<pc, phase, fh, barrier, requestMsgs, handleMsgs, opened_files, pvfs_fh_id>>
  BY DEF clientVars, netVars
<1>1. \A c \in Clients : Open(c, next, own)' <=> Open(c, stage, own)
  <2>. SUFFICES ASSUME NEW c \in Clients PROVE Open(c, next, own)' <=> Open(c, stage, own)
    OBVIOUS
  <2>1. (own[c] # NoId /\ next[own[c]] # "reply") <=> (own[c] # NoId /\ stage[own[c]] # "reply")
    BY DEF Silent, Alike
  <2>. QED  BY <1>0, <2>1, OpenFrame
<1>2. \A f : Openers(f, next, own)' = Openers(f, stage, own)
  BY <1>1 DEF Openers
<1>3. FilesCounted(next, own)'
  BY <1>0, <1>2 DEF FilesCounted, FileInv
<1>4. OpenFiles' = OpenFiles /\ (Opening' <=> Opening)
  BY <1>0 DEF OpenFiles, Opening
<1>5. Descriptors'
  BY <1>0, <1>4 DEF Descriptors, FileInv
<1>6. \A c \in Clients : HandleKnown(c)'
  BY <1>0 DEF HandleKnown, FileInv
<1>7. LatestHandles'
  <2>1. \A d : FdAge(d)' = FdAge(d)
    BY <1>0 DEF FdAge
  <2>. QED  BY <1>0, <1>4, <2>1 DEF LatestHandles, FileInv
<1>. QED  BY <1>3, <1>5, <1>6, <1>7 DEF FileInv

\* Steps within the server move no bytes.
LEMMA SilentData ==
    ASSUME TypeOK, NEW stage, NEW own, NEW next, Silent(stage, next), UNCHANGED <<clientVars, netVars, fr, disk>>,
           \A id \in Ids : stage[id] \in Transferred <=> next[id] \in Transferred,
           \A c \in Clients : own[c] \in Ids \cup {NoId}, DataInv(stage, own)
    PROVE  DataInv(next, own)'
<1>0. UNCHANGED <<pc, phase, iter, disk, fr, dataMsgs>>
  BY DEF clientVars, netVars
<1>1. DiskInv'
  BY <1>0 DEF DiskInv, DataInv
<1>2. \A c, i : Written(c, i)' <=> Written(c, i)
  BY <1>0 DEF Written
<1>3. \A c \in Clients : own[c] # NoId =>
         /\ next[own[c]] \in Transferred <=> stage[own[c]] \in Transferred
         /\ next[own[c]] \in Buffered <=> stage[own[c]] \in Buffered
  BY DEF Silent, Alike
<1>4. ASSUME FullTransfers, NEW c \in Clients PROVE WritesDone(c, next, own)'
  <2>1. WritesDone(c, stage, own)
    BY <1>4 DEF DataInv
  <2>. QED  BY <1>0, <1>2, <1>3, <2>1 DEF WritesDone
<1>5. ASSUME NEW c \in Clients PROVE AllIssued(c)' /\ BufferOK(c, next, own)'
  BY <1>0, <1>3 DEF AllIssued, BufferOK, DataInv
<1>6. \A m \in dataMsgs' : DataOK(m)'
  BY <1>0 DEF DataOK, DataInv
<1>. QED  BY <1>1, <1>4, <1>5, <1>6 DEF DataInv

-----------------------------------------------------------------------------
(* The barriers of the clients. *)

\* Client c goes on to where its barrier count is right again.
LEMMA BarrierStep ==
    ASSUME TypeOK, BarrierInv, NEW c \in Clients, barrier'[c] >= barrier[c],
           \A d \in Clients : d # c =>
              pc'[d] = pc[d] /\ phase'[d] = phase[d] /\ barrier'[d] = barrier[d],
           barrier' \in [Clients -> Nat],
           barrier'[c] = BarriersIn(c)', \A d \in Clients : barrier'[d] >= Passed(c)',
           pc'[c] \notin {"shutdown", "done"} => phase'[c] \in Phases
    PROVE  BarrierInv'
<1>1. barrier \in [Clients -> Nat]
  BY DEF TypeOK, ClientTypes
<1>2. \A d \in Clients : d # c => Passed(d)' = Passed(d) /\ BarriersIn(d)' = BarriersIn(d)
  BY DEF Passed, BarriersIn
<1>3. \A d \in Clients : Passed(d) \in Int
  BY <1>1 DEF Passed
<1>4. ASSUME NEW d \in Clients, d # c, NEW e \in Clients PROVE barrier'[e] >= Passed(d)'
  <2>1. barrier[e] >= Passed(d)
    BY DEF BarrierInv
  <2>. QED  BY <1>1, <1>2, <1>3, <1>4, <2>1
<1>. QED  BY <1>2, <1>4 DEF BarrierInv

\* The client stays between two barriers, or leaves one that all have reached.
LEMMA NoBarrierStep ==
    ASSUME TypeOK, BarrierInv, NEW c \in Clients, UNCHANGED barrier,
           \A d \in Clients : d # c => pc'[d] = pc[d] /\ phase'[d] = phase[d],
           BarriersIn(c)' = BarriersIn(c),
           pc[c] \in {"opened", "drained", "closed"} => AllReached(c),
           pc'[c] \notin {"opened", "drained", "closed"},
           pc'[c] \notin {"shutdown", "done"} => phase'[c] \in Phases
    PROVE  BarrierInv'
<1>1. barrier \in [Clients -> Nat]
  BY DEF TypeOK, ClientTypes
<1>2. \A d \in Clients : barrier[d] >= barrier[c]
  BY DEF BarrierInv, Passed, AllReached
<1>3. \A d \in Clients : barrier'[d] >= Passed(c)'
  BY <1>2 DEF Passed
<1>. QED  BY <1>1, <1>3, BarrierStep DEF BarrierInv

\* A client that enters the barrier is at most one barrier ahead of the
\* others.
LEMMA EnterStep ==
    ASSUME TypeOK, BarrierInv, NEW c \in Clients, EnterBarrier(c),
           \A d \in Clients : d # c => pc'[d] = pc[d] /\ phase'[d] = phase[d],
           BarriersIn(c)' = BarriersIn(c) + 1,
           pc[c] \notin {"opened", "drained", "closed"},
           pc'[c] \in {"opened", "drained", "closed"},
           phase'[c] \in Phases
    PROVE  BarrierInv'
<1>1. barrier \in [Clients -> Nat]
  BY DEF TypeOK, ClientTypes
<1>2. /\ barrier' \in [Clients -> Nat] /\ barrier'[c] = barrier[c] + 1
      /\ \A d \in Clients : d # c => barrier'[d] = barrier[d]
  BY <1>1 DEF EnterBarrier
<1>3. \A d \in Clients : barrier'[d] >= Passed(c)'
  BY <1>1, <1>2 DEF BarrierInv, Passed
<1>. QED  BY <1>1, <1>2, <1>3, BarrierStep DEF BarrierInv

\* No step of a client lets it pass a barrier before all have entered.
LEMMA ClientBarriers ==
    ASSUME TypeOK, BarrierInv, NEW c \in Clients, Client(c) PROVE BarrierInv'
<1>0. /\ pc \in [Clients -> {"open", "handle", "opened", "issue", "id", "ack", "data", "drained",
                             "closing", "closed", "shutdown", "done"}]
      /\ phase \in [Clients -> {"write", "read"}] /\ barrier \in [Clients -> Nat]
      /\ pc[c] \notin {"shutdown", "done"} => phase[c] \in Phases
  BY DEF TypeOK, ClientTypes, BarrierInv
<1>1. CASE ClientOpen(c)
  <2>1. pc[c] = "open" /\ pc' = [pc EXCEPT ![c] = "handle"] /\ UNCHANGED <<phase, barrier>>
    BY <1>1 DEF ClientOpen, Request
  <2>. QED  BY <1>0, <2>1, NoBarrierStep DEF BarriersIn, Inside
<1>2. CASE ClientHandle(c)
  <2>1. pc[c] = "handle" /\ pc' = [pc EXCEPT ![c] = "opened"] /\ UNCHANGED phase /\ EnterBarrier(c)
    BY <1>2 DEF ClientHandle
  <2>2. BarriersIn(c)' = BarriersIn(c) + 1
    BY <1>0, <2>1 DEF BarriersIn, Inside
  <2>. QED  BY <1>0, <2>1, <2>2, EnterStep
<1>3. CASE ClientStart(c)
  <2>1. pc[c] = "opened" /\ pc' = [pc EXCEPT ![c] = "issue"] /\ UNCHANGED <<phase, barrier>>
        /\ AllReached(c)
    BY <1>3 DEF ClientStart
  <2>. QED  BY <1>0, <2>1, NoBarrierStep DEF BarriersIn, Inside
<1>4. CASE ClientIssue(c) \/ ClientSendData(c) \/ ClientReadId(c)
  <2>1. /\ pc[c] \in {"issue", "id"} /\ UNCHANGED <<phase, barrier>>
        /\ \E p \in {"id", "ack", "data"} : pc' = [pc EXCEPT ![c] = p]
    BY <1>4 DEF ClientIssue, ClientSendData, ClientReadId, Request
  <2>. QED  BY <1>0, <2>1, NoBarrierStep DEF BarriersIn, Inside
<1>5. ASSUME pc[c] \in {"ack", "data"}, NextIteration(c), UNCHANGED phase PROVE BarrierInv'
  <2>1. CASE pc' = [pc EXCEPT ![c] = "issue"] /\ UNCHANGED barrier
    BY <1>0, <1>5, <2>1, NoBarrierStep DEF BarriersIn, Inside
  <2>2. CASE pc' = [pc EXCEPT ![c] = "drained"] /\ EnterBarrier(c)
    <3>1. BarriersIn(c)' = BarriersIn(c) + 1
      BY <1>0, <1>5, <2>2 DEF BarriersIn, Inside
    <3>. QED  BY <1>0, <1>5, <2>2, <3>1, EnterStep
  <2>. QED  BY <1>5, <2>1, <2>2 DEF NextIteration
<1>6. CASE ClientWriteDone(c)
  BY <1>5, <1>6 DEF ClientWriteDone
<1>7. CASE ClientReadDone(c)
  <2>1. pc[c] = "data" /\ UNCHANGED phase /\ (NextIteration(c) \/ UNCHANGED <<pc, barrier>>)
    BY <1>7 DEF ClientReadDone
  <2>2. ASSUME UNCHANGED <<pc, barrier>> PROVE BarrierInv'
    BY <2>1, <2>2 DEF BarrierInv, BarriersIn, Passed
  <2>. QED  BY <1>5, <2>1, <2>2
<1>8. CASE ClientLoopEnd(c)
  <2>1. pc[c] = "issue" /\ pc' = [pc EXCEPT ![c] = "drained"] /\ UNCHANGED phase /\ EnterBarrier(c)
    BY <1>8 DEF ClientLoopEnd
  <2>2. BarriersIn(c)' = BarriersIn(c) + 1
    BY <1>0, <2>1 DEF BarriersIn, Inside
  <2>. QED  BY <1>0, <2>1, <2>2, EnterStep
<1>9. CASE ClientClose(c)
  <2>1. pc[c] = "drained" /\ pc' = [pc EXCEPT ![c] = "closing"] /\ UNCHANGED <<phase, barrier>>
        /\ AllReached(c)
    BY <1>9 DEF ClientClose, Request
  <2>. QED  BY <1>0, <2>1, NoBarrierStep DEF BarriersIn, Inside
<1>10. CASE ClientClosed(c)
  <2>1. pc[c] = "closing" /\ pc' = [pc EXCEPT ![c] = "closed"] /\ UNCHANGED phase /\ EnterBarrier(c)
    BY <1>10 DEF ClientClosed
  <2>2. BarriersIn(c)' = BarriersIn(c) + 1
    BY <1>0, <2>1 DEF BarriersIn, Inside
  <2>. QED  BY <1>0, <2>1, <2>2, EnterStep
<1>11. CASE ClientNext(c)
  <2>1. pc[c] = "closed" /\ pc' = [pc EXCEPT ![c] = Follows(phase[c])]
        /\ phase' = [phase EXCEPT ![c] = "read"] /\ UNCHANGED barrier /\ AllReached(c)
    BY <1>11 DEF ClientNext
  <2>2. /\ phase[c] \in Phases
        /\ pc'[c] = IF phase[c] = "write" /\ "read" \in Phases THEN "open" ELSE "shutdown"
        /\ phase'[c] = "read"
    BY <1>0, <2>1 DEF Follows
  <2>3. Phases \in {{"write"}, {"read"}, {"write", "read"}}
    BY LayoutAssumption
  <2>4. BarriersIn(c)' = BarriersIn(c)
    BY <1>0, <2>1, <2>2, <2>3 DEF BarriersIn, Inside
  <2>. QED  BY <1>0, <2>1, <2>2, <2>4, NoBarrierStep
<1>12. CASE ClientShutdown(c)
  <2>1. pc[c] = "shutdown" /\ pc' = [pc EXCEPT ![c] = "done"] /\ UNCHANGED <<phase, barrier>>
    BY <1>12 DEF ClientShutdown, Request
  <2>. QED  BY <1>0, <2>1, NoBarrierStep DEF BarriersIn, Inside
<1>. QED
  BY <1>1, <1>2, <1>3, <1>4, <1>6, <1>7, <1>8, <1>9, <1>10, <1>11, <1>12 DEF Client

-----------------------------------------------------------------------------
(* How old an identifier gets. *)

\* A client that an identifier is in use for waits for an answer.
Waiting == {"handle", "closing", "id", "ack", "data"}

\* A client that still uses an identifier waits, with no request under way.
LEMMA TaggedWaits ==
    ASSUME NEW stage, NEW own, NEW c, NEW id \in Ids, ClientOK(c, stage, own), Tagged(c, id, own)
    PROVE  pc[c] \in Waiting /\ requestMsgs[c] = <<>>
<1>1. ASSUME Quiet(c, own) \/ Asking(c, own) PROVE FALSE
  <2>1. own[c] = NoId /\ Mail(c) = {}
    BY <1>1 DEF Quiet, Asking
  <2>. QED  BY <2>1, MarkersApart DEF Tagged, Mail
<1>2. Served(c, stage, own) \/ HasAnswer(c, own)
  BY <1>1 DEF ClientOK, GaveUp
<1>. QED  BY <1>2 DEF Served, ServedAs, HasAnswer, Waiting

\* The same after a step.
LEMMA TaggedWaitsNext ==
    ASSUME NEW stage, NEW own, NEW c, NEW id \in Ids, ClientOK(c, stage, own)',
           Tagged(c, id, own)'
    PROVE  pc'[c] \in Waiting
<1>1. ASSUME Quiet(c, own)' \/ Asking(c, own)' PROVE FALSE
  <2>1. own[c] = NoId /\ Mail(c)' = {}
    BY <1>1 DEF Quiet, Asking
  <2>. QED  BY <2>1, MarkersApart DEF Tagged, Mail
<1>2. Served(c, stage, own)' \/ HasAnswer(c, own)'
  BY <1>1 DEF ClientOK, GaveUp
<1>. QED  BY <1>2 DEF Served, ServedAs, HasAnswer, Waiting

\* The number of requests a client has sent since is a number.
LEMMA TakenType ==
    ASSUME TypeOK, NEW d \in Clients PROVE Taken(d) \in Nat
<1>1. iter[d] \in Nat
  BY SizesAssumption DEF TypeOK, ClientTypes
<1>. QED  BY <1>1 DEF Taken

\* At least one request, and no less than those of a phase.
LEMMA MostTakenType == MostTaken \in Nat \ {0} /\ NRequests <= MostTaken
  BY SizesAssumption DEF MostTaken

\* There are NClients clients.
LEMMA ClientsFinite == IsFiniteSet(Clients) /\ Cardinality(Clients) = NClients
<1>1. 0 \in Int /\ NClients - 1 \in Int /\ NClients \in Nat \ {0}
  BY SizesAssumption
<1>2. /\ IsFiniteSet(0..(NClients - 1))
      /\ Cardinality(0..(NClients - 1)) = IF 0 > NClients - 1 THEN 0 ELSE (NClients - 1) - 0 + 1
  BY <1>1, FS_Interval
<1>. QED  BY <1>1, <1>2 DEF Clients

\* At most MostTaken requests of each other client overtake one of a client.
LEMMA OvertakingFinite ==
    ASSUME NEW c \in Clients
    PROVE  LET P == (Clients \ {c}) \X (0..(MostTaken - 1))
           IN  /\ IsFiniteSet(P) /\ Cardinality(P) = (NClients - 1) * MostTaken
               /\ IsFiniteSet(Overtaking(c)) /\ Overtaking(c) \subseteq P
<1>. DEFINE others == Clients \ {c}
            counts == 0..(MostTaken - 1)
            P == others \X counts
<1>1. IsFiniteSet(others) /\ Cardinality(others) = NClients - 1
  BY ClientsFinite, FS_RemoveElement
<1>2. IsFiniteSet(counts) /\ Cardinality(counts) = MostTaken
  <2>1. 0 \in Int /\ MostTaken - 1 \in Int /\ MostTaken \in Nat \ {0}
    BY MostTakenType
  <2>2. /\ IsFiniteSet(0..(MostTaken - 1))
        /\ Cardinality(0..(MostTaken - 1)) = IF 0 > MostTaken - 1 THEN 0 ELSE (MostTaken - 1) - 0 + 1
    BY <2>1, FS_Interval
  <2>. QED  BY <2>1, <2>2
<1>3. Overtaking(c) \subseteq P
  BY DEF Overtaking
<1>. HIDE DEF others, counts
<1>4. IsFiniteSet(P) /\ Cardinality(P) = (NClients - 1) * MostTaken
  BY <1>1, <1>2, FS_Product
<1>5. IsFiniteSet(Overtaking(c))
  BY <1>3, <1>4, FS_Subset
<1>. QED  BY <1>3, <1>4, <1>5 DEF others, counts

\* A step of a client moves no other one.
LEMMA ClientMovesOne ==
    ASSUME TypeOK, NEW c \in Clients, Client(c), NEW d \in Clients, d # c
    PROVE  /\ pc'[d] = pc[d] /\ phase'[d] = phase[d] /\ iter'[d] = iter[d] /\ fh'[d] = fh[d]
           /\ request_id'[d] = request_id[d]
           /\ requestMsgs'[d] = requestMsgs[d] /\ handleMsgs'[d] = handleMsgs[d]
           /\ ackMsgs'[d] = ackMsgs[d] /\ Mail(d)' = Mail(d)
<1>. USE DEF TypeOK, ClientTypes, NetTypes
<1>1. CASE ClientOpen(c) \/ ClientClose(c) \/ ClientIssue(c) \/ ClientShutdown(c)
  BY <1>1 DEF ClientOpen, ClientClose, ClientIssue, ClientShutdown, Request, Send, Mail
<1>2. CASE ClientHandle(c) \/ ClientStart(c) \/ ClientLoopEnd(c) \/ ClientClosed(c) \/ ClientNext(c)
           \/ ClientReadId(c)
  BY <1>2 DEF ClientHandle, ClientStart, ClientLoopEnd, ClientClosed, ClientNext, ClientReadId,
              Recv, Mail, netVars
<1>3. CASE ClientSendData(c)
  <2>1. Mail(d)' = Mail(d)
    <3>1. PICK m : m = [to |-> "server", rank |-> c, tag |-> Head(ackMsgs[c]), data |-> c]
      OBVIOUS
    <3>2. dataMsgs' = dataMsgs \cup {m} /\ m.rank = c
      BY <1>3, <3>1 DEF ClientSendData
    <3>. QED  BY <3>2 DEF Mail
  <2>2. /\ ackMsgs' = Recv(ackMsgs, c) /\ pc' = [pc EXCEPT ![c] = "ack"]
        /\ UNCHANGED <<phase, iter, fh, requestMsgs, handleMsgs>>
        /\ request_id'[d] = request_id[d]
    BY <1>3 DEF ClientSendData
  <2>. QED  BY <2>1, <2>2 DEF Recv
<1>4. CASE ClientWriteDone(c)
  BY <1>4 DEF ClientWriteDone, NextIteration, Recv, Mail
<1>5. CASE ClientReadDone(c)
  <2>1. Mail(d)' = Mail(d)
    BY <1>5 DEF ClientReadDone, Mail
  <2>. QED  BY <1>5, <2>1 DEF ClientReadDone, NextIteration
<1>. QED  BY <1>1, <1>2, <1>3, <1>4, <1>5 DEF Client

\* What a client has taken only grows, until it enters its next barrier.
LEMMA TakenStep ==
    ASSUME TypeOK, NEW stage, NEW own, NEW e \in Clients, ClientOK(e, stage, own), Client(e)
    PROVE  \/ barrier' = barrier /\ Taken(e)' >= Taken(e)
           \/ /\ barrier' = [barrier EXCEPT ![e] = @ + 1] /\ pc'[e] \in Idle
<1>0. /\ pc \in [Clients -> {"open", "handle", "opened", "issue", "id", "ack", "data", "drained",
                             "closing", "closed", "shutdown", "done"}]
      /\ iter \in [Clients -> 0..NRequests] /\ iter[e] \in Nat /\ NRequests \in Nat
      /\ requestMsgs \in [Clients -> Seq(Message)]
  BY SizesAssumption DEF TypeOK, ClientTypes, NetTypes
<1>. DEFINE Goal == barrier' = barrier /\ Taken(e)' >= Taken(e)
            Enters == barrier' = [barrier EXCEPT ![e] = @ + 1] /\ pc'[e] \in Idle
<1>1. CASE ClientHandle(e) \/ ClientLoopEnd(e) \/ ClientClosed(e)
  <2>1. Enters
    BY <1>0, <1>1 DEF ClientHandle, ClientLoopEnd, ClientClosed, EnterBarrier, Idle
  <2>. QED  BY <2>1
<1>2. ASSUME pc[e] \in {"ack", "data"}, NextIteration(e) PROVE Goal \/ Enters
  <2>1. CASE iter' = [iter EXCEPT ![e] = @ + 1] /\ pc' = [pc EXCEPT ![e] = "issue"] /\ UNCHANGED barrier
    <3>1. Taken(e) = iter[e] + 1 /\ Taken(e)' = iter[e] + 1
      BY <1>0, <1>2, <2>1 DEF Taken
    <3>. QED  BY <1>0, <2>1, <3>1
  <2>2. CASE pc' = [pc EXCEPT ![e] = "drained"] /\ EnterBarrier(e)
    BY <1>0, <2>2 DEF EnterBarrier, Idle
  <2>. QED  BY <1>2, <2>1, <2>2 DEF NextIteration
<1>3. CASE ClientWriteDone(e)
  BY <1>2, <1>3 DEF ClientWriteDone
<1>4. CASE ClientReadDone(e)
  <2>1. pc[e] = "data" /\ (NextIteration(e) \/ UNCHANGED <<pc, iter, barrier>>) /\ UNCHANGED requestMsgs
    BY <1>4 DEF ClientReadDone
  <2>2. ASSUME UNCHANGED <<pc, iter, barrier>> PROVE Goal
    <3>1. Taken(e)' = Taken(e)
      BY <2>1, <2>2 DEF Taken
    <3>. QED  BY <2>2, <3>1, TakenType
  <2>. QED  BY <1>2, <2>1, <2>2
<1>5. CASE ClientOpen(e) \/ ClientClose(e) \/ ClientNext(e) \/ ClientShutdown(e) \/ ClientStart(e)
  <2>1. /\ UNCHANGED barrier
        /\ pc[e] \in {"open", "drained", "closed", "shutdown", "opened"}
    BY <1>5 DEF ClientOpen, ClientClose, ClientNext, ClientShutdown, ClientStart
  <2>2. Taken(e) = 0
    BY <2>1 DEF Taken
  <2>3. Taken(e)' \in Nat
    <3>1. TypeOK'
      BY <1>5, ClientPreservesTypes DEF Client
    <3>2. iter'[e] \in Nat
      BY <3>1, SizesAssumption DEF TypeOK, ClientTypes
    <3>. QED  BY <3>2 DEF Taken
  <2>. QED  BY <2>1, <2>2, <2>3
<1>6. CASE ClientIssue(e)
  <2>1. /\ UNCHANGED <<barrier, iter>> /\ pc[e] = "issue" /\ pc' = [pc EXCEPT ![e] = "id"]
    BY <1>6 DEF ClientIssue, Request
  <2>2. Taken(e) = iter[e] /\ Taken(e)' \in {iter[e], iter[e] + 1}
    BY <1>0, <2>1 DEF Taken
  <2>. QED  BY <1>0, <2>1, <2>2
<1>7. CASE ClientSendData(e) \/ ClientReadId(e)
  <2>1. /\ UNCHANGED <<barrier, iter>> /\ pc[e] = "id" /\ ackMsgs[e] # <<>>
        /\ pc' = [pc EXCEPT ![e] = "ack"] \/ pc' = [pc EXCEPT ![e] = "data"]
    BY <1>7 DEF ClientSendData, ClientReadId
  <2>2. Taken(e) \in {iter[e], iter[e] + 1} /\ Taken(e)' = iter[e] + 1
    BY <1>0, <2>1 DEF Taken
  <2>. QED  BY <1>0, <2>1, <2>2
<1>. QED  BY <1>1, <1>3, <1>4, <1>5, <1>6, <1>7 DEF Client

\* Identifiers age only as the listener gives out others.
LEMMA AgeFrame ==
    ASSUME TypeOK, NEW own, NEW nown, UNCHANGED global_id, AgeInv(own),
           \A c \in Clients, id \in Ids : Tagged(c, id, nown)' =>
               Tagged(c, id, own) /\ Overtaking(c) \subseteq Overtaking(c)'
    PROVE  AgeInv(nown)'
<1>. SUFFICES ASSUME NEW c \in Clients, NEW id \in Ids, Tagged(c, id, nown)'
              PROVE  Age(id)' <= Cardinality(Overtaking(c)')
  BY DEF AgeInv
<1>1. Tagged(c, id, own) /\ Overtaking(c) \subseteq Overtaking(c)'
  OBVIOUS
<1>2. Age(id)' = Age(id) /\ Age(id) <= Cardinality(Overtaking(c))
  BY <1>1 DEF Age, AgeInv
<1>3. IsFiniteSet(Overtaking(c)') /\ IsFiniteSet(Overtaking(c))
  <2>1. IsFiniteSet(Overtaking(c)')
    <3>. DEFINE P == (Clients \ {c}) \X (0..(MostTaken - 1))
    <3>1. IsFiniteSet(P)
      BY OvertakingFinite
    <3>2. Overtaking(c)' \subseteq P
      BY DEF Overtaking
    <3>. HIDE DEF P
    <3>. QED  BY <3>1, <3>2, FS_Subset
  <2>. QED  BY <2>1, OvertakingFinite
<1>4. Cardinality(Overtaking(c)) <= Cardinality(Overtaking(c)')
  BY <1>1, <1>3, FS_Subset
<1>5. Cardinality(Overtaking(c)) \in Nat /\ Cardinality(Overtaking(c)') \in Nat
  BY <1>3, FS_CardinalityType
<1>6. Age(id) \in Int
  <2>1. global_id \in Ids
    BY DEF TypeOK, QueueTypes
  <2>. QED  BY <2>1, IdAssumption DEF Age, Ids, NIds
<1>. QED  BY <1>2, <1>4, <1>5, <1>6

\* A step of a client leaves the state of the server alone.
LEMMA ClientLeaves ==
    ASSUME NEW c \in Clients, Client(c)
    PROVE  UNCHANGED <<serverVars>>
  BY DEF Client, ClientOpen, ClientHandle, ClientStart, ClientIssue, ClientSendData, ClientReadId,
         ClientWriteDone, ClientReadDone, ClientLoopEnd, ClientClose, ClientClosed, ClientNext,
         ClientShutdown

\* A request that has overtaken that of a waiting client stays counted.
LEMMA OthersOvertake ==
    ASSUME TypeOK, NEW stage, NEW own, NEW e \in Clients, Client(e), ClientOK(e, stage, own),
           BarrierInv, NEW c \in Clients, pc[c] \in Waiting, pc'[c] \notin Idle
    PROVE  Overtaking(c) \subseteq Overtaking(c)'
<1>0. barrier \in [Clients -> Nat]
  BY DEF TypeOK, ClientTypes
<1>1. \/ barrier' = barrier /\ Taken(e)' >= Taken(e)
      \/ barrier' = [barrier EXCEPT ![e] = @ + 1] /\ pc'[e] \in Idle
  BY TakenStep
<1>2. barrier'[c] = barrier[c]
  BY <1>0, <1>1
<1>3. \A d \in Clients : d # e => Taken(d)' = Taken(d) /\ barrier'[d] = barrier[d]
  <2>. SUFFICES ASSUME NEW d \in Clients, d # e
                PROVE  Taken(d)' = Taken(d) /\ barrier'[d] = barrier[d]
    OBVIOUS
  <2>1. pc'[d] = pc[d] /\ iter'[d] = iter[d] /\ requestMsgs'[d] = requestMsgs[d]
    BY ClientMovesOne
  <2>2. Taken(d)' = Taken(d)
    BY <2>1 DEF Taken
  <2>. QED  BY <1>0, <1>1, <2>2
<1>4. barrier[e] >= barrier[c]
  <2>1. Passed(c) = barrier[c]
    BY DEF Passed, Waiting
  <2>. QED  BY <2>1 DEF BarrierInv
<1>5. ASSUME NEW p \in (Clients \ {c}) \X (0..(MostTaken - 1)),
             barrier[p[1]] > barrier[c] \/ p[2] < Taken(p[1])
      PROVE  barrier'[p[1]] > barrier'[c] \/ p[2] < Taken(p[1])'
  <2>0. PICK d, k : d = p[1] /\ k = p[2]
    OBVIOUS
  <2>1. d \in Clients /\ k \in Nat
    BY <2>0, MostTakenType
  <2>2. Taken(d) \in Nat
    BY <2>1, TakenType
  <2>3. CASE d # e
    BY <1>2, <1>3, <1>5, <2>0, <2>1, <2>3
  <2>4. CASE d = e
    <3>1. CASE barrier' = barrier /\ Taken(e)' >= Taken(e)
      <4>1. Taken(e)' \in Int
        <5>1. TypeOK'
          BY ClientPreservesTypes
        <5>2. iter'[e] \in Nat
          BY <5>1, SizesAssumption DEF TypeOK, ClientTypes
        <5>. QED  BY <5>2 DEF Taken
      <4>. QED  BY <1>5, <2>0, <2>1, <2>2, <2>4, <3>1, <4>1
    <3>2. CASE barrier' = [barrier EXCEPT ![e] = @ + 1]
      BY <1>0, <1>2, <1>4, <2>0, <2>4, <3>2
    <3>. QED  BY <1>1, <3>1, <3>2
  <2>. QED  BY <2>3, <2>4
<1>. QED  BY <1>5 DEF Overtaking

\* The steps of the clients keep the ages of the identifiers.
LEMMA ClientAges ==
    ASSUME TypeOK, NEW stage, NEW own, NEW e \in Clients, Client(e),
           ClientInv(stage, own), BarrierInv, AgeInv(own), ClientInv(stage, own)',
           \A c \in Clients, id \in Ids : Tagged(c, id, own)' => Tagged(c, id, own)
    PROVE  AgeInv(own)'
<1>1. UNCHANGED global_id
  BY ClientLeaves DEF serverVars
<1>2. ASSUME NEW c \in Clients, NEW id \in Ids, Tagged(c, id, own)'
      PROVE  Tagged(c, id, own) /\ Overtaking(c) \subseteq Overtaking(c)'
  <2>1. Tagged(c, id, own) /\ ClientOK(c, stage, own) /\ ClientOK(e, stage, own)
    BY <1>2 DEF ClientInv
  <2>2. pc[c] \in Waiting
    BY <2>1, TaggedWaits
  <2>3. pc'[c] \notin Idle
    <3>1. ClientOK(c, stage, own)'
      BY DEF ClientInv
    <3>2. pc'[c] \in Waiting
      BY <1>2, <3>1, TaggedWaitsNext
    <3>. QED  BY <3>2 DEF Waiting, Idle
  <2>. QED  BY <2>1, <2>2, <2>3, OthersOvertake
<1>. QED  BY <1>1, <1>2, AgeFrame

-----------------------------------------------------------------------------
(* A new identifier is one that nobody waits for. *)

\* A client with a request under way has not been given an identifier for it.
LEMMA AskingClient ==
    ASSUME NEW stage, NEW own, NEW d, ClientOK(d, stage, own), requestMsgs[d] # <<>>
    PROVE  Asking(d, own)
  BY DEF ClientOK, Quiet, Served, HasAnswer, GaveUp

\* The client whose request is taken next has taken less of the turns than it
\* may, and overtakes once more.
LEMMA OvertakesOnceMore ==
    ASSUME TypeOK, NEW own, NEW d \in Clients, Asking(d, own), pc[d] # "done", BarrierInv,
           NEW c \in Clients, c # d, pc[c] \in Waiting
    PROVE  /\ <<d, Taken(d)>> \in (Clients \ {c}) \X (0..(MostTaken - 1))
           /\ <<d, Taken(d)>> \notin Overtaking(c)
           /\ Cardinality(Overtaking(c)) < (NClients - 1) * MostTaken
<1>. DEFINE P == (Clients \ {c}) \X (0..(MostTaken - 1))
            p == <<d, Taken(d)>>
<1>1. Taken(d) \in 0..(MostTaken - 1)
  <2>1. requestMsgs[d] # <<>> /\ pc[d] \in {"handle", "id", "closing"}
    BY DEF Asking
  <2>2. pc[d] = "id" => iter[d] \in 0..(NRequests - 1)
    BY SizesAssumption DEF TypeOK, ClientTypes
  <2>3. Taken(d) = 0 \/ (pc[d] = "id" /\ Taken(d) = iter[d])
    <3>1. pc[d] = "id" => iter[d] \in Nat
      BY <2>2, SizesAssumption
    <3>. QED  BY <2>1, <3>1 DEF Taken
  <2>. QED  BY <2>2, <2>3, MostTakenType, SizesAssumption
<1>2. p \in P
  BY <1>1
<1>3. p \notin Overtaking(c)
  <2>1. barrier[c] >= barrier[d]
    BY DEF Asking, BarrierInv, Passed
  <2>2. barrier[c] \in Nat /\ barrier[d] \in Nat /\ Taken(d) \in Nat
    BY <1>1, MostTakenType DEF TypeOK, ClientTypes
  <2>3. p[1] = d /\ p[2] = Taken(d)
    OBVIOUS
  <2>4. ~(barrier[p[1]] > barrier[c] \/ p[2] < Taken(p[1]))
    BY <2>1, <2>2, <2>3
  <2>. QED  BY <2>4 DEF Overtaking
<1>4. Cardinality(Overtaking(c)) < Cardinality(P)
  <2>. DEFINE O == Overtaking(c)
  <2>1. IsFiniteSet(P) /\ IsFiniteSet(O) /\ O \subseteq P
    BY OvertakingFinite
  <2>. HIDE DEF P, O, p
  <2>2. IsFiniteSet(O \cup {p}) /\ Cardinality(O \cup {p}) = Cardinality(O) + 1
    BY <1>3, <2>1, FS_AddElement DEF O
  <2>3. O \cup {p} \subseteq P
    BY <1>2, <2>1
  <2>4. Cardinality(O \cup {p}) <= Cardinality(P)
    BY <2>1, <2>3, FS_Subset
  <2>5. Cardinality(O) \in Nat /\ Cardinality(P) \in Nat
    BY <2>1, FS_CardinalityType
  <2>6. Cardinality(O) < Cardinality(P)
    BY <2>2, <2>4, <2>5
  <2>. QED  BY <2>6 DEF O
<1>5. Cardinality(P) = (NClients - 1) * MostTaken
  BY OvertakingFinite
<1>. HIDE DEF P, p
<1>6. Cardinality(Overtaking(c)) < (NClients - 1) * MostTaken
  BY <1>4, <1>5
<1>. QED  BY <1>2, <1>3, <1>6 DEF P, p

\* A new identifier has age zero, and the others are one older.
LEMMA NextAge ==
    ASSUME NEW g \in Ids, NEW i \in Ids
    PROVE  LET n == generate_identifier(g)
               age(h) == IF i <= h THEN h - i ELSE h - i + NIds
           IN  /\ i = n => age(g) = NIds - 1 /\ age(n) = 0
               /\ i # n => age(n) = age(g) + 1
               /\ age(g) \in Nat /\ age(n) \in Nat
  BY IdAssumption DEF Ids, NIds, generate_identifier

\* The next identifier is one that nobody waits for.
LEMMA NewIdIsFree ==
    ASSUME TypeOK, IdsSuffice, NEW stage, NEW own, ClientInv(stage, own), BarrierInv, AgeInv(own),
           NEW d \in Clients, requestMsgs[d] # <<>>, pc[d] # "done",
           NEW id, id = generate_identifier(global_id)
    PROVE  \A c \in Clients : ~Tagged(c, id, own)
<1>. SUFFICES ASSUME NEW c \in Clients, Tagged(c, id, own) PROVE FALSE
  OBVIOUS
<1>1. global_id \in Ids /\ id \in Ids
  BY IdAfter DEF TypeOK, QueueTypes
<1>2. Asking(d, own)
  BY AskingClient DEF ClientInv
<1>3. pc[c] \in Waiting /\ requestMsgs[c] = <<>>
  BY <1>1, TaggedWaits DEF ClientInv
<1>4. Cardinality(Overtaking(c)) < (NClients - 1) * MostTaken
  <2>1. c # d
    BY <1>3
  <2>. QED  BY <1>2, <1>3, <2>1, OvertakesOnceMore
<1>5. Age(id) <= Cardinality(Overtaking(c))
  BY <1>1 DEF AgeInv
<1>6. Age(id) = NIds - 1
  BY <1>1, NextAge DEF Age
<1>7. NIds \in Int /\ (NClients - 1) * MostTaken \in Int /\ Cardinality(Overtaking(c)) \in Int
  <2>1. NClients - 1 \in Int /\ MostTaken \in Int
    BY SizesAssumption, MostTakenType
  <2>2. (NClients - 1) * MostTaken \in Int
    BY <2>1
  <2>3. Cardinality(Overtaking(c)) \in Nat
    BY OvertakingFinite, FS_CardinalityType
  <2>4. NIds \in Int
    BY IdAssumption DEF NIds
  <2>. QED  BY <2>2, <2>3, <2>4
<1>. DEFINE x == (NClients - 1) * MostTaken
<1>8. x < NIds
  BY DEF IdsSuffice
<1>. HIDE DEF x
<1>9. x \in Int /\ Cardinality(Overtaking(c)) < x
  BY <1>4, <1>7 DEF x
<1>. QED  BY <1>5, <1>6, <1>7, <1>8, <1>9

\* When the listener takes a request, each identifier in use is one older, and
\* one more overtook it.
LEMMA ListenerAges ==
    ASSUME TypeOK, IdsSuffice, NEW stage, NEW own, ClientInv(stage, own), BarrierInv, AgeInv(own),
           NEW d \in Clients, ListenerRequest(d), pc[d] # "done", NEW id, id = global_id',
           NEW nown, \A c \in Clients : nown[c] = IF c = d THEN id ELSE own[c]
    PROVE  AgeInv(nown)'
<1>0. /\ requestMsgs[d] # <<>> /\ id = generate_identifier(global_id)
      /\ UNCHANGED <<pc, iter, barrier, dataMsgs>>
      /\ requestMsgs' = [requestMsgs EXCEPT ![d] = Tail(@)]
  BY DEF ListenerRequest, clientVars, Recv
<1>1. global_id \in Ids /\ id \in Ids
  BY <1>0, IdAfter DEF TypeOK, QueueTypes
<1>2. Asking(d, own)
  BY <1>0, AskingClient DEF ClientInv
<1>3. \A c \in Clients : ~Tagged(c, id, own)
  BY <1>0, NewIdIsFree
<1>. SUFFICES ASSUME NEW c \in Clients, NEW i \in Ids, Tagged(c, i, nown)'
              PROVE  Age(i)' <= Cardinality(Overtaking(c)')
  BY DEF AgeInv
<1>4. IsFiniteSet(Overtaking(c)')
  <2>. DEFINE P == (Clients \ {c}) \X (0..(MostTaken - 1))
  <2>1. IsFiniteSet(P)
    BY OvertakingFinite
  <2>2. Overtaking(c)' \subseteq P
    BY DEF Overtaking
  <2>. HIDE DEF P
  <2>. QED  BY <2>1, <2>2, FS_Subset
<1>5. Cardinality(Overtaking(c)') \in Nat
  BY <1>4, FS_CardinalityType
<1>6. CASE i = id
  <2>1. Age(i)' = 0
    BY <1>0, <1>1, <1>6, NextAge DEF Age
  <2>. QED  BY <1>5, <2>1
<1>7. CASE i # id
  <2>1. Tagged(c, i, own)
    BY <1>0, <1>7 DEF Tagged
  <2>2. pc[c] \in Waiting /\ c # d
    BY <1>0, <2>1, TaggedWaits DEF ClientInv
  <2>. DEFINE p == <<d, Taken(d)>>
              O == Overtaking(c)
              Q == Overtaking(c)'
  <2>3. /\ p \in (Clients \ {c}) \X (0..(MostTaken - 1)) /\ p \notin O
    BY <1>2, <2>2, OvertakesOnceMore
  <2>4. \A e \in Clients : Taken(e)' = IF e = d THEN Taken(d) + 1 ELSE Taken(e)
    <3>1. \A e \in Clients : e # d => Taken(e)' = Taken(e)
      BY <1>0 DEF Taken, TypeOK, NetTypes
    <3>2. Taken(d)' = Taken(d) + 1
      <4>1. requestMsgs[d] = <<AsksFor(d)>> /\ pc[d] \in {"handle", "id", "closing"}
        BY <1>2 DEF Asking
      <4>2. requestMsgs'[d] = <<>>
        BY <1>0, <4>1 DEF TypeOK, NetTypes
      <4>3. iter[d] \in Int
        BY DEF TypeOK, ClientTypes
      <4>. QED  BY <1>0, <4>1, <4>2, <4>3 DEF Taken
    <3>. QED  BY <3>1, <3>2
  <2>5. O \cup {p} \subseteq Q
    <3>1. Taken(d) \in Nat /\ Taken(d)' = Taken(d) + 1
      BY <2>4, TakenType
    <3>2. p \in Q
      <4>1. p[1] = d /\ p[2] = Taken(d)
        OBVIOUS
      <4>2. p[2] < Taken(p[1])'
        BY <3>1, <4>1
      <4>. QED  BY <2>3, <4>2 DEF Overtaking
    <3>3. ASSUME NEW q \in O PROVE q \in Q
      <4>0. /\ q \in (Clients \ {c}) \X (0..(MostTaken - 1))
            /\ barrier[q[1]] > barrier[c] \/ q[2] < Taken(q[1])
        BY DEF Overtaking
      <4>1. q[1] \in Clients /\ q[2] \in Nat
        BY <4>0, MostTakenType
      <4>2. Taken(q[1]) \in Nat
        BY <4>1, TakenType
      <4>3. q[2] < Taken(q[1]) => q[2] < Taken(q[1])'
        BY <2>4, <4>1, <4>2
      <4>4. barrier[q[1]] > barrier[c] => barrier'[q[1]] > barrier'[c]
        BY <1>0
      <4>5. /\ q \in (Clients \ {c}) \X (0..(MostTaken - 1))
            /\ barrier'[q[1]] > barrier'[c] \/ q[2] < Taken(q[1])'
        BY <4>0, <4>3, <4>4
      <4>. HIDE DEF O
      <4>. QED  BY <4>5 DEF Overtaking
    <3>. QED  BY <3>2, <3>3
  <2>6. IsFiniteSet(O)
    BY OvertakingFinite
  <2>. HIDE DEF O, Q, p
  <2>7. Cardinality(O) + 1 <= Cardinality(Q)
    <3>1. IsFiniteSet(O \cup {p}) /\ Cardinality(O \cup {p}) = Cardinality(O) + 1
      BY <2>3, <2>6, FS_AddElement
    <3>2. IsFiniteSet(Q)
      BY <1>4 DEF Q
    <3>. QED  BY <2>5, <3>1, <3>2, FS_Subset
  <2>8. Age(i)' = Age(i) + 1 /\ Age(i) \in Nat
    BY <1>0, <1>1, <1>7, NextAge DEF Age
  <2>9. Age(i) <= Cardinality(O)
    BY <2>1 DEF AgeInv, O
  <2>10. Cardinality(O) \in Nat /\ Cardinality(Q) \in Nat
    BY <1>5, <2>6, FS_CardinalityType DEF Q
  <2>11. Age(i)' <= Cardinality(Q)
    <3>. DEFINE a == Age(i)
    <3>. HIDE DEF a
    <3>1. Age(i)' = a + 1 /\ a \in Nat /\ a <= Cardinality(O)
      BY <2>8, <2>9 DEF a
    <3>. QED  BY <2>7, <2>10, <3>1
  <2>. QED  BY <2>11 DEF Q
<1>. QED  BY <1>6, <1>7

-----------------------------------------------------------------------------
(* What the server does with the request of one client. *)

\* What does not concern the request id, or client c, is as before.
OtherStages(stage, next, id) == \A i \in Ids : i # id => next[i] = stage[i]
OtherRequests(id) == \A i \in Ids : i # id => fr'[i] = fr[i]
OtherOwners(own, nown, c) == \A d \in Clients : d # c => nown[d] = own[d]
OtherMessages(c) ==
    \A d \in Clients : d # c =>
        /\ requestMsgs'[d] = requestMsgs[d] /\ handleMsgs'[d] = handleMsgs[d]
        /\ ackMsgs'[d] = ackMsgs[d] /\ Mail(d)' = Mail(d)

\* One identifier moves, the others stay.
LEMMA MoveOne ==
    ASSUME NEW stage, NEW id \in Ids, NEW to, NEW next, next = Move(stage, {id}, to)
    PROVE  next[id] = to /\ OtherStages(stage, next, id)
  BY DEF Move, OtherStages

\* A message to an empty channel is the only one there.
LEMMA OneMessage ==
    ASSUME NEW channel, DOMAIN channel = Clients, NEW c \in Clients, channel[c] = <<>>, NEW m
    PROVE  Send(channel, c, m)[c] = <<m>> /\ Len(Send(channel, c, m)[c]) = 1
<1>1. Send(channel, c, m)[c] = Append(<<>>, m)
  BY DEF Send
<1>2. Append(<<>>, m) = <<m>> /\ Len(<<m>>) = 1
  OBVIOUS
<1>. QED  BY <1>1, <1>2

\* The clients whose requests are others.
LEMMA OtherClients ==
    ASSUME TypeOK, Running, NEW stage, NEW own, NEW next, NEW nown, ClientInv(stage, own),
           NEW c \in Clients, NEW id, stage[id] = "free" \/ fr[id].rank = c,
           OtherStages(stage, next, id), OtherRequests(id), UNCHANGED clientVars,
           OtherOwners(own, nown, c), OtherMessages(c),
           ClientOK(c, next, nown)'
    PROVE  ClientInv(next, nown)'
<1>1. ASSUME NEW d \in Clients, d # c PROVE ClientOK(d, next, nown)'
  <2>1. ClientOK(d, stage, own)
    BY DEF ClientInv
  <2>2. own[d] # NoId => own[d] \in Ids /\ own[d] # id
    <3>1. SUFFICES ASSUME own[d] # NoId PROVE own[d] \in Ids /\ own[d] # id
      OBVIOUS
    <3>2. own[d] \in Ids /\ stage[own[d]] # "free" /\ fr[own[d]].rank = d
      BY <2>1, <3>1, ServedClient DEF Served, IsRequestOf
    <3>. QED  BY <1>1, <3>2
  <2>3. Undisturbed(d, stage, own, next, nown)
    BY <1>1, <2>2 DEF Undisturbed, clientVars, OtherStages, OtherRequests, OtherOwners, OtherMessages
  <2>. QED  BY <2>1, <2>3, UndisturbedClient
<1>. QED  BY <1>1 DEF ClientInv

\* The client whose request goes on.
LEMMA ServedGoesOn ==
    ASSUME NEW stage, NEW own, NEW next, NEW c, NEW id, id = own[c], Served(c, stage, own),
           UNCHANGED clientVars, requestMsgs'[c] = requestMsgs[c], handleMsgs'[c] = handleMsgs[c],
           /\ fr'[id].rank = fr[id].rank /\ fr'[id].operation = fr[id].operation
           /\ fr'[id].file = fr[id].file /\ fr'[id].file_handle = fr[id].file_handle
           /\ fr'[id].offset = fr[id].offset,
           next[id] # "free", ServedAs(c, next[own[c]], own[c])'
    PROVE  ClientOK(c, next, own)'
<1>1. UNCHANGED <<pc, phase, iter, fh>>
  BY DEF clientVars
<1>2. AsksFor(c)' = AsksFor(c)
  BY <1>1, AsksForFrame
<1>3. IsRequestOf(fr[own[c]], c)'
  BY <1>2 DEF Served, IsRequestOf
<1>. QED  BY <1>3 DEF Served, ClientOK

\* The requests, when one goes on, is over, or is new.
LEMMA RequestGoesOn ==
    ASSUME NEW stage \in [Ids -> Stages], NEW own, NEW next, OwnInv(stage, own),
           NEW id \in Ids, stage[id] # "free", NEW to \in Stages, to # "free",
           next = Move(stage, {id}, to),
           OtherRequests(id),
           fr'[id].rank = fr[id].rank, RequestAt(fr'[id], to)
    PROVE  OwnInv(next, own)'
<1>. SUFFICES ASSUME NEW i \in Ids
              PROVE  /\ next[i] = "free" <=> fr'[i] = NoRequest
                     /\ next[i] # "free" => RequestAt(fr'[i], next[i]) /\ own[fr'[i].rank] = i
  BY DEF OwnInv
<1>1. CASE i # id
  BY <1>1 DEF OwnInv, Move, OtherRequests
<1>2. CASE i = id
  <2>1. next[i] = to /\ own[fr'[i].rank] = i
    BY <1>2 DEF Move, OwnInv
  <2>2. fr'[i] # NoRequest
    BY <1>2 DEF RequestAt, Operations, NoRequest
  <2>. QED  BY <1>2, <2>1, <2>2
<1>. QED  BY <1>1, <1>2

\* A request that ends leaves the others with their clients.
LEMMA RequestIsOver ==
    ASSUME TypeOK, NEW stage \in [Ids -> Stages], NEW own, NEW next, NEW nown,
           OwnInv(stage, own), ClientInv(stage, own),
           NEW id \in Ids, stage[id] # "free", next = Move(stage, {id}, "free"),
           fr' = [fr EXCEPT ![id] = NoRequest],
           OtherOwners(own, nown, fr[id].rank)
    PROVE  OwnInv(next, nown)'
<1>. SUFFICES ASSUME NEW i \in Ids
              PROVE  /\ next[i] = "free" <=> fr'[i] = NoRequest
                     /\ next[i] # "free" => RequestAt(fr'[i], next[i]) /\ nown[fr'[i].rank] = i
  BY DEF OwnInv
<1>0. /\ fr'[id] = NoRequest /\ \A j \in Ids : j # id => fr'[j] = fr[j]
  BY DEF TypeOK, FileTypes
<1>1. CASE i # id
  <2>1. next[i] = stage[i]
    BY <1>1 DEF Move
  <2>2. stage[i] # "free" => fr[i].rank \in Clients /\ own[fr[i].rank] = i
    BY RequestOf
  <2>3. own[fr[id].rank] = id
    BY RequestOf
  <2>. QED  BY <1>0, <1>1, <2>1, <2>2, <2>3 DEF OwnInv, OtherOwners
<1>2. CASE i = id
  BY <1>0, <1>2 DEF Move
<1>. QED  BY <1>1, <1>2

\* A request that arrives leaves the others with their clients.
LEMMA RequestIsNew ==
    ASSUME TypeOK, NEW stage \in [Ids -> Stages], NEW own, NEW next, NEW nown,
           OwnInv(stage, own), ClientInv(stage, own),
           NEW id \in Ids, stage[id] = "free", NEW to \in Stages, to # "free",
           next = Move(stage, {id}, to),
           NEW c \in Clients, own[c] = NoId, nown[c] = id,
           OtherOwners(own, nown, c),
           OtherRequests(id),
           fr'[id].rank = c, RequestAt(fr'[id], to)
    PROVE  OwnInv(next, nown)'
<1>. SUFFICES ASSUME NEW i \in Ids
              PROVE  /\ next[i] = "free" <=> fr'[i] = NoRequest
                     /\ next[i] # "free" => RequestAt(fr'[i], next[i]) /\ nown[fr'[i].rank] = i
  BY DEF OwnInv
<1>1. CASE i # id
  <2>1. next[i] = stage[i]
    BY <1>1 DEF Move
  <2>2. stage[i] # "free" => fr[i].rank \in Clients /\ own[fr[i].rank] = i
    BY RequestOf
  <2>. QED  BY <1>1, <2>1, <2>2, MarkersApart DEF OwnInv, OtherOwners, OtherRequests
<1>2. CASE i = id
  <2>1. next[i] = to /\ nown[fr'[i].rank] = i
    BY <1>2 DEF Move
  <2>2. fr'[i] # NoRequest
    BY <1>2 DEF RequestAt, Operations, NoRequest
  <2>. QED  BY <1>2, <2>1, <2>2
<1>. QED  BY <1>1, <1>2

\* The mail of the other clients is that of before.
LEMMA OtherMail ==
    ASSUME NEW c, NEW d, d # c, NEW m, m.rank = c,
           dataMsgs' = dataMsgs \cup {m} \/ dataMsgs' = dataMsgs \ {m}
    PROVE  Mail(d)' = Mail(d)
  BY DEF Mail

\* The fields of a request.
LEMMA RequestFields ==
    ASSUME TypeOK, NEW id \in Ids
    PROVE  fr[id] \in ForwardingRequest
           /\ DOMAIN fr[id] = {"operation", "file", "file_handle", "offset", "rank", "buffer"}
<1>1. fr[id] \in ForwardingRequest
  BY DEF TypeOK, FileTypes
<1>. QED  BY <1>1 DEF ForwardingRequest

-----------------------------------------------------------------------------
(* The listener. *)

\* The identifier the listener gives to a request is free.
LEMMA NextIdStage ==
    ASSUME TypeOK, IdsSuffice, NEW stage, NEW own, OwnInv(stage, own), ClientInv(stage, own),
           BarrierInv, AgeInv(own), NEW c \in Clients, ListenerRequest(c)
    PROVE  /\ pc[c] # "done" /\ Asking(c, own)
           /\ global_id' \in Ids /\ stage[global_id'] = "free" /\ \A d \in Clients : ~Tagged(d, global_id', own)
<1>1. requestMsgs[c] # <<>> /\ Head(requestMsgs[c]).operation # "empty"
      /\ global_id' = generate_identifier(global_id)
  BY DEF ListenerRequest
<1>2. Asking(c, own)
  BY <1>1, AskingClient DEF ClientInv
<1>3. pc[c] # "done"
  <2>1. requestMsgs[c] = <<AsksFor(c)>>
    BY <1>2 DEF Asking
  <2>. QED  BY <1>1, <2>1 DEF AsksFor
<1>4. PICK id : id = global_id'
  OBVIOUS
<1>5. id \in Ids
  BY <1>1, <1>4, IdAfter DEF TypeOK, QueueTypes
<1>6. \A d \in Clients : ~Tagged(d, id, own)
  BY <1>1, <1>3, <1>4, NewIdIsFree
<1>7. stage[id] = "free"
  BY <1>5, <1>6, RequestOf DEF Tagged
<1>. QED  BY <1>2, <1>3, <1>4, <1>5, <1>6, <1>7

\* The listener takes the request of a client.
LEMMA ListenerRequestClients ==
    ASSUME TypeOK, Running, NEW stage \in [Ids -> Stages], NEW own \in [Clients -> Ids \cup {NoId}],
           OwnInv(stage, own), ClientInv(stage, own), NEW c \in Clients, ListenerRequest(c),
           pc[c] # "done", NEW id \in Ids, id = global_id', stage[id] = "free",
           NEW next, next = Move(stage, {id}, "incoming"),
           NEW nown, nown = [own EXCEPT ![c] = id]
    PROVE  OwnInv(next, nown)' /\ ClientInv(next, nown)'
<1>1. /\ requestMsgs[c] # <<>> /\ requestMsgs' = Recv(requestMsgs, c)
      /\ UNCHANGED <<clientVars, handleMsgs, ackMsgs, dataMsgs, aborted>>
  BY DEF ListenerRequest
<1>2. Asking(c, own)
  BY <1>1, AskingClient DEF ClientInv
<1>3. PICK m : m = AsksFor(c)
  OBVIOUS
<1>4. requestMsgs[c] = <<m>> /\ pc[c] \in {"handle", "id", "closing"} /\ own[c] = NoId
      /\ handleMsgs[c] = <<>> /\ ackMsgs[c] = <<>> /\ Mail(c) = {}
  BY <1>2, <1>3 DEF Asking
<1>5. Head(requestMsgs[c]) = m
  BY <1>4
<1>6. /\ fr' = [fr EXCEPT ![id] =
                    [operation |-> m.operation, file |-> m.file,
                     file_handle |-> m.file_handle, offset |-> m.offset,
                     rank |-> c, buffer |-> Nobody]]
  BY <1>5 DEF ListenerRequest
<1>7. /\ fr'[id] = [operation |-> m.operation, file |-> m.file,
                     file_handle |-> m.file_handle, offset |-> m.offset,
                     rank |-> c, buffer |-> Nobody]
      /\ OtherRequests(id)
  BY <1>6 DEF TypeOK, FileTypes, OtherRequests
<1>8. m.operation \in Operations
  <2>1. phase[c] \in {"write", "read"}
    BY DEF TypeOK, ClientTypes
  <2>. QED  BY <1>3, <1>4, <2>1 DEF AsksFor, Operations
<1>9. OwnInv(next, nown)'
  <2>1. RequestAt(fr'[id], "incoming")
    BY <1>7, <1>8 DEF RequestAt, Delegated, Buffered, Hashed
  <2>2. nown[c] = id /\ OtherOwners(own, nown, c)
    BY DEF OtherOwners
  <2>3. fr'[id].rank = c /\ "incoming" \in Stages /\ "incoming" # "free"
    BY <1>7, StageNames
  <2>. QED  BY <1>4, <1>7, <2>1, <2>2, <2>3, RequestIsNew
<1>10. ClientOK(c, next, nown)'
  <2>1. nown[c] = id /\ next[id] = "incoming"
    BY DEF Move
  <2>2. requestMsgs'[c] = <<>> /\ \A d \in Clients : d # c => requestMsgs'[d] = requestMsgs[d]
    BY <1>1, <1>4 DEF Recv, TypeOK, NetTypes
  <2>3. UNCHANGED <<pc, phase, iter, fh>> /\ Mail(c)' = Mail(c)
    BY <1>1 DEF clientVars, Mail
  <2>4. AsksFor(c)' = m
    BY <1>3, <2>3, AsksForFrame
  <2>5. IsRequestOf(fr[nown[c]], c)'
    BY <1>7, <2>1, <2>4 DEF IsRequestOf
  <2>6. ServedAs(c, next[nown[c]], nown[c])'
    BY <1>1, <1>4, <2>1, <2>3 DEF ServedAs, Arriving, Unacked
  <2>. QED  BY <1>1, <1>4, <2>1, <2>2, <2>5, <2>6 DEF ClientOK, Served
<1>11. ClientInv(next, nown)'
  <2>1. OtherStages(stage, next, id) /\ OtherOwners(own, nown, c)
    BY MoveOne DEF OtherOwners
  <2>2. OtherMessages(c)
    BY <1>1 DEF OtherMessages, Recv, TypeOK, NetTypes, Mail
  <2>. QED  BY <1>1, <1>7, <1>10, <2>1, <2>2, OtherClients
<1>. QED  BY <1>9, <1>11

\* The listener takes the shutdown message of a client that is done.
LEMMA ListenerShutdownClients ==
    ASSUME TypeOK, Running, NEW stage \in [Ids -> Stages], NEW own \in [Clients -> Ids \cup {NoId}],
           OwnInv(stage, own), ClientInv(stage, own), NEW c \in Clients, ListenerShutdown(c)
    PROVE  /\ pc[c] = "done" /\ requestMsgs[c] # <<>> /\ requestMsgs'[c] = <<>>
           /\ OwnInv(stage, own)' /\ ClientInv(stage, own)'
<1>1. /\ requestMsgs[c] # <<>> /\ requestMsgs' = Recv(requestMsgs, c)
      /\ Head(requestMsgs[c]).operation = "empty"
      /\ UNCHANGED <<clientVars, handleMsgs, ackMsgs, dataMsgs, fr, aborted>>
  BY DEF ListenerShutdown
<1>2. Asking(c, own)
  BY <1>1, AskingClient DEF ClientInv
<1>3. requestMsgs[c] = <<AsksFor(c)>> /\ pc[c] \in {"handle", "id", "closing", "done"} /\ own[c] = NoId
      /\ handleMsgs[c] = <<>> /\ ackMsgs[c] = <<>> /\ Mail(c) = {}
  BY <1>2 DEF Asking
<1>4. pc[c] = "done"
  <2>1. phase[c] # "empty"
    BY DEF TypeOK, ClientTypes
  <2>. QED  BY <1>1, <1>3, <2>1 DEF AsksFor
<1>5. requestMsgs'[c] = <<>> /\ \A d \in Clients : d # c => requestMsgs'[d] = requestMsgs[d]
  BY <1>1, <1>3 DEF Recv, TypeOK, NetTypes
<1>6. OwnInv(stage, own)'
  BY <1>1 DEF OwnInv
<1>7. ClientOK(c, stage, own)'
  <2>1. pc'[c] = "done" /\ Mail(c)' = {}
    BY <1>1, <1>3, <1>4 DEF clientVars, Mail
  <2>. QED  BY <1>1, <1>3, <1>5, <2>1 DEF ClientOK, Quiet, Idle
<1>8. ASSUME NEW d \in Clients, d # c PROVE ClientOK(d, stage, own)'
  <2>1. ClientOK(d, stage, own)
    BY DEF ClientInv
  <2>2. Undisturbed(d, stage, own, stage, own)
    BY <1>1, <1>5, <1>8 DEF Undisturbed, clientVars, Mail
  <2>. QED  BY <2>1, <2>2, UndisturbedClient
<1>. QED  BY <1>1, <1>4, <1>5, <1>6, <1>7, <1>8 DEF ClientInv

-----------------------------------------------------------------------------
(* The handlers and the pool threads. *)

\* A file is open, or closed, for a client: it is to be answered.
LEMMA HandlerOpenClients ==
    ASSUME TypeOK, Running, NEW stage \in [Ids -> Stages], NEW own \in [Clients -> Ids \cup {NoId}],
           OwnInv(stage, own), ClientInv(stage, own), NEW h \in Handlers,
           HandlerOpen(h) \/ HandlerClose(h), NEW id \in Ids, id = handler[h].id,
           stage[id] = "got", NEW next, next = Move(stage, {id}, "reply")
    PROVE  OwnInv(next, own)' /\ ClientInv(next, own)'
<1>1. /\ UNCHANGED <<clientVars, requestMsgs, handleMsgs, ackMsgs, dataMsgs, fr>>
      /\ fr[id].operation \in {"open", "close"}
  BY DEF HandlerOpen, HandlerClose, handlerOnly, frOf
<1>2. PICK c : c = fr[id].rank
  OBVIOUS
<1>3. /\ c \in Clients /\ own[c] = id /\ Served(c, stage, own)
      /\ RequestAt(fr[id], "got") /\ IsRequestOf(fr[id], c)
  BY <1>2, RequestOf
<1>4. OtherRequests(id) /\ OtherStages(stage, next, id) /\ next[id] = "reply"
  BY <1>1 DEF Move, OtherStages, OtherRequests
<1>5. OwnInv(next, own)'
  <2>1. RequestAt(fr'[id], "reply") /\ fr'[id].rank = fr[id].rank
    BY <1>1, <1>3 DEF RequestAt, Delegated, Buffered, Hashed
  <2>. QED  BY <1>4, <2>1, RequestGoesOn, StageNames
<1>6. ClientOK(c, next, own)'
  <2>1. phase[c] \in {"write", "read"}
    BY <1>3 DEF TypeOK, ClientTypes
  <2>2. ServedAs(c, "got", id) /\ fr[id].operation = AsksFor(c).operation
    BY <1>3 DEF Served, IsRequestOf
  <2>3. pc[c] \in {"handle", "closing"} /\ ackMsgs[c] = <<>> /\ Mail(c) = {}
    BY <1>1, <2>1, <2>2 DEF ServedAs, AsksFor, Arriving, Buffered, Hashed
  <2>4. pc'[c] = pc[c] /\ ackMsgs'[c] = ackMsgs[c] /\ Mail(c)' = Mail(c)
    BY <1>1 DEF clientVars, Mail
  <2>5. ServedAs(c, next[own[c]], own[c])'
    BY <1>3, <1>4, <2>3, <2>4 DEF ServedAs
  <2>. QED  BY <1>1, <1>3, <1>4, <2>5, ServedGoesOn
<1>7. OtherMessages(c) /\ OtherOwners(own, own, c)
  BY <1>1 DEF OtherMessages, OtherOwners, Mail
<1>8. ClientInv(next, own)'
  BY <1>1, <1>2, <1>3, <1>4, <1>6, <1>7, OtherClients
<1>. QED  BY <1>5, <1>8

\* The answer is the end of the request.
LEMMA HandlerAnswerClients ==
    ASSUME TypeOK, Running, NEW stage \in [Ids -> Stages], NEW own \in [Clients -> Ids \cup {NoId}],
           OwnInv(stage, own), ClientInv(stage, own), NEW h \in Handlers,
           HandlerSendHandle(h) \/ HandlerAckClose(h), NEW id \in Ids, id = handler[h].id,
           stage[id] = "reply", NEW next, next = Move(stage, {id}, "free"),
           NEW nown, nown = [own EXCEPT ![fr[id].rank] = NoId]
    PROVE  OwnInv(next, nown)' /\ ClientInv(next, nown)'
<1>1. /\ UNCHANGED <<clientVars, requestMsgs, dataMsgs>>
      /\ fr' = [fr EXCEPT ![id] = NoRequest]
      /\ \/ /\ fr[id].operation = "open" /\ UNCHANGED ackMsgs
            /\ handleMsgs' = Send(handleMsgs, fr[id].rank, opened_files[fr[id].file].fh)
         \/ /\ fr[id].operation = "close" /\ UNCHANGED handleMsgs
            /\ ackMsgs' = Send(ackMsgs, fr[id].rank, NoFd)
  BY DEF HandlerSendHandle, HandlerAckClose, handlerOnly, frOf
<1>2. PICK c : c = fr[id].rank
  OBVIOUS
<1>3. /\ c \in Clients /\ own[c] = id /\ Served(c, stage, own)
      /\ RequestAt(fr[id], "reply") /\ IsRequestOf(fr[id], c)
  BY <1>2, RequestOf
<1>4. OtherStages(stage, next, id) /\ next[id] = "free"
  BY DEF Move, OtherStages
<1>5. OtherRequests(id) /\ OtherOwners(own, nown, c) /\ nown[c] = NoId
  BY <1>1, <1>2, <1>3 DEF OtherRequests, OtherOwners, TypeOK, FileTypes
<1>6. OwnInv(next, nown)'
  BY <1>1, <1>2, <1>5, RequestIsOver
<1>7. ClientOK(c, next, nown)'
  <2>1. phase[c] \in {"write", "read"}
    BY <1>3 DEF TypeOK, ClientTypes
  <2>2. ServedAs(c, "reply", id) /\ fr[id].operation = AsksFor(c).operation
        /\ requestMsgs[c] = <<>> /\ handleMsgs[c] = <<>>
    BY <1>3 DEF Served, IsRequestOf
  <2>3. pc[c] \in {"handle", "closing"} /\ ackMsgs[c] = <<>> /\ Mail(c) = {}
    BY <1>1, <2>1, <2>2 DEF ServedAs, AsksFor, Arriving, Unacked, Buffered, Hashed
  <2>4. pc'[c] = pc[c] /\ requestMsgs'[c] = <<>> /\ Mail(c)' = {}
    BY <1>1, <2>2, <2>3 DEF clientVars, Mail
  <2>5. CASE fr[id].operation = "open"
    <3>1. pc[c] = "handle" /\ ackMsgs'[c] = <<>>
      BY <1>1, <2>2, <2>3, <2>5 DEF AsksFor
    <3>2. Len(handleMsgs'[c]) = 1
      <4>1. PICK m : handleMsgs' = Send(handleMsgs, c, m)
        BY <1>1, <1>2, <2>5
      <4>2. DOMAIN handleMsgs = Clients /\ c \in Clients /\ handleMsgs[c] = <<>>
        BY <1>3, <2>2 DEF TypeOK, NetTypes
      <4>. QED  BY <4>1, <4>2, OneMessage
    <3>. QED  BY <1>5, <2>4, <3>1, <3>2 DEF ClientOK, HasAnswer
  <2>6. CASE fr[id].operation = "close"
    <3>1. pc[c] = "closing" /\ handleMsgs'[c] = <<>>
      BY <1>1, <2>2, <2>3, <2>6 DEF AsksFor
    <3>2. Len(ackMsgs'[c]) = 1
      <4>1. PICK m : ackMsgs' = Send(ackMsgs, c, m)
        BY <1>1, <1>2, <2>6
      <4>2. DOMAIN ackMsgs = Clients /\ c \in Clients /\ ackMsgs[c] = <<>>
        BY <1>3, <2>3 DEF TypeOK, NetTypes
      <4>. QED  BY <4>1, <4>2, OneMessage
    <3>. QED  BY <1>5, <2>4, <3>1, <3>2 DEF ClientOK, HasAnswer
  <2>. QED  BY <1>1, <2>5, <2>6
<1>8. OtherMessages(c)
  BY <1>1, <1>2, <1>3 DEF OtherMessages, Mail, Send, TypeOK, NetTypes
<1>9. ClientInv(next, nown)'
  BY <1>1, <1>2, <1>3, <1>4, <1>5, <1>7, <1>8, OtherClients
<1>. QED  BY <1>6, <1>9

\* The client is told its identifier.
LEMMA HandleAckClients ==
    ASSUME TypeOK, Running, NEW stage \in [Ids -> Stages], NEW own \in [Clients -> Ids \cup {NoId}],
           OwnInv(stage, own), ClientInv(stage, own), NEW t \in PoolThreads,
           HandleAck(t), NEW id \in Ids, id = Current(t), stage[id] = "begin",
           NEW to, to = IF fr[id].operation = "write" THEN "wait" ELSE "hash",
           NEW next, next = Move(stage, {id}, to)
    PROVE  OwnInv(next, own)' /\ ClientInv(next, own)'
<1>1. /\ UNCHANGED <<clientVars, requestMsgs, handleMsgs, dataMsgs>>
      /\ fr' = [fr EXCEPT ![id].buffer = FreshBuffer]
      /\ ackMsgs' = Send(ackMsgs, fr[id].rank, id)
  BY DEF HandleAck, poolOnly
<1>2. PICK c : c = fr[id].rank
  OBVIOUS
<1>3. /\ c \in Clients /\ own[c] = id /\ Served(c, stage, own)
      /\ RequestAt(fr[id], "begin") /\ IsRequestOf(fr[id], c)
  BY <1>2, RequestOf
<1>4. OtherStages(stage, next, id) /\ next[id] = to /\ to \in Stages /\ to # "free"
  BY MoveOne, StageNames
<1>5. /\ OtherRequests(id) /\ OtherOwners(own, own, c)
      /\ fr'[id].rank = fr[id].rank /\ fr'[id].operation = fr[id].operation
      /\ fr'[id].file = fr[id].file /\ fr'[id].file_handle = fr[id].file_handle
      /\ fr'[id].offset = fr[id].offset
  BY <1>1, RequestFields DEF OtherRequests, OtherOwners, TypeOK, FileTypes
<1>6. OwnInv(next, own)'
  <2>1. RequestAt(fr'[id], to)
    BY <1>3, <1>5 DEF RequestAt, Delegated, Buffered
  <2>. QED  BY <1>4, <1>5, <2>1, RequestGoesOn
<1>7. ClientOK(c, next, own)'
  <2>1. ServedAs(c, "begin", id) /\ fr[id].operation = AsksFor(c).operation
        /\ requestMsgs[c] = <<>> /\ handleMsgs[c] = <<>>
    BY <1>3 DEF Served, IsRequestOf
  <2>2. pc[c] = "id" /\ ackMsgs[c] = <<>> /\ Mail(c) = {}
    BY <2>1 DEF ServedAs, Arriving, Unacked, Buffered, Hashed
  <2>3. fr[id].operation = phase[c]
    BY <2>1, <2>2 DEF AsksFor
  <2>4. ackMsgs'[c] = <<id>>
    BY <1>1, <1>2, <1>3, <2>2 DEF Send, TypeOK, NetTypes
  <2>5. pc'[c] = pc[c] /\ phase'[c] = phase[c] /\ Mail(c)' = {}
    BY <1>1, <2>2 DEF clientVars, Mail
  <2>6. ServedAs(c, next[own[c]], own[c])'
    BY <1>3, <1>4, <2>2, <2>3, <2>4, <2>5 DEF ServedAs, Buffered
  <2>. QED  BY <1>1, <1>3, <1>4, <1>5, <2>6, ServedGoesOn
<1>8. OtherMessages(c)
  BY <1>1, <1>2, <1>3 DEF OtherMessages, Mail, Send, TypeOK, NetTypes
<1>9. ClientInv(next, own)'
  BY <1>1, <1>2, <1>3, <1>4, <1>5, <1>7, <1>8, OtherClients
<1>. QED  BY <1>6, <1>9

\* The data of a write has come: it is what the client writes.
LEMMA HandleWriteWaitClients ==
    ASSUME TypeOK, Running, NEW stage \in [Ids -> Stages], NEW own \in [Clients -> Ids \cup {NoId}],
           OwnInv(stage, own), ClientInv(stage, own), NEW t \in PoolThreads,
           HandleWriteWait(t), NEW id \in Ids, id = Current(t), stage[id] = "wait",
           NEW next, next = Move(stage, {id}, "hash")
    PROVE  OwnInv(next, own)' /\ ClientInv(next, own)' /\ fr'[id].operation = "write"
<1>1. /\ UNCHANGED <<clientVars, requestMsgs, handleMsgs, ackMsgs>>
      /\ \E m \in dataMsgs : /\ m.to = "server" /\ m.tag = id /\ m.rank = fr[id].rank
                             /\ dataMsgs' = dataMsgs \ {m}
                             /\ fr' = [fr EXCEPT ![id].buffer = m.data]
  BY DEF HandleWriteWait, poolOnly
<1>2. PICK c : c = fr[id].rank
  OBVIOUS
<1>3. /\ c \in Clients /\ own[c] = id /\ Served(c, stage, own)
      /\ RequestAt(fr[id], "wait") /\ IsRequestOf(fr[id], c)
  BY <1>2, RequestOf
<1>4. PICK m \in dataMsgs : /\ m.to = "server" /\ m.tag = id /\ m.rank = c
                            /\ dataMsgs' = dataMsgs \ {m}
                            /\ fr' = [fr EXCEPT ![id].buffer = m.data]
  BY <1>1, <1>2
<1>5. OtherStages(stage, next, id) /\ next[id] = "hash"
  BY DEF Move, OtherStages
<1>6. /\ OtherRequests(id) /\ OtherOwners(own, own, c) /\ fr'[id].buffer = m.data
      /\ fr'[id].rank = fr[id].rank /\ fr'[id].operation = fr[id].operation
      /\ fr'[id].file = fr[id].file /\ fr'[id].file_handle = fr[id].file_handle
      /\ fr'[id].offset = fr[id].offset
  BY <1>4, RequestFields DEF OtherRequests, OtherOwners, TypeOK, FileTypes
<1>7. OwnInv(next, own)'
  <2>1. RequestAt(fr'[id], "hash")
    BY <1>3, <1>6 DEF RequestAt, Delegated, Buffered
  <2>. QED  BY <1>5, <1>6, <2>1, RequestGoesOn, StageNames
<1>8. ClientOK(c, next, own)'
  <2>1. ServedAs(c, "wait", id) /\ m \in Mail(c)
    BY <1>3, <1>4 DEF Served, Mail
  <2>2. /\ pc[c] = "ack" /\ phase[c] = "write" /\ ackMsgs[c] = <<>>
        /\ Mail(c) = {[to |-> "server", rank |-> c, tag |-> id, data |-> c]}
    BY <2>1 DEF ServedAs, Arriving, Unacked, Buffered, Hashed
  <2>3. m = [to |-> "server", rank |-> c, tag |-> id, data |-> c] /\ Mail(c)' = {}
    BY <1>4, <2>1, <2>2 DEF Mail
  <2>4. pc'[c] = pc[c] /\ phase'[c] = phase[c] /\ ackMsgs'[c] = <<>> /\ fr'[id].buffer = c
    BY <1>1, <1>6, <2>2, <2>3 DEF clientVars
  <2>5. ServedAs(c, next[own[c]], own[c])'
    BY <1>3, <1>5, <2>2, <2>3, <2>4 DEF ServedAs, Buffered
  <2>. QED  BY <1>1, <1>3, <1>5, <1>6, <2>5, ServedGoesOn
<1>9. OtherMessages(c)
  <2>1. \A d \in Clients : d # c => Mail(d)' = Mail(d)
    BY <1>4, OtherMail
  <2>. QED  BY <1>1, <2>1 DEF OtherMessages
<1>10. ClientInv(next, own)'
  BY <1>1, <1>2, <1>3, <1>5, <1>6, <1>8, <1>9, OtherClients
<1>. QED  BY <1>3, <1>6, <1>7, <1>10 DEF RequestAt

\* A read changes the buffer of its request, and nothing that the client sees.
LEMMA DispatchReadClients ==
    ASSUME TypeOK, Running, NEW stage \in [Ids -> Stages], NEW own \in [Clients -> Ids \cup {NoId}],
           OwnInv(stage, own), ClientInv(stage, own), NEW id \in Ids, stage[id] = "transfer",
           fr[id].operation = "read",
           UNCHANGED <<clientVars, requestMsgs, handleMsgs, ackMsgs, dataMsgs>>,
           NEW b, fr' = [fr EXCEPT ![id].buffer = b],
           NEW next, next = Move(stage, {id}, "transferred")
    PROVE  OwnInv(next, own)' /\ ClientInv(next, own)'
<1>2. PICK c : c = fr[id].rank
  OBVIOUS
<1>3. /\ c \in Clients /\ own[c] = id /\ Served(c, stage, own)
      /\ RequestAt(fr[id], "transfer") /\ IsRequestOf(fr[id], c)
  BY <1>2, RequestOf
<1>4. OtherStages(stage, next, id) /\ next[id] = "transferred"
  BY DEF Move, OtherStages
<1>5. /\ OtherRequests(id) /\ OtherOwners(own, own, c)
      /\ fr'[id].rank = fr[id].rank /\ fr'[id].operation = fr[id].operation
      /\ fr'[id].file = fr[id].file /\ fr'[id].file_handle = fr[id].file_handle
      /\ fr'[id].offset = fr[id].offset
  BY RequestFields DEF OtherRequests, OtherOwners, TypeOK, FileTypes
<1>6. OwnInv(next, own)'
  <2>1. RequestAt(fr'[id], "transferred")
    BY <1>5 DEF RequestAt, Operations
  <2>. QED  BY <1>4, <1>5, <2>1, RequestGoesOn, StageNames
<1>7. ClientOK(c, next, own)'
  <2>1. ServedAs(c, "transfer", id) /\ fr[id].operation = AsksFor(c).operation
    BY <1>3 DEF Served, IsRequestOf
  <2>2. /\ pc'[c] = pc[c] /\ phase'[c] = phase[c] /\ ackMsgs'[c] = ackMsgs[c] /\ Mail(c)' = Mail(c)
        /\ request_id'[c] = request_id[c]
    BY DEF clientVars, Mail
  <2>3. pc[c] \notin {"handle", "closing"} /\ phase[c] # "write"
    BY <2>1 DEF ServedAs, AsksFor, Arriving, Unacked, Buffered, Hashed
  <2>4. "transfer" \in Buffered /\ "transferred" \in Buffered
    BY DEF Buffered, Hashed
  <2>5. "transfer" \notin Unacked
    BY DEF Unacked, Arriving
  <2>6. ServedAs(c, next[own[c]], own[c])'
    BY <1>3, <1>4, <2>1, <2>2, <2>3, <2>4, <2>5 DEF ServedAs
  <2>. QED  BY <1>3, <1>4, <1>5, <2>6, ServedGoesOn
<1>8. OtherMessages(c)
  BY DEF OtherMessages, Mail
<1>9. ClientInv(next, own)'
  BY <1>2, <1>3, <1>4, <1>5, <1>7, <1>8, OtherClients
<1>. QED  BY <1>6, <1>9

\* The callback answers the client.
LEMMA CallbackReplyClients ==
    ASSUME TypeOK, Running, NEW stage \in [Ids -> Stages], NEW own \in [Clients -> Ids \cup {NoId}],
           OwnInv(stage, own), ClientInv(stage, own), NEW t \in PoolThreads,
           CallbackReply(t), NEW id \in Ids, id = Current(t), stage[id] = "last",
           NEW next, next = Move(stage, {id}, "free"),
           NEW nown, nown = [own EXCEPT ![fr[id].rank] = NoId]
    PROVE  OwnInv(next, nown)' /\ ClientInv(next, nown)'
<1>1. /\ UNCHANGED <<clientVars, requestMsgs, handleMsgs>>
      /\ fr' = [fr EXCEPT ![id] = NoRequest]
      /\ IF fr[id].operation = "read"
         THEN /\ dataMsgs' = dataMsgs \cup
                    {[to |-> "client", rank |-> fr[id].rank, tag |-> id, data |-> fr[id].buffer]}
              /\ UNCHANGED ackMsgs
         ELSE ackMsgs' = Send(ackMsgs, fr[id].rank, 1) /\ UNCHANGED dataMsgs
  BY DEF CallbackReply, poolOnly, Answered
<1>2. PICK c : c = fr[id].rank
  OBVIOUS
<1>3. /\ c \in Clients /\ own[c] = id /\ Served(c, stage, own)
      /\ RequestAt(fr[id], "last") /\ IsRequestOf(fr[id], c)
  BY <1>2, RequestOf
<1>4. OtherStages(stage, next, id) /\ next[id] = "free"
  BY DEF Move, OtherStages
<1>5. OtherRequests(id) /\ OtherOwners(own, nown, c) /\ nown[c] = NoId
  BY <1>1, <1>2, <1>3 DEF OtherRequests, OtherOwners, TypeOK, FileTypes
<1>6. OwnInv(next, nown)'
  BY <1>1, <1>2, <1>5, RequestIsOver
<1>7. ServedAs(c, "last", id) /\ fr[id].operation = AsksFor(c).operation
      /\ requestMsgs[c] = <<>> /\ handleMsgs[c] = <<>>
  BY <1>3 DEF Served, IsRequestOf
<1>8. "last" \notin Unacked \cup Arriving /\ "last" # "reply" /\ "last" # "wait"
  BY DEF Unacked, Arriving
<1>9. /\ pc'[c] = pc[c] /\ phase'[c] = phase[c] /\ request_id'[c] = request_id[c]
      /\ requestMsgs'[c] = <<>> /\ handleMsgs'[c] = <<>>
  BY <1>1, <1>7 DEF clientVars
<1>10. pc[c] \in {"id", "ack", "data"} /\ fr[id].operation = phase[c] /\ Mail(c) = {}
       /\ phase[c] \in {"write", "read"}
  BY <1>3, <1>7, <1>8 DEF ServedAs, AsksFor, TypeOK, ClientTypes
<1>11. CASE fr[id].operation = "read"
  <2>. DEFINE m == [to |-> "client", rank |-> c, tag |-> id, data |-> fr[id].buffer]
  <2>1. ackMsgs' = ackMsgs /\ dataMsgs' = dataMsgs \cup {m}
    BY <1>1, <1>2, <1>11
  <2>2. \/ pc[c] = "id" /\ ackMsgs[c] = <<id>>
        \/ pc[c] = "data" /\ ackMsgs[c] = <<>> /\ request_id[c] = id
    BY <1>7, <1>8, <1>10, <1>11 DEF ServedAs
  <2>3. fr[id].buffer \in Bytes
    BY RequestFields DEF ForwardingRequest
  <2>4. m \in [to : {"client"}, rank : {c}, tag : Ids, data : Bytes] /\ m.tag = id /\ m.rank = c
    BY <2>3
  <2>. HIDE DEF m
  <2>5. Mail(c)' = {m}
    BY <1>10, <2>1, <2>4 DEF Mail
  <2>6. HasAnswer(c, nown)'
    BY <1>5, <1>9, <1>10, <1>11, <2>1, <2>2, <2>4, <2>5 DEF HasAnswer
  <2>7. \A d \in Clients : d # c => Mail(d)' = Mail(d)
    BY <2>1, <2>4, OtherMail
  <2>8. OtherMessages(c)
    BY <1>1, <2>1, <2>7 DEF OtherMessages
  <2>9. ClientOK(c, next, nown)'
    BY <2>6 DEF ClientOK
  <2>. QED  BY <1>1, <1>2, <1>3, <1>4, <1>5, <1>6, <2>8, <2>9, OtherClients
<1>12. CASE fr[id].operation # "read"
  <2>1. ackMsgs' = Send(ackMsgs, c, 1) /\ dataMsgs' = dataMsgs
    BY <1>1, <1>2, <1>12
  <2>2. pc[c] = "ack" /\ phase[c] = "write" /\ ackMsgs[c] = <<>>
    BY <1>7, <1>8, <1>10, <1>12 DEF ServedAs
  <2>3. Len(ackMsgs'[c]) = 1 /\ Mail(c)' = {}
    BY <1>3, <1>10, <2>1, <2>2, OneMessage DEF TypeOK, NetTypes, Mail
  <2>4. HasAnswer(c, nown)'
    BY <1>5, <1>9, <1>10, <2>2, <2>3 DEF HasAnswer
  <2>5. OtherMessages(c)
    BY <1>1, <2>1 DEF OtherMessages, Mail, Send, TypeOK, NetTypes
  <2>6. ClientOK(c, next, nown)'
    BY <2>4 DEF ClientOK
  <2>. QED  BY <1>1, <1>2, <1>3, <1>4, <1>5, <1>6, <2>5, <2>6, OtherClients
<1>. QED  BY <1>11, <1>12

-----------------------------------------------------------------------------
(* The steps of a client. *)

\* What its program counter and its messages say of a client.
LEMMA IdleIsQuiet ==
    ASSUME NEW stage, NEW own, NEW c, ClientOK(c, stage, own), pc[c] \in Idle \ {"done"}
    PROVE  Quiet(c, own)
  BY DEF ClientOK, Idle, Asking, Served, ServedAs, HasAnswer, GaveUp

\* A channel with one message is empty once it is received.
LEMMA OneTail ==
    ASSUME NEW channel, DOMAIN channel = Clients, NEW c \in Clients,
           NEW S, channel[c] \in Seq(S), Len(channel[c]) = 1
    PROVE  Recv(channel, c)[c] = <<>>
<1>1. Recv(channel, c)[c] = Tail(channel[c])
  BY DEF Recv
<1>2. Tail(channel[c]) = <<>>
  <2>1. PICK q \in Seq(S) : q = channel[c]
    OBVIOUS
  <2>2. Len(q) = 1 /\ q # <<>>
    BY <2>1
  <2>3. Tail(q) \in Seq(S) /\ Len(Tail(q)) = 0
    BY <2>2
  <2>4. Tail(q) = <<>>
    BY <2>3, EmptySeq
  <2>. QED  BY <2>1, <2>4
<1>. QED  BY <1>1, <1>2

\* The one message of a channel is what is received.
LEMMA OneReceived ==
    ASSUME NEW channel, DOMAIN channel = Clients, NEW c \in Clients, NEW x, channel[c] = <<x>>
    PROVE  Head(channel[c]) = x /\ Recv(channel, c)[c] = <<>>
<1>1. Recv(channel, c)[c] = Tail(<<x>>)
  BY DEF Recv
<1>2. Head(<<x>>) = x /\ Tail(<<x>>) = <<>>
  OBVIOUS
<1>. QED  BY <1>1, <1>2

\* The client asks for something.
LEMMA ClientAsks ==
    ASSUME TypeOK, NEW stage, NEW own, NEW c \in Clients, ClientOK(c, stage, own),
           pc[c] \in Idle \ {"done"}, NEW op, NEW file, NEW handle, NEW offset,
           NEW next \in {"handle", "id", "closing", "done"},
           Request(c, op, file, handle, offset, next),
           UNCHANGED <<phase, iter, fh, handleMsgs, ackMsgs, dataMsgs>>,
           [operation |-> op, file |-> file, file_handle |-> handle, offset |-> offset] = AsksFor(c)'
    PROVE  ClientOK(c, stage, own)'
<1>1. Quiet(c, own)
  BY IdleIsQuiet
<1>2. pc'[c] = next
  BY DEF Request, TypeOK, ClientTypes
<1>3. requestMsgs'[c] = <<AsksFor(c)'>>
  BY <1>1, OneMessage DEF Request, Quiet, TypeOK, NetTypes
<1>4. Mail(c)' = Mail(c)
  BY DEF Mail
<1>5. Asking(c, own)'
  BY <1>1, <1>2, <1>3, <1>4 DEF Asking, Quiet
<1>. QED  BY <1>5 DEF ClientOK

\* A client that takes a step is served as its new state needs.
LEMMA ActingClient ==
    ASSUME TypeOK, Running, NEW stage, NEW own \in [Clients -> Ids \cup {NoId}],
           NEW c \in Clients, ClientOK(c, stage, own), Client(c), UNCHANGED fr
    PROVE  ClientOK(c, stage, own)'
<1>0. /\ pc \in [Clients -> {"open", "handle", "opened", "issue", "id", "ack", "data", "drained",
                             "closing", "closed", "shutdown", "done"}]
      /\ phase \in [Clients -> {"write", "read"}] /\ iter \in [Clients -> 0..NRequests]
      /\ DOMAIN fh = Clients /\ DOMAIN request_id = Clients
      /\ DOMAIN ackMsgs = Clients /\ ackMsgs[c] \in Seq(Int)
      /\ DOMAIN handleMsgs = Clients /\ handleMsgs[c] \in Seq(Int)
  BY DEF TypeOK, ClientTypes, NetTypes
<1>1. CASE ClientOpen(c)
  <2>1. AsksFor(c)' = [operation |-> "open", file |-> FileOf(Layout, c), file_handle |-> NoFd,
                       offset |-> 0]
    BY <1>0, <1>1 DEF ClientOpen, Request, AsksFor
  <2>. QED  BY <1>1, <2>1, ClientAsks DEF ClientOpen, Idle
<1>2. CASE ClientHandle(c)
  <2>1. HasAnswer(c, own) /\ pc[c] = "handle"
    BY <1>2 DEF ClientHandle, ClientOK, Quiet, Asking, Served, GaveUp, Idle
  <2>2. handleMsgs'[c] = <<>> /\ pc'[c] = "opened"
    BY <1>0, <1>2, <2>1, OneTail DEF ClientHandle, HasAnswer
  <2>3. Quiet(c, own)'
    BY <1>2, <2>1, <2>2 DEF ClientHandle, HasAnswer, Quiet, Mail
  <2>. QED  BY <2>2, <2>3 DEF ClientOK, Idle
<1>3. CASE ClientStart(c) \/ ClientLoopEnd(c) \/ ClientNext(c)
  <2>1. pc[c] \in Idle \ {"done"} /\ pc'[c] \in Idle /\ UNCHANGED netVars
    BY <1>0, <1>3 DEF ClientStart, ClientLoopEnd, ClientNext, Idle, Follows
  <2>2. Quiet(c, own)'
    BY <2>1, IdleIsQuiet DEF Quiet, netVars, Mail
  <2>. QED  BY <2>1, <2>2 DEF ClientOK
<1>4. CASE ClientIssue(c)
  <2>1. UNCHANGED <<phase, fh, iter>> /\ pc'[c] = "id"
    BY <1>0, <1>4 DEF ClientIssue, Request
  <2>2. AsksFor(c)' = [operation |-> phase[c], file |-> Nobody, file_handle |-> fh[c],
                       offset |-> BlockOf(c, iter[c])]
    BY <2>1 DEF AsksFor
  <2>. QED  BY <1>4, <2>2, ClientAsks DEF ClientIssue, Idle
<1>5. CASE ClientSendData(c)
  <2>1. /\ pc[c] = "id" /\ phase[c] = "write" /\ ackMsgs[c] # <<>>
        /\ UNCHANGED <<phase, iter, fh, requestMsgs, handleMsgs>> /\ pc'[c] = "ack"
        /\ ackMsgs' = Recv(ackMsgs, c)
        /\ dataMsgs' = dataMsgs \cup
              {[to |-> "server", rank |-> c, tag |-> Head(ackMsgs[c]), data |-> c]}
    BY <1>0, <1>5 DEF ClientSendData
  <2>2. Served(c, stage, own)
    BY <2>1 DEF ClientOK, Quiet, Asking, HasAnswer, GaveUp, Idle
  <2>3. PICK id : id = own[c]
    OBVIOUS
  <2>4. id \in Ids /\ ackMsgs[c] = <<id>> /\ Mail(c) = {} /\ stage[id] = "wait"
    BY <2>1, <2>2, <2>3 DEF Served, ServedAs
  <2>5. Head(ackMsgs[c]) = id /\ ackMsgs'[c] = <<>>
    <3>1. ackMsgs' = Recv(ackMsgs, c) /\ ackMsgs[c] = <<id>> /\ DOMAIN ackMsgs = Clients
      BY <1>0, <2>1, <2>4
    <3>. QED  BY <3>1, OneReceived
  <2>6. Mail(c)' = {[to |-> "server", rank |-> c, tag |-> id, data |-> c]}
    BY <2>1, <2>4, <2>5 DEF Mail
  <2>7. ServedAs(c, stage[own[c]], own[c])'
    BY <2>1, <2>3, <2>4, <2>5, <2>6 DEF ServedAs
  <2>8. AsksFor(c)' = AsksFor(c)
    BY <2>1 DEF AsksFor
  <2>9. IsRequestOf(fr[own[c]], c)'
    BY <2>2, <2>8 DEF Served, IsRequestOf
  <2>. QED  BY <2>1, <2>2, <2>7, <2>9 DEF ClientOK, Served
<1>6. CASE ClientReadId(c)
  <2>1. /\ pc[c] = "id" /\ phase[c] = "read" /\ ackMsgs[c] # <<>>
        /\ UNCHANGED <<phase, iter, fh, requestMsgs, handleMsgs, dataMsgs>> /\ pc'[c] = "data"
        /\ ackMsgs' = Recv(ackMsgs, c) /\ request_id'[c] = Head(ackMsgs[c])
    BY <1>0, <1>6 DEF ClientReadId
  <2>2. Mail(c)' = Mail(c)
    BY <2>1 DEF Mail
  <2>3. CASE Served(c, stage, own)
    <3>1. PICK id : id = own[c]
      OBVIOUS
    <3>2. id \in Ids /\ ackMsgs[c] = <<id>> /\ Mail(c) = {} /\ stage[id] \in Buffered
      BY <2>1, <2>3, <3>1 DEF Served, ServedAs
    <3>3. Head(ackMsgs[c]) = id /\ ackMsgs'[c] = <<>>
      <4>1. ackMsgs' = Recv(ackMsgs, c) /\ ackMsgs[c] = <<id>> /\ DOMAIN ackMsgs = Clients
        BY <1>0, <2>1, <3>2
      <4>. QED  BY <4>1, OneReceived
    <3>4. ServedAs(c, stage[own[c]], own[c])'
      BY <2>1, <2>2, <3>1, <3>2, <3>3 DEF ServedAs
    <3>5. AsksFor(c)' = AsksFor(c)
      BY <2>1 DEF AsksFor
    <3>6. IsRequestOf(fr[own[c]], c)'
      BY <2>3, <3>5 DEF Served, IsRequestOf
    <3>. QED  BY <2>1, <2>3, <3>4, <3>6 DEF ClientOK, Served
  <2>4. CASE ~Served(c, stage, own)
    <3>1. HasAnswer(c, own)
      BY <2>1, <2>4 DEF ClientOK, Quiet, Asking, GaveUp, Idle
    <3>2. PICK m \in [to : {"client"}, rank : {c}, tag : Ids, data : Bytes] :
             Mail(c) = {m} /\ ackMsgs[c] = <<m.tag>>
      BY <2>1, <3>1 DEF HasAnswer
    <3>3. Head(ackMsgs[c]) = m.tag /\ ackMsgs'[c] = <<>>
      BY <1>0, <2>1, <3>2, OneReceived
    <3>4. HasAnswer(c, own)'
      BY <2>1, <2>2, <3>1, <3>2, <3>3 DEF HasAnswer
    <3>. QED  BY <3>4 DEF ClientOK
  <2>. QED  BY <2>3, <2>4
<1>7. CASE ClientWriteDone(c)
  <2>1. pc[c] = "ack" /\ ackMsgs[c] # <<>> /\ pc'[c] \in {"issue", "drained"}
        /\ UNCHANGED <<requestMsgs, handleMsgs, dataMsgs>> /\ ackMsgs' = Recv(ackMsgs, c)
    BY <1>0, <1>7 DEF ClientWriteDone, NextIteration
  <2>2. HasAnswer(c, own)
    BY <2>1 DEF ClientOK, Quiet, Asking, Served, ServedAs, GaveUp, Idle
  <2>3. ackMsgs'[c] = <<>>
    BY <1>0, <2>1, <2>2, OneTail DEF HasAnswer
  <2>4. Quiet(c, own)'
    BY <2>1, <2>2, <2>3 DEF HasAnswer, Quiet, Mail
  <2>. QED  BY <2>1, <2>4 DEF ClientOK, Idle
<1>8. CASE ClientReadDone(c)
  <2>1. PICK m \in dataMsgs :
          /\ m.to = "client" /\ m.rank = c /\ m.tag = request_id[c]
          /\ dataMsgs' = dataMsgs \ {m}
          /\ IF Validation /\ ~Valid(c, m)
             THEN aborted' = "ERROR_VALIDATION_FAILED" /\ UNCHANGED <<pc, iter, barrier>>
             ELSE NextIteration(c) /\ UNCHANGED aborted
    BY <1>8 DEF ClientReadDone
  <2>2. pc[c] = "data" /\ UNCHANGED <<requestMsgs, handleMsgs, ackMsgs>> /\ m \in Mail(c)
    BY <1>8, <2>1 DEF ClientReadDone, Mail
  <2>3. HasAnswer(c, own)
    BY <2>2 DEF ClientOK, Quiet, Asking, Served, ServedAs, GaveUp, Idle
  <2>4. Mail(c) = {m}
    BY <2>2, <2>3 DEF HasAnswer
  <2>5. Mail(c)' = {}
    BY <2>1, <2>4 DEF Mail
  <2>6. Quiet(c, own)'
    BY <2>2, <2>3, <2>5 DEF HasAnswer, Quiet
  <2>7. \/ pc'[c] \in Idle
        \/ pc'[c] = "data" /\ aborted' = "ERROR_VALIDATION_FAILED"
    BY <1>0, <2>1, <2>2 DEF NextIteration, Idle
  <2>. QED  BY <2>6, <2>7 DEF ClientOK, GaveUp
<1>9. CASE ClientClose(c)
  <2>1. AsksFor(c)' = [operation |-> "close", file |-> FileOf(Layout, c), file_handle |-> NoFd,
                       offset |-> 0]
    BY <1>0, <1>9 DEF ClientClose, Request, AsksFor
  <2>. QED  BY <1>9, <2>1, ClientAsks DEF ClientClose, Idle
<1>10. CASE ClientClosed(c)
  <2>1. pc[c] = "closing" /\ ackMsgs[c] # <<>> /\ pc'[c] = "closed"
        /\ UNCHANGED <<requestMsgs, handleMsgs, dataMsgs>> /\ ackMsgs' = Recv(ackMsgs, c)
    BY <1>0, <1>10 DEF ClientClosed
  <2>2. HasAnswer(c, own)
    BY <2>1 DEF ClientOK, Quiet, Asking, Served, ServedAs, GaveUp, Idle
  <2>3. ackMsgs'[c] = <<>>
    BY <1>0, <2>1, <2>2, OneTail DEF HasAnswer
  <2>4. Quiet(c, own)'
    BY <2>1, <2>2, <2>3 DEF HasAnswer, Quiet, Mail
  <2>. QED  BY <2>1, <2>4 DEF ClientOK, Idle
<1>11. CASE ClientShutdown(c)
  <2>1. AsksFor(c)' = [operation |-> "empty", file |-> Nobody, file_handle |-> NoFd, offset |-> 0]
    BY <1>0, <1>11 DEF ClientShutdown, Request, AsksFor
  <2>. QED  BY <1>11, <2>1, ClientAsks DEF ClientShutdown, Idle
<1>. QED
  BY <1>1, <1>2, <1>3, <1>4, <1>5, <1>6, <1>7, <1>8, <1>9, <1>10, <1>11 DEF Client

\* The steps of one client leave the others served as they were.
LEMMA ClientClients ==
    ASSUME TypeOK, Running, NEW stage, NEW own \in [Clients -> Ids \cup {NoId}],
           ClientInv(stage, own), NEW c \in Clients, Client(c)
    PROVE  ClientInv(stage, own)'
<1>1. UNCHANGED fr
  BY ClientLeaves DEF serverVars
<1>2. ClientOK(c, stage, own)'
  BY <1>1, ActingClient DEF ClientInv
<1>3. ASSUME NEW d \in Clients, d # c PROVE ClientOK(d, stage, own)'
  <2>1. ClientOK(d, stage, own)
    BY DEF ClientInv
  <2>2. Undisturbed(d, stage, own, stage, own)
    BY <1>1, <1>3, ClientMovesOne DEF Undisturbed
  <2>. QED  BY <2>1, <2>2, UndisturbedClient
<1>. QED  BY <1>2, <1>3 DEF ClientInv

-----------------------------------------------------------------------------
(* The files, when a client goes on. *)

\* No step of a client opens or closes a file at the server.
LEMMA ClientKeepsOpen ==
    ASSUME TypeOK, Running, NEW stage, NEW own, ClientInv(stage, own), NEW c \in Clients, Client(c),
           NEW d \in Clients
    PROVE  Open(d, stage, own)' <=> Open(d, stage, own)
<1>0. /\ pc \in [Clients -> {"open", "handle", "opened", "issue", "id", "ack", "data", "drained",
                             "closing", "closed", "shutdown", "done"}]
      /\ ClientOK(c, stage, own)
      /\ DOMAIN requestMsgs = Clients /\ requestMsgs[c] \in Seq(Message)
  BY DEF TypeOK, ClientTypes, NetTypes, ClientInv
<1>1. CASE d # c
  <2>1. pc'[d] = pc[d] /\ requestMsgs'[d] = requestMsgs[d]
    BY <1>1, ClientMovesOne
  <2>. QED  BY <2>1, OpenFrame
<1>2. CASE d = c
  <2>1. CASE ClientOpen(c) \/ ClientClose(c) \/ ClientShutdown(c)
    <3>0. Quiet(c, own)
      BY <1>0, <2>1, IdleIsQuiet DEF ClientOpen, ClientClose, ClientShutdown, Idle
    <3>1. requestMsgs'[c] # <<>>
      <4>1. PICK m : requestMsgs' = Send(requestMsgs, c, m)
        BY <2>1 DEF ClientOpen, ClientClose, ClientShutdown, Request
      <4>2. Send(requestMsgs, c, m)[c] = <<m>>
        BY <1>0, <3>0, OneMessage DEF Quiet
      <4>. QED  BY <4>1, <4>2
    <3>. QED
      BY <1>0, <1>2, <2>1, <3>1
      DEF ClientOpen, ClientClose, ClientShutdown, Request, Open, Inside
  <2>2. CASE ClientHandle(c) \/ ClientClosed(c)
    <3>1. HasAnswer(c, own)
      BY <1>0, <2>2
      DEF ClientHandle, ClientClosed, ClientOK, Quiet, Asking, Served, ServedAs, GaveUp, Idle
    <3>. QED  BY <1>0, <1>2, <2>2, <3>1 DEF ClientHandle, ClientClosed, HasAnswer, Open, Inside
  <2>3. CASE \/ ClientStart(c) \/ ClientIssue(c) \/ ClientSendData(c) \/ ClientReadId(c)
             \/ ClientWriteDone(c) \/ ClientReadDone(c) \/ ClientLoopEnd(c)
    <3>1. pc[c] \in Inside \cup {"drained"} /\ pc'[c] \in Inside \cup {"drained"}
      BY <1>0, <2>3
      DEF ClientStart, ClientIssue, ClientSendData, ClientReadId, ClientWriteDone, ClientReadDone,
          ClientLoopEnd, Request, NextIteration, Inside
    <3>. QED  BY <1>2, <3>1 DEF Open
  <2>4. CASE ClientNext(c)
    BY <1>0, <1>2, <2>4 DEF ClientNext, Follows, Open, Inside
  <2>. QED  BY <2>1, <2>2, <2>3, <2>4 DEF Client
<1>. QED  BY <1>1, <1>2

\* While files are opened, no client is between its loop and its close.
Between == {"issue", "id", "ack", "data", "drained", "closing"}
NoneBetween == \A d \in Clients : pc[d] \notin Between

\* While a client may open its file, no client is between opening and closing
\* it.
LEMMA WhenOpening == TypeOK /\ BarrierInv /\ Opening => NoneBetween
<1>. SUFFICES ASSUME TypeOK, BarrierInv, Opening, NEW d \in Clients, pc[d] \in Between PROVE FALSE
  BY DEF NoneBetween
<1>1. PICK c \in Clients : /\ pc[c] \in {"open", "handle", "closed"}
                           /\ \A e \in Clients : barrier[e] >= barrier[c]
  BY DEF Opening
<1>2. /\ barrier[d] >= barrier[c] /\ barrier[c] >= Passed(d)
      /\ barrier[c] = BarriersIn(c) /\ barrier[d] = BarriersIn(d)
  BY <1>1 DEF BarrierInv
<1>3. BarriersIn(c) \in {0, 3, 6}
  BY <1>1 DEF BarriersIn, Inside
<1>4. BarriersIn(d) \in {1, 2, 4, 5}
  BY DEF BarriersIn, Between, Inside
<1>5. pc[d] # "drained" => Passed(d) = BarriersIn(d)
  BY <1>2 DEF Passed, Between
<1>6. pc[d] = "drained" => BarriersIn(d) \in {2, 5} /\ Passed(d) = BarriersIn(d) - 1
  BY <1>2 DEF Passed, BarriersIn, Inside
<1>. QED  BY <1>2, <1>3, <1>4, <1>5, <1>6

\* A client opens its file, and goes on to the next, when all may.
LEMMA OpensWhenOpening ==
    ASSUME BarrierInv, NEW c \in Clients,
           pc[c] \in {"open", "handle"} \/ (pc[c] = "closed" /\ AllReached(c))
    PROVE  Opening
<1>1. \A d \in Clients : barrier[d] >= barrier[c]
  BY DEF BarrierInv, Passed, AllReached
<1>. QED  BY <1>1 DEF Opening

\* Files are opened again when the last client has closed its own.
LEMMA OpeningStarts ==
    ASSUME TypeOK, BarrierInv, NEW c \in Clients, Client(c), ~Opening, Opening', NEW d \in Clients
    PROVE  pc'[d] \in {"closed"}
<1>0. /\ pc \in [Clients -> {"open", "handle", "opened", "issue", "id", "ack", "data", "drained",
                             "closing", "closed", "shutdown", "done"}]
      /\ TypeOK' /\ BarrierInv'
  BY ClientPreservesTypes, ClientBarriers DEF TypeOK, ClientTypes
<1>1. \A e \in Clients : pc'[e] \notin Between
  <2>1. (TypeOK /\ BarrierInv /\ Opening => NoneBetween)'
    BY WhenOpening, PTL
  <2>. QED  BY <1>0, <2>1 DEF NoneBetween
<1>2. ~ClientOpen(c) /\ ~ClientHandle(c) /\ ~ClientNext(c)
  BY OpensWhenOpening DEF ClientOpen, ClientHandle, ClientNext
<1>3. ~ClientShutdown(c)
  <2>1. SUFFICES ASSUME ClientShutdown(c) PROVE FALSE
    OBVIOUS
  <2>2. /\ pc[c] = "shutdown" /\ pc'[c] = "done" /\ UNCHANGED barrier
        /\ \A e \in Clients : e # c => pc'[e] = pc[e]
    BY <1>0, <2>1 DEF ClientShutdown, Request
  <2>3. PICK w \in Clients : /\ pc'[w] \in {"open", "handle", "closed"}
                             /\ \A e \in Clients : barrier'[e] >= barrier'[w]
    BY DEF Opening
  <2>4. pc[w] \in {"open", "handle", "closed"}
    <3>1. w # c
      BY <2>2, <2>3
    <3>2. pc'[w] = pc[w]
      BY <2>2, <2>3, <3>1
    <3>. QED  BY <2>3, <3>2
  <2>. QED  BY <2>2, <2>3, <2>4 DEF Opening
<1>4. ClientClosed(c)
  <2>1. ~ClientStart(c) /\ ~ClientIssue(c) /\ ~ClientSendData(c) /\ ~ClientReadId(c)
        /\ ~ClientWriteDone(c) /\ ~ClientReadDone(c) /\ ~ClientLoopEnd(c) /\ ~ClientClose(c)
    BY <1>0, <1>1
    DEF ClientStart, ClientIssue, ClientSendData, ClientReadId, ClientWriteDone, ClientReadDone,
        ClientLoopEnd, ClientClose, Request, NextIteration, Between
  <2>. QED  BY <1>2, <1>3, <2>1 DEF Client
<1>5. pc[c] = "closing" /\ pc'[c] = "closed" /\ \A e \in Clients : e # c => pc'[e] = pc[e]
  BY <1>0, <1>4 DEF ClientClosed
<1>6. CASE d # c
  <2>1. /\ barrier[d] >= Passed(c) /\ barrier[c] >= Passed(d)
        /\ barrier[c] = BarriersIn(c) /\ barrier[d] = BarriersIn(d)
    BY DEF BarrierInv
  <2>2. Passed(c) = BarriersIn(c) /\ BarriersIn(c) \in {2, 5}
    BY <1>5, <2>1 DEF Passed, BarriersIn, Inside
  <2>3. pc[d] \notin Between
    BY <1>1, <1>5, <1>6
  <2>4. ASSUME pc[d] # "closed" PROVE FALSE
    <3>1. CASE pc[d] \in {"open", "handle"}
      <4>1. BarriersIn(d) \in {0, 3} /\ Passed(d) = BarriersIn(d)
        BY <2>1, <3>1 DEF Passed, BarriersIn, Inside
      <4>. QED  BY <2>1, <2>2, <4>1
    <3>2. CASE pc[d] = "opened"
      <4>1. BarriersIn(d) \in {1, 4} /\ Passed(d) = BarriersIn(d) - 1
        BY <2>1, <3>2 DEF Passed, BarriersIn, Inside
      <4>. QED  BY <2>1, <2>2, <4>1
    <3>3. CASE pc[d] \in {"shutdown", "done"}
      <4>1. BarriersIn(d) = (IF Phases = {"write", "read"} THEN 6 ELSE 3) /\ Passed(d) = BarriersIn(d)
        BY <2>1, <3>3 DEF Passed, BarriersIn, Inside
      <4>2. BarriersIn(c) = 5 => Phases = {"write", "read"}
        <5>1. phase[c] \in Phases
          BY <1>5 DEF BarrierInv
        <5>2. BarriersIn(c) = (IF phase[c] = "read" /\ "write" \in Phases THEN 3 ELSE 0) + 2
          BY <1>5 DEF BarriersIn, Inside
        <5>3. Phases \in {{"write"}, {"read"}, {"write", "read"}}
          BY LayoutAssumption
        <5>. QED  BY <5>1, <5>2, <5>3
      <4>. QED  BY <2>1, <2>2, <4>1, <4>2
    <3>. QED  BY <1>0, <2>3, <2>4, <3>1, <3>2, <3>3 DEF Between
  <2>. QED  BY <1>5, <1>6, <2>4
<1>. QED  BY <1>5, <1>6

\* No client uses a file, so none is open.
LEMMA NoneOpen ==
    ASSUME NEW stage, NEW own, FilesCounted(stage, own),
           \A d \in Clients : ~Open(d, stage, own)
    PROVE  OpenFiles = {}
<1>1. \A f : Openers(f, stage, own) = {}
  BY DEF Openers
<1>2. \A f \in Files : opened_files[f].references = 0
  BY <1>1, FS_EmptySet DEF FilesCounted
<1>. QED  BY <1>2 DEF OpenFiles

\* The steps of a client keep the table of open files.
LEMMA ClientFiles ==
    ASSUME TypeOK, Running, NEW stage, NEW own, ClientInv(stage, own), BarrierInv,
           FileInv(stage, own), NEW c \in Clients, Client(c)
    PROVE  FileInv(stage, own)'
<1>0. UNCHANGED <<opened_files, pvfs_fh_id>>
  BY ClientLeaves DEF serverVars
<1>1. \A d \in Clients : Open(d, stage, own)' <=> Open(d, stage, own)
  BY ClientKeepsOpen
<1>2. FilesCounted(stage, own)'
  <2>1. \A f : Openers(f, stage, own)' = Openers(f, stage, own)
    BY <1>1 DEF Openers
  <2>. QED  BY <1>0, <2>1 DEF FilesCounted, FileInv
<1>3. OpenFiles' = OpenFiles
  BY <1>0 DEF OpenFiles
<1>4. Descriptors'
  BY <1>0, <1>3 DEF Descriptors, FileInv
<1>5. ASSUME NEW d \in Clients PROVE HandleKnown(d)'
  <2>0. HandleKnown(d)
    BY DEF FileInv
  <2>1. CASE d # c
    <3>1. pc'[d] = pc[d] /\ fh'[d] = fh[d] /\ handleMsgs'[d] = handleMsgs[d]
      BY <2>1, ClientMovesOne
    <3>. QED  BY <1>0, <2>0, <3>1 DEF HandleKnown
  <2>2. CASE d = c /\ ClientHandle(c)
    <3>1. pc[c] = "handle" /\ handleMsgs[c] # <<>> /\ fh'[c] = Head(handleMsgs[c])
          /\ handleMsgs' = Recv(handleMsgs, c)
      BY <2>2 DEF ClientHandle, TypeOK, ClientTypes
    <3>2. handleMsgs'[c] = <<>>
      <4>1. HasAnswer(c, own)
        BY <3>1 DEF ClientInv, ClientOK, Quiet, Asking, Served, GaveUp, Idle
      <4>. QED  BY <3>1, <4>1, OneTail DEF HasAnswer, TypeOK, NetTypes
    <3>. QED  BY <1>0, <2>0, <2>2, <3>1, <3>2 DEF HandleKnown
  <2>3. CASE d = c /\ ~ClientHandle(c)
    <3>1. handleMsgs' = handleMsgs
      BY <2>3
      DEF Client, ClientOpen, ClientStart, ClientIssue, ClientSendData, ClientReadId,
          ClientWriteDone, ClientReadDone, ClientLoopEnd, ClientClose, ClientClosed, ClientNext,
          ClientShutdown, netVars
    <3>2. pc'[c] \in Inside \cup {"drained"} => pc[c] \in Inside \cup {"drained"} /\ fh'[c] = fh[c]
      BY <2>3
      DEF Client, ClientOpen, ClientStart, ClientIssue, ClientSendData, ClientReadId,
          ClientWriteDone, ClientReadDone, ClientLoopEnd, ClientClose, ClientClosed, ClientNext,
          ClientShutdown, Request, NextIteration, Follows, Inside, TypeOK, ClientTypes
    <3>. QED  BY <1>0, <2>0, <2>3, <3>1, <3>2 DEF HandleKnown
  <2>. QED  BY <2>1, <2>2, <2>3
<1>6. LatestHandles'
  <2>1. CASE Opening
    <3>1. \A d : FdAge(d)' = FdAge(d)
      BY <1>0 DEF FdAge
    <3>. QED  BY <1>0, <1>3, <2>1, <3>1 DEF LatestHandles, FileInv
  <2>2. CASE ~Opening /\ Opening'
    <3>1. \A d \in Clients : ~Open(d, stage, own)
      <4>1. \A d \in Clients : pc'[d] \in {"closed"}
        BY <2>2, OpeningStarts
      <4>2. \A d \in Clients : ~Open(d, stage, own)'
        BY <4>1 DEF Open, Inside
      <4>. QED  BY <1>1, <4>2
    <3>2. OpenFiles = {}
      BY <3>1, NoneOpen DEF FileInv
    <3>. QED  BY <1>3, <3>2 DEF LatestHandles
  <2>3. CASE ~Opening'
    BY <2>3 DEF LatestHandles
  <2>. QED  BY <2>1, <2>2, <2>3
<1>. QED  BY <1>2, <1>4, <1>5, <1>6 DEF FileInv

-----------------------------------------------------------------------------
(* The files, when the server goes on. *)

\* Which clients have the file open does not change, nor the files, and a
\* handle that is sent is that of the client's file.
LEMMA FilesFrame ==
    ASSUME NEW stage, NEW own, NEW next, NEW nown, FileInv(stage, own),
           UNCHANGED <<clientVars, opened_files, pvfs_fh_id>>,
           \A c \in Clients : Open(c, next, nown)' <=> Open(c, stage, own),
           \A c \in Clients : \/ handleMsgs'[c] = handleMsgs[c]
                              \/ Head(handleMsgs'[c]) = opened_files[FileOf(Layout, c)].fh
    PROVE  FileInv(next, nown)'
<1>0. UNCHANGED <<pc, phase, fh, barrier, opened_files, pvfs_fh_id>>
  BY DEF clientVars
<1>2. \A f : Openers(f, next, nown)' = Openers(f, stage, own)
  BY DEF Openers
<1>3. FilesCounted(next, nown)'
  BY <1>0, <1>2 DEF FilesCounted, FileInv
<1>4. OpenFiles' = OpenFiles /\ (Opening' <=> Opening)
  BY <1>0 DEF OpenFiles, Opening
<1>5. Descriptors'
  BY <1>0, <1>4 DEF Descriptors, FileInv
<1>6. \A c \in Clients : HandleKnown(c)'
  BY <1>0 DEF HandleKnown, FileInv
<1>7. LatestHandles'
  <2>1. \A d : FdAge(d)' = FdAge(d)
    BY <1>0 DEF FdAge
  <2>. QED  BY <1>0, <1>4, <2>1 DEF LatestHandles, FileInv
<1>. QED  BY <1>3, <1>5, <1>6, <1>7 DEF FileInv

\* What becomes of the other clients when one client's request goes on.
LEMMA OthersKeepOpen ==
    ASSUME TypeOK, NEW stage, NEW own, NEW next, NEW nown, ClientInv(stage, own),
           NEW c, NEW id, stage[id] = "free" \/ fr[id].rank = c,
           OtherStages(stage, next, id), OtherOwners(own, nown, c), UNCHANGED clientVars,
           NEW d \in Clients, d # c, requestMsgs'[d] = requestMsgs[d]
    PROVE  Open(d, next, nown)' <=> Open(d, stage, own)
<1>1. nown[d] = own[d] /\ pc'[d] = pc[d]
  BY DEF OtherOwners, clientVars
<1>2. CASE own[d] = NoId
  BY <1>1, <1>2, OpenFrame
<1>3. CASE own[d] # NoId
  <2>1. Served(d, stage, own)
    BY <1>3, ServedClient DEF ClientInv
  <2>2. own[d] # id /\ own[d] \in Ids
    BY <2>1 DEF Served, IsRequestOf
  <2>3. next[own[d]] = stage[own[d]]
    BY <2>2 DEF OtherStages
  <2>. QED  BY <1>1, <2>3, OpenFrame
<1>. QED  BY <1>2, <1>3

\* A request that arrives opens and closes nothing yet.
LEMMA ListenerRequestFiles ==
    ASSUME TypeOK, NEW stage \in [Ids -> Stages], NEW own \in [Clients -> Ids \cup {NoId}],
           ClientInv(stage, own), FileInv(stage, own),
           NEW c \in Clients, ListenerRequest(c), Asking(c, own),
           NEW id \in Ids, stage[id] = "free",
           NEW next, next = Move(stage, {id}, "incoming"),
           NEW nown, nown = [own EXCEPT ![c] = id]
    PROVE  FileInv(next, nown)'
<1>1. /\ UNCHANGED clientVars /\ UNCHANGED <<handleMsgs, opened_files, pvfs_fh_id>>
      /\ requestMsgs' = Recv(requestMsgs, c) /\ DOMAIN requestMsgs = Clients
  BY DEF ListenerRequest, TypeOK, NetTypes
<1>2. OtherStages(stage, next, id) /\ next[id] = "incoming" /\ OtherOwners(own, nown, c) /\ nown[c] = id
  BY DEF OtherStages, OtherOwners, Move
<1>3. requestMsgs[c] # <<>> /\ requestMsgs'[c] = <<>>
  <2>1. PICK m : requestMsgs[c] = <<m>>
    BY DEF Asking
  <2>2. Recv(requestMsgs, c)[c] = <<>>
    BY <1>1, <2>1, OneReceived
  <2>. QED  BY <1>1, <2>1, <2>2
<1>4. Open(c, next, nown)' <=> Open(c, stage, own)
  BY <1>1, <1>2, <1>3, MarkersApart DEF Asking, Open, clientVars, Inside
<1>5. ASSUME NEW d \in Clients, d # c PROVE Open(d, next, nown)' <=> Open(d, stage, own)
  <2>1. requestMsgs'[d] = requestMsgs[d]
    BY <1>1, <1>5 DEF Recv
  <2>. QED  BY <1>1, <1>2, <1>5, <2>1, OthersKeepOpen
<1>. QED  BY <1>1, <1>4, <1>5, FilesFrame

\* A shutdown message opens and closes nothing.
LEMMA ListenerShutdownFiles ==
    ASSUME TypeOK, NEW stage, NEW own, FileInv(stage, own),
           NEW c \in Clients, ListenerShutdown(c), pc[c] = "done"
    PROVE  FileInv(stage, own)'
<1>1. /\ UNCHANGED clientVars /\ UNCHANGED <<handleMsgs, opened_files, pvfs_fh_id>>
      /\ requestMsgs' = Recv(requestMsgs, c) /\ DOMAIN requestMsgs = Clients
  BY DEF ListenerShutdown, TypeOK, NetTypes
<1>2. Open(c, stage, own)' <=> Open(c, stage, own)
  BY <1>1 DEF Open, clientVars, Inside
<1>3. ASSUME NEW d \in Clients, d # c PROVE Open(d, stage, own)' <=> Open(d, stage, own)
  <2>1. requestMsgs'[d] = requestMsgs[d] /\ pc'[d] = pc[d]
    BY <1>1, <1>3 DEF Recv, clientVars
  <2>. QED  BY <2>1, OpenFrame
<1>. QED  BY <1>1, <1>2, <1>3, FilesFrame

\* A request that goes on within the server, and not to its answer.
LEMMA GoesOnFiles ==
    ASSUME TypeOK, NEW stage, NEW own, NEW next,
           FileInv(stage, own), UNCHANGED <<clientVars, requestMsgs, handleMsgs, opened_files, pvfs_fh_id>>,
           NEW id, stage[id] # "reply", next[id] # "reply", OtherStages(stage, next, id),
           \A c \in Clients : own[c] \in Ids \cup {NoId}
    PROVE  FileInv(next, own)'
<1>1. ASSUME NEW d \in Clients PROVE Open(d, next, own)' <=> Open(d, stage, own)
  <2>1. own[d] # NoId => (next[own[d]] # "reply" <=> stage[own[d]] # "reply")
    BY DEF OtherStages
  <2>2. pc'[d] = pc[d] /\ requestMsgs'[d] = requestMsgs[d]
    BY DEF clientVars
  <2>. QED  BY <2>1, <2>2, OpenFrame
<1>. QED  BY <1>1, FilesFrame

\* The request of c is answered.
LEMMA IsOverFiles ==
    ASSUME TypeOK, NEW stage, NEW own, NEW next, NEW nown,
           ClientInv(stage, own), FileInv(stage, own),
           UNCHANGED <<clientVars, requestMsgs, opened_files, pvfs_fh_id>>,
           NEW c \in Clients, NEW id, fr[id].rank = c,
           OtherStages(stage, next, id), OtherOwners(own, nown, c),
           stage[id] = "reply" \/ pc[c] \notin {"handle", "closing"}, own[c] = id, nown[c] = NoId,
           \A d \in Clients : \/ handleMsgs'[d] = handleMsgs[d]
                              \/ Head(handleMsgs'[d]) = opened_files[FileOf(Layout, d)].fh
    PROVE  FileInv(next, nown)'
<1>1. UNCHANGED clientVars /\ UNCHANGED requestMsgs
  OBVIOUS
<1>2. Open(c, next, nown)' <=> Open(c, stage, own)
  BY <1>1 DEF Open, clientVars
<1>3. ASSUME NEW d \in Clients, d # c PROVE Open(d, next, nown)' <=> Open(d, stage, own)
  BY <1>1, <1>3, OthersKeepOpen
<1>. QED  BY <1>2, <1>3, FilesFrame

\* The answer to an OPEN or CLOSE tells the client what the table has.
LEMMA HandlerAnswerFiles ==
    ASSUME TypeOK, NEW stage \in [Ids -> Stages], NEW own \in [Clients -> Ids \cup {NoId}],
           OwnInv(stage, own), ClientInv(stage, own), FileInv(stage, own), NEW h \in Handlers,
           HandlerSendHandle(h) \/ HandlerAckClose(h), NEW id \in Ids, id = handler[h].id,
           stage[id] = "reply", NEW next, next = Move(stage, {id}, "free"),
           NEW nown, nown = [own EXCEPT ![fr[id].rank] = NoId]
    PROVE  FileInv(next, nown)'
<1>0. PICK c : c = fr[id].rank
  OBVIOUS
<1>1. /\ c \in Clients /\ own[c] = id /\ Served(c, stage, own) /\ IsRequestOf(fr[id], c)
  BY <1>0, RequestOf
<1>2. OtherStages(stage, next, id) /\ OtherOwners(own, nown, c) /\ nown[c] = NoId
  BY <1>0, <1>1 DEF OtherStages, OtherOwners, Move
<1>3. UNCHANGED <<clientVars, requestMsgs, opened_files, pvfs_fh_id>>
  BY DEF HandlerSendHandle, HandlerAckClose, handlerOnly
<1>4. ASSUME NEW d \in Clients
      PROVE \/ handleMsgs'[d] = handleMsgs[d]
            \/ Head(handleMsgs'[d]) = opened_files[FileOf(Layout, d)].fh
  <2>1. CASE HandlerAckClose(h) \/ d # c
    BY <1>0, <2>1 DEF HandlerAckClose, HandlerSendHandle, Send, frOf, TypeOK, NetTypes
  <2>2. CASE HandlerSendHandle(h) /\ d = c
    <3>1. handleMsgs' = Send(handleMsgs, c, opened_files[fr[id].file].fh) /\ fr[id].operation = "open"
      BY <1>0, <2>2 DEF HandlerSendHandle, frOf
    <3>2. handleMsgs[c] = <<>> /\ DOMAIN handleMsgs = Clients
      BY <1>1 DEF Served, TypeOK, NetTypes
    <3>3. handleMsgs'[c] = <<opened_files[fr[id].file].fh>>
      <4>1. PICK m : m = opened_files[fr[id].file].fh
        OBVIOUS
      <4>2. c \in DOMAIN handleMsgs /\ handleMsgs[c] = <<>>
        BY <1>1, <3>2
      <4>3. Send(handleMsgs, c, m)[c] = Append(<<>>, m)
        BY <4>2 DEF Send
      <4>4. Append(<<>>, m) = <<m>>
        OBVIOUS
      <4>5. handleMsgs'[c] = Send(handleMsgs, c, m)[c]
        BY <3>1, <4>1
      <4>. QED  BY <4>1, <4>3, <4>4, <4>5
    <3>4. fr[id].file = FileOf(Layout, c)
      <4>1. fr[id].operation = AsksFor(c).operation /\ fr[id].file = AsksFor(c).file
        BY <1>1 DEF IsRequestOf
      <4>2. pc[c] = "handle"
        <5>1. Served(c, stage, own) /\ stage[own[c]] = "reply"
          BY <1>1
        <5>2. ServedAs(c, "reply", own[c])
          BY <5>1 DEF Served
        <5>3. pc[c] \in {"handle", "closing"}
          BY <5>2 DEF ServedAs, Arriving, Unacked, Buffered, Hashed
        <5>4. pc[c] = "closing" => AsksFor(c).operation = "close"
          BY DEF AsksFor
        <5>. QED  BY <3>1, <4>1, <5>3, <5>4
      <4>. QED  BY <4>1, <4>2 DEF AsksFor
    <3>. QED  BY <2>2, <3>3, <3>4
  <2>. QED  BY <2>1, <2>2
<1>. QED  BY <1>0, <1>1, <1>2, <1>3, <1>4, IsOverFiles

\* The answer to a read or write leaves the table as it is.
LEMMA CallbackReplyFiles ==
    ASSUME TypeOK, NEW stage \in [Ids -> Stages], NEW own \in [Clients -> Ids \cup {NoId}],
           OwnInv(stage, own), ClientInv(stage, own), FileInv(stage, own), NEW t \in PoolThreads,
           CallbackReply(t), NEW id \in Ids, stage[id] = "last",
           NEW next, next = Move(stage, {id}, "free"),
           NEW nown, nown = [own EXCEPT ![fr[id].rank] = NoId]
    PROVE  FileInv(next, nown)'
<1>0. PICK c : c = fr[id].rank
  OBVIOUS
<1>1. /\ c \in Clients /\ own[c] = id /\ Served(c, stage, own)
  BY <1>0, RequestOf
<1>2. OtherStages(stage, next, id) /\ OtherOwners(own, nown, c) /\ nown[c] = NoId
  BY <1>0, <1>1 DEF OtherStages, OtherOwners, Move
<1>3. UNCHANGED <<clientVars, requestMsgs, handleMsgs, opened_files, pvfs_fh_id>>
  BY DEF CallbackReply, poolOnly
<1>4. pc[c] \notin {"handle", "closing"}
  <2>1. ServedAs(c, "last", own[c])
    BY <1>1 DEF Served
  <2>. QED  BY <2>1 DEF ServedAs, Arriving
<1>. QED  BY <1>0, <1>1, <1>2, <1>3, <1>4, IsOverFiles

-----------------------------------------------------------------------------
(* The files, when one is opened or closed. *)

\* The clients that have a file open, and the files, can be counted.
LEMMA OpenersFinite ==
    ASSUME NEW f, NEW stage, NEW own
    PROVE  /\ IsFiniteSet(Openers(f, stage, own))
           /\ IsFiniteSet(OpenFiles) /\ IsFiniteSet(Files)
           /\ Cardinality(OpenFiles) \in Nat /\ Cardinality(Files) \in Nat
<1>1. IsFiniteSet(Openers(f, stage, own))
  <2>1. Openers(f, stage, own) \subseteq Clients
    BY DEF Openers
  <2>. QED  BY <2>1, ClientsFinite, FS_Subset
<1>2. IsFiniteSet(Files)
  <2>1. Files = {FileOf(Layout, c) : c \in Clients}
    BY DEF Files
  <2>2. PICK g : g = [c \in Clients |-> FileOf(Layout, c)]
    OBVIOUS
  <2>3. g \in Surjection(Clients, Files)
    BY <2>1, <2>2 DEF Surjection
  <2>. QED  BY <2>3, ClientsFinite, FS_Surjection
<1>3. OpenFiles \subseteq Files
  BY DEF OpenFiles
<1>4. IsFiniteSet(OpenFiles)
  BY <1>2, <1>3, FS_Subset
<1>. QED  BY <1>1, <1>2, <1>4, FS_CardinalityType

\* A client that knows a handle, or is sent one, has its file open.
LEMMA KnownIsOpen ==
    ASSUME NEW stage, NEW own, NEW c, ClientOK(c, stage, own),
           pc[c] \in Inside \cup {"drained"} \/ handleMsgs[c] # <<>>
    PROVE  Open(c, stage, own)
<1>1. CASE handleMsgs[c] # <<>>
  <2>1. HasAnswer(c, own)
    BY <1>1 DEF ClientOK, Quiet, Asking, Served, GaveUp
  <2>. QED  BY <1>1, <2>1 DEF HasAnswer, Open, Inside
<1>. QED  BY <1>1 DEF Open

\* The handle that comes after g is the one given out longest ago.
LEMMA NextFdAge ==
    ASSUME NEW g \in Fds, NEW i \in Fds
    PROVE  LET n == generate_pfs_identifier(g)
               age(h) == IF i <= h THEN h - i ELSE h - i + (LastFd - FirstFd + 1)
           IN  /\ n \in Fds
               /\ i = n => age(g) = LastFd - FirstFd /\ age(n) = 0
               /\ i # n => age(n) = age(g) + 1
               /\ age(g) \in Nat /\ age(n) \in Nat
BY FdAssumption DEF Fds, generate_pfs_identifier

\* There are as many descriptors as files.
LEMMA FdsNumber == LastFd - FirstFd + 1 >= Cardinality(Files)
<1>1. Cardinality(Fds) = LastFd - FirstFd + 1
  BY FdAssumption, FS_Interval DEF Fds
<1>. QED  BY <1>1, FdAssumption

\* The request that a handler opens or closes a file for.
LEMMA FileRequest ==
    ASSUME TypeOK, NEW stage, NEW own, OwnInv(stage, own), ClientInv(stage, own),
           NEW id \in Ids, stage[id] = "got", fr[id].operation \in {"open", "close"},
           NEW c, c = fr[id].rank
    PROVE  /\ c \in Clients /\ own[c] = id /\ requestMsgs[c] = <<>> /\ handleMsgs[c] = <<>>
           /\ pc[c] = IF fr[id].operation = "open" THEN "handle" ELSE "closing"
           /\ fr[id].file = FileOf(Layout, c)
<1>1. /\ c \in Clients /\ own[c] = id /\ Served(c, stage, own) /\ IsRequestOf(fr[id], c)
  BY RequestOf
<1>2. fr[id].operation = AsksFor(c).operation /\ fr[id].file = AsksFor(c).file
  BY <1>1 DEF IsRequestOf
<1>3. ServedAs(c, "got", id)
  BY <1>1 DEF Served
<1>4. pc[c] \in {"handle", "closing", "id"}
  BY <1>3 DEF ServedAs, Arriving, Unacked, Buffered, Hashed
<1>5. pc[c] # "id"
  <2>1. SUFFICES ASSUME pc[c] = "id" PROVE FALSE
    OBVIOUS
  <2>2. AsksFor(c).operation = phase[c]
    BY <2>1 DEF AsksFor
  <2>3. phase[c] \in {"write", "read"}
    BY <1>1 DEF TypeOK, ClientTypes
  <2>. QED  BY <1>2, <2>2, <2>3
<1>. QED  BY <1>1, <1>2, <1>4, <1>5 DEF AsksFor, Served

\* Who has a file open, after the request of c is served.
LEMMA WhoHasItOpen ==
    ASSUME TypeOK, NEW stage \in [Ids -> Stages], NEW own \in [Clients -> Ids \cup {NoId}],
           OwnInv(stage, own), ClientInv(stage, own), NEW h \in Handlers,
           HandlerOpen(h) \/ HandlerClose(h), NEW id \in Ids, id = handler[h].id,
           stage[id] = "got", NEW next, next = Move(stage, {id}, "reply"), NEW c, c = fr[id].rank
    PROVE  /\ c \in Clients
           /\ \A d \in Clients : d # c => (Open(d, next, own)' <=> Open(d, stage, own))
           /\ HandlerOpen(h) => ~Open(c, stage, own) /\ Open(c, next, own)'
           /\ HandlerClose(h) => Open(c, stage, own) /\ ~Open(c, next, own)'
<1>0. /\ fr[id].operation = IF HandlerOpen(h) THEN "open" ELSE "close"
      /\ HandlerClose(h) => ~HandlerOpen(h)
      /\ UNCHANGED clientVars /\ UNCHANGED <<requestMsgs, handleMsgs, fr>>
  BY DEF HandlerOpen, HandlerClose, frOf, handlerOnly
<1>1. /\ c \in Clients /\ own[c] = id /\ requestMsgs[c] = <<>>
      /\ pc[c] = IF fr[id].operation = "open" THEN "handle" ELSE "closing"
  BY <1>0, FileRequest
<1>2. OtherStages(stage, next, id) /\ OtherOwners(own, own, c) /\ next[id] = "reply"
  BY DEF OtherStages, OtherOwners, Move
<1>3. ASSUME NEW d \in Clients, d # c PROVE Open(d, next, own)' <=> Open(d, stage, own)
  BY <1>0, <1>2, <1>3, OthersKeepOpen
<1>4. pc'[c] = pc[c] /\ requestMsgs'[c] = <<>> /\ id # NoId
  BY <1>0, <1>1, MarkersApart DEF clientVars
<1>. QED  BY <1>0, <1>1, <1>2, <1>3, <1>4 DEF Open, Inside

\* An OPEN counts one more user, and opens the file for the first.
LEMMA HandlerOpenFiles ==
    ASSUME TypeOK, NEW stage \in [Ids -> Stages], NEW own \in [Clients -> Ids \cup {NoId}],
           OwnInv(stage, own), ClientInv(stage, own), BarrierInv, FileInv(stage, own),
           NEW h \in Handlers, HandlerOpen(h), NEW id \in Ids, id = handler[h].id,
           stage[id] = "got", NEW next, next = Move(stage, {id}, "reply")
    PROVE  FileInv(next, own)'
<1>0. PICK c, f : c = fr[id].rank /\ f = fr[id].file
  OBVIOUS
<1>1. fr[id].operation = "open" /\ UNCHANGED clientVars /\ UNCHANGED handleMsgs
  BY DEF HandlerOpen, frOf, handlerOnly
<1>2. /\ c \in Clients /\ handleMsgs[c] = <<>> /\ pc[c] = "handle" /\ f = FileOf(Layout, c)
      /\ f \in Files
  BY <1>0, <1>1, FileRequest, FileType
<1>3. /\ \A d \in Clients : d # c => (Open(d, next, own)' <=> Open(d, stage, own))
      /\ ~Open(c, stage, own) /\ Open(c, next, own)'
  BY <1>0, WhoHasItOpen
<1>4. /\ \A g \in Files : g # f => Openers(g, next, own)' = Openers(g, stage, own)
      /\ Openers(f, next, own)' = Openers(f, stage, own) \cup {c}
      /\ c \notin Openers(f, stage, own)
  BY <1>2, <1>3 DEF Openers
<1>5. Opening /\ Opening'
  <2>1. Opening
    BY <1>2, OpensWhenOpening
  <2>. QED  BY <1>1, <2>1 DEF Opening, clientVars
<1>6. Cardinality(Openers(f, next, own)') = Cardinality(Openers(f, stage, own)) + 1
  BY <1>4, OpenersFinite, FS_AddElement
<1>7. /\ FilesCounted(stage, own) /\ Descriptors /\ LatestHandles
      /\ \A d \in Clients : HandleKnown(d)
      /\ opened_files \in [Files -> [fh : Fds \cup {NoFd}, references : Nat]] /\ pvfs_fh_id \in Fds
  BY DEF FileInv, TypeOK, FileTypes
<1>8. CASE ~NotYetOpen(f)
  <2>1. opened_files' = [opened_files EXCEPT ![f].references = @ + 1] /\ UNCHANGED pvfs_fh_id
        /\ opened_files[f].references # 0
    BY <1>0, <1>8 DEF HandlerOpen, frOf, NotYetOpen
  <2>2. /\ opened_files'[f].references = opened_files[f].references + 1
        /\ opened_files'[f].references # 0
        /\ \A g \in Files : opened_files'[g].fh = opened_files[g].fh
        /\ \A g \in Files : g # f => opened_files'[g] = opened_files[g]
    BY <1>2, <1>7, <2>1
  <2>3. OpenFiles' = OpenFiles
    BY <2>1, <2>2 DEF OpenFiles
  <2>4. FilesCounted(next, own)'
    BY <1>4, <1>6, <1>7, <2>2 DEF FilesCounted
  <2>5. Descriptors'
    BY <1>7, <2>1, <2>2, <2>3 DEF Descriptors, OpenFiles
  <2>6. \A d \in Clients : HandleKnown(d)'
    BY <1>1, <1>7, <2>2, FileType DEF HandleKnown, clientVars
  <2>7. LatestHandles'
    <3>1. \A d : FdAge(d)' = FdAge(d)
      BY <2>1 DEF FdAge
    <3>2. \A g \in OpenFiles : opened_files'[g].fh = opened_files[g].fh
      BY <2>2 DEF OpenFiles
    <3>. QED  BY <1>5, <1>7, <2>3, <3>1, <3>2 DEF LatestHandles
  <2>. QED  BY <2>4, <2>5, <2>6, <2>7 DEF FileInv
<1>9. CASE NotYetOpen(f)
  <2>1. PICK d \in NewHandles : /\ opened_files' = [opened_files EXCEPT ![f] = [fh |-> d, references |-> 1]]
                                /\ pvfs_fh_id' = IF FileSystem = "pvfs" THEN d ELSE pvfs_fh_id
    BY <1>0, <1>9 DEF HandlerOpen, frOf
  <2>2. /\ opened_files'[f] = [fh |-> d, references |-> 1] /\ opened_files[f].references = 0
        /\ \A g \in Files : g # f => opened_files'[g] = opened_files[g]
    BY <1>2, <1>7, <1>9, <2>1 DEF NotYetOpen
  <2>3. OpenFiles' = OpenFiles \cup {f} /\ f \notin OpenFiles
    BY <1>2, <2>2 DEF OpenFiles
  <2>4. Openers(f, stage, own) = {}
    BY <1>2, <1>7, <2>2, OpenersFinite, FS_EmptySet DEF FilesCounted
  <2>5. FilesCounted(next, own)'
    <3>1. Cardinality(Openers(f, next, own)') = 1
      BY <1>6, <2>4, FS_EmptySet
    <3>2. ASSUME NEW g \in Files
          PROVE  opened_files'[g].references = Cardinality(Openers(g, next, own)')
      <4>1. CASE g = f
        BY <2>2, <3>1, <4>1
      <4>2. CASE g # f
        BY <1>4, <1>7, <2>2, <4>2 DEF FilesCounted
      <4>. QED  BY <4>1, <4>2
    <3>. QED  BY <3>2 DEF FilesCounted
  <2>6. d \in Fds
    BY NewHandleType
  <2>7. FileSystem = "pvfs" =>
            /\ d = generate_pfs_identifier(pvfs_fh_id) /\ pvfs_fh_id' = d
            /\ \A g \in OpenFiles : opened_files[g].fh \in Fds
                  /\ FdAge(opened_files[g].fh) < Cardinality(OpenFiles)
    BY <1>5, <1>7, <2>1 DEF NewHandles, LatestHandles, Descriptors, OpenFiles
  <2>8. /\ Cardinality(OpenFiles') = Cardinality(OpenFiles) + 1
        /\ Cardinality(OpenFiles') <= Cardinality(Files)
        /\ Cardinality(OpenFiles) \in Nat /\ Cardinality(Files) \in Nat
    <3>1. OpenFiles' \subseteq Files
      BY DEF OpenFiles
    <3>. QED  BY <2>3, <3>1, OpenersFinite, FS_AddElement, FS_Subset
  <2>9. ASSUME FileSystem = "pvfs", NEW g \in OpenFiles
        PROVE  /\ opened_files[g].fh # d
               /\ FdAge(opened_files[g].fh)' = FdAge(opened_files[g].fh) + 1
               /\ FdAge(opened_files[g].fh) < Cardinality(OpenFiles)
    <3>1. PICK i : i = opened_files[g].fh
      OBVIOUS
    <3>2. i \in Fds /\ FdAge(i) < Cardinality(OpenFiles)
      BY <2>7, <2>9, <3>1
    <3>3. i = d => FdAge(i) = LastFd - FirstFd
      BY <1>7, <2>7, <2>9, <3>2, NextFdAge DEF FdAge
    <3>4. i # d
      BY <2>8, <3>2, <3>3, FdsNumber, FdAssumption
    <3>5. (FdAge(i))' = FdAge(i) + 1
      BY <1>7, <2>7, <2>9, <3>2, <3>4, NextFdAge DEF FdAge
    <3>6. opened_files'[g] = opened_files[g]
      BY <2>2, <2>3, <2>9 DEF OpenFiles
    <3>. QED  BY <3>1, <3>2, <3>4, <3>5, <3>6 DEF FdAge
  <2>10. \A g \in OpenFiles : opened_files[g].fh # d
    <3>1. CASE FileSystem = "pvfs"
      BY <2>9, <3>1
    <3>2. CASE FileSystem # "pvfs"
      <4>1. d \notin OpenFds
        BY <3>2 DEF NewHandles
      <4>2. ASSUME NEW g \in OpenFiles PROVE opened_files[g].fh # d
        <5>1. g \in Files /\ opened_files[g].fh \in Fds
          BY <1>7 DEF Descriptors, OpenFiles
        <5>. QED  BY <4>1, <5>1, MarkersApart DEF OpenFds
      <4>. QED  BY <4>2
    <3>. QED  BY <3>1, <3>2
  <2>11. Descriptors'
    <3>1. \A g \in Files : IF g \in OpenFiles' THEN opened_files'[g].fh \in Fds
                           ELSE opened_files'[g] = NotOpened
      BY <1>7, <2>2, <2>3, <2>6 DEF Descriptors
    <3>2. \A g, e \in OpenFiles' : opened_files'[g].fh = opened_files'[e].fh => g = e
      <4>1. \A g \in OpenFiles : g \in Files /\ g # f
        BY <2>3 DEF OpenFiles
      <4>2. \A g \in OpenFiles : opened_files'[g].fh = opened_files[g].fh /\ opened_files[g].fh # d
        BY <2>2, <2>10, <4>1
      <4>3. opened_files'[f].fh = d
        BY <2>2
      <4>. QED  BY <1>7, <2>3, <4>2, <4>3 DEF Descriptors
    <3>. QED  BY <3>1, <3>2 DEF Descriptors
  <2>12. ASSUME NEW e \in Clients PROVE HandleKnown(e)'
    <3>1. CASE FileOf(Layout, e) = f
      <4>1. ~Open(e, stage, own)
        BY <2>4, <3>1 DEF Openers
      <4>2. ClientOK(e, stage, own)
        BY DEF ClientInv
      <4>3. ~(pc[e] \in Inside \cup {"drained"}) /\ handleMsgs[e] = <<>>
        BY <4>1, <4>2, KnownIsOpen
      <4>. QED  BY <1>1, <4>3 DEF HandleKnown, clientVars
    <3>2. CASE FileOf(Layout, e) # f
      <4>1. opened_files'[FileOf(Layout, e)] = opened_files[FileOf(Layout, e)]
        BY <2>2, <3>2, FileType
      <4>. QED  BY <1>1, <1>7, <4>1 DEF HandleKnown, clientVars
    <3>. QED  BY <3>1, <3>2
  <2>13. LatestHandles'
    <3>1. SUFFICES ASSUME FileSystem = "pvfs", NEW g \in OpenFiles'
                   PROVE  (FdAge(opened_files[g].fh) < Cardinality(OpenFiles))'
      BY DEF LatestHandles
    <3>2. CASE g = f
      <4>1. opened_files'[g].fh = d /\ pvfs_fh_id' = d
        BY <2>2, <2>7, <3>1, <3>2
      <4>2. FdAge(opened_files[g].fh)' = 0
        BY <2>6, <4>1, FdAssumption DEF FdAge, Fds
      <4>. QED  BY <2>8, <4>2
    <3>3. CASE g # f
      <4>1. g \in OpenFiles /\ opened_files'[g] = opened_files[g]
        BY <2>2, <2>3, <3>3 DEF OpenFiles
      <4>2. FdAge(opened_files[g].fh)' = FdAge(opened_files[g].fh) + 1
            /\ FdAge(opened_files[g].fh) < Cardinality(OpenFiles)
        BY <2>9, <3>1, <4>1
      <4>3. FdAge(opened_files[g].fh) \in Int
        <5>1. opened_files[g].fh \in Fds
          BY <2>7, <3>1, <4>1
        <5>. QED  BY <1>7, <5>1, FdAssumption DEF FdAge, Fds
      <4>. QED  BY <2>8, <4>2, <4>3
    <3>. QED  BY <3>2, <3>3
  <2>. QED  BY <2>5, <2>11, <2>12, <2>13 DEF FileInv
<1>. QED  BY <1>8, <1>9

\* A CLOSE counts one user less, closes the file after the last, and finds
\* its path.
LEMMA HandlerCloseFiles ==
    ASSUME TypeOK, NEW stage \in [Ids -> Stages], NEW own \in [Clients -> Ids \cup {NoId}],
           OwnInv(stage, own), ClientInv(stage, own), BarrierInv, FileInv(stage, own),
           NEW h \in Handlers, HandlerClose(h), NEW id \in Ids, id = handler[h].id,
           stage[id] = "got", NEW next, next = Move(stage, {id}, "reply")
    PROVE  FileInv(next, own)' /\ UNCHANGED aborted
<1>0. PICK c, f : c = fr[id].rank /\ f = fr[id].file
  OBVIOUS
<1>1. fr[id].operation = "close" /\ UNCHANGED clientVars /\ UNCHANGED <<handleMsgs, pvfs_fh_id>>
  BY DEF HandlerClose, frOf, handlerOnly
<1>2. /\ c \in Clients /\ handleMsgs[c] = <<>> /\ pc[c] = "closing" /\ f = FileOf(Layout, c)
      /\ f \in Files
  BY <1>0, <1>1, FileRequest, FileType
<1>3. /\ \A d \in Clients : d # c => (Open(d, next, own)' <=> Open(d, stage, own))
      /\ Open(c, stage, own) /\ ~Open(c, next, own)'
  BY <1>0, WhoHasItOpen
<1>4. /\ \A g \in Files : g # f => Openers(g, next, own)' = Openers(g, stage, own)
      /\ Openers(f, next, own)' = Openers(f, stage, own) \ {c}
      /\ c \in Openers(f, stage, own)
  BY <1>2, <1>3 DEF Openers
<1>5. ~Opening'
  <2>1. ~Opening
    BY <1>2, WhenOpening DEF NoneBetween, Between
  <2>. QED  BY <1>1, <2>1 DEF Opening, clientVars
<1>6. /\ Cardinality(Openers(f, next, own)') = Cardinality(Openers(f, stage, own)) - 1
      /\ Cardinality(Openers(f, stage, own)) \in Nat \ {0}
      /\ IsFiniteSet(Openers(f, next, own)')
  <2>0. PICK S : S = Openers(f, stage, own)
    OBVIOUS
  <2>1. IsFiniteSet(S) /\ c \in S
    BY <1>4, <2>0, OpenersFinite
  <2>2. IsFiniteSet(S \ {c}) /\ Cardinality(S \ {c}) = Cardinality(S) - 1
    BY <2>1, FS_RemoveElement
  <2>3. Cardinality(S) \in Nat /\ Cardinality(S) # 0
    BY <2>1, FS_CardinalityType, FS_EmptySet
  <2>. QED  BY <1>4, <2>0, <2>2, <2>3
<1>7. /\ FilesCounted(stage, own) /\ Descriptors /\ \A d \in Clients : HandleKnown(d)
      /\ opened_files \in [Files -> [fh : Fds \cup {NoFd}, references : Nat]]
  BY DEF FileInv, TypeOK, FileTypes
<1>8. ~NotYetOpen(f)
  BY <1>2, <1>6, <1>7 DEF NotYetOpen, FilesCounted
<1>9. /\ opened_files' = [opened_files EXCEPT ![f] = Release(@)] /\ UNCHANGED aborted
      /\ opened_files[f].references = Cardinality(Openers(f, stage, own))
  BY <1>0, <1>2, <1>7, <1>8 DEF HandlerClose, frOf, FilesCounted
<1>10. /\ opened_files'[f] = Release(opened_files[f])
       /\ \A g \in Files : g # f => opened_files'[g] = opened_files[g]
  BY <1>2, <1>7, <1>9
<1>11. /\ opened_files'[f].references = opened_files[f].references - 1
       /\ opened_files'[f].references = 0 => opened_files'[f] = NotOpened
       /\ opened_files'[f].references # 0 => opened_files'[f].fh = opened_files[f].fh
  <2>1. opened_files[f] \in [fh : Fds \cup {NoFd}, references : Nat]
        /\ opened_files[f].references \in Nat \ {0}
    BY <1>2, <1>6, <1>7, <1>9
  <2>. QED  BY <1>10, <2>1 DEF Release, NotOpened
<1>12. FilesCounted(next, own)'
  <2>1. ASSUME NEW g \in Files
        PROVE  opened_files'[g].references = Cardinality(Openers(g, next, own)')
    <3>1. CASE g = f
      BY <1>6, <1>9, <1>11, <3>1
    <3>2. CASE g # f
      BY <1>4, <1>7, <1>10, <3>2 DEF FilesCounted
    <3>. QED  BY <3>1, <3>2
  <2>. QED  BY <2>1 DEF FilesCounted
<1>13. \A g \in OpenFiles' : g \in OpenFiles /\ opened_files'[g].fh = opened_files[g].fh
  <2>1. f \in OpenFiles
    BY <1>2, <1>6, <1>9 DEF OpenFiles
  <2>2. ASSUME NEW g \in OpenFiles' PROVE g \in OpenFiles /\ opened_files'[g].fh = opened_files[g].fh
    <3>1. g \in Files /\ opened_files'[g].references # 0
      BY DEF OpenFiles
    <3>2. CASE g = f
      BY <1>11, <2>1, <3>1, <3>2
    <3>3. CASE g # f
      BY <1>10, <3>1, <3>3 DEF OpenFiles
    <3>. QED  BY <3>2, <3>3
  <2>. QED  BY <2>2
<1>14. Descriptors'
  <2>1. ASSUME NEW g \in Files
        PROVE  IF g \in OpenFiles' THEN opened_files'[g].fh \in Fds ELSE opened_files'[g] = NotOpened
    <3>1. CASE g \in OpenFiles'
      BY <1>7, <1>13, <3>1 DEF Descriptors
    <3>2. CASE g \notin OpenFiles' /\ g = f
      BY <1>11, <3>2 DEF OpenFiles
    <3>3. CASE g \notin OpenFiles' /\ g # f
      BY <1>7, <1>10, <3>3 DEF OpenFiles, Descriptors
    <3>. QED  BY <3>1, <3>2, <3>3
  <2>2. \A g, e \in OpenFiles' : opened_files'[g].fh = opened_files'[e].fh => g = e
    BY <1>7, <1>13 DEF Descriptors
  <2>. QED  BY <2>1, <2>2 DEF Descriptors
<1>15. ASSUME NEW e \in Clients PROVE HandleKnown(e)'
  <2>1. CASE FileOf(Layout, e) # f
    <3>1. opened_files'[FileOf(Layout, e)] = opened_files[FileOf(Layout, e)]
      BY <1>10, <2>1, FileType
    <3>. QED  BY <1>1, <1>7, <3>1 DEF HandleKnown, clientVars
  <2>2. CASE FileOf(Layout, e) = f /\ ~(pc[e] \in Inside \cup {"drained"} \/ handleMsgs[e] # <<>>)
    BY <1>1, <2>2 DEF HandleKnown, clientVars
  <2>3. CASE FileOf(Layout, e) = f /\ (pc[e] \in Inside \cup {"drained"} \/ handleMsgs[e] # <<>>)
    <3>1. e # c
      BY <1>2, <2>3 DEF Inside
    <3>2. Open(e, stage, own)
      BY <2>3, KnownIsOpen DEF ClientInv
    <3>3. e \in Openers(f, next, own)'
      BY <1>3, <2>3, <3>1, <3>2 DEF Openers
    <3>4. opened_files'[f].references # 0
      <4>1. Cardinality(Openers(f, next, own)') # 0
        BY <1>6, <3>3, FS_EmptySet
      <4>. QED  BY <1>6, <1>9, <1>11, <4>1
    <3>5. opened_files'[f].fh = opened_files[f].fh
      BY <1>11, <3>4
    <3>. QED  BY <1>1, <1>7, <2>3, <3>5 DEF HandleKnown, clientVars
  <2>. QED  BY <2>1, <2>2, <2>3
<1>16. LatestHandles'
  BY <1>5 DEF LatestHandles
<1>. QED  BY <1>9, <1>12, <1>14, <1>15, <1>16 DEF FileInv
=============================================================================

------------------------- MODULE FileServiceProofs -------------------------
(* What a client can rely on, whatever the number of clients and files: it  *)
(* follows from the abstract service alone, and so holds of all that        *)
(* implements it.                                                           *)
EXTENDS FileService, FiniteSetTheorems, TLAPS

\* The clients of a file, and those that have it open.
ClientsOf(f) == {c \in Clients : File[c] = f}
OpenersOf(f) == {c \in opened : File[c] = f}

\* A file holds what its own clients wrote, and a read finds nothing else.
OwnBytes ==
    /\ content \in [Files -> [Blocks -> Clients \cup {Nothing}]]
    /\ \A f \in Files, b \in Blocks : content[f][b] \in ClientsOf(f) \cup {Nothing}
    /\ \A c \in Clients : result[c] \in ClientsOf(File[c]) \cup {Nothing, Fresh}

\* The users a file is said to have are the clients that have it open; what a
\* client has under way decides whether it may open or close.
OpensOnce ==
    \A c \in Clients :
        /\ done[c] => call[c].op # "none"
        /\ call[c].op = "open" => (done[c] <=> c \in opened)
        /\ call[c].op \in {"read", "write"} => c \in opened
        /\ call[c].op = "close" => (done[c] <=> c \notin opened)
UsersAreOpeners ==
    /\ opened \subseteq Clients
    /\ \A f \in Files : users[f] = Cardinality(OpenersOf(f))

ServiceTypes ==
    /\ call \in [Clients -> [op : {"none", "open", "close", "read", "write"},
                             block : Blocks \cup {0}]]
    /\ \A c \in Clients : call[c].op # "none" => call[c].block \in Blocks
    /\ done \in [Clients -> BOOLEAN]
    /\ DOMAIN result = Clients
    /\ users \in [Files -> Int]

ServiceInv == ServiceTypes /\ OwnBytes /\ OpensOnce /\ UsersAreOpeners

\* The file of a client is a file.
LEMMA FileOfClient == ASSUME NEW c \in Clients PROVE File[c] \in Files
  BY DEF Files

\* At first nothing is open, under way or written.
LEMMA InitEstablishesService == Init => ServiceInv
<1>. SUFFICES ASSUME Init PROVE ServiceInv
  OBVIOUS
<1>1. ServiceTypes
  BY DEF Init, ServiceTypes, NoCall
<1>2. OwnBytes
  BY FileOfClient DEF Init, OwnBytes
<1>3. OpensOnce
  BY DEF Init, OpensOnce, NoCall
<1>4. UsersAreOpeners
  BY FS_EmptySet DEF Init, UsersAreOpeners, OpenersOf
<1>. QED  BY <1>1, <1>2, <1>3, <1>4 DEF ServiceInv

\* A write puts bytes of a client into that client's file, and a read takes them
\* from the reader's.
LEMMA OwnBytesPreserved ==
    ASSUME ServiceInv, [Next]_vars PROVE OwnBytes'
<1>. USE DEF ServiceInv
<1>1. CASE UNCHANGED vars
  BY <1>1 DEF vars, OwnBytes
<1>2. ASSUME NEW c \in Clients, Call(c) \/ Open(c) \/ Close(c) PROVE OwnBytes'
  BY <1>2 DEF Call, Open, Close, OwnBytes
<1>3. ASSUME NEW c \in Clients, Write(c) PROVE OwnBytes'
  <2>1. CASE UNCHANGED content
    BY <1>3, <2>1 DEF Write, OwnBytes
  <2>2. CASE content' = [content EXCEPT ![File[c]][call[c].block] = c]
    <3>1. c \in ClientsOf(File[c]) /\ File[c] \in Files
      BY FileOfClient DEF ClientsOf
    <3>2. content' \in [Files -> [Blocks -> Clients \cup {Nothing}]]
      BY <2>2, <3>1 DEF OwnBytes
    <3>3. \A f \in Files, b \in Blocks :
             content'[f][b] = content[f][b] \/ (f = File[c] /\ content'[f][b] = c)
      BY <2>2, <3>1 DEF OwnBytes
    <3>4. UNCHANGED result
      BY <1>3 DEF Write
    <3>. QED  BY <3>1, <3>2, <3>3, <3>4 DEF OwnBytes
  <2>. QED  BY <1>3, <2>1, <2>2 DEF Write
<1>4. ASSUME NEW c \in Clients, Read(c) PROVE OwnBytes'
  <2>0. call[c].block \in Blocks
    BY <1>4 DEF Read, TakesEffect, ServiceTypes
  <2>1. content[File[c]][call[c].block] \in ClientsOf(File[c]) \cup {Nothing}
    BY <2>0, FileOfClient DEF OwnBytes
  <2>. QED  BY <1>4, <2>1 DEF Read, OwnBytes, ServiceTypes
<1>5. ASSUME NEW c \in Clients, Return(c) PROVE OwnBytes'
  BY <1>5 DEF Return, OwnBytes, ServiceTypes
<1>. QED  BY <1>1, <1>2, <1>3, <1>4, <1>5 DEF Next

\* Calls and results stay what they are declared to be.
LEMMA TypesPreserved ==
    ASSUME ServiceInv, [Next]_vars PROVE ServiceTypes'
<1>. USE DEF ServiceInv, ServiceTypes
<1>1. CASE UNCHANGED vars
  BY <1>1 DEF vars
<1>2. ASSUME NEW c \in Clients, Call(c) PROVE ServiceTypes'
  <2>1. PICK op \in {"open", "close", "read", "write"}, b \in Blocks :
           call' = [call EXCEPT ![c] = [op |-> op, block |-> b]]
    BY <1>2 DEF Call
  <2>. QED  BY <1>2, <2>1 DEF Call
<1>3. ASSUME NEW c \in Clients, Open(c) \/ Close(c) PROVE ServiceTypes'
  <2>1. File[c] \in Files
    BY FileOfClient
  <2>2. users' \in [Files -> Int]
    BY <1>3, <2>1 DEF Open, Close
  <2>3. done' \in [Clients -> BOOLEAN]
    BY <1>3 DEF Open, Close, TakesEffect
  <2>. QED  BY <1>3, <2>2, <2>3 DEF Open, Close, TakesEffect
<1>4. ASSUME NEW c \in Clients, Write(c) \/ Read(c) PROVE ServiceTypes'
  BY <1>4 DEF Write, Read, TakesEffect
<1>5. ASSUME NEW c \in Clients, Return(c) PROVE ServiceTypes'
  BY <1>5 DEF Return, NoCall
<1>. QED  BY <1>1, <1>2, <1>3, <1>4, <1>5 DEF Next

\* A client opens only what it has not open, and closes only what it has.
LEMMA OpensOncePreserved ==
    ASSUME ServiceInv, [Next]_vars PROVE OpensOnce'
<1>. USE DEF ServiceInv, ServiceTypes
<1>1. CASE UNCHANGED vars
  BY <1>1 DEF vars, OpensOnce
<1>2. ASSUME NEW c \in Clients, Call(c) PROVE OpensOnce'
  <2>1. PICK op \in IF c \in opened THEN {"read", "write", "close"} ELSE {"open"},
             b \in Blocks :
           call' = [call EXCEPT ![c] = [op |-> op, block |-> b]]
    BY <1>2 DEF Call
  <2>2. ~done[c]
    BY <1>2 DEF Call, OpensOnce, NoCall
  <2>. QED  BY <1>2, <2>1, <2>2 DEF Call, OpensOnce
<1>3. ASSUME NEW c \in Clients, Open(c) \/ Close(c) PROVE OpensOnce'
  BY <1>3 DEF Open, Close, TakesEffect, OpensOnce
<1>4. ASSUME NEW c \in Clients, Write(c) \/ Read(c) PROVE OpensOnce'
  BY <1>4 DEF Write, Read, TakesEffect, OpensOnce
<1>5. ASSUME NEW c \in Clients, Return(c) PROVE OpensOnce'
  BY <1>5 DEF Return, NoCall, OpensOnce
<1>. QED  BY <1>1, <1>2, <1>3, <1>4, <1>5 DEF Next

\* An open adds one to both the set of the users and their number, a close
\* takes one from both.
LEMMA UsersPreserved ==
    ASSUME IsFiniteSet(Clients), ServiceInv, [Next]_vars PROVE UsersAreOpeners'
<1>. USE DEF ServiceInv, ServiceTypes
<1>1. CASE UNCHANGED <<opened, users>>
  BY <1>1 DEF UsersAreOpeners, OpenersOf
<1>2. \A f \in Files : IsFiniteSet(OpenersOf(f))
  BY FS_Subset DEF OpenersOf, UsersAreOpeners
<1>3. ASSUME NEW c \in Clients, Open(c) PROVE UsersAreOpeners'
  <2>1. c \notin opened /\ opened' = opened \cup {c}
    BY <1>3 DEF Open, TakesEffect, OpensOnce
  <2>2. ASSUME NEW f \in Files PROVE users'[f] = Cardinality(OpenersOf(f)')
    <3>1. CASE f = File[c]
      <4>1. OpenersOf(f)' = OpenersOf(f) \cup {c} /\ c \notin OpenersOf(f)
        BY <2>1, <3>1 DEF OpenersOf
      <4>2. Cardinality(OpenersOf(f) \cup {c}) = Cardinality(OpenersOf(f)) + 1
        BY <1>2, <4>1, FS_AddElement
      <4>. QED  BY <1>3, <3>1, <4>1, <4>2 DEF Open, UsersAreOpeners
    <3>2. CASE f # File[c]
      <4>1. OpenersOf(f)' = OpenersOf(f)
        BY <2>1, <3>2 DEF OpenersOf
      <4>. QED  BY <1>3, <3>2, <4>1 DEF Open, UsersAreOpeners
    <3>. QED  BY <3>1, <3>2
  <2>. QED  BY <2>1, <2>2 DEF UsersAreOpeners
<1>4. ASSUME NEW c \in Clients, Close(c) PROVE UsersAreOpeners'
  <2>1. c \in opened /\ opened' = opened \ {c}
    BY <1>4 DEF Close, TakesEffect, OpensOnce
  <2>2. ASSUME NEW f \in Files PROVE users'[f] = Cardinality(OpenersOf(f)')
    <3>1. CASE f = File[c]
      <4>1. OpenersOf(f)' = OpenersOf(f) \ {c} /\ c \in OpenersOf(f)
        BY <2>1, <3>1 DEF OpenersOf
      <4>2. Cardinality(OpenersOf(f) \ {c}) = Cardinality(OpenersOf(f)) - 1
        BY <1>2, <4>1, FS_RemoveElement
      <4>. QED  BY <1>4, <3>1, <4>1, <4>2 DEF Close, UsersAreOpeners
    <3>2. CASE f # File[c]
      <4>1. OpenersOf(f)' = OpenersOf(f)
        BY <2>1, <3>2 DEF OpenersOf
      <4>. QED  BY <1>4, <3>2, <4>1 DEF Close, UsersAreOpeners
    <3>. QED  BY <3>1, <3>2
  <2>. QED  BY <2>1, <2>2 DEF UsersAreOpeners
<1>. QED  BY <1>1, <1>3, <1>4 DEF Next, vars, Call, Write, Read, Return

\* All of it together is inductive.
LEMMA ServicePreserved ==
    IsFiniteSet(Clients) /\ ServiceInv /\ [Next]_vars => ServiceInv'
  BY OwnBytesPreserved, TypesPreserved, OpensOncePreserved, UsersPreserved
  DEF ServiceInv

\* A client that reads is sent bytes of a client of its own file, or finds the
\* block unwritten; no other file is in reach.
THEOREM ReadsFindOwnBytes ==
    ASSUME IsFiniteSet(Clients) PROVE Spec => []OwnBytes
<1>1. ServiceInv => OwnBytes
  BY DEF ServiceInv
<1>. QED  BY <1>1, InitEstablishesService, ServicePreserved, PTL DEF Spec

\* The reference count of a file is the number of clients that have it open: it
\* is closed when the last of them closes it, not before and not after.
THEOREM UsersAreCounted ==
    ASSUME IsFiniteSet(Clients) PROVE Spec => []UsersAreOpeners
<1>1. ServiceInv => UsersAreOpeners
  BY DEF ServiceInv
<1>. QED  BY <1>1, InitEstablishesService, ServicePreserved, PTL DEF Spec
=============================================================================

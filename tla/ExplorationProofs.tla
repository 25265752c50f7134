-------------------------- MODULE ExplorationProofs --------------------------
(***************************************************************************)
(* The safety properties of a whole run, for every number of ranks, of     *)
(* forwarders and of requests.                                             *)
(*                                                                         *)
(* Two tables say what kind of step is at which place of the two programs. *)
(* The invariant is then about places: a rank that is past a barrier finds *)
(* every other member of the communicator at it or past it (PlacesInv),    *)
(* and what is under way between a client and its forwarder follows from   *)
(* the places of the two (RunInv).                                         *)
(***************************************************************************)
EXTENDS Exploration, AccessPatternProofs

\* What a step does, and on which communicator.
Is(s, what, comm) == s.do = what /\ s.on = comm

\* The program of a forwarder, step by step ...
LEMMA ServerEntries ==
    /\ DOMAIN ServerProgram = 1..14
    /\ Is(ServerProgram[1], "load", "none")
    /\ Is(ServerProgram[2], "verify", "none")
    /\ Is(ServerProgram[3], "create", "world")
    /\ Is(ServerProgram[4], "create", "world")
    /\ Is(ServerProgram[5], "barrier", "world")
    /\ Is(ServerProgram[6], "to_root", "world")
    /\ Is(ServerProgram[7], "barrier", "world")
    /\ Is(ServerProgram[8], "start", "none")
    /\ Is(ServerProgram[9], "barrier", "world")
    /\ Is(ServerProgram[10], "join", "none")
    /\ Is(ServerProgram[11], "barrier", "forwarding")
    /\ Is(ServerProgram[12], "teardown", "none")
    /\ Is(ServerProgram[13], "barrier", "world")
    /\ Is(ServerProgram[14], "finalize", "none")
  BY DEF ServerProgram, Agreement, Is, Alone, Barrier, Create, ToRoot

\* ... and that of a client.
LEMMA ClientEntries ==
    /\ DOMAIN ClientProgram = 1..35
    /\ Is(ClientProgram[1], "load", "none")
    /\ Is(ClientProgram[2], "verify", "none")
    /\ Is(ClientProgram[3], "create", "world")
    /\ Is(ClientProgram[4], "create", "world")
    /\ Is(ClientProgram[5], "barrier", "world")
    /\ Is(ClientProgram[6], "to_root", "world")
    /\ Is(ClientProgram[7], "barrier", "world")
    /\ Is(ClientProgram[8], "barrier", "world")
    /\ Is(ClientProgram[9], "if_write", "none")
    /\ Is(ClientProgram[10], "open", "none")
    /\ Is(ClientProgram[11], "barrier", "clients")
    /\ Is(ClientProgram[12], "write", "none")
    /\ Is(ClientProgram[13], "to_root", "clients")
    /\ Is(ClientProgram[14], "barrier", "clients")
    /\ Is(ClientProgram[15], "to_root", "clients")
    /\ Is(ClientProgram[16], "to_root", "clients")
    /\ Is(ClientProgram[17], "barrier", "clients")
    /\ Is(ClientProgram[18], "close", "none")
    /\ Is(ClientProgram[19], "barrier", "clients")
    /\ Is(ClientProgram[20], "if_read", "none")
    /\ Is(ClientProgram[21], "open", "none")
    /\ Is(ClientProgram[22], "barrier", "clients")
    /\ Is(ClientProgram[23], "read", "none")
    /\ Is(ClientProgram[24], "to_root", "clients")
    /\ Is(ClientProgram[25], "barrier", "clients")
    /\ Is(ClientProgram[26], "close", "none")
    /\ Is(ClientProgram[27], "barrier", "clients")
    /\ Is(ClientProgram[28], "to_root", "clients")
    /\ Is(ClientProgram[29], "to_root", "clients")
    /\ Is(ClientProgram[30], "barrier", "clients")
    /\ Is(ClientProgram[31], "barrier", "clients")
    /\ Is(ClientProgram[32], "shutdown", "none")
    /\ Is(ClientProgram[33], "barrier", "clients")
    /\ Is(ClientProgram[34], "barrier", "world")
    /\ Is(ClientProgram[35], "finalize", "none")
<1>1. /\ DOMAIN ClientProgram = 1..35
      /\ Is(ClientProgram[1], "load", "none")
      /\ Is(ClientProgram[2], "verify", "none")
      /\ Is(ClientProgram[3], "create", "world")
      /\ Is(ClientProgram[4], "create", "world")
      /\ Is(ClientProgram[5], "barrier", "world")
      /\ Is(ClientProgram[6], "to_root", "world")
      /\ Is(ClientProgram[7], "barrier", "world")
      /\ Is(ClientProgram[8], "barrier", "world")
  BY DEF ClientProgram, WritePhase, ReadPhase, Agreement, Is, Alone, Barrier,
         Create, ToRoot
<1>2. /\ Is(ClientProgram[9], "if_write", "none")
      /\ Is(ClientProgram[10], "open", "none")
      /\ Is(ClientProgram[11], "barrier", "clients")
      /\ Is(ClientProgram[12], "write", "none")
      /\ Is(ClientProgram[13], "to_root", "clients")
      /\ Is(ClientProgram[14], "barrier", "clients")
      /\ Is(ClientProgram[15], "to_root", "clients")
      /\ Is(ClientProgram[16], "to_root", "clients")
      /\ Is(ClientProgram[17], "barrier", "clients")
      /\ Is(ClientProgram[18], "close", "none")
      /\ Is(ClientProgram[19], "barrier", "clients")
  BY DEF ClientProgram, WritePhase, ReadPhase, Agreement, Is, Alone, Barrier,
         Create, ToRoot
<1>3. /\ Is(ClientProgram[20], "if_read", "none")
      /\ Is(ClientProgram[21], "open", "none")
      /\ Is(ClientProgram[22], "barrier", "clients")
      /\ Is(ClientProgram[23], "read", "none")
      /\ Is(ClientProgram[24], "to_root", "clients")
      /\ Is(ClientProgram[25], "barrier", "clients")
      /\ Is(ClientProgram[26], "close", "none")
      /\ Is(ClientProgram[27], "barrier", "clients")
      /\ Is(ClientProgram[28], "to_root", "clients")
      /\ Is(ClientProgram[29], "to_root", "clients")
  BY DEF ClientProgram, WritePhase, ReadPhase, Agreement, Is, Alone, Barrier,
         Create, ToRoot
<1>4. /\ Is(ClientProgram[30], "barrier", "clients")
      /\ Is(ClientProgram[31], "barrier", "clients")
      /\ Is(ClientProgram[32], "shutdown", "none")
      /\ Is(ClientProgram[33], "barrier", "clients")
      /\ Is(ClientProgram[34], "barrier", "world")
      /\ Is(ClientProgram[35], "finalize", "none")
  BY DEF ClientProgram, WritePhase, ReadPhase, Agreement, Is, Alone, Barrier,
         Create, ToRoot
<1>. QED  BY <1>1, <1>2, <1>3, <1>4

\* The step at the n-th place of a program.
Place(p, n) == IF n \in DOMAIN p THEN p[n] ELSE Alone("none")

\* What the step at the n-th place of a forwarder is.
IsServerPlace(s, n) ==
    /\ s.do = "load" <=> n = 1
    /\ s.do = "verify" <=> n = 2
    /\ s.do = "start" <=> n = 8
    /\ s.do = "join" <=> n = 10
    /\ s.do = "teardown" <=> n = 12
    /\ s.do = "finalize" <=> n = 14
    /\ s.do \notin {"if_write", "if_read", "open", "close", "write", "read", "shutdown"}
    /\ s.do \in {"barrier", "create"} <=> n \in {3, 4, 5, 7, 9, 11, 13}
    /\ s.on = "world" <=> n \in {3, 4, 5, 6, 7, 9, 13}
    /\ s.on = "forwarding" <=> n = 11
    /\ s.on # "clients"
    /\ s.on # "none" <=> n \in {3, 4, 5, 6, 7, 9, 11, 13}

\* The table read from the step to its place.
LEMMA ServerPlaces ==
    ASSUME NEW n \in Nat
    PROVE  IsServerPlace(Place(ServerProgram, n), n)
<1>1. DOMAIN ServerProgram = 1..14
  BY ServerEntries
<1>2. CASE n \notin 1..14
  BY <1>1, <1>2 DEF Place, Alone, IsServerPlace
<1>3. CASE n \in 1..14
  <2>. DEFINE s == ServerProgram[n]
  <2>1. Place(ServerProgram, n) = s
    BY <1>1, <1>3 DEF Place
  <2>2. \/ n = 1 \/ n = 2 \/ n = 3 \/ n = 4 \/ n = 5 \/ n = 6 \/ n = 7
        \/ n = 8 \/ n = 9 \/ n = 10 \/ n = 11 \/ n = 12 \/ n = 13 \/ n = 14
    BY <1>3
  <2>3. s.do = "load" <=> n = 1
    BY <2>2, ServerEntries DEF Is
  <2>4. s.do = "verify" <=> n = 2
    BY <2>2, ServerEntries DEF Is
  <2>5. s.do = "start" <=> n = 8
    BY <2>2, ServerEntries DEF Is
  <2>6. s.do = "join" <=> n = 10
    BY <2>2, ServerEntries DEF Is
  <2>7. s.do = "teardown" <=> n = 12
    BY <2>2, ServerEntries DEF Is
  <2>8. s.do = "finalize" <=> n = 14
    BY <2>2, ServerEntries DEF Is
  <2>9. s.do \notin {"if_write", "if_read", "open", "close", "write", "read", "shutdown"}
    BY <2>2, ServerEntries DEF Is
  <2>10. s.do \in {"barrier", "create"} <=> n \in {3, 4, 5, 7, 9, 11, 13}
    BY <2>2, ServerEntries DEF Is
  <2>11. s.on = "world" <=> n \in {3, 4, 5, 6, 7, 9, 13}
    BY <2>2, ServerEntries DEF Is
  <2>12. s.on = "forwarding" <=> n = 11
    BY <2>2, ServerEntries DEF Is
  <2>13. s.on # "clients"
    BY <2>2, ServerEntries DEF Is
  <2>14. s.on # "none" <=> n \in {3, 4, 5, 6, 7, 9, 11, 13}
    BY <2>2, ServerEntries DEF Is
  <2>. HIDE DEF s
  <2>. QED  BY <2>1, <2>3, <2>4, <2>5, <2>6, <2>7, <2>8, <2>9, <2>10, <2>11,
               <2>12, <2>13, <2>14 DEF IsServerPlace
<1>. QED  BY <1>2, <1>3

\* Where the clients meet, and where they also send to their root.
ClientBarriers == {11, 14, 17, 19, 22, 25, 27, 30, 31, 33}
ClientCollectives == ClientBarriers \cup {13, 15, 16, 24, 28, 29}

\* What the step at the n-th place of a client is.
IsClientPlace(s, n) ==
    /\ s.do = "load" <=> n = 1
    /\ s.do = "verify" <=> n = 2
    /\ s.do = "if_write" <=> n = 9
    /\ s.do = "if_read" <=> n = 20
    /\ s.do = "open" <=> n \in {10, 21}
    /\ s.do = "close" <=> n \in {18, 26}
    /\ s.do = "write" <=> n = 12
    /\ s.do = "read" <=> n = 23
    /\ s.do = "shutdown" <=> n = 32
    /\ s.do = "finalize" <=> n = 35
    /\ s.do \notin {"start", "join", "teardown"}
    /\ s.do \in {"barrier", "create"} <=> n \in {3, 4, 5, 7, 8, 34} \cup ClientBarriers
    /\ s.on = "world" <=> n \in {3, 4, 5, 6, 7, 8, 34}
    /\ s.on # "forwarding"
    /\ s.on = "clients" <=> n \in ClientCollectives
    /\ s.on # "none" <=> n \in {3, 4, 5, 6, 7, 8, 34} \cup ClientCollectives

\* The table read from the step to its place.
LEMMA ClientPlaces ==
    ASSUME NEW n \in Nat
    PROVE  IsClientPlace(Place(ClientProgram, n), n)
<1>1. DOMAIN ClientProgram = 1..35
  BY ClientEntries
<1>2. CASE n \notin 1..35
  BY <1>1, <1>2 DEF Place, Alone, IsClientPlace, ClientBarriers,
     ClientCollectives
<1>3. CASE n \in 1..35
  <2>. DEFINE s == ClientProgram[n]
  <2>1. Place(ClientProgram, n) = s
    BY <1>1, <1>3 DEF Place
  <2>2. \/ n = 1 \/ n = 2 \/ n = 3 \/ n = 4 \/ n = 5 \/ n = 6 \/ n = 7
        \/ n = 8 \/ n = 9 \/ n = 10 \/ n = 11 \/ n = 12 \/ n = 13 \/ n = 14
        \/ n = 15 \/ n = 16 \/ n = 17 \/ n = 18 \/ n = 19 \/ n = 20 \/ n = 21
        \/ n = 22 \/ n = 23 \/ n = 24 \/ n = 25 \/ n = 26 \/ n = 27 \/ n = 28
        \/ n = 29 \/ n = 30 \/ n = 31 \/ n = 32 \/ n = 33 \/ n = 34 \/ n = 35
    BY <1>3
  <2>3. s.do = "load" <=> n = 1
    BY <2>2, ClientEntries DEF Is
  <2>4. s.do = "verify" <=> n = 2
    BY <2>2, ClientEntries DEF Is
  <2>5. s.do = "if_write" <=> n = 9
    BY <2>2, ClientEntries DEF Is
  <2>6. s.do = "if_read" <=> n = 20
    BY <2>2, ClientEntries DEF Is
  <2>7. s.do = "open" <=> n \in {10, 21}
    BY <2>2, ClientEntries DEF Is
  <2>8. s.do = "close" <=> n \in {18, 26}
    BY <2>2, ClientEntries DEF Is
  <2>9. s.do = "write" <=> n = 12
    BY <2>2, ClientEntries DEF Is
  <2>10. s.do = "read" <=> n = 23
    BY <2>2, ClientEntries DEF Is
  <2>11. s.do = "shutdown" <=> n = 32
    BY <2>2, ClientEntries DEF Is
  <2>12. s.do = "finalize" <=> n = 35
    BY <2>2, ClientEntries DEF Is
  <2>13. s.do \notin {"start", "join", "teardown"}
    BY <2>2, ClientEntries DEF Is
  <2>14. s.do \in {"barrier", "create"} <=> n \in {3, 4, 5, 7, 8, 34} \cup ClientBarriers
    BY <2>2, ClientEntries DEF Is, ClientBarriers, ClientCollectives
  <2>15. s.on = "world" <=> n \in {3, 4, 5, 6, 7, 8, 34}
    BY <2>2, ClientEntries DEF Is
  <2>16. s.on # "forwarding"
    BY <2>2, ClientEntries DEF Is
  <2>17. s.on = "clients" <=> n \in ClientCollectives
    BY <2>2, ClientEntries DEF Is, ClientBarriers, ClientCollectives
  <2>18. s.on # "none" <=> n \in {3, 4, 5, 6, 7, 8, 34} \cup ClientCollectives
    BY <2>2, ClientEntries DEF Is, ClientBarriers, ClientCollectives
  <2>. HIDE DEF s
  <2>. QED  BY <2>1, <2>3, <2>4, <2>5, <2>6, <2>7, <2>8, <2>9, <2>10, <2>11,
               <2>12, <2>13, <2>14, <2>15, <2>16, <2>17, <2>18 DEF IsClientPlace
<1>. QED  BY <1>2, <1>3

\* What the setup says, and the step that a rank is at.
LEMMA Sizes ==
    ASSUME given \in Setups
    PROVE  /\ world_size \in Nat \ {0} /\ simulation_forwarders \in Nat \ {0}
           /\ Ranks \subseteq Nat /\ Servers \subseteq Ranks /\ Clients \subseteq Ranks
           /\ \A r \in Ranks : r \in Clients <=> r \notin Servers
  BY SetupsAssumption DEF world_size, simulation_forwarders, Ranks, Servers,
     Clients

\* Which program a rank follows.
LEMMA Programs ==
    ASSUME given \in Setups
    PROVE  /\ \A s \in Servers : Program(s) = ServerProgram
           /\ \A c \in Clients : Program(c) = ClientProgram
<1>1. simulation_forwarders \in Nat /\ world_size \in Nat
  BY Sizes
<1>2. /\ \A s \in Servers : s < simulation_forwarders
      /\ \A c \in Clients : ~(c < simulation_forwarders)
  BY <1>1 DEF Servers, Clients
<1>. QED  BY <1>2 DEF Program

\* The step that a forwarder is at ...
LEMMA ServerStep ==
    ASSUME given \in Setups, NEW s \in Servers, at[s] \in Nat
    PROVE  /\ IsServerPlace(Step(s), at[s])
           /\ \A what : Does(s, what) <=> Step(s).do = what
  BY Programs, ServerPlaces DEF Step, Place, Does

\* ... and that of a client.
LEMMA ClientStep ==
    ASSUME given \in Setups, NEW c \in Clients, at[c] \in Nat
    PROVE  /\ IsClientPlace(Step(c), at[c])
           /\ \A what : Does(c, what) <=> Step(c).do = what
  BY Programs, ClientPlaces DEF Step, Place, Does

\* What a forwarder is past ...
LEMMA ServerPast ==
    ASSUME given \in Setups, NEW s \in Servers, at[s] \in Nat
    PROVE  /\ Past(s, "start") <=> at[s] > 8
           /\ Past(s, "join") <=> at[s] > 10
           /\ Past(s, "teardown") <=> at[s] > 12
<1>1. \A k \in 1..14 : IsServerPlace(ServerProgram[k], k)
  <2>. SUFFICES ASSUME NEW k \in 1..14 PROVE IsServerPlace(ServerProgram[k], k)
    OBVIOUS
  <2>1. IsServerPlace(Place(ServerProgram, k), k)
    BY ServerPlaces
  <2>. QED  BY <2>1, ServerEntries DEF Place
<1>2. DOMAIN Program(s) = 1..14 /\ Program(s) = ServerProgram
  BY ServerEntries, Programs
<1>3. \A k \in 1..14 : /\ ServerProgram[k].do = "start" <=> k = 8
                       /\ ServerProgram[k].do = "join" <=> k = 10
                       /\ ServerProgram[k].do = "teardown" <=> k = 12
  BY <1>1 DEF IsServerPlace
<1>. QED  BY <1>2, <1>3 DEF Past

\* ... and what a client.
LEMMA ClientPast ==
    ASSUME given \in Setups, NEW c \in Clients, at[c] \in Nat
    PROVE  /\ ~Past(c, "start")
           /\ Past(c, "close") <=> at[c] > 18
           /\ Past(c, "shutdown") <=> at[c] > 32
<1>1. \A k \in 1..35 : IsClientPlace(ClientProgram[k], k)
  <2>. SUFFICES ASSUME NEW k \in 1..35 PROVE IsClientPlace(ClientProgram[k], k)
    OBVIOUS
  <2>1. IsClientPlace(Place(ClientProgram, k), k)
    BY ClientPlaces
  <2>. QED  BY <2>1, ClientEntries DEF Place
<1>2. DOMAIN Program(c) = 1..35 /\ Program(c) = ClientProgram
  BY ClientEntries, Programs
<1>3. \A k \in 1..35 : /\ ClientProgram[k].do # "start"
                       /\ ClientProgram[k].do = "close" <=> k \in {18, 26}
                       /\ ClientProgram[k].do = "shutdown" <=> k = 32
  BY <1>1 DEF IsClientPlace
<1>. QED  BY <1>2, <1>3 DEF Past

\* A forwarder serves from after the start of its threads to their join.
LEMMA ServingPlaces ==
    ASSUME given \in Setups, NEW r \in Ranks, at[r] \in Nat
    PROVE  Serving(r) <=> r \in Servers /\ at[r] \in {9, 10}
<1>1. CASE r \in Servers
  BY <1>1, ServerPast DEF Serving
<1>2. CASE r \notin Servers
  BY <1>2, ClientPast, Sizes DEF Serving
<1>. QED  BY <1>1, <1>2

\* A rank that has entered as many steps of a set as belong to its first ones
\* up to b has reached b.
LEMMA Reaches ==
    ASSUME NEW S \in SUBSET Nat, IsFiniteSet(S), NEW b \in S, NEW n \in Nat,
           Cardinality({k \in S : k <= n}) >= Cardinality({k \in S : k <= b})
    PROVE  n >= b
<1>. SUFFICES ASSUME n < b PROVE FALSE
  OBVIOUS
<1>. DEFINE T == {k \in S : k <= n}
            U == {k \in S : k <= b}
<1>1. T \subseteq U /\ b \in U /\ b \notin T /\ U \subseteq S
  <2>1. b \in Nat /\ \A k \in S : k \in Nat
    OBVIOUS
  <2>2. b \in U /\ b \notin T
    BY <2>1
  <2>3. ASSUME NEW k \in T PROVE k \in U
    <3>1. k \in S /\ k <= n
      BY <2>3
    <3>2. k \in Nat /\ k <= b
      BY <2>1, <3>1
    <3>. QED  BY <3>1, <3>2
  <2>. QED  BY <2>2, <2>3
<1>. HIDE DEF T, U
<1>2. IsFiniteSet(U)
  BY <1>1, FS_Subset
<1>3. /\ Cardinality(T) <= Cardinality(U)
      /\ Cardinality(U) = Cardinality(T) => U = T
  BY <1>1, <1>2, FS_Subset
<1>4. Cardinality(T) \in Nat /\ Cardinality(U) \in Nat
  BY <1>1, <1>2, FS_Subset, FS_CardinalityType
<1>. QED  BY <1>1, <1>3, <1>4 DEF T, U

\* What a rank has entered, in terms of its place.
ServerWorld == {3, 4, 5, 6, 7, 9, 13}
ClientWorld == {3, 4, 5, 6, 7, 8, 34}

\* How many steps on a communicator a rank has entered.
LEMMA WhatEntered ==
    ASSUME given \in Setups, NEW r \in Ranks, at[r] \in Nat
    PROVE  /\ r \in Servers =>
              /\ Entered(r, "world") = Cardinality({k \in ServerWorld : k <= at[r]})
              /\ Entered(r, "forwarding") = Cardinality({k \in {11} : k <= at[r]})
           /\ r \in Clients =>
              /\ Entered(r, "world") = Cardinality({k \in ClientWorld : k <= at[r]})
              /\ Entered(r, "clients") = Cardinality({k \in ClientCollectives : k <= at[r]})
<1>1. ASSUME r \in Servers
      PROVE  /\ Entered(r, "world") = Cardinality({k \in ServerWorld : k <= at[r]})
             /\ Entered(r, "forwarding") = Cardinality({k \in {11} : k <= at[r]})
  <2>1. DOMAIN Program(r) = 1..14 /\ Program(r) = ServerProgram
    BY <1>1, ServerEntries, Programs
  <2>2. \A k \in 1..14 : IsServerPlace(ServerProgram[k], k)
    <3>. SUFFICES ASSUME NEW k \in 1..14 PROVE IsServerPlace(ServerProgram[k], k)
      OBVIOUS
    <3>1. IsServerPlace(Place(ServerProgram, k), k)
      BY ServerPlaces
    <3>. QED  BY <3>1, ServerEntries DEF Place
  <2>3. \A k \in 1..14 : /\ ServerProgram[k].on = "world" <=> k \in ServerWorld
                         /\ ServerProgram[k].on = "forwarding" <=> k \in {11}
    BY <2>2 DEF IsServerPlace, ServerWorld
  <2>4. {k \in DOMAIN Program(r) : k <= at[r] /\ Program(r)[k].on = "world"}
           = {k \in ServerWorld : k <= at[r]}
    BY <2>1, <2>3 DEF ServerWorld
  <2>5. {k \in DOMAIN Program(r) : k <= at[r] /\ Program(r)[k].on = "forwarding"}
           = {k \in {11} : k <= at[r]}
    BY <2>1, <2>3
  <2>. QED  BY <2>4, <2>5 DEF Entered
<1>2. ASSUME r \in Clients
      PROVE  /\ Entered(r, "world") = Cardinality({k \in ClientWorld : k <= at[r]})
             /\ Entered(r, "clients") = Cardinality({k \in ClientCollectives : k <= at[r]})
  <2>1. DOMAIN Program(r) = 1..35 /\ Program(r) = ClientProgram
    BY <1>2, ClientEntries, Programs
  <2>2. \A k \in 1..35 : IsClientPlace(ClientProgram[k], k)
    <3>. SUFFICES ASSUME NEW k \in 1..35 PROVE IsClientPlace(ClientProgram[k], k)
      OBVIOUS
    <3>1. IsClientPlace(Place(ClientProgram, k), k)
      BY ClientPlaces
    <3>. QED  BY <3>1, ClientEntries DEF Place
  <2>3. \A k \in 1..35 : /\ ClientProgram[k].on = "world" <=> k \in ClientWorld
                         /\ ClientProgram[k].on = "clients" <=> k \in ClientCollectives
    BY <2>2 DEF IsClientPlace, ClientWorld
  <2>4. {k \in DOMAIN Program(r) : k <= at[r] /\ Program(r)[k].on = "world"}
           = {k \in ClientWorld : k <= at[r]}
    BY <2>1, <2>3 DEF ClientWorld
  <2>5. {k \in DOMAIN Program(r) : k <= at[r] /\ Program(r)[k].on = "clients"}
           = {k \in ClientCollectives : k <= at[r]}
    BY <2>1, <2>3 DEF ClientCollectives, ClientBarriers
  <2>. QED  BY <2>4, <2>5 DEF Entered
<1>. QED  BY <1>1, <1>2

\* The barrier that a forwarder enters when its threads are up.
Up(r) == IF r \in Servers THEN 9 ELSE 8
Places == at \in [Ranks -> Nat]

\* How many places there are from one to another.
LEMMA Intervals ==
    /\ IsFiniteSet(3..7) /\ IsFiniteSet(3..34)
    /\ Cardinality(3..3) = 1 /\ Cardinality(3..7) = 5 /\ Cardinality(3..8) = 6
<1>1. 3 \in Int /\ 7 \in Int /\ 8 \in Int /\ 34 \in Int
  OBVIOUS
<1>2. IsFiniteSet(3..7) /\ IsFiniteSet(3..34)
  BY <1>1, FS_Interval, Zenon
<1>3. /\ Cardinality(3..3) = IF 3 > 3 THEN 0 ELSE 3 - 3 + 1
      /\ Cardinality(3..7) = IF 3 > 7 THEN 0 ELSE 7 - 3 + 1
      /\ Cardinality(3..8) = IF 3 > 8 THEN 0 ELSE 8 - 3 + 1
  BY <1>1, FS_Interval, Zenon
<1>. QED  BY <1>2, <1>3

\* How many steps on the world are entered before and at the third place,
\* and before and at the barrier after the start.
LEMMA WorldCounts ==
    /\ \A n \in Nat : n < 3 => /\ Cardinality({k \in ServerWorld : k <= n}) = 0
                               /\ Cardinality({k \in ClientWorld : k <= n}) = 0
    /\ Cardinality({k \in ServerWorld : k <= 3}) = 1
    /\ Cardinality({k \in ClientWorld : k <= 3}) = 1
    /\ \A n \in Nat : n < 9 => Cardinality({k \in ServerWorld : k <= n}) <= 5
    /\ \A n \in Nat : n < 8 => Cardinality({k \in ClientWorld : k <= n}) <= 5
    /\ Cardinality({k \in ServerWorld : k <= 9}) = 6
    /\ Cardinality({k \in ClientWorld : k <= 8}) = 6
<1>1. ASSUME NEW n \in Nat, n < 3
      PROVE  /\ Cardinality({k \in ServerWorld : k <= n}) = 0
             /\ Cardinality({k \in ClientWorld : k <= n}) = 0
  <2>1. {k \in ServerWorld : k <= n} = {} /\ {k \in ClientWorld : k <= n} = {}
    BY <1>1 DEF ServerWorld, ClientWorld
  <2>. QED  BY <2>1, FS_EmptySet
<1>2. /\ Cardinality({k \in ServerWorld : k <= 3}) = 1
      /\ Cardinality({k \in ClientWorld : k <= 3}) = 1
  <2>1. {k \in ServerWorld : k <= 3} = 3..3 /\ {k \in ClientWorld : k <= 3} = 3..3
    BY DEF ServerWorld, ClientWorld
  <2>2. Cardinality(3..3) = 1
    BY Intervals
  <2>. QED  BY <2>1, <2>2
<1>3. IsFiniteSet(3..7) /\ Cardinality(3..7) = 5 /\ Cardinality(3..8) = 6
  BY Intervals
<1>4. ASSUME NEW n \in Nat, n < 9
      PROVE  Cardinality({k \in ServerWorld : k <= n}) <= 5
  <2>1. {k \in ServerWorld : k <= n} \subseteq 3..7
    BY <1>4 DEF ServerWorld
  <2>. QED  BY <2>1, <1>3, FS_Subset
<1>5. ASSUME NEW n \in Nat, n < 8
      PROVE  Cardinality({k \in ClientWorld : k <= n}) <= 5
  <2>1. {k \in ClientWorld : k <= n} \subseteq 3..7
    BY <1>5 DEF ClientWorld
  <2>. QED  BY <2>1, <1>3, FS_Subset
<1>6. Cardinality({k \in ServerWorld : k <= 9}) = 6
  <2>1. {k \in ServerWorld : k <= 9} = (3..7) \cup {9} /\ 9 \notin 3..7
    BY DEF ServerWorld
  <2>2. Cardinality((3..7) \cup {9}) = Cardinality(3..7) + 1
    BY <2>1, <1>3, FS_AddElement
  <2>. QED  BY <2>1, <2>2, <1>3
<1>7. Cardinality({k \in ClientWorld : k <= 8}) = 6
  <2>1. {k \in ClientWorld : k <= 8} = 3..8
    BY DEF ClientWorld
  <2>. QED  BY <2>1, <1>3
<1>. QED  BY <1>1, <1>2, <1>4, <1>5, <1>6, <1>7

\* A rank that passes a barrier or creates a communicator finds every member
\* of the communicator there.
LEMMA CreateIsEntered ==
    ASSUME given \in Setups, Places, NEW r \in Ranks, at[r] = 3,
           AllEntered("world", Entered(r, "world"))
    PROVE  \A m \in Ranks : at[m] >= 3
<1>1. Entered(r, "world") = 1
  BY WhatEntered, WorldCounts, Sizes DEF Places
<1>. SUFFICES ASSUME NEW m \in Ranks PROVE at[m] >= 3
  OBVIOUS
<1>2. Entered(m, "world") >= 1
  BY <1>1 DEF AllEntered, Members
<1>3. at[m] \in Nat /\ (at[m] < 3 => Entered(m, "world") = 0)
  BY WhatEntered, WorldCounts, Sizes DEF Places
<1>. QED  BY <1>2, <1>3

\* A rank that passes the barrier after the start finds every rank at it.
LEMMA UpIsEntered ==
    ASSUME given \in Setups, Places, NEW r \in Ranks, at[r] = Up(r),
           AllEntered("world", Entered(r, "world"))
    PROVE  \A m \in Ranks : at[m] >= Up(m)
<1>1. Entered(r, "world") = 6
  BY WhatEntered, WorldCounts, Sizes DEF Places, Up
<1>. SUFFICES ASSUME NEW m \in Ranks PROVE at[m] >= Up(m)
  OBVIOUS
<1>2. Entered(m, "world") >= 6
  BY <1>1 DEF AllEntered, Members
<1>3. at[m] \in Nat /\ (at[m] < Up(m) => Entered(m, "world") <= 5)
  <2>1. at[m] \in Nat
    BY DEF Places
  <2>2. CASE m \in Servers
    BY <2>1, <2>2, WhatEntered, WorldCounts DEF Up
  <2>3. CASE m \in Clients /\ m \notin Servers
    BY <2>1, <2>3, WhatEntered, WorldCounts DEF Up
  <2>. QED  BY <2>1, <2>2, <2>3, Sizes
<1>4. Entered(m, "world") \in Nat
  <2>1. /\ IsFiniteSet({k \in ServerWorld : k <= at[m]})
        /\ IsFiniteSet({k \in ClientWorld : k <= at[m]})
    <3>1. IsFiniteSet(3..34)
      BY Intervals
    <3>2. /\ {k \in ServerWorld : k <= at[m]} \subseteq 3..34
          /\ {k \in ClientWorld : k <= at[m]} \subseteq 3..34
      BY DEF ServerWorld, ClientWorld
    <3>. QED  BY <3>1, <3>2, FS_Subset
  <2>2. at[m] \in Nat /\ (m \in Servers \/ m \in Clients)
    BY Sizes DEF Places
  <2>3. /\ Cardinality({k \in ServerWorld : k <= at[m]}) \in Nat
        /\ Cardinality({k \in ClientWorld : k <= at[m]}) \in Nat
    BY <2>1, FS_CardinalityType
  <2>. QED  BY <2>2, <2>3, WhatEntered
<1>5. Up(m) \in Nat
  BY DEF Up
<1>. QED  BY <1>2, <1>3, <1>4, <1>5

\* A forwarder that passes the barrier of the forwarders finds all of them there.
LEMMA ForwardersAreEntered ==
    ASSUME given \in Setups, Places, NEW s \in Servers, at[s] = 11,
           AllEntered("forwarding", Entered(s, "forwarding"))
    PROVE  \A t \in Servers : at[t] >= 11
<1>. SUFFICES ASSUME NEW t \in Servers PROVE at[t] >= 11
  OBVIOUS
<1>1. at[t] \in Nat /\ at[s] \in Nat
  BY Sizes DEF Places
<1>2. Entered(t, "forwarding") >= Entered(s, "forwarding")
  BY DEF AllEntered, Members
<1>3. Cardinality({k \in {11} : k <= at[t]}) >= Cardinality({k \in {11} : k <= 11})
  BY <1>1, <1>2, WhatEntered, Sizes
<1>4. IsFiniteSet({11}) /\ {11} \in SUBSET Nat /\ 11 \in {11}
  BY FS_Singleton
<1>. QED  BY <1>1, <1>3, <1>4, Reaches

\* A client that passes a barrier of the clients finds all of them there.
LEMMA ClientsAreEntered ==
    ASSUME given \in Setups, Places, NEW c \in Clients, at[c] \in ClientCollectives,
           AllEntered("clients", Entered(c, "clients"))
    PROVE  \A d \in Clients : at[d] >= at[c]
<1>. SUFFICES ASSUME NEW d \in Clients PROVE at[d] >= at[c]
  OBVIOUS
<1>1. at[d] \in Nat /\ at[c] \in Nat
  BY Sizes DEF Places
<1>2. Entered(d, "clients") >= Entered(c, "clients")
  BY DEF AllEntered, Members
<1>3. Cardinality({k \in ClientCollectives : k <= at[d]})
         >= Cardinality({k \in ClientCollectives : k <= at[c]})
  BY <1>1, <1>2, WhatEntered, Sizes
<1>4. IsFiniteSet(ClientCollectives) /\ ClientCollectives \in SUBSET Nat
  <2>1. ClientCollectives \subseteq 3..34 /\ ClientCollectives \subseteq Nat
    BY DEF ClientCollectives, ClientBarriers
  <2>2. IsFiniteSet(3..34)
    BY Intervals
  <2>. QED  BY <2>1, <2>2, FS_Subset
<1>. QED  BY <1>1, <1>3, <1>4, Reaches

\* The barriers that keep what is timed apart, and the phase each is in.
PhaseBarriers == {11, 14, 19, 22, 25}
PhaseOf(b) == IF b < 20 THEN "write" ELSE "read"

\* The invariant of the places: the setup was checked; no rank is past the
\* first communicator before all have loaded the configuration, or past the
\* start before all are there; forwarders leave their barrier together, and
\* clients those of a phase that is run.
SetupChecked == \A r \in Ranks : at[r] > 2 => ValidSetup
AllAgree == \A r, m \in Ranks : at[r] > 3 => at[m] >= 3
AllUp == \A r, m \in Ranks : at[r] > Up(r) => at[m] >= Up(m)
AllJoined == \A s, t \in Servers : at[s] > 11 => at[t] >= 11
InStep == \A c, d \in Clients, b \in PhaseBarriers :
             PhaseOf(b) \in given.phases /\ at[c] > b => at[d] >= b
InPhase == \A c \in Clients : /\ at[c] \in 10..19 => "write" \in given.phases
                              /\ at[c] \in 21..29 => "read" \in given.phases
PlacesInv == /\ given \in Setups /\ Places
             /\ SetupChecked /\ AllAgree /\ AllUp /\ AllJoined /\ InStep /\ InPhase

\* Where rank r may go on to, and what it has found then.
MayAdvance(r) ==
    /\ at[r] = 2 => ValidSetup
    /\ at[r] = 3 => \A m \in Ranks : at[m] >= 3
    /\ at[r] = Up(r) => \A m \in Ranks : at[m] >= Up(m)
    /\ r \in Servers /\ at[r] = 11 => \A t \in Servers : at[t] >= 11
    /\ r \in Clients /\ at[r] \in PhaseBarriers => \A d \in Clients : at[d] >= at[r]
    /\ r \in Clients /\ at[r] = 9 => "write" \in given.phases
    /\ r \in Clients /\ at[r] = 20 => "read" \in given.phases
MayGo(r, n) ==
    \/ at[r] = 1 /\ n = Gone
    \/ at[r] >= 1 /\ n = at[r] + 1 /\ MayAdvance(r)
    \/ r \in Clients /\ at[r] = 9 /\ "write" \notin given.phases /\ n = 20
    \/ r \in Clients /\ at[r] = 20 /\ "read" \notin given.phases /\ n = 30

\* The places stay in order when a rank goes where it may ...
LEMMA Moving ==
    ASSUME PlacesInv, UNCHANGED given, NEW r \in Ranks, NEW n, MayGo(r, n),
           at' = [at EXCEPT ![r] = n]
    PROVE  PlacesInv'
<1>0. /\ given' = given /\ Ranks' = Ranks /\ Servers' = Servers /\ Clients' = Clients
      /\ (ValidSetup)' = ValidSetup /\ (\A m : (Up(m))' = Up(m))
      /\ simulation_forwarders' = simulation_forwarders
  BY DEF Ranks, Servers, Clients, ValidSetup, Up, world_size,
     simulation_forwarders
<1>1. /\ at[r] \in Nat /\ n \in Nat /\ Places'
      /\ at'[r] = n /\ \A m \in Ranks : m # r => at'[m] = at[m]
  <2>1. at[r] \in Nat /\ n \in Nat
    BY DEF PlacesInv, Places, MayGo, Gone
  <2>. QED  BY <2>1, <1>0 DEF PlacesInv, Places
<1>2. \A m \in Ranks : at[m] \in Nat /\ at'[m] \in Nat /\ (at'[m] >= at[m] \/ at[m] = 1)
  BY <1>1 DEF PlacesInv, Places, MayGo, Gone
<1>3. /\ Ranks \subseteq Nat /\ Servers \subseteq Ranks /\ Clients \subseteq Ranks
      /\ \A m \in Ranks : (m \in Clients <=> m \notin Servers) /\ Up(m) \in {8, 9}
  BY Sizes DEF PlacesInv, Up
<1>4. SetupChecked'
  BY <1>0, <1>1, <1>2, <1>3 DEF PlacesInv, SetupChecked, MayGo, MayAdvance, Gone
<1>5. AllAgree'
  BY <1>0, <1>1, <1>2, <1>3 DEF PlacesInv, AllAgree, MayGo, MayAdvance, Gone
<1>6. AllUp'
  <2>. SUFFICES ASSUME NEW q \in Ranks, NEW m \in Ranks, at'[q] > Up(q)
                PROVE  at'[m] >= Up(m)
    BY <1>0 DEF AllUp
  <2>1. at[m] >= Up(m)
    <3>1. CASE at[q] > Up(q)
      BY <3>1 DEF PlacesInv, AllUp
    <3>2. CASE ~(at[q] > Up(q))
      <4>1. q = r /\ at[r] = Up(r) /\ MayAdvance(r)
        BY <3>2, <1>1, <1>2, <1>3 DEF MayGo, Gone, Up
      <4>. QED  BY <4>1 DEF MayAdvance
    <3>. QED  BY <3>1, <3>2
  <2>. QED  BY <2>1, <1>2, <1>3
<1>7. AllJoined'
  BY <1>0, <1>1, <1>2, <1>3 DEF PlacesInv, AllJoined, MayGo, MayAdvance, Gone
<1>8. InStep'
  <2>. SUFFICES ASSUME NEW c \in Clients, NEW d \in Clients, NEW b \in PhaseBarriers,
                       PhaseOf(b) \in given.phases, at'[c] > b
                PROVE  at'[d] >= b
    BY <1>0 DEF InStep, PhaseOf
  <2>0. b \in {11, 14, 19, 22, 25}
    BY DEF PhaseBarriers
  <2>1. at[d] >= b
    <3>1. CASE at[c] > b
      BY <3>1 DEF PlacesInv, InStep
    <3>2. CASE ~(at[c] > b)
      <4>1. c = r /\ at[r] = b /\ MayAdvance(r)
        BY <3>2, <2>0, <1>1, <1>2, <1>3 DEF MayGo, Gone, PhaseOf
      <4>. QED  BY <4>1, <2>0 DEF MayAdvance
    <3>. QED  BY <3>1, <3>2
  <2>. QED  BY <2>0, <2>1, <1>2, <1>3
<1>9. InPhase'
  <2>. SUFFICES ASSUME NEW c \in Clients
                PROVE  /\ at'[c] \in 10..19 => "write" \in given.phases
                       /\ at'[c] \in 21..29 => "read" \in given.phases
    BY <1>0 DEF InPhase
  <2>1. CASE c # r
    BY <2>1, <1>1, <1>3 DEF PlacesInv, InPhase
  <2>2. CASE c = r
    BY <2>2, <1>1, <1>3 DEF PlacesInv, InPhase, MayGo, MayAdvance, Gone
  <2>. QED  BY <2>1, <2>2
<1>. QED  BY <1>0, <1>1, <1>4, <1>5, <1>6, <1>7, <1>8, <1>9 DEF PlacesInv

\* ... and when none moves.
LEMMA Staying ==
    ASSUME PlacesInv, UNCHANGED <<given, at>>
    PROVE  PlacesInv'
<1>1. /\ Ranks' = Ranks /\ Servers' = Servers /\ Clients' = Clients
      /\ (ValidSetup)' = ValidSetup /\ (\A m : (Up(m))' = Up(m))
  BY DEF Ranks, Servers, Clients, ValidSetup, Up, world_size,
     simulation_forwarders
<1>. QED  BY <1>1 DEF PlacesInv, Places, SetupChecked, AllAgree, AllUp,
             AllJoined, InStep, InPhase

\* Where a client has a call under way, where it has its file open, and whom
\* a forwarder has counted.
CallPlaces == {10, 12, 18, 21, 23, 26}
CallsInv ==
    \A c \in Ranks : call[c] # "none" =>
       c \in Clients /\ at[c] \in CallPlaces /\ (at[c] \in {12, 23} => iter[c] < NRequests)
OpenedInv ==
    \A c \in opened : /\ at[c] \in 10..18 \cup 21..26
                      /\ at[c] \in {18, 26} => call[c] # "answered"
FinishedInv == \A c \in finished : at[c] >= 33
Counted(s) == {c \in Clients : ServerOf(c) = s /\ at[c] >= 33 /\ c \notin finished}
CountInv == \A s \in Servers : shutdown[s] = Cardinality(Counted(s))
JoinedInv == \A s \in Servers : at[s] > 10 =>
                \A c \in Clients : ServerOf(c) = s => at[c] >= 33 /\ c \notin finished
Types == /\ iter \in [Ranks -> 0..NRequests]
         /\ call \in [Ranks -> {"none", "sent", "answered"}]
         /\ opened \subseteq Clients /\ finished \subseteq Clients
         /\ shutdown \in [Ranks -> Nat]
RunInv == Types /\ CallsInv /\ OpenedInv /\ FinishedInv /\ CountInv /\ JoinedInv
FailedInv == failed \in {"no", "MPI_Abort", "terminated", "killed"}
Inv == PlacesInv /\ RunInv /\ FailedInv /\ missed \subseteq Servers

\* The steps that change nothing but the place of a rank.
QuietPlace(r) == /\ r \in Clients => at[r] \notin CallPlaces \cup {32}
                 /\ r \in Servers /\ at[r] = 10 => AllFinished(r)
QuietStep(r) ==
    \/ UNCHANGED at
    \/ \E n : at' = [at EXCEPT ![r] = n] /\ MayGo(r, n) /\ QuietPlace(r)

\* The step of any rank.
LEMMA RankAt ==
    ASSUME PlacesInv, NEW r \in Ranks
    PROVE  /\ given \in Setups /\ at[r] \in Nat
           /\ r \in Servers => r \notin Clients /\ IsServerPlace(Step(r), at[r])
           /\ r \notin Servers => r \in Clients /\ IsClientPlace(Step(r), at[r])
  BY ServerStep, ClientStep, Sizes DEF PlacesInv, Places

\* Loading the configuration.
LEMMA LoadQuiet ==
    ASSUME PlacesInv, NEW r \in Ranks, Load(r)
    PROVE  QuietStep(r)
<1>1. at[r] = 1
  BY RankAt DEF Load, Does, IsServerPlace, IsClientPlace
<1>2. MayGo(r, 2) /\ MayGo(r, Gone) /\ QuietPlace(r)
  BY <1>1 DEF MayGo, MayAdvance, QuietPlace, Up, PhaseBarriers, CallPlaces
<1>. QED  BY <1>1, <1>2 DEF Load, Advance, QuietStep

\* Checking the setup.
LEMMA VerifyQuiet ==
    ASSUME PlacesInv, NEW r \in Ranks, Verify(r)
    PROVE  QuietStep(r)
<1>1. at[r] = 2
  BY RankAt DEF Verify, Does, IsServerPlace, IsClientPlace
<1>2. QuietPlace(r) /\ (ValidSetup => MayGo(r, 3))
  BY <1>1 DEF MayGo, MayAdvance, QuietPlace, Up, PhaseBarriers, CallPlaces
<1>. QED  BY <1>1, <1>2 DEF Verify, Advance, QuietStep

\* A collective operation.
LEMMA CollectiveQuiet ==
    ASSUME PlacesInv, NEW r \in Ranks, Collective(r)
    PROVE  QuietStep(r)
<1>1. /\ r \in Servers => at[r] \in {3, 4, 5, 6, 7, 9, 11, 13}
      /\ r \in Clients => at[r] \in {3, 4, 5, 6, 7, 8, 34} \cup ClientCollectives
  BY RankAt DEF Collective, IsServerPlace, IsClientPlace
<1>2. QuietPlace(r)
  BY <1>1, RankAt DEF QuietPlace, CallPlaces, ClientCollectives, ClientBarriers
<1>3. at[r] = 3 => \A m \in Ranks : at[m] >= 3
  <2>. SUFFICES ASSUME at[r] = 3 PROVE \A m \in Ranks : at[m] >= 3
    OBVIOUS
  <2>1. Step(r).on = "world" /\ Step(r).do \in {"barrier", "create"}
    BY RankAt DEF IsServerPlace, IsClientPlace
  <2>. QED  BY <2>1, CreateIsEntered DEF Collective, Waits, PlacesInv
<1>4. at[r] = Up(r) => \A m \in Ranks : at[m] >= Up(m)
  <2>. SUFFICES ASSUME at[r] = Up(r) PROVE \A m \in Ranks : at[m] >= Up(m)
    OBVIOUS
  <2>1. Step(r).on = "world" /\ Step(r).do \in {"barrier", "create"}
    BY RankAt DEF IsServerPlace, IsClientPlace, Up
  <2>. QED  BY <2>1, UpIsEntered DEF Collective, Waits, PlacesInv
<1>5. r \in Servers /\ at[r] = 11 => \A t \in Servers : at[t] >= 11
  <2>. SUFFICES ASSUME r \in Servers, at[r] = 11 PROVE \A t \in Servers : at[t] >= 11
    OBVIOUS
  <2>1. Step(r).on = "forwarding" /\ Step(r).do \in {"barrier", "create"}
    BY RankAt DEF IsServerPlace
  <2>. QED  BY <2>1, ForwardersAreEntered DEF Collective, Waits, PlacesInv
<1>6. r \in Clients /\ at[r] \in PhaseBarriers => \A d \in Clients : at[d] >= at[r]
  <2>. SUFFICES ASSUME r \in Clients, at[r] \in PhaseBarriers
                PROVE  \A d \in Clients : at[d] >= at[r]
    OBVIOUS
  <2>1. at[r] \in ClientBarriers /\ at[r] \in ClientCollectives
    BY DEF PhaseBarriers, ClientBarriers, ClientCollectives
  <2>2. Step(r).on = "clients" /\ Step(r).do \in {"barrier", "create"}
    BY <2>1, RankAt DEF IsClientPlace
  <2>. QED  BY <2>1, <2>2, ClientsAreEntered DEF Collective, Waits, PlacesInv
<1>7. at[r] \in Nat /\ at[r] >= 1 /\ at[r] # 2
      /\ (r \in Clients => at[r] # 9 /\ at[r] # 20)
  BY <1>1, RankAt DEF ClientCollectives, ClientBarriers
<1>8. MayGo(r, at[r] + 1)
  BY <1>3, <1>4, <1>5, <1>6, <1>7 DEF MayGo, MayAdvance
<1>. QED  BY <1>2, <1>8 DEF Collective, Advance, QuietStep

\* Beginning or skipping a phase.
LEMMA BranchQuiet ==
    ASSUME PlacesInv, NEW r \in Ranks, Branch(r)
    PROVE  QuietStep(r)
<1>0. Len(WritePhase) = 10 /\ Len(ReadPhase) = 9
  BY DEF WritePhase, ReadPhase
<1>1. CASE Skips(r, "if_write", "write", WritePhase)
  <2>1. r \in Clients /\ r \notin Servers /\ at[r] = 9
    BY <1>1, RankAt DEF Skips, Does, IsServerPlace, IsClientPlace
  <2>2. QuietPlace(r)
    BY <2>1 DEF QuietPlace, CallPlaces
  <2>3. CASE "write" \in given.phases
    <3>1. MayGo(r, 10)
      BY <2>1, <2>3 DEF MayGo, MayAdvance, Up, PhaseBarriers
    <3>2. at' = [at EXCEPT ![r] = 10]
      BY <1>1, <2>1, <2>3 DEF Skips
    <3>. QED  BY <2>2, <3>1, <3>2 DEF QuietStep
  <2>4. CASE "write" \notin given.phases
    <3>1. MayGo(r, 20)
      BY <2>1, <2>4 DEF MayGo
    <3>2. at' = [at EXCEPT ![r] = 20]
      BY <1>0, <1>1, <2>1, <2>4 DEF Skips
    <3>. QED  BY <2>2, <3>1, <3>2 DEF QuietStep
  <2>. QED  BY <2>3, <2>4
<1>2. CASE Skips(r, "if_read", "read", ReadPhase)
  <2>1. r \in Clients /\ r \notin Servers /\ at[r] = 20
    BY <1>2, RankAt DEF Skips, Does, IsServerPlace, IsClientPlace
  <2>2. QuietPlace(r)
    BY <2>1 DEF QuietPlace, CallPlaces
  <2>3. CASE "read" \in given.phases
    <3>1. MayGo(r, 21)
      BY <2>1, <2>3 DEF MayGo, MayAdvance, Up, PhaseBarriers
    <3>2. at' = [at EXCEPT ![r] = 21]
      BY <1>2, <2>1, <2>3 DEF Skips
    <3>. QED  BY <2>2, <3>1, <3>2 DEF QuietStep
  <2>4. CASE "read" \notin given.phases
    <3>1. MayGo(r, 30)
      BY <2>1, <2>4 DEF MayGo
    <3>2. at' = [at EXCEPT ![r] = 30]
      BY <1>0, <1>2, <2>1, <2>4 DEF Skips
    <3>. QED  BY <2>2, <3>1, <3>2 DEF QuietStep
  <2>. QED  BY <2>3, <2>4
<1>. QED  BY <1>1, <1>2 DEF Branch

\* Joining the threads, of which nobody needs them any more.
LEMMA JoinQuiet ==
    ASSUME PlacesInv, NEW r \in Ranks, Join(r)
    PROVE  QuietStep(r)
<1>1. r \in Servers /\ r \notin Clients /\ at[r] = 10
  BY RankAt DEF Join, Does, IsServerPlace, IsClientPlace
<1>2. MayGo(r, 11) /\ QuietPlace(r)
  BY <1>1 DEF MayGo, MayAdvance, Up, QuietPlace, Join
<1>3. CASE Advance(r)
  <2>1. at' = [at EXCEPT ![r] = 11]
    BY <1>1, <1>3 DEF Advance
  <2>. QED  BY <1>2, <2>1 DEF QuietStep
<1>4. CASE Killed
  BY <1>4 DEF Killed, QuietStep
<1>. QED  BY <1>3, <1>4 DEF Join

\* Starting, tearing down.
LEMMA ProceedQuiet ==
    ASSUME PlacesInv, NEW r \in Ranks, Start(r) \/ Teardown(r)
    PROVE  QuietStep(r)
<1>1. r \in Servers /\ r \notin Clients /\ at[r] \in {8, 12}
  BY RankAt DEF Start, Teardown, Does, IsServerPlace, IsClientPlace
<1>2. MayGo(r, at[r] + 1) /\ QuietPlace(r)
  BY <1>1 DEF MayGo, MayAdvance, Up, QuietPlace, PhaseBarriers, CallPlaces
<1>. QED  BY <1>1, <1>2 DEF Start, Teardown, Advance, QuietStep

\* Finalizing.
LEMMA FinalizeQuiet ==
    ASSUME PlacesInv, NEW r \in Ranks, Finalize(r)
    PROVE  QuietStep(r)
<1>1. \/ r \in Servers /\ r \notin Clients /\ at[r] = 14
      \/ r \in Clients /\ r \notin Servers /\ at[r] = 35
  BY RankAt DEF Finalize, Does, IsServerPlace, IsClientPlace
<1>2. MayGo(r, at[r] + 1) /\ QuietPlace(r)
  BY <1>1 DEF MayGo, MayAdvance, Up, QuietPlace, PhaseBarriers, CallPlaces
<1>3. CASE Advance(r)
  BY <1>1, <1>2, <1>3 DEF Advance, QuietStep
<1>4. CASE Killed
  BY <1>4 DEF Killed, QuietStep
<1>. QED  BY <1>3, <1>4 DEF Finalize

\* What the setup says stays the same.
LEMMA SameSetup ==
    ASSUME UNCHANGED given
    PROVE  /\ Ranks' = Ranks /\ Servers' = Servers /\ Clients' = Clients
           /\ world_size' = world_size /\ simulation_forwarders' = simulation_forwarders
           /\ \A c : (ServerOf(c))' = ServerOf(c)
  BY DEF Ranks, Servers, Clients, ServerOf, world_size, simulation_forwarders

\* The clients that a forwarder counts are its clients, and when it has counted
\* as many as it has, they are all of them.
LEMMA CountedClients ==
    ASSUME given \in Setups, ValidSetup, NEW s \in Servers
    PROVE  /\ IsFiniteSet(Counted(s))
           /\ AllFinished(s) /\ shutdown[s] = Cardinality(Counted(s)) =>
                 \A c \in Clients : ServerOf(c) = s => c \in Counted(s)
<1>. DEFINE F == simulation_forwarders
            W == world_size
            All == ClientsOf(s, F, W)
<1>1. F \in Nat \ {0} /\ W \in Nat /\ W >= 2 * F /\ W % F = 0 /\ s \in 0..(F - 1)
  BY Sizes DEF ValidSetup, Servers, Ranks
<1>2. /\ IsFiniteSet(All) /\ Cardinality(All) = ShutdownCount(F, W)
      /\ Cardinality(All) \in Nat
  BY <1>1, ServersShareClients, FS_CardinalityType
<1>3. Clients = F..(W - 1)
  BY <1>1 DEF Clients, Ranks
<1>4. \A c \in Clients : c \in All <=> ServerOf(c) = s
  BY <1>3 DEF ClientsOf, ServerOf
<1>5. Counted(s) \subseteq All
  BY <1>4 DEF Counted
<1>6. IsFiniteSet(Counted(s)) /\ Cardinality(Counted(s)) <= Cardinality(All)
      /\ (Cardinality(All) = Cardinality(Counted(s)) => All = Counted(s))
  BY <1>2, <1>5, FS_Subset
<1>7. Cardinality(Counted(s)) \in Nat
  BY <1>6, FS_CardinalityType
<1>8. AllFinished(s) /\ shutdown[s] = Cardinality(Counted(s)) => All = Counted(s)
  BY <1>2, <1>6, <1>7 DEF AllFinished
<1>. QED  BY <1>4, <1>6, <1>8

\* A step that changes nothing but a place keeps the invariant.
LEMMA QuietKeeps ==
    ASSUME PlacesInv, RunInv, NEW r \in Ranks, QuietStep(r),
           UNCHANGED <<given, iter, call, opened, shutdown, finished>>
    PROVE  PlacesInv' /\ RunInv'
<1>1. CASE UNCHANGED at
  <2>1. Counted(r)' = Counted(r) /\ \A s : (Counted(s))' = Counted(s)
    BY <1>1, SameSetup DEF Counted
  <2>. QED  BY <1>1, <2>1, Staying, SameSetup
            DEF RunInv, Types, CallsInv, OpenedInv, FinishedInv, CountInv, JoinedInv
<1>2. ASSUME NEW n, at' = [at EXCEPT ![r] = n], MayGo(r, n), QuietPlace(r)
      PROVE  PlacesInv' /\ RunInv'
  <2>1. PlacesInv'
    BY <1>2, Moving
  <2>2. /\ at[r] \in Nat /\ n \in Nat /\ at'[r] = n
        /\ \A m \in Ranks : m # r => at'[m] = at[m]
        /\ n > at[r] \/ at[r] = 1
        /\ at[r] = 1 => n \in {0, 2}
    <3>1. at[r] \in Nat
      BY RankAt
    <3>2. n \in Nat /\ (n > at[r] \/ at[r] = 1) /\ (at[r] = 1 => n \in {0, 2})
      BY <1>2, <3>1 DEF MayGo, Gone
    <3>. QED  BY <1>2, <3>1, <3>2 DEF PlacesInv, Places
  <2>3. /\ Servers \subseteq Ranks /\ Clients \subseteq Ranks
        /\ \A m \in Ranks : m \in Clients <=> m \notin Servers
    BY Sizes DEF PlacesInv
  <2>4. r \in Clients => at[r] \notin CallPlaces /\ (n >= 33 <=> at[r] >= 33)
    BY <1>2, <2>2 DEF QuietPlace, MayGo, Gone
  <2>5. Types'
    BY SameSetup DEF RunInv, Types
  <2>6. CallsInv'
    BY <2>2, <2>3, <2>4, SameSetup DEF RunInv, CallsInv
  <2>7. OpenedInv'
    <3>. SUFFICES ASSUME NEW c \in opened
                  PROVE  /\ at'[c] \in 10..18 \cup 21..26
                         /\ at'[c] \in {18, 26} => call[c] # "answered"
      BY DEF OpenedInv
    <3>1. c \in Clients /\ c \in Ranks
      BY <2>3 DEF RunInv, Types
    <3>2. CASE c # r
      BY <3>1, <3>2, <2>2 DEF RunInv, OpenedInv
    <3>3. CASE c = r
      <4>1. call[c] = "none"
        BY <3>1, <3>3, <2>4 DEF RunInv, CallsInv
      <4>2. at[c] \in 11..17 \cup 22..25
        BY <3>1, <3>3, <2>2, <2>4 DEF RunInv, OpenedInv, CallPlaces
      <4>3. n = at[r] + 1
        BY <1>2, <3>3, <4>2 DEF MayGo, Gone
      <4>. QED  BY <3>3, <4>1, <4>2, <4>3, <2>2
    <3>. QED  BY <3>2, <3>3
  <2>8. FinishedInv'
    BY <2>2, <2>3, <2>4 DEF RunInv, FinishedInv, Types
  <2>9. \A s : (Counted(s))' = Counted(s)
    BY <2>2, <2>3, <2>4, SameSetup DEF Counted
  <2>10. CountInv'
    BY <2>9, SameSetup DEF RunInv, CountInv
  <2>11. JoinedInv'
    <3>. SUFFICES ASSUME NEW s \in Servers, at'[s] > 10, NEW c \in Clients, ServerOf(c) = s
                  PROVE  at'[c] >= 33 /\ c \notin finished
      BY SameSetup DEF JoinedInv
    <3>1. at[c] >= 33 /\ c \notin finished
      <4>1. CASE at[s] > 10
        BY <4>1 DEF RunInv, JoinedInv
      <4>2. CASE ~(at[s] > 10)
        <5>1. s = r /\ at[s] = 10
          BY <4>2, <2>2, <2>3, <1>2 DEF MayGo, Gone
        <5>2. ValidSetup /\ given \in Setups
          BY <5>1, <2>3 DEF PlacesInv, SetupChecked
        <5>3. AllFinished(s)
          BY <5>1, <1>2 DEF QuietPlace
        <5>4. c \in Counted(s)
          BY <5>2, <5>3, CountedClients DEF RunInv, CountInv
        <5>. QED  BY <5>4 DEF Counted
      <4>. QED  BY <4>1, <4>2
    <3>2. at[c] \in Nat /\ (at'[c] >= at[c] \/ at[c] = 1)
      BY <2>2, <2>3 DEF PlacesInv, Places
    <3>. QED  BY <3>1, <3>2, <2>2, <2>3, <2>4
  <2>. QED  BY <2>1, <2>5, <2>6, <2>7, <2>8, <2>10, <2>11 DEF RunInv
<1>. QED  BY <1>1, <1>2 DEF QuietStep

\* Where a client asks, opens, closes and loops.
LEMMA ClientDoes ==
    ASSUME PlacesInv, NEW c \in Clients
    PROVE  /\ c \in Ranks /\ c \notin Servers /\ at[c] \in Nat
           /\ Does(c, "open") <=> at[c] \in {10, 21}
           /\ Does(c, "close") <=> at[c] \in {18, 26}
           /\ Does(c, "shutdown") <=> at[c] = 32
           /\ InLoop(c) <=> at[c] \in {12, 23}
           /\ Step(c).do = "write" <=> at[c] = 12
           /\ Step(c).do = "read" <=> at[c] = 23
  BY RankAt, Sizes DEF PlacesInv, Does, InLoop, IsClientPlace

\* A forwarder does none of that.
LEMMA ServerDoes ==
    ASSUME PlacesInv, NEW s \in Servers
    PROVE  /\ s \in Ranks /\ s \notin Clients /\ ~Asks(s) /\ ~InLoop(s)
           /\ ~Does(s, "shutdown")
  BY RankAt, Sizes DEF PlacesInv, Does, InLoop, Asks, IsServerPlace

\* A client calls its forwarder ...
LEMMA CallKeeps ==
    ASSUME PlacesInv, RunInv, NEW c \in Ranks, Call(c)
    PROVE  PlacesInv' /\ RunInv'
<1>1. c \in Clients
  BY RankAt, ServerDoes DEF Call
<1>2. at[c] \in CallPlaces /\ (at[c] \in {12, 23} => iter[c] < NRequests)
  BY <1>1, RankAt, ClientDoes DEF Call, Asks, Does, CallPlaces, IsClientPlace
<1>3. PlacesInv'
  BY Staying DEF Call
<1>4. Types'
  BY SameSetup DEF RunInv, Types, Call
<1>5. CallsInv'
  <2>. SUFFICES ASSUME NEW d \in Ranks, call'[d] # "none"
                PROVE  d \in Clients /\ at[d] \in CallPlaces
                       /\ (at[d] \in {12, 23} => iter[d] < NRequests)
    BY SameSetup DEF CallsInv, Call
  <2>1. CASE d = c
    BY <1>1, <1>2, <2>1
  <2>2. CASE d # c
    BY <2>2 DEF RunInv, Types, CallsInv, Call
  <2>. QED  BY <2>1, <2>2
<1>6. OpenedInv' /\ FinishedInv'
  BY Sizes, <1>1 DEF RunInv, Types, OpenedInv, FinishedInv, Call, PlacesInv
<1>7. CountInv' /\ JoinedInv'
  BY SameSetup DEF RunInv, CountInv, JoinedInv, Counted, Call
<1>. QED  BY <1>3, <1>4, <1>5, <1>6, <1>7 DEF RunInv

\* ... which answers.
LEMMA ServeKeeps ==
    ASSUME PlacesInv, RunInv, NEW s \in Ranks, Serve(s)
    PROVE  PlacesInv' /\ RunInv'
<1>1. PICK c \in Clients :
         /\ ServerOf(c) = s /\ call[c] = "sent"
         /\ call' = [call EXCEPT ![c] = "answered"]
         /\ opened' = CASE Does(c, "open")  -> opened \cup {c}
                        [] Does(c, "close") -> opened \ {c}
                        [] OTHER            -> opened
  BY DEF Serve
<1>2. UNCHANGED <<given, at, iter, shutdown, finished>>
  BY DEF Serve
<1>3. PlacesInv'
  BY <1>2, Staying
<1>4. c \in Ranks /\ at[c] \in CallPlaces /\ call[c] # "none"
  BY <1>1, ClientDoes DEF RunInv, CallsInv
<1>5. /\ opened' \subseteq opened \cup {c}
      /\ Does(c, "close") => c \notin opened'
      /\ ~Does(c, "open") => opened' \subseteq opened
  <2>1. Does(c, "open") => ~Does(c, "close")
    BY ClientDoes
  <2>. QED  BY <1>1, <2>1
<1>6. Types'
  BY <1>1, <1>2, <1>4, <1>5, SameSetup DEF RunInv, Types
<1>7. CallsInv'
  BY <1>1, <1>2, <1>4, SameSetup DEF RunInv, CallsInv, Types
<1>8. OpenedInv'
  <2>. SUFFICES ASSUME NEW d \in opened'
                PROVE  /\ at[d] \in 10..18 \cup 21..26
                       /\ at[d] \in {18, 26} => call'[d] # "answered"
    BY <1>2 DEF OpenedInv
  <2>1. CASE d # c
    <3>1. d \in opened /\ d \in Ranks
      BY <2>1, <1>5, ClientDoes DEF RunInv, Types
    <3>. QED  BY <3>1, <2>1, <1>1 DEF RunInv, OpenedInv, Types
  <2>2. CASE d = c
    <3>1. ~Does(c, "close") /\ at[c] \notin {18, 26}
      BY <2>2, <1>5, ClientDoes
    <3>2. at[c] \in 10..18 \cup 21..26
      BY <1>4 DEF CallPlaces
    <3>. QED  BY <2>2, <3>1, <3>2
  <2>. QED  BY <2>1, <2>2
<1>9. FinishedInv' /\ CountInv' /\ JoinedInv'
  BY <1>2, SameSetup DEF RunInv, FinishedInv, CountInv, JoinedInv, Counted
<1>. QED  BY <1>3, <1>6, <1>7, <1>8, <1>9 DEF RunInv

\* A client that is past its call, or at none, may go on one place.
LEMMA ClientGoesOn ==
    ASSUME PlacesInv, NEW c \in Clients, at[c] \in CallPlaces \cup {32},
           UNCHANGED given, Advance(c)
    PROVE  /\ PlacesInv'
           /\ at'[c] = at[c] + 1 /\ \A m \in Ranks : m # c => at'[m] = at[m]
<1>1. c \in Ranks /\ c \notin Servers /\ at[c] \in Nat
  BY ClientDoes
<1>2. MayGo(c, at[c] + 1)
  BY <1>1 DEF MayGo, MayAdvance, Up, PhaseBarriers, CallPlaces
<1>3. at' = [at EXCEPT ![c] = at[c] + 1]
  BY DEF Advance
<1>4. PlacesInv'
  <2>. DEFINE n == at[c] + 1
  <2>. HIDE DEF n
  <2>1. MayGo(c, n) /\ at' = [at EXCEPT ![c] = n]
    BY <1>2, <1>3 DEF n
  <2>. QED  BY <1>1, <2>1, Moving
<1>. QED  BY <1>1, <1>3, <1>4 DEF PlacesInv, Places

\* ... and so keeps the invariant, if what it leaves is no open file that it
\* was to close.
LEMMA GoingOnKeeps ==
    ASSUME PlacesInv, RunInv, NEW c \in Clients, at[c] \in CallPlaces,
           UNCHANGED <<given, opened, shutdown, finished>>, Advance(c),
           iter' = [iter EXCEPT ![c] = 0],
           call' = [call EXCEPT ![c] = "none"],
           at[c] \in {18, 26} => call[c] = "answered"
    PROVE  PlacesInv' /\ RunInv'
<1>1. /\ PlacesInv' /\ at'[c] = at[c] + 1
      /\ \A m \in Ranks : m # c => at'[m] = at[m]
  BY ClientGoesOn
<1>2. c \in Ranks /\ c \notin Servers /\ at[c] \in Nat
      /\ Servers \subseteq Ranks /\ Clients \subseteq Ranks
  BY ClientDoes, Sizes DEF PlacesInv
<1>3. Types'
  <2>1. 0 \in 0..NRequests
    BY SetupsAssumption
  <2>. QED  BY <2>1, <1>2, SameSetup DEF RunInv, Types
<1>4. CallsInv'
  BY <1>1, <1>2, SameSetup DEF RunInv, CallsInv, Types
<1>5. OpenedInv'
  <2>. SUFFICES ASSUME NEW d \in opened
                PROVE  /\ at'[d] \in 10..18 \cup 21..26
                       /\ at'[d] \in {18, 26} => call'[d] # "answered"
    BY DEF OpenedInv
  <2>0. d \in Ranks
    BY <1>2 DEF RunInv, Types
  <2>1. CASE d # c
    BY <2>0, <2>1, <1>1 DEF RunInv, OpenedInv, Types
  <2>2. CASE d = c
    <3>1. at[c] \in {10, 12, 21, 23}
      BY <2>2 DEF CallPlaces, RunInv, OpenedInv
    <3>. QED  BY <2>2, <3>1, <1>1
  <2>. QED  BY <2>1, <2>2
<1>6. FinishedInv'
  BY <1>1, <1>2 DEF RunInv, FinishedInv, CallPlaces, Types
<1>7. \A s : (Counted(s))' = Counted(s)
  BY <1>1, <1>2, SameSetup DEF Counted, CallPlaces
<1>8. CountInv'
  BY <1>7, SameSetup DEF RunInv, CountInv
<1>9. JoinedInv'
  BY <1>1, <1>2, SameSetup DEF RunInv, JoinedInv, CallPlaces
<1>. QED  BY <1>1, <1>3, <1>4, <1>5, <1>6, <1>8, <1>9 DEF RunInv

\* A client receives the answer.
LEMMA ReturnKeeps ==
    ASSUME PlacesInv, RunInv, NEW c \in Ranks, Return(c)
    PROVE  PlacesInv' /\ RunInv'
<1>1. c \in Clients /\ at[c] \in CallPlaces /\ (at[c] \in {12, 23} => iter[c] < NRequests)
  BY DEF Return, RunInv, CallsInv
<1>2. CASE InLoop(c) /\ iter' = [iter EXCEPT ![c] = @ + 1] /\ UNCHANGED at
  <2>0. UNCHANGED <<given, at, opened, shutdown, finished>>
    BY <1>2 DEF Return
  <2>1. PlacesInv'
    BY <2>0, Staying
  <2>2. iter[c] \in 0..NRequests /\ iter[c] < NRequests
    BY <1>1, <1>2, ClientDoes DEF RunInv, Types
  <2>3. iter[c] + 1 \in 0..NRequests
    BY <2>2, SetupsAssumption
  <2>4. Types'
    BY <1>2, <2>0, <2>3, SameSetup DEF RunInv, Types, Return
  <2>5. CallsInv'
    BY <1>2, <2>0, SameSetup DEF RunInv, CallsInv, Types, Return
  <2>6. OpenedInv' /\ FinishedInv'
    BY <2>0, Sizes, <1>1 DEF RunInv, Types, OpenedInv, FinishedInv, Return,
       PlacesInv
  <2>7. CountInv' /\ JoinedInv'
    BY <2>0, SameSetup DEF RunInv, CountInv, JoinedInv, Counted
  <2>. QED  BY <2>1, <2>4, <2>5, <2>6, <2>7 DEF RunInv
<1>3. CASE iter' = [iter EXCEPT ![c] = 0] /\ Advance(c)
  BY <1>1, <1>3, GoingOnKeeps DEF Return
<1>. QED  BY <1>2, <1>3 DEF Return

\* A client ends its loop.
LEMMA LoopEndKeeps ==
    ASSUME PlacesInv, RunInv, NEW c \in Ranks, LoopEnd(c)
    PROVE  PlacesInv' /\ RunInv'
<1>1. c \in Clients
  BY RankAt, ServerDoes DEF LoopEnd
<1>2. at[c] \in {12, 23} /\ at[c] \in CallPlaces
  BY <1>1, ClientDoes DEF LoopEnd, CallPlaces
<1>3. call[c] = "none"
  BY <1>2, SetupsAssumption DEF LoopEnd, RunInv, CallsInv, Types
<1>4. call' = [call EXCEPT ![c] = "none"]
  BY <1>3 DEF LoopEnd, RunInv, Types
<1>5. at[c] \in {18, 26} => call[c] = "answered"
  BY <1>2
<1>6. /\ iter' = [iter EXCEPT ![c] = 0] /\ Advance(c)
      /\ UNCHANGED <<given, opened, shutdown, finished>>
  BY DEF LoopEnd
<1>. QED  BY <1>1, <1>2, <1>4, <1>5, <1>6, GoingOnKeeps

\* A client says that it is finished.
LEMMA ShutdownKeeps ==
    ASSUME PlacesInv, RunInv, NEW c \in Ranks, Shutdown(c)
    PROVE  PlacesInv' /\ RunInv'
<1>1. c \in Clients
  BY RankAt, ServerDoes DEF Shutdown
<1>2. /\ at[c] = 32 /\ c \notin Servers
      /\ Servers \subseteq Ranks /\ Clients \subseteq Ranks
  BY <1>1, ClientDoes, Sizes DEF Shutdown, PlacesInv
<1>3. /\ PlacesInv' /\ at'[c] = 33
      /\ \A m \in Ranks : m # c => at'[m] = at[m]
  BY <1>1, <1>2, ClientGoesOn DEF Shutdown
<1>4. finished' = finished \cup {c} /\ UNCHANGED <<given, iter, call, opened, shutdown>>
  BY DEF Shutdown
<1>5. Types'
  BY <1>1, <1>4, SameSetup DEF RunInv, Types
<1>6. CallsInv'
  BY <1>2, <1>3, <1>4, SameSetup DEF RunInv, CallsInv, CallPlaces
<1>7. OpenedInv'
  <2>. SUFFICES ASSUME NEW d \in opened
                PROVE  /\ at'[d] \in 10..18 \cup 21..26
                       /\ at'[d] \in {18, 26} => call[d] # "answered"
    BY <1>4 DEF OpenedInv
  <2>1. d \in Ranks /\ d # c
    BY <1>2 DEF RunInv, Types, OpenedInv
  <2>. QED  BY <2>1, <1>3 DEF RunInv, OpenedInv
<1>8. FinishedInv'
  BY <1>2, <1>3, <1>4 DEF RunInv, FinishedInv, Types
<1>9. \A s : (Counted(s))' = Counted(s)
  BY <1>2, <1>3, <1>4, SameSetup DEF Counted
<1>10. CountInv'
  BY <1>4, <1>9, SameSetup DEF RunInv, CountInv
<1>11. JoinedInv'
  <2>. SUFFICES ASSUME NEW s \in Servers, at'[s] > 10, NEW d \in Clients, ServerOf(d) = s
                PROVE  at'[d] >= 33 /\ d \notin finished'
    BY <1>4, SameSetup DEF JoinedInv
  <2>1. at[d] >= 33 /\ d \notin finished
    BY <1>1, <1>2, <1>3 DEF RunInv, JoinedInv
  <2>2. d # c
    BY <1>2, <2>1
  <2>. QED  BY <1>2, <1>3, <1>4, <2>1, <2>2
<1>. QED  BY <1>3, <1>5, <1>6, <1>7, <1>8, <1>10, <1>11 DEF RunInv

\* A forwarder counts it.
LEMMA CountKeeps ==
    ASSUME PlacesInv, RunInv, NEW s \in Ranks, CountFinished(s)
    PROVE  PlacesInv' /\ RunInv'
<1>1. PICK c \in finished :
         /\ ServerOf(c) = s
         /\ finished' = finished \ {c}
         /\ shutdown' = [shutdown EXCEPT ![s] = @ + 1]
  BY DEF CountFinished
<1>2. UNCHANGED <<given, at, iter, call, opened>>
  BY DEF CountFinished
<1>3. s \in Servers /\ at[s] \in {9, 10} /\ at[s] \in Nat
      /\ Servers \subseteq Ranks /\ Clients \subseteq Ranks
  BY ServingPlaces, Sizes DEF CountFinished, PlacesInv, Places
<1>4. c \in Clients /\ at[c] >= 33 /\ ValidSetup /\ given \in Setups
  BY <1>1, <1>3 DEF RunInv, Types, FinishedInv, PlacesInv, SetupChecked
<1>5. PlacesInv'
  BY <1>2, Staying
<1>6. Types'
  <2>1. shutdown[s] + 1 \in Nat
    BY <1>3 DEF RunInv, Types
  <2>. QED  BY <1>1, <1>2, <2>1, SameSetup DEF RunInv, Types
<1>7. CallsInv' /\ OpenedInv' /\ FinishedInv'
  BY <1>1, <1>2, SameSetup DEF RunInv, CallsInv, OpenedInv, FinishedInv
<1>8. CountInv'
  <2>. SUFFICES ASSUME NEW t \in Servers
                PROVE  shutdown'[t] = Cardinality((Counted(t))')
    BY SameSetup, <1>2 DEF CountInv
  <2>1. CASE t = s
    <3>1. (Counted(s))' = Counted(s) \cup {c} /\ c \notin Counted(s)
      BY <1>1, <1>2, <1>4, SameSetup DEF Counted
    <3>2. IsFiniteSet(Counted(s)) /\ shutdown[s] = Cardinality(Counted(s))
      BY <1>3, <1>4, CountedClients DEF RunInv, CountInv
    <3>3. Cardinality((Counted(s))') = shutdown[s] + 1
      BY <3>1, <3>2, FS_AddElement
    <3>. QED  BY <2>1, <3>3, <1>1, <1>3 DEF RunInv, Types
  <2>2. CASE t # s
    <3>1. (Counted(t))' = Counted(t)
      BY <2>2, <1>1, <1>2, <1>4, SameSetup DEF Counted
    <3>. QED  BY <2>2, <3>1, <1>1, <1>3 DEF RunInv, Types, CountInv
  <2>. QED  BY <2>1, <2>2
<1>9. JoinedInv'
  BY <1>1, <1>2, SameSetup DEF RunInv, JoinedInv
<1>. QED  BY <1>5, <1>6, <1>7, <1>8, <1>9 DEF RunInv

\* The invariant at the start.
LEMMA InitEstablishes ==
    ASSUME Init PROVE Inv
<1>1. /\ given \in Setups /\ Ranks \subseteq Nat
      /\ Servers \subseteq Ranks /\ Clients \subseteq Ranks
  BY Sizes DEF Init
<1>2. \A r \in Ranks : at[r] = 1 /\ shutdown[r] = 0 /\ call[r] = "none"
  BY DEF Init
<1>3. Places
  BY DEF Init, Places
<1>4. /\ SetupChecked /\ AllAgree /\ AllJoined /\ InPhase
  BY <1>1, <1>2 DEF SetupChecked, AllAgree, AllJoined, InPhase
<1>5. AllUp /\ InStep
  BY <1>1, <1>2 DEF AllUp, InStep, Up, PhaseBarriers
<1>6. Types
  <2>1. 0 \in 0..NRequests
    BY SetupsAssumption
  <2>. QED  BY <2>1 DEF Init, Types
<1>7. opened = {} /\ finished = {}
  BY DEF Init
<1>8. CallsInv /\ OpenedInv /\ FinishedInv /\ JoinedInv
  BY <1>1, <1>2, <1>7 DEF CallsInv, OpenedInv, FinishedInv, JoinedInv
<1>9. ASSUME NEW s PROVE Counted(s) = {}
  <2>1. \A c \in Clients : ~(at[c] >= 33)
    BY <1>1, <1>2
  <2>. QED  BY <2>1 DEF Counted
<1>10. CountInv
  BY <1>1, <1>2, <1>9, FS_EmptySet DEF CountInv
<1>. QED  BY <1>1, <1>3, <1>4, <1>5, <1>6, <1>8, <1>10 DEF Init, Inv,
             PlacesInv, RunInv, FailedInv

\* A step that ends the run keeps it ...
LEMMA StutterKeeps ==
    ASSUME PlacesInv, RunInv,
           UNCHANGED <<given, at, iter, call, opened, shutdown, finished>>
    PROVE  PlacesInv' /\ RunInv'
<1>1. PlacesInv'
  BY Staying
<1>2. RunInv'
  BY SameSetup DEF RunInv, Types, CallsInv, OpenedInv, FinishedInv, CountInv,
     JoinedInv, Counted
<1>. QED  BY <1>1, <1>2

\* ... every step of a process does ...
LEMMA ProcessKeeps ==
    ASSUME PlacesInv, RunInv, NEW r \in Ranks, Process(r)
    PROVE  PlacesInv' /\ RunInv'
<1>1. CASE Load(r)
  BY <1>1, LoadQuiet, QuietKeeps DEF Load
<1>2. CASE Verify(r)
  BY <1>2, VerifyQuiet, QuietKeeps DEF Verify
<1>3. CASE Collective(r)
  BY <1>3, CollectiveQuiet, QuietKeeps DEF Collective
<1>4. CASE Branch(r)
  BY <1>4, BranchQuiet, QuietKeeps DEF Branch
<1>5. CASE Call(r)
  BY <1>5, CallKeeps
<1>6. CASE Return(r)
  BY <1>6, ReturnKeeps
<1>7. CASE LoopEnd(r)
  BY <1>7, LoopEndKeeps
<1>8. CASE Shutdown(r)
  BY <1>8, ShutdownKeeps
<1>9. CASE Join(r)
  BY <1>9, JoinQuiet, QuietKeeps DEF Join
<1>10. CASE Start(r) \/ Teardown(r)
  BY <1>10, ProceedQuiet, QuietKeeps DEF Start, Teardown
<1>11. CASE Finalize(r)
  BY <1>11, FinalizeQuiet, QuietKeeps DEF Finalize
<1>12. CASE Refuse(r)
  BY <1>12, StutterKeeps DEF Refuse
<1>. QED  BY <1>1, <1>2, <1>3, <1>4, <1>5, <1>6, <1>7, <1>8, <1>9,
             <1>10, <1>11, <1>12 DEF Process

\* ... and so does every step.
LEMMA StepKeeps ==
    ASSUME Inv, [Next]_vars PROVE Inv'
<1>1. PlacesInv /\ RunInv /\ FailedInv /\ missed \subseteq Servers
  BY DEF Inv
<1>2. CASE UNCHANGED vars
  BY <1>1, <1>2, StutterKeeps, SameSetup DEF Inv, vars, FailedInv
<1>3. ASSUME NEW r \in Ranks, Process(r)
      PROVE  Inv'
  <2>1. PlacesInv' /\ RunInv'
    BY <1>1, <1>3, ProcessKeeps
  <2>2. failed' \in {failed, "MPI_Abort", "killed"} /\ UNCHANGED <<given, missed>>
    BY <1>3 DEF Process, Load, Verify, Collective, Branch, Call, Return,
       Refuse, LoopEnd, Shutdown, Join, Killed, Start, Teardown, Finalize
  <2>. QED  BY <1>1, <2>1, <2>2, SameSetup DEF Inv, FailedInv
<1>4. ASSUME NEW r \in Ranks, Serve(r)
      PROVE  Inv'
  <2>1. PlacesInv' /\ RunInv'
    BY <1>1, <1>4, ServeKeeps
  <2>. QED  BY <1>1, <1>4, <2>1, SameSetup DEF Inv, FailedInv, Serve
<1>5. ASSUME NEW r \in Ranks, CountFinished(r)
      PROVE  Inv'
  <2>1. PlacesInv' /\ RunInv'
    BY <1>1, <1>5, CountKeeps
  <2>2. r \in Servers
    BY <1>1, <1>5, RankAt, ServingPlaces DEF CountFinished
  <2>3. missed' \subseteq missed \cup {r} /\ UNCHANGED <<given, failed>>
    BY <1>5 DEF CountFinished
  <2>. QED  BY <1>1, <2>1, <2>2, <2>3, SameSetup DEF Inv, FailedInv
<1>6. CASE Terminate
  BY <1>1, <1>6, StutterKeeps, SameSetup DEF Inv, FailedInv, Terminate
<1>. QED  BY <1>2, <1>3, <1>4, <1>5, <1>6 DEF Next, Move, Ended

\* The inductive invariant holds throughout.
LEMMA Invariance == Spec => []Inv
<1>1. Init => Inv
  BY InitEstablishes
<1>2. Inv /\ [Next]_vars => Inv'
  BY StepKeeps
<1>. QED  BY <1>1, <1>2, PTL DEF Spec

\* Type correctness of a whole run.
THEOREM TypeCorrect == Spec => []TypeOK
<1>1. Inv => TypeOK
  BY DEF Inv, FailedInv, PlacesInv, Places, RunInv, Types, TypeOK
<1>. QED  BY <1>1, Invariance, PTL

\* Whoever has business with a forwarder is past the barrier after the start,
\* and not yet counted or not yet at the shutdown message.
LEMMA Outliving ==
    ASSUME Inv PROVE ServersOutliveClients
<1>. SUFFICES ASSUME NEW c \in Clients,
                     call[c] # "none" \/ c \in opened \/ c \in finished
              PROVE  Serving(ServerOf(c))
  BY DEF ServersOutliveClients
<1>. DEFINE s == ServerOf(c)
<1>0. PlacesInv /\ RunInv /\ given \in Setups
  BY DEF Inv, PlacesInv
<1>1. c \in Ranks /\ at[c] \in Nat /\ at[c] > 8 /\ c \notin Servers
  BY <1>0, ClientDoes DEF RunInv, CallsInv, OpenedInv, FinishedInv, CallPlaces
<1>2. s \in Servers /\ s \in Ranks
  <2>1. ValidSetup
    BY <1>0, <1>1 DEF PlacesInv, SetupChecked
  <2>2. c \in simulation_forwarders..(world_size - 1)
    BY <1>0, Sizes DEF Clients, Ranks
  <2>3. s \in 0..(simulation_forwarders - 1)
    BY <1>0, <2>1, <2>2, Sizes, ClientsHaveServers DEF ValidSetup, ServerOf
  <2>4. 0..(simulation_forwarders - 1) \subseteq Servers
    BY <1>0, <2>1, Sizes DEF ValidSetup, Servers, Ranks
  <2>. QED  BY <1>0, <2>3, <2>4, Sizes
<1>3. at[s] >= 9 /\ at[s] \in Nat
  BY <1>0, <1>1, <1>2 DEF PlacesInv, Places, AllUp, Up
<1>4. ~(at[s] > 10)
  <2>. SUFFICES ASSUME at[s] > 10 PROVE FALSE
    OBVIOUS
  <2>1. at[c] >= 33 /\ c \notin finished
    BY <1>0, <1>2 DEF RunInv, JoinedInv
  <2>2. c \notin opened
    BY <1>0, <1>1, <2>1 DEF RunInv, OpenedInv
  <2>3. call[c] = "none"
    BY <1>0, <1>1, <2>1 DEF RunInv, CallsInv, CallPlaces
  <2>. QED  BY <2>1, <2>2, <2>3
<1>. QED  BY <1>0, <1>2, <1>3, <1>4, ServingPlaces

\* A forwarder serves from before the first request of its clients to after
\* the last message of theirs (main.c, the barriers around the client branch).
THEOREM ServersOutlive == Spec => []ServersOutliveClients
  BY Outliving, Invariance, PTL

\* Past the barrier of the forwarders nobody serves and no client goes on.
LEMMA TeardownLast ==
    ASSUME Inv PROVE NoTeardownWhileServing
<1>. SUFFICES ASSUME NEW s \in Servers, Does(s, "teardown") \/ Past(s, "teardown")
              PROVE  /\ \A t \in Servers : ~Serving(t)
                     /\ \A c \in Clients : Past(c, "shutdown")
  BY DEF NoTeardownWhileServing
<1>0. PlacesInv /\ RunInv /\ given \in Setups /\ Places
  BY DEF Inv, PlacesInv
<1>1. s \in Ranks /\ at[s] \in Nat /\ at[s] > 11
  BY <1>0, RankAt, Sizes, ServerPast DEF Does, IsServerPlace
<1>2. \A t \in Servers : t \in Ranks /\ at[t] \in Nat /\ at[t] >= 11
  BY <1>0, <1>1, Sizes DEF PlacesInv, Places, AllJoined
<1>3. \A t \in Servers : ~Serving(t)
  BY <1>0, <1>2, ServingPlaces
<1>4. ASSUME NEW c \in Clients PROVE Past(c, "shutdown")
  <2>1. ValidSetup
    BY <1>0, <1>1 DEF PlacesInv, SetupChecked
  <2>2. c \in simulation_forwarders..(world_size - 1)
    BY <1>0, Sizes DEF Clients, Ranks
  <2>3. ServerOf(c) \in 0..(simulation_forwarders - 1)
    BY <1>0, <2>1, <2>2, Sizes, ClientsHaveServers DEF ValidSetup, ServerOf
  <2>4. ServerOf(c) \in Servers
    BY <1>0, <2>1, <2>3, Sizes DEF ValidSetup, Servers, Ranks
  <2>5. at[c] >= 33 /\ at[c] \in Nat
    BY <1>0, <1>2, <2>4, ClientDoes DEF RunInv, JoinedInv
  <2>. QED  BY <1>0, <2>5, ClientPast
<1>. QED  BY <1>3, <1>4

\* No forwarder leaves PVFS and AGIOS before the last one has served (main.c,
\* the barrier of the forwarders).
THEOREM TeardownIsLast == Spec => []NoTeardownWhileServing
  BY TeardownLast, Invariance, PTL

\* A client in a loop is between two barriers of the clients, as all are.
LEMMA ApartFromOthers ==
    ASSUME Inv PROVE TimedAlone
<1>. SUFFICES ASSUME NEW c \in Clients, NEW d \in Clients, InLoop(c)
              PROVE  /\ ~Does(d, "open") /\ ~Does(d, "close")
                     /\ (InLoop(d) => Step(d).do = Step(c).do)
  BY DEF TimedAlone
<1>0. PlacesInv /\ at[c] \in {12, 23} /\ at[c] \in Nat /\ at[d] \in Nat
  BY ClientDoes DEF Inv
<1>1. CASE at[c] = 12
  <2>1. PhaseOf(11) \in given.phases /\ PhaseOf(14) \in given.phases
    BY <1>0, <1>1 DEF PlacesInv, InPhase, PhaseOf
  <2>2. at[d] >= 11 /\ ~(at[d] > 14)
    BY <1>0, <1>1, <2>1 DEF PlacesInv, InStep, PhaseBarriers
  <2>. QED  BY <1>0, <1>1, <2>2, ClientDoes
<1>2. CASE at[c] = 23
  <2>1. PhaseOf(22) \in given.phases /\ PhaseOf(25) \in given.phases
    BY <1>0, <1>2 DEF PlacesInv, InPhase, PhaseOf
  <2>2. at[d] >= 22 /\ ~(at[d] > 25)
    BY <1>0, <1>2, <2>1 DEF PlacesInv, InStep, PhaseBarriers
  <2>3. Step(c).do = "read" /\ (InLoop(d) => Step(d).do = "read")
    BY <1>0, <1>2, <2>2, ClientDoes
  <2>. QED  BY <1>0, <1>2, <2>2, <2>3, ClientDoes
<1>. QED  BY <1>0, <1>1, <1>2

\* What is timed is transfers alone (main.c, the barriers around the loops).
THEOREM TimingIsAlone == Spec => []TimedAlone
  BY ApartFromOthers, Invariance, PTL

\* A client that opens its file again is past the barrier after the close.
LEMMA ReadsLater ==
    ASSUME Inv PROVE ReadsFollowWrites
<1>. SUFFICES ASSUME NEW c \in Clients, Past(c, "close"), Does(c, "open") \/ InLoop(c),
                     NEW d \in Clients, d \in opened
              PROVE  Past(d, "close")
  BY DEF ReadsFollowWrites
<1>0. PlacesInv /\ RunInv /\ given \in Setups /\ at[c] \in Nat /\ at[d] \in Nat
  BY ClientDoes DEF Inv, PlacesInv
<1>1. at[c] \in {21, 23}
  BY <1>0, ClientDoes, ClientPast
<1>2. at[d] \in 10..18 \cup 21..26
  BY <1>0 DEF RunInv, OpenedInv
<1>3. at[d] > 18
  <2>. SUFFICES ASSUME at[d] <= 18 PROVE FALSE
    BY <1>0
  <2>1. PhaseOf(19) \in given.phases
    BY <1>0, <1>2 DEF PlacesInv, InPhase, PhaseOf
  <2>2. at[d] >= 19
    BY <1>0, <1>1, <2>1 DEF PlacesInv, InStep, PhaseBarriers
  <2>. QED  BY <1>0, <2>2
<1>. QED  BY <1>0, <1>3, ClientPast

\* Files are opened for reading when all that were written are closed (main.c,
\* the barrier after the close).
THEOREM ReadsAreLater == Spec => []ReadsFollowWrites
  BY ReadsLater, Invariance, PTL

\* Nobody passes the first communicator without all.
LEMMA Together ==
    ASSUME Inv PROVE NoneRunsAlone
<1>. SUFFICES ASSUME NEW r \in Ranks, at[r] = Gone, NEW m \in Ranks
              PROVE  at[m] <= Len(Agreement) /\ call[m] = "none"
  BY DEF NoneRunsAlone
<1>0. PlacesInv /\ RunInv /\ at[m] \in Nat
  BY RankAt DEF Inv
<1>1. Len(Agreement) = 7
  BY DEF Agreement
<1>2. ~(at[m] > 3)
  BY <1>0 DEF PlacesInv, AllAgree, Gone
<1>3. call[m] = "none"
  BY <1>0, <1>2 DEF RunInv, CallsInv, CallPlaces
<1>. QED  BY <1>0, <1>1, <1>2, <1>3

\* No rank begins its part if one has no configuration file (main.c, the
\* communicators made after loading).
THEOREM NoRankRunsAlone == Spec => []NoneRunsAlone
  BY Together, Invariance, PTL

\* How many steps on the world are entered before and at the last one.
LEMMA LastCounts ==
    /\ Cardinality({k \in ServerWorld : k <= 13}) = 7
    /\ Cardinality({k \in ClientWorld : k <= 34}) = 7
<1>1. IsFiniteSet(3..7) /\ Cardinality(3..7) = 5 /\ Cardinality(3..8) = 6
  BY Intervals
<1>2. {k \in ServerWorld : k <= 13} = ((3..7) \cup {9}) \cup {13}
  BY DEF ServerWorld
<1>3. {k \in ClientWorld : k <= 34} = (3..8) \cup {34} /\ 34 \notin 3..8
  BY DEF ClientWorld
<1>4. IsFiniteSet((3..7) \cup {9}) /\ Cardinality((3..7) \cup {9}) = 6
  <2>1. 9 \notin 3..7
    OBVIOUS
  <2>. QED  BY <2>1, <1>1, FS_AddElement
<1>5. 13 \notin (3..7) \cup {9}
  OBVIOUS
<1>6. Cardinality(((3..7) \cup {9}) \cup {13}) = 7
  BY <1>4, <1>5, FS_AddElement
<1>7. IsFiniteSet(3..8)
  <2>1. 3..8 \subseteq 3..34 /\ IsFiniteSet(3..34)
    BY Intervals
  <2>. QED  BY <2>1, FS_Subset
<1>8. Cardinality((3..8) \cup {34}) = 7
  <2>1. Cardinality((3..8) \cup {34}) = Cardinality(3..8) + 1
    BY <1>3, <1>7, FS_AddElement
  <2>. QED  BY <1>1, <2>1
<1>. QED  BY <1>2, <1>3, <1>6, <1>8

\* What a rank enters on the world, by its program.
WorldOf(r) == IF r \in Servers THEN ServerWorld ELSE ClientWorld
WorldUpTo(r, n) == {k \in WorldOf(r) : k <= n}
LEMMA EntersWorld ==
    ASSUME PlacesInv, NEW r \in Ranks
    PROVE  /\ Entered(r, "world") = Cardinality(WorldUpTo(r, at[r]))
           /\ \A n \in Nat : IsFiniteSet(WorldUpTo(r, n))
<1>1. given \in Setups /\ at[r] \in Nat
      /\ (r \in Servers <=> r \notin Clients)
  BY Sizes DEF PlacesInv, Places
<1>2. IsFiniteSet(3..34)
  BY Intervals
<1>3. \A n \in Nat : WorldUpTo(r, n) \subseteq 3..34
  BY DEF WorldUpTo, WorldOf, ServerWorld, ClientWorld
<1>. QED  BY <1>1, <1>2, <1>3, WhatEntered, FS_Subset DEF WorldUpTo, WorldOf

\* A rank has entered what rank r has when it is at the place that belongs, in
\* its own program, to the place of r.
LEMMA WorldMeets ==
    ASSUME PlacesInv, NEW r \in Ranks, NEW m \in Ranks, NEW n \in Nat, at[m] >= n,
           Cardinality(WorldUpTo(m, n)) = Cardinality(WorldUpTo(r, at[r]))
    PROVE  Entered(m, "world") >= Entered(r, "world")
<1>1. at[m] \in Nat /\ at[r] \in Nat
  BY DEF PlacesInv, Places
<1>2. WorldUpTo(m, n) \subseteq WorldUpTo(m, at[m])
  <2>1. WorldOf(m) \subseteq Nat
    BY DEF WorldOf, ServerWorld, ClientWorld
  <2>. QED  BY <1>1, <2>1 DEF WorldUpTo
<1>3. IsFiniteSet(WorldUpTo(m, at[m]))
  BY <1>1, EntersWorld
<1>4. Cardinality(WorldUpTo(m, n)) <= Cardinality(WorldUpTo(m, at[m]))
  BY <1>2, <1>3, FS_Subset
<1>5. /\ Entered(m, "world") = Cardinality(WorldUpTo(m, at[m]))
      /\ Entered(r, "world") = Cardinality(WorldUpTo(r, at[r]))
  BY EntersWorld
<1>. QED  BY <1>4, <1>5

\* In the agreement all programs are one ...
LEMMA AgreementMeets ==
    ASSUME PlacesInv, NEW r \in Ranks, at[r] \in 3..7,
           \A m \in Ranks : at[m] >= at[r]
    PROVE  AllEntered("world", Entered(r, "world"))
<1>. SUFFICES ASSUME NEW m \in Ranks
              PROVE  Entered(m, "world") >= Entered(r, "world")
  BY DEF AllEntered, Members
<1>1. at[m] \in Nat /\ at[r] \in Nat /\ at[m] >= at[r]
  BY DEF PlacesInv, Places
<1>2. \A q : WorldUpTo(q, at[r]) = 3..at[r]
  BY DEF WorldUpTo, WorldOf, ServerWorld, ClientWorld
<1>. QED  BY <1>1, <1>2, WorldMeets

\* ... later each has its own place for the barrier after the start ...
LEMMA StartMeets ==
    ASSUME PlacesInv, NEW r \in Ranks, at[r] = Up(r),
           \A m \in Ranks : at[m] >= Up(m)
    PROVE  AllEntered("world", Entered(r, "world"))
<1>. SUFFICES ASSUME NEW m \in Ranks
              PROVE  Entered(m, "world") >= Entered(r, "world")
  BY DEF AllEntered, Members
<1>1. \A q : Up(q) \in Nat /\ Cardinality(WorldUpTo(q, Up(q))) = 6
  BY WorldCounts DEF WorldUpTo, WorldOf, Up
<1>. QED  BY <1>1, WorldMeets

\* ... and for the barrier before MPI_Finalize.
End(r) == IF r \in Servers THEN 13 ELSE 34
LEMMA EndMeets ==
    ASSUME PlacesInv, NEW r \in Ranks, at[r] = End(r),
           \A m \in Ranks : at[m] >= End(m)
    PROVE  AllEntered("world", Entered(r, "world"))
<1>. SUFFICES ASSUME NEW m \in Ranks
              PROVE  Entered(m, "world") >= Entered(r, "world")
  BY DEF AllEntered, Members
<1>1. \A q : End(q) \in Nat /\ Cardinality(WorldUpTo(q, End(q))) = 7
  BY LastCounts DEF WorldUpTo, WorldOf, End
<1>. QED  BY <1>1, WorldMeets

\* The rearmost client finds the others at its barrier or past it.
LEMMA ClientsMeet ==
    ASSUME PlacesInv, NEW c \in Clients, \A d \in Clients : at[d] >= at[c]
    PROVE  AllEntered("clients", Entered(c, "clients"))
<1>. SUFFICES ASSUME NEW d \in Clients
              PROVE  Entered(d, "clients") >= Entered(c, "clients")
  BY DEF AllEntered, Members
<1>. DEFINE UpTo(q) == {k \in ClientCollectives : k <= at[q]}
<1>1. at[d] \in Nat /\ at[c] \in Nat /\ at[d] >= at[c]
  BY Sizes DEF PlacesInv, Places
<1>2. ClientCollectives \subseteq 3..34
  BY DEF ClientCollectives, ClientBarriers
<1>3. UpTo(c) \subseteq UpTo(d) /\ UpTo(d) \subseteq 3..34
  <2>1. \A k \in ClientCollectives : k \in Nat
    BY <1>2
  <2>2. \A k \in ClientCollectives : k <= at[c] => k <= at[d]
    BY <1>1, <2>1
  <2>. QED  BY <1>2, <2>2
<1>4. IsFiniteSet(UpTo(d))
  BY <1>3, Intervals, FS_Subset
<1>5. Cardinality(UpTo(c)) <= Cardinality(UpTo(d))
  BY <1>3, <1>4, FS_Subset
<1>6. /\ Entered(c, "clients") = Cardinality(UpTo(c))
      /\ Entered(d, "clients") = Cardinality(UpTo(d))
  BY <1>1, WhatEntered, Sizes DEF PlacesInv
<1>. QED  BY <1>5, <1>6

\* The same for the forwarders.
LEMMA ForwardersMeet ==
    ASSUME PlacesInv, NEW s \in Servers, at[s] = 11,
           \A t \in Servers : at[t] >= 11
    PROVE  AllEntered("forwarding", Entered(s, "forwarding"))
<1>. SUFFICES ASSUME NEW t \in Servers
              PROVE  Entered(t, "forwarding") >= Entered(s, "forwarding")
  BY DEF AllEntered, Members
<1>1. /\ given \in Setups /\ at[t] \in Nat /\ at[t] >= 11
      /\ t \in Ranks /\ s \in Ranks /\ at[s] \in Nat
  BY Sizes DEF PlacesInv, Places
<1>2. {k \in {11} : k <= at[t]} = {11} /\ {k \in {11} : k <= at[s]} = {11}
  BY <1>1
<1>3. /\ Entered(t, "forwarding") = Cardinality({11})
      /\ Entered(s, "forwarding") = Cardinality({11})
  BY <1>1, <1>2, WhatEntered
<1>4. Cardinality({11}) = 1
  BY FS_Singleton
<1>. QED  BY <1>3, <1>4

----------------------------------------------------------------------------
(* No rank waits in vain. *)

\* What a rank can do of its own accord: the guards of the actions of Process,
\* but for what ends the run.
Free == {"load", "verify", "if_write", "if_read", "shutdown", "start",
         "teardown", "finalize"}
MayGoOn(r) ==
    \/ Step(r).do \in Free
    \/ /\ Step(r).on # "none"
       /\ Waits(Step(r), r) => AllEntered(Step(r).on, Entered(r, Step(r).on))
    \/ Asks(r) /\ call[r] = "none"
    \/ call[r] = "answered"
    \/ InLoop(r) /\ iter[r] >= NRequests
    \/ Does(r, "join") /\ AllFinished(r) /\ r \notin missed

\* What the threads of a forwarder can: the guards of Serve and CountFinished.
MayServe(s) ==
    /\ Serving(s)
    /\ \/ \E c \in Clients : ServerOf(c) = s /\ call[c] = "sent"
       \/ \E c \in finished : ServerOf(c) = s

\* Unless a rank left without MPI_Finalize, or all are through it, or a forwarder
\* waits for a thread that missed the shutdown and all clients are done, some
\* rank can go on.
SomeRankCan == \E r \in Ranks : MayGoOn(r) \/ MayServe(r)
NoDeadlock ==
    failed = "no" => \/ SomeRankCan
                     \/ \E r \in Ranks : at[r] = Gone
                     \/ Hung
                     \/ \A r \in Ranks : Finalized(r)

\* Until all have agreed, the rearmost rank can go on.
LEMMA GoesOnAgreeing ==
    ASSUME PlacesInv, NEW r \in Ranks, at[r] # Gone, at[r] <= 7,
           \A m \in Ranks : at[m] >= at[r]
    PROVE  MayGoOn(r)
<1>1. at[r] \in 1..7
  BY RankAt DEF Gone
<1>2. CASE at[r] \in {1, 2}
  BY <1>2, RankAt DEF MayGoOn, Free, IsServerPlace, IsClientPlace
<1>3. CASE at[r] \in 3..7
  <2>1. Step(r).on = "world"
    BY <1>3, RankAt DEF IsServerPlace, IsClientPlace
  <2>. QED  BY <1>3, <2>1, AgreementMeets DEF MayGoOn
<1>. QED  BY <1>1, <1>2, <1>3

\* Until all are past the barrier after the start, one that is not can.
LEMMA GoesOnStarting ==
    ASSUME PlacesInv, \A m \in Ranks : at[m] >= 8,
           NEW q \in Ranks, at[q] <= Up(q)
    PROVE  \E r \in Ranks : MayGoOn(r)
<1>1. CASE \E s \in Servers : at[s] = 8
  <2>1. PICK s \in Servers : at[s] = 8
    BY <1>1
  <2>2. s \in Ranks
    BY Sizes DEF PlacesInv
  <2>3. Step(s).do = "start"
    BY <2>1, <2>2, RankAt DEF IsServerPlace
  <2>. QED  BY <2>2, <2>3 DEF MayGoOn, Free
<1>2. CASE \A s \in Servers : at[s] # 8
  <2>1. \A m \in Ranks : at[m] \in Nat
    BY DEF PlacesInv, Places
  <2>2. \A m \in Ranks : at[m] >= Up(m)
    BY <1>2, <2>1 DEF Up
  <2>3. at[q] = Up(q)
    BY <2>1, <2>2 DEF Up
  <2>4. Step(q).on = "world"
    BY <2>3, RankAt DEF IsServerPlace, IsClientPlace, Up
  <2>. QED  BY <2>2, <2>3, <2>4, StartMeets DEF MayGoOn
<1>. QED  BY <1>1, <1>2

\* The rank that a client past the agreement turns to.
LEMMA TurnsToRank ==
    ASSUME PlacesInv, NEW c \in Clients, at[c] > 2
    PROVE  ServerOf(c) \in Servers /\ ServerOf(c) \in Ranks
<1>1. /\ given \in Setups /\ c \in Ranks /\ simulation_forwarders \in Nat \ {0}
      /\ world_size \in Nat \ {0}
  BY Sizes DEF PlacesInv
<1>2. ValidSetup
  BY <1>1 DEF PlacesInv, SetupChecked
<1>3. c \in simulation_forwarders..(world_size - 1)
  BY <1>1 DEF Clients, Ranks
<1>4. ServerOf(c) \in 0..(simulation_forwarders - 1)
  BY <1>1, <1>2, <1>3, ClientsHaveServers DEF ValidSetup, ServerOf
<1>5. 0..(simulation_forwarders - 1) \subseteq Servers
  BY <1>1, <1>2 DEF ValidSetup, Servers, Ranks
<1>. QED  BY <1>1, <1>4, <1>5, Sizes

\* While a client is on its way to the last barrier, the rearmost can go on or
\* its forwarder can answer it.
LEMMA GoesOnServed ==
    ASSUME Inv, NEW c \in Clients, at[c] > 8, at[c] < 34,
           \A d \in Clients : at[d] >= at[c]
    PROVE  SomeRankCan
<1>0. PlacesInv /\ Types /\ c \in Ranks /\ c \notin Servers /\ at[c] \in Nat
  BY Sizes DEF Inv, PlacesInv, Places, RunInv
<1>1. IsClientPlace(Step(c), at[c])
  BY <1>0, RankAt
<1>2. at[c] \in {9, 20, 32} \cup ClientCollectives \cup CallPlaces
  BY <1>0 DEF ClientCollectives, ClientBarriers, CallPlaces
<1>3. CASE at[c] \in {9, 20, 32}
  <2>1. Step(c).do \in {"if_write", "if_read", "shutdown"}
    BY <1>1, <1>3 DEF IsClientPlace
  <2>. QED  BY <1>0, <2>1 DEF SomeRankCan, MayGoOn, Free
<1>4. CASE at[c] \in ClientCollectives
  <2>1. Step(c).on = "clients"
    BY <1>1, <1>4 DEF IsClientPlace
  <2>2. AllEntered("clients", Entered(c, "clients"))
    BY <1>0, ClientsMeet
  <2>. QED  BY <1>0, <2>1, <2>2 DEF SomeRankCan, MayGoOn
<1>5. CASE at[c] \in CallPlaces
  <2>1. call[c] \in {"none", "sent", "answered"}
    BY <1>0 DEF Types
  <2>2. CASE call[c] = "answered"
    BY <1>0, <2>2 DEF SomeRankCan, MayGoOn
  <2>3. CASE call[c] = "sent"
    <3>1. Serving(ServerOf(c))
      BY <2>3, Outliving DEF ServersOutliveClients
    <3>2. MayServe(ServerOf(c))
      BY <2>3, <3>1 DEF MayServe
    <3>. QED  BY <3>2, TurnsToRank, <1>0 DEF SomeRankCan
  <2>4. CASE call[c] = "none"
    <3>1. CASE at[c] \in {10, 18, 21, 26}
      <4>1. Step(c).do \in {"open", "close"}
        BY <1>1, <3>1 DEF IsClientPlace
      <4>. QED  BY <1>0, <2>4, <4>1 DEF SomeRankCan, MayGoOn, Asks
    <3>2. CASE at[c] \in {12, 23}
      <4>1. InLoop(c)
        BY <1>1, <3>2 DEF IsClientPlace, InLoop
      <4>2. iter[c] \in Nat /\ NRequests \in Nat
        BY <1>0, SetupsAssumption DEF Types
      <4>3. iter[c] >= NRequests \/ Asks(c)
        BY <4>1, <4>2 DEF Asks
      <4>. QED  BY <1>0, <2>4, <4>1, <4>3 DEF SomeRankCan, MayGoOn
    <3>. QED  BY <1>5, <3>1, <3>2 DEF CallPlaces
  <2>. QED  BY <2>1, <2>2, <2>3, <2>4
<1>. QED  BY <1>2, <1>3, <1>4, <1>5

\* Who has got through MPI_Finalize.
LEMMA FinalizedPlaces ==
    ASSUME given \in Setups, NEW r \in Ranks, at[r] \in Nat
    PROVE  at[r] > End(r) + 1 => Finalized(r)
<1>1. CASE r \in Servers
  <2>1. /\ 14 \in DOMAIN Program(r) /\ Program(r)[14].do = "finalize"
    BY <1>1, ServerEntries, Programs DEF Is
  <2>. QED  BY <1>1, <2>1 DEF End, Finalized, Past
<1>2. CASE r \in Clients
  <2>1. /\ 35 \in DOMAIN Program(r) /\ Program(r)[35].do = "finalize"
    BY <1>2, ClientEntries, Programs DEF Is
  <2>2. r \notin Servers
    BY <1>2, Sizes
  <2>. QED  BY <2>1, <2>2 DEF End, Finalized, Past
<1>. QED  BY <1>1, <1>2, Sizes

\* A forwarder that has counted all its clients has all the messages it waits for.
LEMMA AllAreCounted ==
    ASSUME given \in Setups, ValidSetup, NEW s \in Servers,
           shutdown[s] = Cardinality({c \in Clients : ServerOf(c) = s})
    PROVE  AllFinished(s)
<1>. DEFINE F == simulation_forwarders
            W == world_size
<1>1. F \in Nat \ {0} /\ W \in Nat /\ W >= 2 * F /\ W % F = 0 /\ s \in 0..(F - 1)
  BY Sizes DEF ValidSetup, Servers, Ranks
<1>2. /\ Cardinality(ClientsOf(s, F, W)) = ShutdownCount(F, W)
      /\ Cardinality(ClientsOf(s, F, W)) \in Nat
  BY <1>1, ServersShareClients, FS_CardinalityType
<1>3. Clients = F..(W - 1)
  BY <1>1 DEF Clients, Ranks
<1>4. ClientsOf(s, F, W) = {c \in Clients : ServerOf(c) = s}
  BY <1>3 DEF ClientsOf, ServerOf
<1>. QED  BY <1>2, <1>4 DEF AllFinished

\* When the clients are through, a forwarder that has not joined its threads
\* has messages to count, or has counted enough, and unless one of the threads
\* sleeps for good it joins them.
LEMMA GoesOnJoining ==
    ASSUME Inv, NEW s \in Servers, at[s] = 10, s \notin missed,
           \A c \in Clients : at[c] >= 34
    PROVE  SomeRankCan
<1>0. /\ PlacesInv /\ given \in Setups /\ s \in Ranks /\ CountInv
      /\ finished \subseteq Clients
  BY Sizes DEF Inv, PlacesInv, RunInv, Types
<1>1. Serving(s)
  BY <1>0, ServingPlaces
<1>2. CASE \E c \in finished : ServerOf(c) = s
  BY <1>0, <1>1, <1>2 DEF SomeRankCan, MayServe
<1>3. CASE ~ \E c \in finished : ServerOf(c) = s
  <2>1. ValidSetup
    BY <1>0 DEF PlacesInv, SetupChecked
  <2>2. \A c \in Clients : at[c] \in Nat /\ at[c] >= 34
    BY <1>0, Sizes DEF PlacesInv, Places
  <2>3. Counted(s) = {c \in Clients : ServerOf(c) = s}
    BY <1>3, <2>2 DEF Counted
  <2>4. AllFinished(s)
    BY <1>0, <2>1, <2>3, AllAreCounted DEF CountInv
  <2>5. Step(s).do = "join"
    BY <1>0, RankAt DEF IsServerPlace
  <2>. QED  BY <1>0, <2>4, <2>5 DEF SomeRankCan, MayGoOn, Does
<1>. QED  BY <1>2, <1>3

\* If one does, and nobody else is still to join, the run hangs.
LEMMA HangsJoining ==
    ASSUME Inv, NEW t \in Servers, at[t] = 10,
           \A s \in Servers : at[s] = 10 => s \in missed,
           \A s \in Servers : at[s] > 9, \A c \in Clients : at[c] >= 34
    PROVE  Hung
<1>1. PlacesInv /\ given \in Setups
  BY DEF Inv, PlacesInv
<1>2. \A s \in Servers : at[s] \in {10, 11} /\ IsServerPlace(Step(s), at[s])
  <2>. SUFFICES ASSUME NEW s \in Servers
                PROVE  at[s] \in {10, 11} /\ IsServerPlace(Step(s), at[s])
    OBVIOUS
  <2>1. s \in Ranks /\ at[s] \in Nat /\ at[s] > 9
    BY <1>1, RankAt, Sizes
  <2>2. ~(at[s] > 11)
    BY <1>1 DEF PlacesInv, AllJoined
  <2>. QED  BY <1>1, <2>1, <2>2, RankAt
<1>3. \A s \in Servers : at[s] = 10 => Sleeps(s)
  BY <1>2 DEF Sleeps, Does, IsServerPlace
<1>4. \A s \in Servers : at[s] = 11 => Step(s).on = "forwarding"
  BY <1>2 DEF IsServerPlace
<1>5. ASSUME NEW c \in Clients PROVE Past(c, "shutdown")
  <2>1. at[c] \in Nat /\ at[c] >= 34
    BY <1>1, ClientDoes
  <2>. QED  BY <1>1, <2>1, ClientPast
<1>. QED  BY <1>2, <1>3, <1>4, <1>5 DEF Hung

\* The forwarders leave their barrier and stop PVFS and AGIOS.
LEMMA GoesOnLeaving ==
    ASSUME PlacesInv, NEW s \in Servers, at[s] \in {11, 12},
           \A t \in Servers : at[t] >= 11
    PROVE  SomeRankCan
<1>1. s \in Ranks /\ IsServerPlace(Step(s), at[s])
  BY RankAt, Sizes DEF PlacesInv
<1>2. CASE at[s] = 11
  <2>1. Step(s).on = "forwarding"
    BY <1>1, <1>2 DEF IsServerPlace
  <2>. QED  BY <1>1, <1>2, <2>1, ForwardersMeet DEF SomeRankCan, MayGoOn
<1>3. CASE at[s] = 12
  <2>1. Step(s).do = "teardown"
    BY <1>1, <1>3 DEF IsServerPlace
  <2>. QED  BY <1>1, <2>1 DEF SomeRankCan, MayGoOn, Free
<1>. QED  BY <1>2, <1>3

\* All meet at the last barrier, and finalize.
LEMMA GoesOnEnding ==
    ASSUME PlacesInv, \A m \in Ranks : at[m] >= End(m),
           NEW q \in Ranks, ~Finalized(q)
    PROVE  SomeRankCan
<1>1. at[q] \in Nat
  BY DEF PlacesInv, Places
<1>2. at[q] <= End(q) + 1
  <2>1. given \in Setups /\ End(q) \in Nat
    BY DEF PlacesInv, End
  <2>2. ~(at[q] > End(q) + 1)
    BY <1>1, <2>1, FinalizedPlaces
  <2>. QED  BY <1>1, <2>1, <2>2
<1>3. CASE at[q] = End(q)
  <2>1. Step(q).on = "world"
    BY <1>3, RankAt DEF IsServerPlace, IsClientPlace, End
  <2>. QED  BY <1>3, <2>1, EndMeets DEF SomeRankCan, MayGoOn
<1>4. CASE at[q] = End(q) + 1
  <2>1. Step(q).do = "finalize"
    BY <1>4, RankAt DEF IsServerPlace, IsClientPlace, End
  <2>. QED  BY <2>1 DEF SomeRankCan, MayGoOn, Free
<1>5. End(q) \in Nat
  BY DEF End
<1>. QED  BY <1>1, <1>2, <1>3, <1>4, <1>5

\* The rearmost rank, client or forwarder is never stuck otherwise.
LEMMA NeverStuck ==
    ASSUME Inv PROVE NoDeadlock
<1>. SUFFICES ASSUME \A r \in Ranks : at[r] # Gone,
                     NEW q \in Ranks, ~Finalized(q)
              PROVE  SomeRankCan \/ Hung
  BY DEF NoDeadlock
<1>0. /\ PlacesInv /\ \A r \in Ranks : at[r] \in Nat
      /\ Servers \subseteq Ranks /\ Clients \subseteq Ranks
      /\ \A r \in Ranks : r \in Servers \/ r \in Clients
  BY Sizes DEF Inv, PlacesInv, Places
<1>1. CASE \E m \in Ranks : at[m] < 8
  <2>1. PICK r \in Ranks : \A m \in Ranks : at[m] >= at[r]
    BY <1>0, Rearmost
  <2>2. at[r] <= 7
    BY <1>0, <1>1, <2>1
  <2>. QED  BY <1>0, <2>1, <2>2, GoesOnAgreeing DEF SomeRankCan
<1>2. CASE /\ \A m \in Ranks : at[m] >= 8
           /\ \E m \in Ranks : at[m] <= Up(m)
  BY <1>0, <1>2, GoesOnStarting DEF SomeRankCan
<1>3. CASE /\ \A m \in Ranks : at[m] > Up(m)
           /\ \E c \in Clients : at[c] < 34
  <2>1. PICK c \in Clients : \A d \in Clients : at[d] >= at[c]
    <3>1. Clients # {} /\ \A c \in Clients : at[c] \in Nat
      BY <1>0, <1>3
    <3>. QED  BY <3>1, Rearmost
  <2>2. at[c] < 34 /\ at[c] > 8
    BY <1>0, <1>3, <2>1 DEF Up
  <2>. QED  BY <2>1, <2>2, GoesOnServed
<1>4. CASE /\ \A m \in Ranks : at[m] > Up(m)
           /\ \A c \in Clients : at[c] >= 34
           /\ \E s \in Servers : at[s] < 13
  <2>1. \A s \in Servers : at[s] \in Nat /\ at[s] > 9
    BY <1>0, <1>4 DEF Up
  <2>2. CASE \E s \in Servers : at[s] = 10
    <3>1. CASE \E s \in Servers : at[s] = 10 /\ s \notin missed
      BY <1>4, <3>1, GoesOnJoining
    <3>2. CASE \A s \in Servers : at[s] = 10 => s \in missed
      BY <1>4, <2>1, <2>2, <3>2, HangsJoining
    <3>. QED  BY <3>1, <3>2
  <2>3. CASE \A s \in Servers : at[s] # 10
    <3>1. \A s \in Servers : at[s] >= 11
      BY <2>1, <2>3
    <3>2. PICK s \in Servers : at[s] \in {11, 12}
      BY <1>4, <2>1, <3>1
    <3>. QED  BY <1>0, <3>1, <3>2, GoesOnLeaving
  <2>. QED  BY <2>2, <2>3
<1>5. CASE /\ \A c \in Clients : at[c] >= 34
           /\ \A s \in Servers : at[s] >= 13
  <2>1. \A m \in Ranks : at[m] >= End(m)
    BY <1>0, <1>5 DEF End
  <2>. QED  BY <1>0, <2>1, GoesOnEnding
<1>6. \A m \in Ranks : at[m] > Up(m) \/ at[m] <= Up(m)
  BY <1>0 DEF Up
<1>7. \A m \in Ranks : at[m] >= 8 \/ at[m] < 8
  BY <1>0
<1>8. /\ \A c \in Clients : at[c] < 34 \/ at[c] >= 34
      /\ \A s \in Servers : at[s] < 13 \/ at[s] >= 13
  BY <1>0
<1>. QED  BY <1>1, <1>2, <1>3, <1>4, <1>5, <1>6, <1>7, <1>8

\* A run gets stuck in one way only: some forwarders wait in pthread_join for a
\* thread that missed the broadcast of the listener, when every client has sent
\* its last word (main.c, pthread_join; server/listener.c, the broadcast).  The
\* collective operations of the forwarders and of the clients, of the world and
\* of their own, are entered in an order in which none waits for a rank that
\* waits for it (main.c, all of main).
THEOREM RunIsStuckOnlyInJoin == Spec => []NoDeadlock
  BY NeverStuck, Invariance, PTL

----------------------------------------------------------------------------
(* No rank goes in a circle. *)

\* A rank is further than it was if it is at a later place of its program or,
\* at the same place, its loop counter is higher, its call has come further, or
\* it knows of more clients that are finished.
Further(r) ==
    \/ at'[r] > at[r]
    \/ at'[r] = at[r] /\ iter'[r] > iter[r]
    \/ /\ at'[r] = at[r] /\ iter'[r] = iter[r]
       /\ <<call[r], call'[r]>> \in {<<"none", "sent">>, <<"sent", "answered">>}
    \/ /\ at'[r] = at[r] /\ iter'[r] = iter[r] /\ call'[r] = call[r]
       /\ shutdown'[r] > shutdown[r]
Leaves(r) == at[r] = 1 /\ at'[r] = Gone
Still(r) == /\ at'[r] = at[r] /\ iter'[r] = iter[r]
            /\ call'[r] = call[r] /\ shutdown'[r] = shutdown[r]

\* A step ends the run, or one rank leaves it or gets further.
OneFurther ==
    \/ failed' # "no"
    \/ \E r \in Ranks : /\ Further(r) \/ Leaves(r)
                        /\ \A q \in Ranks : q # r => Still(q)

\* How far a rank can get; its loop counter and its call have ends by type.
Last(r) == IF r \in Servers THEN 15 ELSE 36
Bounded ==
    \A r \in Ranks : at[r] <= Last(r) /\ shutdown[r] <= Cardinality(Clients)

\* Going to the next place ...
LEMMA AdvancesFurther ==
    ASSUME Inv, NEW r \in Ranks, Advance(r),
           \A q \in Ranks : q # r => iter'[q] = iter[q] /\ call'[q] = call[q],
           UNCHANGED shutdown
    PROVE  OneFurther
<1>1. at \in [Ranks -> Nat]
  BY DEF Inv, PlacesInv, Places
<1>2. at'[r] > at[r] /\ \A q \in Ranks : q # r => at'[q] = at[q]
  BY <1>1 DEF Advance
<1>. QED  BY <1>2 DEF OneFurther, Further, Still

\* ... or past a phase that is skipped.
LEMMA BranchFurther ==
    ASSUME Inv, NEW r \in Ranks, Branch(r)
    PROVE  OneFurther
<1>1. PICK n \in Nat : at' = [at EXCEPT ![r] = @ + 1 + n]
  <2>1. Len(WritePhase) \in Nat /\ Len(ReadPhase) \in Nat
    BY DEF WritePhase, ReadPhase, Alone, Barrier, ToRoot
  <2>2. ASSUME NEW what, NEW phase, NEW steps, Len(steps) \in Nat,
               Skips(r, what, phase, steps)
        PROVE  \E n \in Nat : at' = [at EXCEPT ![r] = @ + 1 + n]
    <3>1. (IF phase \in given.phases THEN 0 ELSE Len(steps)) \in Nat
      BY <2>2
    <3>. QED  BY <2>2, <3>1 DEF Skips
  <2>. QED  BY <2>1, <2>2 DEF Branch
<1>2. at \in [Ranks -> Nat]
  BY DEF Inv, PlacesInv, Places
<1>3. at'[r] > at[r] /\ \A q \in Ranks : q # r => at'[q] = at[q]
  BY <1>1, <1>2
<1>4. UNCHANGED <<iter, call, shutdown>>
  BY DEF Branch
<1>. QED  BY <1>3, <1>4 DEF OneFurther, Further, Still

\* A call, its answer, and its return.
LEMMA CallFurther ==
    ASSUME Inv, NEW c \in Ranks, Call(c)
    PROVE  OneFurther
<1>1. call \in [Ranks -> {"none", "sent", "answered"}]
  BY DEF Inv, RunInv, Types
<1>2. /\ call[c] = "none" /\ call'[c] = "sent"
      /\ \A q \in Ranks : q # c => call'[q] = call[q]
      /\ UNCHANGED <<at, iter, shutdown>>
  BY <1>1 DEF Call
<1>. QED  BY <1>2 DEF OneFurther, Further, Still

LEMMA ServeFurther ==
    ASSUME Inv, NEW s \in Ranks, Serve(s)
    PROVE  OneFurther
<1>1. /\ call \in [Ranks -> {"none", "sent", "answered"}] /\ Clients \subseteq Ranks
  BY Sizes DEF Inv, PlacesInv, RunInv, Types
<1>2. PICK c \in Clients : call[c] = "sent" /\ call' = [call EXCEPT ![c] = "answered"]
  BY DEF Serve
<1>3. /\ c \in Ranks /\ call'[c] = "answered"
      /\ \A q \in Ranks : q # c => call'[q] = call[q]
  BY <1>1, <1>2
<1>4. UNCHANGED <<at, iter, shutdown>>
  BY DEF Serve
<1>. QED  BY <1>2, <1>3, <1>4 DEF OneFurther, Further, Still

LEMMA ReturnFurther ==
    ASSUME Inv, NEW c \in Ranks, Return(c)
    PROVE  OneFurther
<1>1. /\ call \in [Ranks -> {"none", "sent", "answered"}]
      /\ iter \in [Ranks -> 0..NRequests]
      /\ NRequests \in Nat
  BY SetupsAssumption DEF Inv, RunInv, Types
<1>2. UNCHANGED shutdown /\ \A q \in Ranks : q # c => call'[q] = call[q]
  BY <1>1 DEF Return
<1>3. CASE iter' = [iter EXCEPT ![c] = @ + 1] /\ UNCHANGED at
  <2>1. iter'[c] > iter[c] /\ \A q \in Ranks : q # c => iter'[q] = iter[q]
    BY <1>1, <1>3
  <2>. QED  BY <1>2, <1>3, <2>1 DEF OneFurther, Further, Still
<1>4. CASE iter' = [iter EXCEPT ![c] = 0] /\ Advance(c)
  <2>1. \A q \in Ranks : q # c => iter'[q] = iter[q]
    BY <1>1, <1>4
  <2>. QED  BY <1>2, <1>4, <2>1, AdvancesFurther
<1>. QED  BY <1>3, <1>4 DEF Return

\* A message of a finished client is counted.
LEMMA CountFurther ==
    ASSUME Inv, NEW s \in Ranks, CountFinished(s)
    PROVE  OneFurther
<1>1. shutdown \in [Ranks -> Nat]
  BY DEF Inv, RunInv, Types
<1>2. /\ shutdown' = [shutdown EXCEPT ![s] = @ + 1]
      /\ UNCHANGED <<at, iter, call>>
  BY DEF CountFinished
<1>3. shutdown'[s] > shutdown[s] /\ \A q \in Ranks : q # s => shutdown'[q] = shutdown[q]
  BY <1>1, <1>2
<1>. QED  BY <1>2, <1>3 DEF OneFurther, Further, Still

\* Any step of a rank.
LEMMA ProcessFurther ==
    ASSUME Inv, NEW r \in Ranks, Process(r)
    PROVE  OneFurther
<1>1. CASE Load(r)
  <2>1. UNCHANGED <<iter, call, shutdown>>
    BY <1>1 DEF Load
  <2>2. CASE Advance(r)
    BY <2>1, <2>2, AdvancesFurther
  <2>3. CASE at' = [at EXCEPT ![r] = Gone]
    <3>1. at \in [Ranks -> Nat] /\ at[r] = 1
      BY <1>1, RankAt DEF Load, Does, Inv, PlacesInv, Places, IsServerPlace,
         IsClientPlace
    <3>2. Leaves(r) /\ \A q \in Ranks : q # r => at'[q] = at[q]
      BY <2>3, <3>1 DEF Leaves
    <3>. QED  BY <2>1, <3>2 DEF OneFurther, Still
  <2>. QED  BY <1>1, <2>2, <2>3 DEF Load
<1>2. CASE Verify(r)
  <2>1. CASE ValidSetup
    BY <1>2, <2>1, AdvancesFurther DEF Verify
  <2>2. CASE ~ValidSetup
    BY <1>2, <2>2 DEF Verify, OneFurther
  <2>. QED  BY <2>1, <2>2
<1>3. CASE Collective(r)
  BY <1>3, AdvancesFurther DEF Collective
<1>4. CASE Branch(r)
  BY <1>4, BranchFurther
<1>5. CASE Call(r)
  BY <1>5, CallFurther
<1>6. CASE Return(r)
  BY <1>6, ReturnFurther
<1>7. CASE LoopEnd(r)
  <2>1. \A q \in Ranks : q # r => iter'[q] = iter[q]
    <3>1. iter \in [Ranks -> 0..NRequests]
      BY DEF Inv, RunInv, Types
    <3>. QED  BY <1>7, <3>1 DEF LoopEnd
  <2>. QED  BY <1>7, <2>1, AdvancesFurther DEF LoopEnd
<1>8. CASE Shutdown(r)
  BY <1>8, AdvancesFurther DEF Shutdown
<1>9. CASE Join(r)
  <2>1. CASE Advance(r)
    BY <1>9, <2>1, AdvancesFurther DEF Join
  <2>2. CASE Killed
    BY <2>2 DEF Killed, OneFurther
  <2>. QED  BY <1>9, <2>1, <2>2 DEF Join
<1>10. CASE Start(r) \/ Teardown(r)
  BY <1>10, AdvancesFurther DEF Start, Teardown
<1>11. CASE Finalize(r)
  <2>1. CASE Advance(r)
    BY <1>11, <2>1, AdvancesFurther DEF Finalize
  <2>2. CASE Killed
    BY <2>2 DEF Killed, OneFurther
  <2>. QED  BY <1>11, <2>1, <2>2 DEF Finalize
<1>12. CASE Refuse(r)
  BY <1>12 DEF Refuse, OneFurther
<1>. QED  BY <1>1, <1>2, <1>3, <1>4, <1>5, <1>6, <1>7, <1>8, <1>9, <1>10,
             <1>11, <1>12 DEF Process

\* Every step of the run.
LEMMA MoveFurther ==
    ASSUME Inv, Move
    PROVE  OneFurther
<1>1. CASE Terminate
  BY <1>1 DEF Terminate, OneFurther
<1>2. ASSUME NEW r \in Ranks, Process(r) \/ Serve(r) \/ CountFinished(r)
      PROVE  OneFurther
  BY <1>2, ProcessFurther, ServeFurther, CountFurther
<1>. QED  BY <1>1, <1>2 DEF Move

\* A rank that takes a step is in its program.
LEMMA InProgram ==
    ASSUME Inv, NEW r \in Ranks, Process(r)
    PROVE  at[r] < Last(r) /\ at[r] \in Nat
<1>1. PlacesInv /\ CallsInv
  BY DEF Inv, RunInv
<1>2. CASE r \in Servers
  <2>1. IsServerPlace(Step(r), at[r]) /\ at[r] \in Nat /\ Last(r) = 15
    BY <1>1, <1>2, RankAt DEF Last
  <2>2. ~Asks(r) /\ ~InLoop(r) /\ call[r] = "none"
    BY <1>1, <1>2, ServerDoes DEF CallsInv
  <2>3. \/ Step(r).do \in {"load", "verify", "join", "start", "teardown", "finalize"}
        \/ Step(r).on # "none"
    BY <2>1, <2>2 DEF Process, Load, Verify, Collective, Branch, Skips, Call,
       Return, Refuse, LoopEnd, Shutdown, Join, Start, Teardown, Finalize, Does,
       IsServerPlace
  <2>. QED  BY <2>1, <2>3 DEF IsServerPlace
<1>3. CASE r \notin Servers
  <2>1. IsClientPlace(Step(r), at[r]) /\ at[r] \in Nat /\ Last(r) = 36
    BY <1>1, <1>3, RankAt DEF Last
  <2>2. CASE call[r] # "none"
    BY <1>1, <2>1, <2>2 DEF CallsInv, CallPlaces
  <2>3. CASE call[r] = "none"
    <3>1. \/ Step(r).do \in {"load", "verify", "if_write", "if_read", "open",
                             "close", "write", "read", "shutdown", "finalize"}
          \/ Step(r).on # "none"
      BY <2>1, <2>3 DEF Process, Load, Verify, Collective, Branch, Skips, Call,
         Asks, InLoop, Return, Refuse, LoopEnd, Shutdown, Join, Start, Teardown,
         Finalize, Does, IsClientPlace
    <3>2. \/ at[r] \in {1, 2, 9, 20, 10, 21, 18, 26, 12, 23, 32, 35}
          \/ at[r] \in {3, 4, 5, 6, 7, 8, 34} \cup ClientCollectives
      BY <2>1, <3>1 DEF IsClientPlace
    <3>. QED  BY <2>1, <3>2 DEF ClientCollectives, ClientBarriers
  <2>. QED  BY <2>2, <2>3
<1>. QED  BY <1>2, <1>3

\* It goes to the next place, past a phase, or out of it.
LEMMA GoesNear ==
    ASSUME Inv, NEW r \in Ranks, Process(r)
    PROVE  /\ \A q \in Ranks : q # r => at'[q] = at[q]
           /\ at'[r] \in {Gone, at[r], at[r] + 1, 20, 30}
           /\ UNCHANGED <<given, shutdown>>
<1>1. at \in [Ranks -> Nat] /\ PlacesInv
  BY DEF Inv, PlacesInv, Places
<1>2. CASE Branch(r)
  <2>1. QuietStep(r)
    BY <1>1, <1>2, BranchQuiet
  <2>2. CASE UNCHANGED at
    BY <1>2, <2>2 DEF Branch
  <2>3. CASE ~UNCHANGED at
    <3>1. PICK n : at' = [at EXCEPT ![r] = n] /\ MayGo(r, n)
      BY <2>1, <2>3 DEF QuietStep
    <3>2. n \in {Gone, at[r] + 1, 20, 30}
      BY <3>1 DEF MayGo
    <3>. QED  BY <1>1, <1>2, <3>1, <3>2 DEF Branch
  <2>. QED  BY <2>2, <2>3
<1>3. CASE ~Branch(r)
  <2>1. Advance(r) \/ UNCHANGED at \/ at' = [at EXCEPT ![r] = Gone]
    BY <1>3 DEF Process, Load, Verify, Collective, Call, Return, Refuse,
       LoopEnd, Shutdown, Join, Killed, Start, Teardown, Finalize
  <2>2. UNCHANGED <<given, shutdown>>
    BY <1>3 DEF Process, Load, Verify, Collective, Call, Return, Refuse,
       LoopEnd, Shutdown, Join, Killed, Start, Teardown, Finalize
  <2>. QED  BY <1>1, <2>1, <2>2 DEF Advance
<1>. QED  BY <1>2, <1>3

\* The phases that are skipped are those of clients.
LEMMA BranchesOfClients ==
    ASSUME Inv, NEW r \in Ranks, Process(r)
    PROVE  at'[r] \in {Gone, at[r], at[r] + 1} \/ Last(r) = 36
<1>1. at \in [Ranks -> Nat] /\ PlacesInv
  BY DEF Inv, PlacesInv, Places
<1>2. CASE Branch(r)
  <2>1. r \notin Servers
    BY <1>1, <1>2, RankAt DEF Branch, Skips, Does, IsServerPlace
  <2>. QED  BY <2>1 DEF Last
<1>3. CASE ~Branch(r)
  <2>1. Advance(r) \/ UNCHANGED at \/ at' = [at EXCEPT ![r] = Gone]
    BY <1>3 DEF Process, Load, Verify, Collective, Call, Return, Refuse,
       LoopEnd, Shutdown, Join, Killed, Start, Teardown, Finalize
  <2>. QED  BY <1>1, <2>1 DEF Advance
<1>. QED  BY <1>2, <1>3

\* The steps of a rank keep it within its program ...
LEMMA ProcessBounded ==
    ASSUME Inv, Bounded, NEW r \in Ranks, Process(r)
    PROVE  Bounded'
<1>1. UNCHANGED <<given, shutdown>> /\ Ranks' = Ranks /\ Clients' = Clients
      /\ \A q \in Ranks : (Last(q))' = Last(q)
  BY GoesNear DEF Ranks, Clients, Servers, world_size, simulation_forwarders, Last
<1>2. \A q \in Ranks : at'[q] <= Last(q)
  <2>. SUFFICES ASSUME NEW q \in Ranks PROVE at'[q] <= Last(q)
    OBVIOUS
  <2>1. CASE q # r
    BY <2>1, GoesNear DEF Bounded
  <2>2. CASE q = r
    <3>1. at[r] < Last(r) /\ at[r] \in Nat /\ Last(r) \in {15, 36}
      BY InProgram DEF Last
    <3>2. at'[r] \in {Gone, at[r], at[r] + 1}
          \/ (at'[r] \in {20, 30} /\ Last(r) = 36)
      BY BranchesOfClients, GoesNear
    <3>. QED  BY <2>2, <3>1, <3>2 DEF Gone
  <2>. QED  BY <2>1, <2>2
<1>. QED  BY <1>1, <1>2 DEF Bounded

\* ... and a forwarder counts each of its clients once.
LEMMA CountBounded ==
    ASSUME Inv, Inv', Bounded, NEW s \in Ranks, CountFinished(s)
    PROVE  Bounded'
<1>1. /\ UNCHANGED <<given, at>> /\ shutdown \in [Ranks -> Nat]
      /\ shutdown' = [shutdown EXCEPT ![s] = @ + 1]
  BY DEF CountFinished, Inv, RunInv, Types
<1>2. /\ Ranks' = Ranks /\ Clients' = Clients /\ Servers' = Servers
      /\ \A q \in Ranks : (Last(q))' = Last(q)
  BY <1>1 DEF Ranks, Clients, Servers, world_size, simulation_forwarders, Last
<1>3. s \in Servers
  BY ServingPlaces DEF CountFinished, Inv, PlacesInv, Places
<1>4. IsFiniteSet(Clients)
  <2>1. \E a, b \in Int : Clients = a..b
    <3>1. world_size \in Nat /\ simulation_forwarders \in Nat /\ given \in Setups
      BY Sizes DEF Inv, PlacesInv
    <3>. QED  BY <3>1 DEF Clients
  <2>. QED  BY <2>1, FS_Interval
<1>5. shutdown'[s] <= Cardinality(Clients)
  <2>. DEFINE C == (Counted(s))'
  <2>1. shutdown'[s] = Cardinality(C)
    BY <1>2, <1>3 DEF Inv, RunInv, CountInv
  <2>2. C \subseteq Clients
    BY <1>2 DEF Counted
  <2>. HIDE DEF C
  <2>. QED  BY <1>4, <2>1, <2>2, FS_Subset
<1>. QED  BY <1>1, <1>2, <1>5 DEF Bounded

\* No step takes a rank beyond its end.
LEMMA StepBounded ==
    ASSUME Inv, Inv', Bounded, [Next]_vars
    PROVE  Bounded'
<1>1. CASE UNCHANGED <<given, at, shutdown>>
  BY <1>1 DEF Bounded, Last, Ranks, Servers, Clients, world_size,
     simulation_forwarders
<1>2. ASSUME NEW r \in Ranks, Process(r) \/ Serve(r) \/ CountFinished(r)
      PROVE  Bounded'
  BY <1>1, <1>2, ProcessBounded, CountBounded DEF Serve
<1>. QED  BY <1>1, <1>2 DEF Next, Move, Ended, Terminate, vars

LEMMA InitBounded ==
    ASSUME Init PROVE Bounded
<1>1. given \in Setups /\ IsFiniteSet(Clients)
  <2>1. given \in Setups /\ world_size \in Nat /\ simulation_forwarders \in Nat
    BY Sizes DEF Init
  <2>. QED  BY <2>1, FS_Interval DEF Clients
<1>2. Cardinality(Clients) \in Nat
  BY <1>1, FS_CardinalityType
<1>3. \A r \in Ranks : at[r] = 1 /\ shutdown[r] = 0
  BY DEF Init
<1>. QED  BY <1>2, <1>3 DEF Bounded, Last

\* Each step that is not the end of the run takes one rank further, or out of
\* it, and leaves the others where they are (main.c, all of main): no process
\* goes round in a circle.
THEOREM EveryStepCounts == Spec => [][Move => OneFurther]_vars
<1>1. Inv /\ [Next]_vars => [Move => OneFurther]_vars
  BY MoveFurther
<1>. QED  BY <1>1, Invariance, PTL DEF Spec

\* And no rank can get further for ever: what it counts has an end.
THEOREM EveryRankHasAnEnd == Spec => []Bounded
<1>1. Init => Bounded
  BY InitBounded
<1>2. Inv /\ Inv' /\ Bounded /\ [Next]_vars => Bounded'
  BY StepBounded
<1>. QED  BY <1>1, <1>2, Invariance, PTL DEF Spec
=============================================================================

------------------------ MODULE AccessPatternProofs ------------------------
(* The access patterns never overlap, for every size of a run. *)
EXTENDS AccessPattern, FiniteSets, FiniteSetTheorems, WellFoundedInduction, TLAPS

\* The first bytes of two blocks of one size are that size apart.
LEMMA BlocksApart ==
    ASSUME NEW a \in Nat, NEW b \in Nat, NEW req \in Nat, a < b
    PROVE  a * req + req <= b * req
<1>1. PICK d \in Nat : b = a + 1 + d
  <2>1. b - a - 1 \in Nat /\ b = a + 1 + (b - a - 1)
    OBVIOUS
  <2>. QED  BY <2>1
<1>2. b * req = a * req + req + d * req
  BY <1>1
<1>3. d * req \in Nat
  OBVIOUS
<1>. QED  BY <1>2, <1>3

\* A two-digit number: its value is below the number of digit pairs.
LEMMA PairInRange ==
    ASSUME NEW hi \in Nat, NEW lo \in Nat, NEW H \in Nat, NEW L \in Nat,
           hi < H, lo < L
    PROVE  hi * L + lo \in Nat /\ hi * L + lo < H * L
<1>1. hi * L + L <= H * L
  BY BlocksApart
<1>2. hi * L \in Nat /\ H * L \in Nat
  OBVIOUS
<1>. QED  BY <1>1, <1>2

\* ... and different pairs of digits make different numbers.
LEMMA PairInjective ==
    ASSUME NEW hi \in Nat, NEW lo \in Nat, NEW hj \in Nat, NEW lp \in Nat,
           NEW L \in Nat, lo < L, lp < L, hi * L + lo = hj * L + lp
    PROVE  hi = hj /\ lo = lp
<1>1. ASSUME hi < hj PROVE FALSE
  <2>1. hi * L + L <= hj * L
    BY <1>1, BlocksApart
  <2>2. hi * L \in Nat /\ hj * L \in Nat
    OBVIOUS
  <2>. QED  BY <2>1, <2>2
<1>2. ASSUME hj < hi PROVE FALSE
  <2>1. hj * L + L <= hi * L
    BY <1>2, BlocksApart
  <2>2. hi * L \in Nat /\ hj * L \in Nat
    OBVIOUS
  <2>. QED  BY <2>1, <2>2
<1>3. hi = hj
  BY <1>1, <1>2
<1>4. hi * L \in Nat
  OBVIOUS
<1>. QED  BY <1>3, <1>4

\* The number of the block of a shared file that the i-th request of rank r
\* touches, of n requests of each of N clients.
BlockNumber(spatiality, i, n, N, r) ==
    IF spatiality = "contiguous" THEN r * n + i ELSE i * N + r

\* Offsets are whole multiples of the request size.
LEMMA OffsetIsBlock ==
    ASSUME NEW spatiality \in Spatialities,
           NEW n \in Nat, NEW N \in Nat, NEW i \in Nat, NEW r \in Nat, i < n,
           NEW req \in Nat
    PROVE  Offset("shared", spatiality, i, n, N, r, req)
              = BlockNumber(spatiality, i, n, N, r) * req
<1>1. CASE spatiality = "contiguous"
  <2>1. i \div n = 0
    OBVIOUS
  <2>2. (i \div n) * (req * n * N) = 0
    <3>. DEFINE p == req * n * N
    <3>1. p \in Nat
      OBVIOUS
    <3>. HIDE DEF p
    <3>2. 0 * p = 0
      BY <3>1
    <3>. QED  BY <2>1, <3>2 DEF p
  <2>3. Offset("shared", spatiality, i, n, N, r, req) = req * n * r + i * req
    <3>1. Offset("shared", spatiality, i, n, N, r, req)
             = (i \div n) * (req * n * N) + req * n * r + i * req
      BY <1>1 DEF Offset, ContiguousOffset
    <3>2. req * n * r \in Nat /\ i * req \in Nat
      OBVIOUS
    <3>. QED  BY <2>2, <3>1, <3>2
  <2>4. req * n * r + i * req = (r * n + i) * req
    OBVIOUS
  <2>. QED  BY <1>1, <2>3, <2>4 DEF BlockNumber
<1>2. CASE spatiality = "strided"
  <2>1. Offset("shared", spatiality, i, n, N, r, req) = i * (N * req) + r * req
    BY <1>2 DEF Offset, StridedOffset
  <2>2. i * (N * req) + r * req = (i * N + r) * req
    OBVIOUS
  <2>. QED  BY <1>2, <2>1, <2>2 DEF BlockNumber
<1>. QED  BY <1>1, <1>2 DEF Spatialities

\* Two requests of a phase on a shared file, of one client or of two, never
\* touch a common byte (main.c, the loops of the write and read phases).
THEOREM SharedRequestsDisjoint ==
    ASSUME NEW spatiality \in Spatialities,
           NEW n \in Nat, NEW N \in Nat, NEW req \in Nat,
           NEW i \in 0..(n-1), NEW j \in 0..(n-1),
           NEW r \in 0..(N-1), NEW s \in 0..(N-1),
           <<i, r>> # <<j, s>>
    PROVE  LET o == Offset("shared", spatiality, i, n, N, r, req)
               p == Offset("shared", spatiality, j, n, N, s, req)
           IN  o + req <= p \/ p + req <= o
<1>. DEFINE a == BlockNumber(spatiality, i, n, N, r)
            b == BlockNumber(spatiality, j, n, N, s)
<1>1. a \in Nat /\ b \in Nat
  BY PairInRange DEF BlockNumber
<1>2. a # b
  BY PairInjective DEF BlockNumber
<1>3. /\ Offset("shared", spatiality, i, n, N, r, req) = a * req
      /\ Offset("shared", spatiality, j, n, N, s, req) = b * req
  BY OffsetIsBlock
<1>. HIDE DEF a, b
<1>4. a * req + req <= b * req \/ b * req + req <= a * req
  BY <1>1, <1>2, BlocksApart
<1>. QED  BY <1>3, <1>4

\* All requests of a phase lie within the N * n blocks of the file.
THEOREM SharedRequestsInFile ==
    ASSUME NEW spatiality \in Spatialities,
           NEW n \in Nat, NEW N \in Nat, NEW req \in Nat,
           NEW i \in 0..(n-1), NEW r \in 0..(N-1)
    PROVE  /\ Offset("shared", spatiality, i, n, N, r, req) \in Nat
           /\ Offset("shared", spatiality, i, n, N, r, req) + req <= (N * n) * req
<1>. DEFINE a == BlockNumber(spatiality, i, n, N, r)
<1>1. a \in Nat /\ a < N * n
  <2>1. r * n + i \in Nat /\ r * n + i < N * n
    BY PairInRange
  <2>2. i * N + r \in Nat /\ i * N + r < n * N
    BY PairInRange
  <2>3. n * N = N * n
    OBVIOUS
  <2>. QED  BY <2>1, <2>2, <2>3 DEF BlockNumber
<1>2. Offset("shared", spatiality, i, n, N, r, req) = a * req
  BY OffsetIsBlock
<1>. HIDE DEF a
<1>3. N * n \in Nat /\ a * req \in Nat
  BY <1>1
<1>. QED  BY <1>1, <1>2, <1>3, BlocksApart

\* Division by the number that was multiplied, and by a remainder less.
LEMMA DivisionOfPair ==
    ASSUME NEW hi \in Nat, NEW L \in Nat \ {0}, NEW lo \in 0..(L-1)
    PROVE  (hi * L + lo) \div L = hi
<1>. DEFINE x == hi * L + lo
            q == x \div L
<1>1. x \in Nat /\ hi * L \in Nat
  OBVIOUS
<1>. HIDE DEF x
<1>2. q \in Nat /\ x = L * q + (x % L) /\ x % L \in 0..(L-1)
  BY <1>1
<1>3. x % L \in Nat /\ x % L < L
  BY <1>2
<1>. HIDE DEF q
<1>4. hi * L + lo = q * L + (x % L)
  <2>1. L * q = q * L
    BY <1>2
  <2>. QED  BY <1>2, <2>1 DEF x
<1>5. hi = q
  BY <1>2, <1>3, <1>4, PairInjective
<1>. QED  BY <1>5 DEF q, x

\* The number of clients per forwarder, and the forwarder of a client.
LEMMA ClientsPerServer ==
    ASSUME NEW F \in Nat \ {0}, NEW W \in Nat, W >= 2 * F, W % F = 0
    PROVE  (W - F) \div F \in Nat \ {0} /\ W - F = ((W - F) \div F) * F
<1>. DEFINE m == W \div F
            k == m - 1
<1>1. m \in Nat /\ W = F * m
  OBVIOUS
<1>. HIDE DEF m
<1>2. m # 0 /\ m # 1
  BY <1>1
<1>3. k \in Nat \ {0} /\ W - F = k * F
  BY <1>1, <1>2
<1>. HIDE DEF k
<1>4. (k * F + 0) \div F = k
  BY <1>3, DivisionOfPair
<1>5. k * F + 0 = W - F
  BY <1>3
<1>. QED  BY <1>3, <1>4, <1>5

\* The rank a client turns to is that of a forwarder (main.c, lines 26-29).
THEOREM ClientsHaveServers ==
    ASSUME NEW F \in Nat \ {0}, NEW W \in Nat, W >= 2 * F, W % F = 0,
           NEW r \in F..(W - 1)
    PROVE  get_forwarding_server(r, F, W) \in 0..(F - 1)
<1>. DEFINE k == (W - F) \div F
            q == (r - F) \div k
            lo == (r - F) % k
<1>1. k \in Nat \ {0} /\ W - F = k * F
  BY ClientsPerServer
<1>. HIDE DEF k
<1>2. q \in Nat /\ lo \in 0..(k-1) /\ r - F = k * q + lo
  BY <1>1
<1>. HIDE DEF q, lo
<1>3. r - F = q * k + lo /\ q * k \in Nat /\ k * F = F * k /\ F * k \in Nat
  BY <1>1, <1>2
<1>4. ASSUME q >= F PROVE FALSE
  <2>1. F * k <= q * k
    <3>1. CASE q = F
      BY <1>3, <3>1
    <3>2. CASE F < q
      <4>1. F * k + k <= q * k
        BY <1>1, <1>2, <3>2, BlocksApart
      <4>. QED  BY <1>1, <1>3, <4>1
    <3>. QED  BY <1>2, <1>4, <3>1, <3>2
  <2>. QED  BY <1>1, <1>2, <1>3, <2>1
<1>5. q \in 0..(F - 1)
  BY <1>2, <1>4
<1>. QED  BY <1>5 DEF get_forwarding_server, q, k

\* A configuration the program accepts (W a multiple of F, W >= 2F) gives
\* each forwarder exactly as many clients as its shutdown count, so that the
\* last of its clients stops it and none before (main.c, lines 26-29).
THEOREM ServersShareClients ==
    ASSUME NEW F \in Nat \ {0}, NEW W \in Nat, W >= 2 * F, W % F = 0,
           NEW s \in 0..(F-1)
    PROVE  /\ IsFiniteSet(ClientsOf(s, F, W))
           /\ Cardinality(ClientsOf(s, F, W)) = ShutdownCount(F, W)
<1>. DEFINE k == (W - F) \div F
<1>1. k \in Nat \ {0} /\ W - F = k * F
  BY ClientsPerServer
<1>2. (W - F) \div F = k
  OBVIOUS
<1>. HIDE DEF k
<1>3. s * k \in Nat /\ k * F \in Nat /\ s * k + k <= k * F
  <2>1. s * k + k <= F * k
    BY <1>1, BlocksApart
  <2>2. F * k = k * F
    BY <1>1
  <2>. QED  BY <1>1, <2>1, <2>2
<1>4. ASSUME NEW r \in F..(W - 1)
      PROVE  get_forwarding_server(r, F, W) = s
                <=> r \in (F + s * k)..(F + s * k + k - 1)
  <2>. DEFINE q == (r - F) \div k
              lo == (r - F) % k
  <2>1. q \in Nat /\ lo \in 0..(k-1) /\ r - F = k * q + lo
    BY <1>1
  <2>. HIDE DEF q, lo
  <2>2. r - F = q * k + lo /\ q * k \in Nat
    BY <1>1, <2>1
  <2>3. ASSUME q = s PROVE r \in (F + s * k)..(F + s * k + k - 1)
    BY <1>1, <1>3, <2>1, <2>2, <2>3
  <2>4. ASSUME r \in (F + s * k)..(F + s * k + k - 1) PROVE q = s
    <3>. DEFINE l == r - F - s * k
    <3>1. l \in Nat /\ l < k /\ s * k + l = q * k + lo
      BY <1>1, <1>3, <2>2, <2>4
    <3>. HIDE DEF l
    <3>. QED  BY <1>1, <2>1, <3>1, PairInjective
  <2>5. get_forwarding_server(r, F, W) = q
    BY <1>2 DEF get_forwarding_server, q
  <2>. QED  BY <2>3, <2>4, <2>5
<1>5. ClientsOf(s, F, W) = (F + s * k)..(F + s * k + k - 1)
  <2>1. (F + s * k)..(F + s * k + k - 1) \subseteq F..(W - 1)
    BY <1>1, <1>3
  <2>. QED  BY <1>4, <2>1 DEF ClientsOf
<1>6. /\ IsFiniteSet((F + s * k)..(F + s * k + k - 1))
      /\ Cardinality((F + s * k)..(F + s * k + k - 1)) = k
  <2>1. F + s * k \in Int /\ F + s * k + k - 1 \in Int
    BY <1>1, <1>3
  <2>2. F + s * k <= F + s * k + k - 1
    BY <1>1, <1>3
  <2>. QED  BY <1>1, <1>3, <2>1, <2>2, FS_Interval
<1>. QED  BY <1>2, <1>5, <1>6 DEF ShutdownCount

-----------------------------------------------------------------------------
(* Of a set at places, one is the last. *)

\* Of ranks that are at places, one is at a place that is behind no other's.
LEMMA Rearmost ==
    ASSUME NEW S, S # {}, NEW f, \A x \in S : f[x] \in Nat
    PROVE  \E x \in S : \A y \in S : f[y] >= f[x]
<1>. DEFINE Below(n) == 1..n
            T == {Below(f[x]) : x \in S}
            R == StrictSubsetOrdering(Nat)
<1>1. IsWellFoundedOn(R, FiniteSubsetsOf(Nat))
  BY FS_StrictSubsetOrderingWellFounded
<1>2. T \subseteq FiniteSubsetsOf(Nat)
  <2>1. \A n \in Nat : Below(n) \in SUBSET Nat /\ IsFiniteSet(Below(n))
    BY FS_Interval
  <2>. QED  BY <2>1 DEF FiniteSubsetsOf
<1>3. PICK t \in T : \A u \in T : ~(<<u, t>> \in R)
  <2>. HIDE DEF R
  <2>1. T # {}
    OBVIOUS
  <2>. HIDE DEF T
  <2>. QED  BY <1>1, <1>2, <2>1, WFMin
<1>4. PICK x \in S : t = Below(f[x])
  OBVIOUS
<1>5. ASSUME NEW y \in S, f[y] < f[x] PROVE FALSE
  <2>1. f[x] \in Nat /\ f[y] \in Nat
    OBVIOUS
  <2>2. /\ Below(f[y]) \subseteq Below(f[x]) /\ Below(f[x]) \subseteq Nat
        /\ f[x] \in Below(f[x]) /\ f[x] \notin Below(f[y])
    BY <1>5, <2>1
  <2>3. <<Below(f[y]), Below(f[x])>> \in R
    BY <2>2 DEF StrictSubsetOrdering
  <2>4. Below(f[y]) \in T
    OBVIOUS
  <2>. HIDE DEF T, R, Below
  <2>. QED  BY <1>3, <1>4, <2>3, <2>4
<1>6. \A y \in S : f[x] \in Nat /\ f[y] \in Nat
  OBVIOUS
<1>7. \A y \in S : f[y] >= f[x]
  BY <1>5, <1>6
<1>. QED  BY <1>7
=============================================================================

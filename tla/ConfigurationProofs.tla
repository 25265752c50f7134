------------------------- MODULE ConfigurationProofs -------------------------
(***************************************************************************)
(* A run that passes the checks of the program is one that works, whatever *)
(* the configuration file and the number of processes: Sound carries the   *)
(* outcome of the checks to the states after them, and the arithmetic of   *)
(* AccessPatternProofs does the rest.  A file is read as it is written if   *)
(* the names of the parameters stand only where they mean them.            *)
(***************************************************************************)
EXTENDS Configuration, AccessPatternProofs

Sound ==
    /\ outcome \in {"accepted", "planned"} =>
          /\ F # 0 /\ world >= 2 * F /\ world % F = 0
          /\ files = "individual" => spatiality = "contiguous"
    /\ outcome = "planned" =>
          /\ number["request_size"] # 0
          /\ n = RequestsPerClient(number["total_size"], world - F,
                                   number["request_size"])

IInv == TypeOK /\ Sound

LEMMA ElementInSet ==
    ASSUME NEW S, NEW s \in Seq(S), NEW k \in DOMAIN s
    PROVE  s[k] \in S
OBVIOUS

\* A key is never the last token, so its value is there.
LEMMA ValueExists ==
    ASSUME TypeOK, NEW key \in Keys, AtKey(key)
    PROVE  /\ i + 1 \in DOMAIN document.tokens /\ i + 2 \in 1..(Length + 1)
           /\ Value.number \in Nat /\ Length \in Nat
<1>1. /\ document.tokens \in Seq([text : STRING, number : Nat])
      /\ document.tokens[Length].text \notin Keys /\ Length \in Nat
    BY DocumentsAssumption DEF DocumentsAssumption, TypeOK, Length
<1>2. i \in Nat /\ i <= Length /\ i # Length /\ i > 0
    BY <1>1 DEF TypeOK, AtKey
<1>3. i + 1 \in DOMAIN document.tokens
    BY <1>1, <1>2 DEF Length
<1>4. document.tokens[i + 1] \in [text : STRING, number : Nat]
    BY <1>1, <1>3, ElementInSet
<1> QED
    BY <1>1, <1>2, <1>3, <1>4 DEF Value

LEMMA InitIInv == Init => IInv
<1> SUFFICES ASSUME Init PROVE IInv
    OBVIOUS
<1>1. Length \in Nat
    BY DocumentsAssumption DEF DocumentsAssumption, Init, Length
<1>2. i \in 1..(Length + 1)
    BY <1>1 DEF Init
<1>3. number \in [NumericKeys -> Nat] /\ n \in Nat
    BY DEF Init
<1>4. Sound
    BY DEF Init, Sound
<1>5. TypeOK
    BY <1>2, <1>3 DEF Init, TypeOK, Layouts, Spatialities
<1> QED
    BY <1>4, <1>5 DEF IInv

\* The loop keeps the types; nothing is accepted in it.
LEMMA LoopKeeps ==
    ASSUME IInv,
           \/ \E key \in NumericKeys : ReadNumber(key)
           \/ ReadPath \/ ReadOperations \/ ReadFiles \/ ReadSpatiality
           \/ IgnoreKey \/ EndOfTokens
    PROVE  IInv'
<1> USE DEF IInv, Length
<1>0. Length \in Nat
    BY DocumentsAssumption DEF DocumentsAssumption, TypeOK
<1>1. ASSUME UNCHANGED given, i' \in 1..(Length + 1),
             number' \in [NumericKeys -> Nat], files' \in Layouts,
             spatiality' \in Spatialities, writes' \in BOOLEAN,
             reads' \in BOOLEAN, UNCHANGED n,
             outcome' \in {"parsing", "verifying", "ERROR_INVALID_PATTERN",
                           "ERROR_INVALID_VALIDATION"}
      PROVE  IInv'
    BY <1>1 DEF TypeOK, Sound, given, Errors
<1>2. CASE \E key \in NumericKeys : ReadNumber(key)
    <2>1. PICK key \in NumericKeys : ReadNumber(key)
        BY <1>2
    <2>2. AtKey(key) /\ key \in Keys
        BY <2>1 DEF ReadNumber, Keys
    <2> QED
        BY <1>1, <2>1, <2>2, ValueExists DEF ReadNumber, Skip, TypeOK
<1>3. CASE ReadPath
    BY <1>1, <1>3, ValueExists DEF ReadPath, Skip, TypeOK, Keys, AtKey
<1>4. CASE ReadOperations
    BY <1>1, <1>4, ValueExists DEF ReadOperations, Skip, TypeOK, Keys, AtKey
<1>5. CASE ReadFiles
    BY <1>1, <1>5, ValueExists DEF ReadFiles, Skip, TypeOK, Keys, AtKey
<1>6. CASE ReadSpatiality
    BY <1>1, <1>6, ValueExists DEF ReadSpatiality, Skip, TypeOK, Keys, AtKey
<1>7. CASE IgnoreKey
    BY <1>0, <1>1, <1>7 DEF IgnoreKey, TypeOK
<1>8. CASE EndOfTokens
    BY <1>1, <1>8 DEF EndOfTokens, TypeOK
<1> QED
    BY <1>2, <1>3, <1>4, <1>5, <1>6, <1>7, <1>8

\* The checks let nothing through that is not sound.
LEMMA VerifyKeeps == ASSUME IInv, Verify PROVE IInv'
<1>1. Verdict \in {"accepted"} \cup Errors
    BY DEF Verdict, Errors
<1>2. TypeOK'
    BY <1>1 DEF IInv, Verify, TypeOK, given, Length
<1>3. Verdict = "accepted" =>
          /\ F # 0 /\ ~(world < 2 * F) /\ world % F = 0
          /\ ~(files = "individual" /\ spatiality = "strided")
    BY DEF Verdict, Unbalanced
<1>4. world \in Nat /\ F \in Nat /\ spatiality \in Spatialities
    BY WorldsAssumption DEF WorldsAssumption, IInv, TypeOK, F, NumericKeys
<1>5. Verdict = "accepted" => world >= 2 * F
    BY <1>3, <1>4
<1>6. Verdict # "planned"
    BY <1>1 DEF Errors
<1> QED
    BY <1>2, <1>3, <1>4, <1>5, <1>6
       DEF IInv, Sound, Verify, given, F, Spatialities

\* The quotients that make a plan.
LEMMA Quotient ==
    ASSUME NEW a \in Nat, NEW b \in Nat \ {0}
    PROVE  a \div b \in Nat /\ (a \div b) * b <= a
<1>1. a \div b \in Nat /\ a = b * (a \div b) + (a % b) /\ a % b \in 0..(b - 1)
    OBVIOUS
<1> DEFINE q == a \div b
<1> HIDE DEF q
<1>2. b * q = q * b /\ q \in Nat
    BY <1>1 DEF q
<1> QED
    BY <1>1, <1>2 DEF q

LEMMA PlanKeeps == ASSUME IInv, Plan PROVE IInv'
<1> DEFINE req == number["request_size"]
           total == number["total_size"]
<1>1. /\ req \in Nat /\ total \in Nat /\ F \in Nat /\ world \in Nat
      /\ F # 0 /\ world >= 2 * F
    BY WorldsAssumption
       DEF WorldsAssumption, IInv, TypeOK, Sound, Plan, F, NumericKeys
<1>2. world - F \in Nat \ {0}
    BY <1>1
<1>3. CASE req = 0
    <2>1. outcome' = "SIGFPE" /\ UNCHANGED <<given, i, number, files, spatiality,
                                            writes, reads, n>>
        BY <1>3 DEF Plan
    <2> QED
        BY <2>1 DEF IInv, TypeOK, Sound, given, Length, Errors
<1>4. CASE req # 0
    <2>1. /\ outcome' = "planned" /\ n' = RequestsPerClient(total, world - F, req)
          /\ UNCHANGED <<given, i, number, files, spatiality, writes, reads>>
        BY <1>4 DEF Plan
    <2>2. n' \in Nat
        BY <1>1, <1>2, <1>4, <2>1, Quotient DEF RequestsPerClient
    <2>3. TypeOK'
        BY <2>1, <2>2 DEF IInv, TypeOK, given, Length
    <2>4. Sound'
        BY <1>4, <2>1 DEF IInv, Sound, Plan, given, F
    <2> QED
        BY <2>3, <2>4 DEF IInv
<1> QED
    BY <1>3, <1>4

LEMMA NextKeeps == IInv /\ [Next]_vars => IInv'
<1> SUFFICES ASSUME IInv, [Next]_vars PROVE IInv'
    OBVIOUS
<1>1. CASE UNCHANGED vars
    BY <1>1 DEF vars, given, IInv, TypeOK, Sound, Length, F
<1>2. CASE Verify
    BY <1>2, VerifyKeeps
<1>3. CASE Plan
    BY <1>3, PlanKeeps
<1>4. CASE \/ \E key \in NumericKeys : ReadNumber(key)
           \/ ReadPath \/ ReadOperations \/ ReadFiles \/ ReadSpatiality
           \/ IgnoreKey \/ EndOfTokens
    BY <1>4, LoopKeeps
<1> QED
    BY <1>1, <1>2, <1>3, <1>4 DEF Next, Done

LEMMA AlwaysIInv == Spec => []IInv
<1> QED
    BY InitIInv, NextKeeps, PTL DEF Spec

\* The loop stays within the tokens of the file, although a key moves it by two,
\* and the plan is a number (main.c, lines 204-322 and 636-638).
THEOREM TypeCorrect == Spec => []TypeOK
<1>1. IInv => TypeOK
    BY DEF IInv
<1> QED
    BY <1>1, AlwaysIInv, PTL

LEMMA Balanced == IInv => ServersAreBalanced
<1> SUFFICES ASSUME IInv, outcome \in {"accepted", "planned"}
             PROVE  /\ \A r \in F..(world - 1) : get_forwarding_server(r, F, world) < F
                    /\ \A s \in 0..(F - 1) :
                          Cardinality(ClientsOf(s, F, world)) = ShutdownCount(F, world)
    BY DEF ServersAreBalanced
<1>1. F \in Nat \ {0} /\ world \in Nat /\ world >= 2 * F /\ world % F = 0
    BY WorldsAssumption DEF WorldsAssumption, IInv, TypeOK, Sound, F, NumericKeys
<1>2. ASSUME NEW r \in F..(world - 1)
      PROVE  get_forwarding_server(r, F, world) < F
    <2>1. get_forwarding_server(r, F, world) \in 0..(F - 1)
        BY <1>1, ClientsHaveServers
    <2> QED
        BY <1>1, <2>1
<1>3. ASSUME NEW s \in 0..(F - 1)
      PROVE  Cardinality(ClientsOf(s, F, world)) = ShutdownCount(F, world)
    BY <1>1, ServersShareClients
<1> QED
    BY <1>2, <1>3

\* Whatever the file says, with natural numbers in it, and however many processes
\* there are, a run that
\* passes the checks of main.c (lines 344-354) has forwarders whose count of
\* shutdown messages is met by their clients, and by them alone.
THEOREM BalancedServers == Spec => []ServersAreBalanced
<1> QED
    BY Balanced, AlwaysIInv, PTL

LEMMA Disjoint == IInv => RequestsAreDisjoint
<1> DEFINE req == number["request_size"]
           N == world - F
<1> SUFFICES ASSUME IInv, outcome = "planned", NEW q \in Requests, NEW u \in Requests,
                    q # u, FileOf(files, q[2]) = FileOf(files, u[2])
             PROVE  EndByte(q) <= FirstByte(u) \/ EndByte(u) <= FirstByte(q)
    BY DEF RequestsAreDisjoint
<1>1. /\ req \in Nat /\ n \in Nat /\ N \in Nat
      /\ files \in Layouts /\ spatiality \in Spatialities
    BY WorldsAssumption
       DEF WorldsAssumption, IInv, TypeOK, Sound, F, NumericKeys
<1>2. /\ q[1] \in 0..(n - 1) /\ q[2] \in 0..(N - 1)
      /\ u[1] \in 0..(n - 1) /\ u[2] \in 0..(N - 1)
      /\ <<q[1], q[2]>> # <<u[1], u[2]>>
    BY DEF Requests
<1> HIDE DEF req, N
<1>3. CASE files = "shared"
    <2>1. /\ FirstByte(q) = Offset("shared", spatiality, q[1], n, N, q[2], req)
          /\ FirstByte(u) = Offset("shared", spatiality, u[1], n, N, u[2], req)
          /\ EndByte(q) = FirstByte(q) + req /\ EndByte(u) = FirstByte(u) + req
        BY <1>3 DEF FirstByte, EndByte, req, N
    <2>2. \/ Offset("shared", spatiality, q[1], n, N, q[2], req) + req
                <= Offset("shared", spatiality, u[1], n, N, u[2], req)
          \/ Offset("shared", spatiality, u[1], n, N, u[2], req) + req
                <= Offset("shared", spatiality, q[1], n, N, q[2], req)
        BY <1>1, <1>2, SharedRequestsDisjoint
    <2> QED
        BY <2>1, <2>2
<1>4. CASE files = "individual"
    <2>1. /\ FirstByte(q) = q[1] * req /\ FirstByte(u) = u[1] * req
          /\ EndByte(q) = FirstByte(q) + req /\ EndByte(u) = FirstByte(u) + req
        BY <1>4 DEF FirstByte, EndByte, Offset, req, N
    <2>2. q[1] # u[1]
        BY <1>2, <1>4 DEF FileOf
    <2>3. q[1] \in Nat /\ u[1] \in Nat /\ (q[1] < u[1] \/ u[1] < q[1])
        BY <1>1, <1>2, <2>2
    <2>4. \/ q[1] * req + req <= u[1] * req
          \/ u[1] * req + req <= q[1] * req
        BY <1>1, <2>3, BlocksApart
    <2> QED
        BY <2>1, <2>4
<1> QED
    BY <1>1, <1>3, <1>4 DEF Layouts

\* ... and its requests never overlap in a file (main.c, lines 727-731).
THEOREM DisjointRequests == Spec => []RequestsAreDisjoint
<1> QED
    BY Disjoint, AlwaysIInv, PTL

LEMMA Inside == IInv => RequestsStayInside
<1> DEFINE req == number["request_size"]
           total == number["total_size"]
           N == world - F
<1> SUFFICES ASSUME IInv, outcome = "planned", NEW q \in Requests
             PROVE  EndByte(q) <= total
    BY DEF RequestsStayInside
<1>1. /\ req \in Nat \ {0} /\ total \in Nat /\ n \in Nat /\ N \in Nat
      /\ files \in Layouts /\ spatiality \in Spatialities
      /\ n = RequestsPerClient(total, N, req)
    BY WorldsAssumption
       DEF WorldsAssumption, IInv, TypeOK, Sound, F, NumericKeys
<1>2. q[1] \in 0..(n - 1) /\ q[2] \in 0..(N - 1)
    BY DEF Requests
<1>3. EndByte(q) = Offset(files, spatiality, q[1], n, N, q[2], req) + req
    BY DEF EndByte, FirstByte
<1> HIDE DEF req, N, total
<1>4. N \in Nat \ {0} /\ q[1] \in Nat /\ q[1] < n
    BY <1>1, <1>2
<1>5. n * req <= total \div N /\ (total \div N) * N <= total /\ total \div N \in Nat
    BY <1>1, <1>4, Quotient DEF RequestsPerClient
<1>6. (N * n) * req <= total
    <2> DEFINE t == total \div N
               p == n * req
    <2>1. p \in Nat /\ t \in Nat /\ p <= t /\ t * N <= total
        BY <1>1, <1>5
    <2>2. (N * n) * req = p * N
        BY <1>1, <1>4
    <2> HIDE DEF t, p
    <2>3. PICK d \in Nat : t = p + d
        <3>1. t - p \in Nat /\ t = p + (t - p)
            BY <2>1
        <3> QED
            BY <3>1
    <2>4. t * N = p * N + d * N /\ d * N \in Nat /\ p * N \in Nat
        BY <1>4, <2>1, <2>3
    <2> QED
        BY <1>1, <2>1, <2>2, <2>4
<1>7. n * req <= (N * n) * req
    <2>1. PICK m \in Nat : N = m + 1
        <3>1. N - 1 \in Nat /\ N = (N - 1) + 1
            BY <1>4
        <3> QED
            BY <3>1
    <2> DEFINE p == n * req
    <2>2. p \in Nat /\ (N * n) * req = N * p
        BY <1>1
    <2> HIDE DEF p
    <2>3. N * p = p + m * p /\ m * p \in Nat
        BY <2>1, <2>2
    <2>4. p <= (N * n) * req
        BY <2>2, <2>3
    <2> QED
        BY <2>4 DEF p
<1>8. CASE files = "shared"
    <2>1. /\ Offset("shared", spatiality, q[1], n, N, q[2], req) \in Nat
          /\ Offset("shared", spatiality, q[1], n, N, q[2], req) + req <= (N * n) * req
        BY <1>1, <1>2, SharedRequestsInFile
    <2> QED
        BY <1>1, <1>3, <1>6, <1>8, <2>1
<1>9. CASE files = "individual"
    <2>1. EndByte(q) = q[1] * req + req
        BY <1>3, <1>9 DEF Offset
    <2>2. q[1] * req + req <= n * req
        BY <1>1, <1>4, BlocksApart
    <2> QED
        BY <1>1, <1>4, <1>6, <1>7, <2>1, <2>2
<1> QED
    BY <1>1, <1>8, <1>9 DEF Layouts

\* ... nor does the run write more than it was asked to (main.c, lines 636-638).
THEOREM RequestsInside == Spec => []RequestsStayInside
<1> QED
    BY Inside, AlwaysIInv, PTL

----------------------------------------------------------------------------
(* What the loop has read.  It takes the last such key of the root for the  *)
(* value of a parameter only if the keys are all it takes for keys: an      *)
(* unknown key does not take its value with it, so that no token of that    *)
(* value may have the text of a parameter.                                  *)

\* Token k of document d is the value of a parameter.
IsValue(d, k) == k - 1 \in d.keys /\ d.tokens[k - 1].text \in Keys

\* The name of a parameter occurs as a key of the root, or as the value of a
\* parameter (a path may be called so), but nowhere else; and keys have values.
PlainDocument(d) ==
    /\ \A k \in 1..Len(d.tokens) :
          d.tokens[k].text \in Keys => k \in d.keys \/ IsValue(d, k)
    /\ \A k \in d.keys : k + 1 \notin d.keys
PlainDocuments == \A d \in Documents : PlainDocument(d)

\* The last key of that name before the token the loop looks at.
IsLast(key, k) ==
    /\ k \in Written(key) /\ k < i
    /\ \A l \in Written(key) : l < i => l <= k
HasPassed(key) == \E k \in Written(key) : k < i

\* What the parameters are, when k is the last key of that name, ...
NumberIs(key, k) == number[key] = document.tokens[k + 1].number
FilesAre(k) == files = document.tokens[k + 1].text
SpatialityIs(k) == spatiality = document.tokens[k + 1].text
OperationsAre(k) ==
    /\ writes <=> document.tokens[k + 1].text \in Writes
    /\ reads <=> document.tokens[k + 1].text \in Reads

\* ... and that there is one if the loop has passed any.
Parsed ==
    /\ \A key \in Keys : HasPassed(key) => \E k \in Written(key) : IsLast(key, k)
    /\ \A key \in NumericKeys :
          /\ ~HasPassed(key) => number[key] = 0
          /\ \A k \in Written(key) : IsLast(key, k) => NumberIs(key, k)
    /\ \A k \in Written("number_of_files") : IsLast("number_of_files", k) => FilesAre(k)
    /\ \A k \in Written("spatiality") : IsLast("spatiality", k) => SpatialityIs(k)
    /\ \A k \in Written("operations") : IsLast("operations", k) => OperationsAre(k)

Going == {"parsing", "verifying", "accepted", "planned"}
PInv ==
    outcome \in Going =>
        /\ Parsed
        /\ outcome = "parsing" => i > Length \/ ~IsValue(document, i)
        /\ outcome # "parsing" => i > Length

LEMMA PlainHere ==
    ASSUME PlainDocuments, TypeOK
    PROVE  /\ PlainDocument(document) /\ Length \in Nat
           /\ document.keys \subseteq 1..(Length - 1)
BY DocumentsAssumption DEF DocumentsAssumption, PlainDocuments, TypeOK, Length

\* A key the program knows, where it does not stand for a value, is one of the
\* root: it becomes the last of its name, and the other names see no change.
LEMMA KeyIsPassed ==
    ASSUME PlainDocuments, TypeOK, NEW key \in Keys, AtKey(key),
           ~IsValue(document, i), Skip, UNCHANGED given, NEW here, here = i
    PROVE  /\ here \in Written(key) /\ HasPassed(key)' /\ IsLast(key, here)'
           /\ \A k \in Written(key)' : IsLast(key, k)' => k = i
           /\ \A other \in Keys \ {key} :
                 /\ HasPassed(other)' <=> HasPassed(other)
                 /\ \A k : IsLast(other, k)' <=> IsLast(other, k)
           /\ ~IsValue(document, i)'
<1>1. /\ PlainDocument(document) /\ Length \in Nat
      /\ document.keys \subseteq 1..(Length - 1) /\ i \in 1..Length
    BY PlainHere DEF AtKey, TypeOK
<1>2. i \in document.keys /\ i + 1 \notin document.keys
    BY <1>1 DEF PlainDocument, AtKey, Length
<1>3. i' = i + 2 /\ document' = document /\ i \in Nat /\ document.tokens[i].text = key
    BY <1>1 DEF Skip, given, AtKey
<1>4. \A k : Written(k)' = Written(k) /\ Written(k) \subseteq document.keys
    BY <1>3 DEF Written
<1>5. \A k \in document.keys : k \in Nat /\ (k < i + 2 <=> k < i \/ k = i)
    <2>1. SUFFICES ASSUME NEW k \in document.keys
                   PROVE  k \in Nat /\ (k < i + 2 <=> k < i \/ k = i)
        OBVIOUS
    <2>2. k \in Nat /\ k # i + 1
        BY <1>1, <1>2
    <2> QED
        BY <1>3, <2>2
<1>6. i \in Written(key)
    BY <1>2, <1>3 DEF Written
<1>7. HasPassed(key)'
    BY <1>3, <1>4, <1>6 DEF HasPassed
<1>8. IsLast(key, here)'
    <2>1. here < i' /\ \A l \in Written(key) : l < i' => l <= here
        BY <1>3, <1>4, <1>5
    <2> QED
        BY <1>4, <1>6, <2>1 DEF IsLast
<1>9. ASSUME NEW k \in Written(key)', IsLast(key, k)'
      PROVE  k = i
    <2>1. k \in Nat /\ k < i + 2 /\ i <= k
        BY <1>3, <1>4, <1>5, <1>6, <1>9 DEF IsLast
    <2> QED
        BY <1>3, <1>4, <1>5, <1>9, <2>1
<1>10. ASSUME NEW other \in Keys \ {key}
       PROVE  /\ HasPassed(other)' <=> HasPassed(other)
              /\ \A k : IsLast(other, k)' <=> IsLast(other, k)
    <2>1. \A k \in Written(other) : k # i /\ k \in document.keys
        BY <1>3 DEF Written
    <2>2. \A k \in Written(other) : k < i' <=> k < i
        BY <1>3, <1>5, <2>1
    <2> QED
        BY <1>4, <2>2 DEF HasPassed, IsLast
<1>11. ~IsValue(document, i)'
    <2>1. i' - 1 = i + 1
        BY <1>3
    <2> QED
        BY <1>2, <1>3, <2>1 DEF IsValue
<1> QED
    BY <1>6, <1>7, <1>8, <1>9, <1>10, <1>11

\* A token that is no key of the program changes nothing.
LEMMA OthersAreIgnored ==
    ASSUME PlainDocuments, TypeOK, IgnoreKey
    PROVE  /\ \A key \in Keys :
                 /\ HasPassed(key)' <=> HasPassed(key)
                 /\ \A k : IsLast(key, k)' <=> IsLast(key, k)
           /\ ~IsValue(document, i)'
<1>1. /\ Length \in Nat /\ document.keys \subseteq 1..(Length - 1) /\ i \in Nat
      /\ i' = i + 1 /\ document' = document
      /\ document.tokens[i].text \notin Keys
    BY PlainHere DEF IgnoreKey, given, TypeOK
<1>2. \A k : Written(k)' = Written(k) /\ Written(k) \subseteq document.keys
    BY <1>1 DEF Written
<1>3. ASSUME NEW key \in Keys
      PROVE  /\ HasPassed(key)' <=> HasPassed(key)
             /\ \A k : IsLast(key, k)' <=> IsLast(key, k)
    <2>1. \A k \in Written(key) : k # i /\ k \in Nat
        BY <1>1 DEF Written
    <2>2. \A k \in Written(key) : k < i' <=> k < i
        BY <1>1, <2>1
    <2> QED
        BY <1>2, <2>2 DEF HasPassed, IsLast
<1>4. ~IsValue(document, i)'
    <2>1. i' - 1 = i
        BY <1>1
    <2> QED
        BY <1>1, <2>1 DEF IsValue
<1> QED
    BY <1>3, <1>4

LEMMA InitPInv == Init => PInv
<1> SUFFICES ASSUME Init PROVE PInv
    OBVIOUS
<1>1. /\ document \in Documents /\ i = 1 /\ outcome = "parsing"
      /\ number = [k \in NumericKeys |-> 0]
      /\ document.keys \subseteq 1..(Length - 1) /\ Length \in Nat
    BY DocumentsAssumption DEF DocumentsAssumption, Init, Length
<1>2. \A key : ~HasPassed(key) /\ \A k : ~IsLast(key, k)
    BY <1>1 DEF HasPassed, IsLast, Written
<1>3. ~IsValue(document, i)
    BY <1>1 DEF IsValue
<1>4. Parsed
    BY <1>1, <1>2 DEF Parsed
<1> QED
    BY <1>1, <1>3, <1>4 DEF PInv

\* A key of its own name has the value that was read; what the other names
\* have is theirs still.
LEMMA ReadingKeeps ==
    ASSUME PlainDocuments, TypeOK, PInv, NEW key \in Keys, AtKey(key), Skip,
           UNCHANGED given, outcome' = "parsing",
           \A other \in NumericKeys \ {key} : number'[other] = number[other],
           key \in NumericKeys => number'[key] = Value.number,
           IF key = "number_of_files" THEN files' = Value.text ELSE UNCHANGED files,
           IF key = "spatiality" THEN spatiality' = Value.text
                                 ELSE UNCHANGED spatiality,
           IF key = "operations"
           THEN writes' = (Value.text \in Writes) /\ reads' = (Value.text \in Reads)
           ELSE UNCHANGED <<writes, reads>>
    PROVE  PInv'
<1>1. Parsed /\ ~IsValue(document, i) /\ document' = document
    <2>1. ~(i > Length) /\ outcome = "parsing"
        BY PlainHere DEF AtKey, TypeOK
    <2> QED
        BY <2>1 DEF PInv, Going, given
<1>0. PICK here : here = i
    OBVIOUS
<1>2. /\ here \in Written(key) /\ HasPassed(key)' /\ IsLast(key, here)'
      /\ \A k \in Written(key)' : IsLast(key, k)' => k = i
      /\ ~IsValue(document, i)'
    BY <1>0, <1>1, KeyIsPassed
<1>3. \A other \in Keys \ {key} :
          /\ HasPassed(other)' <=> HasPassed(other)
          /\ \A k : IsLast(other, k)' <=> IsLast(other, k)
    BY <1>1, KeyIsPassed
<1>4. \A k : Written(k)' = Written(k)
    BY <1>1 DEF Written
<1>5. (\A k \in Keys : HasPassed(k) => \E l \in Written(k) : IsLast(k, l))'
    <2>1. ASSUME NEW k \in Keys, HasPassed(k)'
          PROVE  \E l \in Written(k)' : IsLast(k, l)'
        <3>1. CASE k = key
            BY <1>2, <1>4, <3>1
        <3>2. CASE k # key
            <4>1. HasPassed(k)
                BY <1>3, <2>1, <3>2
            <4>2. PICK l \in Written(k) : IsLast(k, l)
                BY <1>1, <4>1 DEF Parsed
            <4> QED
                BY <1>3, <1>4, <3>2, <4>2
        <3> QED
            BY <3>1, <3>2
    <2> QED
        BY <2>1
<1>6. ASSUME NEW k \in NumericKeys
      PROVE  /\ ~HasPassed(k)' => number'[k] = 0
             /\ \A l \in Written(k)' : IsLast(k, l)' => NumberIs(k, l)'
    <2>1. CASE k = key
        BY <1>0, <1>1, <1>2, <2>1 DEF NumberIs, Value
    <2>2. CASE k # key
        <3>1. k \in Keys \ {key} /\ number'[k] = number[k]
            BY <2>2 DEF Keys
        <3> QED
            BY <1>1, <1>3, <1>4, <3>1 DEF Parsed, NumberIs
    <2> QED
        BY <2>1, <2>2
<1>7. (\A k \in Written("number_of_files") : IsLast("number_of_files", k) => FilesAre(k))'
    <2>1. CASE key = "number_of_files"
        BY <1>0, <1>1, <1>2, <2>1 DEF FilesAre, Value
    <2>2. CASE key # "number_of_files"
        <3>1. "number_of_files" \in Keys \ {key} /\ files' = files
            BY <2>2 DEF Keys
        <3> QED
            BY <1>1, <1>3, <1>4, <3>1 DEF Parsed, FilesAre
    <2> QED
        BY <2>1, <2>2
<1>8. (\A k \in Written("spatiality") : IsLast("spatiality", k) => SpatialityIs(k))'
    <2>1. CASE key = "spatiality"
        BY <1>0, <1>1, <1>2, <2>1 DEF SpatialityIs, Value
    <2>2. CASE key # "spatiality"
        <3>1. "spatiality" \in Keys \ {key} /\ spatiality' = spatiality
            BY <2>2 DEF Keys
        <3> QED
            BY <1>1, <1>3, <1>4, <3>1 DEF Parsed, SpatialityIs
    <2> QED
        BY <2>1, <2>2
<1>9. (\A k \in Written("operations") : IsLast("operations", k) => OperationsAre(k))'
    <2>1. CASE key = "operations"
        BY <1>0, <1>1, <1>2, <2>1 DEF OperationsAre, Value
    <2>2. CASE key # "operations"
        <3>1. "operations" \in Keys \ {key} /\ writes' = writes /\ reads' = reads
            BY <2>2 DEF Keys
        <3> QED
            BY <1>1, <1>3, <1>4, <3>1 DEF Parsed, OperationsAre
    <2> QED
        BY <2>1, <2>2
<1>10. Parsed'
    BY <1>5, <1>6, <1>7, <1>8, <1>9 DEF Parsed
<1> QED
    BY <1>2, <1>10 DEF PInv

LEMMA NextKeepsPInv ==
    ASSUME PlainDocuments, TypeOK, PInv, [Next]_vars
    PROVE  PInv'
<1>1. ASSUME outcome' \notin Going
      PROVE  PInv'
    BY <1>1 DEF PInv
<1>2. ASSUME outcome \in Going, outcome' \in Going,
             UNCHANGED <<given, i, number, files, spatiality, writes, reads>>,
             outcome # "parsing" \/ i > Length
      PROVE  PInv'
    <2>1. i > Length /\ Length' = Length /\ i' = i
        BY <1>2 DEF PInv, given, Length
    <2>2. Parsed'
        BY <1>2 DEF PInv, Parsed, HasPassed, IsLast, Written, NumberIs, FilesAre,
                    SpatialityIs, OperationsAre, given
    <2> QED
        BY <2>1, <2>2 DEF PInv
<1>3. CASE \E key \in NumericKeys : ReadNumber(key)
    <2>1. PICK key \in NumericKeys : ReadNumber(key)
        BY <1>3
    <2>2. /\ AtKey(key) /\ Skip /\ UNCHANGED given /\ key \in Keys
          /\ UNCHANGED <<files, spatiality, writes, reads>>
          /\ key \notin {"path", "operations", "number_of_files", "spatiality"}
          /\ number' = [number EXCEPT ![key] = Value.number]
        BY <2>1 DEF ReadNumber, Keys, NumericKeys
    <2>3. /\ number'[key] = Value.number
          /\ \A other \in NumericKeys \ {key} : number'[other] = number[other]
        BY <2>2 DEF TypeOK
    <2>4. outcome' \in Going => outcome' = "parsing"
        BY <2>1 DEF ReadNumber, Going
    <2> QED
        BY <1>1, <2>2, <2>3, <2>4, ReadingKeeps
<1>4. CASE ReadPath
    <2>1. /\ AtKey("path") /\ Skip /\ UNCHANGED given
          /\ UNCHANGED <<number, files, spatiality, writes, reads>>
          /\ outcome' = "parsing"
        BY <1>4 DEF ReadPath, AtKey
    <2>2. "path" \in Keys /\ "path" \notin NumericKeys
        BY DEF Keys, NumericKeys
    <2> QED
        BY <2>1, <2>2, ReadingKeeps
<1>5. CASE ReadOperations
    <2>1. /\ AtKey("operations") /\ Skip /\ UNCHANGED given
          /\ UNCHANGED <<number, files, spatiality>>
          /\ writes' = (Value.text \in Writes) /\ reads' = (Value.text \in Reads)
          /\ outcome' = "parsing"
        BY <1>5 DEF ReadOperations, AtKey
    <2>2. "operations" \in Keys /\ "operations" \notin NumericKeys
        BY DEF Keys, NumericKeys
    <2> QED
        BY <2>1, <2>2, ReadingKeeps
<1>6. CASE ReadFiles
    <2>1. /\ AtKey("number_of_files") /\ Skip /\ UNCHANGED given
          /\ UNCHANGED <<number, spatiality, writes, reads>>
        BY <1>6 DEF ReadFiles
    <2>2. "number_of_files" \in Keys /\ "number_of_files" \notin NumericKeys
        BY DEF Keys, NumericKeys
    <2>3. outcome' \in Going => outcome' = "parsing" /\ files' = Value.text
        BY <1>6 DEF ReadFiles, AtKey, Going
    <2> QED
        BY <1>1, <2>1, <2>2, <2>3, ReadingKeeps
<1>7. CASE ReadSpatiality
    <2>1. /\ AtKey("spatiality") /\ Skip /\ UNCHANGED given
          /\ UNCHANGED <<number, files, writes, reads>>
        BY <1>7 DEF ReadSpatiality
    <2>2. "spatiality" \in Keys /\ "spatiality" \notin NumericKeys
        BY DEF Keys, NumericKeys
    <2>3. outcome' \in Going => outcome' = "parsing" /\ spatiality' = Value.text
        BY <1>7 DEF ReadSpatiality, AtKey, Going
    <2> QED
        BY <1>1, <2>1, <2>2, <2>3, ReadingKeeps
<1>8. CASE IgnoreKey
    <2>1. /\ \A key \in Keys :
                /\ HasPassed(key)' <=> HasPassed(key)
                /\ \A k : IsLast(key, k)' <=> IsLast(key, k)
          /\ ~IsValue(document, i)'
        BY <1>8, OthersAreIgnored
    <2>2. /\ UNCHANGED <<given, number, files, spatiality, writes, reads>>
          /\ outcome = "parsing" /\ outcome' = "parsing"
        BY <1>8 DEF IgnoreKey
    <2>3. \A k : Written(k)' = Written(k)
        BY <2>2 DEF Written, given
    <2>4. Parsed
        BY <2>2 DEF PInv, Going
    <2>5. /\ NumericKeys \subseteq Keys
          /\ {"number_of_files", "spatiality", "operations"} \subseteq Keys
        BY DEF Keys
    <2>6. document' = document
        BY <2>2 DEF given
    <2>7. Parsed'
        BY <2>1, <2>2, <2>3, <2>4, <2>5, <2>6
           DEF Parsed, NumberIs, FilesAre, SpatialityIs, OperationsAre
    <2> QED
        BY <2>1, <2>2, <2>7 DEF PInv
<1>9. CASE EndOfTokens
    BY <1>2, <1>9 DEF EndOfTokens, Going
<1>10. CASE Verify
    BY <1>1, <1>2, <1>10 DEF Verify, Going, PInv
<1>11. CASE Plan
    BY <1>1, <1>2, <1>11 DEF Plan, Going, PInv
<1>12. CASE UNCHANGED vars
    <2>1. UNCHANGED <<given, i, number, files, spatiality, writes, reads, outcome>>
        BY <1>12 DEF vars
    <2> QED
        BY <2>1 DEF PInv, Parsed, HasPassed, IsLast, Written, NumberIs, FilesAre,
                    SpatialityIs, OperationsAre, given, Length, IsValue
<1> QED
    BY <1>3, <1>4, <1>5, <1>6, <1>7, <1>8, <1>9, <1>10, <1>11, <1>12
       DEF Next, Done

\* At the end of the tokens the last key before the loop is the last of all.
LEMMA AllParsed == TypeOK /\ PlainDocuments /\ PInv => ParsedAsWritten
<1> SUFFICES ASSUME TypeOK, PlainDocuments, PInv,
                    outcome \in {"verifying", "accepted", "planned"}
             PROVE  /\ \A key \in NumericKeys :
                          number[key] = IF Written(key) = {} THEN 0
                                        ELSE ValueOf(key).number
                    /\ Written("number_of_files") # {} =>
                          files = ValueOf("number_of_files").text
                    /\ Written("spatiality") # {} =>
                          spatiality = ValueOf("spatiality").text
                    /\ Written("operations") # {} =>
                          /\ writes <=> ValueOf("operations").text \in Writes
                          /\ reads <=> ValueOf("operations").text \in Reads
    BY DEF ParsedAsWritten
<1>1. Parsed /\ i > Length /\ i \in Nat
    BY PlainHere DEF PInv, Going, TypeOK
<1>2. \A key : \A k \in Written(key) : k \in Nat /\ k < i
    BY <1>1, PlainHere DEF Written
<1>3. ASSUME NEW key \in Keys, Written(key) # {}
      PROVE  Given(key) \in Written(key) /\ IsLast(key, Given(key))
    <2>1. PICK k \in Written(key) : IsLast(key, k)
        BY <1>1, <1>2, <1>3 DEF Parsed, HasPassed
    <2>2. \A l \in Written(key) : l <= k
        BY <1>2, <2>1 DEF IsLast
    <2>3. Given(key) \in Written(key) /\ \A l \in Written(key) : l <= Given(key)
        BY <2>2 DEF Given
    <2> QED
        BY <1>2, <2>3 DEF IsLast
<1>4. ASSUME NEW key \in NumericKeys
      PROVE  number[key] = IF Written(key) = {} THEN 0 ELSE ValueOf(key).number
    <2>1. key \in Keys
        BY DEF Keys
    <2>2. CASE Written(key) = {}
        BY <1>1, <2>2 DEF Parsed, HasPassed
    <2>3. CASE Written(key) # {}
        BY <1>1, <1>3, <2>1, <2>3 DEF Parsed, NumberIs, ValueOf
    <2> QED
        BY <2>2, <2>3
<1>5. {"number_of_files", "spatiality", "operations"} \subseteq Keys
    BY DEF Keys
<1>6. Written("number_of_files") # {} => files = ValueOf("number_of_files").text
    BY <1>1, <1>3, <1>5 DEF Parsed, FilesAre, ValueOf
<1>7. Written("spatiality") # {} => spatiality = ValueOf("spatiality").text
    BY <1>1, <1>3, <1>5 DEF Parsed, SpatialityIs, ValueOf
<1>8. Written("operations") # {} =>
          /\ writes <=> ValueOf("operations").text \in Writes
          /\ reads <=> ValueOf("operations").text \in Reads
    BY <1>1, <1>3, <1>5 DEF Parsed, OperationsAre, ValueOf
<1> QED
    BY <1>4, <1>6, <1>7, <1>8

\* A file in which the name of a parameter occurs only as a key of the root or
\* as the value of a parameter is read as it is written, duplicates and unknown
\* keys included (main.c, lines 204-322); finding 4 is about the other files.
THEOREM PlainFilesAreParsed == ASSUME PlainDocuments PROVE Spec => []ParsedAsWritten
<1>1. TypeOK /\ PInv /\ [Next]_vars => PInv'
    BY NextKeepsPInv
<1>2. TypeOK /\ PInv => ParsedAsWritten
    BY AllParsed
<1> QED
    BY <1>1, <1>2, InitPInv, TypeCorrect, PTL DEF Spec
=============================================================================

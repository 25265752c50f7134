--------------------------- MODULE Configuration ---------------------------
(***************************************************************************)
(* How a run is set up (src/src/main.c, the same in every process): the    *)
(* loop over the tokens of the JSON file, the checks on what it found, and *)
(* the plan of requests that follows.                                      *)
(*                                                                         *)
(* A document is the sequence of its tokens behind the one of the root     *)
(* object, as jsmn delivers them, with the positions of the root's keys.   *)
(* A token is its text and the number that atoi makes of it.               *)
(***************************************************************************)
EXTENDS AccessPattern, Sequences, FiniteSets

CONSTANTS Documents,       \* the files a run may be given
          Worlds,          \* how many processes a run may have
          MaxHandlers,     \* FWD_MAX_HANDLER_THREADS
          MaxDispatchers   \* FWD_MAX_PROCESS_THREADS

NumericKeys == {"forwarders", "handlers", "dispatchers", "total_size",
                "request_size", "stone_wall", "direct_io", "validation"}
Keys == NumericKeys \cup {"path", "operations", "number_of_files", "spatiality"}

\* The texts that contain "write" and those that contain "read".
Writes == {"write", "write,read"}
Reads == {"read", "write,read"}

\* Numbers are natural, and no document ends where a value should be.
ASSUME DocumentsAssumption ==
    \A d \in Documents :
        /\ d.tokens \in Seq([text : STRING, number : Nat]) /\ d.tokens # <<>>
        /\ d.keys \subseteq 1..(Len(d.tokens) - 1)
        /\ d.tokens[Len(d.tokens)].text \notin Keys
ASSUME WorldsAssumption == Worlds \subseteq Nat \ {0}

VARIABLES
    document, world,
    i,                          \* the token the loop looks at
    number,                     \* the numeric parameters
    files, spatiality,          \* simulation_files, simulation_spatiality
    writes, reads,              \* simulation_operations_write and _read
    n,                          \* requests per client
    outcome                     \* what comes next, or how the run ended

given == <<document, world>>
vars  == <<given, i, number, files, spatiality, writes, reads, n, outcome>>

Init ==
    /\ document \in Documents /\ world \in Worlds
    /\ i = 1 /\ number = [k \in NumericKeys |-> 0]
    /\ files = "individual" /\ spatiality = "contiguous"
    /\ writes = FALSE /\ reads = FALSE
    /\ n = 0 /\ outcome = "parsing"

----------------------------------------------------------------------------
(* The loop over the tokens.  A key that is known takes the next token for  *)
(* its value, and the loop skips both.                                      *)

Length == Len(document.tokens)
AtKey(key) == /\ outcome = "parsing" /\ i <= Length
              /\ document.tokens[i].text = key
Value == document.tokens[i + 1]

Skip_None == i' = i + 1
Skip_Twice == i' = i + 3
Skip == i' = i + 2

ReadNumber(key) ==
    /\ AtKey(key)
    /\ number' = [number EXCEPT ![key] = Value.number]
    /\ Skip
    /\ outcome' = IF key = "validation" /\ Value.number > 1
                  THEN "ERROR_INVALID_VALIDATION" ELSE "parsing"
    /\ UNCHANGED <<given, files, spatiality, writes, reads, n>>

ReadPath ==
    /\ AtKey("path")
    /\ Skip
    /\ UNCHANGED <<given, number, files, spatiality, writes, reads, n, outcome>>

ReadOperations ==
    /\ AtKey("operations")
    /\ writes' = (Value.text \in Writes) /\ reads' = (Value.text \in Reads)
    /\ Skip
    /\ UNCHANGED <<given, number, files, spatiality, n, outcome>>

ReadFiles ==
    /\ AtKey("number_of_files")
    /\ IF Value.text \in Layouts
       THEN files' = Value.text /\ UNCHANGED outcome
       ELSE outcome' = "ERROR_INVALID_PATTERN" /\ UNCHANGED files
    /\ Skip
    /\ UNCHANGED <<given, number, spatiality, writes, reads, n>>

ReadSpatiality ==
    /\ AtKey("spatiality")
    /\ IF Value.text \in Spatialities
       THEN spatiality' = Value.text /\ UNCHANGED outcome
       ELSE outcome' = "ERROR_INVALID_PATTERN" /\ UNCHANGED spatiality
    /\ Skip
    /\ UNCHANGED <<given, number, files, writes, reads, n>>

\* A key that is not known does not take the next token with it.
IgnoreKey ==
    /\ outcome = "parsing" /\ i <= Length
    /\ document.tokens[i].text \notin Keys
    /\ i' = i + 1
    /\ UNCHANGED <<given, number, files, spatiality, writes, reads, n, outcome>>

EndOfTokens ==
    /\ outcome = "parsing" /\ i > Length
    /\ outcome' = "verifying"
    /\ UNCHANGED <<given, i, number, files, spatiality, writes, reads, n>>

----------------------------------------------------------------------------
(* The checks, in the order of the code, and the plan. *)

F == number["forwarders"]

Unbalanced_Unchecked == FALSE
Unbalanced == world % F # 0

\* With no forwarder at all the check for balance itself divides by zero.
Verdict ==
    IF files = "individual" /\ spatiality = "strided" THEN "ERROR_INVALID_PATTERN"
    ELSE IF ~writes /\ ~reads THEN "ERROR_INVALID_OPERATION"
    ELSE IF number["stone_wall"] > 0 /\ writes = reads THEN "ERROR_STONE_WALL_SETUP"
    ELSE IF world < 2 * F THEN "ERROR_INVALID_SETUP"
    ELSE IF F = 0 THEN "SIGFPE"
    ELSE IF \/ Unbalanced \/ number["handlers"] > MaxHandlers
            \/ number["dispatchers"] > MaxDispatchers THEN "ERROR_INVALID_SETUP"
    ELSE "accepted"

Verify ==
    /\ outcome = "verifying"
    /\ outcome' = Verdict
    /\ UNCHANGED <<given, i, number, files, spatiality, writes, reads, n>>

\* Each client computes how many requests it issues.
Plan ==
    /\ outcome = "accepted"
    /\ IF number["request_size"] = 0
       THEN outcome' = "SIGFPE" /\ UNCHANGED n
       ELSE /\ outcome' = "planned"
            /\ n' = RequestsPerClient(number["total_size"], world - F,
                                      number["request_size"])
    /\ UNCHANGED <<given, i, number, files, spatiality, writes, reads>>

Errors == {"ERROR_INVALID_VALIDATION", "ERROR_INVALID_PATTERN",
           "ERROR_INVALID_OPERATION", "ERROR_STONE_WALL_SETUP",
           "ERROR_INVALID_SETUP", "SIGFPE"}

Done == outcome \in Errors \cup {"planned"} /\ UNCHANGED vars

Next == \/ \E key \in NumericKeys : ReadNumber(key)
        \/ ReadPath \/ ReadOperations \/ ReadFiles \/ ReadSpatiality
        \/ IgnoreKey \/ EndOfTokens \/ Verify \/ Plan \/ Done

Spec == Init /\ [][Next]_vars

----------------------------------------------------------------------------
(* Correctness. *)

TypeOK ==
    /\ document \in Documents /\ world \in Worlds
    /\ i \in 1..(Length + 1)
    /\ number \in [NumericKeys -> Nat]
    /\ files \in Layouts /\ spatiality \in Spatialities
    /\ writes \in BOOLEAN /\ reads \in BOOLEAN /\ n \in Nat
    /\ outcome \in {"parsing", "verifying", "accepted", "planned"} \cup Errors

\* When the loop ends, each parameter has the value that the last such key of
\* the root object gives it, or its default; nothing else in the file counts.
Written(key) == {k \in document.keys : document.tokens[k].text = key}
Given(key) == CHOOSE k \in Written(key) : \A l \in Written(key) : l <= k
ValueOf(key) == document.tokens[Given(key) + 1]
ParsedAsWritten ==
    outcome \in {"verifying", "accepted", "planned"} =>
        /\ \A key \in NumericKeys :
              number[key] = IF Written(key) = {} THEN 0 ELSE ValueOf(key).number
        /\ Written("number_of_files") # {} => files = ValueOf("number_of_files").text
        /\ Written("spatiality") # {} => spatiality = ValueOf("spatiality").text
        /\ Written("operations") # {} =>
              /\ writes <=> ValueOf("operations").text \in Writes
              /\ reads <=> ValueOf("operations").text \in Reads

\* In a run that is accepted every forwarder exists that a client turns to, and
\* has exactly the clients whose shutdown messages it will count.
ServersAreBalanced ==
    outcome \in {"accepted", "planned"} =>
        /\ \A r \in F..(world - 1) : get_forwarding_server(r, F, world) < F
        /\ \A s \in 0..(F - 1) :
              Cardinality(ClientsOf(s, F, world)) = ShutdownCount(F, world)

\* Two requests of a phase touch no common byte of a file.
Requests == (0..(n - 1)) \X (0..(world - F - 1))
FirstByte(q) == Offset(files, spatiality, q[1], n, world - F, q[2],
                       number["request_size"])
EndByte(q) == FirstByte(q) + number["request_size"]
RequestsAreDisjoint ==
    outcome = "planned" =>
        \A q, u \in Requests :
            q # u /\ FileOf(files, q[2]) = FileOf(files, u[2]) =>
                EndByte(q) <= FirstByte(u) \/ EndByte(u) <= FirstByte(q)

\* The requests of a run write no file beyond the total size that was asked for.
RequestsStayInside ==
    outcome = "planned" =>
        \A q \in Requests : EndByte(q) <= number["total_size"]

\* The run is not refused.
IsAccepted == outcome \notin Errors
=============================================================================

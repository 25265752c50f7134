---------------------------- MODULE FileService ----------------------------
(***************************************************************************)
(* What the forwarding server promises to its clients: the file system, as *)
(* if each of them used it alone and directly.  A client has one operation *)
(* under way at a time; between its call and its return the operation has  *)
(* its effect, once and at one instant.                                    *)
(***************************************************************************)
EXTENDS Integers

CONSTANTS Clients, Blocks,
          File,      \* the file of each client
          Nothing,   \* what a file holds where nobody has written
          Fresh,     \* what a read returns that fell short
          Reliable   \* no transfer falls short

Files == {File[c] : c \in Clients}

VARIABLES
    call,      \* the operation each client has under way, or "none"
    done,      \* whether it had its effect
    result,    \* what a read has found
    opened,    \* the clients that have their file open
    users,     \* how many of them each file has
    content    \* the bytes of the files: which client wrote each block

vars == <<call, done, result, opened, users, content>>

NoCall == [op |-> "none", block |-> 0]

Init ==
    /\ call = [c \in Clients |-> NoCall]
    /\ done = [c \in Clients |-> FALSE]
    /\ result = [c \in Clients |-> Nothing]
    /\ opened = {}
    /\ users = [f \in Files |-> 0]
    /\ content = [f \in Files |-> [b \in Blocks |-> Nothing]]

\* Only an open file is read, written or closed.
Call(c) ==
    /\ call[c] = NoCall
    /\ \E op \in IF c \in opened THEN {"read", "write", "close"} ELSE {"open"},
          b \in Blocks :
          call' = [call EXCEPT ![c] = [op |-> op, block |-> b]]
    /\ UNCHANGED <<done, result, opened, users, content>>

TakesEffect(c, op) ==
    /\ call[c].op = op /\ ~done[c]
    /\ done' = [done EXCEPT ![c] = TRUE]
    /\ UNCHANGED call

Open(c) ==
    /\ TakesEffect(c, "open")
    /\ opened' = opened \cup {c}
    /\ users' = [users EXCEPT ![File[c]] = @ + 1]
    /\ UNCHANGED <<result, content>>

Close(c) ==
    /\ TakesEffect(c, "close")
    /\ opened' = opened \ {c}
    /\ users' = [users EXCEPT ![File[c]] = @ - 1]
    /\ UNCHANGED <<result, content>>

Write(c) ==
    /\ TakesEffect(c, "write")
    /\ \/ content' = [content EXCEPT ![File[c]][call[c].block] = c]
       \/ ~Reliable /\ UNCHANGED content
    /\ UNCHANGED <<result, opened, users>>

Read(c) ==
    /\ TakesEffect(c, "read")
    /\ \/ result' = [result EXCEPT ![c] = content[File[c]][call[c].block]]
       \/ ~Reliable /\ result' = [result EXCEPT ![c] = Fresh]
    /\ UNCHANGED <<opened, users, content>>

Return(c) ==
    /\ done[c]
    /\ call' = [call EXCEPT ![c] = NoCall]
    /\ done' = [done EXCEPT ![c] = FALSE]
    /\ result' = [result EXCEPT ![c] = Nothing]
    /\ UNCHANGED <<opened, users, content>>

Next == \E c \in Clients :
           Call(c) \/ Open(c) \/ Close(c) \/ Write(c) \/ Read(c) \/ Return(c)

Spec == Init /\ [][Next]_vars

=============================================================================

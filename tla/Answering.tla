------------------------------ MODULE Answering ------------------------------
(***************************************************************************)
(* What a JSON-RPC server promises one client, whatever its threads and    *)
(* buffers: a message that was read gets exactly the answers it is owed,   *)
(* and the server only stops when none is missing.                         *)
(*                                                                         *)
(* This is the abstract specification that Stdio implements.               *)
(***************************************************************************)
EXTENDS Naturals

CONSTANTS Lines,    \* messages a client may send
          Owed(_)   \* how many answers the server gives a message

VARIABLES read,      \* the messages the server took from its input
          answered,  \* the answers the client has: <<message, which>>
          stopped    \* the server is gone

vars == <<read, answered, stopped>>

Answers(l) == {l} \X (1..Owed(l))

Init == read = {} /\ answered = {} /\ stopped = FALSE

Read(l) ==
    /\ ~stopped
    /\ l \notin read
    /\ read' = read \cup {l}
    /\ UNCHANGED <<answered, stopped>>

Answer(l, k) ==
    /\ ~stopped
    /\ l \in read
    /\ <<l, k>> \notin answered
    /\ answered' = answered \cup {<<l, k>>}
    /\ UNCHANGED <<read, stopped>>

Stop ==
    /\ ~stopped
    /\ \A l \in read : Answers(l) \subseteq answered
    /\ stopped' = TRUE
    /\ UNCHANGED <<read, answered>>

Next ==
    \/ \E l \in Lines : Read(l) \/ \E k \in 1..Owed(l) : Answer(l, k)
    \/ Stop

Spec == Init /\ [][Next]_vars
=============================================================================

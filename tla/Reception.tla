------------------------------ MODULE Reception ------------------------------
(***************************************************************************)
(* What a channel promises of a message, whatever fails or stops on the    *)
(* way: it is answered once or not at all, while somebody works on it, and *)
(* a row of it is kept only after the model's reply, and no other text,    *)
(* has reached the customer.                                               *)
(***************************************************************************)
CONSTANTS
    Messages,
    Answers,   \* what a message may be answered with
    Replies    \* those of them the model gives

VARIABLES
    answered,  \* answered[m]: what the customer has read
    over,      \* messages nobody works on any more
    kept       \* messages the archive has a row of

reception == <<answered, over, kept>>

ReceptionInit ==
    /\ answered = [m \in Messages |-> {}]
    /\ over = {} /\ kept = {}

\* What m is answered; the work on it may end with that.
Answer(m) ==
    /\ m \notin over
    /\ answered[m] = {}
    /\ \E a \in Answers : answered' = [answered EXCEPT ![m] = {a}]
    /\ over' = over \/ over' = over \cup {m}
    /\ UNCHANGED kept

\* A row of m; the work on it may end with that.
Keep(m) ==
    /\ m \notin over
    /\ \E a \in Replies : answered[m] = {a}
    /\ kept' = kept \cup {m}
    /\ over' = over \/ over' = over \cup {m}
    /\ UNCHANGED answered

\* The work on some messages ends, as that on all does with the process.
Close ==
    /\ \E S \in SUBSET Messages : over' = over \cup S
    /\ UNCHANGED <<answered, kept>>

ReceptionNext == Close \/ \E m \in Messages : Answer(m) \/ Keep(m)

ReceptionSpec == ReceptionInit /\ [][ReceptionNext]_reception
=============================================================================

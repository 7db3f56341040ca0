---------------------------- MODULE MCWaProcessor ----------------------------
(***************************************************************************)
(* Small instances of WaProcessor.  Messages are named by what they are:   *)
(* t1, t2, t3 texts and i1 an image of the customer, o1 a message of a     *)
(* type that is not served.                                                *)
(***************************************************************************)
EXTENDS WaProcessor, TLC

CONSTANTS t1, t2, t3, i1, o1, customer, advisor, d1, d2

BothPhones == {customer, advisor}
AllMessages == {t1, t2, t3, i1, o1}
FromOf == [m \in AllMessages |-> customer]
KindOf == [m \in AllMessages |-> IF m = i1 THEN "image"
                                 ELSE IF m = o1 THEN "other" ELSE "text"]

RedeliveredMessages == {o1, i1}
RedeliveredFrom == [m \in RedeliveredMessages |-> FromOf[m]]
RedeliveredKind == [m \in RedeliveredMessages |-> KindOf[m]]

TwoDeliveries == {d1, d2}

\* Three texts and an image of one new contact in two deliveries at once.
Batches == d1 :> <<t1, t2>> @@ d2 :> <<t3, o1, i1>>
\* An image posted a second time, in other company.
Redelivery == d1 :> <<i1>> @@ d2 :> <<i1, o1>>
=============================================================================

-------------------------- MODULE RateLimiter_proofs --------------------------
(***************************************************************************)
(* Proofs about RateLimiter, for any number of callers, contacts and days  *)
(* and any limit: the types, the bound on the overshoot, the counting of   *)
(* every registered contact, and the safety part of the refinement of      *)
(* DailyAdmission.                                                         *)
(***************************************************************************)
EXTENDS RateLimiter, FiniteSetTheorems, TLAPS

(***************************************************************************)
(* Adding an element to one of a family of sets keeps the family's type.   *)
(***************************************************************************)
LEMMA AddType ==
  ASSUME NEW S, NEW f \in [Days -> SUBSET S], NEW d \in Days, NEW e \in S
  PROVE  [f EXCEPT ![d] = @ \union {e}] \in [Days -> SUBSET S]
OBVIOUS

(***************************************************************************)
(* Every variable of the limiter keeps its type.                           *)
(***************************************************************************)
THEOREM TypeCorrect == Spec => []TypeOK
<1> USE DEF TypeOK, Locations, CheckResult,
        Allow, AllowContinuation, Deny, NoVerdict
<1>0. Nobody \in Phones
  BY PhonesAssumption DEF Nobody
<1>1. Init => TypeOK
  BY <1>0, DaysAssumption DEF Init, Days
<1>2. TypeOK /\ [Next]_vars => TypeOK'
  <2> SUFFICES ASSUME TypeOK, [Next]_vars PROVE TypeOK'
    OBVIOUS
  <2> USE <1>0, DaysAssumption DEF redis, alertVars, callerVars
  <2> DEFINE CallerTypes ==
               /\ pc' \in [Callers -> Locations]
               /\ phone' \in [Callers -> Phones]
               /\ day' \in [Callers -> Days]
               /\ verdict' \in [Callers -> CheckResult \union {NoVerdict}]
  <2>r. ASSUME NEW c \in Callers, NEW from, NEW v \in CheckResult, Return(c, from, v)
        PROVE  CallerTypes
    BY <2>r DEF Return, Goto, Days
  <2>g. ASSUME NEW c \in Callers, NEW from, NEW to \in Locations, Goto(c, from, to),
               UNCHANGED <<phone, day, verdict>>
        PROVE  CallerTypes
    BY <2>g DEF Goto
  <2>1. CASE Midnight
    BY <2>1 DEF Midnight, Days
  <2>2. ASSUME NEW c \in Callers, Call(c) PROVE TypeOK'
    BY <2>2 DEF Call, Goto
  <2>3. ASSUME NEW c \in Callers, SIsMember(c) PROVE TypeOK'
    <3>1. CallerTypes
      BY <2>3, <2>r, <2>g DEF SIsMember
    <3> QED BY <2>3, <3>1 DEF SIsMember
  <2>4. ASSUME NEW c \in Callers, Get(c) PROVE TypeOK'
    <3>1. CallerTypes
      BY <2>4, <2>r, <2>g DEF Get
    <3> QED BY <2>4, <3>1 DEF Get
  <2>5. ASSUME NEW c \in Callers, FailOpen(c) PROVE TypeOK'
    <3>1. CallerTypes
      BY <2>5, <2>r DEF FailOpen
    <3> QED BY <2>5, <3>1 DEF FailOpen
  <2>6. ASSUME NEW c \in Callers, SAdd(c) PROVE TypeOK'
    <3>1. CallerTypes
      BY <2>6, <2>g DEF SAdd
    <3>2. phones' \in [Days -> SUBSET Phones]
      BY <2>6, AddType DEF SAdd
    <3>3. missed' \in [Days -> BOOLEAN]
      BY <2>6 DEF SAdd
    <3> QED BY <2>6, <3>1, <3>2, <3>3 DEF SAdd
  <2>7. ASSUME NEW c \in Callers, Incr(c) PROVE TypeOK'
    <3>1. CallerTypes
      BY <2>7, <2>g DEF Incr
    <3>2. count' \in [Days -> Nat] /\ count'[day[c]] \in Nat
      BY <2>7 DEF Incr
    <3>3. newCount' \in [Callers -> Nat]
      BY <2>7, <3>2 DEF Incr
    <3> QED BY <2>7, <3>1, <3>2, <3>3 DEF Incr
  <2>8. ASSUME NEW c \in Callers, IncrFails(c) PROVE TypeOK'
    <3>1. CallerTypes
      BY <2>8, <2>r DEF IncrFails
    <3> QED BY <2>8, <3>1 DEF IncrFails
  <2>9. ASSUME NEW c \in Callers, Announce(c) PROVE TypeOK'
    <3>1. CallerTypes
      BY <2>9, <2>r DEF Announce
    <3>2. newCount' \in [Callers -> Nat] /\ day[c] \in Days /\ newCount[c] \in Nat
      BY <2>9 DEF Announce
    <3>3. sending' \in [Days -> SUBSET Nat]
      <4>1. [sending EXCEPT ![day[c]] = @ \union {newCount[c]}] \in [Days -> SUBSET Nat]
        BY <3>2, AddType
      <4> QED BY <2>9, <4>1 DEF Announce, Go
    <3>4. lost' \in [Days -> SUBSET Nat]
      <4>1. [lost EXCEPT ![day[c]] = @ \union {newCount[c]}] \in [Days -> SUBSET Nat]
        BY <3>2, AddType
      <4> QED BY <2>9, <4>1 DEF Announce
    <3> QED BY <2>9, <3>1, <3>2, <3>3, <3>4 DEF Announce
  <2>10. ASSUME NEW d \in Days, SendAlert(d) PROVE TypeOK'
    <3>1. PICK n \in sending[d] :
            /\ sending' = [sending EXCEPT ![d] = @ \ {n}]
            /\ \/ mailed' = [mailed EXCEPT ![d] = @ \union {n}] /\ UNCHANGED lost
               \/ lost' = [lost EXCEPT ![d] = @ \union {n}] /\ UNCHANGED mailed
      BY <2>10 DEF SendAlert
    <3>2. n \in Nat
      OBVIOUS
    <3>3. sending' \in [Days -> SUBSET Nat]
      BY <3>1
    <3>4. mailed' \in [Days -> SUBSET Nat] /\ lost' \in [Days -> SUBSET Nat]
      <4>1. /\ [mailed EXCEPT ![d] = @ \union {n}] \in [Days -> SUBSET Nat]
            /\ [lost EXCEPT ![d] = @ \union {n}] \in [Days -> SUBSET Nat]
        BY <3>2, AddType
      <4> QED BY <3>1, <4>1
    <3> QED BY <2>10, <3>3, <3>4 DEF SendAlert
  <2>11. CASE Restart
    <3>1. lost' \in [Days -> SUBSET Nat]
      BY <2>11 DEF Restart, Unannounced
    <3>2. missed' \in [Days -> BOOLEAN]
      BY <2>11 DEF Restart
    <3> QED BY <2>11, <3>1, <3>2 DEF Restart, Days
  <2>12. CASE UNCHANGED vars
    BY <2>12 DEF vars
  <2> QED
    BY <2>1, <2>2, <2>3, <2>4, <2>5, <2>6, <2>7, <2>8, <2>9, <2>10, <2>11, <2>12
       DEF Next, Step
<1> QED BY <1>1, <1>2, PTL DEF Spec

-----------------------------------------------------------------------------
(***************************************************************************)
(* The callers past the limit test are among the callers: they are         *)
(* finitely many, and no more than those.                                  *)
(***************************************************************************)
LEMMA PassedFinite ==
  ASSUME NEW S, S \in SUBSET Callers
  PROVE  /\ IsFiniteSet(S)
         /\ Cardinality(S) \in Nat
         /\ Cardinality(Callers) \in Nat
         /\ Cardinality(S) <= Cardinality(Callers)
<1>1. IsFiniteSet(S) /\ Cardinality(S) <= Cardinality(Callers)
  BY CallersAssumption, FS_Subset
<1> QED BY <1>1, CallersAssumption, FS_CardinalityType

(***************************************************************************)
(* Limit + the number of callers bounds the count of every day, whatever   *)
(* the interleaving of their Redis commands.  ReservedBound is inductive:  *)
(* passing the test (count < Limit) reserves one of the remaining places,  *)
(* INCR turns the reservation into a count.                                *)
(***************************************************************************)
THEOREM ReservedBoundHolds == Spec => []ReservedBound
<1> USE LimitsAssumption, DaysAssumption
<1>1. Init => ReservedBound
  <2> SUFFICES ASSUME Init, NEW d \in Days
               PROVE  count[d] + Cardinality(Passed(d))
                        <= Capacity
    BY DEF ReservedBound
  <2>1. Passed(d) = {} /\ count[d] = 0
    BY DEF Init, Passed
  <2> QED BY <2>1, FS_EmptySet, PassedFinite DEF Capacity
<1>2. TypeOK /\ ReservedBound /\ [Next]_vars => ReservedBound'
  <2> SUFFICES ASSUME TypeOK, ReservedBound, [Next]_vars, NEW d \in Days
               PROVE  count'[d] + Cardinality(Passed(d)')
                        <= Capacity
    BY DEF ReservedBound
  <2>1. /\ count[d] \in Nat
        /\ Passed(d) \in SUBSET Callers
        /\ Passed(d)' \in SUBSET Callers
        /\ count[d] + Cardinality(Passed(d)) <= Capacity
    BY DEF TypeOK, ReservedBound, Passed
  <2>2. /\ IsFiniteSet(Passed(d)) /\ Cardinality(Passed(d)) \in Nat
        /\ IsFiniteSet(Passed(d)') /\ Cardinality(Passed(d)') \in Nat
        /\ Cardinality(Passed(d)') <= Cardinality(Callers)
        /\ Cardinality(Callers) \in Nat
    BY <2>1, PassedFinite
  <2>4. ASSUME count'[d] = count[d], Passed(d)' \in SUBSET Passed(d)
        PROVE  count'[d] + Cardinality(Passed(d)') <= Capacity
    <3>1. Cardinality(Passed(d)') <= Cardinality(Passed(d))
      BY <2>2, <2>4, FS_Subset
    <3> QED BY <2>1, <2>2, <2>4, <3>1 DEF Capacity
  <2>5. CASE Midnight
    BY <2>4, <2>5 DEF Midnight, redis, callerVars, Passed
  <2>6. ASSUME NEW c \in Callers, Call(c)
        PROVE  count'[d] + Cardinality(Passed(d)') <= Capacity
    BY <2>4, <2>6 DEF Call, Goto, redis, Passed, TypeOK
  <2>7. ASSUME NEW c \in Callers, SIsMember(c)
        PROVE  count'[d] + Cardinality(Passed(d)') <= Capacity
    BY <2>4, <2>7 DEF SIsMember, Goto, Return, redis, Passed, TypeOK
  <2>8. ASSUME NEW c \in Callers, Get(c)
        PROVE  count'[d] + Cardinality(Passed(d)') <= Capacity
    <3>1. CASE day[c] = d /\ count[d] < Limit
      BY <2>1, <2>2, <2>8, <3>1 DEF Get, redis, Capacity
    <3>2. CASE day[c] # d
      BY <2>4, <2>8, <3>2 DEF Get, Goto, Return, redis, Passed, TypeOK
    <3>3. CASE day[c] = d /\ count[d] >= Limit
      BY <2>1, <2>4, <2>8, <3>3
         DEF Get, Goto, Return, redis, Passed, TypeOK
    <3> QED BY <2>1, <3>1, <3>2, <3>3
  <2>9. ASSUME NEW c \in Callers, FailOpen(c)
        PROVE  count'[d] + Cardinality(Passed(d)') <= Capacity
    BY <2>4, <2>9 DEF FailOpen, Goto, Return, redis, Passed, TypeOK
  <2>10. ASSUME NEW c \in Callers, SAdd(c)
         PROVE  count'[d] + Cardinality(Passed(d)') <= Capacity
    BY <2>4, <2>10 DEF SAdd, Goto, Passed, TypeOK
  <2>11. ASSUME NEW c \in Callers, Incr(c)
         PROVE  count'[d] + Cardinality(Passed(d)') <= Capacity
    <3>1. CASE day[c] = d
      <4>1. c \in Passed(d) /\ Passed(d)' = Passed(d) \ {c}
        BY <2>11, <3>1 DEF Incr, Goto, Passed, TypeOK
      <4>2. Cardinality(Passed(d)') = Cardinality(Passed(d)) - 1
        BY <2>2, <4>1, FS_RemoveElement
      <4>3. count'[d] = count[d] + 1
        BY <2>11, <3>1 DEF Incr, TypeOK
      <4> QED BY <2>1, <2>2, <4>2, <4>3 DEF Capacity
    <3>2. CASE day[c] # d
      BY <2>4, <2>11, <3>2 DEF Incr, Goto, Passed, TypeOK
    <3> QED BY <3>1, <3>2
  <2>12. ASSUME NEW c \in Callers, IncrFails(c)
         PROVE  count'[d] + Cardinality(Passed(d)') <= Capacity
    BY <2>4, <2>12 DEF IncrFails, Return, Goto, redis, Passed, TypeOK
  <2>13. ASSUME NEW c \in Callers, Announce(c)
         PROVE  count'[d] + Cardinality(Passed(d)') <= Capacity
    BY <2>4, <2>13 DEF Announce, Return, Goto, redis, Passed, TypeOK
  <2>14. ASSUME NEW e \in Days, SendAlert(e)
         PROVE  count'[d] + Cardinality(Passed(d)') <= Capacity
    BY <2>4, <2>14 DEF SendAlert, redis, callerVars, Passed
  <2>15. CASE Restart
    BY <2>4, <2>15 DEF Restart, redis, Passed
  <2>16. CASE UNCHANGED vars
    BY <2>4, <2>16 DEF vars, Passed
  <2> QED
    BY <2>5, <2>6, <2>7, <2>8, <2>9, <2>10, <2>11, <2>12, <2>13, <2>14, <2>15, <2>16
       DEF Next, Step
<1> QED BY <1>1, <1>2, TypeCorrect, PTL DEF Spec

(***************************************************************************)
(* The count of a day overshoots the limit by less than the number of      *)
(* callers that can be inside Check at once.                               *)
(***************************************************************************)
THEOREM OvershootBounded == Spec => []OvershootBound
<1>1. TypeOK /\ ReservedBound => OvershootBound
  <2> SUFFICES ASSUME TypeOK, ReservedBound, NEW d \in Days
               PROVE  count[d] <= Capacity
    BY DEF OvershootBound
  <2>1. Passed(d) \in SUBSET Callers
    BY DEF Passed
  <2>2. Cardinality(Passed(d)) \in Nat /\ Cardinality(Callers) \in Nat
    BY <2>1, PassedFinite
  <2>3. count[d] + Cardinality(Passed(d)) <= Capacity
    BY DEF ReservedBound
  <2> QED BY <2>2, <2>3, LimitsAssumption DEF TypeOK, Capacity
<1> QED BY <1>1, TypeCorrect, ReservedBoundHolds, PTL

-----------------------------------------------------------------------------
(***************************************************************************)
(* Registering a contact makes a day's set at most one larger.             *)
(***************************************************************************)
LEMMA AddOne ==
  ASSUME NEW S, IsFiniteSet(S), NEW x
  PROVE  /\ IsFiniteSet(S \union {x})
         /\ Cardinality(S \union {x}) \in Nat
         /\ Cardinality(S \union {x}) <= Cardinality(S) + 1
<1>1. IsFiniteSet(S \union {x})
  BY FS_AddElement
<1>2. Cardinality(S) \in Nat /\ Cardinality(S \union {x}) \in Nat
  BY <1>1, FS_CardinalityType
<1>3. Cardinality(S \union {x})
        = IF x \in S THEN Cardinality(S) ELSE Cardinality(S) + 1
  BY FS_AddElement
<1> QED BY <1>1, <1>2, <1>3

\* The registered contacts of every day stay finitely many.
PhonesFinite == \A d \in Days : IsFiniteSet(phones[d])

CountedInv == PhonesFinite /\ EveryContactCounted

(***************************************************************************)
(* Registering comes before counting, so while no command failed a day     *)
(* never has more contacts than conversations counted or being counted.    *)
(***************************************************************************)
THEOREM ContactsCounted == Spec => []EveryContactCounted
<1>1. Init => CountedInv
  <2> SUFFICES ASSUME Init PROVE CountedInv
    OBVIOUS
  <2>1. \A d \in Days : phones[d] = {} /\ count[d] = 0 /\ Uncounted(d) = {}
    BY DEF Init, Uncounted
  <2> QED
    BY <2>1, FS_EmptySet DEF CountedInv, PhonesFinite, EveryContactCounted
<1>2. TypeOK /\ CountedInv /\ [Next]_vars => CountedInv'
  <2> SUFFICES ASSUME TypeOK, CountedInv, [Next]_vars, NEW d \in Days
               PROVE  /\ IsFiniteSet(phones'[d])
                      /\ ~ missed'[d] => Cardinality(phones'[d])
                            <= count'[d] + Cardinality(Uncounted(d)')
    BY DEF CountedInv, PhonesFinite, EveryContactCounted
  <2> DEFINE Goal ==
               /\ IsFiniteSet(phones'[d])
               /\ ~ missed'[d] => Cardinality(phones'[d])
                            <= count'[d] + Cardinality(Uncounted(d)')
  <2>1. /\ count[d] \in Nat
        /\ IsFiniteSet(phones[d]) /\ Cardinality(phones[d]) \in Nat
        /\ IsFiniteSet(Uncounted(d)) /\ Cardinality(Uncounted(d)) \in Nat
        /\ ~ missed[d] => Cardinality(phones[d])
                            <= count[d] + Cardinality(Uncounted(d))
    <3>1. IsFiniteSet(phones[d])
      BY DEF CountedInv, PhonesFinite
    <3>2. Uncounted(d) \in SUBSET Callers
      BY DEF Uncounted
    <3> QED BY <3>1, <3>2, PassedFinite, FS_CardinalityType
            DEF CountedInv, EveryContactCounted, TypeOK
  <2>2. ASSUME phones'[d] = phones[d], count'[d] = count[d],
               missed'[d] = missed[d], Uncounted(d)' = Uncounted(d)
        PROVE  Goal
    BY <2>1, <2>2
  <2>3. CASE Midnight
    BY <2>2, <2>3 DEF Midnight, redis, callerVars, Uncounted
  <2>4. ASSUME NEW c \in Callers, Call(c) PROVE Goal
    BY <2>2, <2>4 DEF Call, Goto, redis, Uncounted, TypeOK
  <2>5. ASSUME NEW c \in Callers, SIsMember(c) PROVE Goal
    BY <2>2, <2>5 DEF SIsMember, Goto, Return, redis, Uncounted, TypeOK
  <2>6. ASSUME NEW c \in Callers, Get(c) PROVE Goal
    BY <2>2, <2>6 DEF Get, Goto, Return, redis, Uncounted, TypeOK
  <2>7. ASSUME NEW c \in Callers, FailOpen(c) PROVE Goal
    BY <2>2, <2>7 DEF FailOpen, Goto, Return, redis, Uncounted, TypeOK
  <2>8. ASSUME NEW c \in Callers, SAdd(c) PROVE Goal
    <3>1. CASE day[c] # d
      BY <2>2, <2>8, <3>1 DEF SAdd, Goto, Uncounted, TypeOK
    <3>2. CASE day[c] = d /\ phones'[d] = phones[d] \union {phone[c]}
      <4>1. c \notin Uncounted(d) /\ Uncounted(d)' = Uncounted(d) \union {c}
        BY <2>8, <3>2 DEF SAdd, Goto, Uncounted, TypeOK
      <4>2. Cardinality(Uncounted(d)') = Cardinality(Uncounted(d)) + 1
        BY <2>1, <4>1, FS_AddElement
      <4>3. /\ IsFiniteSet(phones'[d])
            /\ Cardinality(phones'[d]) <= Cardinality(phones[d]) + 1
            /\ Cardinality(phones'[d]) \in Nat
        <5>1. /\ IsFiniteSet(phones[d] \union {phone[c]})
              /\ Cardinality(phones[d] \union {phone[c]}) \in Nat
              /\ Cardinality(phones[d] \union {phone[c]})
                    <= Cardinality(phones[d]) + 1
          BY <2>1, AddOne
        <5> QED BY <3>2, <5>1
      <4>4. count' = count /\ (missed'[d] = missed[d] \/ missed'[d])
        BY <2>8 DEF SAdd, TypeOK
      <4> QED BY <2>1, <4>2, <4>3, <4>4
    <3>3. CASE day[c] = d /\ phones' = phones /\ missed'[d]
      BY <2>1, <3>3
    <3> QED BY <2>8, <3>1, <3>2, <3>3 DEF SAdd, TypeOK
  <2>9. ASSUME NEW c \in Callers, Incr(c) PROVE Goal
    <3>1. CASE day[c] # d
      BY <2>2, <2>9, <3>1 DEF Incr, Goto, Uncounted, TypeOK
    <3>2. CASE day[c] = d
      <4>1. c \in Uncounted(d) /\ Uncounted(d)' = Uncounted(d) \ {c}
        BY <2>9, <3>2 DEF Incr, Goto, Uncounted, TypeOK
      <4>2. Cardinality(Uncounted(d)') = Cardinality(Uncounted(d)) - 1
        BY <2>1, <4>1, FS_RemoveElement
      <4>3. count'[d] = count[d] + 1 /\ phones' = phones /\ missed' = missed
        BY <2>9, <3>2 DEF Incr, TypeOK
      <4> QED BY <2>1, <4>2, <4>3
    <3> QED BY <3>1, <3>2
  <2>10. ASSUME NEW c \in Callers, IncrFails(c) PROVE Goal
    <3>1. CASE day[c] # d
      BY <2>2, <2>10, <3>1 DEF IncrFails, Return, Goto, redis, Uncounted, TypeOK
    <3>2. CASE day[c] = d
      <4>1. missed'[d] /\ phones' = phones
        BY <2>10, <3>2 DEF IncrFails, redis, TypeOK
      <4> QED BY <2>1, <4>1
    <3> QED BY <3>1, <3>2
  <2>11. ASSUME NEW c \in Callers, Announce(c) PROVE Goal
    BY <2>2, <2>11 DEF Announce, Return, Goto, redis, Uncounted, TypeOK
  <2>12. ASSUME NEW e \in Days, SendAlert(e) PROVE Goal
    BY <2>2, <2>12 DEF SendAlert, redis, callerVars, Uncounted
  <2>13. CASE Restart
    <3>1. /\ Uncounted(d)' = {} /\ count' = count /\ phones' = phones
          /\ missed'[d] = (missed[d] \/ Uncounted(d) # {})
      BY <2>13 DEF Restart, redis, Uncounted
    <3>2. Uncounted(d) = {} => Uncounted(d)' = Uncounted(d)
      BY <3>1
    <3> QED BY <2>1, <3>1, <3>2
  <2>14. CASE UNCHANGED vars
    BY <2>2, <2>14 DEF vars, Uncounted
  <2> QED
    BY <2>3, <2>4, <2>5, <2>6, <2>7, <2>8, <2>9, <2>10, <2>11, <2>12, <2>13, <2>14
       DEF Next, Step
<1>3. CountedInv => EveryContactCounted
  BY DEF CountedInv
<1> QED BY <1>1, <1>2, <1>3, TypeCorrect, PTL DEF Spec

-----------------------------------------------------------------------------
(***************************************************************************)
(* The safety part of the refinement: every step of the limiter is a step  *)
(* of the abstract promise or changes nothing the promise speaks of.       *)
(***************************************************************************)
THEOREM KeepsPromise ==
  Spec => Promise!Init /\ [][Promise!Next]_(Promise!vars)
<1>1. Init => Promise!Init
  BY DEF Init, Asking, Promise!Init, Promise!NoVerdict, Promise!NoQuestion, NoVerdict
<1>2. TypeOK /\ ReservedBound /\ [Next]_vars
        => [Promise!Next]_(Promise!vars)
  <2> SUFFICES ASSUME TypeOK, ReservedBound, [Next]_vars
               PROVE  [Promise!Next]_(Promise!vars)
    OBVIOUS
  <2> USE DEF redis, callerVars, alertVars
  <2> DEFINE Stutters == UNCHANGED <<phones, count, Asking, verdict>>
             Now(c) == <<phone[c], day[c], pc[c] = "Announce">>
             Closes(c) == Asking' = [Asking EXCEPT ![c] = <<>>]
  <2>1. ASSUME Stutters PROVE [Promise!Next]_(Promise!vars)
    BY <2>1 DEF Promise!vars
  <2>2. ASSUME NEW c \in Callers, Promise!Ask(c) \/ Promise!Register(c)
                                    \/ Promise!Count(c) \/ Promise!Answer(c)
        PROVE  [Promise!Next]_(Promise!vars)
    BY <2>2 DEF Promise!Next
  <2>3. CASE Midnight
    BY <2>1, <2>3 DEF Midnight, Asking
  <2>4. ASSUME NEW c \in Callers, Call(c) PROVE Promise!Ask(c)
    <3>1. PICK p \in Phones : phone' = [phone EXCEPT ![c] = p]
      BY <2>4 DEF Call
    <3>2. Asking[c] = <<>> /\ Asking' = [Asking EXCEPT ![c] = <<p, today, FALSE>>]
      BY <2>4, <3>1 DEF Call, Goto, TypeOK, Asking
    <3>3. today \in Days
      BY DEF TypeOK
    <3>4. verdict' = [verdict EXCEPT ![c] = NoVerdict]
          /\ UNCHANGED <<phones, count>>
      BY <2>4 DEF Call
    <3> QED BY <3>2, <3>3, <3>4
            DEF Promise!Ask, Promise!NoQuestion, Promise!NoVerdict, NoVerdict
  <2>5. ASSUME NEW c \in Callers, NEW from \in Locations \ {"idle"}, NEW v \in CheckResult,
               Return(c, from, v), UNCHANGED <<phones, count>>,
               v = AllowContinuation => phone[c] \in phones[day[c]],
               v = Deny => count[day[c]] >= Limit,
               from = "Announce" => v = Allow
        PROVE  Promise!Answer(c)
    <3>1. pc[c] = from /\ from # "idle"
      BY <2>5 DEF Return, Goto
    <3>2. Asking[c] = Now(c) /\ Asking[c] # <<>> /\ Closes(c)
      BY <2>5, <3>1 DEF Return, Goto, TypeOK, Asking
    <3>3. /\ Asking[c][1] = phone[c] /\ Asking[c][2] = day[c]
          /\ Asking[c][3] = (pc[c] = "Announce")
      BY <3>2
    <3>4. v \in Promise!CheckResult
      BY DEF CheckResult, Promise!CheckResult, Allow, AllowContinuation, Deny,
             Promise!Allow, Promise!AllowContinuation, Promise!Deny
    <3> DEFINE p == Asking[c][1]
               d == Asking[c][2]
               f == Asking[c][3]
    <3>5. /\ v = Promise!AllowContinuation => p \in phones[d]
          /\ v = Promise!Deny => count[d] >= Limit
          /\ f => v = Promise!Allow
      BY <2>5, <3>1, <3>3 DEF Promise!AllowContinuation, Promise!Deny, Promise!Allow,
                              AllowContinuation, Deny, Allow
    <3>6. verdict' = [verdict EXCEPT ![c] = v]
      BY <2>5 DEF Return
    <3>7. /\ Asking[c] # Promise!NoQuestion
          /\ Asking' = [Asking EXCEPT ![c] = Promise!NoQuestion]
          /\ UNCHANGED <<phones, count>>
      BY <2>5, <3>2 DEF Promise!NoQuestion
    <3> HIDE DEF p, d, f
    <3>8. \E w \in Promise!CheckResult :
            /\ w = Promise!AllowContinuation => p \in phones[d]
            /\ w = Promise!Deny => count[d] >= Limit
            /\ f => w = Promise!Allow
            /\ verdict' = [verdict EXCEPT ![c] = w]
      BY <3>4, <3>5, <3>6
    <3> QED BY <3>7, <3>8 DEF Promise!Answer, p, d, f
  <2> USE DEF Locations, CheckResult
  <2>7. ASSUME NEW c \in Callers, SIsMember(c)
        PROVE  Stutters \/ Promise!Answer(c)
    <3>1. CASE phone[c] \in phones[day[c]]
      <4>1. Return(c, "SIsMember", AllowContinuation) /\ UNCHANGED <<phones, count>>
        BY <2>7, <3>1 DEF SIsMember
      <4> QED BY <2>5, <3>1, <4>1 DEF Allow, AllowContinuation, Deny
    <3>2. CASE phone[c] \notin phones[day[c]]
      BY <2>7, <3>2 DEF SIsMember, Goto, TypeOK, Asking
    <3> QED BY <3>1, <3>2
  <2>8. ASSUME NEW c \in Callers, Get(c)
        PROVE  Stutters \/ Promise!Answer(c)
    <3>1. UNCHANGED <<phones, count>>
      BY <2>8 DEF Get
    <3>2. CASE Return(c, "Get", Deny) /\ count[day[c]] >= Limit
      BY <2>5, <3>1, <3>2 DEF Allow, AllowContinuation, Deny
    <3>3. CASE Goto(c, "Get", "SAdd") /\ UNCHANGED <<phone, day, verdict>>
      BY <3>1, <3>3 DEF Goto, TypeOK, Asking
    <3> QED BY <2>8, <3>2, <3>3 DEF Get
  <2>9. ASSUME NEW c \in Callers, FailOpen(c) PROVE Promise!Answer(c)
    <3>1. UNCHANGED <<phones, count>>
      BY <2>9 DEF FailOpen
    <3>2. PICK from \in {"SIsMember", "Get"} : Return(c, from, Allow)
      BY <2>9 DEF FailOpen
    <3> QED BY <2>5, <3>1, <3>2 DEF Allow, AllowContinuation, Deny
  <2>10. ASSUME NEW c \in Callers, SAdd(c)
         PROVE  Stutters \/ Promise!Register(c)
    <3>1. Asking[c] = Now(c) /\ Asking' = Asking
      BY <2>10 DEF SAdd, Goto, TypeOK, Asking
    <3>2. UNCHANGED <<count, verdict>>
      BY <2>10 DEF SAdd
    <3>3. CASE phones' = [phones EXCEPT ![day[c]] = @ \union {phone[c]}]
      <4>1. Asking[c] # <<>> /\ Asking[c][1] = phone[c] /\ Asking[c][2] = day[c]
        BY <3>1
      <4> QED BY <3>1, <3>2, <3>3, <4>1
              DEF Promise!Register, Promise!NoQuestion
    <3>4. CASE phones' = phones
      BY <3>1, <3>2, <3>4
    <3> QED BY <2>10, <3>3, <3>4 DEF SAdd
  <2>11. ASSUME NEW c \in Callers, Incr(c) PROVE Promise!Count(c)
    <3>1. count[day[c]] < Capacity
      <4>1. /\ c \in Passed(day[c])
            /\ Passed(day[c]) \in SUBSET Callers
            /\ day[c] \in Days
            /\ count[day[c]] \in Nat
        BY <2>11 DEF Incr, Goto, Passed, TypeOK
      <4>2. /\ Cardinality(Passed(day[c])) \in Nat
            /\ IsFiniteSet(Passed(day[c]))
            /\ Cardinality(Callers) \in Nat
        BY <4>1, PassedFinite
      <4>3. Cardinality(Passed(day[c])) # 0
        BY <4>1, <4>2, FS_EmptySet
      <4>4. count[day[c]] + Cardinality(Passed(day[c])) <= Capacity
        BY <4>1 DEF ReservedBound
      <4> QED BY <4>1, <4>2, <4>3, <4>4, LimitsAssumption DEF Capacity
    <3>2. /\ pc[c] = "Incr" /\ pc' = [pc EXCEPT ![c] = "Announce"]
          /\ count' = [count EXCEPT ![day[c]] = @ + 1]
          /\ UNCHANGED <<phones, phone, day, verdict>>
      BY <2>11 DEF Incr, Goto
    <3>3. /\ Asking[c] = <<phone[c], day[c], FALSE>>
          /\ Asking' = [Asking EXCEPT ![c] = <<phone[c], day[c], TRUE>>]
      BY <3>2 DEF TypeOK, Asking
    <3>4. /\ Asking[c] # <<>> /\ Asking[c][1] = phone[c] /\ Asking[c][2] = day[c]
          /\ Asking[c][3] = FALSE
      BY <3>3
    <3> QED BY <3>1, <3>2, <3>3, <3>4 DEF Promise!Count, Promise!NoQuestion
  <2>12. ASSUME NEW c \in Callers, IncrFails(c) PROVE Promise!Answer(c)
    <3>1. Return(c, "Incr", Allow) /\ UNCHANGED <<phones, count>>
      BY <2>12 DEF IncrFails
    <3> QED BY <2>5, <3>1 DEF Allow, AllowContinuation, Deny
  <2>13. ASSUME NEW c \in Callers, Announce(c) PROVE Promise!Answer(c)
    <3>1. Return(c, "Announce", Allow) /\ UNCHANGED <<phones, count>>
      BY <2>13 DEF Announce
    <3> QED BY <2>5, <3>1 DEF Allow, AllowContinuation, Deny
  <2>14. ASSUME NEW e \in Days, SendAlert(e) PROVE Stutters
    BY <2>14 DEF SendAlert, Asking
  <2>15. CASE Restart
    <3>1. Asking' = [c \in Callers |-> <<>>] /\ UNCHANGED <<phones, count, verdict>>
      BY <2>15 DEF Restart, Asking
    <3> QED BY <3>1 DEF Promise!Next, Promise!DropAll, Promise!NoQuestion
  <2>16. CASE UNCHANGED vars
    BY <2>1, <2>16 DEF vars, Asking
  <2> QED
    BY <2>1, <2>2, <2>3, <2>4, <2>7, <2>8, <2>9, <2>10, <2>11, <2>12, <2>13, <2>14,
       <2>15, <2>16
       DEF Next, Step
<1> QED BY <1>1, <1>2, TypeCorrect, ReservedBoundHolds, PTL DEF Spec

-----------------------------------------------------------------------------
(***************************************************************************)
(* The warnings.  The command that makes the count reach n leaves n with   *)
(* its caller, and whoever holds n passes it on: to a goroutine, to the    *)
(* mail server, or to the counts whose alert is lost.  So the counts of a  *)
(* day that somebody accounts for have no gap from the threshold on.       *)
(***************************************************************************)
Held(d) == sending[d] \union mailed[d] \union lost[d]
             \union {newCount[c] : c \in Unannounced(d)}

LEMMA HeldAccounts ==
  NoWarningForgotten <=> \A d \in Days : \A n \in AlertAt .. count[d] : n \in Held(d)
BY DEF NoWarningForgotten, Held

\* What a step accounts for, it keeps accounting for, except for the count
\* that the caller of INCR holds below the threshold.
LEMMA HeldKept ==
  ASSUME TypeOK, [Next]_vars, NEW d \in Days, NEW n \in Held(d), n >= AlertAt
  PROVE  n \in Held(d)'
<1> USE LimitsAssumption DEF redis, callerVars, alertVars
<1>1. CASE Midnight \/ UNCHANGED vars
  BY <1>1 DEF Midnight, vars, Held, Unannounced
<1>2. ASSUME NEW c \in Callers, pc[c] # "Announce", pc'[c] # "Announce" \/ pc[c] = "Incr",
             pc' = [pc EXCEPT ![c] = pc'[c]],
             \A x \in Callers \ {c} : day'[x] = day[x] /\ newCount'[x] = newCount[x],
             UNCHANGED alertVars
      PROVE  n \in Held(d)'
  BY <1>2 DEF Held, Unannounced, TypeOK
<1>3. ASSUME NEW c \in Callers, Call(c) \/ SIsMember(c) \/ Get(c) \/ FailOpen(c)
      PROVE  n \in Held(d)'
  BY <1>2, <1>3 DEF Call, SIsMember, Get, FailOpen, Return, Goto, TypeOK
<1>4. ASSUME NEW c \in Callers, SAdd(c) \/ Incr(c) \/ IncrFails(c)
      PROVE  n \in Held(d)'
  BY <1>2, <1>4 DEF SAdd, Incr, IncrFails, Return, Goto, TypeOK
<1>5. ASSUME NEW c \in Callers, Announce(c) PROVE n \in Held(d)'
  <2>1. /\ sending[d] \subseteq sending'[d] /\ lost[d] \subseteq lost'[d]
        /\ mailed' = mailed
    BY <1>5 DEF Announce, Go, TypeOK
  <2>2. CASE \E x \in Unannounced(d) \ {c} : newCount[x] = n
    BY <1>5, <2>2 DEF Announce, Return, Goto, Held, Unannounced, TypeOK
  <2>3. CASE c \in Unannounced(d) /\ newCount[c] = n
    <3>1. n \in sending'[d] \union lost'[d]
      BY <1>5, <2>3 DEF Announce, Go, Unannounced, TypeOK
    <3> QED BY <3>1 DEF Held
  <2> QED BY <2>1, <2>2, <2>3 DEF Held
<1>6. ASSUME NEW e \in Days, SendAlert(e) PROVE n \in Held(d)'
  <2>1. Unannounced(d)' = Unannounced(d) /\ newCount' = newCount
    BY <1>6 DEF SendAlert, Unannounced
  <2>2. sending[d] \union mailed[d] \union lost[d]
          \subseteq sending'[d] \union mailed'[d] \union lost'[d]
    BY <1>6 DEF SendAlert, TypeOK
  <2> QED BY <2>1, <2>2 DEF Held
<1>7. CASE Restart
  BY <1>7 DEF Restart, Held, Unannounced, TypeOK
<1> QED BY <1>1, <1>3, <1>4, <1>5, <1>6, <1>7 DEF Next, Step

\* Only INCR moves the count, by one, and its caller then holds the new count.
LEMMA CountMoves ==
  ASSUME TypeOK, [Next]_vars, NEW d \in Days
  PROVE  count'[d] = count[d] \/ (count'[d] = count[d] + 1 /\ count'[d] \in Held(d)')
<1> USE DEF redis, callerVars, alertVars
<1>1. ASSUME NEW c \in Callers, Incr(c)
      PROVE  count'[d] = count[d] \/ (count'[d] = count[d] + 1 /\ count'[d] \in Held(d)')
  <2>1. CASE day[c] = d
    <3>1. count'[d] = count[d] + 1 /\ newCount'[c] = count'[d]
      BY <1>1, <2>1 DEF Incr, TypeOK
    <3>2. c \in Unannounced(d)'
      BY <1>1, <2>1 DEF Incr, Goto, Unannounced, TypeOK
    <3> QED BY <3>1, <3>2 DEF Held
  <2>2. CASE day[c] # d
    BY <1>1, <2>2 DEF Incr, TypeOK
  <2> QED BY <2>1, <2>2
<1>2. ASSUME NEW c \in Callers, Call(c) \/ SIsMember(c) \/ Get(c) \/ FailOpen(c)
                                   \/ SAdd(c) \/ IncrFails(c) \/ Announce(c)
      PROVE  count' = count
  BY <1>2 DEF Call, SIsMember, Get, FailOpen, SAdd, IncrFails, Announce
<1>3. ASSUME NEW e \in Days, SendAlert(e) PROVE count' = count
  BY <1>3 DEF SendAlert
<1>4. CASE Midnight \/ Restart \/ UNCHANGED vars
  BY <1>4 DEF Midnight, Restart, vars
<1> QED BY <1>1, <1>2, <1>3, <1>4 DEF Next, Step

\* The alert of every count from the threshold on is mailed, under way, about
\* to be started by the caller that counted, or lost to a failure or a restart
\* (the go statement and sendThresholdAlert of rate_limiter.go).
THEOREM WarningsAccounted == Spec => []NoWarningForgotten
<1>1. Init => NoWarningForgotten
  BY LimitsAssumption DEF Init, NoWarningForgotten
<1>2. TypeOK /\ NoWarningForgotten /\ [Next]_vars => NoWarningForgotten'
  <2> SUFFICES ASSUME TypeOK, NoWarningForgotten, [Next]_vars,
                      NEW d \in Days, NEW n \in AlertAt .. count'[d]
               PROVE  n \in Held(d)'
    BY HeldAccounts DEF NoWarningForgotten, Held
  <2>1. n \in Nat /\ n >= AlertAt /\ count[d] \in Nat
    BY LimitsAssumption DEF TypeOK
  <2>2. CASE n \in AlertAt .. count[d]
    <3>1. n \in Held(d)
      BY <2>2, HeldAccounts
    <3> QED BY <2>1, <3>1, HeldKept
  <2>3. CASE n \notin AlertAt .. count[d]
    <3>1. count'[d] = count[d] + 1 /\ n = count'[d]
      BY <2>1, <2>3, CountMoves, LimitsAssumption
    <3> QED BY <2>1, <3>1, CountMoves
  <2> QED BY <2>2, <2>3
<1> QED BY <1>1, <1>2, TypeCorrect, PTL DEF Spec

=============================================================================

---------------------------- MODULE Digest_proofs ----------------------------
(***************************************************************************)
(* Proofs about Digest, for any turns, runners, window and clock.          *)
(***************************************************************************)
EXTENDS Digest, TLAPS

\* Unix() never moves a time forward, and never before zero.
LEMMA TruncateBack ==
    ASSUME NEW time \in Time
    PROVE  Truncate(time) \in Time /\ Truncate(time) <= time
<1>1. time \in Nat /\ time <= MaxTime
    BY ClockAssumption DEF Time
<1>2. time % Second \in Nat /\ time % Second <= time
    BY <1>1, ClockAssumption
<1>3. time - (time % Second) \in 0 .. MaxTime /\ time - (time % Second) <= time
    BY <1>1, <1>2, ClockAssumption
<1> QED
    BY <1>3 DEF Truncate, Time

-----------------------------------------------------------------------------
(***************************************************************************)
(* The variables of Digest keep their types.                               *)
(***************************************************************************)
THEOREM TypeCorrect == Spec => []TypeOK
<1>1. Init => TypeOK
    <2>1. 0 \in Time /\ 0 \in (-Window) .. MaxTime /\ 0 \in 0 .. MaxFaults
        BY ClockAssumption DEF Time
    <2> QED
        BY <2>1 DEF Init, TypeOK, Locations
<1>2. TypeOK /\ [Next]_vars => TypeOK'
    <2> SUFFICES ASSUME TypeOK, [Next]_vars PROVE TypeOK'
        OBVIOUS
    <2> USE DEF TypeOK
    <2>1. CASE Tick
        BY <2>1, ClockAssumption DEF Tick, locals, reports, Time
    <2>2. ASSUME NEW t \in Turns, Stamp(t) \/ Insert(t) \/ InsertFails(t)
          PROVE  TypeOK'
        <3>1. CASE Stamp(t)
            BY <3>1 DEF Stamp, locals, reports
        <3>2. CASE Insert(t)
            BY <3>2 DEF Insert, locals, reports
        <3>3. CASE InsertFails(t)
            BY <3>3, ClockAssumption DEF InsertFails, Fault, locals, reports
        <3> QED
            BY <2>2, <3>1, <3>2, <3>3
    <2>3. ASSUME NEW r \in Runners, GetLastSent(r) PROVE TypeOK'
        <3>1. now - Window \in (-Window) .. MaxTime
            BY ClockAssumption DEF Time
        <3>2. lastSent # Never => lastSent \in (-Window) .. MaxTime
            BY ClockAssumption DEF Time
        <3>3. /\ since' \in [Runners -> (-Window) .. MaxTime]
              /\ faults' \in 0 .. MaxFaults
              /\ excused' \subseteq Turns
            BY <2>3, <3>1, <3>2, ClockAssumption
            DEF GetLastSent, CoverWindow, Fault
        <3>4. disturbed' \in BOOLEAN
            BY <2>3 DEF GetLastSent
        <3> QED
            BY <2>3, <3>3, <3>4 DEF GetLastSent, Goto, Locations, reports
    <2>4. ASSUME NEW r \in Runners, SendDigest(r) PROVE TypeOK'
        <3>0. 0 \in Time /\ 0 \in (-Window) .. MaxTime
            BY ClockAssumption DEF Time
        <3>1. CASE ReadClock(r)
            BY <3>1 DEF ReadClock, Goto, Locations, reports
        <3>2. CASE Query(r)
            BY <3>2 DEF Query, Goto, Locations, reports
        <3>3. CASE QueryFails(r)
            BY <3>0, <3>3, ClockAssumption DEF QueryFails, Return, Fault, Goto, Locations, reports
        <3>4. CASE Mail(r)
            BY <3>4 DEF Mail, Deliver, Goto, Locations, locals
        <3>5. CASE MailFails(r)
            <4>1. mailed' \subseteq Turns /\ lastMail' \in [Turns -> Time \union {Never}]
                BY <3>5 DEF MailFails, Deliver, reports
            <4> QED
                BY <3>0, <3>5, <4>1, ClockAssumption DEF MailFails, Return, Fault, Goto, Locations
        <3>6. CASE SetLastSent(r)
            BY <3>0, <3>6, TruncateBack DEF SetLastSent, Return, Goto, Locations, reports
        <3>7. CASE SetFails(r)
            BY <3>0, <3>7, ClockAssumption DEF SetFails, Return, Fault, Goto, Locations, reports
        <3> QED
            BY <2>4, <3>1, <3>2, <3>3, <3>4, <3>5, <3>6, <3>7 DEF SendDigest
    <2>5. ASSUME NEW age \in Day .. MaxTime, Purge(age) PROVE TypeOK'
        BY <2>5 DEF Purge, locals, reports
    <2>6. CASE UNCHANGED vars
        BY <2>6 DEF vars, locals, reports
    <2> QED
        BY <2>1, <2>2, <2>3, <2>4, <2>5, <2>6 DEF Next
<1> QED
    BY <1>1, <1>2, PTL DEF Spec

-----------------------------------------------------------------------------
(***************************************************************************)
(* The inductive invariant.  A watermark in use, or about to be, has left  *)
(* nothing behind: every turn inserted up to it was mailed or is excused.  *)
(* A run that is going to mail a batch settles what is up to its sentAt    *)
(* with it.                                                                *)
(***************************************************************************)
Due(t, time) == row[t] = "inserted" /\ created[t] <= time

Settled(time) == \A t \in Turns : Due(t, time) => t \in mailed \union excused

SettledWith(time, turns) ==
    \A t \in Turns : Due(t, time) => t \in mailed \union excused \union turns

NothingLeft ==
    /\ Settled(lastSent)
    /\ \A r \in Runners :
        /\ pc[r] # "idle" => Settled(since[r])
        /\ pc[r] = "mail" => SettledWith(sentAt[r], batch[r])
        /\ pc[r] = "set" => Settled(sentAt[r])

\* The run of r does not touch the others'.
OthersKeep(r) ==
    \A q \in Runners \ {r} :
        pc'[q] = pc[q] /\ since'[q] = since[q] /\ sentAt'[q] = sentAt[q] /\ batch'[q] = batch[q]

LEMMA NothingLeftStep == TypeOK /\ NothingLeft /\ [Next]_vars => NothingLeft'
<1> SUFFICES ASSUME TypeOK, NothingLeft, [Next]_vars PROVE NothingLeft'
    OBVIOUS
<1>1. CASE Tick
    BY <1>1 DEF Tick, NothingLeft, Settled, SettledWith, Due, locals, reports
<1>2. ASSUME NEW t \in Turns, Stamp(t) PROVE NothingLeft'
    BY <1>2 DEF Stamp, TypeOK, NothingLeft, Settled, SettledWith, Due, locals, reports
<1>3. ASSUME NEW t \in Turns, Insert(t) PROVE NothingLeft'
    <2>1. t \in excused' \/ ~ Overtaken(t)
        BY <1>3 DEF Insert
    <2>2. /\ UNCHANGED <<created, lastSent, pc, since, sentAt, batch, mailed>>
          /\ excused \subseteq excused'
          /\ \A u \in Turns \ {t} : row'[u] = row[u]
        BY <1>3 DEF Insert, TypeOK, locals, reports
    <2>3. CASE t \in excused'
        BY <2>2, <2>3 DEF NothingLeft, Settled, SettledWith, Due
    <2>4. CASE ~ Overtaken(t)
        BY <2>2, <2>4 DEF NothingLeft, Settled, SettledWith, Due, Overtaken
    <2> QED
        BY <2>1, <2>3, <2>4
<1>4. ASSUME NEW t \in Turns, InsertFails(t) PROVE NothingLeft'
    BY <1>4 DEF InsertFails, TypeOK, NothingLeft, Settled, SettledWith, Due, locals, reports
<1>5. ASSUME NEW r \in Runners, GetLastSent(r) PROVE NothingLeft'
    <2>1. /\ UNCHANGED <<row, created, lastSent, sentAt, batch, mailed>>
          /\ excused \subseteq excused'
          /\ pc'[r] = "clock"
          /\ \A q \in Runners \ {r} : pc'[q] = pc[q] /\ since'[q] = since[q]
        BY <1>5 DEF GetLastSent, CoverWindow, Goto, TypeOK, reports
    <2>2. Settled(since[r])'
        <3>1. CASE since' = [since EXCEPT ![r] = lastSent]
            <4>1. since'[r] = lastSent
                BY <3>1 DEF TypeOK
            <4> QED
                BY <2>1, <4>1 DEF NothingLeft, Settled, Due
        <3>2. CASE CoverWindow(r)
            <4>1. since'[r] = now - Window
                BY <3>2 DEF CoverWindow, TypeOK
            <4> QED
                BY <2>1, <3>2, <4>1 DEF CoverWindow, Settled, Due
        <3> QED
            BY <1>5, <3>1, <3>2 DEF GetLastSent
    <2> QED
        BY <2>1, <2>2 DEF NothingLeft, Settled, SettledWith, Due
<1>6. ASSUME NEW r \in Runners, ReadClock(r) PROVE NothingLeft'
    <2>1. /\ UNCHANGED <<row, created, lastSent, since, batch, mailed, excused>>
          /\ pc[r] = "clock" /\ pc'[r] = "query"
          /\ \A q \in Runners \ {r} : pc'[q] = pc[q] /\ sentAt'[q] = sentAt[q]
        BY <1>6 DEF ReadClock, Goto, TypeOK, reports
    <2> QED
        BY <2>1 DEF NothingLeft, Settled, SettledWith, Due
<1>7. ASSUME NEW r \in Runners, Query(r) PROVE NothingLeft'
    <2> DEFINE found == {t \in Turns : row[t] = "inserted" /\ created[t] > since[r]}
    <2>1. /\ UNCHANGED <<row, created, lastSent, since, sentAt, mailed, excused>>
          /\ pc[r] = "query"
          /\ pc'[r] = IF found = {} THEN "set" ELSE "mail"
          /\ batch'[r] = found
          /\ \A q \in Runners \ {r} : pc'[q] = pc[q] /\ batch'[q] = batch[q]
        BY <1>7 DEF Query, Goto, TypeOK, reports
    <2>2. ASSUME NEW t \in Turns, Due(t, sentAt[r])
          PROVE  t \in mailed \union excused \union found
        <3>1. CASE created[t] > since[r]
            BY <2>2, <3>1 DEF Due
        <3>2. CASE created[t] <= since[r]
            BY <2>1, <2>2, <3>2 DEF NothingLeft, Settled, Due
        <3> QED
            BY <3>1, <3>2, ClockAssumption DEF TypeOK, Time
    <2>3. pc'[r] = "mail" => SettledWith(sentAt[r], batch[r])'
        BY <2>1, <2>2 DEF SettledWith, Due
    <2>4. pc'[r] = "set" => Settled(sentAt[r])'
        BY <2>1, <2>2 DEF Settled, Due
    <2>5. Settled(since[r])' /\ Settled(lastSent)'
        BY <2>1 DEF NothingLeft, Settled, Due
    <2> HIDE DEF found
    <2> QED
        BY <2>1, <2>3, <2>4, <2>5 DEF NothingLeft, Settled, SettledWith, Due
<1>8. ASSUME NEW r \in Runners, QueryFails(r) PROVE NothingLeft'
    BY <1>8 DEF QueryFails, Return, Goto, TypeOK, NothingLeft, Settled, SettledWith, Due, locals, reports
<1>9. ASSUME NEW r \in Runners, Mail(r) PROVE NothingLeft'
    <2>1. /\ UNCHANGED <<row, created, lastSent, since, sentAt, batch, excused>>
          /\ pc[r] = "mail" /\ pc'[r] = "set"
          /\ \A q \in Runners \ {r} : pc'[q] = pc[q]
          /\ mailed' = mailed \union batch[r]
        BY <1>9 DEF Mail, Deliver, Goto, TypeOK, locals
    <2>2. Settled(sentAt[r])'
        BY <2>1 DEF NothingLeft, Settled, SettledWith, Due
    <2> QED
        BY <2>1, <2>2 DEF NothingLeft, Settled, SettledWith, Due
<1>10. ASSUME NEW r \in Runners, MailFails(r) PROVE NothingLeft'
    <2>1. /\ UNCHANGED <<row, created, lastSent, excused>>
          /\ pc'[r] = "idle"
          /\ OthersKeep(r)
          /\ mailed \subseteq mailed'
        BY <1>10 DEF MailFails, Return, OthersKeep, Deliver, Goto, TypeOK, reports
    <2> QED
        BY <2>1 DEF NothingLeft, OthersKeep, Settled, SettledWith, Due
<1>11. ASSUME NEW r \in Runners, SetLastSent(r) PROVE NothingLeft'
    <2>1. /\ UNCHANGED <<row, created, mailed, excused>>
          /\ pc[r] = "set" /\ pc'[r] = "idle"
          /\ OthersKeep(r)
          /\ lastSent' = Truncate(sentAt[r])
        BY <1>11 DEF SetLastSent, Return, OthersKeep, Goto, TypeOK, reports
    <2>2. lastSent' \in Time /\ sentAt[r] \in Time /\ lastSent' <= sentAt[r]
        BY <2>1, TruncateBack DEF TypeOK
    <2>3. ASSUME NEW t \in Turns, Due(t, lastSent)' PROVE Due(t, sentAt[r])
        BY <2>1, <2>2, <2>3, ClockAssumption DEF Due, TypeOK, Time
    <2>4. Settled(lastSent)'
        BY <2>1, <2>3 DEF NothingLeft, Settled
    <2> QED
        BY <2>1, <2>4 DEF NothingLeft, OthersKeep, Settled, SettledWith, Due
<1>12. ASSUME NEW r \in Runners, SetFails(r) PROVE NothingLeft'
    BY <1>12 DEF SetFails, Return, Goto, TypeOK, NothingLeft, Settled, SettledWith, Due, locals, reports
<1>13. ASSUME NEW age \in Day .. MaxTime, Purge(age) PROVE NothingLeft'
    <2>1. /\ UNCHANGED <<created, lastSent, pc, since, sentAt, batch, mailed, excused>>
          /\ \A t \in Turns : row'[t] = "inserted" => row[t] = "inserted"
        BY <1>13 DEF Purge, locals, reports
    <2> QED
        BY <2>1 DEF NothingLeft, Settled, SettledWith, Due
<1>14. CASE UNCHANGED vars
    BY <1>14 DEF vars, NothingLeft, Settled, SettledWith, Due, locals, reports
<1> QED
    BY <1>1, <1>2, <1>3, <1>4, <1>5, <1>6, <1>7, <1>8, <1>9, <1>10, <1>11, <1>12, <1>13, <1>14
    DEF Next, SendDigest

(***************************************************************************)
(* No turn falls between two digests.                                      *)
(***************************************************************************)
THEOREM NothingIsSkipped == Spec => []NothingSkipped
<1>1. Init => NothingLeft
    BY DEF Init, NothingLeft, Settled, SettledWith, Due
<1>2. TypeOK /\ NothingLeft /\ [Next]_vars => NothingLeft'
    BY NothingLeftStep
<1>3. NothingLeft => NothingSkipped
    BY DEF NothingLeft, NothingSkipped, Settled, Due
<1> QED
    BY <1>1, <1>2, <1>3, TypeCorrect, PTL DEF Spec

-----------------------------------------------------------------------------
(***************************************************************************)
(* What a digest repeats.  As long as no call failed and no two runs       *)
(* overlapped, one runner at most is at work, it counts from the           *)
(* watermark, and a turn that was mailed is behind the watermark, or is    *)
(* going to be: the watermark never moves back.                             *)
(***************************************************************************)
OneAtWork ==
    \A r, q \in Runners : pc[r] # "idle" /\ pc[q] # "idle" => r = q

Behind(t, time) == Truncate(lastMail[t]) <= time

MailedBehind ==
    \A t \in mailed :
        \/ lastSent # Never /\ Behind(t, lastSent)
        \/ \E r \in Runners : pc[r] = "set" /\ Behind(t, Truncate(sentAt[r]))

Watermark ==
    /\ lastSent <= Truncate(now)
    /\ \A r \in Runners :
        /\ pc[r] \in {"clock", "query", "mail"} /\ lastSent # Never => since[r] = lastSent
        /\ pc[r] \in {"query", "mail", "set"} =>
            lastSent <= Truncate(sentAt[r]) /\ sentAt[r] <= now

\* What is in a batch was created after since, and has been stamped for good.
BatchAfter ==
    \A r \in Runners : pc[r] = "mail" =>
        \A t \in batch[r] : row[t] # "none" /\ created[t] > since[r]

RepeatInv ==
    /\ BatchAfter
    /\ ~disturbed => OneAtWork /\ MailedBehind /\ Watermark

\* Unix() keeps the order of times.
LEMMA TruncateOrder ==
    ASSUME NEW a \in Time, NEW b \in Time, a <= b
    PROVE  Truncate(a) <= Truncate(b)
<1> DEFINE S == Second
           m == a \div S
           n == b \div S
           x == a % S
           y == b % S
<1>1. S \in Nat \ {0} /\ a \in Nat /\ b \in Nat
    BY ClockAssumption DEF Time
<1>2. /\ m \in Int /\ n \in Int /\ x \in 0 .. S - 1 /\ y \in 0 .. S - 1
      /\ a = S * m + x /\ b = S * n + y
    BY <1>1
<1> HIDE DEF S, m, n, x, y
<1>3. S * m \in Int /\ S * n \in Int
    BY <1>1, <1>2
<1>4. m <= n
    <2> SUFFICES ASSUME m >= n + 1 PROVE FALSE
        BY <1>2
    <2>1. S * m >= S * (n + 1)
        BY <1>1, <1>2
    <2>2. S * (n + 1) = S * n + S
        BY <1>1, <1>2
    <2> QED
        BY <1>1, <1>2, <1>3, <2>1, <2>2
<1>5. S * m <= S * n
    BY <1>1, <1>2, <1>4
<1>6. Truncate(a) = S * m /\ Truncate(b) = S * n
    <2>1. Truncate(a) = a - x /\ Truncate(b) = b - y
        BY DEF Truncate, S, x, y
    <2> QED
        BY <1>1, <1>2, <1>3, <2>1
<1> QED
    BY <1>5, <1>6

LEMMA InitRepeats == Init => RepeatInv
<1> SUFFICES ASSUME Init PROVE RepeatInv
    OBVIOUS
<1>1. Truncate(0) \in Time /\ now = 0
    BY TruncateBack, ClockAssumption DEF Time, Init
<1>2. lastSent <= Truncate(now)
    BY <1>1 DEF Init, Never, Time
<1> QED
    BY <1>2 DEF Init, RepeatInv, BatchAfter, OneAtWork, MailedBehind, Watermark

\* A turn that was inserted, lost or purged is not stamped again.
LEMMA BatchAfterStep ==
    ASSUME TypeOK, BatchAfter, [Next]_vars
    PROVE  BatchAfter'
<1>1. ASSUME UNCHANGED <<created, pc, since, batch>>,
             \A t \in Turns : row[t] # "none" => row'[t] # "none"
      PROVE  BatchAfter'
    BY <1>1 DEF BatchAfter, TypeOK
<1>2. ASSUME NEW r \in Runners, UNCHANGED <<row, created>>, pc'[r] # "mail",
             \A q \in Runners \ {r} :
                pc'[q] = pc[q] /\ since'[q] = since[q] /\ batch'[q] = batch[q]
      PROVE  BatchAfter'
    BY <1>2 DEF BatchAfter
<1>3. CASE Tick
    BY <1>1, <1>3 DEF Tick, locals
<1>4. ASSUME NEW t \in Turns, Stamp(t) PROVE BatchAfter'
    <2>1. /\ row[t] = "none" /\ UNCHANGED <<pc, since, batch>>
          /\ \A u \in Turns \ {t} : row'[u] = row[u] /\ created'[u] = created[u]
        BY <1>4 DEF Stamp, locals, TypeOK
    <2> QED
        BY <2>1 DEF BatchAfter, TypeOK
<1>5. ASSUME NEW t \in Turns, Insert(t) \/ InsertFails(t) PROVE BatchAfter'
    <2>1. UNCHANGED <<created, pc, since, batch>>
        BY <1>5 DEF Insert, InsertFails, locals
    <2>2. \A u \in Turns : row[u] # "none" => row'[u] # "none"
        BY <1>5 DEF Insert, InsertFails, TypeOK
    <2> QED
        BY <1>1, <2>1, <2>2
<1>6. ASSUME NEW age \in Day .. MaxTime, Purge(age) PROVE BatchAfter'
    <2>1. UNCHANGED <<created, pc, since, batch>>
        BY <1>6 DEF Purge, locals
    <2>2. \A u \in Turns : row[u] # "none" => row'[u] # "none"
        BY <1>6 DEF Purge
    <2> QED
        BY <1>1, <2>1, <2>2
<1>7. ASSUME NEW r \in Runners, GetLastSent(r) PROVE BatchAfter'
    BY <1>2, <1>7 DEF GetLastSent, CoverWindow, Goto, TypeOK
<1>8. ASSUME NEW r \in Runners, Query(r) PROVE BatchAfter'
    <2> DEFINE found == {t \in Turns : row[t] = "inserted" /\ created[t] > since[r]}
    <2>1. /\ UNCHANGED <<row, created, since>> /\ batch'[r] = found
          /\ \A q \in Runners \ {r} : pc'[q] = pc[q] /\ batch'[q] = batch[q]
        BY <1>8 DEF Query, Goto, TypeOK
    <2> QED
        BY <2>1 DEF BatchAfter
<1>9. ASSUME NEW r \in Runners, ReadClock(r) \/ Mail(r) PROVE BatchAfter'
    BY <1>2, <1>9 DEF ReadClock, Mail, Goto, TypeOK, locals
<1>10. ASSUME NEW r \in Runners, QueryFails(r) \/ MailFails(r) \/ SetLastSent(r) \/ SetFails(r)
       PROVE  BatchAfter'
    <2>1. UNCHANGED <<row, created>> /\ (\E from \in Locations : Return(r, from))
        BY <1>10 DEF QueryFails, MailFails, SetLastSent, SetFails, Locations
    <2> QED
        BY <1>2, <2>1 DEF Return, Goto, TypeOK
<1>11. CASE UNCHANGED vars
    BY <1>1, <1>11 DEF vars, locals
<1> QED
    BY <1>3, <1>4, <1>5, <1>6, <1>7, <1>8, <1>9, <1>10, <1>11 DEF Next, SendDigest

LEMMA WatermarkStep ==
    ASSUME TypeOK, RepeatInv, [Next]_vars, ~disturbed'
    PROVE  OneAtWork' /\ MailedBehind' /\ Watermark'
<1>0. ~Fault
    BY DEF Fault
<1>1. ~disturbed
    BY <1>0 DEF Next, SendDigest, Tick, Stamp, Insert, InsertFails, Purge, GetLastSent,
        ReadClock, Query, QueryFails, Mail, MailFails, SetLastSent, SetFails, vars
<1>2. OneAtWork /\ MailedBehind /\ Watermark
    BY <1>1 DEF RepeatInv
<1>3. ASSUME UNCHANGED <<lastSent, pc, since, sentAt, mailed, lastMail>>,
             now' \in Time, now <= now'
      PROVE  OneAtWork' /\ MailedBehind' /\ Watermark'
    <2>1. Truncate(now) <= Truncate(now')
        BY <1>3, TruncateOrder DEF TypeOK
    <2>2. Truncate(now) \in Time /\ Truncate(now') \in Time
        BY <1>3, TruncateBack DEF TypeOK
    <2>3. lastSent <= Truncate(now')
        BY <1>2, <2>1, <2>2 DEF Watermark, TypeOK, Time, Never
    <2>4. OneAtWork' /\ MailedBehind'
        BY <1>2, <1>3 DEF OneAtWork, MailedBehind, Behind, Truncate
    <2>5. \A r \in Runners : sentAt[r] <= now => sentAt[r] <= now'
        BY <1>3 DEF TypeOK, Time
    <2> QED
        BY <1>2, <1>3, <2>3, <2>4, <2>5 DEF Watermark, Truncate
<1>4. CASE Tick
    BY <1>3, <1>4, ClockAssumption DEF Tick, TypeOK, Time, locals, reports
<1>5. ASSUME NEW t \in Turns, Stamp(t) \/ Insert(t) PROVE OneAtWork' /\ MailedBehind' /\ Watermark'
    BY <1>3, <1>5 DEF Stamp, Insert, TypeOK, Time, locals, reports
<1>6. ASSUME NEW age \in Day .. MaxTime, Purge(age)
      PROVE  OneAtWork' /\ MailedBehind' /\ Watermark'
    BY <1>3, <1>6 DEF Purge, TypeOK, Time, locals, reports
<1>7. CASE UNCHANGED vars
    BY <1>3, <1>7 DEF vars, TypeOK, Time, locals, reports
<1>8. ASSUME NEW r \in Runners, GetLastSent(r)
      PROVE  OneAtWork' /\ MailedBehind' /\ Watermark'
    <2>1. \A q \in Runners : pc[q] = "idle"
        BY <1>8 DEF GetLastSent
    <2>2. /\ UNCHANGED <<now, lastSent, sentAt, mailed, lastMail>>
          /\ pc'[r] = "clock" /\ \A q \in Runners \ {r} : pc'[q] = "idle"
        BY <1>8, <2>1 DEF GetLastSent, Goto, TypeOK, reports
    <2>3. lastSent # Never => since'[r] = lastSent
        BY <1>0, <1>8 DEF GetLastSent, TypeOK
    <2>4. OneAtWork'
        BY <2>2 DEF OneAtWork
    <2>5. MailedBehind'
        BY <1>2, <2>1, <2>2 DEF MailedBehind, Behind, Truncate
    <2>6. Watermark'
        BY <1>2, <2>2, <2>3 DEF Watermark, Truncate
    <2> QED
        BY <2>4, <2>5, <2>6
<1>9. ASSUME NEW r \in Runners, ReadClock(r)
      PROVE  OneAtWork' /\ MailedBehind' /\ Watermark'
    <2>1. /\ UNCHANGED <<now, lastSent, since, mailed, lastMail>>
          /\ pc[r] = "clock" /\ pc'[r] = "query" /\ sentAt'[r] = now
          /\ \A q \in Runners \ {r} : pc'[q] = pc[q] /\ sentAt'[q] = sentAt[q]
        BY <1>9 DEF ReadClock, Goto, TypeOK, reports
    <2>2. OneAtWork'
        BY <1>2, <2>1 DEF OneAtWork
    <2>3. MailedBehind'
        BY <1>2, <2>1 DEF MailedBehind, Behind, Truncate
    <2>4. Watermark'
        BY <1>2, <2>1 DEF Watermark, Truncate, TypeOK, Time
    <2> QED
        BY <2>2, <2>3, <2>4
<1>10. ASSUME NEW r \in Runners, Query(r)
       PROVE  OneAtWork' /\ MailedBehind' /\ Watermark'
    <2>1. /\ UNCHANGED <<now, lastSent, since, sentAt, mailed, lastMail>>
          /\ pc[r] = "query" /\ pc'[r] \in {"set", "mail"}
          /\ \A q \in Runners \ {r} : pc'[q] = pc[q]
        BY <1>10 DEF Query, Goto, TypeOK, reports
    <2>2. OneAtWork'
        BY <1>2, <2>1 DEF OneAtWork
    <2>3. MailedBehind'
        BY <1>2, <2>1 DEF MailedBehind, Behind, Truncate
    <2>4. Watermark'
        BY <1>2, <2>1 DEF Watermark, Truncate
    <2> QED
        BY <2>2, <2>3, <2>4
<1>11. ASSUME NEW r \in Runners, Mail(r)
       PROVE  OneAtWork' /\ MailedBehind' /\ Watermark'
    <2>1. /\ UNCHANGED <<now, lastSent, since, sentAt>>
          /\ pc[r] = "mail" /\ pc'[r] = "set"
          /\ \A q \in Runners \ {r} : pc'[q] = pc[q]
          /\ mailed' = mailed \union batch[r]
          /\ \A t \in Turns : lastMail'[t] = IF t \in batch[r] THEN sentAt[r] ELSE lastMail[t]
        BY <1>11 DEF Mail, Deliver, Goto, TypeOK, locals
    <2>2. OneAtWork'
        BY <1>2, <2>1 DEF OneAtWork
    <2>3. Watermark'
        BY <1>2, <2>1 DEF Watermark, Truncate
    <2>4. ASSUME NEW t \in mailed'
          PROVE  \/ lastSent' # Never /\ Behind(t, lastSent)'
                 \/ \E q \in Runners : pc'[q] = "set" /\ Behind(t, Truncate(sentAt[q]))'
        <3>1. CASE t \in batch[r]
            <4>1. lastMail'[t] = sentAt[r] /\ Truncate(sentAt[r]) \in Time
                BY <2>1, <3>1, TruncateBack DEF TypeOK
            <4>2. Behind(t, Truncate(sentAt[r]))'
                BY <2>1, <4>1 DEF Behind, Truncate, Time
            <4> QED
                BY <2>1, <4>2
        <3>2. CASE t \notin batch[r]
            <4>1. t \in mailed /\ lastMail'[t] = lastMail[t]
                BY <2>1, <2>4, <3>2 DEF TypeOK
            <4>2. lastSent # Never /\ Behind(t, lastSent)
                BY <1>2, <2>1, <4>1 DEF MailedBehind, OneAtWork
            <4> QED
                BY <2>1, <4>1, <4>2 DEF Behind, Truncate
        <3> QED
            BY <3>1, <3>2
    <2> QED
        BY <2>2, <2>3, <2>4 DEF MailedBehind
<1>12. ASSUME NEW r \in Runners, SetLastSent(r)
       PROVE  OneAtWork' /\ MailedBehind' /\ Watermark'
    <2>1. /\ UNCHANGED <<now, mailed, lastMail>>
          /\ pc[r] = "set" /\ pc'[r] = "idle"
          /\ \A q \in Runners \ {r} : pc'[q] = pc[q]
          /\ lastSent' = Truncate(sentAt[r])
        BY <1>12 DEF SetLastSent, Return, Goto, TypeOK, reports
    <2>2. \A q \in Runners : pc'[q] = "idle"
        BY <1>2, <2>1 DEF OneAtWork
    <2>3. Truncate(sentAt[r]) \in Time /\ lastSent <= Truncate(sentAt[r])
        BY <1>2, <2>1, TruncateBack DEF TypeOK, Watermark
    <2>4. sentAt[r] \in Time /\ sentAt[r] <= now
        BY <1>2, <2>1 DEF Watermark, TypeOK
    <2>5. Truncate(sentAt[r]) <= Truncate(now)
        BY <2>4, TruncateOrder DEF TypeOK
    <2>6. ASSUME NEW t \in mailed PROVE lastSent' # Never /\ Behind(t, lastSent)'
        <3>1. lastMail'[t] = lastMail[t] /\ lastMail[t] \in Time \union {Never}
            BY <2>1 DEF TypeOK
        <3>2. Truncate(lastMail[t]) <= Truncate(sentAt[r])
            <4>1. CASE lastSent # Never /\ Behind(t, lastSent)
                <5>1. Truncate(lastMail[t]) \in Int
                    BY <3>1, ClockAssumption DEF Truncate, Time, Never
                <5> QED
                    BY <2>3, <4>1, <5>1 DEF Behind, TypeOK, Time
            <4>2. CASE \E q \in Runners : pc[q] = "set" /\ Behind(t, Truncate(sentAt[q]))
                BY <1>2, <2>1, <4>2 DEF OneAtWork, Behind
            <4> QED
                BY <1>2, <4>1, <4>2 DEF MailedBehind
        <3> QED
            BY <2>1, <2>3, <3>1, <3>2 DEF Behind, Truncate, Never, Time
    <2>7. OneAtWork' /\ MailedBehind'
        BY <2>1, <2>2, <2>6 DEF OneAtWork, MailedBehind
    <2>8. Watermark'
        BY <2>1, <2>2, <2>5 DEF Watermark, Truncate
    <2> QED
        BY <2>7, <2>8
<1> QED
    BY <1>0, <1>4, <1>5, <1>6, <1>7, <1>8, <1>9, <1>10, <1>11, <1>12
    DEF Next, SendDigest, InsertFails, QueryFails, MailFails, SetFails

LEMMA RepeatInvHolds == Spec => [](TypeOK /\ RepeatInv)
<1>1. TypeOK /\ RepeatInv /\ [Next]_vars => RepeatInv'
    BY BatchAfterStep, WatermarkStep DEF RepeatInv
<1> QED
    BY <1>1, InitRepeats, TypeCorrect, PTL DEF Spec

(***************************************************************************)
(* A digest repeats a turn only if it was created after the watermark of   *)
(* the digest that had it, as long as no call failed and no two runs       *)
(* overlapped, whatever the clock, the window and the number of turns.      *)
(***************************************************************************)
THEOREM OnlyRecentTurnsRepeat == Spec => RepeatsAreRecent
<1> DEFINE Repeats ==
        \A r \in Runners, t \in Turns :
            Mail(r) /\ t \in batch[r] \intersect mailed /\ ~ disturbed
                => created[t] > Truncate(lastMail[t])
<1>1. TypeOK /\ RepeatInv => Repeats
    <2> SUFFICES ASSUME TypeOK, RepeatInv, NEW r \in Runners, NEW t \in Turns, Mail(r),
                        t \in batch[r], t \in mailed, ~ disturbed
                 PROVE  created[t] > Truncate(lastMail[t])
        OBVIOUS
    <2>1. pc[r] = "mail"
        BY DEF Mail, Goto
    <2>2. lastSent # Never /\ Behind(t, lastSent)
        BY <2>1 DEF RepeatInv, OneAtWork, MailedBehind
    <2>3. since[r] = lastSent /\ created[t] > since[r]
        BY <2>1, <2>2 DEF RepeatInv, Watermark, BatchAfter
    <2>4. created[t] \in Int /\ lastSent \in Int /\ Truncate(lastMail[t]) \in Int
        BY ClockAssumption DEF TypeOK, Time, Never, Truncate
    <2> QED
        BY <2>2, <2>3, <2>4 DEF Behind
<1>2. TypeOK /\ RepeatInv => [Repeats]_vars
    BY <1>1
<1> QED
    BY <1>2, RepeatInvHolds, PTL DEF RepeatsAreRecent

-----------------------------------------------------------------------------
(***************************************************************************)
(* Nothing in the code keeps two runs apart, or asks whether the watermark *)
(* it stores is older than the one that is there.  That it never moves     *)
(* back needs only the first: no run begins while another is at work.      *)
(***************************************************************************)
RunsAlone == \A r \in Runners : GetLastSent(r) => \A q \in Runners : pc[q] = "idle"

Ahead(r) == lastSent <= Truncate(sentAt[r]) /\ sentAt[r] <= now

InOrder ==
    /\ OneAtWork
    /\ lastSent <= Truncate(now)
    /\ \A r \in Runners : pc[r] \in {"query", "mail", "set"} => Ahead(r)

LEMMA InOrderStep ==
    ASSUME TypeOK, InOrder, [Next]_vars, RunsAlone
    PROVE  InOrder' /\ lastSent' >= lastSent
<1>0. /\ lastSent \in Int /\ now \in Time /\ now \in Int
      /\ \A r \in Runners : sentAt[r] \in Time /\ sentAt[r] \in Int
      /\ \A r \in Runners : Truncate(sentAt[r]) \in Time /\ Truncate(sentAt[r]) \in Int
    BY TruncateBack, ClockAssumption DEF TypeOK, Time, Never
<1>1. ASSUME UNCHANGED <<lastSent, pc, sentAt>>, now' \in Time, now <= now'
      PROVE  InOrder' /\ lastSent' >= lastSent
    <2>1. Truncate(now) <= Truncate(now') /\ Truncate(now) \in Int /\ Truncate(now') \in Int
        BY <1>0, <1>1, TruncateOrder, TruncateBack, ClockAssumption DEF Time
    <2>2. now' \in Int
        BY <1>1, ClockAssumption DEF Time
    <2>3. lastSent' <= Truncate(now')
        BY <1>0, <1>1, <2>1 DEF InOrder
    <2>4. \A r \in Runners : Ahead(r) => Ahead(r)'
        BY <1>0, <1>1, <2>2 DEF Ahead, Truncate
    <2> QED
        BY <1>0, <1>1, <2>3, <2>4 DEF InOrder, OneAtWork, Truncate
<1>2. CASE Tick
    BY <1>1, <1>2, ClockAssumption DEF Tick, TypeOK, Time, locals
<1>3. ASSUME NEW t \in Turns, Stamp(t) \/ Insert(t) \/ InsertFails(t)
      PROVE  InOrder' /\ lastSent' >= lastSent
    BY <1>0, <1>1, <1>3 DEF Stamp, Insert, InsertFails, locals
<1>4. ASSUME NEW age \in Day .. MaxTime, Purge(age)
      PROVE  InOrder' /\ lastSent' >= lastSent
    BY <1>0, <1>1, <1>4 DEF Purge, locals
<1>5. CASE UNCHANGED vars
    BY <1>0, <1>1, <1>5 DEF vars, locals
\* A step of a run that leaves the watermark alone.
<1>6. ASSUME NEW r \in Runners, UNCHANGED <<now, lastSent>>,
             \A q \in Runners \ {r} : pc'[q] = pc[q] /\ sentAt'[q] = sentAt[q],
             pc[r] # "idle" \/ \A q \in Runners : pc[q] = "idle",
             pc'[r] \in {"query", "mail", "set"} => Ahead(r)'
      PROVE  InOrder' /\ lastSent' >= lastSent
    <2>1. OneAtWork'
        BY <1>6 DEF InOrder, OneAtWork
    <2>2. \A q \in Runners \ {r} : pc'[q] \in {"query", "mail", "set"} => Ahead(q)'
        BY <1>6 DEF InOrder, Ahead, Truncate
    <2> QED
        BY <1>0, <1>6, <2>1, <2>2 DEF InOrder, Truncate
<1>7. ASSUME NEW r \in Runners, GetLastSent(r) PROVE InOrder' /\ lastSent' >= lastSent
    <2>1. /\ UNCHANGED <<now, lastSent, sentAt>> /\ pc'[r] = "clock"
          /\ \A q \in Runners \ {r} : pc'[q] = pc[q]
        BY <1>7 DEF GetLastSent, Goto, TypeOK
    <2> QED
        BY <1>6, <1>7, <2>1 DEF RunsAlone
<1>8. ASSUME NEW r \in Runners, ReadClock(r) PROVE InOrder' /\ lastSent' >= lastSent
    <2>1. /\ UNCHANGED <<now, lastSent>> /\ pc[r] = "clock" /\ sentAt'[r] = now
          /\ \A q \in Runners \ {r} : pc'[q] = pc[q] /\ sentAt'[q] = sentAt[q]
        BY <1>8 DEF ReadClock, Goto, TypeOK
    <2>2. Ahead(r)'
        BY <1>0, <2>1 DEF InOrder, Ahead, Truncate
    <2> QED
        BY <1>6, <2>1, <2>2
<1>9. ASSUME NEW r \in Runners, Query(r) \/ Mail(r) PROVE InOrder' /\ lastSent' >= lastSent
    <2>1. /\ UNCHANGED <<now, lastSent, sentAt>> /\ pc[r] \in {"query", "mail"}
          /\ \A q \in Runners \ {r} : pc'[q] = pc[q]
        BY <1>9 DEF Query, Mail, Goto, TypeOK, locals
    <2>2. Ahead(r)'
        BY <2>1 DEF InOrder, Ahead, Truncate
    <2> QED
        BY <1>6, <2>1, <2>2
<1>10. ASSUME NEW r \in Runners, QueryFails(r) \/ MailFails(r) \/ SetFails(r)
       PROVE  InOrder' /\ lastSent' >= lastSent
    <2>1. /\ UNCHANGED <<now, lastSent>>
          /\ \E from \in {"query", "mail", "set"} : Return(r, from)
        BY <1>10 DEF QueryFails, MailFails, SetFails
    <2>2. /\ pc[r] # "idle" /\ pc'[r] = "idle"
          /\ \A q \in Runners \ {r} : pc'[q] = pc[q] /\ sentAt'[q] = sentAt[q]
        BY <2>1 DEF Return, Goto, TypeOK
    <2> QED
        BY <1>6, <2>1, <2>2
<1>11. ASSUME NEW r \in Runners, SetLastSent(r) PROVE InOrder' /\ lastSent' >= lastSent
    <2>1. /\ now' = now /\ pc[r] = "set" /\ pc'[r] = "idle"
          /\ \A q \in Runners \ {r} : pc'[q] = pc[q]
          /\ lastSent' = Truncate(sentAt[r])
        BY <1>11 DEF SetLastSent, Return, Goto, TypeOK
    <2>2. \A q \in Runners : pc'[q] = "idle"
        BY <2>1 DEF InOrder, OneAtWork
    <2>3. lastSent <= Truncate(sentAt[r]) /\ sentAt[r] <= now
        BY <2>1 DEF InOrder, Ahead
    <2>4. Truncate(sentAt[r]) <= Truncate(now)
        BY <1>0, <2>3, TruncateOrder
    <2> QED
        BY <1>0, <2>1, <2>2, <2>3, <2>4 DEF InOrder, OneAtWork, Truncate
<1> QED
    BY <1>2, <1>3, <1>4, <1>5, <1>7, <1>8, <1>9, <1>10, <1>11 DEF Next, SendDigest

(***************************************************************************)
(* The watermark never moves back if no digest is started while another    *)
(* one runs, though calls fail, mails are sent and not recorded, and Redis *)
(* may have had no watermark (SendDigest, setLastSent).                    *)
(***************************************************************************)
THEOREM WatermarkMovesOn ==
    Spec /\ [][RunsAlone]_vars => [][lastSent' >= lastSent]_vars
<1>1. Init => InOrder
    <2>1. Truncate(0) \in Time
        BY TruncateBack, ClockAssumption DEF Time
    <2> QED
        BY <2>1 DEF Init, InOrder, OneAtWork, Never, Time
<1>2. TypeOK /\ InOrder /\ [Next]_vars /\ [RunsAlone]_vars
        => InOrder' /\ [lastSent' >= lastSent]_vars
    <2> SUFFICES ASSUME TypeOK, InOrder, [Next]_vars, [RunsAlone]_vars
                 PROVE  InOrder' /\ [lastSent' >= lastSent]_vars
        OBVIOUS
    <2>1. CASE UNCHANGED vars
        BY <2>1 DEF vars, locals, InOrder, OneAtWork, Ahead, Truncate
    <2> QED
        BY <2>1, InOrderStep
<1> QED
    BY <1>1, <1>2, TypeCorrect, PTL DEF Spec

=============================================================================

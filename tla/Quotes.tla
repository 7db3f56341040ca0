-------------------------------- MODULE Quotes --------------------------------
(***************************************************************************)
(* Quotes and the quota of one customer: QuotaMiddleware                   *)
(* (internal/middleware/quota.go), CalculatePrice and AnalyzeSVG           *)
(* (internal/handlers/quote/handler.go) and the administrator's UpdateUser *)
(* (internal/handlers/admin/admin_handler.go), over ConfigCache.           *)
(*                                                                         *)
(* A customer may post several requests at once.  The quota is tested by   *)
(* the middleware and counted after the quote is saved.  CalculatePrice    *)
(* loads the configuration three times: to check that technology and       *)
(* material are compatible, to calculate, and for the days of validity.    *)
(* The administrator's update saves the whole row it has read before.      *)
(*                                                                         *)
(* Readers are the goroutines that serve the customer's POSTs, one after   *)
(* another: of /quotes/calculate, and of /quotes/analyze with one file.    *)
(***************************************************************************)
EXTENDS ConfigCache, FiniteSets

CONSTANTS
    Editors,    \* administrators' requests that may update the customer
    Limits,     \* quotas an administrator may set
    MaxQuotes,  \* bound: no calculation begins once there are as many quotes
    MaxRows,    \* bound: no upload begins once there are as many analyses
    MaxFaults,  \* bound: increments and lookups that fail
    Speeds      \* the table tech_material_speeds, which says what is compatible

\* The code lets an administrator set any number; a negative one other than
\* Unlimited admits nobody.
Unlimited == -1
ASSUME LimitsAssumption == Limits \subseteq Nat \union {Unlimited}
ASSUME RequestsAssumption ==
    /\ IsFiniteSet(Readers) /\ Readers # {}
    /\ Speeds \in Tables /\ MaxQuotes \in Nat /\ MaxRows \in Nat /\ MaxFaults \in Nat

VARIABLES
    quota, used,    \* quote_quota and quotes_used of the customer's row
    saved,          \* how many quotes are in the table
    analyses,       \* how many analyses of the file are in the table
    pc,             \* where each request is
    snapshot,       \* snapshot[e]: the row e has read, or NoRow
    \* history variables
    lost,           \* increments that failed
    undone,         \* increments taken back by saving a row read earlier
    top,            \* the highest quota the customer has had
    blind           \* lookups of the file that failed
row == <<quota, used>>
tables == <<row, saved, analyses>>
ghosts == <<lost, undone, top, blind>>
quoteVars == <<tables, pc, snapshot, ghosts>>
vars == <<cacheVars, quoteVars>>

NoRow == [quota |-> 0, used |-> -1]

\* The rows of a new customer; nothing has been analysed yet.
Init ==
    /\ CacheInit
    /\ quota \in Limits /\ used = 0
    /\ saved = 0 /\ analyses = 0
    /\ pc = [r \in Readers |-> "new"]
    /\ snapshot = [e \in Editors |-> NoRow]
    /\ lost = 0 /\ undone = 0 /\ top = quota
    /\ blind = 0

-----------------------------------------------------------------------------
\* QuotaMiddleware, before either handler.

\* Mutant: one more.
CanQuoteOneMore == quota = Unlimited \/ used <= quota

CanQuote == quota = Unlimited \/ used < quota

Goto(r, from, to) ==
    /\ pc[r] = from
    /\ pc' = [pc EXCEPT ![r] = to]

Calculation(r) ==
    /\ saved < MaxQuotes
    /\ CanQuote
    /\ Goto(r, "new", "check")
    /\ UNCHANGED <<cacheVars, tables, snapshot, ghosts>>

Upload(r) ==
    /\ analyses < MaxRows
    /\ CanQuote
    /\ Goto(r, "new", "find")
    /\ UNCHANGED <<cacheVars, tables, snapshot, ghosts>>

-----------------------------------------------------------------------------
\* CalculatePrice.

Loading == {"check", "price", "validity"}

LoadStep(r) ==
    /\ pc[r] \in Loading
    /\ Load(r)
    /\ UNCHANGED quoteVars

\* An even version of the table has the combination as compatible: the
\* administrator withdraws it and restores it.
Compatible(version) == version % 2 = 0

Check(r) ==
    /\ Return(r, "loaded")
    /\ Goto(r, "check", IF Compatible(config[r].version[Speeds]) THEN "price" ELSE "new")
    /\ UNCHANGED <<tables, snapshot, ghosts>>

Calculate(r) ==
    /\ Return(r, "loaded")
    /\ Goto(r, "price", "validity")
    /\ UNCHANGED <<tables, snapshot, ghosts>>

LoadFails(r) ==
    /\ Return(r, "failed")
    /\ \E from \in {"check", "price"} : Goto(r, from, "new")
    /\ UNCHANGED <<tables, snapshot, ghosts>>

\* ToQuoteModel: without a configuration the validity is seven days.
Validity(r) ==
    /\ \E outcome \in {"loaded", "failed"} : Return(r, outcome)
    /\ Goto(r, "validity", "create")
    /\ UNCHANGED <<tables, snapshot, ghosts>>

Create(r) ==
    /\ Goto(r, "create", "count")
    /\ saved' = saved + 1
    /\ UNCHANGED <<cacheVars, row, analyses, snapshot, ghosts>>

CreateFails(r) ==
    /\ Goto(r, "create", "new")
    /\ UNCHANGED <<cacheVars, tables, snapshot, ghosts>>

\* Mutant: the quotes are counted again, with those not incremented yet.
CountRows(r) ==
    /\ Goto(r, "count", "new")
    /\ used' = saved
    /\ UNCHANGED <<cacheVars, quota, saved, analyses, snapshot, ghosts>>

\* IncrementQuotesUsed: quotes_used + 1 in the database.
Count(r) ==
    /\ Goto(r, "count", "new")
    /\ used' = used + 1
    /\ UNCHANGED <<cacheVars, quota, saved, analyses, snapshot, ghosts>>

\* Its error is dropped.
CountFails(r) ==
    /\ lost + blind < MaxFaults
    /\ Goto(r, "count", "new")
    /\ lost' = lost + 1
    /\ UNCHANGED <<cacheVars, tables, snapshot, undone, top, blind>>

CalculatePrice(r) ==
    \/ Calculation(r) \/ LoadStep(r) \/ Check(r) \/ Calculate(r) \/ LoadFails(r)
    \/ Validity(r) \/ Create(r) \/ CreateFails(r) \/ Count(r) \/ CountFails(r)

-----------------------------------------------------------------------------
\* AnalyzeSVG of a file that has some work in it.

\* Mutant: the lookup does not find what other requests have stored.
FindNothing(r) ==
    /\ Goto(r, "find", "insert")
    /\ UNCHANGED <<cacheVars, tables, snapshot, ghosts>>

\* FindByFileHash: an analysis of the same file is given back.
FindByFileHash(r) ==
    /\ Goto(r, "find", IF analyses > 0 THEN "new" ELSE "insert")
    /\ UNCHANGED <<cacheVars, tables, snapshot, ghosts>>

\* An error of the lookup counts as not found.
FindFails(r) ==
    /\ lost + blind < MaxFaults
    /\ Goto(r, "find", "insert")
    /\ blind' = blind + 1
    /\ UNCHANGED <<cacheVars, tables, snapshot, lost, undone, top>>

Insert(r) ==
    /\ Goto(r, "insert", "new")
    /\ analyses' = analyses + 1
    /\ UNCHANGED <<cacheVars, row, saved, snapshot, ghosts>>

InsertFails(r) ==
    /\ Goto(r, "insert", "new")
    /\ UNCHANGED <<cacheVars, tables, snapshot, ghosts>>

AnalyzeSVG(r) ==
    \/ Upload(r) \/ FindByFileHash(r) \/ FindFails(r) \/ Insert(r) \/ InsertFails(r)

-----------------------------------------------------------------------------
\* The administrator's UpdateUser.

FindUser(e) ==
    /\ snapshot[e] = NoRow
    /\ snapshot' = [snapshot EXCEPT ![e] = [quota |-> quota, used |-> used]]
    /\ UNCHANGED <<cacheVars, tables, pc, ghosts>>

\* The request is malformed, or the update fails.
UpdateFails(e) ==
    /\ snapshot[e] # NoRow
    /\ snapshot' = [snapshot EXCEPT ![e] = NoRow]
    /\ UNCHANGED <<cacheVars, tables, pc, ghosts>>

Higher(q1, q2) ==
    IF Unlimited \in {q1, q2} THEN Unlimited ELSE IF q1 > q2 THEN q1 ELSE q2

\* Save writes every column, with a new quota or the one it has read.
UpdateUser(e) ==
    /\ snapshot[e] # NoRow
    /\ snapshot' = [snapshot EXCEPT ![e] = NoRow]
    /\ quota' \in Limits \union {snapshot[e].quota}
    /\ used' = snapshot[e].used
    /\ undone' = undone + used - used'
    /\ top' = Higher(top, quota')
    /\ UNCHANGED <<cacheVars, saved, analyses, pc, lost, blind>>

-----------------------------------------------------------------------------
Catalogue == Tick \/ \E t \in Tables : Edit(t)

Next ==
    \/ \E r \in Readers : CalculatePrice(r) \/ AnalyzeSVG(r)
    \/ \E e \in Editors : FindUser(e) \/ UpdateFails(e) \/ UpdateUser(e)
    \/ Catalogue /\ UNCHANGED quoteVars

Spec == Init /\ [][Next]_vars

-----------------------------------------------------------------------------
QuoteTypeOK ==
    /\ quota \in Limits /\ used \in Nat
    /\ saved \in Nat /\ analyses \in Nat
    /\ pc \in [Readers -> Loading \union {"new", "create", "count", "find", "insert"}]
    /\ snapshot \in [Editors -> [quota : Limits, used : Nat] \union {NoRow}]
    /\ lost \in Nat /\ undone \in Int
    /\ top \in Limits
    /\ blind \in Nat

TypeOK == CacheTypeOK /\ QuoteTypeOK

(***************************************************************************)
(* Every quote saved is counted once: by quotes_used, by an increment      *)
(* still to come, or among those whose increment failed or was taken back  *)
(* by an administrator's save.                                             *)
(***************************************************************************)
Counting == {r \in Readers : pc[r] = "count"}

QuotesAccounted ==
    saved = used + Cardinality(Counting) + lost + undone

(***************************************************************************)
(* Requests admitted at once may together exceed the quota, by one less    *)
(* than there are of them; beyond that only by the increments that failed  *)
(* and those a save has taken back.  With several administrators at work   *)
(* there is no bound: one's save may restore a count after another's has   *)
(* let more requests in.                                                   *)
(***************************************************************************)
OneEditor == \A e1, e2 \in Editors : e1 = e2

QuotaOvershoot ==
    OneEditor /\ top # Unlimited =>
        saved < top + Cardinality(Readers) + lost + undone

(***************************************************************************)
(* A file is stored as often as it was looked up before the first insert,  *)
(* at most once by every request under way then, and once more for every   *)
(* lookup that failed; uploads one after another store it once.            *)
(***************************************************************************)
DuplicatesBounded == analyses <= Cardinality(Readers) + blind
=============================================================================

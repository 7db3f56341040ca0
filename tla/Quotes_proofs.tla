----------------------------- MODULE Quotes_proofs -----------------------------
(***************************************************************************)
(* Proofs about ConfigCache, for any readers, tables, TTL and clock, about *)
(* Quotes, which runs it, for any number of requests and limits, and about *)
(* SvgEngine, for any files.                                               *)
(***************************************************************************)
EXTENDS Quotes, SvgEngine, FiniteSetTheorems, SequenceTheorems, WellFoundedInduction, TLAPS

\* A configuration with one table's version replaced keeps its time.
LEMMA ReplaceVersion ==
    ASSUME NEW c \in Config, NEW t \in Tables, NEW v \in Nat
    PROVE  LET new == [c EXCEPT !.version[t] = v]
           IN  /\ new \in Config
               /\ new.loadedAt = c.loadedAt
               /\ new.version = [c.version EXCEPT ![t] = v]
    BY DEF Config

(***************************************************************************)
(* The variables of ConfigCache keep their types.                          *)
(***************************************************************************)
THEOREM CacheTypeCorrect == CacheSpec => []CacheTypeOK
<1>1. CacheInit => CacheTypeOK
    <2>1. NoConfig \in Config
        BY CacheAssumption DEF NoConfig, Config
    <2>2. 0 \in Time /\ 0 \in 0 .. LastTable
        BY CacheAssumption DEF Time
    <2> QED
        BY <2>1, <2>2 DEF CacheInit, CacheTypeOK
<1>2. CacheTypeOK /\ [CacheNext]_cacheVars => CacheTypeOK'
    <2> SUFFICES ASSUME CacheTypeOK, [CacheNext]_cacheVars
                 PROVE  CacheTypeOK'
        OBVIOUS
    <2> USE DEF CacheTypeOK
    <2>0. NoConfig \in Config /\ 0 \in Time /\ 0 \in 0 .. LastTable
        BY CacheAssumption DEF NoConfig, Config, Time
    <2>1. CASE Tick
        BY <2>1, CacheAssumption DEF Tick, Time, loader
    <2>2. ASSUME NEW t \in Tables, Edit(t) PROVE CacheTypeOK'
        <3>1. Append(edits[t], now) \in Seq(Time)
            OBVIOUS
        <3> QED
            BY <2>2, <3>1 DEF Edit, loader
    <2>3. ASSUME NEW r \in Readers, Load(r) PROVE CacheTypeOK'
        <3>1. CASE Hit(r)
            BY <3>1 DEF Hit, Move
        <3>2. CASE Miss(r)
            <4>1. [NoConfig EXCEPT !.loadedAt = now] \in Config
                <5>1. now \in Int
                    BY CacheAssumption DEF Time
                <5> QED
                    BY <5>1 DEF NoConfig, Config
            <4> QED
                BY <3>2, <4>1 DEF Miss, Move
        <3>3. CASE ReadTable(r)
            <4> DEFINE t == read[r] + 1
            <4>1. t \in Tables /\ t \in 0 .. LastTable
                BY <3>3, CacheAssumption DEF ReadTable, Tables
            <4>2. [config[r] EXCEPT !.version[t] = Len(edits[t])] \in Config
                BY <4>1, ReplaceVersion
            <4>3. config' = [config EXCEPT ![r] =
                                 [config[r] EXCEPT !.version[t] = Len(edits[t])]]
                BY <3>3 DEF ReadTable
            <4>4. config' \in [Readers -> Config]
                BY <4>2, <4>3
            <4> QED
                BY <3>3, <4>1, <4>4 DEF ReadTable
        <3>4. CASE QueryFails(r)
            BY <3>4 DEF QueryFails, Move
        <3>5. CASE Store(r)
            BY <3>5 DEF Store, Move
        <3> QED
            BY <2>3, <3>1, <3>2, <3>3, <3>4, <3>5 DEF Load
    <2>4. ASSUME NEW r \in Readers, NEW outcome, Return(r, outcome)
          PROVE  CacheTypeOK'
        BY <2>0, <2>4 DEF Return, Move
    <2>5. CASE UNCHANGED cacheVars
        BY <2>5 DEF cacheVars, loader
    <2> QED
        BY <2>1, <2>2, <2>3, <2>4, <2>5 DEF CacheNext
<1> QED
    BY <1>1, <1>2, PTL DEF CacheSpec

-----------------------------------------------------------------------------
(***************************************************************************)
(* A version is current for a configuration if it had not been replaced    *)
(* when the configuration began to be read.  What is cached is current in  *)
(* all tables, what is being read in those read so far.                    *)
(***************************************************************************)
Current(c, t) == ~ ReplacedBy(t, c.version[t], c.loadedAt)

CacheCurrent ==
    /\ cache.loadedAt <= now
    /\ \A t \in Tables : Current(cache, t)

Reading(r) ==
    /\ config[r].loadedAt = asked[r]
    /\ \A t \in Tables : t <= read[r] => Current(config[r], t)

Given(r) ==
    /\ config[r].loadedAt > asked[r] - TTL
    /\ \A t \in Tables : Current(config[r], t)

ReaderCurrent(r) ==
    /\ config[r].loadedAt <= now
    /\ loc[r] = "idle" => read[r] = 0
    /\ loc[r] = "refresh" => Reading(r)
    /\ loc[r] = "loaded" => Given(r)

AllCurrent == CacheCurrent /\ \A r \in Readers : ReaderCurrent(r)

\* An edit comes after every configuration that has begun to be read.
LEMMA EditKeepsCurrent ==
    ASSUME CacheTypeOK, NEW s \in Tables, Edit(s),
           NEW c \in Config, c.loadedAt <= now,
           NEW t \in Tables, Current(c, t)
    PROVE  Current(c, t)'
<1> DEFINE v == c.version[t]
<1>1. v \in Nat /\ c.loadedAt \in Int /\ now \in Int
    BY DEF Config, CacheTypeOK, Time
<1>2. CASE t # s
    <2>1. edits'[t] = edits[t]
        BY <1>2 DEF Edit, CacheTypeOK
    <2> QED
        BY <2>1 DEF Current, ReplacedBy
<1>3. CASE t = s
    <2>1. edits'[t] = Append(edits[t], now) /\ edits[t] \in Seq(Time)
        BY <1>3 DEF Edit, CacheTypeOK
    <2>2. Len(edits'[t]) = Len(edits[t]) + 1 /\ Len(edits[t]) \in Nat
        BY <2>1 DEF CacheTypeOK
    <2>3. CASE v < Len(edits[t])
        <3>1. v + 1 \in 1 .. Len(edits[t])
            BY <1>1, <2>2, <2>3
        <3>2. edits'[t][v + 1] = edits[t][v + 1]
            BY <2>1, <3>1 DEF CacheTypeOK
        <3>3. ~ edits[t][v + 1] < c.loadedAt
            BY <2>3 DEF Current, ReplacedBy
        <3> QED
            BY <3>2, <3>3 DEF Current, ReplacedBy
    <2>4. CASE v = Len(edits[t])
        <3>1. edits'[t][v + 1] = now
            BY <2>1, <2>4 DEF CacheTypeOK
        <3> QED
            BY <1>1, <3>1 DEF Current, ReplacedBy
    <2>5. CASE v > Len(edits[t])
        BY <1>1, <2>2, <2>5 DEF Current, ReplacedBy
    <2> QED
        BY <1>1, <2>2, <2>3, <2>4, <2>5
<1> QED
    BY <1>2, <1>3

\* An edited table leaves every reader with what is current for it.
LEMMA EditKeepsAll ==
    ASSUME CacheTypeOK, AllCurrent, NEW s \in Tables, Edit(s)
    PROVE  AllCurrent'
<1>1. UNCHANGED <<now, cache, loader>>
    BY DEF Edit
<1>2. CacheCurrent'
    BY <1>1, EditKeepsCurrent DEF AllCurrent, CacheCurrent, CacheTypeOK
<1>3. ASSUME NEW r \in Readers PROVE ReaderCurrent(r)'
    <2>1. config[r] \in Config /\ config[r].loadedAt <= now
        BY DEF CacheTypeOK, AllCurrent, ReaderCurrent
    <2>2. ASSUME NEW t \in Tables, Current(config[r], t)
          PROVE  ~ ReplacedBy(t, config[r].version[t], config[r].loadedAt)'
        <3>1. Current(config[r], t)'
            BY <1>1, <2>1, <2>2, EditKeepsCurrent DEF loader
        <3> QED
            BY <3>1 DEF Current
    <2>3. ReaderCurrent(r)
        BY DEF AllCurrent
    <2> QED
        BY <1>1, <2>2, <2>3 DEF ReaderCurrent, Reading, Given, Current, loader
<1> QED
    BY <1>2, <1>3 DEF AllCurrent

\* One step inside Load touches its own reader, and the cache when it stores.
LEMMA LoadKeepsAll ==
    ASSUME CacheTypeOK, AllCurrent, NEW r \in Readers, Load(r)
    PROVE  AllCurrent'
<1>1. /\ config[r] \in Config /\ cache \in Config
      /\ now \in Nat /\ TTL \in Nat \ {0} /\ read[r] \in 0 .. LastTable
      /\ CacheCurrent /\ ReaderCurrent(r)
    BY CacheAssumption DEF CacheTypeOK, AllCurrent, Time
<1>2. UNCHANGED <<now, edits>>
    BY DEF Load, Hit, Miss, ReadTable, QueryFails, Store
<1>3. ASSUME NEW s \in Readers, s # r PROVE ReaderCurrent(s)'
    <2>1. /\ loc'[s] = loc[s] /\ config'[s] = config[s]
          /\ read'[s] = read[s] /\ asked'[s] = asked[s]
        BY <1>3 DEF Load, Hit, Miss, ReadTable, QueryFails, Store, Move, CacheTypeOK
    <2>2. ReaderCurrent(s)
        BY DEF AllCurrent
    <2> QED
        BY <1>2, <2>1, <2>2
        DEF ReaderCurrent, Reading, Given, Current, ReplacedBy
<1>4. CASE Hit(r)
    <2>1. /\ loc'[r] = "loaded" /\ config'[r] = cache /\ asked'[r] = now
          /\ UNCHANGED cache
        BY <1>4 DEF Hit, Move, CacheTypeOK
    <2>2. cache.loadedAt > now - TTL /\ cache.loadedAt \in Int
        BY <1>1, <1>4 DEF Hit, Fresh, Config
    <2>3. ReaderCurrent(r)'
        BY <1>1, <1>2, <2>1, <2>2
        DEF ReaderCurrent, Given, CacheCurrent, Current, ReplacedBy
    <2> QED
        BY <1>1, <1>2, <1>3, <2>1, <2>3
        DEF AllCurrent, CacheCurrent, Current, ReplacedBy
<1>5. CASE Miss(r)
    <2>1. /\ loc'[r] = "refresh" /\ config'[r].loadedAt = now /\ asked'[r] = now
          /\ read'[r] = 0
          /\ UNCHANGED cache
        BY <1>1, <1>5 DEF Miss, Move, ReaderCurrent, CacheTypeOK, NoConfig
    <2>2. ReaderCurrent(r)'
        BY <1>1, <1>2, <2>1 DEF ReaderCurrent, Reading, Tables
    <2> QED
        BY <1>1, <1>2, <1>3, <2>1, <2>2
        DEF AllCurrent, CacheCurrent, Current, ReplacedBy
<1>6. CASE ReadTable(r)
    <2> DEFINE t == read[r] + 1
    <2>1. t \in Tables /\ edits[t] \in Seq(Time) /\ Len(edits[t]) \in Nat
        <3>1. t \in Tables
            BY <1>1, <1>6, CacheAssumption DEF ReadTable, Tables
        <3> QED
            BY <3>1 DEF CacheTypeOK
    <2>2. /\ loc'[r] = "refresh" /\ asked'[r] = asked[r] /\ read'[r] = t
          /\ config'[r] = [config[r] EXCEPT !.version[t] = Len(edits[t])]
          /\ UNCHANGED cache
        BY <1>6 DEF ReadTable, CacheTypeOK
    <2>3. /\ config'[r].loadedAt = config[r].loadedAt
          /\ config'[r].version = [config[r].version EXCEPT ![t] = Len(edits[t])]
        BY <1>1, <2>1, <2>2, ReplaceVersion
    <2>4. ASSUME NEW u \in Tables, u <= t PROVE Current(config[r], u)'
        <3>1. CASE u = t
            <4>1. config'[r].version[u] = Len(edits'[u])
                BY <1>1, <1>2, <2>3, <3>1 DEF Config
            <4> QED
                BY <1>2, <2>1, <3>1, <4>1 DEF Current, ReplacedBy
        <3>2. CASE u # t
            <4>1. u <= read[r]
                BY <1>1, <2>4, <3>2 DEF Tables
            <4>2. Current(config[r], u)
                BY <1>1, <1>6, <4>1 DEF ReaderCurrent, Reading, ReadTable
            <4>3. config'[r].version[u] = config[r].version[u]
                BY <1>1, <2>3, <3>2 DEF Config
            <4> QED
                BY <1>2, <2>3, <4>2, <4>3 DEF Current, ReplacedBy
        <3> QED
            BY <3>1, <3>2
    <2>5. ReaderCurrent(r)'
        BY <1>1, <1>2, <1>6, <2>2, <2>3, <2>4
        DEF ReaderCurrent, Reading, Current, ReadTable
    <2> QED
        BY <1>1, <1>2, <1>3, <2>2, <2>5
        DEF AllCurrent, CacheCurrent, Current, ReplacedBy
<1>7. CASE QueryFails(r)
    <2>1. loc'[r] = "failed" /\ UNCHANGED <<cache, config>>
        BY <1>7 DEF QueryFails, Move, CacheTypeOK
    <2>2. ReaderCurrent(r)'
        BY <1>1, <1>2, <2>1 DEF ReaderCurrent
    <2> QED
        BY <1>1, <1>2, <1>3, <2>1, <2>2
        DEF AllCurrent, CacheCurrent, Current, ReplacedBy
<1>8. CASE Store(r)
    <2>1. /\ loc[r] = "refresh" /\ loc'[r] = "loaded" /\ read[r] = LastTable
          /\ cache' = config[r]
          /\ UNCHANGED <<config, asked>>
        BY <1>8 DEF Store, Move, CacheTypeOK
    <2>2. \A t \in Tables : Current(config[r], t)
        BY <1>1, <2>1, CacheAssumption DEF ReaderCurrent, Reading, Tables
    <2>3. config[r].loadedAt > asked[r] - TTL /\ config[r].loadedAt <= now
        <3>1. asked[r] \in Nat
            BY DEF CacheTypeOK, Time
        <3> QED
            BY <1>1, <2>1, <3>1 DEF ReaderCurrent, Reading
    <2>4. ReaderCurrent(r)'
        BY <1>2, <2>1, <2>2, <2>3 DEF ReaderCurrent, Given, Current, ReplacedBy
    <2>5. CacheCurrent'
        BY <1>2, <2>1, <2>2, <2>3 DEF CacheCurrent, Current, ReplacedBy
    <2> QED
        BY <1>3, <2>4, <2>5 DEF AllCurrent
<1> QED
    BY <1>4, <1>5, <1>6, <1>7, <1>8 DEF Load

\* A reader that has returned holds no configuration.
LEMMA ReturnKeepsAll ==
    ASSUME CacheTypeOK, AllCurrent, NEW r \in Readers, NEW outcome,
           Return(r, outcome)
    PROVE  AllCurrent'
<1>1. UNCHANGED <<now, edits, cache>>
    BY DEF Return
<1>2. ASSUME NEW s \in Readers PROVE ReaderCurrent(s)'
    <2>1. ReaderCurrent(s) /\ now \in Nat /\ TTL \in Nat
        BY CacheAssumption DEF AllCurrent, CacheTypeOK, Time
    <2>2. CASE s = r
        <3>1. loc'[s] = "idle" /\ read'[s] = 0 /\ config'[s].loadedAt = -TTL
            BY <2>2 DEF Return, Move, CacheTypeOK, NoConfig
        <3> QED
            BY <1>1, <2>1, <3>1 DEF ReaderCurrent
    <2>3. CASE s # r
        <3>1. /\ loc'[s] = loc[s] /\ config'[s] = config[s]
              /\ read'[s] = read[s] /\ asked'[s] = asked[s]
            BY <2>3 DEF Return, Move, CacheTypeOK
        <3> QED
            BY <1>1, <2>1, <3>1
            DEF ReaderCurrent, Reading, Given, Current, ReplacedBy
    <2> QED
        BY <2>2, <2>3
<1> QED
    BY <1>1, <1>2 DEF AllCurrent, CacheCurrent, Current, ReplacedBy

(***************************************************************************)
(* What Load gives is no older than the TTL.                               *)
(***************************************************************************)
THEOREM LoadIsRecent == CacheSpec => []ConfigIsRecent
<1>1. CacheInit => AllCurrent
    <2> SUFFICES ASSUME CacheInit PROVE AllCurrent
        OBVIOUS
    <2>1. NoConfig.loadedAt = -TTL /\ TTL \in Nat
        BY CacheAssumption DEF NoConfig
    <2>2. \A t \in Tables : Len(edits[t]) = 0 /\ NoConfig.version[t] = 0
        BY DEF CacheInit, NoConfig
    <2>3. \A t \in Tables : Current(NoConfig, t)
        BY <2>2 DEF Current, ReplacedBy
    <2> QED
        BY <2>1, <2>3 DEF CacheInit, AllCurrent, CacheCurrent, ReaderCurrent
<1>2. CacheTypeOK /\ AllCurrent /\ [CacheNext]_cacheVars => AllCurrent'
    <2> SUFFICES ASSUME CacheTypeOK, AllCurrent, [CacheNext]_cacheVars
                 PROVE  AllCurrent'
        OBVIOUS
    <2>1. CASE Tick
        <3>1. now' = now + 1 /\ UNCHANGED <<edits, cache, loader>> /\ now \in Nat
            BY <2>1 DEF Tick, CacheTypeOK, Time
        <3>2. /\ cache.loadedAt \in Int
              /\ \A r \in Readers : config[r].loadedAt \in Int
            BY DEF CacheTypeOK, Config
        <3> QED
            BY <3>1, <3>2
            DEF AllCurrent, CacheCurrent, ReaderCurrent, Reading, Given, Current,
                ReplacedBy, loader
    <2>2. ASSUME NEW t \in Tables, Edit(t) PROVE AllCurrent'
        BY <2>2, EditKeepsAll
    <2>3. ASSUME NEW r \in Readers, Load(r) PROVE AllCurrent'
        BY <2>3, LoadKeepsAll
    <2>4. ASSUME NEW r \in Readers, NEW outcome, Return(r, outcome)
          PROVE  AllCurrent'
        BY <2>4, ReturnKeepsAll
    <2>5. CASE UNCHANGED cacheVars
        BY <2>5
        DEF AllCurrent, CacheCurrent, ReaderCurrent, Reading, Given, Current,
            ReplacedBy, cacheVars, loader
    <2> QED
        BY <2>1, <2>2, <2>3, <2>4, <2>5 DEF CacheNext
<1>3. CacheTypeOK /\ AllCurrent => ConfigIsRecent
    <2> SUFFICES ASSUME CacheTypeOK, AllCurrent,
                        NEW r \in Readers, loc[r] = "loaded", NEW t \in Tables,
                        ReplacedBy(t, config[r].version[t], asked[r] - TTL + 1)
                 PROVE  FALSE
        BY DEF ConfigIsRecent
    <2> DEFINE v == config[r].version[t]
    <2>1. config[r].loadedAt > asked[r] - TTL /\ Current(config[r], t)
        BY DEF AllCurrent, ReaderCurrent, Given
    <2>2. /\ v \in Nat /\ config[r].loadedAt \in Int /\ asked[r] \in Int
          /\ edits[t] \in Seq(Time) /\ TTL \in Int
        BY CacheAssumption DEF CacheTypeOK, Config, Time
    <2>3. v < Len(edits[t]) /\ edits[t][v + 1] < asked[r] - TTL + 1
        BY DEF ReplacedBy
    <2>4. edits[t][v + 1] \in Int
        <3>1. v + 1 \in 1 .. Len(edits[t])
            BY <2>2, <2>3
        <3>2. edits[t][v + 1] \in Time
            BY <2>2, <3>1
        <3> QED
            BY <3>2, CacheAssumption DEF Time
    <2>5. edits[t][v + 1] < config[r].loadedAt
        BY <2>1, <2>2, <2>3, <2>4
    <2> QED
        BY <2>1, <2>3, <2>5 DEF Current, ReplacedBy
<1> QED
    BY <1>1, <1>2, <1>3, CacheTypeCorrect, PTL DEF CacheSpec

-----------------------------------------------------------------------------

\* The higher of two quotas is one of them.
LEMMA HigherIsLimit ==
    ASSUME NEW q1 \in Limits, NEW q2 \in Limits
    PROVE  Higher(q1, q2) \in Limits
    BY DEF Higher, Unlimited

\* Every step of Quotes is one of ConfigCache, or leaves it alone.
LEMMA StepsOfCache == [Next]_vars => [CacheNext]_cacheVars
<1> SUFFICES ASSUME [Next]_vars PROVE [CacheNext]_cacheVars
    OBVIOUS
<1>1. ASSUME NEW r \in Readers, CalculatePrice(r) PROVE [CacheNext]_cacheVars
    <2>1. CASE LoadStep(r)
        BY <2>1 DEF LoadStep, CacheNext
    <2>2. CASE Check(r)
        BY <2>2 DEF Check, CacheNext
    <2>3. CASE Calculate(r)
        BY <2>3 DEF Calculate, CacheNext
    <2>4. CASE LoadFails(r)
        BY <2>4 DEF LoadFails, CacheNext
    <2>5. CASE Validity(r)
        BY <2>5 DEF Validity, CacheNext
    <2>6. CASE Calculation(r) \/ Create(r) \/ CreateFails(r) \/ Count(r) \/ CountFails(r)
        BY <2>6 DEF Calculation, Create, CreateFails, Count, CountFails
    <2> QED
        BY <1>1, <2>1, <2>2, <2>3, <2>4, <2>5, <2>6 DEF CalculatePrice
<1>2. ASSUME NEW r \in Readers, AnalyzeSVG(r) PROVE [CacheNext]_cacheVars
    BY <1>2 DEF AnalyzeSVG, Upload, FindByFileHash, FindFails, Insert, InsertFails
<1>3. ASSUME NEW e \in Editors, FindUser(e) \/ UpdateFails(e) \/ UpdateUser(e)
      PROVE  [CacheNext]_cacheVars
    BY <1>3 DEF FindUser, UpdateFails, UpdateUser
<1>4. CASE Catalogue
    BY <1>4 DEF Catalogue, CacheNext
<1>5. CASE UNCHANGED vars
    BY <1>5 DEF vars
<1> QED
    BY <1>1, <1>2, <1>3, <1>4, <1>5 DEF Next

(***************************************************************************)
(* Requests for quotes use the cache as ConfigCache lets readers use it.   *)
(***************************************************************************)
THEOREM UsesCache == Spec => CacheSpec
<1>1. Init => CacheInit
    BY DEF Init
<1> QED
    BY <1>1, StepsOfCache, PTL DEF Spec, CacheSpec

(***************************************************************************)
(* No load of a calculation is given a configuration older than the TTL.   *)
(***************************************************************************)
THEOREM QuotesLoadRecent == Spec => []ConfigIsRecent
<1> QED
    BY UsesCache, LoadIsRecent, PTL

-----------------------------------------------------------------------------
\* A step of Quotes keeps the types of what it adds to ConfigCache.
LEMMA QuoteTypeStep ==
    ASSUME CacheTypeOK, QuoteTypeOK, Next
    PROVE  QuoteTypeOK'
<1> USE DEF QuoteTypeOK, Loading
<1>1. ASSUME NEW r \in Readers, CalculatePrice(r) PROVE QuoteTypeOK'
    <2>1. CASE Calculation(r)
        BY <2>1 DEF Calculation, Goto, tables, row, ghosts
    <2>2. CASE LoadStep(r)
        BY <2>2 DEF LoadStep, quoteVars, tables, row, ghosts
    <2>3. CASE Check(r)
        BY <2>3 DEF Check, Goto, tables, row, ghosts
    <2>4. CASE Calculate(r)
        BY <2>4 DEF Calculate, Goto, tables, row, ghosts
    <2>5. CASE LoadFails(r)
        BY <2>5 DEF LoadFails, Goto, tables, row, ghosts
    <2>6. CASE Validity(r)
        BY <2>6 DEF Validity, Goto, tables, row, ghosts
    <2>7. CASE Create(r)
        BY <2>7 DEF Create, Goto, row, ghosts
    <2>8. CASE CreateFails(r)
        BY <2>8 DEF CreateFails, Goto, tables, row, ghosts
    <2>9. CASE Count(r)
        BY <2>9 DEF Count, Goto, ghosts
    <2>10. CASE CountFails(r)
        BY <2>10 DEF CountFails, Goto, tables, row
    <2> QED
        BY <1>1, <2>1, <2>2, <2>3, <2>4, <2>5, <2>6, <2>7, <2>8, <2>9, <2>10
        DEF CalculatePrice
<1>2. ASSUME NEW r \in Readers, AnalyzeSVG(r) PROVE QuoteTypeOK'
    <2>1. CASE Upload(r)
        BY <2>1 DEF Upload, Goto, tables, row, ghosts
    <2>2. CASE FindByFileHash(r)
        BY <2>2 DEF FindByFileHash, Goto, tables, row, ghosts
    <2>3. CASE FindFails(r)
        BY <2>3 DEF FindFails, Goto, tables, row
    <2>4. CASE Insert(r)
        BY <2>4 DEF Insert, Goto, row, ghosts
    <2>5. CASE InsertFails(r)
        BY <2>5 DEF InsertFails, Goto, tables, row, ghosts
    <2> QED
        BY <1>2, <2>1, <2>2, <2>3, <2>4, <2>5 DEF AnalyzeSVG
<1>3. ASSUME NEW e \in Editors, FindUser(e) PROVE QuoteTypeOK'
    BY <1>3 DEF FindUser, tables, row, ghosts
<1>4. ASSUME NEW e \in Editors, UpdateFails(e) PROVE QuoteTypeOK'
    BY <1>4 DEF UpdateFails, tables, row, ghosts
<1>5. ASSUME NEW e \in Editors, UpdateUser(e) PROVE QuoteTypeOK'
    <2>1. snapshot[e].quota \in Limits /\ snapshot[e].used \in Nat
        BY <1>5 DEF UpdateUser
    <2>2. quota' \in Limits /\ used' \in Nat /\ undone' \in Int
        BY <1>5, <2>1 DEF UpdateUser
    <2>3. top' \in Limits
        BY <1>5, <2>2, HigherIsLimit DEF UpdateUser
    <2> QED
        BY <1>5, <2>2, <2>3 DEF UpdateUser
<1>6. CASE UNCHANGED quoteVars
    BY <1>6 DEF quoteVars, tables, row, ghosts
<1> QED
    BY <1>1, <1>2, <1>3, <1>4, <1>5, <1>6 DEF Next

(***************************************************************************)
(* The variables of Quotes keep their types.                               *)
(***************************************************************************)
THEOREM QuotesTypeCorrect == Spec => []TypeOK
<1>1. Init => QuoteTypeOK
    BY DEF Init, QuoteTypeOK
<1>2. CacheTypeOK /\ QuoteTypeOK /\ [Next]_vars => QuoteTypeOK'
    <2>1. QuoteTypeOK /\ UNCHANGED vars => QuoteTypeOK'
        BY DEF QuoteTypeOK, vars, quoteVars, tables, row, ghosts
    <2> QED
        BY <2>1, QuoteTypeStep
<1>3. CacheTypeOK /\ QuoteTypeOK => TypeOK
    BY DEF QuoteTypeOK, TypeOK
<1> QED
    BY <1>1, <1>2, <1>3, UsesCache, CacheTypeCorrect, PTL DEF Spec

-----------------------------------------------------------------------------
\* The requests that are at one of these places.
At(places) == {r \in Readers : pc[r] \in places}

\* There are never more of them than requests.
LEMMA AtFinite ==
    ASSUME NEW S, S \subseteq Readers
    PROVE  /\ IsFiniteSet(S)
           /\ Cardinality(S) \in Nat /\ Cardinality(Readers) \in Nat
           /\ Cardinality(S) <= Cardinality(Readers)
<1>1. IsFiniteSet(S) /\ Cardinality(S) <= Cardinality(Readers)
    BY RequestsAssumption, FS_Subset
<1> QED
    BY <1>1, RequestsAssumption, FS_CardinalityType

\* A request that goes on leaves one place and enters another.
LEMMA GotoCounts ==
    ASSUME QuoteTypeOK, NEW r \in Readers, NEW from, NEW to, Goto(r, from, to),
           NEW places
    PROVE  /\ (from \in places <=> to \in places) => At(places)' = At(places)
           /\ from \in places /\ to \notin places =>
                Cardinality(At(places)') = Cardinality(At(places)) - 1
           /\ from \notin places /\ to \in places =>
                Cardinality(At(places)') = Cardinality(At(places)) + 1
<1>1. /\ pc[r] = from /\ pc'[r] = to
      /\ \A s \in Readers : s # r => pc'[s] = pc[s]
    BY DEF Goto, QuoteTypeOK
<1>2. (from \in places <=> to \in places) => At(places)' = At(places)
    BY <1>1 DEF At
<1>3. CASE from \in places /\ to \notin places
    <2>1. r \in At(places) /\ At(places)' = At(places) \ {r}
        BY <1>1, <1>3 DEF At
    <2>2. IsFiniteSet(At(places))
        BY AtFinite DEF At
    <2>3. Cardinality(At(places) \ {r}) = Cardinality(At(places)) - 1
        BY <2>1, <2>2, FS_RemoveElement
    <2> QED
        BY <1>2, <1>3, <2>1, <2>3
<1>4. CASE from \notin places /\ to \in places
    <2>1. r \notin At(places) /\ At(places)' = At(places) \union {r}
        BY <1>1, <1>4 DEF At
    <2>2. IsFiniteSet(At(places))
        BY AtFinite DEF At
    <2>3. Cardinality(At(places) \union {r}) = Cardinality(At(places)) + 1
        BY <2>1, <2>2, FS_AddElement
    <2> QED
        BY <1>4, <2>1, <2>3
<1> QED
    BY <1>2, <1>3, <1>4

(***************************************************************************)
(* Every quote is counted once, is about to be, or its increment was lost. *)
(***************************************************************************)
THEOREM QuotesCounted == Spec => []QuotesAccounted
<1> DEFINE C == At({"count"})
<1>0. Counting = C
    BY DEF Counting, At
<1>1. Init => QuotesAccounted
    <2> SUFFICES ASSUME Init PROVE QuotesAccounted
        OBVIOUS
    <2>1. C = {}
        BY DEF Init, At
    <2> QED
        BY <1>0, <2>1, FS_EmptySet DEF Init, QuotesAccounted
<1>2. QuoteTypeOK /\ QuotesAccounted /\ [Next]_vars => QuotesAccounted'
    <2> SUFFICES ASSUME QuoteTypeOK, QuotesAccounted, [Next]_vars
                 PROVE  QuotesAccounted'
        OBVIOUS
    <2>0. /\ saved = used + Cardinality(C) + lost + undone
          /\ saved \in Nat /\ used \in Nat /\ lost \in Nat /\ undone \in Int
          /\ Cardinality(C) \in Nat
        <3>1. Cardinality(C) \in Nat
            BY AtFinite DEF At
        <3> QED
            BY <1>0, <3>1 DEF QuotesAccounted, QuoteTypeOK
    <2>1. SUFFICES saved' = used' + Cardinality(C)' + lost' + undone'
        BY DEF QuotesAccounted, Counting, At
    <2> DEFINE Quiet == /\ UNCHANGED <<saved, used, lost, undone>>
                        /\ C' = C
    <2>2. ASSUME Quiet
          PROVE  saved' = used' + Cardinality(C)' + lost' + undone'
        BY <2>0, <2>2
    <2>3. ASSUME NEW r \in Readers, CalculatePrice(r)
          PROVE  saved' = used' + Cardinality(C)' + lost' + undone'
        <3>1. CASE Calculation(r)
            <4>1. C' = C
                BY <3>1, GotoCounts DEF Calculation
            <4> QED
                BY <2>2, <3>1, <4>1 DEF Calculation, tables, row, ghosts
        <3>2. CASE LoadStep(r)
            BY <2>2, <3>2 DEF LoadStep, quoteVars, tables, row, ghosts, At
        <3>3. CASE Check(r)
            <4>1. C' = C
                BY <3>3, GotoCounts DEF Check
            <4> QED
                BY <2>2, <3>3, <4>1 DEF Check, tables, row, ghosts
        <3>4. CASE Calculate(r)
            <4>1. C' = C
                BY <3>4, GotoCounts DEF Calculate
            <4> QED
                BY <2>2, <3>4, <4>1 DEF Calculate, tables, row, ghosts
        <3>5. CASE LoadFails(r)
            <4>1. C' = C
                BY <3>5, GotoCounts DEF LoadFails
            <4> QED
                BY <2>2, <3>5, <4>1 DEF LoadFails, tables, row, ghosts
        <3>6. CASE Validity(r)
            <4>1. C' = C
                BY <3>6, GotoCounts DEF Validity
            <4> QED
                BY <2>2, <3>6, <4>1 DEF Validity, tables, row, ghosts
        <3>7. CASE Create(r)
            <4>1. Cardinality(C)' = Cardinality(C) + 1
                BY <3>7, GotoCounts DEF Create
            <4> QED
                BY <2>0, <3>7, <4>1 DEF Create, row, ghosts
        <3>8. CASE CreateFails(r)
            <4>1. C' = C
                BY <3>8, GotoCounts DEF CreateFails
            <4> QED
                BY <2>2, <3>8, <4>1 DEF CreateFails, tables, row, ghosts
        <3>9. CASE Count(r)
            <4>1. Cardinality(C)' = Cardinality(C) - 1
                BY <3>9, GotoCounts DEF Count
            <4> QED
                BY <2>0, <3>9, <4>1 DEF Count, ghosts
        <3>10. CASE CountFails(r)
            <4>1. Cardinality(C)' = Cardinality(C) - 1
                BY <3>10, GotoCounts DEF CountFails
            <4> QED
                BY <2>0, <3>10, <4>1 DEF CountFails, tables, row
        <3> QED
            BY <2>3, <3>1, <3>2, <3>3, <3>4, <3>5, <3>6, <3>7, <3>8, <3>9, <3>10
            DEF CalculatePrice
    <2>4. ASSUME NEW r \in Readers, AnalyzeSVG(r)
          PROVE  saved' = used' + Cardinality(C)' + lost' + undone'
        <3>1. C' = C
            BY <2>4, GotoCounts
            DEF AnalyzeSVG, Upload, FindByFileHash, FindFails, Insert, InsertFails
        <3>2. UNCHANGED <<saved, used, lost, undone>>
            BY <2>4
            DEF AnalyzeSVG, Upload, FindByFileHash, FindFails, Insert, InsertFails,
                tables, row, ghosts
        <3> QED
            BY <2>2, <3>1, <3>2
    <2>5. ASSUME NEW e \in Editors, FindUser(e) \/ UpdateFails(e)
          PROVE  saved' = used' + Cardinality(C)' + lost' + undone'
        BY <2>2, <2>5 DEF FindUser, UpdateFails, tables, row, ghosts, At
    <2>6. ASSUME NEW e \in Editors, UpdateUser(e)
          PROVE  saved' = used' + Cardinality(C)' + lost' + undone'
        <3>1. UNCHANGED <<saved, lost, pc>> /\ undone' = undone + used - used'
            BY <2>6 DEF UpdateUser
        <3>2. C' = C
            BY <3>1 DEF At
        <3>3. used' \in Nat
            BY <2>6 DEF UpdateUser, QuoteTypeOK
        <3> QED
            BY <2>0, <3>1, <3>2, <3>3
    <2>7. CASE UNCHANGED quoteVars
        BY <2>2, <2>7 DEF quoteVars, tables, row, ghosts, At
    <2> QED
        BY <2>3, <2>4, <2>5, <2>6, <2>7 DEF Next, vars
<1>3. TypeOK => QuoteTypeOK
    BY DEF TypeOK
<1> QED
    BY <1>1, <1>2, <1>3, QuotesTypeCorrect, PTL DEF Spec

-----------------------------------------------------------------------------
(***************************************************************************)
(* A file is stored once by every request, and once by every blind lookup. *)
(* A request that is to insert has found nothing, so at that moment there  *)
(* were only the inserts of the others to come, or its lookup failed.      *)
(***************************************************************************)
InsertsBounded ==
    analyses + Cardinality(At({"insert"})) <= Cardinality(Readers) + blind

\* A file is stored at most once by every request and once by every lookup that
\* failed (UploadSVG looks for the hash and inserts in two queries).
THEOREM DuplicatesAreFew == Spec => []DuplicatesBounded
<1> DEFINE I == At({"insert"})
           Held == analyses + Cardinality(I) <= Cardinality(Readers) + blind
<1>0. /\ Cardinality(Readers) \in Nat
      /\ Cardinality(I) \in Nat /\ Cardinality(I) <= Cardinality(Readers)
      /\ Cardinality(I)' \in Nat /\ Cardinality(I)' <= Cardinality(Readers)
    <2>1. I \subseteq Readers /\ I' \subseteq Readers
        BY DEF At
    <2> QED
        BY <2>1, AtFinite
<1>1. Init => InsertsBounded
    <2> SUFFICES ASSUME Init PROVE Held
        BY DEF InsertsBounded
    <2> QED
        BY <1>0 DEF Init
<1>2. QuoteTypeOK /\ InsertsBounded /\ [Next]_vars => InsertsBounded'
    <2> SUFFICES ASSUME QuoteTypeOK, Held, [Next]_vars PROVE Held'
        BY DEF InsertsBounded
    <2>0. analyses \in Nat /\ blind \in Nat
        BY DEF QuoteTypeOK
    <2>1. ASSUME UNCHANGED <<analyses, blind>>, I' = I PROVE Held'
        BY <2>1
    <2>2. ASSUME NEW r \in Readers, CalculatePrice(r) PROVE Held'
        <3>1. UNCHANGED <<analyses, blind>>
            BY <2>2
            DEF CalculatePrice, Calculation, LoadStep, Check, Calculate, LoadFails,
                Validity, Create, CreateFails, Count, CountFails,
                quoteVars, tables, row, ghosts
        <3>2. CASE LoadStep(r)
            BY <2>1, <3>1, <3>2 DEF LoadStep, quoteVars, At
        <3>3. CASE ~ LoadStep(r)
            <4>1. PICK from, to :
                      /\ Goto(r, from, to)
                      /\ from # "insert" /\ to # "insert"
                <5>1. CASE Calculation(r)
                    BY <5>1 DEF Calculation
                <5>2. CASE Check(r)
                    BY <5>2 DEF Check
                <5>3. CASE Calculate(r)
                    BY <5>3 DEF Calculate
                <5>4. CASE LoadFails(r)
                    BY <5>4 DEF LoadFails
                <5>5. CASE Validity(r)
                    BY <5>5 DEF Validity
                <5>6. CASE Create(r)
                    BY <5>6 DEF Create
                <5>7. CASE CreateFails(r)
                    BY <5>7 DEF CreateFails
                <5>8. CASE Count(r)
                    BY <5>8 DEF Count
                <5>9. CASE CountFails(r)
                    BY <5>9 DEF CountFails
                <5> QED
                    BY <2>2, <3>3, <5>1, <5>2, <5>3, <5>4, <5>5, <5>6, <5>7, <5>8,
                       <5>9
                    DEF CalculatePrice
            <4> QED
                BY <2>1, <3>1, <4>1, GotoCounts
        <3> QED
            BY <3>2, <3>3
    <2>3. ASSUME NEW r \in Readers, AnalyzeSVG(r) PROVE Held'
        <3>1. CASE Upload(r)
            BY <2>1, <3>1, GotoCounts DEF Upload, tables, ghosts
        <3>2. CASE FindByFileHash(r)
            <4>1. UNCHANGED <<analyses, blind>>
                BY <3>2 DEF FindByFileHash, tables, ghosts
            <4>2. CASE analyses > 0
                BY <2>1, <3>2, <4>1, <4>2, GotoCounts DEF FindByFileHash
            <4>3. CASE ~ analyses > 0
                BY <1>0, <2>0, <4>1, <4>3
            <4> QED
                BY <4>2, <4>3
        <3>3. CASE FindFails(r)
            <4>1. Cardinality(I)' = Cardinality(I) + 1
                BY <3>3, GotoCounts DEF FindFails
            <4> QED
                BY <1>0, <2>0, <3>3, <4>1 DEF FindFails, tables
        <3>4. CASE Insert(r)
            <4>1. Cardinality(I)' = Cardinality(I) - 1
                BY <3>4, GotoCounts DEF Insert
            <4> QED
                BY <1>0, <2>0, <3>4, <4>1 DEF Insert, ghosts
        <3>5. CASE InsertFails(r)
            <4>1. Cardinality(I)' = Cardinality(I) - 1
                BY <3>5, GotoCounts DEF InsertFails
            <4> QED
                BY <1>0, <2>0, <3>5, <4>1 DEF InsertFails, tables, ghosts
        <3> QED
            BY <2>3, <3>1, <3>2, <3>3, <3>4, <3>5 DEF AnalyzeSVG
    <2>4. ASSUME NEW e \in Editors, FindUser(e) \/ UpdateFails(e) \/ UpdateUser(e)
          PROVE  Held'
        BY <2>1, <2>4 DEF FindUser, UpdateFails, UpdateUser, tables, ghosts, At
    <2>5. CASE UNCHANGED quoteVars
        BY <2>1, <2>5 DEF quoteVars, tables, ghosts, At
    <2> QED
        BY <2>2, <2>3, <2>4, <2>5 DEF Next, vars
<1>3. TypeOK /\ InsertsBounded => DuplicatesBounded
    BY <1>0 DEF TypeOK, QuoteTypeOK, InsertsBounded, DuplicatesBounded
<1>4. TypeOK => QuoteTypeOK
    BY DEF TypeOK
<1> QED
    BY <1>1, <1>2, <1>3, <1>4, QuotesTypeCorrect, PTL DEF Spec

-----------------------------------------------------------------------------
(***************************************************************************)
(* The bound on the quotes is not inductive: requests admitted will still  *)
(* be counted, and a save may put back an old count and a new quota.  With *)
(* one administrator the count he has read is never above the current one, *)
(* and a request is admitted only below a quota that top remembers.        *)
(***************************************************************************)
Admission == Loading \union {"create", "count"}

QuotaSeen == top # Unlimited => quota # Unlimited /\ quota <= top

SnapshotSeen == OneEditor => \A e \in Editors : snapshot[e].used <= used

AdmittedBounded ==
    OneEditor /\ top # Unlimited =>
        used + Cardinality(At(Admission)) < top + Cardinality(Readers)

\* The highest quota so far is at least each quota there has been.
LEMMA HigherBounds ==
    ASSUME NEW q1 \in Limits, NEW q2 \in Limits, Higher(q1, q2) # Unlimited
    PROVE  /\ q1 # Unlimited /\ q1 <= Higher(q1, q2)
           /\ q2 # Unlimited /\ q2 <= Higher(q1, q2)
<1>1. q1 # Unlimited /\ q2 # Unlimited
    BY DEF Higher
<1>2. q1 \in Nat /\ q2 \in Nat
    BY <1>1, LimitsAssumption
<1> QED
    BY <1>1, <1>2 DEF Higher

\* A row that was read has a count.
LEMMA SnapshotInt ==
    ASSUME QuoteTypeOK, NEW e \in Editors
    PROVE  snapshot[e].used \in Int
    BY DEF QuoteTypeOK, NoRow

\* A step that leaves the customer's row alone, or counts one quote.
LEMMA RowKept ==
    ASSUME QuoteTypeOK, QuotaSeen, SnapshotSeen,
           UNCHANGED <<quota, top, snapshot>>,
           used' = used \/ used' = used + 1
    PROVE  QuotaSeen' /\ SnapshotSeen'
<1>1. QuotaSeen'
    BY DEF QuotaSeen
<1>2. used \in Int
    BY DEF QuoteTypeOK
<1>3. ASSUME OneEditor, NEW e \in Editors PROVE snapshot'[e].used <= used'
    <2>1. snapshot[e].used <= used
        BY <1>3 DEF SnapshotSeen
    <2> QED
        BY <1>2, <2>1, SnapshotInt
<1> QED
    BY <1>1, <1>3 DEF SnapshotSeen, OneEditor

\* What an administrator does keeps what the bound needs to know of the row.
LEMMA EditorKeeps ==
    ASSUME QuoteTypeOK, QuotaSeen, SnapshotSeen, NEW e \in Editors,
           FindUser(e) \/ UpdateFails(e) \/ UpdateUser(e)
    PROVE  /\ QuotaSeen' /\ SnapshotSeen'
           /\ top' # Unlimited => top # Unlimited /\ top <= top'
           /\ OneEditor => used' <= used
<1>0. /\ used \in Nat /\ quota \in Limits /\ top \in Limits
      /\ \A f \in Editors : snapshot[f].used \in Int
    BY SnapshotInt DEF QuoteTypeOK
<1>1. CASE FindUser(e)
    <2>1. UNCHANGED <<quota, used, top>>
        BY <1>1 DEF FindUser, tables, row, ghosts
    <2>2. ASSUME OneEditor PROVE \A f \in Editors : snapshot'[f].used <= used
        <3>1. snapshot'[e] = [quota |-> quota, used |-> used]
            BY <1>1 DEF FindUser, QuoteTypeOK
        <3>2. \A f \in Editors : f = e
            BY <2>2 DEF OneEditor
        <3> QED
            BY <1>0, <3>1, <3>2
    <2>3. top # Unlimited => top \in Nat
        BY <1>0, LimitsAssumption
    <2> QED
        BY <1>0, <2>1, <2>2, <2>3 DEF QuotaSeen, SnapshotSeen, OneEditor
<1>2. CASE UpdateFails(e)
    <2>1. UNCHANGED <<quota, used, top>>
        BY <1>2 DEF UpdateFails, tables, row, ghosts
    <2>2. ASSUME OneEditor PROVE \A f \in Editors : snapshot'[f].used <= used
        <3>1. snapshot'[e].used = -1
            BY <1>2 DEF UpdateFails, QuoteTypeOK, NoRow
        <3>2. \A f \in Editors : f = e
            BY <2>2 DEF OneEditor
        <3> QED
            BY <1>0, <3>1, <3>2
    <2>3. top # Unlimited => top \in Nat
        BY <1>0, LimitsAssumption
    <2> QED
        BY <1>0, <2>1, <2>2, <2>3 DEF QuotaSeen, SnapshotSeen, OneEditor
<1>3. CASE UpdateUser(e)
    <2>1. snapshot[e].quota \in Limits /\ snapshot[e].used \in Nat
        BY <1>3 DEF UpdateUser, QuoteTypeOK
    <2>2. quota' \in Limits /\ top' = Higher(top, quota') /\ used' = snapshot[e].used
        BY <1>3, <2>1 DEF UpdateUser
    <2>3. top' # Unlimited =>
            /\ top # Unlimited /\ top <= top'
            /\ quota' # Unlimited /\ quota' <= top'
        BY <1>0, <2>2, HigherBounds
    <2>4. OneEditor => used' <= used
        BY <2>2 DEF SnapshotSeen
    <2>5. ASSUME OneEditor PROVE \A f \in Editors : snapshot'[f].used <= used'
        <3>1. snapshot'[e].used = -1
            BY <1>3 DEF UpdateUser, QuoteTypeOK, NoRow
        <3>2. \A f \in Editors : f = e
            BY <2>5 DEF OneEditor
        <3> QED
            BY <2>1, <2>2, <3>1, <3>2
    <2> QED
        BY <2>3, <2>4, <2>5 DEF QuotaSeen, SnapshotSeen, OneEditor
<1> QED
    BY <1>1, <1>2, <1>3

\* The requests admitted grow in number only when one passes the quota.
LEMMA AdmissionCounts ==
    ASSUME QuoteTypeOK, NEW r \in Readers, CalculatePrice(r) \/ AnalyzeSVG(r)
    PROVE  /\ UNCHANGED <<quota, top, snapshot>>
           /\ \/ Calculation(r) /\ used' = used
              \/ /\ used' = used
                 /\ Cardinality(At(Admission))' <= Cardinality(At(Admission))
              \/ /\ used' = used + 1
                 /\ Cardinality(At(Admission))' = Cardinality(At(Admission)) - 1
<1> DEFINE A == At(Admission)
<1> USE DEF Admission, Loading
<1>0. Cardinality(A) \in Nat
    BY AtFinite DEF At
<1>1. UNCHANGED <<quota, top, snapshot>>
    BY DEF CalculatePrice, Calculation, LoadStep, Check, Calculate, LoadFails,
           Validity, Create, CreateFails, Count, CountFails, AnalyzeSVG,
           Upload, FindByFileHash, FindFails, Insert, InsertFails,
           quoteVars, tables, row, ghosts
<1>2. CASE Calculation(r)
    BY <1>1, <1>2 DEF Calculation, tables, row
<1>3. CASE LoadStep(r)
    BY <1>0, <1>1, <1>3 DEF LoadStep, quoteVars, tables, row, At
<1>4. CASE Check(r)
    BY <1>0, <1>1, <1>4, GotoCounts DEF Check, tables, row
<1>5. CASE Calculate(r)
    BY <1>0, <1>1, <1>5, GotoCounts DEF Calculate, tables, row
<1>6. CASE LoadFails(r)
    BY <1>0, <1>1, <1>6, GotoCounts DEF LoadFails, tables, row
<1>7. CASE Validity(r)
    BY <1>0, <1>1, <1>7, GotoCounts DEF Validity, tables, row
<1>8. CASE Create(r)
    BY <1>0, <1>1, <1>8, GotoCounts DEF Create, row
<1>9. CASE CreateFails(r)
    BY <1>0, <1>1, <1>9, GotoCounts DEF CreateFails, tables, row
<1>10. CASE Count(r)
    BY <1>0, <1>1, <1>10, GotoCounts DEF Count
<1>11. CASE CountFails(r)
    BY <1>0, <1>1, <1>11, GotoCounts DEF CountFails, tables, row
<1>12. CASE AnalyzeSVG(r)
    <2>1. A' = A
        BY <1>12, GotoCounts
        DEF AnalyzeSVG, Upload, FindByFileHash, FindFails, Insert, InsertFails
    <2>2. used' = used
        BY <1>12
        DEF AnalyzeSVG, Upload, FindByFileHash, FindFails, Insert, InsertFails,
            tables, row
    <2> QED
        BY <1>0, <1>1, <2>1, <2>2
<1> QED
    BY <1>2, <1>3, <1>4, <1>5, <1>6, <1>7, <1>8, <1>9, <1>10, <1>11, <1>12
    DEF CalculatePrice

(***************************************************************************)
(* The quotes exceed the highest quota by less than the requests, but for  *)
(* increments that failed or were undone by the one administrator's save.  *)
(***************************************************************************)
THEOREM OvershootBounded == Spec => []QuotaOvershoot
<1> DEFINE A == At(Admission)
           Inv == QuotaSeen /\ SnapshotSeen /\ AdmittedBounded
<1>0. /\ Cardinality(Readers) \in Nat
      /\ Cardinality(A) \in Nat /\ Cardinality(A) <= Cardinality(Readers)
      /\ Cardinality(A)' \in Nat /\ Cardinality(A)' <= Cardinality(Readers)
    <2>1. A \subseteq Readers /\ A' \subseteq Readers
        BY DEF At
    <2> QED
        BY <2>1, AtFinite
<1>1. Init => Inv
    <2> SUFFICES ASSUME Init PROVE Inv
        OBVIOUS
    <2>1. quota \in Limits /\ top = quota /\ used = 0
        BY DEF Init
    <2>2. top # Unlimited => top \in Nat
        BY <2>1, LimitsAssumption
    <2>3. QuotaSeen
        BY <2>1, <2>2 DEF QuotaSeen
    <2>4. SnapshotSeen
        BY <2>1 DEF Init, SnapshotSeen, NoRow
    <2>5. Cardinality(A) = 0
        <3>1. A = {}
            BY DEF Init, At, Admission, Loading
        <3> QED
            BY <3>1, FS_EmptySet
    <2>6. Cardinality(Readers) > 0
        <3>1. Cardinality(Readers) # 0
            BY RequestsAssumption, FS_EmptySet
        <3> QED
            BY <1>0, <3>1
    <2> QED
        BY <1>0, <2>1, <2>2, <2>3, <2>4, <2>5, <2>6 DEF AdmittedBounded
<1>2. QuoteTypeOK /\ Inv /\ [Next]_vars => Inv'
    <2> SUFFICES ASSUME QuoteTypeOK, Inv, [Next]_vars PROVE Inv'
        OBVIOUS
    <2>0. /\ used \in Nat
          /\ top # Unlimited => top \in Nat
          /\ quota # Unlimited => quota \in Nat
        BY LimitsAssumption DEF QuoteTypeOK
    <2>1. ASSUME NEW r \in Readers, CalculatePrice(r) \/ AnalyzeSVG(r)
          PROVE  Inv'
        <3>1. UNCHANGED <<quota, top, snapshot>> /\ (used' = used \/ used' = used + 1)
            BY <2>1, AdmissionCounts
        <3>2. QuotaSeen' /\ SnapshotSeen'
            BY <3>1, RowKept
        <3>3. ASSUME OneEditor, top' # Unlimited
              PROVE  used' + Cardinality(A)' < top' + Cardinality(Readers)
            <4>1. used + Cardinality(A) < top + Cardinality(Readers)
                BY <3>1, <3>3 DEF AdmittedBounded
            <4>2. CASE Calculation(r) /\ used' = used
                <5>1. used < quota /\ quota <= top /\ quota \in Nat
                    BY <2>0, <3>1, <3>3, <4>2 DEF Calculation, CanQuote, QuotaSeen
                <5> QED
                    BY <1>0, <2>0, <3>1, <3>3, <4>2, <5>1
            <4>3. CASE used' = used /\ Cardinality(A)' <= Cardinality(A)
                BY <1>0, <2>0, <3>1, <3>3, <4>1, <4>3
            <4>4. CASE used' = used + 1 /\ Cardinality(A)' = Cardinality(A) - 1
                BY <1>0, <2>0, <3>1, <3>3, <4>1, <4>4
            <4> QED
                BY <2>1, <4>2, <4>3, <4>4, AdmissionCounts
        <3> QED
            BY <3>2, <3>3 DEF AdmittedBounded, OneEditor
    <2>2. ASSUME NEW e \in Editors, FindUser(e) \/ UpdateFails(e) \/ UpdateUser(e)
          PROVE  Inv'
        <3>1. /\ QuotaSeen' /\ SnapshotSeen'
              /\ top' # Unlimited => top # Unlimited /\ top <= top'
              /\ OneEditor => used' <= used
            BY <2>2, EditorKeeps
        <3>2. UNCHANGED pc /\ used' \in Nat /\ top' \in Limits
            <4>1. ASSUME UpdateUser(e) PROVE used' \in Nat /\ top' \in Limits
                BY <4>1, HigherIsLimit DEF UpdateUser, QuoteTypeOK
            <4> QED
                BY <2>2, <4>1
                DEF FindUser, UpdateFails, UpdateUser, tables, row, ghosts, QuoteTypeOK
        <3>3. A' = A
            BY <3>2 DEF At
        <3>4. top' # Unlimited => top' \in Nat
            BY <3>2, LimitsAssumption
        <3>5. ASSUME OneEditor, top' # Unlimited
              PROVE  used' + Cardinality(A)' < top' + Cardinality(Readers)
            BY <1>0, <2>0, <3>1, <3>2, <3>3, <3>4, <3>5 DEF AdmittedBounded
        <3> QED
            BY <3>1, <3>5 DEF AdmittedBounded, OneEditor
    <2>3. CASE UNCHANGED quoteVars
        BY <2>3
        DEF quoteVars, tables, row, ghosts, QuotaSeen, SnapshotSeen, AdmittedBounded,
            OneEditor, At
    <2> QED
        BY <2>1, <2>2, <2>3 DEF Next, vars
<1>3. QuoteTypeOK /\ Inv /\ QuotesAccounted => QuotaOvershoot
    <2> SUFFICES ASSUME QuoteTypeOK, Inv, QuotesAccounted, OneEditor, top # Unlimited
                 PROVE  saved < top + Cardinality(Readers) + lost + undone
        BY DEF QuotaOvershoot
    <2>1. used + Cardinality(A) < top + Cardinality(Readers)
        BY DEF AdmittedBounded
    <2>2. Cardinality(Counting) <= Cardinality(A) /\ Cardinality(Counting) \in Nat
        <3>1. Counting \subseteq A /\ A \subseteq Readers /\ Counting \subseteq Readers
            BY DEF Counting, At, Admission
        <3>2. IsFiniteSet(A)
            BY <3>1, AtFinite
        <3> QED
            BY <3>1, <3>2, AtFinite, FS_Subset
    <2>3. /\ saved = used + Cardinality(Counting) + lost + undone
          /\ saved \in Int /\ used \in Int /\ lost \in Int /\ undone \in Int
          /\ top \in Int
        <3>1. top \in Nat
            BY LimitsAssumption DEF QuoteTypeOK
        <3> QED
            BY <3>1 DEF QuotesAccounted, QuoteTypeOK
    <2> QED
        BY <1>0, <2>1, <2>2, <2>3
<1>4. TypeOK => QuoteTypeOK
    BY DEF TypeOK
<1> QED
    BY <1>1, <1>2, <1>3, <1>4, QuotesTypeCorrect, QuotesCounted, PTL DEF Spec

(***************************************************************************)
(* SvgEngine.  The fold over the elements of a file and the fold of a sum  *)
(* are recursive functions on sets of positions: that there is one, and    *)
(* that it goes position by position, is shown once for both.              *)
(***************************************************************************)

\* The last of the first m + 1 positions.
LEMMA LastOfAll ==
    ASSUME NEW m \in Nat, NEW s \in SUBSET (1 .. m + 1), m + 1 \in s
    PROVE  Max(s) = m + 1
<1>1. \A y \in s : m + 1 >= y
    OBVIOUS
<1>2. ASSUME NEW x \in s, \A y \in s : x >= y PROVE x = m + 1
    <2>1. x \in 1 .. m + 1 /\ x >= m + 1
        BY <1>2
    <2> QED
        BY <2>1
<1> QED
    BY <1>1, <1>2 DEF Max

\* A set of numbers in which each has the one before it is empty.
LEMMA NoLeast ==
    ASSUME NEW Bad, Bad \subseteq Nat, \A n \in Bad : n # 0 /\ n - 1 \in Bad
    PROVE  Bad = {}
<1> DEFINE R == OpToRel(<, Nat)
<1>1. IsWellFoundedOn(R, Nat)
    BY NatLessThanWellFounded
<1>2. \A x, y \in Nat : <<x, y>> \in R <=> x < y
    BY DEF OpToRel
<1> HIDE DEF R
<1>3. SUFFICES ASSUME Bad # {} PROVE FALSE
    OBVIOUS
<1>4. PICK m \in Bad : \A x \in Bad : ~(<<x, m>> \in R)
    BY <1>1, <1>3, WFMin
<1>5. m - 1 < m /\ m \in Nat /\ m - 1 \in Nat
    OBVIOUS
<1>6. <<m - 1, m>> \in R
    BY <1>2, <1>5
<1> QED
    BY <1>4, <1>6

\* The two loops: over the elements of a file, and over the numbers of a sum.
Turn(kind, a, held, i, k) ==
    IF kind = "elements" THEN ProcessElement(a, held[i], k) ELSE a + held[i]

\* The function a fold over N positions is defined by.
Turns(f, N, kind, held, base, k) ==
    [s \in SUBSET (1 .. N) |->
       IF s = {} THEN base ELSE Turn(kind, f[s \ {Max(s)}], held, Max(s), k)]

\* There is such a function.
LEMMA LoopExists ==
    ASSUME NEW N \in Nat, NEW kind, NEW held, NEW base, NEW k
    PROVE  \E f : f = Turns(f, N, kind, held, base, k)
<1> DEFINE Step(a, i) == Turn(kind, a, held, i, k)
<1>0. SUFFICES \E f : f = [s \in SUBSET (1 .. N) |->
                         IF s = {} THEN base ELSE Step(f[s \ {Max(s)}], Max(s))]
    BY DEF Turns
<1> HIDE DEF Step
<1> DEFINE Is(f, m) == f = [s \in SUBSET (1 .. m) |->
                         IF s = {} THEN base ELSE Step(f[s \ {Max(s)}], Max(s))]
<1>1. \E f : Is(f, 0)
    <2> DEFINE g == [s \in SUBSET (1 .. 0) |-> base]
    <2>1. \A s \in SUBSET (1 .. 0) : s = {}
        OBVIOUS
    <2>2. Is(g, 0)
        BY <2>1
    <2> QED
        BY <2>2
<1>2. ASSUME NEW m \in Nat, NEW f, Is(f, m) PROVE \E g : Is(g, m + 1)
    <2> DEFINE A == SUBSET (1 .. m)
               B == SUBSET (1 .. m + 1)
               g == [s \in B |-> IF m + 1 \in s THEN Step(f[s \ {m + 1}], m + 1) ELSE f[s]]
               h == [s \in B |-> IF s = {} THEN base ELSE Step(g[s \ {Max(s)}], Max(s))]
    <2>1. \A s \in B : m + 1 \notin s => s \in A
        OBVIOUS
    <2>2. \A s \in A : s \in B /\ m + 1 \notin s
        OBVIOUS
    <2>3. \A s \in A : g[s] = f[s]
        BY <2>2
    <2>4. ASSUME NEW s \in B PROVE g[s] = h[s]
        <3>1. CASE m + 1 \in s
            <4>1. Max(s) = m + 1
                BY <3>1, LastOfAll
            <4>2. s \ {m + 1} \in A
                BY <2>1
            <4>3. g[s \ {m + 1}] = f[s \ {m + 1}]
                BY <2>3, <4>2
            <4> HIDE DEF A
            <4> QED
                BY <3>1, <4>1, <4>3
        <3>2. CASE m + 1 \notin s
            <4>1. s \in A /\ s \ {Max(s)} \in A
                BY <2>1, <3>2
            <4>2. f[s] = IF s = {} THEN base ELSE Step(f[s \ {Max(s)}], Max(s))
                BY <4>1, <1>2
            <4>3. g[s] = f[s] /\ g[s \ {Max(s)}] = f[s \ {Max(s)}]
                BY <4>1, <2>3
            <4> HIDE DEF g
            <4> QED
                BY <4>2, <4>3
        <3> QED
            BY <3>1, <3>2
    <2>5. g = h
        BY <2>4
    <2>6. Is(g, m + 1)
        <3> HIDE DEF g
        <3> QED
            BY <2>5
    <2> QED
        BY <2>6
<1> HIDE DEF Is
<1> DEFINE Bad == {m \in Nat : ~\E f : Is(f, m)}
<1>3. ASSUME NEW m \in Bad PROVE m # 0 /\ m - 1 \in Bad
    <2>1. m \in Nat /\ m # 0 /\ m - 1 \in Nat
        BY <1>1
    <2>2. ASSUME NEW f, Is(f, m - 1) PROVE FALSE
        <3>1. \E g : Is(g, (m - 1) + 1)
            BY <1>2, <2>1, <2>2
        <3>2. (m - 1) + 1 = m
            BY <2>1
        <3> QED
            BY <3>1, <3>2
    <2> QED
        BY <2>1, <2>2
<1>4. Bad \subseteq Nat
    OBVIOUS
<1> HIDE DEF Bad
<1>5. Bad = {}
    BY <1>3, <1>4, NoLeast
<1> USE DEF Bad
<1>6. \E f : Is(f, N)
    BY <1>5
<1> QED
    BY <1>6 DEF Is


\* It goes from one position to the next.
LEMMA LoopRuns ==
    ASSUME NEW N \in Nat, NEW kind, NEW held, NEW base, NEW k, NEW f,
           f = Turns(f, N, kind, held, base, k)
    PROVE  /\ f[1 .. 0] = base
           /\ \A n \in 1 .. N : f[1 .. n] = Turn(kind, f[1 .. n - 1], held, n, k)
<1>1. f[1 .. 0] = base
    <2>1. 1 .. 0 = {} /\ {} \in SUBSET (1 .. N)
        OBVIOUS
    <2> QED
        BY <2>1 DEF Turns
<1>2. ASSUME NEW n \in 1 .. N PROVE f[1 .. n] = Turn(kind, f[1 .. n - 1], held, n, k)
    <2> DEFINE s == 1 .. n
    <2>1. s \in SUBSET (1 .. N) /\ s # {}
        OBVIOUS
    <2>2. Max(s) = n
        <3>1. n - 1 \in Nat /\ n = (n - 1) + 1 /\ n \in 1 .. n
            OBVIOUS
        <3>2. s \in SUBSET (1 .. (n - 1) + 1) /\ (n - 1) + 1 \in s
            BY <3>1
        <3> HIDE DEF s
        <3> QED
            BY <3>1, <3>2, LastOfAll
    <2>3. s \ {n} = 1 .. n - 1
        OBVIOUS
    <2> HIDE DEF s
    <2>4. f[s] = Turn(kind, f[s \ {Max(s)}], held, Max(s), k)
        BY <2>1 DEF Turns
    <2> QED
        BY <2>2, <2>3, <2>4 DEF s
<1> QED
    BY <1>1, <1>2

\* The loop of Analyze (analyzer.go:110).
Looped(base, elements, k) ==
    FoldLeft(LAMBDA sofar, elem : ProcessElement(sofar, elem, k), base, elements)

\* What the loop over the elements has after each of them.
LEMMA Accumulates ==
    ASSUME NEW N \in Nat, NEW elements, DOMAIN elements = 1 .. N, NEW base, NEW k
    PROVE  \E run :
             /\ run[0] = base
             /\ \A n \in 1 .. N : run[n] = ProcessElement(run[n - 1], elements[n], k)
             /\ Looped(base, elements, k) = run[N]
<1> DEFINE Body(f) == [s \in SUBSET (1 .. N) |->
                         IF s = {} THEN base
                         ELSE ProcessElement(f[s \ {Max(s)}], elements[Max(s)], k)]
           f == CHOOSE f : f = Body(f)
           run == [n \in 0 .. N |-> f[1 .. n]]
<1>2. \E g : g = Body(g)
    <2> DEFINE kind == "elements"
    <2> HIDE DEF kind
    <2>1. PICK g : g = Turns(g, N, kind, elements, base, k)
        BY LoopExists
    <2>2. g = Body(g)
        BY <2>1 DEF kind, Turn, Turns
    <2> QED
        BY <2>2
<1>3. f = Body(f)
    <2> HIDE DEF Body
    <2> QED
        BY <1>2
<1>4. /\ f[1 .. 0] = base
      /\ \A n \in 1 .. N : f[1 .. n] = Turn("elements", f[1 .. n - 1], elements, n, k)
    <2> DEFINE kind == "elements"
    <2> HIDE DEF kind
    <2>1. f = Turns(f, N, kind, elements, base, k)
        <3> HIDE DEF f
        <3> QED
            BY <1>3 DEF Turn, Turns, kind
    <2> HIDE DEF f
    <2>2. f[1 .. 0] = base
        BY <2>1, LoopRuns
    <2>3. \A n \in 1 .. N : f[1 .. n] = Turn(kind, f[1 .. n - 1], elements, n, k)
        BY <2>1, LoopRuns
    <2> QED
        BY <2>2, <2>3 DEF kind
<1>5. Looped(base, elements, k) = f[1 .. N]
    BY DEF Looped, FoldLeft, MapThenFoldSet
<1> HIDE DEF f
<1>6. run[0] = base /\ run[N] = f[1 .. N]
    BY <1>4
<1>7. ASSUME NEW n \in 1 .. N PROVE run[n] = ProcessElement(run[n - 1], elements[n], k)
    <2>1. n \in 0 .. N /\ n - 1 \in 0 .. N
        OBVIOUS
    <2>2. run[n] = f[1 .. n] /\ run[n - 1] = f[1 .. n - 1]
        BY <2>1
    <2> HIDE DEF run
    <2> QED
        BY <2>2, <1>4 DEF Turn
<1> HIDE DEF run
<1> QED
    BY <1>5, <1>6, <1>7


\* The same of a sum.
LEMMA SumRuns ==
    ASSUME NEW N \in Nat, NEW numbers, DOMAIN numbers = 1 .. N
    PROVE  \E run : /\ run[0] = 0
                    /\ \A n \in 1 .. N : run[n] = run[n - 1] + numbers[n]
                    /\ Sum(numbers) = run[N]
<1> DEFINE Body(f) == [s \in SUBSET (1 .. N) |->
                         IF s = {} THEN 0 ELSE f[s \ {Max(s)}] + numbers[Max(s)]]
           f == CHOOSE f : f = Body(f)
           run == [n \in 0 .. N |-> f[1 .. n]]
           kind == "numbers"
           base == 0
           none == {}
<1> HIDE DEF kind, base, none
<1>1. \A a, i : Turn(kind, a, numbers, i, none) = a + numbers[i]
    BY DEF Turn, kind
<1>2. f = Body(f)
    <2>1. PICK g : g = Turns(g, N, kind, numbers, base, none)
        BY LoopExists
    <2>2. g = Body(g)
        BY <2>1, <1>1 DEF Turns, base
    <2> HIDE DEF Body
    <2> QED
        BY <2>2
<1>3. f = Turns(f, N, kind, numbers, base, none)
    <2> HIDE DEF f
    <2> QED
        BY <1>1, <1>2 DEF Turns, base
<1>4. Sum(numbers) = f[1 .. N]
    BY DEF Sum, FoldLeft, MapThenFoldSet
<1> HIDE DEF f
<1>5. f[1 .. 0] = 0
    BY <1>3, LoopRuns DEF base
<1>6. \A n \in 1 .. N : f[1 .. n] = Turn(kind, f[1 .. n - 1], numbers, n, none)
    BY <1>3, LoopRuns
<1>7. run[0] = 0 /\ run[N] = f[1 .. N]
    BY <1>5
<1>8. ASSUME NEW n \in 1 .. N PROVE run[n] = run[n - 1] + numbers[n]
    <2>1. n \in 0 .. N /\ n - 1 \in 0 .. N
        OBVIOUS
    <2>2. run[n] = f[1 .. n] /\ run[n - 1] = f[1 .. n - 1]
        BY <2>1
    <2> HIDE DEF run
    <2> QED
        BY <2>2, <1>1, <1>6
<1> HIDE DEF run
<1> QED
    BY <1>4, <1>7, <1>8

\* Whatever grows with each number as the sum does ends as the sum does.
LEMMA SumIs ==
    ASSUME NEW N \in Nat, NEW numbers, DOMAIN numbers = 1 .. N, NEW total,
           total[0] = 0, \A n \in 1 .. N : total[n] = total[n - 1] + numbers[n]
    PROVE  Sum(numbers) = total[N]
<1>1. PICK run : /\ run[0] = 0
                 /\ \A n \in 1 .. N : run[n] = run[n - 1] + numbers[n]
                 /\ Sum(numbers) = run[N]
    BY SumRuns
<1> DEFINE Bad == {n \in 0 .. N : run[n] # total[n]}
<1>2. ASSUME NEW n \in Bad PROVE n # 0 /\ n - 1 \in Bad
    <2>1. n # 0
        BY <1>1
    <2>2. n \in 1 .. N /\ n - 1 \in 0 .. N
        BY <2>1
    <2>3. run[n] = run[n - 1] + numbers[n] /\ total[n] = total[n - 1] + numbers[n]
        BY <1>1, <2>2
    <2> QED
        BY <2>1, <2>2, <2>3
<1>3. Bad \subseteq Nat
    OBVIOUS
<1> HIDE DEF Bad
<1>4. Bad = {}
    BY <1>2, <1>3, NoLeast
<1>5. N \notin Bad
    BY <1>4
<1> QED
    BY <1>1, <1>5 DEF Bad

\* Smaller numbers, none below zero, have a smaller sum.
LEMMA SumAtMost ==
    ASSUME NEW N \in Nat, NEW numbers, DOMAIN numbers = 1 .. N, NEW more, NEW total,
           \A n \in 1 .. N : numbers[n] \in Nat /\ more[n] \in Nat /\ numbers[n] <= more[n],
           total[0] = 0, \A n \in 1 .. N : total[n] = total[n - 1] + more[n]
    PROVE  Sum(numbers) <= total[N]
<1>1. PICK run : /\ run[0] = 0
                 /\ \A n \in 1 .. N : run[n] = run[n - 1] + numbers[n]
                 /\ Sum(numbers) = run[N]
    BY SumRuns
<1> DEFINE Bad == {n \in 0 .. N : ~(run[n] \in Nat /\ total[n] \in Nat /\ run[n] <= total[n])}
<1>2. ASSUME NEW n \in Bad PROVE n # 0 /\ n - 1 \in Bad
    <2>1. n # 0
        BY <1>1
    <2>2. n \in 1 .. N /\ n - 1 \in 0 .. N
        BY <2>1
    <2>3. run[n] = run[n - 1] + numbers[n] /\ total[n] = total[n - 1] + more[n]
        BY <1>1, <2>2
    <2>4. numbers[n] \in Nat /\ more[n] \in Nat /\ numbers[n] <= more[n]
        BY <2>2
    <2>5. ASSUME n - 1 \notin Bad PROVE FALSE
        <3>1. run[n - 1] \in Nat /\ total[n - 1] \in Nat /\ run[n - 1] <= total[n - 1]
            BY <2>2, <2>5
        <3>2. \A a, b, c, d \in Nat : a <= b /\ c <= d =>
                a + c \in Nat /\ b + d \in Nat /\ a + c <= b + d
            OBVIOUS
        <3>3. /\ run[n - 1] + numbers[n] \in Nat /\ total[n - 1] + more[n] \in Nat
              /\ run[n - 1] + numbers[n] <= total[n - 1] + more[n]
            BY <2>4, <3>1, <3>2
        <3>4. run[n] \in Nat /\ total[n] \in Nat /\ run[n] <= total[n]
            BY <2>3, <3>3
        <3> QED
            BY <3>4
    <2> QED
        BY <2>1, <2>5
<1>3. Bad \subseteq Nat
    OBVIOUS
<1> HIDE DEF Bad
<1>4. Bad = {}
    BY <1>2, <1>3, NoLeast
<1>5. N \notin Bad
    BY <1>4
<1> QED
    BY <1>1, <1>5 DEF Bad


\* An element's only category tells its first operation.
LEMMA CategoryTells ==
    ASSUME NEW elem
    PROVE  LET class == Classify(elem)
           IN  /\ class.category = "cut" <=> class.cut
               /\ class.category = "vector" <=> class.vector
               /\ class.category = "raster" => class.raster
               /\ class.category = "ignored" <=> ~(class.cut \/ class.vector \/ class.raster)
<1> DEFINE class == Classify(elem)
           cut == Matches(GetColorAttribute(elem.attrs, "stroke"), Red)
           vector == ~cut /\ Matches(GetColorAttribute(elem.attrs, "stroke"), Blue)
           raster == Matches(GetColorAttribute(elem.attrs, "fill"), Black)
<1>1. class = [cut |-> cut, vector |-> vector, raster |-> raster,
               category |-> PrimaryCategory(cut, vector, raster)]
    BY DEF Classify
<1>2. ~(cut /\ vector)
    OBVIOUS
<1> HIDE DEF class, cut, vector, raster
<1>3. /\ class.cut = cut /\ class.vector = vector /\ class.raster = raster
      /\ class.category = PrimaryCategory(cut, vector, raster)
    BY <1>1
<1> QED
    BY <1>2, <1>3 DEF class, PrimaryCategory

\* The elements read are a finite sequence.
LEMMA ElementsAreFinite ==
    ASSUME NEW elements, NEW n \in Nat, DOMAIN elements = 1 .. n
    PROVE  \E N \in Nat : DOMAIN ExtractElements(elements) = 1 .. N
<1> DEFINE found == {i \in DOMAIN elements : /\ elements[i].type \in Range(ElementTypes)
                                             /\ DOMAIN elements[i].attrs # {}}
<1>1. IsFiniteSet(1 .. n)
    BY FS_Interval
<1>2. IsFiniteSet(found)
    BY <1>1, FS_Subset
<1>3. Cardinality(found) \in Nat
    BY <1>2, FS_CardinalityType
<1>4. DOMAIN ExtractElements(elements) = 1 .. Cardinality(found)
    BY DEF ExtractElements
<1> QED
    BY <1>3, <1>4

\* The parts of an analysis under way that an element may add to.
TotalsFields ==
    {"elements", "cutLength", "cutCount", "vectorLength", "vectorCount", "rasterArea",
     "rasterCount", "ignoredCount", "bounds", "boundsInit"}

\* What processing an element does to the rows and to the totals.
LEMMA ElementAdds ==
    ASSUME NEW result, NEW elem, NEW k, TotalsFields \subseteq DOMAIN result
    PROVE  LET class == Classify(elem)
               geom == CalculateElement(elem, k)
               next == ProcessElement(result, elem, k)
           IN  /\ DOMAIN next = DOMAIN result
               /\ next.elements = Append(result.elements, [class |-> class, geom |-> geom])
               /\ next.cutLength = result.cutLength + If(class.cut, geom.length)
               /\ next.cutCount = result.cutCount + If(class.cut, 1)
               /\ next.vectorLength = result.vectorLength + If(class.vector, geom.length)
               /\ next.vectorCount = result.vectorCount + If(class.vector, 1)
               /\ next.rasterArea = result.rasterArea + If(class.raster, geom.area)
               /\ next.rasterCount = result.rasterCount + If(class.raster, 1)
               /\ next.ignoredCount =
                    result.ignoredCount + If(~(class.cut \/ class.vector \/ class.raster), 1)
<1> DEFINE class == Classify(elem)
           geom == CalculateElement(elem, k)
           mid == Aggregated(result, class, geom)
           next == ProcessElement(result, elem, k)
<1>1. /\ DOMAIN mid = DOMAIN result
      /\ mid.elements = Append(result.elements, [class |-> class, geom |-> geom])
      /\ mid.cutLength = result.cutLength + If(class.cut, geom.length)
      /\ mid.cutCount = result.cutCount + If(class.cut, 1)
      /\ mid.vectorLength = result.vectorLength + If(class.vector, geom.length)
      /\ mid.vectorCount = result.vectorCount + If(class.vector, 1)
      /\ mid.rasterArea = result.rasterArea + If(class.raster, geom.area)
      /\ mid.rasterCount = result.rasterCount + If(class.raster, 1)
      /\ mid.ignoredCount =
           result.ignoredCount + If(~(class.cut \/ class.vector \/ class.raster), 1)
    <2> HIDE DEF class, geom
    <2> QED
        BY DEF Aggregated, TotalsFields
<1>2. /\ DOMAIN next = DOMAIN mid
      /\ next.elements = mid.elements
      /\ next.cutLength = mid.cutLength /\ next.cutCount = mid.cutCount
      /\ next.vectorLength = mid.vectorLength /\ next.vectorCount = mid.vectorCount
      /\ next.rasterArea = mid.rasterArea /\ next.rasterCount = mid.rasterCount
      /\ next.ignoredCount = mid.ignoredCount
    <2>1. next = [mid EXCEPT
                    !.bounds = IF ~HasExtent(geom.bounds) THEN @
                               ELSE IF result.boundsInit THEN Union(@, geom.bounds)
                                    ELSE geom.bounds,
                    !.boundsInit = @ \/ HasExtent(geom.bounds)]
        BY DEF ProcessElement
    <2> HIDE DEF class, geom, mid, next
    <2> QED
        BY <1>1, <2>1 DEF TotalsFields
<1> HIDE DEF mid, next
<1> QED
    BY <1>1, <1>2 DEF next


\* What Aggregated appends.
Row(elem, k) == [class |-> Classify(elem), geom |-> CalculateElement(elem, k)]

RowsOf(elements, n, k) == [i \in 1 .. n |-> Row(elements[i], k)]

Runs(run, N, base, elements, k) ==
    /\ run[0] = base
    /\ \A n \in 1 .. N : run[n] = ProcessElement(run[n - 1], elements[n], k)

\* After n elements there are n rows, the n-th being of the n-th element.
LEMMA RowsSoFar ==
    ASSUME NEW N \in Nat, NEW elements, NEW k, NEW parsed, NEW run,
           Runs(run, N, Start(parsed), elements, k)
    PROVE  \A n \in 0 .. N : /\ DOMAIN run[n] = DOMAIN Start(parsed)
                             /\ run[n].elements = RowsOf(elements, n, k)
<1> DEFINE Good(n) == /\ DOMAIN run[n] = DOMAIN Start(parsed)
                      /\ run[n].elements = [i \in 1 .. n |-> Row(elements[i], k)]
           Bad == {n \in 0 .. N : ~Good(n)}
<1>1. Good(0)
    BY DEF Start, Runs
<1>2. ASSUME NEW n \in Bad PROVE n # 0 /\ n - 1 \in Bad
    <2>1. n # 0
        BY <1>1
    <2>2. n \in 1 .. N /\ n - 1 \in 0 .. N /\ n - 1 \in Nat /\ n - 1 + 1 = n
        BY <2>1
    <2>3. run[n] = ProcessElement(run[n - 1], elements[n], k)
        BY <2>2 DEF Runs
    <2>4. ASSUME Good(n - 1) PROVE Good(n)
        <3> DEFINE elem == elements[n]
                   rows == [i \in 1 .. n - 1 |-> Row(elements[i], k)]
                   result == run[n - 1]
        <3>1. TotalsFields \subseteq DOMAIN result
            BY <2>4 DEF Start, TotalsFields
        <3>2. result.elements = rows
            BY <2>4
        <3> HIDE DEF elem, result
        <3>3. DOMAIN ProcessElement(result, elem, k) = DOMAIN result
            BY DEF ProcessElement, Aggregated
        <3>4. ProcessElement(result, elem, k).elements = Append(result.elements, Row(elem, k))
            BY <3>1, ElementAdds DEF Row
        <3>5. Append(rows, Row(elem, k)) = [i \in 1 .. n |-> Row(elements[i], k)]
            <4> DEFINE S == {Row(elements[i], k) : i \in 1 .. N}
            <4>1. rows \in Seq(S) /\ Len(rows) = n - 1
                <5>1. \A i \in 1 .. n - 1 : Row(elements[i], k) \in S
                    BY <2>2
                <5> HIDE DEF S
                <5> DEFINE m == n - 1
                <5>2. m \in Nat
                    BY <2>2
                <5>3. rows = [i \in 1 .. m |-> Row(elements[i], k)]
                    OBVIOUS
                <5> HIDE DEF rows, m
                <5>4. rows \in [1 .. m -> S]
                    BY <5>1, <5>3 DEF m
                <5>5. rows \in Seq(S) /\ Len(rows) = m
                    BY <5>2, <5>4
                <5> QED
                    BY <5>5 DEF m
            <4>2. Row(elem, k) \in S
                BY <2>2 DEF elem
            <4> HIDE DEF S
            <4> DEFINE a == Append(rows, Row(elem, k))
            <4>3. a \in Seq(S) /\ Len(a) = n
                BY <4>1, <4>2, <2>2
            <4>4. DOMAIN a = 1 .. n
                BY <4>3, <2>2
            <4>5. \A i \in 1 .. n : a[i] = Row(elements[i], k)
                <5>1. a[n] = Row(elem, k)
                    BY <4>1, <4>2, <2>2
                <5>2. ASSUME NEW i \in 1 .. n - 1 PROVE a[i] = Row(elements[i], k)
                    <6>1. a[i] = rows[i]
                        BY <4>1, <4>2, <2>2
                    <6> QED
                        BY <6>1
                <5> HIDE DEF a
                <5>3. \A i \in 1 .. n : i = n \/ i \in 1 .. n - 1
                    BY <2>2
                <5> QED
                    BY <5>1, <5>2, <5>3 DEF elem
            <4> HIDE DEF rows
            <4>6. a = [i \in 1 .. n |-> a[i]]
                <5>1. a \in [1 .. n -> S]
                    BY <4>3, LenProperties
                <5> HIDE DEF a
                <5> QED
                    BY <5>1
            <4> HIDE DEF a
            <4>7. [i \in 1 .. n |-> a[i]] = [i \in 1 .. n |-> Row(elements[i], k)]
                BY <4>5
            <4> QED
                BY <4>6, <4>7 DEF a
        <3> HIDE DEF rows
        <3> QED
            BY <2>3, <2>4, <3>2, <3>3, <3>4, <3>5 DEF elem, result
    <2> HIDE DEF Good
    <2> QED
        BY <2>1, <2>2, <2>4
<1>3. Bad \subseteq Nat
    OBVIOUS
<1> HIDE DEF Bad
<1>4. Bad = {}
    BY <1>2, <1>3, NoLeast
<1> QED
    BY <1>4 DEF Bad, RowsOf



\* Each row of an analysis tells of its element, and each total is the last of
\* what the loop had of it.
Counted == {"cutLength", "cutCount", "vectorLength", "vectorCount", "rasterArea",
            "rasterCount", "ignoredCount"}

Tallied(a, N, told, run) ==
    /\ N \in Nat
    /\ \A m \in 1 .. N : \E elem : told[m].class = Classify(elem)
    /\ DOMAIN a.elements = 1 .. N
    /\ \A m \in 1 .. N : /\ a.elements[m].category = told[m].class.category
                         /\ a.elements[m].geom = told[m].geom
    /\ \A field \in Counted : a[field] = run[N][field] /\ run[0][field] = 0
    /\ \A m \in 1 .. N :
         LET class == told[m].class
             geom == told[m].geom
         IN  /\ run[m].cutLength = run[m - 1].cutLength + If(class.cut, geom.length)
             /\ run[m].cutCount = run[m - 1].cutCount + If(class.cut, 1)
             /\ run[m].vectorLength = run[m - 1].vectorLength + If(class.vector, geom.length)
             /\ run[m].vectorCount = run[m - 1].vectorCount + If(class.vector, 1)
             /\ run[m].rasterArea = run[m - 1].rasterArea + If(class.raster, geom.area)
             /\ run[m].rasterCount = run[m - 1].rasterCount + If(class.raster, 1)
             /\ run[m].ignoredCount =
                  run[m - 1].ignoredCount + If(~(class.cut \/ class.vector \/ class.raster), 1)

LEMMA AnalysisIs ==
    ASSUME NEW file, NEW n \in Nat, DOMAIN file.elements = 1 .. n
    PROVE  \E N, told, run : Tallied(ToModel(Analyze(file)), N, told, run)
<1> DEFINE parsed == Parse(file)
           elements == parsed.elements
           k == GetScaleFactor(parsed)
           result == Looped(Start(parsed), elements, k)
           a == ToModel(Analyze(file))
<1>1. elements = ExtractElements(file.elements)
    BY DEF Parse
<1>2. Analyze(file) = [result EXCEPT !.warnings = IF NothingUsable(result)
                           THEN @ \cup {"No elements with standard colors"} ELSE @]
    BY DEF Analyze, Looped
<1> HIDE DEF parsed, elements, k
<1>3. PICK N \in Nat : DOMAIN elements = 1 .. N
    BY <1>1, ElementsAreFinite
<1> DEFINE base == Start(parsed)
<1>4. PICK run : /\ run[0] = base
                 /\ \A m \in 1 .. N : run[m] = ProcessElement(run[m - 1], elements[m], k)
                 /\ result = run[N]
    <2> HIDE DEF base
    <2>1. \E run :
             /\ run[0] = base
             /\ \A m \in 1 .. N : run[m] = ProcessElement(run[m - 1], elements[m], k)
             /\ Looped(base, elements, k) = run[N]
        BY <1>3, Accumulates
    <2> QED
        BY <2>1 DEF base
<1>5. \A m \in 0 .. N : /\ DOMAIN run[m] = DOMAIN Start(parsed)
                        /\ run[m].elements = RowsOf(elements, m, k)
    <2>1. run[0] = Start(parsed)
        BY <1>4
    <2>2. \A m \in 1 .. N : run[m] = ProcessElement(run[m - 1], elements[m], k)
        BY <1>4
    <2> DEFINE from == Start(parsed)
    <2>3. Runs(run, N, from, elements, k)
        BY <2>1, <2>2 DEF Runs
    <2> QED
        BY <2>3, RowsSoFar
<1> HIDE DEF result
<1> DEFINE told == RowsOf(elements, N, k)
           Class(m) == told[m].class
           Geom(m) == told[m].geom
<1>6. \A m \in 1 .. N : /\ Class(m) = Classify(elements[m])
                       /\ Geom(m) = CalculateElement(elements[m], k)
    BY DEF Row, RowsOf
<1>7. /\ DOMAIN result = DOMAIN Start(parsed)
      /\ result.elements = told
    BY <1>4, <1>5
<1>8. /\ Analyze(file).elements = told
      /\ \A field \in Counted :
            Analyze(file)[field] = result[field]
    <2> HIDE DEF told
    <2> QED
        BY <1>2, <1>7 DEF Start, Counted
<1>9. /\ a.elements = [i \in DOMAIN Analyze(file).elements |->
                          [category |-> Analyze(file).elements[i].class.category,
                           geom |-> Analyze(file).elements[i].geom]]
      /\ \A field \in Counted :
            a[field] = Analyze(file)[field]
    BY DEF ToModel, Counted
<1> HIDE DEF a
<1>10. /\ DOMAIN a.elements = 1 .. N
       /\ \A m \in 1 .. N : /\ a.elements[m].category = Class(m).category
                            /\ a.elements[m].geom = Geom(m)
    <2>1. a.elements = [i \in 1 .. N |-> [category |-> Class(i).category, geom |-> Geom(i)]]
        <3>1. DOMAIN told = 1 .. N
            BY DEF RowsOf
        <3> HIDE DEF told
        <3> QED
            BY <3>1, <1>8, <1>9
    <2> HIDE DEF told
    <2> QED
        BY <2>1
<1> HIDE DEF told
<1>11. \A field \in Counted :
          a[field] = run[N][field]
    BY <1>4, <1>8, <1>9
<1>12. \A field \in Counted :
          run[0][field] = 0
    BY <1>4 DEF Start, Counted
<1>13. ASSUME NEW m \in 1 .. N
       PROVE  /\ run[m].cutLength = run[m - 1].cutLength + If(Class(m).cut, Geom(m).length)
              /\ run[m].cutCount = run[m - 1].cutCount + If(Class(m).cut, 1)
              /\ run[m].vectorLength =
                   run[m - 1].vectorLength + If(Class(m).vector, Geom(m).length)
              /\ run[m].vectorCount = run[m - 1].vectorCount + If(Class(m).vector, 1)
              /\ run[m].rasterArea =
                   run[m - 1].rasterArea + If(Class(m).raster, Geom(m).area)
              /\ run[m].rasterCount = run[m - 1].rasterCount + If(Class(m).raster, 1)
              /\ run[m].ignoredCount =
                   run[m - 1].ignoredCount
                     + If(~(Class(m).cut \/ Class(m).vector \/ Class(m).raster), 1)
    <2> DEFINE was == run[m - 1]
               elem == elements[m]
    <2>1. m - 1 \in 0 .. N
        OBVIOUS
    <2>2. DOMAIN was = DOMAIN Start(parsed)
        BY <2>1, <1>5
    <2>3. TotalsFields \subseteq DOMAIN was
        BY <2>2 DEF Start, TotalsFields
    <2>4. run[m] = ProcessElement(was, elem, k)
        BY <1>4
    <2>5. Class(m) = Classify(elem) /\ Geom(m) = CalculateElement(elem, k)
        BY <1>6
    <2> HIDE DEF was, elem
    <2>6. LET class == Classify(elem)
              geom == CalculateElement(elem, k)
              next == ProcessElement(was, elem, k)
          IN  /\ DOMAIN next = DOMAIN was
              /\ next.elements = Append(was.elements, [class |-> class, geom |-> geom])
              /\ next.cutLength = was.cutLength + If(class.cut, geom.length)
              /\ next.cutCount = was.cutCount + If(class.cut, 1)
              /\ next.vectorLength = was.vectorLength + If(class.vector, geom.length)
              /\ next.vectorCount = was.vectorCount + If(class.vector, 1)
              /\ next.rasterArea = was.rasterArea + If(class.raster, geom.area)
              /\ next.rasterCount = was.rasterCount + If(class.raster, 1)
              /\ next.ignoredCount =
                   was.ignoredCount + If(~(class.cut \/ class.vector \/ class.raster), 1)
        BY <2>3, ElementAdds
    <2> QED
        BY <2>4, <2>5, <2>6 DEF was
<1>14. \A m \in 1 .. N : \E elem : Class(m) = Classify(elem)
    BY <1>6
<1>15. Tallied(a, N, told, run)
    BY <1>3, <1>10, <1>11, <1>12, <1>13, <1>14 DEF Tallied
<1> QED
    BY <1>15 DEF a


\* The rows add up to the totals, of the analysis of any file.
RowsTell(a) ==
    LET rows == a.elements
    IN  /\ Of(rows, "cut", Length) = a.cutLength
        /\ Of(rows, "vector", Length) = a.vectorLength
        /\ Of(rows, "cut", Each) = a.cutCount
        /\ Of(rows, "vector", Each) = a.vectorCount
        /\ Of(rows, "ignored", Each) = a.ignoredCount
        /\ Of(rows, "raster", Each) <= a.rasterCount
        /\ ((\A i \in DOMAIN rows : rows[i].geom.area \in Nat)
              => Of(rows, "raster", Area) <= a.rasterArea)

\* What RowsTellTotals says holds of the analysis of any file.
LEMMA AnalysisTells ==
    ASSUME NEW file, NEW n \in Nat, DOMAIN file.elements = 1 .. n
    PROVE  RowsTell(ToModel(Analyze(file)))
<1> DEFINE a == ToModel(Analyze(file))
           rows == a.elements
<1>1. PICK N, told, run : Tallied(a, N, told, run)
    BY AnalysisIs
<1> HIDE DEF a
<1>2. N \in Nat /\ DOMAIN rows = 1 .. N
    BY <1>1 DEF Tallied
<1>3. ASSUME NEW m \in 1 .. N
      PROVE  /\ rows[m].category = "cut" <=> told[m].class.cut
             /\ rows[m].category = "vector" <=> told[m].class.vector
             /\ rows[m].category = "raster" => told[m].class.raster
             /\ rows[m].category = "ignored"
                  <=> ~(told[m].class.cut \/ told[m].class.vector \/ told[m].class.raster)
             /\ rows[m].geom = told[m].geom
    <2>1. rows[m].category = told[m].class.category /\ rows[m].geom = told[m].geom
        BY <1>1 DEF Tallied
    <2>2. PICK elem : told[m].class = Classify(elem)
        BY <1>1 DEF Tallied
    <2>3. LET class == Classify(elem)
          IN  /\ class.category = "cut" <=> class.cut
              /\ class.category = "vector" <=> class.vector
              /\ class.category = "raster" => class.raster
              /\ class.category = "ignored" <=> ~(class.cut \/ class.vector \/ class.raster)
        BY CategoryTells
    <2> QED
        BY <2>1, <2>2, <2>3
<1>4. \A field \in Counted : a[field] = run[N][field] /\ run[0][field] = 0
    BY <1>1 DEF Tallied
<1>5. ASSUME NEW m \in 1 .. N
      PROVE  LET class == told[m].class
                 geom == told[m].geom
             IN  /\ run[m].cutLength = run[m - 1].cutLength + If(class.cut, geom.length)
                 /\ run[m].cutCount = run[m - 1].cutCount + If(class.cut, 1)
                 /\ run[m].vectorLength = run[m - 1].vectorLength + If(class.vector, geom.length)
                 /\ run[m].vectorCount = run[m - 1].vectorCount + If(class.vector, 1)
                 /\ run[m].rasterArea = run[m - 1].rasterArea + If(class.raster, geom.area)
                 /\ run[m].rasterCount = run[m - 1].rasterCount + If(class.raster, 1)
                 /\ run[m].ignoredCount =
                      run[m - 1].ignoredCount
                        + If(~(class.cut \/ class.vector \/ class.raster), 1)
    BY <1>1 DEF Tallied
<1> DEFINE Along(field) == [m \in 0 .. N |-> run[m][field]]
<1>6. ASSUME NEW field \in Counted
      PROVE  /\ Along(field)[0] = 0 /\ Along(field)[N] = a[field]
             /\ \A m \in 1 .. N : /\ Along(field)[m] = run[m][field]
                                  /\ Along(field)[m - 1] = run[m - 1][field]
    <2>1. 0 \in 0 .. N /\ N \in 0 .. N /\ \A m \in 1 .. N : m \in 0 .. N /\ m - 1 \in 0 .. N
        BY <1>2
    <2> QED
        BY <2>1, <1>4
<1> HIDE DEF Along, rows
<1>7. Of(rows, "cut", Length) = a.cutLength
    <2> DEFINE numbers == [m \in DOMAIN rows |-> If(rows[m].category = "cut", rows[m].geom.length)]
               total == Along("cutLength")
    <2>1. Of(rows, "cut", Length) = Sum(numbers)
        BY DEF Of, Length
    <2>2. DOMAIN numbers = 1 .. N
        BY <1>2
    <2>3. total[0] = 0 /\ total[N] = a.cutLength
        BY <1>6 DEF Counted
    <2>4. ASSUME NEW m \in 1 .. N PROVE total[m] = total[m - 1] + numbers[m]
        <3>1. numbers[m] = If(rows[m].category = "cut", rows[m].geom.length)
            BY <1>2
        <3>2. total[m] = run[m].cutLength /\ total[m - 1] = run[m - 1].cutLength
            BY <1>6 DEF Counted
        <3>3. run[m].cutLength = run[m - 1].cutLength + numbers[m]
            BY <1>3, <1>5, <3>1 DEF If
        <3> HIDE DEF numbers, total
        <3> QED
            BY <3>2, <3>3
    <2> HIDE DEF numbers, total
    <2>5. Sum(numbers) = total[N]
        BY <1>2, <2>2, <2>3, <2>4, SumIs
    <2> QED
        BY <2>1, <2>3, <2>5
<1>8. Of(rows, "vector", Length) = a.vectorLength
    <2> DEFINE numbers == [m \in DOMAIN rows |->
                             If(rows[m].category = "vector", rows[m].geom.length)]
               total == Along("vectorLength")
    <2>1. Of(rows, "vector", Length) = Sum(numbers)
        BY DEF Of, Length
    <2>2. DOMAIN numbers = 1 .. N
        BY <1>2
    <2>3. total[0] = 0 /\ total[N] = a.vectorLength
        BY <1>6 DEF Counted
    <2>4. ASSUME NEW m \in 1 .. N PROVE total[m] = total[m - 1] + numbers[m]
        <3>1. numbers[m] = If(rows[m].category = "vector", rows[m].geom.length)
            BY <1>2
        <3>2. total[m] = run[m].vectorLength /\ total[m - 1] = run[m - 1].vectorLength
            BY <1>6 DEF Counted
        <3>3. run[m].vectorLength = run[m - 1].vectorLength + numbers[m]
            BY <1>3, <1>5, <3>1 DEF If
        <3> HIDE DEF numbers, total
        <3> QED
            BY <3>2, <3>3
    <2> HIDE DEF numbers, total
    <2>5. Sum(numbers) = total[N]
        BY <1>2, <2>2, <2>3, <2>4, SumIs
    <2> QED
        BY <2>1, <2>3, <2>5
<1>9. Of(rows, "cut", Each) = a.cutCount
    <2> DEFINE numbers == [m \in DOMAIN rows |-> If(rows[m].category = "cut", 1)]
               total == Along("cutCount")
    <2>1. Of(rows, "cut", Each) = Sum(numbers)
        BY DEF Of, Each
    <2>2. DOMAIN numbers = 1 .. N
        BY <1>2
    <2>3. total[0] = 0 /\ total[N] = a.cutCount
        BY <1>6 DEF Counted
    <2>4. ASSUME NEW m \in 1 .. N PROVE total[m] = total[m - 1] + numbers[m]
        <3>1. numbers[m] = If(rows[m].category = "cut", 1)
            BY <1>2
        <3>2. total[m] = run[m].cutCount /\ total[m - 1] = run[m - 1].cutCount
            BY <1>6 DEF Counted
        <3>3. run[m].cutCount = run[m - 1].cutCount + numbers[m]
            BY <1>3, <1>5, <3>1 DEF If
        <3> HIDE DEF numbers, total
        <3> QED
            BY <3>2, <3>3
    <2> HIDE DEF numbers, total
    <2>5. Sum(numbers) = total[N]
        BY <1>2, <2>2, <2>3, <2>4, SumIs
    <2> QED
        BY <2>1, <2>3, <2>5
<1>10. Of(rows, "vector", Each) = a.vectorCount
    <2> DEFINE numbers == [m \in DOMAIN rows |-> If(rows[m].category = "vector", 1)]
               total == Along("vectorCount")
    <2>1. Of(rows, "vector", Each) = Sum(numbers)
        BY DEF Of, Each
    <2>2. DOMAIN numbers = 1 .. N
        BY <1>2
    <2>3. total[0] = 0 /\ total[N] = a.vectorCount
        BY <1>6 DEF Counted
    <2>4. ASSUME NEW m \in 1 .. N PROVE total[m] = total[m - 1] + numbers[m]
        <3>1. numbers[m] = If(rows[m].category = "vector", 1)
            BY <1>2
        <3>2. total[m] = run[m].vectorCount /\ total[m - 1] = run[m - 1].vectorCount
            BY <1>6 DEF Counted
        <3>3. run[m].vectorCount = run[m - 1].vectorCount + numbers[m]
            BY <1>3, <1>5, <3>1 DEF If
        <3> HIDE DEF numbers, total
        <3> QED
            BY <3>2, <3>3
    <2> HIDE DEF numbers, total
    <2>5. Sum(numbers) = total[N]
        BY <1>2, <2>2, <2>3, <2>4, SumIs
    <2> QED
        BY <2>1, <2>3, <2>5
<1>11. Of(rows, "ignored", Each) = a.ignoredCount
    <2> DEFINE numbers == [m \in DOMAIN rows |-> If(rows[m].category = "ignored", 1)]
               total == Along("ignoredCount")
    <2>1. Of(rows, "ignored", Each) = Sum(numbers)
        BY DEF Of, Each
    <2>2. DOMAIN numbers = 1 .. N
        BY <1>2
    <2>3. total[0] = 0 /\ total[N] = a.ignoredCount
        BY <1>6 DEF Counted
    <2>4. ASSUME NEW m \in 1 .. N PROVE total[m] = total[m - 1] + numbers[m]
        <3>1. numbers[m] = If(rows[m].category = "ignored", 1)
            BY <1>2
        <3>2. total[m] = run[m].ignoredCount /\ total[m - 1] = run[m - 1].ignoredCount
            BY <1>6 DEF Counted
        <3>3. run[m].ignoredCount = run[m - 1].ignoredCount + numbers[m]
            BY <1>3, <1>5, <3>1 DEF If
        <3> HIDE DEF numbers, total
        <3> QED
            BY <3>2, <3>3
    <2> HIDE DEF numbers, total
    <2>5. Sum(numbers) = total[N]
        BY <1>2, <2>2, <2>3, <2>4, SumIs
    <2> QED
        BY <2>1, <2>3, <2>5
<1>12. Of(rows, "raster", Each) <= a.rasterCount
    <2> DEFINE numbers == [m \in DOMAIN rows |-> If(rows[m].category = "raster", 1)]
               more == [m \in DOMAIN rows |-> If(told[m].class.raster, 1)]
               total == Along("rasterCount")
    <2>1. Of(rows, "raster", Each) = Sum(numbers)
        BY DEF Of, Each
    <2>2. DOMAIN numbers = 1 .. N
        BY <1>2
    <2>3. total[0] = 0 /\ total[N] = a.rasterCount
        BY <1>6 DEF Counted
    <2>4. ASSUME NEW m \in 1 .. N
          PROVE  /\ numbers[m] \in Nat /\ more[m] \in Nat /\ numbers[m] <= more[m]
                 /\ total[m] = total[m - 1] + more[m]
        <3>1. /\ numbers[m] = If(rows[m].category = "raster", 1)
              /\ more[m] = If(told[m].class.raster, 1)
            BY <1>2
        <3>2. total[m] = run[m].rasterCount /\ total[m - 1] = run[m - 1].rasterCount
            BY <1>6 DEF Counted
        <3>3. run[m].rasterCount = run[m - 1].rasterCount + more[m]
            BY <1>3, <1>5, <3>1 DEF If
        <3>4. numbers[m] \in Nat /\ more[m] \in Nat /\ numbers[m] <= more[m]
            BY <1>2, <1>3, <3>1 DEF If
        <3> HIDE DEF numbers, more, total
        <3> QED
            BY <3>2, <3>3, <3>4
    <2> HIDE DEF numbers, more, total
    <2>5. Sum(numbers) <= total[N]
        BY <1>2, <2>2, <2>3, <2>4, SumAtMost
    <2> QED
        BY <2>1, <2>3, <2>5
<1>13. ASSUME \A m \in DOMAIN rows : rows[m].geom.area \in Nat
       PROVE  Of(rows, "raster", Area) <= a.rasterArea
    <2> DEFINE numbers == [m \in DOMAIN rows |-> If(rows[m].category = "raster", rows[m].geom.area)]
               more == [m \in DOMAIN rows |-> If(told[m].class.raster, rows[m].geom.area)]
               total == Along("rasterArea")
    <2>1. Of(rows, "raster", Area) = Sum(numbers)
        BY DEF Of, Area
    <2>2. DOMAIN numbers = 1 .. N
        BY <1>2
    <2>3. total[0] = 0 /\ total[N] = a.rasterArea
        BY <1>6 DEF Counted
    <2>4. ASSUME NEW m \in 1 .. N
          PROVE  /\ numbers[m] \in Nat /\ more[m] \in Nat /\ numbers[m] <= more[m]
                 /\ total[m] = total[m - 1] + more[m]
        <3>1. /\ numbers[m] = If(rows[m].category = "raster", rows[m].geom.area)
              /\ more[m] = If(told[m].class.raster, rows[m].geom.area)
            BY <1>2
        <3>2. total[m] = run[m].rasterArea /\ total[m - 1] = run[m - 1].rasterArea
            BY <1>6 DEF Counted
        <3>3. run[m].rasterArea = run[m - 1].rasterArea + more[m]
            BY <1>3, <1>5, <3>1 DEF If
        <3>4. numbers[m] \in Nat /\ more[m] \in Nat /\ numbers[m] <= more[m]
            BY <1>2, <1>3, <3>1, <1>13 DEF If
        <3> HIDE DEF numbers, more, total
        <3> QED
            BY <3>2, <3>3, <3>4
    <2> HIDE DEF numbers, more, total
    <2>5. Sum(numbers) <= total[N]
        BY <1>2, <2>2, <2>3, <2>4, SumAtMost
    <2> QED
        BY <2>1, <2>3, <2>5
<1> QED
    BY <1>7, <1>8, <1>9, <1>10, <1>11, <1>12, <1>13 DEF RowsTell, rows, a

\* What is known of every file analysed: it was posted, and its analysis is the
\* one the engine makes of it.
AnalysisOf ==
    /\ svg \in Uploads
    /\ reply # "none" => analysis = ToModel(Analyze(svg.file))

(***************************************************************************)
(* Of every file whatever, the stored rows and the stored totals tell the  *)
(* same story (analyzer.go:110, 231).                                      *)
(***************************************************************************)
THEOREM RowsTellTotalsCorrect == SvgSpec => []RowsTellTotals
<1>1. SvgInit => AnalysisOf
    BY DEF SvgInit, AnalysisOf
<1>2. AnalysisOf /\ [SvgNext]_svgVars => AnalysisOf'
    <2> SUFFICES ASSUME AnalysisOf, [SvgNext]_svgVars PROVE AnalysisOf'
        OBVIOUS
    <2>1. CASE AnalyzeUpload
        BY <2>1 DEF AnalyzeUpload, AnalysisOf
    <2>2. CASE PostAgain
        <3>1. Original[svg.drawing] \in Uploads
            BY UploadsAssumption DEF AnalysisOf
        <3> QED
            BY <2>2, <3>1 DEF PostAgain, AnalysisOf
    <2>3. CASE UNCHANGED svgVars
        BY <2>3 DEF svgVars, AnalysisOf
    <2> QED
        BY <2>1, <2>2, <2>3 DEF SvgNext
<1>3. AnalysisOf => RowsTellTotals
    <2> SUFFICES ASSUME AnalysisOf, reply # "none" PROVE RowsTell(analysis)
        BY DEF RowsTell, RowsTellTotals
    <2> DEFINE file == svg.file
               n == Len(file.elements)
    <2>1. n \in Nat /\ DOMAIN file.elements = 1 .. n
        BY UploadsAssumption DEF AnalysisOf
    <2>2. analysis = ToModel(Analyze(file))
        BY DEF AnalysisOf
    <2> HIDE DEF file, n
    <2> QED
        BY <2>1, <2>2, AnalysisTells
<1> QED
    BY <1>1, <1>2, <1>3, PTL DEF SvgSpec

-----------------------------------------------------------------------------
(***************************************************************************)
(* A drawing posted again at another place, in shapes without curves to    *)
(* flatten: rectangles, circles, ellipses, lines and polygons.             *)
(***************************************************************************)

\* The attributes that say where an element is, those of its size, and those
\* it is classified by.
Across == [rect |-> {"x"}, circle |-> {"cx"}, ellipse |-> {"cx"}, line |-> {"x1", "x2"},
           polyline |-> {}, polygon |-> {}]
Down == [rect |-> {"y"}, circle |-> {"cy"}, ellipse |-> {"cy"}, line |-> {"y1", "y2"},
         polyline |-> {}, polygon |-> {}]
Sizes == {"width", "height", "r", "rx", "ry"}
Paints == {"stroke", "fill", "style"}

SameAttribute(e, f, name) ==
    /\ name \in DOMAIN e.attrs <=> name \in DOMAIN f.attrs
    /\ name \in DOMAIN e.attrs => f.attrs[name] = e.attrs[name]

Shifted(e, f, name, by) ==
    Num(e.attrs, name) \in Int /\ Num(f.attrs, name) = Num(e.attrs, name) + by

\* f is e, u further in the units of the file.
Moved(e, f, u) ==
    /\ e.type \in DOMAIN Across /\ f.type = e.type
    /\ \A name \in Across[e.type] : Shifted(e, f, name, u[1])
    /\ \A name \in Down[e.type] : Shifted(e, f, name, u[2])
    /\ \A name \in Sizes : Num(e.attrs, name) \in Int
    /\ \A name \in Sizes \cup Paints : SameAttribute(e, f, name)
    /\ LET p == List(e.attrs, "points")
           q == List(f.attrs, "points")
       IN  /\ p \in Seq(Int) /\ q \in Seq(Int) /\ Len(q) = Len(p)
           /\ \A i \in 1 .. Len(p) : q[i] = p[i] + u[2 - (i % 2)]

\* The ratio makes w of u.
Yields(u, w, ratio) ==
    ratio[1] \in Int /\ ratio[2] \in Nat \ {0} /\ u * ratio[1] = w * ratio[2]

\* u in the units of the file is v in millimetres.
Amounts(u, v, k) ==
    u \in Plane /\ v \in Plane /\ Yields(u[1], v[1], k.x) /\ Yields(u[2], v[2], k.y)

IsBox(b) == b \in [minX : Int, minY : Int, maxX : Int, maxY : Int]
ShiftedBox(b, v) == Box(b.minX + v[1], b.minY + v[2], b.maxX + v[1], b.maxY + v[2])

\* h has the measures of g, and its rectangle v further, if it has one.
Carried(g, h, v) ==
    /\ h.length = g.length /\ h.area = g.area
    /\ \/ IsBox(g.bounds) /\ h.bounds = ShiftedBox(g.bounds, v)
       \/ ~HasExtent(g.bounds) /\ ~HasExtent(h.bounds)

\* What a quotient rounded down is, between two multiples of the divisor.
LEMMA QuotientOf ==
    ASSUME NEW n \in Int, NEW d \in Nat \ {0}
    PROVE  n \div d \in Int /\ (n \div d) * d <= n /\ n < (n \div d) * d + d
OBVIOUS

\* There is one such quotient.
LEMMA OneQuotient ==
    ASSUME NEW q \in Int, NEW r \in Int, NEW d \in Nat \ {0}, NEW n \in Int,
           q * d <= n, n < q * d + d, r * d <= n, n < r * d + d
    PROVE  q = r
<1>1. \A a, b \in Int : a < b => a * d + d <= b * d
    <2> SUFFICES ASSUME NEW a \in Int, NEW b \in Int, a < b PROVE a * d + d <= b * d
        OBVIOUS
    <2>1. PICK c \in Nat : b = a + 1 + c
        <3>1. b - a - 1 \in Nat /\ b = a + 1 + (b - a - 1)
            OBVIOUS
        <3> QED
            BY <3>1
    <2>2. b * d = a * d + d + c * d
        BY <2>1
    <2>3. c * d \in Nat
        OBVIOUS
    <2> QED
        BY <2>2, <2>3
<1>2. ~(q < r)
    BY <1>1
<1>3. ~(r < q)
    BY <1>1
<1> QED
    BY <1>2, <1>3

\* A coordinate moved by whole millimetres is rounded to the same fraction.
LEMMA ScaleMoves ==
    ASSUME NEW n \in Int, NEW u \in Int, NEW w \in Int, NEW ratio, Yields(u, w, ratio)
    PROVE  Scale(n, ratio) \in Int /\ Scale(n + u, ratio) = Scale(n, ratio) + w
<1> DEFINE a == ratio[1]
           b == ratio[2]
           m == n * a
           q == m \div b
           s == m + w * b
           t == s \div b
<1>0. a \in Int /\ b \in Nat \ {0} /\ u * a = w * b
    BY DEF Yields
<1>2. Scale(n, ratio) = q /\ Scale(n + u, ratio) = ((n + u) * a) \div b
    BY DEF Scale
<1> HIDE DEF a, b
<1>1. m \in Int /\ (n + u) * a = m + w * b /\ w * b \in Int
    BY <1>0
<1>3. q \in Int /\ q * b <= m /\ m < q * b + b
    BY <1>0, <1>1, QuotientOf
<1>4. s \in Int
    BY <1>1
<1>5. t \in Int /\ t * b <= s /\ s < t * b + b
    BY <1>0, <1>4, QuotientOf
<1>6. (q + w) * b = q * b + w * b /\ q + w \in Int
    BY <1>0, <1>3
<1>7. (q + w) * b <= s /\ s < (q + w) * b + b
    BY <1>0, <1>1, <1>3, <1>6
<1>9. Scale(n + u, ratio) = t
    BY <1>1, <1>2
<1> HIDE DEF m, q, s, t
<1>8. t = q + w
    BY <1>0, <1>4, <1>5, <1>6, <1>7, OneQuotient
<1> QED
    BY <1>2, <1>3, <1>8, <1>9

\* The least and the greatest of some numbers.
LEMMA Extremes ==
    ASSUME NEW N \in Nat \ {0}, NEW f \in [1 .. N -> Int]
    PROVE  LET S == {f[i] : i \in 1 .. N}
           IN  /\ Min(S) \in S /\ \A y \in S : Min(S) <= y
               /\ Max(S) \in S /\ \A y \in S : Max(S) >= y
<1> DEFINE S == {f[i] : i \in 1 .. N}
           Ends(n) == \E a, b \in 1 .. n : \A i \in 1 .. n : f[a] <= f[i] /\ f[i] <= f[b]
           Bad == {n \in 1 .. N : ~Ends(n)}
<1>1. ASSUME NEW n \in Bad PROVE n # 0 /\ n - 1 \in Bad
    <2>1. n # 1
        BY <1>1
    <2>2. n \in 1 .. N /\ n - 1 \in 1 .. N
        BY <2>1
    <2>3. ASSUME NEW a \in 1 .. n - 1, NEW b \in 1 .. n - 1,
                 \A i \in 1 .. n - 1 : f[a] <= f[i] /\ f[i] <= f[b]
          PROVE  Ends(n)
        <3> DEFINE c == IF f[n] <= f[a] THEN n ELSE a
                   d == IF f[n] <= f[b] THEN b ELSE n
        <3>1. c \in 1 .. n /\ d \in 1 .. n
            BY <2>2
        <3>2. /\ f[a] \in Int /\ f[b] \in Int /\ f[n] \in Int
              /\ \A i \in 1 .. n : f[i] \in Int /\ (i = n \/ i \in 1 .. n - 1)
            BY <2>2
        <3>3. \A i \in 1 .. n : f[c] <= f[i] /\ f[i] <= f[d]
            BY <2>3, <3>2
        <3> HIDE DEF c, d
        <3> QED
            BY <3>1, <3>3
    <2>4. ~Ends(n)
        OBVIOUS
    <2>5. ~Ends(n - 1)
        BY <2>3, <2>4
    <2> HIDE DEF Ends
    <2> QED
        BY <2>2, <2>5
<1>2. Bad \subseteq Nat
    OBVIOUS
<1> HIDE DEF Bad
<1>3. Bad = {}
    BY <1>1, <1>2, NoLeast
<1>4. Ends(N)
    <2>1. N \in 1 .. N
        OBVIOUS
    <2> HIDE DEF Ends
    <2> QED
        BY <2>1, <1>3 DEF Bad
<1>5. PICK a \in 1 .. N, b \in 1 .. N : \A i \in 1 .. N : f[a] <= f[i] /\ f[i] <= f[b]
    BY <1>4
<1>6. f[a] \in S /\ f[b] \in S /\ \A y \in S : f[a] <= y /\ y <= f[b] /\ y \in Int
    BY <1>5
<1> HIDE DEF S
<1>7. f[a] \in Int /\ f[b] \in Int
    BY <1>6
<1>8. Min(S) \in S /\ \A y \in S : Min(S) <= y
    BY <1>6 DEF Min
<1>9. \A y \in S : f[b] >= y
    BY <1>6
<1>10. Max(S) \in S /\ \A y \in S : Max(S) >= y
    BY <1>6, <1>9 DEF Max
<1> QED
    BY <1>8, <1>10 DEF S

\* S has the numbers of f, and T the same moved by d.
Images(S, T, f, d, N) ==
    /\ S = {f[i] : i \in 1 .. N}
    /\ T = {f[i] + d : i \in 1 .. N}

\* The least and the greatest of numbers move with them.
LEMMA ExtremesMove ==
    ASSUME NEW N \in Nat \ {0}, NEW f \in [1 .. N -> Int], NEW d \in Int, NEW S, NEW T,
           Images(S, T, f, d, N)
    PROVE  /\ Min(S) \in Int /\ Min(T) = Min(S) + d
           /\ Max(S) \in Int /\ Max(T) = Max(S) + d
<1> DEFINE h == [i \in 1 .. N |-> f[i] + d]
<1>1. h \in [1 .. N -> Int]
    OBVIOUS
<1>2. /\ Min(S) \in S /\ \A y \in S : Min(S) <= y
      /\ Max(S) \in S /\ \A y \in S : Max(S) >= y
    <2>1. S = {f[i] : i \in 1 .. N}
        BY DEF Images
    <2> QED
        BY <2>1, Extremes
<1>3. /\ Min(T) \in T /\ \A y \in T : Min(T) <= y
      /\ Max(T) \in T /\ \A y \in T : Max(T) >= y
    <2>1. T = {h[i] : i \in 1 .. N}
        BY DEF Images
    <2> HIDE DEF h
    <2> QED
        BY <1>1, <2>1, Extremes
<1>4. /\ S \subseteq Int /\ T \subseteq Int
      /\ \A y \in S : y + d \in T
      /\ \A y \in T : y - d \in S
    BY DEF Images
<1>6. /\ Min(S) \in Int /\ Min(T) \in Int /\ Max(S) \in Int /\ Max(T) \in Int
      /\ Min(S) + d \in T /\ Min(T) - d \in S /\ Max(S) + d \in T /\ Max(T) - d \in S
    BY <1>2, <1>3, <1>4
<1>7. /\ Min(T) <= Min(S) + d /\ Min(S) <= Min(T) - d
      /\ Max(T) >= Max(S) + d /\ Max(S) >= Max(T) - d
    BY <1>2, <1>3, <1>6
<1>8. Min(T) = Min(S) + d /\ Max(T) = Max(S) + d
    <2>1. \A a, b, c, e \in Int :
            a <= b + d /\ b <= a - d /\ c >= e + d /\ e >= c - d => a = b + d /\ c = e + d
        OBVIOUS
    <2> QED
        BY <1>6, <1>7, <2>1
<1> QED
    BY <1>6, <1>8

\* Points, v further.
PointsMoved(p, q, N, v) ==
    /\ DOMAIN p = 1 .. N /\ DOMAIN q = 1 .. N
    /\ \A i \in 1 .. N : p[i][1] \in Int /\ p[i][2] \in Int /\ q[i] = Plus(p[i], v)

\* The rectangle of some points moves with them.
LEMMA BoundsMove ==
    ASSUME NEW N \in Nat \ {0}, NEW p, NEW q, NEW v \in Plane, PointsMoved(p, q, N, v)
    PROVE  IsBox(BoundsOf(p)) /\ BoundsOf(q) = ShiftedBox(BoundsOf(p), v)
<1> DEFINE X == [i \in 1 .. N |-> p[i][1]]
           Y == [i \in 1 .. N |-> p[i][2]]
           dx == v[1]
           dy == v[2]
           S == {p[i][1] : i \in DOMAIN p}
           T == {p[i][2] : i \in DOMAIN p}
           SS == {q[i][1] : i \in DOMAIN q}
           TT == {q[i][2] : i \in DOMAIN q}
<1>1. /\ dx \in Int /\ dy \in Int
      /\ X \in [1 .. N -> Int] /\ Y \in [1 .. N -> Int]
    BY DEF PointsMoved, Plane
<1>0. DOMAIN p = 1 .. N /\ DOMAIN q = 1 .. N
      /\ \A i \in 1 .. N : q[i][1] = X[i] + dx /\ q[i][2] = Y[i] + dy
    BY DEF PointsMoved, Plus
<1>2. Images(S, SS, X, dx, N)
    BY <1>0 DEF Images
<1>7. Images(T, TT, Y, dy, N)
    BY <1>0 DEF Images
<1>3. BoundsOf(p) = Box(Min(S), Min(T), Max(S), Max(T))
    BY DEF BoundsOf
<1>4. BoundsOf(q) = Box(Min(SS), Min(TT), Max(SS), Max(TT))
    BY DEF BoundsOf
<1> HIDE DEF X, Y, dx, dy, S, T, SS, TT
<1>5. /\ Min(S) \in Int /\ Min(SS) = Min(S) + dx
      /\ Max(S) \in Int /\ Max(SS) = Max(S) + dx
    BY <1>1, <1>2, ExtremesMove
<1>6. /\ Min(T) \in Int /\ Min(TT) = Min(T) + dy
      /\ Max(T) \in Int /\ Max(TT) = Max(T) + dy
    BY <1>1, <1>7, ExtremesMove
<1> QED
    BY <1>3, <1>4, <1>5, <1>6 DEF IsBox, ShiftedBox, Box, dx, dy

\* The distance of two points stays when both move.
LEMMA DistanceMoves ==
    ASSUME NEW p, NEW q, NEW v \in Plane,
           p[1] \in Int, p[2] \in Int, q[1] \in Int, q[2] \in Int
    PROVE  Distance(Plus(p, v), Plus(q, v)) = Distance(p, q)
<1> DEFINE a == Plus(p, v)
           b == Plus(q, v)
<1>1. b[1] - a[1] = q[1] - p[1] /\ b[2] - a[2] = q[2] - p[2]
    BY DEF Plus, Plane
<1> HIDE DEF a, b
<1> QED
    BY <1>1 DEF Distance, Squared, a, b

\* The last of some positions is one of them.
LEMMA LastIsThere ==
    ASSUME NEW N \in Nat, NEW s \in SUBSET (1 .. N), s # {}
    PROVE  Max(s) \in s
<1>1. \E x \in s : \A y \in s : x >= y
    <2> SUFFICES ASSUME \A x \in s : \E y \in s : ~(x >= y) PROVE FALSE
        OBVIOUS
    <2> DEFINE Bad == {n \in Nat : \E x \in s : N - x <= n}
    <2>1. ASSUME NEW n \in Bad PROVE n # 0 /\ n - 1 \in Bad
        <3>1. PICK x \in s : N - x <= n
            OBVIOUS
        <3>2. PICK y \in s : ~(x >= y)
            OBVIOUS
        <3>3. x \in 1 .. N /\ y \in 1 .. N
            OBVIOUS
        <3>4. n # 0 /\ n - 1 \in Nat /\ N - y <= n - 1
            BY <3>1, <3>2, <3>3
        <3> QED
            BY <3>4
    <2>2. Bad \subseteq Nat
        OBVIOUS
    <2>3. PICK x \in s : TRUE
        OBVIOUS
    <2>4. N - x \in Bad
        OBVIOUS
    <2> HIDE DEF Bad
    <2> QED
        BY <2>1, <2>2, <2>4, NoLeast
<1> QED
    BY <1>1 DEF Max

\* The loop over the segments of a line adds their lengths up.
LEMMA LengthIsSum ==
    ASSUME NEW N \in Nat, NEW points, N = Len(points) - 1
    PROVE  LengthAlong(points) = Sum([i \in 1 .. N |-> Distance(points[i], points[i + 1])])
<1> DEFINE ids == [i \in 1 .. Len(points) - 1 |-> i]
           numbers == [i \in 1 .. N |-> Distance(points[i], points[i + 1])]
           Body(f) == [s \in SUBSET DOMAIN ids |->
                         IF s = {} THEN 0
                         ELSE f[s \ {Max(s)}]
                                + Distance(points[ids[Max(s)]], points[ids[Max(s)] + 1])]
           f == CHOOSE f : f = Body(f)
           run == [n \in 0 .. N |-> f[1 .. n]]
           kind == "numbers"
           base == 0
           none == {}
<1>0. LengthAlong(points) = f[DOMAIN ids]
    BY DEF LengthAlong, FoldLeft, MapThenFoldSet
<1>1. \A a, i : Turn(kind, a, numbers, i, none) = a + numbers[i]
    BY DEF Turn
<1>2. \A g : Body(g) = Turns(g, N, kind, numbers, base, none)
    <2>1. DOMAIN ids = 1 .. N
        OBVIOUS
    <2>2. ASSUME NEW g, NEW s \in SUBSET (1 .. N), s # {}
          PROVE  g[s \ {Max(s)}] + Distance(points[ids[Max(s)]], points[ids[Max(s)] + 1])
                   = Turn(kind, g[s \ {Max(s)}], numbers, Max(s), none)
        <3>1. Max(s) \in 1 .. N
            BY <2>2, LastIsThere
        <3>2. ids[Max(s)] = Max(s) /\ numbers[Max(s)] = Distance(points[Max(s)], points[Max(s) + 1])
            BY <3>1
        <3> HIDE DEF ids, numbers, kind, none
        <3> QED
            BY <1>1, <3>2
    <2> HIDE DEF ids, numbers, kind, none
    <2> QED
        BY <2>1, <2>2 DEF Turns
<1> HIDE DEF kind, base, none, numbers
<1>3. \E g : g = Body(g)
    <2>1. PICK g : g = Turns(g, N, kind, numbers, base, none)
        <3> HIDE DEF Body, f, run, ids
        <3> QED
            BY LoopExists
    <2> HIDE DEF Body
    <2> QED
        BY <1>2, <2>1
<1>4. f = Turns(f, N, kind, numbers, base, none)
    <2>1. f = Body(f)
        <3> HIDE DEF Body
        <3> QED
            BY <1>3
    <2> HIDE DEF f, Body
    <2> QED
        BY <1>2, <2>1
<1>5. LengthAlong(points) = f[1 .. N]
    BY <1>0
<1> HIDE DEF f
<1>6. f[1 .. 0] = 0
    BY <1>4, LoopRuns DEF base
<1>7. \A n \in 1 .. N : f[1 .. n] = Turn(kind, f[1 .. n - 1], numbers, n, none)
    BY <1>4, LoopRuns
<1>8. run[0] = 0 /\ run[N] = f[1 .. N]
    BY <1>6
<1>9. ASSUME NEW n \in 1 .. N PROVE run[n] = run[n - 1] + numbers[n]
    <2>1. n \in 0 .. N /\ n - 1 \in 0 .. N
        OBVIOUS
    <2>2. run[n] = f[1 .. n] /\ run[n - 1] = f[1 .. n - 1]
        BY <2>1
    <2> HIDE DEF run
    <2> QED
        BY <2>2, <1>1, <1>7
<1>10. DOMAIN numbers = 1 .. N
    BY DEF numbers
<1> HIDE DEF run
<1>11. Sum(numbers) = run[N]
    BY <1>8, <1>9, <1>10, SumIs
<1> QED
    BY <1>5, <1>8, <1>11 DEF numbers

\* The twice directed area between the origin and the side of a polygon that
\* begins at its i-th point.
Following(N, i) == IF i = N THEN 1 ELSE i + 1
Crossed(points, N, i) ==
    points[i][1] * points[Following(N, i)][2] - points[Following(N, i)][1] * points[i][2]

\* The loop over the corners of a polygon adds its triangles up.
LEMMA AreaIsSum ==
    ASSUME NEW N \in Nat, NEW points, Len(points) = N, DOMAIN points = 1 .. N, ~(N < 3)
    PROVE  ShoelaceArea(points) = Abs(Sum([i \in 1 .. N |-> Crossed(points, N, i)]))
<1> DEFINE ids == [i \in DOMAIN points |-> i]
           numbers == [i \in 1 .. N |-> Crossed(points, N, i)]
           After(i) == IF i = Len(points) THEN 1 ELSE i + 1
           Cross(i) == points[i][1] * points[After(i)][2] - points[After(i)][1] * points[i][2]
           Body(f) == [s \in SUBSET DOMAIN ids |->
                         IF s = {} THEN 0 ELSE f[s \ {Max(s)}] + Cross(ids[Max(s)])]
           f == CHOOSE f : f = Body(f)
           run == [n \in 0 .. N |-> f[1 .. n]]
           kind == "numbers"
           base == 0
           none == {}
<1>0. ShoelaceArea(points) = Abs(f[DOMAIN ids])
    BY DEF ShoelaceArea, FoldLeft, MapThenFoldSet
<1>1. \A a, i : Turn(kind, a, numbers, i, none) = a + numbers[i]
    BY DEF Turn
<1>a. \A i \in 1 .. N : Cross(i) = numbers[i]
    BY DEF Crossed, Following
<1> HIDE DEF Cross, numbers
<1>2. \A g : Body(g) = Turns(g, N, kind, numbers, base, none)
    <2>1. DOMAIN ids = 1 .. N
        OBVIOUS
    <2>2. ASSUME NEW g, NEW s \in SUBSET (1 .. N), s # {}
          PROVE  g[s \ {Max(s)}] + Cross(ids[Max(s)])
                   = Turn(kind, g[s \ {Max(s)}], numbers, Max(s), none)
        <3>1. Max(s) \in 1 .. N
            BY <2>2, LastIsThere
        <3>2. ids[Max(s)] = Max(s) /\ numbers[Max(s)] = Cross(Max(s))
            BY <1>a, <3>1
        <3> HIDE DEF ids, kind, none
        <3> QED
            BY <1>1, <3>2
    <2> HIDE DEF ids, kind, none
    <2> QED
        BY <2>1, <2>2 DEF Turns
<1> HIDE DEF kind, base, none
<1>3. \E g : g = Body(g)
    <2>1. PICK g : g = Turns(g, N, kind, numbers, base, none)
        BY LoopExists
    <2> HIDE DEF Body
    <2> QED
        BY <1>2, <2>1
<1>4. f = Turns(f, N, kind, numbers, base, none)
    <2>1. f = Body(f)
        <3> HIDE DEF Body
        <3> QED
            BY <1>3
    <2> HIDE DEF f, Body
    <2> QED
        BY <1>2, <2>1
<1>5. ShoelaceArea(points) = Abs(f[1 .. N])
    BY <1>0
<1> HIDE DEF f
<1>6. f[1 .. 0] = 0
    BY <1>4, LoopRuns DEF base
<1>7. \A n \in 1 .. N : f[1 .. n] = Turn(kind, f[1 .. n - 1], numbers, n, none)
    BY <1>4, LoopRuns
<1>8. run[0] = 0 /\ run[N] = f[1 .. N]
    BY <1>6
<1>9. ASSUME NEW n \in 1 .. N PROVE run[n] = run[n - 1] + numbers[n]
    <2>1. n \in 0 .. N /\ n - 1 \in 0 .. N
        OBVIOUS
    <2>2. run[n] = f[1 .. n] /\ run[n - 1] = f[1 .. n - 1]
        BY <2>1
    <2> HIDE DEF run
    <2> QED
        BY <2>2, <1>1, <1>7
<1>10. DOMAIN numbers = 1 .. N
    BY DEF numbers
<1> HIDE DEF run
<1>11. Sum(numbers) = run[N]
    BY <1>8, <1>9, <1>10, SumIs
<1> QED
    BY <1>5, <1>8, <1>11 DEF numbers

\* The length along some points stays when they move.
LEMMA LengthMoves ==
    ASSUME NEW N \in Nat \ {0}, NEW p, NEW q, NEW v \in Plane, PointsMoved(p, q, N, v),
           Len(p) = N, Len(q) = N
    PROVE  LengthAlong(q) = LengthAlong(p)
<1> DEFINE m == N - 1
<1>1. m \in Nat /\ m = Len(p) - 1 /\ m = Len(q) - 1
    OBVIOUS
<1>2. \A i \in 1 .. m : Distance(q[i], q[i + 1]) = Distance(p[i], p[i + 1])
    <2> SUFFICES ASSUME NEW i \in 1 .. m PROVE Distance(q[i], q[i + 1]) = Distance(p[i], p[i + 1])
        OBVIOUS
    <2>1. i \in 1 .. N /\ i + 1 \in 1 .. N
        OBVIOUS
    <2>2. /\ q[i] = Plus(p[i], v) /\ q[i + 1] = Plus(p[i + 1], v)
          /\ p[i][1] \in Int /\ p[i][2] \in Int /\ p[i + 1][1] \in Int /\ p[i + 1][2] \in Int
        BY <2>1 DEF PointsMoved
    <2> QED
        BY <2>2, DistanceMoves
<1> HIDE DEF m
<1>3. LengthAlong(p) = Sum([i \in 1 .. m |-> Distance(p[i], p[i + 1])])
    BY <1>1, LengthIsSum
<1>4. LengthAlong(q) = Sum([i \in 1 .. m |-> Distance(q[i], q[i + 1])])
    BY <1>1, LengthIsSum
<1>5. [i \in 1 .. m |-> Distance(q[i], q[i + 1])] = [i \in 1 .. m |-> Distance(p[i], p[i + 1])]
    BY <1>2
<1> QED
    BY <1>3, <1>4, <1>5

\* What moving a polygon does to one of its triangles.
LEMMA CornersMove ==
    \A d, e, x, y, z, w \in Int :
        (x + d) * (w + e) - (z + d) * (y + e) = (x * w - z * y) + (d * w - d * y) - (e * z - e * x)
<1> SUFFICES ASSUME NEW d \in Int, NEW e \in Int, NEW x \in Int, NEW y \in Int,
                    NEW z \in Int, NEW w \in Int
             PROVE  (x + d) * (w + e) - (z + d) * (y + e)
                      = (x * w - z * y) + (d * w - d * y) - (e * z - e * x)
    OBVIOUS
<1>1. (x + d) * (w + e) = x * w + e * x + d * w + d * e
    OBVIOUS
<1>2. (z + d) * (y + e) = z * y + e * z + d * y + d * e
    OBVIOUS
<1> QED
    BY <1>1, <1>2

\* What moving a polygon adds to one of its triangles the others take away.
LEMMA AreaMoves ==
    ASSUME NEW N \in Nat \ {0}, NEW p, NEW q, NEW v \in Plane, PointsMoved(p, q, N, v),
           Len(p) = N, Len(q) = N
    PROVE  ShoelaceArea(q) = ShoelaceArea(p)
<1>1. CASE N < 3
    BY <1>1 DEF ShoelaceArea
<1>2. CASE ~(N < 3)
    <2> DEFINE old == [i \in 1 .. N |-> Crossed(p, N, i)]
               new == [i \in 1 .. N |-> Crossed(q, N, i)]
               To(n) == IF n = 0 THEN 1 ELSE Following(N, n)
               X(n) == p[To(n)][1]
               Y(n) == p[To(n)][2]
               dx == v[1]
               dy == v[2]
    <2>1. DOMAIN old = 1 .. N /\ DOMAIN new = 1 .. N
        OBVIOUS
    <2>2. PICK run : /\ run[0] = 0
                     /\ \A n \in 1 .. N : run[n] = run[n - 1] + old[n]
                     /\ Sum(old) = run[N]
        <3> HIDE DEF old
        <3> QED
            BY <2>1, SumRuns
    <2>3. /\ To(0) = 1 /\ To(N) = 1
          /\ \A n \in 0 .. N : To(n) \in 1 .. N
          /\ \A n \in 1 .. N : To(n - 1) = n /\ Following(N, n) = To(n)
        BY DEF Following
    <2>4. dx \in Int /\ dy \in Int /\ \A n \in 0 .. N : X(n) \in Int /\ Y(n) \in Int
        BY <2>3 DEF PointsMoved, Plane
    <2>5. ASSUME NEW n \in 1 .. N
          PROVE  /\ old[n] = X(n - 1) * Y(n) - X(n) * Y(n - 1)
                 /\ new[n] = (X(n - 1) + dx) * (Y(n) + dy) - (X(n) + dx) * (Y(n - 1) + dy)
        <3>1. To(n - 1) = n /\ Following(N, n) = To(n) /\ To(n) \in 1 .. N
            BY <2>3
        <3>2. /\ q[n][1] = p[n][1] + dx /\ q[n][2] = p[n][2] + dy
              /\ q[To(n)][1] = p[To(n)][1] + dx /\ q[To(n)][2] = p[To(n)][2] + dy
            BY <3>1 DEF PointsMoved, Plus
        <3>3. /\ old[n] = p[n][1] * p[To(n)][2] - p[To(n)][1] * p[n][2]
              /\ new[n] = q[n][1] * q[To(n)][2] - q[To(n)][1] * q[n][2]
            BY <3>1 DEF Crossed
        <3> HIDE DEF To, dx, dy, old, new
        <3> QED
            BY <3>1, <3>2, <3>3
    <2>6. \A x, y, z, w \in Int :
            (x + dx) * (w + dy) - (z + dx) * (y + dy)
              = (x * w - z * y) + (dx * w - dx * y) - (dy * z - dy * x)
        <3> HIDE DEF dx, dy
        <3> QED
            BY <2>4, CornersMove
    <2> DEFINE More(n) == (dx * Y(n) - dx * Y(0)) - (dy * X(n) - dy * X(0))
               total == [n \in 0 .. N |-> run[n] + More(n)]
    <2> HIDE DEF To, dx, dy, old, new
    <2>7. \A n \in 0 .. N : run[n] \in Int
        <3> DEFINE Bad == {n \in 0 .. N : run[n] \notin Int}
        <3>1. ASSUME NEW n \in Bad PROVE n # 0 /\ n - 1 \in Bad
            <4>1. n # 0
                BY <2>2
            <4>2. n \in 1 .. N /\ n - 1 \in 0 .. N
                BY <4>1
            <4>3. run[n] = run[n - 1] + old[n]
                BY <2>2, <4>2
            <4>4. old[n] \in Int
                <5>1. /\ X(n - 1) \in Int /\ Y(n - 1) \in Int /\ X(n) \in Int /\ Y(n) \in Int
                    BY <2>4, <4>2
                <5> HIDE DEF X, Y
                <5> QED
                    BY <2>5, <4>2, <5>1
            <4> QED
                BY <4>1, <4>2, <4>3, <4>4
        <3>2. Bad \subseteq Nat
            OBVIOUS
        <3> HIDE DEF Bad
        <3>3. Bad = {}
            BY <3>1, <3>2, NoLeast
        <3> QED
            BY <3>3 DEF Bad
    <2>8. /\ X(0) = X(N) /\ Y(0) = Y(N)
        BY <2>3
    <2> HIDE DEF X, Y
    <2>9. ASSUME NEW n \in 1 .. N PROVE total[n] = total[n - 1] + new[n]
        <3>1. n \in 0 .. N /\ n - 1 \in 0 .. N /\ 0 \in 0 .. N
            OBVIOUS
        <3>2. total[n] = run[n] + More(n) /\ total[n - 1] = run[n - 1] + More(n - 1)
            BY <3>1
        <3> DEFINE x == X(n - 1)
                   y == Y(n - 1)
                   z == X(n)
                   w == Y(n)
                   a == X(0)
                   b == Y(0)
        <3>3. x \in Int /\ y \in Int /\ z \in Int /\ w \in Int /\ a \in Int /\ b \in Int
            BY <2>4, <3>1
        <3>4. new[n] = (x * w - z * y) + (dx * w - dx * y) - (dy * z - dy * x)
            <4>1. new[n] = (x + dx) * (w + dy) - (z + dx) * (y + dy)
                BY <2>5
            <4> HIDE DEF x, y, z, w
            <4> QED
                BY <2>6, <3>3, <4>1
        <3>5. run[n] = run[n - 1] + (x * w - z * y) /\ run[n - 1] \in Int
            BY <2>2, <2>5, <2>7, <3>1
        <3>6. /\ More(n) = (dx * w - dx * b) - (dy * z - dy * a)
              /\ More(n - 1) = (dx * y - dx * b) - (dy * x - dy * a)
            OBVIOUS
        <3> HIDE DEF x, y, z, w, a, b, More, total
        <3>7. /\ dx * w \in Int /\ dx * y \in Int /\ dx * b \in Int
              /\ dy * z \in Int /\ dy * x \in Int /\ dy * a \in Int
              /\ x * w - z * y \in Int
            BY <2>4, <3>3
        <3>8. \A r, c, xw, xy, xb, yz, yx, ya \in Int :
                r + c + ((xw - xb) - (yz - ya))
                  = (r + ((xy - xb) - (yx - ya))) + (c + (xw - xy) - (yz - yx))
            OBVIOUS
        <3> DEFINE r == run[n - 1]
                   c == x * w - z * y
                   xw == dx * w
                   xy == dx * y
                   xb == dx * b
                   yz == dy * z
                   yx == dy * x
                   ya == dy * a
        <3>9. /\ total[n] = r + c + ((xw - xb) - (yz - ya))
              /\ total[n - 1] = r + ((xy - xb) - (yx - ya))
              /\ new[n] = c + (xw - xy) - (yz - yx)
            BY <3>2, <3>4, <3>5, <3>6
        <3>10. /\ r \in Int /\ c \in Int /\ xw \in Int /\ xy \in Int /\ xb \in Int
               /\ yz \in Int /\ yx \in Int /\ ya \in Int
            BY <3>5, <3>7
        <3> HIDE DEF r, c, xw, xy, xb, yz, yx, ya
        <3> QED
            BY <3>8, <3>9, <3>10
    <2>10. total[0] = 0 /\ total[N] = run[N]
        <3>1. 0 \in 0 .. N /\ N \in 0 .. N
            OBVIOUS
        <3>2. total[0] = run[0] + More(0) /\ total[N] = run[N] + More(N)
            BY <3>1
        <3>3. More(0) = 0 /\ More(N) = 0
            <4>1. /\ X(0) \in Int /\ Y(0) \in Int
                BY <2>4, <3>1
            <4>2. dx * Y(0) \in Int /\ dy * X(0) \in Int
                BY <2>4, <4>1
            <4> QED
                BY <2>8, <4>2
        <3> HIDE DEF total, More
        <3> QED
            BY <2>2, <2>7, <3>1, <3>2, <3>3
    <2> HIDE DEF total
    <2>11. Sum(new) = Sum(old)
        BY <2>1, <2>2, <2>9, <2>10, SumIs
    <2>12. ShoelaceArea(p) = Abs(Sum(old)) /\ ShoelaceArea(q) = Abs(Sum(new))
        BY <1>2, AreaIsSum DEF PointsMoved, old, new
    <2> QED
        BY <2>11, <2>12
<1> QED
    BY <1>1, <1>2

\* A list of points is read two numbers at a time.
LEMMA PointsAre ==
    ASSUME NEW numbers \in Seq(Int), NEW k
    PROVE  LET p == Points(numbers, k)
               N == Len(numbers) \div 2
           IN  /\ N \in Nat /\ DOMAIN p = 1 .. N /\ Len(p) = N
               /\ \A i \in 1 .. N :
                    /\ 2 * i - 1 \in 1 .. Len(numbers) /\ 2 * i \in 1 .. Len(numbers)
                    /\ p[i] = <<Scale(numbers[2 * i - 1], k.x), Scale(numbers[2 * i], k.y)>>
<1> DEFINE p == Points(numbers, k)
           N == Len(numbers) \div 2
           pairs == Groups(numbers, 2)
<1>1. Len(numbers) \in Nat /\ N \in Nat /\ 2 * N <= Len(numbers)
    BY LenProperties
<1>2. DOMAIN pairs = 1 .. N /\ \A i \in 1 .. N : pairs[i] = SubSeq(numbers, 2 * (i - 1) + 1, 2 * i)
    BY DEF Groups
<1>3. ASSUME NEW i \in 1 .. N
      PROVE  /\ 2 * i - 1 \in 1 .. Len(numbers) /\ 2 * i \in 1 .. Len(numbers)
             /\ pairs[i][1] = numbers[2 * i - 1] /\ pairs[i][2] = numbers[2 * i]
    <2> HIDE DEF N, pairs
    <2>1. 2 * i - 1 \in 1 .. Len(numbers) /\ 2 * i \in 1 .. Len(numbers)
        BY <1>1
    <2>2. 2 * (i - 1) + 1 = 2 * i - 1
        BY <1>1
    <2> DEFINE m == 2 * i - 1
               n == 2 * i
               t == SubSeq(numbers, m, n)
    <2>3. pairs[i] = t
        BY <1>2, <2>2
    <2>4. m \in 1 .. Len(numbers) /\ n \in 1 .. Len(numbers) /\ n = m + 1 /\ m \in Int
        BY <2>1
    <2> HIDE DEF m, n
    <2>5. t[1] = numbers[m] /\ t[2] = numbers[n]
        BY <2>4, SubSeqProperties
    <2> QED
        BY <2>1, <2>3, <2>5 DEF m, n
<1>4. p = [i \in DOMAIN pairs |-> <<Scale(pairs[i][1], k.x), Scale(pairs[i][2], k.y)>>]
    BY DEF Points
<1> HIDE DEF pairs
<1>5. /\ DOMAIN p = 1 .. N
      /\ \A i \in 1 .. N : p[i] = <<Scale(numbers[2 * i - 1], k.x), Scale(numbers[2 * i], k.y)>>
    BY <1>2, <1>3, <1>4
<1> HIDE DEF N
<1>6. Len(p) = N
    <2> DEFINE S == {p[i] : i \in 1 .. N}
    <2>1. p = [i \in 1 .. N |-> p[i]]
        BY <1>2, <1>4
    <2> HIDE DEF p
    <2>2. p \in [1 .. N -> S]
        BY <2>1
    <2> HIDE DEF S
    <2> QED
        BY <1>1, <2>2
<1> QED
    BY <1>1, <1>3, <1>5, <1>6 DEF N

\* Elements with the same paints are classified alike.
LEMMA SameClass ==
    ASSUME NEW e, NEW f, \A name \in Paints : SameAttribute(e, f, name)
    PROVE  Classify(f) = Classify(e)
<1>1. /\ SameAttribute(e, f, "stroke") /\ SameAttribute(e, f, "fill")
      /\ SameAttribute(e, f, "style")
    BY DEF Paints
<1>2. GetColorAttribute(f.attrs, "stroke") = GetColorAttribute(e.attrs, "stroke")
    BY <1>1 DEF GetColorAttribute, SameAttribute
<1>3. GetColorAttribute(f.attrs, "fill") = GetColorAttribute(e.attrs, "fill")
    BY <1>1 DEF GetColorAttribute, SameAttribute
<1> QED
    BY <1>2, <1>3 DEF Classify

\* What a moved element has of its old attributes, in millimetres.
LEMMA PlacesMove ==
    ASSUME NEW e, NEW f, NEW name, NEW by \in Int, NEW w \in Int, NEW ratio,
           Shifted(e, f, name, by), Yields(by, w, ratio)
    PROVE  /\ Scale(Num(e.attrs, name), ratio) \in Int
           /\ Scale(Num(f.attrs, name), ratio) = Scale(Num(e.attrs, name), ratio) + w
<1> DEFINE n == Num(e.attrs, name)
<1>1. n \in Int /\ Num(f.attrs, name) = n + by
    BY DEF Shifted
<1> HIDE DEF n
<1>2. Scale(n, ratio) \in Int /\ Scale(n + by, ratio) = Scale(n, ratio) + w
    BY <1>1, ScaleMoves
<1> QED
    BY <1>1, <1>2 DEF n

\* The sizes of a moved element stay.
LEMMA SizesStay ==
    ASSUME NEW e, NEW f, NEW name, Num(e.attrs, name) \in Int, SameAttribute(e, f, name)
    PROVE  /\ Num(f.attrs, name) = Num(e.attrs, name)
           /\ \A u, w, ratio : Yields(u, w, ratio) => Scale(Num(e.attrs, name), ratio) \in Int
<1>1. Num(f.attrs, name) = Num(e.attrs, name)
    BY DEF SameAttribute, Num
<1> DEFINE n == Num(e.attrs, name)
<1>2. n \in Int
    OBVIOUS
<1> HIDE DEF n
<1>3. ASSUME NEW u, NEW w, NEW ratio, Yields(u, w, ratio) PROVE Scale(n, ratio) \in Int
    BY <1>2, <1>3 DEF Scale, Yields
<1> QED
    BY <1>1, <1>3 DEF n

\* A rectangle moves with its sides.
LEMMA BoxMoves ==
    ASSUME NEW v \in Plane, NEW a \in Int, NEW b \in Int, NEW c \in Int, NEW d \in Int
    PROVE  /\ IsBox(Box(a, b, c, d))
           /\ ShiftedBox(Box(a, b, c, d), v) = Box(a + v[1], b + v[2], c + v[1], d + v[2])
BY DEF IsBox, ShiftedBox, Box, Plane

\* A rectangle, rounded or not, carries its measures along.
LEMMA RectMoves ==
    ASSUME NEW e, NEW f, NEW u, NEW v, NEW k, Moved(e, f, u), Amounts(u, v, k), e.type = "rect"
    PROVE  Carried(CalculateRect(e.attrs, k), CalculateRect(f.attrs, k), v)
<1> DEFINE x == Scale(Num(e.attrs, "x"), k.x)
           y == Scale(Num(e.attrs, "y"), k.y)
           w == Scale(Num(e.attrs, "width"), k.x)
           h == Scale(Num(e.attrs, "height"), k.y)
           g == CalculateRect(e.attrs, k)
           gg == CalculateRect(f.attrs, k)
           dx == v[1]
           dy == v[2]
<1>0. v \in Plane /\ dx \in Int /\ dy \in Int /\ u[1] \in Int /\ u[2] \in Int
    BY DEF Amounts, Plane
<1>1. x \in Int /\ Scale(Num(f.attrs, "x"), k.x) = x + dx
    <2>1. Shifted(e, f, "x", u[1])
        BY DEF Moved, Across
    <2> QED
        BY <1>0, <2>1, PlacesMove DEF Amounts
<1>2. y \in Int /\ Scale(Num(f.attrs, "y"), k.y) = y + dy
    <2>1. Shifted(e, f, "y", u[2])
        BY DEF Moved, Down
    <2> QED
        BY <1>0, <2>1, PlacesMove DEF Amounts
<1>3. /\ Num(f.attrs, "width") = Num(e.attrs, "width") /\ w \in Int
      /\ Num(f.attrs, "height") = Num(e.attrs, "height") /\ h \in Int
      /\ Num(f.attrs, "rx") = Num(e.attrs, "rx")
      /\ Num(f.attrs, "ry") = Num(e.attrs, "ry")
    <2>1. \A name \in Sizes : Num(e.attrs, name) \in Int /\ SameAttribute(e, f, name)
        BY DEF Moved
    <2>2. {"width", "height", "rx", "ry"} \subseteq Sizes
        BY DEF Sizes
    <2> QED
        BY <2>1, <2>2, SizesStay DEF Amounts
<1>4. g.length = gg.length /\ g.area = gg.area
    BY <1>3 DEF CalculateRect, Geometry
<1>5. g.bounds = Box(x, y, x + w, y + h)
    BY DEF CalculateRect, Geometry
<1>6. gg.bounds = Box(x + dx, y + dy, (x + dx) + w, (y + dy) + h)
    BY <1>1, <1>2, <1>3 DEF CalculateRect, Geometry
<1> HIDE DEF x, y, w, h, g, gg
<1>7. (x + dx) + w = (x + w) + dx /\ (y + dy) + h = (y + h) + dy /\ x + w \in Int /\ y + h \in Int
    BY <1>0, <1>1, <1>2, <1>3
<1>8. IsBox(g.bounds) /\ gg.bounds = ShiftedBox(g.bounds, v)
    BY <1>0, <1>1, <1>2, <1>5, <1>6, <1>7, BoxMoves
<1> QED
    BY <1>4, <1>8 DEF Carried, g, gg

\* The rectangle around a circle or an ellipse moves with its centre.
LEMMA AroundMoves ==
    ASSUME NEW v \in Plane, NEW x \in Int, NEW y \in Int, NEW r \in Int, NEW s \in Int
    PROVE  /\ IsBox(Around(x, y, r, s))
           /\ Around(x + v[1], y + v[2], r, s) = ShiftedBox(Around(x, y, r, s), v)
<1>1. /\ v[1] \in Int /\ v[2] \in Int
      /\ x - r \in Int /\ y - s \in Int /\ x + r \in Int /\ y + s \in Int
    BY DEF Plane
<1>2. /\ (x + v[1]) - r = (x - r) + v[1] /\ (x + v[1]) + r = (x + r) + v[1]
      /\ (y + v[2]) - s = (y - s) + v[2] /\ (y + v[2]) + s = (y + s) + v[2]
    BY <1>1
<1> DEFINE a == x - r
           b == y - s
           c == x + r
           d == y + s
<1>3. /\ Around(x, y, r, s) = Box(a, b, c, d)
      /\ Around(x + v[1], y + v[2], r, s) = Box(a + v[1], b + v[2], c + v[1], d + v[2])
    BY <1>2 DEF Around
<1>4. a \in Int /\ b \in Int /\ c \in Int /\ d \in Int
    BY <1>1
<1> HIDE DEF a, b, c, d
<1> QED
    BY <1>3, <1>4, BoxMoves

\* A circle carries its measures along, whatever the scales of the axes.
LEMMA CircleMoves ==
    ASSUME NEW e, NEW f, NEW u, NEW v, NEW k, Moved(e, f, u), Amounts(u, v, k), e.type = "circle"
    PROVE  Carried(CalculateCircle(e.attrs, k), CalculateCircle(f.attrs, k), v)
<1> DEFINE x == Scale(Num(e.attrs, "cx"), k.x)
           y == Scale(Num(e.attrs, "cy"), k.y)
           ratio == <<k.x[1] * k.y[2] + k.y[1] * k.x[2], 2 * k.x[2] * k.y[2]>>
           r == Scale(Num(e.attrs, "r"), ratio)
           g == CalculateCircle(e.attrs, k)
           gg == CalculateCircle(f.attrs, k)
           dx == v[1]
           dy == v[2]
<1>0. v \in Plane /\ dx \in Int /\ dy \in Int /\ u[1] \in Int /\ u[2] \in Int
    BY DEF Amounts, Plane
<1>1. x \in Int /\ Scale(Num(f.attrs, "cx"), k.x) = x + dx
    <2>1. Shifted(e, f, "cx", u[1])
        BY DEF Moved, Across
    <2> QED
        BY <1>0, <2>1, PlacesMove DEF Amounts
<1>2. y \in Int /\ Scale(Num(f.attrs, "cy"), k.y) = y + dy
    <2>1. Shifted(e, f, "cy", u[2])
        BY DEF Moved, Down
    <2> QED
        BY <1>0, <2>1, PlacesMove DEF Amounts
<1>3. Num(f.attrs, "r") = Num(e.attrs, "r") /\ r \in Int
    <2>1. Num(e.attrs, "r") \in Int /\ SameAttribute(e, f, "r")
        BY DEF Moved, Sizes
    <2>2. Yields(0, 0, ratio)
        <3>1. \A a, c \in Int : \A b, d \in Nat \ {0} :
                a * d + c * b \in Int /\ 2 * b * d \in Nat \ {0}
            OBVIOUS
        <3> QED
            BY <3>1 DEF Amounts, Yields
    <2> HIDE DEF ratio
    <2> QED
        BY <2>1, <2>2, SizesStay
<1>4. g.length = gg.length /\ g.area = gg.area
    BY <1>3 DEF CalculateCircle, Geometry
<1>5. g.bounds = Around(x, y, r, r)
    BY DEF CalculateCircle, Geometry
<1>6. gg.bounds = Around(x + dx, y + dy, r, r)
    BY <1>1, <1>2, <1>3 DEF CalculateCircle, Geometry
<1> HIDE DEF x, y, r, g, gg, ratio
<1>8. IsBox(g.bounds) /\ gg.bounds = ShiftedBox(g.bounds, v)
    BY <1>0, <1>1, <1>2, <1>3, <1>5, <1>6, AroundMoves
<1> QED
    BY <1>4, <1>8 DEF Carried, g, gg

\* An ellipse carries its measures along.
LEMMA EllipseMoves ==
    ASSUME NEW e, NEW f, NEW u, NEW v, NEW k, Moved(e, f, u), Amounts(u, v, k), e.type = "ellipse"
    PROVE  Carried(CalculateEllipse(e.attrs, k), CalculateEllipse(f.attrs, k), v)
<1> DEFINE x == Scale(Num(e.attrs, "cx"), k.x)
           y == Scale(Num(e.attrs, "cy"), k.y)
           rx == Scale(Num(e.attrs, "rx"), k.x)
           ry == Scale(Num(e.attrs, "ry"), k.y)
           g == CalculateEllipse(e.attrs, k)
           gg == CalculateEllipse(f.attrs, k)
           dx == v[1]
           dy == v[2]
<1>0. v \in Plane /\ dx \in Int /\ dy \in Int /\ u[1] \in Int /\ u[2] \in Int
    BY DEF Amounts, Plane
<1>1. x \in Int /\ Scale(Num(f.attrs, "cx"), k.x) = x + dx
    <2>1. Shifted(e, f, "cx", u[1])
        BY DEF Moved, Across
    <2> QED
        BY <1>0, <2>1, PlacesMove DEF Amounts
<1>2. y \in Int /\ Scale(Num(f.attrs, "cy"), k.y) = y + dy
    <2>1. Shifted(e, f, "cy", u[2])
        BY DEF Moved, Down
    <2> QED
        BY <1>0, <2>1, PlacesMove DEF Amounts
<1>3. /\ Num(f.attrs, "rx") = Num(e.attrs, "rx") /\ rx \in Int
      /\ Num(f.attrs, "ry") = Num(e.attrs, "ry") /\ ry \in Int
    <2>1. /\ Num(e.attrs, "rx") \in Int /\ SameAttribute(e, f, "rx")
          /\ Num(e.attrs, "ry") \in Int /\ SameAttribute(e, f, "ry")
        BY DEF Moved, Sizes
    <2> QED
        BY <2>1, SizesStay DEF Amounts
<1>4. g.length = gg.length /\ g.area = gg.area
    BY <1>3 DEF CalculateEllipse, Geometry
<1>5. g.bounds = Around(x, y, rx, ry)
    BY DEF CalculateEllipse, Geometry
<1>6. gg.bounds = Around(x + dx, y + dy, rx, ry)
    BY <1>1, <1>2, <1>3 DEF CalculateEllipse, Geometry
<1> HIDE DEF x, y, rx, ry, g, gg
<1>8. IsBox(g.bounds) /\ gg.bounds = ShiftedBox(g.bounds, v)
    BY <1>0, <1>1, <1>2, <1>3, <1>5, <1>6, AroundMoves
<1> QED
    BY <1>4, <1>8 DEF Carried, g, gg

\* A line carries its length along.
LEMMA LineMoves ==
    ASSUME NEW e, NEW f, NEW u, NEW v, NEW k, Moved(e, f, u), Amounts(u, v, k), e.type = "line"
    PROVE  Carried(CalculateLine(e.attrs, k), CalculateLine(f.attrs, k), v)
<1> DEFINE x == Scale(Num(e.attrs, "x1"), k.x)
           y == Scale(Num(e.attrs, "y1"), k.y)
           z == Scale(Num(e.attrs, "x2"), k.x)
           w == Scale(Num(e.attrs, "y2"), k.y)
           p == <<<<x, y>>, <<z, w>>>>
           q == <<<<Scale(Num(f.attrs, "x1"), k.x), Scale(Num(f.attrs, "y1"), k.y)>>,
                  <<Scale(Num(f.attrs, "x2"), k.x), Scale(Num(f.attrs, "y2"), k.y)>>>>
           g == CalculateLine(e.attrs, k)
           gg == CalculateLine(f.attrs, k)
           dx == v[1]
           dy == v[2]
<1>0. v \in Plane /\ dx \in Int /\ dy \in Int /\ u[1] \in Int /\ u[2] \in Int
    BY DEF Amounts, Plane
<1>1. /\ x \in Int /\ Scale(Num(f.attrs, "x1"), k.x) = x + dx
      /\ z \in Int /\ Scale(Num(f.attrs, "x2"), k.x) = z + dx
    <2>1. Shifted(e, f, "x1", u[1]) /\ Shifted(e, f, "x2", u[1])
        BY DEF Moved, Across
    <2> QED
        BY <1>0, <2>1, PlacesMove DEF Amounts
<1>2. /\ y \in Int /\ Scale(Num(f.attrs, "y1"), k.y) = y + dy
      /\ w \in Int /\ Scale(Num(f.attrs, "y2"), k.y) = w + dy
    <2>1. Shifted(e, f, "y1", u[2]) /\ Shifted(e, f, "y2", u[2])
        BY DEF Moved, Down
    <2> QED
        BY <1>0, <2>1, PlacesMove DEF Amounts
<1>3. /\ g.length = Distance(p[1], p[2]) /\ g.area = 0 /\ g.bounds = BoundsOf(p)
      /\ gg.length = Distance(q[1], q[2]) /\ gg.area = 0 /\ gg.bounds = BoundsOf(q)
    BY DEF CalculateLine, Geometry
<1>4. /\ p[1][1] = x /\ p[1][2] = y /\ p[2][1] = z /\ p[2][2] = w
      /\ DOMAIN p = 1 .. 2 /\ DOMAIN q = 1 .. 2
    OBVIOUS
<1>5. q[1] = Plus(p[1], v) /\ q[2] = Plus(p[2], v)
    BY <1>1, <1>2 DEF Plus
<1> HIDE DEF x, y, z, w, p, q, g, gg, dx, dy
<1>6. PointsMoved(p, q, 2, v)
    BY <1>1, <1>2, <1>4, <1>5 DEF PointsMoved
<1>7. IsBox(g.bounds) /\ gg.bounds = ShiftedBox(g.bounds, v)
    BY <1>0, <1>3, <1>6, BoundsMove
<1>8. Distance(q[1], q[2]) = Distance(p[1], p[2])
    BY <1>0, <1>1, <1>2, <1>4, <1>5, DistanceMoves
<1> QED
    BY <1>3, <1>7, <1>8 DEF Carried, g, gg

\* A polyline carries its measures along, and a polygon its area too.
LEMMA PolylineMoves ==
    ASSUME NEW e, NEW f, NEW u, NEW v, NEW k, NEW closed \in BOOLEAN,
           Moved(e, f, u), Amounts(u, v, k)
    PROVE  Carried(CalculatePolyline(e.attrs, k, closed), CalculatePolyline(f.attrs, k, closed), v)
<1> DEFINE a == List(e.attrs, "points")
           b == List(f.attrs, "points")
           p == Points(a, k)
           q == Points(b, k)
           N == Len(a) \div 2
           g == CalculatePolyline(e.attrs, k, closed)
           h == CalculatePolyline(f.attrs, k, closed)
<1>1. /\ v \in Plane /\ v[1] \in Int /\ v[2] \in Int /\ u[1] \in Int /\ u[2] \in Int
      /\ Yields(u[1], v[1], k.x) /\ Yields(u[2], v[2], k.y)
    BY DEF Amounts, Plane
<1>2. /\ a \in Seq(Int) /\ b \in Seq(Int) /\ Len(b) = Len(a)
      /\ \A i \in 1 .. Len(a) : b[i] = a[i] + u[2 - (i % 2)]
    BY DEF Moved
<1>g. g = IF Len(p) < 2 THEN NoGeometry
          ELSE Geometry(LengthAlong(p)
                          + (IF closed /\ Len(p) > 2 THEN Distance(Last(p), p[1]) ELSE 0),
                        IF closed THEN ShoelaceArea(p) ELSE 0,
                        BoundsOf(p))
    BY DEF CalculatePolyline
<1>h. h = IF Len(q) < 2 THEN NoGeometry
          ELSE Geometry(LengthAlong(q)
                          + (IF closed /\ Len(q) > 2 THEN Distance(Last(q), q[1]) ELSE 0),
                        IF closed THEN ShoelaceArea(q) ELSE 0,
                        BoundsOf(q))
    BY DEF CalculatePolyline
<1> HIDE DEF a, b, g, h
<1>3. /\ N \in Nat /\ DOMAIN p = 1 .. N /\ Len(p) = N
      /\ \A i \in 1 .. N :
           /\ 2 * i - 1 \in 1 .. Len(a) /\ 2 * i \in 1 .. Len(a)
           /\ p[i] = <<Scale(a[2 * i - 1], k.x), Scale(a[2 * i], k.y)>>
    BY <1>2, PointsAre
<1>4. /\ DOMAIN q = 1 .. N /\ Len(q) = N
      /\ \A i \in 1 .. N : q[i] = <<Scale(b[2 * i - 1], k.x), Scale(b[2 * i], k.y)>>
    BY <1>2, PointsAre
<1> HIDE DEF N, p, q
<1>5. PointsMoved(p, q, N, v)
    <2> SUFFICES ASSUME NEW i \in 1 .. N
                 PROVE  p[i][1] \in Int /\ p[i][2] \in Int /\ q[i] = Plus(p[i], v)
        BY <1>3, <1>4 DEF PointsMoved
    <2> DEFINE m == 2 * i - 1
               n == 2 * i
    <2>1. m \in 1 .. Len(a) /\ n \in 1 .. Len(a) /\ m % 2 = 1 /\ n % 2 = 0
        <3>1. \A j \in Nat : (2 * j - 1) % 2 = 1 /\ (2 * j) % 2 = 0
            OBVIOUS
        <3>2. i \in Nat
            BY <1>3
        <3> QED
            BY <1>3, <3>1, <3>2
    <2> DEFINE x == a[m]
               y == a[n]
    <2>2. /\ p[i] = <<Scale(x, k.x), Scale(y, k.y)>>
          /\ q[i] = <<Scale(b[m], k.x), Scale(b[n], k.y)>>
        BY <1>3, <1>4
    <2> HIDE DEF m, n
    <2>3. x \in Int /\ y \in Int /\ b[m] = x + u[1] /\ b[n] = y + u[2]
        BY <1>2, <2>1
    <2> HIDE DEF x, y
    <2>4. /\ Scale(x, k.x) \in Int /\ Scale(x + u[1], k.x) = Scale(x, k.x) + v[1]
          /\ Scale(y, k.y) \in Int /\ Scale(y + u[2], k.y) = Scale(y, k.y) + v[2]
        <3> DEFINE c == u[1]
                   d == u[2]
                   t == v[1]
                   w == v[2]
                   rx == k.x
                   ry == k.y
        <3>1. x \in Int /\ c \in Int /\ t \in Int /\ Yields(c, t, rx)
            BY <1>1, <2>3
        <3>2. y \in Int /\ d \in Int /\ w \in Int /\ Yields(d, w, ry)
            BY <1>1, <2>3
        <3> HIDE DEF c, d, t, w, rx, ry
        <3>3. Scale(x, rx) \in Int /\ Scale(x + c, rx) = Scale(x, rx) + t
            BY <3>1, ScaleMoves
        <3>4. Scale(y, ry) \in Int /\ Scale(y + d, ry) = Scale(y, ry) + w
            BY <3>2, ScaleMoves
        <3> QED
            BY <3>3, <3>4 DEF c, d, t, w, rx, ry
    <2> QED
        BY <2>2, <2>3, <2>4 DEF Plus
<1>6. CASE N < 2
    <2>1. g = NoGeometry /\ h = NoGeometry
        BY <1>3, <1>4, <1>g, <1>h, <1>6
    <2>2. ~HasExtent(NoGeometry.bounds)
        BY DEF NoGeometry, Geometry, Box, HasExtent
    <2> QED
        BY <2>1, <2>2 DEF Carried, g, h
<1>7. CASE ~(N < 2)
    <2>1. N \in Nat \ {0} /\ 1 \in 1 .. N /\ N \in 1 .. N
        BY <1>3, <1>7
    <2>2. LengthAlong(q) = LengthAlong(p) /\ ShoelaceArea(q) = ShoelaceArea(p)
        BY <1>1, <1>3, <1>4, <1>5, <2>1, LengthMoves, AreaMoves
    <2>3. IsBox(BoundsOf(p)) /\ BoundsOf(q) = ShiftedBox(BoundsOf(p), v)
        BY <1>1, <1>5, <2>1, BoundsMove
    <2>4. Distance(Last(q), q[1]) = Distance(Last(p), p[1])
        <3>1. Last(q) = Plus(Last(p), v) /\ q[1] = Plus(p[1], v)
            BY <1>3, <1>4, <1>5, <2>1 DEF PointsMoved, Last
        <3>2. Last(p)[1] \in Int /\ Last(p)[2] \in Int /\ p[1][1] \in Int /\ p[1][2] \in Int
            BY <1>3, <1>5, <2>1 DEF PointsMoved, Last
        <3> QED
            BY <1>1, <3>1, <3>2, DistanceMoves
    <2>5. /\ h.length = g.length /\ h.area = g.area
          /\ g.bounds = BoundsOf(p) /\ h.bounds = BoundsOf(q)
        BY <1>3, <1>4, <1>7, <1>g, <1>h, <2>2, <2>4 DEF Geometry
    <2> QED
        BY <2>3, <2>5 DEF Carried, g, h
<1> QED
    BY <1>6, <1>7

\* Every moved element is classified as it was and carries its measures along.
LEMMA ElementMoves ==
    ASSUME NEW e, NEW f, NEW u, NEW v, NEW k, Moved(e, f, u), Amounts(u, v, k)
    PROVE  /\ Classify(f) = Classify(e)
           /\ Carried(CalculateElement(e, k), CalculateElement(f, k), v)
<1>1. Classify(f) = Classify(e)
    BY SameClass DEF Moved
<1>2. /\ f.type = e.type
      /\ e.type \in {"rect", "circle", "ellipse", "line", "polyline", "polygon"}
    BY DEF Moved, Across
<1>3. CASE e.type = "rect"
    BY <1>1, <1>2, <1>3, RectMoves DEF CalculateElement
<1>4. CASE e.type = "circle"
    BY <1>1, <1>2, <1>4, CircleMoves DEF CalculateElement
<1>5. CASE e.type = "ellipse"
    BY <1>1, <1>2, <1>5, EllipseMoves DEF CalculateElement
<1>6. CASE e.type = "line"
    BY <1>1, <1>2, <1>6, LineMoves DEF CalculateElement
<1>7. CASE e.type = "polyline"
    BY <1>1, <1>2, <1>7, PolylineMoves DEF CalculateElement
<1>8. CASE e.type = "polygon"
    BY <1>1, <1>2, <1>8, PolylineMoves DEF CalculateElement
<1> QED
    BY <1>2, <1>3, <1>4, <1>5, <1>6, <1>7, <1>8

-----------------------------------------------------------------------------
\* ExtractElements, with its local definitions by name.
Found(elements) == {i \in DOMAIN elements : /\ elements[i].type \in Range(ElementTypes)
                                            /\ DOMAIN elements[i].attrs # {}}
PlaceOf(type) == CHOOSE r \in DOMAIN ElementTypes : ElementTypes[r] = type
Comes(elements, i, j) ==
    \/ PlaceOf(elements[i].type) < PlaceOf(elements[j].type)
    \/ PlaceOf(elements[i].type) = PlaceOf(elements[j].type) /\ i < j
Ahead(elements, i) == {j \in Found(elements) : Comes(elements, j, i)}
Position(elements, n) == CHOOSE i \in Found(elements) : Cardinality(Ahead(elements, i)) = n - 1

\* ExtractElements in the terms of Found and Position.
LEMMA ExtractedAre ==
    ASSUME NEW elements
    PROVE  ExtractElements(elements)
             = [n \in 1 .. Cardinality(Found(elements)) |-> elements[Position(elements, n)]]
BY DEF ExtractElements, Found, PlaceOf, Comes, Ahead, Position

\* The n-th of the elements read is there, and there is no other.
LEMMA PositionIsThere ==
    ASSUME NEW elements, NEW m \in Nat, DOMAIN elements = 1 .. m
    PROVE  /\ Cardinality(Found(elements)) \in Nat
           /\ \A i \in Found(elements) :
                \E n \in 1 .. Cardinality(Found(elements)) : i = Position(elements, n)
           /\ \A n \in 1 .. Cardinality(Found(elements)) :
                /\ Position(elements, n) \in Found(elements)
                /\ Cardinality(Ahead(elements, Position(elements, n))) = n - 1
                /\ \A i \in Found(elements) :
                     Cardinality(Ahead(elements, i)) = n - 1 => i = Position(elements, n)
<1> DEFINE S == Found(elements)
           N == Cardinality(S)
           A(i) == Ahead(elements, i)
           P(i) == PlaceOf(elements[i].type)
           Size(i) == Cardinality(A(i))
<1>1. S \subseteq 1 .. m
    BY DEF Found
<1>2. IsFiniteSet(S) /\ N \in Nat
    <2>1. IsFiniteSet(1 .. m)
        BY FS_Interval
    <2> HIDE DEF S
    <2>2. IsFiniteSet(S)
        BY <1>1, <2>1, FS_Subset
    <2> QED
        BY <2>2, FS_CardinalityType
<1>3. \A i \in S : P(i) \in Nat /\ i \in Nat
    <2> SUFFICES ASSUME NEW i \in S PROVE P(i) \in DOMAIN ElementTypes
        BY <1>1 DEF ElementTypes
    <2>1. elements[i].type \in Range(ElementTypes)
        BY DEF Found
    <2>2. \E r \in DOMAIN ElementTypes : ElementTypes[r] = elements[i].type
        BY <2>1 DEF Range
    <2> HIDE DEF S
    <2> QED
        BY <2>2 DEF PlaceOf
<1>4. \A i, j \in S : j \in A(i) <=> (P(j) < P(i) \/ (P(j) = P(i) /\ j < i))
    BY DEF Ahead, Comes
<1>5. \A i \in S : A(i) \subseteq S
    BY DEF Ahead
<1> HIDE DEF S, A, P
<1>6. \A i \in S : IsFiniteSet(A(i)) /\ Size(i) \in Nat
    BY <1>2, <1>5, FS_Subset, FS_CardinalityType
<1>7. ASSUME NEW i \in S PROVE Size(i) \in 0 .. N - 1
    <2>1. i \notin A(i)
        BY <1>3, <1>4
    <2>2. Size(i) <= N /\ Size(i) # N
        BY <1>2, <1>5, <2>1, FS_Subset
    <2> QED
        BY <1>2, <1>6, <2>2
<1>8. ASSUME NEW i \in S, NEW j \in S, i \in A(j) PROVE Size(i) < Size(j)
    <2>1. A(i) \subseteq A(j)
        <3> SUFFICES ASSUME NEW l \in A(i) PROVE l \in A(j)
            OBVIOUS
        <3>1. l \in S
            BY <1>5
        <3> QED
            BY <1>3, <1>4, <1>8, <3>1
    <2>2. i \notin A(i)
        BY <1>3, <1>4
    <2>3. Size(i) <= Size(j) /\ Size(i) # Size(j)
        BY <1>6, <1>8, <2>1, <2>2, FS_Subset
    <2> QED
        BY <1>6, <2>3
<1>9. ASSUME NEW i \in S, NEW j \in S, Size(i) = Size(j) PROVE i = j
    <2>1. i \in A(j) \/ j \in A(i) \/ i = j
        BY <1>3, <1>4
    <2> HIDE DEF Size
    <2>2. ~(Size(i) < Size(j)) /\ ~(Size(j) < Size(i))
        BY <1>7, <1>9
    <2> QED
        BY <1>8, <2>1, <2>2
<1> DEFINE f == [i \in S |-> Size(i)]
           T == 0 .. N - 1
<1>10. f \in Injection(S, T)
    <2> HIDE DEF Size, N
    <2> QED
        BY <1>7, <1>9 DEF Injection, IsInjective
<1>11. IsFiniteSet(T) /\ Cardinality(T) = N
    <2>1. 0 \in Int /\ N - 1 \in Int
        BY <1>2
    <2> HIDE DEF N
    <2>2. /\ IsFiniteSet(0 .. N - 1)
          /\ Cardinality(0 .. N - 1) = IF 0 > N - 1 THEN 0 ELSE (N - 1) - 0 + 1
        BY <2>1, FS_Interval
    <2> QED
        BY <1>2, <2>2 DEF N
<1>12. f \in Surjection(S, T)
    <2> HIDE DEF f, T
    <2> QED
        BY <1>10, <1>11, FS_Injection
<1>13. \A n \in 1 .. N : \E i \in S : Size(i) = n - 1
    <2> SUFFICES ASSUME NEW n \in 1 .. N PROVE \E i \in S : Size(i) = n - 1
        OBVIOUS
    <2>1. n - 1 \in T
        BY <1>2
    <2>2. \E i \in S : f[i] = n - 1
        <3> HIDE DEF f, T
        <3> QED
            BY <1>12, <2>1 DEF Surjection
    <2> HIDE DEF Size
    <2> QED
        BY <2>2
<1>14. ASSUME NEW n \in 1 .. N
       PROVE  /\ Position(elements, n) \in S /\ Size(Position(elements, n)) = n - 1
              /\ \A i \in S : Size(i) = n - 1 => i = Position(elements, n)
    <2>1. \E i \in Found(elements) : Cardinality(Ahead(elements, i)) = n - 1
        BY <1>13 DEF S, A
    <2>2. Position(elements, n) \in S /\ Size(Position(elements, n)) = n - 1
        BY <2>1 DEF Position, S, A
    <2> HIDE DEF Size, N
    <2> QED
        BY <1>9, <2>2
<1>15. ASSUME NEW i \in S PROVE \E n \in 1 .. N : i = Position(elements, n)
    <2> DEFINE n == Size(i) + 1
    <2>1. n \in 1 .. N /\ Size(i) = n - 1
        BY <1>2, <1>7
    <2> HIDE DEF n, N
    <2> QED
        BY <1>14, <2>1
<1> QED
    BY <1>2, <1>14, <1>15 DEF S, A

\* Element for element, one file is the other moved: what is read of it.
Drawn(elem) == elem.type \in Range(ElementTypes) /\ DOMAIN elem.attrs # {}

Corresponding(file, other, u) ==
    /\ DOMAIN other.elements = DOMAIN file.elements
    /\ \A i \in DOMAIN file.elements :
         LET e == file.elements[i]
             f == other.elements[i]
         IN  /\ f.type = e.type
             /\ Drawn(e) <=> Drawn(f)
             /\ Drawn(e) => Moved(e, f, u)

\* Files whose drawings lie v apart, on canvases that are the same.  Something
\* in them has an extent: without, both have the rectangle of nothing.
Apart(file, other, v) ==
    LET parsed == Parse(file)
        k == GetScaleFactor(parsed)
    IN  /\ other.width = file.width /\ other.height = file.height /\ other.viewBox = file.viewBox
        /\ parsed.width \in Int /\ parsed.height \in Int
        /\ \E u : Amounts(u, v, k) /\ Corresponding(file, other, u)
        /\ \E i \in DOMAIN file.elements :
             Drawn(file.elements[i]) /\ HasExtent(CalculateElement(file.elements[i], k).bounds)

\* The elements read of the two correspond in their order.
LEMMA ExtractedMove ==
    ASSUME NEW file, NEW other, NEW u, NEW m \in Nat, DOMAIN file.elements = 1 .. m,
           Corresponding(file, other, u)
    PROVE  \E N \in Nat :
             /\ DOMAIN ExtractElements(file.elements) = 1 .. N
             /\ DOMAIN ExtractElements(other.elements) = 1 .. N
             /\ \A n \in 1 .. N :
                  Moved(ExtractElements(file.elements)[n], ExtractElements(other.elements)[n], u)
             /\ \A i \in Found(file.elements) :
                  \E n \in 1 .. N : ExtractElements(file.elements)[n] = file.elements[i]
<1> DEFINE a == file.elements
           b == other.elements
           S == Found(a)
           N == Cardinality(S)
<1>1. /\ DOMAIN a = 1 .. m /\ DOMAIN b = 1 .. m
      /\ \A i \in 1 .. m : b[i].type = a[i].type
    BY DEF Corresponding
<1>2. Found(b) = S
    BY DEF Corresponding, Found, Drawn
<1>3. \A i \in S : Moved(a[i], b[i], u)
    BY DEF Corresponding, Found, Drawn
<1>4. S \subseteq 1 .. m
    BY <1>1 DEF Found
<1> HIDE DEF a, b
<1>5. \A i \in S : Ahead(b, i) = Ahead(a, i)
    <2> SUFFICES ASSUME NEW i \in S PROVE Ahead(b, i) = Ahead(a, i)
        OBVIOUS
    <2>1. \A j \in S : Comes(b, j, i) <=> Comes(a, j, i)
        BY <1>1, <1>4 DEF Comes
    <2> QED
        BY <1>2, <2>1 DEF Ahead
<1>6. /\ N \in Nat
      /\ \A i \in S : \E n \in 1 .. N : i = Position(a, n)
      /\ \A n \in 1 .. N :
           /\ Position(a, n) \in S
           /\ \A i \in S : Cardinality(Ahead(a, i)) = n - 1 => i = Position(a, n)
    BY <1>1, PositionIsThere
<1>7. \A n \in 1 .. N : Position(b, n) \in S /\ Cardinality(Ahead(b, Position(b, n))) = n - 1
    <2>1. \A n \in 1 .. Cardinality(Found(b)) :
             /\ Position(b, n) \in Found(b)
             /\ Cardinality(Ahead(b, Position(b, n))) = n - 1
        BY <1>1, PositionIsThere
    <2> QED
        BY <1>2, <2>1
<1> HIDE DEF S
<1>8. \A n \in 1 .. N : Position(b, n) = Position(a, n)
    <2> SUFFICES ASSUME NEW n \in 1 .. N PROVE Position(b, n) = Position(a, n)
        OBVIOUS
    <2> DEFINE i == Position(b, n)
    <2>1. i \in S /\ Cardinality(Ahead(b, i)) = n - 1
        BY <1>7
    <2> HIDE DEF i
    <2>2. Cardinality(Ahead(a, i)) = n - 1
        BY <1>5, <2>1
    <2>3. i = Position(a, n)
        BY <1>6, <2>1, <2>2
    <2> QED
        BY <2>3 DEF i
<1>9. ExtractElements(a) = [n \in 1 .. N |-> a[Position(a, n)]]
    BY ExtractedAre DEF S
<1>10. ExtractElements(b) = [n \in 1 .. N |-> b[Position(b, n)]]
    BY <1>2, ExtractedAre DEF S
<1> HIDE DEF N
<1>11. \A n \in 1 .. N : Moved(ExtractElements(a)[n], ExtractElements(b)[n], u)
    <2> SUFFICES ASSUME NEW n \in 1 .. N PROVE Moved(ExtractElements(a)[n], ExtractElements(b)[n], u)
        OBVIOUS
    <2>1. ExtractElements(a)[n] = a[Position(a, n)] /\ ExtractElements(b)[n] = b[Position(a, n)]
        BY <1>8, <1>9, <1>10
    <2>2. Moved(a[Position(a, n)], b[Position(a, n)], u)
        BY <1>3, <1>6
    <2> QED
        BY <2>1, <2>2
<1>12. \A i \in S : \E n \in 1 .. N : ExtractElements(a)[n] = a[i]
    BY <1>6, <1>9
<1> QED
    BY <1>6, <1>9, <1>10, <1>11, <1>12 DEF a, b, S

-----------------------------------------------------------------------------
\* The smaller and the larger of two.
LEMMA OfTwo ==
    ASSUME NEW a \in Int, NEW b \in Int
    PROVE  Min({a, b}) = (IF a <= b THEN a ELSE b) /\ Max({a, b}) = (IF a <= b THEN b ELSE a)
<1>1. \A x \in {a, b} : (\A y \in {a, b} : x <= y) => x = IF a <= b THEN a ELSE b
    OBVIOUS
<1>2. \E x \in {a, b} : \A y \in {a, b} : x <= y
    OBVIOUS
<1>3. Min({a, b}) \in {a, b} /\ \A y \in {a, b} : Min({a, b}) <= y
    BY <1>2 DEF Min
<1>4. \A x \in {a, b} : (\A y \in {a, b} : x >= y) => x = IF a <= b THEN b ELSE a
    OBVIOUS
<1>5. \E x \in {a, b} : \A y \in {a, b} : x >= y
    OBVIOUS
<1>6. Max({a, b}) \in {a, b} /\ \A y \in {a, b} : Max({a, b}) >= y
    BY <1>5 DEF Max
<1> QED
    BY <1>1, <1>3, <1>4, <1>6

\* The same, without a set.
Lesser(a, b) == IF a <= b THEN a ELSE b
Greater(a, b) == IF a <= b THEN b ELSE a

\* The union of two rectangles, side by side.
LEMMA UnionIs ==
    ASSUME NEW b, NEW c, IsBox(b), IsBox(c)
    PROVE  Union(b, c) = Box(Lesser(b.minX, c.minX), Lesser(b.minY, c.minY),
                             Greater(b.maxX, c.maxX), Greater(b.maxY, c.maxY))
<1> DEFINE b1 == b.minX
           b2 == b.minY
           b3 == b.maxX
           b4 == b.maxY
           c1 == c.minX
           c2 == c.minY
           c3 == c.maxX
           c4 == c.maxY
<1>1. /\ b1 \in Int /\ b2 \in Int /\ b3 \in Int /\ b4 \in Int
      /\ c1 \in Int /\ c2 \in Int /\ c3 \in Int /\ c4 \in Int
    BY DEF IsBox
<1>2. Union(b, c) = Box(Min({b1, c1}), Min({b2, c2}), Max({b3, c3}), Max({b4, c4}))
    BY DEF Union
<1> HIDE DEF b1, b2, b3, b4, c1, c2, c3, c4
<1>3. Min({b1, c1}) = Lesser(b1, c1) /\ Min({b2, c2}) = Lesser(b2, c2)
    BY <1>1, OfTwo DEF Lesser
<1>4. Max({b3, c3}) = Greater(b3, c3) /\ Max({b4, c4}) = Greater(b4, c4)
    BY <1>1, OfTwo DEF Greater
<1> QED
    BY <1>2, <1>3, <1>4 DEF b1, b2, b3, b4, c1, c2, c3, c4

\* The union of two rectangles moves with them.
LEMMA UnionMoves ==
    ASSUME NEW b, NEW c, IsBox(b), IsBox(c), NEW v \in Plane
    PROVE  /\ IsBox(Union(b, c))
           /\ Union(ShiftedBox(b, v), ShiftedBox(c, v)) = ShiftedBox(Union(b, c), v)
<1> DEFINE dx == v[1]
           dy == v[2]
           s == ShiftedBox(b, v)
           t == ShiftedBox(c, v)
           x == Lesser(b.minX, c.minX)
           y == Lesser(b.minY, c.minY)
           z == Greater(b.maxX, c.maxX)
           w == Greater(b.maxY, c.maxY)
<1>1. /\ dx \in Int /\ dy \in Int
      /\ b.minX \in Int /\ b.minY \in Int /\ b.maxX \in Int /\ b.maxY \in Int
      /\ c.minX \in Int /\ c.minY \in Int /\ c.maxX \in Int /\ c.maxY \in Int
    BY DEF IsBox, Plane
<1>2. /\ s.minX = b.minX + dx /\ s.maxX = b.maxX + dx
      /\ s.minY = b.minY + dy /\ s.maxY = b.maxY + dy
      /\ t.minX = c.minX + dx /\ t.maxX = c.maxX + dx
      /\ t.minY = c.minY + dy /\ t.maxY = c.maxY + dy
    BY DEF ShiftedBox, Box
<1>3. IsBox(s) /\ IsBox(t)
    BY <1>1 DEF ShiftedBox, Box, IsBox
<1> HIDE DEF s, t, dx, dy
<1>4. \A p, q, d \in Int : /\ Lesser(p, q) \in Int /\ Lesser(p + d, q + d) = Lesser(p, q) + d
                           /\ Greater(p, q) \in Int /\ Greater(p + d, q + d) = Greater(p, q) + d
    BY DEF Lesser, Greater
<1>5. /\ Lesser(s.minX, t.minX) = x + dx /\ Lesser(s.minY, t.minY) = y + dy
      /\ Greater(s.maxX, t.maxX) = z + dx /\ Greater(s.maxY, t.maxY) = w + dy
    <2> DEFINE b1 == b.minX
               b2 == b.minY
               b3 == b.maxX
               b4 == b.maxY
               c1 == c.minX
               c2 == c.minY
               c3 == c.maxX
               c4 == c.maxY
    <2>0. /\ dx \in Int /\ b1 \in Int /\ b3 \in Int /\ c1 \in Int /\ c3 \in Int
          /\ dy \in Int /\ b2 \in Int /\ b4 \in Int /\ c2 \in Int /\ c4 \in Int
        BY <1>1
    <2>a. /\ x = Lesser(b1, c1) /\ y = Lesser(b2, c2) /\ z = Greater(b3, c3) /\ w = Greater(b4, c4)
        OBVIOUS
    <2>b. /\ s.minX = b1 + dx /\ s.maxX = b3 + dx /\ s.minY = b2 + dy /\ s.maxY = b4 + dy
          /\ t.minX = c1 + dx /\ t.maxX = c3 + dx /\ t.minY = c2 + dy /\ t.maxY = c4 + dy
        BY <1>2
    <2> HIDE DEF b1, b2, b3, b4, c1, c2, c3, c4
    <2>1. Lesser(b1 + dx, c1 + dx) = Lesser(b1, c1) + dx /\ Greater(b3 + dx, c3 + dx) = Greater(b3, c3) + dx
        BY <1>4, <2>0
    <2>2. Lesser(b2 + dy, c2 + dy) = Lesser(b2, c2) + dy /\ Greater(b4 + dy, c4 + dy) = Greater(b4, c4) + dy
        BY <1>4, <2>0
    <2> HIDE DEF x, y, z, w
    <2> QED
        BY <2>a, <2>b, <2>1, <2>2
<1>6. x \in Int /\ y \in Int /\ z \in Int /\ w \in Int
    BY <1>1, <1>4
<1>7. Union(b, c) = Box(x, y, z, w)
    BY UnionIs
<1>8. Union(s, t) = Box(x + dx, y + dy, z + dx, w + dy)
    BY <1>3, <1>5, UnionIs
<1> HIDE DEF x, y, z, w
<1> QED
    BY <1>6, <1>7, <1>8, BoxMoves DEF dx, dy, s, t

\* Moving a rectangle neither gives it an extent nor takes it.
LEMMA ExtentMoves ==
    ASSUME NEW b, IsBox(b), NEW v \in Plane
    PROVE  HasExtent(ShiftedBox(b, v)) <=> HasExtent(b)
BY DEF HasExtent, ShiftedBox, Box, IsBox, Plane

\* What an element does to the rectangle.
LEMMA ElementBounds ==
    ASSUME NEW result, NEW elem, NEW k, TotalsFields \subseteq DOMAIN result
    PROVE  LET geom == CalculateElement(elem, k)
               next == ProcessElement(result, elem, k)
           IN  /\ next.bounds = IF ~HasExtent(geom.bounds) THEN result.bounds
                                ELSE IF result.boundsInit THEN Union(result.bounds, geom.bounds)
                                     ELSE geom.bounds
               /\ next.boundsInit = (result.boundsInit \/ HasExtent(geom.bounds))
<1> DEFINE class == Classify(elem)
           geom == CalculateElement(elem, k)
           mid == Aggregated(result, class, geom)
           next == ProcessElement(result, elem, k)
<1>1. /\ DOMAIN mid = DOMAIN result
      /\ mid.bounds = result.bounds /\ mid.boundsInit = result.boundsInit
    <2> HIDE DEF class, geom
    <2> QED
        BY DEF Aggregated, TotalsFields
<1>2. next = [mid EXCEPT
                !.bounds = IF ~HasExtent(geom.bounds) THEN @
                           ELSE IF result.boundsInit THEN Union(@, geom.bounds)
                                ELSE geom.bounds,
                !.boundsInit = @ \/ HasExtent(geom.bounds)]
    BY DEF ProcessElement
<1>3. "bounds" \in DOMAIN mid /\ "boundsInit" \in DOMAIN mid
    BY <1>1 DEF TotalsFields
<1> HIDE DEF class, geom, mid, next
<1>4. /\ next.bounds = IF ~HasExtent(geom.bounds) THEN mid.bounds
                       ELSE IF result.boundsInit THEN Union(mid.bounds, geom.bounds)
                            ELSE geom.bounds
    BY <1>2, <1>3
<1>5. next.boundsInit = (mid.boundsInit \/ HasExtent(geom.bounds))
    BY <1>2, <1>3
<1> QED
    BY <1>1, <1>4, <1>5 DEF next, geom

\* Two analyses under way, of drawings v apart on the same canvas.
Alike(r, s, v) ==
    /\ TotalsFields \cup {"width", "height"} \subseteq DOMAIN r \cap DOMAIN s
    /\ r.width \in Int /\ r.height \in Int /\ s.width = r.width /\ s.height = r.height
    /\ \A field \in Counted : s[field] = r[field]
    /\ r.boundsInit \in BOOLEAN /\ s.boundsInit = r.boundsInit
    /\ r.boundsInit => IsBox(r.bounds) /\ s.bounds = ShiftedBox(r.bounds, v)

\* An element leaves the canvas as it was.
LEMMA CanvasStays ==
    ASSUME NEW result, NEW elem, NEW k, {"width", "height"} \subseteq DOMAIN result
    PROVE  LET next == ProcessElement(result, elem, k)
           IN  next.width = result.width /\ next.height = result.height
<1> DEFINE class == Classify(elem)
           geom == CalculateElement(elem, k)
           mid == Aggregated(result, class, geom)
           next == ProcessElement(result, elem, k)
<1>1. /\ DOMAIN mid = DOMAIN result /\ mid.width = result.width /\ mid.height = result.height
    <2> HIDE DEF class, geom
    <2> QED
        BY DEF Aggregated
<1>2. next = [mid EXCEPT
                !.bounds = IF ~HasExtent(geom.bounds) THEN @
                           ELSE IF result.boundsInit THEN Union(@, geom.bounds)
                                ELSE geom.bounds,
                !.boundsInit = @ \/ HasExtent(geom.bounds)]
    BY DEF ProcessElement
<1> HIDE DEF class, geom, mid, next
<1> QED
    BY <1>1, <1>2 DEF next

\* One more element leaves two analyses alike, and an extent is remembered.
LEMMA ElementsAlike ==
    ASSUME NEW r, NEW s, NEW v \in Plane, Alike(r, s, v), NEW e, NEW f, NEW k,
           Classify(f) = Classify(e), Carried(CalculateElement(e, k), CalculateElement(f, k), v)
    PROVE  /\ Alike(ProcessElement(r, e, k), ProcessElement(s, f, k), v)
           /\ r.boundsInit \/ HasExtent(CalculateElement(e, k).bounds)
                => ProcessElement(r, e, k).boundsInit
<1> DEFINE rr == ProcessElement(r, e, k)
           ss == ProcessElement(s, f, k)
           g == CalculateElement(e, k)
           h == CalculateElement(f, k)
           class == Classify(e)
<1>0. /\ TotalsFields \subseteq DOMAIN r /\ TotalsFields \subseteq DOMAIN s
      /\ {"width", "height"} \subseteq DOMAIN r /\ {"width", "height"} \subseteq DOMAIN s
    BY DEF Alike
<1>1. /\ DOMAIN rr = DOMAIN r
      /\ rr.cutLength = r.cutLength + If(class.cut, g.length)
      /\ rr.cutCount = r.cutCount + If(class.cut, 1)
      /\ rr.vectorLength = r.vectorLength + If(class.vector, g.length)
      /\ rr.vectorCount = r.vectorCount + If(class.vector, 1)
      /\ rr.rasterArea = r.rasterArea + If(class.raster, g.area)
      /\ rr.rasterCount = r.rasterCount + If(class.raster, 1)
      /\ rr.ignoredCount = r.ignoredCount + If(~(class.cut \/ class.vector \/ class.raster), 1)
    <2>1. LET kind == Classify(e)
              geom == CalculateElement(e, k)
              next == ProcessElement(r, e, k)
          IN  /\ DOMAIN next = DOMAIN r
              /\ next.elements = Append(r.elements, [class |-> kind, geom |-> geom])
              /\ next.cutLength = r.cutLength + If(kind.cut, geom.length)
              /\ next.cutCount = r.cutCount + If(kind.cut, 1)
              /\ next.vectorLength = r.vectorLength + If(kind.vector, geom.length)
              /\ next.vectorCount = r.vectorCount + If(kind.vector, 1)
              /\ next.rasterArea = r.rasterArea + If(kind.raster, geom.area)
              /\ next.rasterCount = r.rasterCount + If(kind.raster, 1)
              /\ next.ignoredCount =
                   r.ignoredCount + If(~(kind.cut \/ kind.vector \/ kind.raster), 1)
        BY <1>0, ElementAdds
    <2> QED
        BY <2>1
<1>2. /\ DOMAIN ss = DOMAIN s
      /\ ss.cutLength = s.cutLength + If(class.cut, h.length)
      /\ ss.cutCount = s.cutCount + If(class.cut, 1)
      /\ ss.vectorLength = s.vectorLength + If(class.vector, h.length)
      /\ ss.vectorCount = s.vectorCount + If(class.vector, 1)
      /\ ss.rasterArea = s.rasterArea + If(class.raster, h.area)
      /\ ss.rasterCount = s.rasterCount + If(class.raster, 1)
      /\ ss.ignoredCount = s.ignoredCount + If(~(class.cut \/ class.vector \/ class.raster), 1)
    <2>1. Classify(f) = class
        OBVIOUS
    <2>2. LET kind == Classify(f)
              geom == CalculateElement(f, k)
              next == ProcessElement(s, f, k)
          IN  /\ DOMAIN next = DOMAIN s
              /\ next.elements = Append(s.elements, [class |-> kind, geom |-> geom])
              /\ next.cutLength = s.cutLength + If(kind.cut, geom.length)
              /\ next.cutCount = s.cutCount + If(kind.cut, 1)
              /\ next.vectorLength = s.vectorLength + If(kind.vector, geom.length)
              /\ next.vectorCount = s.vectorCount + If(kind.vector, 1)
              /\ next.rasterArea = s.rasterArea + If(kind.raster, geom.area)
              /\ next.rasterCount = s.rasterCount + If(kind.raster, 1)
              /\ next.ignoredCount =
                   s.ignoredCount + If(~(kind.cut \/ kind.vector \/ kind.raster), 1)
        BY <1>0, ElementAdds
    <2> HIDE DEF class
    <2> QED
        BY <2>1, <2>2
<1>3. /\ rr.bounds = IF ~HasExtent(g.bounds) THEN r.bounds
                     ELSE IF r.boundsInit THEN Union(r.bounds, g.bounds) ELSE g.bounds
      /\ rr.boundsInit = (r.boundsInit \/ HasExtent(g.bounds))
    BY <1>0, ElementBounds
<1>4. /\ ss.bounds = IF ~HasExtent(h.bounds) THEN s.bounds
                     ELSE IF s.boundsInit THEN Union(s.bounds, h.bounds) ELSE h.bounds
      /\ ss.boundsInit = (s.boundsInit \/ HasExtent(h.bounds))
    BY <1>0, ElementBounds
<1>5. rr.width = r.width /\ rr.height = r.height /\ ss.width = s.width /\ ss.height = s.height
    BY <1>0, CanvasStays
<1>6. /\ h.length = g.length /\ h.area = g.area
      /\ \/ IsBox(g.bounds) /\ h.bounds = ShiftedBox(g.bounds, v)
         \/ ~HasExtent(g.bounds) /\ ~HasExtent(h.bounds)
    BY DEF Carried
<1> HIDE DEF rr, ss, g, h, class
<1>7. HasExtent(h.bounds) <=> HasExtent(g.bounds)
    BY <1>6, ExtentMoves
<1>8. \A field \in Counted : ss[field] = rr[field]
    <2>1. \A field \in Counted : s[field] = r[field]
        BY DEF Alike
    <2>2. /\ ss.cutLength = rr.cutLength /\ ss.cutCount = rr.cutCount
          /\ ss.vectorLength = rr.vectorLength /\ ss.vectorCount = rr.vectorCount
          /\ ss.rasterArea = rr.rasterArea /\ ss.rasterCount = rr.rasterCount
          /\ ss.ignoredCount = rr.ignoredCount
        BY <1>1, <1>2, <1>6, <2>1 DEF Counted
    <2> QED
        BY <2>2 DEF Counted
<1>9. rr.boundsInit \in BOOLEAN /\ ss.boundsInit = rr.boundsInit
    <2>1. r.boundsInit \in BOOLEAN /\ s.boundsInit = r.boundsInit
        BY DEF Alike
    <2> QED
        BY <1>3, <1>4, <1>7, <2>1 DEF HasExtent
<1>10. ASSUME rr.boundsInit PROVE IsBox(rr.bounds) /\ ss.bounds = ShiftedBox(rr.bounds, v)
    <2>1. /\ r.boundsInit \in BOOLEAN /\ s.boundsInit = r.boundsInit
          /\ r.boundsInit => IsBox(r.bounds) /\ s.bounds = ShiftedBox(r.bounds, v)
        BY DEF Alike
    <2>2. CASE ~HasExtent(g.bounds)
        BY <1>3, <1>4, <1>7, <1>10, <2>1, <2>2
    <2>3. CASE HasExtent(g.bounds) /\ ~r.boundsInit
        BY <1>3, <1>4, <1>6, <1>7, <2>1, <2>3
    <2>4. CASE HasExtent(g.bounds) /\ r.boundsInit
        BY <1>3, <1>4, <1>6, <1>7, <2>1, <2>4, UnionMoves
    <2> QED
        BY <2>1, <2>2, <2>3, <2>4
<1>11. Alike(rr, ss, v)
    BY <1>0, <1>1, <1>2, <1>5, <1>8, <1>9, <1>10 DEF Alike
<1>12. r.boundsInit \/ HasExtent(g.bounds) => rr.boundsInit
    BY <1>3
<1> QED
    BY <1>11, <1>12 DEF rr, ss, g

\* So does the loop over all of them.
LEMMA LoopsAlike ==
    ASSUME NEW N \in Nat, NEW a, NEW b, NEW k, NEW v \in Plane, NEW r, NEW s,
           Alike(r[0], s[0], v),
           \A n \in 1 .. N : /\ r[n] = ProcessElement(r[n - 1], a[n], k)
                             /\ s[n] = ProcessElement(s[n - 1], b[n], k)
                             /\ Classify(b[n]) = Classify(a[n])
                             /\ Carried(CalculateElement(a[n], k), CalculateElement(b[n], k), v)
    PROVE  /\ Alike(r[N], s[N], v)
           /\ (\E i \in 1 .. N : HasExtent(CalculateElement(a[i], k).bounds)) => r[N].boundsInit
<1> DEFINE Seen(n) == \E i \in 1 .. n : HasExtent(CalculateElement(a[i], k).bounds)
           Good(n) == Alike(r[n], s[n], v) /\ (Seen(n) => r[n].boundsInit)
           Bad == {n \in 0 .. N : ~Good(n)}
<1>1. Good(0)
    OBVIOUS
<1>2. ASSUME NEW n \in Bad PROVE n # 0 /\ n - 1 \in Bad
    <2>1. n # 0
        BY <1>1
    <2>2. n \in 1 .. N /\ n - 1 \in 0 .. N /\ (n - 1) + 1 = n
        BY <2>1
    <2>3. ASSUME Good(n - 1) PROVE Good(n)
        <3> DEFINE rr == r[n - 1]
                   ss == s[n - 1]
                   e == a[n]
                   f == b[n]
        <3>1. /\ r[n] = ProcessElement(rr, e, k) /\ s[n] = ProcessElement(ss, f, k)
              /\ Classify(f) = Classify(e)
              /\ Carried(CalculateElement(e, k), CalculateElement(f, k), v)
            BY <2>2
        <3>2. Alike(rr, ss, v) /\ (Seen(n - 1) => rr.boundsInit)
            BY <2>3
        <3>3. Seen(n) => Seen(n - 1) \/ HasExtent(CalculateElement(e, k).bounds)
            <4>1. \A i \in 1 .. n : i = n \/ i \in 1 .. n - 1
                BY <2>2
            <4> QED
                BY <4>1
        <3> HIDE DEF rr, ss, e, f, Seen
        <3>4. /\ Alike(ProcessElement(rr, e, k), ProcessElement(ss, f, k), v)
              /\ rr.boundsInit \/ HasExtent(CalculateElement(e, k).bounds)
                   => ProcessElement(rr, e, k).boundsInit
            BY <3>1, <3>2, ElementsAlike
        <3> QED
            BY <3>1, <3>2, <3>3, <3>4
    <2>4. ~Good(n)
        OBVIOUS
    <2> HIDE DEF Good
    <2> QED
        BY <2>1, <2>2, <2>3, <2>4
<1>3. Bad \subseteq Nat
    OBVIOUS
<1> HIDE DEF Bad
<1>4. Bad = {}
    BY <1>2, <1>3, NoLeast
<1>5. Good(N)
    <2>1. N \in 0 .. N
        OBVIOUS
    <2> HIDE DEF Good
    <2> QED
        BY <1>4, <2>1 DEF Bad
<1> QED
    BY <1>5

\* What two analyses of drawings v apart have in common.
Agree(a, b, v) ==
    /\ Measures(b) = Measures(a) /\ HasAnyWork(b) = HasAnyWork(a)
    /\ a.width \in Int /\ a.height \in Int /\ b.width = a.width /\ b.height = a.height
    /\ IsBox(a.bounds) /\ b.bounds = ShiftedBox(a.bounds, v)

\* run is the loop over the elements of the file; the analysis is what it ends with.
Ends(file, k, N, run) ==
    LET elements == ExtractElements(file.elements)
        a == ToModel(Analyze(file))
    IN  /\ run[0] = Start(Parse(file))
        /\ \A n \in 1 .. N : run[n] = ProcessElement(run[n - 1], elements[n], k)
        /\ TotalsFields \cup {"width", "height"} \subseteq DOMAIN run[N]
             => /\ \A field \in Counted : a[field] = run[N][field]
                /\ a.bounds = run[N].bounds
                /\ a.width = run[N].width /\ a.height = run[N].height

\* Every analysis is such a loop.
LEMMA EndOfLoop ==
    ASSUME NEW file, NEW N \in Nat, DOMAIN ExtractElements(file.elements) = 1 .. N,
           NEW k, k = GetScaleFactor(Parse(file))
    PROVE  \E run : Ends(file, k, N, run)
<1> DEFINE parsed == Parse(file)
           elements == parsed.elements
           base == Start(parsed)
           result == Looped(base, elements, k)
           mid == Analyze(file)
           a == ToModel(mid)
<1>1. elements = ExtractElements(file.elements)
    BY DEF Parse
<1>2. mid = [result EXCEPT !.warnings = IF NothingUsable(result)
                           THEN @ \cup {"No elements with standard colors"} ELSE @]
    BY DEF Analyze, Looped
<1>3. /\ \A field \in Counted : a[field] = mid[field]
      /\ a.bounds = mid.bounds /\ a.width = mid.width /\ a.height = mid.height
    <2> HIDE DEF mid
    <2> QED
        BY DEF ToModel, Counted
<1> HIDE DEF parsed, elements, base, result, mid, a
<1>4. PICK run : /\ run[0] = base
                 /\ \A m \in 1 .. N : run[m] = ProcessElement(run[m - 1], elements[m], k)
                 /\ Looped(base, elements, k) = run[N]
    BY <1>1, Accumulates
<1>5. result = run[N]
    BY <1>4 DEF result
<1>6. ASSUME TotalsFields \cup {"width", "height"} \subseteq DOMAIN run[N]
      PROVE  /\ \A field \in Counted : a[field] = run[N][field]
             /\ a.bounds = run[N].bounds /\ a.width = run[N].width /\ a.height = run[N].height
    <2>1. TotalsFields \cup {"width", "height"} \subseteq DOMAIN result
        BY <1>5, <1>6
    <2>2. /\ \A field \in Counted : mid[field] = result[field]
          /\ mid.bounds = result.bounds /\ mid.width = result.width /\ mid.height = result.height
        BY <1>2, <2>1 DEF Counted, TotalsFields
    <2> QED
        BY <1>3, <1>5, <2>2
<1>7. /\ run[0] = Start(Parse(file))
      /\ \A m \in 1 .. N :
           run[m] = ProcessElement(run[m - 1], ExtractElements(file.elements)[m], k)
    BY <1>1, <1>4 DEF base, parsed
<1> QED
    BY <1>6, <1>7 DEF Ends, a, mid

\* The analyses of two files whose drawings lie apart agree.
LEMMA AnalysesAgree ==
    ASSUME NEW file, NEW other, NEW v, NEW m \in Nat, DOMAIN file.elements = 1 .. m,
           Apart(file, other, v)
    PROVE  Agree(ToModel(Analyze(file)), ToModel(Analyze(other)), v)
<1> DEFINE p == Parse(file)
           q == Parse(other)
           k == GetScaleFactor(p)
           es == ExtractElements(file.elements)
           fs == ExtractElements(other.elements)
           a == ToModel(Analyze(file))
           b == ToModel(Analyze(other))
<1>1. p.width \in Int /\ p.height \in Int
    BY DEF Apart
<1>2. q.width = p.width /\ q.height = p.height /\ q.viewBox = p.viewBox
    BY DEF Apart, Parse
<1>3. PICK u : Amounts(u, v, k) /\ Corresponding(file, other, u)
    BY DEF Apart
<1>4. PICK i \in DOMAIN file.elements :
         Drawn(file.elements[i]) /\ HasExtent(CalculateElement(file.elements[i], k).bounds)
    BY DEF Apart
<1>5. v \in Plane
    BY <1>3 DEF Amounts
<1>6. GetScaleFactor(q) = k
    BY <1>2 DEF GetScaleFactor
<1>7. PICK N \in Nat :
        /\ DOMAIN es = 1 .. N /\ DOMAIN fs = 1 .. N
        /\ \A n \in 1 .. N : Moved(es[n], fs[n], u)
        /\ \A j \in Found(file.elements) : \E n \in 1 .. N : es[n] = file.elements[j]
    BY <1>3, ExtractedMove
<1>8. \E n \in 1 .. N : HasExtent(CalculateElement(es[n], k).bounds)
    <2>1. i \in Found(file.elements)
        BY <1>4 DEF Found, Drawn
    <2>2. PICK n \in 1 .. N : es[n] = file.elements[i]
        BY <1>7, <2>1
    <2> QED
        BY <1>4, <2>2
<1> DEFINE from == Start(p)
           upon == Start(q)
<1>9. Alike(from, upon, v)
    <2>1. /\ from.width = p.width /\ upon.width = q.width
          /\ from.height = p.height /\ upon.height = q.height
          /\ from.boundsInit = FALSE /\ upon.boundsInit = FALSE
          /\ \A field \in Counted : from[field] = 0 /\ upon[field] = 0
          /\ TotalsFields \cup {"width", "height"} \subseteq DOMAIN from
          /\ TotalsFields \cup {"width", "height"} \subseteq DOMAIN upon
        BY DEF Start, Counted, TotalsFields
    <2> HIDE DEF from, upon, p, q
    <2> QED
        BY <1>1, <1>2, <2>1 DEF Alike
<1> HIDE DEF from, upon, k, es, fs, a, b
<1>10. PICK r : /\ r[0] = from
                /\ \A n \in 1 .. N : r[n] = ProcessElement(r[n - 1], es[n], k)
                /\ TotalsFields \cup {"width", "height"} \subseteq DOMAIN r[N]
                     => /\ \A field \in Counted : a[field] = r[N][field]
                        /\ a.bounds = r[N].bounds
                        /\ a.width = r[N].width /\ a.height = r[N].height
    <2>1. DOMAIN ExtractElements(file.elements) = 1 .. N /\ k = GetScaleFactor(Parse(file))
        BY <1>7 DEF es, k
    <2>2. PICK run : Ends(file, k, N, run)
        BY <2>1, EndOfLoop
    <2> QED
        BY <2>2 DEF Ends, from, es, a
<1>11. PICK s : /\ s[0] = upon
                /\ \A n \in 1 .. N : s[n] = ProcessElement(s[n - 1], fs[n], k)
                /\ TotalsFields \cup {"width", "height"} \subseteq DOMAIN s[N]
                     => /\ \A field \in Counted : b[field] = s[N][field]
                        /\ b.bounds = s[N].bounds
                        /\ b.width = s[N].width /\ b.height = s[N].height
    <2>1. DOMAIN ExtractElements(other.elements) = 1 .. N /\ k = GetScaleFactor(Parse(other))
        BY <1>6, <1>7 DEF fs
    <2>2. PICK run : Ends(other, k, N, run)
        BY <2>1, EndOfLoop
    <2> QED
        BY <2>2 DEF Ends, upon, fs, b
<1>12. ASSUME NEW n \in 1 .. N
       PROVE  /\ Classify(fs[n]) = Classify(es[n])
              /\ Carried(CalculateElement(es[n], k), CalculateElement(fs[n], k), v)
    <2> DEFINE e == es[n]
               f == fs[n]
    <2>1. Moved(e, f, u)
        BY <1>7
    <2> HIDE DEF e, f
    <2>2. Classify(f) = Classify(e) /\ Carried(CalculateElement(e, k), CalculateElement(f, k), v)
        BY <1>3, <2>1, ElementMoves
    <2> QED
        BY <2>2 DEF e, f
<1>13. Alike(r[N], s[N], v) /\ r[N].boundsInit
    <2>1. Alike(r[0], s[0], v)
        BY <1>9, <1>10, <1>11
    <2>2. \A n \in 1 .. N : /\ r[n] = ProcessElement(r[n - 1], es[n], k)
                            /\ s[n] = ProcessElement(s[n - 1], fs[n], k)
                            /\ Classify(fs[n]) = Classify(es[n])
                            /\ Carried(CalculateElement(es[n], k), CalculateElement(fs[n], k), v)
        BY <1>10, <1>11, <1>12
    <2> QED
        BY <1>5, <1>8, <2>1, <2>2, LoopsAlike
<1> DEFINE rr == r[N]
           ss == s[N]
<1>14. /\ rr.width \in Int /\ rr.height \in Int /\ ss.width = rr.width /\ ss.height = rr.height
       /\ \A field \in Counted : ss[field] = rr[field]
       /\ IsBox(rr.bounds) /\ ss.bounds = ShiftedBox(rr.bounds, v)
       /\ TotalsFields \cup {"width", "height"} \subseteq DOMAIN rr
       /\ TotalsFields \cup {"width", "height"} \subseteq DOMAIN ss
    <2>1. Alike(rr, ss, v) /\ rr.boundsInit
        BY <1>13
    <2> HIDE DEF rr, ss
    <2> QED
        BY <2>1 DEF Alike
<1>15. /\ \A field \in Counted : a[field] = rr[field]
       /\ a.bounds = rr.bounds /\ a.width = rr.width /\ a.height = rr.height
    BY <1>10, <1>14
<1>16. /\ \A field \in Counted : b[field] = ss[field]
       /\ b.bounds = ss.bounds /\ b.width = ss.width /\ b.height = ss.height
    BY <1>11, <1>14
<1> HIDE DEF rr, ss
<1>17. \A field \in Counted : b[field] = a[field]
    BY <1>14, <1>15, <1>16
<1>18. Measures(b) = Measures(a) /\ HasAnyWork(b) = HasAnyWork(a)
    BY <1>17 DEF Counted, Measures, HasAnyWork
<1>19. Agree(a, b, v)
    BY <1>14, <1>15, <1>16, <1>18 DEF Agree
<1> QED
    BY <1>19 DEF a, b

\* Of a rectangle on its canvas nothing is cut away.
LEMMA AreaOnCanvas ==
    ASSUME NEW a, a.width \in Int, a.height \in Int, IsBox(a.bounds), OnCanvas(a)
    PROVE  LET w == a.bounds.maxX - a.bounds.minX
               h == a.bounds.maxY - a.bounds.minY
           IN  TotalArea(a) = IF a.width <= 0 \/ a.height <= 0 \/ (w > 0 /\ h > 0)
                              THEN w * h ELSE a.width * a.height
<1> DEFINE x == a.bounds.minX
           y == a.bounds.minY
           z == a.bounds.maxX
           t == a.bounds.maxY
           w == a.width
           h == a.height
<1>1. x \in Int /\ y \in Int /\ z \in Int /\ t \in Int /\ w \in Int /\ h \in Int
    BY DEF IsBox
<1>2. x >= 0 /\ y >= 0 /\ z <= w /\ t <= h
    BY DEF OnCanvas
<1>3. TotalArea(a) =
        LET minX == Max({x, 0})
            minY == Max({y, 0})
            maxX == Min({z, w})
            maxY == Min({t, h})
        IN IF w <= 0 \/ h <= 0
           THEN (z - x) * (t - y)
           ELSE IF maxX > minX /\ maxY > minY
                THEN (maxX - minX) * (maxY - minY)
                ELSE w * h
    BY DEF TotalArea
<1> HIDE DEF x, y, z, t, w, h
<1>4. \A n \in Int : n >= 0 => Max({n, 0}) = n
    <2> DEFINE zero == 0
    <2>1. zero \in Int
        OBVIOUS
    <2> HIDE DEF zero
    <2>2. \A n \in Int : Max({n, zero}) = Greater(n, zero)
        BY <2>1, OfTwo DEF Greater
    <2> QED
        BY <2>2 DEF Greater, zero
<1>5. Max({x, 0}) = x /\ Max({y, 0}) = y
    BY <1>1, <1>2, <1>4
<1>6. Min({z, w}) = z
    <2>1. Min({z, w}) = IF z <= w THEN z ELSE w
        BY <1>1, OfTwo
    <2> QED
        BY <1>2, <2>1
<1>7. Min({t, h}) = t
    <2>1. Min({t, h}) = IF t <= h THEN t ELSE h
        BY <1>1, OfTwo
    <2> QED
        BY <1>2, <2>1
<1>8. TotalArea(a) = IF w <= 0 \/ h <= 0 THEN (z - x) * (t - y)
                     ELSE IF z > x /\ t > y THEN (z - x) * (t - y) ELSE w * h
    BY <1>3, <1>5, <1>6, <1>7
<1>9. (z > x <=> z - x > 0) /\ (t > y <=> t - y > 0)
    BY <1>1
<1>10. TotalArea(a) = IF w <= 0 \/ h <= 0 \/ (z - x > 0 /\ t - y > 0)
                      THEN (z - x) * (t - y) ELSE w * h
    BY <1>8, <1>9
<1> QED
    BY <1>10 DEF x, y, z, t, w, h

\* The area charged is the same for two rectangles on their canvases.
LEMMA SameArea ==
    ASSUME NEW a, NEW b, NEW v \in Plane, Agree(a, b, v), OnCanvas(a), OnCanvas(b)
    PROVE  TotalArea(b) = TotalArea(a)
<1> DEFINE W(c) == c.bounds.maxX - c.bounds.minX
           H(c) == c.bounds.maxY - c.bounds.minY
<1>1. /\ a.width \in Int /\ a.height \in Int /\ b.width = a.width /\ b.height = a.height
      /\ IsBox(a.bounds) /\ b.bounds = ShiftedBox(a.bounds, v)
    BY DEF Agree
<1>2. IsBox(b.bounds) /\ W(b) = W(a) /\ H(b) = H(a)
    BY <1>1 DEF IsBox, ShiftedBox, Box, Plane
<1>3. TotalArea(a) = IF a.width <= 0 \/ a.height <= 0 \/ (W(a) > 0 /\ H(a) > 0)
                     THEN W(a) * H(a) ELSE a.width * a.height
    BY <1>1, AreaOnCanvas
<1>4. TotalArea(b) = IF b.width <= 0 \/ b.height <= 0 \/ (W(b) > 0 /\ H(b) > 0)
                     THEN W(b) * H(b) ELSE b.width * b.height
    BY <1>1, <1>2, AreaOnCanvas
<1> HIDE DEF W, H
<1> QED
    BY <1>1, <1>2, <1>3, <1>4

\* An upload with what came of it: the analysis is the engine's of the file,
\* and the answer the analysis's.
Told(upload, model, answer) ==
    /\ upload \in Uploads
    /\ model = ToModel(Analyze(upload.file))
    /\ answer = IF HasAnyWork(model) THEN "saved" ELSE "EMPTY_SVG"

\* Nothing is forgotten of the file posted first; the second is the drawing's
\* original.
Retold ==
    /\ svg \in Uploads
    /\ reply # "none" => Told(svg, analysis, reply)
    /\ before # NoAnalysis => /\ Told(before.svg, before.analysis, before.reply)
                              /\ svg = Original[before.svg.drawing]

\* Retold is an invariant, inductive as it stands.
LEMMA RetoldCorrect == SvgSpec => []Retold
<1>1. SvgInit => Retold
    BY DEF SvgInit, Retold
<1>2. Retold /\ [SvgNext]_svgVars => Retold'
    <2> SUFFICES ASSUME Retold, [SvgNext]_svgVars PROVE Retold'
        OBVIOUS
    <2>1. CASE AnalyzeUpload
        <3>1. Told(svg, analysis', reply')
            BY <2>1 DEF AnalyzeUpload, Retold, Told
        <3> QED
            BY <2>1, <3>1 DEF AnalyzeUpload, Retold, Told
    <2>2. CASE PostAgain
        <3>1. Told(svg, analysis, reply)
            BY <2>2 DEF PostAgain, Retold
        <3>2. Original[svg.drawing] \in Uploads
            BY UploadsAssumption DEF Retold
        <3>3. /\ before'.svg = svg /\ before'.analysis = analysis /\ before'.reply = reply
              /\ svg' = Original[svg.drawing] /\ reply' = "none"
            BY <2>2 DEF PostAgain
        <3> QED
            BY <3>1, <3>2, <3>3 DEF Retold, Told
    <2>3. CASE UNCHANGED svgVars
        BY <2>3 DEF svgVars, Retold, Told
    <2> QED
        BY <2>1, <2>2, <2>3 DEF SvgNext
<1> QED
    BY <1>1, <1>2, PTL DEF SvgSpec

(***************************************************************************)
(* The measures, the answer and the area charged are the same wherever on  *)
(* its canvas a drawing lies, and the rectangle goes with it, whenever the *)
(* file posted again is the first one moved: any number of rectangles,     *)
(* circles, ellipses, lines, polylines and polygons, something among them  *)
(* with an extent, on any canvas (parser.go:263, geometry.go:45,           *)
(* analyzer.go:141-175, svg_analysis.go:57).                               *)
(***************************************************************************)
THEOREM MovedDrawingsAgree ==
    SvgSpec => [](LET v == <<svg.at[1] - before.svg.at[1], svg.at[2] - before.svg.at[2]>>
                  IN  Compared /\ Apart(before.svg.file, svg.file, v)
                        => SameMeasures /\ ExtentFollows)
<1> DEFINE v == <<svg.at[1] - before.svg.at[1], svg.at[2] - before.svg.at[2]>>
           Agreed == Compared /\ Apart(before.svg.file, svg.file, v)
                       => SameMeasures /\ ExtentFollows
<1>1. Retold => Agreed
    <2> SUFFICES ASSUME Retold, Compared, Apart(before.svg.file, svg.file, v)
                 PROVE  SameMeasures /\ ExtentFollows
        OBVIOUS
    <2> DEFINE u == before.svg
               a == before.analysis
               b == analysis
               file == u.file
               other == svg.file
               n == Len(file.elements)
    <2>1. Told(u, a, before.reply) /\ Told(svg, b, reply)
        BY DEF Retold, Compared
    <2>2. u \in Uploads
        BY <2>1 DEF Told
    <2>3. Apart(file, other, v)
        OBVIOUS
    <2>4. n \in Nat /\ DOMAIN file.elements = 1 .. n
        BY <2>2, UploadsAssumption
    <2>5. a = ToModel(Analyze(file)) /\ b = ToModel(Analyze(other))
        BY <2>1 DEF Told
    <2> HIDE DEF a, b, file, other, n, v
    <2>6. Agree(a, b, v)
        BY <2>3, <2>4, <2>5, AnalysesAgree
    <2>7. v \in Plane
        BY <2>3 DEF Apart, Amounts
    <2>8. Measures(b) = Measures(a) /\ reply = before.reply
        BY <2>1, <2>6 DEF Agree, Told, a, b
    <2>9. b.bounds = Box(a.bounds.minX + v[1], a.bounds.minY + v[2],
                         a.bounds.maxX + v[1], a.bounds.maxY + v[2])
        BY <2>6 DEF Agree, ShiftedBox
    <2>10. OnCanvas(b) /\ OnCanvas(a) => TotalArea(b) = TotalArea(a)
        BY <2>6, <2>7, SameArea
    <2>11. SameMeasures
        BY <2>8 DEF SameMeasures, a, b
    <2>12. v[1] = svg.at[1] - u.at[1] /\ v[2] = svg.at[2] - u.at[2]
        BY DEF v
    <2>13. ExtentFollows
        BY <2>9, <2>10, <2>12 DEF ExtentFollows, a, b
    <2> QED
        BY <2>11, <2>13
<1> QED
    BY <1>1, RetoldCorrect, PTL
=============================================================================

------------------------------ MODULE ConfigCache ------------------------------
(***************************************************************************)
(* The cache of the pricing configuration: ConfigLoader of                 *)
(* internal/services/pricing/config_loader.go.                             *)
(*                                                                         *)
(* Load gives the cached configuration while it is younger than cacheTTL.  *)
(* Otherwise refresh reads the tables of the catalogue, one query after    *)
(* the other and without a transaction, and replaces the cache.  Several   *)
(* requests may refresh at once; the administrator edits the tables and    *)
(* nothing tells the cache.  The mutex is held for one assignment or one   *)
(* comparison, so an action is a query or what is done under the lock.     *)
(*                                                                         *)
(* Values of a table are version numbers: how often it has been edited.    *)
(***************************************************************************)
EXTENDS Integers, Sequences

CONSTANTS
    Readers,    \* goroutines that may call Load
    LastTable,  \* the tables are read in the order 1 .. LastTable
    TTL,        \* cacheTTL
    MaxTime,    \* bound: the clock stops there
    MaxEdits    \* bound: edits of one table

ASSUME CacheAssumption ==
    /\ LastTable \in Nat \ {0} /\ TTL \in Nat \ {0}
    /\ MaxTime \in Nat /\ MaxEdits \in Nat

Tables == 1 .. LastTable
Time == 0 .. MaxTime

VARIABLES
    now,
    edits,      \* edits[t]: when table t was edited; its length is the version
    cache,      \* the configuration cached
    loc,        \* loc[r]: where reader r is in Load
    config,     \* config[r]: the configuration r is building, or was given
    read,       \* read[r]: how many tables r has read
    asked       \* asked[r]: when r called Load (history)
loader == <<loc, config, read, asked>>
cacheVars == <<now, edits, cache, loader>>

\* No cache is as good as one that has expired.
NoConfig == [loadedAt |-> -TTL, version |-> [t \in Tables |-> 0]]

CacheInit ==
    /\ now = 0
    /\ edits = [t \in Tables |-> <<>>]
    /\ cache = NoConfig
    /\ loc = [r \in Readers |-> "idle"]
    /\ config = [r \in Readers |-> NoConfig]
    /\ read = [r \in Readers |-> 0]
    /\ asked = [r \in Readers |-> 0]

Tick ==
    /\ now < MaxTime
    /\ now' = now + 1
    /\ UNCHANGED <<edits, cache, loader>>

\* The administrator saves a row of the table.
Edit(t) ==
    /\ Len(edits[t]) < MaxEdits
    /\ edits' = [edits EXCEPT ![t] = Append(@, now)]
    /\ UNCHANGED <<now, cache, loader>>

-----------------------------------------------------------------------------
Move(r, from, to) ==
    /\ loc[r] = from
    /\ loc' = [loc EXCEPT ![r] = to]

Fresh(c) == now - c.loadedAt < TTL

Hit(r) ==
    /\ Fresh(cache)
    /\ Move(r, "idle", "loaded")
    /\ config' = [config EXCEPT ![r] = cache]
    /\ asked' = [asked EXCEPT ![r] = now]
    /\ UNCHANGED <<now, edits, cache, read>>

\* refresh begins; LoadedAt is the time before the first query.
Miss(r) ==
    /\ ~ Fresh(cache)
    /\ Move(r, "idle", "refresh")
    /\ config' = [config EXCEPT ![r] = [NoConfig EXCEPT !.loadedAt = now]]
    /\ asked' = [asked EXCEPT ![r] = now]
    /\ UNCHANGED <<now, edits, cache, read>>

ReadTable(r) ==
    /\ loc[r] = "refresh" /\ read[r] < LastTable
    /\ read' = [read EXCEPT ![r] = @ + 1]
    /\ config' = [config EXCEPT ![r].version[read[r] + 1] = Len(edits[read[r] + 1])]
    /\ UNCHANGED <<now, edits, cache, loc, asked>>

QueryFails(r) ==
    /\ read[r] < LastTable
    /\ Move(r, "refresh", "failed")
    /\ UNCHANGED <<now, edits, cache, config, read, asked>>

\* Mutant: LoadedAt is the time after the last query.
StoreStamped(r) ==
    /\ read[r] = LastTable
    /\ Move(r, "refresh", "loaded")
    /\ cache' = [config[r] EXCEPT !.loadedAt = now]
    /\ UNCHANGED <<now, edits, config, read, asked>>

\* The cache is replaced, whatever it has become meanwhile.
Store(r) ==
    /\ read[r] = LastTable
    /\ Move(r, "refresh", "loaded")
    /\ cache' = config[r]
    /\ UNCHANGED <<now, edits, config, read, asked>>

\* Load has returned and its caller goes on.
Return(r, outcome) ==
    /\ Move(r, outcome, "idle")
    /\ config' = [config EXCEPT ![r] = NoConfig]
    /\ read' = [read EXCEPT ![r] = 0]
    /\ asked' = [asked EXCEPT ![r] = 0]
    /\ UNCHANGED <<now, edits, cache>>

Load(r) == Hit(r) \/ Miss(r) \/ ReadTable(r) \/ QueryFails(r) \/ Store(r)

CacheNext ==
    \/ Tick
    \/ \E t \in Tables : Edit(t)
    \/ \E r \in Readers :
        \/ Load(r)
        \/ \E outcome \in {"loaded", "failed"} : Return(r, outcome)

CacheSpec == CacheInit /\ [][CacheNext]_cacheVars

-----------------------------------------------------------------------------
Config == [loadedAt : Int, version : [Tables -> Nat]]

CacheTypeOK ==
    /\ now \in Time
    /\ edits \in [Tables -> Seq(Time)]
    /\ cache \in Config
    /\ loc \in [Readers -> {"idle", "refresh", "loaded", "failed"}]
    /\ config \in [Readers -> Config]
    /\ read \in [Readers -> 0 .. LastTable]
    /\ asked \in [Readers -> Time]

\* Version v of table t was no longer current at this time.
ReplacedBy(t, v, time) == v < Len(edits[t]) /\ edits[t][v + 1] < time

(***************************************************************************)
(* What Load gives is no older than the cache's TTL: every table of it was *)
(* still current less than TTL before the call, although the tables are    *)
(* read one by one, the cache is not told of edits, and a slow refresh may *)
(* replace what a later one has stored.                                    *)
(***************************************************************************)
ConfigIsRecent ==
    \A r \in Readers : loc[r] = "loaded" =>
        \A t \in Tables : ~ ReplacedBy(t, config[r].version[t], asked[r] - TTL + 1)

=============================================================================

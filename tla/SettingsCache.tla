---------------------------- MODULE SettingsCache ----------------------------
(****************************************************************************)
(* A school's settings: the school_settings rows, their copy in Redis, the   *)
(* requests that resolve them (SchoolConfigService) and the superadmin's     *)
(* writes (SuperadminService.setSchoolSetting).                              *)
(*                                                                          *)
(* Postgres writes appear when the request's transaction commits; Redis      *)
(* commands take effect at once, whatever becomes of the transaction.  The   *)
(* copy is per school, so one school is modelled.                            *)
(****************************************************************************)
EXTENDS SettingsRegistry, FiniteSets

CONSTANTS
    Requests,      \* requests in flight; each may be made again and again
    Settings,      \* the settings that are written and read, of the registry's
    Texts,         \* the texts that are written, or stored from before the registry
    TTL,           \* CACHE_TTL_SECONDS, in ticks
    MaxWrites,     \* bound on the writes ever begun
    PoolSize,      \* transactions open at once
    RedisMayFail,  \* whether Redis commands can be lost in this instance
    Nothing        \* no row, no entry

Keys == Settings \cup ({LegacyKey(s) : s \in Settings} \ {NoLegacy})

ASSUME SettingsAssumption ==
    Settings \subseteq RegistryKeys /\ \A s \in Settings : LegacyKey(s) \notin Settings
ASSUME TextsAssumption ==
    /\ \A s \in Settings, t \in Texts : Accepts(s, t) => Canonical(s, t) \in Texts
    /\ Nothing \notin Texts
ASSUME SizesAssumption ==
    /\ TTL \in Nat \ {0}
    /\ PoolSize \in Nat
    /\ MaxWrites \in Nat
    /\ RedisMayFail \in BOOLEAN

VARIABLES
    rows,     \* school_settings, committed
    cache,    \* the Redis entry: the rows it holds and its age, or Nothing
    history,  \* every state school_settings ever had
    writes,   \* writes begun, to bound them
    request

vars == <<rows, cache, history, writes, request>>

-----------------------------------------------------------------------------

\* The table as a reader gets it: Object.fromEntries(rows).
Overrides == [Keys -> Texts \cup {Nothing}]

CacheEntry == [rows : Overrides, age : 0..(TTL - 1)]

\* A request: a reader's step and the rows it goes by, or a writer's step, key
\* and value.
Request == [step : {"idle", "get", "select", "set", "served",
                    "upsert", "invalidate", "commit"},
            rows : Overrides \cup {Nothing},
            key : Settings \cup {Nothing}, value : Texts \cup {Nothing}]

ASSUME NothingAssumption == Nothing \notin Overrides \cup CacheEntry \cup Settings

Idle == [step |-> "idle", rows |-> Nothing, key |-> Nothing, value |-> Nothing]

CanBegin(r) ==
    /\ request[r].step = "idle"
    /\ Cardinality({q \in Requests : request[q].step # "idle"}) < PoolSize

\* A Redis command works, unless Redis may fail: errors are logged, not thrown,
\* and the command may have had its effect or not.
Redis(effect, none) == effect \/ (RedisMayFail /\ none)

-----------------------------------------------------------------------------
(* resolve: what a table of overrides means *)

\* Fault: the legacy row wins.
LegacyFirst(s, table) ==
    IF LegacyKey(s) # NoLegacy /\ table[LegacyKey(s)] # Nothing THEN table[LegacyKey(s)]
    ELSE table[s]

PickStored(s, table) ==
    IF table[s] # Nothing THEN table[s]
    ELSE IF LegacyKey(s) # NoLegacy THEN table[LegacyKey(s)] ELSE Nothing

Resolve(table) ==
    [s \in Settings |-> LET stored == PickStored(s, table)
                        IN  Coerce(s, IF stored = Nothing THEN GetSettingDef(s).default
                                      ELSE stored)]

-----------------------------------------------------------------------------
(* Readers: getConfig, and every service that looks up a setting *)

BeginRead(r) ==
    /\ CanBegin(r)
    /\ request' = [request EXCEPT ![r] = [Idle EXCEPT !.step = "get"]]
    /\ UNCHANGED <<rows, cache, history, writes>>

\* Fault: a hit renews the entry's time to live.
SlidingGet(r) ==
    /\ request[r].step = "get"
    /\ \/ /\ cache # Nothing
          /\ request' = [request EXCEPT ![r].step = "served", ![r].rows = cache.rows]
          /\ cache' = [cache EXCEPT !.age = 0]
       \/ /\ cache = Nothing \/ RedisMayFail
          /\ request' = [request EXCEPT ![r].step = "select"]
          /\ UNCHANGED cache
    /\ UNCHANGED <<rows, history, writes>>

GetCached(r) ==
    /\ request[r].step = "get"
    /\ \/ /\ cache # Nothing
          /\ request' = [request EXCEPT ![r].step = "served", ![r].rows = cache.rows]
       \/ /\ cache = Nothing \/ RedisMayFail
          /\ request' = [request EXCEPT ![r].step = "select"]
    /\ UNCHANGED <<rows, cache, history, writes>>

SelectRows(r) ==
    /\ request[r].step = "select"
    /\ request' = [request EXCEPT ![r].step = "set", ![r].rows = rows]
    /\ UNCHANGED <<rows, cache, history, writes>>

SetCached(r) ==
    /\ request[r].step = "set"
    /\ request' = [request EXCEPT ![r].step = "served"]
    /\ Redis(cache' = [rows |-> request[r].rows, age |-> 0], cache' = cache)
    /\ UNCHANGED <<rows, history, writes>>

-----------------------------------------------------------------------------
(* setSchoolSetting *)

BeginWrite(r) ==
    /\ CanBegin(r)
    /\ writes < MaxWrites
    /\ writes' = writes + 1
    /\ \E s \in Settings, v \in Texts :
          request' = [request EXCEPT ![r] = [Idle EXCEPT !.step = "upsert",
                                                         !.key = s, !.value = v]]
    /\ UNCHANGED <<rows, cache, history>>

\* The row is locked from a writer's upsert until its transaction ends.
Locked(s) ==
    \E q \in Requests : request[q].key = s /\ request[q].step \in {"invalidate", "commit"}

\* validateSetting, then INSERT ... ON CONFLICT DO UPDATE of what it returns.
UpsertSetting(r) ==
    /\ request[r].step = "upsert"
    /\ LET key == request[r].key
           raw == request[r].value
       IN \/ /\ Accepts(key, raw) /\ ~Locked(key)
             /\ request' = [request EXCEPT ![r].step = "invalidate",
                                           ![r].value = Canonical(key, raw)]
          \/ /\ ~Accepts(key, raw)
             /\ request' = [request EXCEPT ![r] = Idle]
    /\ UNCHANGED <<rows, cache, history, writes>>

\* Fault: the new value is put into the cache instead of dropping the entry.
WriteThrough(r) ==
    /\ request[r].step = "invalidate"
    /\ request' = [request EXCEPT ![r].step = "commit"]
    /\ cache' = [rows |-> [rows EXCEPT ![request[r].key] = request[r].value], age |-> 0]
    /\ UNCHANGED <<rows, history, writes>>

\* DEL, while the transaction is still open.
Invalidate(r) ==
    /\ request[r].step = "invalidate"
    /\ request' = [request EXCEPT ![r].step = "commit"]
    /\ Redis(cache' = Nothing, cache' = cache)
    /\ UNCHANGED <<rows, history, writes>>

-----------------------------------------------------------------------------
(* The end of a request, and time *)

\* A writer's row appears.
CommitWrite(r) ==
    /\ request[r].step = "commit"
    /\ LET table == [rows EXCEPT ![request[r].key] = request[r].value]
       IN  /\ rows' = table
           /\ history' = history \cup {table}
           /\ request' = [request EXCEPT ![r] = Idle]
    /\ UNCHANGED <<cache, writes>>

\* The reader has its settings and goes on.
Finish(r) ==
    /\ request[r].step = "served"
    /\ request' = [request EXCEPT ![r] = Idle]
    /\ UNCHANGED <<rows, cache, history, writes>>

\* An error or a crash at any point: rolled back, but not in Redis.
Fail(r) ==
    /\ request[r].step # "idle"
    /\ request' = [request EXCEPT ![r] = Idle]
    /\ UNCHANGED <<rows, cache, history, writes>>

\* Fault: the entry lives one tick too long.
LateTick ==
    /\ cache # Nothing
    /\ cache' = IF cache.age = TTL THEN Nothing ELSE [cache EXCEPT !.age = @ + 1]
    /\ UNCHANGED <<rows, history, writes, request>>

Tick ==
    /\ cache # Nothing
    /\ cache' = IF cache.age + 1 = TTL THEN Nothing ELSE [cache EXCEPT !.age = @ + 1]
    /\ UNCHANGED <<rows, history, writes, request>>

-----------------------------------------------------------------------------

\* A row as validateSetting leaves it.
Stored(s, text) == \E raw \in Texts : Accepts(s, raw) /\ text = Canonical(s, raw)

\* Settings rows are absent or validated; the legacy row predates validation.
Init ==
    /\ rows \in {table \in Overrides :
                   \A s \in Settings : table[s] = Nothing \/ Stored(s, table[s])}
    /\ cache = Nothing
    /\ history = {rows}
    /\ writes = 0
    /\ request = [r \in Requests |-> Idle]

Serve(r) ==
    \/ GetCached(r) \/ SelectRows(r) \/ SetCached(r) \/ Finish(r)
    \/ UpsertSetting(r) \/ Invalidate(r) \/ CommitWrite(r)

Next ==
    \/ \E r \in Requests : BeginRead(r) \/ BeginWrite(r) \/ Serve(r) \/ Fail(r)
    \/ Tick

\* Node keeps running the requests it has, and time passes.
Spec ==
    /\ Init /\ [][Next]_vars
    /\ \A r \in Requests : WF_vars(Serve(r))
    /\ WF_vars(Tick)

-----------------------------------------------------------------------------
(* Properties *)

\* The table, the cache and the requests hold values of their types.
TypeOK ==
    /\ rows \in Overrides
    /\ cache \in CacheEntry \cup {Nothing}
    /\ history \subseteq Overrides
    /\ writes \in 0..MaxWrites
    /\ request \in [Requests -> Request]

\* Whatever the races, rollbacks and Redis failures, the settings a reader is
\* served are the whole table as it was at one moment: never a write that was
\* rolled back, never a mixture of two states.
ServedSnapshot ==
    \A r \in Requests : request[r].step = "served" => request[r].rows \in history

\* What was written through the registry is served as a value of the setting's type
\* and in its range, although it was stored as a text, cached and parsed again, and
\* whatever an unvalidated legacy row says: no reader meets a NaN for a setting that
\* has a row of its own.
ServedWellTyped ==
    \A r \in Requests : request[r].step = "served" =>
       \A s \in Settings : request[r].rows[s] # Nothing
                              => IsValueOf(s, Resolve(request[r].rows)[s])

\* A stale entry does not survive: even if its DEL was lost, and however often
\* the school reads its settings, time removes it.
StaleEntryGoes == (cache # Nothing /\ cache.rows # rows)
                     ~> (cache = Nothing \/ cache.rows = rows)

=============================================================================

------------------------- MODULE SettingsCacheProofs -------------------------
(* TypeOK, ServedSnapshot and ServedWellTyped, for any number of requests, any *)
(* of the registry's settings and any texts.                                   *)
(* ServedSnapshot is not inductive: what is served comes from the cache, what  *)
(* is cached comes from a reader, and what a reader selects is the table as it *)
(* was at that moment; Provenance says so of all three.  ServedWellTyped needs *)
(* besides that every table there ever was holds stored texts (HistoryStored), *)
(* because a writer never carries another past its validation (WriterInv), and *)
(* that a stored text parses to a value of its setting (StoredIsValue).        *)
EXTENDS SettingsCache, TLAPS

\* TypeOK is not inductive alone: a reader about to fill the cache must have rows.
TypeInv ==
    /\ TypeOK
    /\ \A r \in Requests : request[r].step = "set" => request[r].rows # Nothing

WriterInv ==
    \A r \in Requests :
       /\ request[r].step = "upsert" =>
             request[r].key \in Settings /\ request[r].value \in Texts
       /\ request[r].step \in {"invalidate", "commit"} =>
             request[r].key \in Settings /\ Stored(request[r].key, request[r].value)

HistoryStored ==
    \A table \in history : \A s \in Settings : table[s] = Nothing \/ Stored(s, table[s])

Provenance ==
    /\ rows \in history
    /\ cache # Nothing => cache.rows \in history
    /\ \A r \in Requests : request[r].step \in {"set", "served"}
                              => request[r].rows \in history

-----------------------------------------------------------------------------
(* Types *)

LEMMA InitType == Init => TypeInv
  BY SizesAssumption, NothingAssumption
  DEF Init, TypeInv, TypeOK, Idle, Request

LEMMA StepType == TypeInv /\ WriterInv /\ [Next]_vars => TypeInv'
<1> SUFFICES ASSUME TypeInv, WriterInv, [Next]_vars PROVE TypeInv'
  OBVIOUS
<1> USE SizesAssumption, NothingAssumption DEF TypeInv, TypeOK
<1>1. ASSUME NEW r \in Requests, BeginRead(r) PROVE TypeInv'
  <2>1. [Idle EXCEPT !.step = "get"] \in Request
    BY DEF Idle, Request
  <2> QED
    BY <1>1, <2>1 DEF BeginRead
<1>2. ASSUME NEW r \in Requests, BeginWrite(r) PROVE TypeInv'
  <2>1. \A s \in Settings, v \in Texts :
           [Idle EXCEPT !.step = "upsert", !.key = s, !.value = v] \in Request
    BY DEF Idle, Request
  <2>2. PICK s \in Settings, v \in Texts :
           request' = [request EXCEPT ![r] = [Idle EXCEPT !.step = "upsert",
                                                          !.key = s, !.value = v]]
    BY <1>2 DEF BeginWrite
  <2>3. writes' \in 0..MaxWrites /\ UNCHANGED <<rows, cache, history>>
    BY <1>2 DEF BeginWrite
  <2>4. request' \in [Requests -> Request]
    BY <2>1, <2>2
  <2>5. \A q \in Requests : request'[q].step = "set" => request'[q].rows # Nothing
    BY <2>2 DEF Idle
  <2> QED
    BY <2>3, <2>4, <2>5
<1>3. ASSUME NEW r \in Requests, GetCached(r) PROVE TypeInv'
  <2>1. cache # Nothing =>
           [[request[r] EXCEPT !.step = "served"] EXCEPT !.rows = cache.rows] \in Request
    BY DEF Request, CacheEntry
  <2>2. [request[r] EXCEPT !.step = "select"] \in Request
    BY DEF Request
  <2>3. request' \in [Requests -> Request] /\ UNCHANGED <<rows, cache, history, writes>>
    BY <1>3, <2>1, <2>2 DEF GetCached
  <2>4. request'[r].step # "set"
    BY <1>3 DEF GetCached, Request
  <2>5. \A q \in Requests \ {r} : request'[q] = request[q]
    BY <1>3 DEF GetCached
  <2> QED
    BY <2>3, <2>4, <2>5
<1>4. ASSUME NEW r \in Requests, SelectRows(r) PROVE TypeInv'
  <2>1. [[request[r] EXCEPT !.step = "set"] EXCEPT !.rows = rows] \in Request
    BY DEF Request
  <2> QED
    BY <1>4, <2>1 DEF SelectRows
<1>5. ASSUME NEW r \in Requests, SetCached(r) PROVE TypeInv'
  <2>1. [request[r] EXCEPT !.step = "served"] \in Request
    BY DEF Request
  <2>2. request[r].rows \in Overrides
    BY <1>5 DEF SetCached, Request
  <2>3. cache' \in CacheEntry \cup {Nothing}
    BY <1>5, <2>2 DEF SetCached, Redis, CacheEntry
  <2>4. request' = [request EXCEPT ![r].step = "served"]
    BY <1>5 DEF SetCached
  <2>5. UNCHANGED <<rows, history, writes>>
    BY <1>5 DEF SetCached
  <2> QED
    BY <2>1, <2>3, <2>4, <2>5
<1>6. ASSUME NEW r \in Requests, Finish(r) \/ Fail(r) PROVE TypeInv'
  BY <1>6 DEF Finish, Fail, Idle, Request
<1>7. ASSUME NEW r \in Requests, UpsertSetting(r) PROVE TypeInv'
  <2> DEFINE text == Canonical(request[r].key, request[r].value)
  <2>a. Idle \in Request
    BY DEF Request, Idle
  <2>b. Accepts(request[r].key, request[r].value) => text \in Texts
    BY <1>7, TextsAssumption DEF WriterInv, UpsertSetting
  <2> HIDE DEF text
  <2>1. Accepts(request[r].key, request[r].value) =>
           [[request[r] EXCEPT !.step = "invalidate"] EXCEPT !.value = text] \in Request
    BY <2>b DEF Request
  <2>2. request' \in [Requests -> Request] /\ UNCHANGED <<rows, cache, history, writes>>
    BY <1>7, <2>1, <2>a DEF UpsertSetting, text
  <2>3. request'[r].step # "set"
    BY <1>7 DEF UpsertSetting, Request, Idle
  <2>4. \A q \in Requests \ {r} : request'[q] = request[q]
    BY <1>7 DEF UpsertSetting
  <2> QED
    BY <2>2, <2>3, <2>4
<1>8. ASSUME NEW r \in Requests, Invalidate(r) PROVE TypeInv'
  <2>1. [request[r] EXCEPT !.step = "commit"] \in Request
    BY DEF Request
  <2> QED
    BY <1>8, <2>1 DEF Invalidate, Redis
<1>9. ASSUME NEW r \in Requests, CommitWrite(r) PROVE TypeInv'
  <2> DEFINE table == [rows EXCEPT ![request[r].key] = request[r].value]
  <2>1. table \in Overrides
    BY DEF Overrides, Request
  <2>2. /\ rows' \in Overrides /\ history' \subseteq Overrides
        /\ UNCHANGED <<cache, writes>>
    BY <1>9, <2>1 DEF CommitWrite
  <2> HIDE DEF table
  <2>4. Idle \in Request
    BY DEF Request, Idle
  <2>5. request' = [request EXCEPT ![r] = Idle]
    BY <1>9 DEF CommitWrite
  <2>6. request' \in [Requests -> Request]
    BY <2>4, <2>5
  <2>7. \A q \in Requests : request'[q].step = "set" => request'[q].rows # Nothing
    BY <2>5 DEF Idle, Request
  <2> QED
    BY <2>2, <2>6, <2>7
<1>10. CASE Tick
  BY <1>10 DEF Tick, CacheEntry
<1>11. CASE UNCHANGED vars
  BY <1>11 DEF vars
<1> QED
  BY <1>1, <1>2, <1>3, <1>4, <1>5, <1>6, <1>7, <1>8, <1>9, <1>10, <1>11
  DEF Next, Serve

-----------------------------------------------------------------------------
(* Writers *)

LEMMA InitWriter == Init => WriterInv
  BY DEF Init, WriterInv, Idle

LEMMA StepWriter == TypeInv /\ WriterInv /\ [Next]_vars => WriterInv'
<1> SUFFICES ASSUME TypeInv, WriterInv, [Next]_vars PROVE WriterInv'
  OBVIOUS
<1>t. request \in [Requests -> Request]
  BY DEF TypeInv, TypeOK
<1> USE DEF WriterInv
<1>1. ASSUME NEW r \in Requests, BeginWrite(r) PROVE WriterInv'
  <2>1. PICK s \in Settings, v \in Texts :
           request' = [request EXCEPT ![r] = [Idle EXCEPT !.step = "upsert",
                                                          !.key = s, !.value = v]]
    BY <1>1 DEF BeginWrite
  <2> QED
    BY <2>1, <1>t DEF Idle
<1>2. ASSUME NEW r \in Requests, UpsertSetting(r) PROVE WriterInv'
  <2> DEFINE key == request[r].key
  <2> DEFINE text == Canonical(key, request[r].value)
  <2>1. Accepts(key, request[r].value) => key \in Settings /\ Stored(key, text)
    BY <1>2 DEF UpsertSetting, Stored
  <2>2. \/ /\ Accepts(key, request[r].value)
           /\ request' = [request EXCEPT ![r].step = "invalidate", ![r].value = text]
        \/ request' = [request EXCEPT ![r] = Idle]
    BY <1>2 DEF UpsertSetting
  <2>3. \A q \in Requests \ {r} : request'[q] = request[q]
    BY <2>2, <1>t
  <2> HIDE DEF text
  <2>4. \/ /\ request'[r].step = "invalidate" /\ request'[r].key = key
           /\ request'[r].value = text /\ Accepts(key, request[r].value)
        \/ request'[r].step = "idle"
    BY <2>2, <1>t DEF Request, Idle
  <2> QED
    BY <2>1, <2>3, <2>4
<1>3. ASSUME NEW r \in Requests,
             BeginRead(r) \/ GetCached(r) \/ SelectRows(r) \/ SetCached(r) \/ Finish(r)
                \/ CommitWrite(r) \/ Fail(r)
      PROVE WriterInv'
  <2>1. request'[r].step \in {"idle", "get", "select", "set", "served"}
    BY <1>3, <1>t DEF BeginRead, GetCached, SelectRows, SetCached, Finish, CommitWrite,
                      Fail, Idle, Request
  <2>2. \A q \in Requests \ {r} : request'[q] = request[q]
    BY <1>3, <1>t DEF BeginRead, GetCached, SelectRows, SetCached, Finish, CommitWrite,
                      Fail
  <2> QED
    BY <2>1, <2>2
<1>4. ASSUME NEW r \in Requests, Invalidate(r) PROVE WriterInv'
  <2>1. /\ request'[r].key = request[r].key /\ request'[r].value = request[r].value
        /\ request'[r].step = "commit" /\ request[r].step = "invalidate"
    BY <1>4, <1>t DEF Invalidate, Request
  <2>2. \A q \in Requests \ {r} : request'[q] = request[q]
    BY <1>4, <1>t DEF Invalidate
  <2> QED
    BY <2>1, <2>2
<1>5. CASE UNCHANGED request
  BY <1>5
<1> QED
  BY <1>1, <1>2, <1>3, <1>4, <1>5 DEF Next, Serve, Tick, vars

LEMMA TypesAndWriters == Spec => [](TypeInv /\ WriterInv)
<1> QED
  BY InitType, StepType, InitWriter, StepWriter, PTL DEF Spec

\* Every table, cache entry and request keeps its type, for any constants.
THEOREM TypesKept == Spec => []TypeOK
<1>1. TypeInv => TypeOK
  BY DEF TypeInv
<1> QED
  BY TypesAndWriters, <1>1, PTL

-----------------------------------------------------------------------------
(* Where settings come from *)

LEMMA InitProvenance == Init => Provenance
  BY DEF Init, Provenance, Idle

LEMMA StepProvenance == TypeInv /\ Provenance /\ [Next]_vars => Provenance'
<1> SUFFICES ASSUME TypeInv, Provenance, [Next]_vars PROVE Provenance'
  OBVIOUS
<1> USE DEF Provenance
<1>t. request \in [Requests -> Request]
  BY DEF TypeInv, TypeOK
<1>1. ASSUME NEW r \in Requests, BeginRead(r) \/ BeginWrite(r) PROVE Provenance'
  <2>1. UNCHANGED <<rows, cache, history>>
    BY <1>1 DEF BeginRead, BeginWrite
  <2>2. request'[r].step \notin {"set", "served"}
    BY <1>1, <1>t DEF BeginRead, BeginWrite, Idle
  <2>3. \A q \in Requests \ {r} : request'[q] = request[q]
    BY <1>1, <1>t DEF BeginRead, BeginWrite
  <2> QED
    BY <2>1, <2>2, <2>3
<1>2. ASSUME NEW r \in Requests, GetCached(r) PROVE Provenance'
  <2>1. UNCHANGED <<rows, cache, history>>
    BY <1>2 DEF GetCached
  <2>2. request'[r].step = "served" => request'[r].rows \in history
    BY <1>2, <1>t DEF GetCached, Request
  <2>3. request'[r].step # "set"
    BY <1>2, <1>t DEF GetCached, Request
  <2>4. \A q \in Requests \ {r} : request'[q] = request[q]
    BY <1>2, <1>t DEF GetCached
  <2> QED
    BY <2>1, <2>2, <2>3, <2>4
<1>3. ASSUME NEW r \in Requests, SelectRows(r) PROVE Provenance'
  <2>1. request'[r].rows \in history
    BY <1>3, <1>t DEF SelectRows, Request
  <2> QED
    BY <1>3, <2>1, <1>t DEF SelectRows
<1>4. ASSUME NEW r \in Requests, SetCached(r) PROVE Provenance'
  <2>1. request[r].rows \in history
    BY <1>4 DEF SetCached
  <2>2. cache' # Nothing => cache'.rows \in history
    BY <1>4, <2>1 DEF SetCached, Redis
  <2>3. request'[r].rows = request[r].rows
    BY <1>4, <1>t DEF SetCached, Request
  <2>4. \A q \in Requests \ {r} : request'[q] = request[q]
    BY <1>4, <1>t DEF SetCached
  <2>5. UNCHANGED <<rows, history>>
    BY <1>4 DEF SetCached
  <2> QED
    BY <2>1, <2>2, <2>3, <2>4, <2>5
<1>5. ASSUME NEW r \in Requests, UpsertSetting(r) \/ Invalidate(r) PROVE Provenance'
  <2>1. UNCHANGED <<rows, history>> /\ (cache' # Nothing => cache'.rows \in history)
    BY <1>5 DEF UpsertSetting, Invalidate, Redis
  <2>2. request'[r].step \notin {"set", "served"}
    BY <1>5, <1>t DEF UpsertSetting, Invalidate, Idle, Request
  <2>3. \A q \in Requests \ {r} : request'[q] = request[q]
    BY <1>5, <1>t DEF UpsertSetting, Invalidate
  <2> QED
    BY <2>1, <2>2, <2>3
<1>6. ASSUME NEW r \in Requests, CommitWrite(r) PROVE Provenance'
  <2>1. rows' \in history' /\ history \subseteq history' /\ UNCHANGED cache
    BY <1>6 DEF CommitWrite
  <2>2. \A q \in Requests : request'[q].step \in {"set", "served"} =>
           request'[q].step = request[q].step /\ request'[q].rows = request[q].rows
    BY <1>6, <1>t DEF CommitWrite, Idle, Request
  <2> QED
    BY <2>1, <2>2
<1>7. ASSUME NEW r \in Requests, Finish(r) \/ Fail(r) PROVE Provenance'
  BY <1>7, <1>t DEF Finish, Fail, Idle
<1>8. CASE Tick
  <2>1. cache' # Nothing => cache'.rows = cache.rows
    BY <1>8 DEF Tick, TypeInv, TypeOK, CacheEntry
  <2> QED
    BY <1>8, <2>1 DEF Tick
<1>9. CASE UNCHANGED vars
  BY <1>9 DEF vars
<1> QED
  BY <1>1, <1>2, <1>3, <1>4, <1>5, <1>6, <1>7, <1>8, <1>9 DEF Next, Serve

\* Whatever Redis loses and whichever writes are rolled back, a reader is served
\* the whole school_settings table as it was at one moment, for any constants.
THEOREM ServesSnapshots == Spec => []ServedSnapshot
<1>1. TypeInv /\ Provenance /\ [Next]_vars => Provenance'
  BY StepProvenance
<1>2. Provenance => ServedSnapshot
  BY DEF Provenance, ServedSnapshot
<1> QED
  BY TypesAndWriters, InitProvenance, <1>1, <1>2, PTL DEF Spec

-----------------------------------------------------------------------------
(* What stored texts mean *)

SettingTypes == {"int", "bool", "enum", "time", "json", "color", "string"}

WellFormed(d) == d.type \in SettingTypes /\ d.min \in Int /\ d.max \in Int

\* Every entry of the catalogue is of one of the seven types, its bounds are numbers.
LEMMA RegistryWellFormed == \A d \in Registry : WellFormed(d)
<1>1. \A key, default : \A type \in SettingTypes : WellFormed(Setting(key, type, default))
  BY DEF Setting, WellFormed
<1>2. \A key, default : \A min, max \in Int : WellFormed(Whole(key, min, max, default))
  <2> TAKE key, default
  <2> TAKE min, max \in Int
  <2>1. Setting(key, "int", Numeral(default)).type = "int"
    BY DEF Setting
  <2>2. "min" \in DOMAIN Setting(key, "int", Numeral(default))
        /\ "max" \in DOMAIN Setting(key, "int", Numeral(default))
    BY DEF Setting
  <2> QED
    BY <2>1, <2>2 DEF Whole, WellFormed, SettingTypes
<1>3. \A key, words, default : WellFormed(Enum(key, words, default))
  BY DEF Setting, Enum, WellFormed, SettingTypes
<1>4. \A key, default : WellFormed(Bool(key, default))
  BY <1>1 DEF Bool, SettingTypes
<1>5. \A d \in AcademicSettings : WellFormed(d)
  <2>1. WellFormed(Setting("academic.working_days", "json", Json("monday to saturday")))
    BY <1>1 DEF SettingTypes
  <2>2. WellFormed(Whole("academic.year_start_month", 1, 12, 4))
    BY <1>2
  <2> QED
    BY <2>1, <2>2 DEF AcademicSettings
<1>6. \A d \in TimetableSettings : WellFormed(d)
  BY <1>2 DEF TimetableSettings
<1>7. \A d \in AttendanceSettings : WellFormed(d)
  BY <1>2, <1>3 DEF AttendanceSettings
<1>8. \A d \in FeesSettings : WellFormed(d)
  <2>1. WellFormed([Whole("fees.due_date_day", 1, 28, 10) EXCEPT
                       !.legacyKey = "due_date_day"])
    BY DEF Setting, Whole, WellFormed, SettingTypes
  <2> QED
    BY <2>1, <1>1, <1>2 DEF FeesSettings, SettingTypes
<1>9. \A d \in GradingSettings : WellFormed(d)
  BY <1>1, <1>3 DEF GradingSettings, SettingTypes
<1>10. \A d \in LocaleSettings : WellFormed(d)
  BY <1>3 DEF LocaleSettings
<1>11. \A d \in BrandingSettings : WellFormed(d)
  BY <1>1, <1>4 DEF BrandingSettings, SettingTypes
<1>12. \A d \in FeatureSettings : WellFormed(d)
  BY <1>4 DEF FeatureSettings
<1> QED
  BY <1>5, <1>6, <1>7, <1>8, <1>9, <1>10, <1>11, <1>12 DEF Registry

\* What validateSetting returns for a text it accepts, coerceSetting parses to a value
\* of the setting's type and range.
LEMMA StoredIsValue ==
    ASSUME NEW key \in RegistryKeys, NEW raw, Accepts(key, raw)
    PROVE  IsValueOf(key, Coerce(key, Canonical(key, raw)))
<1> DEFINE d == GetSettingDef(key)
<1> DEFINE text == Canonical(key, raw)
<1>1. d \in Registry
  BY DEF RegistryKeys, GetSettingDef
<1>2. d.type \in SettingTypes /\ d.min \in Int /\ d.max \in Int
  BY <1>1, RegistryWellFormed DEF WellFormed
<1> HIDE DEF d
<1>3. CASE d.type = "int"
  <2>1. /\ Form(Trim(raw)) = "numeral" /\ Trim(raw)[2] \in d.min .. d.max
        /\ text = Trim(raw)
    BY <1>3 DEF Accepts, Canonical, d
  <2>2. Trim(Trim(raw)) = Trim(raw)
    BY <2>1 DEF Trim
  <2> HIDE DEF text
  <2>3. Coerce(key, text) = Trim(raw)[2]
    BY <2>1, <2>2, <1>3 DEF Coerce, Parse, NumberOf, text, d
  <2> QED
    BY <2>1, <2>3, <1>2, <1>3, NotANumberAssumption DEF IsValueOf, text, d
<1>4. CASE d.type = "bool"
  BY <1>4 DEF Coerce, Parse, IsValueOf, d
<1>5. CASE d.type = "enum"
  BY <1>5 DEF Accepts, Canonical, Coerce, Parse, IsValueOf, d
<1>6. CASE d.type = "json"
  <2>1. IsJson(Trim(raw)) /\ text = Trim(raw)
    BY <1>6 DEF Accepts, Canonical, d
  <2>2. Trim(text) = text
    BY <2>1 DEF IsJson, Trim, Form, Word
  <2> QED
    BY <2>1, <2>2, <1>6 DEF Coerce, Parse, IsValueOf, d
<1>7. CASE d.type = "color"
  <2>1. text = Color(Trim(raw)[2])
    BY <1>7 DEF Canonical, d
  <2>2. Coerce(key, text) = text
    BY <1>7 DEF Coerce, Parse, d
  <2>3. Form(text) = "color"
    BY <2>1 DEF Form, Color
  <2> QED
    BY <2>2, <2>3, <1>7 DEF IsValueOf, d
<1>8. CASE d.type = "string"
  BY <1>8 DEF Accepts, Canonical, Coerce, Parse, IsValueOf, d
<1>9. CASE d.type = "time"
  BY <1>9 DEF Accepts, Canonical, Coerce, Parse, IsValueOf, Form, Empty, TooLong, d
<1> QED
  BY <1>2, <1>3, <1>4, <1>5, <1>6, <1>7, <1>8, <1>9 DEF SettingTypes

-----------------------------------------------------------------------------
(* What is stored *)

LEMMA InitStored == Init => HistoryStored
  BY DEF Init, HistoryStored

LEMMA StepStored ==
    TypeInv /\ WriterInv /\ Provenance /\ HistoryStored /\ [Next]_vars => HistoryStored'
<1> SUFFICES ASSUME TypeInv, WriterInv, Provenance, HistoryStored, [Next]_vars
             PROVE  HistoryStored'
  OBVIOUS
<1> USE DEF HistoryStored
<1>1. ASSUME NEW r \in Requests, CommitWrite(r) PROVE HistoryStored'
  <2> DEFINE table == [rows EXCEPT ![request[r].key] = request[r].value]
  <2>1. history' = history \cup {table}
    BY <1>1 DEF CommitWrite
  <2>2. request[r].key \in Settings /\ Stored(request[r].key, request[r].value)
    BY <1>1 DEF CommitWrite, WriterInv
  <2>3. rows \in [Keys -> Texts \cup {Nothing}]
    BY DEF TypeInv, TypeOK, Overrides
  <2>4. \A s \in Settings : rows[s] = Nothing \/ Stored(s, rows[s])
    BY DEF Provenance
  <2>5. \A s \in Settings : table[s] = Nothing \/ Stored(s, table[s])
    BY <2>2, <2>3, <2>4 DEF Keys
  <2> QED
    BY <2>1, <2>5
<1>2. CASE UNCHANGED history
  BY <1>2
<1> QED
  BY <1>1, <1>2
  DEF Next, Serve, BeginRead, BeginWrite, GetCached, SelectRows, SetCached, Finish,
      UpsertSetting, Invalidate, Fail, Tick, vars

LEMMA StoredIsServed ==
    TypeInv /\ Provenance /\ HistoryStored => ServedWellTyped
<1> SUFFICES ASSUME TypeInv, Provenance, HistoryStored,
                    NEW r \in Requests, request[r].step = "served",
                    NEW s \in Settings, request[r].rows[s] # Nothing
             PROVE  IsValueOf(s, Resolve(request[r].rows)[s])
  BY DEF ServedWellTyped
<1> DEFINE table == request[r].rows
<1>1. Stored(s, table[s])
  BY DEF Provenance, HistoryStored
<1>2. PICK raw \in Texts : Accepts(s, raw) /\ table[s] = Canonical(s, raw)
  BY <1>1 DEF Stored
<1>3. Resolve(table)[s] = Coerce(s, table[s])
  BY DEF Resolve, PickStored
<1>4. s \in RegistryKeys
  BY SettingsAssumption
<1> QED
  BY <1>2, <1>3, <1>4, StoredIsValue

\* Whatever is lost, rolled back or cached, and whatever an unvalidated legacy row
\* says, a setting with a row of its own is served as a value of its type and range,
\* for any of the registry's settings and any texts.
THEOREM ServesWellTyped == Spec => []ServedWellTyped
<1>1. Init => Provenance /\ HistoryStored
  BY InitProvenance, InitStored
<1>2. TypeInv /\ WriterInv /\ Provenance /\ HistoryStored /\ [Next]_vars
         => (Provenance /\ HistoryStored)'
  BY StepProvenance, StepStored
<1> QED
  BY TypesAndWriters, <1>1, <1>2, StoredIsServed, PTL DEF Spec

=============================================================================

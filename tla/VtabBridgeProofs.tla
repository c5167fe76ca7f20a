--------------------------- MODULE VtabBridgeProofs ---------------------------
(***************************************************************************)
(* Theorems about the registry of engines and about the work items of a    *)
(* search, for every set of tables, directories and engines, every size of *)
(* the registry, and every number of shards and of threads.                *)
(***************************************************************************)
EXTENDS VtabBridge, FiniteSetTheorems, LeastElement

(***************************************************************************)
(* The work items of a search                                              *)
(***************************************************************************)

SearchType ==
    /\ phase \in {"idle", "queueing", "waiting", "gathering", "returned", "refused"}
    /\ work \in [Shards -> {"none", "queued", "running", "reported", "done"}]

DoneItems == {s \in Shards : work[s] = "done"}

(* Where the caller is says what may have become of the items, and each    *)
(* callback has been counted once.                                         *)
SInv ==
    /\ SearchType
    /\ phase \in {"idle", "refused"} => \A s \in Shards : work[s] = "none"
    /\ phase = "queueing" => \A s \in Shards : work[s] # "done"
    /\ phase \in {"gathering", "returned"} => \A s \in Shards : work[s] = "done"
    /\ completed = Cardinality(DoneItems)

(* A search has as many items as shards, and a set of items is finite. *)
LEMMA ShardsAreFinite == IsFiniteSet(Shards) /\ Cardinality(Shards) = NumShards
BY NumShardsAssumption, FS_Interval DEF Shards

LEMMA ItemsAreCounted == /\ IsFiniteSet(DoneItems)
                         /\ Cardinality(DoneItems) \in 0..NumShards
<1>1. DoneItems \in SUBSET Shards
  BY DEF DoneItems
<1>2. IsFiniteSet(DoneItems) /\ Cardinality(DoneItems) <= NumShards
  BY <1>1, ShardsAreFinite, FS_Subset
<1>3. Cardinality(DoneItems) \in Nat
  BY <1>2, FS_CardinalityType
<1> QED BY <1>2, <1>3, NumShardsAssumption

LEMMA SearchInit == Init => SInv
<1> SUFFICES ASSUME Init PROVE SInv
  OBVIOUS
<1>1. DoneItems = {}
  BY DEF Init, Idle, DoneItems
<1>2. completed = Cardinality(DoneItems)
  BY <1>1, FS_EmptySet DEF Init, Idle
<1> QED BY <1>2 DEF Init, Idle, SInv, SearchType

(* The steps of caller and threads, one lemma for the callback that counts *)
(* and one for those that count nothing.                                   *)
LEMMA CallbackCounts ==
    ASSUME SInv, NEW s \in Shards, CallsBack(s)
    PROVE  SInv'
<1>1. /\ phase = "waiting" /\ work[s] = "reported" /\ phase' = "waiting"
      /\ work' = [work EXCEPT ![s] = "done"]
      /\ completed' = completed + 1
  BY DEF CallsBack
<1>2. SearchType'
  BY <1>1 DEF SInv, SearchType
<1>3. DoneItems' = DoneItems \cup {s} /\ s \notin DoneItems
  BY <1>1 DEF SInv, SearchType, DoneItems
<1>4. Cardinality(DoneItems') = Cardinality(DoneItems) + 1
  BY <1>3, ItemsAreCounted, FS_AddElement
<1>5. completed' = Cardinality(DoneItems')
  BY <1>1, <1>4 DEF SInv
<1> QED BY <1>1, <1>2, <1>5 DEF SInv

LEMMA UncountedStep ==
    ASSUME SInv, SearchType', DoneItems' = DoneItems, completed' = completed,
           phase' \in {"idle", "refused"} => \A s \in Shards : work'[s] = "none",
           phase' = "queueing" => \A s \in Shards : work'[s] # "done",
           phase' \in {"gathering", "returned"} => \A s \in Shards : work'[s] = "done"
    PROVE  SInv'
BY DEF SInv

LEMMA CallerStepKeeps == ASSUME SInv, CallerStep PROVE SInv'
<1>1. ASSUME NEW s \in Shards, Queue(s) PROVE SInv'
  <2>1. /\ phase = "queueing" /\ work[s] = "none" /\ phase' \in {"queueing", "waiting"}
        /\ work' = [work EXCEPT ![s] = "queued"] /\ completed' = completed
    BY <1>1 DEF Queue
  <2>2. SearchType'
    BY <2>1 DEF SInv, SearchType
  <2>3. \A r \in Shards : work[r] # "done" /\ work'[r] # "done"
    BY <2>1 DEF SInv, SearchType
  <2>4. DoneItems' = DoneItems
    BY <2>3 DEF DoneItems
  <2> QED BY <2>1, <2>2, <2>3, <2>4, UncountedStep
<1>2. CASE \E s \in Shards : CallsBack(s)
  BY <1>2, CallbackCounts
<1>3. CASE LoopReturns
  <2>1. /\ \A s \in Shards : work[s] = "done"
        /\ phase' = "gathering" /\ work' = work /\ completed' = completed
    BY <1>3 DEF LoopReturns, LoopHasNoMore
  <2> QED BY <2>1, UncountedStep DEF SInv, SearchType, DoneItems
<1> QED BY <1>1, <1>2, <1>3 DEF CallerStep

LEMMA ThreadStepKeeps == ASSUME SInv, NEW s \in Shards, ThreadStep(s) PROVE SInv'
<1>1. /\ work[s] \in {"queued", "running"}
      /\ \E now \in {"running", "reported"} : work' = [work EXCEPT ![s] = now]
      /\ phase' = phase /\ completed' = completed
  BY DEF ThreadStep, WorkStarts, WorkEnds
<1>2. SearchType'
  BY <1>1 DEF SInv, SearchType
<1>3. DoneItems' = DoneItems /\ \A r \in Shards : work'[r] = "done" <=> work[r] = "done"
  BY <1>1 DEF SInv, SearchType, DoneItems
<1>4. phase \in {"queueing", "waiting"}
  BY <1>1 DEF SInv, SearchType
<1> QED BY <1>1, <1>2, <1>3, <1>4, UncountedStep DEF SInv

LEMMA SearchKept == SInv /\ [Next]_vars => SInv'
<1> SUFFICES ASSUME SInv, [Next]_vars PROVE SInv'
  OBVIOUS
<1>1. CASE UNCHANGED searchVars
  BY <1>1 DEF searchVars, SInv, SearchType, DoneItems
<1>2. CASE UNCHANGED <<phase, search, work, completed, answer>>
  BY <1>2 DEF SInv, SearchType, DoneItems
<1>3. ASSUME NEW s \in Searches, SearchBegins(s) \/ SearchRefused(s) PROVE SInv'
  <2>1. /\ phase = "idle" /\ phase' \in {"queueing", "refused"}
        /\ work' = work /\ completed' = completed
    BY <1>3 DEF SearchBegins, SearchRefused
  <2> QED BY <2>1, UncountedStep DEF SInv, SearchType, DoneItems
<1>4. CASE SearchSteps
  BY <1>4, CallerStepKeeps DEF SearchSteps
<1>5. CASE \E s \in Shards : PoolSteps(s)
  BY <1>5, ThreadStepKeeps DEF PoolSteps
<1>6. CASE SearchGivesAnswer
  <2>1. phase = "gathering" /\ phase' = "returned" /\ work' = work /\ completed' = completed
    BY <1>6 DEF SearchGivesAnswer, SearchReturns
  <2> QED BY <2>1, UncountedStep DEF SInv, SearchType, DoneItems
<1>7. CASE SearchIsOver
  <2>1. phase' = "idle" /\ work' = [s \in Shards |-> "none"] /\ completed' = 0
    BY <1>7 DEF SearchIsOver, Forget
  <2>2. DoneItems' = {}
    BY <2>1 DEF DoneItems
  <2>3. completed' = Cardinality(DoneItems')
    BY <2>1, <2>2, FS_EmptySet
  <2> QED BY <2>1, <2>3 DEF SInv, SearchType
<1>8. CASE \E t \in Tables, path \in Paths : ConnectShared(t, path) \/ ConnectOpens(t, path)
  BY <1>2, <1>8 DEF ConnectShared, ConnectOpens
<1>9. CASE \E t \in Tables : DisconnectTracked(t) \/ DisconnectUntracked(t) \/ CursorOpens(t)
  BY <1>1, <1>2, <1>9 DEF DisconnectTracked, DisconnectUntracked, CursorOpens,
                          UnchangedSearch, searchVars
<1>10. CASE \E s \in TableSearches : Filter(s)
  BY <1>3, <1>10, SearchesAssumption DEF Filter
<1>11. CASE \E s \in Searches : SearchFromProgram(s)
  BY <1>3, <1>11 DEF SearchFromProgram
<1>12. CASE CursorCloses
  BY <1>1, <1>12 DEF CursorCloses, UnchangedSearch
<1>13. CASE UNCHANGED vars
  BY <1>1, <1>13 DEF vars, searchVars
<1> QED BY <1>4, <1>5, <1>6, <1>7, <1>8, <1>9, <1>10, <1>11, <1>12, <1>13 DEF Next

(* No work item of a search is left in the queue, on a thread or           *)
(* unreported when engine_search_async goes on from uv_run, and each has   *)
(* been called back once (async_search.c:181).                             *)
THEOREM SearchesAreComplete == Spec => []NoWorkOutlivesSearch
<1>1. SInv => NoWorkOutlivesSearch
  <2> SUFFICES ASSUME SInv, ~InSearch PROVE NoWorkOutlivesSearch
    BY DEF NoWorkOutlivesSearch
  <2>1. CASE phase \in {"idle", "refused"}
    BY <2>1 DEF SInv, NoWorkOutlivesSearch
  <2>2. CASE phase \in {"gathering", "returned"}
    <3>1. DoneItems = Shards
      BY <2>2 DEF SInv, DoneItems
    <3>2. completed = NumShards
      BY <3>1, ShardsAreFinite DEF SInv
    <3> QED BY <2>2, <3>2 DEF SInv, NoWorkOutlivesSearch
  <2> QED BY <2>1, <2>2 DEF SInv, SearchType, InSearch
<1> QED BY <1>1, SearchInit, SearchKept, PTL DEF Spec
-----------------------------------------------------------------------------
(***************************************************************************)
(* The registry of engines                                                 *)
(***************************************************************************)

RegistryType ==
    /\ host \in {"sqlite", "program"}
    /\ entries \in [Slots -> [engine : Engines, ref_count : Nat \ {0}] \cup {FreeSlot}]
    /\ base_path \in [Engines -> Paths \cup {NoPath}]
    /\ engine_of \in [Tables -> Engines \cup {NoEngine}]
    /\ g_engine \in Engines \cup {NoEngine}
    /\ cursor \in Tables \cup {NoTable}
    /\ loop \in BOOLEAN

OneEntryPerEngine ==
    \A i, j \in Slots : entries[i].engine # NoEngine /\ entries[i].engine = entries[j].engine => i = j

(* RefCountExact, engine by engine. *)
CountsExact ==
    \A i \in Slots, e \in Engines :
        entries[i].engine = e => entries[i].ref_count = Cardinality(Users(e))

OpenIsUsed ==
    \A e \in Engines : e \in Open =>
        Cardinality(Users(e)) >= 1 /\ (~Tracked(e) => Cardinality(Users(e)) = 1)

(* The parts need each other: an engine is closed when its count is used   *)
(* up, so that no table or entry is left behind is a matter of the counts, *)
(* and a new engine is entered beside the others because those are open    *)
(* and it was not.                                                         *)
RInv == /\ RegistryType /\ OneEntryPerEngine /\ EnginesInUseAreOpen
        /\ CountsExact /\ OpenIsUsed /\ OneEnginePerPath

LEMMA Registry0 == Init => RInv
<1> SUFFICES ASSUME Init PROVE RInv
  OBVIOUS
<1>1. /\ entries = [i \in Slots |-> FreeSlot] /\ base_path = [e \in Engines |-> NoPath]
      /\ engine_of = [t \in Tables |-> NoEngine] /\ g_engine = NoEngine
      /\ cursor = NoTable /\ loop = FALSE /\ host \in {"sqlite", "program"}
  BY DEF Init
<1>2. RegistryType
  BY <1>1 DEF RegistryType
<1>3. Open = {} /\ Connected = {} /\ \A i \in Slots : entries[i].engine = NoEngine
  BY <1>1 DEF Open, Connected, FreeSlot
<1>4. NoEngine \notin Engines
  BY EnginesAssumption DEF NoEngine
<1> QED BY <1>1, <1>2, <1>3, <1>4 DEF RInv, OneEntryPerEngine, EnginesInUseAreOpen, CountsExact,
                               OpenIsUsed, OneEnginePerPath

(* What a step that leaves the registry alone does to it. *)
LEMMA RegistryAlone ==
    ASSUME RInv, UNCHANGED <<entries, base_path, engine_of, g_engine>>,
           host' \in {"sqlite", "program"}, cursor' \in Tables \cup {NoTable}, loop' \in BOOLEAN
    PROVE  RInv'
BY DEF RInv, RegistryType, OneEntryPerEngine, EnginesInUseAreOpen, CountsExact, OpenIsUsed,
       OneEnginePerPath, Users, Tracked, SlotsFor, Open, Connected

(* The tables of an engine are finitely many. *)
LEMMA UsersAreCounted ==
    ASSUME NEW e
    PROVE  IsFiniteSet(Users(e)) /\ Cardinality(Users(e)) \in Nat
<1>1. Users(e) \in SUBSET Tables
  BY DEF Users
<1> QED BY <1>1, TablesAssumption, FS_Subset, FS_CardinalityType

(* A table that connects is one more user of its engine, and changes the   *)
(* users of no other; one that disconnects, one less.                      *)
LEMMA OneUserMore ==
    ASSUME RegistryType, NEW t \in Tables, engine_of[t] = NoEngine, NEW e \in Engines,
           engine_of' = [engine_of EXCEPT ![t] = e]
    PROVE  /\ Cardinality(Users(e)') = Cardinality(Users(e)) + 1
           /\ \A d \in Engines \ {e} : Users(d)' = Users(d)
<1>1. e # NoEngine /\ NoEngine \notin Engines
  BY EnginesAssumption DEF NoEngine
<1>2. Users(e)' = Users(e) \cup {t} /\ t \notin Users(e)
  BY <1>1 DEF RegistryType, Users
<1>3. \A d \in Engines \ {e} : Users(d)' = Users(d)
  BY <1>1 DEF RegistryType, Users
<1> QED BY <1>2, <1>3, UsersAreCounted, FS_AddElement

LEMMA OneUserLess ==
    ASSUME RegistryType, NEW t \in Tables, NEW e \in Engines, engine_of[t] = e,
           engine_of' = [engine_of EXCEPT ![t] = NoEngine]
    PROVE  /\ Cardinality(Users(e)) = Cardinality(Users(e)') + 1
           /\ Cardinality(Users(e)') = 0 => Users(e)' = {}
           /\ \A d \in Engines \ {e} : Users(d)' = Users(d)
<1>1. e # NoEngine /\ NoEngine \notin Engines
  BY EnginesAssumption DEF NoEngine
<1>2. Users(e)' = Users(e) \ {t} /\ t \in Users(e)
  BY <1>1 DEF RegistryType, Users
<1>3. \A d \in Engines \ {e} : Users(d)' = Users(d)
  BY <1>1 DEF RegistryType, Users
<1>4. Cardinality(Users(e)') = Cardinality(Users(e)) - 1 /\ IsFiniteSet(Users(e)')
  BY <1>2, UsersAreCounted, FS_RemoveElement
<1>5. Cardinality(Users(e)') = 0 => Users(e)' = {}
  BY <1>4, FS_EmptySet
<1> QED BY <1>3, <1>4, <1>5, UsersAreCounted

LEMMA EnginesAreNoNoEngine == NoEngine \notin Engines
BY EnginesAssumption DEF NoEngine

(* ftsConnect to a directory that is open. *)
LEMMA SharedConnectKeeps ==
    ASSUME RInv, NEW t \in Tables, NEW path \in Paths, ConnectShared(t, path)
    PROVE  RInv'
<1> USE EnginesAreNoNoEngine
<1>1. PICK i \in Slots :
        /\ IsFirstOf(i, Serving(path))
        /\ entries' = [entries EXCEPT ![i].ref_count = @ + 1]
        /\ engine_of' = [engine_of EXCEPT ![t] = entries[i].engine]
        /\ g_engine' = entries[i].engine
  BY DEF ConnectShared
<1>2. PICK e \in Engines : e = entries[i].engine
  BY <1>1 DEF IsFirstOf, Serving, FreeSlots, RInv, RegistryType, FreeSlot
<1>3. /\ engine_of[t] = NoEngine /\ loop' \in {TRUE, loop} /\ base_path' = base_path
      /\ UNCHANGED <<host, cursor>>
  BY DEF ConnectShared, Connected
<1>4. \A j \in Slots : entries'[j].engine = entries[j].engine
  BY <1>1 DEF RInv, RegistryType, FreeSlot
<1>5. entries'[i].ref_count = entries[i].ref_count + 1
  BY <1>1, <1>2 DEF RInv, RegistryType, FreeSlot
<1>6. \A j \in Slots \ {i} : entries'[j] = entries[j]
  BY <1>1 DEF RInv, RegistryType
<1>7. RegistryType'
  <2>1. RegistryType
    BY DEF RInv
  <2>2. loop' \in BOOLEAN /\ base_path' = base_path
    BY <1>3, <2>1 DEF RegistryType
  <2>3. engine_of' \in [Tables -> Engines \cup {NoEngine}] /\ g_engine' \in Engines \cup {NoEngine}
    BY <1>1, <1>2, <2>1 DEF RegistryType
  <2>4. entries'[i] = [entries[i] EXCEPT !.ref_count = @ + 1]
    BY <1>1, <2>1 DEF RegistryType
  <2>5. entries[i] \in [engine : Engines, ref_count : Nat \ {0}]
    BY <1>1, <1>2, <2>1 DEF RegistryType, FreeSlot
  <2>6. entries'[i] \in [engine : Engines, ref_count : Nat \ {0}]
    BY <2>4, <2>5
  <2>7. entries' \in [Slots -> [engine : Engines, ref_count : Nat \ {0}] \cup {FreeSlot}]
    BY <1>1, <2>1, <2>6 DEF RegistryType
  <2> QED BY <1>3, <2>1, <2>2, <2>3, <2>7 DEF RegistryType
<1>8. Open' = Open /\ e \in Open /\ \A d \in Engines : Tracked(d)' <=> Tracked(d)
  BY <1>2, <1>3, <1>4 DEF Open, Tracked, SlotsFor, RInv, EnginesInUseAreOpen
<1>9. OneEntryPerEngine' /\ OneEnginePerPath'
  BY <1>3, <1>4, <1>8 DEF RInv, OneEntryPerEngine, OneEnginePerPath, Open
<1>10. EnginesInUseAreOpen'
  BY <1>1, <1>2, <1>3, <1>4, <1>8 DEF RInv, RegistryType, EnginesInUseAreOpen, Connected
<1>11. /\ Cardinality(Users(e)') = Cardinality(Users(e)) + 1
       /\ \A d \in Engines \ {e} : Users(d)' = Users(d)
  BY <1>1, <1>2, <1>3, OneUserMore DEF RInv
<1>12. CountsExact'
  <2> SUFFICES ASSUME NEW j \in Slots, NEW d \in Engines, entries'[j].engine = d
               PROVE  entries'[j].ref_count = Cardinality(Users(d)')
    BY DEF CountsExact
  <2>1. entries[j].engine = d /\ entries[j].ref_count = Cardinality(Users(d))
    BY <1>4 DEF RInv, CountsExact
  <2>2. j = i <=> d = e
    BY <1>2, <2>1 DEF RInv, OneEntryPerEngine
  <2> QED BY <1>5, <1>6, <1>11, <2>1, <2>2
<1>13. OpenIsUsed'
  <2>1. Tracked(e)'
    BY <1>2, <1>8 DEF Tracked, SlotsFor
  <2> QED BY <1>2, <1>8, <1>11, <2>1, UsersAreCounted DEF RInv, OpenIsUsed
<1> QED BY <1>7, <1>9, <1>10, <1>12, <1>13 DEF RInv

(* ftsConnect to a directory that is not: with the registry full there is  *)
(* no entry, and the engine is its one table's.                            *)
LEMMA OpeningConnectKeeps ==
    ASSUME RInv, NEW t \in Tables, NEW path \in Paths, ConnectOpens(t, path)
    PROVE  RInv'
<1> USE EnginesAreNoNoEngine
<1>1. PICK e \in Engines \ Open :
        /\ base_path' = [base_path EXCEPT ![e] = path]
        /\ engine_of' = [engine_of EXCEPT ![t] = e]
        /\ g_engine' = e
        /\ entries' = Entered(e)
  BY DEF ConnectOpens
<1>2. /\ engine_of[t] = NoEngine /\ loop' \in {TRUE, loop} /\ Serving(path) = {}
      /\ UNCHANGED <<host, cursor>>
  BY DEF ConnectOpens, Connected
<1>3. path # NoPath
  BY PathsAssumption
<1>4. Open' = Open \cup {e}
  BY <1>1, <1>3 DEF Open, RInv, RegistryType
<1>5. \A j \in Slots : IF IsFirstOf(j, FreeSlots)
                       THEN entries[j].engine = NoEngine
                            /\ entries'[j] = [engine |-> e, ref_count |-> 1]
                       ELSE entries'[j] = entries[j]
  BY <1>1 DEF Entered, IsFirstOf, FreeSlots
<1>6. \A j \in Slots : /\ entries[j].engine # e
                       /\ entries'[j].engine = e <=> IsFirstOf(j, FreeSlots)
  BY <1>1, <1>5 DEF RInv, EnginesInUseAreOpen
<1>7. \A j, k \in Slots : IsFirstOf(j, FreeSlots) /\ IsFirstOf(k, FreeSlots) => j = k
  BY MaxActiveAssumption DEF IsFirstOf, FreeSlots, Slots
<1>8. RegistryType'
  <2>1. entries' \in [Slots -> [engine : Engines, ref_count : Nat \ {0}] \cup {FreeSlot}]
    BY <1>1, <1>5 DEF Entered, RInv, RegistryType
  <2> QED BY <1>1, <1>2, <2>1 DEF RInv, RegistryType
<1>9. OneEntryPerEngine'
  BY <1>5, <1>6, <1>7 DEF RInv, OneEntryPerEngine
<1>10. EnginesInUseAreOpen'
  BY <1>1, <1>4, <1>5 DEF RInv, RegistryType, EnginesInUseAreOpen, Connected
<1>11. /\ Cardinality(Users(e)') = Cardinality(Users(e)) + 1
       /\ \A d \in Engines \ {e} : Users(d)' = Users(d)
  BY <1>1, <1>2, OneUserMore DEF RInv
<1>12. Cardinality(Users(e)') = 1
  <2>1. Users(e) = {}
    BY <1>1 DEF RInv, EnginesInUseAreOpen, Connected, Users
  <2> QED BY <1>11, <2>1, FS_EmptySet
<1>13. CountsExact'
  <2> SUFFICES ASSUME NEW j \in Slots, NEW d \in Engines, entries'[j].engine = d
               PROVE  entries'[j].ref_count = Cardinality(Users(d)')
    BY DEF CountsExact
  <2>1. CASE IsFirstOf(j, FreeSlots)
    BY <1>5, <1>12, <2>1
  <2>2. CASE ~IsFirstOf(j, FreeSlots)
    BY <1>5, <1>6, <1>11, <2>2 DEF RInv, CountsExact
  <2> QED BY <2>1, <2>2
<1>14. OpenIsUsed'
  <2>1. \A d \in Engines \ {e} : Tracked(d)' <=> Tracked(d)
    BY <1>5 DEF Tracked, SlotsFor
  <2> QED BY <1>4, <1>11, <1>12, <2>1 DEF RInv, OpenIsUsed
<1>15. OneEnginePerPath'
  <2>1. ASSUME NEW c \in Open', NEW d \in Open', Tracked(c)', Tracked(d)',
               base_path'[c] = base_path'[d]
        PROVE  c = d
    <3>1. \A b \in Open : base_path'[b] = base_path[b] /\ (Tracked(b)' => Tracked(b))
      BY <1>1, <1>5 DEF RInv, RegistryType, Open, Tracked, SlotsFor
    <3>2. \A b \in Open : Tracked(b) => base_path[b] # path
      BY <1>2 DEF Tracked, SlotsFor, Serving, FreeSlots, Open
    <3>3. base_path'[e] = path
      BY <1>1 DEF RInv, RegistryType
    <3> QED BY <1>4, <2>1, <3>1, <3>2, <3>3 DEF RInv, OneEnginePerPath
  <2> QED BY <2>1 DEF OneEnginePerPath
<1> QED BY <1>8, <1>9, <1>10, <1>13, <1>14, <1>15 DEF RInv

(* What is left in use when an engine is closed whose last table is gone.  *)
LEMMA ClosingKeeps ==
    ASSUME RInv, NEW t \in Tables, NEW e \in Engines, engine_of[t] = e,
           Users(e)' = {}, \A d \in Engines \ {e} : Users(d)' = Users(d),
           base_path' = [base_path EXCEPT ![e] = NoPath],
           engine_of' = [engine_of EXCEPT ![t] = NoEngine],
           \A i \in Slots : IF entries[i].engine = e THEN entries'[i] = FreeSlot
                                                     ELSE entries'[i] = entries[i],
           g_engine' \in (Open \ {e}) \cup {NoEngine}, RegistryType'
    PROVE  RInv'
<1> USE EnginesAreNoNoEngine
<1>1. Open' = Open \ {e}
  BY DEF Open, RInv, RegistryType
<1>2. \A d \in Engines \ {e} : /\ Tracked(d)' <=> Tracked(d)
                               /\ base_path'[d] = base_path[d]
  BY DEF Tracked, SlotsFor, FreeSlot, RInv, RegistryType
<1>3. OneEntryPerEngine'
  BY DEF RInv, OneEntryPerEngine, FreeSlot
<1>4. EnginesInUseAreOpen'
  <2>1. \A u \in Tables : engine_of'[u] # e
    BY DEF Users
  <2>2. \A u \in Tables : engine_of'[u] # NoEngine => engine_of'[u] \in Open \ {e}
    BY <2>1 DEF RInv, RegistryType, EnginesInUseAreOpen, Connected
  <2>3. \A i \in Slots : entries'[i].engine \in (Open \ {e}) \cup {NoEngine}
    BY DEF RInv, EnginesInUseAreOpen, FreeSlot
  <2> QED BY <1>1, <2>2, <2>3 DEF EnginesInUseAreOpen, Connected
<1>5. CountsExact'
  BY DEF RInv, CountsExact, FreeSlot
<1>6. OpenIsUsed'
  BY <1>1, <1>2 DEF RInv, OpenIsUsed
<1>7. OneEnginePerPath'
  BY <1>1, <1>2 DEF RInv, OneEnginePerPath, Open
<1> QED BY <1>3, <1>4, <1>5, <1>6, <1>7 DEF RInv

(* The engine inserts fall back to is one of those left in the registry. *)
LEMMA FallsBackToEntry ==
    ASSUME NEW e, NEW left, g_engine = e
    PROVE  FallBack(e, left) \in {NoEngine} \cup {left[i].engine : i \in Slots}
<1> DEFINE used == {i \in Slots : left[i].engine # NoEngine}
<1>1. CASE used = {}
  BY <1>1 DEF FallBack
<1>2. CASE used # {}
  <2>1. used \in SUBSET Nat
    BY MaxActiveAssumption DEF Slots
  <2>2. \E i \in used : \A j \in used : i <= j
    BY <1>2, <2>1, LeastOne
  <2>3. (CHOOSE i \in used : \A j \in used : i <= j) \in used
    BY <2>2
  <2> QED BY <2>3 DEF FallBack
<1> QED BY <1>1, <1>2

LEMMA TrackedDisconnectKeeps ==
    ASSUME RInv, NEW t \in Tables, DisconnectTracked(t)
    PROVE  RInv'
<1> USE EnginesAreNoNoEngine
<1>1. PICK e \in Engines : engine_of[t] = e
  BY DEF DisconnectTracked, Connected, RInv, RegistryType
<1>2. PICK i \in Slots :
        /\ IsFirstOf(i, SlotsFor(e))
        /\ IF Unused(entries[i].ref_count - 1)
           THEN /\ entries' = [entries EXCEPT ![i] = FreeSlot]
                /\ CloseEngine(e)
                /\ g_engine' = FallBack(e, entries')
           ELSE /\ entries' = [entries EXCEPT ![i].ref_count = entries[i].ref_count - 1]
                /\ UNCHANGED <<base_path, g_engine>>
  BY <1>1 DEF DisconnectTracked
<1>3. /\ engine_of' = [engine_of EXCEPT ![t] = NoEngine]
      /\ loop' \in BOOLEAN
      /\ UNCHANGED <<host, cursor>>
  BY DEF DisconnectTracked, ShutsDownIfNone, RInv, RegistryType
<1>4. /\ Cardinality(Users(e)) = Cardinality(Users(e)') + 1
      /\ Cardinality(Users(e)') = 0 => Users(e)' = {}
      /\ \A d \in Engines \ {e} : Users(d)' = Users(d)
  BY <1>1, <1>3, OneUserLess DEF RInv
<1>5. /\ entries[i].engine = e /\ entries[i].ref_count = Cardinality(Users(e))
      /\ entries[i] \in [engine : Engines, ref_count : Nat \ {0}]
  BY <1>2 DEF IsFirstOf, SlotsFor, RInv, RegistryType, CountsExact, FreeSlot
<1>6. \A j \in Slots : entries[j].engine = e <=> j = i
  BY <1>5 DEF RInv, OneEntryPerEngine
<1>7. Cardinality(Users(e)') \in Nat
  <2>1. Users(e)' \in SUBSET Tables
    BY DEF Users
  <2> QED BY <2>1, TablesAssumption, FS_Subset, FS_CardinalityType
<1>8. CASE Unused(entries[i].ref_count - 1)
  <2>1. Users(e)' = {}
    BY <1>4, <1>5, <1>7, <1>8 DEF Unused
  <2>2. /\ base_path' = [base_path EXCEPT ![e] = NoPath]
        /\ \A j \in Slots : entries'[j] = IF j = i THEN FreeSlot ELSE entries[j]
        /\ entries' \in [Slots -> [engine : Engines, ref_count : Nat \ {0}] \cup {FreeSlot}]
    BY <1>2, <1>8 DEF CloseEngine, RInv, RegistryType
  <2>3. g_engine' \in (Open \ {e}) \cup {NoEngine}
    <3>1. g_engine' = FallBack(e, entries')
      BY <1>2, <1>8
    <3>2. \A j \in Slots : entries'[j].engine \in (Open \ {e}) \cup {NoEngine}
      BY <1>6, <2>2 DEF RInv, EnginesInUseAreOpen, FreeSlot
    <3>3. CASE g_engine # e
      BY <3>1, <3>3 DEF FallBack, RInv, EnginesInUseAreOpen
    <3>4. CASE g_engine = e
      BY <3>1, <3>2, <3>4, FallsBackToEntry
    <3> QED BY <3>3, <3>4
  <2>4. RegistryType'
    BY <1>3, <2>2, <2>3 DEF RInv, RegistryType, Open
  <2> QED BY <1>1, <1>3, <1>4, <1>6, <2>1, <2>2, <2>3, <2>4, ClosingKeeps
<1>9. CASE ~Unused(entries[i].ref_count - 1)
  <2>1. /\ base_path' = base_path /\ g_engine' = g_engine
        /\ \A j \in Slots \ {i} : entries'[j] = entries[j]
        /\ entries'[i] = [engine |-> e, ref_count |-> entries[i].ref_count - 1]
        /\ entries[i].ref_count - 1 \in Nat \ {0}
    BY <1>2, <1>5, <1>9 DEF Unused, RInv, RegistryType
  <2>2. \A j \in Slots : entries'[j].engine = entries[j].engine
    BY <1>5, <2>1
  <2>3. RegistryType'
    BY <1>2, <1>3, <1>5, <1>9, <2>1 DEF RInv, RegistryType
  <2>4. Open' = Open /\ \A d \in Engines : Tracked(d)' <=> Tracked(d)
    BY <2>1, <2>2 DEF Open, Tracked, SlotsFor
  <2>5. OneEntryPerEngine' /\ OneEnginePerPath'
    BY <2>1, <2>2, <2>4 DEF RInv, OneEntryPerEngine, OneEnginePerPath, Open
  <2>6. EnginesInUseAreOpen'
    BY <1>3, <2>1, <2>2, <2>4 DEF RInv, RegistryType, EnginesInUseAreOpen, Connected
  <2>7. CountsExact'
    BY <1>4, <1>5, <1>6, <1>7, <2>1 DEF RInv, CountsExact
  <2>8. OpenIsUsed'
    <3>1. Cardinality(Users(e)') >= 1 /\ Tracked(e)
      BY <1>4, <1>5, <1>7, <2>1 DEF Tracked, SlotsFor
    <3> QED BY <1>4, <2>4, <3>1 DEF RInv, OpenIsUsed
  <2> QED BY <2>3, <2>5, <2>6, <2>7, <2>8 DEF RInv
<1> QED BY <1>8, <1>9

LEMMA UntrackedDisconnectKeeps ==
    ASSUME RInv, NEW t \in Tables, DisconnectUntracked(t)
    PROVE  RInv'
<1> USE EnginesAreNoNoEngine
<1>1. PICK e \in Engines : engine_of[t] = e
  BY DEF DisconnectUntracked, Connected, RInv, RegistryType
<1>2. /\ SlotsFor(e) = {}
      /\ base_path' = [base_path EXCEPT ![e] = NoPath]
      /\ g_engine' = IF g_engine = e THEN NoEngine ELSE g_engine
      /\ engine_of' = [engine_of EXCEPT ![t] = NoEngine]
      /\ loop' \in BOOLEAN
      /\ UNCHANGED <<host, entries, cursor>>
  BY <1>1 DEF DisconnectUntracked, CloseEngine, ShutsDownIfNone, RInv, RegistryType
<1>3. /\ Cardinality(Users(e)) = Cardinality(Users(e)') + 1
      /\ Cardinality(Users(e)') = 0 => Users(e)' = {}
      /\ \A d \in Engines \ {e} : Users(d)' = Users(d)
  BY <1>1, <1>2, OneUserLess DEF RInv
<1>4. Cardinality(Users(e)') \in Nat
  <2>1. Users(e)' \in SUBSET Tables
    BY DEF Users
  <2> QED BY <2>1, TablesAssumption, FS_Subset, FS_CardinalityType
<1>5. e \in Open
  BY <1>1 DEF RInv, EnginesInUseAreOpen, Connected
<1>6. Users(e)' = {}
  BY <1>2, <1>3, <1>4, <1>5 DEF RInv, OpenIsUsed, Tracked
<1>7. RegistryType'
  BY <1>2 DEF RInv, RegistryType
<1>8. g_engine' \in (Open \ {e}) \cup {NoEngine}
  BY <1>2 DEF RInv, EnginesInUseAreOpen
<1>9. \A i \in Slots : entries[i].engine # e /\ entries'[i] = entries[i]
  BY <1>2 DEF SlotsFor
<1> QED BY <1>1, <1>2, <1>3, <1>6, <1>7, <1>8, <1>9, ClosingKeeps

LEMMA RegistryKept == RInv /\ [Next]_vars => RInv'
<1> SUFFICES ASSUME RInv, [Next]_vars PROVE RInv'
  OBVIOUS
<1>1. CASE \E t \in Tables, path \in Paths : ConnectShared(t, path) \/ ConnectOpens(t, path)
  BY <1>1, SharedConnectKeeps, OpeningConnectKeeps
<1>2. CASE \E t \in Tables : DisconnectTracked(t) \/ DisconnectUntracked(t)
  BY <1>2, TrackedDisconnectKeeps, UntrackedDisconnectKeeps
<1>3. CASE UNCHANGED <<host, bridgeVars>> /\ loop' \in {loop, TRUE}
  BY <1>3, RegistryAlone DEF bridgeVars, RInv, RegistryType
<1>4. ASSUME NEW s \in Searches, SearchBegins(s) \/ SearchRefused(s), UNCHANGED <<host, bridgeVars>>
      PROVE  RInv'
  BY <1>3, <1>4 DEF SearchBegins, SearchRefused
<1>5. CASE (\E t \in Tables : CursorOpens(t)) \/ CursorCloses
  BY <1>5, RegistryAlone DEF CursorOpens, CursorCloses, UnchangedSearch, searchVars,
                             RInv, RegistryType
<1>6. CASE \E s \in TableSearches : Filter(s)
  BY <1>4, <1>6, SearchesAssumption DEF Filter
<1>7. CASE \E s \in Searches : SearchFromProgram(s)
  BY <1>4, <1>7 DEF SearchFromProgram
<1>8. CASE SearchSteps
  BY <1>3, <1>8 DEF SearchSteps, CallerStep, Queue, CallsBack, LoopReturns
<1>9. CASE \E s \in Shards : PoolSteps(s)
  BY <1>3, <1>9 DEF PoolSteps, ThreadStep, WorkStarts, WorkEnds
<1>10. CASE SearchGivesAnswer
  BY <1>3, <1>10 DEF SearchGivesAnswer, SearchReturns
<1>11. CASE SearchIsOver
  BY <1>3, <1>11 DEF SearchIsOver, Forget
<1>12. CASE UNCHANGED vars
  BY <1>3, <1>12 DEF vars, searchVars
<1> QED BY <1>1, <1>2, <1>5, <1>6, <1>7, <1>8, <1>9, <1>10, <1>11, <1>12 DEF Next

LEMMA RegistryInvariant == Spec => []RInv
BY Registry0, RegistryKept, PTL DEF Spec

(* Every variable of the bridge and of the search stays in its domain. *)
THEOREM TypeCorrect == Spec => []TypeOK
<1>1. RInv /\ SInv => TypeOK
  <2> SUFFICES ASSUME RInv, SInv PROVE TypeOK
    OBVIOUS
  <2>1. completed \in 0..NumShards
    BY ItemsAreCounted DEF SInv
  <2> QED BY <2>1 DEF TypeOK, RInv, RegistryType, SInv, SearchType
<1> QED BY <1>1, RegistryInvariant, SearchInit, SearchKept, PTL DEF Spec

(* The count of an entry is the number of tables of its engine, and an     *)
(* engine without an entry has one table, also when the registry is full   *)
(* (vtab_bridge.c:112).                                                    *)
THEOREM CountsAreExact == Spec => []RefCountExact
<1>1. RInv => RefCountExact
  <2> SUFFICES ASSUME RInv PROVE RefCountExact
    OBVIOUS
  <2>1. ASSUME NEW i \in Slots, entries[i].engine # NoEngine
        PROVE  entries[i].ref_count = Cardinality(Users(entries[i].engine))
    <3>1. entries[i].engine \in Engines
      BY <2>1 DEF RInv, RegistryType, FreeSlot
    <3> QED BY <3>1 DEF RInv, CountsExact
  <2>2. \A e \in Open : Cardinality(Users(e)) >= 1 /\ (~Tracked(e) => Cardinality(Users(e)) = 1)
    BY DEF RInv, OpenIsUsed, Open
  <2> QED BY <2>1, <2>2 DEF RefCountExact
<1> QED BY <1>1, RegistryInvariant, PTL

(* Neither a table nor an entry nor an insert of the Python binding uses   *)
(* an engine that ftsDisconnect has closed (vtab_bridge.c:144).            *)
THEOREM UsedEnginesAreOpen == Spec => []EnginesInUseAreOpen
<1>1. RInv => EnginesInUseAreOpen
  BY DEF RInv
<1> QED BY <1>1, RegistryInvariant, PTL

(* Among the engines of the registry no two have one directory open        *)
(* (vtab_bridge.c:91).                                                     *)
THEOREM PathsAreOpenOnce == Spec => []OneEnginePerPath
<1>1. RInv => OneEnginePerPath
  BY DEF RInv
<1> QED BY <1>1, RegistryInvariant, PTL
===============================================================================

------------------------------ MODULE VtabBridge ------------------------------
(***************************************************************************)
(* The SQLite virtual table (src/vtab_bridge.c): tables connect to engines *)
(* through a registry with reference counts, and a cursor searches the     *)
(* engine of its table through AsyncSearch.                                *)
(*                                                                         *)
(* SQLite is one thread here, as AsyncSearch needs; it closes the cursors  *)
(* of a table before it disconnects it.  A program without SQLite, which   *)
(* calls engine_search_async with an engine of its own, is the other host. *)
(* What the files of an engine hold is not followed: a search finds any of *)
(* the collections of documents it may find.                               *)
(***************************************************************************)
EXTENDS AsyncSearch

CONSTANTS Paths,        \* directories
          Tables,       \* virtual tables that may be connected at a time
          Engines,      \* addresses of UnifiedEngine structures
          MaxActive,    \* MAX_ACTIVE_ENGINES
          TableSearches \* the searches of a cursor

ASSUME MaxActiveAssumption == MaxActive \in Nat
ASSUME SearchesAssumption ==
    /\ TableSearches \subseteq Searches
    /\ \A s \in TableSearches : s.query.use_text /\ ~s.query.use_vector

VARIABLES host,         \* "sqlite" or "program"
          entries,      \* g_active_engines
          base_path,    \* the engines in memory and their directories
          engine_of,    \* the engine of each connected table
          g_engine,     \* the engine inserts of the Python binding go to
          cursor        \* the table of the open cursor

bridgeVars == <<entries, base_path, engine_of, g_engine, cursor>>
vars == <<host, bridgeVars, searchVars>>

NoEngine == 0
NoPath   == "none"
NoTable  == "none"

ASSUME PathsAssumption   == NoPath \notin Paths
ASSUME EnginesAssumption == Engines \subseteq Nat \ {NoEngine}
ASSUME TablesAssumption  == IsFiniteSet(Tables)

Slots     == 1..MaxActive
FreeSlot  == [engine |-> NoEngine, ref_count |-> 0]
Connected == {t \in Tables : engine_of[t] # NoEngine}
Open      == {e \in Engines : base_path[e] # NoPath}

Init == /\ host \in {"sqlite", "program"}
        /\ entries = [i \in Slots |-> FreeSlot]
        /\ base_path = [e \in Engines |-> NoPath]
        /\ engine_of = [t \in Tables |-> NoEngine]
        /\ g_engine = NoEngine
        /\ cursor = NoTable
        /\ loop = FALSE
        /\ Idle
-----------------------------------------------------------------------------
(***************************************************************************)
(* ftsConnect                                                              *)
(***************************************************************************)

Caller == host = "sqlite" /\ phase = "idle"

IsFirstOf(i, slots) == i \in slots /\ \A j \in slots : i <= j

FreeSlots   == {i \in Slots : entries[i].engine = NoEngine}
SlotsFor(e) == {i \in Slots : entries[i].engine = e}

(* The entries for a directory; the variant looks at the first entry only. *)
ServingIfFirst(path) ==
    {i \in Slots \ FreeSlots : i = 1 /\ base_path[entries[i].engine] = path}
Serving(path) ==
    {i \in Slots \ FreeSlots : base_path[entries[i].engine] = path}

(* A table of a directory that is open shares its engine.  Whether         *)
(* async_search_init makes the loop is not looked at.                      *)
ConnectShared(t, path) ==
    /\ Caller
    /\ t \notin Connected
    /\ \E i \in Slots :
         /\ IsFirstOf(i, Serving(path))
         /\ entries' = [entries EXCEPT ![i].ref_count = @ + 1]
         /\ engine_of' = [engine_of EXCEPT ![t] = entries[i].engine]
         /\ g_engine' = entries[i].engine
    /\ loop' \in {TRUE, loop}
    /\ UNCHANGED <<host, base_path, cursor,
                   phase, search, work, completed, answer>>

(* Otherwise it opens one, at any address that is free, and enters it in   *)
(* the first free entry, if there is one.  The variant forgets the count.  *)
EnteredUncounted(e) == [i \in Slots |-> IF IsFirstOf(i, FreeSlots)
                                        THEN [engine |-> e, ref_count |-> 0]
                                        ELSE entries[i]]
Entered(e) == [i \in Slots |-> IF IsFirstOf(i, FreeSlots)
                               THEN [engine |-> e, ref_count |-> 1]
                               ELSE entries[i]]

ConnectOpens(t, path) ==
    /\ Caller
    /\ t \notin Connected
    /\ Serving(path) = {}
    /\ \E e \in Engines \ Open :
         /\ base_path' = [base_path EXCEPT ![e] = path]
         /\ engine_of' = [engine_of EXCEPT ![t] = e]
         /\ g_engine' = e
         /\ entries' = Entered(e)
    /\ loop' \in {TRUE, loop}
    /\ UNCHANGED <<host, cursor, phase, search, work, completed, answer>>
-----------------------------------------------------------------------------
(***************************************************************************)
(* ftsDisconnect                                                           *)
(***************************************************************************)

CloseEngine(e) == base_path' = [base_path EXCEPT ![e] = NoPath]

(* g_engine falls back to the first engine that is left in the registry;   *)
(* the variant leaves it alone.                                            *)
FallBackNot(e, left) == g_engine
FallBack(e, left) ==
    LET used == {i \in Slots : left[i].engine # NoEngine}
    IN  IF g_engine # e THEN g_engine
        ELSE IF used = {} THEN NoEngine
        ELSE left[CHOOSE i \in used : \A j \in used : i <= j].engine

ShutsDownIfNone(left) == loop' = (loop /\ \E i \in Slots : left[i].engine # NoEngine)

(* Whether a count leaves the engine without users; a variant is late. *)
UnusedLate(count) == count < 0
Unused(count) == count <= 0

DisconnectTracked(t) ==
    /\ Caller
    /\ t \in Connected /\ cursor # t
    /\ \E i \in Slots :
         LET e     == engine_of[t]
             count == entries[i].ref_count - 1
         IN  /\ IsFirstOf(i, SlotsFor(e))
             /\ IF Unused(count)
                THEN /\ entries' = [entries EXCEPT ![i] = FreeSlot]
                     /\ CloseEngine(e)
                     /\ g_engine' = FallBack(e, entries')
                ELSE /\ entries' = [entries EXCEPT ![i].ref_count = count]
                     /\ UNCHANGED <<base_path, g_engine>>
    /\ engine_of' = [engine_of EXCEPT ![t] = NoEngine]
    /\ ShutsDownIfNone(entries')
    /\ UNCHANGED <<host, cursor, phase, search, work, completed, answer>>

(* An engine the registry had no entry for has one table.  It is closed,   *)
(* and the loop too if the registry is empty, with no fall back.           *)
DisconnectUntracked(t) ==
    /\ Caller
    /\ t \in Connected /\ cursor # t
    /\ SlotsFor(engine_of[t]) = {}
    /\ CloseEngine(engine_of[t])
    /\ g_engine' = IF g_engine = engine_of[t] THEN NoEngine ELSE g_engine
    /\ engine_of' = [engine_of EXCEPT ![t] = NoEngine]
    /\ ShutsDownIfNone(entries)
    /\ UNCHANGED <<host, entries, cursor,
                   phase, search, work, completed, answer>>
-----------------------------------------------------------------------------
(***************************************************************************)
(* Cursors and searches                                                    *)
(***************************************************************************)

UnchangedSearch == UNCHANGED searchVars

CursorOpens(t) == /\ Caller
                  /\ t \in Connected /\ cursor = NoTable
                  /\ cursor' = t
                  /\ UNCHANGED <<host, entries, base_path, engine_of, g_engine>>
                  /\ UnchangedSearch

(* ftsFilter: the words of the query are its terms, and it is about text. *)
Filter(s) == /\ host = "sqlite" /\ cursor # NoTable
             /\ SearchBegins(s) \/ SearchRefused(s)
             /\ UNCHANGED <<host, bridgeVars>>

SearchFromProgram(s) == /\ host = "program"
                        /\ SearchBegins(s) \/ SearchRefused(s)
                        /\ UNCHANGED <<host, bridgeVars>>

(* The rows of the cursor are a copy of the answer: stepping through them  *)
(* touches nothing else.                                                   *)
SearchIsOver == Forget /\ UNCHANGED <<host, bridgeVars>>

CursorCloses == /\ Caller
                /\ cursor # NoTable
                /\ cursor' = NoTable
                /\ UNCHANGED <<host, entries, base_path, engine_of, g_engine>>
                /\ UnchangedSearch

SearchSteps  == CallerStep /\ UNCHANGED <<host, bridgeVars>>
PoolSteps(s) == ThreadStep(s) /\ UNCHANGED <<host, bridgeVars>>
SearchGivesAnswer == SearchReturns /\ UNCHANGED <<host, bridgeVars>>

Next == \/ \E t \in Tables, path \in Paths : ConnectShared(t, path) \/ ConnectOpens(t, path)
        \/ \E t \in Tables : DisconnectTracked(t) \/ DisconnectUntracked(t) \/ CursorOpens(t)
        \/ \E s \in TableSearches : Filter(s)
        \/ \E s \in Searches : SearchFromProgram(s)
        \/ SearchSteps
        \/ \E s \in Shards : PoolSteps(s)
        \/ SearchGivesAnswer
        \/ SearchIsOver
        \/ CursorCloses

(* The caller and the threads of the pool go on with what they have begun. *)
Fairness == WF_vars(SearchSteps) /\ \A s \in Shards : WF_vars(PoolSteps(s))

Spec == Init /\ [][Next]_vars /\ Fairness
-----------------------------------------------------------------------------
(***************************************************************************)
(* Properties                                                              *)
(***************************************************************************)

(* Every variable stays in its domain. *)
TypeOK ==
    /\ host \in {"sqlite", "program"}
    /\ entries \in [Slots -> [engine : Engines, ref_count : Nat \ {0}] \cup {FreeSlot}]
    /\ base_path \in [Engines -> Paths \cup {NoPath}]
    /\ engine_of \in [Tables -> Engines \cup {NoEngine}]
    /\ g_engine \in Engines \cup {NoEngine}
    /\ cursor \in Tables \cup {NoTable}
    /\ loop \in BOOLEAN
    /\ phase \in {"idle", "queueing", "waiting", "gathering", "returned", "refused"}
    /\ work \in [Shards -> {"none", "queued", "running", "reported", "done"}]
    /\ completed \in 0..NumShards

Users(e)   == {t \in Tables : engine_of[t] = e}
Tracked(e) == SlotsFor(e) # {}

(* The reference count of an engine is the number of its tables, and an    *)
(* engine without an entry has one table: a count too low closes the       *)
(* engine under a table that uses it, one too high never closes it.        *)
RefCountExact ==
    /\ \A i \in Slots : entries[i].engine # NoEngine =>
          entries[i].ref_count = Cardinality(Users(entries[i].engine))
    /\ \A e \in Open : Cardinality(Users(e)) >= 1 /\ (~Tracked(e) => Cardinality(Users(e)) = 1)

(* No table, no entry of the registry and no insert of the Python binding  *)
(* uses an engine that has been closed, whatever is at its address now.    *)
EnginesInUseAreOpen ==
    /\ \A t \in Connected : engine_of[t] \in Open
    /\ \A i \in Slots : entries[i].engine \in Open \cup {NoEngine}
    /\ g_engine \in Open \cup {NoEngine}

(* The files of a directory are open once among the engines of the         *)
(* registry: two engines would overwrite each other's pages.               *)
OneEnginePerPath ==
    \A d, e \in Open : Tracked(d) /\ Tracked(e) /\ base_path[d] = base_path[e] => d = e
=============================================================================

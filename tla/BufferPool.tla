------------------------------ MODULE BufferPool ------------------------------
(***************************************************************************)
(* The buffer pool of one shard (src/buffer_pool.c) with the callers that  *)
(* pin its pages, the data file below it (src/fts_vfs.c) and the part of   *)
(* the write-ahead log it depends on: which changes have a record and      *)
(* which records fdatasync has made durable.                               *)
(*                                                                         *)
(* The pool is driven by the shard's single owner thread, so one call of   *)
(* its API is one action.  Interleaved are the pins the thread holds at a  *)
(* time (a B-tree split holds two pages), the changes it makes through     *)
(* them, evictions, and a crash of the process at any point.               *)
(*                                                                         *)
(* The contents of a page is the number of the change that produced it.    *)
(***************************************************************************)
EXTENDS Integers, FiniteSets

CONSTANTS Pages,        \* page ids callers use
          PoolSize,     \* bpm->pool_size
          Pins,         \* pins the owner thread may hold at a time
          MaxWrites,    \* bound on the number of changes
          FaultSets     \* the sets of system calls that may fail, see FaultKinds

FaultKinds == {"read",  \* fts_vfs_read_sync returns fewer bytes than a page
               "write", \* a page write returns < 0
               "short", \* a page write returns fewer bytes than a page
               "fsync"} \* the fdatasync of wal_flush fails

ASSUME PagesAssumption == Pages \subseteq Nat
ASSUME PoolSizeAssumption == PoolSize \in Nat \ {0}
ASSUME PinsAssumption == IsFiniteSet(Pins)
ASSUME MaxWritesAssumption == MaxWrites \in Nat
ASSUME FaultSetsAssumption == FaultSets \subseteq SUBSET FaultKinds

VARIABLES frames,       \* bpm->frames
          clock_hand,   \* bpm->clock_hand
          pins,         \* the Frame pointers the owner thread holds
          disk,         \* the pages of the data file
          logged,       \* changes that have a record in the log
          synced,       \* changes whose record fdatasync made durable
          version,      \* number of the last change
          faults        \* the system calls that may fail in this behaviour

vars == <<frames, clock_hand, pins, disk, logged, synced, version, faults>>

NoPage  == -1           \* (uint32_t)-1 in a frame
NoFrame == -1           \* a pin not in use
Blank   == -1           \* contents made by slotted_page_init after a bad read
Torn    == -2           \* contents left by a short write

Frame   == 0..(PoolSize - 1)
Content == Nat \cup {Blank, Torn}

EmptyFrame == [page_id |-> NoPage, pin_count |-> 0, is_dirty |-> FALSE, data |-> 0]
NoPin      == [frame |-> NoFrame, page |-> NoPage, modified |-> FALSE]

Init == /\ frames = [f \in Frame |-> EmptyFrame]
        /\ clock_hand = 0
        /\ pins = [h \in Pins |-> NoPin]
        /\ disk = [p \in Pages |-> 0]
        /\ logged = {}
        /\ synced = {}
        /\ version = 0
        /\ faults \in FaultSets

(* The frame the linear search for a page id stops at. *)
IsFrameOf(f, p) == /\ frames[f].page_id = p
                   /\ \A g \in Frame : g < f => frames[g].page_id # p

(* Whether the search finds p; a variant that leaves out the last frame.   *)
CachedButLast(p) == \E f \in Frame : f < PoolSize - 1 /\ frames[f].page_id = p
Cached(p) == \E f \in Frame : frames[f].page_id = p

(* find_victim_frame takes the first frame from the hand on that is empty  *)
(* or unpinned; with none it returns -1 after two rounds, the hand back    *)
(* where it was, and the fetch returns NULL: no step of the model.         *)
(* Variants take a clean frame for a free one, and never wrap the hand.    *)
EvictableIfClean(f) == frames[f].page_id = NoPage \/ ~frames[f].is_dirty
AfterNoWrap(f)      == f + 1

Evictable(f) == frames[f].page_id = NoPage \/ frames[f].pin_count = 0
FromHand(f)  == IF f >= clock_hand THEN f - clock_hand ELSE f - clock_hand + PoolSize
IsVictim(f)  == /\ Evictable(f)
                /\ \A g \in Frame : Evictable(g) => FromHand(f) <= FromHand(g)
After(f)     == IF f + 1 = PoolSize THEN 0 ELSE f + 1

(* Whether eviction writes the page; a variant only trusts logged changes. *)
NeedsWriteIfLogged(f) == /\ frames[f].page_id # NoPage
                         /\ frames[f].is_dirty
                         /\ frames[f].data \in logged
NeedsWrite(f) == frames[f].page_id # NoPage /\ frames[f].is_dirty

(* wal_flush, its result ignored by every caller in the pool; a variant    *)
(* that returns before the sync.                                           *)
WalFlushSkipped == UNCHANGED synced
WalFlush == \/ synced' = logged
            \/ "fsync" \in faults /\ UNCHANGED synced

(* The write of one frame by buffer_pool_flush_page; a short write counts. *)
WriteSucceeds(f) ==
    \/ disk' = [disk EXCEPT ![frames[f].page_id] = frames[f].data]
    \/ "short" \in faults /\ disk' = [disk EXCEPT ![frames[f].page_id] = Torn]
WriteFails == "write" \in faults /\ UNCHANGED disk

(* What buffer_pool_fetch_page puts into the frame of page p. *)
ReadResult(p) == {disk[p]} \cup IF "read" \in faults THEN {Blank} ELSE {}

FetchHit(h, p) ==
    /\ pins[h] = NoPin
    /\ \E f \in Frame :
         /\ IsFrameOf(f, p)
         /\ frames' = [frames EXCEPT ![f].pin_count = @ + 1]
         /\ pins' = [pins EXCEPT ![h] = [frame |-> f, page |-> p, modified |-> FALSE]]
    /\ UNCHANGED <<clock_hand, disk, logged, synced, version, faults>>

(* A miss takes the victim's frame whether or not its write succeeded. *)
FetchMiss(h, p) ==
    /\ pins[h] = NoPin
    /\ ~Cached(p)
    /\ \E f \in Frame :
         /\ IsVictim(f)
         /\ IF NeedsWrite(f) THEN WalFlush /\ (WriteSucceeds(f) \/ WriteFails)
                             ELSE UNCHANGED <<disk, synced>>
         /\ clock_hand' = After(f)
         /\ \E d \in ReadResult(p) :
              frames' = [frames EXCEPT ![f] =
                 [page_id |-> p, pin_count |-> 1, is_dirty |-> FALSE, data |-> d]]
         /\ pins' = [pins EXCEPT ![h] = [frame |-> f, page |-> p, modified |-> FALSE]]
    /\ UNCHANGED <<logged, version, faults>>

(* The holder of a pin changes the page through its pointer.  The B-tree,  *)
(* the document pages and the tombstones append a log record beside the    *)
(* change; the posting pages append none, and an append that fails leaves  *)
(* the change without a record too.                                        *)
Modify(h) ==
    /\ pins[h] # NoPin
    /\ version < MaxWrites
    /\ version' = version + 1
    /\ frames' = [frames EXCEPT ![pins[h].frame].data = version + 1]
    /\ pins' = [pins EXCEPT ![h].modified = TRUE]
    /\ \/ logged' = logged \cup {version + 1}
       \/ UNCHANGED logged
    /\ UNCHANGED <<clock_hand, disk, synced, faults>>

(* Callers pass is_dirty = true exactly when they have changed the page.   *)
(* The scan hint moves the hand to the frame its last pin left.            *)
Unpin(h, hint) ==
    /\ pins[h] # NoPin
    /\ pins' = [pins EXCEPT ![h] = NoPin]
    /\ \/ /\ ~Cached(pins[h].page)
          /\ UNCHANGED <<frames, clock_hand>>
       \/ \E f \in Frame :
            /\ IsFrameOf(f, pins[h].page)
            /\ frames' = [frames EXCEPT
                 ![f].pin_count = IF @ > 0 THEN @ - 1 ELSE @,
                 ![f].is_dirty  = @ \/ pins[h].modified]
            /\ clock_hand' = IF frames'[f].pin_count = 0 /\ hint = "scan"
                             THEN f ELSE clock_hand
    /\ UNCHANGED <<disk, logged, synced, version, faults>>

FlushPage(p) ==
    /\ \E f \in Frame :
         /\ IsFrameOf(f, p)
         /\ frames[f].is_dirty
         /\ WalFlush
         /\ \/ WriteSucceeds(f) /\ frames' = [frames EXCEPT ![f].is_dirty = FALSE]
            \/ WriteFails /\ UNCHANGED frames
    /\ UNCHANGED <<clock_hand, pins, logged, version, faults>>

(* One flush of the log, then every dirty frame in batches; each write     *)
(* succeeds or fails on its own and only a success clears the dirty bit.   *)
DirtyFrames == {f \in Frame : NeedsWrite(f)}

(* A variant writes frame 0 only with a batch that has no other frame.     *)
DiskAfterDropsFirst(written, torn) ==
    [p \in Pages |->
       IF \E f \in torn : frames[f].page_id = p THEN Torn
       ELSE IF \E f \in written : frames[f].page_id = p /\ (f > 0 \/ written = {0})
       THEN frames[CHOOSE f \in written : frames[f].page_id = p].data
       ELSE disk[p]]

DiskAfter(written, torn) ==
    [p \in Pages |->
       IF \E f \in torn : frames[f].page_id = p THEN Torn
       ELSE IF \E f \in written : frames[f].page_id = p
       THEN frames[CHOOSE f \in written : frames[f].page_id = p].data
       ELSE disk[p]]

FlushAll ==
    /\ DirtyFrames # {}
    /\ WalFlush
    /\ \E written \in SUBSET DirtyFrames : \E torn \in SUBSET written :
         /\ written # DirtyFrames => "write" \in faults
         /\ torn # {} => "short" \in faults
         /\ disk' = DiskAfter(written, torn)
         /\ frames' = [f \in Frame |-> IF f \in written
                                      THEN [frames[f] EXCEPT !.is_dirty = FALSE]
                                      ELSE frames[f]]
    /\ UNCHANGED <<clock_hand, pins, logged, version, faults>>

(* The process dies: the pool and the pins are gone, the files stay as the *)
(* completed system calls left them, and buffer_pool_init starts over.     *)
Crash ==
    /\ frames' = [f \in Frame |-> EmptyFrame]
    /\ clock_hand' = 0
    /\ pins' = [h \in Pins |-> NoPin]
    /\ UNCHANGED <<disk, logged, synced, version, faults>>

Next == \/ \E h \in Pins, p \in Pages : FetchHit(h, p) \/ FetchMiss(h, p)
        \/ \E h \in Pins : Modify(h)
        \/ \E h \in Pins, hint \in {"normal", "scan"} : Unpin(h, hint)
        \/ \E p \in Pages : FlushPage(p)
        \/ FlushAll
        \/ Crash

Spec == Init /\ [][Next]_vars
-----------------------------------------------------------------------------
(***************************************************************************)
(* Properties                                                              *)
(***************************************************************************)

FrameRecord == [page_id : Pages \cup {NoPage}, pin_count : Nat,
                is_dirty : BOOLEAN, data : Content]
PinRecord   == [frame : Frame \cup {NoFrame}, page : Pages \cup {NoPage},
                modified : BOOLEAN]

(* Every variable stays in its domain. *)
TypeOK ==
    /\ frames \in [Frame -> FrameRecord]
    /\ clock_hand \in Frame
    /\ pins \in [Pins -> PinRecord]
    /\ disk \in [Pages -> Content]
    /\ logged \in SUBSET (1..version)
    /\ synced \in SUBSET logged
    /\ version \in 0..MaxWrites
    /\ faults \in SUBSET FaultKinds

PinsOn(f) == {h \in Pins : pins[h].frame = f}

(* A page is cached in one frame at most: were it in two, the linear       *)
(* search would hide the changes made through the other.                   *)
OneFramePerPage ==
    \A f, g \in Frame : /\ frames[f].page_id # NoPage
                        /\ frames[f].page_id = frames[g].page_id
                        => f = g

(* The Frame pointer a caller holds still points to the page it fetched,   *)
(* after every eviction, nested pin and unpin by page id since.            *)
PinnedFrameKeepsPage ==
    \A h \in Pins : pins[h] # NoPin =>
        /\ pins[h].frame \in Frame
        /\ frames[pins[h].frame].page_id = pins[h].page

(* pin_count is the number of pointers held: an unpin lost or counted for  *)
(* another frame would make a frame unevictable, or evictable while used.  *)
PinCountExact == \A f \in Frame : frames[f].pin_count = Cardinality(PinsOn(f))

Modified(f) == \E h \in PinsOn(f) : pins[h].modified

(* A frame neither dirty nor under change holds what the file holds, so    *)
(* what eviction drops without a write can be read back, whichever writes  *)
(* of a batch failed.  Only a page that could not be read, which comes     *)
(* back empty, and one a short write tore, which counts as written, differ. *)
CleanFrameMatchesDisk ==
    \A f \in Frame :
        /\ frames[f].page_id # NoPage
        /\ ~frames[f].is_dirty
        /\ ~Modified(f)
        => \/ frames[f].data \in {disk[frames[f].page_id], Blank}
           \/ disk[frames[f].page_id] = Torn

(* The WAL rule of buffer_pool.c:47: no page reaches the data file before  *)
(* the log record of its last change is durable, while the log can be synced. *)
WalBeforeData ==
    "fsync" \notin faults => \A p \in Pages : disk[p] \in logged => disk[p] \in synced

(* What a caller reads from the pool, as the abstract store sees it. *)
View(p) == IF Cached(p)
           THEN LET f == CHOOSE f \in Frame : IsFrameOf(f, p) IN frames[f].data
           ELSE disk[p]

Store == INSTANCE PageStore WITH content <- [p \in Pages |-> View(p)], saved <- disk

(* The pool implements the page store: eviction, flushing, batches and the *)
(* order of fetches are invisible to callers while reads and writes work,  *)
(* and one that fails costs no page but the evicted and the fetched one.   *)
ImplementsPageStore == Store!Spec
=============================================================================

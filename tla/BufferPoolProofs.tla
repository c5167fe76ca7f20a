--------------------------- MODULE BufferPoolProofs ---------------------------
(***************************************************************************)
(* Invariance proofs for BufferPool, for every page set, pool size, number *)
(* of pins and set of failing system calls.                                *)
(***************************************************************************)
EXTENDS BufferPool, FiniteSetTheorems, TLAPS

(* A pin in use names a page: an empty frame has no pins. *)
PinNamesPage == \A h \in Pins : pins[h] # NoPin => pins[h].page \in Pages

(* The inductive invariant: an evicted frame must have no pins on it, which *)
(* follows from its pin_count only because pin_count is exact.              *)
IInv == /\ TypeOK
        /\ OneFramePerPage
        /\ PinNamesPage
        /\ PinnedFrameKeepsPage
        /\ PinCountExact

(* An unused pin is on no frame. *)
LEMMA PinOnFrame ==
    ASSUME TypeOK, NEW f \in Frame, NEW h \in PinsOn(f)
    PROVE  h \in Pins /\ pins[h] # NoPin /\ pins[h].frame = f
  BY DEF PinsOn, NoPin, NoFrame, Frame

(* There are finitely many pins, so pins on a frame can be counted. *)
LEMMA PinsOnFinite ==
    ASSUME NEW f
    PROVE  /\ IsFiniteSet(PinsOn(f))
           /\ Cardinality(PinsOn(f)) \in Nat
           /\ Cardinality(PinsOn(f)) = 0 <=> PinsOn(f) = {}
  <1>1. PinsOn(f) \subseteq Pins
    BY DEF PinsOn
  <1>2. IsFiniteSet(PinsOn(f))
    BY <1>1, PinsAssumption, FS_Subset
  <1> QED BY <1>2, FS_CardinalityType, FS_EmptySet

(* The frame find_victim_frame returns is used by no caller. *)
LEMMA VictimHasNoPins ==
    ASSUME IInv, NEW f \in Frame, IsVictim(f)
    PROVE  PinsOn(f) = {}
  <1>1. CASE frames[f].page_id = NoPage
    <2> SUFFICES ASSUME NEW h \in PinsOn(f) PROVE FALSE
      OBVIOUS
    <2>1. h \in Pins /\ pins[h] # NoPin /\ pins[h].frame = f
      BY PinOnFrame DEF IInv
    <2>2. frames[f].page_id \in Pages
      BY <2>1 DEF IInv, PinNamesPage, PinnedFrameKeepsPage
    <2> QED BY <1>1, <2>2, PagesAssumption DEF NoPage
  <1>2. CASE frames[f].pin_count = 0
    BY <1>2, PinsOnFinite DEF IInv, PinCountExact
  <1> QED BY <1>1, <1>2 DEF IsVictim, Evictable

(* The frame unpin finds by page id is the one the pin points to. *)
LEMMA PinnedFrameIsFound ==
    ASSUME IInv, NEW h \in Pins, pins[h] # NoPin,
           NEW f \in Frame, frames[f].page_id = pins[h].page
    PROVE  f = pins[h].frame
  <1>1. pins[h].page \in Pages /\ pins[h].page # NoPage
    BY PagesAssumption DEF IInv, PinNamesPage, NoPage
  <1>2. pins[h].frame \in Frame /\ frames[pins[h].frame].page_id = pins[h].page
    BY DEF IInv, PinnedFrameKeepsPage
  <1> QED BY <1>1, <1>2 DEF IInv, OneFramePerPage

LEMMA InitIInv == Init => IInv
  <1> SUFFICES ASSUME Init PROVE IInv
    OBVIOUS
  <1> USE DEF Init
  <1>1. TypeOK
    BY PoolSizeAssumption, MaxWritesAssumption, FaultSetsAssumption
    DEF TypeOK, Frame, EmptyFrame, NoPin, NoPage, NoFrame, Content,
        FrameRecord, PinRecord
  <1>2. OneFramePerPage
    BY DEF OneFramePerPage, EmptyFrame
  <1>3. PinNamesPage /\ PinnedFrameKeepsPage
    BY DEF PinNamesPage, PinnedFrameKeepsPage
  <1>4. PinCountExact
    <2> SUFFICES ASSUME NEW f \in Frame
                 PROVE  frames[f].pin_count = Cardinality(PinsOn(f))
      BY DEF PinCountExact
    <2>1. PinsOn(f) = {}
      BY DEF PinsOn, NoPin, NoFrame, Frame
    <2> QED BY <2>1, FS_EmptySet DEF EmptyFrame
  <1> QED BY <1>1, <1>2, <1>3, <1>4 DEF IInv
-----------------------------------------------------------------------------
(* One step keeps every variable in its domain. *)
LEMMA TypeOKStep ==
    ASSUME IInv, [Next]_vars
    PROVE  TypeOK'
  <1>0. /\ TypeOK
        /\ \A f \in Frame : frames[f] \in FrameRecord
        /\ \A h \in Pins : pins[h] \in PinRecord
    BY DEF IInv, TypeOK
  <1>a. version \in Nat /\ version <= MaxWrites
    BY <1>0, MaxWritesAssumption DEF TypeOK
  <1>1. ASSUME NEW h \in Pins, NEW p \in Pages, FetchHit(h, p)
        PROVE  TypeOK'
    <2>1. PICK f \in Frame :
            /\ frames' = [frames EXCEPT ![f].pin_count = @ + 1]
            /\ pins' = [pins EXCEPT ![h] = [frame |-> f, page |-> p, modified |-> FALSE]]
      BY <1>1 DEF FetchHit
    <2>2. [frames[f] EXCEPT !.pin_count = @ + 1] \in FrameRecord
      BY <1>0 DEF FrameRecord
    <2>3. frames' \in [Frame -> FrameRecord]
      BY <1>0, <2>1, <2>2 DEF TypeOK
    <2>4. pins' \in [Pins -> PinRecord]
      BY <1>0, <2>1 DEF TypeOK, PinRecord
    <2> QED BY <1>0, <1>1, <2>3, <2>4 DEF TypeOK, FetchHit
  <1>2. ASSUME NEW h \in Pins, NEW p \in Pages, FetchMiss(h, p)
        PROVE  TypeOK'
    <2>1. PICK f \in Frame :
            /\ IF NeedsWrite(f) THEN WalFlush /\ (WriteSucceeds(f) \/ WriteFails)
                                ELSE UNCHANGED <<disk, synced>>
            /\ clock_hand' = After(f)
            /\ \E d \in ReadResult(p) :
                 frames' = [frames EXCEPT ![f] =
                   [page_id |-> p, pin_count |-> 1, is_dirty |-> FALSE, data |-> d]]
            /\ pins' = [pins EXCEPT ![h] = [frame |-> f, page |-> p, modified |-> FALSE]]
      BY <1>2 DEF FetchMiss
    <2>2. frames[f].data \in Content /\ Torn \in Content
      BY <1>0 DEF FrameRecord, Content
    <2>3. disk' \in [Pages -> Content] /\ synced' \in SUBSET logged
      BY <1>0, <2>1, <2>2 DEF TypeOK, WalFlush, WriteSucceeds, WriteFails
    <2>4. ReadResult(p) \subseteq Content
      BY <1>0 DEF ReadResult, TypeOK, Content
    <2>5. frames' \in [Frame -> FrameRecord]
      BY <1>0, <2>1, <2>4 DEF TypeOK, FrameRecord
    <2>6. clock_hand' \in Frame
      BY <2>1, PoolSizeAssumption DEF After, Frame
    <2>7. pins' \in [Pins -> PinRecord]
      BY <1>0, <2>1 DEF TypeOK, PinRecord
    <2> QED BY <1>0, <1>2, <2>3, <2>5, <2>6, <2>7 DEF TypeOK, FetchMiss
  <1>3. ASSUME NEW h \in Pins, Modify(h)
        PROVE  TypeOK'
    <2>1. version' \in 0..MaxWrites /\ logged' \in SUBSET (1..version')
          /\ synced' \in SUBSET logged'
      BY <1>0, <1>a, <1>3, MaxWritesAssumption DEF TypeOK, Modify
    <2>2. frames' = [frames EXCEPT ![pins[h].frame].data = version + 1]
          /\ version + 1 \in Content
      BY <1>3, <1>a DEF Modify, Content
    <2>3. \A f \in Frame : [frames[f] EXCEPT !.data = version + 1] \in FrameRecord
      BY <1>0, <2>2 DEF FrameRecord
    <2>4. frames' \in [Frame -> FrameRecord]
      BY <1>0, <2>2, <2>3 DEF TypeOK
    <2>5. pins' \in [Pins -> PinRecord]
      BY <1>0, <1>3 DEF TypeOK, PinRecord, Modify
    <2> QED BY <1>0, <1>3, <2>1, <2>4, <2>5 DEF TypeOK, Modify
  <1>4. ASSUME NEW h \in Pins, NEW hint \in {"normal", "scan"}, Unpin(h, hint)
        PROVE  TypeOK'
    <2>1. pins' \in [Pins -> PinRecord]
      BY <1>0, <1>4 DEF TypeOK, PinRecord, Unpin, NoPin
    <2>2. pins[h].modified \in BOOLEAN
      BY <1>0 DEF PinRecord
    <2>3. ASSUME NEW f \in Frame,
                 frames' = [frames EXCEPT
                   ![f].pin_count = IF @ > 0 THEN @ - 1 ELSE @,
                   ![f].is_dirty  = @ \/ pins[h].modified]
          PROVE  frames' \in [Frame -> FrameRecord]
      <3> DEFINE count == IF frames[f].pin_count > 0 THEN frames[f].pin_count - 1
                                                     ELSE frames[f].pin_count
                 dirty == frames[f].is_dirty \/ pins[h].modified
      <3>1. count \in Nat
        BY <1>0 DEF FrameRecord
      <3>2. dirty \in BOOLEAN
        OBVIOUS
      <3>3. frames' = [frames EXCEPT ![f].pin_count = count, ![f].is_dirty = dirty]
        BY <2>3
      <3> HIDE DEF count, dirty
      <3>4. [frames[f] EXCEPT !.pin_count = count, !.is_dirty = dirty] \in FrameRecord
        BY <1>0, <3>1, <3>2 DEF FrameRecord
      <3> QED BY <1>0, <3>3, <3>4 DEF TypeOK
    <2>4. frames' \in [Frame -> FrameRecord] /\ clock_hand' \in Frame
      BY <1>0, <1>4, <2>3 DEF TypeOK, Unpin
    <2> QED BY <1>0, <1>4, <2>1, <2>4 DEF TypeOK, Unpin
  <1>5. ASSUME NEW p \in Pages, FlushPage(p)
        PROVE  TypeOK'
    <2>1. PICK f \in Frame :
            /\ WalFlush
            /\ \/ WriteSucceeds(f) /\ frames' = [frames EXCEPT ![f].is_dirty = FALSE]
               \/ WriteFails /\ UNCHANGED frames
      BY <1>5 DEF FlushPage
    <2>2. frames[f].data \in Content /\ Torn \in Content
          /\ [frames[f] EXCEPT !.is_dirty = FALSE] \in FrameRecord
      BY <1>0 DEF FrameRecord, Content
    <2>3. disk' \in [Pages -> Content] /\ synced' \in SUBSET logged
      BY <1>0, <2>1, <2>2 DEF TypeOK, WalFlush, WriteSucceeds, WriteFails
    <2>4. frames' \in [Frame -> FrameRecord]
      BY <1>0, <2>1, <2>2 DEF TypeOK
    <2> QED BY <1>0, <1>5, <2>3, <2>4 DEF TypeOK, FlushPage
  <1>6. ASSUME FlushAll
        PROVE  TypeOK'
    <2>1. synced' \in SUBSET logged
      BY <1>0, <1>6 DEF FlushAll, WalFlush, TypeOK
    <2>2. \A f \in Frame : /\ frames[f].data \in Content
                           /\ [frames[f] EXCEPT !.is_dirty = FALSE] \in FrameRecord
      BY <1>0 DEF FrameRecord
    <2>3. Torn \in Content
      BY DEF Content
    <2>4. PICK written \in SUBSET DirtyFrames, torn \in SUBSET DirtyFrames :
            /\ disk' = DiskAfter(written, torn)
            /\ frames' = [f \in Frame |-> IF f \in written
                                         THEN [frames[f] EXCEPT !.is_dirty = FALSE]
                                         ELSE frames[f]]
      BY <1>6 DEF FlushAll
    <2>5. frames' \in [Frame -> FrameRecord]
      BY <1>0, <2>2, <2>4
    <2>6. disk' \in [Pages -> Content]
      BY <1>0, <2>2, <2>3, <2>4 DEF TypeOK, DiskAfter, DirtyFrames
    <2> QED BY <1>0, <1>6, <2>1, <2>5, <2>6 DEF TypeOK, FlushAll
  <1>7. ASSUME Crash
        PROVE  TypeOK'
    <2>1. EmptyFrame \in FrameRecord /\ NoPin \in PinRecord /\ 0 \in Frame
      BY PoolSizeAssumption
      DEF EmptyFrame, FrameRecord, NoPin, PinRecord, Frame, Content
    <2> QED BY <1>0, <1>7, <2>1 DEF TypeOK, Crash
  <1>8. ASSUME UNCHANGED vars
        PROVE  TypeOK'
    BY <1>0, <1>8 DEF vars, TypeOK
  <1> QED BY <1>1, <1>2, <1>3, <1>4, <1>5, <1>6, <1>7, <1>8 DEF Next
-----------------------------------------------------------------------------
(* Steps that move no page and no pin: changes, flushes, stuttering. *)
Layout == /\ OneFramePerPage
          /\ PinNamesPage
          /\ PinnedFrameKeepsPage
          /\ PinCountExact

SameLayout ==
    /\ \A f \in Frame : /\ frames'[f].page_id = frames[f].page_id
                        /\ frames'[f].pin_count = frames[f].pin_count
    /\ \A h \in Pins : /\ pins'[h].frame = pins[h].frame
                       /\ pins'[h].page = pins[h].page
                       /\ pins'[h] # NoPin => pins[h] # NoPin

LEMMA SameLayoutStep ==
    ASSUME IInv, SameLayout
    PROVE  Layout'
  <1>1. \A f \in Frame : PinsOn(f)' = PinsOn(f)
    BY DEF SameLayout, PinsOn
  <1>2. OneFramePerPage'
    BY DEF IInv, SameLayout, OneFramePerPage
  <1>3. PinNamesPage'
    BY DEF IInv, SameLayout, PinNamesPage
  <1>4. PinnedFrameKeepsPage'
    BY DEF IInv, SameLayout, PinnedFrameKeepsPage
  <1>5. PinCountExact'
    BY <1>1 DEF IInv, SameLayout, PinCountExact
  <1> QED BY <1>2, <1>3, <1>4, <1>5 DEF Layout

(* A pin is added on a frame: on the one that has the page, or on a victim *)
(* that had no pins.                                                       *)
LEMMA PinsOnAfterFetch ==
    ASSUME IInv, NEW h \in Pins, pins[h] = NoPin, NEW f \in Frame, NEW p,
           pins' = [pins EXCEPT ![h] = [frame |-> f, page |-> p, modified |-> FALSE]]
    PROVE  /\ PinsOn(f)' = PinsOn(f) \cup {h}
           /\ h \notin PinsOn(f)
           /\ \A g \in Frame \ {f} : PinsOn(g)' = PinsOn(g)
  <1>1. pins[h].frame \notin Frame
    BY DEF NoPin, NoFrame, Frame
  <1>2. pins'[h].frame = f /\ \A k \in Pins \ {h} : pins'[k].frame = pins[k].frame
    BY DEF IInv, TypeOK
  <1> QED BY <1>1, <1>2 DEF PinsOn

LEMMA FetchHitStep ==
    ASSUME IInv, NEW h \in Pins, NEW p \in Pages, FetchHit(h, p)
    PROVE  Layout'
  <1>1. PICK f \in Frame :
          /\ frames[f].page_id = p
          /\ frames' = [frames EXCEPT ![f].pin_count = @ + 1]
          /\ pins' = [pins EXCEPT ![h] = [frame |-> f, page |-> p, modified |-> FALSE]]
    BY DEF FetchHit, IsFrameOf
  <1>2. /\ \A g \in Frame : frames'[g].page_id = frames[g].page_id
        /\ frames'[f].pin_count = frames[f].pin_count + 1
        /\ \A g \in Frame \ {f} : frames'[g].pin_count = frames[g].pin_count
    BY <1>1 DEF IInv, TypeOK, FrameRecord
  <1>3. /\ PinsOn(f)' = PinsOn(f) \cup {h}
        /\ h \notin PinsOn(f)
        /\ \A g \in Frame \ {f} : PinsOn(g)' = PinsOn(g)
    BY <1>1, PinsOnAfterFetch DEF FetchHit
  <1>4. OneFramePerPage'
    BY <1>2 DEF IInv, OneFramePerPage
  <1>5. /\ pins'[h].frame = f /\ pins'[h].page = p
        /\ \A k \in Pins \ {h} : pins'[k] = pins[k]
    BY <1>1 DEF IInv, TypeOK
  <1>6. PinNamesPage'
    BY <1>5 DEF IInv, PinNamesPage
  <1>7. PinnedFrameKeepsPage'
    BY <1>1, <1>2, <1>5 DEF IInv, PinnedFrameKeepsPage
  <1>8. Cardinality(PinsOn(f)') = Cardinality(PinsOn(f)) + 1
    BY <1>3, PinsOnFinite, FS_AddElement
  <1>9. PinCountExact'
    BY <1>2, <1>3, <1>8 DEF IInv, PinCountExact
  <1> QED BY <1>4, <1>6, <1>7, <1>9 DEF Layout

LEMMA FetchMissStep ==
    ASSUME IInv, NEW h \in Pins, NEW p \in Pages, FetchMiss(h, p)
    PROVE  Layout'
  <1>1. PICK f \in Frame :
          /\ IsVictim(f)
          /\ \E d : frames' = [frames EXCEPT ![f] =
                 [page_id |-> p, pin_count |-> 1, is_dirty |-> FALSE, data |-> d]]
          /\ pins' = [pins EXCEPT ![h] = [frame |-> f, page |-> p, modified |-> FALSE]]
    BY DEF FetchMiss
  <1>2. /\ frames'[f].page_id = p /\ frames'[f].pin_count = 1
        /\ \A g \in Frame \ {f} : frames'[g] = frames[g]
    BY <1>1 DEF IInv, TypeOK
  <1>3. PinsOn(f) = {}
    BY <1>1, VictimHasNoPins
  <1>4. /\ PinsOn(f)' = {h}
        /\ \A g \in Frame \ {f} : PinsOn(g)' = PinsOn(g)
    <2>1. pins[h] = NoPin
      BY DEF FetchMiss
    <2>2. /\ PinsOn(f)' = PinsOn(f) \cup {h}
          /\ \A g \in Frame \ {f} : PinsOn(g)' = PinsOn(g)
      BY <1>1, <2>1, PinsOnAfterFetch
    <2> QED BY <1>3, <2>2
  <1>5. \A g \in Frame : frames[g].page_id # p
    BY DEF FetchMiss, Cached
  <1>6. OneFramePerPage'
    BY <1>2, <1>5 DEF IInv, OneFramePerPage
  <1>7. /\ pins'[h].frame = f /\ pins'[h].page = p
        /\ \A k \in Pins \ {h} : pins'[k] = pins[k]
    BY <1>1 DEF IInv, TypeOK
  <1>8. PinNamesPage'
    BY <1>7 DEF IInv, PinNamesPage
  <1>9. ASSUME NEW k \in Pins \ {h}, pins[k] # NoPin
        PROVE  pins[k].frame \in Frame \ {f}
    BY <1>3, <1>9 DEF IInv, PinnedFrameKeepsPage, PinsOn
  <1>10. PinnedFrameKeepsPage'
    BY <1>2, <1>7, <1>9 DEF IInv, PinnedFrameKeepsPage
  <1>11. Cardinality(PinsOn(f)') = 1
    <2>1. Cardinality({h}) = 1
      BY FS_Singleton
    <2> QED BY <1>4, <2>1
  <1>12. PinCountExact'
    BY <1>2, <1>4, <1>11 DEF IInv, PinCountExact
  <1> QED BY <1>6, <1>8, <1>10, <1>12 DEF Layout

LEMMA UnpinStep ==
    ASSUME IInv, NEW h \in Pins, NEW hint \in {"normal", "scan"}, Unpin(h, hint)
    PROVE  Layout'
  <1>1. pins[h] # NoPin /\ pins' = [pins EXCEPT ![h] = NoPin]
    BY DEF Unpin
  <1>2. PICK f \in Frame : f = pins[h].frame /\ frames[f].page_id = pins[h].page
    BY <1>1 DEF IInv, PinnedFrameKeepsPage
  <1>3. frames' = [frames EXCEPT ![f].pin_count = IF @ > 0 THEN @ - 1 ELSE @,
                                 ![f].is_dirty  = @ \/ pins[h].modified]
    <2>1. Cached(pins[h].page)
      BY <1>2 DEF Cached
    <2>2. PICK g \in Frame :
            /\ frames[g].page_id = pins[h].page
            /\ frames' = [frames EXCEPT ![g].pin_count = IF @ > 0 THEN @ - 1 ELSE @,
                                         ![g].is_dirty  = @ \/ pins[h].modified]
      BY <2>1, Zenon DEF Unpin, IsFrameOf
    <2>3. g = f
      BY <1>1, <1>2, <2>2, PinnedFrameIsFound
    <2> QED BY <2>2, <2>3
  <1>4. /\ PinsOn(f)' = PinsOn(f) \ {h}
        /\ h \in PinsOn(f)
        /\ \A g \in Frame \ {f} : PinsOn(g)' = PinsOn(g)
    <2>1. pins'[h] = NoPin /\ \A k \in Pins \ {h} : pins'[k] = pins[k]
      BY <1>1 DEF IInv, TypeOK
    <2>2. pins'[h].frame \notin Frame
      BY <2>1 DEF NoPin, NoFrame, Frame
    <2>3. PinsOn(f)' = {k \in Pins : pins'[k].frame = f}
      BY DEF PinsOn
    <2> QED BY <1>2, <2>1, <2>2, <2>3 DEF PinsOn
  <1>5. /\ Cardinality(PinsOn(f)') = Cardinality(PinsOn(f)) - 1
        /\ Cardinality(PinsOn(f)) > 0
    <2>1. IsFiniteSet(PinsOn(f)) /\ Cardinality(PinsOn(f)) \in Nat
          /\ Cardinality(PinsOn(f)) # 0
      BY <1>4, PinsOnFinite
    <2>2. Cardinality(PinsOn(f) \ {h}) = Cardinality(PinsOn(f)) - 1
      BY <1>4, <2>1, FS_RemoveElement
    <2> QED BY <1>4, <2>1, <2>2
  <1>6. frames[f].pin_count > 0 /\ frames[f].pin_count = Cardinality(PinsOn(f))
    BY <1>2, <1>5 DEF IInv, PinCountExact
  <1>7. /\ \A g \in Frame : frames'[g].page_id = frames[g].page_id
        /\ frames'[f].pin_count = frames[f].pin_count - 1
        /\ \A g \in Frame \ {f} : frames'[g].pin_count = frames[g].pin_count
    BY <1>2, <1>3, <1>6 DEF IInv, TypeOK, FrameRecord
  <1>8. \A k \in Pins : pins'[k] # NoPin => pins'[k] = pins[k]
    BY <1>1 DEF IInv, TypeOK
  <1>9. OneFramePerPage'
    BY <1>7 DEF IInv, OneFramePerPage
  <1>10. PinNamesPage' /\ PinnedFrameKeepsPage'
    BY <1>7, <1>8 DEF IInv, PinNamesPage, PinnedFrameKeepsPage
  <1>11. PinCountExact'
    BY <1>4, <1>5, <1>6, <1>7 DEF IInv, PinCountExact
  <1> QED BY <1>9, <1>10, <1>11 DEF Layout

LEMMA CrashStep ==
    ASSUME IInv, Crash
    PROVE  Layout'
  <1>1. /\ \A f \in Frame : frames'[f] = EmptyFrame
        /\ \A h \in Pins : pins'[h] = NoPin
    BY DEF Crash
  <1>2. \A f \in Frame : PinsOn(f)' = {}
    BY <1>1 DEF PinsOn, NoPin, NoFrame, Frame
  <1>3. OneFramePerPage' /\ PinNamesPage' /\ PinnedFrameKeepsPage'
    BY <1>1 DEF OneFramePerPage, PinNamesPage, PinnedFrameKeepsPage, EmptyFrame
  <1>4. PinCountExact'
    BY <1>1, <1>2, FS_EmptySet DEF PinCountExact, EmptyFrame
  <1> QED BY <1>3, <1>4 DEF Layout

LEMMA NextIInv == IInv /\ [Next]_vars => IInv'
  <1> SUFFICES ASSUME IInv, [Next]_vars PROVE IInv'
    OBVIOUS
  <1>1. TypeOK'
    BY TypeOKStep
  <1>2. ASSUME NEW h \in Pins, Modify(h)
        PROVE  Layout'
    BY <1>2, SameLayoutStep DEF Modify, SameLayout, IInv, TypeOK, FrameRecord, PinRecord
  <1>3. ASSUME NEW p \in Pages, FlushPage(p)
        PROVE  Layout'
    BY <1>3, SameLayoutStep DEF FlushPage, SameLayout, IInv, TypeOK, FrameRecord
  <1>4. ASSUME FlushAll
        PROVE  Layout'
    BY <1>4, SameLayoutStep DEF FlushAll, SameLayout, IInv, TypeOK, FrameRecord
  <1>5. ASSUME UNCHANGED vars
        PROVE  Layout'
    BY <1>5, SameLayoutStep DEF vars, SameLayout
  <1>6. Layout'
    BY <1>2, <1>3, <1>4, <1>5, FetchHitStep, FetchMissStep, UnpinStep, CrashStep DEF Next
  <1> QED BY <1>1, <1>6 DEF IInv, Layout

(* The inductive invariant holds in every reachable state. *)
THEOREM InductiveInvariant == Spec => []IInv
  BY InitIInv, NextIInv, PTL DEF Spec

(* Every variable of the pool stays in its domain, whatever fails. *)
THEOREM TypeCorrect == Spec => []TypeOK
  BY InductiveInvariant, PTL DEF IInv

(* buffer_pool_fetch_page never caches a page twice. *)
THEOREM NoPageCachedTwice == Spec => []OneFramePerPage
  BY InductiveInvariant, PTL DEF IInv

(* A Frame pointer obtained from buffer_pool_fetch_page points to its page *)
(* until it is unpinned, and pin_count counts exactly those pointers.      *)
THEOREM PinsAreSafe == Spec => [](PinnedFrameKeepsPage /\ PinCountExact)
  BY InductiveInvariant, PTL DEF IInv
-----------------------------------------------------------------------------
(* Changes are numbered in order: a new change is in no page of the file   *)
(* and in no frame yet.                                                    *)
Numbered == /\ \A p \in Pages : disk[p] <= version
            /\ \A f \in Frame : frames[f].data <= version

WInv == IInv /\ Numbered /\ WalBeforeData

LEMMA InitWInv == Init => WInv
  <1> SUFFICES ASSUME Init PROVE Numbered /\ WalBeforeData
    BY InitIInv DEF WInv
  <1> QED BY DEF Init, Numbered, WalBeforeData, EmptyFrame

(* Unpinning changes neither the page of a frame nor what is in it. *)
LEMMA UnpinKeepsContents ==
    ASSUME IInv, NEW h \in Pins, NEW hint \in {"normal", "scan"}, Unpin(h, hint)
    PROVE  \A f \in Frame : /\ frames'[f].data = frames[f].data
                            /\ frames'[f].page_id = frames[f].page_id
  <1>1. \/ UNCHANGED frames
        \/ \E f \in Frame : frames' = [frames EXCEPT
             ![f].pin_count = IF @ > 0 THEN @ - 1 ELSE @,
             ![f].is_dirty  = @ \/ pins[h].modified]
    BY Zenon DEF Unpin
  <1>2. \/ UNCHANGED frames
        \/ \E f \in Frame : \E c, d :
             frames' = [frames EXCEPT ![f].pin_count = c, ![f].is_dirty = d]
    BY <1>1, Zenon
  <1>3. ASSUME NEW f \in Frame, NEW c, NEW d,
               frames' = [frames EXCEPT ![f].pin_count = c, ![f].is_dirty = d]
        PROVE  \A g \in Frame : /\ frames'[g].data = frames[g].data
                                /\ frames'[g].page_id = frames[g].page_id
    <2>1. frames'[f] = [frames[f] EXCEPT !.pin_count = c, !.is_dirty = d]
          /\ \A g \in Frame \ {f} : frames'[g] = frames[g]
      BY <1>3 DEF IInv, TypeOK
    <2>2. frames[f] \in FrameRecord
      BY DEF IInv, TypeOK
    <2>3. frames'[f].data = frames[f].data /\ frames'[f].page_id = frames[f].page_id
      BY <2>1, <2>2 DEF FrameRecord
    <2> QED BY <2>1, <2>3
  <1> QED BY <1>2, <1>3

(* A step that flushes the log first makes everything logged durable; the  *)
(* others leave the file alone and log a change no page of it has.         *)
LEMMA NextWInv ==
    ASSUME WInv, [Next]_vars
    PROVE  WInv'
  <1>0. /\ IInv' /\ TypeOK /\ TypeOK'
        /\ version \in Nat /\ version' \in Nat
        /\ \A p \in Pages : disk[p] \in Content /\ disk[p] \in Int
        /\ \A f \in Frame : frames[f].data \in Content /\ frames[f].data \in Int
    BY NextIInv, MaxWritesAssumption
    DEF WInv, IInv, TypeOK, FrameRecord, Content, Blank, Torn
  <1>1. ASSUME NEW h \in Pins, NEW p \in Pages, FetchHit(h, p)
        PROVE  (Numbered /\ WalBeforeData)'
    BY <1>0, <1>1 DEF FetchHit, WInv, Numbered, WalBeforeData, TypeOK
  <1>2. ASSUME NEW h \in Pins, NEW p \in Pages, FetchMiss(h, p)
        PROVE  (Numbered /\ WalBeforeData)'
    <2>1. PICK f \in Frame :
            /\ IF NeedsWrite(f) THEN WalFlush /\ (WriteSucceeds(f) \/ WriteFails)
                                ELSE UNCHANGED <<disk, synced>>
            /\ \E d \in ReadResult(p) :
                 frames' = [frames EXCEPT ![f] =
                   [page_id |-> p, pin_count |-> 1, is_dirty |-> FALSE, data |-> d]]
      BY <1>2 DEF FetchMiss
    <2>2. UNCHANGED <<logged, version, faults>>
      BY <1>2 DEF FetchMiss
    <2>3. \A q \in Pages : disk'[q] <= version
      BY <1>0, <2>1 DEF WInv, Numbered, WriteSucceeds, WriteFails, TypeOK, Torn
    <2>4. \A d \in ReadResult(p) : d <= version
      BY <1>0 DEF ReadResult, WInv, Numbered, Blank
    <2>5. \A g \in Frame : frames'[g].data <= version
      BY <1>0, <2>1, <2>4 DEF WInv, Numbered, TypeOK
    <2>6. WalBeforeData'
      BY <2>1, <2>2, <1>0 DEF WalFlush, WInv, WalBeforeData
    <2> QED BY <2>2, <2>3, <2>5, <2>6 DEF Numbered
  <1>3. ASSUME NEW h \in Pins, Modify(h)
        PROVE  (Numbered /\ WalBeforeData)'
    <2>1. \A p \in Pages : disk'[p] = disk[p] /\ disk'[p] <= version /\ disk[p] # version + 1
      BY <1>0, <1>3 DEF Modify, WInv, Numbered
    <2>2. WalBeforeData'
      BY <1>3, <2>1 DEF Modify, WInv, WalBeforeData
    <2>3. \A f \in Frame : frames'[f].data <= version + 1
      BY <1>0, <1>3 DEF Modify, WInv, Numbered, TypeOK, FrameRecord
    <2> QED BY <1>0, <1>3, <2>1, <2>2, <2>3 DEF Modify, Numbered
  <1>4. ASSUME NEW h \in Pins, NEW hint \in {"normal", "scan"}, Unpin(h, hint)
        PROVE  (Numbered /\ WalBeforeData)'
    BY <1>0, <1>4, UnpinKeepsContents DEF WInv, Unpin, Numbered, WalBeforeData
  <1>5. ASSUME NEW p \in Pages, FlushPage(p)
        PROVE  (Numbered /\ WalBeforeData)'
    <2>1. PICK f \in Frame : /\ WriteSucceeds(f) \/ WriteFails
                             /\ frames' = [frames EXCEPT ![f].is_dirty = FALSE]
                                  \/ UNCHANGED frames
      BY <1>5 DEF FlushPage
    <2>2. \A q \in Pages : disk'[q] <= version
      BY <1>0, <2>1 DEF WInv, Numbered, WriteSucceeds, WriteFails, TypeOK, Torn
    <2>3. \A g \in Frame : frames'[g].data = frames[g].data
      BY <1>0, <2>1 DEF TypeOK, FrameRecord
    <2>4. WalBeforeData'
      BY <1>0, <1>5 DEF FlushPage, WalFlush, WInv, WalBeforeData
    <2> QED BY <1>5, <2>2, <2>3, <2>4 DEF FlushPage, WInv, Numbered
  <1>6. ASSUME FlushAll
        PROVE  (Numbered /\ WalBeforeData)'
    <2>1. WalBeforeData'
      BY <1>0, <1>6 DEF FlushAll, WalFlush, WInv, WalBeforeData
    <2>2. PICK written \in SUBSET DirtyFrames, torn \in SUBSET DirtyFrames :
            /\ disk' = DiskAfter(written, torn)
            /\ frames' = [f \in Frame |-> IF f \in written
                                         THEN [frames[f] EXCEPT !.is_dirty = FALSE]
                                         ELSE frames[f]]
      BY <1>6 DEF FlushAll
    <2>3. \A p \in Pages : disk'[p] <= version
      BY <1>0, <2>2 DEF DiskAfter, DirtyFrames, WInv, Numbered, Torn
    <2>4. \A f \in Frame : frames'[f].data = frames[f].data
      BY <1>0, <2>2 DEF TypeOK, FrameRecord
    <2> QED BY <1>6, <2>1, <2>3, <2>4 DEF FlushAll, WInv, Numbered
  <1>7. ASSUME Crash
        PROVE  (Numbered /\ WalBeforeData)'
    BY <1>0, <1>7 DEF Crash, EmptyFrame, WInv, Numbered, WalBeforeData
  <1>8. ASSUME UNCHANGED vars
        PROVE  (Numbered /\ WalBeforeData)'
    BY <1>8 DEF vars, WInv, Numbered, WalBeforeData
  <1>9. (Numbered /\ WalBeforeData)'
    BY <1>1, <1>2, <1>3, <1>4, <1>5, <1>6, <1>7, <1>8 DEF Next
  <1> QED BY <1>0, <1>9 DEF WInv

(* While fdatasync of the log succeeds, no page is in the data file before *)
(* the log record of its last change is durable, whatever reads and page   *)
(* writes do (the comment at buffer_pool.c:47).                            *)
THEOREM WalRule == Spec => []WalBeforeData
  <1>1. WInv /\ [Next]_vars => WInv'
    BY NextWInv
  <1>2. WInv => WalBeforeData
    BY DEF WInv
  <1> QED BY InitWInv, <1>1, <1>2, PTL DEF Spec
-----------------------------------------------------------------------------
(* The part of CleanFrameMatchesDisk that is about one frame. *)
Clean(f) == frames[f].page_id # NoPage /\ ~frames[f].is_dirty /\ ~Modified(f)

CleanAt(f) == Clean(f) => \/ frames[f].data \in {disk[frames[f].page_id], Blank}
                          \/ disk[frames[f].page_id] = Torn

(* A frame that keeps its contents, loses no mark of a change, and whose   *)
(* page is not written. *)
LEMMA CleanKept ==
    ASSUME NEW f \in Frame, CleanAt(f),
           frames'[f].page_id = frames[f].page_id,
           frames'[f].data = frames[f].data,
           Clean(f)' => Clean(f),
           frames[f].page_id # NoPage => disk'[frames[f].page_id] = disk[frames[f].page_id]
    PROVE  CleanAt(f)'
  BY DEF CleanAt, Clean

(* The marks on a frame whose pins stay as they are. *)
LEMMA MarksKept ==
    ASSUME NEW f \in Frame, PinsOn(f)' = PinsOn(f),
           \A h \in PinsOn(f) : pins'[h] = pins[h]
    PROVE  Modified(f)' <=> Modified(f)
  BY DEF Modified

(* Pages other than that of the frame written stay as they were. *)
LEMMA WriteElsewhere ==
    ASSUME IInv, NEW f \in Frame, WriteSucceeds(f) \/ WriteFails,
           NEW q \in Pages, q # frames[f].page_id
    PROVE  disk'[q] = disk[q]
  BY DEF WriteSucceeds, WriteFails, IInv, TypeOK

(* Two frames in use have two pages. *)
LEMMA PagesDiffer ==
    ASSUME IInv, NEW f \in Frame, NEW g \in Frame \ {f}, frames[g].page_id # NoPage
    PROVE  frames[g].page_id \in Pages /\ frames[g].page_id # frames[f].page_id
  BY DEF IInv, OneFramePerPage, TypeOK, FrameRecord

LEMMA CleanFetchHit ==
    ASSUME IInv, CleanFrameMatchesDisk, NEW h \in Pins, NEW p \in Pages, FetchHit(h, p)
    PROVE  \A g \in Frame : CleanAt(g)'
  <1>1. PICK f \in Frame :
          /\ frames' = [frames EXCEPT ![f].pin_count = @ + 1]
          /\ pins' = [pins EXCEPT ![h] = [frame |-> f, page |-> p, modified |-> FALSE]]
    BY DEF FetchHit
  <1>2. /\ PinsOn(f)' = PinsOn(f) \cup {h}
        /\ h \notin PinsOn(f)
        /\ \A g \in Frame \ {f} : PinsOn(g)' = PinsOn(g)
    BY <1>1, PinsOnAfterFetch DEF FetchHit
  <1>3. \A k \in Pins \ {h} : pins'[k] = pins[k]
    BY <1>1 DEF IInv, TypeOK
  <1>4. SUFFICES ASSUME NEW g \in Frame PROVE CleanAt(g)'
    OBVIOUS
  <1>5. Modified(g) => Modified(g)'
    BY <1>2, <1>3 DEF Modified, PinsOn
  <1>6. /\ frames'[g].page_id = frames[g].page_id /\ frames'[g].data = frames[g].data
        /\ frames'[g].is_dirty = frames[g].is_dirty /\ disk' = disk
    BY <1>1 DEF IInv, TypeOK, FrameRecord, FetchHit
  <1>7. CleanAt(g) /\ (Clean(g)' => Clean(g))
    BY <1>5, <1>6 DEF CleanFrameMatchesDisk, CleanAt, Clean
  <1> QED BY <1>6, <1>7, CleanKept

(* The frame of the victim has just been read; the write of its old page   *)
(* touches no page another frame has.                                      *)
LEMMA CleanFetchMiss ==
    ASSUME IInv, CleanFrameMatchesDisk, NEW h \in Pins, NEW p \in Pages, FetchMiss(h, p)
    PROVE  \A g \in Frame : CleanAt(g)'
  <1>1. PICK f \in Frame :
          /\ IsVictim(f)
          /\ IF NeedsWrite(f) THEN WalFlush /\ (WriteSucceeds(f) \/ WriteFails)
                              ELSE UNCHANGED <<disk, synced>>
          /\ \E d \in ReadResult(p) :
               frames' = [frames EXCEPT ![f] =
                 [page_id |-> p, pin_count |-> 1, is_dirty |-> FALSE, data |-> d]]
          /\ pins' = [pins EXCEPT ![h] = [frame |-> f, page |-> p, modified |-> FALSE]]
    BY DEF FetchMiss
  <1>2. \A q \in Pages : q # frames[f].page_id => disk'[q] = disk[q]
    BY <1>1, WriteElsewhere
  <1>3. frames[f].page_id # p
    BY DEF FetchMiss, Cached
  <1>4. CleanAt(f)'
    <2>1. frames'[f].page_id = p /\ frames'[f].data \in {disk[p], Blank}
      BY <1>1 DEF IInv, TypeOK, ReadResult
    <2> QED BY <1>2, <1>3, <2>1 DEF CleanAt
  <1>5. ASSUME NEW g \in Frame \ {f}
        PROVE  CleanAt(g)'
    <2>1. frames'[g] = frames[g]
      BY <1>1 DEF IInv, TypeOK
    <2>2. frames[g].page_id # NoPage => disk'[frames[g].page_id] = disk[frames[g].page_id]
      BY <1>2, PagesDiffer
    <2>3. PinsOn(g)' = PinsOn(g)
      BY <1>1, PinsOnAfterFetch DEF FetchMiss
    <2>4. h \notin PinsOn(g) /\ \A k \in Pins \ {h} : pins'[k] = pins[k]
      BY <1>1, PinOnFrame DEF IInv, TypeOK, FetchMiss
    <2>5. Modified(g)' <=> Modified(g)
      BY <2>3, <2>4, MarksKept DEF PinsOn
    <2>6. CleanAt(g) /\ (Clean(g)' => Clean(g))
      BY <2>1, <2>5 DEF CleanFrameMatchesDisk, CleanAt, Clean
    <2> QED BY <2>1, <2>2, <2>6, CleanKept
  <1> QED BY <1>4, <1>5

LEMMA CleanModify ==
    ASSUME IInv, CleanFrameMatchesDisk, NEW h \in Pins, Modify(h)
    PROVE  \A g \in Frame : CleanAt(g)'
  <1>1. /\ pins[h].frame \in Frame /\ disk' = disk
        /\ frames' = [frames EXCEPT ![pins[h].frame].data = version + 1]
        /\ pins' = [pins EXCEPT ![h].modified = TRUE]
    BY DEF Modify, IInv, PinnedFrameKeepsPage
  <1>2. /\ pins'[h].frame = pins[h].frame /\ pins'[h].modified
        /\ \A k \in Pins \ {h} : pins'[k] = pins[k]
    BY <1>1 DEF IInv, TypeOK, PinRecord
  <1>3. SUFFICES ASSUME NEW g \in Frame PROVE CleanAt(g)'
    OBVIOUS
  <1>4. PinsOn(g)' = PinsOn(g)
    BY <1>2 DEF PinsOn
  <1>5. CASE g = pins[h].frame
    <2>1. Modified(g)'
      BY <1>2, <1>5 DEF Modified, PinsOn
    <2> QED BY <2>1 DEF CleanAt, Clean
  <1>6. CASE g # pins[h].frame
    <2>1. frames'[g] = frames[g]
      BY <1>1, <1>6 DEF IInv, TypeOK
    <2>2. Modified(g)' <=> Modified(g)
      BY <1>2, <1>4, <1>6, MarksKept DEF PinsOn
    <2>3. CleanAt(g) /\ (Clean(g)' => Clean(g))
      BY <2>1, <2>2 DEF CleanFrameMatchesDisk, CleanAt, Clean
    <2> QED BY <1>1, <2>1, <2>3, CleanKept
  <1> QED BY <1>5, <1>6

(* The mark of a change passes from the pin to the dirty bit of its frame. *)
LEMMA CleanUnpin ==
    ASSUME IInv, CleanFrameMatchesDisk, NEW h \in Pins,
           NEW hint \in {"normal", "scan"}, Unpin(h, hint)
    PROVE  \A g \in Frame : CleanAt(g)'
  <1>1. pins[h] # NoPin /\ pins' = [pins EXCEPT ![h] = NoPin] /\ disk' = disk
    BY DEF Unpin
  <1>2. PICK f \in Frame : f = pins[h].frame /\ frames[f].page_id = pins[h].page
    BY <1>1 DEF IInv, PinnedFrameKeepsPage
  <1>3. PICK c : frames' = [frames EXCEPT ![f].pin_count = c,
                                          ![f].is_dirty  = @ \/ pins[h].modified]
    <2>1. Cached(pins[h].page)
      BY <1>2 DEF Cached
    <2>2. PICK g \in Frame :
            /\ frames[g].page_id = pins[h].page
            /\ frames' = [frames EXCEPT ![g].pin_count = IF @ > 0 THEN @ - 1 ELSE @,
                                         ![g].is_dirty  = @ \/ pins[h].modified]
      BY <2>1, Zenon DEF Unpin, IsFrameOf
    <2>3. g = f
      BY <1>1, <1>2, <2>2, PinnedFrameIsFound
    <2> QED BY <2>2, <2>3, Zenon
  <1>4. /\ frames'[f] = [frames[f] EXCEPT !.pin_count = c,
                                          !.is_dirty = frames[f].is_dirty \/ pins[h].modified]
        /\ \A g \in Frame \ {f} : frames'[g] = frames[g]
    BY <1>3 DEF IInv, TypeOK
  <1>5. /\ frames'[f].page_id = frames[f].page_id /\ frames'[f].data = frames[f].data
        /\ frames'[f].is_dirty = (frames[f].is_dirty \/ pins[h].modified)
    <2>1. frames[f] \in FrameRecord
      BY DEF IInv, TypeOK
    <2> QED BY <1>4, <2>1 DEF FrameRecord
  <1>6. pins'[h] = NoPin /\ \A k \in Pins \ {h} : pins'[k] = pins[k]
    BY <1>1 DEF IInv, TypeOK
  <1>7. CleanAt(f)'
    <2>1. Modified(f) => pins[h].modified \/ Modified(f)'
      BY <1>6 DEF Modified, PinsOn
    <2>2. CleanAt(f) /\ (Clean(f)' => Clean(f))
      BY <1>5, <2>1 DEF CleanFrameMatchesDisk, CleanAt, Clean
    <2> QED BY <1>1, <1>5, <2>2, CleanKept
  <1>8. ASSUME NEW g \in Frame \ {f}
        PROVE  CleanAt(g)'
    <2>1. frames'[g] = frames[g]
      BY <1>4
    <2>2. Modified(g) => Modified(g)'
      BY <1>2, <1>6 DEF Modified, PinsOn
    <2>3. CleanAt(g) /\ (Clean(g)' => Clean(g))
      BY <2>1, <2>2 DEF CleanFrameMatchesDisk, CleanAt, Clean
    <2> QED BY <1>1, <2>1, <2>3, CleanKept
  <1> QED BY <1>7, <1>8

LEMMA CleanFlushPage ==
    ASSUME IInv, CleanFrameMatchesDisk, NEW p \in Pages, FlushPage(p)
    PROVE  \A g \in Frame : CleanAt(g)'
  <1>1. PICK f \in Frame :
          /\ frames[f].page_id = p
          /\ \/ WriteSucceeds(f) /\ frames' = [frames EXCEPT ![f].is_dirty = FALSE]
             \/ WriteFails /\ UNCHANGED frames
    BY DEF FlushPage, IsFrameOf
  <1>2. UNCHANGED pins
    BY DEF FlushPage
  <1>3. \A g \in Frame : Modified(g)' <=> Modified(g)
    BY <1>2 DEF Modified, PinsOn
  <1>4. CASE WriteFails /\ UNCHANGED frames
    BY <1>3, <1>4 DEF WriteFails, CleanFrameMatchesDisk, CleanAt, Clean
  <1>5. CASE WriteSucceeds(f) /\ frames' = [frames EXCEPT ![f].is_dirty = FALSE]
    <2>1. /\ frames'[f].page_id = p /\ frames'[f].data = frames[f].data
          /\ \A g \in Frame \ {f} : frames'[g] = frames[g]
      BY <1>1, <1>5 DEF IInv, TypeOK, FrameRecord
    <2>2. disk'[p] \in {frames[f].data, Torn}
      BY <1>1, <1>5 DEF WriteSucceeds, IInv, TypeOK
    <2>3. CleanAt(f)'
      BY <2>1, <2>2 DEF CleanAt
    <2>4. ASSUME NEW g \in Frame \ {f}
          PROVE  CleanAt(g)'
      <3>1. frames[g].page_id # NoPage => disk'[frames[g].page_id] = disk[frames[g].page_id]
        BY <1>5, PagesDiffer, WriteElsewhere
      <3>2. CleanAt(g) /\ (Clean(g)' => Clean(g))
        BY <1>3, <2>1 DEF CleanFrameMatchesDisk, CleanAt, Clean
      <3> QED BY <2>1, <3>1, <3>2, CleanKept
    <2> QED BY <2>3, <2>4
  <1> QED BY <1>1, <1>4, <1>5

(* Of a batch, the frames marked clean are those whose page was written. *)
LEMMA CleanFlushAll ==
    ASSUME IInv, CleanFrameMatchesDisk, FlushAll
    PROVE  \A g \in Frame : CleanAt(g)'
  <1>1. PICK written \in SUBSET DirtyFrames, torn \in SUBSET DirtyFrames :
          /\ torn \subseteq written
          /\ disk' = DiskAfter(written, torn)
          /\ frames' = [f \in Frame |-> IF f \in written
                                       THEN [frames[f] EXCEPT !.is_dirty = FALSE]
                                       ELSE frames[f]]
    BY DEF FlushAll
  <1>2. UNCHANGED pins /\ written \subseteq Frame
    BY DEF FlushAll, DirtyFrames
  <1>3. \A g \in Frame : Modified(g)' <=> Modified(g)
    BY <1>2 DEF Modified, PinsOn
  <1>4. \A g \in Frame : /\ frames'[g].page_id = frames[g].page_id
                         /\ frames'[g].data = frames[g].data
    BY <1>1 DEF IInv, TypeOK, FrameRecord
  <1>5. \A g \in Frame : frames[g].page_id # NoPage => frames[g].page_id \in Pages
    BY DEF IInv, TypeOK, FrameRecord
  <1>6. ASSUME NEW g \in written
        PROVE  CleanAt(g)'
    <2> DEFINE p == frames[g].page_id
    <2>1. g \in Frame /\ p # NoPage /\ p \in Pages
      BY <1>2, <1>5 DEF DirtyFrames, NeedsWrite
    <2>2. \A f \in written : frames[f].page_id = p => f = g
      BY <1>2, <2>1 DEF IInv, OneFramePerPage
    <2>3. (CHOOSE f \in written : frames[f].page_id = p) = g
      BY <2>2
    <2>4. disk'[p] \in {Torn, frames[g].data}
      BY <1>1, <2>1, <2>3 DEF DiskAfter
    <2> QED BY <1>4, <2>1, <2>4 DEF CleanAt
  <1>7. ASSUME NEW g \in Frame \ written
        PROVE  CleanAt(g)'
    <2>1. frames'[g] = frames[g]
      BY <1>1
    <2>2. ASSUME frames[g].page_id # NoPage
          PROVE  disk'[frames[g].page_id] = disk[frames[g].page_id]
      <3>1. \A f \in written : frames[f].page_id # frames[g].page_id
        BY <1>2, <2>2 DEF IInv, OneFramePerPage
      <3>2. frames[g].page_id \in Pages
        BY <1>5, <2>2
      <3> QED BY <1>1, <3>1, <3>2 DEF DiskAfter
    <2>3. CleanAt(g) /\ (Clean(g)' => Clean(g))
      BY <1>3, <2>1 DEF CleanFrameMatchesDisk, CleanAt, Clean
    <2> QED BY <2>1, <2>2, <2>3, CleanKept
  <1> QED BY <1>6, <1>7

LEMMA CleanStep ==
    ASSUME IInv, CleanFrameMatchesDisk, [Next]_vars
    PROVE  CleanFrameMatchesDisk'
  <1>1. ASSUME Crash
        PROVE  \A g \in Frame : CleanAt(g)'
    BY <1>1 DEF Crash, EmptyFrame, CleanAt, Clean
  <1>2. ASSUME UNCHANGED vars
        PROVE  \A g \in Frame : CleanAt(g)'
    BY <1>2 DEF vars, CleanFrameMatchesDisk, CleanAt, Clean, Modified, PinsOn
  <1>3. \A g \in Frame : CleanAt(g)'
    BY <1>1, <1>2, CleanFetchHit, CleanFetchMiss, CleanModify, CleanUnpin,
       CleanFlushPage, CleanFlushAll DEF Next
  <1> QED BY <1>3 DEF CleanFrameMatchesDisk, CleanAt, Clean

LEMMA InitClean == Init => CleanFrameMatchesDisk
  BY DEF Init, EmptyFrame, CleanFrameMatchesDisk

(* What eviction drops without a write can be read back, whichever writes  *)
(* of buffer_pool_flush_all failed: a frame neither dirty nor under change *)
(* has its page's contents in the file, a torn or unreadable page aside.   *)
THEOREM CleanFrameCorrect == Spec => []CleanFrameMatchesDisk
  <1> DEFINE CInv == IInv /\ CleanFrameMatchesDisk
  <1>1. Init => CInv
    BY InitIInv, InitClean
  <1>2. CInv /\ [Next]_vars => CInv'
    BY NextIInv, CleanStep
  <1>3. CInv => CleanFrameMatchesDisk
    OBVIOUS
  <1> QED BY <1>1, <1>2, <1>3, PTL DEF Spec
-----------------------------------------------------------------------------
(***************************************************************************)
(* The buffer pool implements the page store: every step of BufferPool is  *)
(* a step of PageStore, or changes nothing a caller could see, for every   *)
(* page set, pool size, number of pins and set of failing system calls.    *)
(***************************************************************************)

(* Blank and torn contents occur only where the call that makes them fails. *)
MarksOfFaults ==
    /\ "read" \notin faults => /\ \A f \in Frame : frames[f].data # Blank
                               /\ \A p \in Pages : disk[p] # Blank
    /\ "short" \notin faults => /\ \A f \in Frame : frames[f].data # Torn
                                /\ \A p \in Pages : disk[p] # Torn

(* What the refinement rests on: a page is in one frame, contents are no   *)
(* newer than the last change, and a clean frame agrees with the file.     *)
RInv == /\ WInv
        /\ CleanFrameMatchesDisk
        /\ MarksOfFaults

(* The search for a page that is cached finds its only frame. *)
ViewIsContents == \A f \in Frame : frames[f].page_id \in Pages =>
                                      View(frames[f].page_id) = frames[f].data

LEMMA ViewOfFrame == IInv => ViewIsContents
  <1> SUFFICES ASSUME IInv, NEW f \in Frame, frames[f].page_id \in Pages
               PROVE  View(frames[f].page_id) = frames[f].data
    BY DEF ViewIsContents
  <1> DEFINE p == frames[f].page_id
  <1>1. p # NoPage
    BY PagesAssumption DEF NoPage
  <1>2. \A g \in Frame : frames[g].page_id = p <=> g = f
    BY <1>1 DEF IInv, OneFramePerPage
  <1>3. IsFrameOf(f, p)
    BY <1>2 DEF IsFrameOf, Frame
  <1>4. \A g \in Frame : IsFrameOf(g, p) => g = f
    BY <1>2 DEF IsFrameOf
  <1>5. (CHOOSE g \in Frame : IsFrameOf(g, p)) = f
    BY <1>3, <1>4
  <1> QED BY <1>5 DEF View, Cached

LEMMA ViewOfFrameNext == IInv' => ViewIsContents'
  BY ViewOfFrame, PTL

LEMMA ViewOfFile ==
    ASSUME NEW p, ~Cached(p)
    PROVE  View(p) = disk[p]
  BY DEF View

(* A step that leaves page p in its frame, if it is in one, with the same  *)
(* contents, and in its place in the file keeps what callers read from it. *)
SameContents(p) ==
    /\ \A f \in Frame : /\ frames[f].page_id = p <=> frames'[f].page_id = p
                        /\ frames[f].page_id = p => frames'[f].data = frames[f].data
    /\ ~Cached(p) => disk'[p] = disk[p]

LEMMA ViewKept ==
    ASSUME IInv, IInv', NEW p \in Pages, SameContents(p)
    PROVE  View(p)' = View(p)
  <1>1. CASE Cached(p)
    <2>1. PICK f \in Frame : frames[f].page_id = p
      BY <1>1 DEF Cached
    <2>2. View(p) = frames[f].data
      BY <2>1, ViewOfFrame DEF ViewIsContents
    <2>3. frames'[f].page_id = p /\ frames'[f].data = frames[f].data
      BY <2>1 DEF SameContents
    <2>4. View(p)' = frames'[f].data
      BY <2>3, ViewOfFrameNext DEF ViewIsContents, Frame
    <2> QED BY <2>2, <2>3, <2>4
  <1>2. CASE ~Cached(p)
    BY <1>2 DEF View, Cached, SameContents
  <1> QED BY <1>1, <1>2
-----------------------------------------------------------------------------
LEMMA InitRInv == Init => RInv
  <1> SUFFICES ASSUME Init PROVE MarksOfFaults
    BY InitWInv, InitClean DEF RInv
  <1> QED BY DEF Init, EmptyFrame, MarksOfFaults, Blank, Torn

LEMMA MarksStep ==
    ASSUME RInv, [Next]_vars
    PROVE  MarksOfFaults'
  <1>0. TypeOK /\ MarksOfFaults /\ version \in Nat
    BY MaxWritesAssumption DEF RInv, WInv, IInv, TypeOK
  <1>1. ASSUME NEW h \in Pins, NEW p \in Pages, FetchHit(h, p)
        PROVE  MarksOfFaults'
    BY <1>0, <1>1 DEF FetchHit, MarksOfFaults, TypeOK
  <1>2. ASSUME NEW h \in Pins, NEW p \in Pages, FetchMiss(h, p)
        PROVE  MarksOfFaults'
    <2>1. PICK f \in Frame :
            /\ IF NeedsWrite(f) THEN WalFlush /\ (WriteSucceeds(f) \/ WriteFails)
                                ELSE UNCHANGED <<disk, synced>>
            /\ \E d \in ReadResult(p) :
                 frames' = [frames EXCEPT ![f] =
                   [page_id |-> p, pin_count |-> 1, is_dirty |-> FALSE, data |-> d]]
      BY <1>2 DEF FetchMiss
    <2>2. faults' = faults
      BY <1>2 DEF FetchMiss
    <2>3. \A q \in Pages : \/ disk'[q] \in {disk[q], frames[f].data}
                           \/ disk'[q] = Torn /\ "short" \in faults
      BY <1>0, <2>1 DEF WriteSucceeds, WriteFails, TypeOK
    <2>4. \A g \in Frame : \/ frames'[g].data \in {frames[g].data, disk[p]}
                           \/ frames'[g].data = Blank /\ "read" \in faults
      BY <1>0, <2>1 DEF ReadResult, TypeOK
    <2> QED BY <1>0, <2>2, <2>3, <2>4 DEF MarksOfFaults, Blank, Torn
  <1>3. ASSUME NEW h \in Pins, Modify(h)
        PROVE  MarksOfFaults'
    <2>1. \A f \in Frame : frames'[f].data \in {frames[f].data, version + 1}
      BY <1>0, <1>3 DEF Modify, TypeOK, FrameRecord
    <2>2. version + 1 # Blank /\ version + 1 # Torn
      BY <1>0 DEF Blank, Torn
    <2> QED BY <1>0, <1>3, <2>1, <2>2 DEF Modify, MarksOfFaults
  <1>4. ASSUME NEW h \in Pins, NEW hint \in {"normal", "scan"}, Unpin(h, hint)
        PROVE  MarksOfFaults'
    BY <1>0, <1>4, UnpinKeepsContents DEF RInv, WInv, Unpin, MarksOfFaults
  <1>5. ASSUME NEW p \in Pages, FlushPage(p)
        PROVE  MarksOfFaults'
    <2>1. PICK f \in Frame : /\ WriteSucceeds(f) \/ WriteFails
                             /\ frames' = [frames EXCEPT ![f].is_dirty = FALSE]
                                  \/ UNCHANGED frames
      BY <1>5 DEF FlushPage
    <2>2. \A q \in Pages : \/ disk'[q] \in {disk[q], frames[f].data}
                           \/ disk'[q] = Torn /\ "short" \in faults
      BY <1>0, <2>1 DEF WriteSucceeds, WriteFails, TypeOK
    <2>3. \A g \in Frame : frames'[g].data = frames[g].data
      BY <1>0, <2>1 DEF TypeOK, FrameRecord
    <2> QED BY <1>0, <1>5, <2>2, <2>3 DEF FlushPage, MarksOfFaults, Blank, Torn
  <1>6. ASSUME FlushAll
        PROVE  MarksOfFaults'
    <2>1. PICK written \in SUBSET DirtyFrames, torn \in SUBSET DirtyFrames :
            /\ torn # {} => "short" \in faults
            /\ disk' = DiskAfter(written, torn)
            /\ frames' = [f \in Frame |-> IF f \in written
                                         THEN [frames[f] EXCEPT !.is_dirty = FALSE]
                                         ELSE frames[f]]
      BY <1>6 DEF FlushAll
    <2>2. \A p \in Pages : \/ disk'[p] = disk[p]
                           \/ \E f \in Frame : disk'[p] = frames[f].data
                           \/ disk'[p] = Torn /\ "short" \in faults
      BY <2>1 DEF DiskAfter, DirtyFrames
    <2>3. \A f \in Frame : frames'[f].data = frames[f].data
      BY <1>0, <2>1 DEF TypeOK, FrameRecord
    <2> QED BY <1>0, <1>6, <2>2, <2>3 DEF FlushAll, MarksOfFaults, Blank, Torn
  <1>7. ASSUME Crash
        PROVE  MarksOfFaults'
    BY <1>0, <1>7 DEF Crash, EmptyFrame, MarksOfFaults, Blank, Torn
  <1>8. ASSUME UNCHANGED vars
        PROVE  MarksOfFaults'
    BY <1>0, <1>8 DEF vars, MarksOfFaults
  <1> QED BY <1>1, <1>2, <1>3, <1>4, <1>5, <1>6, <1>7, <1>8 DEF Next

LEMMA NextRInv == RInv /\ [Next]_vars => RInv'
  BY NextWInv, CleanStep, MarksStep DEF RInv, WInv
-----------------------------------------------------------------------------
LEMMA StutterRefines ==
    ASSUME RInv, RInv', \A p \in Pages : SameContents(p), UNCHANGED <<disk, faults>>
    PROVE  UNCHANGED Store!vars
  <1>1. \A p \in Pages : View(p)' = View(p)
    BY ViewKept DEF RInv, WInv
  <1> QED BY <1>1 DEF Store!vars

(* Writing the pages of S, those of T in part, is a step of the store. *)
LEMMA SaveByWitness ==
    ASSUME NEW S \in SUBSET Pages, NEW T \in SUBSET Pages, T \subseteq S,
           T # {} => "short" \in faults,
           disk' = [p \in Pages |-> IF p \in T THEN Torn
                                    ELSE IF p \in S THEN View(p) ELSE disk[p]],
           [p \in Pages |-> View(p)]' = [p \in Pages |-> View(p)],
           faults' = faults
    PROVE  Store!Save
  BY DEF Store!Save, Store!Torn, Torn

LEMMA FetchHitRefines ==
    ASSUME RInv, RInv', NEW h \in Pins, NEW p \in Pages, FetchHit(h, p)
    PROVE  UNCHANGED Store!vars
  <1>1. /\ \A g \in Frame : /\ frames'[g].page_id = frames[g].page_id
                            /\ frames'[g].data = frames[g].data
        /\ UNCHANGED <<disk, faults>>
    BY DEF FetchHit, RInv, WInv, IInv, TypeOK, FrameRecord
  <1> QED BY <1>1, StutterRefines DEF SameContents

LEMMA UnpinRefines ==
    ASSUME RInv, RInv', NEW h \in Pins, NEW hint \in {"normal", "scan"}, Unpin(h, hint)
    PROVE  UNCHANGED Store!vars
  <1>1. UNCHANGED <<disk, faults>>
    BY DEF Unpin
  <1>2. \A g \in Frame : /\ frames'[g].page_id = frames[g].page_id
                         /\ frames'[g].data = frames[g].data
    BY UnpinKeepsContents DEF RInv, WInv
  <1> QED BY <1>1, <1>2, StutterRefines DEF SameContents

(* An evicted page that agrees with the file, or is written to it, reads   *)
(* as before; a fault costs the evicted page and the fetched one.          *)
LEMMA FetchMissRefines ==
    ASSUME RInv, RInv', NEW h \in Pins, NEW p \in Pages, FetchMiss(h, p)
    PROVE  [Store!Next]_(Store!vars)
  <1>1. PICK f \in Frame, d \in ReadResult(p) :
          /\ IsVictim(f)
          /\ IF NeedsWrite(f) THEN WalFlush /\ (WriteSucceeds(f) \/ WriteFails)
                              ELSE UNCHANGED <<disk, synced>>
          /\ frames' = [frames EXCEPT ![f] =
                 [page_id |-> p, pin_count |-> 1, is_dirty |-> FALSE, data |-> d]]
    BY DEF FetchMiss
  <1>2. ~Cached(p) /\ faults' = faults
    BY DEF FetchMiss
  <1>3. d = disk[p] \/ (d = Blank /\ "read" \in faults)
    BY <1>1 DEF ReadResult
  <1>4. /\ IInv /\ IInv' /\ TypeOK
        /\ frames'[f].page_id = p /\ frames'[f].data = d
        /\ \A g \in Frame \ {f} : frames'[g] = frames[g]
    BY <1>1 DEF RInv, WInv, IInv, TypeOK
  <1>5. View(p) = disk[p] /\ View(p)' = d
    BY <1>2, <1>4, ViewOfFile, ViewOfFrameNext DEF ViewIsContents, Frame
  <1>6. \A r \in Pages : r # frames[f].page_id => disk'[r] = disk[r]
    BY <1>1, <1>4, WriteElsewhere
  <1>7. ASSUME NEW r \in Pages \ {p}, r # frames[f].page_id
        PROVE  View(r)' = View(r)
    <2>1. SameContents(r)
      BY <1>4, <1>6, <1>7 DEF SameContents
    <2> QED BY <1>4, <2>1, ViewKept
  <1>8. CASE frames[f].page_id = NoPage
    <2>1. disk' = disk
      BY <1>1, <1>8 DEF NeedsWrite
    <2>2. \A r \in Pages : r # NoPage
      BY PagesAssumption DEF NoPage
    <2>3. \A r \in Pages \ {p} : View(r)' = View(r)
      BY <1>7, <1>8, <2>2
    <2>4. CASE d = disk[p]
      BY <1>2, <1>5, <2>1, <2>3, <2>4 DEF Store!vars
    <2>5. CASE d = Blank /\ "read" \in faults
      <3>1. Store!Unread(p)
        BY <1>2, <1>5, <2>1, <2>3, <2>5 DEF Store!Unread, Store!Blank, Blank
      <3> QED BY <3>1 DEF Store!Next
    <2> QED BY <1>3, <2>4, <2>5
  <1>9. CASE frames[f].page_id # NoPage
    <2>1. PICK q \in Pages \ {p} : q = frames[f].page_id
      BY <1>2, <1>4, <1>9 DEF TypeOK, FrameRecord, Cached
    <2>2. View(q) = frames[f].data
      BY <1>4, <2>1, ViewOfFrame DEF ViewIsContents
    <2>3. View(q)' = disk'[q]
      <3>1. \A g \in Frame \ {f} : frames[g].page_id # q
        BY <1>4, <1>9, <2>1 DEF IInv, OneFramePerPage
      <3>2. \A g \in Frame : frames'[g].page_id # q
        BY <1>4, <2>1, <3>1
      <3> QED BY <3>2 DEF View, Cached
    <2>4. \A r \in Pages \ {p, q} : View(r)' = View(r)
      BY <1>7, <2>1
    <2>5. \A r \in Pages \ {q} : disk'[r] = disk[r]
      BY <1>6, <2>1
    <2>6. disk \in [Pages -> Content] /\ disk' \in [Pages -> Content]
      BY <1>4 DEF IInv, TypeOK
    <2>7. \/ disk'[q] = View(q)
          \/ disk'[q] = disk[q] /\ "write" \in faults
          \/ disk'[q] = disk[q] /\ "read" \in faults
          \/ disk'[q] = disk[q] /\ "short" \in faults
          \/ disk'[q] = Torn /\ "short" \in faults
      <3>1. CASE NeedsWrite(f)
        BY <1>1, <2>1, <2>2, <2>6, <3>1 DEF WriteSucceeds, WriteFails
      <3>2. CASE ~NeedsWrite(f)
        <4>1. disk' = disk /\ ~frames[f].is_dirty
          BY <1>1, <1>9, <3>2 DEF NeedsWrite
        <4>2. ~Modified(f)
          BY <1>1, <1>4, VictimHasNoPins DEF Modified
        <4>3. frames[f].data \in {disk[q], Blank} \/ disk[q] = Torn
          BY <1>9, <2>1, <4>1, <4>2 DEF RInv, CleanFrameMatchesDisk
        <4>4. frames[f].data = Blank => "read" \in faults
          BY DEF RInv, MarksOfFaults
        <4>5. disk[q] = Torn => "short" \in faults
          BY <2>1 DEF RInv, MarksOfFaults
        <4> QED BY <2>2, <4>1, <4>3, <4>4, <4>5
      <3> QED BY <3>1, <3>2
    <2>8. CASE faults \cap {"read", "write", "short"} # {}
      <3>1. d \in {View(p)} \cup (IF "read" \in faults THEN {Blank} ELSE {})
        BY <1>3, <1>5
      <3>2. disk'[q] \in {disk[q], View(q)} \cup (IF "short" \in faults THEN {Torn} ELSE {})
        BY <2>7
      <3>3. disk' = [disk EXCEPT ![q] = disk'[q]]
        BY <2>1, <2>5, <2>6
      <3>4. [r \in Pages |-> View(r)]' =
              [[r \in Pages |-> View(r)] EXCEPT ![q] = disk'[q], ![p] = d]
        BY <1>5, <2>1, <2>3, <2>4
      <3>5. Store!Replace(q, p)
        BY <1>2, <2>1, <2>8, <3>1, <3>2, <3>3, <3>4
        DEF Store!Replace, Store!Blank, Store!Torn, Blank, Torn
      <3> QED BY <2>1, <3>5 DEF Store!Next
    <2>9. CASE faults \cap {"read", "write", "short"} = {}
      <3>1. d = disk[p] /\ disk'[q] = View(q)
        BY <1>3, <2>7, <2>9
      <3>2. [r \in Pages |-> View(r)]' = [r \in Pages |-> View(r)]
        BY <1>5, <2>3, <2>4, <3>1
      <3>3. PICK S \in SUBSET Pages, T \in SUBSET Pages : S = {q} /\ T = {}
        BY <2>1
      <3>4. disk' = [r \in Pages |-> IF r \in T THEN Torn
                                     ELSE IF r \in S THEN View(r) ELSE disk[r]]
        BY <2>5, <2>6, <3>1, <3>3
      <3>5. Store!Save
        BY <1>2, <3>2, <3>3, <3>4, SaveByWitness
      <3> QED BY <3>5 DEF Store!Next
    <2> QED BY <2>8, <2>9
  <1> QED BY <1>8, <1>9

(* A change is newer than everything callers have read and everything in   *)
(* the file.                                                               *)
LEMMA ModifyRefines ==
    ASSUME RInv, RInv', NEW h \in Pins, Modify(h)
    PROVE  Store!Next
  <1>0. /\ IInv /\ TypeOK /\ Numbered /\ version \in Nat
        /\ UNCHANGED <<disk, faults>>
    BY MaxWritesAssumption DEF RInv, WInv, IInv, TypeOK, Modify
  <1>1. PICK f \in Frame : f = pins[h].frame /\ frames[f].page_id \in Pages
    BY <1>0 DEF Modify, IInv, PinnedFrameKeepsPage, PinNamesPage
  <1>2. PICK p \in Pages : p = frames[f].page_id
    BY <1>1
  <1>3. frames' = [frames EXCEPT ![f].data = version + 1]
    BY <1>1 DEF Modify
  <1>4. /\ frames'[f].page_id = p /\ frames'[f].data = version + 1
        /\ \A g \in Frame \ {f} : frames'[g] = frames[g]
    BY <1>0, <1>2, <1>3 DEF TypeOK, FrameRecord
  <1>5. View(p)' = version + 1
    BY <1>4, ViewOfFrameNext DEF ViewIsContents, Frame, RInv, WInv
  <1>6. ASSUME NEW q \in Pages \ {p}
        PROVE  View(q)' = View(q)
    <2>1. SameContents(q)
      BY <1>0, <1>2, <1>4 DEF SameContents
    <2> QED BY <2>1, ViewKept DEF RInv, WInv
  <1>7. ASSUME NEW q \in Pages
        PROVE  version + 1 > View(q) /\ version + 1 > disk[q]
    <2>1. disk[q] \in Int /\ disk[q] <= version
      BY <1>0 DEF TypeOK, Content, Blank, Torn, Numbered
    <2>2. CASE Cached(q)
      <3>1. PICK g \in Frame : frames[g].page_id = q
        BY <2>2 DEF Cached
      <3>2. View(q) = frames[g].data
        BY <1>0, <3>1, ViewOfFrame DEF ViewIsContents
      <3>3. frames[g].data \in Int /\ frames[g].data <= version
        BY <1>0 DEF TypeOK, FrameRecord, Content, Blank, Torn, Numbered
      <3> QED BY <1>0, <2>1, <3>2, <3>3
    <2>3. CASE ~Cached(q)
      BY <1>0, <2>1, <2>3, ViewOfFile
    <2> QED BY <2>2, <2>3
  <1>8. Store!Write(p)
    <2>1. [q \in Pages |-> View(q)]' = [[q \in Pages |-> View(q)] EXCEPT ![p] = version + 1]
      BY <1>5, <1>6
    <2>2. version + 1 \in Nat
      BY <1>0
    <2> QED BY <1>0, <1>5, <1>7, <2>1, <2>2 DEF Store!Write
  <1> QED BY <1>8 DEF Store!Next

LEMMA FlushPageRefines ==
    ASSUME RInv, RInv', NEW p \in Pages, FlushPage(p)
    PROVE  [Store!Next]_(Store!vars)
  <1>1. PICK f \in Frame :
          /\ frames[f].page_id = p
          /\ \/ WriteSucceeds(f) /\ frames' = [frames EXCEPT ![f].is_dirty = FALSE]
             \/ WriteFails /\ UNCHANGED frames
    BY DEF FlushPage, IsFrameOf
  <1>2. /\ IInv /\ IInv' /\ TypeOK /\ faults' = faults
        /\ \A g \in Frame : /\ frames'[g].page_id = frames[g].page_id
                            /\ frames'[g].data = frames[g].data
    BY <1>1 DEF FlushPage, RInv, WInv, IInv, TypeOK, FrameRecord
  <1>3. CASE WriteFails
    BY <1>2, <1>3, StutterRefines DEF SameContents, WriteFails
  <1>4. CASE WriteSucceeds(f)
    <2>1. View(p) = frames[f].data
      BY <1>1, <1>2, ViewOfFrame DEF ViewIsContents
    <2>2. \A q \in Pages : View(q)' = View(q)
      <3> SUFFICES ASSUME NEW q \in Pages PROVE View(q)' = View(q)
        OBVIOUS
      <3>1. ~Cached(q) => disk'[q] = disk[q]
        BY <1>1, <1>2, <1>4 DEF Cached, WriteSucceeds, TypeOK
      <3> QED BY <1>2, <3>1, ViewKept DEF SameContents
    <2>3. PICK S \in SUBSET Pages, T \in SUBSET Pages :
            /\ T \subseteq S
            /\ T # {} => "short" \in faults
            /\ disk' = [q \in Pages |-> IF q \in T THEN Torn
                                        ELSE IF q \in S THEN View(q) ELSE disk[q]]
      <3>1. CASE disk' = [disk EXCEPT ![p] = View(p)]
        <4> WITNESS {p} \in SUBSET Pages, {} \in SUBSET Pages
        <4> QED BY <1>2, <3>1 DEF TypeOK
      <3>2. CASE "short" \in faults /\ disk' = [disk EXCEPT ![p] = Torn]
        <4> WITNESS {p} \in SUBSET Pages, {p} \in SUBSET Pages
        <4> QED BY <1>2, <3>2 DEF TypeOK
      <3> QED BY <1>1, <1>4, <2>1, <3>1, <3>2 DEF WriteSucceeds
    <2>4. Store!Save
      BY <1>2, <2>2, <2>3, SaveByWitness
    <2> QED BY <2>4 DEF Store!Next
  <1> QED BY <1>1, <1>3, <1>4

(* A batch saves the pages of the frames whose write succeeded. *)
LEMMA FlushAllRefines ==
    ASSUME RInv, RInv', FlushAll
    PROVE  Store!Next
  <1>1. PICK written \in SUBSET DirtyFrames, torn \in SUBSET DirtyFrames :
          /\ torn \subseteq written
          /\ torn # {} => "short" \in faults
          /\ disk' = DiskAfter(written, torn)
          /\ frames' = [f \in Frame |-> IF f \in written
                                       THEN [frames[f] EXCEPT !.is_dirty = FALSE]
                                       ELSE frames[f]]
    BY DEF FlushAll
  <1>2. /\ IInv /\ IInv' /\ TypeOK /\ faults' = faults
        /\ \A g \in Frame : /\ frames'[g].page_id = frames[g].page_id
                            /\ frames'[g].data = frames[g].data
    BY <1>1 DEF FlushAll, RInv, WInv, IInv, TypeOK, FrameRecord
  <1>3. written \subseteq Frame
    BY DEF DirtyFrames
  <1>4. ASSUME NEW f \in written
        PROVE  /\ View(frames[f].page_id) = frames[f].data
               /\ (CHOOSE g \in written : frames[g].page_id = frames[f].page_id) = f
    <2>1. f \in Frame /\ frames[f].page_id # NoPage /\ frames[f].page_id \in Pages
      BY <1>2 DEF DirtyFrames, NeedsWrite, TypeOK, FrameRecord
    <2>2. \A g \in written : frames[g].page_id = frames[f].page_id => g = f
      BY <1>2, <1>3, <2>1 DEF IInv, OneFramePerPage
    <2>3. View(frames[f].page_id) = frames[f].data
      BY <1>2, <2>1, ViewOfFrame DEF ViewIsContents
    <2>4. (CHOOSE g \in written : frames[g].page_id = frames[f].page_id) = f
      BY <2>2
    <2> QED BY <2>3, <2>4
  <1>5. PICK S \in SUBSET Pages, T \in SUBSET Pages :
          /\ S = {p \in Pages : \E f \in written : frames[f].page_id = p}
          /\ T = {p \in Pages : \E f \in torn : frames[f].page_id = p}
    OBVIOUS
  <1>6. T \subseteq S /\ (T # {} => "short" \in faults)
    BY <1>1, <1>5
  <1>7. disk' = [p \in Pages |-> IF p \in T THEN Torn
                                 ELSE IF p \in S THEN View(p) ELSE disk[p]]
    <2>1. \A p \in Pages : p \in S =>
            frames[CHOOSE g \in written : frames[g].page_id = p].data = View(p)
      BY <1>4, <1>5
    <2> QED BY <1>1, <1>5, <2>1 DEF DiskAfter
  <1>8. \A p \in Pages : View(p)' = View(p)
    <2> SUFFICES ASSUME NEW p \in Pages PROVE View(p)' = View(p)
      OBVIOUS
    <2>1. ~Cached(p) => p \notin S
      BY <1>3, <1>5 DEF Cached
    <2>2. ~Cached(p) => disk'[p] = disk[p]
      BY <1>6, <1>7, <2>1
    <2> QED BY <1>2, <2>2, ViewKept DEF SameContents
  <1>9. Store!Save
    BY <1>2, <1>6, <1>7, <1>8, SaveByWitness
  <1> QED BY <1>9 DEF Store!Next

LEMMA CrashRefines ==
    ASSUME RInv, Crash
    PROVE  Store!Next
  <1>1. \A p \in Pages : p # NoPage
    BY PagesAssumption DEF NoPage
  <1>2. disk' = disk /\ faults' = faults /\ \A f \in Frame : frames'[f].page_id = NoPage
    BY DEF Crash, EmptyFrame
  <1>3. \A p \in Pages : View(p)' = disk[p]
    BY <1>1, <1>2 DEF View, Cached
  <1>4. disk \in [Pages -> Content]
    BY DEF RInv, WInv, IInv, TypeOK
  <1>5. [p \in Pages |-> View(p)]' = disk
    BY <1>3, <1>4
  <1>6. Store!Crash
    BY <1>2, <1>5 DEF Store!Crash
  <1> QED BY <1>6 DEF Store!Next

LEMMA InitRefines == Init => Store!Init
  <1> SUFFICES ASSUME Init PROVE Store!Init
    OBVIOUS
  <1>1. \A p \in Pages : p # NoPage
    BY PagesAssumption DEF NoPage
  <1>2. \A p \in Pages : View(p) = 0
    BY <1>1 DEF Init, EmptyFrame, View, Cached
  <1>3. faults \subseteq {"read", "write", "short", "fsync"}
    BY FaultSetsAssumption DEF Init, FaultKinds
  <1> QED BY <1>2, <1>3 DEF Init, Store!Init

LEMMA StepRefines ==
    ASSUME RInv, RInv', [Next]_vars
    PROVE  [Store!Next]_(Store!vars)
  <1>1. ASSUME UNCHANGED vars
        PROVE  UNCHANGED Store!vars
    BY <1>1, StutterRefines DEF vars, SameContents
  <1> QED BY <1>1, FetchHitRefines, FetchMissRefines, ModifyRefines, UnpinRefines,
             FlushPageRefines, FlushAllRefines, CrashRefines DEF Next

(* The pool is the page store its callers rely on, for every pool size and *)
(* whatever calls fail: eviction, batches and the order of fetches are     *)
(* invisible, and a failure costs at most the evicted and fetched pages.   *)
THEOREM PoolIsPageStore == Spec => ImplementsPageStore
  <1>1. RInv /\ RInv' /\ [Next]_vars => [Store!Next]_(Store!vars)
    BY StepRefines
  <1> QED BY InitRInv, NextRInv, InitRefines, <1>1, PTL
          DEF Spec, ImplementsPageStore, Store!Spec
=============================================================================

---------------------------- MODULE WriteAheadLog ----------------------------
(***************************************************************************)
(* The write-ahead log of one shard (src/wal.c): a file opened with        *)
(* O_APPEND, records written by one write for the header and one for the   *)
(* payload, fdatasync as the only barrier, and replay by reading records   *)
(* from the start.                                                         *)
(*                                                                         *)
(* The file is a sequence of cells.  A cell says which record it belongs   *)
(* to and which part of it it is, which is what tells a header read at a   *)
(* record boundary from one read in the middle of a record.                *)
(***************************************************************************)
EXTENDS Integers, Sequences, FiniteSets

CONSTANTS HeaderSize,   \* cells of a WALHeader
          PayloadSizes, \* payload lengths callers pass
          MaxAppends,   \* bound on the calls of wal_append_record
          Faults        \* see FaultKinds

FaultKinds == {"short", \* a write stops before its last byte
               "power", \* the machine stops: cells not synced may be lost
               "fsync"} \* fdatasync fails

ASSUME HeaderSizeAssumption   == HeaderSize \in Nat \ {0}
ASSUME PayloadSizesAssumption == PayloadSizes \subseteq Nat
ASSUME MaxAppendsAssumption   == MaxAppends \in Nat
ASSUME WalFaultsAssumption    == Faults \subseteq FaultKinds

VARIABLES file,         \* the log file
          synced,       \* how much of it fdatasync has made durable
          current_lsn,  \* wal->current_lsn
          appends,      \* calls of wal_append_record so far
          acked,        \* calls that returned an LSN
          promised      \* acknowledged calls a later wal_flush succeeded for

vars == <<file, synced, current_lsn, appends, acked, promised>>

Cell == [id : Nat, lsn : Nat, part : Nat, len : Nat]

Record(id, lsn, len) ==
    [i \in 1..(HeaderSize + len) |-> [id |-> id, lsn |-> lsn, part |-> i, len |-> len]]

Init == /\ file = <<>>
        /\ synced = 0
        /\ current_lsn = 0
        /\ appends = 0
        /\ acked = {}
        /\ promised = {}

(* Both writes complete: the LSN is taken and returned. *)
AppendRecord(len) ==
    /\ appends < MaxAppends
    /\ appends' = appends + 1
    /\ file' = file \o Record(appends + 1, current_lsn + 1, len)
    /\ current_lsn' = current_lsn + 1
    /\ acked' = acked \cup {appends + 1}
    /\ UNCHANGED <<synced, promised>>

(* One of the writes stops early: 0 is returned, current_lsn keeps its     *)
(* value, and what was written stays in the file.                          *)
AppendFails(len) ==
    /\ "short" \in Faults
    /\ appends < MaxAppends
    /\ appends' = appends + 1
    /\ \E k \in 0..(HeaderSize + len - 1) :
         file' = file \o SubSeq(Record(appends + 1, current_lsn + 1, len), 1, k)
    /\ UNCHANGED <<synced, current_lsn, acked, promised>>

(* fdatasync succeeds, or fails and promises nothing. *)
Datasync == \/ synced' = Len(file) /\ promised' = acked
            \/ "fsync" \in Faults /\ UNCHANGED <<synced, promised>>

Flush ==
    /\ Datasync
    /\ UNCHANGED <<file, current_lsn, appends, acked>>

(* wal_init takes the size of the file as the current LSN; variants that   *)
(* start over, or take the offset of the last header.                      *)
OpenAtZero(f)   == file' = f /\ current_lsn' = 0
OpenAtHeader(f) == file' = f /\ current_lsn' = Len(f) - HeaderSize

Open(f) == /\ file' = f
           /\ current_lsn' = Len(f)

(* wal_close followed by wal_init. *)
Reopen ==
    /\ Open(file)
    /\ Datasync
    /\ UNCHANGED <<appends, acked>>

(* The process is killed between two calls; the kernel keeps the file. *)
Kill == /\ Open(file)
        /\ UNCHANGED <<synced, appends, acked, promised>>

(* The machine stops: any end of the file past the last barrier is lost,   *)
(* in the middle of a record too.                                          *)
PowerLoss ==
    /\ "power" \in Faults
    /\ \E k \in synced..Len(file) :
         /\ Open(SubSeq(file, 1, k))
         /\ synced' = k
         /\ acked' = {id \in acked : \A i \in 1..Len(file) : file[i].id = id => i <= k}
    /\ UNCHANGED <<appends, promised>>

Next == \/ \E len \in PayloadSizes : AppendRecord(len) \/ AppendFails(len)
        \/ Flush
        \/ Reopen
        \/ Kill
        \/ PowerLoss

Spec == Init /\ [][Next]_vars
-----------------------------------------------------------------------------
(***************************************************************************)
(* wal_replay_recovery                                                     *)
(***************************************************************************)

Garbage == 0            \* no call has number 0

(* Cells i..j are parts a.. of the record cell i belongs to. *)
PartsFrom(i, j, a) == \A n \in i..j : file[n].id = file[i].id /\ file[n].part = a + n - i

(* A variant takes a header at the very end of the file for a short read.  *)
HeaderAtNotLast(i) == i + HeaderSize <= Len(file) /\ PartsFrom(i, i + HeaderSize - 1, 1)

HeaderAt(i) == i + HeaderSize - 1 <= Len(file) /\ PartsFrom(i, i + HeaderSize - 1, 1)

PayloadAt(i) == LET h == file[i] IN
    \A n \in 1..h.len : /\ file[i + HeaderSize + n - 1].id = h.id
                        /\ file[i + HeaderSize + n - 1].part = HeaderSize + n

(* The calls whose records replay delivers from cell i on.  Bytes that are *)
(* no header are taken for one: what is delivered then, and from there on, *)
(* is not determined and stands as one Garbage.  A short read of a header  *)
(* is not noticed (only n <= 0 ends the loop); a short payload ends it.    *)
Replay == LET from[i \in 1..(Len(file) + 1)] ==
              IF i > Len(file) THEN <<>>
              ELSE IF ~HeaderAt(i) THEN <<Garbage>>
              ELSE LET next == i + HeaderSize + file[i].len IN
                   IF next > Len(file) + 1 THEN <<>>
                   ELSE IF ~PayloadAt(i) THEN <<Garbage>>
                   ELSE <<file[i].id>> \o from[next]
          IN  from[1]

Delivered == {Replay[i] : i \in DOMAIN Replay}
-----------------------------------------------------------------------------
(***************************************************************************)
(* Properties                                                              *)
(***************************************************************************)

(* Every variable stays in its domain. *)
TypeOK == /\ file \in Seq(Cell)
          /\ synced \in 0..Len(file)
          /\ current_lsn \in Nat
          /\ appends \in 0..MaxAppends
          /\ acked \in SUBSET (1..appends)
          /\ promised \in SUBSET (1..appends)

(* An LSN is at most the offset its record ends at: this is why taking the *)
(* file size as the current LSN on open never goes back (wal.c:18).        *)
LsnWithinOffset == /\ current_lsn <= Len(file)
                   /\ \A i \in 1..Len(file) : file[i].lsn <= i

(* LSNs never decrease along the log, across failed appends, reopening and *)
(* torn tails.                                                             *)
LsnMonotone == \A i, j \in 1..Len(file) : i < j => file[i].lsn <= file[j].lsn

(* No two acknowledged records have the same LSN, as a page's header.lsn    *)
(* needs it to be: an append that fails does not use its LSN up, so a      *)
(* record half written may share one, and one that was acknowledged never. *)
LsnNamesRecord == \A i, j \in 1..Len(file) :
    {file[i].id, file[j].id} \subseteq acked /\ file[i].lsn = file[j].lsn
        => file[i].id = file[j].id

(* The first n cells are complete records, the last of them perhaps cut.   *)
Intact(n) == \A i \in 1..n :
    \/ file[i].part = 1 /\ (i = 1 \/ file[i-1].part = HeaderSize + file[i-1].len)
    \/ i > 1 /\ file[i].id = file[i-1].id /\ file[i].part = file[i-1].part + 1

RecordEnds(n) == {i \in 1..n : file[i].part = HeaderSize + file[i].len}

(* No call stopped half way and no end was cut inside a record. *)
Whole == Intact(Len(file)) /\ (file = <<>> \/ Len(file) \in RecordEnds(Len(file)))

(* From a log without a torn record, replay delivers every acknowledged    *)
(* record that is left once, in the order of the calls, and nothing else.  *)
ReplayExact == Whole => /\ Delivered = acked
                        /\ \A i, j \in DOMAIN Replay : i < j => Replay[i] < Replay[j]

(* Crash recovery (README.md:17) returns every record that was             *)
(* acknowledged and then made durable by a wal_flush that succeeded.       *)
DurableRecordsReplayed == promised \subseteq Delivered

(* Records that are durable and lie before the first torn record are       *)
(* replayed whatever has failed since: damage never reaches backwards.     *)
IntactPrefixReplayed ==
    \A n \in 0..Len(file) : Intact(n) =>
        {file[i].id : i \in RecordEnds(n)} \subseteq Delivered
=============================================================================

------------------------- MODULE WriteAheadLogProofs -------------------------
(***************************************************************************)
(* Proofs about the log sequence numbers of WriteAheadLog and about what   *)
(* replay delivers, for every header size, set of payload sizes and set of *)
(* failures.                                                               *)
(***************************************************************************)
EXTENDS WriteAheadLog, LeastElement, SequenceTheorems, TLAPS

(* A record half written still carries the LSN the next one will get. *)
LsnBounded == \A i \in 1..Len(file) : file[i].lsn <= current_lsn + 1

IInv == TypeOK /\ LsnWithinOffset /\ LsnMonotone /\ LsnBounded

(* What one call appends: a prefix of a record, all of it with the next LSN. *)
LEMMA RecordPrefix ==
    ASSUME NEW id \in Nat, NEW lsn \in Nat, NEW len \in PayloadSizes,
           NEW k \in 0..(HeaderSize + len)
    PROVE  /\ SubSeq(Record(id, lsn, len), 1, k) \in Seq(Cell)
           /\ Len(SubSeq(Record(id, lsn, len), 1, k)) = k
           /\ \A i \in 1..k : /\ SubSeq(Record(id, lsn, len), 1, k)[i].lsn = lsn
                              /\ SubSeq(Record(id, lsn, len), 1, k)[i].id = id
                              /\ SubSeq(Record(id, lsn, len), 1, k)[i].part = i
                              /\ SubSeq(Record(id, lsn, len), 1, k)[i].len = len
  <1> DEFINE r == Record(id, lsn, len)
             n == HeaderSize + len
  <1>1. len \in Nat /\ n \in Nat
    BY HeaderSizeAssumption, PayloadSizesAssumption
  <1>2. /\ r = [i \in 1..n |-> [id |-> id, lsn |-> lsn, part |-> i, len |-> len]]
        /\ \A i \in 1..n : /\ r[i] \in Cell /\ r[i].lsn = lsn /\ r[i].id = id
                           /\ r[i].part = i /\ r[i].len = len
    BY <1>1 DEF Record, Cell
  <1>3. r \in Seq(Cell) /\ Len(r) = n
    BY <1>1, <1>2
  <1> HIDE DEF r, n
  <1>4. k \in 0..n /\ k \in Nat
    BY <1>1 DEF n
  <1>5. /\ SubSeq(r, 1, k) \in Seq(Cell)
        /\ Len(SubSeq(r, 1, k)) = k
        /\ \A i \in 1..k : SubSeq(r, 1, k)[i] = r[i]
    BY <1>1, <1>3, <1>4
  <1>6. \A i \in 1..k : /\ SubSeq(r, 1, k)[i].lsn = lsn /\ SubSeq(r, 1, k)[i].id = id
                        /\ SubSeq(r, 1, k)[i].part = i /\ SubSeq(r, 1, k)[i].len = len
    BY <1>1, <1>2, <1>4, <1>5
  <1> QED BY <1>5, <1>6 DEF r

(* Appending cells with the next LSN, wherever the call stopped. *)
LEMMA ExtendStep ==
    ASSUME IInv, NEW s \in Seq(Cell), \A i \in 1..Len(s) : s[i].lsn = current_lsn + 1,
           file' = file \o s,
           \/ current_lsn' = current_lsn + 1 /\ Len(s) >= 1
           \/ current_lsn' = current_lsn
    PROVE  (LsnWithinOffset /\ LsnMonotone /\ LsnBounded)'
  <1> USE DEF IInv
  <1>1. file \in Seq(Cell) /\ Len(file) \in Nat /\ Len(s) \in Nat /\ current_lsn \in Nat
    BY DEF TypeOK
  <1>2. /\ Len(file') = Len(file) + Len(s)
        /\ file' \in Seq(Cell)
        /\ \A i \in 1..Len(file) : file'[i] = file[i]
        /\ \A i \in (Len(file) + 1)..(Len(file) + Len(s)) : file'[i] = s[i - Len(file)]
    BY <1>1
  <1>3. \A i \in 1..Len(file) : file[i].lsn \in Nat /\ file[i].lsn <= i
                              /\ file[i].lsn <= current_lsn + 1
    <2>1. \A i \in 1..Len(file) : file[i] \in Cell
      BY <1>1
    <2> QED BY <1>1, <2>1 DEF LsnWithinOffset, LsnBounded, Cell
  <1>4. \A i \in (Len(file) + 1)..(Len(file) + Len(s)) : file'[i].lsn = current_lsn + 1
    BY <1>1, <1>2
  <1>5. current_lsn <= Len(file)
    BY DEF LsnWithinOffset
  <1>6. LsnWithinOffset'
    BY <1>1, <1>2, <1>3, <1>4, <1>5 DEF LsnWithinOffset
  <1>7. LsnBounded'
    BY <1>1, <1>2, <1>3, <1>4 DEF LsnBounded
  <1>8. LsnMonotone'
    <2> SUFFICES ASSUME NEW i \in 1..Len(file'), NEW j \in 1..Len(file'), i < j
                 PROVE  file'[i].lsn <= file'[j].lsn
      BY <1>2 DEF LsnMonotone
    <2>1. CASE j <= Len(file)
      BY <1>1, <1>2, <2>1 DEF LsnMonotone
    <2>2. CASE j > Len(file)
      BY <1>1, <1>2, <1>3, <1>4, <2>2
    <2> QED BY <1>1, <2>1, <2>2
  <1> QED BY <1>6, <1>7, <1>8

(* Opening what is left of the file after a stop. *)
LEMMA OpenStep ==
    ASSUME IInv, NEW k \in 0..Len(file), Open(SubSeq(file, 1, k))
    PROVE  /\ (LsnWithinOffset /\ LsnMonotone /\ LsnBounded)'
           /\ file' \in Seq(Cell) /\ Len(file') = k /\ current_lsn' = k
           /\ \A i \in 1..k : file'[i] = file[i]
  <1>1. file \in Seq(Cell) /\ Len(file) \in Nat /\ k \in Nat
    BY DEF IInv, TypeOK
  <1>2. /\ file' \in Seq(Cell) /\ Len(file') = k /\ current_lsn' = k
        /\ \A i \in 1..k : file'[i] = file[i]
    BY <1>1 DEF Open
  <1>3. \A i \in 1..k : i \in 1..Len(file) /\ file[i].lsn <= i /\ file[i].lsn \in Nat
    <2>1. \A i \in 1..Len(file) : file[i] \in Cell
      BY <1>1
    <2> QED BY <1>1, <2>1 DEF IInv, LsnWithinOffset, Cell
  <1>4. Len(file') = k
    BY <1>2
  <1>5. LsnWithinOffset' /\ LsnBounded'
    BY <1>1, <1>2, <1>3, <1>4 DEF LsnWithinOffset, LsnBounded
  <1>6. LsnMonotone'
    BY <1>2, <1>3, <1>4 DEF IInv, LsnMonotone
  <1> QED BY <1>2, <1>5, <1>6

(* A part of the file may be all of it. *)
LEMMA WholeFile ==
    ASSUME TypeOK
    PROVE  SubSeq(file, 1, Len(file)) = file /\ Len(file) \in 0..Len(file)
  BY DEF TypeOK

(* The barrier keeps the durable part within the file. *)
LEMMA DatasyncStep ==
    ASSUME TypeOK, Datasync
    PROVE  synced' \in 0..Len(file) /\ promised' \in SUBSET (1..appends)
  <1>1. /\ synced \in 0..Len(file) /\ promised \in SUBSET (1..appends)
        /\ acked \in SUBSET (1..appends) /\ Len(file) \in 0..Len(file)
    BY DEF TypeOK
  <1>2. CASE synced' = Len(file) /\ promised' = acked
    <2>1. synced' \in 0..Len(file)
      BY <1>1, <1>2
    <2>2. promised' \in SUBSET (1..appends)
      BY <1>1, <1>2
    <2> QED BY <2>1, <2>2
  <1>3. CASE UNCHANGED <<synced, promised>>
    BY <1>1, <1>3
  <1> QED BY <1>2, <1>3 DEF Datasync

(* IInv holds at the start. *)
LEMMA InitIInv == Init => IInv
  BY MaxAppendsAssumption
  DEF Init, IInv, TypeOK, LsnWithinOffset, LsnMonotone, LsnBounded

(* Every step keeps IInv. *)
LEMMA NextIInv == IInv /\ [Next]_vars => IInv'
  <1> SUFFICES ASSUME IInv, [Next]_vars PROVE IInv'
    OBVIOUS
  <1>0. /\ file \in Seq(Cell) /\ Len(file) \in Nat /\ current_lsn \in Nat
        /\ synced \in 0..Len(file) /\ appends \in Nat /\ appends <= MaxAppends
        /\ acked \in SUBSET (1..appends) /\ promised \in SUBSET (1..appends)
    BY MaxAppendsAssumption DEF IInv, TypeOK
  <1>1. ASSUME NEW len \in PayloadSizes, AppendRecord(len)
        PROVE  IInv'
    <2> DEFINE r == Record(appends + 1, current_lsn + 1, len)
    <2>1. len \in Nat /\ HeaderSize + len \in 0..(HeaderSize + len) /\ HeaderSize + len >= 1
      BY HeaderSizeAssumption, PayloadSizesAssumption
    <2>2. /\ SubSeq(r, 1, HeaderSize + len) = r
          /\ r \in Seq(Cell) /\ Len(r) = HeaderSize + len
          /\ \A i \in 1..Len(r) : r[i].lsn = current_lsn + 1
      <3>1. DOMAIN r = 1..(HeaderSize + len) /\ Len(r) = HeaderSize + len
        BY <2>1, HeaderSizeAssumption DEF Record
      <3>2. \A i \in 1..(HeaderSize + len) : r[i] \in Cell /\ r[i].lsn = current_lsn + 1
        BY <1>0, <2>1 DEF Record, Cell
      <3>3. r \in Seq(Cell)
        BY <2>1, <3>1, <3>2, HeaderSizeAssumption DEF Record
      <3> QED BY <2>1, <3>1, <3>2, <3>3
    <2>3. file' = file \o r /\ current_lsn' = current_lsn + 1
      BY <1>1 DEF AppendRecord
    <2> HIDE DEF r
    <2>4. (LsnWithinOffset /\ LsnMonotone /\ LsnBounded)'
      BY <2>1, <2>2, <2>3, ExtendStep
    <2>5. file' \in Seq(Cell) /\ Len(file') >= Len(file) /\ Len(file') \in Nat
      BY <1>0, <2>2, <2>3
    <2> QED BY <1>0, <1>1, <2>3, <2>4, <2>5, MaxAppendsAssumption
            DEF AppendRecord, IInv, TypeOK
  <1>2. ASSUME NEW len \in PayloadSizes, AppendFails(len)
        PROVE  IInv'
    <2>1. PICK k \in 0..(HeaderSize + len - 1) :
            file' = file \o SubSeq(Record(appends + 1, current_lsn + 1, len), 1, k)
      BY <1>2 DEF AppendFails
    <2> DEFINE s == SubSeq(Record(appends + 1, current_lsn + 1, len), 1, k)
    <2>2. k \in 0..(HeaderSize + len)
      BY HeaderSizeAssumption, PayloadSizesAssumption
    <2>3. /\ s \in Seq(Cell) /\ Len(s) = k
          /\ \A i \in 1..Len(s) : s[i].lsn = current_lsn + 1
      BY <1>0, <2>2, RecordPrefix
    <2> HIDE DEF s
    <2>4. file' = file \o s /\ current_lsn' = current_lsn
      BY <1>2, <2>1 DEF AppendFails, s
    <2>5. (LsnWithinOffset /\ LsnMonotone /\ LsnBounded)'
      BY <2>3, <2>4, ExtendStep
    <2>6. file' \in Seq(Cell) /\ Len(file') >= Len(file) /\ Len(file') \in Nat
      BY <1>0, <2>3, <2>4
    <2> QED BY <1>0, <1>2, <2>5, <2>6, MaxAppendsAssumption
            DEF AppendFails, IInv, TypeOK
  <1>3. ASSUME Flush
        PROVE  IInv'
    <2>1. /\ UNCHANGED <<file, current_lsn, appends, acked>>
          /\ synced' \in 0..Len(file) /\ promised' \in SUBSET (1..appends)
      BY <1>3, DatasyncStep DEF Flush, IInv
    <2>2. TypeOK'
      BY <2>1 DEF IInv, TypeOK
    <2>3. (LsnWithinOffset /\ LsnMonotone /\ LsnBounded)'
      BY <2>1 DEF IInv, LsnWithinOffset, LsnMonotone, LsnBounded
    <2> QED BY <2>2, <2>3 DEF IInv
  <1>4. ASSUME Reopen \/ Kill
        PROVE  IInv'
    <2>1. Open(SubSeq(file, 1, Len(file)))
      BY <1>4, WholeFile DEF Reopen, Kill, IInv
    <2>2. /\ (LsnWithinOffset /\ LsnMonotone /\ LsnBounded)'
          /\ file' \in Seq(Cell) /\ Len(file') = Len(file) /\ current_lsn' = Len(file)
      BY <1>0, <2>1, OpenStep
    <2>3. synced' \in 0..Len(file) /\ acked' = acked /\ appends' = appends
          /\ promised' \in SUBSET (1..appends)
      <3>1. CASE Reopen
        BY <3>1, DatasyncStep DEF Reopen, IInv
      <3>2. CASE Kill
        BY <1>0, <3>2 DEF Kill
      <3> QED BY <1>4, <3>1, <3>2
    <2> QED BY <1>0, <2>2, <2>3, MaxAppendsAssumption DEF IInv, TypeOK
  <1>5. ASSUME PowerLoss
        PROVE  IInv'
    <2>1. PICK k \in synced..Len(file) :
            /\ Open(SubSeq(file, 1, k))
            /\ synced' = k
            /\ acked' \subseteq acked
            /\ UNCHANGED <<appends, promised>>
      BY <1>5 DEF PowerLoss
    <2>2. k \in 0..Len(file)
      BY <1>0
    <2>3. /\ (LsnWithinOffset /\ LsnMonotone /\ LsnBounded)'
          /\ file' \in Seq(Cell) /\ Len(file') = k /\ current_lsn' = k
      BY <2>1, <2>2, OpenStep
    <2>4. TypeOK'
      BY <1>0, <2>1, <2>2, <2>3, MaxAppendsAssumption DEF TypeOK
    <2> QED BY <2>3, <2>4 DEF IInv
  <1>6. ASSUME UNCHANGED vars
        PROVE  IInv'
    BY <1>6 DEF vars, IInv, TypeOK, LsnWithinOffset, LsnMonotone, LsnBounded
  <1> QED BY <1>1, <1>2, <1>3, <1>4, <1>5, <1>6 DEF Next

(* Every variable of the log stays in its domain. *)
THEOREM TypeCorrect == Spec => []TypeOK
  BY InitIInv, NextIInv, PTL DEF Spec, IInv

(* wal_init never hands out an LSN below one still in the file, and LSNs   *)
(* ascend along the file, whatever failed or was lost before.              *)
THEOREM LsnsAscend == Spec => [](LsnWithinOffset /\ LsnMonotone)
  BY InitIInv, NextIInv, PTL DEF Spec, IInv
-----------------------------------------------------------------------------
(* Cells carry the numbers of past calls, and an LSN that was acknowledged *)
(* is one the log has moved on to: a record half written is not bound so.  *)
Numbered == \A i \in 1..Len(file) : file[i].id \in 1..appends

AckedKnown == \A i \in 1..Len(file) : file[i].id \in acked => file[i].lsn <= current_lsn

NInv == IInv /\ Numbered /\ AckedKnown /\ LsnNamesRecord

(* Appending cells of one new call, acknowledged only with the LSN taken. *)
LEMMA ExtendNames ==
    ASSUME NInv, NEW s \in Seq(Cell),
           \A i \in 1..Len(s) : s[i].lsn = current_lsn + 1 /\ s[i].id = appends + 1,
           file' = file \o s, appends' = appends + 1,
           \/ current_lsn' = current_lsn + 1 /\ acked' = acked \cup {appends + 1}
           \/ current_lsn' = current_lsn /\ acked' = acked
    PROVE  (Numbered /\ AckedKnown /\ LsnNamesRecord)'
  <1>1. /\ file \in Seq(Cell) /\ Len(file) \in Nat /\ Len(s) \in Nat
        /\ current_lsn \in Nat /\ appends \in Nat /\ acked \in SUBSET (1..appends)
    BY MaxAppendsAssumption DEF NInv, IInv, TypeOK
  <1>2. /\ Len(file') = Len(file) + Len(s)
        /\ \A i \in 1..Len(file) : file'[i] = file[i]
        /\ \A i \in (Len(file) + 1)..(Len(file) + Len(s)) : file'[i] = s[i - Len(file)]
    BY <1>1
  <1>3. \A i \in (Len(file) + 1)..(Len(file) + Len(s)) :
          file'[i].lsn = current_lsn + 1 /\ file'[i].id = appends + 1
    <2> TAKE i \in (Len(file) + 1)..(Len(file) + Len(s))
    <2>1. i - Len(file) \in 1..Len(s)
      BY <1>1
    <2> QED BY <1>2, <2>1
  <1>4. \A i \in 1..Len(file) : /\ file[i].id \in 1..appends
                                /\ file[i].lsn \in Nat
                                /\ file[i].id \in acked => file[i].lsn <= current_lsn
    <2>1. \A i \in 1..Len(file) : file[i] \in Cell
      BY <1>1
    <2> QED BY <2>1 DEF NInv, Numbered, AckedKnown, Cell
  <1>5. appends + 1 \notin acked /\ acked' \subseteq acked \cup {appends + 1}
    BY <1>1
  <1>6. Numbered'
    BY <1>1, <1>2, <1>3, <1>4 DEF Numbered
  <1>7. \A i \in 1..Len(file) : file[i].id \in acked' => file[i].id \in acked
    BY <1>1, <1>4, <1>5
  <1>8. AckedKnown'
    <2> SUFFICES ASSUME NEW i \in 1..Len(file'), file'[i].id \in acked'
                 PROVE  file'[i].lsn <= current_lsn'
      BY DEF AckedKnown
    <2>1. CASE i <= Len(file)
      BY <1>1, <1>2, <1>4, <1>7, <2>1
    <2>2. CASE i > Len(file)
      BY <1>1, <1>2, <1>3, <1>5, <2>2
    <2> QED BY <1>1, <1>2, <2>1, <2>2
  <1>9. LsnNamesRecord'
    <2> SUFFICES ASSUME NEW i \in 1..Len(file'), NEW j \in 1..Len(file'),
                        file'[i].id \in acked', file'[j].id \in acked',
                        file'[i].lsn = file'[j].lsn
                 PROVE  file'[i].id = file'[j].id
      BY DEF LsnNamesRecord
    <2>1. CASE i <= Len(file) /\ j <= Len(file)
      <3>1. i \in 1..Len(file) /\ j \in 1..Len(file)
        BY <1>1, <1>2, <2>1
      <3> QED BY <1>2, <1>7, <3>1 DEF NInv, LsnNamesRecord
    <2>2. CASE i > Len(file) /\ j > Len(file)
      BY <1>1, <1>2, <1>3, <2>2
    <2>3. CASE i <= Len(file) /\ j > Len(file)
      BY <1>1, <1>2, <1>3, <1>4, <1>7, <2>3
    <2>4. CASE i > Len(file) /\ j <= Len(file)
      BY <1>1, <1>2, <1>3, <1>4, <1>7, <2>4
    <2> QED BY <1>1, <1>2, <2>1, <2>2, <2>3, <2>4
  <1> QED BY <1>6, <1>8, <1>9

(* Every step keeps NInv. *)
LEMMA NextNInv ==
    ASSUME NInv, [Next]_vars
    PROVE  NInv'
  <1> DEFINE Named == Numbered /\ AckedKnown /\ LsnNamesRecord
  <1>0. /\ IInv' /\ file \in Seq(Cell) /\ Len(file) \in Nat
        /\ current_lsn \in Nat /\ appends \in Nat
    BY NextIInv, MaxAppendsAssumption DEF NInv, IInv, TypeOK
  <1>1. ASSUME NEW len \in PayloadSizes, AppendRecord(len)
        PROVE  Named'
    <2> DEFINE r == Record(appends + 1, current_lsn + 1, len)
    <2>1. /\ r \in Seq(Cell)
          /\ \A i \in 1..Len(r) : r[i].lsn = current_lsn + 1 /\ r[i].id = appends + 1
      <3>1. HeaderSize + len \in 0..(HeaderSize + len) /\ HeaderSize + len \in Nat
        BY HeaderSizeAssumption, PayloadSizesAssumption
      <3>2. Len(r) = HeaderSize + len
        BY <3>1 DEF Record
      <3>3. \A i \in 1..(HeaderSize + len) :
              r[i] \in Cell /\ r[i].lsn = current_lsn + 1 /\ r[i].id = appends + 1
        BY <1>0, PayloadSizesAssumption DEF Record, Cell
      <3>4. r \in Seq(Cell)
        BY <3>1, <3>3 DEF Record
      <3> QED BY <3>2, <3>3, <3>4
    <2>2. /\ file' = file \o r /\ current_lsn' = current_lsn + 1
          /\ appends' = appends + 1 /\ acked' = acked \cup {appends + 1}
      BY <1>1 DEF AppendRecord
    <2> HIDE DEF r
    <2> QED BY <2>1, <2>2, ExtendNames
  <1>2. ASSUME NEW len \in PayloadSizes, AppendFails(len)
        PROVE  Named'
    <2>1. PICK k \in 0..(HeaderSize + len - 1) :
            file' = file \o SubSeq(Record(appends + 1, current_lsn + 1, len), 1, k)
      BY <1>2 DEF AppendFails
    <2> DEFINE s == SubSeq(Record(appends + 1, current_lsn + 1, len), 1, k)
    <2>2. k \in 0..(HeaderSize + len) /\ appends + 1 \in Nat /\ current_lsn + 1 \in Nat
      BY <1>0, HeaderSizeAssumption, PayloadSizesAssumption
    <2>3. /\ s \in Seq(Cell)
          /\ \A i \in 1..Len(s) : s[i].lsn = current_lsn + 1 /\ s[i].id = appends + 1
      BY <2>2, RecordPrefix
    <2> HIDE DEF s
    <2>4. /\ file' = file \o s /\ current_lsn' = current_lsn
          /\ appends' = appends + 1 /\ acked' = acked
      BY <1>2, <2>1 DEF AppendFails, s
    <2> QED BY <2>3, <2>4, ExtendNames
  <1>3. ASSUME NEW k \in 0..Len(file), Open(SubSeq(file, 1, k)),
               acked' \subseteq acked, appends' = appends
        PROVE  Named'
    <2>1. IInv /\ k \in Nat
      BY <1>0, <1>3 DEF NInv
    <2>2. /\ Len(file') = k /\ current_lsn' = k /\ LsnWithinOffset'
          /\ \A i \in 1..k : file'[i] = file[i] /\ i \in 1..Len(file)
      BY <1>0, <1>3, <2>1, OpenStep
    <2>3. Numbered'
      BY <1>3, <2>2 DEF Numbered, NInv
    <2>4. \A i \in 1..k : file'[i].lsn \in Nat /\ file'[i].lsn <= i
      <3>1. \A i \in 1..Len(file) : file[i] \in Cell
        BY <1>0
      <3> QED BY <2>2, <3>1 DEF LsnWithinOffset, Cell
    <2>5. AckedKnown'
      BY <2>1, <2>2, <2>4 DEF AckedKnown
    <2>6. LsnNamesRecord'
      <3> SUFFICES ASSUME NEW i \in 1..k, NEW j \in 1..k,
                          file'[i].id \in acked', file'[j].id \in acked',
                          file'[i].lsn = file'[j].lsn
                   PROVE  file'[i].id = file'[j].id
        BY <2>2 DEF LsnNamesRecord
      <3>1. /\ i \in 1..Len(file) /\ j \in 1..Len(file)
            /\ file'[i] = file[i] /\ file'[j] = file[j]
        BY <2>2
      <3> QED BY <1>3, <3>1 DEF LsnNamesRecord, NInv
    <2> QED BY <2>3, <2>5, <2>6
  <1>4. ASSUME Reopen \/ Kill
        PROVE  Named'
    <2>1. /\ Open(SubSeq(file, 1, Len(file))) /\ Len(file) \in 0..Len(file)
          /\ acked' = acked /\ appends' = appends
      BY <1>4, WholeFile DEF Reopen, Kill, NInv, IInv
    <2> QED BY <1>3, <2>1
  <1>5. ASSUME PowerLoss
        PROVE  Named'
    <2>1. PICK k \in synced..Len(file) : Open(SubSeq(file, 1, k)) /\ acked' \subseteq acked
      BY <1>5 DEF PowerLoss
    <2>2. k \in 0..Len(file) /\ appends' = appends
      BY <1>0, <1>5 DEF NInv, IInv, TypeOK, PowerLoss
    <2> QED BY <1>3, <2>1, <2>2
  <1>6. ASSUME Flush \/ UNCHANGED vars
        PROVE  Named'
    <2>1. UNCHANGED <<file, current_lsn, appends, acked>>
      BY <1>6 DEF Flush, vars
    <2> QED BY <2>1 DEF NInv, Numbered, AckedKnown, LsnNamesRecord
  <1>7. Named'
    BY <1>1, <1>2, <1>4, <1>5, <1>6 DEF Next
  <1> QED BY <1>0, <1>7 DEF NInv

(* An LSN is acknowledged for one record only, across any number of failed *)
(* appends, kills, power losses and reopens.                               *)
THEOREM LsnsNameRecords == Spec => []LsnNamesRecord
  <1>1. Init => NInv
    BY InitIInv DEF Init, NInv, Numbered, AckedKnown, LsnNamesRecord
  <1>2. NInv /\ [Next]_vars => NInv'
    BY NextNInv
  <1>3. NInv => LsnNamesRecord
    BY DEF NInv
  <1> QED BY <1>1, <1>2, <1>3, PTL DEF Spec
-----------------------------------------------------------------------------
NextRecord(i) == i + HeaderSize + file[i].len

(* Where the walk of wal_replay_recovery ends, and with what. *)
Ends(i) == \/ i > Len(file)
           \/ ~HeaderAt(i)
           \/ NextRecord(i) > Len(file) + 1
           \/ ~PayloadAt(i)
EndsWith(i) == IF i > Len(file) THEN <<>>
               ELSE IF ~HeaderAt(i) THEN <<Garbage>>
               ELSE IF NextRecord(i) > Len(file) + 1 THEN <<>>
               ELSE <<Garbage>>

(* What Replay finds from every cell of the file. *)
Walk(from) == \A i \in 1..(Len(file) + 1) :
    /\ from[i] \in Seq(Nat)
    /\ from[i] = IF Ends(i) THEN EndsWith(i) ELSE <<file[i].id>> \o from[NextRecord(i)]

(* The recursion of Replay has a solution, and what it delivers from any   *)
(* cell is a sequence of numbers of calls.                                 *)
LEMMA ReplayWalk ==
    ASSUME TypeOK
    PROVE  \E from : Replay = from[1] /\ Walk(from)
<1> DEFINE N == Len(file) + 1
           F(g) == [i \in 1..N |->
                     IF i > Len(file) THEN <<>>
                     ELSE IF ~HeaderAt(i) THEN <<Garbage>>
                     ELSE LET next == i + HeaderSize + file[i].len IN
                          IF next > Len(file) + 1 THEN <<>>
                          ELSE IF ~PayloadAt(i) THEN <<Garbage>>
                          ELSE <<file[i].id>> \o g[next]]
           from == CHOOSE g : g = F(g)
<1>1. Replay = from[1]
  BY DEF Replay
<1> DEFINE stops == {i \in 1..N : Ends(i)}
           next == [i \in 1..N |-> NextRecord(i)]
           base == [i \in 1..N |-> EndsWith(i)]
           pre  == [i \in 1..N |-> <<file[i].id>>]
           W(g) == [i \in 1..N |-> IF i \in stops THEN base[i] ELSE pre[i] \o g[next[i]]]
<1>2. /\ Len(file) \in Nat /\ N \in Nat /\ 1 \in 1..N
      /\ \A i \in 1..Len(file) : /\ file[i].id \in Nat
                                 /\ NextRecord(i) \in Nat /\ NextRecord(i) > i
  <2>1. Len(file) \in Nat /\ \A i \in 1..Len(file) : file[i] \in Cell
    BY DEF TypeOK
  <2> QED BY <2>1, HeaderSizeAssumption DEF Cell, NextRecord
<1>3. GoesOn(N, stops, next)
  <2>1. \A i \in 1..N \ stops : i \in 1..Len(file) /\ NextRecord(i) <= N
    BY <1>2 DEF Ends
  <2> QED BY <1>2, <2>1 DEF GoesOn
<1>4. ASSUME NEW g PROVE F(g) = W(g)
  <2>1. \A i \in 1..N :
          (IF i > Len(file) THEN <<>>
           ELSE IF ~HeaderAt(i) THEN <<Garbage>>
           ELSE LET after == i + HeaderSize + file[i].len IN
                IF after > Len(file) + 1 THEN <<>>
                ELSE IF ~PayloadAt(i) THEN <<Garbage>>
                ELSE <<file[i].id>> \o g[after])
          = IF Ends(i) THEN EndsWith(i) ELSE <<file[i].id>> \o g[NextRecord(i)]
    <3> TAKE i \in 1..N
    <3> QED BY Zenon DEF Ends, EndsWith, NextRecord
  <2>2. \A i \in 1..N :
          (IF i \in stops THEN base[i] ELSE pre[i] \o g[next[i]])
          = IF Ends(i) THEN EndsWith(i) ELSE <<file[i].id>> \o g[NextRecord(i)]
    <3> TAKE i \in 1..N
    <3>1. /\ base[i] = EndsWith(i) /\ pre[i] = <<file[i].id>>
          /\ next[i] = NextRecord(i) /\ (i \in stops <=> Ends(i))
      OBVIOUS
    <3> HIDE DEF base, pre, next, stops
    <3> QED BY <3>1, Zenon
  <2> HIDE DEF base, pre, next, stops, N
  <2> QED BY <2>1, <2>2, Zenon
<1>5. \A i \in 1..N : IF i \in stops THEN base[i] \in Seq(Nat) ELSE pre[i] \in Seq(Nat)
  <2> TAKE i \in 1..N
  <2>1. EndsWith(i) \in Seq(Nat)
    <3>1. <<>> \in Seq(Nat) /\ <<Garbage>> \in Seq(Nat)
      BY DEF Garbage
    <3> QED BY <3>1 DEF EndsWith
  <2>2. i \notin stops => i \in 1..Len(file)
    BY <1>2 DEF Ends
  <2>3. i \in 1..Len(file) => <<file[i].id>> \in Seq(Nat)
    BY <1>2
  <2>4. base[i] = EndsWith(i) /\ pre[i] = <<file[i].id>>
    OBVIOUS
  <2> HIDE DEF base, pre, stops
  <2> QED BY <2>1, <2>2, <2>3, <2>4
<1> HIDE DEF base, pre, next, stops
<1>6. \E g : g = W(g)
  <2>1. \E g : Collects(N, stops, next, base, pre, g)
    <3> HIDE DEF N
    <3> QED BY <1>2, <1>3, WalkExists
  <2> QED BY <2>1 DEF Collects
<1>7. from = F(from)
  <2> HIDE DEF F, W
  <2>1. \E g : g = F(g)
    BY <1>4, <1>6, Zenon
  <2> QED BY <2>1, Zenon
<1>8. from = W(from)
  BY <1>4, <1>7, Zenon
<1> HIDE DEF F, from
<1>9. \A i \in 1..N : from[i] = IF i \in stops THEN base[i] ELSE pre[i] \o from[next[i]]
  BY <1>8
<1>10. \A i \in 1..N : from[i] \in Seq(Nat)
  <2>2. Collects(N, stops, next, base, pre, from)
    BY <1>8 DEF Collects
  <2> HIDE DEF N
  <2> QED BY <1>2, <1>3, <1>5, <2>2, WalkTyped
<1>11. \A i \in 1..N : from[i] = IF Ends(i) THEN EndsWith(i)
                                ELSE <<file[i].id>> \o from[NextRecord(i)]
  <2> TAKE i \in 1..N
  <2>1. /\ base[i] = EndsWith(i) /\ pre[i] = <<file[i].id>>
        /\ next[i] = NextRecord(i) /\ (i \in stops <=> Ends(i))
    BY DEF base, pre, next, stops
  <2> QED BY <1>9, <2>1, Zenon
<1> QED BY <1>1, <1>10, <1>11 DEF N, Walk

(* Before every cell lies the rest of its record, back to its first part. *)
Contiguous == \A i \in 1..Len(file) :
    /\ file[i].part \in 1..i
    /\ file[i].part <= HeaderSize + file[i].len
    /\ \A p \in 1..file[i].part : /\ file[i - file[i].part + p].id = file[i].id
                                  /\ file[i - file[i].part + p].len = file[i].len
                                  /\ file[i - file[i].part + p].part = p

(* Records lie in the order of the calls, each call's in one place. *)
InCallOrder == \A i, j \in 1..Len(file) : i < j =>
    /\ file[i].id <= file[j].id
    /\ file[i].id = file[j].id => j - i = file[j].part - file[i].part

(* The calls that returned an LSN are those whose record is complete. *)
RecordEnd(i) == file[i].part = HeaderSize + file[i].len

CompleteIsAcked == \A i \in 1..Len(file) : RecordEnd(i) => file[i].id \in acked
AckedIsComplete == \A id \in acked : \E i \in 1..Len(file) : RecordEnd(i) /\ file[i].id = id

Records == Contiguous /\ InCallOrder /\ CompleteIsAcked /\ AckedIsComplete

(* Appending the first cells of one new record, all of them if the call    *)
(* succeeds.                                                               *)
LEMMA ExtendRecords ==
    ASSUME NInv, Records, NEW len \in Nat, NEW s \in Seq(Cell),
           \A i \in 1..Len(s) : s[i].id = appends + 1 /\ s[i].part = i /\ s[i].len = len,
           file' = file \o s,
           \/ Len(s) = HeaderSize + len /\ acked' = acked \cup {appends + 1}
           \/ Len(s) < HeaderSize + len /\ acked' = acked
    PROVE  Records'
  <1> DEFINE L == Len(file)
  <1>1. /\ file \in Seq(Cell) /\ L \in Nat /\ Len(s) \in Nat /\ HeaderSize \in Nat \ {0}
        /\ current_lsn \in Nat /\ appends \in Nat /\ acked \in SUBSET (1..appends)
    BY MaxAppendsAssumption, HeaderSizeAssumption DEF NInv, IInv, TypeOK
  <1>2. /\ Len(file') = L + Len(s)
        /\ \A i \in 1..L : file'[i] = file[i]
        /\ \A i \in 1..Len(s) : file'[L + i] = s[i]
    BY <1>1
  <1>3. \A i \in 1..L : file[i] \in Cell /\ file[i].id \in 1..appends
    BY <1>1 DEF NInv, Numbered
  <1>4. \A i \in 1..Len(file') : i \notin 1..L => i - L \in 1..Len(s)
    BY <1>1, <1>2
  <1>5. \A i \in 1..Len(file') : i \notin 1..L =>
          /\ file'[i].id = appends + 1 /\ file'[i].part = i - L /\ file'[i].len = len
          /\ i - L \in 1..Len(s)
    <2> TAKE i \in 1..Len(file')
    <2> HAVE i \notin 1..L
    <2>1. i - L \in 1..Len(s) /\ L + (i - L) = i
      BY <1>1, <1>4
    <2>2. file'[i] = s[i - L]
      BY <1>2, <2>1
    <2> QED BY <2>1, <2>2
  <1>6. Contiguous'
    <2>1. ASSUME NEW i \in 1..L
          PROVE  /\ file'[i] = file[i] /\ file[i].part \in 1..i
                 /\ file[i].part <= HeaderSize + file[i].len
                 /\ \A p \in 1..file[i].part :
                      /\ file'[i - file[i].part + p] = file[i - file[i].part + p]
                      /\ file[i - file[i].part + p].id = file[i].id
                      /\ file[i - file[i].part + p].len = file[i].len
                      /\ file[i - file[i].part + p].part = p
      <3>1. file'[i] = file[i] /\ file[i].part \in 1..i
            /\ file[i].part <= HeaderSize + file[i].len
        BY <1>2 DEF Records, Contiguous
      <3>2. \A p \in 1..file[i].part : i - file[i].part + p \in 1..L
        BY <1>1, <3>1
      <3> QED BY <1>2, <3>1, <3>2 DEF Records, Contiguous
    <2>2. ASSUME NEW i \in 1..Len(file'), i \notin 1..L
          PROVE  /\ file'[i].part \in 1..i
                 /\ file'[i].part <= HeaderSize + file'[i].len
                 /\ \A p \in 1..file'[i].part :
                      /\ file'[i - file'[i].part + p].id = file'[i].id
                      /\ file'[i - file'[i].part + p].len = file'[i].len
                      /\ file'[i - file'[i].part + p].part = p
      <3>1. /\ i - L \in 1..Len(s) /\ file'[i].part = i - L
            /\ file'[i].len = len /\ file'[i].id = appends + 1
        BY <1>5, <2>2
      <3>2. i - L \in 1..i /\ i - L <= HeaderSize + len
        BY <1>1, <3>1
      <3>3. ASSUME NEW p \in 1..(i - L)
            PROVE  /\ i - (i - L) + p = L + p
                   /\ file'[L + p].id = appends + 1 /\ file'[L + p].len = len
                   /\ file'[L + p].part = p
        <4>1. i - (i - L) + p = L + p /\ p \in 1..Len(s)
          BY <1>1, <3>1
        <4>2. file'[L + p] = s[p]
          BY <1>2, <4>1
        <4> QED BY <4>1, <4>2
      <3> QED BY <3>1, <3>2, <3>3
    <2>3. ASSUME NEW i \in 1..Len(file')
          PROVE  /\ file'[i].part \in 1..i
                 /\ file'[i].part <= HeaderSize + file'[i].len
                 /\ \A p \in 1..file'[i].part :
                      /\ file'[i - file'[i].part + p].id = file'[i].id
                      /\ file'[i - file'[i].part + p].len = file'[i].len
                      /\ file'[i - file'[i].part + p].part = p
      <3>1. CASE i \in 1..L
        BY <2>1, <3>1
      <3>2. CASE i \notin 1..L
        BY <2>2, <3>2
      <3> QED BY <3>1, <3>2
    <2> QED BY <2>3 DEF Contiguous
  <1>7. InCallOrder'
    <2> SUFFICES ASSUME NEW i \in 1..Len(file'), NEW j \in 1..Len(file'), i < j
                 PROVE  /\ file'[i].id <= file'[j].id
                        /\ file'[i].id = file'[j].id => j - i = file'[j].part - file'[i].part
      BY DEF InCallOrder
    <2>1. CASE i \in 1..L /\ j \in 1..L
      BY <1>2, <2>1 DEF Records, InCallOrder
    <2>2. CASE i \in 1..L /\ j \notin 1..L
      BY <1>1, <1>2, <1>3, <1>5, <2>2
    <2>3. CASE i \notin 1..L /\ j \notin 1..L
      BY <1>1, <1>5, <2>3
    <2>4. CASE i \notin 1..L /\ j \in 1..L
      BY <1>1, <2>4
    <2> QED BY <2>1, <2>2, <2>3, <2>4
  <1>8. \A i \in 1..L : i \in 1..Len(file') /\ (RecordEnd(i)' <=> RecordEnd(i))
    BY <1>1, <1>2 DEF RecordEnd
  <1>9. \A i \in 1..Len(file') : i \notin 1..L /\ RecordEnd(i)' =>
          Len(s) = HeaderSize + len /\ file'[i].id = appends + 1
    BY <1>1, <1>5 DEF RecordEnd
  <1>10. CompleteIsAcked'
    <2> SUFFICES ASSUME NEW i \in 1..Len(file'), RecordEnd(i)'
                 PROVE  file'[i].id \in acked'
      BY DEF CompleteIsAcked
    <2>1. CASE i \in 1..L
      BY <1>2, <1>8, <2>1 DEF Records, CompleteIsAcked
    <2>2. CASE i \notin 1..L
      BY <1>1, <1>9, <2>2
    <2> QED BY <2>1, <2>2
  <1>11. AckedIsComplete'
    <2> SUFFICES ASSUME NEW id \in acked'
                 PROVE  \E i \in 1..Len(file') : RecordEnd(i)' /\ file'[i].id = id
      BY DEF AckedIsComplete
    <2>1. CASE id \in acked
      <3>1. PICK i \in 1..L : RecordEnd(i) /\ file[i].id = id
        BY <2>1 DEF Records, AckedIsComplete
      <3> QED BY <1>2, <1>8, <3>1
    <2>2. CASE id \notin acked
      <3>1. Len(s) = HeaderSize + len /\ id = appends + 1
        BY <1>1, <2>2
      <3>2. L + Len(s) \in 1..Len(file') /\ L + Len(s) \notin 1..L
        BY <1>1, <1>2, <3>1
      <3>3. file'[L + Len(s)].part = HeaderSize + len /\ file'[L + Len(s)].len = len
            /\ file'[L + Len(s)].id = id
        BY <1>1, <1>5, <3>1, <3>2
      <3> QED BY <3>2, <3>3 DEF RecordEnd
    <2> QED BY <2>1, <2>2
  <1> QED BY <1>6, <1>7, <1>10, <1>11 DEF Records

(* What a stop leaves of the file keeps every record that is still         *)
(* counted as acknowledged, and no other one whole.                        *)
LEMMA CutRecords ==
    ASSUME NInv, Records, NEW k \in 0..Len(file), Open(SubSeq(file, 1, k)),
           acked' = {id \in acked : \A i \in 1..Len(file) : file[i].id = id => i <= k}
    PROVE  Records'
  <1>1. /\ Len(file) \in Nat /\ k \in Nat /\ HeaderSize \in Nat
        /\ \A i \in 1..Len(file) : file[i] \in Cell
    BY HeaderSizeAssumption DEF NInv, IInv, TypeOK
  <1>2. /\ Len(file') = k
        /\ \A i \in 1..k : i \in 1..Len(file) /\ file'[i] = file[i]
                           /\ (RecordEnd(i)' <=> RecordEnd(i))
    BY <1>1, OpenStep DEF NInv, RecordEnd
  <1>3. Contiguous'
    <2>1. ASSUME NEW i \in 1..k
          PROVE  /\ file'[i].part \in 1..i
                 /\ file'[i].part <= HeaderSize + file'[i].len
                 /\ \A p \in 1..file'[i].part :
                      /\ file'[i - file'[i].part + p].id = file'[i].id
                      /\ file'[i - file'[i].part + p].len = file'[i].len
                      /\ file'[i - file'[i].part + p].part = p
      <3>1. /\ i \in 1..Len(file) /\ file'[i] = file[i] /\ file[i].part \in 1..i
            /\ file[i].part <= HeaderSize + file[i].len
        BY <1>2 DEF Records, Contiguous
      <3>2. \A p \in 1..file[i].part : i - file[i].part + p \in 1..k
        BY <1>1, <3>1
      <3>3. \A p \in 1..file[i].part :
              file'[i - file[i].part + p] = file[i - file[i].part + p]
        BY <1>2, <3>2
      <3>4. \A p \in 1..file[i].part : /\ file[i - file[i].part + p].id = file[i].id
                                       /\ file[i - file[i].part + p].len = file[i].len
                                       /\ file[i - file[i].part + p].part = p
        BY <3>1 DEF Records, Contiguous
      <3>5. \A p \in 1..file[i].part : /\ file'[i - file[i].part + p].id = file[i].id
                                       /\ file'[i - file[i].part + p].len = file[i].len
                                       /\ file'[i - file[i].part + p].part = p
        BY <3>3, <3>4, Zenon
      <3> QED BY <3>1, <3>5, Zenon
    <2> QED BY <1>2, <2>1 DEF Contiguous
  <1>4. InCallOrder'
    BY <1>2 DEF Records, InCallOrder
  <1>5. CompleteIsAcked'
    <2> SUFFICES ASSUME NEW i \in 1..k, RecordEnd(i)
                 PROVE  file[i].id \in acked'
      BY <1>2 DEF CompleteIsAcked
    <2>1. i \in 1..Len(file) /\ file[i].id \in acked
      BY <1>2 DEF Records, CompleteIsAcked
    <2>2. ASSUME NEW j \in 1..Len(file), file[j].id = file[i].id, j > k
          PROVE  FALSE
      <3>1. j > i /\ j - i = file[j].part - file[i].part
        BY <1>1, <2>1, <2>2 DEF Records, InCallOrder
      <3>2. /\ file[j].part \in Nat /\ file[i].part \in 1..file[j].part
            /\ j - file[j].part + file[i].part = i
        <4>1. i \in Nat /\ j \in Nat /\ file[j].part \in 1..j /\ file[i].part \in 1..i
          BY <2>1 DEF Records, Contiguous
        <4> QED BY <3>1, <4>1
      <3>3. file[i].len = file[j].len /\ file[j].part <= HeaderSize + file[j].len
        <4>1. \A p \in 1..file[j].part : file[j - file[j].part + p].len = file[j].len
          BY DEF Records, Contiguous
        <4>2. file[j - file[j].part + file[i].part].len = file[j].len
          BY <3>2, <4>1
        <4> QED BY <3>2, <4>2 DEF Records, Contiguous
      <3>4. file[i].len \in Nat
        BY <1>1, <2>1 DEF Cell
      <3> QED BY <1>1, <3>1, <3>2, <3>3, <3>4 DEF RecordEnd
    <2>3. \A j \in 1..Len(file) : file[j].id = file[i].id => j <= k
      BY <1>1, <2>2
    <2> QED BY <2>1, <2>3
  <1>6. AckedIsComplete'
    <2> SUFFICES ASSUME NEW id \in acked'
                 PROVE  \E i \in 1..k : RecordEnd(i) /\ file[i].id = id
      BY <1>2 DEF AckedIsComplete
    <2>1. PICK i \in 1..Len(file) : RecordEnd(i) /\ file[i].id = id
      BY DEF Records, AckedIsComplete
    <2> QED BY <1>1, <2>1
  <1> QED BY <1>3, <1>4, <1>5, <1>6 DEF Records

(* Every step keeps Records: a call appends the parts of one record in     *)
(* order, and a failure cuts at the end.                                   *)
LEMMA NextRecords ==
    ASSUME NInv, Records, [Next]_vars
    PROVE  Records'
  <1>0. /\ file \in Seq(Cell) /\ Len(file) \in Nat /\ HeaderSize \in Nat \ {0}
        /\ current_lsn \in Nat /\ appends \in Nat /\ acked \in SUBSET (1..appends)
    BY MaxAppendsAssumption, HeaderSizeAssumption DEF NInv, IInv, TypeOK
  <1>1. ASSUME NEW len \in PayloadSizes, NEW k \in 0..(HeaderSize + len),
               file' = file \o SubSeq(Record(appends + 1, current_lsn + 1, len), 1, k),
               \/ k = HeaderSize + len /\ acked' = acked \cup {appends + 1}
               \/ k < HeaderSize + len /\ acked' = acked
        PROVE  Records'
    <2> DEFINE s == SubSeq(Record(appends + 1, current_lsn + 1, len), 1, k)
    <2>1. len \in Nat /\ appends + 1 \in Nat /\ current_lsn + 1 \in Nat
      BY <1>0, PayloadSizesAssumption
    <2>2. /\ s \in Seq(Cell) /\ Len(s) = k
          /\ \A i \in 1..Len(s) : s[i].id = appends + 1 /\ s[i].part = i /\ s[i].len = len
      BY <2>1, RecordPrefix
    <2>3. file' = file \o s
      BY <1>1
    <2> HIDE DEF s
    <2> QED BY <1>1, <2>1, <2>2, <2>3, ExtendRecords
  <1>2. ASSUME NEW len \in PayloadSizes, AppendRecord(len)
        PROVE  Records'
    <2> DEFINE r == Record(appends + 1, current_lsn + 1, len)
    <2>1. /\ HeaderSize + len \in 0..(HeaderSize + len) /\ Len(r) = HeaderSize + len
          /\ SubSeq(r, 1, Len(r)) = r
      <3>1. len \in Nat /\ HeaderSize + len \in Nat
        BY <1>0, PayloadSizesAssumption
      <3>2. /\ r \in Seq(Cell) /\ Len(r) = HeaderSize + len
        <4>1. r \in [1..(HeaderSize + len) -> Cell]
          BY <1>0, <3>1 DEF Record, Cell
        <4> HIDE DEF r
        <4> QED BY <3>1, <4>1
      <3> HIDE DEF r
      <3> QED BY <3>1, <3>2
    <2>2. file' = file \o r /\ acked' = acked \cup {appends + 1}
      BY <1>2 DEF AppendRecord
    <2> QED BY <1>1, <2>1, <2>2
  <1>3. ASSUME NEW len \in PayloadSizes, AppendFails(len)
        PROVE  Records'
    <2>1. PICK k \in 0..(HeaderSize + len - 1) :
            file' = file \o SubSeq(Record(appends + 1, current_lsn + 1, len), 1, k)
      BY <1>3 DEF AppendFails
    <2>2. k \in 0..(HeaderSize + len) /\ k < HeaderSize + len /\ acked' = acked
      BY <1>0, <1>3, PayloadSizesAssumption DEF AppendFails
    <2> QED BY <1>1, <2>1, <2>2
  <1>4. ASSUME Reopen \/ Kill
        PROVE  Records'
    <2>1. /\ Open(SubSeq(file, 1, Len(file))) /\ Len(file) \in 0..Len(file)
          /\ acked' = acked
      BY <1>4, WholeFile DEF Reopen, Kill, NInv, IInv
    <2>2. acked' = {id \in acked : \A i \in 1..Len(file) : file[i].id = id => i <= Len(file)}
      BY <1>0, <2>1
    <2> QED BY <2>1, <2>2, CutRecords
  <1>5. ASSUME PowerLoss
        PROVE  Records'
    <2>1. PICK k \in synced..Len(file) :
            /\ Open(SubSeq(file, 1, k))
            /\ acked' = {id \in acked : \A i \in 1..Len(file) : file[i].id = id => i <= k}
      BY <1>5 DEF PowerLoss
    <2>2. k \in 0..Len(file)
      BY <1>0 DEF NInv, IInv, TypeOK
    <2> QED BY <2>1, <2>2, CutRecords
  <1>6. ASSUME Flush \/ UNCHANGED vars
        PROVE  Records'
    <2>1. UNCHANGED <<file, acked>>
      BY <1>6 DEF Flush, vars
    <2>2. Contiguous' /\ InCallOrder'
      BY <2>1 DEF Records, Contiguous, InCallOrder
    <2>3. CompleteIsAcked' /\ AckedIsComplete'
      BY <2>1 DEF Records, CompleteIsAcked, AckedIsComplete, RecordEnd
    <2> QED BY <2>2, <2>3 DEF Records
  <1> QED BY <1>2, <1>3, <1>4, <1>5, <1>6 DEF Next

(* The types of the numbers in a cell. *)
LEMMA CellFacts ==
    ASSUME NInv
    PROVE  /\ Len(file) \in Nat /\ HeaderSize \in Nat /\ HeaderSize # 0
           /\ \A i \in 1..Len(file) :
                file[i].id \in Nat /\ file[i].len \in Nat /\ file[i].part \in Nat
  <1>1. Len(file) \in Nat /\ \A i \in 1..Len(file) : file[i] \in Cell
    BY DEF NInv, IInv, TypeOK
  <1> QED BY <1>1, HeaderSizeAssumption DEF Cell

(* In an intact prefix that ends with a record, a first part begins a      *)
(* whole record, and the next record begins behind it.                     *)
LEMMA WholeRecord ==
    ASSUME NInv, Records, NEW n \in 1..Len(file), Intact(n), RecordEnd(n),
           NEW s \in 1..n, file[s].part = 1
    PROVE  \E e \in s..n :
             /\ RecordEnd(e) /\ e = s + HeaderSize + file[s].len - 1
             /\ \A i \in s..e : /\ file[i].id = file[s].id /\ file[i].len = file[s].len
                                /\ file[i].part = 1 + i - s
             /\ e # n => file[e + 1].part = 1 /\ file[e + 1].id > file[s].id
  <1>1. /\ Len(file) \in Nat /\ HeaderSize \in Nat /\ HeaderSize # 0
        /\ n \in Nat /\ s \in Nat /\ s \in 1..Len(file)
        /\ \A i \in 1..Len(file) :
             file[i].id \in Nat /\ file[i].len \in Nat /\ file[i].part \in Nat
    BY CellFacts
  <1>2. \A i \in 1..n : i \in 1..Len(file) /\ file[i].part \in 1..i
    BY <1>1 DEF Records, Contiguous
  <1> DEFINE S == {e \in s..n : RecordEnd(e)}
  <1>3. PICK e \in S : \A d \in S : e <= d
    <2>1. S \in SUBSET Nat /\ n \in S
      BY <1>1
    <2> HIDE DEF S
    <2> QED BY <2>1, LeastOne
  <1>4. e \in s..n /\ e \in 1..n /\ RecordEnd(e)
    BY <1>1
  <1> DEFINE b == e - file[e].part + 1
  <1>5. /\ b \in 1..e
        /\ \A i \in b..e : /\ file[i].id = file[e].id /\ file[i].len = file[e].len
                           /\ file[i].part = 1 + i - b
    <2>1. file[e].part \in 1..e
      BY <1>2, <1>4
    <2>2. b \in 1..e
      BY <1>4, <2>1
    <2>3. ASSUME NEW i \in b..e
          PROVE  /\ file[i].id = file[e].id /\ file[i].len = file[e].len
                 /\ file[i].part = 1 + i - b
      <3>1. 1 + i - b \in 1..file[e].part /\ e - file[e].part + (1 + i - b) = i
        BY <1>4, <2>1
      <3>2. e \in 1..Len(file)
        BY <1>2, <1>4
      <3> HIDE DEF b
      <3> QED BY <3>1, <3>2 DEF Records, Contiguous
    <2> QED BY <2>2, <2>3
  <1> HIDE DEF b
  <1>6. b = s
    <2>1. ~(b < s)
      <3> SUFFICES ASSUME b < s PROVE FALSE
        OBVIOUS
      <3>1. s \in b..e /\ 1 + s - b # 1
        BY <1>1, <1>4, <1>5
      <3> QED BY <1>5, <3>1
    <2>2. ~(b > s)
      <3> SUFFICES ASSUME b > s PROVE FALSE
        OBVIOUS
      <3>1. /\ b \in 1..n /\ b - 1 \in 1..n /\ b - 1 \in s..n /\ b # 1 /\ b - 1 < e
            /\ b \in Nat
        BY <1>1, <1>4, <1>5
      <3>2. file[b].part = 1
        BY <1>5, <3>1
      <3>3. file[b - 1].part \in 1..(b - 1)
        BY <1>2, <3>1
      <3>4. file[b - 1].part = HeaderSize + file[b - 1].len
        <4>1. file[b].part # file[b - 1].part + 1
          BY <3>2, <3>3
        <4> QED BY <3>1, <4>1 DEF Intact
      <3>5. b - 1 \in S
        BY <3>1, <3>4 DEF RecordEnd
      <3>6. e <= b - 1
        BY <1>3, <3>5
      <3> QED BY <1>4, <3>1, <3>6
    <2> QED BY <1>1, <1>5, <2>1, <2>2
  <1>7. e = s + HeaderSize + file[s].len - 1
    <2>1. e \in b..e /\ b \in b..e
      BY <1>4, <1>5
    <2>2. file[e].part = 1 + e - s /\ file[e].len = file[s].len
      BY <1>5, <1>6, <2>1
    <2>3. file[e].part = HeaderSize + file[s].len
      BY <1>4, <2>2 DEF RecordEnd
    <2>4. /\ e \in Nat /\ s \in Nat /\ file[s].len \in Nat /\ HeaderSize \in Nat
          /\ 1 + e - s = HeaderSize + file[s].len
      BY <1>1, <1>4, <2>2, <2>3
    <2> QED BY <2>4
  <1>8. ASSUME e # n
        PROVE  file[e + 1].part = 1 /\ file[e + 1].id > file[s].id
    <2>1. e + 1 \in 1..n /\ e + 1 # 1 /\ (e + 1) - 1 = e /\ e + 1 \in 1..Len(file)
          /\ e \in 1..Len(file) /\ e \in Nat
      BY <1>1, <1>4, <1>8
    <2>2. file[e].part = HeaderSize + file[e].len /\ file[e].len \in Nat
      BY <1>1, <1>4, <2>1 DEF RecordEnd
    <2>3. ~(file[e + 1].id = file[e].id /\ file[e + 1].part = file[e].part + 1)
      <3> SUFFICES ASSUME file[e + 1].id = file[e].id, file[e + 1].part = file[e].part + 1
                   PROVE  FALSE
        OBVIOUS
      <3>0. file[e + 1].part = file[e].part + 1
        OBVIOUS
      <3>1. file[e].part \in 1..file[e + 1].part
            /\ (e + 1) - file[e + 1].part + file[e].part = e
        <4>1. file[e].part \in Nat /\ file[e].part # 0
          BY <1>1, <2>2
        <4> QED BY <2>1, <3>0, <4>1
      <3>2. file[(e + 1) - file[e + 1].part + file[e].part].len = file[e + 1].len
            /\ file[e + 1].part <= HeaderSize + file[e + 1].len
        BY <2>1, <3>1 DEF Records, Contiguous
      <3>3. file[e].len = file[e + 1].len
        BY <3>1, <3>2
      <3> QED BY <1>1, <2>1, <2>2, <3>2, <3>3
    <2>4. file[e + 1].part = 1
      BY <2>1, <2>3 DEF Intact
    <2>5. file[e].id <= file[e + 1].id /\ file[e].id # file[e + 1].id
      <3>1. /\ file[e].id <= file[e + 1].id
            /\ file[e].id = file[e + 1].id => (e + 1) - e = file[e + 1].part - file[e].part
        <4>1. e \in 1..Len(file) /\ e + 1 \in 1..Len(file) /\ e < e + 1
          BY <2>1
        <4> QED BY <4>1 DEF Records, InCallOrder
      <3> QED BY <1>1, <2>1, <2>2, <2>4, <3>1
    <2>6. file[s].id = file[e].id
      BY <1>4, <1>5, <1>6
    <2> QED BY <1>1, <2>1, <2>4, <2>5, <2>6
  <1>9. \A i \in s..e : /\ file[i].id = file[s].id /\ file[i].len = file[s].len
                        /\ file[i].part = 1 + i - s
    <2>1. file[s].id = file[e].id /\ file[s].len = file[e].len
      BY <1>4, <1>5, <1>6
    <2> QED BY <1>5, <1>6, <2>1
  <1> QED BY <1>4, <1>7, <1>8, <1>9

(* Replay delivers such a record and goes on behind it. *)
LEMMA RecordDelivered ==
    ASSUME NInv, Records, NEW n \in 1..Len(file), Intact(n), RecordEnd(n),
           NEW s \in 1..n, file[s].part = 1
    PROVE  ~Ends(s) /\ NextRecord(s) \in (s + 1)..(n + 1)
  <1>1. PICK e \in s..n :
             /\ RecordEnd(e) /\ e = s + HeaderSize + file[s].len - 1
             /\ \A i \in s..e : /\ file[i].id = file[s].id /\ file[i].len = file[s].len
                                /\ file[i].part = 1 + i - s
    BY WholeRecord
  <1>2. /\ Len(file) \in Nat /\ HeaderSize \in Nat /\ HeaderSize # 0
        /\ n \in Nat /\ s \in Nat /\ s \in 1..Len(file) /\ file[s].len \in Nat
    BY CellFacts
  <1>3. NextRecord(s) = e + 1 /\ e \in Nat
    <2>1. e \in Nat /\ s + HeaderSize + file[s].len = e + 1
      BY <1>1, <1>2
    <2> QED BY <2>1 DEF NextRecord
  <1>4. HeaderAt(s)
    <2>1. \A i \in s..(s + HeaderSize - 1) : i \in s..e /\ 1 + i - s = 1 + i - s
      BY <1>1, <1>2
    <2> QED BY <1>1, <1>2, <2>1 DEF HeaderAt, PartsFrom
  <1>5. PayloadAt(s)
    <2>1. ASSUME NEW i \in 1..file[s].len
          PROVE  /\ s + HeaderSize + i - 1 \in s..e
                 /\ 1 + (s + HeaderSize + i - 1) - s = HeaderSize + i
      <3>1. i \in Nat /\ 1 <= i /\ i <= file[s].len
        BY <1>2
      <3>2. e = s + HeaderSize + file[s].len - 1
        BY <1>1
      <3> QED BY <1>2, <3>1, <3>2
    <2> QED BY <1>1, <2>1 DEF PayloadAt
  <1>6. s <= Len(file) /\ e + 1 <= Len(file) + 1 /\ e + 1 \in (s + 1)..(n + 1)
    <2>1. e \in Nat /\ s <= e /\ e <= n /\ n <= Len(file)
      BY <1>2
    <2> QED BY <1>2, <2>1
  <1>7. ~(s > Len(file)) /\ ~(e + 1 > Len(file) + 1)
    BY <1>2, <1>3, <1>6
  <1> QED BY <1>3, <1>4, <1>5, <1>6, <1>7 DEF Ends

(* The record from s to e, and what the walk finds behind it. *)
RecordThen(from, n, s, e) ==
    /\ RecordEnd(e)
    /\ \A i \in s..e : file[i].id = file[s].id /\ (RecordEnd(i) => i = e)
    /\ e # n => /\ e + 1 \in 1..n /\ e + 1 > s
                /\ file[e + 1].part = 1 /\ file[e + 1].id > file[s].id
    /\ from[e + 1] \in Seq(Nat)
    /\ Len(from[s]) = Len(from[e + 1]) + 1
    /\ from[s][1] = file[s].id
    /\ \A m \in 1..Len(from[e + 1]) : from[s][m + 1] = from[e + 1][m]
    /\ e = Len(file) => from[e + 1] = <<>>

(* From the first part of a record, in an intact prefix, the replay        *)
(* delivers this record and goes on behind it.                             *)
LEMMA WalkStep ==
    ASSUME NInv, Records, NEW n \in 1..Len(file), Intact(n), RecordEnd(n),
           NEW s \in 1..n, file[s].part = 1, NEW from, Walk(from)
    PROVE  \E e \in s..n : RecordThen(from, n, s, e)
  <1>1. PICK e \in s..n :
             /\ RecordEnd(e) /\ e = s + HeaderSize + file[s].len - 1
             /\ \A i \in s..e : /\ file[i].id = file[s].id /\ file[i].len = file[s].len
                                /\ file[i].part = 1 + i - s
             /\ e # n => file[e + 1].part = 1 /\ file[e + 1].id > file[s].id
    BY WholeRecord
  <1>2. /\ Len(file) \in Nat /\ HeaderSize \in Nat /\ n \in Nat /\ s \in Nat
        /\ s \in 1..Len(file) /\ file[s].len \in Nat /\ file[s].id \in Nat
        /\ e \in Nat /\ s <= e /\ e <= n /\ n <= Len(file)
    BY CellFacts
  <1>3. NextRecord(s) = e + 1
    BY <1>1, <1>2 DEF NextRecord
  <1>4. /\ s \in 1..(Len(file) + 1) /\ e + 1 \in 1..(Len(file) + 1)
    BY <1>2
  <1>5. from[s] = <<file[s].id>> \o from[e + 1]
    BY <1>3, <1>4, RecordDelivered DEF Walk
  <1>6. from[e + 1] \in Seq(Nat)
    BY <1>4 DEF Walk
  <1>7. /\ Len(from[s]) = Len(from[e + 1]) + 1
        /\ from[s][1] = file[s].id
        /\ \A m \in 1..Len(from[e + 1]) : from[s][m + 1] = from[e + 1][m]
    <2>1. PICK t \in Seq(Nat), x \in Nat : t = from[e + 1] /\ x = file[s].id
      BY <1>2, <1>6
    <2>2. from[s] = <<x>> \o t
      BY <1>5, <2>1
    <2>3. Len(<<x>> \o t) = Len(t) + 1 /\ (<<x>> \o t)[1] = x
          /\ \A m \in 1..Len(t) : (<<x>> \o t)[m + 1] = t[m]
      OBVIOUS
    <2> QED BY <2>1, <2>2, <2>3
  <1>8. \A i \in s..e : RecordEnd(i) => i = e
    <2> TAKE i \in s..e
    <2>0. i \in Nat
      BY <1>2
    <2>1. file[i].len = file[s].len /\ file[i].part = 1 + i - s
      BY <1>1
    <2>2. RecordEnd(i) => 1 + i - s = HeaderSize + file[s].len
      BY <2>1 DEF RecordEnd
    <2>3. e = s + HeaderSize + file[s].len - 1
      BY <1>1
    <2>4. \A a, b, c, d, h \in Nat : a = b + h + c - 1 /\ 1 + d - b = h + c => d = a
      OBVIOUS
    <2> QED BY <1>2, <2>0, <2>2, <2>3, <2>4
  <1>9. e # n => e + 1 \in 1..n /\ e + 1 > s
    BY <1>2
  <1>10. e = Len(file) => from[e + 1] = <<>>
    <2>1. e = Len(file) => e + 1 > Len(file)
      BY <1>2
    <2> QED BY <1>4, <2>1 DEF Walk, Ends, EndsWith
  <1> QED BY <1>1, <1>6, <1>7, <1>8, <1>9, <1>10 DEF RecordThen

(* Every record of an intact prefix is found by the walk. *)
AllFound(from, n) ==
    \A s \in 1..n : file[s].part = 1 =>
        \A i \in s..n : RecordEnd(i) =>
            \E m \in 1..Len(from[s]) : from[s][m] = file[i].id

LEMMA WalkFinds ==
    ASSUME NInv, Records, NEW n \in 1..Len(file), Intact(n), RecordEnd(n),
           NEW from, Walk(from)
    PROVE  AllFound(from, n)
  <1> DEFINE Found(s) == file[s].part = 1 =>
               \A i \in s..n : RecordEnd(i) =>
                 \E m \in 1..Len(from[s]) : from[s][m] = file[i].id
             G == {s \in 1..n : Found(s)}
  <1>1. n \in Nat
    BY CellFacts
  <1>2. ASSUME NEW s \in 1..n, \A k \in 1..n : k > s => k \in G
        PROVE  s \in G
    <2> SUFFICES ASSUME file[s].part = 1, NEW i \in s..n, RecordEnd(i)
                 PROVE  \E m \in 1..Len(from[s]) : from[s][m] = file[i].id
      OBVIOUS
    <2>0. PICK e \in s..n : RecordThen(from, n, s, e)
      BY WalkStep
    <2>1. /\ \A j \in s..e : file[j].id = file[s].id /\ (RecordEnd(j) => j = e)
          /\ e # n => /\ e + 1 \in 1..n /\ e + 1 > s /\ file[e + 1].part = 1
          /\ from[e + 1] \in Seq(Nat)
          /\ Len(from[s]) = Len(from[e + 1]) + 1
          /\ from[s][1] = file[s].id
          /\ \A m \in 1..Len(from[e + 1]) : from[s][m + 1] = from[e + 1][m]
      BY <2>0 DEF RecordThen
    <2>2. e \in Nat /\ i \in Nat /\ s \in Nat /\ Len(from[e + 1]) \in Nat
      BY <1>1, <2>1
    <2>3. CASE i <= e
      <3>1. file[i].id = file[s].id /\ 1 \in 1..Len(from[s])
        BY <2>1, <2>2, <2>3
      <3> QED BY <2>1, <3>1
    <2>4. CASE i > e
      <3>1. e # n /\ i \in (e + 1)..n
        BY <1>1, <2>2, <2>4
      <3>2. Found(e + 1) /\ file[e + 1].part = 1
        BY <1>2, <2>1, <3>1
      <3>3. PICK m \in 1..Len(from[e + 1]) : from[e + 1][m] = file[i].id
        BY <3>1, <3>2
      <3>4. m + 1 \in 1..Len(from[s])
        BY <2>1, <2>2
      <3> QED BY <2>1, <3>3, <3>4
    <2> QED BY <2>2, <2>3, <2>4
  <1> HIDE DEF G
  <1>3. \A s \in 1..n : s \in G
    BY <1>1, <1>2, FromTheEnd
  <1> QED BY <1>3 DEF G, AllFound

(* And in a file of whole records it finds nothing else, in order. *)
LEMMA WalkFindsOnly ==
    ASSUME NInv, Records, Len(file) \in 1..Len(file), Intact(Len(file)),
           RecordEnd(Len(file)), NEW from, Walk(from)
    PROVE  \A s \in 1..Len(file) : file[s].part = 1 =>
             /\ \A m \in 1..Len(from[s]) : \E i \in s..Len(file) :
                  RecordEnd(i) /\ file[i].id = from[s][m]
             /\ \A m, k \in 1..Len(from[s]) : m < k => from[s][m] < from[s][k]
  <1> DEFINE n == Len(file)
             Only(s) == \A m \in 1..Len(from[s]) : \E i \in s..n :
                          RecordEnd(i) /\ file[i].id = from[s][m]
             Asc(s)  == \A m, k \in 1..Len(from[s]) : m < k => from[s][m] < from[s][k]
             G == {s \in 1..n : file[s].part = 1 => Only(s) /\ Asc(s)}
  <1>1. n \in Nat /\ \A i \in 1..n : file[i].id \in Nat
    BY CellFacts
  <1>2. ASSUME NEW s \in 1..n, \A k \in 1..n : k > s => k \in G
        PROVE  s \in G
    <2> SUFFICES ASSUME file[s].part = 1 PROVE Only(s) /\ Asc(s)
      OBVIOUS
    <2>0. PICK e \in s..n : RecordThen(from, n, s, e)
      <3>1. n \in 1..Len(file)
        OBVIOUS
      <3> QED BY <3>1, WalkStep
    <2>1. /\ RecordEnd(e) /\ file[e].id = file[s].id
          /\ e # n => /\ e + 1 \in 1..n /\ e + 1 > s
                      /\ file[e + 1].part = 1 /\ file[e + 1].id > file[s].id
          /\ from[e + 1] \in Seq(Nat)
          /\ Len(from[s]) = Len(from[e + 1]) + 1
          /\ from[s][1] = file[s].id
          /\ \A m \in 1..Len(from[e + 1]) : from[s][m + 1] = from[e + 1][m]
          /\ e = n => from[e + 1] = <<>>
      <3>1. e \in s..e
        BY <1>1
      <3> QED BY <2>0, <3>1 DEF RecordThen
    <2> DEFINE t == from[e + 1]
    <2>2. e \in Nat /\ s \in Nat /\ Len(t) \in Nat /\ e \in s..n
      BY <1>1, <2>1
    <2>3. ASSUME NEW m \in 1..Len(t)
          PROVE  /\ \E i \in (e + 1)..n : RecordEnd(i) /\ file[i].id = t[m]
                 /\ t[m] > file[s].id /\ t[m] \in Nat
                 /\ e # n /\ Asc(e + 1)
      <3>1. e # n
        BY <2>1, <2>3
      <3>2. e + 1 \in G /\ file[e + 1].part = 1 /\ e + 1 \in 1..n
        BY <1>2, <2>1, <3>1
      <3>3. Only(e + 1) /\ Asc(e + 1)
        BY <3>2
      <3>4. PICK i \in (e + 1)..n : RecordEnd(i) /\ file[i].id = t[m]
        BY <3>3
      <3>5. /\ i \in 1..n /\ e + 1 \in 1..n /\ (i = e + 1 \/ e + 1 < i)
            /\ s \in 1..n
        BY <1>1, <2>2, <3>2
      <3>6. file[e + 1].id <= file[i].id
        BY <1>1, <3>5 DEF Records, InCallOrder
      <3>7. file[i].id > file[s].id /\ file[i].id \in Nat
        <4>1. file[e + 1].id > file[s].id
          BY <2>1, <3>1
        <4>2. file[i].id \in Nat /\ file[s].id \in Nat /\ file[e + 1].id \in Nat
          BY <1>1, <3>5
        <4> HIDE DEF n, Only, Asc, G, t
        <4> QED BY <3>6, <4>1, <4>2
      <3> HIDE DEF Asc, t
      <3> QED BY <3>1, <3>3, <3>4, <3>7
    <2>4. \A m \in 1..Len(from[s]) :
            \/ m = 1 /\ from[s][m] = file[s].id
            \/ m - 1 \in 1..Len(t) /\ from[s][m] = t[m - 1]
      <3> TAKE m \in 1..Len(from[s])
      <3>1. m = 1 \/ (m - 1 \in 1..Len(t) /\ (m - 1) + 1 = m)
        <4>1. Len(from[s]) = Len(t) + 1 /\ Len(t) \in Nat
          BY <2>1, <2>2
        <4> HIDE DEF t
        <4> QED BY <4>1
      <3> QED BY <2>1, <3>1
    <2>5. Only(s)
      <3> SUFFICES ASSUME NEW m \in 1..Len(from[s])
                   PROVE  \E i \in s..n : RecordEnd(i) /\ file[i].id = from[s][m]
        OBVIOUS
      <3>1. CASE m = 1
        BY <2>1, <2>2, <3>1
      <3>2. CASE m # 1
        <4>1. m - 1 \in 1..Len(t) /\ from[s][m] = t[m - 1]
          BY <2>4, <3>2
        <4>2. PICK i \in (e + 1)..n : RecordEnd(i) /\ file[i].id = t[m - 1]
          BY <2>3, <4>1
        <4>3. i \in s..n
          BY <1>1, <2>2
        <4> QED BY <4>1, <4>2, <4>3
      <3> QED BY <3>1, <3>2
    <2>6. Asc(s)
      <3> SUFFICES ASSUME NEW m \in 1..Len(from[s]), NEW k \in 1..Len(from[s]), m < k
                   PROVE  from[s][m] < from[s][k]
        OBVIOUS
      <3>1. k - 1 \in 1..Len(t) /\ from[s][k] = t[k - 1]
        BY <2>4
      <3>2. CASE m = 1
        <4>1. from[s][m] = file[s].id /\ t[k - 1] > file[s].id /\ t[k - 1] \in Nat
          BY <2>1, <2>3, <3>1, <3>2
        <4>2. file[s].id \in Nat
          BY <1>1
        <4> QED BY <3>1, <4>1, <4>2
      <3>3. CASE m # 1
        <4>1. m - 1 \in 1..Len(t) /\ from[s][m] = t[m - 1] /\ m - 1 < k - 1
          BY <2>4, <3>1, <3>3
        <4>2. Asc(e + 1)
          BY <2>3, <3>1
        <4> QED BY <3>1, <4>1, <4>2
      <3> QED BY <3>2, <3>3
    <2> QED BY <2>5, <2>6
  <1> HIDE DEF G
  <1>3. \A s \in 1..n : s \in G
    BY <1>1, <1>2, FromTheEnd
  <1> QED BY <1>3 DEF G

-----------------------------------------------------------------------------
(* Replay is the walk from the first cell. *)
LEMMA ReplayWalks ==
    ASSUME NInv
    PROVE  \E from : /\ Walk(from) /\ Replay = from[1]
                     /\ Replay \in Seq(Nat) /\ DOMAIN Replay = 1..Len(Replay)
                     /\ file = <<>> => Replay = <<>>
  <1>1. PICK from : Replay = from[1] /\ Walk(from)
    BY ReplayWalk DEF NInv, IInv
  <1>2. 1 \in 1..(Len(file) + 1)
    BY CellFacts
  <1>3. from[1] \in Seq(Nat) /\ from[1] = IF Ends(1) THEN EndsWith(1)
                               ELSE <<file[1].id>> \o from[NextRecord(1)]
    BY <1>1, <1>2 DEF Walk
  <1>4. file = <<>> => 1 > Len(file)
    OBVIOUS
  <1>5. file = <<>> => from[1] = <<>>
    BY <1>3, <1>4 DEF Ends, EndsWith
  <1>6. DOMAIN Replay = 1..Len(Replay)
    <2> HIDE DEF Replay
    <2> QED BY <1>1, <1>3
  <1> QED BY <1>1, <1>3, <1>5, <1>6

(* An intact prefix begins with the first part of a record. *)
LEMMA FirstCell ==
    ASSUME NEW n \in 1..Len(file), Intact(n), NInv
    PROVE  file[1].part = 1 /\ 1 \in 1..n
  <1>1. 1 \in 1..n
    BY CellFacts
  <1> QED BY <1>1 DEF Intact

(* Every record of an intact prefix is replayed. *)
LEMMA PrefixReplayed ==
    ASSUME NInv, Records
    PROVE  IntactPrefixReplayed
  <1> SUFFICES ASSUME NEW n \in 0..Len(file), Intact(n), NEW i \in RecordEnds(n)
               PROVE  file[i].id \in Delivered
    BY DEF IntactPrefixReplayed
  <1>1. Len(file) \in Nat /\ i \in 1..n /\ i \in 1..Len(file) /\ RecordEnd(i)
    BY CellFacts DEF RecordEnds, RecordEnd
  <1>2. Intact(i)
    BY <1>1 DEF Intact
  <1>3. PICK from : /\ Replay = from[1] /\ Walk(from)
                    /\ DOMAIN Replay = 1..Len(Replay)
    BY ReplayWalks
  <1>4. AllFound(from, i)
    <2>1. RecordEnd(i) /\ i \in 1..Len(file) /\ Walk(from)
      BY <1>1, <1>3
    <2> QED BY <1>2, <2>1, WalkFinds
  <1>5. file[1].part = 1 /\ 1 \in 1..i /\ i \in 1..i
    BY <1>1, <1>2, FirstCell
  <1>6. PICK m \in 1..Len(Replay) : Replay[m] = file[i].id
    BY <1>1, <1>3, <1>4, <1>5 DEF AllFound
  <1> QED BY <1>3, <1>6 DEF Delivered

(* A whole log is replayed exactly, in the order of its records. *)
LEMMA WholeReplayed ==
    ASSUME NInv, Records
    PROVE  ReplayExact
  <1> SUFFICES ASSUME Whole
               PROVE  /\ Delivered = acked
                      /\ \A i, j \in DOMAIN Replay : i < j => Replay[i] < Replay[j]
    BY DEF ReplayExact
  <1>1. Len(file) \in Nat
    BY CellFacts
  <1>2. PICK from : Replay = from[1] /\ Walk(from) /\ (file = <<>> => Replay = <<>>)
                    /\ DOMAIN Replay = 1..Len(Replay)
    BY ReplayWalks
  <1>4. CASE file = <<>>
    <2>1. Replay = <<>>
      BY <1>2, <1>4
    <2>2. Delivered = {} /\ DOMAIN Replay = {}
      BY <2>1 DEF Delivered
    <2>3. acked = {}
      BY <1>4 DEF Records, AckedIsComplete
    <2> QED BY <2>2, <2>3
  <1>5. CASE file # <<>>
    <2>1. /\ Len(file) \in 1..Len(file) /\ Intact(Len(file)) /\ RecordEnd(Len(file))
      BY <1>5 DEF Whole, RecordEnds, RecordEnd
    <2>2. file[1].part = 1 /\ 1 \in 1..Len(file)
      BY <2>1, FirstCell
    <2>3. /\ \A m \in 1..Len(from[1]) : \E i \in 1..Len(file) :
               RecordEnd(i) /\ file[i].id = from[1][m]
          /\ \A m, k \in 1..Len(from[1]) : m < k => from[1][m] < from[1][k]
      BY <1>2, <2>1, <2>2, WalkFindsOnly
    <2>4. Delivered \subseteq acked
      BY <1>2, <2>3 DEF Delivered, Records, CompleteIsAcked
    <2>5. acked \subseteq Delivered
      <3> SUFFICES ASSUME NEW id \in acked PROVE id \in Delivered
        OBVIOUS
      <3>1. PICK i \in 1..Len(file) : RecordEnd(i) /\ file[i].id = id
        BY DEF Records, AckedIsComplete
      <3>2. i \in RecordEnds(Len(file)) /\ Len(file) \in 0..Len(file)
        BY <1>1, <3>1 DEF RecordEnds, RecordEnd
      <3> QED BY <2>1, <3>1, <3>2, PrefixReplayed DEF IntactPrefixReplayed
    <2> QED BY <1>2, <2>3, <2>4, <2>5
  <1> QED BY <1>4, <1>5

(* The empty log satisfies the invariants. *)
LEMMA InitRecords == Init => NInv /\ Records
  <1>1. Init => NInv
    BY InitIInv DEF Init, NInv, Numbered, AckedKnown, LsnNamesRecord
  <1>2. Init => Records
    BY DEF Init, Records, Contiguous, InCallOrder, CompleteIsAcked, AckedIsComplete
  <1> QED BY <1>1, <1>2

(* Damage never reaches backwards: whatever was torn, lost or appended     *)
(* since, wal_replay_recovery delivers every complete record of a prefix   *)
(* of the file in which records follow one another.                        *)
THEOREM DamageStaysBehind == Spec => []IntactPrefixReplayed
  <1>1. Init => NInv /\ Records
    BY InitRecords
  <1>2. NInv /\ Records /\ [Next]_vars => (NInv /\ Records)'
    BY NextNInv, NextRecords
  <1>3. NInv /\ Records => IntactPrefixReplayed
    BY PrefixReplayed
  <1> QED BY <1>1, <1>2, <1>3, PTL DEF Spec

(* From a file of whole records wal_replay_recovery delivers each          *)
(* acknowledged record that is left once, in the order of the calls of     *)
(* wal_append_record, and nothing else.                                    *)
THEOREM WholeLogReplaysExactly == Spec => []ReplayExact
  <1>1. Init => NInv /\ Records
    BY InitRecords
  <1>2. NInv /\ Records /\ [Next]_vars => (NInv /\ Records)'
    BY NextNInv, NextRecords
  <1>3. NInv /\ Records => ReplayExact
    BY WholeReplayed
  <1> QED BY <1>1, <1>2, <1>3, PTL DEF Spec
=============================================================================

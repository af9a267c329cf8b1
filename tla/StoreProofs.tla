---------------------------- MODULE StoreProofs -----------------------------
(***************************************************************************)
(* Proofs about StoreResults, for any number of jobs, repositories and     *)
(* document types: its invariant, and that its statements implement the    *)
(* single step of AtomicStore.                                             *)
(***************************************************************************)
EXTENDS StoreResults, FiniteSetTheorems, TLAPS

-----------------------------------------------------------------------------
(***************************************************************************)
(* Facts about the data                                                    *)
(***************************************************************************)

\* A set of document types has a size, and only the empty one has size 0.
LEMMA DocsCount ==
    ASSUME NEW docs \in SUBSET DocTypes
    PROVE  Cardinality(docs) \in Nat
<1>1. IsFiniteSet(docs)
  BY DocTypesAssumption, FS_Subset
<1> QED
  BY <1>1, FS_CardinalityType

LEMMA NoDocsCount == Cardinality({}) = 0
  BY FS_EmptySet

\* There is at most one next document, for no two types share a place.
LEMMA NextUnique ==
    ASSUME TypeOK, NEW j \in JobIds, NEW d \in DocTypes, NEW e \in DocTypes,
           IsNext(j, d), IsNext(j, e)
    PROVE  d = e
<1>1. Place[d] \in Nat /\ Place[e] \in Nat
  BY PlaceAssumption
<1>2. Place[d] <= Place[e] /\ Place[e] <= Place[d]
  BY DEF IsNext
<1>3. Place[d] = Place[e]
  BY <1>1, <1>2
<1> QED
  BY <1>3, PlaceAssumption

\* The rows are the ones that were inserted.
RowsNamed == \A j \in JobIds : row[j] \in Message /\ row[j].job = j

StatusesFit == \A j \in JobIds : status[j] = StatusIs(j)

Extents == \A j \in JobIds : Extent(j)

LEMMA InvParts ==
    StoreInv <=> /\ TypeOK
                 /\ Extents
                 /\ StatusesFit
                 /\ RowsNamed
                 /\ AllOrNothing
                 /\ RowIsKept
                 /\ CacheFromCommitted
  BY DEF StoreInv, Extents, StatusesFit, RowsNamed

\* The instance of AtomicStore means the same jobs.
LEMMA AtomicNames == Atomic!JobIds = JobIds /\ Atomic!Message = Message
  BY DEF Atomic!JobIds, JobIds, Atomic!Message, Message

-----------------------------------------------------------------------------
(***************************************************************************)
(* The invariant: initially, and over every action                         *)
(***************************************************************************)
LEMMA InvPartsNext ==
    StoreInv' <=> /\ TypeOK'
                  /\ Extents'
                  /\ StatusesFit'
                  /\ RowsNamed'
                  /\ AllOrNothing'
                  /\ RowIsKept'
                  /\ CacheFromCommitted'
  BY DEF StoreInv, Extents, StatusesFit, RowsNamed

LEMMA InitHolds == Init => StoreInv
<1> SUFFICES ASSUME Init PROVE StoreInv
  OBVIOUS
<1> USE AtomicNames DEF Init, Atomic!AtomicInit
<1>1. TypeOK
  <2>1. row \in [JobIds -> Message \cup {NoMsg}]
    OBVIOUS
  <2>2. created \in 0..MaxJobs
    BY MaxJobsAssumption
  <2>3. status \in [JobIds -> Status \cup {"absent"}]
    BY DEF Status
  <2>4. callsUsed \in [JobIds -> Nat] /\ documents \in [JobIds -> SUBSET DocTypes]
    OBVIOUS
  <2>5. TableTypeOK
    BY <2>1, <2>2, <2>3, <2>4 DEF TableTypeOK
  <2>6. cache \in [RepoURLs -> [DocTypes -> JobIds \cup {0}]]
    OBVIOUS
  <2> QED
    BY <2>5, <2>6 DEF TypeOK, Statements, Ended
<1>2. Extents
  BY DEF Extents, Extent, Ended, IsNext
<1>3. StatusesFit
  BY DEF StatusesFit, StatusIs
<1>4. RowsNamed
  BY DEF RowsNamed
<1>5. AllOrNothing
  BY NoDocsCount DEF AllOrNothing
<1>6. RowIsKept
  BY DEF RowIsKept
<1>7. CacheFromCommitted
  BY DEF CacheFromCommitted
<1> QED
  BY <1>1, <1>2, <1>3, <1>4, <1>5, <1>6, <1>7, InvParts

\* What belongs to other jobs stays as it is.
OthersStay(j) ==
    \A k \in JobIds \ {j} :
        /\ txPc'[k] = txPc[k]
        /\ txDocs'[k] = txDocs[k]
        /\ docsDone'[k] = docsDone[k]
        /\ cacheDone'[k] = cacheDone[k]

LEMMA ExtentsFrame ==
    ASSUME NEW j \in JobIds, Extents, OthersStay(j), Extent(j)'
    PROVE  Extents'
<1> SUFFICES ASSUME NEW k \in JobIds, k # j PROVE Extent(k)'
  BY DEF Extents
<1>1. Extent(k)
  BY DEF Extents
<1> QED
  BY <1>1 DEF OthersStay, Extent, IsNext

\* Begin: the transaction has its documents and has written nothing.
LEMMA BeginKeeps ==
    ASSUME StoreInv, NEW j \in JobIds, Begin(j)
    PROVE  StoreInv'
<1>0. /\ TypeOK /\ Extents /\ StatusesFit /\ RowsNamed /\ AllOrNothing
      /\ RowIsKept /\ CacheFromCommitted /\ Begin(j)
  BY InvParts
<1>1. TypeOK'
  BY <1>0 DEF Begin, TypeOK, TableTypeOK, Statements, Ended, End, tableVars
<1>2. Extents'
  <2>1. Extent(j)
    BY <1>0 DEF Extents
  <2>2. OthersStay(j)
    BY <1>0 DEF Begin, TypeOK, OthersStay, End
  <2>3. Extent(j)'
    <3>1. /\ txPc'[j] = "document" /\ txDocs'[j] # {}
          /\ docsDone'[j] = {} /\ cacheDone'[j] = {}
      <4>1. PICK docs \in SUBSET DocTypes : docs # {} /\ txDocs' = [txDocs EXCEPT ![j] = docs]
        BY <1>0 DEF Begin
      <4>2. docsDone[j] = {} /\ cacheDone[j] = {}
        BY <1>0, <2>1 DEF Begin, Extent
      <4>3. txDocs'[j] = docs /\ txPc'[j] = "document"
        BY <1>0, <4>1 DEF Begin, TypeOK
      <4> QED
        BY <1>0, <4>1, <4>2, <4>3 DEF Begin
    <3> QED
      BY <3>1 DEF Extent, IsNext, Ended
  <2> QED
    BY <1>0, <2>2, <2>3, ExtentsFrame
<1>3. StatusesFit'
  BY <1>0 DEF Begin, TypeOK, StatusesFit, StatusIs, Ended, Statements, End, tableVars
<1>4. RowsNamed'
  BY <1>0 DEF Begin, RowsNamed, tableVars
<1>5. AllOrNothing'
  BY <1>0 DEF Begin, AllOrNothing, tableVars
<1>6. RowIsKept'
  BY <1>0 DEF Begin, TypeOK, RowIsKept, StatusesFit, StatusIs, End, tableVars
<1>7. CacheFromCommitted'
  BY <1>0 DEF Begin, TypeOK, CacheFromCommitted, RowsNamed, Ended, End, tableVars
<1> QED
  BY <1>1, <1>2, <1>3, <1>4, <1>5, <1>6, <1>7, InvPartsNext

\* UpsertDocument: the document is in, its cache row is next.
LEMMA DocumentKeeps ==
    ASSUME StoreInv, NEW j \in JobIds, UpsertDocument(j)
    PROVE  StoreInv'
<1>0. /\ TypeOK /\ Extents /\ StatusesFit /\ RowsNamed /\ AllOrNothing
      /\ RowIsKept /\ CacheFromCommitted /\ UpsertDocument(j)
  BY InvParts
<1>1. TypeOK'
  BY <1>0 DEF UpsertDocument, TypeOK, TableTypeOK, Statements, Ended, End, tableVars
<1>2. Extents'
  <2>1. Extent(j)
    BY <1>0 DEF Extents
  <2>2. OthersStay(j)
    BY <1>0 DEF UpsertDocument, TypeOK, OthersStay, End
  <2>3. Extent(j)'
    <3>1. CASE status[j] = "absent"
      BY <1>0, <2>1, <3>1 DEF UpsertDocument, TypeOK, Extent, IsNext, Ended
    <3>2. CASE status[j] # "absent"
      <4>1. PICK d \in DocTypes : IsNext(j, d) /\ docsDone'[j] = docsDone[j] \cup {d}
        BY <1>0, <3>2 DEF UpsertDocument, TypeOK
      <4>2. /\ txPc'[j] = "cache" /\ txDocs'[j] = txDocs[j] /\ txDocs[j] # {}
            /\ cacheDone'[j] = cacheDone[j] /\ cacheDone[j] \subseteq txDocs[j]
            /\ docsDone[j] = cacheDone[j]
        BY <1>0, <2>1, <3>2 DEF UpsertDocument, TypeOK, Extent
      <4>3. \A e \in DocTypes : IsNext(j, e)' <=> IsNext(j, e)
        BY <4>2 DEF IsNext
      <4>4. \A e \in DocTypes : IsNext(j, e) => e = d
        BY <1>0, <4>1, NextUnique
      <4>5. \A c \in cacheDone[j], e \in txDocs[j] \ cacheDone[j] : Place[c] < Place[e]
        BY <2>1 DEF Extent
      <4>6. d \in txDocs[j]
        BY <4>1 DEF IsNext
      <4> QED
        BY <4>1, <4>2, <4>3, <4>4, <4>5, <4>6 DEF Extent, Ended
    <3> QED
      BY <3>1, <3>2
  <2> QED
    BY <1>0, <2>2, <2>3, ExtentsFrame
<1>3. StatusesFit'
  BY <1>0 DEF UpsertDocument, TypeOK, StatusesFit, StatusIs, Ended, Statements, End, tableVars
<1>4. RowsNamed'
  BY <1>0 DEF UpsertDocument, RowsNamed, tableVars
<1>5. AllOrNothing'
  BY <1>0 DEF UpsertDocument, AllOrNothing, tableVars
<1>6. RowIsKept'
  BY <1>0 DEF UpsertDocument, TypeOK, RowIsKept, StatusesFit, StatusIs, End, tableVars
<1>7. CacheFromCommitted'
  BY <1>0 DEF UpsertDocument, TypeOK, CacheFromCommitted, RowsNamed, Ended, End, tableVars
<1> QED
  BY <1>1, <1>2, <1>3, <1>4, <1>5, <1>6, <1>7, InvPartsNext

\* UpsertDocCache: the cache row is in, the next document or the status is next.
LEMMA CacheKeeps ==
    ASSUME StoreInv, NEW j \in JobIds, UpsertDocCache(j)
    PROVE  StoreInv'
<1>0. /\ TypeOK /\ Extents /\ StatusesFit /\ RowsNamed /\ AllOrNothing
      /\ RowIsKept /\ CacheFromCommitted /\ UpsertDocCache(j)
  BY InvParts
<1>1. TypeOK'
  BY <1>0 DEF UpsertDocCache, TypeOK, TableTypeOK, Statements, Ended, End, tableVars
<1>2. Extents'
  <2>1. Extent(j)
    BY <1>0 DEF Extents
  <2>2. OthersStay(j)
    BY <1>0 DEF UpsertDocCache, TypeOK, OthersStay, End
  <2>3. Extent(j)'
    <3>1. PICK d \in DocTypes : IsNext(j, d) /\ cacheDone'[j] = cacheDone[j] \cup {d}
      BY <1>0 DEF UpsertDocCache, TypeOK
    <3>2. /\ txDocs'[j] = txDocs[j] /\ txDocs[j] # {} /\ docsDone'[j] = docsDone[j]
          /\ docsDone[j] \subseteq txDocs[j]
      BY <1>0, <2>1 DEF UpsertDocCache, TypeOK, Extent
    <3>3. cacheDone'[j] = docsDone'[j]
      BY <1>0, <2>1, <3>1, <3>2 DEF UpsertDocCache, Extent
    <3>4. txPc'[j] = IF cacheDone'[j] = txDocs[j] THEN "complete" ELSE "document"
      BY <1>0 DEF UpsertDocCache, TypeOK
    <3>5. \A c \in cacheDone'[j], e \in txDocs'[j] \ cacheDone'[j] : Place[c] < Place[e]
      <4> SUFFICES ASSUME NEW c \in cacheDone'[j], NEW e \in txDocs[j] \ cacheDone'[j]
                   PROVE  Place[c] < Place[e]
        BY <3>2
      <4>1. CASE c = d
        <5>1. Place[d] <= Place[e] /\ d # e /\ e \in DocTypes
          BY <1>0, <3>1 DEF IsNext, TypeOK
        <5> QED
          BY <4>1, <5>1, PlaceAssumption
      <4>2. CASE c # d
        BY <2>1, <3>1, <4>2 DEF Extent
      <4> QED
        BY <4>1, <4>2
    <3> QED
      BY <3>2, <3>3, <3>4, <3>5 DEF Extent, Ended
  <2> QED
    BY <1>0, <2>2, <2>3, ExtentsFrame
<1>3. StatusesFit'
  BY <1>0 DEF UpsertDocCache, TypeOK, StatusesFit, StatusIs, Ended, Statements, End, tableVars
<1>4. RowsNamed'
  BY <1>0 DEF UpsertDocCache, RowsNamed, tableVars
<1>5. AllOrNothing'
  BY <1>0 DEF UpsertDocCache, AllOrNothing, tableVars
<1>6. RowIsKept'
  BY <1>0 DEF UpsertDocCache, TypeOK, RowIsKept, StatusesFit, StatusIs, End, tableVars
<1>7. CacheFromCommitted'
  BY <1>0 DEF UpsertDocCache, TypeOK, CacheFromCommitted, RowsNamed, Ended, End, tableVars
<1> QED
  BY <1>1, <1>2, <1>3, <1>4, <1>5, <1>6, <1>7, InvPartsNext

\* CompleteJob decides between commit and rollback.
LEMMA CompleteKeeps ==
    ASSUME StoreInv, NEW j \in JobIds, CompleteJob(j)
    PROVE  StoreInv'
<1>0. /\ TypeOK /\ Extents /\ StatusesFit /\ RowsNamed /\ AllOrNothing
      /\ RowIsKept /\ CacheFromCommitted /\ CompleteJob(j)
  BY InvParts
<1>1. TypeOK'
  BY <1>0 DEF CompleteJob, TypeOK, TableTypeOK, Statements, Ended, End, tableVars
<1>2. Extents'
  <2>1. Extent(j)
    BY <1>0 DEF Extents
  <2>2. OthersStay(j)
    BY <1>0 DEF CompleteJob, TypeOK, OthersStay, End
  <2>3. Extent(j)'
    BY <1>0, <2>1 DEF CompleteJob, TypeOK, Extent, IsNext, Ended, Statements, End
  <2> QED
    BY <1>0, <2>2, <2>3, ExtentsFrame
<1>3. StatusesFit'
  BY <1>0 DEF CompleteJob, TypeOK, StatusesFit, StatusIs, Ended, Statements, End, tableVars
<1>4. RowsNamed'
  BY <1>0 DEF CompleteJob, RowsNamed, tableVars
<1>5. AllOrNothing'
  BY <1>0 DEF CompleteJob, AllOrNothing, tableVars
<1>6. RowIsKept'
  BY <1>0 DEF CompleteJob, TypeOK, RowIsKept, StatusesFit, StatusIs, End, tableVars
<1>7. CacheFromCommitted'
  BY <1>0 DEF CompleteJob, TypeOK, CacheFromCommitted, RowsNamed, Ended, End, tableVars
<1> QED
  BY <1>1, <1>2, <1>3, <1>4, <1>5, <1>6, <1>7, InvPartsNext

\* A transaction that commits has written everything, for a job that is there.
LEMMA CommitWrites ==
    ASSUME StoreInv, NEW j \in JobIds, txPc[j] = "commit"
    PROVE  /\ cacheDone[j] = txDocs[j] /\ docsDone[j] = txDocs[j] /\ txDocs[j] # {}
           /\ status[j] = "generating" /\ deletion[j] # "done"
           /\ documents[j] = {}
<1>1. cacheDone[j] = txDocs[j] /\ docsDone[j] = txDocs[j] /\ txDocs[j] # {}
  BY InvParts DEF Extents, Extent
<1>2. status[j] = "generating" /\ deletion[j] # "done"
  BY <1>1, InvParts DEF RowIsKept
<1> QED
  BY <1>1, <1>2, InvParts DEF AllOrNothing

\* Commit: documents, cache, status and counter change together.
LEMMA CommitKeeps ==
    ASSUME StoreInv, NEW j \in JobIds, Commit(j)
    PROVE  StoreInv'
<1>0. /\ TypeOK /\ Extents /\ StatusesFit /\ RowsNamed /\ AllOrNothing
      /\ RowIsKept /\ CacheFromCommitted /\ Commit(j)
  BY InvParts
<1>1. TypeOK'
  <2>1. Cardinality(txDocs[j]) \in Nat
    BY <1>0, DocsCount DEF TypeOK
  <2>2. TableTypeOK'
    BY <1>0, <2>1 DEF Commit, TypeOK, TableTypeOK, Status
  <2>3. cache' \in [RepoURLs -> [DocTypes -> JobIds \cup {0}]]
    <3>1. row[j].repo \in RepoURLs
      BY <1>0 DEF RowsNamed, Message
    <3> QED
      BY <1>0, <3>1 DEF Commit, TypeOK, Atomic!Cached
  <2> QED
    BY <1>0, <2>2, <2>3 DEF Commit, TypeOK, Statements, Ended, End
<1>2. Extents'
  <2>1. Extent(j)
    BY <1>0 DEF Extents
  <2>2. OthersStay(j)
    BY <1>0 DEF Commit, TypeOK, OthersStay, End
  <2>3. Extent(j)'
    BY <1>0, <2>1 DEF Commit, TypeOK, Extent, IsNext, Ended, Statements, End
  <2> QED
    BY <1>0, <2>2, <2>3, ExtentsFrame
<1>3. StatusesFit'
  <2>1. deletion[j] # "done"
    BY <1>0, CommitWrites DEF Commit
  <2> QED
    BY <1>0, <2>1 DEF Commit, TypeOK, TableTypeOK, StatusesFit, StatusIs, End
<1>4. RowsNamed'
  BY <1>0 DEF Commit, RowsNamed, tableVars
<1>5. AllOrNothing'
  <2>1. documents[j] = {} /\ docsDone[j] = txDocs[j] /\ txDocs[j] # {}
    BY <1>0, CommitWrites DEF Commit
  <2>2. documents'[j] = txDocs[j] /\ callsUsed'[j] = Cardinality(txDocs[j])
        /\ status'[j] = "completed"
    BY <1>0, <2>1 DEF Commit, TypeOK, TableTypeOK
  <2>3. \A k \in JobIds \ {j} : /\ documents'[k] = documents[k]
                                /\ callsUsed'[k] = callsUsed[k]
                                /\ status'[k] = status[k]
    BY <1>0 DEF Commit, TypeOK, TableTypeOK
  <2> QED
    BY <1>0, <2>1, <2>2, <2>3 DEF AllOrNothing
<1>6. RowIsKept'
  BY <1>0 DEF Commit, TypeOK, RowIsKept, StatusesFit, StatusIs, End, tableVars
<1>7. CacheFromCommitted'
  <2> SUFFICES ASSUME NEW r \in RepoURLs, NEW d \in DocTypes, cache'[r][d] # 0
               PROVE  /\ txPc'[cache'[r][d]] = "committed"
                      /\ row[cache'[r][d]].repo = r
                      /\ d \in txDocs[cache'[r][d]]
    BY <1>0 DEF Commit, CacheFromCommitted, End
  <2>1. row[j].repo \in RepoURLs /\ cacheDone[j] = txDocs[j]
    BY <1>0, CommitWrites DEF Commit, RowsNamed, Message
  <2>2. txPc'[j] = "committed"
    BY <1>0 DEF Commit, End, TypeOK
  <2>3. CASE r = row[j].repo /\ d \in cacheDone[j]
    <3>1. cache'[r][d] = j
      BY <1>0, <2>3 DEF Commit, Atomic!Cached, TypeOK
    <3> QED
      BY <2>1, <2>2, <2>3, <3>1
  <2>4. CASE ~(r = row[j].repo /\ d \in cacheDone[j])
    <3>1. cache'[r][d] = cache[r][d]
      BY <1>0, <2>4 DEF Commit, Atomic!Cached, TypeOK
    <3>2. cache[r][d] \in JobIds
      BY <1>0, <3>1 DEF TypeOK
    <3> QED
      BY <1>0, <2>2, <3>1, <3>2 DEF CacheFromCommitted, Commit, End, TypeOK
  <2> QED
    BY <2>3, <2>4
<1> QED
  BY <1>1, <1>2, <1>3, <1>4, <1>5, <1>6, <1>7, InvPartsNext

\* A failure only leads to the rollback.
LEMMA FailKeeps ==
    ASSUME StoreInv, NEW j \in JobIds, Fail(j)
    PROVE  StoreInv'
<1>0. /\ TypeOK /\ Extents /\ StatusesFit /\ RowsNamed /\ AllOrNothing
      /\ RowIsKept /\ CacheFromCommitted /\ Fail(j)
  BY InvParts
<1>1. TypeOK'
  BY <1>0 DEF Fail, TypeOK, TableTypeOK, Statements, Ended, End, tableVars
<1>2. Extents'
  <2>1. Extent(j)
    BY <1>0 DEF Extents
  <2>2. OthersStay(j)
    BY <1>0 DEF Fail, TypeOK, OthersStay, End
  <2>3. Extent(j)'
    BY <1>0, <2>1 DEF Fail, TypeOK, Extent, IsNext, Ended, Statements, End
  <2> QED
    BY <1>0, <2>2, <2>3, ExtentsFrame
<1>3. StatusesFit'
  BY <1>0 DEF Fail, TypeOK, StatusesFit, StatusIs, Ended, Statements, End, tableVars
<1>4. RowsNamed'
  BY <1>0 DEF Fail, RowsNamed, tableVars
<1>5. AllOrNothing'
  BY <1>0 DEF Fail, AllOrNothing, tableVars
<1>6. RowIsKept'
  BY <1>0 DEF Fail, TypeOK, RowIsKept, StatusesFit, StatusIs, End, tableVars
<1>7. CacheFromCommitted'
  <2>1. \A k \in JobIds : txPc[k] = "committed" => txPc'[k] = "committed"
    BY <1>0 DEF Fail, TypeOK, Statements
  <2> QED
    BY <1>0, <2>1 DEF Fail, TypeOK, CacheFromCommitted, tableVars
<1> QED
  BY <1>1, <1>2, <1>3, <1>4, <1>5, <1>6, <1>7, InvPartsNext

\* Rollback: nothing was visible and nothing is.
LEMMA RollbackKeeps ==
    ASSUME StoreInv, NEW j \in JobIds, Rollback(j)
    PROVE  StoreInv'
<1>0. /\ TypeOK /\ Extents /\ StatusesFit /\ RowsNamed /\ AllOrNothing
      /\ RowIsKept /\ CacheFromCommitted /\ Rollback(j)
  BY InvParts
<1>1. TypeOK'
  BY <1>0 DEF Rollback, TypeOK, TableTypeOK, Statements, Ended, End, tableVars
<1>2. Extents'
  <2>1. Extent(j)
    BY <1>0 DEF Extents
  <2>2. OthersStay(j)
    BY <1>0 DEF Rollback, TypeOK, OthersStay, End
  <2>3. Extent(j)'
    BY <1>0, <2>1 DEF Rollback, TypeOK, Extent, IsNext, Ended, Statements, End
  <2> QED
    BY <1>0, <2>2, <2>3, ExtentsFrame
<1>3. StatusesFit'
  BY <1>0 DEF Rollback, TypeOK, StatusesFit, StatusIs, Ended, Statements, End, tableVars
<1>4. RowsNamed'
  BY <1>0 DEF Rollback, RowsNamed, tableVars
<1>5. AllOrNothing'
  BY <1>0 DEF Rollback, AllOrNothing, tableVars
<1>6. RowIsKept'
  BY <1>0 DEF Rollback, TypeOK, RowIsKept, StatusesFit, StatusIs, End, tableVars
<1>7. CacheFromCommitted'
  BY <1>0 DEF Rollback, TypeOK, CacheFromCommitted, RowsNamed, Ended, End, tableVars
<1> QED
  BY <1>1, <1>2, <1>3, <1>4, <1>5, <1>6, <1>7, InvPartsNext

\* A DELETE that is asked for.
LEMMA AskDeleteKeeps ==
    ASSUME StoreInv, NEW j \in JobIds, AskDelete(j)
    PROVE  StoreInv'
<1>0. /\ TypeOK /\ Extents /\ StatusesFit /\ RowsNamed /\ AllOrNothing
      /\ RowIsKept /\ CacheFromCommitted /\ AskDelete(j)
  BY InvParts
<1>1. TypeOK'
  BY <1>0 DEF AskDelete, txVars, TypeOK, TableTypeOK, Statements, Ended, End, tableVars
<1>2. Extents'
  <2>1. Extent(j)
    BY <1>0 DEF Extents
  <2>2. OthersStay(j)
    BY <1>0 DEF AskDelete, txVars, TypeOK, OthersStay, End
  <2>3. Extent(j)'
    BY <1>0, <2>1 DEF AskDelete, txVars, TypeOK, Extent, IsNext, Ended, Statements, End
  <2> QED
    BY <1>0, <2>2, <2>3, ExtentsFrame
<1>3. StatusesFit'
  BY <1>0 DEF AskDelete, txVars, TypeOK, StatusesFit, StatusIs, Ended, Statements, End, tableVars
<1>4. RowsNamed'
  BY <1>0 DEF AskDelete, txVars, RowsNamed, tableVars
<1>5. AllOrNothing'
  BY <1>0 DEF AskDelete, txVars, AllOrNothing, tableVars
<1>6. RowIsKept'
  BY <1>0 DEF AskDelete, txVars, TypeOK, RowIsKept, StatusesFit, StatusIs, End, tableVars
<1>7. CacheFromCommitted'
  BY <1>0 DEF AskDelete, txVars, TypeOK, CacheFromCommitted, RowsNamed, Ended, End, tableVars
<1> QED
  BY <1>1, <1>2, <1>3, <1>4, <1>5, <1>6, <1>7, InvPartsNext

\* A DELETE that is executed: no transaction has written for this job.
LEMMA DeleteKeeps ==
    ASSUME StoreInv, NEW j \in JobIds, Delete(j)
    PROVE  StoreInv'
<1>0. /\ TypeOK /\ Extents /\ StatusesFit /\ RowsNamed /\ AllOrNothing
      /\ RowIsKept /\ CacheFromCommitted /\ Delete(j)
  BY InvParts
<1>1. TypeOK'
  BY <1>0 DEF Delete, DeleteJob, txVars, TypeOK, TableTypeOK, Statements, Ended, End, tableVars
<1>2. Extents'
  <2>1. Extent(j)
    BY <1>0 DEF Extents
  <2>2. OthersStay(j)
    BY <1>0 DEF Delete, DeleteJob, txVars, TypeOK, OthersStay, End
  <2>3. Extent(j)'
    BY <1>0, <2>1 DEF Delete, DeleteJob, txVars, TypeOK, Extent, IsNext, Ended, Statements, End
  <2> QED
    BY <1>0, <2>2, <2>3, ExtentsFrame
<1>3. StatusesFit'
  BY <1>0 DEF Delete, DeleteJob, txVars, TypeOK, TableTypeOK, StatusesFit, StatusIs
<1>4. RowsNamed'
  BY <1>0 DEF Delete, DeleteJob, txVars, RowsNamed, tableVars
<1>5. AllOrNothing'
  BY <1>0, NoDocsCount DEF Delete, DeleteJob, txVars, TypeOK, TableTypeOK, AllOrNothing
<1>6. RowIsKept'
  BY <1>0 DEF Delete, DeleteJob, txVars, KeyShared, TypeOK, RowIsKept, StatusesFit, StatusIs, End, tableVars
<1>7. CacheFromCommitted'
  BY <1>0 DEF Delete, DeleteJob, txVars, TypeOK, CacheFromCommitted, RowsNamed, Ended, End, tableVars
<1> QED
  BY <1>1, <1>2, <1>3, <1>4, <1>5, <1>6, <1>7, InvPartsNext

\* Every step keeps the invariant.
LEMMA NextHolds == StoreInv /\ [Next]_vars => StoreInv'
<1> SUFFICES ASSUME StoreInv, [Next]_vars PROVE StoreInv'
  OBVIOUS
<1>1. CASE Next
  <2>1. PICK j \in JobIds :
          Begin(j) \/ Progress(j) \/ Fail(j) \/ AskDelete(j) \/ Delete(j)
    BY <1>1 DEF Next
  <2> QED
    BY <2>1, BeginKeeps, DocumentKeeps, CacheKeeps, CompleteKeeps, CommitKeeps,
       FailKeeps, RollbackKeeps, AskDeleteKeeps, DeleteKeeps DEF Progress
<1>2. CASE UNCHANGED vars
  BY <1>2 DEF vars, tableVars, txVars, StoreInv, TypeOK, TableTypeOK, Extent, IsNext,
     StatusIs, AllOrNothing, RowIsKept, CacheFromCommitted
<1> QED
  BY <1>1, <1>2

-----------------------------------------------------------------------------
(***************************************************************************)
(* Theorems                                                                *)
(***************************************************************************)

\* The invariant holds at every statement of every transaction.
THEOREM StoreInductive == Spec => []StoreInv
<1> QED
  BY InitHolds, NextHolds, PTL DEF Spec

\* Types, for any number of jobs, repositories and document types.
THEOREM StoreTypeCorrect == Spec => []TypeOK
<1>1. StoreInv => TypeOK
  BY DEF StoreInv
<1> QED
  BY <1>1, StoreInductive, PTL

\* Documents, status and gemini_calls_used of a job are visible together or
\* not at all (store.go:33-37).
THEOREM StoresWhole == Spec => []AllOrNothing
<1>1. StoreInv => AllOrNothing
  BY DEF StoreInv
<1> QED
  BY <1>1, StoreInductive, PTL

\* A store that has begun to write finds its job at the end (store.go:87-89).
THEOREM WritersKeepTheirJob == Spec => []RowIsKept
<1>1. StoreInv => RowIsKept
  BY DEF StoreInv
<1> QED
  BY <1>1, StoreInductive, PTL

\* Whatever is in the cache comes from a store that committed (store.go:47-48).
THEOREM CacheIsCommitted == Spec => []CacheFromCommitted
<1>1. StoreInv => CacheFromCommitted
  BY DEF StoreInv
<1> QED
  BY <1>1, StoreInductive, PTL

\* Stores wait in the order of docTypes only, so never in a circle: the type
\* that k needs next is behind the one that j waits for (store.go:51).
THEOREM NoCircleOfWaits == Spec => []WaitsUpward
<1>1. StoreInv => WaitsUpward
  <2> SUFFICES ASSUME StoreInv, NEW j \in JobIds, NEW k \in JobIds,
                      NEW d \in DocTypes, NEW e \in DocTypes,
                      WaitsFor(j, k, d), e \in txDocs[k] \ cacheDone[k]
               PROVE  Place[d] < Place[e]
    BY DEF WaitsUpward
  <2>1. d \in cacheDone[k]
    BY DEF WaitsFor
  <2> QED
    BY <2>1 DEF StoreInv, Extent
<1> QED
  BY <1>1, StoreInductive, PTL

-----------------------------------------------------------------------------
(***************************************************************************)
(* The refinement of AtomicStore                                           *)
(***************************************************************************)

\* The two modules mean the same by the operators of the tables.
LEMMA AtomicTables ==
    ASSUME NEW j \in JobIds
    PROVE  /\ Atomic!Owned(j, row[j].user) <=> Owned(j, row[j].user)
           /\ Atomic!DeleteJob(j, row[j].user) <=> DeleteJob(j, row[j].user)
  BY DEF Atomic!Owned, Owned, Atomic!DeleteJob, DeleteJob

LEMMA AtomicCount == \A S : Atomic!Cardinality(S) = Cardinality(S)
  BY Zenon DEF Atomic!Cardinality, Cardinality

\* A commit is the whole store at once.
LEMMA CommitRefines ==
    ASSUME StoreInv, NEW j \in JobIds, Commit(j)
    PROVE  Atomic!StoreOnce(j, txDocs[j])
<1>1. /\ cacheDone[j] = txDocs[j] /\ docsDone[j] = txDocs[j]
      /\ status[j] = "generating"
  BY CommitWrites DEF Commit
<1>2. row[j].job = j
  BY InvParts DEF RowsNamed
<1>3. documents' = [documents EXCEPT ![j] = @ \cup txDocs[j]]
  BY <1>1 DEF Commit
<1>4. Atomic!StoreTx(row[j], txDocs[j])
  BY <1>1, <1>2, <1>3, AtomicCount DEF Commit, Atomic!StoreTx, Atomic!Owned
<1> QED
  BY <1>1, <1>4 DEF Commit, Atomic!StoreOnce

\* Every step is a store, a deletion, or nothing that a client can see.
LEMMA StepRefines ==
    ASSUME StoreInv, [Next]_vars
    PROVE  [Atomic!AtomicNext]_(Atomic!atomicVars)
<1> USE AtomicNames DEF Atomic!atomicVars, Atomic!tableVars
<1>1. CASE UNCHANGED vars
  BY <1>1 DEF vars, tableVars
<1>2. ASSUME NEW j \in JobIds, Commit(j)
      PROVE  Atomic!AtomicNext
  <2>1. Atomic!StoreOnce(j, txDocs[j])
    BY <1>2, CommitRefines
  <2>2. txDocs[j] # {}
    BY <1>2, CommitWrites DEF Commit
  <2>3. txDocs[j] \in SUBSET DocTypes
    BY InvParts DEF TypeOK
  <2> QED
    BY <2>1, <2>2, <2>3 DEF Atomic!AtomicNext
<1>3. ASSUME NEW j \in JobIds, Delete(j)
      PROVE  Atomic!AtomicNext
  <2>1. Atomic!DeleteOnce(j)
    BY <1>3, AtomicTables DEF Delete, Atomic!DeleteOnce
  <2> QED
    BY <2>1 DEF Atomic!AtomicNext
<1>4. ASSUME NEW j \in JobIds,
             \/ Begin(j) \/ UpsertDocument(j) \/ UpsertDocCache(j) \/ CompleteJob(j)
             \/ Fail(j) \/ Rollback(j) \/ AskDelete(j)
      PROVE  UNCHANGED Atomic!atomicVars
  BY <1>4 DEF Begin, UpsertDocument, UpsertDocCache, CompleteJob, Fail, Rollback,
     AskDelete, tableVars
<1> QED
  BY <1>1, <1>2, <1>3, <1>4 DEF Next, Progress

\* The statements implement the atomic store that the pipeline model takes
\* for granted (Worker, Store).
THEOREM StoreRefinement == Spec => AtomicSpec
<1>1. Init => Atomic!AtomicInit
  BY DEF Init
<1> QED
  BY <1>1, StoreInductive, StepRefines, PTL DEF Spec, AtomicSpec, Atomic!AtomicSpec

=============================================================================

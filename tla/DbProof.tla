------------------------------- MODULE DbProof ------------------------------
(***************************************************************************)
(* Proofs about the database for any number of processes, keys, chains and *)
(* records: its types, and what its record locks are for.  LockInv says    *)
(* what a process inside a list holds and gives ChainIsolated and          *)
(* FreeIsolated; its converse HeldInside gives DeadlockNeedsTail.  Then    *)
(* the data of the records: every index record owns a data record of the   *)
(* length it tells, and no write in place changes a length, whatever the   *)
(* locks do and whoever dies where.                                        *)
(***************************************************************************)
EXTENDS DbSafety, TLAPS

\* A process that stops leaves the types alone.
LEMMA DieType ==
  ASSUME TypeOK, NEW p \in Proc, Die(p)
  PROVE  TypeOK'
BY DEF TypeOK, Die, ReleaseAll, files

\* A process at rest has a well-typed handle.
LEMMA RestType ==
  ASSUME NEW pos \in 0..(IdxMax + 1)
  PROVE  Rest(pos) \in Handle
BY DbAssumption DEF Rest, Handle, Cell, Slot

\* A call that returns leaves the types alone.
LEMMA ReturnType ==
  ASSUME TypeOK, NEW p \in Proc, NEW l, Return(p, l)
  PROVE  TypeOK'
<1>1. h[p].pos \in 0..(IdxMax + 1)
  BY DEF TypeOK, Handle
<1>2. Rest(h[p].pos) \in Handle
  BY <1>1, RestType
<1>3. NoRet \in Rets
  BY DEF NoRet, Rets
<1> QED
  BY <1>2, <1>3 DEF TypeOK, Return, Release, Goto, files, Labels, NoCall

\* _db_readidx of a record leaves a well-typed handle.
LEMMA ReadIdxType ==
  ASSUME TypeOK, NEW p \in Proc, NEW r \in Cell
  PROVE  ReadIdx(p, r) \in Handle
<1>1. h[p] \in Handle /\ ptr[r] \in Cell
  BY DEF TypeOK
<1>2. rec[r].datoff \in Slot /\ rec[r].datlen \in Nat
  BY DEF TypeOK
<1>3. r + 1 \in 0..(IdxMax + 1)
  BY DbAssumption DEF Cell
<1> QED
  BY <1>1, <1>2, <1>3 DEF ReadIdx, Handle

\* The offset handed to a pointer field is an offset of the file.
LEMMA PtrArgType ==
  ASSUME TypeOK, NEW p \in Proc
  PROVE  PtrArg(p) \in Cell
<1>1. h[p] \in Handle
  BY DEF TypeOK
<1>2. /\ h[p].ptrval \in Cell /\ h[p].freeptr \in Cell /\ h[p].idxoff \in Cell
      /\ h[p].saveptr \in Cell /\ h[p].link \in Cell
  BY <1>1 DEF Handle
<1>3. 0 \in Cell
  BY DbAssumption DEF Cell
<1> QED
  BY <1>2, <1>3 DEF PtrArg

\* Nothing a call does before it touches a file disturbs the types.
LEMMA EnterType ==
  ASSUME TypeOK, NEW p \in Proc, Enter(p)
  PROVE  TypeOK'
<1>1. CASE Begin(p)
  <2>1. PICK c \in Calls[p] :
          /\ c.op \in KeyedOps
          /\ call' = [call EXCEPT ![p] = c]
          /\ h' = [h EXCEPT ![p].ptroff = Hash[c.key]]
    BY <1>1 DEF Begin
  <2>2. c \in Call
    BY <2>1, DbAssumption
  <2>3. Hash[c.key] \in Cell
    BY <2>2, DbAssumption DEF Call, Cell
  <2>4. h' \in [Proc -> Handle]
    <3>1. h[p] \in Handle
      BY DEF TypeOK
    <3>2. [h[p] EXCEPT !.ptroff = Hash[c.key]] \in Handle
      BY <2>3, <3>1 DEF Handle
    <3> QED
      BY <2>1, <3>2 DEF TypeOK
  <2>5. call' \in [Proc -> Call \cup {NoCall}] /\ call'[p] \in Call
    BY <2>1, <2>2 DEF TypeOK
  <2>6. left' \in [Proc -> Nat]
    BY <1>1 DEF Begin, TypeOK
  <2> QED
    BY <1>1, <2>1, <2>4, <2>5, <2>6 DEF TypeOK, Begin, Goto, files, locks, Labels
<1>2. CASE StoreBadLength(p)
  BY <1>2, DieType DEF StoreBadLength
<1>3. CASE StoreBadFlag(p)
  BY <1>3 DEF TypeOK, StoreBadFlag, files, locks
<1>4. CASE Rewind(p)
  <2>1. FirstRec \in 0..(IdxMax + 1)
    BY DbAssumption DEF FirstRec
  <2>2. [h[p] EXCEPT !.pos = FirstRec] \in Handle
    <3>1. h[p] \in Handle
      BY DEF TypeOK
    <3> QED
      BY <2>1, <3>1 DEF Handle
  <2>3. h' \in [Proc -> Handle]
    BY <1>4, <2>2 DEF TypeOK, Rewind
  <2> QED
    BY <1>4, <2>3 DEF TypeOK, Rewind, files, locks
<1>5. CASE BeginNextrec(p)
  <2>1. PICK c \in Calls[p] : c.op = "nextrec" /\ call' = [call EXCEPT ![p] = c]
    BY <1>5 DEF BeginNextrec
  <2>2. c \in Call
    BY <2>1, DbAssumption
  <2> QED
    BY <1>5, <2>1, <2>2 DEF TypeOK, BeginNextrec, Goto, files, locks, Labels, Scanning
<1>6. CASE Close(p)
  <2>1. Rest(0) \in Handle
    BY RestType, DbAssumption
  <2> QED
    BY <1>6, <2>1 DEF TypeOK, Close, ReleaseAll, Goto, files, Labels
<1> QED
  BY <1>1, <1>2, <1>3, <1>4, <1>5, <1>6 DEF Enter

\* The index file after _db_writeidx and _db_writeptr is an index file.
LEMMA WriteIdxType ==
  ASSUME TypeOK, NEW p \in Proc, NEW r \in Cell, NEW k \in Key \cup {Blank},
         NEW len \in Nat, NEW next \in Cell, WriteIdx(p, r, k, len, next)
  PROVE  /\ ptr' \in [Cell -> Cell]
         /\ rec' \in [Cell -> [key : Key \cup {Blank}, keylen : Nat, datoff : Slot, datlen : Nat]]
<1>1. h[p].datoff \in Slot /\ h[p].datlen \in Nat
  BY DEF TypeOK, Handle
<1> QED
  BY <1>1 DEF TypeOK, WriteIdx

\* A write of a pointer keeps the types.
LEMMA WritePtrType ==
  ASSUME TypeOK, NEW p \in Proc, NEW c \in Cell, NEW l \in Labels, WritePtr(p, c, l)
  PROVE  /\ ptr' \in [Cell -> Cell]
         /\ pc' \in [Proc -> Labels]
         /\ pc[p] \notin {"idle", "closed"} =>
              \A q \in Proc : pc'[q] \in {"idle", "closed"} \/ call'[q] \in Call
<1>1. PtrArg(p) \in Cell
  BY PtrArgType
<1> QED
  BY <1>1 DEF TypeOK, WritePtr, Goto

\* Locking steps leave the types alone.
LEMMA LockType ==
  ASSUME TypeOK, NEW p \in Proc,
         LockGranted(p) \/ DelUnlock(p) \/ FfUnlock(p) \/ UnlockDat(p) \/ UnlockTail(p)
  PROVE  TypeOK'
<1>1. CASE LockGranted(p)
  <2>1. AfterLock(p) \in Labels
    BY DEF AfterLock, Labels, Reading, Writing, Deleting, Finding, Appending, Scanning
  <2>2. wlock' \in [Lock -> SUBSET Proc] /\ rlock' \in [Lock -> SUBSET Proc]
    BY <1>1 DEF TypeOK, LockGranted, Grant
  <2>3. pc[p] \notin {"idle", "closed"}
    BY <1>1 DEF LockGranted, LockPoints
  <2> QED
    BY <1>1, <2>1, <2>2, <2>3 DEF TypeOK, LockGranted, Goto, files
<1>2. CASE DelUnlock(p)
  BY <1>2 DEF TypeOK, DelUnlock, Release, Goto, files, Labels, Writing
<1>3. CASE FfUnlock(p)
  BY <1>3 DEF TypeOK, FfUnlock, Release, Goto, files, Labels, Writing, Appending
<1>4. CASE UnlockDat(p)
  BY <1>4 DEF TypeOK, UnlockDat, Release, Goto, files, Labels, Writing, Appending
<1>5. CASE UnlockTail(p)
  BY <1>5 DEF TypeOK, UnlockTail, Goto, files, locks, Labels, Writing
<1> QED
  BY <1>1, <1>2, <1>3, <1>4, <1>5

\* Steps that only read, and change nothing but the handle, the place in the
\* call and the result, keep the types if the new values have theirs.
LEMMA LocalType ==
  ASSUME TypeOK, NEW p \in Proc, Local(p),
         pc[p] \notin {"idle", "closed"},
         NEW hh \in Handle, h' = [h EXCEPT ![p] = hh],
         NEW l \in Labels, pc' = [pc EXCEPT ![p] = l],
         ret' \in [Proc -> Rets]
  PROVE  TypeOK'
BY DEF TypeOK, Local, files, locks

\* A result with another code, key or value is a result.
LEMMA RetsType ==
  ASSUME NEW r \in Rets
  PROVE  /\ \A rc \in {-1, 0, 1} : [r EXCEPT !.rc = rc] \in Rets
         /\ \A k \in Key \cup {Blank} : [r EXCEPT !.key = k] \in Rets
         /\ \A v \in Val \cup {Spaces} : [r EXCEPT !.val = v] \in Rets
BY DEF Rets

\* The steps of _db_find_and_lock keep the types.
LEMMA WalkType ==
  ASSUME TypeOK, NEW p \in Proc,
         ReadHead(p) \/ WalkHit(p) \/ WalkNext(p) \/ WalkEnd(p)
  PROVE  TypeOK'
<1>0. h[p] \in Handle /\ ret \in [Proc -> Rets]
  BY DEF TypeOK
<1>1. h[p].offset \in Cell /\ h[p].ptroff \in Cell
  BY <1>0 DEF Handle
<1>2. ptr[h[p].offset] \in Cell /\ ptr[h[p].ptroff] \in Cell
  BY <1>1 DEF TypeOK
<1>3. CASE ReadHead(p)
  <2>0. 0 \in 0..(IdxMax + 1)
    BY DbAssumption
  <2>1. [h[p] EXCEPT !.offset = ptr[h[p].ptroff], !.pos = 0] \in Handle
    BY <1>0, <1>2, <2>0 DEF Handle
  <2>2. h' = [h EXCEPT ![p] = [h[p] EXCEPT !.offset = ptr[h[p].ptroff], !.pos = 0]]
    BY <1>3 DEF ReadHead
  <2>3. "walk" \in Labels
    BY DEF Labels, Reading
  <2> QED
    BY <1>0, <1>3, <2>1, <2>2, <2>3, LocalType DEF ReadHead, Goto
<1>4. CASE WalkHit(p)
  <2>1. ReadIdx(p, h[p].offset) \in Handle
    BY <1>1, ReadIdxType
  <2>2. AfterHit(p, h[p].offset) \in Labels
    BY DEF AfterHit, Labels, Reading, Writing
  <2>3. ret' \in [Proc -> Rets]
    <3>1. ret[p] \in Rets
      BY <1>0
    <3>2. [ret[p] EXCEPT !.rc = IF call[p].op = "insert" THEN 1 ELSE 0] \in Rets
      BY <3>1, RetsType
    <3>3. ret' = [ret EXCEPT ![p] = [ret[p] EXCEPT !.rc = IF call[p].op = "insert" THEN 1 ELSE 0]]
      BY <1>4 DEF WalkHit
    <3> QED
      BY <1>0, <3>2, <3>3
  <2> QED
    BY <1>4, <2>1, <2>2, <2>3, LocalType DEF WalkHit, Goto
<1>5. CASE WalkNext(p)
  <2>1. ReadIdx(p, h[p].offset) \in Handle
    BY <1>1, ReadIdxType
  <2>2. [ReadIdx(p, h[p].offset) EXCEPT !.ptroff = h[p].offset, !.offset = ptr[h[p].offset]] \in Handle
    BY <1>1, <1>2, <2>1 DEF Handle
  <2>3. "walk" \in Labels /\ pc' = [pc EXCEPT ![p] = "walk"]
    BY <1>5 DEF TypeOK, WalkNext, Labels, Reading
  <2> QED
    BY <1>0, <1>5, <2>2, <2>3, LocalType DEF WalkNext
<1>6. CASE WalkEnd(p)
  <2>1. h' = [h EXCEPT ![p] = h[p]]
    BY <1>6 DEF TypeOK, WalkEnd
  <2>2. "link" \in Labels /\ "unlock" \in Labels
    BY DEF Labels, Writing
  <2>3. ret' \in [Proc -> Rets]
    <3>1. ret[p] \in Rets
      BY <1>0
    <3>2. \A rc \in {-1, 0, 1} : [ret[p] EXCEPT !.rc = rc] \in Rets
      BY <3>1, RetsType
    <3> QED
      BY <1>0, <1>6, <3>2 DEF WalkEnd
  <2> QED
    BY <1>0, <1>6, <2>1, <2>2, <2>3, LocalType DEF WalkEnd, Goto
<1> QED
  BY <1>3, <1>4, <1>5, <1>6

\* _db_readdat keeps the types.
LEMMA ReadDatType ==
  ASSUME TypeOK, NEW p \in Proc, NEW l \in Labels, ReadDat(p, l),
         pc[p] \notin {"idle", "closed"}
  PROVE  TypeOK'
<1>1. CASE dat[h[p].datoff].len # h[p].datlen
  BY <1>1, DieType DEF ReadDat
<1>2. CASE dat[h[p].datoff].len = h[p].datlen
  <2>1. h[p] \in Handle /\ ret[p] \in Rets /\ h' = [h EXCEPT ![p] = h[p]]
    BY <1>2 DEF TypeOK, ReadDat
  <2>2. dat[h[p].datoff].val \in Val \cup {Spaces}
    BY <2>1 DEF TypeOK, Handle
  <2>3. [ret[p] EXCEPT !.val = dat[h[p].datoff].val] \in Rets
    BY <2>1, <2>2, RetsType
  <2>4. ret' \in [Proc -> Rets]
    BY <1>2, <2>3 DEF TypeOK, ReadDat
  <2> QED
    BY <1>2, <2>1, <2>4, LocalType DEF ReadDat, Goto
<1> QED
  BY <1>1, <1>2

\* The reads of _db_dodelete, db_store and _db_findfree keep the types.
LEMMA ReadType ==
  ASSUME TypeOK, NEW p \in Proc,
         DelFree(p) \/ ReadLink(p) \/ FfHead(p) \/ FfHit(p) \/ FfNext(p) \/ FfEnd(p)
  PROVE  TypeOK'
<1>0. h[p] \in Handle /\ ret \in [Proc -> Rets] /\ FREE \in Cell
  BY DbAssumption DEF TypeOK, FREE, Cell
<1>1. h[p].offset \in Cell /\ h[p].ptrval \in Cell
  BY <1>0 DEF Handle
<1>2. ptr[h[p].offset] \in Cell /\ ptr[FREE] \in Cell
  BY <1>0, <1>1 DEF TypeOK
<1>l. {"del_idx", "ff_lock", "app_datlock", "ff_walk", "ff_take", "ff_unlock"} \subseteq Labels
  BY DEF Labels, Writing, Deleting, Finding, Appending
<1>3. CASE DelFree(p)
  <2>1. [h[p] EXCEPT !.freeptr = ptr[FREE], !.saveptr = h[p].ptrval] \in Handle
    BY <1>0, <1>1, <1>2 DEF Handle
  <2>2. h' = [h EXCEPT ![p] = [h[p] EXCEPT !.freeptr = ptr[FREE], !.saveptr = h[p].ptrval]]
    BY <1>3 DEF DelFree
  <2> QED
    BY <1>0, <1>3, <1>l, <2>1, <2>2, LocalType DEF DelFree, Goto
<1>4. CASE ReadLink(p)
  <2>1. call[p] \in Call
    BY <1>4 DEF TypeOK, ReadLink
  <2>2. Chain(p) \in Cell
    BY <2>1, DbAssumption DEF Chain, Call, Cell
  <2>3. [h[p] EXCEPT !.link = ptr[Chain(p)]] \in Handle
    BY <1>0, <2>2 DEF TypeOK, Handle
  <2>4. h' = [h EXCEPT ![p] = [h[p] EXCEPT !.link = ptr[Chain(p)]]]
    BY <1>4 DEF ReadLink
  <2> QED
    BY <1>0, <1>4, <1>l, <2>3, <2>4, LocalType DEF ReadLink, Goto
<1>5. CASE FfHead(p)
  <2>1. [h[p] EXCEPT !.saveoffset = FREE, !.offset = ptr[FREE]] \in Handle
    BY <1>0, <1>2 DEF Handle
  <2>2. h' = [h EXCEPT ![p] = [h[p] EXCEPT !.saveoffset = FREE, !.offset = ptr[FREE]]]
    BY <1>5 DEF FfHead
  <2> QED
    BY <1>0, <1>5, <1>l, <2>1, <2>2, LocalType DEF FfHead, Goto
<1>6. CASE FfHit(p)
  <2>1. ReadIdx(p, h[p].offset) \in Handle
    BY <1>1, ReadIdxType
  <2> QED
    BY <1>0, <1>6, <1>l, <2>1, LocalType DEF FfHit, Goto
<1>7. CASE FfNext(p)
  <2>1. ReadIdx(p, h[p].offset) \in Handle
    BY <1>1, ReadIdxType
  <2>2. [ReadIdx(p, h[p].offset) EXCEPT !.saveoffset = h[p].offset, !.offset = ptr[h[p].offset]] \in Handle
    BY <1>1, <1>2, <2>1 DEF Handle
  <2>3. pc' = [pc EXCEPT ![p] = "ff_walk"]
    BY <1>7 DEF TypeOK, FfNext
  <2> QED
    BY <1>0, <1>7, <1>l, <2>2, <2>3, LocalType DEF FfNext
<1>8. CASE FfEnd(p)
  <2>1. h' = [h EXCEPT ![p] = h[p]]
    BY <1>8 DEF TypeOK, FfEnd
  <2> QED
    BY <1>0, <1>8, <1>l, <2>1, LocalType DEF FfEnd, Goto
<1> QED
  BY <1>3, <1>4, <1>5, <1>6, <1>7, <1>8

\* The reads of db_nextrec keep the types.
LEMMA NextrecType ==
  ASSUME TypeOK, NEW p \in Proc, NextIdx(p) \/ NextEof(p) \/ NextBadRecord(p)
  PROVE  TypeOK'
<1>0. h[p] \in Handle /\ ret[p] \in Rets
  BY DEF TypeOK
<1>l. {"nx_read", "nx_dat", "nx_unlock"} \subseteq Labels
  BY DEF Labels, Scanning
<1>1. CASE NextIdx(p)
  <2>1. h[p].pos \in Cell
    BY <1>1, DbAssumption DEF NextIdx, TypeOK, FirstRec, Cell
  <2>2. ReadIdx(p, h[p].pos) \in Handle
    BY <2>1, ReadIdxType
  <2>3. rec[h[p].pos].key \in Key \cup {Blank}
    BY <2>1 DEF TypeOK
  <2>4. [ret[p] EXCEPT !.key = rec[h[p].pos].key] \in Rets
    BY <1>0, <2>3, RetsType
  <2>5. PICK l \in {"nx_read", "nx_dat"} : pc' = [pc EXCEPT ![p] = l]
    BY <1>1 DEF TypeOK, NextIdx, Goto
  <2>6. ret' \in [Proc -> Rets]
    BY <1>1, <2>4 DEF TypeOK, NextIdx
  <2> QED
    BY <1>1, <1>l, <2>2, <2>5, <2>6, LocalType DEF NextIdx
<1>2. CASE NextEof(p)
  <2>1. [ret[p] EXCEPT !.rc = -1] \in Rets
    BY <1>0, RetsType
  <2>2. ret' \in [Proc -> Rets]
    BY <1>2, <2>1 DEF TypeOK, NextEof
  <2>3. h' = [h EXCEPT ![p] = h[p]]
    BY <1>2 DEF TypeOK, NextEof
  <2> QED
    BY <1>0, <1>2, <1>l, <2>2, <2>3, LocalType DEF NextEof, Goto
<1>3. CASE NextBadRecord(p)
  BY <1>3, DieType DEF NextBadRecord
<1> QED
  BY <1>1, <1>2, <1>3

\* The writes keep the types.
LEMMA WriteType ==
  ASSUME TypeOK, NEW p \in Proc,
         \/ DelDat(p) \/ DelIdx(p) \/ DelPush(p) \/ DelLink(p) \/ FfTake(p)
         \/ ReuseDat(p) \/ ReuseIdx(p) \/ AppendDat(p) \/ AppendIdx(p)
         \/ Publish(p) \/ Overwrite(p)
  PROVE  TypeOK'
<1>0. h[p] \in Handle /\ call[p] \in Call /\ FREE \in Cell
  <2>1. pc[p] \notin {"idle", "closed"}
    BY DEF DelDat, DelIdx, DelPush, DelLink, FfTake, ReuseDat, ReuseIdx, AppendDat,
       AppendIdx, Publish, Overwrite
  <2>2. FREE \in Cell
    BY DbAssumption DEF FREE, Cell
  <2> QED
    BY <2>1, <2>2 DEF TypeOK
<1>1. /\ h[p].datoff \in Slot /\ h[p].datlen \in Nat /\ h[p].idxoff \in Cell
      /\ h[p].freeptr \in Cell /\ h[p].link \in Cell /\ h[p].ptroff \in Cell
      /\ h[p].saveoffset \in Cell
  BY <1>0 DEF Handle
<1>2. /\ call[p].key \in Key /\ KeyLen[call[p].key] \in Nat
      /\ ValLen[call[p].val] \in Nat /\ Chain(p) \in Cell
      /\ NewDat(p) \in [val : Val \cup {Spaces}, len : Nat]
  BY <1>0, DbAssumption DEF Call, Chain, Cell, NewDat
<1>l. {"del_free", "del_push", "del_link", "del_unlock", "ff_unlock", "re_idx", "pub",
       "app_datunlock", "app_idxunlock", "unlock"} \subseteq Labels
  BY DEF Labels, Writing, Deleting, Finding, Appending
<1>3. CASE DelDat(p)
  BY <1>1, <1>3, <1>l DEF TypeOK, DelDat, Goto, locks
<1>4. CASE DelIdx(p)
  <2>1. [h[p] EXCEPT !.ptrval = h[p].freeptr] \in Handle
    BY <1>0, <1>1 DEF Handle
  <2>2. h' = [h EXCEPT ![p] = [h[p] EXCEPT !.ptrval = h[p].freeptr]]
    BY <1>4 DEF DelIdx
  <2>3. ptr' \in [Cell -> Cell]
     /\ rec' \in [Cell -> [key : Key \cup {Blank}, keylen : Nat, datoff : Slot, datlen : Nat]]
    BY <1>1, <1>2, <1>4, WriteIdxType DEF DelIdx
  <2> QED
    BY <1>4, <1>l, <2>1, <2>2, <2>3 DEF TypeOK, DelIdx, Goto, locks
<1>5. CASE DelPush(p)
  <2>1. /\ ptr' \in [Cell -> Cell] /\ pc' \in [Proc -> Labels]
        /\ \A q \in Proc : pc'[q] \in {"idle", "closed"} \/ call'[q] \in Call
    BY <1>0, <1>5, <1>l, WritePtrType DEF DelPush
  <2> QED
    BY <1>5, <2>1 DEF TypeOK, DelPush, WritePtr, locks
<1>6. CASE DelLink(p)
  <2>1. /\ ptr' \in [Cell -> Cell] /\ pc' \in [Proc -> Labels]
        /\ \A q \in Proc : pc'[q] \in {"idle", "closed"} \/ call'[q] \in Call
    BY <1>1, <1>6, <1>l, WritePtrType DEF DelLink
  <2>2. [h[p] EXCEPT !.pos = 0] \in Handle
    BY <1>0, DbAssumption DEF Handle
  <2>3. h' = [h EXCEPT ![p] = [h[p] EXCEPT !.pos = 0]]
    BY <1>6 DEF DelLink
  <2>4. h' \in [Proc -> Handle]
    BY <2>2, <2>3 DEF TypeOK
  <2> QED
    BY <1>6, <2>1, <2>4 DEF TypeOK, DelLink, WritePtr, locks
<1>7. CASE FfTake(p)
  <2>1. /\ ptr' \in [Cell -> Cell] /\ pc' \in [Proc -> Labels]
        /\ \A q \in Proc : pc'[q] \in {"idle", "closed"} \/ call'[q] \in Call
    BY <1>1, <1>7, <1>l, WritePtrType DEF FfTake
  <2> QED
    BY <1>7, <2>1 DEF TypeOK, FfTake, WritePtr, locks
<1>8. CASE ReuseDat(p)
  <2>1. [h[p] EXCEPT !.datlen = ValLen[call[p].val]] \in Handle
    BY <1>0, <1>2 DEF Handle
  <2>2. h' = [h EXCEPT ![p] = [h[p] EXCEPT !.datlen = ValLen[call[p].val]]]
    BY <1>8 DEF ReuseDat
  <2> QED
    BY <1>1, <1>2, <1>8, <1>l, <2>1, <2>2 DEF TypeOK, ReuseDat, Goto, locks
<1>9. CASE ReuseIdx(p)
  <2>1. [h[p] EXCEPT !.ptrval = h[p].link] \in Handle
    BY <1>0, <1>1 DEF Handle
  <2>2. h' = [h EXCEPT ![p] = [h[p] EXCEPT !.ptrval = h[p].link]]
    BY <1>9 DEF ReuseIdx
  <2>3. ptr' \in [Cell -> Cell]
     /\ rec' \in [Cell -> [key : Key \cup {Blank}, keylen : Nat, datoff : Slot, datlen : Nat]]
    BY <1>1, <1>2, <1>9, WriteIdxType DEF ReuseIdx
  <2> QED
    BY <1>9, <1>l, <2>1, <2>2, <2>3 DEF TypeOK, ReuseIdx, Goto, locks
<1>10. CASE AppendDat(p)
  <2>1. CASE dateof < DatMax
    <3>1. dateof + 1 \in Slot
      BY <2>1, DbAssumption DEF TypeOK, Slot
    <3>2. [h[p] EXCEPT !.datoff = dateof + 1, !.datlen = ValLen[call[p].val]] \in Handle
      BY <1>0, <1>2, <3>1 DEF Handle
    <3>3. h' = [h EXCEPT ![p] = [h[p] EXCEPT !.datoff = dateof + 1, !.datlen = ValLen[call[p].val]]]
      BY <1>10, <2>1 DEF AppendDat
    <3>4. dat' \in [Slot -> [val : Val \cup {Spaces}, len : Nat]]
      BY <1>2, <1>10, <2>1 DEF TypeOK, AppendDat
    <3> QED
      BY <1>10, <1>l, <2>1, <3>1, <3>2, <3>3, <3>4 DEF TypeOK, AppendDat, Goto, locks
  <2>2. CASE ~ (dateof < DatMax)
    BY <1>10, <2>2, DieType DEF AppendDat
  <2> QED
    BY <2>1, <2>2
<1>11. CASE AppendIdx(p)
  <2>1. CASE eof < IdxMax
    <3>1. eof + 1 \in Cell /\ eof + 1 \in NHash..IdxMax
      BY <2>1, DbAssumption DEF TypeOK, Cell
    <3>2. [h[p] EXCEPT !.idxoff = eof + 1, !.ptrval = h[p].link] \in Handle
      BY <1>0, <1>1, <3>1 DEF Handle
    <3>3. h' = [h EXCEPT ![p] = [h[p] EXCEPT !.idxoff = eof + 1, !.ptrval = h[p].link]]
      BY <1>11, <2>1 DEF AppendIdx
    <3>4. ptr' \in [Cell -> Cell]
       /\ rec' \in [Cell -> [key : Key \cup {Blank}, keylen : Nat, datoff : Slot, datlen : Nat]]
      BY <1>1, <1>2, <1>11, <2>1, <3>1, WriteIdxType DEF AppendIdx
    <3> QED
      BY <1>11, <1>l, <2>1, <3>1, <3>2, <3>3, <3>4 DEF TypeOK, AppendIdx, Goto, locks
  <2>2. CASE ~ (eof < IdxMax)
    BY <1>11, <2>2, DieType DEF AppendIdx
  <2> QED
    BY <2>1, <2>2
<1>12. CASE Publish(p)
  <2>1. /\ ptr' \in [Cell -> Cell] /\ pc' \in [Proc -> Labels]
        /\ \A q \in Proc : pc'[q] \in {"idle", "closed"} \/ call'[q] \in Call
    BY <1>2, <1>12, <1>l, WritePtrType DEF Publish
  <2>2. [h[p] EXCEPT !.pos = 0] \in Handle
    BY <1>0, DbAssumption DEF Handle
  <2>3. h' = [h EXCEPT ![p] = [h[p] EXCEPT !.pos = 0]]
    BY <1>12 DEF Publish
  <2>4. h' \in [Proc -> Handle]
    BY <2>2, <2>3 DEF TypeOK
  <2> QED
    BY <1>12, <2>1, <2>4 DEF TypeOK, Publish, WritePtr, locks
<1>13. CASE Overwrite(p)
  BY <1>1, <1>2, <1>13, <1>l DEF TypeOK, Overwrite, Goto, locks
<1> QED
  BY <1>3, <1>4, <1>5, <1>6, <1>7, <1>8, <1>9, <1>10, <1>11, <1>12, <1>13

\* Every step of a process keeps the types.
LEMMA StepType ==
  ASSUME TypeOK, NEW p \in Proc, Step(p)
  PROVE  TypeOK'
<1>l. {"unlock", "nx_unlock"} \subseteq Labels
  BY DEF Labels, Scanning
<1>1. CASE Enter(p)
  BY <1>1, EnterType
<1>2. CASE Kill(p)
  BY <1>2, DieType DEF Kill
<1>3. CASE LockDeadlock(p) \/ PtrTooBig(p)
  BY <1>3, DieType DEF LockDeadlock, PtrTooBig
<1>4. CASE UnlockChain(p) \/ NextUnlock(p)
  BY <1>4, ReturnType DEF UnlockChain, NextUnlock
<1>5. CASE FetchDat(p)
  BY <1>5, <1>l, ReadDatType DEF FetchDat
<1>6. CASE NextDat(p)
  BY <1>6, <1>l, ReadDatType DEF NextDat
<1>7. CASE \/ LockGranted(p) \/ DelUnlock(p) \/ FfUnlock(p)
           \/ UnlockDat(p) \/ UnlockTail(p)
  BY <1>7, LockType
<1>8. CASE ReadHead(p) \/ WalkHit(p) \/ WalkNext(p) \/ WalkEnd(p)
  BY <1>8, WalkType
<1>9. CASE \/ DelFree(p) \/ ReadLink(p) \/ FfHead(p) \/ FfHit(p)
           \/ FfNext(p) \/ FfEnd(p)
  BY <1>9, ReadType
<1>10. CASE NextIdx(p) \/ NextEof(p) \/ NextBadRecord(p)
  BY <1>10, NextrecType
<1>11. CASE \/ DelDat(p) \/ DelIdx(p) \/ DelPush(p) \/ DelLink(p) \/ FfTake(p)
            \/ ReuseDat(p) \/ ReuseIdx(p) \/ AppendDat(p) \/ AppendIdx(p)
            \/ Publish(p) \/ Overwrite(p)
  BY <1>11, WriteType
<1> QED
  BY <1>1, <1>2, <1>3, <1>4, <1>5, <1>6, <1>7, <1>8, <1>9, <1>10, <1>11 DEF Step, InCall

\* TypeOK is an invariant: no operation of db.c, whatever the others do and
\* wherever a process dies, puts a value out of its range.
THEOREM Typing == Spec => []TypeOK
<1>1. Init => TypeOK
  <2> SUFFICES ASSUME Init PROVE TypeOK
    OBVIOUS
  <2>1. 0 \in Cell /\ 0 \in Slot /\ FirstRec \in 0..(IdxMax + 1)
    BY DbAssumption DEF Cell, Slot, FirstRec
  <2>2. h \in [Proc -> Handle]
    BY <2>1, RestType DEF Init
  <2>3. rec \in [Cell -> [key : Key \cup {Blank}, keylen : Nat, datoff : Slot, datlen : Nat]]
    BY <2>1 DEF Init, NoRec
  <2>4. dat \in [Slot -> [val : Val \cup {Spaces}, len : Nat]] /\ ret \in [Proc -> Rets]
    BY DEF Init, NoDat, NoRet, Rets
  <2>5. pc \in [Proc -> Labels]
    BY DEF Init, Labels
  <2> QED
    BY <2>1, <2>2, <2>3, <2>4, <2>5, DbAssumption DEF TypeOK, Init
<1>2. TypeOK /\ [Next]_vars => TypeOK'
  <2> SUFFICES ASSUME TypeOK, [Next]_vars PROVE TypeOK'
    OBVIOUS
  <2>1. CASE UNCHANGED vars
    BY <2>1 DEF TypeOK, vars
  <2>2. CASE \E p \in Proc : Step(p)
    BY <2>2, StepType
  <2> QED
    BY <2>1, <2>2 DEF Next, Done
<1> QED
  BY <1>1, <1>2, PTL DEF Spec

-----------------------------------------------------------------------------
(* The record locks.                                                       *)


\* The regions are different bytes of the file.
LEMMA LockRegions ==
  ASSUME TypeOK, NEW p \in Proc, call[p] \in Call
  PROVE  /\ Chain(p) \in Lock /\ FREE \in Lock /\ TAIL \in Lock /\ DAT \in Lock
         /\ Chain(p) # FREE /\ Chain(p) # DAT /\ FREE # DAT
BY DbAssumption DEF Chain, Call, Lock, FREE, TAIL, DAT

\* A process inside a chain is in a call on a key.
LEMMA InCallHasCall ==
  ASSUME TypeOK, NEW p \in Proc, InChain(p) \/ pc[p] \in LockPoints
  PROVE  call[p] \in Call
BY DEF TypeOK, InChain, Reading, Writing, Deleting, Finding, Appending, LockPoints

\* A step that takes and gives back no lock keeps the discipline, if it does
\* not enter a section that a lock protects.
LEMMA StayInside ==
  ASSUME TypeOK, LockInv, NEW p \in Proc, NEW l,
         UNCHANGED <<rlock, wlock, call, dead>>, pc' = [pc EXCEPT ![p] = l],
         InChain(p)' => InChain(p),
         InFree(p)' => InFree(p) /\ (pc[p] \in Scanning <=> l \in Scanning)
  PROVE  LockInv'
<1>1. WriterAlone'
  BY DEF LockInv, WriterAlone
<1>2. HoldsChain'
  BY DEF TypeOK, LockInv, HoldsChain, InChain, Chain
<1>3. HoldsFree'
  BY DEF TypeOK, LockInv, HoldsFree, InFree
<1> QED
  BY <1>1, <1>2, <1>3 DEF LockInv

\* A process that leaves gives its locks to nobody.
LEMMA LeaveInside ==
  ASSUME TypeOK, LockInv, NEW p \in Proc, ReleaseAll(p), call' = call,
         ~ InChain(p)', ~ InFree(p)',
         \A q \in Proc \ {p} : pc'[q] = pc[q] /\ (q \in dead' <=> q \in dead)
  PROVE  LockInv'
<1>1. WriterAlone'
  BY DEF TypeOK, LockInv, WriterAlone, ReleaseAll
<1>2. HoldsChain'
  <2> SUFFICES ASSUME NEW q \in Proc, InChain(q)'
               PROVE  (q \in (IF call[q].op = "fetch" THEN rlock ELSE wlock)[Chain(q)])'
    BY DEF HoldsChain
  <2>1. q # p /\ InChain(q)
    BY DEF InChain
  <2>2. Chain(q) \in Lock /\ Chain(q)' = Chain(q)
    BY <2>1, InCallHasCall, LockRegions DEF Chain
  <2> QED
    BY <2>1, <2>2 DEF TypeOK, LockInv, HoldsChain, ReleaseAll
<1>3. HoldsFree'
  <2> SUFFICES ASSUME NEW q \in Proc, InFree(q)'
               PROVE  (q \in (IF pc[q] \in Scanning THEN rlock ELSE wlock)[FREE])'
    BY DEF HoldsFree
  <2>1. q # p /\ InFree(q)
    BY DEF InFree
  <2>2. FREE \in Lock
    BY DbAssumption DEF FREE, Lock
  <2> QED
    BY <2>1, <2>2 DEF TypeOK, LockInv, HoldsFree, ReleaseAll
<1> QED
  BY <1>1, <1>2, <1>3 DEF LockInv

\* The same for a process that dies.
LEMMA DieInside ==
  ASSUME TypeOK, LockInv, NEW p \in Proc, Die(p)
  PROVE  LockInv'
BY LeaveInside DEF TypeOK, Die, InChain, InFree

\* Unlocking one region keeps the discipline, if the process is then outside
\* of what this lock protects and enters nothing else.
LEMMA ReleaseInside ==
  ASSUME TypeOK, LockInv, NEW p \in Proc, NEW l \in Lock, Release(p, l),
         UNCHANGED dead, \A q \in Proc \ {p} : pc'[q] = pc[q] /\ call'[q] = call[q],
         InChain(p)' => InChain(p) /\ call'[p] = call[p] /\ Chain(p) # l,
         InFree(p)' => InFree(p) /\ (pc[p] \in Scanning <=> pc'[p] \in Scanning) /\ l # FREE
  PROVE  LockInv'
<1>1. WriterAlone'
  BY DEF TypeOK, LockInv, WriterAlone, Release
<1>2. HoldsChain'
  <2> SUFFICES ASSUME NEW q \in Proc, InChain(q)'
               PROVE  (q \in (IF call[q].op = "fetch" THEN rlock ELSE wlock)[Chain(q)])'
    BY DEF HoldsChain
  <2>1. InChain(q) /\ call'[q] = call[q] /\ (q # p \/ Chain(q) # l)
    BY DEF InChain
  <2>2. Chain(q) \in Lock /\ Chain(q)' = Chain(q)
    BY <2>1, InCallHasCall, LockRegions DEF Chain
  <2> QED
    BY <2>1, <2>2 DEF TypeOK, LockInv, HoldsChain, Release
<1>3. HoldsFree'
  <2> SUFFICES ASSUME NEW q \in Proc, InFree(q)'
               PROVE  (q \in (IF pc[q] \in Scanning THEN rlock ELSE wlock)[FREE])'
    BY DEF HoldsFree
  <2>1. InFree(q) /\ (pc[q] \in Scanning <=> pc'[q] \in Scanning) /\ (q # p \/ l # FREE)
    BY DEF InFree
  <2>2. FREE \in Lock
    BY DbAssumption DEF FREE, Lock
  <2> QED
    BY <2>1, <2>2 DEF TypeOK, LockInv, HoldsFree, Release
<1> QED
  BY <1>1, <1>2, <1>3 DEF LockInv

\* A lock is given to a process only when nobody else holds one that conflicts.
LEMMA GrantInside ==
  ASSUME TypeOK, LockInv, NEW p \in Proc, p \notin dead, LockGranted(p)
  PROVE  LockInv'
<1>1. call[p] \in Call /\ Want(p) \in Lock /\ FREE \in Lock
  <2>1. call[p] \in Call
    BY InCallHasCall DEF LockGranted
  <2> QED
    BY <2>1, LockRegions DEF Want
<1>2. /\ wlock[Want(p)] \subseteq {p}
      /\ Exclusive(p) => rlock[Want(p)] \subseteq {p}
  BY DEF LockGranted, Blockers
<1>3. /\ call' = call /\ dead' = dead /\ pc[p] \in LockPoints
      /\ pc' = [pc EXCEPT ![p] = AfterLock(p)] /\ Grant(p, Want(p))
  BY DEF LockGranted, Goto
<1>4. \A l \in Lock : wlock[l] \subseteq wlock'[l] /\ rlock[l] \subseteq rlock'[l]
  BY <1>1, <1>3 DEF TypeOK, Grant
<1>5. p \in (IF Exclusive(p) THEN wlock' ELSE rlock')[Want(p)]
  BY <1>1, <1>3 DEF TypeOK, Grant
<1>6. WriterAlone'
  <2> SUFFICES ASSUME NEW l \in Lock, NEW x \in wlock'[l], NEW y \in wlock'[l] \cup rlock'[l]
               PROVE  x = y
    BY DEF WriterAlone
  <2>1. CASE l # Want(p)
    <3>1. wlock'[l] = wlock[l] /\ rlock'[l] = rlock[l]
      BY <1>1, <1>3, <2>1 DEF TypeOK, Grant
    <3> QED
      BY <3>1 DEF LockInv, WriterAlone
  <2>2. CASE l = Want(p) /\ Exclusive(p)
    <3>1. wlock'[l] = wlock[l] \cup {p} /\ rlock'[l] = rlock[l]
      BY <1>1, <1>3, <2>2 DEF TypeOK, Grant
    <3> QED
      BY <1>2, <2>2, <3>1
  <2>3. CASE l = Want(p) /\ ~ Exclusive(p)
    <3>1. wlock'[l] = wlock[l] /\ rlock'[l] = rlock[l] \cup {p}
      BY <1>1, <1>3, <2>3 DEF TypeOK, Grant
    <3>2. x = p
      BY <1>2, <2>3, <3>1
    <3> QED
      BY <2>3, <3>1, <3>2 DEF LockInv, WriterAlone
  <2> QED
    BY <2>1, <2>2, <2>3
<1>7. HoldsChain'
  <2> SUFFICES ASSUME NEW q \in Proc, InChain(q)'
               PROVE  (q \in (IF call[q].op = "fetch" THEN rlock ELSE wlock)[Chain(q)])'
    BY DEF HoldsChain
  <2>1. CASE InChain(q)
    <3>1. Chain(q) \in Lock /\ Chain(q)' = Chain(q)
      BY <1>3, <2>1, InCallHasCall, LockRegions DEF Chain
    <3> QED
      BY <1>3, <1>4, <2>1, <3>1 DEF LockInv, HoldsChain
  <2>2. CASE ~ InChain(q)
    <3>1. q = p
      BY <1>3, <2>2 DEF TypeOK, InChain
    <3>2. pc[p] = "lock"
      BY <1>3, <2>2, <3>1 DEF TypeOK, InChain, AfterLock, LockPoints, Reading, Writing,
         Deleting, Finding, Appending
    <3>3. Want(p) = Chain(p) /\ Chain(p)' = Chain(p) /\ (Exclusive(p) <=> call[p].op # "fetch")
      BY <1>3, <3>2 DEF Want, Exclusive, Chain
    <3> QED
      BY <1>3, <1>5, <3>1, <3>3
  <2> QED
    BY <2>1, <2>2
<1>8. HoldsFree'
  <2> SUFFICES ASSUME NEW q \in Proc, InFree(q)'
               PROVE  (q \in (IF pc[q] \in Scanning THEN rlock ELSE wlock)[FREE])'
    BY DEF HoldsFree
  <2>1. CASE q # p
    BY <1>1, <1>3, <1>4, <2>1 DEF TypeOK, LockInv, HoldsFree, InFree
  <2>2. CASE q = p
    <3>1. pc[p] \in {"del_lock", "ff_lock", "nx_lock"} /\ pc'[p] = AfterLock(p)
      BY <1>3, <2>2 DEF TypeOK, InFree, AfterLock, LockPoints, Scanning, Deleting, Finding
    <3>2. Want(p) = FREE /\ (Exclusive(p) <=> pc'[p] \notin Scanning)
      BY <3>1 DEF Want, Exclusive, AfterLock, Scanning
    <3> QED
      BY <1>5, <2>2, <3>2
  <2> QED
    BY <2>1, <2>2
<1> QED
  BY <1>6, <1>7, <1>8 DEF LockInv

\* The steps of a call that neither take nor give back a lock.
LEMMA UnlockedStep ==
  ASSUME TypeOK, LockInv, NEW p \in Proc, p \notin dead,
         \/ ReadHead(p) \/ WalkHit(p) \/ WalkNext(p) \/ WalkEnd(p)
         \/ DelDat(p) \/ DelFree(p) \/ DelIdx(p) \/ DelPush(p) \/ DelLink(p)
         \/ ReadLink(p) \/ FfHead(p) \/ FfHit(p) \/ FfNext(p) \/ FfEnd(p) \/ FfTake(p)
         \/ ReuseDat(p) \/ ReuseIdx(p) \/ UnlockTail(p) \/ Publish(p)
         \/ Overwrite(p) \/ NextIdx(p) \/ NextEof(p)
  PROVE  LockInv'
<1>1. CASE ReadHead(p) \/ WalkHit(p) \/ WalkNext(p) \/ WalkEnd(p)
  <2>1. UNCHANGED <<rlock, wlock, call, dead>> /\ InChain(p) /\ ~ InFree(p)
    BY <1>1 DEF ReadHead, WalkHit, WalkNext, WalkEnd, Local, locks, InChain, InFree,
       Reading, Deleting, Finding, Scanning
  <2>2. PICK l \in {"walk", "readdat", "unlock", "del_lock", "over", "link"} :
          pc' = [pc EXCEPT ![p] = l]
    BY <1>1 DEF TypeOK, ReadHead, WalkHit, WalkNext, WalkEnd, Goto, AfterHit
  <2>3. ~ InFree(p)'
    BY <2>2 DEF TypeOK, InFree, Deleting, Finding, Scanning
  <2> QED
    BY <2>1, <2>2, <2>3, StayInside
<1>2. CASE \/ DelDat(p) \/ DelFree(p) \/ DelIdx(p) \/ DelPush(p) \/ DelLink(p)
           \/ FfHead(p) \/ FfHit(p) \/ FfNext(p) \/ FfEnd(p) \/ FfTake(p)
  <2>1. /\ UNCHANGED <<rlock, wlock, call, dead>>
        /\ InChain(p) /\ InFree(p) /\ pc[p] \notin Scanning
    BY <1>2 DEF DelDat, DelFree, DelIdx, DelPush, DelLink, FfHead, FfHit, FfNext, FfEnd,
       FfTake, WritePtr, Local, locks, InChain, InFree, Reading, Writing, Deleting, Finding,
       Scanning
  <2>2. PICK l \in Deleting \cup Finding : pc' = [pc EXCEPT ![p] = l]
    BY <1>2 DEF TypeOK, DelDat, DelFree, DelIdx, DelPush, DelLink, FfHead, FfHit, FfNext,
       FfEnd, FfTake, WritePtr, Goto, Deleting, Finding
  <2>3. l \notin Scanning
    BY <2>2 DEF Deleting, Finding, Scanning
  <2> QED
    BY <2>1, <2>2, <2>3, StayInside
<1>3. CASE \/ ReadLink(p) \/ ReuseDat(p) \/ ReuseIdx(p) \/ UnlockTail(p) \/ Publish(p)
           \/ Overwrite(p)
  <2>1. UNCHANGED <<rlock, wlock, call, dead>> /\ InChain(p)
    BY <1>3 DEF ReadLink, ReuseDat, ReuseIdx, UnlockTail, Publish, Overwrite, WritePtr,
       Local, locks, InChain, Writing, Appending
  <2>2. PICK l \in {"ff_lock", "app_datlock", "re_idx", "pub", "unlock"} :
          pc' = [pc EXCEPT ![p] = l]
    BY <1>3 DEF ReadLink, ReuseDat, ReuseIdx, UnlockTail, Publish, Overwrite, WritePtr, Goto
  <2>3. ~ InFree(p)'
    BY <2>2 DEF TypeOK, InFree, Deleting, Finding, Scanning
  <2> QED
    BY <2>1, <2>2, <2>3, StayInside
<1>4. CASE NextIdx(p) \/ NextEof(p)
  <2>1. UNCHANGED <<rlock, wlock, call, dead>> /\ InFree(p) /\ pc[p] \in Scanning
    BY <1>4 DEF NextIdx, NextEof, Local, locks, InFree, Scanning
  <2>2. PICK l \in {"nx_read", "nx_dat", "nx_unlock"} : pc' = [pc EXCEPT ![p] = l]
    BY <1>4 DEF TypeOK, NextIdx, NextEof, Goto
  <2>3. ~ InChain(p)' /\ l \in Scanning
    BY <2>2 DEF TypeOK, InChain, Reading, Writing, Deleting, Finding, Appending, Scanning
  <2> QED
    BY <2>1, <2>2, <2>3, StayInside
<1> QED
  BY <1>1, <1>2, <1>3, <1>4

\* The steps that read or write a file and end the process when that fails.
LEMMA FailingStep ==
  ASSUME TypeOK, LockInv, NEW p \in Proc, p \notin dead,
         FetchDat(p) \/ NextDat(p) \/ AppendDat(p) \/ AppendIdx(p)
  PROVE  LockInv'
<1>1. CASE Die(p)
  BY <1>1, DieInside
<1>2. CASE FetchDat(p) /\ ~ Die(p)
  <2>1. UNCHANGED <<rlock, wlock, call, dead>> /\ InChain(p) /\ pc' = [pc EXCEPT ![p] = "unlock"]
    BY <1>2 DEF FetchDat, ReadDat, Local, locks, Goto, InChain, Reading
  <2>2. ~ InFree(p)'
    BY <2>1 DEF TypeOK, InFree, Deleting, Finding, Scanning
  <2> QED
    BY <2>1, <2>2, StayInside
<1>3. CASE NextDat(p) /\ ~ Die(p)
  <2>1. /\ UNCHANGED <<rlock, wlock, call, dead>> /\ InFree(p) /\ pc[p] \in Scanning
        /\ pc' = [pc EXCEPT ![p] = "nx_unlock"] /\ "nx_unlock" \in Scanning
    BY <1>3 DEF NextDat, ReadDat, Local, locks, Goto, InFree, Scanning
  <2>2. ~ InChain(p)'
    BY <2>1 DEF TypeOK, InChain, Reading, Writing, Deleting, Finding, Appending
  <2> QED
    BY <2>1, <2>2, StayInside
<1>4. CASE (AppendDat(p) \/ AppendIdx(p)) /\ ~ Die(p)
  <2>1. UNCHANGED <<rlock, wlock, call, dead>> /\ InChain(p)
    BY <1>4 DEF AppendDat, AppendIdx, locks, InChain, Writing, Appending
  <2>2. PICK l \in {"app_datunlock", "app_idxunlock"} : pc' = [pc EXCEPT ![p] = l]
    BY <1>4 DEF AppendDat, AppendIdx, Goto
  <2>3. ~ InFree(p)'
    BY <2>2 DEF TypeOK, InFree, Deleting, Finding, Scanning
  <2> QED
    BY <2>1, <2>2, <2>3, StayInside
<1> QED
  BY <1>1, <1>2, <1>3, <1>4

\* The steps that unlock.
LEMMA UnlockingStep ==
  ASSUME TypeOK, LockInv, NEW p \in Proc, p \notin dead,
         \/ UnlockChain(p) \/ NextUnlock(p) \/ DelUnlock(p) \/ FfUnlock(p)
         \/ UnlockDat(p)
  PROVE  LockInv'
<1>1. CASE UnlockChain(p)
  <2>1. call[p] \in Call
    BY <1>1 DEF UnlockChain, TypeOK
  <2>2. Chain(p) \in Lock
    BY <2>1, LockRegions
  <2>3. pc' = [pc EXCEPT ![p] = "idle"] /\ ~ InChain(p)' /\ ~ InFree(p)'
    BY <1>1 DEF TypeOK, UnlockChain, Return, Goto, InChain, InFree, Reading, Writing,
       Deleting, Finding, Appending, Scanning
  <2>4. Release(p, Chain(p)) /\ UNCHANGED dead
        /\ \A q \in Proc \ {p} : pc'[q] = pc[q] /\ call'[q] = call[q]
    BY <1>1 DEF TypeOK, UnlockChain, Return, Goto
  <2> QED
    BY <2>2, <2>3, <2>4, ReleaseInside
<1>2. CASE NextUnlock(p)
  <2>1. pc' = [pc EXCEPT ![p] = "idle"] /\ ~ InChain(p)' /\ ~ InFree(p)'
    BY <1>2 DEF TypeOK, NextUnlock, Return, Goto, InChain, InFree, Reading, Writing,
       Deleting, Finding, Appending, Scanning
  <2>2. Release(p, FREE) /\ UNCHANGED dead
        /\ \A q \in Proc \ {p} : pc'[q] = pc[q] /\ call'[q] = call[q]
    BY <1>2 DEF TypeOK, NextUnlock, Return, Goto
  <2>3. FREE \in Lock
    BY DbAssumption DEF FREE, Lock
  <2> QED
    BY <2>1, <2>2, <2>3, ReleaseInside
<1>3. CASE DelUnlock(p) \/ FfUnlock(p)
  <2>1. call[p] \in Call /\ InChain(p)
    BY <1>3 DEF DelUnlock, FfUnlock, TypeOK, InChain, Writing, Deleting, Finding
  <2>2. FREE \in Lock /\ Chain(p) # FREE
    BY <2>1, LockRegions
  <2>3. PICK l \in {"unlock", "relink", "app_datlock", "re_dat"} : pc' = [pc EXCEPT ![p] = l]
    BY <1>3 DEF DelUnlock, FfUnlock, Goto
  <2>4. Release(p, FREE) /\ UNCHANGED <<dead, call>>
    BY <1>3 DEF DelUnlock, FfUnlock
  <2>5. ~ InFree(p)' /\ \A q \in Proc \ {p} : pc'[q] = pc[q]
    BY <2>3 DEF TypeOK, InFree, Deleting, Finding, Scanning
  <2> QED
    BY <2>1, <2>2, <2>4, <2>5, ReleaseInside
<1>4. CASE UnlockDat(p)
  <2>1. call[p] \in Call /\ InChain(p)
    BY <1>4 DEF UnlockDat, TypeOK, InChain, Writing, Appending
  <2>2. DAT \in Lock /\ Chain(p) # DAT
    BY <2>1, LockRegions
  <2>3. pc' = [pc EXCEPT ![p] = "app_idxlock"]
    BY <1>4 DEF UnlockDat, Goto
  <2>4. Release(p, DAT) /\ UNCHANGED <<dead, call>>
    BY <1>4 DEF UnlockDat
  <2>5. ~ InFree(p)' /\ \A q \in Proc \ {p} : pc'[q] = pc[q]
    BY <2>3 DEF TypeOK, InFree, Deleting, Finding, Scanning
  <2> QED
    BY <2>1, <2>2, <2>4, <2>5, ReleaseInside
<1> QED
  BY <1>1, <1>2, <1>3, <1>4

\* Entering the library.
LEMMA EnterStep ==
  ASSUME TypeOK, LockInv, NEW p \in Proc, p \notin dead, Enter(p)
  PROVE  LockInv'
<1>1. CASE Begin(p) \/ BeginNextrec(p)
  <2>1. PICK l \in {"lock", "nx_lock"} : pc' = [pc EXCEPT ![p] = l]
    BY <1>1 DEF Begin, BeginNextrec, Goto
  <2>2. /\ UNCHANGED <<rlock, wlock, dead>>
        /\ \A q \in Proc \ {p} : pc'[q] = pc[q] /\ call'[q] = call[q]
    BY <1>1, <2>1 DEF TypeOK, Begin, BeginNextrec, locks
  <2>3. ~ InChain(p)' /\ ~ InFree(p)'
    BY <2>1 DEF TypeOK, InChain, InFree, Reading, Writing, Deleting, Finding, Appending,
       Scanning
  <2>4. \A q \in Proc : (InChain(q)' => InChain(q)) /\ (InFree(q)' => InFree(q))
    BY <2>2, <2>3 DEF InChain, InFree
  <2>5. WriterAlone' /\ HoldsFree'
    BY <2>2, <2>3, <2>4 DEF LockInv, WriterAlone, HoldsFree
  <2>6. HoldsChain'
    BY <2>2, <2>3, <2>4 DEF LockInv, HoldsChain, Chain
  <2> QED
    BY <2>5, <2>6 DEF LockInv
<1>2. CASE StoreBadLength(p)
  BY <1>2, DieInside DEF StoreBadLength
<1>3. CASE StoreBadFlag(p) \/ Rewind(p)
  <2>1. UNCHANGED <<rlock, wlock, pc, call, dead>>
    BY <1>3 DEF StoreBadFlag, Rewind, locks
  <2> QED
    BY <2>1 DEF LockInv, WriterAlone, HoldsChain, HoldsFree, InChain, InFree, Chain
<1>4. CASE Close(p)
  <2>1. ReleaseAll(p) /\ call' = call /\ dead' = dead /\ pc' = [pc EXCEPT ![p] = "closed"]
    BY <1>4 DEF Close, Goto
  <2>2. ~ InChain(p)' /\ ~ InFree(p)'
    BY <2>1 DEF TypeOK, InChain, InFree, Reading, Writing, Deleting, Finding, Appending,
       Scanning
  <2> QED
    BY <2>1, <2>2, LeaveInside DEF TypeOK
<1> QED
  BY <1>1, <1>2, <1>3, <1>4 DEF Enter

\* LockInv is an invariant.
THEOREM Locking == Spec => []LockInv
<1>1. Init => LockInv
  BY DEF Init, LockInv, WriterAlone, HoldsChain, HoldsFree, InChain, InFree, Reading, Writing,
     Deleting, Finding, Appending, Scanning
<1>2. TypeOK /\ LockInv /\ [Next]_vars => LockInv'
  <2> SUFFICES ASSUME TypeOK, LockInv, [Next]_vars PROVE LockInv'
    OBVIOUS
  <2>1. CASE UNCHANGED vars
    BY <2>1 DEF vars, LockInv, WriterAlone, HoldsChain, HoldsFree, InChain, InFree, Chain
  <2>2. ASSUME NEW p \in Proc, Step(p) PROVE LockInv'
    <3>1. p \notin dead
      BY <2>2 DEF Step
    <3>2. CASE Enter(p)
      BY <3>1, <3>2, EnterStep
    <3>3. CASE Kill(p) \/ LockDeadlock(p) \/ PtrTooBig(p) \/ NextBadRecord(p)
      BY <3>3, DieInside DEF Kill, LockDeadlock, PtrTooBig, NextBadRecord
    <3>4. CASE LockGranted(p)
      BY <3>1, <3>4, GrantInside
    <3>5. CASE \/ UnlockChain(p) \/ NextUnlock(p) \/ DelUnlock(p) \/ FfUnlock(p)
               \/ UnlockDat(p)
      BY <3>1, <3>5, UnlockingStep
    <3>6. CASE FetchDat(p) \/ NextDat(p) \/ AppendDat(p) \/ AppendIdx(p)
      BY <3>1, <3>6, FailingStep
    <3>7. CASE \/ ReadHead(p) \/ WalkHit(p) \/ WalkNext(p) \/ WalkEnd(p)
               \/ DelDat(p) \/ DelFree(p) \/ DelIdx(p) \/ DelPush(p) \/ DelLink(p)
               \/ ReadLink(p) \/ FfHead(p) \/ FfHit(p) \/ FfNext(p) \/ FfEnd(p) \/ FfTake(p)
               \/ ReuseDat(p) \/ ReuseIdx(p) \/ UnlockTail(p) \/ Publish(p)
               \/ Overwrite(p) \/ NextIdx(p) \/ NextEof(p)
      BY <3>1, <3>7, UnlockedStep
    <3> QED
      BY <2>2, <3>2, <3>3, <3>4, <3>5, <3>6, <3>7 DEF Step, InCall
  <2> QED
    BY <2>1, <2>2 DEF Next, Done
<1> QED
  BY <1>1, <1>2, Typing, PTL DEF Spec

\* A process that may write a chain is alone in it, for any number of
\* processes and chains.
THEOREM ChainIsolation == Spec => []ChainIsolated
<1>1. TypeOK /\ LockInv => ChainIsolated
  <2> SUFFICES ASSUME TypeOK, LockInv, NEW p \in Proc, NEW q \in Proc, p # q,
                      Modifies(p), InChain(q), Chain(p) = Chain(q)
               PROVE  FALSE
    BY DEF ChainIsolated
  <2>1. Chain(p) \in Lock
    BY InCallHasCall, LockRegions DEF Modifies
  <2>2. p \in wlock[Chain(p)]
    BY DEF Modifies, LockInv, HoldsChain
  <2>3. q \in wlock[Chain(p)] \cup rlock[Chain(p)]
    BY DEF LockInv, HoldsChain
  <2> QED
    BY <2>1, <2>2, <2>3 DEF LockInv, WriterAlone
<1> QED
  BY <1>1, Typing, Locking, PTL

\* A process that works on the free list is alone there.
THEOREM FreeIsolation == Spec => []FreeIsolated
<1>1. LockInv => FreeIsolated
  <2> SUFFICES ASSUME LockInv, NEW p \in Proc, NEW q \in Proc, p # q, InFree(p), InFree(q),
                      pc[p] \notin Scanning \/ pc[q] \notin Scanning
               PROVE  FALSE
    BY DEF FreeIsolated
  <2>1. FREE \in Lock
    BY DbAssumption DEF FREE, Lock
  <2>2. /\ p \in (IF pc[p] \in Scanning THEN rlock ELSE wlock)[FREE]
        /\ q \in (IF pc[q] \in Scanning THEN rlock ELSE wlock)[FREE]
    BY DEF LockInv, HoldsFree
  <2> QED
    BY <2>1, <2>2 DEF LockInv, WriterAlone
<1> QED
  BY <1>1, Locking, PTL

-----------------------------------------------------------------------------
(* Who waits for whom.  A process that holds a lock is inside the section  *)
(* the lock protects, the tail lock apart, which a process keeps when its  *)
(* call is over.                                                           *)

DatPoints == {"app_dat", "app_datunlock"}

HeldInside ==
  /\ \A l \in Chains : \A p \in wlock[l] \cup rlock[l] : InChain(p) /\ Chain(p) = l
  /\ \A p \in wlock[FREE] \cup rlock[FREE] : InFree(p)
  /\ \A p \in wlock[DAT] \cup rlock[DAT] : pc[p] \in DatPoints
  /\ rlock[TAIL] = {}

\* What keeps a process inside the sections whose locks it holds, the one of
\* region l apart.
StaysIn(p, l) ==
  /\ InChain(p) /\ Chain(p) # l => InChain(p)' /\ call'[p] = call[p]
  /\ InFree(p) /\ l # FREE => InFree(p)'
  /\ pc[p] \in DatPoints /\ l # DAT => pc'[p] \in DatPoints

OthersSame(p) ==
  \A q \in Proc \ {p} : pc'[q] = pc[q] /\ call'[q] = call[q] /\ (q \in dead' <=> q \in dead)

\* The regions are different.
LEMMA Regions ==
  /\ FREE \in Lock /\ TAIL \in Lock /\ DAT \in Lock /\ Chains \subseteq Lock
  /\ FREE \notin Chains /\ TAIL \notin Chains /\ DAT \notin Chains
  /\ FREE # TAIL /\ FREE # DAT /\ TAIL # DAT
BY DbAssumption DEF FREE, TAIL, DAT, Chains, Lock

\* A step that gives at most one region back, and stays inside the others.
LEMMA HeldShrinks ==
  ASSUME TypeOK, HeldInside, NEW p \in Proc, NEW l, OthersSame(p), StaysIn(p, l),
         \A m \in Lock : wlock'[m] \subseteq wlock[m] /\ rlock'[m] \subseteq rlock[m],
         l \in Lock => p \notin wlock'[l] \cup rlock'[l]
  PROVE  HeldInside'
<1>1. \A m \in Lock : wlock[m] \subseteq Proc /\ rlock[m] \subseteq Proc
  BY DEF TypeOK
<1>2. ASSUME NEW m \in Chains, NEW q \in wlock'[m] \cup rlock'[m]
      PROVE  (InChain(q) /\ Chain(q) = m)'
  <2>1. m \in Lock /\ q \in Proc /\ InChain(q) /\ Chain(q) = m
    BY <1>1, <1>2, Regions DEF HeldInside
  <2>2. CASE q = p
    <3>1. m # l
      BY <1>2, <2>1, <2>2
    <3> QED
      BY <2>1, <2>2, <3>1 DEF StaysIn, Chain
  <2>3. CASE q # p
    BY <2>1, <2>3 DEF OthersSame, InChain, Chain
  <2> QED
    BY <2>2, <2>3
<1>3. ASSUME NEW q \in wlock'[FREE] \cup rlock'[FREE] PROVE InFree(q)'
  <2>1. q \in Proc /\ InFree(q)
    BY <1>1, <1>3, Regions DEF HeldInside
  <2>2. CASE q = p
    BY <1>3, <2>1, <2>2, Regions DEF StaysIn
  <2>3. CASE q # p
    BY <2>1, <2>3 DEF OthersSame, InFree
  <2> QED
    BY <2>2, <2>3
<1>4. ASSUME NEW q \in wlock'[DAT] \cup rlock'[DAT] PROVE pc'[q] \in DatPoints
  <2>1. q \in Proc /\ pc[q] \in DatPoints
    BY <1>1, <1>4, Regions DEF HeldInside
  <2>2. CASE q = p
    BY <1>4, <2>1, <2>2, Regions DEF StaysIn
  <2>3. CASE q # p
    BY <2>1, <2>3 DEF OthersSame
  <2> QED
    BY <2>2, <2>3
<1>5. rlock'[TAIL] = {}
  BY Regions DEF HeldInside
<1>6. FREE' = FREE /\ DAT' = DAT /\ TAIL' = TAIL /\ Chains' = Chains
  BY DEF FREE, DAT, TAIL, Chains
<1> QED
  BY <1>2, <1>3, <1>4, <1>5, <1>6 DEF HeldInside

\* A process that dies or closes the files gives everything back.
LEMMA HeldDropped ==
  ASSUME TypeOK, HeldInside, NEW p \in Proc, OthersSame(p), ReleaseAll(p)
  PROVE  HeldInside'
<1>1. \A m \in Lock : /\ wlock'[m] = wlock[m] \ {p} /\ rlock'[m] = rlock[m] \ {p}
                      /\ wlock[m] \subseteq Proc /\ rlock[m] \subseteq Proc
  BY DEF ReleaseAll, TypeOK
<1>2. ASSUME NEW m \in Chains, NEW q \in wlock'[m] \cup rlock'[m]
      PROVE  (InChain(q) /\ Chain(q) = m)'
  BY <1>1, <1>2, Regions DEF HeldInside, OthersSame, InChain, Chain
<1>3. ASSUME NEW q \in wlock'[FREE] \cup rlock'[FREE] PROVE InFree(q)'
  BY <1>1, <1>3, Regions DEF HeldInside, OthersSame, InFree
<1>4. ASSUME NEW q \in wlock'[DAT] \cup rlock'[DAT] PROVE pc'[q] \in DatPoints
  BY <1>1, <1>4, Regions DEF HeldInside, OthersSame
<1>5. rlock'[TAIL] = {}
  BY <1>1, Regions DEF HeldInside
<1>6. FREE' = FREE /\ DAT' = DAT /\ TAIL' = TAIL /\ Chains' = Chains
  BY DEF FREE, DAT, TAIL, Chains
<1> QED
  BY <1>2, <1>3, <1>4, <1>5, <1>6 DEF HeldInside

\* A process that is given a lock is then inside.
LEMMA HeldGranted ==
  ASSUME TypeOK, HeldInside, NEW p \in Proc, p \notin dead, LockGranted(p)
  PROVE  HeldInside'
<1>1. call[p] \in Call /\ Chain(p) \in Chains
  <2>1. call[p] \in Call
    BY InCallHasCall DEF LockGranted
  <2> QED
    BY <2>1, DbAssumption DEF Call, Chain, Chains
<1>2. /\ call' = call /\ dead' = dead /\ pc[p] \in LockPoints
      /\ pc' = [pc EXCEPT ![p] = AfterLock(p)] /\ Grant(p, Want(p))
  BY DEF LockGranted, Goto
<1>3. Want(p) \in Lock /\ (Want(p) = TAIL => Exclusive(p))
  BY <1>1, <1>2, Regions DEF Want, Exclusive, LockPoints
<1>4. \A m \in Lock : /\ wlock[m] \subseteq Proc /\ rlock[m] \subseteq Proc
                      /\ wlock'[m] \subseteq wlock[m] \cup {p} /\ rlock'[m] \subseteq rlock[m] \cup {p}
                      /\ m # Want(p) => wlock'[m] = wlock[m] /\ rlock'[m] = rlock[m]
  BY <1>2, <1>3 DEF TypeOK, Grant
<1>5. /\ InChain(p) => InChain(p)'
      /\ InFree(p) => InFree(p)'
      /\ pc[p] \notin DatPoints
      /\ Want(p) \in Chains => InChain(p)' /\ Want(p) = Chain(p)
      /\ Want(p) = FREE => InFree(p)'
      /\ Want(p) = DAT => pc'[p] \in DatPoints
  <2>1. pc'[p] = AfterLock(p)
    BY <1>2 DEF TypeOK
  <2> QED
    BY <1>1, <1>2, <2>1, Regions DEF AfterLock, LockPoints, Want, InChain, InFree, DatPoints,
       Reading, Writing, Deleting, Finding, Appending, Scanning
<1>6. ASSUME NEW m \in Chains, NEW q \in wlock'[m] \cup rlock'[m]
      PROVE  (InChain(q) /\ Chain(q) = m)'
  <2>1. m \in Lock /\ q \in Proc
    BY <1>4, <1>6, Regions
  <2>2. CASE q # p
    <3>1. InChain(q) /\ Chain(q) = m
      BY <1>4, <1>6, <2>1, <2>2 DEF HeldInside
    <3> QED
      BY <1>2, <2>2, <3>1 DEF TypeOK, InChain, Chain
  <2>3. CASE q = p
    BY <1>2, <1>4, <1>5, <1>6, <2>1, <2>3 DEF HeldInside, Chain
  <2> QED
    BY <2>2, <2>3
<1>7. ASSUME NEW q \in wlock'[FREE] \cup rlock'[FREE] PROVE InFree(q)'
  <2>1. CASE q # p
    BY <1>2, <1>4, <1>7, <2>1, Regions DEF HeldInside, TypeOK, InFree
  <2>2. CASE q = p
    BY <1>4, <1>5, <1>7, <2>2, Regions DEF HeldInside
  <2> QED
    BY <2>1, <2>2
<1>8. ASSUME NEW q \in wlock'[DAT] \cup rlock'[DAT] PROVE pc'[q] \in DatPoints
  <2>1. CASE q # p
    BY <1>2, <1>4, <1>8, <2>1, Regions DEF HeldInside, TypeOK
  <2>2. CASE q = p
    BY <1>4, <1>5, <1>8, <2>2, Regions DEF HeldInside
  <2> QED
    BY <2>1, <2>2
<1>9. rlock'[TAIL] = {}
  BY <1>2, <1>3, <1>4, Regions DEF HeldInside, Grant
<1>10. FREE' = FREE /\ DAT' = DAT /\ TAIL' = TAIL /\ Chains' = Chains
  BY DEF FREE, DAT, TAIL, Chains
<1> QED
  BY <1>6, <1>7, <1>8, <1>9, <1>10 DEF HeldInside

\* The steps that neither take nor give back a lock.
LEMMA HeldQuiet ==
  ASSUME TypeOK, HeldInside, NEW p \in Proc, p \notin dead,
         \/ StoreBadFlag(p) \/ Rewind(p) \/ Begin(p) \/ BeginNextrec(p)
         \/ ReadHead(p) \/ WalkHit(p) \/ WalkNext(p) \/ WalkEnd(p)
         \/ DelDat(p) \/ DelFree(p) \/ DelIdx(p) \/ DelPush(p) \/ DelLink(p)
         \/ ReadLink(p) \/ FfHead(p) \/ FfHit(p) \/ FfNext(p) \/ FfEnd(p) \/ FfTake(p)
         \/ ReuseDat(p) \/ ReuseIdx(p) \/ UnlockTail(p) \/ Publish(p)
         \/ Overwrite(p) \/ NextIdx(p) \/ NextEof(p)
  PROVE  HeldInside'
<1> DEFINE None == NHash + 3
<1>n. None \notin Lock
  BY DbAssumption DEF Lock
<1>1. UNCHANGED <<rlock, wlock, dead>>
  BY DEF StoreBadFlag, Rewind, Begin, BeginNextrec, ReadHead, WalkHit, WalkNext, WalkEnd,
     DelDat, DelFree, DelIdx, DelPush, DelLink, ReadLink, FfHead, FfHit, FfNext, FfEnd,
     FfTake, ReuseDat, ReuseIdx, UnlockTail, Publish, Overwrite, NextIdx, NextEof, WritePtr,
     Local, locks
<1>2. OthersSame(p) /\ StaysIn(p, None)
  <2>1. CASE StoreBadFlag(p) \/ Rewind(p)
    BY <1>1, <2>1 DEF StoreBadFlag, Rewind, OthersSame, StaysIn, InChain, InFree, DatPoints
  <2>2. CASE Begin(p) \/ BeginNextrec(p)
    <3>1. pc[p] = "idle" /\ OthersSame(p)
      BY <1>1, <2>2 DEF TypeOK, Begin, BeginNextrec, OthersSame, Goto
    <3> QED
      BY <3>1 DEF StaysIn, InChain, InFree, DatPoints, Reading, Writing, Deleting, Finding,
         Appending, Scanning
  <2>3. CASE ReadHead(p) \/ WalkHit(p) \/ WalkNext(p) \/ WalkEnd(p)
    <3>1. PICK l \in {"walk", "readdat", "unlock", "del_lock", "over", "link"} :
            pc' = [pc EXCEPT ![p] = l] /\ call' = call /\ pc[p] \in {"walk", "head"}
      BY <2>3 DEF TypeOK, ReadHead, WalkHit, WalkNext, WalkEnd, Goto, AfterHit, Local
    <3> QED
      BY <1>1, <3>1 DEF TypeOK, OthersSame, StaysIn, InChain, InFree, DatPoints, Reading,
         Writing, Deleting, Finding, Scanning
  <2>4. CASE \/ DelDat(p) \/ DelFree(p) \/ DelIdx(p) \/ DelPush(p) \/ DelLink(p)
             \/ FfHead(p) \/ FfHit(p) \/ FfNext(p) \/ FfEnd(p) \/ FfTake(p)
    <3>1. PICK l \in Deleting \cup Finding :
            pc' = [pc EXCEPT ![p] = l] /\ call' = call /\ pc[p] \in Deleting \cup Finding
      BY <2>4 DEF TypeOK, DelDat, DelFree, DelIdx, DelPush, DelLink, FfHead, FfHit, FfNext,
         FfEnd, FfTake, WritePtr, Goto, Local, Deleting, Finding
    <3>2. pc[p] \notin DatPoints /\ l \in Writing
      BY <3>1 DEF Deleting, Finding, DatPoints, Writing
    <3> QED
      BY <1>1, <3>1, <3>2 DEF TypeOK, OthersSame, StaysIn, InChain, InFree
  <2>5. CASE \/ ReadLink(p) \/ ReuseDat(p) \/ ReuseIdx(p) \/ UnlockTail(p) \/ Publish(p)
             \/ Overwrite(p)
    <3>1. PICK l \in {"ff_lock", "app_datlock", "re_idx", "pub", "unlock"} :
            /\ pc' = [pc EXCEPT ![p] = l] /\ call' = call
            /\ pc[p] \in {"link", "relink", "re_dat", "re_idx", "app_idxunlock", "pub", "over"}
      BY <2>5 DEF TypeOK, ReadLink, ReuseDat, ReuseIdx, UnlockTail, Publish, Overwrite,
         WritePtr, Goto, Local
    <3> QED
      BY <1>1, <3>1 DEF TypeOK, OthersSame, StaysIn, InChain, InFree, DatPoints, Writing,
         Appending, Deleting, Finding, Scanning
  <2>6. CASE NextIdx(p) \/ NextEof(p)
    <3>1. PICK l \in {"nx_read", "nx_dat", "nx_unlock"} :
            pc' = [pc EXCEPT ![p] = l] /\ call' = call /\ pc[p] = "nx_read"
      BY <2>6 DEF TypeOK, NextIdx, NextEof, Goto, Local
    <3> QED
      BY <1>1, <3>1 DEF TypeOK, OthersSame, StaysIn, InChain, InFree, DatPoints, Writing,
         Reading, Appending, Deleting, Finding, Scanning
  <2> QED
    BY <2>1, <2>2, <2>3, <2>4, <2>5, <2>6
<1> HIDE DEF None
<1> QED
  BY <1>n, <1>1, <1>2, HeldShrinks

\* The steps that read or write and end the process when that fails.
LEMMA HeldFailing ==
  ASSUME TypeOK, HeldInside, NEW p \in Proc, p \notin dead,
         FetchDat(p) \/ NextDat(p) \/ AppendDat(p) \/ AppendIdx(p)
  PROVE  HeldInside'
<1> DEFINE None == NHash + 3
<1>n. None \notin Lock
  BY DbAssumption DEF Lock
<1>1. CASE Die(p)
  BY <1>1, HeldDropped DEF Die, OthersSame
<1>2. CASE ~ Die(p)
  <2>1. /\ UNCHANGED <<rlock, wlock, dead, call>>
        /\ \/ pc[p] = "readdat" /\ pc' = [pc EXCEPT ![p] = "unlock"]
           \/ pc[p] = "nx_dat" /\ pc' = [pc EXCEPT ![p] = "nx_unlock"]
           \/ pc[p] = "app_dat" /\ pc' = [pc EXCEPT ![p] = "app_datunlock"]
           \/ pc[p] = "app_idx" /\ pc' = [pc EXCEPT ![p] = "app_idxunlock"]
    BY <1>2 DEF FetchDat, NextDat, ReadDat, AppendDat, AppendIdx, Local, locks, Goto
  <2>2. OthersSame(p)
    BY <2>1 DEF TypeOK, OthersSame
  <2>3. StaysIn(p, None)
    BY <2>1 DEF TypeOK, StaysIn, InChain, InFree, DatPoints, Reading, Writing, Deleting,
       Finding, Appending, Scanning
  <2> HIDE DEF None
  <2> QED
    BY <1>n, <2>1, <2>2, <2>3, HeldShrinks
<1> QED
  BY <1>1, <1>2

\* The steps that unlock.
LEMMA HeldUnlocking ==
  ASSUME TypeOK, HeldInside, NEW p \in Proc, p \notin dead,
         \/ UnlockChain(p) \/ NextUnlock(p) \/ DelUnlock(p) \/ FfUnlock(p)
         \/ UnlockDat(p)
  PROVE  HeldInside'
<1> DEFINE l == IF UnlockChain(p) THEN Chain(p) ELSE IF UnlockDat(p) THEN DAT ELSE FREE
<1>1. /\ Release(p, l) /\ UNCHANGED dead /\ OthersSame(p)
      /\ \/ UnlockChain(p) /\ pc[p] = "unlock" /\ pc'[p] = "idle"
         \/ NextUnlock(p) /\ pc[p] = "nx_unlock" /\ pc'[p] = "idle"
         \/ /\ DelUnlock(p) \/ FfUnlock(p)
            /\ pc[p] \in {"del_unlock", "ff_unlock"} /\ call' = call
            /\ pc'[p] \in {"unlock", "relink", "app_datlock", "re_dat"}
         \/ /\ UnlockDat(p) /\ call' = call
            /\ pc[p] = "app_datunlock" /\ pc'[p] = "app_idxlock"
  BY DEF TypeOK, UnlockChain, NextUnlock, DelUnlock, FfUnlock, UnlockDat, Return, Goto,
     OthersSame
<1>2. StaysIn(p, l)
  <2>1. CASE UnlockChain(p)
    <3>1. l = Chain(p) /\ pc[p] = "unlock"
      BY <2>1 DEF UnlockChain
    <3> QED
      BY <3>1 DEF StaysIn, InChain, InFree, DatPoints, Deleting, Finding, Scanning
  <2>2. CASE NextUnlock(p)
    <3>1. l = FREE /\ pc[p] = "nx_unlock"
      BY <2>2 DEF UnlockChain, UnlockDat, NextUnlock
    <3> QED
      BY <3>1 DEF StaysIn, InChain, InFree, DatPoints, Reading, Writing, Appending, Deleting,
         Finding
  <2>3. CASE DelUnlock(p) \/ FfUnlock(p)
    <3>1. /\ l = FREE /\ pc[p] \in {"del_unlock", "ff_unlock"} /\ call' = call /\ dead' = dead
          /\ pc'[p] \in {"unlock", "relink", "app_datlock", "re_dat"}
      BY <2>3 DEF TypeOK, UnlockChain, UnlockDat, DelUnlock, FfUnlock, Goto
    <3> QED
      BY <3>1 DEF StaysIn, InChain, InFree, DatPoints, Writing, Appending, Deleting, Finding
  <2>4. CASE UnlockDat(p)
    <3>1. /\ l = DAT /\ pc[p] = "app_datunlock" /\ call' = call /\ dead' = dead
          /\ pc'[p] = "app_idxlock"
      BY <2>4 DEF TypeOK, UnlockChain, UnlockDat, Goto
    <3> QED
      BY <3>1 DEF StaysIn, InChain, InFree, DatPoints, Writing, Appending, Deleting, Finding,
         Scanning
  <2> QED
    BY <2>1, <2>2, <2>3, <2>4
<1>3. /\ \A m \in Lock : wlock'[m] \subseteq wlock[m] /\ rlock'[m] \subseteq rlock[m]
      /\ l \in Lock => p \notin wlock'[l] \cup rlock'[l]
  BY <1>1 DEF TypeOK, Release
<1> HIDE DEF l
<1> QED
  BY <1>1, <1>2, <1>3, HeldShrinks

\* HeldInside is inductive.
LEMMA HeldSteps == TypeOK /\ HeldInside /\ [Next]_vars => HeldInside'
<1> SUFFICES ASSUME TypeOK, HeldInside, [Next]_vars PROVE HeldInside'
  OBVIOUS
<1>1. CASE UNCHANGED vars
  BY <1>1 DEF vars, HeldInside, InChain, InFree, Chain
<1>2. ASSUME NEW p \in Proc, Step(p) PROVE HeldInside'
  <2>0. p \notin dead
    BY <1>2 DEF Step
  <2>1. CASE \/ StoreBadLength(p) \/ Kill(p) \/ LockDeadlock(p) \/ PtrTooBig(p)
             \/ NextBadRecord(p)
    <3>1. Die(p)
      BY <2>1 DEF StoreBadLength, Kill, LockDeadlock, PtrTooBig, NextBadRecord
    <3> QED
      BY <3>1, HeldDropped DEF Die, OthersSame
  <2>2. CASE Close(p)
    <3>1. ReleaseAll(p) /\ OthersSame(p)
      BY <2>2 DEF TypeOK, Close, Goto, OthersSame
    <3> QED
      BY <3>1, HeldDropped
  <2>3. CASE LockGranted(p)
    BY <2>0, <2>3, HeldGranted
  <2>4. CASE FetchDat(p) \/ NextDat(p) \/ AppendDat(p) \/ AppendIdx(p)
    BY <2>0, <2>4, HeldFailing
  <2>5. CASE \/ UnlockChain(p) \/ NextUnlock(p) \/ DelUnlock(p) \/ FfUnlock(p)
             \/ UnlockDat(p)
    BY <2>0, <2>5, HeldUnlocking
  <2>6. CASE \/ StoreBadFlag(p) \/ Rewind(p) \/ Begin(p) \/ BeginNextrec(p)
             \/ ReadHead(p) \/ WalkHit(p) \/ WalkNext(p) \/ WalkEnd(p)
             \/ DelDat(p) \/ DelFree(p) \/ DelIdx(p) \/ DelPush(p) \/ DelLink(p)
             \/ ReadLink(p) \/ FfHead(p) \/ FfHit(p) \/ FfNext(p) \/ FfEnd(p) \/ FfTake(p)
             \/ ReuseDat(p) \/ ReuseIdx(p) \/ UnlockTail(p) \/ Publish(p)
             \/ Overwrite(p) \/ NextIdx(p) \/ NextEof(p)
    BY <2>0, <2>6, HeldQuiet
  <2> QED
    BY <1>2, <2>1, <2>2, <2>3, <2>4, <2>5, <2>6 DEF Step, Enter, InCall
<1> QED
  BY <1>1, <1>2 DEF Next, Done

\* The order of the locks: a process inside the free list or the data file
\* waits for nobody, one inside a chain asks for no other chain, and the tail
\* has one holder.
LEMMA LockOrder ==
  ASSUME TypeOK, LockInv, HeldInside, NEW p \in Proc
  PROVE  /\ Blockers(p) \subseteq Proc /\ p \notin Blockers(p)
         /\ Blockers(p) # {} => pc[p] \in LockPoints
         /\ pc[p] = "lock" => \A b \in Blockers(p) : pc[b] # "lock"
         /\ pc[p] = "app_idxlock" => Blockers(p) \subseteq wlock[TAIL]
         /\ pc[p] \notin {"lock", "app_idxlock"} =>
              \A b \in Blockers(p) : pc[b] \notin LockPoints
<1>1. CASE Blockers(p) = {}
  BY <1>1
<1>2. CASE Blockers(p) # {}
  <2>1. /\ pc[p] \in LockPoints /\ p \notin Blockers(p)
        /\ Blockers(p) \subseteq wlock[Want(p)] \cup rlock[Want(p)]
    BY <1>2 DEF Blockers
  <2>2. call[p] \in Call /\ Chain(p) \in Chains
    <3>1. call[p] \in Call
      BY <2>1, InCallHasCall
    <3> QED
      BY <3>1, DbAssumption DEF Call, Chain, Chains
  <2>3. Want(p) \in Lock
    BY <2>1, <2>2, Regions DEF Want
  <2>4. Blockers(p) \subseteq Proc
    BY <2>1, <2>3 DEF TypeOK
  <2>5. ASSUME pc[p] = "lock", NEW b \in Blockers(p) PROVE pc[b] # "lock"
    <3>1. Want(p) = Chain(p)
      BY <2>5 DEF Want
    <3>2. InChain(b)
      BY <2>1, <2>2, <3>1 DEF HeldInside
    <3> QED
      BY <3>2 DEF InChain, Reading, Writing, Deleting, Finding, Appending
  <2>6. ASSUME pc[p] = "app_idxlock" PROVE Blockers(p) \subseteq wlock[TAIL]
    <3>1. Want(p) = TAIL
      BY <2>6 DEF Want
    <3> QED
      BY <2>1, <3>1 DEF HeldInside
  <2>7. ASSUME pc[p] \notin {"lock", "app_idxlock"}, NEW b \in Blockers(p)
        PROVE  pc[b] \notin LockPoints
    <3>1. CASE pc[p] = "app_datlock"
      <4>1. Want(p) = DAT
        BY <3>1 DEF Want
      <4>2. pc[b] \in DatPoints
        BY <2>1, <4>1 DEF HeldInside
      <4> QED
        BY <4>2 DEF DatPoints, LockPoints
    <3>2. CASE pc[p] # "app_datlock"
      <4>1. Want(p) = FREE
        BY <2>1, <2>7, <3>2 DEF Want, LockPoints
      <4>2. InFree(b)
        BY <2>1, <4>1 DEF HeldInside
      <4> QED
        BY <4>2 DEF InFree, Deleting, Finding, Scanning, LockPoints
    <3> QED
      BY <3>1, <3>2
  <2> QED
    BY <2>1, <2>4, <2>5, <2>6, <2>7
<1> QED
  BY <1>1, <1>2

\* A process that waits for itself waits for a chain or for the tail.
LEMMA CycleStart ==
  ASSUME TypeOK, LockInv, HeldInside, NEW p \in Proc, InWaitCycle(p)
  PROVE  Blockers(p) # {} /\ pc[p] \in {"lock", "app_idxlock"}
<1>1. Blockers(p) \in SUBSET Proc /\ p \notin Blockers(p)
  BY LockOrder
<1>2. Blockers(p) # {}
  BY DEF InWaitCycle
<1>3. ASSUME pc[p] \notin {"lock", "app_idxlock"} PROVE FALSE
  <2>1. \A b \in Blockers(p) : Blockers(b) = {}
    BY <1>1, <1>3, LockOrder
  <2> QED
    BY <1>1, <2>1 DEF InWaitCycle
<1> QED
  BY <1>2, <1>3

\* One that waits for the tail waits for a process that asks for a chain.
LEMMA TailWait ==
  ASSUME TypeOK, LockInv, HeldInside, NEW p \in Proc, InWaitCycle(p), pc[p] = "app_idxlock"
  PROVE  \E x \in wlock[TAIL] : pc[x] = "lock" /\ InWaitCycle(x)
<1>1. PICK x \in Blockers(p) : TRUE
  BY CycleStart
<1>2. x \in Proc /\ x # p /\ x \in wlock[TAIL] /\ Blockers(p) \subseteq wlock[TAIL]
  BY <1>1, LockOrder
<1>3. \A y \in wlock[TAIL] : y = x
  BY <1>2, Regions DEF LockInv, WriterAlone
<1>4. Blockers(p) = {x}
  BY <1>1, <1>2, <1>3
<1>5. CASE pc[x] # "lock"
  <2>1. \A b \in Blockers(x) : Blockers(b) = {}
    <3>1. CASE pc[x] = "app_idxlock"
      BY <1>2, <1>3, <3>1, LockOrder
    <3>2. CASE pc[x] # "app_idxlock"
      BY <1>2, <1>5, <3>2, LockOrder
    <3> QED
      BY <3>1, <3>2
  <2>2. {x} \cup Blockers(x) \in SUBSET Proc
    BY <1>2, LockOrder
  <2>3. p \in {x} \cup Blockers(x)
    BY <1>4, <2>1, <2>2 DEF InWaitCycle
  <2> QED
    BY <1>2, <1>4, <2>1, <2>3
<1>6. CASE pc[x] = "lock"
  <2>1. ASSUME NEW S \in SUBSET Proc, Blockers(x) \subseteq S,
               \A q \in S : Blockers(q) \subseteq S
        PROVE  x \in S
    <3>1. S \cup {x} \in SUBSET Proc
      BY <1>2
    <3>2. p \in S \cup {x}
      BY <1>4, <2>1, <3>1 DEF InWaitCycle
    <3> QED
      BY <1>2, <1>4, <2>1, <3>2
  <2>2. InWaitCycle(x)
    BY <2>1 DEF InWaitCycle
  <2> QED
    BY <1>2, <1>6, <2>2
<1> QED
  BY <1>5, <1>6

\* One that waits for a chain is in a circle with such a process, or holds the
\* tail itself.
LEMMA ChainWait ==
  ASSUME TypeOK, LockInv, HeldInside, NEW p \in Proc, InWaitCycle(p), pc[p] = "lock"
  PROVE  \E x \in wlock[TAIL] : pc[x] = "lock" /\ InWaitCycle(x)
<1> DEFINE Second == UNION {Blockers(b) : b \in Blockers(p)}
           Third == UNION {Blockers(c) : c \in Second}
<1>0. Blockers(p) \subseteq Proc /\ p \notin Blockers(p) /\ Blockers(p) # {}
  BY CycleStart, LockOrder
<1>1. Second \in SUBSET Proc
  BY <1>0, LockOrder
<1>2. \A c \in Second : c \in wlock[TAIL] \/ pc[c] \notin LockPoints
  <2>1. SUFFICES ASSUME NEW b \in Blockers(p), NEW c \in Blockers(b)
                 PROVE  c \in wlock[TAIL] \/ pc[c] \notin LockPoints
    OBVIOUS
  <2>2. b \in Proc /\ pc[b] # "lock"
    BY <1>0, LockOrder
  <2> QED
    BY <2>2, LockOrder
<1>3. CASE \E t \in Second : pc[t] = "lock"
  <2>1. PICK t \in Second : pc[t] = "lock"
    BY <1>3
  <2>2. t \in Proc /\ t \in wlock[TAIL]
    BY <1>1, <1>2, <2>1 DEF LockPoints
  <2>3. PICK b \in Blockers(p) : t \in Blockers(b)
    OBVIOUS
  <2>4. \A c \in Second : c = t \/ Blockers(c) = {}
    <3>1. SUFFICES ASSUME NEW c \in Second, c # t PROVE Blockers(c) = {}
      OBVIOUS
    <3>2. c \notin wlock[TAIL]
      BY <2>2, <3>1, Regions DEF LockInv, WriterAlone
    <3> QED
      BY <1>1, <1>2, <3>1, <3>2, LockOrder
  <2>5. ASSUME NEW S \in SUBSET Proc, Blockers(t) \subseteq S,
               \A q \in S : Blockers(q) \subseteq S, t # p
        PROVE  t \in S
    <3> DEFINE T == S \cup {t} \cup Blockers(p) \cup Second
    <3>1. T \in SUBSET Proc /\ Blockers(p) \subseteq T
      BY <1>0, <1>1, <2>2
    <3>2. \A q \in T : Blockers(q) \subseteq T
      BY <2>4, <2>5
    <3>3. p \in T
      <4> HIDE DEF T
      <4> QED
        BY <3>1, <3>2 DEF InWaitCycle
    <3>4. p \in S
      BY <1>0, <2>4, <2>5, <3>3
    <3>5. b \in S
      BY <2>5, <3>4
    <3> QED
      BY <2>3, <2>5, <3>5
  <2>6. InWaitCycle(t)
    BY <2>5 DEF InWaitCycle
  <2> QED
    BY <2>1, <2>2, <2>6
<1>4. CASE \A t \in Second : pc[t] # "lock"
  <2>1. \A c \in Second : \A d \in Blockers(c) : Blockers(d) = {}
    <3>1. SUFFICES ASSUME NEW c \in Second, NEW d \in Blockers(c) PROVE Blockers(d) = {}
      OBVIOUS
    <3>2. c \in Proc /\ d \in Proc /\ pc[c] # "lock" /\ c # d /\ pc[c] \in LockPoints
      BY <1>1, <1>4, <3>1, LockOrder
    <3>3. CASE pc[c] = "app_idxlock"
      <4>1. d \in wlock[TAIL]
        BY <3>1, <3>2, <3>3, LockOrder
      <4>2. c \in wlock[TAIL]
        BY <1>2, <3>1, <3>2
      <4> QED
        BY <3>2, <4>1, <4>2, Regions DEF LockInv, WriterAlone
    <3>4. CASE pc[c] # "app_idxlock"
      BY <3>1, <3>2, <3>4, LockOrder
    <3> QED
      BY <3>3, <3>4
  <2> DEFINE T == Blockers(p) \cup Second \cup Third
  <2>2. T \in SUBSET Proc /\ Blockers(p) \subseteq T
    BY <1>0, <1>1, LockOrder
  <2>3. \A q \in T : Blockers(q) \subseteq T
    BY <2>1
  <2>4. p \in T
    <3> HIDE DEF T
    <3> QED
      BY <2>2, <2>3 DEF InWaitCycle
  <2> QED
    BY <1>0, <1>4, <2>1, <2>4
<1> QED
  BY <1>3, <1>4

\* A circle of waiting processes always contains one that asks for a chain
\* while it holds the tail lock of an earlier append: without un_lock's wrong
\* region (db.c:484-486) the locks of the database could not deadlock.
THEOREM DeadlocksNeedTail == Spec => []DeadlockNeedsTail
<1>1. TypeOK /\ LockInv /\ HeldInside => DeadlockNeedsTail
  BY CycleStart, TailWait, ChainWait DEF DeadlockNeedsTail
<1>2. Init => HeldInside
  BY Regions DEF Init, HeldInside
<1>3. TypeOK /\ HeldInside /\ [Next]_vars => HeldInside'
  BY HeldSteps
<1> QED
  BY <1>1, <1>2, <1>3, Typing, Locking, PTL DEF Spec

-----------------------------------------------------------------------------
(* What a process knows of the file, from the record it has read.          *)

Pointers(x) == {x.offset, x.idxoff, x.ptrval, x.saveptr, x.freeptr, x.link}

\* Between _db_readidx of a record and the write over it: the handle has the
\* lengths and the data of the record, and they fit the key and the data of
\* the call.
OverRecord == {"over", "del_lock", "del_dat", "del_free", "del_idx"}
OverFree == {"ff_take", "ff_unlock", "re_dat", "re_idx"}

Knows(p) ==
  LET r == h[p].idxoff IN
  /\ r \in FirstRec..eof
  /\ h[p].datoff = rec[r].datoff /\ h[p].datlen = rec[r].datlen
  /\ rec[r].keylen = KeyLen[call[p].key]

Reuses(p) == pc[p] \in OverFree /\ h[p].offset # 0

Informed(p) ==
  /\ pc[p] \in OverRecord \/ Reuses(p) => Knows(p)
  /\ pc[p] = "over" \/ Reuses(p) => h[p].datlen = ValLen[call[p].val]
  /\ pc[p] \in {"ff_take", "re_dat", "re_idx"} => h[p].offset # 0

\* Between the two appends of db_store: the data record is the process's own.
Appends(p) == pc[p] \in {"app_datunlock", "app_idxlock", "app_idx"}

Owns(p) ==
  /\ h[p].datoff \in 1..dateof /\ dat[h[p].datoff].len = h[p].datlen
  /\ \A r \in FirstRec..eof : rec[r].datoff # h[p].datoff

PointersFit ==
  /\ \A c \in Cell : ptr[c] \in {0} \cup Allocated
  /\ \A p \in Proc : Pointers(h[p]) \subseteq {0} \cup Allocated

KeyLengths == \A r \in Allocated : rec[r].key \in Key => rec[r].keylen = KeyLen[rec[r].key]

AppendsApart ==
  /\ \A p \in Proc : Appends(p) => Owns(p)
  /\ \A p, q \in Proc : p # q /\ Appends(p) /\ Appends(q) => h[p].datoff # h[q].datoff

DataInv ==
  PointersFit /\ KeyLengths /\ DataOwned /\ (\A p \in Proc : Informed(p)) /\ AppendsApart

\* A step that leaves the lengths and the places of what is written alone.
FitStep ==
  /\ \A r \in Allocated :
       /\ rec'[r].keylen = rec[r].keylen
       /\ rec'[r].datoff = rec[r].datoff
       /\ rec'[r].datlen = rec[r].datlen
  /\ \A s \in 1..dateof : dat'[s].len = dat[s].len

OthersStay(p) ==
  \A q \in Proc \ {p} : h'[q] = h[q] /\ pc'[q] = pc[q] /\ call'[q] = call[q]

-----------------------------------------------------------------------------
(* What a step may do.                                                     *)

\* What a process knows of a record stays true while nobody changes lengths.
LEMMA KnowsStays ==
  ASSUME TypeOK, NEW p \in Proc, Knows(p), FitStep, eof <= eof', eof' \in Int,
         h'[p].idxoff = h[p].idxoff, h'[p].datoff = h[p].datoff,
         h'[p].datlen = h[p].datlen, call'[p] = call[p]
  PROVE  Knows(p)'
BY DbAssumption DEF TypeOK, Knows, FitStep, Allocated, FirstRec

\* A process that stays where it is keeps what it knows.
LEMMA OtherInformed ==
  ASSUME TypeOK, NEW q \in Proc, Informed(q), FitStep, eof <= eof', eof' \in Int,
         h'[q] = h[q], pc'[q] = pc[q], call'[q] = call[q]
  PROVE  Informed(q)'
<1>1. Knows(q) => Knows(q)'
  BY KnowsStays
<1>2. Reuses(q)' <=> Reuses(q)
  BY DEF Reuses
<1> QED
  BY <1>1, <1>2 DEF Informed

\* A step that changes no length and appends nothing keeps the invariant, if
\* the process itself knows what its next write needs.
LEMMA InPlace ==
  ASSUME TypeOK, DataInv, NEW p \in Proc, OthersStay(p),
         eof' = eof, dateof' = dateof, FitStep,
         \A c \in Cell : ptr'[c] \in {0} \cup Allocated,
         Pointers(h'[p]) \subseteq {0} \cup Allocated,
         KeyLengths', Informed(p)',
         Appends(p)' => /\ Appends(p)
                        /\ h'[p].datoff = h[p].datoff /\ h'[p].datlen = h[p].datlen
  PROVE  DataInv'
<1>0. eof \in Int /\ dateof \in Int /\ eof <= eof
  BY DbAssumption DEF TypeOK, Slot
<1>1. PointersFit'
  BY DEF DataInv, PointersFit, OthersStay, Pointers, Allocated
<1>2. DataOwned'
  BY DEF DataInv, DataOwned, FitStep, Allocated
<1>3. ASSUME NEW q \in Proc PROVE Informed(q)'
  BY <1>0, OtherInformed DEF DataInv, OthersStay
<1>4. \A q \in Proc : Appends(q)' => /\ Appends(q) /\ Owns(q)
                                     /\ h'[q].datoff = h[q].datoff /\ h'[q].datlen = h[q].datlen
  BY DEF DataInv, AppendsApart, Appends, OthersStay
<1>5. AppendsApart'
  <2>1. ASSUME NEW q \in Proc, Appends(q)' PROVE Owns(q)'
    BY <1>4, <2>1 DEF Owns, FitStep, Allocated
  <2>2. \A q, o \in Proc : q # o /\ Appends(q)' /\ Appends(o)' => h'[q].datoff # h'[o].datoff
    BY <1>4 DEF DataInv, AppendsApart
  <2> QED
    BY <2>1, <2>2 DEF AppendsApart
<1> QED
  BY <1>1, <1>2, <1>3, <1>5 DEF DataInv

\* A step that touches no file.
LEMMA NoWrite ==
  ASSUME TypeOK, DataInv, NEW p \in Proc, OthersStay(p), UNCHANGED files,
         Pointers(h'[p]) \subseteq {0} \cup Allocated, Informed(p)',
         Appends(p)' => /\ Appends(p)
                        /\ h'[p].datoff = h[p].datoff /\ h'[p].datlen = h[p].datlen
  PROVE  DataInv' /\ FitStep
<1>1. FitStep /\ eof' = eof /\ dateof' = dateof
  BY DEF FitStep, files
<1>2. \A c \in Cell : ptr'[c] \in {0} \cup Allocated
  BY DEF files, DataInv, PointersFit
<1>3. KeyLengths'
  BY DEF files, DataInv, KeyLengths, Allocated
<1> QED
  BY <1>1, <1>2, <1>3, InPlace

\* Program points at which a process knows nothing of a record.
LEMMA ElsewhereInformed ==
  ASSUME NEW p \in Proc, pc'[p] \notin OverRecord \cup OverFree
  PROVE  Informed(p)'
BY DEF Informed, Reuses, OverRecord, OverFree

\* Between two calls the handle points nowhere.
LEMMA RestPointers ==
  ASSUME NEW pos
  PROVE  Pointers(Rest(pos)) \subseteq {0}
BY DEF Pointers, Rest

\* A process that dies, or does nothing but lock and unlock.
LEMMA NoMove ==
  ASSUME TypeOK, DataInv, NEW p \in Proc, UNCHANGED <<files, pc, call, h>>
  PROVE  DataInv' /\ FitStep
<1>1. OthersStay(p) /\ FitStep
  BY DEF OthersStay, FitStep, files
<1>2. Informed(p)'
  BY DEF DataInv, Informed, Reuses, Knows, files
<1>3. Pointers(h'[p]) \subseteq {0} \cup Allocated
  BY DEF DataInv, PointersFit
<1>4. Appends(p)' => Appends(p)
  BY DEF Appends
<1> QED
  BY <1>1, <1>2, <1>3, <1>4, NoWrite

-----------------------------------------------------------------------------
(* The steps that write nothing.                                           *)

\* A walk points to the record it has read and to the next one.
LEMMA ReadIdxPointers ==
  ASSUME NEW p \in Proc, NEW r, h[p] \in Handle
  PROVE  /\ Pointers([ReadIdx(p, r) EXCEPT !.ptroff = r, !.offset = ptr[r]])
              \subseteq Pointers(h[p]) \cup {r, ptr[r]}
         /\ Pointers([ReadIdx(p, r) EXCEPT !.saveoffset = r, !.offset = ptr[r]])
              \subseteq Pointers(h[p]) \cup {r, ptr[r]}
BY DEF ReadIdx, Pointers, Handle

\* Steps that end at a place where the process knows nothing of a record.
LEMMA DataQuietStep ==
  ASSUME TypeOK, DataInv, NEW p \in Proc,
         \/ Begin(p) \/ Rewind(p) \/ BeginNextrec(p) \/ Close(p)
         \/ UnlockChain(p) \/ NextUnlock(p) \/ ReadHead(p) \/ WalkNext(p) \/ WalkEnd(p)
         \/ DelUnlock(p) \/ ReadLink(p) \/ FfHead(p) \/ FfNext(p) \/ UnlockTail(p)
         \/ NextIdx(p) \/ NextEof(p)
  PROVE  DataInv' /\ FitStep
<1>h. h[p] \in Handle /\ Pointers(h[p]) \subseteq {0} \cup Allocated
  BY DEF TypeOK, DataInv, PointersFit
<1>c. /\ h[p].offset \in Cell /\ h[p].ptroff \in Cell /\ FREE \in Cell
      /\ \A c \in Cell : ptr[c] \in {0} \cup Allocated
  BY <1>h, DbAssumption DEF Handle, FREE, Cell, DataInv, PointersFit
<1>1. CASE Begin(p) \/ Rewind(p) \/ BeginNextrec(p)
  <2>0. Pointers(h'[p]) = Pointers(h[p])
    <3>1. CASE Begin(p)
      <4>1. \E x : h' = [h EXCEPT ![p].ptroff = x]
        BY <3>1 DEF Begin
      <4> QED
        BY <1>h, <4>1 DEF TypeOK, Pointers, Handle
    <3>2. CASE Rewind(p)
      BY <1>h, <3>2 DEF TypeOK, Rewind, Pointers, Handle
    <3>3. CASE BeginNextrec(p)
      BY <3>3 DEF BeginNextrec
    <3> QED
      BY <1>1, <3>1, <3>2, <3>3
  <2>1. /\ UNCHANGED files /\ OthersStay(p)
        /\ pc'[p] \in {"lock", "idle", "nx_lock"}
    BY <1>1 DEF TypeOK, Begin, Rewind, BeginNextrec, OthersStay, Goto
  <2> QED
    BY <1>h, <2>0, <2>1, ElsewhereInformed, NoWrite DEF OverRecord, OverFree, Appends
<1>2. CASE Close(p) \/ UnlockChain(p) \/ NextUnlock(p)
  <2>1. /\ UNCHANGED files /\ OthersStay(p) /\ \E pos : h'[p] = Rest(pos)
        /\ pc'[p] \in {"idle", "closed"}
    BY <1>2 DEF TypeOK, Close, UnlockChain, NextUnlock, Return, OthersStay, Goto
  <2>2. Pointers(h'[p]) \subseteq {0}
    BY <2>1, RestPointers
  <2> QED
    BY <2>1, <2>2, ElsewhereInformed, NoWrite DEF OverRecord, OverFree, Appends
<1>3. CASE ReadHead(p) \/ WalkNext(p) \/ WalkEnd(p)
  <2>1. /\ UNCHANGED files /\ OthersStay(p)
        /\ pc'[p] \in {"walk", "link", "unlock"}
    <3>1. CASE ReadHead(p)
      BY <3>1 DEF TypeOK, ReadHead, OthersStay, Goto, Local
    <3>2. CASE WalkNext(p)
      BY <3>2 DEF TypeOK, WalkNext, OthersStay, Local
    <3>3. CASE WalkEnd(p)
      BY <3>3 DEF TypeOK, WalkEnd, OthersStay, Goto, Local
    <3> QED
      BY <1>3, <3>1, <3>2, <3>3
  <2>2. Pointers(h'[p]) \subseteq Pointers(h[p]) \cup {ptr[h[p].offset], ptr[h[p].ptroff]}
    <3>1. CASE ReadHead(p)
      BY <1>h, <3>1 DEF TypeOK, ReadHead, Pointers, Handle
    <3>2. CASE WalkNext(p)
      <4>1. h'[p] = [ReadIdx(p, h[p].offset) EXCEPT !.ptroff = h[p].offset,
                                                    !.offset = ptr[h[p].offset]]
        BY <3>2 DEF TypeOK, WalkNext
      <4> QED
        BY <1>h, <4>1, ReadIdxPointers DEF Pointers
    <3>3. CASE WalkEnd(p)
      BY <3>3 DEF WalkEnd
    <3> QED
      BY <1>3, <3>1, <3>2, <3>3
  <2> QED
    BY <1>h, <1>c, <2>1, <2>2, ElsewhereInformed, NoWrite DEF OverRecord, OverFree, Appends
<1>4. CASE DelUnlock(p) \/ UnlockTail(p) \/ NextEof(p)
  <2>1. /\ UNCHANGED files /\ OthersStay(p) /\ h'[p] = h[p]
        /\ pc'[p] \in {"unlock", "relink", "pub", "nx_unlock"}
    BY <1>4 DEF TypeOK, DelUnlock, UnlockTail, NextEof, OthersStay, Goto, Local
  <2> QED
    BY <1>h, <2>1, ElsewhereInformed, NoWrite DEF OverRecord, OverFree, Appends
<1>5. CASE ReadLink(p) \/ FfHead(p) \/ FfNext(p)
  <2>0. Chain(p) \in Cell
    <3>1. call[p] \in Call
      BY <1>5 DEF TypeOK, ReadLink, FfHead, FfNext
    <3> QED
      BY <3>1, DbAssumption DEF Chain, Call, Cell
  <2>1. /\ UNCHANGED files /\ OthersStay(p)
        /\ pc'[p] \in {"ff_lock", "app_datlock", "ff_walk"}
    <3>1. CASE ReadLink(p)
      BY <3>1 DEF TypeOK, ReadLink, OthersStay, Goto, Local
    <3>2. CASE FfHead(p)
      BY <3>2 DEF TypeOK, FfHead, OthersStay, Goto, Local
    <3>3. CASE FfNext(p)
      BY <3>3 DEF TypeOK, FfNext, OthersStay, Local
    <3> QED
      BY <1>5, <3>1, <3>2, <3>3
  <2>2. Pointers(h'[p]) \subseteq
          Pointers(h[p]) \cup {ptr[Chain(p)], ptr[FREE], ptr[h[p].offset]}
    <3>1. CASE ReadLink(p)
      BY <1>h, <3>1 DEF TypeOK, ReadLink, Pointers, Handle
    <3>2. CASE FfHead(p)
      BY <1>h, <3>2 DEF TypeOK, FfHead, Pointers, Handle
    <3>3. CASE FfNext(p)
      <4>1. h'[p] = [ReadIdx(p, h[p].offset) EXCEPT !.saveoffset = h[p].offset,
                                                    !.offset = ptr[h[p].offset]]
        BY <3>3 DEF TypeOK, FfNext
      <4> QED
        BY <1>h, <4>1, ReadIdxPointers DEF Pointers
    <3> QED
      BY <1>5, <3>1, <3>2, <3>3
  <2> QED
    BY <1>h, <1>c, <2>0, <2>1, <2>2, ElsewhereInformed, NoWrite DEF OverRecord, OverFree, Appends
<1>6. CASE NextIdx(p)
  <2>0. h[p].pos \in Allocated /\ h[p].pos \in Cell
    BY <1>6, DbAssumption DEF NextIdx, Allocated, TypeOK, FirstRec, Cell
  <2>1. /\ UNCHANGED files /\ OthersStay(p) /\ pc'[p] \in {"nx_read", "nx_dat"}
    BY <1>6 DEF TypeOK, NextIdx, OthersStay, Goto, Local
  <2>2. Pointers(h'[p]) \subseteq Pointers(h[p]) \cup {h[p].pos, ptr[h[p].pos]}
    BY <1>6 DEF TypeOK, NextIdx, ReadIdx, Pointers
  <2> QED
    BY <1>h, <1>c, <2>0, <2>1, <2>2, ElsewhereInformed, NoWrite DEF OverRecord, OverFree, Appends
<1> QED
  BY <1>1, <1>2, <1>3, <1>4, <1>5, <1>6

\* _db_readdat: the process goes on to the end of its call, or is gone.
LEMMA ReadDatStep ==
  ASSUME TypeOK, DataInv, NEW p \in Proc, FetchDat(p) \/ NextDat(p)
  PROVE  DataInv' /\ FitStep
<1>1. CASE Die(p)
  BY <1>1, NoMove DEF Die
<1>2. CASE ~ Die(p)
  <2>1. /\ UNCHANGED files /\ OthersStay(p) /\ h'[p] = h[p]
        /\ pc'[p] \in {"unlock", "nx_unlock"}
    BY <1>2 DEF TypeOK, FetchDat, NextDat, ReadDat, OthersStay, Goto, Local
  <2>2. Pointers(h'[p]) \subseteq {0} \cup Allocated
    BY <2>1 DEF DataInv, PointersFit
  <2> QED
    BY <2>1, <2>2, ElsewhereInformed, NoWrite DEF OverRecord, OverFree, Appends
<1> QED
  BY <1>1, <1>2

\* _db_find_and_lock has found the key, and _db_findfree a record of the
\* lengths it was asked for: the process knows the record.
LEMMA FoundStep ==
  ASSUME TypeOK, DataInv, NEW p \in Proc, WalkHit(p) \/ FfHit(p)
  PROVE  DataInv' /\ FitStep
<1> DEFINE r == h[p].offset
<1>1. /\ UNCHANGED <<files, call>> /\ OthersStay(p) /\ h'[p] = ReadIdx(p, r)
      /\ pc'[p] \in {"readdat", "unlock", "del_lock", "over", "ff_take"}
      /\ pc'[p] = "over" => ValLen[call[p].val] = rec[r].datlen
      /\ pc'[p] = "ff_take" => rec[r].keylen = KeyLen[call[p].key]
                              /\ rec[r].datlen = ValLen[call[p].val]
      /\ pc'[p] # "ff_take" => rec[r].key = call[p].key
      /\ r # 0
  BY DEF TypeOK, WalkHit, FfHit, AfterHit, SameSize, OthersStay, Goto, Local
<1>2. h[p] \in Handle /\ call[p] \in Call
  BY DEF TypeOK, WalkHit, FfHit
<1>3. r \in Allocated /\ r \in Cell /\ ptr[r] \in {0} \cup Allocated
  BY <1>1, <1>2 DEF Handle, DataInv, PointersFit, Pointers
<1>4. rec[r].keylen = KeyLen[call[p].key]
  BY <1>1, <1>2, <1>3 DEF DataInv, KeyLengths, Call
<1>5. /\ h'[p].idxoff = r /\ h'[p].datoff = rec[r].datoff /\ h'[p].datlen = rec[r].datlen
      /\ h'[p].ptrval = ptr[r] /\ h'[p].offset = r
      /\ h'[p].saveptr = h[p].saveptr /\ h'[p].freeptr = h[p].freeptr
      /\ h'[p].link = h[p].link
  BY <1>1, <1>2 DEF ReadIdx, Handle
<1>6. Pointers(h'[p]) \subseteq {0} \cup Allocated
  BY <1>3, <1>5 DEF Pointers, DataInv, PointersFit
<1>7. Knows(p)'
  BY <1>1, <1>3, <1>4, <1>5 DEF Knows, Allocated, files
<1>8. Informed(p)'
  BY <1>1, <1>5, <1>7 DEF Informed, Reuses, OverRecord, OverFree
<1> QED
  BY <1>1, <1>6, <1>8, NoWrite DEF Appends

\* Steps between the read of a record and the write over it, or between the
\* two appends, that leave both files alone.
LEMMA HoldStep ==
  ASSUME TypeOK, DataInv, NEW p \in Proc,
         LockGranted(p) \/ DelFree(p) \/ FfEnd(p) \/ FfUnlock(p) \/ UnlockDat(p)
  PROVE  DataInv' /\ FitStep
<1>h. h[p] \in Handle /\ Pointers(h[p]) \subseteq {0} \cup Allocated
  BY DEF TypeOK, DataInv, PointersFit
<1>s. FitStep /\ eof <= eof' /\ eof' \in Int
  BY DbAssumption DEF FitStep, TypeOK, LockGranted, DelFree, FfEnd, FfUnlock, UnlockDat,
     Local, files
<1>1. CASE LockGranted(p)
  <2>1. /\ UNCHANGED <<files, call, h>> /\ OthersStay(p)
        /\ pc'[p] \in {"head", "nx_read", "ff_head", "app_dat", "del_dat", "app_idx"}
        /\ pc'[p] = "del_dat" => pc[p] = "del_lock"
        /\ pc'[p] = "app_idx" => pc[p] = "app_idxlock"
    BY <1>1 DEF TypeOK, LockGranted, AfterLock, LockPoints, OthersStay, Goto
  <2>2. pc'[p] = "del_dat" => Knows(p)'
    BY <1>s, <2>1, KnowsStays DEF DataInv, Informed, OverRecord
  <2>3. Informed(p)'
    BY <2>1, <2>2 DEF Informed, Reuses, OverRecord, OverFree
  <2> QED
    BY <1>h, <2>1, <2>3, NoWrite DEF Appends
<1>2. CASE DelFree(p)
  <2>1. /\ UNCHANGED <<files, call>> /\ OthersStay(p)
        /\ pc[p] = "del_free" /\ pc'[p] = "del_idx"
        /\ h'[p].idxoff = h[p].idxoff /\ h'[p].datoff = h[p].datoff
        /\ h'[p].datlen = h[p].datlen
        /\ Pointers(h'[p]) \subseteq Pointers(h[p]) \cup {ptr[FREE]}
    BY <1>2 DEF TypeOK, DelFree, Local, OthersStay, Goto, Pointers
  <2>2. Knows(p)'
    BY <1>s, <2>1, KnowsStays DEF DataInv, Informed, OverRecord
  <2>3. Informed(p)'
    BY <2>1, <2>2 DEF Informed, Reuses, OverRecord, OverFree
  <2>4. Pointers(h'[p]) \subseteq {0} \cup Allocated
    BY <1>h, <2>1, DbAssumption DEF DataInv, PointersFit, FREE, Cell
  <2> QED
    BY <2>1, <2>3, <2>4, NoWrite DEF Appends
<1>3. CASE FfEnd(p) \/ FfUnlock(p)
  <2>1. /\ UNCHANGED <<files, call, h>> /\ OthersStay(p)
        /\ pc'[p] \in {"ff_unlock", "app_datlock", "re_dat"}
        /\ pc'[p] = "ff_unlock" => h[p].offset = 0
        /\ pc'[p] = "re_dat" => pc[p] = "ff_unlock" /\ h[p].offset # 0
    BY <1>3 DEF TypeOK, FfEnd, FfUnlock, Local, OthersStay, Goto
  <2>2. pc'[p] = "re_dat" => Knows(p)' /\ h[p].datlen = ValLen[call[p].val]
    BY <1>s, <2>1, KnowsStays DEF DataInv, Informed, Reuses, OverFree
  <2>3. Informed(p)'
    BY <2>1, <2>2 DEF Informed, Reuses, OverRecord, OverFree
  <2> QED
    BY <1>h, <2>1, <2>3, NoWrite DEF Appends
<1>4. CASE UnlockDat(p)
  <2>1. /\ UNCHANGED <<files, call, h>> /\ OthersStay(p)
        /\ pc[p] = "app_datunlock" /\ pc'[p] = "app_idxlock"
    BY <1>4 DEF TypeOK, UnlockDat, OthersStay, Goto
  <2> QED
    BY <1>h, <2>1, ElsewhereInformed, NoWrite DEF OverRecord, OverFree, Appends
<1> QED
  BY <1>1, <1>2, <1>3, <1>4

-----------------------------------------------------------------------------
(* The writes in place.                                                    *)

\* A write of a pointer field puts one of the process's pointers there.
LEMMA PointerStep ==
  ASSUME TypeOK, DataInv, NEW p \in Proc,
         DelPush(p) \/ DelLink(p) \/ FfTake(p) \/ Publish(p)
  PROVE  DataInv' /\ FitStep
<1>h. h[p] \in Handle /\ Pointers(h[p]) \subseteq {0} \cup Allocated
  BY DEF TypeOK, DataInv, PointersFit
<1>1. /\ UNCHANGED <<rec, eof, dat, dateof, call>> /\ OthersStay(p)
      /\ \E c : ptr' = [ptr EXCEPT ![c] = PtrArg(p)]
  BY DEF TypeOK, DelPush, DelLink, FfTake, Publish, WritePtr, OthersStay, Goto
<1>2. PtrArg(p) \in {0} \cup Pointers(h[p])
  <2>1. pc[p] \in {"del_push", "del_link", "ff_take", "pub"}
    BY DEF DelPush, DelLink, FfTake, Publish
  <2>2. CASE pc[p] = "ff_take"
    <3>1. h[p].ptrval \in Pointers(h[p])
      BY DEF Pointers
    <3> QED
      BY <2>2, <3>1 DEF PtrArg
  <2>3. CASE pc[p] \in {"del_push", "pub"}
    <3>1. h[p].idxoff \in Pointers(h[p])
      BY DEF Pointers
    <3> QED
      BY <2>3, <3>1 DEF PtrArg
  <2>4. CASE pc[p] = "del_link"
    <3>1. h[p].saveptr \in Pointers(h[p])
      BY DEF Pointers
    <3> QED
      BY <2>4, <3>1 DEF PtrArg
  <2> QED
    BY <2>1, <2>2, <2>3, <2>4
<1>3. \A c \in Cell : ptr'[c] \in {0} \cup Allocated
  BY <1>h, <1>1, <1>2 DEF TypeOK, DataInv, PointersFit
<1>4. Pointers(h'[p]) = Pointers(h[p])
  BY <1>h DEF TypeOK, DelPush, DelLink, FfTake, Publish, Pointers, Handle
<1>5. FitStep /\ KeyLengths'
  BY <1>1 DEF FitStep, DataInv, KeyLengths, Allocated
<1>6. Informed(p)' /\ ~ Appends(p)'
  <2>1. CASE FfTake(p)
    <3>1. h'[p] = h[p] /\ call'[p] = call[p] /\ pc[p] = "ff_take" /\ pc'[p] = "ff_unlock"
      BY <2>1 DEF TypeOK, FfTake, WritePtr, Goto
    <3>2. Reuses(p)
      BY <3>1 DEF Reuses, OverFree, DataInv, Informed
    <3>3. Knows(p) /\ h[p].datlen = ValLen[call[p].val]
      BY <3>2 DEF DataInv, Informed
    <3>4. Knows(p)'
      BY <1>1, <3>1, <3>3 DEF Knows
    <3> QED
      BY <3>1, <3>3, <3>4 DEF Informed, Reuses, OverRecord, OverFree, Appends
  <2>2. CASE DelPush(p) \/ DelLink(p) \/ Publish(p)
    <3>1. pc'[p] \in {"del_link", "del_unlock", "unlock"}
      BY <2>2 DEF TypeOK, DelPush, DelLink, Publish, WritePtr, Goto
    <3> QED
      BY <3>1, ElsewhereInformed DEF OverRecord, OverFree, Appends
  <2> QED
    BY <2>1, <2>2
<1> QED
  BY <1>h, <1>1, <1>3, <1>4, <1>5, <1>6, InPlace

\* A write over the data of a record leaves their length alone.
LEMMA DatStep ==
  ASSUME TypeOK, DataInv, NEW p \in Proc, DelDat(p) \/ ReuseDat(p) \/ Overwrite(p)
  PROVE  DataInv' /\ FitStep
<1>h. h[p] \in Handle /\ Pointers(h[p]) \subseteq {0} \cup Allocated
  BY DEF TypeOK, DataInv, PointersFit
<1>1. /\ UNCHANGED <<ptr, rec, eof, dateof, call>> /\ OthersStay(p)
      /\ \E d : dat' = [dat EXCEPT ![h[p].datoff] = d] /\ d.len = IF DelDat(p) THEN h[p].datlen ELSE ValLen[call[p].val]
  BY DEF TypeOK, DelDat, ReuseDat, Overwrite, NewDat, OthersStay, Goto
<1>2. Knows(p) /\ (~ DelDat(p) => h[p].datlen = ValLen[call[p].val])
  <2>1. CASE DelDat(p)
    BY <2>1 DEF DelDat, DataInv, Informed, OverRecord
  <2>2. CASE ReuseDat(p)
    <3>1. Reuses(p)
      BY <2>2 DEF ReuseDat, Reuses, OverFree, DataInv, Informed
    <3> QED
      BY <3>1 DEF DataInv, Informed
  <2>3. CASE Overwrite(p)
    BY <2>3 DEF Overwrite, DataInv, Informed, OverRecord
  <2> QED
    BY <2>1, <2>2, <2>3
<1>3. h[p].datoff \in 1..dateof /\ dat[h[p].datoff].len = h[p].datlen
  BY <1>2 DEF Knows, DataInv, DataOwned, Allocated
<1>4. FitStep
  <2>1. PICK d : dat' = [dat EXCEPT ![h[p].datoff] = d] /\ d.len = h[p].datlen
    BY <1>1, <1>2
  <2>2. \A s \in 1..dateof : dat'[s].len = dat[s].len
    <3>1. 1..dateof \subseteq Slot
      BY DbAssumption DEF TypeOK, Slot
    <3> QED
      BY <1>3, <2>1, <3>1 DEF TypeOK
  <2> QED
    BY <1>1, <2>2 DEF FitStep
<1>5. /\ h'[p].idxoff = h[p].idxoff /\ h'[p].datoff = h[p].datoff
      /\ h'[p].datlen = h[p].datlen /\ h'[p].offset = h[p].offset
      /\ Pointers(h'[p]) = Pointers(h[p])
  <2>1. CASE ReuseDat(p)
    BY <1>h, <1>2, <2>1 DEF TypeOK, ReuseDat, DelDat, Pointers, Handle
  <2>2. CASE DelDat(p) \/ Overwrite(p)
    BY <2>2 DEF DelDat, Overwrite
  <2> QED
    BY <2>1, <2>2
<1>6. Knows(p)'
  BY <1>1, <1>2, <1>5 DEF Knows
<1>7. Informed(p)' /\ ~ Appends(p)'
  <2>1. CASE DelDat(p)
    <3>1. pc'[p] = "del_free"
      BY <2>1 DEF TypeOK, DelDat, Goto
    <3> QED
      BY <1>6, <3>1 DEF Informed, Reuses, OverRecord, OverFree, Appends
  <2>2. CASE ReuseDat(p)
    <3>1. pc'[p] = "re_idx" /\ call'[p] = call[p] /\ h[p].offset # 0
          /\ h'[p].datlen = ValLen[call[p].val]
      BY <1>h, <2>2 DEF TypeOK, ReuseDat, Goto, Handle, DataInv, Informed
    <3> QED
      BY <1>5, <1>6, <3>1 DEF Informed, Reuses, OverRecord, OverFree, Appends
  <2>3. CASE Overwrite(p)
    <3>1. pc'[p] = "unlock"
      BY <2>3 DEF TypeOK, Overwrite, Goto
    <3> QED
      BY <3>1, ElsewhereInformed DEF OverRecord, OverFree, Appends
  <2> QED
    BY <2>1, <2>2, <2>3
<1>8. KeyLengths' /\ \A c \in Cell : ptr'[c] \in {0} \cup Allocated
  BY <1>1 DEF DataInv, KeyLengths, PointersFit, Allocated
<1> QED
  BY <1>h, <1>1, <1>4, <1>5, <1>7, <1>8, InPlace

\* A write over an index record leaves its lengths and its data alone.
LEMMA IdxStep ==
  ASSUME TypeOK, DataInv, NEW p \in Proc, DelIdx(p) \/ ReuseIdx(p)
  PROVE  DataInv' /\ FitStep
<1> DEFINE r == h[p].idxoff
           next == IF DelIdx(p) THEN h[p].freeptr ELSE h[p].link
           k == IF DelIdx(p) THEN Blank ELSE call[p].key
<1>h. h[p] \in Handle /\ Pointers(h[p]) \subseteq {0} \cup Allocated
  BY DEF TypeOK, DataInv, PointersFit
<1>1. /\ UNCHANGED <<eof, dat, dateof, call>> /\ OthersStay(p)
      /\ WriteIdx(p, r, k, KeyLen[call[p].key], next)
      /\ pc'[p] \in {"del_push", "pub"}
      /\ h' = [h EXCEPT ![p].ptrval = next]
  <2>1. CASE DelIdx(p)
    BY <2>1 DEF TypeOK, DelIdx, OthersStay, Goto
  <2>2. CASE ReuseIdx(p)
    <3>1. ~ DelIdx(p)
      BY <2>2 DEF ReuseIdx, DelIdx
    <3> QED
      BY <2>2, <3>1 DEF TypeOK, ReuseIdx, OthersStay, Goto
  <2> QED
    BY <2>1, <2>2
<1>2. Knows(p)
  <2>1. CASE DelIdx(p)
    BY <2>1 DEF DelIdx, DataInv, Informed, OverRecord
  <2>2. CASE ReuseIdx(p)
    <3>1. Reuses(p)
      BY <2>2 DEF ReuseIdx, Reuses, OverFree, DataInv, Informed
    <3> QED
      BY <3>1 DEF DataInv, Informed
  <2> QED
    BY <2>1, <2>2
<1>3. next \in Pointers(h[p])
  BY DEF Pointers
<1> HIDE DEF next, k
<1>4. Allocated \subseteq Cell
  BY DbAssumption DEF TypeOK, Allocated, FirstRec, Cell
<1>5. FitStep
  BY <1>1, <1>2, <1>4 DEF TypeOK, WriteIdx, Knows, FitStep, Allocated
<1>6. \A c \in Cell : ptr'[c] \in {0} \cup Allocated
  BY <1>h, <1>1, <1>3 DEF TypeOK, WriteIdx, DataInv, PointersFit
<1>7. Pointers(h'[p]) \subseteq {0} \cup Allocated
  BY <1>h, <1>1, <1>3 DEF TypeOK, Pointers, Handle
<1>8. KeyLengths'
  <2>1. k = Blank \/ k = call[p].key
    BY DEF k
  <2> QED
    BY <1>1, <1>4, <2>1, DbAssumption DEF TypeOK, WriteIdx, DataInv, KeyLengths, Allocated
<1>9. Informed(p)' /\ ~ Appends(p)'
  BY <1>1, ElsewhereInformed DEF OverRecord, OverFree, Appends
<1> QED
  BY <1>1, <1>5, <1>6, <1>7, <1>8, <1>9, InPlace

-----------------------------------------------------------------------------
(* The appends.                                                            *)

\* The data file grows by a record that belongs to the process until its
\* index record is written.
LEMMA AppendDatStep ==
  ASSUME TypeOK, DataInv, NEW p \in Proc, AppendDat(p)
  PROVE  DataInv' /\ FitStep
<1>0. CASE Die(p)
  BY <1>0, NoMove DEF Die
<1>a. CASE ~ Die(p)
  <2>h. h[p] \in Handle /\ Pointers(h[p]) \subseteq {0} \cup Allocated
    BY DEF TypeOK, DataInv, PointersFit
  <2>1. /\ dateof < DatMax /\ dateof' = dateof + 1
        /\ dat' = [dat EXCEPT ![dateof + 1] = NewDat(p)]
        /\ h' = [h EXCEPT ![p].datoff = dateof + 1, ![p].datlen = ValLen[call[p].val]]
        /\ pc' = [pc EXCEPT ![p] = "app_datunlock"]
        /\ UNCHANGED <<ptr, rec, eof, call>>
    BY <1>a DEF AppendDat, Goto
  <2>2. dateof \in Nat /\ dateof + 1 \in Slot /\ 1..dateof \subseteq Slot
    BY <2>1, DbAssumption DEF TypeOK, Slot
  <2>3. OthersStay(p)
    BY <2>1 DEF TypeOK, OthersStay
  <2>4. dat'[dateof + 1] = NewDat(p) /\ \A s \in 1..dateof : dat'[s] = dat[s]
    BY <2>1, <2>2 DEF TypeOK
  <2>5. FitStep
    BY <2>1, <2>4 DEF FitStep
  <2>6. DataOwned'
    BY <2>1, <2>2, <2>4 DEF DataInv, DataOwned, Allocated
  <2>7. KeyLengths'
    BY <2>1 DEF DataInv, KeyLengths, Allocated
  <2>8. Pointers(h'[p]) = Pointers(h[p]) /\ h'[p].datoff = dateof + 1
        /\ h'[p].datlen = ValLen[call[p].val]
    BY <2>h, <2>1 DEF TypeOK, Pointers, Handle
  <2>9. PointersFit'
    BY <2>1, <2>3, <2>8 DEF DataInv, PointersFit, OthersStay, Allocated
  <2>10. ASSUME NEW q \in Proc PROVE Informed(q)'
    <3>1. CASE q = p
      <4>1. pc'[p] = "app_datunlock"
        BY <2>1 DEF TypeOK
      <4> QED
        BY <3>1, <4>1, ElsewhereInformed DEF OverRecord, OverFree
    <3>2. CASE q # p
      <4>1. eof <= eof' /\ eof' \in Int
        BY <2>1, DbAssumption DEF TypeOK
      <4> QED
        BY <2>3, <2>5, <3>2, <4>1, OtherInformed DEF DataInv, OthersStay
    <3> QED
      BY <3>1, <3>2
  <2>11. \A q \in Proc \ {p} : Appends(q)' => Appends(q) /\ Owns(q) /\ h'[q] = h[q]
    BY <2>3 DEF DataInv, AppendsApart, Appends, OthersStay
  <2>12. \A q \in Proc \ {p} : Appends(q)' => h'[q].datoff \in 1..dateof
    BY <2>11 DEF Owns
  <2>13. Owns(p)'
    <3>1. dateof + 1 \in 1..dateof' /\ dat'[dateof + 1].len = h'[p].datlen
      BY <2>1, <2>2, <2>4, <2>8 DEF NewDat
    <3>2. \A r \in FirstRec..eof : rec[r].datoff # dateof + 1
      BY <2>2 DEF DataInv, DataOwned, Allocated
    <3> QED
      BY <2>1, <2>8, <3>1, <3>2 DEF Owns
  <2>14. ASSUME NEW q \in Proc \ {p}, Appends(q)' PROVE Owns(q)'
    <3>1. Owns(q) /\ h'[q] = h[q]
      BY <2>11, <2>14
    <3>2. h[q].datoff \in 1..dateof' /\ dat'[h[q].datoff] = dat[h[q].datoff]
      BY <2>1, <2>2, <2>4, <3>1 DEF Owns
    <3> QED
      BY <2>1, <3>1, <3>2 DEF Owns
  <2>15. \A q, o \in Proc : q # o /\ Appends(q)' /\ Appends(o)' => h'[q].datoff # h'[o].datoff
    BY <2>2, <2>8, <2>11, <2>12 DEF DataInv, AppendsApart
  <2>16. AppendsApart'
    BY <2>13, <2>14, <2>15 DEF AppendsApart
  <2> QED
    BY <2>5, <2>6, <2>7, <2>9, <2>10, <2>16 DEF DataInv
<1> QED
  BY <1>0, <1>a

\* The index file grows by a record that takes over the data the process has
\* appended.
LEMMA AppendIdxStep ==
  ASSUME TypeOK, DataInv, NEW p \in Proc, AppendIdx(p)
  PROVE  DataInv' /\ FitStep
<1>0. CASE Die(p)
  BY <1>0, NoMove DEF Die
<1>a. CASE ~ Die(p)
  <2> DEFINE r == eof + 1
  <2>h. h[p] \in Handle /\ Pointers(h[p]) \subseteq {0} \cup Allocated
    BY DEF TypeOK, DataInv, PointersFit
  <2>1. /\ pc[p] = "app_idx" /\ eof < IdxMax /\ eof' = r
        /\ WriteIdx(p, r, call[p].key, KeyLen[call[p].key], h[p].link)
        /\ h' = [h EXCEPT ![p].idxoff = r, ![p].ptrval = h[p].link]
        /\ pc' = [pc EXCEPT ![p] = "app_idxunlock"]
        /\ UNCHANGED <<dat, dateof, call>>
    BY <1>a DEF AppendIdx, Goto
  <2>2. /\ eof \in Int /\ eof >= NHash /\ NHash \in Nat /\ r \in Cell
        /\ Allocated \subseteq Cell /\ r \notin Allocated
        /\ Allocated' = Allocated \cup {r}
    <3>1. eof \in Int /\ eof >= NHash /\ NHash \in Nat /\ IdxMax \in Nat /\ eof <= IdxMax
      BY DbAssumption DEF TypeOK
    <3>2. r \in Cell /\ Allocated \subseteq Cell
      BY <2>1, <3>1 DEF Cell, Allocated, FirstRec
    <3>3. r \notin Allocated
      BY <3>1 DEF Allocated, FirstRec
    <3>4. Allocated' = (NHash + 1)..r
      BY <2>1 DEF Allocated, FirstRec
    <3>5. (NHash + 1)..r = ((NHash + 1)..eof) \cup {r}
      BY <3>1
    <3> QED
      BY <3>1, <3>2, <3>3, <3>4, <3>5 DEF Allocated, FirstRec
  <2>3. OthersStay(p)
    BY <2>1 DEF TypeOK, OthersStay
  <2>4. /\ \A s \in Allocated : rec'[s] = rec[s]
        /\ rec'[r].key = call[p].key /\ rec'[r].keylen = KeyLen[call[p].key]
        /\ rec'[r].datoff = h[p].datoff /\ rec'[r].datlen = h[p].datlen
    BY <2>1, <2>2 DEF TypeOK, WriteIdx
  <2>5. FitStep
    BY <2>1, <2>4 DEF FitStep
  <2>6. Owns(p)
    BY <2>1 DEF DataInv, AppendsApart, Appends
  <2>7. DataOwned'
    <3>1. \A s \in Allocated' :
            rec'[s].datoff \in 1..dateof' /\ dat'[rec'[s].datoff].len = rec'[s].datlen
      BY <2>1, <2>2, <2>4, <2>6 DEF DataInv, DataOwned, Owns
    <3>2. \A s, t \in Allocated' : s # t => rec'[s].datoff # rec'[t].datoff
      BY <2>2, <2>4, <2>6 DEF DataInv, DataOwned, Owns, Allocated
    <3> QED
      BY <3>1, <3>2 DEF DataOwned
  <2>8. KeyLengths'
    BY <2>2, <2>4 DEF DataInv, KeyLengths
  <2>9. Pointers(h'[p]) \subseteq Pointers(h[p]) \cup {r}
    BY <2>h, <2>1 DEF TypeOK, Pointers, Handle
  <2>10. h[p].link \in {0} \cup Allocated
    BY <2>h DEF Pointers
  <2>11. \A c \in Cell : ptr'[c] \in {0} \cup Allocated'
    BY <2>1, <2>2, <2>10 DEF TypeOK, WriteIdx, DataInv, PointersFit
  <2>12. PointersFit'
    <3>1. ASSUME NEW q \in Proc PROVE Pointers(h'[q]) \subseteq {0} \cup Allocated'
      <4>1. CASE q = p
        BY <2>h, <2>2, <2>9, <4>1
      <4>2. CASE q # p
        BY <2>2, <2>3, <4>2 DEF OthersStay, DataInv, PointersFit
      <4> QED
        BY <4>1, <4>2
    <3> QED
      BY <2>11, <3>1 DEF PointersFit, Pointers
  <2>13. ASSUME NEW q \in Proc PROVE Informed(q)'
    <3>1. CASE q = p
      <4>1. pc'[p] = "app_idxunlock"
        BY <2>1 DEF TypeOK
      <4> QED
        BY <3>1, <4>1, ElsewhereInformed DEF OverRecord, OverFree
    <3>2. CASE q # p
      <4>1. eof <= eof' /\ eof' \in Int
        BY <2>1, <2>2
      <4> QED
        BY <2>3, <2>5, <3>2, <4>1, OtherInformed DEF DataInv, OthersStay
    <3> QED
      BY <3>1, <3>2
  <2>14. \A q \in Proc : Appends(q)' =>
           q # p /\ Appends(q) /\ Owns(q) /\ h'[q] = h[q] /\ h[q].datoff # h[p].datoff
    <3>1. pc'[p] = "app_idxunlock" /\ Appends(p)
      BY <2>1 DEF TypeOK, Appends
    <3> QED
      BY <2>3, <3>1 DEF DataInv, AppendsApart, Appends, OthersStay
  <2>15. ASSUME NEW q \in Proc, Appends(q)' PROVE Owns(q)'
    <3>1. \A s \in Allocated' : rec'[s].datoff # h'[q].datoff
      BY <2>2, <2>4, <2>14, <2>15 DEF Owns, Allocated
    <3> QED
      BY <2>1, <2>14, <2>15, <3>1 DEF Owns, Allocated
  <2>16. \A q, o \in Proc : q # o /\ Appends(q)' /\ Appends(o)' => h'[q].datoff # h'[o].datoff
    BY <2>14 DEF DataInv, AppendsApart
  <2>17. AppendsApart'
    BY <2>15, <2>16 DEF AppendsApart
  <2> QED
    BY <2>5, <2>7, <2>8, <2>12, <2>13, <2>17 DEF DataInv
<1> QED
  BY <1>0, <1>a

-----------------------------------------------------------------------------
\* Every step of a process.
LEMMA DataStep ==
  ASSUME TypeOK, DataInv, NEW p \in Proc, Step(p)
  PROVE  DataInv' /\ FitStep
<1>1. CASE \/ StoreBadLength(p) \/ StoreBadFlag(p) \/ Kill(p) \/ LockDeadlock(p)
           \/ PtrTooBig(p) \/ NextBadRecord(p)
  BY <1>1, NoMove DEF StoreBadLength, StoreBadFlag, Kill, LockDeadlock, PtrTooBig,
     NextBadRecord, Die
<1>2. CASE \/ Begin(p) \/ Rewind(p) \/ BeginNextrec(p) \/ Close(p)
           \/ UnlockChain(p) \/ NextUnlock(p) \/ ReadHead(p) \/ WalkNext(p) \/ WalkEnd(p)
           \/ DelUnlock(p) \/ ReadLink(p) \/ FfHead(p) \/ FfNext(p) \/ UnlockTail(p)
           \/ NextIdx(p) \/ NextEof(p)
  BY <1>2, DataQuietStep
<1>3. CASE FetchDat(p) \/ NextDat(p)
  BY <1>3, ReadDatStep
<1>4. CASE WalkHit(p) \/ FfHit(p)
  BY <1>4, FoundStep
<1>5. CASE LockGranted(p) \/ DelFree(p) \/ FfEnd(p) \/ FfUnlock(p) \/ UnlockDat(p)
  BY <1>5, HoldStep
<1>6. CASE DelPush(p) \/ DelLink(p) \/ FfTake(p) \/ Publish(p)
  BY <1>6, PointerStep
<1>7. CASE DelDat(p) \/ ReuseDat(p) \/ Overwrite(p)
  BY <1>7, DatStep
<1>8. CASE DelIdx(p) \/ ReuseIdx(p)
  BY <1>8, IdxStep
<1>9. CASE AppendDat(p)
  BY <1>9, AppendDatStep
<1>10. CASE AppendIdx(p)
  BY <1>10, AppendIdxStep
<1> QED
  BY <1>1, <1>2, <1>3, <1>4, <1>5, <1>6, <1>7, <1>8, <1>9, <1>10 DEF Step, Enter, InCall

\* DataInv is inductive: it holds of the empty database, and no step of any
\* process breaks it.
LEMMA DataSteps == TypeOK /\ DataInv /\ [Next]_vars => DataInv' /\ (FitStep \/ UNCHANGED vars)
<1> SUFFICES ASSUME TypeOK, DataInv, [Next]_vars
             PROVE  DataInv' /\ (FitStep \/ UNCHANGED vars)
  OBVIOUS
<1>1. CASE UNCHANGED vars
  BY <1>1 DEF vars, DataInv, PointersFit, KeyLengths, DataOwned, AppendsApart, Informed,
     Reuses, Knows, Appends, Owns, Allocated
<1>2. CASE \E p \in Proc : Step(p)
  BY <1>2, DataStep
<1> QED
  BY <1>1, <1>2 DEF Next, Done

\* Empty files own nothing.
LEMMA DataInit == Init => DataInv
<1> SUFFICES ASSUME Init PROVE DataInv
  OBVIOUS
<1>1. Allocated = {}
  BY DbAssumption DEF Init, Allocated, FirstRec
<1>2. \A p \in Proc : Pointers(h[p]) \subseteq {0}
  BY RestPointers DEF Init
<1>3. \A p \in Proc : Informed(p) /\ ~ Appends(p)
  BY DEF Init, Informed, Reuses, OverRecord, OverFree, Appends
<1> QED
  BY <1>1, <1>2, <1>3 DEF Init, DataInv, PointersFit, KeyLengths, DataOwned, AppendsApart

\* Two index records never share data and each tells the length its data
\* have, for any number of processes and records, whoever dies where.
THEOREM DataOwnership == Spec => []DataOwned
<1>1. TypeOK /\ DataInv /\ [Next]_vars => DataInv'
  BY DataSteps
<1>2. DataInv => DataOwned
  BY DEF DataInv
<1> QED
  BY <1>1, <1>2, DataInit, Typing, PTL DEF Spec

\* No step moves a record or changes the length of a key or of data that are
\* in the files: a write in place never runs into the next record.
THEOREM WritesInPlaceFit == Spec => InPlaceWritesFit
<1>1. TypeOK /\ DataInv /\ [Next]_vars => DataInv'
  BY DataSteps
<1>2. TypeOK /\ DataInv /\ [Next]_vars =>
        [/\ \A r \in Allocated :
              /\ rec'[r].keylen = rec[r].keylen
              /\ rec'[r].datoff = rec[r].datoff
              /\ rec'[r].datlen = rec[r].datlen
         /\ \A s \in 1..dateof : dat'[s].len = dat[s].len]_vars
  BY DataSteps DEF FitStep
<1> QED
  BY <1>1, <1>2, DataInit, Typing, PTL DEF Spec, InPlaceWritesFit
=============================================================================

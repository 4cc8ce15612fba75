--------------------------------- MODULE Db ---------------------------------
(***************************************************************************)
(* The hash database of src/database/db.c, used by several processes at    *)
(* once.  Each process has opened the same pair of files and owns one DB   *)
(* handle.  The processes share nothing but the two files and the kernel's *)
(* table of fcntl record locks on them.                                    *)
(*                                                                         *)
(* The index file is a table of pointer cells.  Cell 0 is the head of the  *)
(* free list, cells 1..NHash are the heads of the hash chains, and the     *)
(* cells above NHash are the pointer fields of the index records, in file  *)
(* order.  An offset is the number of its cell.  The data file is a        *)
(* sequence of data records, numbered from 1.                              *)
(*                                                                         *)
(* A step is one system call on a file that another process can see (one   *)
(* lock request, one read, one write) with the computation that leads to   *)
(* it.  A process may stop between any two of them.                        *)
(***************************************************************************)
EXTENDS Integers, FiniteSets

CONSTANTS
  Proc,      \* the processes that have the database open
  Key, Val,  \* the keys and the data the callers use
  Blank,     \* the key of a deleted record: spaces only
  Spaces,    \* the data of a deleted record: spaces only
  NHash,     \* number of hash chains (NHASH_DEF)
  Hash,      \* the chain of each key, in 1..NHash
  KeyLen,    \* strlen of each key
  ValLen,    \* length of the data record of each value: strlen, and the newline
  DatLenMin, \* shortest data record (DATALEN_MIN)
  DatLenMax, \* longest data record (DATALEN_MAX)
  PtrMax,    \* largest offset a pointer field can hold (PTR_MAX)
  IdxMax,    \* bound: pointer cells that fit on the disk
  DatMax,    \* bound: data records that fit on the disk
  Calls,     \* the calls each process may make
  MaxCalls,  \* bound: how many calls each process makes
  KillAt     \* the program points at which a process may be killed

StoreOps == {"insert", "replace", "store"}   \* db_store with its three flags
KeyedOps == {"fetch", "delete"} \cup StoreOps
Ops == KeyedOps \cup {"badflag", "rewind", "nextrec"}
Call == [op : Ops, key : Key, val : Val]

Cell == 0..IdxMax
Slot == 0..DatMax
FREE == 0
Chains == 1..NHash
TAIL == NHash + 1   \* the index records, as one lock region
DAT == NHash + 2    \* the whole data file
Lock == 0..(NHash + 2)

(***************************************************************************)
(* A process is killed anywhere but between the writes that move a record  *)
(* from its chain to the free list when KillAt leaves those points out.    *)
(***************************************************************************)
ASSUME DbAssumption ==
  /\ NHash \in Nat \ {0}
  /\ IdxMax \in Nat /\ IdxMax >= NHash
  /\ DatMax \in Nat
  /\ PtrMax \in Nat /\ PtrMax >= NHash
  /\ DatLenMin \in Nat /\ DatLenMax \in Nat
  /\ Hash \in [Key -> 1..NHash]
  /\ KeyLen \in [Key -> Nat]
  /\ ValLen \in [Val -> Nat]
  /\ Blank \notin Key /\ Spaces \notin Val
  /\ Calls \in [Proc -> SUBSET Call]
  /\ MaxCalls \in [Proc -> Nat]

VARIABLES
  ptr,     \* index file: the value of each pointer field
  rec,     \* index file: key, its length, data offset and length of a record
  eof,     \* index file: the last cell written
  dat,     \* data file: contents and length of each data record
  dateof,  \* data file: the last record written
  rlock,   \* lock region |-> processes holding a read lock
  wlock,   \* lock region |-> processes holding a write lock
  pc,      \* where each process is
  call,    \* the call each process is executing
  h,       \* the DB handle and the locals of the call
  ret,     \* the result of the call
  left,    \* how many calls each process still makes
  dead     \* the processes that were killed or gave up

files == <<ptr, rec, eof, dat, dateof>>
locks == <<rlock, wlock>>
vars == <<ptr, rec, eof, dat, dateof, rlock, wlock, pc, call, h, ret, left, dead>>

NoRec == [key |-> Blank, keylen |-> 0, datoff |-> 0, datlen |-> 0]
NoDat == [val |-> Spaces, len |-> 0]
NoCall == [op |-> "none", key |-> Blank, val |-> Spaces]
NoRet == [rc |-> 0, key |-> Blank, val |-> Spaces]

(***************************************************************************)
(* The fields of DB the operations read back, and the locals of            *)
(* _db_find_and_lock and _db_findfree (offset, saveoffset), _db_dodelete   *)
(* (saveptr, freeptr) and db_store (its ptrval, here link).  pos is the    *)
(* file position of idxfd: the cell of a record, eof + 1, or 0 when it is  *)
(* not at the start of a record.                                           *)
(***************************************************************************)
Handle == [ptroff : Cell, idxoff : Cell, ptrval : Cell, datoff : Slot,
           datlen : Nat, offset : Cell, saveoffset : Cell, saveptr : Cell,
           freeptr : Cell, link : Cell, pos : 0..(IdxMax + 1)]

\* A handle between two calls: only the file position outlives a call.
Rest(pos) == [ptroff |-> 0, idxoff |-> 0, ptrval |-> 0, datoff |-> 0,
              datlen |-> 0, offset |-> 0, saveoffset |-> 0, saveptr |-> 0,
              freeptr |-> 0, link |-> 0, pos |-> pos]

FirstRec == NHash + 1

Init ==
  /\ ptr = [c \in Cell |-> 0]
  /\ rec = [c \in Cell |-> NoRec]
  /\ eof = NHash
  /\ dat = [s \in Slot |-> NoDat]
  /\ dateof = 0
  /\ rlock = [l \in Lock |-> {}]
  /\ wlock = [l \in Lock |-> {}]
  /\ pc = [p \in Proc |-> "idle"]
  /\ call = [p \in Proc |-> NoCall]
  /\ h = [p \in Proc |-> Rest(FirstRec)]
  /\ ret = [p \in Proc |-> NoRet]
  /\ left = MaxCalls
  /\ dead = {}

-----------------------------------------------------------------------------
(* Locks.                                                                  *)

LockPoints ==
  {"lock", "del_lock", "ff_lock", "app_datlock", "app_idxlock", "nx_lock"}

Chain(p) == Hash[call[p].key]

\* The region the process asks for, and whether it asks for a write lock.
Want(p) ==
  CASE pc[p] = "lock" -> Chain(p)
    [] pc[p] \in {"del_lock", "ff_lock", "nx_lock"} -> FREE
    [] pc[p] = "app_datlock" -> DAT
    [] OTHER -> TAIL
\* Mutant: db_delete locks the chain for reading.
ExclusiveButDelete(p) ==
  ~ (pc[p] = "nx_lock" \/ (pc[p] = "lock" /\ call[p].op \in {"fetch", "delete"}))

\* Mutant: _db_findfree locks the free list for reading.
ExclusiveButFind(p) ==
  ~ (pc[p] \in {"nx_lock", "ff_lock"} \/ (pc[p] = "lock" /\ call[p].op = "fetch"))

Exclusive(p) ==
  ~ (pc[p] = "nx_lock" \/ (pc[p] = "lock" /\ call[p].op = "fetch"))

\* The processes whose locks make the request of p wait.
Blockers(p) ==
  IF pc[p] \in LockPoints /\ p \notin dead
  THEN (wlock[Want(p)] \cup (IF Exclusive(p) THEN rlock[Want(p)] ELSE {})) \ {p}
  ELSE {}

\* p waits for itself through a chain of waiting processes.
InWaitCycle(p) ==
  \A S \in SUBSET Proc :
    (Blockers(p) \subseteq S /\ \A q \in S : Blockers(q) \subseteq S) => p \in S

Goto(p, l) == pc' = [pc EXCEPT ![p] = l]

AfterLock(p) ==
  CASE pc[p] = "lock" -> "head"
    [] pc[p] = "del_lock" -> "del_dat"
    [] pc[p] = "ff_lock" -> "ff_head"
    [] pc[p] = "nx_lock" -> "nx_read"
    [] pc[p] = "app_datlock" -> "app_dat"
    [] OTHER -> "app_idx"

Grant(p, l) ==
  IF Exclusive(p)
  THEN /\ wlock' = [wlock EXCEPT ![l] = @ \cup {p}]
       /\ UNCHANGED rlock
  ELSE /\ rlock' = [rlock EXCEPT ![l] = @ \cup {p}]
       /\ UNCHANGED wlock

Release(p, l) ==
  /\ wlock' = [wlock EXCEPT ![l] = @ \ {p}]
  /\ rlock' = [rlock EXCEPT ![l] = @ \ {p}]

\* The kernel drops every lock of a process that exits or closes the files.
ReleaseAll(p) ==
  /\ wlock' = [l \in Lock |-> wlock[l] \ {p}]
  /\ rlock' = [l \in Lock |-> rlock[l] \ {p}]

\* err_dump, err_quit or a signal: the process is gone where it stands.
Die(p) ==
  /\ dead' = dead \cup {p}
  /\ ReleaseAll(p)
  /\ UNCHANGED <<files, pc, call, h, ret, left>>

-----------------------------------------------------------------------------
(* The offset a step hands to _db_writeptr or _db_writeidx, which give up  *)
(* when it does not fit into a pointer field.                              *)

\* Mutant: _db_dodelete links with ptrval, which _db_writeidx has changed.
PtrArgPtrval(p) ==
  CASE pc[p] \in {"ff_take", "del_link"} -> h[p].ptrval
    [] pc[p] = "del_idx" -> h[p].freeptr
    [] pc[p] \in {"del_push", "pub"} -> h[p].idxoff
    [] pc[p] \in {"re_idx", "app_idxlock"} -> h[p].link
    [] OTHER -> 0

PtrArg(p) ==
  CASE pc[p] = "ff_take" -> h[p].ptrval
    [] pc[p] = "del_idx" -> h[p].freeptr
    [] pc[p] \in {"del_push", "pub"} -> h[p].idxoff
    [] pc[p] = "del_link" -> h[p].saveptr
    [] pc[p] \in {"re_idx", "app_idxlock"} -> h[p].link
    [] OTHER -> 0

PtrFits(p) == PtrArg(p) <= PtrMax

\* A system call that changes no file and no lock.
Local(p) == UNCHANGED <<files, locks, call, left, dead>>

-----------------------------------------------------------------------------
(* Entering and leaving the library.                                       *)

\* db_fetch, db_delete and db_store call _db_find_and_lock first.
Begin(p) ==
  /\ pc[p] = "idle" /\ left[p] > 0
  /\ \E c \in Calls[p] :
       /\ c.op \in KeyedOps
       /\ c.op \in StoreOps => ValLen[c.val] \in DatLenMin..DatLenMax
       /\ call' = [call EXCEPT ![p] = c]
       /\ h' = [h EXCEPT ![p].ptroff = Hash[c.key]]
  /\ Goto(p, "lock")
  /\ left' = [left EXCEPT ![p] = @ - 1]
  /\ UNCHANGED <<files, locks, ret, dead>>

\* db_store gives up before it touches a file when the data is empty or too long.
StoreBadLength(p) ==
  /\ pc[p] = "idle" /\ left[p] > 0
  /\ \E c \in Calls[p] : c.op \in StoreOps /\ ValLen[c.val] \notin DatLenMin..DatLenMax
  /\ Die(p)

\* db_store returns -1 at once for a flag it does not know.
StoreBadFlag(p) ==
  /\ pc[p] = "idle" /\ left[p] > 0
  /\ \E c \in Calls[p] : c.op = "badflag"
  /\ left' = [left EXCEPT ![p] = @ - 1]
  /\ UNCHANGED <<files, locks, pc, call, h, ret, dead>>

\* db_rewind moves the file position to the first index record.
Rewind(p) ==
  /\ pc[p] = "idle" /\ left[p] > 0
  /\ \E c \in Calls[p] : c.op = "rewind"
  /\ h' = [h EXCEPT ![p].pos = FirstRec]
  /\ left' = [left EXCEPT ![p] = @ - 1]
  /\ UNCHANGED <<files, locks, pc, call, ret, dead>>
\* Mutant: db_nextrec reads without the lock.
BeginNextrecUnlocked(p) ==
  /\ pc[p] = "idle" /\ left[p] > 0
  /\ \E c \in Calls[p] :
       c.op = "nextrec" /\ call' = [call EXCEPT ![p] = c]
  /\ Goto(p, "nx_read")
  /\ left' = [left EXCEPT ![p] = @ - 1]
  /\ UNCHANGED <<files, locks, h, ret, dead>>

\* db_nextrec asks for a read lock on the free list first.
BeginNextrec(p) ==
  /\ pc[p] = "idle" /\ left[p] > 0
  /\ \E c \in Calls[p] :
       c.op = "nextrec" /\ call' = [call EXCEPT ![p] = c]
  /\ Goto(p, "nx_lock")
  /\ left' = [left EXCEPT ![p] = @ - 1]
  /\ UNCHANGED <<files, locks, h, ret, dead>>

\* The end of every call: unlock and return to the caller.
Return(p, l) ==
  /\ Release(p, l)
  /\ Goto(p, "idle")
  /\ call' = [call EXCEPT ![p] = NoCall]
  /\ ret' = [ret EXCEPT ![p] = NoRet]
  /\ h' = [h EXCEPT ![p] = Rest(h[p].pos)]
  /\ UNCHANGED <<files, left, dead>>

UnlockChain(p) == pc[p] = "unlock" /\ Return(p, Chain(p))

\* db_close: closing the files drops all locks of the process.
Close(p) ==
  /\ pc[p] = "idle"
  /\ Goto(p, "closed")
  /\ ReleaseAll(p)
  /\ h' = [h EXCEPT ![p] = Rest(0)]
  /\ UNCHANGED <<files, call, ret, left, dead>>

\* readw_lock or writew_lock succeeds.  _db_writeidx checks its argument
\* before it asks for the lock.
LockGranted(p) ==
  /\ pc[p] \in LockPoints
  /\ Blockers(p) = {} /\ PtrFits(p)
  /\ Grant(p, Want(p))
  /\ Goto(p, AfterLock(p))
  /\ UNCHANGED <<files, call, h, ret, left, dead>>

\* The kernel refuses a wait that closes a cycle: EDEADLK, and err_dump.
LockDeadlock(p) ==
  /\ pc[p] \in LockPoints
  /\ InWaitCycle(p)
  /\ Die(p)

\* err_quit in _db_writeptr or _db_writeidx.
PtrTooBig(p) == ~ PtrFits(p) /\ Die(p)

-----------------------------------------------------------------------------
(* _db_find_and_lock, with the chain locked: follow the chain of the key.  *)

\* _db_readptr of the chain head.
ReadHead(p) ==
  /\ pc[p] = "head"
  /\ h' = [h EXCEPT ![p].offset = ptr[h[p].ptroff], ![p].pos = 0]
  /\ Goto(p, "walk")
  /\ Local(p) /\ UNCHANGED ret
\* What _db_readidx leaves in the handle.
ReadIdx(p, r) ==
  [h[p] EXCEPT !.idxoff = r, !.ptrval = ptr[r], !.datoff = rec[r].datoff,
               !.datlen = rec[r].datlen, !.pos = r + 1]
\* Mutant: the lengths are not compared before the data are overwritten.
AfterHitOverwrite(p, r) ==
  CASE call[p].op = "fetch" -> "readdat"
    [] call[p].op = "insert" -> "unlock"
    [] call[p].op = "delete" -> "del_lock"
    [] OTHER -> "over"

\* Mutant: the flag DB_INSERT is not looked at when the key is there.
AfterHitInsert(p, r) ==
  CASE call[p].op = "fetch" -> "readdat"
    [] call[p].op = "delete" -> "del_lock"
    [] OTHER -> IF ValLen[call[p].val] = rec[r].datlen THEN "over" ELSE "del_lock"

AfterHit(p, r) ==
  CASE call[p].op = "fetch" -> "readdat"
    [] call[p].op = "insert" -> "unlock"
    [] call[p].op = "delete" -> "del_lock"
    [] OTHER -> IF ValLen[call[p].val] = rec[r].datlen THEN "over" ELSE "del_lock"

WalkHit(p) ==
  LET r == h[p].offset IN
  /\ pc[p] = "walk" /\ r # 0 /\ rec[r].key = call[p].key
  /\ h' = [h EXCEPT ![p] = ReadIdx(p, r)]
  /\ Goto(p, AfterHit(p, r))
  /\ ret' = [ret EXCEPT ![p].rc = IF call[p].op = "insert" THEN 1 ELSE 0]
  /\ Local(p)
\* Mutant: offset is not moved to the next record.
WalkNextStuck(p) ==
  LET r == h[p].offset IN
  /\ pc[p] = "walk" /\ r # 0 /\ rec[r].key # call[p].key
  /\ h' = [h EXCEPT ![p] = [ReadIdx(p, r) EXCEPT !.ptroff = r]]
  /\ Local(p) /\ UNCHANGED <<pc, ret>>

WalkNext(p) ==
  LET r == h[p].offset IN
  /\ pc[p] = "walk" /\ r # 0 /\ rec[r].key # call[p].key
  /\ h' = [h EXCEPT ![p] = [ReadIdx(p, r) EXCEPT !.ptroff = r, !.offset = ptr[r]]]
  /\ Local(p) /\ UNCHANGED <<pc, ret>>

\* The key is not there: only an insert or a store goes on.
WalkEnd(p) ==
  LET goesOn == call[p].op \in {"insert", "store"} IN
  /\ pc[p] = "walk" /\ h[p].offset = 0
  /\ Goto(p, IF goesOn THEN "link" ELSE "unlock")
  /\ ret' = [ret EXCEPT ![p].rc = IF goesOn THEN 0 ELSE -1]
  /\ Local(p) /\ UNCHANGED h

\* _db_readdat: the record must be as long as the index record says.
ReadDat(p, next) ==
  IF dat[h[p].datoff].len = h[p].datlen
  THEN /\ ret' = [ret EXCEPT ![p].val = dat[h[p].datoff].val]
       /\ Goto(p, next)
       /\ Local(p) /\ UNCHANGED h
  ELSE Die(p)

FetchDat(p) == pc[p] = "readdat" /\ ReadDat(p, "unlock")

-----------------------------------------------------------------------------
(* _db_dodelete: wipe the record, push it on the free list, unlink it.     *)

DelDat(p) ==
  /\ pc[p] = "del_dat"
  /\ dat' = [dat EXCEPT ![h[p].datoff] = [val |-> Spaces, len |-> h[p].datlen]]
  /\ Goto(p, "del_free")
  /\ UNCHANGED <<ptr, rec, eof, dateof, locks, call, h, ret, left, dead>>

DelFree(p) ==
  /\ pc[p] = "del_free"
  /\ h' = [h EXCEPT ![p].freeptr = ptr[FREE], ![p].saveptr = h[p].ptrval]
  /\ Goto(p, "del_idx")
  /\ Local(p) /\ UNCHANGED ret

\* _db_writeidx over a record: key, data offset and length, and the pointer.
WriteIdx(p, r, k, len, next) ==
  /\ rec' = [rec EXCEPT ![r] = [key |-> k, keylen |-> len,
                                datoff |-> h[p].datoff, datlen |-> h[p].datlen]]
  /\ ptr' = [ptr EXCEPT ![r] = next]

DelIdx(p) ==
  /\ pc[p] = "del_idx" /\ PtrFits(p)
  /\ WriteIdx(p, h[p].idxoff, Blank, KeyLen[call[p].key], h[p].freeptr)
  /\ h' = [h EXCEPT ![p].ptrval = h[p].freeptr]
  /\ Goto(p, "del_push")
  /\ UNCHANGED <<eof, dat, dateof, locks, call, ret, left, dead>>

\* _db_writeptr.
WritePtr(p, c, next) ==
  /\ PtrFits(p)
  /\ ptr' = [ptr EXCEPT ![c] = PtrArg(p)]
  /\ Goto(p, next)
  /\ UNCHANGED <<rec, eof, dat, dateof, locks, call, left, dead>>

DelPush(p) ==
  /\ pc[p] = "del_push" /\ WritePtr(p, FREE, "del_link")
  /\ UNCHANGED <<h, ret>>

DelLink(p) ==
  /\ pc[p] = "del_link" /\ WritePtr(p, h[p].ptroff, "del_unlock")
  /\ h' = [h EXCEPT ![p].pos = 0]
  /\ UNCHANGED ret
\* Mutant: the free list stays locked.
DelUnlockForgotten(p) ==
  /\ pc[p] = "del_unlock"
  /\ Goto(p, IF call[p].op = "delete" THEN "unlock" ELSE "relink")
  /\ UNCHANGED <<files, locks, call, h, ret, left, dead>>

\* Mutant: _db_dodelete unlocks the chain too.
DelUnlockAll(p) ==
  /\ pc[p] = "del_unlock"
  /\ ReleaseAll(p)
  /\ Goto(p, IF call[p].op = "delete" THEN "unlock" ELSE "relink")
  /\ UNCHANGED <<files, call, h, ret, left, dead>>

\* Unlocks the free list; a store that replaces the record goes on.
DelUnlock(p) ==
  /\ pc[p] = "del_unlock"
  /\ Release(p, FREE)
  /\ Goto(p, IF call[p].op = "delete" THEN "unlock" ELSE "relink")
  /\ UNCHANGED <<files, call, h, ret, left, dead>>

-----------------------------------------------------------------------------
(* db_store of a key that is not there, or no longer there: the new record *)
(* becomes the head of the chain.                                          *)
\* Mutant: the new record points behind the chain, not at its old head.
ReadLinkTail(p) ==
  /\ pc[p] \in {"link", "relink"}
  /\ h' = [h EXCEPT ![p].link = ptr[h[p].ptroff]]
  /\ Goto(p, IF pc[p] = "link" THEN "ff_lock" ELSE "app_datlock")
  /\ Local(p) /\ UNCHANGED ret

\* The old head; after a delete no free record is looked for.
ReadLink(p) ==
  /\ pc[p] \in {"link", "relink"}
  /\ h' = [h EXCEPT ![p].link = ptr[Chain(p)]]
  /\ Goto(p, IF pc[p] = "link" THEN "ff_lock" ELSE "app_datlock")
  /\ Local(p) /\ UNCHANGED ret

(* _db_findfree: a free record of exactly the same lengths.                *)

FfHead(p) ==
  /\ pc[p] = "ff_head"
  /\ h' = [h EXCEPT ![p].saveoffset = FREE, ![p].offset = ptr[FREE]]
  /\ Goto(p, "ff_walk")
  /\ Local(p) /\ UNCHANGED ret
\* Mutant: only the keys have to be of the same length.
SameSizeKey(p, r) == rec[r].keylen = KeyLen[call[p].key]

SameSize(p, r) ==
  rec[r].keylen = KeyLen[call[p].key] /\ rec[r].datlen = ValLen[call[p].val]

FfHit(p) ==
  LET r == h[p].offset IN
  /\ pc[p] = "ff_walk" /\ r # 0 /\ SameSize(p, r)
  /\ h' = [h EXCEPT ![p] = ReadIdx(p, r)]
  /\ Goto(p, "ff_take")
  /\ Local(p) /\ UNCHANGED ret

FfNext(p) ==
  LET r == h[p].offset IN
  /\ pc[p] = "ff_walk" /\ r # 0 /\ ~ SameSize(p, r)
  /\ h' = [h EXCEPT ![p] = [ReadIdx(p, r) EXCEPT !.saveoffset = r, !.offset = ptr[r]]]
  /\ Local(p) /\ UNCHANGED <<pc, ret>>

FfEnd(p) ==
  /\ pc[p] = "ff_walk" /\ h[p].offset = 0
  /\ Goto(p, "ff_unlock")
  /\ Local(p) /\ UNCHANGED <<h, ret>>
\* Mutant: the record stays on the free list.
FfTakeKeeps(p) ==
  /\ pc[p] = "ff_take"
  /\ Goto(p, "ff_unlock")
  /\ Local(p) /\ UNCHANGED <<h, ret>>

\* Mutant: the free list is cut off in front of the record that is taken.
FfTakeCuts(p) ==
  /\ pc[p] = "ff_take" /\ WritePtr(p, FREE, "ff_unlock")
  /\ UNCHANGED <<h, ret>>

FfTake(p) ==
  /\ pc[p] = "ff_take" /\ WritePtr(p, h[p].saveoffset, "ff_unlock")
  /\ UNCHANGED <<h, ret>>

FfUnlock(p) ==
  /\ pc[p] = "ff_unlock"
  /\ Release(p, FREE)
  /\ Goto(p, IF h[p].offset = 0 THEN "app_datlock" ELSE "re_dat")
  /\ UNCHANGED <<files, call, h, ret, left, dead>>

(* Write the record over the free one.                                     *)

NewDat(p) == [val |-> call[p].val, len |-> ValLen[call[p].val]]

ReuseDat(p) ==
  /\ pc[p] = "re_dat"
  /\ dat' = [dat EXCEPT ![h[p].datoff] = NewDat(p)]
  /\ h' = [h EXCEPT ![p].datlen = ValLen[call[p].val]]
  /\ Goto(p, "re_idx")
  /\ UNCHANGED <<ptr, rec, eof, dateof, locks, call, ret, left, dead>>

ReuseIdx(p) ==
  /\ pc[p] = "re_idx" /\ PtrFits(p)
  /\ WriteIdx(p, h[p].idxoff, call[p].key, KeyLen[call[p].key], h[p].link)
  /\ h' = [h EXCEPT ![p].ptrval = h[p].link]
  /\ Goto(p, "pub")
  /\ UNCHANGED <<eof, dat, dateof, locks, call, ret, left, dead>>

(* Append the record at the end of both files.                             *)
\* Mutant: a failed write of the data is not noticed.
AppendDatUnchecked(p) ==
  /\ pc[p] = "app_dat"
  /\ IF dateof < DatMax
     THEN /\ dateof' = dateof + 1
          /\ dat' = [dat EXCEPT ![dateof + 1] = NewDat(p)]
          /\ h' = [h EXCEPT ![p].datoff = dateof + 1,
                            ![p].datlen = ValLen[call[p].val]]
     ELSE UNCHANGED <<dat, dateof>> /\ h' = [h EXCEPT ![p].datoff = 0]
  /\ Goto(p, "app_datunlock")
  /\ UNCHANGED <<ptr, rec, eof, locks, call, ret, left, dead>>

AppendDat(p) ==
  /\ pc[p] = "app_dat"
  /\ IF dateof < DatMax
     THEN /\ dateof' = dateof + 1
          /\ dat' = [dat EXCEPT ![dateof + 1] = NewDat(p)]
          /\ h' = [h EXCEPT ![p].datoff = dateof + 1,
                            ![p].datlen = ValLen[call[p].val]]
          /\ Goto(p, "app_datunlock")
          /\ UNCHANGED <<ptr, rec, eof, locks, call, ret, left, dead>>
     ELSE Die(p)

UnlockDat(p) ==
  /\ pc[p] = "app_datunlock"
  /\ Release(p, DAT)
  /\ Goto(p, "app_idxlock")
  /\ UNCHANGED <<files, call, h, ret, left, dead>>
\* Mutant: idxoff is the file position after the write, not before it.
AppendIdxAfter(p) ==
  /\ pc[p] = "app_idx"
  /\ IF eof < IdxMax
     THEN /\ eof' = eof + 1
          /\ WriteIdx(p, eof + 1, call[p].key, KeyLen[call[p].key], h[p].link)
          /\ h' = [h EXCEPT ![p].idxoff = eof + 2, ![p].ptrval = h[p].link]
          /\ Goto(p, "app_idxunlock")
          /\ UNCHANGED <<dat, dateof, locks, call, ret, left, dead>>
     ELSE Die(p)

AppendIdx(p) ==
  /\ pc[p] = "app_idx"
  /\ IF eof < IdxMax
     THEN /\ eof' = eof + 1
          /\ WriteIdx(p, eof + 1, call[p].key, KeyLen[call[p].key], h[p].link)
          /\ h' = [h EXCEPT ![p].idxoff = eof + 1, ![p].ptrval = h[p].link]
          /\ Goto(p, "app_idxunlock")
          /\ UNCHANGED <<dat, dateof, locks, call, ret, left, dead>>
     ELSE Die(p)

\* un_lock with SEEK_END names a region behind the end of the file: the lock
\* on the records written so far, taken with SEEK_SET, stays.
UnlockTail(p) ==
  /\ pc[p] = "app_idxunlock"
  /\ Goto(p, "pub")
  /\ UNCHANGED <<files, locks, call, h, ret, left, dead>>

\* _db_writeptr of the chain head: the record becomes visible to fetches.
Publish(p) ==
  /\ pc[p] = "pub" /\ WritePtr(p, Chain(p), "unlock")
  /\ h' = [h EXCEPT ![p].pos = 0]
  /\ UNCHANGED ret

\* New data of the same length go over the old ones.
Overwrite(p) ==
  /\ pc[p] = "over"
  /\ dat' = [dat EXCEPT ![h[p].datoff] = NewDat(p)]
  /\ Goto(p, "unlock")
  /\ UNCHANGED <<ptr, rec, eof, dateof, locks, call, h, ret, left, dead>>

-----------------------------------------------------------------------------
(* db_nextrec, with the free list locked for reading.                      *)

\* _db_readidx from the file position: skip deleted records.
NextIdx(p) ==
  LET r == h[p].pos IN
  /\ pc[p] = "nx_read" /\ r \in FirstRec..eof
  /\ h' = [h EXCEPT ![p] = ReadIdx(p, r)]
  /\ IF rec[r].key = Blank
     THEN UNCHANGED <<pc, ret>>
     ELSE Goto(p, "nx_dat") /\ ret' = [ret EXCEPT ![p].key = rec[r].key]
  /\ Local(p)

NextEof(p) ==
  /\ pc[p] = "nx_read" /\ h[p].pos = eof + 1
  /\ ret' = [ret EXCEPT ![p].rc = -1]
  /\ Goto(p, "nx_unlock")
  /\ Local(p) /\ UNCHANGED h

\* The file position is in the middle of a record or of the hash table.
NextBadRecord(p) == pc[p] = "nx_read" /\ h[p].pos \notin FirstRec..(eof + 1) /\ Die(p)

NextDat(p) == pc[p] = "nx_dat" /\ ReadDat(p, "nx_unlock")

NextUnlock(p) == pc[p] = "nx_unlock" /\ Return(p, FREE)

-----------------------------------------------------------------------------
Enter(p) ==
  Begin(p) \/ StoreBadLength(p) \/ StoreBadFlag(p) \/ Rewind(p)
    \/ BeginNextrec(p) \/ Close(p)

Kill(p) == pc[p] \in KillAt /\ Die(p)

\* The steps of a call that has begun: the caller waits for its end.
InCall(p) ==
  \/ LockGranted(p) \/ LockDeadlock(p) \/ PtrTooBig(p) \/ UnlockChain(p)
  \/ ReadHead(p) \/ WalkHit(p) \/ WalkNext(p) \/ WalkEnd(p) \/ FetchDat(p)
  \/ DelDat(p) \/ DelFree(p) \/ DelIdx(p) \/ DelPush(p) \/ DelLink(p)
  \/ DelUnlock(p) \/ ReadLink(p) \/ FfHead(p) \/ FfHit(p) \/ FfNext(p)
  \/ FfEnd(p) \/ FfTake(p) \/ FfUnlock(p) \/ ReuseDat(p) \/ ReuseIdx(p)
  \/ AppendDat(p) \/ UnlockDat(p) \/ AppendIdx(p) \/ UnlockTail(p)
  \/ Publish(p) \/ Overwrite(p) \/ NextIdx(p) \/ NextEof(p)
  \/ NextBadRecord(p) \/ NextDat(p) \/ NextUnlock(p)

Step(p) == p \notin dead /\ (Enter(p) \/ InCall(p) \/ Kill(p))

\* Every process has closed the database or is gone.
Done == (\A p \in Proc : p \in dead \/ pc[p] = "closed") /\ UNCHANGED vars

Next == (\E p \in Proc : Step(p)) \/ Done

Spec == Init /\ [][Next]_vars

(***************************************************************************)
(* Fairness: the kernel runs every process that is inside a call, and the  *)
(* program of each process goes on to its next call or to db_close.        *)
(***************************************************************************)
Fairness ==
  \A p \in Proc : /\ WF_vars(p \notin dead /\ InCall(p))
                  /\ WF_vars(p \notin dead /\ Enter(p))

FairSpec == Spec /\ Fairness
=============================================================================

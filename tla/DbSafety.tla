------------------------------ MODULE DbSafety ------------------------------
(***************************************************************************)
(* What keeps the two files of the database sound while several processes  *)
(* work on them: types, locking discipline, and the shape of the lists the *)
(* pointer fields form.                                                    *)
(***************************************************************************)
EXTENDS Db

(* The program points of each part of a call.                              *)

Reading == {"head", "walk", "readdat"}
Deleting == {"del_dat", "del_free", "del_idx", "del_push", "del_link", "del_unlock"}
Finding == {"ff_head", "ff_walk", "ff_take", "ff_unlock"}
Appending == {"app_datlock", "app_dat", "app_datunlock", "app_idxlock", "app_idx",
              "app_idxunlock"}
Writing == Deleting \cup Finding \cup Appending
             \cup {"del_lock", "link", "relink", "ff_lock", "re_dat", "re_idx",
                   "pub", "over"}
Scanning == {"nx_lock", "nx_read", "nx_dat", "nx_unlock"}
Labels == Reading \cup Writing \cup Scanning \cup {"idle", "closed", "lock", "unlock"}

\* Inside the section a chain lock protects, the free-list lock protects.
InChain(p) == p \notin dead /\ pc[p] \in Reading \cup Writing \cup {"unlock"}
InFree(p) == p \notin dead /\ pc[p] \in Deleting \cup Finding \cup (Scanning \ {"nx_lock"})

Rets == [rc : {-1, 0, 1}, key : Key \cup {Blank}, val : Val \cup {Spaces}]

\* Type invariant: all variables of db.c's state, and a call at every
\* program point inside one.
TypeOK ==
  /\ ptr \in [Cell -> Cell]
  /\ rec \in [Cell -> [key : Key \cup {Blank}, keylen : Nat, datoff : Slot, datlen : Nat]]
  /\ eof \in NHash..IdxMax
  /\ dat \in [Slot -> [val : Val \cup {Spaces}, len : Nat]]
  /\ dateof \in Slot
  /\ rlock \in [Lock -> SUBSET Proc]
  /\ wlock \in [Lock -> SUBSET Proc]
  /\ pc \in [Proc -> Labels]
  /\ call \in [Proc -> Call \cup {NoCall}]
  /\ \A p \in Proc : pc[p] \in {"idle", "closed"} \/ call[p] \in Call
  /\ h \in [Proc -> Handle]
  /\ ret \in [Proc -> Rets]
  /\ left \in [Proc -> Nat]
  /\ dead \subseteq Proc

-----------------------------------------------------------------------------
(* Locking.                                                                *)

Modifies(p) == InChain(p) /\ call[p].op # "fetch"

\* A process that may write a chain (db_store, db_delete between the lock and
\* the unlock of chainoff) is alone in it: no other writer, no fetch.
ChainIsolated ==
  \A p, q \in Proc :
    p # q /\ Modifies(p) /\ InChain(q) => Chain(p) # Chain(q)

\* A process that works on the free list (_db_dodelete, _db_findfree) is alone
\* there: no other one, and no db_nextrec between its read of an index record
\* and its read of the data.
FreeIsolated ==
  \A p, q \in Proc :
    p # q /\ InFree(p) /\ InFree(q) => pc[p] \in Scanning /\ pc[q] \in Scanning

\* The order chain lock, then free list or tail is kept by every call, so
\* processes wait for each other in a circle only when one of them asks for a
\* chain while it still holds the tail lock of an earlier append.
DeadlockNeedsTail ==
  \A p \in Proc :
    InWaitCycle(p) => \E q \in wlock[TAIL] : pc[q] = "lock" /\ InWaitCycle(q)

\* A call leaves no lock behind: _db_writeidx takes the tail lock for its own
\* write and calls un_lock on it (db.c:484-486).
LocksReleasedOnReturn ==
  \A p \in Proc : pc[p] = "idle" => \A l \in Lock : p \notin wlock[l] \cup rlock[l]

\* Every call ends, in its caller or with its process: no wait for a lock and
\* no walk along a list lasts for ever, as long as the programs that share the
\* database get to their db_close.
EveryCallEnds == <>(\A p \in Proc : p \in dead \/ pc[p] = "closed")

(* Why the locks isolate: a lock held for writing has one holder, and a    *)
(* process keeps its lock for as long as it is inside.                     *)

WriterAlone ==
  \A l \in Lock : \A p \in wlock[l], q \in wlock[l] \cup rlock[l] : p = q

HoldsChain ==
  \A p \in Proc :
    InChain(p) => p \in (IF call[p].op = "fetch" THEN rlock ELSE wlock)[Chain(p)]

HoldsFree ==
  \A p \in Proc :
    InFree(p) => p \in (IF pc[p] \in Scanning THEN rlock ELSE wlock)[FREE]

\* The inductive invariant of the locking discipline of db.c: find_and_lock,
\* dodelete, findfree and nextrec hold their lock until they unlock it, and the
\* kernel gives no lock away that conflicts with one that is held.
LockInv == WriterAlone /\ HoldsChain /\ HoldsFree

-----------------------------------------------------------------------------
(* The lists.  A record belongs to the list of its key: a chain, or the    *)
(* free list when it is deleted.                                           *)

Allocated == FirstRec..eof
Fields == 0..eof
Home(c) == IF c <= NHash THEN c ELSE IF rec[c].key = Blank THEN FREE ELSE Hash[rec[c].key]

\* Records in the hands of a process that is about to put them in a list
\* (for ever, when it died), and the field a delete has not yet redirected.
Taken(p) ==
  pc[p] \in {"re_dat", "re_idx", "pub", "app_idxunlock", "del_push"}
    \/ (pc[p] = "ff_unlock" /\ h[p].offset # 0)
Held == {h[p].idxoff : p \in {q \in Proc : Taken(q)}}
Unlinking == {h[p].ptroff : p \in {q \in Proc : pc[q] \in {"del_push", "del_link"}}}
Settled == Fields \ (Held \cup Unlinking)

\* Pointers stay in their list: no interleaving of stores, deletes and
\* searches sends a chain into the free list or into another chain.
ListsSeparate ==
  \A c \in Settled : ptr[c] # 0 => ptr[c] \in Allocated /\ Home(ptr[c]) = Home(c)

\* No record is in two lists, or twice in one; one that a process has taken
\* from the free list or is appending is in none until it is published.
OneListPerRecord ==
  /\ \A c, d \in Settled : c # d /\ ptr[c] # 0 => ptr[c] # ptr[d]
  /\ \A c \in Settled : ptr[c] \notin Held \ {0}

\* Two records never share data, and an index record tells the length its
\* data have: reuse of space after a delete keeps both files in step.
DataOwned ==
  /\ \A r \in Allocated :
       rec[r].datoff \in 1..dateof /\ dat[rec[r].datoff].len = rec[r].datlen
  /\ \A r, s \in Allocated : r # s => rec[r].datoff # rec[s].datoff

\* A write in place never grows into the next record of a file: a deleted
\* record is reused only for a key and data of exactly its lengths.
InPlaceWritesFit ==
  [][/\ \A r \in Allocated :
          /\ rec'[r].keylen = rec[r].keylen
          /\ rec'[r].datoff = rec[r].datoff
          /\ rec'[r].datlen = rec[r].datlen
     /\ \A s \in 1..dateof : dat'[s].len = dat[s].len]_vars
=============================================================================

----------------------------- MODULE DbKVProof ------------------------------
(***************************************************************************)
(* No record is lost, and the database implements the map of KVStore, for  *)
(* any number of processes, keys, chains and records.                      *)
(*                                                                         *)
(* First the lists: pointers stay in their list and a record is in one     *)
(* list.  ListInv is inductive when no process is killed between the write *)
(* that makes a record a free one and the write that takes it out of its   *)
(* chain.  Then every record is reached: a walk from the head of a list    *)
(* comes to all records that belong there.  Last the map: what is on the   *)
(* disk and the refinement, when no process is killed between the wipe of  *)
(* the data and the link of the chain in _db_dodelete.                     *)
(***************************************************************************)
EXTENDS DbLists, DbKV, DbProof

NotKilledUnlinking == KillAt \cap {"del_push", "del_link"} = {}

-----------------------------------------------------------------------------
(* Types of the parts.                                                     *)

\* The pointers in a handle are cells.
LEMMA HandleFields ==
  ASSUME TypeOK, NEW p \in Proc
  PROVE  /\ h[p] \in Handle
         /\ h[p].ptroff \in Cell /\ h[p].idxoff \in Cell /\ h[p].ptrval \in Cell
         /\ h[p].offset \in Cell /\ h[p].saveoffset \in Cell /\ h[p].saveptr \in Cell
         /\ h[p].freeptr \in Cell /\ h[p].link \in Cell
BY DEF TypeOK, Handle

\* The chain of a call is the head of a list.
LEMMA ChainType ==
  ASSUME TypeOK, NEW p \in Proc, pc[p] \notin {"idle", "closed"}
  PROVE  /\ call[p] \in Call /\ Chain(p) \in 1..NHash /\ Chain(p) \in Fields
         /\ Chain(p) # FREE /\ Home(Chain(p)) = Chain(p)
BY DbAssumption DEF TypeOK, Chain, Call, FREE, Home, Fields

\* Which cells there are: the head of the free list, the heads of the chains, records.
LEMMA CellFacts ==
  ASSUME TypeOK
  PROVE  /\ Fields \subseteq Cell /\ Allocated \subseteq Fields /\ FREE \in Fields
         /\ FREE \notin Allocated /\ 0 \notin Allocated /\ Home(FREE) = FREE
         /\ \A c \in 1..NHash : c \in Fields /\ c \notin Allocated /\ Home(c) = c
<1>1. eof \in NHash..IdxMax /\ NHash \in Nat \ {0} /\ IdxMax \in Nat
  BY DbAssumption DEF TypeOK
<1>2. Fields \subseteq Cell /\ Allocated \subseteq Fields /\ FREE \in Fields
  BY <1>1 DEF Fields, Cell, Allocated, FirstRec, FREE
<1>3. FREE \notin Allocated /\ 0 \notin Allocated /\ Home(FREE) = FREE
  BY <1>1 DEF Allocated, FirstRec, FREE, Home
<1>4. ASSUME NEW c \in 1..NHash PROVE c \in Fields /\ c \notin Allocated /\ Home(c) = c
  BY <1>1 DEF Fields, Allocated, FirstRec, Home
<1> QED
  BY <1>2, <1>3, <1>4

\* Held records are records; a field that is being unlinked is in the chain of
\* the process that unlinks it.
LEMMA HeldFacts ==
  ASSUME ListInv
  PROVE  /\ Held \subseteq Allocated
         /\ \A p \in Proc : Taken(p) => h[p].idxoff \in Held
         /\ \A u \in Unlinking : \E q \in Proc \ dead :
              pc[q] \in {"del_push", "del_link"} /\ u = h[q].ptroff /\ Home(u) = Chain(q)
BY DEF ListInv, HeldOwned, Held, Unlinking, KnowDeleted

-----------------------------------------------------------------------------
(* Isolation, in the form the proofs use it.                               *)

\* A process that writes to its chain shares it with nobody.
LEMMA AloneInChain ==
  ASSUME TypeOK, LockInv, ListInv, NEW p \in Proc, NEW q \in Proc, p # q,
         p \notin dead, pc[p] \in Writing, InChain(q)
  PROVE  Chain(p) # Chain(q)
<1>1. Modifies(p)
  BY DEF Modifies, InChain, ListInv, KnowOp
<1>2. Chain(p) \in Lock
  BY <1>1, InCallHasCall, LockRegions DEF Modifies
<1>3. p \in wlock[Chain(p)]
  BY <1>1 DEF Modifies, LockInv, HoldsChain
<1>4. q \in wlock[Chain(q)] \cup rlock[Chain(q)]
  BY DEF LockInv, HoldsChain
<1> QED
  BY <1>2, <1>3, <1>4 DEF LockInv, WriterAlone

\* A process that writes to the free list shares it with nobody.
LEMMA AloneInFree ==
  ASSUME TypeOK, LockInv, NEW p \in Proc, NEW q \in Proc,
         InFree(p), pc[p] \notin Scanning, InFree(q)
  PROVE  p = q
<1>1. FREE \in Lock
  BY DbAssumption DEF FREE, Lock
<1>2. /\ p \in wlock[FREE]
      /\ q \in wlock[FREE] \cup rlock[FREE]
  BY DEF LockInv, HoldsFree
<1> QED
  BY <1>1, <1>2 DEF LockInv, WriterAlone

-----------------------------------------------------------------------------
(* Following a pointer.                                                    *)

\* What a settled field points at is a record of the same list nobody holds.
LEMMA FollowPtr ==
  ASSUME TypeOK, ListInv, NEW c \in Settled, ptr[c] # 0
  PROVE  /\ ptr[c] \in Allocated \ Held
         /\ Home(ptr[c]) = Home(c)
         /\ \A d \in Settled : ptr[d] = ptr[c] => d = c
<1>1. c \in Fields /\ ptr[c] \in Allocated /\ Home(ptr[c]) = Home(c)
  BY DEF ListInv, ListsSeparate, Settled
<1>2. ptr[c] \notin Held
  BY <1>1, CellFacts DEF ListInv, OneListPerRecord
<1> QED
  BY <1>1, <1>2 DEF ListInv, OneListPerRecord

\* In the chain of a process that is not itself unlinking, and in the free
\* list, all fields one can get to are settled.
LEMMA ChainSettled ==
  ASSUME TypeOK, LockInv, ListInv, NEW p \in Proc, InChain(p),
         pc[p] \notin {"del_push", "del_link"},
         NEW c \in Fields \ Held, Home(c) = Chain(p)
  PROVE  c \in Settled
<1> SUFFICES ASSUME c \in Unlinking PROVE FALSE
  BY DEF Settled
<1>1. PICK q \in Proc \ dead : pc[q] \in {"del_push", "del_link"} /\ Home(c) = Chain(q)
  BY HeldFacts
<1>2. q # p /\ pc[q] \in Writing
  BY <1>1 DEF Writing, Deleting
<1> QED
  BY <1>1, <1>2, AloneInChain

\* No cell of the free list is being unlinked.
LEMMA FreeSettled ==
  ASSUME TypeOK, ListInv, NEW c \in Fields \ Held, Home(c) = FREE
  PROVE  c \in Settled
<1> SUFFICES ASSUME c \in Unlinking PROVE FALSE
  BY DEF Settled
<1>1. PICK q \in Proc \ dead : pc[q] \in {"del_push", "del_link"} /\ Home(c) = Chain(q)
  BY HeldFacts
<1> QED
  BY <1>1, ChainType

\* The heads a process works with are not being unlinked.
LEMMA HeadsSettled ==
  ASSUME TypeOK, LockInv, ListInv
  PROVE  /\ FREE \in Settled
         /\ \A p \in Proc : InChain(p) /\ pc[p] \notin {"del_push", "del_link"} => Chain(p) \in Settled
<1>1. FREE \in Settled
  BY CellFacts, HeldFacts, FreeSettled
<1>2. ASSUME NEW p \in Proc, InChain(p), pc[p] \notin {"del_push", "del_link"}
      PROVE  Chain(p) \in Settled
  <2>1. Chain(p) \in 1..NHash
    BY <1>2, InCallHasCall, DbAssumption DEF Chain, Call
  <2> QED
    BY <1>2, <2>1, CellFacts, HeldFacts, ChainSettled
<1> QED
  BY <1>1, <1>2

-----------------------------------------------------------------------------
(* Steps that leave the index file alone.                                  *)

\* Such a step of p: it holds the same record as before and is not unlinking.
Quiet(p) ==
  /\ UNCHANGED <<ptr, rec, eof, dead>>
  /\ \A q \in Proc \ {p} : pc'[q] = pc[q] /\ h'[q] = h[q] /\ call'[q] = call[q]
  /\ pc[p] \notin {"del_push", "del_link"} /\ pc'[p] \notin {"del_push", "del_link"}
  /\ Taken(p)' <=> Taken(p)
  /\ Taken(p) => h'[p].idxoff = h[p].idxoff

\* It leaves all lists as they are.
LEMMA QuietLists ==
  ASSUME NEW p \in Proc, Quiet(p)
  PROVE  /\ Held' = Held /\ Unlinking' = Unlinking
         /\ Settled' = Settled /\ Fields' = Fields /\ Allocated' = Allocated
         /\ \A c : Home(c)' = Home(c)
         /\ \A q \in Proc \ {p} : Chain(q)' = Chain(q)
<1>1. \A q \in Proc : (Taken(q)' <=> Taken(q)) /\ (Taken(q) => h'[q].idxoff = h[q].idxoff)
  BY DEF Taken, Quiet
<1>2. Held' = Held
  BY <1>1 DEF Held
<1>3. Unlinking' = Unlinking
  BY DEF Unlinking, Quiet
<1>4. Settled' = Settled /\ Fields' = Fields /\ Allocated' = Allocated
  BY <1>2, <1>3 DEF Settled, Fields, Allocated, Quiet
<1>5. \A c : Home(c)' = Home(c)
  BY DEF Home, Quiet
<1>6. \A q \in Proc \ {p} : Chain(q)' = Chain(q)
  BY DEF Chain, Quiet
<1> QED
  BY <1>2, <1>3, <1>4, <1>5, <1>6

\* It keeps the invariant if the process knows what its new place needs.
LEMMA QuietStep ==
  ASSUME TypeOK, ListInv, NEW p \in Proc, Quiet(p),
         h'[p].offset <= PtrMax /\ h'[p].ptrval <= PtrMax
           /\ h'[p].link <= PtrMax /\ h'[p].saveptr <= PtrMax,
         KnowOp(p)', Know(p)'
  PROVE  ListInv'
<1>1. \A q \in Proc : (Taken(q)' <=> Taken(q)) /\ (Taken(q) => h'[q].idxoff = h[q].idxoff)
  BY DEF Taken, Quiet
<1>2. /\ Held' = Held /\ Settled' = Settled /\ Fields' = Fields /\ Allocated' = Allocated
      /\ \A c : Home(c)' = Home(c)
      /\ \A q \in Proc \ {p} : Chain(q)' = Chain(q)
  BY QuietLists
<1>3. PtrBounded'
  BY DEF ListInv, PtrBounded, Quiet
<1>4. ListsSeparate' /\ OneListPerRecord'
  BY <1>2 DEF ListInv, ListsSeparate, OneListPerRecord, Quiet
<1>5. HeldOwned'
  BY <1>1, <1>2 DEF ListInv, HeldOwned
<1>6. \A q \in Proc : KnowOp(q)'
  BY DEF ListInv, KnowOp, Quiet
<1>7. \A q \in Proc : KnowDeleted(q)'
  BY <1>2 DEF ListInv, KnowDeleted, Quiet
<1>8. ASSUME NEW q \in Proc \ dead', q # p PROVE Know(q)'
  <2>1. /\ Know(q) /\ pc'[q] = pc[q] /\ h'[q] = h[q] /\ Chain(q)' = Chain(q)
        /\ ptr' = ptr
    BY <1>2, <1>8 DEF ListInv, Quiet
  <2>2. KnowPlace(q)' /\ KnowFound(q)'
    BY <1>2, <2>1 DEF Know, KnowPlace, KnowFound
  <2>3. KnowLink(q)' /\ KnowFree(q)'
    BY <1>2, <2>1 DEF Know, KnowLink, KnowFree
  <2>4. KnowTaken(q)'
    BY <1>1, <1>2, <2>1 DEF Know, KnowTaken
  <2> QED
    BY <2>2, <2>3, <2>4 DEF Know
<1> QED
  BY <1>3, <1>4, <1>5, <1>6, <1>7, <1>8 DEF ListInv

\* A process that is outside of its chain needs to know nothing.
LEMMA KnowsNothing ==
  ASSUME NEW p \in Proc, pc[p] \in Scanning \cup {"idle", "closed", "unlock", "readdat"}
  PROVE  KnowOp(p) /\ Know(p) /\ ~ Taken(p)
BY DEF Scanning, KnowOp, Know, KnowPlace, KnowFound, KnowLink, KnowFree, KnowTaken,
       Taken, Writing, Deleting, Finding, Appending

DbInv == TypeOK /\ LockInv /\ ListInv

-----------------------------------------------------------------------------
(* One lemma for each action: first those that write no file.              *)

\* A call begins, or the program rewinds or closes: no cell is touched.
LEMMA ListEnter ==
  ASSUME DbInv, NEW p \in Proc, p \notin dead,
         Begin(p) \/ StoreBadFlag(p) \/ Rewind(p) \/ BeginNextrec(p) \/ Close(p)
  PROVE  ListInv'
<1> TypeOK /\ LockInv /\ ListInv
  BY DEF DbInv
<1>1. pc[p] = "idle" /\ UNCHANGED <<ptr, rec, eof, dead>> /\ h[p] \in Handle
      /\ PtrBounded /\ PtrMax \in Nat
  BY HandleFields, DbAssumption DEF Begin, StoreBadFlag, Rewind, BeginNextrec, Close, ListInv, files
<1>2. CASE Begin(p)
  <2>1. PICK c \in Calls[p] : /\ c.op \in KeyedOps /\ call' = [call EXCEPT ![p] = c]
                              /\ h' = [h EXCEPT ![p].ptroff = Hash[c.key]]
    BY <1>2 DEF Begin
  <2>2. pc' = [pc EXCEPT ![p] = "lock"]
    BY <1>2 DEF Begin, Goto
  <2>3. /\ pc'[p] = "lock" /\ call'[p] = c /\ h'[p] = [h[p] EXCEPT !.ptroff = Hash[c.key]]
    BY <2>1, <2>2 DEF TypeOK
  <2>4. Quiet(p)
    BY <1>1, <2>1, <2>2, <2>3 DEF Quiet, Taken, TypeOK
  <2>5. Chain(p)' = Hash[c.key]
    BY <2>3 DEF Chain
  <2>6. KnowOp(p)' /\ Know(p)'
    BY <1>1, <2>3, <2>5 DEF Handle, KnowOp, Know, KnowPlace, KnowFound, KnowLink, KnowFree, KnowTaken,
       Taken, Writing, Deleting, Finding, Appending
  <2>7. /\ h'[p].offset = h[p].offset /\ h'[p].ptrval = h[p].ptrval
        /\ h'[p].link = h[p].link /\ h'[p].saveptr = h[p].saveptr
    BY <1>1, <2>3 DEF Handle
  <2> QED
    BY <1>1, <2>4, <2>6, <2>7, QuietStep DEF PtrBounded
<1>3. CASE StoreBadFlag(p) \/ Rewind(p) \/ BeginNextrec(p) \/ Close(p)
  <2>1. pc'[p] \in {"idle", "closed", "nx_lock"}
        /\ \A q \in Proc \ {p} : pc'[q] = pc[q] /\ h'[q] = h[q] /\ call'[q] = call[q]
    <3>1. pc' \in {pc, [pc EXCEPT ![p] = "nx_lock"], [pc EXCEPT ![p] = "closed"]}
      BY <1>3 DEF StoreBadFlag, Rewind, BeginNextrec, Close, Goto
    <3>2. /\ \A q \in Proc \ {p} : h'[q] = h[q]
          /\ \A q \in Proc \ {p} : call'[q] = call[q]
      BY <1>3 DEF StoreBadFlag, Rewind, BeginNextrec, Close, TypeOK
    <3> QED
      BY <1>1, <3>1, <3>2 DEF TypeOK
  <2>2. KnowOp(p)' /\ Know(p)' /\ ~ Taken(p)'
    <3>1. pc'[p] \in Scanning \cup {"idle", "closed"}
      BY <2>1 DEF Scanning
    <3> QED
      BY <3>1 DEF Scanning, KnowOp, Know, KnowPlace, KnowFound, KnowLink, KnowFree,
         KnowTaken, Taken, Writing, Deleting, Finding, Appending
  <2>3. Quiet(p)
    BY <1>1, <2>1, <2>2 DEF Quiet, Taken
  <2>4. h'[p] \in {h[p], [h[p] EXCEPT !.pos = FirstRec], Rest(0)}
    BY <1>3 DEF StoreBadFlag, Rewind, BeginNextrec, Close, TypeOK
  <2>5. /\ h'[p].offset \in {0, h[p].offset} /\ h'[p].ptrval \in {0, h[p].ptrval}
        /\ h'[p].link \in {0, h[p].link} /\ h'[p].saveptr \in {0, h[p].saveptr}
    BY <1>1, <2>4 DEF Handle, Rest
  <2> QED
    BY <1>1, <2>2, <2>3, <2>5, QuietStep DEF PtrBounded
<1>4. Begin(p) \/ StoreBadFlag(p) \/ Rewind(p) \/ BeginNextrec(p) \/ Close(p)
  OBVIOUS
<1>5. QED
  BY <1>2, <1>3, <1>4

\* Leaving a section, and scanning: the process knows nothing afterwards.
LEMMA ListLeave ==
  ASSUME DbInv, NEW p \in Proc, p \notin dead,
         UNCHANGED <<ptr, rec, eof, dead>>,
         \A q \in Proc \ {p} : pc'[q] = pc[q] /\ h'[q] = h[q] /\ call'[q] = call[q],
         pc[p] \notin {"del_push", "del_link"}, ~ Taken(p),
         pc'[p] \in Scanning \cup {"idle", "closed", "unlock", "readdat"},
         h'[p].offset <= PtrMax /\ h'[p].ptrval <= PtrMax
           /\ h'[p].link <= PtrMax /\ h'[p].saveptr <= PtrMax
  PROVE  ListInv'
<1>1. KnowOp(p)' /\ Know(p)' /\ ~ Taken(p)'
  BY DEF Scanning, KnowOp, Know, KnowPlace, KnowFound, KnowLink, KnowFree, KnowTaken,
       Taken, Writing, Deleting, Finding, Appending
<1>2. Quiet(p)
  BY <1>1 DEF Quiet, Scanning
<1> QED
  BY <1>1, <1>2, QuietStep DEF DbInv

\* What _db_readidx leaves in the handle.
LEMMA ReadIdxFacts ==
  ASSUME DbInv, NEW p \in Proc, NEW r \in Cell
  PROVE  LET n == ReadIdx(p, r) IN
         /\ n \in [ptroff : Cell, idxoff : Cell, ptrval : Cell, datoff : Slot,
                   datlen : Nat, offset : Cell, saveoffset : Cell, saveptr : Cell,
                   freeptr : Cell, link : Cell, pos : Nat]
         /\ n.idxoff = r /\ n.ptrval = ptr[r]
         /\ n.offset = h[p].offset /\ n.ptrval <= PtrMax /\ n.offset <= PtrMax
         /\ n.ptroff = h[p].ptroff /\ n.saveoffset = h[p].saveoffset
         /\ n.link = h[p].link /\ n.saveptr = h[p].saveptr /\ n.freeptr = h[p].freeptr
         /\ n.link <= PtrMax /\ n.saveptr <= PtrMax
<1>1. h[p] \in Handle /\ ptr[r] \in Cell /\ ptr[r] <= PtrMax
      /\ rec[r].datoff \in Slot /\ rec[r].datlen \in Nat
      /\ h[p].offset <= PtrMax /\ h[p].ptrval <= PtrMax
      /\ h[p].link <= PtrMax /\ h[p].saveptr <= PtrMax
  BY DEF DbInv, TypeOK, ListInv, PtrBounded
<1>2. r + 1 \in Nat /\ (\A x \in 0..(IdxMax + 1) : x \in Nat)
  BY DbAssumption DEF Cell
<1> QED
  BY <1>1, <1>2 DEF ReadIdx, Handle

(* The walk along a chain.                                                 *)

\* The walk starts: the process has read the head of its chain.
LEMMA ListReadHead ==
  ASSUME DbInv, NEW p \in Proc, p \notin dead, ReadHead(p)
  PROVE  ListInv'
<1> TypeOK /\ LockInv /\ ListInv
  BY DEF DbInv
<1>1. /\ pc[p] = "head" /\ pc' = [pc EXCEPT ![p] = "walk"]
      /\ h' = [h EXCEPT ![p].offset = ptr[h[p].ptroff], ![p].pos = 0]
      /\ UNCHANGED <<ptr, rec, eof, dead, call>>
  BY DEF ReadHead, Goto, Local, files
<1>2. /\ h[p] \in Handle /\ h[p].ptroff = Chain(p) /\ PtrBounded
      /\ Chain(p) \in 1..NHash /\ Home(Chain(p)) = Chain(p) /\ InChain(p)
  BY <1>1, HandleFields, ChainType DEF ListInv, Know, KnowPlace, InChain, Reading
<1>3. Chain(p) \in Settled
  BY <1>1, <1>2, HeadsSettled
<1>4. ptr[Chain(p)] # Chain(p)
  <2>1. ptr[Chain(p)] # 0 => ptr[Chain(p)] \in Allocated
    BY <1>3, FollowPtr
  <2> QED
    BY <1>2, <2>1, CellFacts
<1>5. /\ pc'[p] = "walk" /\ h'[p] = [h[p] EXCEPT !.offset = ptr[Chain(p)], !.pos = 0]
      /\ call'[p] = call[p]
  BY <1>1, <1>2 DEF TypeOK
<1>6. Quiet(p)
  BY <1>1, <1>5 DEF Quiet, Taken, TypeOK
<1>7. Settled' = Settled /\ Home(Chain(p))' = Home(Chain(p)) /\ Chain(p)' = Chain(p)
  BY <1>5, <1>6, QuietLists DEF Chain
<1>8. /\ h'[p].ptroff = Chain(p) /\ h'[p].offset = ptr[Chain(p)]
      /\ h'[p].ptrval = h[p].ptrval /\ h'[p].link = h[p].link /\ h'[p].saveptr = h[p].saveptr
  BY <1>2, <1>5 DEF Handle
<1>9. (Home(h[p].ptroff) = Chain(p) /\ h[p].ptroff \in Settled)'
  BY <1>1, <1>2, <1>3, <1>7, <1>8 DEF Home
<1>10. KnowOp(p)' /\ Know(p)'
  BY <1>1, <1>4, <1>5, <1>8, <1>9 DEF KnowOp, Know, KnowPlace, KnowFound, KnowLink,
     KnowFree, KnowTaken, Taken, Writing, Deleting, Finding, Appending
<1>11. ptr[Chain(p)] <= PtrMax
  BY <1>2, DbAssumption DEF PtrBounded, Cell
<1> QED
  BY <1>2, <1>6, <1>8, <1>10, <1>11, QuietStep DEF PtrBounded

\* The record a walk has come to.
LEMMA WalkFacts ==
  ASSUME DbInv, NEW p \in Proc, p \notin dead, pc[p] = "walk", h[p].offset # 0
  PROVE  /\ InChain(p) /\ Chain(p) \in 1..NHash
         /\ h[p].ptroff \in Settled /\ Home(h[p].ptroff) = Chain(p)
         /\ ptr[h[p].ptroff] = h[p].offset /\ h[p].offset # h[p].ptroff
         /\ h[p].offset \in Allocated /\ h[p].offset \in Settled
         /\ Home(h[p].offset) = Chain(p)
         /\ ptr[h[p].offset] # h[p].offset
         /\ h[p].offset \in Cell
<1> TypeOK /\ LockInv /\ ListInv
  BY DEF DbInv
<1>1. /\ InChain(p) /\ Chain(p) \in 1..NHash
      /\ h[p].ptroff \in Settled /\ Home(h[p].ptroff) = Chain(p)
      /\ ptr[h[p].ptroff] = h[p].offset /\ h[p].offset # h[p].ptroff
  BY ChainType DEF ListInv, Know, KnowPlace, InChain, Reading
<1>2. /\ h[p].offset \in Allocated \ Held /\ Home(h[p].offset) = Chain(p)
      /\ \A d \in Settled : ptr[d] = h[p].offset => d = h[p].ptroff
  BY <1>1, FollowPtr
<1>3. h[p].offset \in Settled /\ h[p].offset \in Cell
  BY <1>1, <1>2, CellFacts, ChainSettled
<1> QED
  BY <1>1, <1>2, <1>3

\* The walk has met the key: ptroff is the cell that leads to the record.
LEMMA ListWalkHit ==
  ASSUME DbInv, NEW p \in Proc, p \notin dead, WalkHit(p)
  PROVE  ListInv'
<1> TypeOK /\ LockInv /\ ListInv
  BY DEF DbInv
<1> DEFINE r == h[p].offset
<1>1. /\ pc[p] = "walk" /\ r # 0 /\ pc' = [pc EXCEPT ![p] = AfterHit(p, r)]
      /\ h' = [h EXCEPT ![p] = ReadIdx(p, r)]
      /\ UNCHANGED <<ptr, rec, eof, dead, call>>
  BY DEF WalkHit, Goto, Local, files
<1>2. /\ h[p].ptroff \in Settled /\ Home(h[p].ptroff) = Chain(p)
      /\ ptr[h[p].ptroff] = r /\ r # h[p].ptroff /\ r \in Cell
  BY <1>1, WalkFacts
<1> HIDE DEF r
<1>3. /\ pc'[p] \in {"readdat", "unlock", "del_lock", "over"}
      /\ pc'[p] \in {"del_lock", "over"} => call[p].op # "fetch"
      /\ h'[p] = ReadIdx(p, r) /\ call'[p] = call[p]
  BY <1>1 DEF TypeOK, AfterHit
<1>4. Quiet(p)
  BY <1>1, <1>3 DEF Quiet, Taken, TypeOK
<1>5. Settled' = Settled /\ Chain(p)' = Chain(p)
  BY <1>3, <1>4, QuietLists DEF Chain
<1>6. /\ h'[p].ptroff = h[p].ptroff /\ h'[p].idxoff = r /\ h'[p].ptrval = ptr[r]
      /\ h'[p].offset <= PtrMax /\ h'[p].ptrval <= PtrMax
      /\ h'[p].link <= PtrMax /\ h'[p].saveptr <= PtrMax
  BY <1>2, <1>3, ReadIdxFacts
<1>7. (Home(h[p].ptroff) = Chain(p) /\ h[p].ptroff \in Settled)'
  BY <1>1, <1>2, <1>5, <1>6 DEF Home
<1>8. KnowOp(p)' /\ Know(p)'
  BY <1>1, <1>2, <1>3, <1>6, <1>7 DEF KnowOp, Know, KnowPlace, KnowFound, KnowLink,
     KnowFree, KnowTaken, Taken, Writing, Deleting, Finding, Appending
<1> QED
  BY <1>4, <1>6, <1>8, QuietStep

\* The walk goes on: the cell before is the record just read.
LEMMA ListWalkNext ==
  ASSUME DbInv, NEW p \in Proc, p \notin dead, WalkNext(p)
  PROVE  ListInv'
<1> TypeOK /\ LockInv /\ ListInv
  BY DEF DbInv
<1> DEFINE r == h[p].offset
<1>1. /\ pc[p] = "walk" /\ r # 0 /\ pc' = pc
      /\ h' = [h EXCEPT ![p] = [ReadIdx(p, r) EXCEPT !.ptroff = r, !.offset = ptr[r]]]
      /\ UNCHANGED <<ptr, rec, eof, dead, call>>
  BY DEF WalkNext, Local, files
<1>2. /\ r \in Settled /\ Home(r) = Chain(p) /\ ptr[r] # r /\ r \in Cell
  BY <1>1, WalkFacts
<1> HIDE DEF r
<1>3. /\ pc'[p] = "walk" /\ call'[p] = call[p]
      /\ h'[p] = [ReadIdx(p, r) EXCEPT !.ptroff = r, !.offset = ptr[r]]
  BY <1>1 DEF TypeOK
<1>4. Quiet(p)
  BY <1>1, <1>3 DEF Quiet, Taken, TypeOK
<1>5. Settled' = Settled /\ Chain(p)' = Chain(p)
  BY <1>3, <1>4, QuietLists DEF Chain
<1>6. /\ h'[p].ptroff = r /\ h'[p].offset = ptr[r]
      /\ h'[p].offset <= PtrMax /\ h'[p].ptrval <= PtrMax
      /\ h'[p].link <= PtrMax /\ h'[p].saveptr <= PtrMax
  BY <1>2, <1>3, ReadIdxFacts
<1>7. (Home(h[p].ptroff) = Chain(p) /\ h[p].ptroff \in Settled)'
  BY <1>1, <1>2, <1>5, <1>6 DEF Home
<1>8. KnowOp(p)' /\ Know(p)'
  BY <1>1, <1>2, <1>3, <1>6, <1>7 DEF KnowOp, Know, KnowPlace, KnowFound, KnowLink,
     KnowFree, KnowTaken, Taken, Writing, Deleting, Finding, Appending
<1> QED
  BY <1>4, <1>6, <1>8, QuietStep

\* The walk has met the end of the chain.
LEMMA ListWalkEnd ==
  ASSUME DbInv, NEW p \in Proc, p \notin dead, WalkEnd(p)
  PROVE  ListInv'
<1> TypeOK /\ LockInv /\ ListInv
  BY DEF DbInv
<1>1. /\ pc[p] = "walk" /\ UNCHANGED <<h, ptr, rec, eof, dead, call>>
      /\ \/ pc' = [pc EXCEPT ![p] = "link"] /\ call[p].op \in {"insert", "store"}
         \/ pc' = [pc EXCEPT ![p] = "unlock"]
  BY DEF WalkEnd, Goto, Local, files
<1>2. /\ \/ pc'[p] = "link" /\ call'[p].op \in {"insert", "store"}
         \/ pc'[p] = "unlock"
      /\ \A q \in Proc \ {p} : pc'[q] = pc[q]
  BY <1>1 DEF TypeOK
<1>3. KnowOp(p)' /\ Know(p)' /\ ~ Taken(p)'
  BY <1>2 DEF KnowOp, Know, KnowPlace, KnowFound, KnowLink,
     KnowFree, KnowTaken, Taken, Writing, Deleting, Finding, Appending
<1>4. Quiet(p)
  BY <1>1, <1>2, <1>3 DEF Quiet, Taken
<1> QED
  BY <1>1, <1>3, <1>4, QuietStep DEF ListInv, PtrBounded

(* Steps that only move on: the handle names the same cells as before.     *)

Moves ==
  {<<"lock", "head">>, <<"del_lock", "del_dat">>, <<"ff_lock", "ff_head">>,
   <<"nx_lock", "nx_read">>, <<"app_datlock", "app_dat">>, <<"app_idxlock", "app_idx">>,
   <<"del_dat", "del_free">>, <<"del_unlock", "unlock">>, <<"del_unlock", "relink">>,
   <<"re_dat", "re_idx">>, <<"app_dat", "app_datunlock">>,
   <<"app_datunlock", "app_idxlock">>, <<"app_idxunlock", "pub">>, <<"over", "unlock">>,
   <<"ff_walk", "ff_unlock">>, <<"ff_unlock", "app_datlock">>, <<"ff_unlock", "re_dat">>}

\* A step that touches no cell and keeps the pointers of its handle, along the moves
\* of a call that carry what the process knows over.
LEMMA ListMove ==
  ASSUME DbInv, NEW p \in Proc, p \notin dead, NEW l,
         pc' = [pc EXCEPT ![p] = l], <<pc[p], l>> \in Moves,
         UNCHANGED <<ptr, rec, eof, dead, call>>,
         \A q \in Proc \ {p} : h'[q] = h[q],
         /\ h'[p].ptroff = h[p].ptroff /\ h'[p].idxoff = h[p].idxoff
         /\ h'[p].ptrval = h[p].ptrval /\ h'[p].offset = h[p].offset
         /\ h'[p].saveptr = h[p].saveptr /\ h'[p].freeptr = h[p].freeptr
         /\ h'[p].saveoffset = h[p].saveoffset /\ h'[p].link = h[p].link,
         l = "re_dat" => h[p].offset # 0,
         l \in {"ff_unlock", "app_datlock"} => h[p].offset = 0
  PROVE  ListInv'
<1> TypeOK /\ ListInv
  BY DEF DbInv
<1>1. pc'[p] = l /\ call'[p] = call[p] /\ \A q \in Proc \ {p} : pc'[q] = pc[q]
  BY DEF TypeOK
<1>2. pc[p] \notin {"del_push", "del_link"} /\ l \notin {"del_push", "del_link"}
  BY DEF Moves
<1>3. Taken(p)' <=> Taken(p)
  BY <1>1 DEF Moves, Taken
<1>4. Quiet(p)
  BY <1>1, <1>2, <1>3 DEF Quiet
<1>5. Settled' = Settled /\ Chain(p)' = Chain(p)
  BY <1>1, <1>4, QuietLists DEF Chain
<1>6. \A c : Home(c)' = Home(c)
  BY DEF Home
<1>7. KnowOp(p) /\ Know(p)
  BY DEF ListInv
<1>8. KnowOp(p)'
  BY <1>1, <1>7 DEF KnowOp, Moves, Writing, Deleting, Finding, Appending
<1>9. KnowPlace(p)' /\ KnowFound(p)'
  BY <1>1, <1>5, <1>6, <1>7 DEF Moves, Know, KnowPlace, KnowFound
<1>10. KnowLink(p)'
  BY <1>1, <1>5, <1>7 DEF Moves, Know, KnowLink, Finding, Appending
<1>11. KnowFree(p)'
  BY <1>1 DEF Moves, KnowFree
<1>12. KnowTaken(p)'
  BY <1>1, <1>3, <1>5, <1>6, <1>7 DEF Moves, Know, KnowTaken, Taken
<1> QED
  BY <1>4, <1>8, <1>9, <1>10, <1>11, <1>12, QuietStep DEF ListInv, PtrBounded, Know

\* A lock that is granted.
LEMMA ListLock ==
  ASSUME DbInv, NEW p \in Proc, p \notin dead, LockGranted(p)
  PROVE  ListInv'
<1>1. /\ pc[p] \in LockPoints /\ pc' = [pc EXCEPT ![p] = AfterLock(p)]
      /\ UNCHANGED <<ptr, rec, eof, dead, call, h>>
  BY DEF LockGranted, Goto, files
<1>2. <<pc[p], AfterLock(p)>> \in Moves /\ AfterLock(p) \notin {"re_dat", "ff_unlock", "app_datlock"}
  BY <1>1 DEF LockPoints, AfterLock, Moves
<1> QED
  BY <1>1, <1>2, ListMove

\* The writes of the data file, and the unlocks.
LEMMA ListData ==
  ASSUME DbInv, NEW p \in Proc, p \notin dead,
         \/ DelDat(p) \/ DelUnlock(p) \/ UnlockDat(p) \/ UnlockTail(p)
         \/ Overwrite(p) \/ FfEnd(p) \/ FfUnlock(p)
  PROVE  ListInv'
<1>1. UNCHANGED <<ptr, rec, eof, dead, call, h>>
  BY DEF DelDat, DelUnlock, UnlockDat, UnlockTail, Overwrite, FfEnd, FfUnlock, Local, files
<1>2. \/ pc[p] = "del_dat" /\ pc' = [pc EXCEPT ![p] = "del_free"]
      \/ pc[p] = "del_unlock" /\ pc' = [pc EXCEPT ![p] = "unlock"]
      \/ pc[p] = "del_unlock" /\ pc' = [pc EXCEPT ![p] = "relink"]
      \/ pc[p] = "app_datunlock" /\ pc' = [pc EXCEPT ![p] = "app_idxlock"]
      \/ pc[p] = "app_idxunlock" /\ pc' = [pc EXCEPT ![p] = "pub"]
      \/ pc[p] = "over" /\ pc' = [pc EXCEPT ![p] = "unlock"]
      \/ pc[p] = "ff_walk" /\ pc' = [pc EXCEPT ![p] = "ff_unlock"] /\ h[p].offset = 0
      \/ pc[p] = "ff_unlock" /\ pc' = [pc EXCEPT ![p] = "app_datlock"] /\ h[p].offset = 0
      \/ pc[p] = "ff_unlock" /\ pc' = [pc EXCEPT ![p] = "re_dat"] /\ h[p].offset # 0
  BY DEF DelDat, DelUnlock, UnlockDat, UnlockTail, Overwrite, FfEnd, FfUnlock, Goto
<1>3. PICK k, l : /\ pc[p] = k /\ pc' = [pc EXCEPT ![p] = l] /\ <<k, l>> \in Moves
                  /\ l = "re_dat" => h[p].offset # 0
                  /\ l \in {"ff_unlock", "app_datlock"} => h[p].offset = 0
  BY <1>2 DEF Moves
<1> QED
  BY <1>1, <1>3, ListMove

\* Data are written over a free record.
LEMMA ListReuseDat ==
  ASSUME DbInv, NEW p \in Proc, p \notin dead, ReuseDat(p)
  PROVE  ListInv'
<1>1. /\ pc[p] = "re_dat" /\ pc' = [pc EXCEPT ![p] = "re_idx"]
      /\ h' = [h EXCEPT ![p].datlen = ValLen[call[p].val]]
      /\ UNCHANGED <<ptr, rec, eof, dead, call>>
  BY DEF ReuseDat, Goto
<1>2. h[p] \in Handle /\ h'[p] = [h[p] EXCEPT !.datlen = ValLen[call[p].val]]
      /\ \A q \in Proc \ {p} : h'[q] = h[q]
  BY <1>1 DEF DbInv, TypeOK
<1>3. /\ h'[p].ptroff = h[p].ptroff /\ h'[p].idxoff = h[p].idxoff
      /\ h'[p].ptrval = h[p].ptrval /\ h'[p].offset = h[p].offset
      /\ h'[p].saveptr = h[p].saveptr /\ h'[p].freeptr = h[p].freeptr
      /\ h'[p].saveoffset = h[p].saveoffset /\ h'[p].link = h[p].link
  BY <1>2 DEF Handle
<1>4. <<pc[p], "re_idx">> \in Moves
  BY <1>1 DEF Moves
<1> QED
  BY <1>1, <1>2, <1>3, <1>4, ListMove

\* Data are appended.
LEMMA ListAppendDat ==
  ASSUME DbInv, NEW p \in Proc, p \notin dead, AppendDat(p), ~ Die(p)
  PROVE  ListInv'
<1>1. /\ pc[p] = "app_dat" /\ pc' = [pc EXCEPT ![p] = "app_datunlock"]
      /\ h' = [h EXCEPT ![p].datoff = dateof + 1, ![p].datlen = ValLen[call[p].val]]
      /\ UNCHANGED <<ptr, rec, eof, dead, call>>
  BY DEF AppendDat, Goto
<1>2. /\ h[p] \in Handle /\ \A q \in Proc \ {p} : h'[q] = h[q]
      /\ h'[p] = [h[p] EXCEPT !.datoff = dateof + 1, !.datlen = ValLen[call[p].val]]
  BY <1>1 DEF DbInv, TypeOK
<1>3. /\ h'[p].ptroff = h[p].ptroff /\ h'[p].idxoff = h[p].idxoff
      /\ h'[p].ptrval = h[p].ptrval /\ h'[p].offset = h[p].offset
      /\ h'[p].saveptr = h[p].saveptr /\ h'[p].freeptr = h[p].freeptr
      /\ h'[p].saveoffset = h[p].saveoffset /\ h'[p].link = h[p].link
  BY <1>2 DEF Handle
<1>4. <<pc[p], "app_datunlock">> \in Moves
  BY <1>1 DEF Moves
<1> QED
  BY <1>1, <1>2, <1>3, <1>4, ListMove

\* _db_dodelete's look at the head of the free list.
LEMMA ListDelFree ==
  ASSUME DbInv, NEW p \in Proc, p \notin dead, DelFree(p)
  PROVE  ListInv'
<1> TypeOK /\ ListInv
  BY DEF DbInv
<1>1. /\ pc[p] = "del_free" /\ pc' = [pc EXCEPT ![p] = "del_idx"]
      /\ h' = [h EXCEPT ![p].freeptr = ptr[FREE], ![p].saveptr = h[p].ptrval]
      /\ UNCHANGED <<ptr, rec, eof, dead, call>>
  BY DEF DelFree, Goto, Local, files
<1>2. /\ pc'[p] = "del_idx" /\ call'[p] = call[p] /\ h[p] \in Handle
      /\ h'[p] = [h[p] EXCEPT !.freeptr = ptr[FREE], !.saveptr = h[p].ptrval]
  BY <1>1 DEF TypeOK
<1>3. Quiet(p)
  BY <1>1, <1>2 DEF Quiet, Taken, TypeOK
<1>4. Settled' = Settled /\ Chain(p)' = Chain(p) /\ (\A c : Home(c)' = Home(c))
  BY <1>2, <1>3, QuietLists DEF Chain
<1>5. /\ h'[p].ptroff = h[p].ptroff /\ h'[p].idxoff = h[p].idxoff
      /\ h'[p].ptrval = h[p].ptrval /\ h'[p].offset = h[p].offset
      /\ h'[p].link = h[p].link
      /\ h'[p].freeptr = ptr[FREE] /\ h'[p].saveptr = h[p].ptrval
  BY <1>2 DEF Handle
<1>6. KnowOp(p) /\ KnowFound(p)
  BY DEF ListInv, Know
<1>7. KnowOp(p)' /\ KnowFound(p)'
  BY <1>1, <1>2, <1>4, <1>5, <1>6 DEF KnowOp, KnowFound, Writing, Deleting
<1>8. KnowPlace(p)' /\ KnowLink(p)' /\ KnowFree(p)' /\ KnowTaken(p)'
  BY <1>2 DEF KnowPlace, KnowLink, KnowFree, KnowTaken, Taken, Finding, Appending
<1> QED
  BY <1>3, <1>5, <1>7, <1>8, QuietStep DEF ListInv, PtrBounded, Know

\* db_store's look at the head of the chain.
LEMMA ListReadLink ==
  ASSUME DbInv, NEW p \in Proc, p \notin dead, ReadLink(p)
  PROVE  ListInv'
<1> TypeOK /\ ListInv
  BY DEF DbInv
<1>1. /\ pc[p] \in {"link", "relink"} /\ h' = [h EXCEPT ![p].link = ptr[Chain(p)]]
      /\ \/ pc' = [pc EXCEPT ![p] = "ff_lock"]
         \/ pc' = [pc EXCEPT ![p] = "app_datlock"]
      /\ UNCHANGED <<ptr, rec, eof, dead, call>>
  BY DEF ReadLink, Goto, Local, files
<1>2. /\ pc'[p] \in {"ff_lock", "app_datlock"} /\ call'[p] = call[p] /\ h[p] \in Handle
      /\ h'[p] = [h[p] EXCEPT !.link = ptr[Chain(p)]]
  BY <1>1 DEF TypeOK
<1>3. Quiet(p)
  BY <1>1, <1>2 DEF Quiet, Taken, TypeOK
<1>4. Chain(p)' = Chain(p) /\ Chain(p) \in Cell
  BY <1>1, <1>2, ChainType, CellFacts DEF Chain
<1>5. /\ h'[p].ptrval = h[p].ptrval /\ h'[p].offset = h[p].offset
      /\ h'[p].saveptr = h[p].saveptr /\ h'[p].link = ptr[Chain(p)]
  BY <1>2 DEF Handle
<1>6. KnowOp(p)' /\ KnowLink(p)'
  BY <1>1, <1>2, <1>4, <1>5 DEF ListInv, KnowOp, KnowLink, Writing, Appending
<1>7. KnowPlace(p)' /\ KnowFound(p)' /\ KnowFree(p)' /\ KnowTaken(p)'
  BY <1>2 DEF KnowPlace, KnowFound, KnowFree, KnowTaken, Taken
<1> QED
  BY <1>3, <1>4, <1>5, <1>6, <1>7, QuietStep DEF ListInv, PtrBounded, Know

-----------------------------------------------------------------------------
(* The search for a free record.                                           *)

\* _db_findfree has read the head of the free list.
LEMMA ListFfHead ==
  ASSUME DbInv, NEW p \in Proc, p \notin dead, FfHead(p)
  PROVE  ListInv'
<1> TypeOK /\ LockInv /\ ListInv
  BY DEF DbInv
<1>1. /\ pc[p] = "ff_head" /\ pc' = [pc EXCEPT ![p] = "ff_walk"]
      /\ h' = [h EXCEPT ![p].saveoffset = FREE, ![p].offset = ptr[FREE]]
      /\ UNCHANGED <<ptr, rec, eof, dead, call>>
  BY DEF FfHead, Goto, Local, files
<1>2. /\ pc'[p] = "ff_walk" /\ call'[p] = call[p] /\ h[p] \in Handle
      /\ h'[p] = [h[p] EXCEPT !.saveoffset = FREE, !.offset = ptr[FREE]]
  BY <1>1 DEF TypeOK
<1>3. Quiet(p)
  BY <1>1, <1>2 DEF Quiet, Taken, TypeOK
<1>4. /\ Settled' = Settled /\ Chain(p)' = Chain(p) /\ (\A c : Home(c)' = Home(c))
      /\ FREE \in Settled /\ FREE \in Cell /\ FREE = 0 /\ Home(FREE) = FREE
  BY <1>2, <1>3, QuietLists, HeadsSettled, CellFacts DEF Chain, FREE
<1>5. /\ h'[p].ptrval = h[p].ptrval /\ h'[p].link = h[p].link
      /\ h'[p].saveptr = h[p].saveptr
      /\ h'[p].offset = ptr[FREE] /\ h'[p].saveoffset = FREE
  BY <1>2 DEF Handle
<1>6. KnowOp(p) /\ KnowLink(p)
  BY DEF ListInv, Know
<1>7. KnowOp(p)' /\ KnowLink(p)' /\ KnowFree(p)'
  BY <1>1, <1>2, <1>4, <1>5, <1>6 DEF KnowOp, KnowLink, KnowFree, Writing, Finding
<1>8. KnowPlace(p)' /\ KnowFound(p)' /\ KnowTaken(p)'
  BY <1>2 DEF KnowPlace, KnowFound, KnowTaken, Taken
<1> QED
  BY <1>3, <1>4, <1>5, <1>7, <1>8, QuietStep DEF ListInv, PtrBounded, Know

\* The free record a search has come to.
LEMMA FfFacts ==
  ASSUME DbInv, NEW p \in Proc, p \notin dead, pc[p] \in {"ff_walk", "ff_take"},
         h[p].offset # 0
  PROVE  /\ h[p].saveoffset \in Settled /\ Home(h[p].saveoffset) = FREE
         /\ ptr[h[p].saveoffset] = h[p].offset /\ h[p].offset # h[p].saveoffset
         /\ h[p].offset \in Allocated /\ h[p].offset \in Settled
         /\ Home(h[p].offset) = FREE /\ ptr[h[p].offset] # h[p].offset
         /\ h[p].offset \in Cell
<1> TypeOK /\ ListInv
  BY DEF DbInv
<1>1. /\ h[p].saveoffset \in Settled /\ Home(h[p].saveoffset) = FREE
      /\ ptr[h[p].saveoffset] = h[p].offset /\ h[p].offset # h[p].saveoffset
  BY DEF ListInv, Know, KnowFree
<1>2. /\ h[p].offset \in Allocated \ Held /\ Home(h[p].offset) = FREE
      /\ \A d \in Settled : ptr[d] = h[p].offset => d = h[p].saveoffset
  BY <1>1, FollowPtr
<1>3. h[p].offset \in Settled /\ h[p].offset \in Cell
  BY <1>2, CellFacts, FreeSettled
<1> QED
  BY <1>1, <1>2, <1>3

\* _db_findfree has found a record that fits.
LEMMA ListFfHit ==
  ASSUME DbInv, NEW p \in Proc, p \notin dead, FfHit(p)
  PROVE  ListInv'
<1> TypeOK /\ LockInv /\ ListInv
  BY DEF DbInv
<1> DEFINE r == h[p].offset
<1>1. /\ pc[p] = "ff_walk" /\ r # 0 /\ pc' = [pc EXCEPT ![p] = "ff_take"]
      /\ h' = [h EXCEPT ![p] = ReadIdx(p, r)]
      /\ UNCHANGED <<ptr, rec, eof, dead, call>>
  BY DEF FfHit, Goto, Local, files
<1>2. /\ h[p].saveoffset \in Settled /\ Home(h[p].saveoffset) = FREE
      /\ ptr[h[p].saveoffset] = r /\ r # h[p].saveoffset /\ r \in Cell
  BY <1>1, FfFacts
<1>3. /\ pc'[p] = "ff_take" /\ h'[p] = ReadIdx(p, r) /\ call'[p] = call[p]
  BY <1>1 DEF TypeOK
<1>4. Quiet(p)
  BY <1>1, <1>3 DEF Quiet, Taken, TypeOK
<1>5. Settled' = Settled /\ Chain(p)' = Chain(p) /\ (\A c : Home(c)' = Home(c))
  BY <1>3, <1>4, QuietLists DEF Chain
<1>6. /\ h'[p].saveoffset = h[p].saveoffset /\ h'[p].idxoff = r /\ h'[p].offset = r
      /\ h'[p].ptrval = ptr[r] /\ h'[p].link = h[p].link
      /\ h'[p].offset <= PtrMax /\ h'[p].ptrval <= PtrMax
      /\ h'[p].link <= PtrMax /\ h'[p].saveptr <= PtrMax
  BY <1>2, <1>3, ReadIdxFacts
<1> HIDE DEF r
<1>7. KnowOp(p) /\ KnowLink(p)
  BY DEF ListInv, Know
<1>8. KnowOp(p)' /\ KnowLink(p)' /\ KnowFree(p)'
  BY <1>1, <1>2, <1>3, <1>5, <1>6, <1>7 DEF KnowOp, KnowLink, KnowFree, Writing, Finding
<1>9. KnowPlace(p)' /\ KnowFound(p)' /\ KnowTaken(p)'
  BY <1>3 DEF KnowPlace, KnowFound, KnowTaken, Taken
<1> QED
  BY <1>4, <1>6, <1>8, <1>9, QuietStep DEF Know

\* _db_findfree goes on to the next free record.
LEMMA ListFfNext ==
  ASSUME DbInv, NEW p \in Proc, p \notin dead, FfNext(p)
  PROVE  ListInv'
<1> TypeOK /\ LockInv /\ ListInv
  BY DEF DbInv
<1> DEFINE r == h[p].offset
<1>1. /\ pc[p] = "ff_walk" /\ r # 0 /\ pc' = pc
      /\ h' = [h EXCEPT ![p] = [ReadIdx(p, r) EXCEPT !.saveoffset = r, !.offset = ptr[r]]]
      /\ UNCHANGED <<ptr, rec, eof, dead, call>>
  BY DEF FfNext, Local, files
<1>2. r \in Settled /\ Home(r) = FREE /\ ptr[r] # r /\ r \in Cell
  BY <1>1, FfFacts
<1> HIDE DEF r
<1>3. /\ pc'[p] = "ff_walk" /\ call'[p] = call[p]
      /\ h'[p] = [ReadIdx(p, r) EXCEPT !.saveoffset = r, !.offset = ptr[r]]
  BY <1>1 DEF TypeOK
<1>4. Quiet(p)
  BY <1>1, <1>3 DEF Quiet, Taken, TypeOK
<1>5. Settled' = Settled /\ Chain(p)' = Chain(p) /\ (\A c : Home(c)' = Home(c))
  BY <1>3, <1>4, QuietLists DEF Chain
<1>6. /\ h'[p].saveoffset = r /\ h'[p].offset = ptr[r] /\ h'[p].link = h[p].link
      /\ h'[p].offset <= PtrMax /\ h'[p].ptrval <= PtrMax
      /\ h'[p].link <= PtrMax /\ h'[p].saveptr <= PtrMax
  BY <1>2, <1>3, ReadIdxFacts
<1>7. KnowOp(p) /\ KnowLink(p)
  BY DEF ListInv, Know
<1>8. KnowOp(p)' /\ KnowLink(p)' /\ KnowFree(p)'
  BY <1>1, <1>2, <1>3, <1>5, <1>6, <1>7 DEF KnowOp, KnowLink, KnowFree, Writing, Finding
<1>9. KnowPlace(p)' /\ KnowFound(p)' /\ KnowTaken(p)'
  BY <1>3 DEF KnowPlace, KnowFound, KnowTaken, Taken
<1> QED
  BY <1>4, <1>6, <1>8, <1>9, QuietStep DEF Know

-----------------------------------------------------------------------------
(* Reads of data, the ends of calls, and db_nextrec.                       *)

\* A call returns.
LEMMA ListReturn ==
  ASSUME DbInv, NEW p \in Proc, p \notin dead, UnlockChain(p) \/ NextUnlock(p)
  PROVE  ListInv'
<1>1. /\ pc[p] \in {"unlock", "nx_unlock"} /\ pc' = [pc EXCEPT ![p] = "idle"]
      /\ h' = [h EXCEPT ![p] = Rest(h[p].pos)] /\ call' = [call EXCEPT ![p] = NoCall]
      /\ UNCHANGED <<ptr, rec, eof, dead>>
  BY DEF UnlockChain, NextUnlock, Return, Goto, files
<1>2. /\ pc'[p] = "idle" /\ h'[p] = Rest(h[p].pos)
      /\ \A q \in Proc \ {p} : pc'[q] = pc[q] /\ h'[q] = h[q] /\ call'[q] = call[q]
  BY <1>1 DEF DbInv, TypeOK
<1>3. h'[p].offset = 0 /\ h'[p].ptrval = 0 /\ h'[p].link = 0 /\ h'[p].saveptr = 0
  BY <1>2 DEF Rest
<1> QED
  BY <1>1, <1>2, <1>3, DbAssumption, ListLeave DEF Taken

\* Data are read.
LEMMA ListReadDat ==
  ASSUME DbInv, NEW p \in Proc, p \notin dead, FetchDat(p) \/ NextDat(p), ~ Die(p)
  PROVE  ListInv'
<1>1. /\ pc[p] \in {"readdat", "nx_dat"}
      /\ \/ pc' = [pc EXCEPT ![p] = "unlock"]
         \/ pc' = [pc EXCEPT ![p] = "nx_unlock"]
      /\ UNCHANGED <<ptr, rec, eof, dead, h, call>>
  BY DEF FetchDat, NextDat, ReadDat, Goto, Local, files
<1>2. /\ pc'[p] \in {"unlock", "nx_unlock"}
      /\ \A q \in Proc \ {p} : pc'[q] = pc[q]
  BY <1>1 DEF DbInv, TypeOK
<1>3. pc'[p] \in Scanning \cup {"unlock"}
  BY <1>2 DEF Scanning
<1> QED
  BY <1>1, <1>2, <1>3, ListLeave DEF Taken, DbInv, ListInv, PtrBounded

\* A scan reads the next record, or the end of the file.
LEMMA ListNextrec ==
  ASSUME DbInv, NEW p \in Proc, p \notin dead, NextIdx(p) \/ NextEof(p)
  PROVE  ListInv'
<1> TypeOK /\ ListInv
  BY DEF DbInv
<1>1. /\ pc[p] = "nx_read" /\ UNCHANGED <<ptr, rec, eof, dead, call>>
      /\ \/ pc' = pc
         \/ pc' = [pc EXCEPT ![p] = "nx_dat"]
         \/ pc' = [pc EXCEPT ![p] = "nx_unlock"]
      /\ \/ h' = h
         \/ h[p].pos \in FirstRec..eof /\ h' = [h EXCEPT ![p] = ReadIdx(p, h[p].pos)]
  BY DEF NextIdx, NextEof, Goto, Local, files
<1>2. /\ pc'[p] \in {"nx_read", "nx_dat", "nx_unlock"}
      /\ \A q \in Proc \ {p} : pc'[q] = pc[q] /\ h'[q] = h[q] /\ call'[q] = call[q]
  BY <1>1 DEF TypeOK
<1>3. h'[p].offset <= PtrMax /\ h'[p].ptrval <= PtrMax
        /\ h'[p].link <= PtrMax /\ h'[p].saveptr <= PtrMax
  <2>1. CASE h' = h
    BY <2>1 DEF ListInv, PtrBounded
  <2>2. CASE h[p].pos \in Allocated /\ h' = [h EXCEPT ![p] = ReadIdx(p, h[p].pos)]
    <3>1. h[p].pos \in Cell /\ h'[p] = ReadIdx(p, h[p].pos)
      BY <2>2, CellFacts DEF TypeOK
    <3> QED
      BY <3>1, ReadIdxFacts
  <2> QED
    BY <1>1, <2>1, <2>2 DEF Allocated
<1>4. pc'[p] \in Scanning
  BY <1>2 DEF Scanning
<1> QED
  BY <1>1, <1>2, <1>3, <1>4, ListLeave DEF Taken

-----------------------------------------------------------------------------
(* A process that is gone takes nothing along and breaks no list, unless   *)
(* it was unlinking.                                                       *)

\* A process dies: what it was to write it never writes.
LEMMA ListDie ==
  ASSUME DbInv, NEW p \in Proc, p \notin dead, Die(p), pc[p] \notin {"del_push", "del_link"}
  PROVE  ListInv'
<1> TypeOK /\ ListInv
  BY DEF DbInv
<1>1. UNCHANGED <<ptr, rec, eof, pc, call, h>> /\ dead' = dead \cup {p}
  BY DEF Die, files
<1>2. /\ Held' = Held /\ Settled' = Settled /\ Fields' = Fields /\ Allocated' = Allocated
  BY <1>1 DEF Held, Settled, Unlinking, Taken, Fields, Allocated
<1>3. (\A c : Home(c)' = Home(c)) /\ (\A q \in Proc : Chain(q)' = Chain(q))
  BY <1>1 DEF Home, Chain
<1>4. PtrBounded' /\ ListsSeparate' /\ OneListPerRecord'
  BY <1>1, <1>2, <1>3 DEF ListInv, PtrBounded, ListsSeparate, OneListPerRecord
<1>5. HeldOwned'
  BY <1>1, <1>2 DEF ListInv, HeldOwned, Taken
<1>6. \A q \in Proc : KnowOp(q)' /\ KnowDeleted(q)'
  BY <1>1, <1>2, <1>3 DEF ListInv, KnowOp, KnowDeleted
<1>7. ASSUME NEW q \in Proc \ dead' PROVE Know(q)'
  <2>1. Know(q)
    BY <1>1 DEF ListInv
  <2>2. KnowPlace(q)' /\ KnowFound(q)'
    BY <1>1, <1>2, <1>3, <2>1 DEF Know, KnowPlace, KnowFound
  <2>3. KnowLink(q)' /\ KnowFree(q)'
    BY <1>1, <1>2, <1>3, <2>1 DEF Know, KnowLink, KnowFree
  <2>4. KnowTaken(q)'
    BY <1>1, <1>3, <2>1 DEF Know, KnowTaken, Taken
  <2> QED
    BY <2>2, <2>3, <2>4 DEF Know
<1> QED
  BY <1>4, <1>5, <1>6, <1>7 DEF ListInv

\* A pointer that is written while a record is unlinked always fits.
LEMMA ListGiveUp ==
  ASSUME DbInv, NotKilledUnlinking, NEW p \in Proc, p \notin dead, Die(p),
         \/ pc[p] \in {"idle", "readdat", "nx_dat", "nx_read", "app_dat", "app_idx"} \cup LockPoints
         \/ ~ PtrFits(p)
         \/ pc[p] \in KillAt
  PROVE  ListInv'
<1>1. ~ PtrFits(p) => pc[p] \notin {"del_push", "del_link"}
  BY DEF DbInv, ListInv, KnowDeleted, PtrBounded, PtrFits, PtrArg
<1>2. pc[p] \notin {"del_push", "del_link"}
  BY <1>1 DEF NotKilledUnlinking, LockPoints
<1> QED
  BY <1>2, ListDie

-----------------------------------------------------------------------------
(* Steps that write the index file.                                        *)

\* The cells such a step of p may touch: what is in the chain of p, in the
\* free list while p has it locked, and the record in the hands of p.
Mine(p, c) ==
  \/ c \notin Held /\ (Home(c) = Chain(p) \/ (InFree(p) /\ Home(c) = FREE))
  \/ Taken(p) /\ c = h[p].idxoff

\* It touches nothing else, and puts what it touches in its own lists.
Frame(p) ==
  /\ dead' = dead
  /\ \A q \in Proc \ {p} : pc'[q] = pc[q] /\ h'[q] = h[q] /\ call'[q] = call[q]
  /\ Fields \subseteq Fields' /\ Allocated \subseteq Allocated' /\ Settled' \subseteq Fields
  /\ \A c \in Fields :
       \/ Mine(p, c) /\ Home(c)' \in {Chain(p), FREE}
       \/ /\ ptr'[c] = ptr[c] /\ Home(c)' = Home(c)
          /\ c \in Held' <=> c \in Held
          /\ c \in Settled' <=> c \in Settled

\* So what another process knows stays true.
LEMMA OthersKnow ==
  ASSUME DbInv, NEW p \in Proc, p \notin dead, pc[p] \in Writing, Frame(p),
         NEW q \in Proc \ dead, q # p
  PROVE  Know(q)'
<1> TypeOK /\ LockInv /\ ListInv
  BY DEF DbInv
<1>1. /\ pc'[q] = pc[q] /\ h'[q] = h[q] /\ call'[q] = call[q] /\ Chain(q)' = Chain(q)
      /\ Know(q)
  BY DEF Frame, Chain, ListInv
<1>2. Chain(p) # FREE
  BY ChainType DEF Writing, Deleting, Finding, Appending
<1>3. InChain(q) => Chain(q) # Chain(p) /\ Chain(q) # FREE /\ Chain(q) \in 1..NHash
  BY AloneInChain, ChainType DEF InChain, Reading, Writing, Deleting, Finding, Appending
<1>4. InFree(q) /\ pc[q] \notin Scanning => ~ InFree(p)
  BY AloneInFree
<1>5. \A c \in Fields \ Held : InChain(q) /\ Home(c) = Chain(q) => ~ Mine(p, c)
  BY <1>3, HeldFacts DEF Mine
<1>6. \A c \in Fields \ Held :
        InFree(q) /\ pc[q] \notin Scanning /\ Home(c) = FREE => ~ Mine(p, c)
  BY <1>2, <1>4, HeldFacts DEF Mine
<1>7. Taken(q) => h[q].idxoff \in Allocated /\ ~ Mine(p, h[q].idxoff)
  BY HeldFacts DEF Mine, ListInv, HeldOwned
<1>8. \A c \in Fields : ~ Mine(p, c) =>
        /\ ptr'[c] = ptr[c] /\ Home(c)' = Home(c)
        /\ c \in Settled' <=> c \in Settled
  BY DEF Frame
<1>9. Settled \subseteq Fields \ Held
  BY DEF Settled
<1>20. FREE \in Fields \ Held /\ Home(FREE) = FREE
  BY CellFacts, HeldFacts
<1>10. KnowPlace(q)'
  <2>1. CASE pc[q] = "walk"
    <3>1. InChain(q)
      BY <2>1 DEF InChain, Reading
    <3> QED
      BY <1>1, <1>5, <1>8, <1>9, <2>1, <3>1 DEF Know, KnowPlace
  <2> QED
    BY <1>1, <2>1 DEF Know, KnowPlace
<1>11. KnowFound(q)'
  <2>1. CASE pc[q] \in {"del_lock", "del_dat", "del_free", "del_idx"}
    <3>1. InChain(q)
      BY <2>1 DEF InChain, Writing, Deleting
    <3>2. /\ h[q].ptroff \in Settled /\ Home(h[q].ptroff) = Chain(q)
          /\ ptr[h[q].ptroff] = h[q].idxoff /\ h[q].idxoff # 0
      BY <1>1, <2>1 DEF Know, KnowFound
    <3>3. h[q].idxoff \in Allocated \ Held /\ Home(h[q].idxoff) = Chain(q)
      BY <3>2, FollowPtr
    <3>4. ~ Mine(p, h[q].ptroff) /\ ~ Mine(p, h[q].idxoff)
      BY <1>5, <1>9, <3>1, <3>2, <3>3, CellFacts
    <3>5. pc[q] = "del_idx" => ptr'[FREE] = ptr[FREE]
      <4>1. pc[q] = "del_idx" => InFree(q) /\ pc[q] \notin Scanning
        BY DEF InFree, Deleting, Scanning
      <4> QED
        BY <1>6, <1>8, <4>1, <1>20
    <3>6. /\ h[q].ptroff \in Settled' /\ Home(h[q].ptroff)' = Home(h[q].ptroff)
          /\ ptr'[h[q].ptroff] = ptr[h[q].ptroff] /\ ptr'[h[q].idxoff] = ptr[h[q].idxoff]
      <4>1. h[q].ptroff \in Fields /\ h[q].idxoff \in Fields
        BY <1>9, <3>2, <3>3, CellFacts
      <4> QED
        BY <1>1, <1>8, <3>2, <3>4, <4>1 DEF Home
    <3> QED
      BY <1>1, <2>1, <3>5, <3>6 DEF Know, KnowFound, Home
  <2> QED
    BY <1>1, <2>1 DEF KnowFound
<1>12. KnowLink(q)'
  <2>1. CASE pc[q] \in Finding \cup Appending \cup {"ff_lock", "re_dat", "re_idx", "pub"}
    <3>1. InChain(q)
      BY <2>1 DEF InChain, Writing
    <3>2. Chain(q) \in Fields \ Held /\ Home(Chain(q)) = Chain(q)
      BY <1>3, <3>1, CellFacts, HeldFacts
    <3> QED
      BY <1>1, <1>5, <1>8, <3>1, <3>2 DEF Know, KnowLink
  <2> QED
    BY <1>1, <2>1 DEF KnowLink
<1>13. KnowFree(q)'
  <2>1. CASE pc[q] \in {"ff_walk", "ff_take"}
    <3>1. InFree(q) /\ pc[q] \notin Scanning
      BY <2>1 DEF InFree, Finding, Scanning
    <3>2. /\ h[q].saveoffset \in Settled /\ Home(h[q].saveoffset) = FREE
          /\ ~ Mine(p, h[q].saveoffset)
      BY <1>1, <1>6, <1>9, <2>1, <3>1 DEF Know, KnowFree
    <3>3. h[q].offset # 0 => h[q].offset \in Fields /\ ~ Mine(p, h[q].offset)
      BY <1>6, <1>9, <2>1, <3>1, FfFacts
    <3>4. /\ h[q].saveoffset \in Settled' /\ ptr'[h[q].saveoffset] = ptr[h[q].saveoffset]
          /\ Home(h[q].saveoffset)' = FREE
          /\ h[q].offset # 0 => ptr'[h[q].offset] = ptr[h[q].offset]
      <4>1. h[q].saveoffset \in Fields
        BY <1>9, <3>2
      <4> QED
        BY <1>1, <1>8, <3>2, <3>3, <4>1 DEF Home
    <3> QED
      BY <1>1, <2>1, <3>4 DEF Know, KnowFree, Home
  <2> QED
    BY <1>1, <2>1 DEF KnowFree
<1>14. KnowTaken(q)'
  <2>1. Taken(q)' <=> Taken(q)
    BY <1>1 DEF Taken
  <2>2. Taken(q) => /\ Home(h[q].idxoff)' = Home(h[q].idxoff)
                    /\ ptr'[h[q].idxoff] = ptr[h[q].idxoff]
    <3> SUFFICES ASSUME Taken(q)
                 PROVE  /\ Home(h[q].idxoff)' = Home(h[q].idxoff)
                        /\ ptr'[h[q].idxoff] = ptr[h[q].idxoff]
      OBVIOUS
    <3>1. h[q].idxoff \in Fields /\ ~ Mine(p, h[q].idxoff)
      BY <1>7, CellFacts
    <3> QED
      BY <1>1, <1>8, <3>1 DEF Home
  <2> QED
    BY <1>1, <2>1, <2>2 DEF Know, KnowTaken, Taken
<1> QED
  BY <1>10, <1>11, <1>12, <1>13, <1>14 DEF Know

\* Nothing gets to point at the rest of a chain another process is unlinking.
LEMMA OthersDeleted ==
  ASSUME DbInv, NEW p \in Proc, p \notin dead, pc[p] \in Writing, Frame(p),
         ListsSeparate', NEW q \in Proc, q # p
  PROVE  KnowDeleted(q)'
<1> TypeOK /\ LockInv /\ ListInv
  BY DEF DbInv
<1>1. /\ pc'[q] = pc[q] /\ h'[q] = h[q] /\ Chain(q)' = Chain(q) /\ dead' = dead
      /\ KnowDeleted(q)
  BY DEF Frame, Chain, ListInv
<1> SUFFICES ASSUME pc[q] \in {"del_push", "del_link"}
             PROVE  KnowDeleted(q)'
  BY <1>1 DEF KnowDeleted
<1>2. q \notin dead /\ InChain(q) /\ InFree(q) /\ pc[q] \notin Scanning
  BY <1>1 DEF KnowDeleted, InChain, InFree, Writing, Deleting, Scanning
<1>3. Chain(p) # FREE /\ Chain(q) # FREE /\ Chain(q) # Chain(p) /\ ~ InFree(p)
  BY <1>2, ChainType, AloneInChain, AloneInFree DEF Writing, Deleting, Finding, Appending
<1>4. \A c \in Fields \ Held : Home(c) \in {Chain(q), FREE} => ~ Mine(p, c)
  BY <1>3, HeldFacts DEF Mine
<1>5. \A c \in Fields : ~ Mine(p, c) =>
        /\ ptr'[c] = ptr[c] /\ Home(c)' = Home(c)
        /\ c \in Held' <=> c \in Held
        /\ c \in Settled' <=> c \in Settled
  BY DEF Frame
<1>6. /\ h[q].ptroff \in Fields' \ Held' /\ Home(h[q].ptroff)' = Chain(q)
  <2>1. h[q].ptroff \in Fields \ Held /\ Home(h[q].ptroff) = Chain(q)
    BY <1>1 DEF KnowDeleted
  <2> QED
    BY <1>1, <1>4, <1>5, <2>1 DEF Frame, Home
<1>7. ASSUME h[q].saveptr # 0
      PROVE  /\ h[q].saveptr \in Allocated' \ Held' /\ Home(h[q].saveptr)' = Chain(q)
             /\ \A c \in Settled' : ptr'[c] # h[q].saveptr
  <2> DEFINE s == h[q].saveptr
  <2>1. /\ s \in Allocated \ Held /\ Home(s) = Chain(q)
        /\ \A c \in Settled : ptr[c] # s
    BY <1>1, <1>7 DEF KnowDeleted
  <2>2. s \in Fields /\ ~ Mine(p, s)
    BY <1>4, <2>1, CellFacts
  <2>3. s \in Allocated' \ Held' /\ Home(h[q].saveptr)' = Chain(q)
    BY <1>1, <1>5, <2>1, <2>2 DEF Frame, Home
  <2>4. ASSUME NEW c \in Settled', ptr'[c] = s PROVE FALSE
    <3>1. c \in Fields
      BY <2>4 DEF Frame
    <3>2. Mine(p, c) /\ Home(c)' \in {Chain(p), FREE}
      BY <1>5, <2>1, <2>4, <3>1 DEF Frame
    <3>3. Home(s)' = Home(c)'
      BY <1>1, <1>7, <2>4 DEF ListsSeparate
    <3> QED
      BY <1>1, <1>3, <2>3, <3>2, <3>3 DEF Home
  <2> QED
    BY <2>3, <2>4
<1>8. ASSUME pc[q] = "del_push"
      PROVE  /\ Home(h[q].idxoff)' = FREE /\ h[q].idxoff <= PtrMax
             /\ ptr'[h[q].idxoff] = ptr'[FREE]
  <2>1. /\ Taken(q) /\ Home(h[q].idxoff) = FREE /\ h[q].idxoff <= PtrMax
        /\ ptr[h[q].idxoff] = ptr[FREE]
    BY <1>1, <1>8 DEF KnowDeleted, Taken
  <2>2. h[q].idxoff \in Fields /\ ~ Mine(p, h[q].idxoff)
    BY <2>1, HeldFacts, CellFacts DEF Mine, ListInv, HeldOwned
  <2>3. FREE \in Fields /\ ~ Mine(p, FREE)
    BY <1>4, CellFacts, HeldFacts
  <2> QED
    BY <1>1, <1>5, <2>1, <2>2, <2>3 DEF Home
<1> QED
  BY <1>1, <1>2, <1>6, <1>7, <1>8 DEF KnowDeleted, Home

\* What is left to show of such a step.
LEMMA WriteStep ==
  ASSUME DbInv, NEW p \in Proc, p \notin dead, pc[p] \in Writing, Frame(p),
         PtrBounded', ListsSeparate', OneListPerRecord', HeldOwned',
         KnowOp(p)', KnowDeleted(p)', Know(p)'
  PROVE  ListInv'
<1>1. \A q \in Proc : q # p => KnowOp(q)'
  BY DEF DbInv, ListInv, Frame, KnowOp
<1>2. \A q \in Proc : q # p => KnowDeleted(q)'
  BY OthersDeleted
<1>3. \A q \in Proc \ dead' : q # p => Know(q)'
  BY OthersKnow DEF Frame
<1> QED
  BY <1>1, <1>2, <1>3 DEF ListInv

\* What taking, keeping and giving away a record does to the records held.
LEMMA HeldAfter ==
  ASSUME ListInv, NEW p \in Proc,
         \A q \in Proc \ {p} : pc'[q] = pc[q] /\ h'[q] = h[q]
  PROVE  /\ ~ Taken(p) /\ Taken(p)' => Held' = Held \cup {h'[p].idxoff}
         /\ Taken(p) /\ ~ Taken(p)' => Held' = Held \ {h[p].idxoff}
         /\ Taken(p) /\ Taken(p)' /\ h'[p].idxoff = h[p].idxoff => Held' = Held
         /\ ~ Taken(p) /\ ~ Taken(p)' => Held' = Held
<1>1. \A q \in Proc \ {p} : (Taken(q)' <=> Taken(q)) /\ h'[q] = h[q]
  BY DEF Taken
<1>2. \A q, r \in Proc : Taken(q) /\ Taken(r) /\ q # r => h[q].idxoff # h[r].idxoff
  BY DEF ListInv, HeldOwned
<1>3. ~ Taken(p) /\ Taken(p)' => Held' = Held \cup {h'[p].idxoff}
  BY <1>1 DEF Held
<1>4. Taken(p) /\ ~ Taken(p)' => Held' = Held \ {h[p].idxoff}
  BY <1>1, <1>2 DEF Held
<1>5. Taken(p) /\ Taken(p)' /\ h'[p].idxoff = h[p].idxoff => Held' = Held
  BY <1>1 DEF Held
<1>6. ~ Taken(p) /\ ~ Taken(p)' => Held' = Held
  BY <1>1 DEF Held
<1> QED
  BY <1>3, <1>4, <1>5, <1>6

\* Only one step puts a record in a hand, and it takes one nobody has.
LEMMA OwnedAfter ==
  ASSUME ListInv, NEW p \in Proc, Allocated \subseteq Allocated',
         \A q \in Proc \ {p} : pc'[q] = pc[q] /\ h'[q] = h[q],
         Taken(p)' => \/ Taken(p) /\ h'[p].idxoff = h[p].idxoff
                      \/ h'[p].idxoff \in Allocated' \ Held
  PROVE  HeldOwned'
<1>1. \A q \in Proc \ {p} : (Taken(q)' <=> Taken(q)) /\ h'[q] = h[q]
  BY DEF Taken
<1>2. \A q \in Proc : Taken(q)' => h'[q].idxoff \in Allocated'
  BY <1>1 DEF ListInv, HeldOwned
<1>3. \A q \in Proc \ {p} : Taken(q) => h[q].idxoff \in Held
  BY DEF Held
<1>4. \A q \in Proc \ {p} : Taken(q)' /\ Taken(p)' => h'[q].idxoff # h'[p].idxoff
  BY <1>1, <1>3 DEF ListInv, HeldOwned
<1> QED
  BY <1>1, <1>2, <1>4 DEF ListInv, HeldOwned

\* The same for the fields that are being unlinked.
LEMMA UnlinkingAfter ==
  ASSUME DbInv, NEW p \in Proc, p \notin dead, pc[p] \in Writing,
         \A q \in Proc \ {p} : pc'[q] = pc[q] /\ h'[q] = h[q]
  PROVE  LET now == pc[p] \in {"del_push", "del_link"}
             then == pc'[p] \in {"del_push", "del_link"}
         IN  /\ ~ now /\ then => Unlinking' = Unlinking \cup {h'[p].ptroff}
             /\ now /\ ~ then => Unlinking' = Unlinking \ {h[p].ptroff}
             /\ now /\ then /\ h'[p].ptroff = h[p].ptroff => Unlinking' = Unlinking
             /\ ~ now /\ ~ then => Unlinking' = Unlinking
<1> TypeOK /\ LockInv /\ ListInv
  BY DEF DbInv
<1>1. ASSUME NEW q \in Proc \ {p}, pc[q] \in {"del_push", "del_link"},
             pc[p] \in {"del_push", "del_link"}
      PROVE  h[q].ptroff # h[p].ptroff
  <2>1. InChain(q) /\ Home(h[q].ptroff) = Chain(q) /\ Home(h[p].ptroff) = Chain(p)
    BY <1>1 DEF ListInv, KnowDeleted, InChain, Writing, Deleting
  <2> QED
    BY <1>1, <2>1, AloneInChain
<1> DEFINE now == pc[p] \in {"del_push", "del_link"}
           then == pc'[p] \in {"del_push", "del_link"}
<1>2. ~ now /\ then => Unlinking' = Unlinking \cup {h'[p].ptroff}
  BY DEF Unlinking
<1>3. now /\ ~ then => Unlinking' = Unlinking \ {h[p].ptroff}
  BY <1>1 DEF Unlinking
<1>4. now /\ then /\ h'[p].ptroff = h[p].ptroff => Unlinking' = Unlinking
  BY DEF Unlinking
<1>5. ~ now /\ ~ then => Unlinking' = Unlinking
  BY DEF Unlinking
<1> QED
  BY <1>2, <1>3, <1>4, <1>5

\* An offset that is written fits into a pointer field.
LEMMA BoundedAfter ==
  ASSUME TypeOK, ListInv, NEW p \in Proc, NEW r \in Cell, NEW v,
         ptr' = [ptr EXCEPT ![r] = v], v <= PtrMax,
         \A q \in Proc \ {p} : h'[q] = h[q],
         h'[p].offset <= PtrMax /\ h'[p].ptrval <= PtrMax
           /\ h'[p].link <= PtrMax /\ h'[p].saveptr <= PtrMax
  PROVE  PtrBounded'
BY DEF TypeOK, ListInv, PtrBounded

-----------------------------------------------------------------------------
(* The three writes of a delete.                                           *)

\* A record and the field in front of it, before the first write.
LEMMA DelFacts ==
  ASSUME DbInv, NEW p \in Proc, p \notin dead, pc[p] = "del_idx"
  PROVE  LET r == h[p].idxoff
             c == h[p].ptroff
         IN  /\ InChain(p) /\ InFree(p) /\ Chain(p) \in 1..NHash
             /\ c \in Settled /\ Home(c) = Chain(p) /\ ptr[c] = r /\ r # c
             /\ r \in Allocated \ Held /\ r \in Settled /\ Home(r) = Chain(p)
             /\ \A d \in Settled : ptr[d] = r => d = c
             /\ h[p].freeptr = ptr[FREE] /\ h[p].saveptr = ptr[r] /\ ptr[r] # r
             /\ r <= PtrMax
<1> TypeOK /\ LockInv /\ ListInv
  BY DEF DbInv
<1> DEFINE r == h[p].idxoff
           c == h[p].ptroff
<1>1. /\ InChain(p) /\ InFree(p) /\ Chain(p) \in 1..NHash
      /\ c \in Settled /\ Home(c) = Chain(p) /\ ptr[c] = r /\ r # c /\ r # 0
      /\ h[p].freeptr = ptr[FREE] /\ h[p].saveptr = ptr[r]
  BY ChainType DEF ListInv, Know, KnowFound, InChain, InFree, Writing, Deleting
<1>2. /\ r \in Allocated \ Held /\ Home(r) = Chain(p)
      /\ \A d \in Settled : ptr[d] = r => d = c
  BY <1>1, FollowPtr
<1>3. r \in Settled
  BY <1>1, <1>2, CellFacts, ChainSettled
<1>4. ptr[r] # r
  BY <1>1, <1>2, <1>3
<1>5. r <= PtrMax
  BY <1>1, CellFacts DEF ListInv, PtrBounded, Settled
<1> QED
  BY <1>1, <1>2, <1>3, <1>4, <1>5

\* The blank key takes the record out of its chain, into the hands of the process.
LEMMA ListDelIdx ==
  ASSUME DbInv, NEW p \in Proc, p \notin dead, DelIdx(p)
  PROVE  /\ ListInv'
         /\ LET r == h[p].idxoff
                c == h[p].ptroff
            IN  /\ Held' = Held \cup {r} /\ Unlinking' = Unlinking \cup {c}
                /\ Fields' = Fields /\ Allocated' = Allocated
                /\ rec'[r].key = Blank /\ \A d \in Cell \ {r} : Home(d)' = Home(d) /\ ptr'[d] = ptr[d]
<1> TypeOK /\ LockInv /\ ListInv
  BY DEF DbInv
<1>0. PICK r, c : r = h[p].idxoff /\ c = h[p].ptroff
  OBVIOUS
<1>1. /\ pc[p] = "del_idx" /\ pc' = [pc EXCEPT ![p] = "del_push"]
      /\ ptr' = [ptr EXCEPT ![r] = h[p].freeptr] /\ h[p].freeptr <= PtrMax
      /\ rec' = [rec EXCEPT ![r] = [key |-> Blank, keylen |-> KeyLen[call[p].key],
                                    datoff |-> h[p].datoff, datlen |-> h[p].datlen]]
      /\ h' = [h EXCEPT ![p].ptrval = h[p].freeptr]
      /\ UNCHANGED <<eof, dead, call>>
  BY <1>0 DEF DelIdx, WriteIdx, Goto, PtrFits, PtrArg
<1>2. /\ pc'[p] = "del_push" /\ call'[p] = call[p] /\ h[p] \in Handle
      /\ h'[p] = [h[p] EXCEPT !.ptrval = h[p].freeptr]
      /\ \A q \in Proc \ {p} : pc'[q] = pc[q] /\ h'[q] = h[q] /\ call'[q] = call[q]
  BY <1>1 DEF TypeOK
<1>3. /\ h'[p].ptroff = c /\ h'[p].idxoff = r /\ h'[p].ptrval = h[p].freeptr
      /\ h'[p].offset = h[p].offset /\ h'[p].link = h[p].link
      /\ h'[p].saveptr = h[p].saveptr
  BY <1>0, <1>2 DEF Handle
<1>4. /\ InChain(p) /\ InFree(p) /\ Chain(p) \in 1..NHash
      /\ c \in Settled /\ Home(c) = Chain(p) /\ ptr[c] = r /\ r # c
      /\ r \in Allocated \ Held /\ r \in Settled /\ Home(r) = Chain(p)
      /\ \A d \in Settled : ptr[d] = r => d = c
      /\ h[p].freeptr = ptr[FREE] /\ h[p].saveptr = ptr[r] /\ ptr[r] # r
      /\ r <= PtrMax
  BY <1>0, <1>1, DelFacts
<1>5. /\ r \in Cell /\ Fields \subseteq Cell /\ Allocated \subseteq Fields /\ FREE \in Fields
      /\ FREE \notin Allocated /\ 0 \notin Allocated /\ r > NHash
  BY <1>4, CellFacts, DbAssumption DEF Allocated, FirstRec
<1>6. /\ Held' = Held \cup {r} /\ Unlinking' = Unlinking \cup {c}
      /\ Fields' = Fields /\ Allocated' = Allocated /\ Chain(p)' = Chain(p)
  <2>1. ~ Taken(p) /\ Taken(p)'
    BY <1>1, <1>2 DEF Taken
  <2>2. pc[p] \in Writing
    BY <1>1 DEF Writing, Deleting
  <2> QED
    BY <1>0, <1>1, <1>2, <1>3, <2>1, <2>2, HeldAfter, UnlinkingAfter DEF Fields, Allocated, Chain
<1>7. Settled' = Settled \ {r, c}
  BY <1>6 DEF Settled
<1>8. /\ Home(r)' = FREE /\ \A d \in Cell \ {r} : Home(d)' = Home(d)
      /\ ptr'[r] = ptr[FREE] /\ \A d \in Cell \ {r} : ptr'[d] = ptr[d]
  <2>1. rec'[r].key = Blank /\ \A d \in Cell \ {r} : rec'[d] = rec[d]
    BY <1>1, <1>5 DEF TypeOK
  <2>2. Home(r)' = FREE
    BY <1>1, <1>4, <1>5, <2>1, DbAssumption DEF Home, Allocated, FirstRec
  <2>3. \A d \in Cell \ {r} : Home(d)' = Home(d)
    BY <2>1 DEF Home
  <2> QED
    BY <1>1, <1>4, <1>5, <2>2, <2>3 DEF TypeOK
<1>9. Settled \subseteq Fields
  BY DEF Settled
<1>10. ListsSeparate'
  BY <1>4, <1>5, <1>6, <1>7, <1>8, <1>9 DEF ListInv, ListsSeparate
<1>11. OneListPerRecord'
  BY <1>4, <1>5, <1>6, <1>7, <1>8, <1>9 DEF ListInv, OneListPerRecord
<1>12. Frame(p)
  <2>1. Mine(p, r) /\ Mine(p, c)
    BY <1>4 DEF Mine, Settled
  <2>2. Home(r)' \in {Chain(p), FREE} /\ Home(c)' \in {Chain(p), FREE}
    BY <1>4, <1>5, <1>8, <1>9
  <2> QED
    BY <1>1, <1>2, <1>5, <1>6, <1>7, <1>8, <1>9, <2>1, <2>2 DEF Frame
<1>13. PtrBounded'
  BY <1>1, <1>2, <1>3, <1>5, BoundedAfter DEF ListInv, PtrBounded
<1>14. HeldOwned'
  BY <1>2, <1>3, <1>4, <1>6, OwnedAfter
<1>15. KnowDeleted(p)'
  <2>1. c \in Fields' \ Held' /\ Home(c)' = Chain(p)'
    BY <1>4, <1>5, <1>6, <1>8, <1>9 DEF Settled
  <2>2. ASSUME ptr[r] # 0
        PROVE  /\ ptr[r] \in Allocated' \ Held' /\ Home(ptr[r]) = Chain(p)
               /\ \A d \in Settled' : ptr'[d] # ptr[r]
    BY <1>4, <1>5, <1>6, <1>7, <1>8, <1>9, <2>2, FollowPtr
  <2>3. ptr[r] # 0 => Home(h[p].saveptr)' = Chain(p)'
    BY <1>3, <1>4, <1>5, <1>6, <1>8, <2>2 DEF Home
  <2>4. Home(h[p].ptroff)' = Chain(p)' /\ Home(h[p].idxoff)' = FREE
    BY <1>3, <1>8, <2>1 DEF Home
  <2> QED
    BY <1>1, <1>2, <1>3, <1>4, <1>5, <1>8, <2>1, <2>2, <2>3, <2>4 DEF KnowDeleted
<1>16. KnowOp(p)' /\ Know(p)'
  BY <1>1, <1>2 DEF ListInv, KnowOp, Know, KnowPlace, KnowFound, KnowLink, KnowFree,
     KnowTaken, Writing, Deleting, Finding, Appending
<1>17. ListInv'
  BY <1>1, <1>10, <1>11, <1>12, <1>13, <1>14, <1>15, <1>16, WriteStep DEF Writing, Deleting
<1> QED
  <2>1. rec'[r].key = Blank
    BY <1>1, <1>5 DEF TypeOK
  <2> QED
    BY <1>0, <1>6, <1>8, <1>17, <2>1

\* The record becomes the first of the free list.
LEMMA ListDelPush ==
  ASSUME DbInv, NEW p \in Proc, p \notin dead, DelPush(p)
  PROVE  /\ ListInv'
         /\ Held' = Held \ {h[p].idxoff} /\ Unlinking' = Unlinking
         /\ Fields' = Fields /\ Allocated' = Allocated /\ (\A d : Home(d)' = Home(d))
         /\ h[p].idxoff \in Allocated /\ Home(h[p].idxoff) = FREE /\ ptr[h[p].idxoff] = ptr[FREE]
         /\ ptr'[FREE] = h[p].idxoff /\ \A d \in Cell \ {FREE} : ptr'[d] = ptr[d]
<1> TypeOK /\ LockInv /\ ListInv
  BY DEF DbInv
<1>0. PICK r, c, s : r = h[p].idxoff /\ c = h[p].ptroff /\ s = h[p].saveptr
  OBVIOUS
<1>1. /\ pc[p] = "del_push" /\ pc' = [pc EXCEPT ![p] = "del_link"]
      /\ ptr' = [ptr EXCEPT ![FREE] = r]
      /\ UNCHANGED <<h, rec, eof, dead, call>>
  BY <1>0 DEF DelPush, WritePtr, Goto, PtrArg
<1>2. pc'[p] = "del_link" /\ \A q \in Proc \ {p} : pc'[q] = pc[q]
  BY <1>1 DEF TypeOK
<1>3. pc[p] \in Writing /\ InChain(p) /\ InFree(p)
  BY <1>1 DEF InChain, InFree, Writing, Deleting
<1>4. Taken(p) /\ ~ Taken(p)'
  BY <1>1, <1>2 DEF Taken
<1>5. /\ c \in Fields \ Held /\ Home(c) = Chain(p)
      /\ s # 0 => /\ s \in Allocated \ Held /\ Home(s) = Chain(p)
                  /\ \A d \in Settled : ptr[d] # s
      /\ Home(r) = FREE /\ r <= PtrMax /\ ptr[r] = ptr[FREE]
      /\ r \in Allocated /\ r \in Held
  BY <1>0, <1>1, <1>4, HeldFacts DEF ListInv, KnowDeleted, HeldOwned
<1>6. /\ Fields \subseteq Cell /\ Allocated \subseteq Fields /\ FREE \in Fields
      /\ FREE \notin Allocated /\ 0 \notin Allocated /\ Home(FREE) = FREE /\ FREE \in Settled
  BY CellFacts, HeadsSettled
<1>7. /\ Held' = Held \ {r} /\ Unlinking' = Unlinking
      /\ Fields' = Fields /\ Allocated' = Allocated /\ Chain(p)' = Chain(p)
  BY <1>0, <1>1, <1>2, <1>3, <1>4, HeldAfter, UnlinkingAfter DEF Fields, Allocated, Chain
<1>8. Settled' = Settled \cup {r}
  <2>1. r \notin Unlinking
    BY <1>5 DEF Unlinking, ListInv, KnowDeleted
  <2> QED
    BY <1>5, <1>6, <1>7, <2>1 DEF Settled
<1>9. /\ \A d : Home(d)' = Home(d)
      /\ ptr'[FREE] = r /\ \A d \in Cell \ {FREE} : ptr'[d] = ptr[d]
  BY <1>1, <1>6 DEF TypeOK, Home
<1>10. Settled \subseteq Fields /\ r \notin Settled
  BY <1>5 DEF Settled
<1>11. ListsSeparate'
  BY <1>5, <1>6, <1>7, <1>8, <1>9, <1>10 DEF ListInv, ListsSeparate
<1>12. OneListPerRecord'
  <2>1. \A d \in Settled : ptr[d] # r
    BY <1>5, <1>6 DEF ListInv, OneListPerRecord
  <2>2. \A d \in Settled : d # FREE /\ ptr[d] # 0 => ptr[d] # ptr[FREE]
    BY <1>6 DEF ListInv, OneListPerRecord
  <2>3. /\ ptr'[r] = ptr[FREE] /\ ptr'[FREE] = r
        /\ \A d \in Settled \ {FREE} : ptr'[d] = ptr[d]
    BY <1>5, <1>6, <1>9, <1>10
  <2>4. \A d, e \in Settled' : d # e /\ ptr'[d] # 0 => ptr'[d] # ptr'[e]
    BY <1>6, <1>8, <2>1, <2>2, <2>3 DEF ListInv, OneListPerRecord
  <2>5. \A d \in Settled' : ptr'[d] \notin Held' \ {0}
    BY <1>6, <1>7, <1>8, <2>3 DEF ListInv, OneListPerRecord
  <2> QED
    BY <2>4, <2>5 DEF OneListPerRecord
<1>13. Frame(p)
  <2>1. Mine(p, r) /\ Mine(p, FREE)
    BY <1>0, <1>3, <1>4, <1>6 DEF Mine, Settled
  <2> QED
    BY <1>1, <1>2, <1>5, <1>6, <1>7, <1>8, <1>9, <1>10, <2>1 DEF Frame
<1>14. PtrBounded'
  BY <1>1, <1>5, <1>6, BoundedAfter DEF ListInv, PtrBounded
<1>15. HeldOwned'
  BY <1>1, <1>2, <1>4, <1>7, OwnedAfter
<1>16. KnowDeleted(p)'
  <2>1. c \in Fields' \ Held' /\ Home(h[p].ptroff)' = Chain(p)'
    BY <1>0, <1>1, <1>5, <1>7, <1>9 DEF Home
  <2>2. s # 0 => /\ s \in Allocated' \ Held' /\ Home(h[p].saveptr)' = Chain(p)'
                 /\ \A d \in Settled' : ptr'[d] # s
    BY <1>0, <1>1, <1>5, <1>6, <1>7, <1>8, <1>9, <1>10 DEF Home
  <2> QED
    BY <1>0, <1>1, <1>2, <2>1, <2>2 DEF KnowDeleted
<1>17. KnowOp(p)' /\ Know(p)'
  BY <1>1, <1>2 DEF ListInv, KnowOp, Know, KnowPlace, KnowFound, KnowLink, KnowFree,
     KnowTaken, Writing, Deleting, Finding, Appending
<1>18. ListInv'
  BY <1>3, <1>11, <1>12, <1>13, <1>14, <1>15, <1>16, <1>17, WriteStep
<1> QED
  BY <1>0, <1>5, <1>7, <1>9, <1>18

\* The chain is linked around the record.
LEMMA ListDelLink ==
  ASSUME DbInv, NEW p \in Proc, p \notin dead, DelLink(p)
  PROVE  /\ ListInv'
         /\ Held' = Held /\ Unlinking' = Unlinking \ {h[p].ptroff}
         /\ Fields' = Fields /\ Allocated' = Allocated /\ (\A d : Home(d)' = Home(d))
         /\ ptr'[h[p].ptroff] = h[p].saveptr /\ \A d \in Cell \ {h[p].ptroff} : ptr'[d] = ptr[d]
<1> TypeOK /\ LockInv /\ ListInv
  BY DEF DbInv
<1>0. PICK c, s : c = h[p].ptroff /\ s = h[p].saveptr
  OBVIOUS
<1>1. /\ pc[p] = "del_link" /\ pc' = [pc EXCEPT ![p] = "del_unlock"]
      /\ ptr' = [ptr EXCEPT ![c] = s] /\ h' = [h EXCEPT ![p].pos = 0]
      /\ UNCHANGED <<rec, eof, dead, call>>
  BY <1>0 DEF DelLink, WritePtr, Goto, PtrArg
<1>2. /\ pc'[p] = "del_unlock" /\ h[p] \in Handle /\ h'[p] = [h[p] EXCEPT !.pos = 0]
      /\ \A q \in Proc \ {p} : pc'[q] = pc[q] /\ h'[q] = h[q]
  BY <1>1 DEF TypeOK
<1>3. /\ h'[p].offset = h[p].offset /\ h'[p].ptrval = h[p].ptrval
      /\ h'[p].link = h[p].link /\ h'[p].saveptr = h[p].saveptr
  BY <1>2 DEF Handle
<1>4. pc[p] \in Writing /\ InChain(p) /\ ~ Taken(p) /\ ~ Taken(p)'
  BY <1>1, <1>2 DEF InChain, Writing, Deleting, Taken
<1>5. /\ c \in Fields \ Held /\ Home(c) = Chain(p) /\ s <= PtrMax
      /\ s # 0 => /\ s \in Allocated \ Held /\ Home(s) = Chain(p)
                  /\ \A d \in Settled : ptr[d] # s
  BY <1>0, <1>1 DEF ListInv, KnowDeleted, PtrBounded
<1>6. Fields \subseteq Cell /\ Allocated \subseteq Fields
  BY CellFacts
<1>7. /\ Held' = Held /\ Unlinking' = Unlinking \ {c}
      /\ Fields' = Fields /\ Allocated' = Allocated /\ Chain(p)' = Chain(p)
  BY <1>0, <1>1, <1>2, <1>4, HeldAfter, UnlinkingAfter DEF Fields, Allocated, Chain
<1>8. Settled' = Settled \cup {c} /\ c \notin Settled
  BY <1>0, <1>1, <1>5, <1>7 DEF Settled, Unlinking
<1>9. /\ \A d : Home(d)' = Home(d)
      /\ ptr'[c] = s /\ \A d \in Cell \ {c} : ptr'[d] = ptr[d]
  BY <1>1, <1>5, <1>6 DEF TypeOK, Home
<1>10. Settled \subseteq Fields
  BY DEF Settled
<1>11. ListsSeparate'
  BY <1>5, <1>6, <1>7, <1>8, <1>9, <1>10 DEF ListInv, ListsSeparate
<1>12. OneListPerRecord'
  BY <1>5, <1>6, <1>7, <1>8, <1>9, <1>10 DEF ListInv, OneListPerRecord
<1>13. Frame(p)
  BY <1>1, <1>2, <1>5, <1>6, <1>7, <1>8, <1>9, <1>10 DEF Frame, Mine
<1>14. PtrBounded'
  BY <1>1, <1>2, <1>3, <1>5, <1>6, BoundedAfter DEF ListInv, PtrBounded
<1>15. HeldOwned'
  BY <1>2, <1>4, <1>7, OwnedAfter
<1>16. KnowDeleted(p)'
  BY <1>2 DEF KnowDeleted
<1>17. KnowOp(p)' /\ Know(p)'
  BY <1>1, <1>2 DEF ListInv, KnowOp, Know, KnowPlace, KnowFound, KnowLink, KnowFree,
     KnowTaken, Taken, Writing, Deleting, Finding, Appending
<1>18. ListInv'
  BY <1>4, <1>11, <1>12, <1>13, <1>14, <1>15, <1>16, <1>17, WriteStep
<1> QED
  BY <1>0, <1>7, <1>9, <1>18

-----------------------------------------------------------------------------
(* The writes of a store.                                                  *)

\* A record is taken out of the free list, into the hands of the process.
LEMMA ListFfTake ==
  ASSUME DbInv, NEW p \in Proc, p \notin dead, FfTake(p)
  PROVE  /\ ListInv'
         /\ LET r == h[p].idxoff
                c == h[p].saveoffset
            IN  /\ Held' = Held \cup {r} /\ Unlinking' = Unlinking
                /\ Fields' = Fields /\ Allocated' = Allocated /\ (\A d : Home(d)' = Home(d))
                /\ c \in Settled /\ Home(c) = FREE /\ ptr[c] = r /\ r # c
                /\ r \in Allocated /\ r \in Settled /\ Home(r) = FREE
                /\ ptr'[c] = ptr[r] /\ \A d \in Cell \ {c} : ptr'[d] = ptr[d]
<1> TypeOK /\ LockInv /\ ListInv
  BY DEF DbInv
<1>0. PICK r, c : r = h[p].idxoff /\ c = h[p].saveoffset
  OBVIOUS
<1>1. /\ pc[p] = "ff_take" /\ pc' = [pc EXCEPT ![p] = "ff_unlock"]
      /\ ptr' = [ptr EXCEPT ![c] = h[p].ptrval]
      /\ UNCHANGED <<h, rec, eof, dead, call>>
  BY <1>0 DEF FfTake, WritePtr, Goto, PtrArg
<1>2. pc'[p] = "ff_unlock" /\ \A q \in Proc \ {p} : pc'[q] = pc[q]
  BY <1>1 DEF TypeOK
<1>3. h[p].offset # 0 /\ h[p].offset = r /\ h[p].ptrval = ptr[r]
  BY <1>0, <1>1 DEF ListInv, Know, KnowFree
<1>4. /\ c \in Settled /\ Home(c) = FREE /\ ptr[c] = r /\ r # c
      /\ r \in Allocated /\ r \in Settled /\ Home(r) = FREE /\ ptr[r] # r
  BY <1>0, <1>1, <1>3, FfFacts
<1>5. pc[p] \in Writing /\ InFree(p) /\ ~ Taken(p) /\ Taken(p)'
  BY <1>1, <1>2, <1>3 DEF InFree, Writing, Finding, Taken
<1>6. /\ Fields \subseteq Cell /\ Allocated \subseteq Fields /\ 0 \notin Allocated
      /\ Chain(p) \in Cell /\ Chain(p) # c
  BY <1>1, <1>4, CellFacts, ChainType
<1>7. /\ Held' = Held \cup {r} /\ Unlinking' = Unlinking
      /\ Fields' = Fields /\ Allocated' = Allocated /\ Chain(p)' = Chain(p)
  BY <1>0, <1>1, <1>2, <1>5, HeldAfter, UnlinkingAfter DEF Fields, Allocated, Chain
<1>8. Settled' = Settled \ {r}
  BY <1>7 DEF Settled
<1>9. /\ \A d : Home(d)' = Home(d)
      /\ ptr'[c] = ptr[r] /\ \A d \in Cell \ {c} : ptr'[d] = ptr[d]
  BY <1>1, <1>3, <1>4, <1>6 DEF TypeOK, Home, Settled
<1>10. Settled \subseteq Fields \ Held
  BY DEF Settled
<1>11. ListsSeparate'
  BY <1>4, <1>6, <1>7, <1>8, <1>9, <1>10 DEF ListInv, ListsSeparate
<1>12. OneListPerRecord'
  BY <1>4, <1>6, <1>7, <1>8, <1>9, <1>10 DEF ListInv, OneListPerRecord
<1>13. Frame(p)
  <2>1. Mine(p, r) /\ Mine(p, c)
    BY <1>4, <1>5, <1>10 DEF Mine
  <2> QED
    BY <1>1, <1>2, <1>4, <1>6, <1>7, <1>8, <1>9, <1>10, <2>1 DEF Frame
<1>14. PtrBounded'
  BY <1>1, <1>4, <1>6, <1>10, BoundedAfter DEF ListInv, PtrBounded
<1>15. HeldOwned'
  BY <1>0, <1>1, <1>2, <1>4, <1>7, <1>10, OwnedAfter
<1>16. KnowDeleted(p)'
  BY <1>2 DEF KnowDeleted
<1>17. KnowLink(p)'
  BY <1>1, <1>2, <1>6, <1>7, <1>9 DEF ListInv, Know, KnowLink, Finding
<1>18. KnowTaken(p)'
  BY <1>0, <1>1, <1>2, <1>4 DEF KnowTaken, Home
<1>19. KnowOp(p)' /\ KnowPlace(p)' /\ KnowFound(p)' /\ KnowFree(p)'
  BY <1>1, <1>2, <1>5 DEF ListInv, KnowOp, KnowPlace, KnowFound, KnowFree, Writing, Finding
<1>20. ListInv'
  BY <1>5, <1>11, <1>12, <1>13, <1>14, <1>15, <1>16, <1>17, <1>18, <1>19, WriteStep DEF Know
<1> QED
  BY <1>0, <1>4, <1>7, <1>9, <1>20

\* The key a process stores sends a record to the chain of the process.
LEMMA HomeOfNew ==
  ASSUME TypeOK, NEW p \in Proc, pc[p] \notin {"idle", "closed"}, NEW r \in Nat, r > NHash,
         UNCHANGED call, rec'[r].key = call[p].key
  PROVE  Home(r)' = Chain(p)
BY ChainType, DbAssumption DEF Home, Chain, Call

\* The record in hand gets the key and the pointer to the old first record.
LEMMA ListReuseIdx ==
  ASSUME DbInv, NEW p \in Proc, p \notin dead, ReuseIdx(p)
  PROVE  /\ ListInv'
         /\ Held' = Held /\ Unlinking' = Unlinking /\ h[p].idxoff \in Held
         /\ Fields' = Fields /\ Allocated' = Allocated
         /\ \A d \in Cell \ {h[p].idxoff} : Home(d)' = Home(d) /\ ptr'[d] = ptr[d]
<1> TypeOK /\ LockInv /\ ListInv
  BY DEF DbInv
<1>0. PICK r, k : r = h[p].idxoff /\ k = h[p].link
  OBVIOUS
<1>1. /\ pc[p] = "re_idx" /\ pc' = [pc EXCEPT ![p] = "pub"]
      /\ ptr' = [ptr EXCEPT ![r] = k]
      /\ rec' = [rec EXCEPT ![r] = [key |-> call[p].key, keylen |-> KeyLen[call[p].key],
                                    datoff |-> h[p].datoff, datlen |-> h[p].datlen]]
      /\ h' = [h EXCEPT ![p].ptrval = k]
      /\ UNCHANGED <<eof, dead, call>>
  BY <1>0 DEF ReuseIdx, WriteIdx, Goto
<1>2. /\ pc'[p] = "pub" /\ h[p] \in Handle /\ h'[p] = [h[p] EXCEPT !.ptrval = k]
      /\ \A q \in Proc \ {p} : pc'[q] = pc[q] /\ h'[q] = h[q]
  BY <1>1 DEF TypeOK
<1>3. /\ h'[p].idxoff = r /\ h'[p].ptrval = k /\ h'[p].link = k
      /\ h'[p].offset = h[p].offset /\ h'[p].saveptr = h[p].saveptr
  BY <1>0, <1>2 DEF Handle
<1>4. pc[p] \in Writing /\ Taken(p) /\ Taken(p)'
  BY <1>1, <1>2 DEF Writing, Taken
<1>5. r \in Allocated /\ r \in Held /\ k <= PtrMax /\ k = ptr[Chain(p)]
  BY <1>0, <1>1, <1>4, HeldFacts DEF ListInv, HeldOwned, PtrBounded, Know, KnowLink
<1>6. /\ Fields \subseteq Cell /\ Allocated \subseteq Fields /\ 0 \notin Allocated
      /\ r \in Nat /\ r > NHash /\ Chain(p) \in Cell /\ Chain(p) # r
  <2>1. Chain(p) \in 1..NHash
    BY <1>1, ChainType
  <2>2. r \in Nat /\ r > NHash
    BY <1>5, DbAssumption DEF Allocated, FirstRec, TypeOK
  <2> QED
    BY <1>5, <2>1, <2>2, CellFacts
<1>7. /\ Held' = Held /\ Unlinking' = Unlinking
      /\ Fields' = Fields /\ Allocated' = Allocated /\ Chain(p)' = Chain(p)
  BY <1>0, <1>1, <1>2, <1>3, <1>4, HeldAfter, UnlinkingAfter DEF Fields, Allocated, Chain
<1>8. Settled' = Settled /\ Settled \subseteq Fields \ Held
  BY <1>7 DEF Settled
<1>9. /\ Home(r)' = Chain(p) /\ \A d \in Cell \ {r} : Home(d)' = Home(d)
      /\ ptr'[r] = k /\ \A d \in Cell \ {r} : ptr'[d] = ptr[d]
  <2>1. rec'[r].key = call[p].key /\ \A d \in Cell \ {r} : rec'[d] = rec[d]
    BY <1>1, <1>5, <1>6 DEF TypeOK
  <2>2. Home(r)' = Chain(p)
    BY <1>1, <1>6, <2>1, HomeOfNew
  <2>3. \A d \in Cell \ {r} : Home(d)' = Home(d)
    BY <2>1 DEF Home
  <2> QED
    BY <1>1, <1>5, <1>6, <2>2, <2>3 DEF TypeOK
<1>10. \A d \in Settled : ptr[d] # r /\ d # r
  BY <1>5, <1>6, <1>8 DEF ListInv, OneListPerRecord
<1>11. ListsSeparate'
  BY <1>6, <1>7, <1>8, <1>9, <1>10 DEF ListInv, ListsSeparate
<1>12. OneListPerRecord'
  BY <1>6, <1>7, <1>8, <1>9, <1>10 DEF ListInv, OneListPerRecord
<1>13. Frame(p)
  <2>1. Mine(p, r)
    BY <1>0, <1>4 DEF Mine
  <2> QED
    BY <1>1, <1>2, <1>6, <1>7, <1>8, <1>9, <2>1 DEF Frame
<1>14. PtrBounded'
  BY <1>1, <1>2, <1>3, <1>5, <1>6, BoundedAfter DEF ListInv, PtrBounded
<1>15. HeldOwned'
  BY <1>0, <1>2, <1>3, <1>4, <1>7, OwnedAfter
<1>16. KnowDeleted(p)'
  BY <1>2 DEF KnowDeleted
<1>17. KnowLink(p)'
  BY <1>2, <1>3, <1>5, <1>6, <1>7, <1>9 DEF KnowLink
<1>18. KnowTaken(p)'
  <2>1. Home(h[p].idxoff)' = Chain(p)'
    BY <1>3, <1>7, <1>9 DEF Home
  <2> QED
    BY <1>2, <1>3, <1>9, <2>1 DEF KnowTaken
<1>19. KnowOp(p)' /\ KnowPlace(p)' /\ KnowFound(p)' /\ KnowFree(p)'
  BY <1>1, <1>2, <1>4 DEF ListInv, KnowOp, KnowPlace, KnowFound, KnowFree, Writing
<1>20. ListInv'
  BY <1>4, <1>11, <1>12, <1>13, <1>14, <1>15, <1>16, <1>17, <1>18, <1>19, WriteStep DEF Know
<1> QED
  BY <1>0, <1>5, <1>7, <1>9, <1>20

\* A record is appended: a new cell, in the hands of the process.
LEMMA ListAppendIdx ==
  ASSUME DbInv, NEW p \in Proc, p \notin dead, AppendIdx(p), ~ Die(p)
  PROVE  /\ ListInv'
         /\ Held' = Held \cup {eof + 1} /\ Unlinking' = Unlinking
         /\ Fields' = Fields \cup {eof + 1} /\ Allocated' = Allocated \cup {eof + 1}
         /\ eof + 1 \notin Fields /\ \A d \in Fields : Home(d)' = Home(d) /\ ptr'[d] = ptr[d]
<1> TypeOK /\ LockInv /\ ListInv
  BY DEF DbInv
<1>0. PICK r, k : r = eof + 1 /\ k = h[p].link
  OBVIOUS
<1>1. /\ pc[p] = "app_idx" /\ pc' = [pc EXCEPT ![p] = "app_idxunlock"]
      /\ eof < IdxMax /\ eof' = r /\ ptr' = [ptr EXCEPT ![r] = k]
      /\ rec' = [rec EXCEPT ![r] = [key |-> call[p].key, keylen |-> KeyLen[call[p].key],
                                    datoff |-> h[p].datoff, datlen |-> h[p].datlen]]
      /\ h' = [h EXCEPT ![p].idxoff = r, ![p].ptrval = k]
      /\ UNCHANGED <<dead, call>>
  BY <1>0 DEF AppendIdx, WriteIdx, Goto
<1>2. /\ pc'[p] = "app_idxunlock" /\ h[p] \in Handle
      /\ h'[p] = [h[p] EXCEPT !.idxoff = r, !.ptrval = k]
      /\ \A q \in Proc \ {p} : pc'[q] = pc[q] /\ h'[q] = h[q]
  BY <1>1 DEF TypeOK
<1>3. /\ h'[p].idxoff = r /\ h'[p].ptrval = k /\ h'[p].link = k
      /\ h'[p].offset = h[p].offset /\ h'[p].saveptr = h[p].saveptr
  BY <1>0, <1>2 DEF Handle
<1>4. pc[p] \in Writing /\ ~ Taken(p) /\ Taken(p)'
  BY <1>1, <1>2 DEF Writing, Appending, Taken
<1>5. k <= PtrMax /\ k = ptr[Chain(p)] /\ Chain(p) \in 1..NHash
  BY <1>0, <1>1, ChainType DEF ListInv, PtrBounded, Know, KnowLink, Appending
<1>6. /\ eof \in NHash..IdxMax /\ NHash \in Nat \ {0} /\ IdxMax \in Nat
      /\ r \in Cell /\ r \in Nat /\ r > NHash
  BY <1>0, <1>1, DbAssumption, SMTT(30) DEF TypeOK, Cell
<1>7. /\ Fields' = Fields \cup {r} /\ Allocated' = Allocated \cup {r} /\ r \notin Fields
  BY <1>0, <1>1, <1>6 DEF Fields, Allocated, FirstRec
<1>8. /\ Fields \subseteq Cell /\ Allocated \subseteq Fields /\ 0 \notin Allocated
      /\ Chain(p) \in Fields /\ Held \subseteq Fields
  BY <1>5, CellFacts, HeldFacts
<1>9. Held' = Held \cup {r} /\ Unlinking' = Unlinking /\ Chain(p)' = Chain(p)
  BY <1>1, <1>2, <1>3, <1>4, HeldAfter, UnlinkingAfter DEF Chain
<1>10. Settled' = Settled /\ Settled \subseteq Fields
  BY <1>7, <1>9 DEF Settled
<1>11. /\ Home(r)' = Chain(p) /\ \A d \in Fields : Home(d)' = Home(d)
       /\ ptr'[r] = k /\ \A d \in Fields : ptr'[d] = ptr[d]
  <2>1. rec'[r].key = call[p].key /\ \A d \in Fields : rec'[d] = rec[d]
    BY <1>1, <1>6, <1>7, <1>8 DEF TypeOK
  <2>2. Home(r)' = Chain(p)
    BY <1>1, <1>6, <2>1, HomeOfNew
  <2>3. \A d \in Fields : Home(d)' = Home(d)
    BY <2>1 DEF Home
  <2> QED
    BY <1>1, <1>6, <1>7, <1>8, <2>2, <2>3 DEF TypeOK
<1>12. ListsSeparate'
  BY <1>7, <1>8, <1>10, <1>11 DEF ListInv, ListsSeparate
<1>13. OneListPerRecord'
  <2>1. \A d \in Settled : ptr[d] # r
    BY <1>6, <1>7, <1>8 DEF ListInv, ListsSeparate
  <2> QED
    BY <1>9, <1>10, <1>11, <2>1 DEF ListInv, OneListPerRecord
<1>14. Frame(p)
  BY <1>1, <1>2, <1>7, <1>8, <1>9, <1>10, <1>11 DEF Frame
<1>15. PtrBounded'
  BY <1>1, <1>2, <1>3, <1>5, <1>6, BoundedAfter DEF ListInv, PtrBounded
<1>16. HeldOwned'
  BY <1>2, <1>3, <1>7, <1>8, OwnedAfter
<1>17. KnowDeleted(p)'
  BY <1>2 DEF KnowDeleted
<1>18. KnowLink(p)'
  BY <1>2, <1>3, <1>5, <1>8, <1>9, <1>11 DEF KnowLink
<1>19. KnowTaken(p)'
  <2>1. Home(h[p].idxoff)' = Chain(p)'
    BY <1>3, <1>9, <1>11 DEF Home
  <2> QED
    BY <1>2, <1>3, <1>11, <2>1 DEF KnowTaken
<1>20. KnowOp(p)' /\ KnowPlace(p)' /\ KnowFound(p)' /\ KnowFree(p)'
  BY <1>1, <1>2, <1>4 DEF ListInv, KnowOp, KnowPlace, KnowFound, KnowFree, Writing
<1>21. ListInv'
  BY <1>4, <1>12, <1>13, <1>14, <1>15, <1>16, <1>17, <1>18, <1>19, <1>20, WriteStep DEF Know
<1> QED
  BY <1>0, <1>7, <1>9, <1>11, <1>21

\* The record in hand becomes the first of the chain.
LEMMA ListPublish ==
  ASSUME DbInv, NEW p \in Proc, p \notin dead, Publish(p)
  PROVE  /\ ListInv'
         /\ Held' = Held \ {h[p].idxoff} /\ Unlinking' = Unlinking
         /\ Fields' = Fields /\ Allocated' = Allocated /\ (\A d : Home(d)' = Home(d))
         /\ h[p].idxoff \in Allocated /\ Home(h[p].idxoff) = Chain(p)
         /\ ptr[h[p].idxoff] = ptr[Chain(p)] /\ Chain(p) \in Settled
         /\ ptr'[Chain(p)] = h[p].idxoff /\ \A d \in Cell \ {Chain(p)} : ptr'[d] = ptr[d]
<1> TypeOK /\ LockInv /\ ListInv
  BY DEF DbInv
<1>0. PICK r, c : r = h[p].idxoff /\ c = Chain(p)
  OBVIOUS
<1>1. /\ pc[p] = "pub" /\ pc' = [pc EXCEPT ![p] = "unlock"]
      /\ ptr' = [ptr EXCEPT ![c] = r] /\ r <= PtrMax /\ h' = [h EXCEPT ![p].pos = 0]
      /\ UNCHANGED <<rec, eof, dead, call>>
  BY <1>0 DEF Publish, WritePtr, Goto, PtrFits, PtrArg
<1>2. /\ pc'[p] = "unlock" /\ h[p] \in Handle /\ h'[p] = [h[p] EXCEPT !.pos = 0]
      /\ \A q \in Proc \ {p} : pc'[q] = pc[q] /\ h'[q] = h[q]
  BY <1>1 DEF TypeOK
<1>3. /\ h'[p].offset = h[p].offset /\ h'[p].ptrval = h[p].ptrval
      /\ h'[p].link = h[p].link /\ h'[p].saveptr = h[p].saveptr
  BY <1>2 DEF Handle
<1>4. pc[p] \in Writing /\ InChain(p) /\ Taken(p) /\ ~ Taken(p)'
  BY <1>1, <1>2 DEF InChain, Writing, Taken
<1>5. /\ r \in Allocated /\ r \in Held /\ Home(r) = c /\ ptr[r] = ptr[c]
      /\ c \in 1..NHash /\ Home(c) = c
  BY <1>0, <1>1, <1>4, HeldFacts, ChainType
     DEF ListInv, HeldOwned, Know, KnowLink, KnowTaken
<1>6. /\ Fields \subseteq Cell /\ Allocated \subseteq Fields /\ 0 \notin Allocated
      /\ c \notin Allocated /\ c \in Settled
  BY <1>0, <1>1, <1>4, <1>5, CellFacts, HeadsSettled
<1>7. /\ Held' = Held \ {r} /\ Unlinking' = Unlinking
      /\ Fields' = Fields /\ Allocated' = Allocated /\ Chain(p)' = Chain(p)
  BY <1>0, <1>1, <1>2, <1>4, HeldAfter, UnlinkingAfter DEF Fields, Allocated, Chain
<1>8. Settled' = Settled \cup {r}
  <2>1. r \notin Unlinking
    BY <1>5 DEF Unlinking, ListInv, KnowDeleted
  <2> QED
    BY <1>5, <1>6, <1>7, <2>1 DEF Settled
<1>9. Settled \subseteq Fields /\ r \notin Settled
  BY <1>5 DEF Settled
<1>10. /\ \A d : Home(d)' = Home(d)
       /\ ptr'[c] = r /\ \A d \in Cell \ {c} : ptr'[d] = ptr[d]
  BY <1>1, <1>6, <1>9 DEF TypeOK, Home
<1>11. ListsSeparate'
  BY <1>5, <1>6, <1>7, <1>8, <1>9, <1>10 DEF ListInv, ListsSeparate
<1>12. OneListPerRecord'
  <2>1. \A d \in Settled : ptr[d] # r
    BY <1>5, <1>6 DEF ListInv, OneListPerRecord
  <2>2. \A d \in Settled : d # c /\ ptr[d] # 0 => ptr[d] # ptr[c]
    BY <1>6 DEF ListInv, OneListPerRecord
  <2>3. /\ ptr'[r] = ptr[c] /\ ptr'[c] = r
        /\ \A d \in Settled \ {c} : ptr'[d] = ptr[d]
    BY <1>5, <1>6, <1>9, <1>10
  <2>4. \A d, e \in Settled' : d # e /\ ptr'[d] # 0 => ptr'[d] # ptr'[e]
    BY <1>6, <1>8, <2>1, <2>2, <2>3 DEF ListInv, OneListPerRecord
  <2>5. \A d \in Settled' : ptr'[d] \notin Held' \ {0}
    BY <1>6, <1>7, <1>8, <2>3 DEF ListInv, OneListPerRecord
  <2> QED
    BY <2>4, <2>5 DEF OneListPerRecord
<1>13. Frame(p)
  <2>1. Mine(p, r) /\ Mine(p, c)
    BY <1>0, <1>4, <1>5, <1>6 DEF Mine, Settled
  <2> QED
    BY <1>0, <1>1, <1>2, <1>5, <1>6, <1>7, <1>8, <1>9, <1>10, <2>1 DEF Frame
<1>14. PtrBounded'
  BY <1>1, <1>2, <1>3, <1>6, <1>9, BoundedAfter DEF ListInv, PtrBounded
<1>15. HeldOwned'
  BY <1>2, <1>4, <1>7, OwnedAfter
<1>16. KnowDeleted(p)'
  BY <1>2 DEF KnowDeleted
<1>17. KnowOp(p)' /\ Know(p)'
  BY <1>2 DEF KnowOp, Know, KnowPlace, KnowFound, KnowLink, KnowFree,
     KnowTaken, Taken, Writing, Deleting, Finding, Appending
<1>18. ListInv'
  BY <1>4, <1>11, <1>12, <1>13, <1>14, <1>15, <1>16, <1>17, WriteStep
<1> QED
  BY <1>0, <1>5, <1>6, <1>7, <1>10, <1>18

-----------------------------------------------------------------------------
(* All steps.                                                              *)

\* Every step of a process keeps the lists.
LEMMA ListStep ==
  ASSUME DbInv, NotKilledUnlinking, NEW p \in Proc, Step(p)
  PROVE  ListInv'
<1>1. p \notin dead
  BY DEF Step
<1>2. CASE Enter(p)
  <2>1. CASE StoreBadLength(p)
    BY <1>1, <2>1, ListGiveUp DEF StoreBadLength
  <2> QED
    BY <1>1, <1>2, <2>1, ListEnter DEF Enter
<1>3. CASE Kill(p)
  BY <1>1, <1>3, ListGiveUp DEF Kill
<1>4. CASE LockDeadlock(p) \/ PtrTooBig(p) \/ NextBadRecord(p)
  <2>1. Die(p) /\ (pc[p] \in {"nx_read"} \cup LockPoints \/ ~ PtrFits(p))
    BY <1>4 DEF LockDeadlock, PtrTooBig, NextBadRecord
  <2> QED
    BY <1>1, <2>1, ListGiveUp
<1>5. CASE FetchDat(p) \/ NextDat(p) \/ AppendDat(p) \/ AppendIdx(p)
  <2>1. CASE Die(p)
    <3>1. pc[p] \in {"readdat", "nx_dat", "app_dat", "app_idx"}
      BY <1>5 DEF FetchDat, NextDat, AppendDat, AppendIdx
    <3> QED
      BY <1>1, <2>1, <3>1, ListGiveUp
  <2> QED
    BY <1>1, <1>5, <2>1, ListReadDat, ListAppendDat, ListAppendIdx
<1>6. CASE \/ LockGranted(p) \/ UnlockChain(p) \/ ReadHead(p) \/ WalkHit(p)
           \/ WalkNext(p) \/ WalkEnd(p) \/ NextIdx(p) \/ NextEof(p) \/ NextUnlock(p)
  BY <1>1, <1>6, ListLock, ListReturn, ListReadHead, ListWalkHit, ListWalkNext,
     ListWalkEnd, ListNextrec
<1>7. CASE \/ DelDat(p) \/ DelFree(p) \/ DelIdx(p) \/ DelPush(p) \/ DelLink(p)
           \/ DelUnlock(p) \/ UnlockDat(p) \/ UnlockTail(p) \/ Overwrite(p)
  BY <1>1, <1>7, ListData, ListDelFree, ListDelIdx, ListDelPush, ListDelLink
<1>8. CASE \/ ReadLink(p) \/ FfHead(p) \/ FfHit(p) \/ FfNext(p) \/ FfEnd(p)
           \/ FfTake(p) \/ FfUnlock(p) \/ ReuseDat(p) \/ ReuseIdx(p) \/ Publish(p)
  BY <1>1, <1>8, ListReadLink, ListFfHead, ListFfHit, ListFfNext, ListData, ListFfTake,
     ListReuseDat, ListReuseIdx, ListPublish
<1> QED
  BY <1>2, <1>3, <1>4, <1>5, <1>6, <1>7, <1>8 DEF Step, InCall

\* The lists stay lists for any number of processes, chains, keys, records and
\* calls, when no process is killed between the two writes that move a record
\* from its chain to the free list; it may be killed anywhere else.
THEOREM Lists == ASSUME NotKilledUnlinking PROVE Spec => []ListInv
<1>1. Init => ListInv
  <2> SUFFICES ASSUME Init PROVE ListInv
    OBVIOUS
  <2>1. /\ \A c \in Cell : ptr[c] = 0
        /\ \A p \in Proc : pc[p] = "idle" /\ h[p] = Rest(FirstRec)
    BY DEF Init
  <2>2. PtrBounded
    BY <2>1, DbAssumption DEF PtrBounded, Rest
  <2>3. \A p \in Proc : KnowOp(p) /\ KnowDeleted(p) /\ Know(p) /\ ~ Taken(p)
    BY <2>1 DEF KnowOp, KnowDeleted, Know, KnowPlace, KnowFound, KnowLink, KnowFree,
       KnowTaken, Taken, Writing, Deleting, Finding, Appending
  <2>4. HeldOwned
    BY <2>3 DEF HeldOwned
  <2>5. \A c \in Settled : ptr[c] = 0
    BY <2>1, DbAssumption DEF Init, Settled, Fields, Cell
  <2>6. ListsSeparate /\ OneListPerRecord
    BY <2>5 DEF ListsSeparate, OneListPerRecord
  <2> QED
    BY <2>2, <2>3, <2>4, <2>6 DEF ListInv
<1>2. TypeOK /\ LockInv /\ ListInv /\ [Next]_vars => ListInv'
  <2> SUFFICES ASSUME TypeOK, LockInv, ListInv, [Next]_vars PROVE ListInv'
    OBVIOUS
  <2>1. CASE UNCHANGED vars
    <3>1. /\ Held' = Held /\ Settled' = Settled /\ Fields' = Fields /\ Allocated' = Allocated
          /\ (\A c : Home(c)' = Home(c)) /\ (\A p \in Proc : Chain(p)' = Chain(p))
      BY <2>1 DEF vars, Held, Settled, Unlinking, Taken, Fields, Allocated, Home, Chain
    <3>2. PtrBounded' /\ ListsSeparate' /\ OneListPerRecord' /\ HeldOwned'
      BY <2>1, <3>1 DEF vars, ListInv, PtrBounded, ListsSeparate, OneListPerRecord,
         HeldOwned, Taken
    <3>3. \A p \in Proc : KnowOp(p)' /\ KnowDeleted(p)'
      BY <2>1, <3>1 DEF vars, ListInv, KnowOp, KnowDeleted
    <3>4. \A p \in Proc \ dead' : Know(p)'
      BY <2>1, <3>1 DEF vars, ListInv, Know, KnowPlace, KnowFound, KnowLink, KnowFree,
         KnowTaken, Taken
    <3> QED
      BY <3>2, <3>3, <3>4 DEF ListInv
  <2>2. ASSUME NEW p \in Proc, Step(p) PROVE ListInv'
    BY <2>2, ListStep DEF DbInv
  <2> QED
    BY <2>1, <2>2 DEF Next, Done
<1> QED
  BY <1>1, <1>2, Typing, Locking, PTL DEF Spec

\* No chain runs into the free list or into another chain.
THEOREM SeparateLists == ASSUME NotKilledUnlinking PROVE Spec => []ListsSeparate
<1>1. ListInv => ListsSeparate
  BY DEF ListInv
<1> QED
  BY <1>1, Lists, PTL

\* No record is in two lists at once.
THEOREM UniqueList == ASSUME NotKilledUnlinking PROVE Spec => []OneListPerRecord
<1>1. ListInv => OneListPerRecord
  BY DEF ListInv
<1> QED
  BY <1>1, Lists, PTL

-----------------------------------------------------------------------------
\* The cells of the list with head c, and where a cell leads: a field that is
\* being unlinked leads to the rest of the chain the process has in saveptr.
In(c) == {x \in Fields \ Held : Home(x) = c}
Cutting(x) == {p \in Proc : pc[p] \in {"del_push", "del_link"} /\ h[p].ptroff = x}
Nexts == [x \in Cell |-> IF Cutting(x) = {} THEN {ptr[x]}
                        ELSE {h[p].saveptr : p \in Cutting(x)}]

\* x is behind a, or is a: every set that holds a and is closed holds x.
Closed(n, C, S) == \A y \in S \cap C : n[y] \subseteq S
Leads(n, C, a, x) == \A S \in SUBSET Cell : {a, 0} \subseteq S /\ Closed(n, C, S) => x \in S

\* Every cell of a list is behind its head.
Whole(c) == \A x \in In(c) : Leads(Nexts, In(c), c, x)
GraphInv == \A c \in 0..NHash : Whole(c)

-----------------------------------------------------------------------------
(* Following the cells of a list.                                          *)

\* Only the cells of the list matter.
LEMMA LeadsSame ==
  ASSUME NEW n, NEW m, NEW C, NEW a, NEW x, \A y \in C : m[y] = n[y], Leads(n, C, a, x)
  PROVE  Leads(m, C, a, x)
BY DEF Leads, Closed

\* What is behind a is behind the cell that leads to a.
LEMMA LeadsBehind ==
  ASSUME NEW n, NEW C, NEW a \in C, NEW b, NEW x, n[a] = {b}, x # a, b \in Cell, a \in Cell,
         Leads(n, C, a, x)
  PROVE  Leads(n, C, b, x)
<1> SUFFICES ASSUME NEW S \in SUBSET Cell, {b, 0} \subseteq S, Closed(n, C, S)
             PROVE  x \in S
  BY DEF Leads
<1>1. S \cup {a} \in SUBSET Cell /\ {a, 0} \subseteq S \cup {a} /\ Closed(n, C, S \cup {a})
  BY DEF Closed
<1>2. x \in S \cup {a}
  BY <1>1 DEF Leads
<1> QED
  BY <1>2

\* A new cell becomes the first one.
LEMMA LeadsInsert ==
  ASSUME NEW n, NEW m, NEW C, NEW c \in C, NEW r \in Cell, r \notin C,
         m[c] = {r}, m[r] = n[c], \A y \in C \ {c} : m[y] = n[y],
         \A x \in C : Leads(n, C, c, x)
  PROVE  \A x \in C \cup {r} : Leads(m, C \cup {r}, c, x)
<1> SUFFICES ASSUME NEW S \in SUBSET Cell, {c, 0} \subseteq S, Closed(m, C \cup {r}, S)
             PROVE  C \cup {r} \subseteq S
  BY DEF Leads
<1>1. r \in S /\ n[c] \subseteq S
  <2>1. r \in S
    BY DEF Closed
  <2> QED
    BY <2>1 DEF Closed
<1>2. Closed(n, C, S)
  BY <1>1 DEF Closed
<1> QED
  BY <1>1, <1>2 DEF Leads

\* A cell is left out by the one before it.
LEMMA LeadsRemove ==
  ASSUME NEW n, NEW m, NEW C, NEW c \in C, NEW b \in C, NEW r \in C, r \in Cell,
         r # b, r # c, r # 0,
         \A y \in C : r \in n[y] => y = b,
         m[b] = n[r], \A y \in C \ {r, b} : m[y] = n[y],
         n[b] = {r}, \A x \in C : Leads(n, C, c, x)
  PROVE  \A x \in C \ {r} : Leads(m, C \ {r}, c, x)
<1> SUFFICES ASSUME NEW S \in SUBSET Cell, {c, 0} \subseteq S, Closed(m, C \ {r}, S)
             PROVE  C \ {r} \subseteq S
  BY DEF Leads
<1>1. CASE b \in S
  <2>1. S \cup {r} \in SUBSET Cell /\ {c, 0} \subseteq S \cup {r}
    OBVIOUS
  <2>2. n[r] \subseteq S
    BY <1>1 DEF Closed
  <2>3. Closed(n, C, S \cup {r})
    BY <2>2 DEF Closed
  <2> QED
    BY <2>1, <2>3 DEF Leads
<1>2. CASE b \notin S
  <2>1. S \ {r} \in SUBSET Cell /\ {c, 0} \subseteq S \ {r}
    OBVIOUS
  <2>2. Closed(n, C, S \ {r})
    BY <1>2 DEF Closed
  <2> QED
    BY <2>1, <2>2 DEF Leads
<1> QED
  BY <1>1, <1>2

-----------------------------------------------------------------------------
(* Where the cells of the file lead.                                       *)

\* A field leads where it points, unless somebody is unlinking behind it.
LEMMA NextsOf ==
  ASSUME NEW x \in Cell
  PROVE  /\ x \notin Unlinking => Cutting(x) = {} /\ Nexts[x] = {ptr[x]}
         /\ x \in Unlinking => Cutting(x) # {} /\ Nexts[x] = {h[p].saveptr : p \in Cutting(x)}
BY DEF Nexts, Cutting, Unlinking

\* A field that is being unlinked is so by one process.
LEMMA OneCuts ==
  ASSUME DbInv, NEW p \in Proc, NEW q \in Proc, NEW x,
         p \in Cutting(x), q \in Cutting(x)
  PROVE  p = q
<1> TypeOK /\ LockInv /\ ListInv
  BY DEF DbInv
<1>1. /\ p \notin dead /\ Home(x) = Chain(p) /\ pc[p] \in {"del_push", "del_link"}
      /\ q \notin dead /\ Home(x) = Chain(q) /\ pc[q] \in {"del_push", "del_link"}
  BY DEF Cutting, ListInv, KnowDeleted
<1>2. pc[p] \in Writing /\ InChain(q)
  BY <1>1 DEF InChain, Writing, Deleting
<1> QED
  BY <1>1, <1>2, AloneInChain

\* A step leaves the cells it does not write as they are.
LEMMA NextsStay ==
  ASSUME NEW p \in Proc, \A q \in Proc \ {p} : pc'[q] = pc[q] /\ h'[q] = h[q],
         NEW x \in Cell,
         p \in Cutting(x)' <=> p \in Cutting(x),
         p \in Cutting(x) => h'[p].saveptr = h[p].saveptr,
         ptr'[x] = ptr[x]
  PROVE  Nexts'[x] = Nexts[x]
<1>1. Cutting(x)' = Cutting(x)
  BY DEF Cutting
<1>2. \A q \in Cutting(x) : h'[q].saveptr = h[q].saveptr
  BY DEF Cutting
<1> QED
  BY <1>1, <1>2, ZenonT(60) DEF Nexts

\* A list none of whose cells change.
SameList(c) == In(c)' = In(c) /\ \A x \in In(c) : Nexts'[x] = Nexts[x]

\* A list stays whole if its cells and what they lead to stay.
LEMMA WholeStays ==
  ASSUME NEW c, Whole(c), SameList(c)
  PROVE  Whole(c)'
<1> SUFFICES ASSUME NEW x \in In(c)' PROVE Leads(Nexts', In(c)', c, x)
  BY DEF Whole
<1>1. Leads(Nexts, In(c), c, x)
  BY DEF Whole, SameList
<1>2. Leads(Nexts', In(c), c, x)
  BY <1>1, LeadsSame DEF SameList
<1> QED
  BY <1>2 DEF SameList

\* The head of a list is in it.
LEMMA HeadsIn ==
  ASSUME DbInv, NEW c \in 0..NHash
  PROVE  c \in In(c) /\ c \in Cell /\ c \notin Allocated
<1> TypeOK /\ ListInv
  BY DEF DbInv
<1>1. c \in Fields \ Held /\ c \notin Allocated /\ Home(c) = c
  <2>1. c = FREE \/ c \in 1..NHash
    BY DbAssumption DEF FREE
  <2> QED
    BY <2>1, CellFacts, HeldFacts
<1> QED
  BY <1>1, CellFacts DEF In

\* What leads to what in a list nobody is unlinking from.
LEMMA SettledNexts ==
  ASSUME DbInv, NEW c \in 0..NHash,
         \/ c = FREE
         \/ \E p \in Proc : InChain(p) /\ Chain(p) = c /\ pc[p] \notin {"del_push", "del_link"}
  PROVE  In(c) \subseteq Settled /\ In(c) \subseteq Cell /\ \A x \in In(c) : Nexts[x] = {ptr[x]}
<1> TypeOK /\ LockInv /\ ListInv
  BY DEF DbInv
<1>1. In(c) \subseteq Settled /\ In(c) \subseteq Cell
  BY FreeSettled, ChainSettled, CellFacts DEF In
<1> QED
  BY <1>1, NextsOf DEF Settled

\* The lists after a step of p: they are lists, and outside of the chain p has
\* locked for writing none of them changed.
GraphStep(p) ==
  /\ GraphInv'
  /\ \A d \in 1..NHash : SameList(d) \/ (d = Chain(p) /\ pc[p] \in Writing)

\* A record and the field in front of it leave the chain, which goes on behind.
LEMMA GraphDelIdx ==
  ASSUME DbInv, GraphInv, NEW p \in Proc, p \notin dead, DelIdx(p)
  PROVE  GraphStep(p)
<1> TypeOK /\ LockInv /\ ListInv
  BY DEF DbInv
<1>0. PICK r, c, k : r = h[p].idxoff /\ c = h[p].ptroff /\ k = Chain(p)
  OBVIOUS
<1>1. /\ pc[p] = "del_idx" /\ pc'[p] = "del_push" /\ h[p] \in Handle
      /\ \A q \in Proc \ {p} : pc'[q] = pc[q] /\ h'[q] = h[q]
      /\ h'[p] = [h[p] EXCEPT !.ptrval = h[p].freeptr]
  BY DEF DelIdx, Goto, TypeOK
<1>2. h'[p].ptroff = c /\ h'[p].saveptr = h[p].saveptr
  BY <1>0, <1>1 DEF Handle
<1>3. /\ InChain(p) /\ k \in 1..NHash
      /\ c \in Settled /\ Home(c) = k /\ ptr[c] = r /\ r # c
      /\ r \in Allocated \ Held /\ r \in Settled /\ Home(r) = k
      /\ \A d \in Settled : ptr[d] = r => d = c
      /\ h[p].saveptr = ptr[r]
  BY <1>0, <1>1, DelFacts
<1>4. /\ Held' = Held \cup {r} /\ Fields' = Fields
      /\ \A d \in Cell \ {r} : Home(d)' = Home(d) /\ ptr'[d] = ptr[d]
  BY <1>0, ListDelIdx
<1>5. /\ Fields \subseteq Cell /\ Allocated \subseteq Fields /\ r \in Cell /\ c \in Cell
      /\ 0 \notin Allocated /\ k \in 0..NHash
  BY <1>3, CellFacts DEF Settled
<1>6. \A d : In(d)' = In(d) \ {r}
  BY <1>4, <1>5 DEF In
<1>7. r \in In(k) /\ c \in In(k) /\ \A d : d # k => r \notin In(d) /\ c \notin In(d)
  BY <1>3, <1>5 DEF In, Settled
<1>8. ASSUME NEW x \in Cell \ {r, c} PROVE Nexts'[x] = Nexts[x]
  <2>1. p \notin Cutting(x) /\ p \notin Cutting(x)'
    BY <1>1, <1>2, <1>8 DEF Cutting
  <2> QED
    BY <1>1, <1>4, <1>8, <2>1, NextsStay
<1>9. Nexts'[c] = {ptr[r]}
  <2>1. Cutting(c) = {}
    BY <1>3, <1>5, NextsOf DEF Settled
  <2>2. Cutting(c)' = {p}
    <3>1. \A q \in Proc \ {p} : ~ (pc[q] \in {"del_push", "del_link"} /\ h[q].ptroff = c)
      BY <2>1 DEF Cutting
    <3>2. \A q \in Proc : q \in Cutting(c)' <=> q = p
      BY <1>1, <1>2, <3>1, ZenonT(60) DEF Cutting
    <3> QED
      BY <3>2 DEF Cutting
  <2> QED
    BY <1>2, <1>3, <1>5, <2>2 DEF Nexts
<1>10. In(k) \subseteq Cell /\ In(k) \subseteq Settled /\ \A x \in In(k) : Nexts[x] = {ptr[x]}
  BY <1>0, <1>1, <1>3, <1>5, SettledNexts
<1>11. ASSUME NEW d \in 0..NHash, d # k PROVE SameList(d)
  <2>1. In(d) \subseteq Cell \ {r, c}
    BY <1>7, <1>5, <1>11 DEF In
  <2> QED
    BY <1>6, <1>8, <2>1 DEF SameList
<1>12. Whole(k)'
  <2>1. /\ Nexts[c] = {r} /\ Nexts'[c] = Nexts[r] /\ r # k /\ r # 0 /\ k \in In(k)
        /\ \A y \in In(k) : r \in Nexts[y] => y = c
        /\ \A y \in In(k) \ {r, c} : Nexts'[y] = Nexts[y]
    BY <1>3, <1>5, <1>7, <1>8, <1>9, <1>10, HeadsIn
  <2>2. \A x \in In(k) : Leads(Nexts, In(k), k, x)
    BY <1>5 DEF GraphInv, Whole
  <2>3. \A x \in In(k) \ {r} : Leads(Nexts', In(k) \ {r}, k, x)
    BY <1>3, <1>5, <1>7, <2>1, <2>2, LeadsRemove
  <2> QED
    BY <1>6, <2>3 DEF Whole
<1>13. \A d \in 0..NHash : Whole(d)'
  BY <1>11, <1>12, WholeStays DEF GraphInv
<1>14. pc[p] \in Writing /\ \A d \in 1..NHash : d \in 0..NHash
  BY <1>1, DbAssumption DEF Writing, Deleting
<1> QED
  BY <1>0, <1>11, <1>13, <1>14 DEF GraphStep, GraphInv

\* A step that leaves every list but those of p as it is.
LEMMA GraphStays ==
  ASSUME GraphInv, NEW p \in Proc, \A d \in 0..NHash : SameList(d)
  PROVE  GraphStep(p)
<1>1. \A d \in 0..NHash : Whole(d)'
  BY WholeStays DEF GraphInv
<1>2. \A d \in 1..NHash : d \in 0..NHash
  BY DbAssumption
<1> QED
  BY <1>1, <1>2 DEF GraphStep, GraphInv

\* A step that writes neither pointers nor records.
LEMMA GraphQuiet ==
  ASSUME DbInv, GraphInv, NEW p \in Proc, Quiet(p)
  PROVE  GraphStep(p)
<1>1. Fields \subseteq Cell
  BY CellFacts DEF DbInv
<1>2. \A d : In(d)' = In(d)
  BY QuietLists DEF In
<1>3. ASSUME NEW x \in Cell PROVE Nexts'[x] = Nexts[x]
  <2>1. p \notin Cutting(x) /\ p \notin Cutting(x)' /\ ptr'[x] = ptr[x]
        /\ \A q \in Proc \ {p} : pc'[q] = pc[q] /\ h'[q] = h[q]
    BY DEF Quiet, Cutting
  <2> QED
    BY <2>1, NextsStay
<1> QED
  BY <1>1, <1>2, <1>3, GraphStays DEF SameList, In

\* A free record becomes the first one of the free list.
LEMMA GraphDelPush ==
  ASSUME DbInv, GraphInv, NEW p \in Proc, p \notin dead, DelPush(p)
  PROVE  GraphStep(p)
<1> TypeOK /\ LockInv /\ ListInv
  BY DEF DbInv
<1>0. PICK r : r = h[p].idxoff
  OBVIOUS
<1>1. /\ pc[p] = "del_push" /\ pc'[p] = "del_link" /\ UNCHANGED h
      /\ \A q \in Proc \ {p} : pc'[q] = pc[q]
  BY DEF DelPush, WritePtr, Goto, TypeOK
<1>2. /\ Held' = Held \ {r} /\ Fields' = Fields /\ (\A d : Home(d)' = Home(d))
      /\ r \in Allocated /\ Home(r) = FREE /\ ptr[r] = ptr[FREE]
      /\ ptr'[FREE] = r /\ \A d \in Cell \ {FREE} : ptr'[d] = ptr[d]
  BY <1>0, ListDelPush
<1>3. r \in Held
  BY <1>0, <1>1, HeldFacts DEF Taken
<1>4. /\ Fields \subseteq Cell /\ Allocated \subseteq Fields /\ FREE \in Cell /\ r # FREE
      /\ FREE \in 0..NHash /\ FREE \in Settled
  BY <1>2, CellFacts, HeadsSettled, DbAssumption DEF FREE
<1>5. In(FREE)' = In(FREE) \cup {r} /\ \A d : d # FREE => In(d)' = In(d)
  BY <1>2, <1>4 DEF In
<1>6. \A x : Cutting(x)' = Cutting(x)
  BY <1>1 DEF Cutting
<1>7. \A x \in Cell \ {FREE} : Nexts'[x] = Nexts[x]
  <2> SUFFICES ASSUME NEW x \in Cell \ {FREE} PROVE Nexts'[x] = Nexts[x]
    OBVIOUS
  <2>1. p \in Cutting(x)' <=> p \in Cutting(x)
    BY <1>6
  <2> QED
    BY <1>1, <1>2, <2>1, NextsStay
<1>8. Nexts'[FREE] = {r}
  <2>1. Cutting(FREE)' = {}
    BY <1>4, <1>6, NextsOf DEF Settled
  <2> QED
    BY <1>2, <1>4, <2>1 DEF Nexts
<1>9. r \notin Unlinking /\ r \in Cell
  BY <1>3, <1>2, <1>4 DEF Unlinking, ListInv, KnowDeleted
<1>10. Nexts'[r] = Nexts[FREE]
  BY <1>2, <1>4, <1>7, <1>9, NextsOf DEF Settled
<1>11. Whole(FREE)'
  <2>1. FREE \in In(FREE) /\ r \notin In(FREE) /\ In(FREE) \subseteq Cell
    BY <1>3, <1>4, HeadsIn DEF In
  <2>2. \A x \in In(FREE) : Leads(Nexts, In(FREE), FREE, x)
    BY <1>4 DEF GraphInv, Whole
  <2>3. \A x \in In(FREE) \cup {r} : Leads(Nexts', In(FREE) \cup {r}, FREE, x)
    BY <1>7, <1>8, <1>9, <1>10, <2>1, <2>2, LeadsInsert
  <2> QED
    BY <1>5, <2>3 DEF Whole
<1>12. ASSUME NEW d \in 0..NHash, d # FREE PROVE SameList(d)
  <2>1. In(d) \subseteq Cell \ {FREE}
    BY <1>4, <1>12, CellFacts DEF In
  <2> QED
    BY <1>5, <1>7, <1>12, <2>1 DEF SameList
<1>13. \A d \in 0..NHash : Whole(d)'
  BY <1>11, <1>12, WholeStays DEF GraphInv
<1>14. \A d \in 1..NHash : d \in 0..NHash /\ d # FREE
  BY DbAssumption DEF FREE
<1> QED
  BY <1>12, <1>13, <1>14 DEF GraphStep, GraphInv

\* The chain is closed around the record: it already led there.
LEMMA GraphDelLink ==
  ASSUME DbInv, GraphInv, NEW p \in Proc, p \notin dead, DelLink(p)
  PROVE  GraphStep(p)
<1> TypeOK /\ LockInv /\ ListInv
  BY DEF DbInv
<1>0. PICK c, s : c = h[p].ptroff /\ s = h[p].saveptr
  OBVIOUS
<1>1. /\ pc[p] = "del_link" /\ pc'[p] = "del_unlock"
      /\ \A q \in Proc \ {p} : pc'[q] = pc[q] /\ h'[q] = h[q]
  BY DEF DelLink, WritePtr, Goto, TypeOK
<1>2. /\ Held' = Held /\ Unlinking' = Unlinking \ {c}
      /\ Fields' = Fields /\ (\A d : Home(d)' = Home(d))
      /\ ptr'[c] = s /\ \A d \in Cell \ {c} : ptr'[d] = ptr[d]
  BY <1>0, ListDelLink
<1>3. Fields \subseteq Cell /\ \A d : In(d)' = In(d)
  BY <1>2, CellFacts DEF In
<1>4. ASSUME NEW x \in Cell \ {c} PROVE Nexts'[x] = Nexts[x]
  <2>1. p \notin Cutting(x) /\ p \notin Cutting(x)'
    BY <1>0, <1>1, <1>4 DEF Cutting
  <2> QED
    BY <1>1, <1>2, <1>4, <2>1, NextsStay
<1>5. ASSUME c \in Cell PROVE Nexts'[c] = Nexts[c]
  <2>1. p \in Cutting(c)
    BY <1>0, <1>1 DEF Cutting
  <2>2. Cutting(c) = {p}
    BY <2>1, OneCuts DEF Cutting
  <2>3. Cutting(c)' = {}
    <3>1. ASSUME NEW q \in Proc \ {p} PROVE ~ (pc[q] \in {"del_push", "del_link"} /\ h[q].ptroff = c)
      BY <2>2 DEF Cutting
    <3> QED
      BY <1>1, <3>1 DEF Cutting
  <2>4. Nexts[c] = {h[q].saveptr : q \in {p}}
    BY <1>5, <2>2 DEF Nexts
  <2>5. Nexts'[c] = {s}
    BY <1>2, <1>5, <2>3 DEF Nexts
  <2> QED
    BY <1>0, <2>4, <2>5
<1> QED
  BY <1>3, <1>4, <1>5, GraphStays DEF SameList, In

\* A write to a record in hand, and one behind the end of the file.
LEMMA GraphIdx ==
  ASSUME DbInv, GraphInv, NEW p \in Proc, p \notin dead, ReuseIdx(p) \/ (AppendIdx(p) /\ ~ Die(p))
  PROVE  GraphStep(p)
<1> TypeOK /\ LockInv /\ ListInv
  BY DEF DbInv
<1>1. /\ pc[p] \in {"re_idx", "app_idx"} /\ pc'[p] \in {"pub", "app_idxunlock"}
      /\ \A q \in Proc \ {p} : pc'[q] = pc[q] /\ h'[q] = h[q]
  <2>1. CASE ReuseIdx(p)
    BY <2>1 DEF ReuseIdx, Goto, TypeOK
  <2>2. CASE AppendIdx(p) /\ ~ Die(p)
    BY <2>2 DEF AppendIdx, Goto, TypeOK
  <2> QED
    BY <2>1, <2>2
<1>2. /\ \A d \in Fields \ Held : Home(d)' = Home(d) /\ ptr'[d] = ptr[d]
      /\ Fields' \ Held' = Fields \ Held
  BY ListReuseIdx, ListAppendIdx, CellFacts
<1>3. Fields \subseteq Cell /\ \A d : In(d)' = In(d)
  BY <1>2, CellFacts DEF In
<1>4. ASSUME NEW x \in Fields \ Held PROVE Nexts'[x] = Nexts[x]
  <2>1. p \notin Cutting(x) /\ p \notin Cutting(x)'
    BY <1>1 DEF Cutting
  <2> QED
    BY <1>1, <1>2, <1>3, <1>4, <2>1, NextsStay
<1> QED
  BY <1>3, <1>4, GraphStays DEF SameList, In

\* A record leaves the free list.
LEMMA GraphFfTake ==
  ASSUME DbInv, GraphInv, NEW p \in Proc, p \notin dead, FfTake(p)
  PROVE  GraphStep(p)
<1> TypeOK /\ LockInv /\ ListInv
  BY DEF DbInv
<1>0. PICK r, c : r = h[p].idxoff /\ c = h[p].saveoffset
  OBVIOUS
<1>1. /\ pc[p] = "ff_take" /\ pc'[p] = "ff_unlock" /\ UNCHANGED h
      /\ \A q \in Proc \ {p} : pc'[q] = pc[q]
  BY DEF FfTake, WritePtr, Goto, TypeOK
<1>2. /\ Held' = Held \cup {r} /\ Unlinking' = Unlinking
      /\ Fields' = Fields /\ (\A d : Home(d)' = Home(d))
      /\ c \in Settled /\ Home(c) = FREE /\ ptr[c] = r /\ r # c
      /\ r \in Allocated /\ r \in Settled /\ Home(r) = FREE
      /\ ptr'[c] = ptr[r] /\ \A d \in Cell \ {c} : ptr'[d] = ptr[d]
  BY <1>0, ListFfTake
<1>3. /\ Fields \subseteq Cell /\ r \in Cell /\ c \in Cell /\ r \notin 0..NHash
      /\ FREE \in 0..NHash /\ FREE = 0
  BY <1>2, CellFacts, DbAssumption DEF Settled, FREE
<1>4. \A d : In(d)' = In(d) \ {r}
  BY <1>2 DEF In
<1>5. \A x : Cutting(x)' = Cutting(x)
  BY <1>1 DEF Cutting
<1>6. \A x \in Cell \ {c} : Nexts'[x] = Nexts[x]
  <2> SUFFICES ASSUME NEW x \in Cell \ {c} PROVE Nexts'[x] = Nexts[x]
    OBVIOUS
  <2>1. p \in Cutting(x)' <=> p \in Cutting(x)
    BY <1>5
  <2> QED
    BY <1>1, <1>2, <2>1, NextsStay
<1>7. Nexts'[c] = {ptr[r]}
  <2>1. Cutting(c)' = {}
    BY <1>2, <1>3, <1>5, NextsOf DEF Settled
  <2> QED
    BY <1>2, <1>3, <2>1 DEF Nexts
<1>8. /\ In(FREE) \subseteq Cell /\ In(FREE) \subseteq Settled
      /\ \A x \in In(FREE) : Nexts[x] = {ptr[x]}
  BY <1>3, SettledNexts
<1>9. r \in In(FREE) /\ c \in In(FREE) /\ \A d : d # FREE => r \notin In(d) /\ c \notin In(d)
  BY <1>2, CellFacts DEF In, Settled
<1>10. Whole(FREE)'
  <2>1. \A y \in In(FREE) : r \in Nexts[y] => y = c
    BY <1>2, <1>3, <1>8 DEF ListInv, OneListPerRecord
  <2>2. /\ Nexts[c] = {r} /\ Nexts'[c] = Nexts[r] /\ FREE \in In(FREE)
        /\ \A y \in In(FREE) \ {r, c} : Nexts'[y] = Nexts[y]
    BY <1>2, <1>3, <1>6, <1>7, <1>8, <1>9, HeadsIn
  <2>3. \A x \in In(FREE) : Leads(Nexts, In(FREE), FREE, x)
    BY <1>3 DEF GraphInv, Whole
  <2>4. \A x \in In(FREE) \ {r} : Leads(Nexts', In(FREE) \ {r}, FREE, x)
    BY <1>2, <1>3, <1>9, <2>1, <2>2, <2>3, LeadsRemove, SMTT(30)
  <2> QED
    BY <1>4, <2>4 DEF Whole
<1>11. ASSUME NEW d \in 0..NHash, d # FREE PROVE SameList(d)
  <2>1. In(d) \subseteq Cell \ {c, r}
    BY <1>3, <1>9, <1>11 DEF In
  <2> QED
    BY <1>4, <1>6, <2>1 DEF SameList
<1>12. \A d \in 0..NHash : Whole(d)'
  BY <1>10, <1>11, WholeStays DEF GraphInv
<1>13. \A d \in 1..NHash : d \in 0..NHash /\ d # FREE
  BY DbAssumption DEF FREE
<1> QED
  BY <1>11, <1>12, <1>13 DEF GraphStep, GraphInv

\* A stored record becomes the first one of its chain.
LEMMA GraphPublish ==
  ASSUME DbInv, GraphInv, NEW p \in Proc, p \notin dead, Publish(p)
  PROVE  GraphStep(p)
<1> TypeOK /\ LockInv /\ ListInv
  BY DEF DbInv
<1>0. PICK r, c : r = h[p].idxoff /\ c = Chain(p)
  OBVIOUS
<1>1. /\ pc[p] = "pub" /\ pc'[p] = "unlock"
      /\ \A q \in Proc \ {p} : pc'[q] = pc[q] /\ h'[q] = h[q]
  BY DEF Publish, WritePtr, Goto, TypeOK
<1>2. /\ Held' = Held \ {r} /\ Unlinking' = Unlinking
      /\ Fields' = Fields /\ (\A d : Home(d)' = Home(d))
      /\ r \in Allocated /\ Home(r) = c /\ ptr[r] = ptr[c] /\ c \in Settled
      /\ ptr'[c] = r /\ \A d \in Cell \ {c} : ptr'[d] = ptr[d]
  BY <1>0, ListPublish
<1>3. r \in Held /\ c \in 1..NHash /\ pc[p] \in Writing
  BY <1>0, <1>1, HeldFacts, ChainType DEF Taken, Writing
<1>4. Fields \subseteq Cell /\ Allocated \subseteq Fields /\ c \in Cell /\ r # c /\ c \in 0..NHash
  BY <1>2, <1>3, CellFacts
<1>5. In(c)' = In(c) \cup {r} /\ \A d : d # c => In(d)' = In(d)
  BY <1>2, <1>4 DEF In
<1>6. \A x : Cutting(x)' = Cutting(x)
  BY <1>1 DEF Cutting
<1>7. \A x \in Cell \ {c} : Nexts'[x] = Nexts[x]
  <2> SUFFICES ASSUME NEW x \in Cell \ {c} PROVE Nexts'[x] = Nexts[x]
    OBVIOUS
  <2>1. p \notin Cutting(x)' /\ p \notin Cutting(x)
    BY <1>1 DEF Cutting
  <2> QED
    BY <1>1, <1>2, <2>1, NextsStay
<1>8. Nexts'[c] = {r}
  <2>1. Cutting(c)' = {}
    BY <1>2, <1>4, <1>6, NextsOf DEF Settled
  <2> QED
    BY <1>2, <1>4, <2>1 DEF Nexts
<1>9. r \notin Unlinking /\ r \in Cell
  BY <1>3, <1>2, <1>4 DEF Unlinking, ListInv, KnowDeleted
<1>10. Nexts'[r] = Nexts[c]
  BY <1>2, <1>4, <1>7, <1>9, NextsOf DEF Settled
<1>11. Whole(c)'
  <2>1. c \in In(c) /\ r \notin In(c) /\ In(c) \subseteq Cell
    BY <1>3, <1>4, HeadsIn DEF In
  <2>2. \A x \in In(c) : Leads(Nexts, In(c), c, x)
    BY <1>4 DEF GraphInv, Whole
  <2>3. \A x \in In(c) \cup {r} : Leads(Nexts', In(c) \cup {r}, c, x)
    BY <1>7, <1>8, <1>9, <1>10, <2>1, <2>2, LeadsInsert
  <2> QED
    BY <1>5, <2>3 DEF Whole
<1>12. ASSUME NEW d \in 0..NHash, d # c PROVE SameList(d)
  <2>1. In(d) \subseteq Cell \ {c}
    BY <1>3, <1>4, <1>12, CellFacts DEF In
  <2> QED
    BY <1>5, <1>7, <1>12, <2>1 DEF SameList
<1>13. \A d \in 0..NHash : Whole(d)'
  BY <1>11, <1>12, WholeStays DEF GraphInv
<1>14. \A d \in 1..NHash : d \in 0..NHash
  BY DbAssumption
<1> QED
  BY <1>0, <1>3, <1>12, <1>13, <1>14 DEF GraphStep, GraphInv


\* A step of p is p's alone.
Others(p) ==
  \A q \in Proc \ {p} :
    pc'[q] = pc[q] /\ call'[q] = call[q] /\ h'[q] = h[q] /\ ret'[q] = ret[q]

\* A process that dies leaves the others where they are.
LEMMA DieOthers ==
  ASSUME NEW p \in Proc, Die(p)
  PROVE  Others(p)
BY DEF Die, Others

\* So does every step.
LEMMA StepOthers ==
  ASSUME TypeOK, NEW p \in Proc, Step(p)
  PROVE  Others(p) /\ (dead' = dead \/ Die(p))
<1>0. CASE Die(p)
  BY <1>0, DieOthers
<1>a. CASE ~ Die(p)
  <2>1. CASE Begin(p) \/ StoreBadFlag(p) \/ Rewind(p) \/ BeginNextrec(p)
    BY <2>1 DEF Begin, StoreBadFlag, Rewind, BeginNextrec, Goto, TypeOK, Others
  <2>2. CASE Close(p) \/ UnlockChain(p) \/ NextUnlock(p)
    BY <2>2 DEF Close, UnlockChain, NextUnlock, Return, Goto, TypeOK, Others
  <2>3. CASE LockGranted(p) \/ DelUnlock(p) \/ FfUnlock(p) \/ UnlockDat(p) \/ UnlockTail(p)
    BY <2>3 DEF LockGranted, DelUnlock, FfUnlock, UnlockDat, UnlockTail, Goto, TypeOK, Others
  <2>4. CASE ReadHead(p) \/ WalkHit(p) \/ WalkNext(p) \/ WalkEnd(p)
    BY <2>4 DEF ReadHead, WalkHit, WalkNext, WalkEnd, Local, Goto, TypeOK, Others
  <2>5. CASE FetchDat(p) \/ NextDat(p) \/ NextIdx(p) \/ NextEof(p)
    BY <1>a, <2>5 DEF FetchDat, NextDat, NextIdx, NextEof, ReadDat, Local, Goto, TypeOK, Others
  <2>6. CASE DelDat(p) \/ DelFree(p) \/ DelIdx(p) \/ ReuseDat(p) \/ ReuseIdx(p) \/ Overwrite(p)
    BY <2>6 DEF DelDat, DelFree, DelIdx, ReuseDat, ReuseIdx, Overwrite, Local, Goto, TypeOK, Others
  <2>7. CASE DelPush(p) \/ DelLink(p) \/ FfTake(p) \/ Publish(p)
    BY <2>7 DEF DelPush, DelLink, FfTake, Publish, WritePtr, Goto, TypeOK, Others
  <2>8. CASE ReadLink(p) \/ FfHead(p) \/ FfHit(p) \/ FfNext(p) \/ FfEnd(p)
    BY <2>8 DEF ReadLink, FfHead, FfHit, FfNext, FfEnd, Local, Goto, TypeOK, Others
  <2>9. CASE AppendDat(p) \/ AppendIdx(p)
    BY <1>a, <2>9 DEF AppendDat, AppendIdx, Goto, TypeOK, Others
  <2> QED
    BY <1>a, <2>1, <2>2, <2>3, <2>4, <2>5, <2>6, <2>7, <2>8, <2>9
       DEF Step, Enter, InCall, Kill, StoreBadLength, LockDeadlock, PtrTooBig, NextBadRecord
<1> QED
  BY <1>0, <1>a

\* The steps that write no index record and no pointer.
LooksOn(p) ==
  \/ Begin(p) \/ StoreBadFlag(p) \/ Rewind(p) \/ BeginNextrec(p) \/ Close(p)
  \/ LockGranted(p) \/ UnlockChain(p) \/ ReadHead(p) \/ WalkHit(p) \/ WalkNext(p)
  \/ WalkEnd(p) \/ FetchDat(p) \/ DelFree(p) \/ DelUnlock(p) \/ ReadLink(p) \/ FfHead(p)
  \/ FfHit(p) \/ FfNext(p) \/ FfEnd(p) \/ FfUnlock(p) \/ UnlockDat(p) \/ UnlockTail(p)
  \/ NextIdx(p) \/ NextEof(p) \/ NextDat(p) \/ NextUnlock(p)

WritesDat(p) == DelDat(p) \/ ReuseDat(p) \/ Overwrite(p) \/ AppendDat(p)

\* They change no file.
LEMMA LookFiles ==
  ASSUME NEW p \in Proc, LooksOn(p), ~ Die(p)
  PROVE  UNCHANGED files /\ dead' = dead
BY DEF LooksOn, Begin, StoreBadFlag, Rewind, BeginNextrec, Close, LockGranted, UnlockChain,
   ReadHead, WalkHit, WalkNext, WalkEnd, FetchDat, DelFree, DelUnlock, ReadLink, FfHead,
   FfHit, FfNext, FfEnd, FfUnlock, UnlockDat, UnlockTail, NextIdx, NextEof, NextDat,
   NextUnlock, ReadDat, Return, Local

\* Where they begin and end.
LEMMA QuietSteps ==
  ASSUME DbInv, NEW p \in Proc, Step(p), LooksOn(p) \/ WritesDat(p), ~ Die(p)
  PROVE  Quiet(p)
<1> TypeOK
  BY DEF DbInv
<1>0. Others(p) /\ dead' = dead
  BY StepOthers
<1>1. UNCHANGED <<ptr, rec, eof>>
  BY LookFiles DEF WritesDat, DelDat, ReuseDat, Overwrite, AppendDat, files
<1>2. ASSUME pc[p] \notin {"del_push", "del_link"}, pc'[p] \notin {"del_push", "del_link"},
             Taken(p)' <=> Taken(p), Taken(p) => h'[p].idxoff = h[p].idxoff
      PROVE  Quiet(p)
  BY <1>0, <1>1, <1>2 DEF Quiet, Others
<1>3. CASE \/ Begin(p) \/ StoreBadFlag(p) \/ Rewind(p) \/ BeginNextrec(p) \/ Close(p)
           \/ UnlockChain(p) \/ NextUnlock(p)
  <2>1. pc[p] \in {"idle", "unlock", "nx_unlock"} /\ pc'[p] \in {"idle", "lock", "nx_lock", "closed"}
    BY <1>3 DEF Begin, StoreBadFlag, Rewind, BeginNextrec, Close, UnlockChain, NextUnlock,
       Return, Goto, TypeOK
  <2> QED
    BY <1>2, <2>1 DEF Taken
<1>4. CASE LockGranted(p)
  <2>1. /\ pc[p] \in LockPoints
        /\ pc'[p] \in {"head", "del_dat", "ff_head", "nx_read", "app_dat", "app_idx"}
    BY <1>4 DEF LockGranted, AfterLock, Goto, TypeOK
  <2> QED
    BY <1>2, <2>1 DEF Taken, LockPoints
<1>5. CASE \/ ReadHead(p) \/ WalkHit(p) \/ WalkNext(p) \/ WalkEnd(p) \/ FetchDat(p)
           \/ NextIdx(p) \/ NextEof(p) \/ NextDat(p)
  <2>1. /\ pc[p] \in {"head", "walk", "readdat", "nx_read", "nx_dat"}
        /\ pc'[p] \in {"walk", "readdat", "unlock", "del_lock", "over", "link", "nx_read",
                       "nx_dat", "nx_unlock"}
    <3>1. CASE ReadHead(p) \/ WalkNext(p) \/ WalkEnd(p)
      BY <3>1 DEF ReadHead, WalkNext, WalkEnd, Goto, TypeOK
    <3>2. CASE WalkHit(p)
      BY <3>2 DEF WalkHit, AfterHit, Goto, TypeOK
    <3>3. CASE FetchDat(p) \/ NextDat(p) \/ NextEof(p) \/ NextIdx(p)
      BY <3>3 DEF FetchDat, NextDat, ReadDat, NextEof, NextIdx, Goto, TypeOK
    <3> QED
      BY <1>5, <3>1, <3>2, <3>3
  <2> QED
    BY <1>2, <2>1 DEF Taken
<1>6. CASE \/ DelFree(p) \/ DelUnlock(p) \/ ReadLink(p) \/ FfHead(p) \/ FfHit(p) \/ FfNext(p)
           \/ UnlockDat(p) \/ DelDat(p) \/ Overwrite(p) \/ AppendDat(p)
  <2>1. /\ pc[p] \in {"del_free", "del_unlock", "link", "relink", "ff_head", "ff_walk",
                      "app_datunlock", "del_dat", "over", "app_dat"}
        /\ pc'[p] \in {"del_idx", "unlock", "relink", "ff_lock", "app_datlock", "ff_walk",
                       "ff_take", "app_idxlock", "del_free", "app_datunlock"}
    <3>1. CASE DelFree(p) \/ DelUnlock(p) \/ ReadLink(p)
      BY <3>1 DEF DelFree, DelUnlock, ReadLink, Goto, TypeOK
    <3>2. CASE FfHead(p) \/ FfHit(p) \/ FfNext(p)
      BY <3>2 DEF FfHead, FfHit, FfNext, Goto, TypeOK
    <3>3. CASE UnlockDat(p) \/ DelDat(p) \/ Overwrite(p) \/ AppendDat(p)
      BY <3>3 DEF UnlockDat, DelDat, Overwrite, AppendDat, Goto, TypeOK
    <3> QED
      BY <1>6, <3>1, <3>2, <3>3
  <2> QED
    BY <1>2, <2>1 DEF Taken
<1>7. CASE FfEnd(p)
  <2>1. pc[p] = "ff_walk" /\ pc'[p] = "ff_unlock" /\ h'[p].offset = 0
    BY <1>7 DEF FfEnd, Goto, TypeOK
  <2> QED
    BY <1>2, <2>1 DEF Taken
<1>8. CASE FfUnlock(p) \/ UnlockTail(p)
  <2>1. /\ pc[p] \in {"ff_unlock", "app_idxunlock"} /\ UNCHANGED h
        /\ pc'[p] = IF pc[p] = "app_idxunlock" THEN "pub"
                    ELSE IF h[p].offset = 0 THEN "app_datlock" ELSE "re_dat"
    BY <1>8 DEF FfUnlock, UnlockTail, Goto, TypeOK
  <2> QED
    BY <1>2, <2>1 DEF Taken
<1>9. CASE ReuseDat(p)
  <2>1. pc[p] = "re_dat" /\ pc'[p] = "re_idx" /\ h'[p].idxoff = h[p].idxoff
    BY <1>9, HandleFields DEF ReuseDat, Goto, TypeOK, Handle
  <2> QED
    BY <1>2, <2>1 DEF Taken
<1> QED
  BY <1>3, <1>4, <1>5, <1>6, <1>7, <1>8, <1>9 DEF LooksOn, WritesDat

\* A process that dies leaves the lists as they are.
LEMMA GraphDie ==
  ASSUME DbInv, GraphInv, NEW p \in Proc, Die(p)
  PROVE  GraphStep(p)
<1>1. UNCHANGED <<ptr, rec, eof, pc, h>>
  BY DEF Die, files
<1>2. \A x : Cutting(x)' = Cutting(x)
  BY <1>1 DEF Cutting
<1>3. \A d : In(d)' = In(d)
  BY <1>1 DEF In, Fields, Held, Taken, Home
<1>4. Nexts' = Nexts
  BY <1>1, <1>2 DEF Nexts
<1> QED
  BY <1>3, <1>4, GraphStays DEF SameList

\* The steps that write an index record or a pointer.
WritesIdx(p) ==
  \/ DelIdx(p) \/ DelPush(p) \/ DelLink(p) \/ FfTake(p) \/ ReuseIdx(p) \/ AppendIdx(p)
  \/ Publish(p)

\* Every step but a death is of one of the three kinds.
LEMMA StepKinds ==
  ASSUME NEW p \in Proc, Step(p), ~ Die(p)
  PROVE  p \notin dead /\ (LooksOn(p) \/ WritesDat(p) \/ WritesIdx(p))
BY DEF Step, Enter, InCall, Kill, StoreBadLength, LockDeadlock, PtrTooBig, NextBadRecord,
   LooksOn, WritesDat, WritesIdx

\* No step loses a record.
LEMMA GraphSteps ==
  ASSUME DbInv, GraphInv, NEW p \in Proc, Step(p)
  PROVE  GraphStep(p)
<1>1. CASE Die(p)
  BY <1>1, GraphDie
<1>2. CASE ~ Die(p)
  <2>1. p \notin dead /\ (LooksOn(p) \/ WritesDat(p) \/ WritesIdx(p))
    BY <1>2, StepKinds
  <2>2. CASE LooksOn(p) \/ WritesDat(p)
    BY <1>2, <2>2, QuietSteps, GraphQuiet
  <2>3. CASE WritesIdx(p)
    BY <1>2, <2>1, <2>3, GraphDelIdx, GraphDelPush, GraphDelLink, GraphFfTake, GraphIdx,
       GraphPublish DEF WritesIdx
  <2> QED
    BY <2>1, <2>2, <2>3
<1> QED
  BY <1>1, <1>2

-----------------------------------------------------------------------------
(* What the walks come to.                                                 *)

\* What is behind the head of a list nobody is unlinking from is on the list.
LEMMA BehindIsListed ==
  ASSUME TypeOK, NEW c \in 0..NHash, NEW x \in Allocated, Leads(Nexts, In(c), c, x),
         \A y \in In(c) : Nexts[y] = {ptr[y]}
  PROVE  x \in List(c)
<1> SUFFICES ASSUME NEW S \in SUBSET Allocated, \A y \in {c} \cup S : ptr[y] \in S \cup {0}
             PROVE  x \in S
  BY DEF List
<1>1. Allocated \subseteq Cell /\ c \in Cell /\ 0 \in Cell /\ x \notin {c, 0}
  <2>1. eof \in NHash..IdxMax /\ NHash \in Nat \ {0} /\ IdxMax \in Nat
    BY DbAssumption DEF TypeOK
  <2> QED
    BY <2>1 DEF Cell, Allocated, FirstRec
<1>2. S \cup {c, 0} \in SUBSET Cell /\ {c, 0} \subseteq S \cup {c, 0}
  BY <1>1
<1>3. Closed(Nexts, In(c), S \cup {c, 0})
  <2> SUFFICES ASSUME NEW y \in (S \cup {c, 0}) \cap In(c) PROVE ptr[y] \in S \cup {c, 0}
    BY DEF Closed
  <2>1. CASE y \in {c} \cup S
    BY <2>1
  <2>2. CASE y = 0 /\ y # c
    <3>1. Home(0) = 0
      BY DbAssumption DEF Home
    <3> QED
      BY <2>2, <3>1 DEF In
  <2> QED
    BY <2>1, <2>2
<1> QED
  BY <1>1, <1>2, <1>3 DEF Leads

\* Nothing but the records of the list is on it.
LEMMA ListedIsIn ==
  ASSUME TypeOK, ListInv, NEW c \in 0..NHash, In(c) \subseteq Settled, c \in In(c)
  PROVE  List(c) \subseteq In(c)
<1> DEFINE S == In(c) \cap Allocated
<1>1. \A y \in In(c) : ptr[y] \in S \cup {0}
  BY FollowPtr, CellFacts DEF In
<1>2. S \in SUBSET Allocated /\ \A y \in {c} \cup S : ptr[y] \in S \cup {0}
  BY <1>1
<1> QED
  BY <1>2 DEF List

\* A record that nobody has in its hands is reached from the head of its list.
LEMMA NoLeak == DbInv /\ GraphInv => NothingLeaks
<1> SUFFICES ASSUME DbInv, GraphInv, NEW r \in Allocated \ (Held \cup Unlinking),
                    \A p \in Proc : pc[p] \notin {"del_push", "del_link"}
             PROVE  r \in List(Home(r))
  BY DEF NothingLeaks
<1> TypeOK /\ ListInv
  BY DEF DbInv
<1>1. Home(r) \in 0..NHash
  <2>1. CASE rec[r].key = Blank \/ r <= NHash
    BY <2>1, CellFacts, DbAssumption DEF Home, FREE, Allocated, FirstRec
  <2>2. CASE rec[r].key # Blank
    <3>1. r \in Cell
      BY CellFacts
    <3>2. Hash[rec[r].key] \in 1..NHash
      BY <2>2, <3>1, DbAssumption DEF TypeOK
    <3> QED
      BY <2>1, <3>2, DbAssumption DEF Home
  <2> QED
    BY <2>1, <2>2
<1>2. \A y \in In(Home(r)) : Nexts[y] = {ptr[y]}
  BY CellFacts, NextsOf DEF In, Cutting
<1>3. Leads(Nexts, In(Home(r)), Home(r), r)
  BY <1>1, CellFacts DEF GraphInv, Whole, In
<1> QED
  BY <1>1, <1>2, <1>3, BehindIsListed

\* There are no records at first.
LEMMA GraphInit == Init => GraphInv
<1> SUFFICES ASSUME Init, NEW c \in 0..NHash, NEW x \in In(c) PROVE Leads(Nexts, In(c), c, x)
  BY DEF GraphInv, Whole
<1>1. x = c
  BY DbAssumption DEF Init, In, Fields, Home
<1> QED
  BY <1>1 DEF Leads

\* The invariant is inductive, given that of the lists.
LEMMA GraphNext == DbInv /\ GraphInv /\ [Next]_vars => GraphInv'
<1> SUFFICES ASSUME DbInv, GraphInv, [Next]_vars PROVE GraphInv'
  OBVIOUS
<1>1. CASE UNCHANGED vars
  <2>1. \A x : Cutting(x)' = Cutting(x)
    BY <1>1 DEF vars, Cutting
  <2>2. \A d : In(d)' = In(d)
    BY <1>1 DEF vars, In, Fields, Held, Taken, Home
  <2>3. Nexts' = Nexts
    BY <1>1, <2>1 DEF vars, Nexts
  <2> QED
    BY <2>2, <2>3 DEF GraphInv, Whole
<1>2. ASSUME NEW p \in Proc, Step(p) PROVE GraphInv'
  BY <1>2, GraphSteps DEF GraphStep
<1> QED
  BY <1>1, <1>2 DEF Next, Done

\* The history variable does not restrict the database.
LEMMA KVRefines == KVSpec => Spec
<1>1. KVInit => Init
  BY DEF KVInit
<1>2. [KVNext]_kvVars => [Next]_vars
  BY DEF KVNext, Next, kvVars, vars
<1> QED
  BY <1>1, <1>2, PTL DEF KVSpec, Spec

\* Every record is behind the head of its list, for any number of processes,
\* chains, records and calls.
THEOREM Graph == ASSUME NotKilledUnlinking PROVE Spec => [](DbInv /\ GraphInv)
<1>1. Spec => []DbInv
  <2>1. TypeOK /\ LockInv /\ ListInv => DbInv
    BY DEF DbInv
  <2> QED
    BY <2>1, Typing, Locking, Lists, PTL
<1> QED
  BY <1>1, GraphInit, GraphNext, PTL DEF Spec

\* No record is lost: what no process has in its hands is on a list.
THEOREM NoneLost == ASSUME NotKilledUnlinking PROVE KVSpec => []NothingLeaks
<1>1. DbInv /\ GraphInv => NothingLeaks
  BY NoLeak
<1> QED
  BY <1>1, Graph, KVRefines, PTL

NotKilledDeleting == KillAt \cap {"del_free", "del_idx", "del_push", "del_link"} = {}

-----------------------------------------------------------------------------
(* The records of a key.                                                   *)

\* The records that are in a list, and those among them that have a key.
Listed == Allocated \ Held
Found(k) == {r \in Listed : rec[r].key = k}
DataOf(r) == dat[rec[r].datoff].val

-----------------------------------------------------------------------------
(* What a process knows of the key of its call.                            *)

Searching == {"link", "ff_lock", "re_dat", "re_idx"} \cup Finding
Meeting == {"over", "del_lock", "del_dat", "del_free", "del_idx"}

\* Which call is at which place.
OpAt(p) ==
  /\ pc[p] \in {"idle", "closed"} <=> call[p] = NoCall
  /\ pc[p] \in Scanning => call[p].op = "nextrec"
  /\ pc[p] \notin Scanning \cup {"idle", "closed"} => call[p].op \in KeyedOps
  /\ pc[p] = "readdat" => call[p].op = "fetch"
  /\ pc[p] = "over" => call[p].op \in {"replace", "store"}
  /\ pc[p] \in {"del_lock"} \cup Deleting => call[p].op \in {"delete", "replace", "store"}
  /\ pc[p] \in Searching => call[p].op \in {"insert", "store"}
  /\ pc[p] = "relink" => call[p].op \in {"replace", "store"}
  /\ pc[p] \in Appending \cup {"pub"} => call[p].op \in StoreOps

\* During the walk the records of the key are still to come.
Ahead(p) ==
  pc[p] = "walk" =>
    \A x \in Found(call[p].key) : Leads(Nexts, In(Chain(p)), h[p].offset, x)

\* Afterwards the process has met the record of the key, or there is none.
Met(p) ==
  /\ pc[p] \in Meeting \cup {"readdat"} =>
       h[p].idxoff \in Found(call[p].key) /\ h[p].datoff = rec[h[p].idxoff].datoff
  /\ pc[p] \in Searching \cup {"del_push", "del_link"} \cup Absent => Found(call[p].key) = {}

\* Whether the map has data for the key, as the call requires.
Has(p) ==
  /\ call[p].op = "insert" /\ pc[p] \in Searching \cup Absent => kv[call[p].key] = NoVal
  /\ \/ call[p].op = "replace" /\ pc[p] \in Meeting \cup {"del_push", "del_link"} \cup Absent
     \/ call[p].op = "delete" /\ pc[p] \in Meeting \cup {"del_push", "del_link"}
     => kv[call[p].key] # NoVal

\* A call that has not taken effect has no result.
NoResult(p) ==
  pc[p] \notin Scanning \cup {"closed", "unlock"} => ret[p] = NoRet

\* The record in a scan's hands is not touched.
Scans(p) ==
  pc[p] = "nx_dat" =>
    /\ ret[p].key \in Key /\ h[p].idxoff \in Allocated
    /\ rec[h[p].idxoff].key = ret[p].key /\ h[p].datoff = rec[h[p].idxoff].datoff

Story(p) == Ahead(p) /\ Met(p) /\ Has(p) /\ NoResult(p) /\ Scans(p)

\* The record in a process's hands, for ever when it died: a deleted one until
\* it is written over, then the one of the call.
Keeps(p) ==
  /\ Taken(p) /\ pc[p] \in {"ff_unlock", "re_dat", "re_idx", "del_push"} =>
       rec[h[p].idxoff].key = Blank
  /\ pc[p] \in {"app_idxunlock", "pub"} =>
       rec[h[p].idxoff].key = call[p].key /\ h[p].datoff = rec[h[p].idxoff].datoff
  /\ pc[p] = "re_idx" \/ Appends(p) \/ pc[p] \in {"app_idxunlock", "pub"} =>
       dat[h[p].datoff].val = call[p].val

\* Who is about to change what the map has for a key.
Changing(p, k) ==
  /\ p \notin dead /\ call[p].key = k
  /\ \/ pc[p] \in {"del_free", "del_idx", "del_push", "del_link"}
     \/ call[p].op \in StoreOps /\ pc[p] \in Absent

\* The disk has for a key what the map has.
Agree(k) ==
  IF kv[k] = NoVal THEN Found(k) = {} ELSE \E r \in Found(k) : DataOf(r) = kv[k]

MapInv ==
  /\ kv \in [Key -> Val \cup {NoVal}]
  /\ \A k \in Key : \A r, s \in Found(k) : r = s
  /\ \A k \in Key : Agree(k) \/ \E p \in Proc : Changing(p, k)
  /\ \A p \in Proc : OpAt(p) /\ Keeps(p)
  /\ \A p \in Proc \ dead : Story(p)

\* All that is known of the files and of the processes.
StoreInv == DbInv /\ DataInv /\ GraphInv /\ MapInv

-----------------------------------------------------------------------------
(* What one step of a process leaves as it is.                             *)

\* The points of the steps that change what the disk or the map has for a key.
Effecting == {"del_dat", "del_idx", "del_link", "pub", "over"}

\* What a step of p leaves as it is: everything but the entry of its key, and
\* the record in its hands.
Apart(p) ==
  /\ dead' = dead /\ Others(p) /\ FitStep /\ Allocated \subseteq Allocated'
  /\ \A r \in Allocated :
       rec'[r] = rec[r] \/ (r = h[p].idxoff /\ pc[p] \in {"del_idx", "re_idx"})
  /\ \A s \in 1..dateof :
       dat'[s] = dat[s] \/ (s = h[p].datoff /\ pc[p] \in {"del_dat", "re_dat", "over"})
  /\ \A k \in Key : Found(k)' = Found(k) \/ (k = call[p].key /\ pc[p] \in {"del_idx", "pub"})
  /\ \A d \in 1..NHash : SameList(d) \/ (d = Chain(p) /\ pc[p] \in Writing)
  /\ \A k \in Key :
       kv'[k] = kv[k] \/ (k = call[p].key /\ pc[p] \in {"del_link", "pub", "over"})

\* The record whose data a process writes over is a record of its key, or the
\* one in its hands.
LEMMA WritesOwnDat ==
  ASSUME StoreInv, NEW p \in Proc, p \notin dead, pc[p] \in {"del_dat", "re_dat", "over"}
  PROVE  /\ h[p].idxoff \in Allocated /\ h[p].datoff = rec[h[p].idxoff].datoff
         /\ pc[p] = "re_dat" => Taken(p)
         /\ pc[p] # "re_dat" => h[p].idxoff \in Found(call[p].key)
<1>1. Informed(p) /\ Met(p)
  BY DEF StoreInv, DataInv, MapInv, Story
<1>2. Knows(p)
  BY <1>1 DEF Informed, Reuses, OverRecord, OverFree
<1> QED
  BY <1>1, <1>2 DEF Knows, Allocated, Taken, Met, Meeting

\* What a process holds, the others do not write.
LEMMA HeldStays ==
  ASSUME StoreInv, NEW p \in Proc, p \notin dead, Apart(p), NEW q \in Proc, q # p, Taken(q)
  PROVE  LET r == h[q].idxoff IN
         /\ r \in Allocated /\ rec'[r] = rec[r]
         /\ dat'[rec[r].datoff] = dat[rec[r].datoff]
<1> DbInv /\ TypeOK /\ ListInv /\ DataInv
  BY DEF StoreInv, DbInv
<1>0. PICK r : r = h[q].idxoff
  OBVIOUS
<1>1. r \in Allocated /\ r \in Held
  BY <1>0, HeldFacts
<1>2. Taken(p) => h[p].idxoff # r
  BY <1>0 DEF ListInv, HeldOwned
<1>3. rec'[r] = rec[r]
  <2>1. pc[p] = "del_idx" => h[p].idxoff \notin Held
    BY DelFacts
  <2>2. pc[p] = "re_idx" => Taken(p)
    BY DEF Taken
  <2> QED
    BY <1>1, <1>2, <2>1, <2>2 DEF Apart
<1>4. dat'[rec[r].datoff] = dat[rec[r].datoff]
  <2>1. rec[r].datoff \in 1..dateof
    BY <1>1 DEF DataInv, DataOwned
  <2>2. ASSUME pc[p] \in {"del_dat", "re_dat", "over"} PROVE h[p].datoff # rec[r].datoff
    <3>1. h[p].idxoff # r /\ h[p].idxoff \in Allocated /\ h[p].datoff = rec[h[p].idxoff].datoff
      BY <1>1, <1>2, <2>2, WritesOwnDat DEF Found, Listed
    <3> QED
      BY <1>1, <3>1 DEF DataInv, DataOwned
  <2> QED
    BY <2>1, <2>2 DEF Apart
<1> QED
  BY <1>0, <1>1, <1>3, <1>4

\* A step of p leaves the other processes at their places with their records.
LEMMA OthersKeep ==
  ASSUME StoreInv, NEW p \in Proc, p \notin dead, Apart(p), NEW q \in Proc, q # p
  PROVE  OpAt(q)' /\ Keeps(q)'
<1> DataInv
  BY DEF StoreInv
<1>1. /\ pc'[q] = pc[q] /\ call'[q] = call[q] /\ h'[q] = h[q]
      /\ OpAt(q) /\ Keeps(q)
  BY DEF Apart, Others, StoreInv, MapInv
<1>2. OpAt(q)'
  BY <1>1 DEF OpAt
<1>3. Taken(q)' <=> Taken(q)
  BY <1>1 DEF Taken
<1>4. Taken(q) => /\ rec'[h[q].idxoff] = rec[h[q].idxoff]
                  /\ dat'[rec[h[q].idxoff].datoff] = dat[rec[h[q].idxoff].datoff]
  BY HeldStays
<1>5. pc[q] = "re_idx" => Taken(q) /\ h[q].datoff = rec[h[q].idxoff].datoff
  <2> SUFFICES ASSUME pc[q] = "re_idx" PROVE Taken(q) /\ h[q].datoff = rec[h[q].idxoff].datoff
    OBVIOUS
  <2>1. Informed(q)
    BY DEF DataInv
  <2>2. Knows(q)
    BY <2>1 DEF Informed, Reuses, OverFree
  <2> QED
    BY <2>2 DEF Knows, Taken
<1>6. pc[q] \in {"app_idxunlock", "pub"} => Taken(q) /\ h[q].datoff = rec[h[q].idxoff].datoff
  BY <1>1 DEF Taken, Keeps
<1>7. Appends(q) => dat'[h[q].datoff] = dat[h[q].datoff]
  <2> SUFFICES ASSUME Appends(q) PROVE dat'[h[q].datoff] = dat[h[q].datoff]
    OBVIOUS
  <2>1. h[q].datoff \in 1..dateof /\ \A r \in Allocated : rec[r].datoff # h[q].datoff
    BY DEF DataInv, AppendsApart, Owns, Allocated
  <2>2. pc[p] \in {"del_dat", "re_dat", "over"} => h[p].datoff # h[q].datoff
    BY <2>1, WritesOwnDat
  <2> QED
    BY <2>1, <2>2 DEF Apart
<1>8. Keeps(q)'
  <2>1. Taken(q)' /\ pc'[q] \in {"ff_unlock", "re_dat", "re_idx", "del_push"} =>
          rec'[h'[q].idxoff].key = Blank
    BY <1>1, <1>3, <1>4 DEF Keeps
  <2>2. pc'[q] \in {"app_idxunlock", "pub"} =>
          rec'[h'[q].idxoff].key = call'[q].key /\ h'[q].datoff = rec'[h'[q].idxoff].datoff
    BY <1>1, <1>4, <1>6 DEF Keeps
  <2>3. pc'[q] = "re_idx" \/ Appends(q)' \/ pc'[q] \in {"app_idxunlock", "pub"} =>
          dat'[h'[q].datoff].val = call'[q].val
    <3>1. Appends(q)' <=> Appends(q)
      BY <1>1 DEF Appends
    <3> QED
      BY <1>1, <1>4, <1>5, <1>6, <1>7, <3>1 DEF Keeps
  <2> QED
    BY <2>1, <2>2, <2>3 DEF Keeps
<1> QED
  BY <1>2, <1>8

\* A process in a chain is not disturbed by one that writes.
LEMMA OtherKey ==
  ASSUME DbInv, NEW p \in Proc, p \notin dead, pc[p] \in Writing,
         NEW q \in Proc, q # p, InChain(q)
  PROVE  Chain(q) # Chain(p) /\ call[q].key # call[p].key
<1>1. Chain(q) # Chain(p)
  BY AloneInChain DEF DbInv
<1> QED
  BY <1>1 DEF Chain

\* Nor does it make untrue what another process knows of its key.
LEMMA OthersStory ==
  ASSUME StoreInv, NEW p \in Proc, p \notin dead, Apart(p), NEW q \in Proc, q # p, q \notin dead
  PROVE  Story(q)'
<1> DbInv /\ TypeOK /\ LockInv
  BY DEF StoreInv, DbInv
<1>1. /\ pc'[q] = pc[q] /\ call'[q] = call[q] /\ h'[q] = h[q] /\ ret'[q] = ret[q]
      /\ Story(q)
  BY DEF Apart, Others, StoreInv, MapInv
<1>0. PICK k, c : k = call[q].key /\ c = Chain(q)
  OBVIOUS
<1>2. ASSUME InChain(q)
      PROVE  k \in Key /\ Found(k)' = Found(k) /\ kv'[k] = kv[k] /\ SameList(c)
  <2>1. c \in 1..NHash /\ k \in Key
    BY <1>0, <1>2, InCallHasCall, DbAssumption DEF Chain, Call
  <2>2. pc[p] \in Writing => c # Chain(p) /\ k # call[p].key
    BY <1>0, <1>2, OtherKey
  <2>3. {"del_idx", "pub", "del_link", "over"} \subseteq Writing
    BY DEF Writing, Deleting
  <2> QED
    BY <2>1, <2>2, <2>3 DEF Apart
<1>3. pc[q] \in Searching \cup Meeting \cup {"walk", "readdat", "del_push", "del_link"} \cup Absent
        => InChain(q)
  BY DEF InChain, Searching, Meeting, Finding, Absent, Appending, Writing, Reading, Deleting
<1>4. call'[q].key = k /\ Chain(q)' = c /\ Found(call[q].key)' = Found(k)' /\ In(Chain(q))' = In(c)'
  BY <1>0, <1>1 DEF Chain, Found, In
<1>5. \A r \in Allocated : rec'[r].datoff = rec[r].datoff
  BY DEF Apart, FitStep
<1>6. Ahead(q)'
  <2> SUFFICES ASSUME pc[q] = "walk", NEW x \in Found(k)
               PROVE  Leads(Nexts', In(c)', h[q].offset, x)
    BY <1>1, <1>2, <1>3, <1>4 DEF Ahead
  <2>1. Leads(Nexts, In(c), h[q].offset, x)
    BY <1>0, <1>1 DEF Story, Ahead
  <2>2. SameList(c)
    BY <1>2, <1>3
  <2>3. Leads(Nexts', In(c), h[q].offset, x)
    BY <2>1, <2>2, LeadsSame DEF SameList
  <2> QED
    BY <2>2, <2>3 DEF SameList
<1>7. Met(q)'
  <2>1. Found(k) \subseteq Allocated
    BY DEF Found, Listed
  <2>2. Met(q)
    BY <1>1 DEF Story
  <2> QED
    BY <1>0, <1>1, <1>2, <1>3, <1>4, <1>5, <2>1, <2>2 DEF Met
<1>8. Has(q)' /\ NoResult(q)'
  BY <1>0, <1>1, <1>2, <1>3 DEF Story, Has, NoResult
<1>9. Scans(q)'
  <2> SUFFICES ASSUME pc[q] = "nx_dat"
               PROVE  h[q].idxoff \in Allocated' /\ rec'[h[q].idxoff].key = rec[h[q].idxoff].key
    BY <1>1, <1>5 DEF Story, Scans
  <2>1. h[q].idxoff \in Allocated /\ rec[h[q].idxoff].key \in Key
    BY <1>1 DEF Story, Scans
  <2>2. pc[p] = "re_idx" => rec[h[p].idxoff].key = Blank
    BY DEF StoreInv, MapInv, Keeps, Taken
  <2>3. pc[p] # "del_idx"
    BY AloneInFree DEF InFree, Scanning, Deleting
  <2> QED
    BY <2>1, <2>2, <2>3, DbAssumption DEF Apart
<1> QED
  BY <1>6, <1>7, <1>8, <1>9 DEF Story

\* What every call at the place p is at has for a key and a chain.
LEMMA InCallKey ==
  ASSUME TypeOK, NEW p \in Proc, pc[p] \notin {"idle", "closed"}
  PROVE  call[p] \in Call /\ call[p].key \in Key /\ Chain(p) \in 1..NHash
BY ChainType DEF Call

\* A record is in a list of its own: it has a key, or is free.
LEMMA BlankIsFree ==
  ASSUME TypeOK, NEW r \in Allocated
  PROVE  Home(r) = FREE <=> rec[r].key = Blank
<1>1. r \in Cell /\ ~ (r <= NHash) /\ NHash \in Nat
  BY CellFacts, DbAssumption DEF Allocated, FirstRec, TypeOK
<1>2. rec[r].key # Blank => Hash[rec[r].key] \in 1..NHash
  BY <1>1, DbAssumption DEF TypeOK
<1>3. Home(r) = IF rec[r].key = Blank THEN FREE ELSE Hash[rec[r].key]
  BY <1>1 DEF Home
<1> QED
  BY <1>1, <1>2, <1>3 DEF FREE

\* What a step of a living process does to the map, key by key.
LEMMA EffectOf ==
  ASSUME NEW p \in Proc, p \notin dead', kv \in [Key -> Val \cup {NoVal}], kv' = Effect(p),
         NEW k \in Key
  PROVE  /\ kv'[k] = IF k # call[p].key THEN kv[k]
                     ELSE IF pc[p] = "del_link" /\ call[p].op = "delete" THEN NoVal
                     ELSE IF pc[p] \in {"pub", "over"} THEN call[p].val
                     ELSE kv[k]
         /\ kv' = kv \/ pc[p] \in {"del_link", "pub", "over"}
<1>1. CASE pc[p] = "del_link" /\ call[p].op = "delete"
  <2>1. kv' = [kv EXCEPT ![call[p].key] = NoVal]
    BY <1>1 DEF Effect
  <2> QED
    BY <1>1, <2>1
<1>2. CASE pc[p] \in {"pub", "over"}
  <2>1. kv' = [kv EXCEPT ![call[p].key] = call[p].val]
    BY <1>2 DEF Effect
  <2> QED
    BY <1>2, <2>1
<1>3. CASE ~ (pc[p] = "del_link" /\ call[p].op = "delete") /\ pc[p] \notin {"pub", "over"}
  <2>1. kv' = kv
    BY <1>3 DEF Effect
  <2> QED
    BY <1>3, <2>1
<1> QED
  BY <1>1, <1>2, <1>3

\* The map stays one.
LEMMA EffectType ==
  ASSUME TypeOK, NEW p \in Proc, kv \in [Key -> Val \cup {NoVal}], kv' = Effect(p)
  PROVE  kv' \in [Key -> Val \cup {NoVal}]
<1>1. pc[p] \in {"pub", "over"} => call[p].val \in Val
  BY DEF TypeOK, Call
<1>2. kv' \in {kv, [kv EXCEPT ![call[p].key] = NoVal]}
        \/ (kv' = [kv EXCEPT ![call[p].key] = call[p].val] /\ pc[p] \in {"pub", "over"})
  BY DEF Effect
<1> QED
  BY <1>1, <1>2

\* What the writes of the index file do to the records of a key.
LEMMA FoundAfter ==
  ASSUME StoreInv, NEW p \in Proc, p \notin dead, WritesIdx(p), ~ Die(p), NEW k \in Key
  PROVE  /\ Allocated \subseteq Allocated'
         /\ DelIdx(p) => Found(k)' = Found(k) \ {h[p].idxoff}
         /\ Publish(p) => /\ k = call[p].key => Found(k)' = Found(k) \cup {h[p].idxoff}
                          /\ k # call[p].key => Found(k)' = Found(k)
         /\ ~ DelIdx(p) /\ ~ Publish(p) => Found(k)' = Found(k)
         /\ \A r \in Allocated : rec'[r] = rec[r]
              \/ (r = h[p].idxoff /\ pc[p] \in {"del_idx", "re_idx"})
<1> DbInv /\ TypeOK /\ LockInv /\ ListInv
  BY DEF StoreInv, DbInv
<1>0. PICK r : r = h[p].idxoff
  OBVIOUS
<1>1. Allocated \subseteq Cell /\ k # Blank
  BY CellFacts, DbAssumption
<1>2. CASE DelIdx(p)
  <2>1. /\ pc[p] = "del_idx"
        /\ Held' = Held \cup {r} /\ Allocated' = Allocated
        /\ \A x \in Allocated \ {r} : rec'[x] = rec[x]
        /\ ~ Publish(p)
    BY <1>0, <1>1, <1>2, ListDelIdx DEF TypeOK, DelIdx, WriteIdx, Publish
  <2>2. Found(k)' = Found(k) \ {r}
    BY <2>1 DEF Found, Listed
  <2> QED
    BY <1>0, <1>2, <2>1, <2>2
<1>3. CASE DelPush(p)
  <2>1. /\ Held' = Held \ {r} /\ Allocated' = Allocated /\ UNCHANGED rec
        /\ r \in Allocated /\ rec[r].key = Blank
        /\ ~ DelIdx(p) /\ ~ Publish(p)
    BY <1>0, <1>3, ListDelPush, BlankIsFree DEF DelPush, WritePtr, DelIdx, Publish
  <2>2. Found(k)' = Found(k)
    BY <1>1, <2>1 DEF Found, Listed
  <2> QED
    BY <2>1, <2>2
<1>4. CASE DelLink(p)
  <2>1. /\ Held' = Held /\ Allocated' = Allocated /\ UNCHANGED rec
        /\ ~ DelIdx(p) /\ ~ Publish(p)
    BY <1>4, ListDelLink DEF DelLink, WritePtr, DelIdx, Publish
  <2> QED
    BY <2>1 DEF Found, Listed
<1>5. CASE FfTake(p)
  <2>1. /\ Held' = Held \cup {r} /\ Allocated' = Allocated /\ UNCHANGED rec
        /\ r \in Allocated /\ rec[r].key = Blank
        /\ ~ DelIdx(p) /\ ~ Publish(p)
    BY <1>0, <1>5, ListFfTake, BlankIsFree DEF FfTake, WritePtr, DelIdx, Publish
  <2>2. Found(k)' = Found(k)
    BY <1>1, <2>1 DEF Found, Listed
  <2> QED
    BY <2>1, <2>2
<1>6. CASE ReuseIdx(p)
  <2>1. /\ Held' = Held /\ r \in Held /\ Allocated' = Allocated
        /\ \A x \in Allocated \ {r} : rec'[x] = rec[x]
        /\ pc[p] = "re_idx" /\ ~ DelIdx(p) /\ ~ Publish(p)
    BY <1>0, <1>1, <1>6, ListReuseIdx DEF TypeOK, ReuseIdx, WriteIdx, DelIdx, Publish
  <2>2. Found(k)' = Found(k)
    BY <2>1 DEF Found, Listed
  <2> QED
    BY <1>0, <2>1, <2>2
<1>7. CASE AppendIdx(p)
  <2>1. /\ Held' = Held \cup {eof + 1} /\ Allocated' = Allocated \cup {eof + 1}
        /\ eof + 1 \notin Allocated
    BY <1>7, ListAppendIdx, CellFacts
  <2>2. \A x \in Allocated : rec'[x] = rec[x]
    BY <1>1, <1>7, <2>1 DEF TypeOK, AppendIdx, WriteIdx
  <2>3. ~ DelIdx(p) /\ ~ Publish(p)
    BY <1>7 DEF AppendIdx, DelIdx, Publish
  <2>4. Found(k)' = Found(k)
    BY <2>1, <2>2 DEF Found, Listed
  <2> QED
    BY <2>1, <2>2, <2>3, <2>4
<1>8. CASE Publish(p)
  <2>1. pc[p] = "pub" /\ UNCHANGED rec /\ ~ DelIdx(p)
    BY <1>8 DEF Publish, WritePtr, DelIdx
  <2>2. Held' = Held \ {r} /\ Allocated' = Allocated /\ r \in Allocated
    BY <1>0, <1>8, ListPublish
  <2>3. rec[r].key = call[p].key
    BY <1>0, <2>1 DEF StoreInv, MapInv, Keeps
  <2>4. /\ k = call[p].key => Found(k)' = Found(k) \cup {r}
        /\ k # call[p].key => Found(k)' = Found(k)
    BY <2>1, <2>2, <2>3 DEF Found, Listed
  <2> QED
    BY <1>0, <1>8, <2>1, <2>2, <2>4
<1> QED
  BY <1>2, <1>3, <1>4, <1>5, <1>6, <1>7, <1>8 DEF WritesIdx

\* A step that writes no index record leaves the records of every key.
LEMMA FoundQuiet ==
  ASSUME NEW p \in Proc, Quiet(p), NEW k
  PROVE  Found(k)' = Found(k) /\ Allocated' = Allocated /\ rec' = rec
<1>1. Held' = Held /\ Allocated' = Allocated /\ rec' = rec
  BY QuietLists DEF Quiet
<1> QED
  BY <1>1 DEF Found, Listed

\* Which data a step may write over.
LEMMA DatAfter ==
  ASSUME TypeOK, NEW p \in Proc, LooksOn(p) \/ WritesDat(p) \/ WritesIdx(p), ~ Die(p),
         NEW s \in 1..dateof
  PROVE  dat'[s] = dat[s] \/ (s = h[p].datoff /\ pc[p] \in {"del_dat", "re_dat", "over"})
<1>0. s \in Slot /\ s # dateof + 1
  BY DbAssumption DEF TypeOK, Slot
<1>1. CASE LooksOn(p)
  BY <1>1, LookFiles DEF files
<1>2. CASE DelDat(p) \/ ReuseDat(p) \/ Overwrite(p)
  BY <1>0, <1>2 DEF TypeOK, DelDat, ReuseDat, Overwrite
<1>3. CASE AppendDat(p)
  BY <1>0, <1>3 DEF TypeOK, AppendDat
<1>4. CASE WritesIdx(p)
  BY <1>4 DEF WritesIdx, DelIdx, DelPush, DelLink, FfTake, ReuseIdx, AppendIdx, Publish, WritePtr
<1> QED
  BY <1>1, <1>2, <1>3, <1>4 DEF WritesDat

\* Every step of a living process leaves apart what is not its own.
LEMMA ApartStep ==
  ASSUME StoreInv, NEW p \in Proc, Step(p), ~ Die(p), kv' = Effect(p)
  PROVE  Apart(p)
<1> DbInv /\ TypeOK /\ LockInv /\ ListInv /\ DataInv /\ GraphInv
  BY DEF StoreInv, DbInv
<1>1. p \notin dead /\ (LooksOn(p) \/ WritesDat(p) \/ WritesIdx(p))
  BY StepKinds
<1>2. dead' = dead /\ Others(p) /\ FitStep
  BY StepOthers, DataStep
<1>3. /\ Allocated \subseteq Allocated'
      /\ \A r \in Allocated :
           rec'[r] = rec[r] \/ (r = h[p].idxoff /\ pc[p] \in {"del_idx", "re_idx"})
      /\ \A k \in Key : Found(k)' = Found(k) \/ (k = call[p].key /\ pc[p] \in {"del_idx", "pub"})
  <2>1. CASE LooksOn(p) \/ WritesDat(p)
    BY <2>1, QuietSteps, FoundQuiet
  <2>2. CASE WritesIdx(p)
    <3>1. ASSUME NEW k \in Key, DelIdx(p), k # call[p].key
          PROVE  Found(k)' = Found(k)
      <4>1. pc[p] = "del_idx" /\ Met(p)
        BY <1>1, <3>1 DEF DelIdx, StoreInv, MapInv, Story
      <4>2. h[p].idxoff \notin Found(k)
        BY <3>1, <4>1 DEF Met, Meeting, Found
      <4> QED
        BY <1>1, <2>2, <3>1, <4>2, FoundAfter
    <3>2. \A k \in Key : Found(k)' = Found(k) \/ (k = call[p].key /\ pc[p] \in {"del_idx", "pub"})
      <4>1. (DelIdx(p) => pc[p] = "del_idx") /\ (Publish(p) => pc[p] = "pub")
        BY DEF DelIdx, Publish
      <4> QED
        BY <1>1, <2>2, <3>1, <4>1, FoundAfter
    <3>3. CASE \E k \in Key : TRUE
      BY <1>1, <2>2, <3>2, <3>3, FoundAfter
    <3>4. pc[p] \notin {"idle", "closed"}
      BY <2>2 DEF WritesIdx, DelIdx, DelPush, DelLink, FfTake, ReuseIdx, AppendIdx, Publish
    <3> QED
      BY <3>3, <3>4, InCallKey
  <2> QED
    BY <1>1, <2>1, <2>2
<1>4. \A s \in 1..dateof :
        dat'[s] = dat[s] \/ (s = h[p].datoff /\ pc[p] \in {"del_dat", "re_dat", "over"})
  BY <1>1, DatAfter
<1>5. \A d \in 1..NHash : SameList(d) \/ (d = Chain(p) /\ pc[p] \in Writing)
  BY GraphSteps DEF GraphStep
<1>6. \A k \in Key :
        kv'[k] = kv[k] \/ (k = call[p].key /\ pc[p] \in {"del_link", "pub", "over"})
  BY <1>1, <1>2, EffectOf DEF StoreInv, MapInv
<1> QED
  BY <1>2, <1>3, <1>4, <1>5, <1>6 DEF Apart

-----------------------------------------------------------------------------
(* What is to be shown of a step.                                          *)

\* The data of a key stay if the step does not write them.
LEMMA AgreeStays ==
  ASSUME StoreInv, NEW p \in Proc, p \notin dead, Apart(p), NEW k \in Key,
         Found(k)' = Found(k), kv'[k] = kv[k],
         k # call[p].key \/ pc[p] \notin {"del_dat", "over"}, Agree(k)
  PROVE  Agree(k)'
<1> DataInv
  BY DEF StoreInv
<1>1. ASSUME NEW r \in Found(k) PROVE DataOf(r)' = DataOf(r)
  <2>1. r \in Allocated /\ r \notin Held /\ rec[r].key = k
    BY DEF Found, Listed
  <2>2. rec'[r].datoff = rec[r].datoff /\ rec[r].datoff \in 1..dateof
    BY <2>1 DEF Apart, FitStep, DataInv, DataOwned
  <2>3. ASSUME pc[p] \in {"del_dat", "re_dat", "over"} PROVE h[p].datoff # rec[r].datoff
    <3>1. h[p].idxoff # r
      BY <2>1, <2>3, WritesOwnDat, HeldFacts DEF Found, StoreInv, DbInv
    <3> QED
      BY <2>1, <2>3, <3>1, WritesOwnDat DEF DataInv, DataOwned
  <2> QED
    BY <2>2, <2>3 DEF Apart, DataOf
<1> QED
  BY <1>1 DEF Agree

\* A process in a chain is the only one that may be changing what the map has.
LEMMA OnlyMine ==
  ASSUME StoreInv, NEW p \in Proc, InChain(p)
  PROVE  /\ call[p].key \in Key
         /\ Agree(call[p].key) \/ Changing(p, call[p].key)
<1> TypeOK /\ DbInv
  BY DEF StoreInv, DbInv
<1>1. call[p].key \in Key
  BY InCallHasCall DEF Call
<1>2. ASSUME NEW q \in Proc, Changing(q, call[p].key) PROVE q = p
  <2>1. q \notin dead /\ pc[q] \in Writing /\ call[q].key = call[p].key
    BY <1>2 DEF Changing, Absent, Writing, Deleting, Appending
  <2> QED
    BY <2>1, OtherKey
<1> QED
  BY <1>1, <1>2 DEF StoreInv, MapInv

\* A step of p preserves the invariant if it does so for p and its key: the
\* other processes and keys follow from Apart(p).
LEMMA MapStep ==
  ASSUME StoreInv, NEW p \in Proc, p \notin dead, Apart(p),
         kv' \in [Key -> Val \cup {NoVal}],
         OpAt(p)', Keeps(p)', Story(p)',
         \A k \in Key : Changing(p, k) => Changing(p, k)' \/ pc[p] \in Effecting,
         \A k \in Key : k = call[p].key /\ pc[p] \in Effecting =>
           (\A r, s \in Found(k)' : r = s) /\ (Agree(k)' \/ Changing(p, k)')
  PROVE  MapInv'
<1>1. ASSUME NEW k \in Key, k # call[p].key \/ pc[p] \notin Effecting
      PROVE  (\A r, s \in Found(k)' : r = s) /\ (Agree(k)' \/ \E q \in Proc : Changing(q, k)')
  <2>1. Found(k)' = Found(k) /\ kv'[k] = kv[k]
    BY <1>1 DEF Apart, Effecting
  <2>2. \A r, s \in Found(k)' : r = s
    <3>1. \A r, s \in Found(k) : r = s
      BY DEF StoreInv, MapInv
    <3> QED
      BY <2>1, <3>1
  <2>3. Agree(k) => Agree(k)'
    BY <1>1, <2>1, AgreeStays DEF Effecting
  <2>4. ASSUME NEW q \in Proc, Changing(q, k) PROVE Changing(q, k)'
    <3>1. CASE q # p
      BY <2>4, <3>1 DEF Apart, Others, Changing
    <3>2. CASE q = p
      BY <1>1, <2>4, <3>2 DEF Changing
    <3> QED
      BY <3>1, <3>2
  <2> QED
    BY <2>2, <2>3, <2>4 DEF StoreInv, MapInv
<1>2. \A k \in Key : (\A r, s \in Found(k)' : r = s) /\ (Agree(k)' \/ \E q \in Proc : Changing(q, k)')
  BY <1>1
<1>3. \A q \in Proc : OpAt(q)' /\ Keeps(q)'
  BY OthersKeep
<1>4. \A q \in Proc \ dead' : Story(q)'
  BY OthersStory DEF Apart
<1> QED
  BY <1>2, <1>3, <1>4 DEF MapInv

-----------------------------------------------------------------------------
(* One lemma for each kind of step.                                        *)

\* Steps that go on to the next place with the same record.
Onward ==
  {<<"lock", "head">>, <<"del_lock", "del_dat">>, <<"ff_lock", "ff_head">>,
   <<"nx_lock", "nx_read">>, <<"app_datlock", "app_dat">>, <<"app_idxlock", "app_idx">>,
   <<"del_free", "del_idx">>, <<"del_unlock", "unlock">>, <<"del_unlock", "relink">>,
   <<"link", "ff_lock">>, <<"relink", "app_datlock">>, <<"ff_walk", "ff_unlock">>,
   <<"ff_unlock", "app_datlock">>, <<"ff_unlock", "re_dat">>,
   <<"app_datunlock", "app_idxlock">>, <<"app_idxunlock", "pub">>}

\* They keep what p knows.
LEMMA OwnOnward ==
  ASSUME StoreInv, NEW p \in Proc, p \notin dead, Apart(p), Quiet(p), UNCHANGED <<dat, kv>>,
         call'[p] = call[p], ret'[p] = ret[p],
         h'[p].idxoff = h[p].idxoff, h'[p].datoff = h[p].datoff,
         <<pc[p], pc'[p]>> \in Onward,
         pc[p] = "ff_walk" => ~ Taken(p)',
         pc[p] = "del_unlock" => pc'[p] = IF call[p].op = "delete" THEN "unlock" ELSE "relink"
  PROVE  OpAt(p)' /\ Keeps(p)' /\ Story(p)' /\ \A k \in Key : Changing(p, k) => Changing(p, k)'
<1> TypeOK
  BY DEF StoreInv, DbInv
<1>1. OpAt(p) /\ Keeps(p) /\ Story(p)
  BY DEF StoreInv, MapInv
<1>2. OpAt(p)'
  BY <1>1 DEF Onward, OpAt, Scanning, KeyedOps, StoreOps, Deleting, Searching, Finding, Appending
<1>3. Taken(p)' => Taken(p)
  BY DEF Quiet
<1>4. rec' = rec /\ \A k : Found(k)' = Found(k)
  BY FoundQuiet
<1>5. Keeps(p)'
  <2>1. Taken(p)' /\ pc'[p] \in {"ff_unlock", "re_dat", "re_idx", "del_push"} =>
          rec'[h'[p].idxoff].key = Blank
    BY <1>1, <1>3, <1>4 DEF Onward, Keeps, Taken
  <2>2. pc'[p] \in {"app_idxunlock", "pub"} =>
          rec'[h'[p].idxoff].key = call'[p].key /\ h'[p].datoff = rec'[h'[p].idxoff].datoff
    BY <1>1, <1>4 DEF Onward, Keeps
  <2>3. pc'[p] = "re_idx" \/ Appends(p)' \/ pc'[p] \in {"app_idxunlock", "pub"} =>
          dat'[h'[p].datoff].val = call'[p].val
    BY <1>1 DEF Onward, Keeps, Appends
  <2> QED
    BY <2>1, <2>2, <2>3 DEF Keeps
<1>6. Found(call[p].key)' = Found(call[p].key)
  BY <1>4 DEF Found
<1>7. Met(p)'
  BY <1>1, <1>4, <1>6 DEF Story, Met, Onward, Meeting, Searching, Finding, Absent, Appending
<1>8. Has(p)'
  <2>1. Has(p) /\ OpAt(p)
    BY <1>1 DEF Story
  <2> QED
    BY <2>1 DEF Has, OpAt, Onward, Meeting, Searching, Finding, Absent, Appending
<1>9. NoResult(p)' /\ Ahead(p)' /\ Scans(p)'
  BY <1>1 DEF Story, NoResult, Ahead, Scans, Onward, Scanning
<1>10. \A k \in Key : Changing(p, k) => Changing(p, k)'
  BY <1>1 DEF Changing, Onward, StoreOps, Absent, Appending, Quiet, OpAt
<1> QED
  BY <1>2, <1>5, <1>7, <1>8, <1>9, <1>10 DEF Story

\* A walk along the free list.
LEMMA OwnFind ==
  ASSUME StoreInv, NEW p \in Proc, p \notin dead, Apart(p), Quiet(p), UNCHANGED <<dat, kv>>,
         call'[p] = call[p], ret'[p] = ret[p],
         pc[p] \in {"ff_head", "ff_walk"}, pc'[p] \in {"ff_walk", "ff_take"}
  PROVE  OpAt(p)' /\ Keeps(p)' /\ Story(p)' /\ \A k \in Key : Changing(p, k) => Changing(p, k)'
<1>1. OpAt(p) /\ Keeps(p) /\ Story(p)
  BY DEF StoreInv, MapInv
<1>2. OpAt(p)'
  BY <1>1 DEF OpAt, Scanning, KeyedOps, StoreOps, Deleting, Searching, Finding, Appending
<1>3. Keeps(p)'
  BY DEF Keeps, Taken, Appends
<1>4. Found(call[p].key)' = Found(call[p].key)
  <2>1. rec' = rec /\ Listed' = Listed
    BY QuietLists DEF Quiet, Listed
  <2> QED
    BY <2>1 DEF Found
<1>5. Met(p)' /\ Has(p)'
  BY <1>1, <1>4 DEF Story, Met, Has, Meeting, Searching, Finding, Absent, Appending
<1>6. NoResult(p)' /\ Ahead(p)' /\ Scans(p)'
  BY <1>1 DEF Story, NoResult, Ahead, Scans, Scanning
<1>7. \A k \in Key : ~ Changing(p, k)
  BY DEF Changing, Absent, Appending
<1> QED
  BY <1>2, <1>3, <1>5, <1>6, <1>7 DEF Story

\* Entering and leaving a call, and scanning.
LEMMA OwnOutside ==
  ASSUME StoreInv, NEW p \in Proc, p \notin dead, Apart(p), Quiet(p), UNCHANGED <<dat, kv>>,
         pc'[p] \in Scanning \cup {"idle", "closed", "lock", "unlock"},
         pc'[p] \in {"idle", "closed"} <=> call'[p] = NoCall,
         pc'[p] \in Scanning => call'[p].op = "nextrec",
         pc'[p] \in {"lock", "unlock"} => call'[p].op \in KeyedOps,
         pc'[p] \in {"idle", "lock"} => ret'[p] = NoRet,
         Scans(p)',
         pc[p] \in {"idle", "walk", "readdat", "unlock"} \cup Scanning
  PROVE  OpAt(p)' /\ Keeps(p)' /\ Story(p)' /\ \A k \in Key : Changing(p, k) => Changing(p, k)'
<1>2. OpAt(p)'
  BY DEF OpAt, Scanning, KeyedOps, StoreOps, Deleting, Searching, Finding, Appending
<1>3. Keeps(p)'
  BY DEF Keeps, Taken, Appends, Scanning
<1>4. Met(p)' /\ Has(p)'
  BY DEF Met, Has, Meeting, Searching, Finding, Absent, Appending, Scanning
<1>5. NoResult(p)' /\ Ahead(p)'
  BY DEF NoResult, Ahead, Scanning
<1>6. \A k \in Key : ~ Changing(p, k)
  BY DEF Changing, Absent, Appending, Scanning
<1> QED
  BY <1>2, <1>3, <1>4, <1>5, <1>6 DEF Story

\* The records of a key are in its chain.
LEMMA FoundIn ==
  ASSUME TypeOK, NEW k \in Key, NEW x \in Found(k)
  PROVE  x \in Allocated \ Held /\ rec[x].key = k /\ x \in In(Hash[k])
<1>1. x \in Allocated \ Held /\ rec[x].key = k
  BY DEF Found, Listed
<1>2. x \in Fields /\ ~ (x <= NHash)
  BY <1>1, CellFacts, DbAssumption DEF Allocated, FirstRec, TypeOK
<1>3. Home(x) = Hash[k]
  BY <1>1, <1>2, DbAssumption DEF Home
<1> QED
  BY <1>1, <1>2, <1>3 DEF In

\* The records that are still to come for a process that walks on.
LEMMA AheadAfter ==
  ASSUME NEW p \in Proc, NEW k, NEW c, call'[p].key = k, Chain(p)' = c,
         Found(k)' = Found(k), SameList(c),
         \A x \in Found(k) : Leads(Nexts, In(c), h'[p].offset, x)
  PROVE  Ahead(p)'
<1>1. \A x \in Found(k) : Leads(Nexts', In(c), h'[p].offset, x)
  BY LeadsSame DEF SameList
<1>2. Found(call[p].key)' = Found(k) /\ In(Chain(p))' = In(c)
  BY DEF SameList, Found, In
<1> QED
  BY <1>1, <1>2 DEF Ahead

\* The beginning of the walk: the records of the key are behind the head.
LEMMA OwnReadHead ==
  ASSUME StoreInv, NEW p \in Proc, p \notin dead, Apart(p), Quiet(p), ReadHead(p), UNCHANGED kv
  PROVE  OpAt(p)' /\ Keeps(p)' /\ Story(p)' /\ \A k \in Key : Changing(p, k) => Changing(p, k)'
<1> DbInv /\ TypeOK /\ LockInv /\ ListInv /\ GraphInv
  BY DEF StoreInv, DbInv
<1>0. PICK k, c : k = call[p].key /\ c = Chain(p)
  OBVIOUS
<1>1. /\ pc[p] = "head" /\ pc'[p] = "walk" /\ call' = call /\ ret' = ret
      /\ h'[p] = [h[p] EXCEPT !.offset = ptr[h[p].ptroff], !.pos = 0] /\ h[p] \in Handle
  BY DEF ReadHead, Goto, Local, TypeOK
<1>2. InChain(p) /\ k \in Key /\ c \in 1..NHash /\ c = Hash[k] /\ h[p].ptroff = c
  BY <1>0, <1>1, InCallKey DEF InChain, Reading, Chain, ListInv, Know, KnowPlace
<1>3. h'[p].offset = ptr[c]
  BY <1>1, <1>2 DEF Handle
<1>4. c \in 0..NHash /\ c \in Cell /\ c \in In(c) /\ c \notin Allocated /\ ptr[c] \in Cell
      /\ Nexts[c] = {ptr[c]}
  <2>1. c \in 0..NHash
    BY <1>2, DbAssumption
  <2>2. c \in Cell /\ c \in In(c) /\ c \notin Allocated
    BY <2>1, HeadsIn
  <2>3. Nexts[c] = {ptr[c]}
    BY <1>0, <1>1, <1>2, <2>1, <2>2, SettledNexts
  <2> QED
    BY <2>1, <2>2, <2>3 DEF TypeOK
<1>5. ASSUME NEW x \in Found(k) PROVE Leads(Nexts, In(c), ptr[c], x)
  <2>1. x \in In(c) /\ x # c
    BY <1>2, <1>4, FoundIn
  <2>2. Leads(Nexts, In(c), c, x)
    BY <1>4, <2>1 DEF GraphInv, Whole
  <2> QED
    BY <1>4, <2>1, <2>2, LeadsBehind
<1>6. Found(k)' = Found(k) /\ SameList(c)
  BY <1>1, <1>2, FoundQuiet, GraphQuiet DEF GraphStep, Writing, Deleting, Finding, Appending
<1>7. Ahead(p)'
  <2>1. call'[p].key = k /\ Chain(p)' = c
    BY <1>0, <1>1 DEF Chain
  <2> QED
    BY <1>3, <1>5, <1>6, <2>1, AheadAfter
<1>8. OpAt(p) /\ NoResult(p)
  BY DEF StoreInv, MapInv, Story
<1>9. OpAt(p)'
  BY <1>1, <1>8 DEF OpAt, Scanning, KeyedOps, StoreOps, Deleting, Searching, Finding, Appending
<1>10. Keeps(p)' /\ Met(p)' /\ Has(p)' /\ Scans(p)'
  BY <1>1 DEF Keeps, Taken, Appends, Met, Has, Scans, Meeting, Searching, Finding, Absent, Appending
<1>11. NoResult(p)'
  BY <1>1, <1>8 DEF NoResult, Scanning
<1>12. \A k_1 \in Key : ~ Changing(p, k_1)
  BY <1>1 DEF Changing, Absent, Appending
<1> QED
  BY <1>7, <1>9, <1>10, <1>11, <1>12 DEF Story

\* The walk goes past a record with another key.
LEMMA OwnWalkNext ==
  ASSUME StoreInv, NEW p \in Proc, p \notin dead, Apart(p), Quiet(p), WalkNext(p), UNCHANGED kv
  PROVE  OpAt(p)' /\ Keeps(p)' /\ Story(p)' /\ \A k \in Key : Changing(p, k) => Changing(p, k)'
<1> DbInv /\ TypeOK /\ LockInv /\ ListInv /\ GraphInv
  BY DEF StoreInv, DbInv
<1>0. PICK k, c, r : k = call[p].key /\ c = Chain(p) /\ r = h[p].offset
  OBVIOUS
<1>1. /\ pc[p] = "walk" /\ pc'[p] = "walk" /\ call' = call /\ ret' = ret
      /\ r # 0 /\ rec[r].key # k
      /\ h'[p] = [ReadIdx(p, r) EXCEPT !.ptroff = r, !.offset = ptr[r]] /\ h[p] \in Handle
  BY <1>0 DEF WalkNext, Local, TypeOK
<1>2. InChain(p) /\ k \in Key /\ c \in 1..NHash /\ c = Hash[k]
  BY <1>0, <1>1, InCallKey DEF InChain, Reading, Chain
<1>3. h'[p].offset = ptr[r]
  BY <1>1 DEF ReadIdx, Handle
<1>4. r \in Allocated \ Held /\ Home(r) = c /\ r \in Cell /\ r \in In(c) /\ ptr[r] \in Cell
  BY <1>0, <1>1, WalkFacts, CellFacts DEF In, TypeOK, Settled
<1>5. Nexts[r] = {ptr[r]}
  <2>1. c \in 0..NHash
    BY <1>2, DbAssumption
  <2> QED
    BY <1>0, <1>1, <1>2, <1>4, <2>1, SettledNexts
<1>6. ASSUME NEW x \in Found(k) PROVE Leads(Nexts, In(c), ptr[r], x)
  <2>1. x # r
    BY <1>1, <1>2, FoundIn
  <2>2. Leads(Nexts, In(c), r, x)
    BY <1>0, <1>1 DEF StoreInv, MapInv, Story, Ahead
  <2> QED
    BY <1>4, <1>5, <2>1, <2>2, LeadsBehind
<1>7. Found(k)' = Found(k) /\ SameList(c)
  BY <1>1, <1>2, FoundQuiet, GraphQuiet DEF GraphStep, Writing, Deleting, Finding, Appending
<1>8. Ahead(p)'
  <2>1. call'[p].key = k /\ Chain(p)' = c
    BY <1>0, <1>1 DEF Chain
  <2> QED
    BY <1>3, <1>6, <1>7, <2>1, AheadAfter
<1>9. OpAt(p) /\ NoResult(p)
  BY DEF StoreInv, MapInv, Story
<1>10. OpAt(p)'
  BY <1>1, <1>9 DEF OpAt, Scanning, KeyedOps, StoreOps, Deleting, Searching, Finding, Appending
<1>11. Keeps(p)' /\ Met(p)' /\ Has(p)' /\ Scans(p)'
  BY <1>1 DEF Keeps, Taken, Appends, Met, Has, Scans, Meeting, Searching, Finding, Absent, Appending
<1>12. NoResult(p)'
  BY <1>1, <1>9 DEF NoResult, Scanning
<1>13. \A k_1 \in Key : ~ Changing(p, k_1)
  BY <1>1 DEF Changing, Absent, Appending
<1> QED
  BY <1>8, <1>10, <1>11, <1>12, <1>13 DEF Story

\* Where the walk stands: at a record of the key, or past all of them.
LEMMA WalkMeets ==
  ASSUME StoreInv, NEW p \in Proc, p \notin dead, pc[p] = "walk"
  PROVE  LET r == h[p].offset
             k == call[p].key
         IN  /\ k \in Key /\ InChain(p)
             /\ Agree(k)
             /\ r # 0 => r \in Listed
             /\ r = 0 => Found(k) = {}
<1> DbInv /\ TypeOK /\ LockInv /\ ListInv
  BY DEF StoreInv, DbInv
<1>0. PICK k, c, r : k = call[p].key /\ c = Chain(p) /\ r = h[p].offset
  OBVIOUS
<1>1. InChain(p) /\ k \in Key /\ c \in 1..NHash /\ c = Hash[k]
  BY <1>0, InCallKey DEF InChain, Reading, Chain
<1>2. Agree(k)
  BY <1>0, <1>1, OnlyMine DEF Changing, Absent, Appending
<1>3. r # 0 => r \in Listed
  BY <1>0, WalkFacts DEF Listed, Settled
<1>4. ASSUME r = 0, NEW x \in Found(k) PROVE FALSE
  <2>0. Ahead(p)
    BY DEF StoreInv, MapInv, Story
  <2>1. Leads(Nexts, In(c), 0, x)
    BY <1>0, <1>4, <2>0 DEF Ahead
  <2>2. 0 \notin In(c) /\ 0 \in Cell
    BY <1>1, CellFacts DEF In, FREE
  <2>3. x \in {0}
    BY <2>1, <2>2 DEF Leads, Closed
  <2> QED
    BY <1>1, <2>3, FoundIn, CellFacts
<1> QED
  BY <1>0, <1>1, <1>2, <1>3, <1>4

\* The walk has come to the record of the key.
LEMMA OwnWalkHit ==
  ASSUME StoreInv, NEW p \in Proc, p \notin dead, Apart(p), Quiet(p), WalkHit(p), UNCHANGED kv
  PROVE  OpAt(p)' /\ Keeps(p)' /\ Story(p)' /\ \A k \in Key : Changing(p, k) => Changing(p, k)'
<1> DbInv /\ TypeOK
  BY DEF StoreInv, DbInv
<1>0. PICK k, r : k = call[p].key /\ r = h[p].offset
  OBVIOUS
<1>1. /\ pc[p] = "walk" /\ call' = call /\ r # 0 /\ rec[r].key = k
      /\ pc'[p] = AfterHit(p, r)
      /\ ret' = [ret EXCEPT ![p].rc = IF call[p].op = "insert" THEN 1 ELSE 0]
      /\ h'[p] = ReadIdx(p, r) /\ h[p] \in Handle
  BY <1>0 DEF WalkHit, Local, Goto, TypeOK
<1>2. h'[p].idxoff = r /\ h'[p].datoff = rec[r].datoff
  BY <1>1 DEF ReadIdx, Handle
<1>3. k \in Key /\ Agree(k) /\ r \in Found(k)
  BY <1>0, <1>1, WalkMeets DEF Found
<1>4. rec' = rec /\ Found(k)' = Found(k)
  BY FoundQuiet
<1>5. kv[k] # NoVal
  BY <1>3 DEF Agree
<1>6. OpAt(p) /\ NoResult(p)
  BY DEF StoreInv, MapInv, Story
<1>7. /\ call[p].op \in KeyedOps
      /\ pc'[p] \in {"readdat", "unlock", "del_lock", "over"}
      /\ pc'[p] = "readdat" => call[p].op = "fetch"
      /\ pc'[p] = "unlock" => call[p].op = "insert"
      /\ pc'[p] = "over" => call[p].op \in {"replace", "store"}
      /\ pc'[p] = "del_lock" => call[p].op \in {"delete", "replace", "store"}
  BY <1>1, <1>6 DEF AfterHit, OpAt, Scanning, KeyedOps, StoreOps
<1>8. OpAt(p)'
  BY <1>1, <1>6, <1>7 DEF OpAt, Scanning, Deleting, Searching, Finding, Appending
<1>9. Keeps(p)' /\ Ahead(p)' /\ Scans(p)'
  BY <1>7 DEF Keeps, Taken, Appends, Ahead, Scans
<1>10. Met(p)'
  <2>1. Found(call[p].key)' = Found(k)
    BY <1>0, <1>1, <1>4 DEF Found
  <2> QED
    BY <1>2, <1>3, <1>4, <1>7, <2>1 DEF Met, Searching, Finding, Absent, Appending
<1>11. Has(p)'
  BY <1>0, <1>1, <1>5, <1>7 DEF Has, Searching, Finding, Absent, Appending
<1>12. NoResult(p)'
  <2>1. ret[p] = NoRet
    BY <1>1, <1>6 DEF NoResult, Scanning
  <2>2. call[p].op # "insert" => ret'[p] = NoRet
    BY <1>1, <2>1 DEF TypeOK, NoRet
  <2> QED
    BY <1>7, <2>2 DEF NoResult
<1>13. \A k_1 \in Key : ~ Changing(p, k_1)
  BY <1>1 DEF Changing, Absent, Appending
<1> QED
  BY <1>8, <1>9, <1>10, <1>11, <1>12, <1>13 DEF Story

\* The walk has come to the end: there is no record of the key.
LEMMA OwnWalkEnd ==
  ASSUME StoreInv, NEW p \in Proc, p \notin dead, Apart(p), Quiet(p), WalkEnd(p), UNCHANGED kv
  PROVE  OpAt(p)' /\ Keeps(p)' /\ Story(p)' /\ \A k \in Key : Changing(p, k) => Changing(p, k)'
<1> DbInv /\ TypeOK
  BY DEF StoreInv, DbInv
<1>0. PICK k, goesOn : k = call[p].key /\ goesOn = (call[p].op \in {"insert", "store"})
  OBVIOUS
<1>1. /\ pc[p] = "walk" /\ call' = call /\ h[p].offset = 0
      /\ pc'[p] = IF goesOn THEN "link" ELSE "unlock"
      /\ ret' = [ret EXCEPT ![p].rc = IF goesOn THEN 0 ELSE -1]
  BY <1>0 DEF WalkEnd, Local, Goto, TypeOK
<1>3. k \in Key /\ Agree(k) /\ Found(k) = {}
  BY <1>0, <1>1, WalkMeets
<1>4. Found(k)' = Found(k)
  BY FoundQuiet
<1>5. kv[k] = NoVal
  BY <1>3 DEF Agree
<1>6. OpAt(p) /\ NoResult(p)
  BY DEF StoreInv, MapInv, Story
<1>7. /\ call[p].op \in KeyedOps
      /\ pc'[p] \in {"link", "unlock"}
      /\ pc'[p] = "link" => goesOn
  BY <1>1, <1>6 DEF OpAt, Scanning
<1>8. OpAt(p)'
  BY <1>0, <1>1, <1>6, <1>7 DEF OpAt, Scanning, Deleting, Searching, Finding, Appending
<1>9. Keeps(p)' /\ Ahead(p)' /\ Scans(p)'
  BY <1>7 DEF Keeps, Taken, Appends, Ahead, Scans
<1>10. Met(p)'
  <2>1. Found(call[p].key)' = Found(k)
    BY <1>0, <1>1, <1>4 DEF Found
  <2> QED
    BY <1>3, <1>7, <2>1 DEF Met, Meeting
<1>11. Has(p)'
  BY <1>0, <1>1, <1>5, <1>7 DEF Has, Meeting, Absent, Appending
<1>12. NoResult(p)'
  <2>1. ret[p] = NoRet
    BY <1>1, <1>6 DEF NoResult, Scanning
  <2>2. goesOn => ret'[p] = NoRet
    BY <1>1, <2>1 DEF TypeOK, NoRet
  <2> QED
    BY <1>7, <2>2 DEF NoResult
<1>13. \A k_1 \in Key : ~ Changing(p, k_1)
  BY <1>1 DEF Changing, Absent, Appending
<1> QED
  BY <1>8, <1>9, <1>10, <1>11, <1>12, <1>13 DEF Story

\* A deleted record is wiped, and taken out of the chain.
LEMMA OwnDelDat ==
  ASSUME StoreInv, NEW p \in Proc, p \notin dead, Apart(p), Quiet(p), DelDat(p), UNCHANGED kv
  PROVE  /\ OpAt(p)' /\ Keeps(p)' /\ Story(p)'
         /\ \A k \in Key : k = call[p].key =>
              (\A r, s \in Found(k)' : r = s) /\ Changing(p, k)'
<1> TypeOK
  BY DEF StoreInv, DbInv
<1>1. pc[p] = "del_dat" /\ pc'[p] = "del_free" /\ UNCHANGED <<call, h, ret>>
  BY DEF DelDat, Goto, TypeOK
<1>2. OpAt(p) /\ Story(p)
  BY DEF StoreInv, MapInv
<1>3. OpAt(p)'
  BY <1>1, <1>2 DEF OpAt, Scanning, Deleting, Searching, Finding, Appending
<1>4. Keeps(p)' /\ Ahead(p)' /\ Scans(p)'
  BY <1>1 DEF Keeps, Taken, Appends, Ahead, Scans
<1>5. rec' = rec /\ Found(call[p].key)' = Found(call[p].key)
  BY <1>1, FoundQuiet DEF Found
<1>6. Met(p)' /\ Has(p)' /\ NoResult(p)'
  BY <1>1, <1>2, <1>5 DEF Story, Met, Has, NoResult, Meeting, Searching, Finding, Absent, Appending, Scanning
<1>7. ASSUME NEW k \in Key, k = call[p].key PROVE (\A r, s \in Found(k)' : r = s) /\ Changing(p, k)'
  <2>1. Found(k)' = Found(k)
    BY FoundQuiet
  <2>2. \A r, s \in Found(k) : r = s
    BY DEF StoreInv, MapInv
  <2>3. Changing(p, k)'
    BY <1>1, <1>7 DEF Changing, Quiet
  <2> QED
    BY <2>1, <2>2, <2>3
<1> QED
  BY <1>3, <1>4, <1>6, <1>7 DEF Story

\* The key of the record is blanked: from here on the key has no record.
LEMMA OwnDelIdx ==
  ASSUME StoreInv, NEW p \in Proc, p \notin dead, Apart(p), DelIdx(p), ~ Die(p), UNCHANGED kv
  PROVE  /\ OpAt(p)' /\ Keeps(p)' /\ Story(p)'
         /\ \A k \in Key : k = call[p].key =>
              (\A r, s \in Found(k)' : r = s) /\ Changing(p, k)'
<1> DbInv /\ TypeOK
  BY DEF StoreInv, DbInv
<1>0. PICK k, r : k = call[p].key /\ r = h[p].idxoff
  OBVIOUS
<1>1. /\ pc[p] = "del_idx" /\ pc'[p] = "del_push" /\ UNCHANGED <<call, ret, dead>>
      /\ h'[p] = [h[p] EXCEPT !.ptrval = h[p].freeptr] /\ h[p] \in Handle
  BY DEF DelIdx, Goto, TypeOK
<1>2. OpAt(p) /\ Story(p) /\ k \in Key
  BY <1>0, <1>1, InCallKey DEF StoreInv, MapInv
<1>3. OpAt(p)'
  BY <1>1, <1>2 DEF OpAt, Scanning, Deleting, Searching, Finding, Appending
<1>4. h'[p].idxoff = r /\ rec'[r].key = Blank
  BY <1>0, <1>1, ListDelIdx DEF Handle
<1>5. Keeps(p)' /\ Ahead(p)' /\ Scans(p)'
  BY <1>1, <1>4 DEF Keeps, Taken, Appends, Ahead, Scans
<1>6. Found(k)' = {}
  <2>1. r \in Found(k)
    BY <1>0, <1>1, <1>2 DEF Story, Met, Meeting
  <2>2. \A x, y \in Found(k) : x = y
    BY <1>2 DEF StoreInv, MapInv
  <2>3. Found(k)' = Found(k) \ {r}
    BY <1>0, <1>2, FoundAfter DEF WritesIdx
  <2> QED
    BY <2>1, <2>2, <2>3
<1>7. Met(p)'
  <2>1. Found(call[p].key)' = {}
    BY <1>0, <1>1, <1>6 DEF Found
  <2> QED
    BY <1>1, <2>1 DEF Met, Meeting
<1>8. Has(p)' /\ NoResult(p)'
  BY <1>1, <1>2 DEF Story, Has, NoResult, Meeting, Searching, Finding, Absent, Appending, Scanning
<1>9. Changing(p, k)'
  BY <1>0, <1>1 DEF Changing
<1> QED
  BY <1>0, <1>3, <1>5, <1>6, <1>7, <1>8, <1>9 DEF Story

\* The record becomes the head of the free list.
LEMMA OwnDelPush ==
  ASSUME StoreInv, NEW p \in Proc, p \notin dead, Apart(p), DelPush(p), ~ Die(p), UNCHANGED kv
  PROVE  OpAt(p)' /\ Keeps(p)' /\ Story(p)' /\ \A k \in Key : Changing(p, k) => Changing(p, k)'
<1> TypeOK
  BY DEF StoreInv, DbInv
<1>0. PICK k : k = call[p].key
  OBVIOUS
<1>1. pc[p] = "del_push" /\ pc'[p] = "del_link" /\ UNCHANGED <<call, h, ret, dead>>
  BY DEF DelPush, WritePtr, Goto, TypeOK
<1>2. OpAt(p) /\ Story(p) /\ k \in Key
  BY <1>0, <1>1, InCallKey DEF StoreInv, MapInv
<1>3. OpAt(p)'
  BY <1>1, <1>2 DEF OpAt, Scanning, Deleting, Searching, Finding, Appending
<1>4. Keeps(p)' /\ Ahead(p)' /\ Scans(p)'
  BY <1>1 DEF Keeps, Taken, Appends, Ahead, Scans
<1>5. Found(k)' = {}
  <2>1. Found(k)' = Found(k)
    BY <1>2, FoundAfter DEF WritesIdx, DelPush, DelIdx, Publish
  <2> QED
    BY <1>0, <1>1, <1>2, <2>1 DEF Story, Met
<1>6. Met(p)'
  <2>1. Found(call[p].key)' = {}
    BY <1>0, <1>1, <1>5 DEF Found
  <2> QED
    BY <1>1, <2>1 DEF Met, Meeting
<1>7. Has(p)' /\ NoResult(p)'
  BY <1>1, <1>2 DEF Story, Has, NoResult, Meeting, Searching, Finding, Absent, Appending, Scanning
<1>8. \A k_1 \in Key : Changing(p, k_1) => Changing(p, k_1)'
  BY <1>1 DEF Changing
<1> QED
  BY <1>3, <1>4, <1>6, <1>7, <1>8 DEF Story

\* The record is out of its chain: a delete has taken effect.
LEMMA OwnDelLink ==
  ASSUME StoreInv, NEW p \in Proc, p \notin dead, Apart(p), DelLink(p), ~ Die(p), kv' = Effect(p)
  PROVE  /\ OpAt(p)' /\ Keeps(p)' /\ Story(p)'
         /\ \A k \in Key : k = call[p].key =>
              (\A r, s \in Found(k)' : r = s) /\ (Agree(k)' \/ Changing(p, k)')
<1> TypeOK
  BY DEF StoreInv, DbInv
<1>0. PICK k : k = call[p].key
  OBVIOUS
<1>1. pc[p] = "del_link" /\ pc'[p] = "del_unlock" /\ UNCHANGED <<call, ret, dead>>
  BY DEF DelLink, WritePtr, Goto, TypeOK
<1>2. OpAt(p) /\ Story(p) /\ k \in Key
  BY <1>0, <1>1, InCallKey DEF StoreInv, MapInv
<1>3. OpAt(p)'
  BY <1>1, <1>2 DEF OpAt, Scanning, Deleting, Searching, Finding, Appending
<1>4. Keeps(p)' /\ Ahead(p)' /\ Scans(p)'
  BY <1>1 DEF Keeps, Taken, Appends, Ahead, Scans
<1>5. Found(k)' = {}
  <2>1. Found(k)' = Found(k)
    BY <1>2, FoundAfter DEF WritesIdx, DelLink, DelIdx, Publish
  <2> QED
    BY <1>0, <1>1, <1>2, <2>1 DEF Story, Met
<1>6. Met(p)'
  <2>1. Found(call[p].key)' = {}
    BY <1>0, <1>1, <1>5 DEF Found
  <2> QED
    BY <1>1, <2>1 DEF Met, Meeting
<1>7. kv'[k] = IF call[p].op = "delete" THEN NoVal ELSE kv[k]
  <2>1. kv \in [Key -> Val \cup {NoVal}]
    BY DEF StoreInv, MapInv
  <2> QED
    BY <1>0, <1>1, <1>2, <2>1, EffectOf
<1>8. Has(p)' /\ NoResult(p)'
  BY <1>0, <1>1, <1>2, <1>7
     DEF Story, OpAt, Has, NoResult, Meeting, Searching, Finding, Absent, Appending, Scanning, Deleting
<1>9. Agree(k)' \/ Changing(p, k)'
  <2>1. CASE call[p].op = "delete"
    BY <1>5, <1>7, <2>1 DEF Agree
  <2>2. CASE call[p].op # "delete"
    BY <1>0, <1>1, <1>2, <2>2 DEF Changing, OpAt, Deleting, StoreOps, Absent
  <2> QED
    BY <2>1, <2>2
<1> QED
  BY <1>0, <1>3, <1>4, <1>5, <1>6, <1>8, <1>9 DEF Story

\* New data over the old ones.
LEMMA OwnOverwrite ==
  ASSUME StoreInv, NEW p \in Proc, p \notin dead, Apart(p), Quiet(p), Overwrite(p), kv' = Effect(p)
  PROVE  /\ OpAt(p)' /\ Keeps(p)' /\ Story(p)'
         /\ \A k \in Key : k = call[p].key => (\A r, s \in Found(k)' : r = s) /\ Agree(k)'
<1> TypeOK
  BY DEF StoreInv, DbInv
<1>0. PICK k, r : k = call[p].key /\ r = h[p].idxoff
  OBVIOUS
<1>1. /\ pc[p] = "over" /\ pc'[p] = "unlock" /\ UNCHANGED <<call, h, ret, dead>>
      /\ dat' = [dat EXCEPT ![h[p].datoff] = NewDat(p)]
  BY DEF Overwrite, Goto, TypeOK
<1>2. OpAt(p) /\ Story(p) /\ k \in Key /\ call[p].val \in Val
  BY <1>0, <1>1, InCallKey DEF StoreInv, MapInv, Call
<1>3. OpAt(p)'
  BY <1>1, <1>2 DEF OpAt, Scanning, Deleting, Searching, Finding, Appending
<1>4. Keeps(p)' /\ Ahead(p)' /\ Scans(p)' /\ Met(p)' /\ Has(p)' /\ NoResult(p)'
  BY <1>1 DEF Keeps, Taken, Appends, Ahead, Scans, Met, Has, NoResult, Meeting, Searching,
     Finding, Absent, Appending
<1>5. r \in Found(k) /\ h[p].datoff = rec[r].datoff
  BY <1>0, <1>1, <1>2 DEF Story, Met, Meeting
<1>6. kv'[k] = call[p].val
  <2>1. kv \in [Key -> Val \cup {NoVal}]
    BY DEF StoreInv, MapInv
  <2> QED
    BY <1>0, <1>1, <1>2, <2>1, EffectOf
<1>7. rec' = rec /\ Found(k)' = Found(k)
  BY FoundQuiet
<1>8. dat'[rec[r].datoff].val = call[p].val
  <2>1. h[p].datoff \in Slot
    BY DEF TypeOK, Handle
  <2> QED
    BY <1>1, <1>5, <2>1 DEF TypeOK, NewDat
<1>9. Agree(k)'
  BY <1>2, <1>5, <1>6, <1>7, <1>8, NoValAssumption DEF Agree, DataOf
<1>10. \A x, y \in Found(k) : x = y
  BY <1>2 DEF StoreInv, MapInv
<1> QED
  BY <1>0, <1>3, <1>4, <1>7, <1>9, <1>10 DEF Story

\* A record from the free list, and the new one that is written over it.
LEMMA OwnFfTake ==
  ASSUME StoreInv, NEW p \in Proc, p \notin dead, Apart(p), FfTake(p), ~ Die(p), UNCHANGED kv
  PROVE  OpAt(p)' /\ Keeps(p)' /\ Story(p)' /\ \A k \in Key : Changing(p, k) => Changing(p, k)'
<1> DbInv /\ TypeOK
  BY DEF StoreInv, DbInv
<1>0. PICK k : k = call[p].key
  OBVIOUS
<1>1. pc[p] = "ff_take" /\ pc'[p] = "ff_unlock" /\ UNCHANGED <<call, h, ret, rec, dead>>
  BY DEF FfTake, WritePtr, Goto, TypeOK
<1>2. OpAt(p) /\ Story(p) /\ k \in Key
  BY <1>0, <1>1, InCallKey DEF StoreInv, MapInv
<1>3. OpAt(p)'
  BY <1>1, <1>2 DEF OpAt, Scanning, Deleting, Searching, Finding, Appending
<1>4. rec[h[p].idxoff].key = Blank
  BY ListFfTake, BlankIsFree
<1>5. Keeps(p)' /\ Ahead(p)' /\ Scans(p)'
  BY <1>1, <1>4 DEF Keeps, Appends, Ahead, Scans
<1>6. Found(call[p].key)' = Found(call[p].key)
  <2>1. Found(k)' = Found(k)
    BY <1>2, FoundAfter DEF WritesIdx, FfTake, DelIdx, Publish
  <2> QED
    BY <1>0, <1>1, <2>1 DEF Found
<1>7. Met(p)' /\ Has(p)' /\ NoResult(p)'
  BY <1>1, <1>2, <1>6 DEF Story, Met, Has, NoResult, Meeting, Searching, Finding, Absent, Appending, Scanning
<1>8. \A k_1 \in Key : ~ Changing(p, k_1)
  BY <1>1 DEF Changing, Absent, Appending
<1> QED
  BY <1>3, <1>5, <1>7, <1>8 DEF Story

\* The new data go over those of a free record.
LEMMA OwnReuseDat ==
  ASSUME StoreInv, NEW p \in Proc, p \notin dead, Apart(p), Quiet(p), ReuseDat(p), UNCHANGED kv
  PROVE  OpAt(p)' /\ Keeps(p)' /\ Story(p)' /\ \A k \in Key : Changing(p, k) => Changing(p, k)'
<1> TypeOK
  BY DEF StoreInv, DbInv
<1>1. /\ pc[p] = "re_dat" /\ pc'[p] = "re_idx" /\ UNCHANGED <<call, ret>>
      /\ dat' = [dat EXCEPT ![h[p].datoff] = NewDat(p)]
      /\ h'[p] = [h[p] EXCEPT !.datlen = ValLen[call[p].val]] /\ h[p] \in Handle
  BY DEF ReuseDat, Goto, TypeOK
<1>2. OpAt(p) /\ Story(p) /\ Keeps(p)
  BY DEF StoreInv, MapInv
<1>3. OpAt(p)'
  BY <1>1, <1>2 DEF OpAt, Scanning, Deleting, Searching, Finding, Appending
<1>4. h'[p].idxoff = h[p].idxoff /\ h'[p].datoff = h[p].datoff
  BY <1>1 DEF Handle
<1>5. dat'[h[p].datoff].val = call[p].val
  <2>1. h[p].datoff \in Slot
    BY DEF TypeOK, Handle
  <2> QED
    BY <1>1, <2>1 DEF TypeOK, NewDat
<1>6. rec' = rec /\ Found(call[p].key)' = Found(call[p].key)
  BY <1>1, FoundQuiet DEF Found
<1>7. Keeps(p)' /\ Ahead(p)' /\ Scans(p)'
  <2>1. rec[h[p].idxoff].key = Blank
    BY <1>1, <1>2 DEF Keeps, Taken
  <2> QED
    BY <1>1, <1>4, <1>5, <1>6, <2>1 DEF Keeps, Ahead, Scans
<1>8. Met(p)' /\ Has(p)' /\ NoResult(p)'
  BY <1>1, <1>2, <1>6 DEF Story, Met, Has, NoResult, Meeting, Searching, Finding, Absent, Appending, Scanning
<1>9. \A k_1 \in Key : ~ Changing(p, k_1)
  BY <1>1 DEF Changing, Absent, Appending
<1> QED
  BY <1>3, <1>7, <1>8, <1>9 DEF Story

\* The new key goes over that of a free record.
LEMMA OwnReuseIdx ==
  ASSUME StoreInv, NEW p \in Proc, p \notin dead, Apart(p), ReuseIdx(p), ~ Die(p), UNCHANGED kv
  PROVE  OpAt(p)' /\ Keeps(p)' /\ Story(p)' /\ \A k \in Key : Changing(p, k) => Changing(p, k)'
<1> TypeOK
  BY DEF StoreInv, DbInv
<1>0. PICK k : k = call[p].key
  OBVIOUS
<1>1. /\ pc[p] = "re_idx" /\ pc'[p] = "pub" /\ UNCHANGED <<call, ret, dat, dead>>
      /\ rec' = [rec EXCEPT ![h[p].idxoff] =
                   [key |-> call[p].key, keylen |-> KeyLen[call[p].key],
                    datoff |-> h[p].datoff, datlen |-> h[p].datlen]]
      /\ h'[p] = [h[p] EXCEPT !.ptrval = h[p].link] /\ h[p] \in Handle
  BY DEF ReuseIdx, WriteIdx, Goto, TypeOK
<1>2. OpAt(p) /\ Story(p) /\ Keeps(p) /\ k \in Key
  BY <1>0, <1>1, InCallKey DEF StoreInv, MapInv
<1>3. OpAt(p)'
  BY <1>1, <1>2 DEF OpAt, Scanning, Deleting, Searching, Finding, Appending, StoreOps
<1>4. h'[p].idxoff = h[p].idxoff /\ h'[p].datoff = h[p].datoff /\ h[p].idxoff \in Cell
  BY <1>1 DEF Handle
<1>5. Keeps(p)' /\ Ahead(p)' /\ Scans(p)'
  <2>1. dat[h[p].datoff].val = call[p].val
    BY <1>1, <1>2 DEF Keeps
  <2>2. rec'[h[p].idxoff].key = call[p].key /\ rec'[h[p].idxoff].datoff = h[p].datoff
    BY <1>1, <1>4 DEF TypeOK
  <2> QED
    BY <1>1, <1>4, <2>1, <2>2 DEF Keeps, Ahead, Scans
<1>6. Found(call[p].key)' = Found(call[p].key)
  <2>1. Found(k)' = Found(k)
    BY <1>2, FoundAfter DEF WritesIdx, ReuseIdx, DelIdx, Publish
  <2> QED
    BY <1>0, <1>1, <2>1 DEF Found
<1>7. Met(p)' /\ Has(p)' /\ NoResult(p)'
  BY <1>1, <1>2, <1>6 DEF Story, OpAt, Met, Has, NoResult, Meeting, Searching, Finding, Absent, Appending, Scanning
<1>8. \A k_1 \in Key : ~ Changing(p, k_1)
  BY <1>1 DEF Changing, Absent, Appending
<1> QED
  BY <1>3, <1>5, <1>7, <1>8 DEF Story

\* The appends.
LEMMA OwnAppendDat ==
  ASSUME StoreInv, NEW p \in Proc, p \notin dead, Apart(p), Quiet(p), AppendDat(p), ~ Die(p),
         UNCHANGED kv
  PROVE  OpAt(p)' /\ Keeps(p)' /\ Story(p)' /\ \A k \in Key : Changing(p, k) => Changing(p, k)'
<1> TypeOK
  BY DEF StoreInv, DbInv
<1>1. /\ pc[p] = "app_dat" /\ pc'[p] = "app_datunlock" /\ UNCHANGED <<call, ret, dead>>
      /\ dateof < DatMax /\ dat' = [dat EXCEPT ![dateof + 1] = NewDat(p)]
      /\ h'[p] = [h[p] EXCEPT !.datoff = dateof + 1, !.datlen = ValLen[call[p].val]]
      /\ h[p] \in Handle
  BY DEF AppendDat, Goto, TypeOK
<1>2. OpAt(p) /\ Story(p)
  BY DEF StoreInv, MapInv
<1>3. OpAt(p)'
  BY <1>1, <1>2 DEF OpAt, Scanning, Deleting, Searching, Finding, Appending
<1>4. h'[p].datoff = dateof + 1
  BY <1>1 DEF Handle
<1>5. dat'[dateof + 1].val = call[p].val
  <2>1. dateof + 1 \in Slot
    BY <1>1, DbAssumption DEF TypeOK, Slot
  <2> QED
    BY <1>1, <2>1 DEF TypeOK, NewDat
<1>6. Found(call[p].key)' = Found(call[p].key)
  BY <1>1, FoundQuiet DEF Found
<1>7. Keeps(p)' /\ Ahead(p)' /\ Scans(p)'
  BY <1>1, <1>4, <1>5 DEF Keeps, Taken, Ahead, Scans
<1>8. Met(p)' /\ Has(p)' /\ NoResult(p)'
  BY <1>1, <1>2, <1>6 DEF Story, Met, Has, NoResult, Meeting, Searching, Finding, Absent, Appending, Scanning
<1>9. \A k \in Key : Changing(p, k) => Changing(p, k)'
  BY <1>1 DEF Changing, Absent, Appending
<1> QED
  BY <1>3, <1>7, <1>8, <1>9 DEF Story

\* A new index record at the end of the file.
LEMMA OwnAppendIdx ==
  ASSUME StoreInv, NEW p \in Proc, p \notin dead, Apart(p), AppendIdx(p), ~ Die(p), UNCHANGED kv
  PROVE  OpAt(p)' /\ Keeps(p)' /\ Story(p)' /\ \A k \in Key : Changing(p, k) => Changing(p, k)'
<1> TypeOK
  BY DEF StoreInv, DbInv
<1>0. PICK k, r : k = call[p].key /\ r = eof + 1
  OBVIOUS
<1>1. /\ pc[p] = "app_idx" /\ pc'[p] = "app_idxunlock" /\ UNCHANGED <<call, ret, dat, dead>>
      /\ eof < IdxMax
      /\ rec' = [rec EXCEPT ![r] =
                   [key |-> call[p].key, keylen |-> KeyLen[call[p].key],
                    datoff |-> h[p].datoff, datlen |-> h[p].datlen]]
      /\ h'[p] = [h[p] EXCEPT !.idxoff = r, !.ptrval = h[p].link] /\ h[p] \in Handle
  BY <1>0 DEF AppendIdx, WriteIdx, Goto, TypeOK
<1>2. OpAt(p) /\ Story(p) /\ Keeps(p) /\ k \in Key
  BY <1>0, <1>1, InCallKey DEF StoreInv, MapInv
<1>3. OpAt(p)'
  BY <1>1, <1>2 DEF OpAt, Scanning, Deleting, Searching, Finding, Appending
<1>4. h'[p].idxoff = r /\ h'[p].datoff = h[p].datoff /\ r \in Cell
  <2>1. h'[p].idxoff = r /\ h'[p].datoff = h[p].datoff
    BY <1>1 DEF Handle
  <2>2. eof \in NHash..IdxMax /\ NHash \in Nat /\ IdxMax \in Nat /\ eof < IdxMax /\ r = eof + 1
    BY <1>0, <1>1, DbAssumption DEF TypeOK
  <2>3. r \in 0..IdxMax
    BY <2>2
  <2> QED
    BY <2>1, <2>3 DEF Cell
<1>5. Keeps(p)' /\ Ahead(p)' /\ Scans(p)'
  <2>1. dat[h[p].datoff].val = call[p].val
    BY <1>1, <1>2 DEF Keeps, Appends
  <2>2. rec'[r].key = call[p].key /\ rec'[r].datoff = h[p].datoff
    BY <1>1, <1>4 DEF TypeOK
  <2> QED
    BY <1>1, <1>4, <2>1, <2>2 DEF Keeps, Ahead, Scans
<1>6. Found(call[p].key)' = Found(call[p].key)
  <2>1. Found(k)' = Found(k)
    BY <1>2, FoundAfter DEF WritesIdx, AppendIdx, DelIdx, Publish
  <2> QED
    BY <1>0, <1>1, <2>1 DEF Found
<1>7. Met(p)' /\ Has(p)' /\ NoResult(p)'
  BY <1>1, <1>2, <1>6 DEF Story, Met, Has, NoResult, Meeting, Searching, Finding, Absent, Appending, Scanning
<1>8. \A k_1 \in Key : Changing(p, k_1) => Changing(p, k_1)'
  BY <1>1 DEF Changing, Absent, Appending
<1> QED
  BY <1>3, <1>5, <1>7, <1>8 DEF Story

\* The record is put at the head of its chain.
LEMMA OwnPublish ==
  ASSUME StoreInv, NEW p \in Proc, p \notin dead, Apart(p), Publish(p), ~ Die(p), kv' = Effect(p)
  PROVE  /\ OpAt(p)' /\ Keeps(p)' /\ Story(p)'
         /\ \A k \in Key : k = call[p].key => (\A r, s \in Found(k)' : r = s) /\ Agree(k)'
<1> TypeOK
  BY DEF StoreInv, DbInv
<1>0. PICK k, r : k = call[p].key /\ r = h[p].idxoff
  OBVIOUS
<1>1. pc[p] = "pub" /\ pc'[p] = "unlock" /\ UNCHANGED <<call, ret, rec, dat, dead>>
  BY DEF Publish, WritePtr, Goto, TypeOK
<1>2. OpAt(p) /\ Story(p) /\ Keeps(p) /\ k \in Key /\ call[p].val \in Val
  BY <1>0, <1>1, InCallKey DEF StoreInv, MapInv, Call
<1>3. OpAt(p)'
  BY <1>1, <1>2 DEF OpAt, Scanning, Deleting, Searching, Finding, Appending, KeyedOps
<1>4. Keeps(p)' /\ Ahead(p)' /\ Scans(p)' /\ Met(p)' /\ Has(p)' /\ NoResult(p)'
  BY <1>1 DEF Keeps, Taken, Appends, Ahead, Scans, Met, Has, NoResult, Meeting, Searching,
     Finding, Absent, Appending
<1>5. h[p].datoff = rec[r].datoff /\ dat[rec[r].datoff].val = call[p].val
  BY <1>0, <1>1, <1>2 DEF Keeps
<1>6. kv'[k] = call[p].val
  <2>1. kv \in [Key -> Val \cup {NoVal}]
    BY DEF StoreInv, MapInv
  <2> QED
    BY <1>0, <1>1, <1>2, <2>1, EffectOf
<1>7. Found(k)' = {r}
  <2>1. Found(k) = {}
    BY <1>0, <1>1, <1>2 DEF Story, Met, Absent
  <2>2. Found(k)' = Found(k) \cup {r}
    BY <1>0, <1>2, FoundAfter DEF WritesIdx
  <2> QED
    BY <2>1, <2>2
<1>8. Agree(k)'
  BY <1>1, <1>2, <1>5, <1>6, <1>7, NoValAssumption DEF Agree, DataOf
<1> QED
  BY <1>0, <1>3, <1>4, <1>7, <1>8 DEF Story

-----------------------------------------------------------------------------
(* Every step.                                                             *)

\* A scan takes the record it comes to.
LEMMA OwnNextIdx ==
  ASSUME StoreInv, NEW p \in Proc, p \notin dead, Apart(p), Quiet(p), NextIdx(p), UNCHANGED kv
  PROVE  OpAt(p)' /\ Keeps(p)' /\ Story(p)' /\ \A k \in Key : Changing(p, k) => Changing(p, k)'
<1> TypeOK
  BY DEF StoreInv, DbInv
<1>0. PICK r : r = h[p].pos
  OBVIOUS
<1>1. /\ pc[p] = "nx_read" /\ r \in FirstRec..eof /\ h'[p] = ReadIdx(p, r) /\ h[p] \in Handle
      /\ UNCHANGED <<files, call, dead>>
      /\ IF rec[r].key = Blank THEN UNCHANGED <<pc, ret>>
         ELSE pc'[p] = "nx_dat" /\ ret' = [ret EXCEPT ![p].key = rec[r].key]
  BY <1>0 DEF NextIdx, Local, Goto, TypeOK
<1>2. r \in Allocated /\ r \in Cell /\ r \in Int
  BY <1>1, CellFacts DEF Allocated
<1>3. UNCHANGED rec /\ UNCHANGED dat
  BY <1>1 DEF files
<1>4. Allocated' = Allocated
  BY FoundQuiet
<1>5. h'[p].idxoff = r /\ h'[p].datoff = rec[r].datoff
  BY <1>1 DEF ReadIdx, Handle
<1>6. call[p].op = "nextrec"
  BY <1>1 DEF StoreInv, MapInv, OpAt, Scanning
<1>7. pc'[p] \in {"nx_read", "nx_dat"}
  BY <1>1
<1>8. Scans(p)'
  <2>1. ASSUME pc'[p] = "nx_dat" PROVE ret'[p].key = rec[r].key /\ rec[r].key \in Key
    <3>1. rec[r].key # Blank /\ ret' = [ret EXCEPT ![p].key = rec[r].key]
      BY <1>1, <2>1
    <3> QED
      BY <1>2, <3>1 DEF TypeOK
  <2> QED
    BY <1>2, <1>3, <1>4, <1>5, <2>1 DEF Scans
<1>9. call'[p] # NoCall /\ call'[p].op = "nextrec"
  BY <1>1, <1>6 DEF NoCall
<1> QED
  BY <1>1, <1>3, <1>7, <1>8, <1>9, OwnOutside DEF Scanning

\* Entering a call, leaving it, and the other steps of a scan.
LEMMA OwnEnterLeave ==
  ASSUME StoreInv, NEW p \in Proc, p \notin dead, Apart(p), Quiet(p), UNCHANGED <<dat, kv>>, ~ Die(p),
         \/ Begin(p) \/ StoreBadFlag(p) \/ Rewind(p) \/ BeginNextrec(p) \/ Close(p)
         \/ UnlockChain(p) \/ NextUnlock(p) \/ NextEof(p) \/ NextDat(p) \/ FetchDat(p)
  PROVE  OpAt(p)' /\ Keeps(p)' /\ Story(p)' /\ \A k \in Key : Changing(p, k) => Changing(p, k)'
<1> TypeOK
  BY DEF StoreInv, DbInv
<1>0. OpAt(p) /\ NoResult(p)
  BY DEF StoreInv, MapInv, Story
<1>1. CASE Begin(p)
  <2>1. /\ pc[p] = "idle" /\ pc'[p] = "lock" /\ call'[p].op \in KeyedOps /\ ret' = ret
    BY <1>1 DEF Begin, Goto, TypeOK
  <2>2. call'[p] # NoCall /\ ret'[p] = NoRet
    BY <1>0, <2>1 DEF NoCall, KeyedOps, StoreOps, NoResult, Scanning
  <2> QED
    BY <2>1, <2>2, OwnOutside DEF Scans, Scanning
<1>2. CASE StoreBadFlag(p) \/ Rewind(p)
  <2>1. pc[p] = "idle" /\ pc'[p] = "idle" /\ UNCHANGED <<call, ret>>
    BY <1>2 DEF StoreBadFlag, Rewind
  <2>2. call[p] = NoCall /\ ret[p] = NoRet
    BY <1>0, <2>1 DEF OpAt, NoResult, Scanning
  <2> QED
    BY <2>1, <2>2, OwnOutside DEF Scans, Scanning
<1>3. CASE BeginNextrec(p)
  <2>1. pc[p] = "idle" /\ pc'[p] = "nx_lock" /\ call'[p].op = "nextrec"
    BY <1>3 DEF BeginNextrec, Goto, TypeOK
  <2>2. call'[p] # NoCall
    BY <2>1 DEF NoCall
  <2> QED
    BY <2>1, <2>2, OwnOutside DEF Scans, Scanning
<1>4. CASE Close(p)
  <2>1. pc[p] = "idle" /\ pc'[p] = "closed" /\ UNCHANGED call
    BY <1>4 DEF Close, Goto, TypeOK
  <2>2. call[p] = NoCall
    BY <1>0, <2>1 DEF OpAt
  <2> QED
    BY <2>1, <2>2, OwnOutside DEF Scans, Scanning
<1>5. CASE UnlockChain(p) \/ NextUnlock(p)
  <2>1. pc[p] \in {"unlock", "nx_unlock"} /\ pc'[p] = "idle" /\ call'[p] = NoCall /\ ret'[p] = NoRet
    BY <1>5 DEF UnlockChain, NextUnlock, Return, Goto, TypeOK
  <2> QED
    BY <2>1, OwnOutside DEF Scans, Scanning
<1>6. CASE NextEof(p) \/ NextDat(p)
  <2>1. pc[p] \in {"nx_read", "nx_dat"} /\ pc'[p] = "nx_unlock" /\ UNCHANGED call
    BY <1>6 DEF NextEof, NextDat, ReadDat, Local, Goto, TypeOK
  <2>2. call[p].op = "nextrec"
    BY <1>0, <2>1 DEF OpAt, Scanning
  <2>3. call'[p] # NoCall /\ call'[p].op = "nextrec"
    BY <2>1, <2>2 DEF NoCall
  <2> QED
    BY <2>1, <2>3, OwnOutside DEF Scans, Scanning
<1>7. CASE FetchDat(p)
  <2>1. pc[p] = "readdat" /\ pc'[p] = "unlock" /\ UNCHANGED call
    BY <1>7 DEF FetchDat, ReadDat, Local, Goto, TypeOK
  <2>2. call[p].op = "fetch"
    BY <1>0, <2>1 DEF OpAt
  <2>3. call'[p] # NoCall /\ call'[p].op \in KeyedOps
    BY <2>1, <2>2 DEF NoCall, KeyedOps
  <2> QED
    BY <2>1, <2>3, OwnOutside DEF Scans, Scanning
<1> QED
  BY <1>1, <1>2, <1>3, <1>4, <1>5, <1>6, <1>7

\* The steps that write nothing.
LEMMA OwnLook ==
  ASSUME StoreInv, NEW p \in Proc, p \notin dead, Apart(p), Quiet(p), LooksOn(p), ~ Die(p),
         UNCHANGED kv
  PROVE  OpAt(p)' /\ Keeps(p)' /\ Story(p)' /\ \A k \in Key : Changing(p, k) => Changing(p, k)'
<1> TypeOK
  BY DEF StoreInv, DbInv
<1>0. UNCHANGED dat
  BY LookFiles DEF files
<1>1. CASE \/ Begin(p) \/ StoreBadFlag(p) \/ Rewind(p) \/ BeginNextrec(p) \/ Close(p)
           \/ UnlockChain(p) \/ NextUnlock(p) \/ NextEof(p) \/ NextDat(p) \/ FetchDat(p)
  BY <1>0, <1>1, OwnEnterLeave
<1>2. CASE ReadHead(p)
  BY <1>2, OwnReadHead
<1>3. CASE WalkNext(p)
  BY <1>3, OwnWalkNext
<1>4. CASE WalkHit(p)
  BY <1>4, OwnWalkHit
<1>5. CASE WalkEnd(p)
  BY <1>5, OwnWalkEnd
<1>6. CASE NextIdx(p)
  BY <1>6, OwnNextIdx
<1>7. CASE FfHead(p) \/ FfHit(p) \/ FfNext(p)
  <2>1. /\ pc[p] \in {"ff_head", "ff_walk"} /\ pc'[p] \in {"ff_walk", "ff_take"}
        /\ call' = call /\ ret' = ret
    BY <1>7 DEF FfHead, FfHit, FfNext, Local, Goto, TypeOK
  <2> QED
    BY <1>0, <2>1, OwnFind
<1>8. CASE LockGranted(p)
  <2>1. pc[p] \in LockPoints /\ pc'[p] = AfterLock(p) /\ UNCHANGED <<call, h, ret>>
    BY <1>8 DEF LockGranted, Goto, TypeOK
  <2>2. <<pc[p], pc'[p]>> \in Onward /\ pc[p] \notin {"ff_walk", "del_unlock"}
    BY <2>1 DEF LockPoints, AfterLock, Onward
  <2> QED
    BY <1>0, <2>1, <2>2, OwnOnward
<1>9. CASE DelUnlock(p)
  <2>1. /\ pc[p] = "del_unlock" /\ UNCHANGED <<call, h, ret>>
        /\ pc'[p] = IF call[p].op = "delete" THEN "unlock" ELSE "relink"
    BY <1>9 DEF DelUnlock, Goto, TypeOK
  <2>2. <<pc[p], pc'[p]>> \in Onward
    BY <2>1 DEF Onward
  <2> QED
    BY <1>0, <2>1, <2>2, OwnOnward
<1>10. CASE FfUnlock(p) \/ UnlockDat(p) \/ UnlockTail(p)
  <2>1. /\ <<pc[p], pc'[p]>> \in Onward /\ pc[p] \notin {"ff_walk", "del_unlock"}
        /\ UNCHANGED <<call, h, ret>>
    BY <1>10 DEF FfUnlock, UnlockDat, UnlockTail, Goto, TypeOK, Onward
  <2> QED
    BY <1>0, <2>1, OwnOnward
<1>11. CASE FfEnd(p)
  <2>1. /\ pc[p] = "ff_walk" /\ pc'[p] = "ff_unlock" /\ UNCHANGED <<call, h, ret>> /\ h[p].offset = 0
    BY <1>11 DEF FfEnd, Local, Goto, TypeOK
  <2>2. ~ Taken(p)'
    BY <2>1 DEF Taken
  <2>3. <<pc[p], pc'[p]>> \in Onward
    BY <2>1 DEF Onward
  <2> QED
    BY <1>0, <2>1, <2>2, <2>3, OwnOnward
<1>12. CASE DelFree(p)
  <2>1. /\ pc[p] = "del_free" /\ pc'[p] = "del_idx" /\ UNCHANGED <<call, ret>>
        /\ h'[p] = [h[p] EXCEPT !.freeptr = ptr[FREE], !.saveptr = h[p].ptrval] /\ h[p] \in Handle
    BY <1>12 DEF DelFree, Local, Goto, TypeOK
  <2>2. h'[p].idxoff = h[p].idxoff /\ h'[p].datoff = h[p].datoff
    BY <2>1 DEF Handle
  <2>3. <<pc[p], pc'[p]>> \in Onward
    BY <2>1 DEF Onward
  <2> QED
    BY <1>0, <2>1, <2>2, <2>3, OwnOnward
<1>13. CASE ReadLink(p)
  <2>1. /\ pc[p] \in {"link", "relink"} /\ UNCHANGED <<call, ret>>
        /\ pc'[p] = IF pc[p] = "link" THEN "ff_lock" ELSE "app_datlock"
        /\ h'[p] = [h[p] EXCEPT !.link = ptr[Chain(p)]] /\ h[p] \in Handle
    BY <1>13 DEF ReadLink, Local, Goto, TypeOK
  <2>2. h'[p].idxoff = h[p].idxoff /\ h'[p].datoff = h[p].datoff
    BY <2>1 DEF Handle
  <2>3. <<pc[p], pc'[p]>> \in Onward
    BY <2>1 DEF Onward
  <2> QED
    BY <1>0, <2>1, <2>2, <2>3, OwnOnward
<1> QED
  BY <1>1, <1>2, <1>3, <1>4, <1>5, <1>6, <1>7, <1>8, <1>9, <1>10, <1>11, <1>12, <1>13 DEF LooksOn

\* A process that lives on.
LEMMA MapAlive ==
  ASSUME StoreInv, NEW p \in Proc, Step(p), ~ Die(p), kv' = Effect(p)
  PROVE  MapInv'
<1> DbInv /\ TypeOK
  BY DEF StoreInv, DbInv
<1>1. p \notin dead /\ Apart(p) /\ dead' = dead
  BY StepKinds, ApartStep DEF Apart
<1>2. kv' \in [Key -> Val \cup {NoVal}]
  BY EffectType DEF StoreInv, MapInv
<1>3. pc[p] \notin {"del_link", "pub", "over"} => UNCHANGED kv
  BY <1>1 DEF Effect
<1>4. LooksOn(p) \/ WritesDat(p) \/ WritesIdx(p)
  BY StepKinds
<1>5. ASSUME OpAt(p)', Keeps(p)', Story(p)', \A k \in Key : Changing(p, k) => Changing(p, k)',
             pc[p] \notin Effecting
      PROVE  MapInv'
  BY <1>1, <1>2, <1>5, MapStep
<1>6. ASSUME OpAt(p)', Keeps(p)', Story(p)', pc[p] \in Effecting,
             \A k \in Key : k = call[p].key =>
               (\A r, s \in Found(k)' : r = s) /\ (Agree(k)' \/ Changing(p, k)')
      PROVE  MapInv'
  BY <1>1, <1>2, <1>6, MapStep
<1>7. CASE LooksOn(p)
  <2>1. pc[p] \notin Effecting
    BY <1>7 DEF Effecting, LooksOn, Begin, StoreBadFlag, Rewind, BeginNextrec, Close, LockGranted,
       UnlockChain, ReadHead, WalkHit, WalkNext, WalkEnd, FetchDat, DelFree, DelUnlock, ReadLink,
       FfHead, FfHit, FfNext, FfEnd, FfUnlock, UnlockDat, UnlockTail, NextIdx, NextEof, NextDat,
       NextUnlock, LockPoints
  <2>2. UNCHANGED kv
    BY <1>3, <2>1 DEF Effecting
  <2>3. Quiet(p)
    BY <1>7, QuietSteps
  <2>4. OpAt(p)' /\ Keeps(p)' /\ Story(p)' /\ \A k \in Key : Changing(p, k) => Changing(p, k)'
    BY <1>1, <1>7, <2>2, <2>3, OwnLook
  <2> QED
    BY <1>5, <2>1, <2>4
<1>8. CASE DelDat(p)
  <2>1. pc[p] = "del_dat" /\ UNCHANGED kv /\ Quiet(p)
    BY <1>3, <1>8, QuietSteps DEF DelDat, WritesDat
  <2> QED
    BY <1>1, <1>6, <1>8, <2>1, OwnDelDat DEF Effecting
<1>9. CASE Overwrite(p)
  <2>1. pc[p] = "over" /\ Quiet(p)
    BY <1>9, QuietSteps DEF Overwrite, WritesDat
  <2> QED
    BY <1>1, <1>6, <1>9, <2>1, OwnOverwrite DEF Effecting
<1>10. CASE ReuseDat(p)
  <2>1. pc[p] = "re_dat" /\ UNCHANGED kv /\ Quiet(p)
    BY <1>3, <1>10, QuietSteps DEF ReuseDat, WritesDat
  <2> QED
    BY <1>1, <1>5, <1>10, <2>1, OwnReuseDat DEF Effecting
<1>11. CASE AppendDat(p)
  <2>1. pc[p] = "app_dat" /\ UNCHANGED kv /\ Quiet(p)
    BY <1>3, <1>11, QuietSteps DEF AppendDat, WritesDat
  <2> QED
    BY <1>1, <1>5, <1>11, <2>1, OwnAppendDat DEF Effecting
<1>12. CASE DelIdx(p)
  <2>1. pc[p] = "del_idx" /\ UNCHANGED kv
    BY <1>3, <1>12 DEF DelIdx
  <2> QED
    BY <1>1, <1>6, <1>12, <2>1, OwnDelIdx DEF Effecting
<1>13. CASE DelPush(p)
  <2>1. pc[p] = "del_push" /\ UNCHANGED kv
    BY <1>3, <1>13 DEF DelPush
  <2> QED
    BY <1>1, <1>5, <1>13, <2>1, OwnDelPush DEF Effecting
<1>14. CASE DelLink(p)
  <2>1. pc[p] = "del_link"
    BY <1>14 DEF DelLink
  <2> QED
    BY <1>1, <1>6, <1>14, <2>1, OwnDelLink DEF Effecting
<1>15. CASE FfTake(p)
  <2>1. pc[p] = "ff_take" /\ UNCHANGED kv
    BY <1>3, <1>15 DEF FfTake
  <2> QED
    BY <1>1, <1>5, <1>15, <2>1, OwnFfTake DEF Effecting
<1>16. CASE ReuseIdx(p)
  <2>1. pc[p] = "re_idx" /\ UNCHANGED kv
    BY <1>3, <1>16 DEF ReuseIdx
  <2> QED
    BY <1>1, <1>5, <1>16, <2>1, OwnReuseIdx DEF Effecting
<1>17. CASE AppendIdx(p)
  <2>1. pc[p] = "app_idx" /\ UNCHANGED kv
    BY <1>3, <1>17 DEF AppendIdx
  <2> QED
    BY <1>1, <1>5, <1>17, <2>1, OwnAppendIdx DEF Effecting
<1>18. CASE Publish(p)
  <2>1. pc[p] = "pub"
    BY <1>18 DEF Publish
  <2> QED
    BY <1>1, <1>6, <1>18, <2>1, OwnPublish DEF Effecting
<1> QED
  BY <1>4, <1>7, <1>8, <1>9, <1>10, <1>11, <1>12, <1>13, <1>14, <1>15, <1>16, <1>17, <1>18
     DEF WritesDat, WritesIdx

\* Where a process may die.
LEMMA DieAt ==
  ASSUME DbInv, NotKilledDeleting, NEW p \in Proc, Step(p), Die(p)
  PROVE  p \notin dead /\ pc[p] \notin {"del_free", "del_idx", "del_push", "del_link"}
<1>1. p \notin dead
  BY DEF Step
<1>2. dead' # dead
  BY <1>1 DEF Die
<1>3. ~ PtrFits(p) => pc[p] \notin {"del_free", "del_idx", "del_push", "del_link"}
  <2>1. /\ PtrBounded /\ KnowDeleted(p) /\ KnowFound(p) /\ FREE \in Cell
        /\ PtrMax \in Nat
    BY <1>1, CellFacts, DbAssumption DEF DbInv, ListInv, Know
  <2>2. pc[p] = "del_free" => PtrFits(p)
    BY <2>1 DEF PtrFits, PtrArg
  <2>3. pc[p] = "del_idx" => PtrFits(p)
    BY <2>1 DEF PtrFits, PtrArg, KnowFound, PtrBounded
  <2>4. pc[p] \in {"del_push", "del_link"} => PtrFits(p)
    BY <2>1 DEF PtrFits, PtrArg, KnowDeleted, PtrBounded
  <2> QED
    BY <2>2, <2>3, <2>4
<1>4. ~ (DelFree(p) \/ DelIdx(p) \/ DelPush(p) \/ DelLink(p))
  BY <1>2 DEF DelFree, DelIdx, DelPush, DelLink, Local, WritePtr
<1>5. CASE pc[p] \in {"del_free", "del_idx", "del_push", "del_link"}
  <2>1. Kill(p) \/ PtrTooBig(p)
    BY <1>4, <1>5 DEF Step, Enter, InCall, Begin, StoreBadLength, StoreBadFlag, Rewind, BeginNextrec,
       Close, LockGranted, LockDeadlock, UnlockChain, ReadHead, WalkHit, WalkNext, WalkEnd,
       FetchDat, DelDat, DelUnlock, ReadLink, FfHead, FfHit, FfNext, FfEnd, FfTake, FfUnlock,
       ReuseDat, ReuseIdx, AppendDat, UnlockDat, AppendIdx, UnlockTail, Publish, Overwrite,
       NextIdx, NextEof, NextBadRecord, NextDat, NextUnlock, LockPoints
  <2> QED
    BY <1>3, <1>5, <2>1 DEF Kill, PtrTooBig, NotKilledDeleting
<1> QED
  BY <1>1, <1>5

\* A process that dies leaves the disk as it is.
LEMMA MapDies ==
  ASSUME StoreInv, NotKilledDeleting, NEW p \in Proc, Step(p), Die(p), kv' = Effect(p)
  PROVE  MapInv'
<1> DbInv /\ TypeOK /\ LockInv
  BY DEF StoreInv, DbInv
<1>1. /\ p \notin dead /\ pc[p] \notin {"del_free", "del_idx", "del_push", "del_link"}
      /\ dead' = dead \cup {p} /\ UNCHANGED <<ptr, rec, eof, dat, pc, call, h, ret>>
  BY DieAt DEF Die, files
<1>0. PICK k0 : k0 = call[p].key
  OBVIOUS
<1>2. \A k : Found(k)' = Found(k)
  BY <1>1 DEF Found, Listed, Allocated, Held, Taken
<1>3. (\A x : Cutting(x)' = Cutting(x)) /\ \A c : In(c)' = In(c)
  BY <1>1 DEF Cutting, In, Fields, Held, Taken, Home
<1>4. Nexts' = Nexts
  BY <1>1, <1>3 DEF Nexts
<1>5. kv \in [Key -> Val \cup {NoVal}] /\ kv' \in [Key -> Val \cup {NoVal}]
  BY EffectType DEF StoreInv, MapInv
<1>6. ASSUME NEW k \in Key
      PROVE  kv'[k] = IF k = k0 /\ call[p].op \in StoreOps /\ pc[p] \in Absent THEN NoVal ELSE kv[k]
  <2>1. CASE call[p].op \in StoreOps /\ pc[p] \in Absent
    <3>1. kv' = [kv EXCEPT ![k0] = NoVal]
      BY <1>0, <1>1, <2>1 DEF Effect
    <3> QED
      BY <1>5, <2>1, <3>1
  <2>2. CASE ~ (call[p].op \in StoreOps /\ pc[p] \in Absent)
    <3>1. kv' = kv
      BY <1>1, <2>2 DEF Effect
    <3> QED
      BY <2>2, <3>1
  <2> QED
    BY <2>1, <2>2
<1>7. ASSUME NEW k \in Key PROVE \A r, s \in Found(k)' : r = s
  BY <1>2 DEF StoreInv, MapInv
<1>8. ASSUME NEW k \in Key PROVE Agree(k)' \/ \E q \in Proc : Changing(q, k)'
  <2>1. CASE k = k0 /\ call[p].op \in StoreOps /\ pc[p] \in Absent
    <3>1. Met(p)
      BY <1>1 DEF StoreInv, MapInv, Story
    <3>2. Found(k) = {}
      BY <1>0, <2>1, <3>1 DEF Met
    <3> QED
      BY <1>2, <1>6, <2>1, <3>2 DEF Agree
  <2>2. CASE ~ (k = k0 /\ call[p].op \in StoreOps /\ pc[p] \in Absent)
    <3>1. Agree(k) => Agree(k)'
      BY <1>1, <1>2, <1>6, <2>2 DEF Agree, DataOf
    <3>2. ~ Changing(p, k)
      BY <1>0, <1>1, <2>2 DEF Changing
    <3>3. \A q \in Proc : Changing(q, k) => Changing(q, k)'
      BY <1>1, <3>2 DEF Changing
    <3> QED
      BY <3>1, <3>3 DEF StoreInv, MapInv
  <2> QED
    BY <2>1, <2>2
<1>9. ASSUME NEW q \in Proc PROVE OpAt(q)' /\ Keeps(q)'
  <2>1. OpAt(q) /\ Keeps(q)
    BY DEF StoreInv, MapInv
  <2> QED
    BY <1>1, <2>1 DEF OpAt, Keeps, Taken, Appends
<1>10. ASSUME NEW q \in Proc \ dead' PROVE Story(q)'
  <2>1. Story(q) /\ q # p /\ q \notin dead
    BY <1>1 DEF StoreInv, MapInv
  <2>0. PICK k : k = call[q].key
    OBVIOUS
  <2>2. Found(call[q].key)' = Found(k)
    <3>1. Found(call[q].key)' = Found(k)'
      BY <1>1, <2>0 DEF Found
    <3> QED
      BY <1>2, <3>1
  <2>3. Ahead(q)'
    <3>1. In(Chain(q))' = In(Chain(q))
      <4>1. PICK c : c = Chain(q)
        OBVIOUS
      <4>2. In(Chain(q))' = In(c)'
        BY <1>1, <4>1 DEF Chain, In
      <4> QED
        BY <1>3, <4>1, <4>2
    <3>2. \A x \in Found(k) : pc[q] = "walk" => Leads(Nexts, In(Chain(q)), h[q].offset, x)
      BY <2>0, <2>1 DEF Story, Ahead
    <3> QED
      BY <1>1, <1>4, <2>2, <3>1, <3>2 DEF Ahead, Leads, Closed
  <2>4. Met(q)'
    BY <1>1, <2>0, <2>1, <2>2 DEF Story, Met
  <2>5. InChain(q) => kv'[k] = kv[k]
    <3>1. ASSUME InChain(q), call[p].op \in StoreOps, pc[p] \in Absent PROVE k # k0
      <4>1. pc[p] \in Writing
        BY <3>1 DEF Absent, Writing, Deleting, Appending
      <4> QED
        BY <1>0, <1>1, <2>0, <2>1, <3>1, <4>1, OtherKey
    <3>2. InChain(q) => k \in Key
      BY <2>0, InCallHasCall DEF Call
    <3> QED
      BY <1>6, <3>1, <3>2
  <2>6. pc[q] \in Searching \cup Meeting \cup {"del_push", "del_link"} \cup Absent => InChain(q)
    BY <2>1 DEF InChain, Searching, Meeting, Finding, Absent, Appending, Writing, Reading, Deleting
  <2>7. Has(q)'
    BY <1>1, <2>0, <2>1, <2>5, <2>6 DEF Story, Has
  <2>8. NoResult(q)' /\ Scans(q)'
    BY <1>1, <2>1 DEF Story, NoResult, Scans, Allocated
  <2> QED
    BY <2>3, <2>4, <2>7, <2>8 DEF Story
<1> QED
  BY <1>5, <1>7, <1>8, <1>9, <1>10 DEF MapInv

\* A step of no process.
LEMMA MapStays ==
  ASSUME StoreInv, UNCHANGED kvVars
  PROVE  MapInv'
<1> MapInv
  BY DEF StoreInv
<1>1. UNCHANGED <<ptr, rec, eof, dat, pc, call, h, ret, dead, kv>>
  BY DEF kvVars
<1>2. \A k : Found(k)' = Found(k)
  BY <1>1 DEF Found, Listed, Allocated, Held, Taken
<1>3. \A q \in Proc : (OpAt(q) => OpAt(q)') /\ (Keeps(q) => Keeps(q)')
  BY <1>1 DEF OpAt, Keeps, Taken, Appends
<1>4. \A k \in Key : (Agree(k) => Agree(k)') /\ \A q \in Proc : Changing(q, k) => Changing(q, k)'
  BY <1>1, <1>2 DEF Agree, DataOf, Changing
<1>5. ASSUME NEW q \in Proc, Story(q) PROVE Story(q)'
  <2>0. PICK k, c : k = call[q].key /\ c = Chain(q)
    OBVIOUS
  <2>1. Found(call[q].key)' = Found(k)
    <3>1. Found(call[q].key)' = Found(k)'
      BY <1>1, <2>0 DEF Found
    <3> QED
      BY <1>2, <3>1
  <2>2. In(Chain(q))' = In(c) /\ Nexts' = Nexts
    <3>1. (\A x : Cutting(x)' = Cutting(x)) /\ In(Chain(q))' = In(c)
      BY <1>1, <2>0 DEF Cutting, In, Fields, Held, Taken, Home, Chain
    <3> QED
      BY <1>1, <3>1 DEF Nexts
  <2>3. Ahead(q)'
    BY <1>1, <1>5, <2>0, <2>1, <2>2 DEF Story, Ahead, Leads, Closed
  <2>4. Met(q)' /\ Has(q)' /\ NoResult(q)' /\ Scans(q)'
    BY <1>1, <1>5, <2>0, <2>1 DEF Story, Met, Has, NoResult, Scans, Allocated
  <2> QED
    BY <2>3, <2>4 DEF Story
<1> QED
  BY <1>1, <1>2, <1>3, <1>4, <1>5 DEF MapInv

\* The map has nothing at first.
LEMMA MapInit == KVInit => MapInv
<1> SUFFICES ASSUME KVInit PROVE MapInv
  OBVIOUS
<1>1. Allocated = {}
  BY DbAssumption DEF KVInit, Init, Allocated, FirstRec
<1>2. \A k : Found(k) = {}
  BY <1>1 DEF Found, Listed
<1>3. \A p \in Proc : pc[p] = "idle" /\ call[p] = NoCall /\ ret[p] = NoRet
  BY DEF KVInit, Init
<1>4. kv \in [Key -> Val \cup {NoVal}] /\ \A k \in Key : kv[k] = NoVal
  BY DEF KVInit
<1>5. \A p \in Proc : OpAt(p)
  BY <1>3 DEF OpAt, Scanning, Deleting, Searching, Finding, Appending, NoCall
<1>6. \A p \in Proc : Keeps(p) /\ Ahead(p) /\ Met(p) /\ NoResult(p) /\ Scans(p)
  BY <1>3 DEF Keeps, Taken, Appends, Ahead, Met, NoResult, Scans, Meeting, Searching, Finding,
     Absent, Appending
<1>7. \A p \in Proc : Has(p)
  BY <1>3 DEF Has, Meeting, Searching, Finding, Absent, Appending
<1> QED
  BY <1>2, <1>4, <1>5, <1>6, <1>7 DEF MapInv, Story, Agree

\* The invariant of the map is inductive, given the others.
LEMMA MapNext == ASSUME NotKilledDeleting PROVE StoreInv /\ [KVNext]_kvVars => MapInv'
<1> SUFFICES ASSUME StoreInv, [KVNext]_kvVars PROVE MapInv'
  OBVIOUS
<1>1. CASE UNCHANGED kvVars
  BY <1>1, MapStays
<1>2. ASSUME NEW p \in Proc, Step(p), kv' = Effect(p) PROVE MapInv'
  BY <1>2, MapAlive, MapDies
<1>3. CASE Done /\ UNCHANGED kv
  <2>1. UNCHANGED kvVars
    BY <1>3 DEF Done, vars, kvVars
  <2> QED
    BY <2>1, MapStays
<1> QED
  BY <1>1, <1>2, <1>3 DEF KVNext

\* The invariant of the store: its lists, its data and its map.
THEOREM Storing == ASSUME NotKilledDeleting PROVE KVSpec => []StoreInv
<1>0. NotKilledUnlinking
  BY DEF NotKilledDeleting, NotKilledUnlinking
<1>1. Spec => [](DbInv /\ GraphInv)
  BY <1>0, Graph
<1>2. Spec => []DataInv
  <2>1. TypeOK /\ DataInv /\ [Next]_vars => DataInv'
    BY DataSteps
  <2> QED
    BY <2>1, DataInit, Typing, PTL DEF Spec
<1>3. KVInit => MapInv
  BY MapInit
<1>4. StoreInv /\ [KVNext]_kvVars => MapInv'
  BY MapNext
<1>5. StoreInv <=> (DbInv /\ GraphInv) /\ DataInv /\ MapInv
  BY DEF StoreInv
<1> QED
  BY <1>1, <1>2, <1>3, <1>4, <1>5, KVRefines, PTL DEF KVSpec

-----------------------------------------------------------------------------
(* What is on the disk, and what a scan returns.                           *)

\* The lists and the map together say what the disk has.
LEMMA DiskHas == StoreInv => DiskAgrees
<1> SUFFICES ASSUME StoreInv, NEW k \in Key, Stable(k)
             PROVE  LET found == {r \in List(Hash[k]) : rec[r].key = k}
                    IN IF kv[k] = NoVal THEN found = {}
                       ELSE \E r \in found : found = {r} /\ dat[rec[r].datoff].val = kv[k]
  BY DEF DiskAgrees
<1> DbInv /\ TypeOK /\ LockInv /\ ListInv /\ GraphInv
  BY DEF StoreInv, DbInv
<1>0. PICK c : c = Hash[k]
  OBVIOUS
<1>1. c \in 1..NHash /\ c \in 0..NHash
  BY <1>0, DbAssumption
<1>2. \A p \in Proc : ~ (Modifies(p) /\ Chain(p) = c)
  BY <1>0 DEF Stable
<1>3. In(c) \cap Unlinking = {}
  <2> SUFFICES ASSUME NEW x \in In(c), x \in Unlinking PROVE FALSE
    OBVIOUS
  <2>1. PICK p \in Proc : pc[p] \in {"del_push", "del_link"} /\ h[p].ptroff = x
    BY DEF Unlinking
  <2>2. Home(x) = Chain(p) /\ p \notin dead /\ call[p].op # "fetch"
    BY <2>1 DEF ListInv, KnowDeleted, KnowOp, Writing, Deleting
  <2>3. Modifies(p)
    BY <2>1, <2>2 DEF Modifies, InChain, Writing, Deleting
  <2> QED
    BY <1>2, <2>2, <2>3 DEF In
<1>4. In(c) \subseteq Settled /\ In(c) \subseteq Cell
  BY <1>3, CellFacts DEF In, Settled
<1>5. \A x \in In(c) : Nexts[x] = {ptr[x]}
  BY <1>3, <1>4, NextsOf
<1>6. {r \in List(c) : rec[r].key = k} = Found(k)
  <2>1. ASSUME NEW r \in List(c), rec[r].key = k PROVE r \in Found(k)
    <3>1. r \in In(c) /\ r \in Allocated
      BY <1>1, <1>4, HeadsIn, ListedIsIn DEF List
    <3> QED
      BY <2>1, <3>1 DEF In, Found, Listed
  <2>2. ASSUME NEW r \in Found(k) PROVE r \in List(c) /\ rec[r].key = k
    <3>1. r \in In(c) /\ r \in Allocated /\ rec[r].key = k
      BY <1>0, FoundIn
    <3>2. Leads(Nexts, In(c), c, r)
      BY <1>1, <3>1 DEF GraphInv, Whole
    <3> QED
      BY <1>1, <1>5, <3>1, <3>2, BehindIsListed
  <2> QED
    BY <2>1, <2>2
<1>7. Agree(k)
  <2>1. ASSUME NEW p \in Proc, Changing(p, k) PROVE FALSE
    <3>1. p \notin dead /\ pc[p] \in Writing /\ Chain(p) = c /\ InChain(p)
      BY <1>0, <2>1 DEF Changing, Absent, Writing, Deleting, Appending, Chain, InChain
    <3>2. call[p].op # "fetch"
      BY <3>1 DEF ListInv, KnowOp
    <3> QED
      BY <1>2, <3>1, <3>2 DEF Modifies
  <2> QED
    BY <2>1 DEF StoreInv, MapInv
<1>8. \A r, s \in Found(k) : r = s
  BY DEF StoreInv, MapInv
<1> QED
  BY <1>0, <1>6, <1>7, <1>8 DEF Agree, DataOf

\* The disk has what the map has.
THEOREM DiskIsMap == ASSUME NotKilledDeleting PROVE KVSpec => []DiskAgrees
BY DiskHas, Storing, PTL

\* What a scan reads is in a list, or in the hands of a db_store about to
\* publish it.
LEMMA ScanReturns ==
  ASSUME StoreInv, NEW p \in Proc, NextDat(p), p \notin dead'
  PROVE  LET k == ret[p].key  v == ret'[p].val
         IN \/ v = kv[k]
            \/ \E q \in Proc : call[q].op \in StoreOps /\ call[q].key = k /\ call[q].val = v
<1> DbInv /\ TypeOK /\ LockInv /\ ListInv
  BY DEF StoreInv, DbInv
<1>0. PICK k, v, r : k = ret[p].key /\ v = ret'[p].val /\ r = h[p].idxoff
  OBVIOUS
<1>1. /\ pc[p] = "nx_dat" /\ p \notin dead
      /\ ret' = [ret EXCEPT ![p].val = dat[h[p].datoff].val]
  BY DEF NextDat, ReadDat, Die, Local
<1>2. v = dat[h[p].datoff].val
  BY <1>0, <1>1 DEF TypeOK
<1>3. k \in Key /\ r \in Allocated /\ rec[r].key = k /\ v = DataOf(r)
  BY <1>0, <1>1, <1>2 DEF StoreInv, MapInv, Story, Scans, DataOf
<1>4. CASE r \notin Held
  <2>1. r \in Found(k)
    BY <1>3, <1>4 DEF Found, Listed
  <2>2. ASSUME NEW q \in Proc, Changing(q, k) PROVE FALSE
    <3>1. pc[q] \notin Absent
      BY <2>1, <2>2 DEF Changing, StoreInv, MapInv, Story, Met
    <3>2. pc[q] \in {"del_free", "del_idx", "del_push", "del_link"} /\ q \notin dead
      BY <2>2, <3>1 DEF Changing
    <3> QED
      BY <1>1, <3>2, AloneInFree DEF InFree, Scanning, Deleting
  <2>3. Agree(k)
    BY <1>3, <2>2 DEF StoreInv, MapInv
  <2>4. \A s \in Found(k) : s = r
    BY <1>3, <2>1 DEF StoreInv, MapInv
  <2>5. v = kv[k]
    BY <1>3, <2>1, <2>3, <2>4 DEF Agree
  <2> QED
    BY <1>0, <2>5
<1>5. CASE r \in Held
  <2>1. PICK q \in Proc : Taken(q) /\ h[q].idxoff = r
    BY <1>5 DEF Held
  <2>2. Keeps(q) /\ OpAt(q)
    BY DEF StoreInv, MapInv
  <2>3. k # Blank
    BY <1>3, DbAssumption
  <2>4. pc[q] \in {"app_idxunlock", "pub"}
    BY <1>3, <2>1, <2>2, <2>3 DEF Taken, Keeps
  <2>5. call[q].key = k /\ call[q].val = v /\ call[q].op \in StoreOps
    BY <1>3, <2>1, <2>2, <2>4 DEF Keeps, OpAt, Appending, DataOf
  <2> QED
    BY <1>0, <2>5
<1> QED
  BY <1>4, <1>5

\* Every record a scan returns was stored under its key.
THEOREM ScanStored == ASSUME NotKilledDeleting PROVE KVSpec => ScanReturnsStored
<1>1. StoreInv /\ [KVNext]_kvVars =>
        [\A p \in Proc : NextDat(p) /\ p \notin dead' =>
           LET k == ret[p].key  v == ret'[p].val
           IN \/ v = kv[k]
              \/ \E q \in Proc : call[q].op \in StoreOps /\ call[q].key = k /\ call[q].val = v]_kvVars
  BY ScanReturns
<1> QED
  BY <1>1, Storing, PTL DEF KVSpec, ScanReturnsStored

-----------------------------------------------------------------------------
(* The refinement: one step of the map for each step of the store.         *)

StateOf(p) ==
  IF p \in dead \/ pc[p] = "closed" THEN "gone"
  ELSE IF ~ InKeyedCall(p) THEN "idle"
  ELSE IF TookEffect(p) THEN "done" ELSE "pending"
ReqOf(p) == IF InKeyedCall(p) THEN call[p] ELSE NoCall
ResOf(p) == IF InKeyedCall(p) /\ TookEffect(p) THEN ret[p] ELSE NoRet

MapState == State
MapReq == [p \in Proc |-> ReqOf(p)]
MapRes == [p \in Proc |-> ResOf(p)]

\* A step of p changes what the map sees of p only.
LEMMA MapSees ==
  ASSUME NEW p \in Proc, Others(p), dead \subseteq dead', dead' \subseteq dead \cup {p}
  PROVE  /\ MapState' = [MapState EXCEPT ![p] = StateOf(p)']
         /\ MapReq' = [MapReq EXCEPT ![p] = ReqOf(p)']
         /\ MapRes' = [MapRes EXCEPT ![p] = ResOf(p)']
         /\ MapState[p] = StateOf(p) /\ MapReq[p] = ReqOf(p) /\ MapRes[p] = ResOf(p)
<1>1. ASSUME NEW q \in Proc \ {p}
      PROVE  StateOf(q)' = StateOf(q) /\ ReqOf(q)' = ReqOf(q) /\ ResOf(q)' = ResOf(q)
  <2>1. /\ pc'[q] = pc[q] /\ call'[q] = call[q] /\ ret'[q] = ret[q] /\ (q \in dead' <=> q \in dead)
    BY DEF Others
  <2>2. (InKeyedCall(q)' <=> InKeyedCall(q)) /\ (TookEffect(q)' <=> TookEffect(q))
    BY <2>1 DEF InKeyedCall, TookEffect
  <2> QED
    BY <2>1, <2>2 DEF StateOf, ReqOf, ResOf
<1>2. MapState = [q \in Proc |-> StateOf(q)]
  BY DEF MapState, State, StateOf
<1>3. MapState' = [q \in Proc |-> StateOf(q)']
  BY <1>2 DEF MapState, State, StateOf
<1> HIDE DEF MapState
<1>4. MapState' = [MapState EXCEPT ![p] = StateOf(p)'] /\ MapState[p] = StateOf(p)
  BY <1>1, <1>2, <1>3
<1>5. MapReq' = [MapReq EXCEPT ![p] = ReqOf(p)'] /\ MapReq[p] = ReqOf(p)
  BY <1>1 DEF MapReq
<1>6. MapRes' = [MapRes EXCEPT ![p] = ResOf(p)'] /\ MapRes[p] = ResOf(p)
  BY <1>1 DEF MapRes
<1> QED
  BY <1>4, <1>5, <1>6

MapStutters == kv' = kv /\ MapState' = MapState /\ MapReq' = MapReq /\ MapRes' = MapRes

\* The map sees nothing of a step at which the call of p stays what it is.
LEMMA MapStutter ==
  ASSUME NEW p \in Proc, Others(p), dead' = dead, kv' = kv,
         StateOf(p)' = StateOf(p), ReqOf(p)' = ReqOf(p), ResOf(p)' = ResOf(p)
  PROVE  MapStutters
<1>1. /\ MapState' = [MapState EXCEPT ![p] = StateOf(p)] /\ MapState[p] = StateOf(p)
      /\ MapReq' = [MapReq EXCEPT ![p] = ReqOf(p)] /\ MapReq[p] = ReqOf(p)
      /\ MapRes' = [MapRes EXCEPT ![p] = ResOf(p)] /\ MapRes[p] = ResOf(p)
  BY MapSees
<1>2. MapState = [q \in Proc |-> MapState[q]]
  BY DEF MapState, State
<1>3. MapReq = [q \in Proc |-> MapReq[q]] /\ MapRes = [q \in Proc |-> MapRes[q]]
  BY DEF MapReq, MapRes
<1> QED
  BY <1>1, <1>2, <1>3 DEF MapStutters

\* A call that has not taken effect goes on, or a scan does.
LEMMA MapGoesOn ==
  ASSUME NEW p \in Proc, p \notin dead, Others(p), dead' = dead, kv' = kv,
         call'[p] = call[p], pc[p] # "closed", pc'[p] # "closed",
         \/ call[p].op \notin KeyedOps
         \/ ~ TookEffect(p) /\ ~ TookEffect(p)'
         \/ TookEffect(p) /\ TookEffect(p)' /\ ret'[p] = ret[p]
  PROVE  MapStutters
<1>1. InKeyedCall(p)' <=> InKeyedCall(p)
  BY DEF InKeyedCall
<1>2. StateOf(p)' = StateOf(p)
  BY <1>1 DEF StateOf, InKeyedCall
<1>3. ReqOf(p)' = ReqOf(p) /\ ResOf(p)' = ResOf(p)
  BY <1>1 DEF ReqOf, ResOf, InKeyedCall
<1> QED
  BY <1>2, <1>3, MapStutter

\* The three variables of the map are functions of the processes.
LEMMA MapFunctions ==
  /\ MapReq = [q \in Proc |-> MapReq[q]] /\ MapRes = [q \in Proc |-> MapRes[q]]
  /\ MapState = [q \in Proc |-> MapState[q]]
BY DEF MapReq, MapRes, MapState, State

\* A call begins.
LEMMA MapInvokes ==
  ASSUME NEW p \in Proc, p \notin dead, Others(p), dead' = dead, kv' = kv,
         call[p].op \notin KeyedOps, pc[p] # "closed",
         call'[p] \in Call, call'[p].op \in KeyedOps, pc'[p] = "lock"
  PROVE  Map!Invoke(p)
<1>1. StateOf(p) = "idle" /\ ResOf(p) = NoRet
  BY DEF StateOf, ResOf, InKeyedCall
<1>2. StateOf(p)' = "pending" /\ ReqOf(p)' = call'[p] /\ ResOf(p)' = NoRet
  BY DEF StateOf, ReqOf, ResOf, InKeyedCall, TookEffect
<1>3. /\ MapState[p] = "idle" /\ MapState' = [MapState EXCEPT ![p] = "pending"]
      /\ MapReq' = [MapReq EXCEPT ![p] = call'[p]]
      /\ MapRes' = [MapRes EXCEPT ![p] = NoRet] /\ MapRes[p] = NoRet
  BY <1>1, <1>2, MapSees
<1>4. MapRes' = MapRes
  BY <1>3, MapFunctions
<1> QED
  BY <1>3, <1>4 DEF Map!Invoke, MapState, MapReq, MapRes, ReqOf, ResOf

\* A call takes effect, with its result.
LEMMA MapTakes ==
  ASSUME NEW p \in Proc, p \notin dead, Others(p), dead' = dead, call'[p] = call[p],
         call[p].op \in KeyedOps, pc[p] # "closed", pc'[p] # "closed",
         ~ TookEffect(p), TookEffect(p)',
         NEW rc \in {-1, 0, 1}, NEW v \in Val \cup {Spaces},
         ret'[p] = Map!Result(rc, v), Map!Apply(call[p], Map!Result(rc, v))
  PROVE  Map!TakeEffect(p)
<1>1. InKeyedCall(p) /\ InKeyedCall(p)'
  BY DEF InKeyedCall
<1>2. StateOf(p) = "pending" /\ ReqOf(p) = call[p]
  BY <1>1 DEF StateOf, ReqOf
<1>3. StateOf(p)' = "done" /\ ReqOf(p)' = call[p] /\ ResOf(p)' = ret'[p]
  BY <1>1 DEF StateOf, ReqOf, ResOf
<1>4. /\ MapState[p] = "pending" /\ MapState' = [MapState EXCEPT ![p] = "done"]
      /\ MapReq[p] = call[p] /\ MapReq' = [MapReq EXCEPT ![p] = call[p]]
      /\ MapRes' = [MapRes EXCEPT ![p] = Map!Result(rc, v)]
  BY <1>2, <1>3, MapSees
<1>5. MapReq' = MapReq
  BY <1>4, MapFunctions
<1> QED
  BY <1>4, <1>5 DEF Map!TakeEffect, MapState, MapReq, MapRes, ReqOf, ResOf

\* A call returns.
LEMMA MapReturns ==
  ASSUME NEW p \in Proc, p \notin dead, Others(p), dead' = dead, kv' = kv,
         call[p].op \in KeyedOps, pc[p] = "unlock", pc'[p] = "idle", call'[p] = NoCall
  PROVE  Map!Return(p)
<1>1. StateOf(p) = "done"
  BY DEF StateOf, InKeyedCall, TookEffect
<1>2. StateOf(p)' = "idle" /\ ReqOf(p)' = NoCall /\ ResOf(p)' = NoRet
  BY DEF StateOf, ReqOf, ResOf, InKeyedCall, NoCall, KeyedOps, StoreOps
<1>3. /\ MapState[p] = "done" /\ MapState' = [MapState EXCEPT ![p] = "idle"]
      /\ MapReq' = [MapReq EXCEPT ![p] = NoCall] /\ MapRes' = [MapRes EXCEPT ![p] = NoRet]
  BY <1>1, <1>2, MapSees
<1> QED
  BY <1>3 DEF Map!Return, MapState, MapReq, MapRes, ReqOf, ResOf

\* A process is gone.
LEMMA MapLeaves ==
  ASSUME NEW p \in Proc, p \notin dead, Others(p), dead \subseteq dead', dead' \subseteq dead \cup {p},
         pc[p] # "closed",
         p \in dead' \/ (pc'[p] = "closed" /\ call'[p] = NoCall),
         \/ kv' = kv
         \/ /\ call[p].op \in {"replace", "store"} /\ ~ TookEffect(p)
            /\ kv' = [kv EXCEPT ![call[p].key] = NoVal]
  PROVE  Map!Leave(p)
<1>1. StateOf(p) # "gone"
  BY DEF StateOf
<1>2. StateOf(p)' = "gone" /\ ReqOf(p)' = NoCall /\ ResOf(p)' = NoRet
  BY DEF StateOf, ReqOf, ResOf, InKeyedCall, NoCall, KeyedOps, StoreOps
<1>3. /\ MapState[p] # "gone" /\ MapState' = [MapState EXCEPT ![p] = "gone"]
      /\ MapReq' = [MapReq EXCEPT ![p] = NoCall] /\ MapRes' = [MapRes EXCEPT ![p] = NoRet]
  BY <1>1, <1>2, MapSees
<1>4. ASSUME call[p].op \in {"replace", "store"}, ~ TookEffect(p)
      PROVE  MapState[p] = "pending" /\ MapReq[p] = call[p]
  <2>1. InKeyedCall(p)
    BY <1>4 DEF InKeyedCall, KeyedOps, StoreOps
  <2>2. StateOf(p) = "pending" /\ ReqOf(p) = call[p]
    BY <1>4, <2>1 DEF StateOf, ReqOf
  <2> QED
    BY <2>2, MapSees
<1>5. \/ UNCHANGED kv
      \/ /\ MapState[p] = "pending" /\ MapReq[p].op \in {"replace", "store"}
         /\ Map!Put(MapReq[p].key, NoVal)
  BY <1>4 DEF Map!Put
<1> QED
  BY <1>3, <1>5 DEF Map!Leave, MapState, MapReq, MapRes, ReqOf, ResOf

MapSteps == MapStutters \/ Map!Next

\* The walk ends: an insert has met its key, a call its key is not there for.
LEMMA MapWalk ==
  ASSUME StoreInv, NEW p \in Proc, Step(p), ~ Die(p), kv' = Effect(p), WalkHit(p) \/ WalkEnd(p)
  PROVE  MapSteps
<1> DbInv /\ TypeOK
  BY DEF StoreInv, DbInv
<1>1. /\ p \notin dead /\ Others(p) /\ dead' = dead /\ pc[p] = "walk" /\ call' = call
      /\ OpAt(p) /\ NoResult(p)
  BY StepKinds, StepOthers DEF WalkHit, WalkEnd, Local, StoreInv, MapInv, Story
<1>2. kv' = kv
  BY <1>1 DEF Effect
<1>0. PICK k, r : k = call[p].key /\ r = h[p].offset
  OBVIOUS
<1>3. k \in Key /\ Agree(k) /\ (r # 0 => r \in Listed) /\ (r = 0 => Found(k) = {})
  BY <1>0, <1>1, WalkMeets
<1>4. call[p].op \in KeyedOps /\ ~ TookEffect(p) /\ ret[p] = NoRet
  BY <1>1 DEF OpAt, NoResult, Scanning, TookEffect
<1>a. kv \in [Key -> Val \cup {NoVal}]
  BY DEF StoreInv, MapInv
<1>5. CASE WalkHit(p) /\ call[p].op = "insert"
  <2>1. /\ r # 0 /\ rec[r].key = k /\ pc'[p] = "unlock"
        /\ ret' = [ret EXCEPT ![p].rc = 1]
    BY <1>0, <1>5 DEF WalkHit, AfterHit, Goto, TypeOK
  <2>2. r \in Found(k)
    BY <1>3, <2>1 DEF Found
  <2>3. kv[k] # NoVal
    BY <1>3, <2>2 DEF Agree
  <2>4. ret'[p] = Map!Result(1, Spaces)
    BY <1>4, <2>1 DEF TypeOK, NoRet, Map!Result
  <2>5. Map!Apply(call[p], Map!Result(1, Spaces))
    BY <1>0, <1>2, <1>5, <2>3 DEF Map!Apply, Map!Insert, Map!Result
  <2>6. TookEffect(p)'
    BY <2>1 DEF TookEffect
  <2>7. Map!TakeEffect(p)
    BY <1>1, <1>4, <2>1, <2>4, <2>5, <2>6, MapTakes
  <2> QED
    BY <2>7 DEF MapSteps, Map!Next
<1>6. CASE WalkHit(p) /\ call[p].op # "insert"
  <2>1. pc'[p] \in {"readdat", "del_lock", "over"}
    BY <1>6 DEF WalkHit, AfterHit, Goto, TypeOK
  <2>2. ~ TookEffect(p)' /\ pc'[p] # "closed"
    BY <2>1 DEF TookEffect
  <2> QED
    BY <1>1, <1>2, <1>4, <2>2, MapGoesOn DEF MapSteps
<1>7. CASE WalkEnd(p) /\ call[p].op \in {"insert", "store"}
  <2>1. pc'[p] = "link"
    BY <1>7 DEF WalkEnd, Goto, TypeOK
  <2>2. ~ TookEffect(p)' /\ pc'[p] # "closed"
    BY <2>1 DEF TookEffect
  <2> QED
    BY <1>1, <1>2, <1>4, <2>2, MapGoesOn DEF MapSteps
<1>8. CASE WalkEnd(p) /\ call[p].op \notin {"insert", "store"}
  <2>1. r = 0 /\ pc'[p] = "unlock" /\ ret' = [ret EXCEPT ![p].rc = -1]
    BY <1>0, <1>8 DEF WalkEnd, Goto, TypeOK
  <2>3. kv[k] = NoVal
    BY <1>3, <2>1 DEF Agree
  <2>4. ret'[p] = Map!Result(-1, Spaces)
    BY <1>4, <2>1 DEF TypeOK, NoRet, Map!Result
  <2>8. call[p].op \in {"fetch", "delete", "replace"}
    BY <1>4, <1>8 DEF KeyedOps, StoreOps
  <2>9. kv' = [kv EXCEPT ![k] = NoVal]
    BY <1>2, <1>a, <2>3
  <2>5. Map!Apply(call[p], Map!Result(-1, Spaces))
    BY <1>0, <1>2, <2>3, <2>8, <2>9
       DEF Map!Apply, Map!Fetch, Map!Delete, Map!Replace, Map!Put, Map!Result
  <2>6. TookEffect(p)'
    BY <2>1 DEF TookEffect
  <2>7. Map!TakeEffect(p)
    BY <1>1, <1>4, <2>1, <2>4, <2>5, <2>6, MapTakes
  <2> QED
    BY <2>7 DEF MapSteps, Map!Next
<1> QED
  BY <1>5, <1>6, <1>7, <1>8

\* A fetch reads the data of the record it has met.
LEMMA MapFetch ==
  ASSUME StoreInv, NEW p \in Proc, Step(p), ~ Die(p), kv' = Effect(p), FetchDat(p)
  PROVE  MapSteps
<1> DbInv /\ TypeOK
  BY DEF StoreInv, DbInv
<1>1. /\ p \notin dead /\ Others(p) /\ dead' = dead /\ pc[p] = "readdat" /\ pc'[p] = "unlock"
      /\ call' = call /\ ret' = [ret EXCEPT ![p].val = dat[h[p].datoff].val]
      /\ OpAt(p) /\ Met(p) /\ NoResult(p)
  BY StepKinds, StepOthers DEF FetchDat, ReadDat, Goto, Local, TypeOK, StoreInv, MapInv, Story
<1>2. kv' = kv
  BY <1>1 DEF Effect
<1>0. PICK k, r : k = call[p].key /\ r = h[p].idxoff
  OBVIOUS
<1>3. k \in Key /\ Agree(k)
  BY <1>0, <1>1, OnlyMine DEF InChain, Reading, Changing, Absent, Appending
<1>4. r \in Found(k) /\ h[p].datoff = rec[r].datoff
  BY <1>0, <1>1 DEF Met
<1>5. kv[k] = dat[h[p].datoff].val /\ kv[k] # NoVal
  <2>1. \A s \in Found(k) : s = r
    BY <1>3, <1>4 DEF StoreInv, MapInv
  <2> QED
    BY <1>3, <1>4, <2>1 DEF Agree, DataOf
<1>6. call[p].op = "fetch" /\ ret[p] = NoRet /\ ~ TookEffect(p) /\ TookEffect(p)'
  BY <1>1 DEF OpAt, NoResult, Scanning, TookEffect
<1>7. ret'[p] = Map!Result(0, kv[k])
  BY <1>1, <1>5, <1>6 DEF TypeOK, NoRet, Map!Result
<1>8. kv[k] \in Val
  BY <1>3, <1>5 DEF StoreInv, MapInv
<1>9. Map!Apply(call[p], Map!Result(0, kv[k]))
  BY <1>0, <1>2, <1>5, <1>6 DEF Map!Apply, Map!Fetch, Map!Result
<1>10. Map!TakeEffect(p)
  BY <1>1, <1>6, <1>7, <1>8, <1>9, MapTakes DEF KeyedOps
<1> QED
  BY <1>10 DEF MapSteps, Map!Next

\* The writes that make a call take effect.
LEMMA MapWrites ==
  ASSUME StoreInv, NEW p \in Proc, Step(p), ~ Die(p), kv' = Effect(p),
         DelLink(p) \/ Publish(p) \/ Overwrite(p)
  PROVE  MapSteps
<1> DbInv /\ TypeOK
  BY DEF StoreInv, DbInv
<1>1. /\ p \notin dead /\ Others(p) /\ dead' = dead /\ call' = call /\ ret' = ret
      /\ OpAt(p) /\ Has(p) /\ NoResult(p)
      /\ \/ pc[p] = "del_link" /\ pc'[p] = "del_unlock"
         \/ pc[p] \in {"pub", "over"} /\ pc'[p] = "unlock"
  <2>1. p \notin dead /\ Others(p) /\ dead' = dead /\ OpAt(p) /\ Has(p) /\ NoResult(p)
    BY StepKinds, StepOthers DEF StoreInv, MapInv, Story
  <2>2. /\ call' = call /\ ret' = ret
        /\ \/ pc[p] = "del_link" /\ pc'[p] = "del_unlock"
           \/ pc[p] \in {"pub", "over"} /\ pc'[p] = "unlock"
    BY DEF DelLink, Publish, Overwrite, WritePtr, Goto, TypeOK
  <2> QED
    BY <2>1, <2>2
<1>0. PICK k : k = call[p].key
  OBVIOUS
<1>2. /\ call[p].op \in {"delete", "insert", "replace", "store"} /\ call[p].op \in KeyedOps
      /\ pc[p] # "del_link" => call[p].op # "delete"
      /\ pc[p] = "del_link" => call[p].op # "insert"
      /\ ret[p] = NoRet
  BY <1>1 DEF OpAt, NoResult, Scanning, Deleting, Appending, KeyedOps, StoreOps
<1>3. ret'[p] = Map!Result(0, Spaces)
  BY <1>1, <1>2 DEF NoRet, Map!Result
<1>4. CASE pc[p] = "del_link" /\ call[p].op # "delete"
  <2>1. kv' = kv
    BY <1>1, <1>4 DEF Effect
  <2>2. ~ TookEffect(p) /\ ~ TookEffect(p)' /\ pc'[p] # "closed"
    BY <1>1, <1>4 DEF TookEffect
  <2> QED
    BY <1>1, <1>4, <2>1, <2>2, MapGoesOn DEF MapSteps
<1>5. CASE pc[p] = "del_link" /\ call[p].op = "delete"
  <2>1. kv' = [kv EXCEPT ![k] = NoVal]
    BY <1>0, <1>1, <1>5 DEF Effect
  <2>2. kv[k] # NoVal
    BY <1>0, <1>1, <1>5 DEF Has
  <2>3. Map!Apply(call[p], Map!Result(0, Spaces))
    BY <1>0, <1>5, <2>1, <2>2 DEF Map!Apply, Map!Delete, Map!Put, Map!Result
  <2>4. ~ TookEffect(p) /\ TookEffect(p)' /\ pc'[p] # "closed"
    BY <1>1, <1>5 DEF TookEffect
  <2>5. Map!TakeEffect(p)
    BY <1>1, <1>2, <1>3, <1>5, <2>3, <2>4, MapTakes
  <2> QED
    BY <2>5 DEF MapSteps, Map!Next
<1>6. CASE pc[p] \in {"pub", "over"}
  <2>1. kv' = [kv EXCEPT ![k] = call[p].val]
    BY <1>0, <1>1, <1>6 DEF Effect
  <2>2. (call[p].op = "insert" => kv[k] = NoVal) /\ (call[p].op = "replace" => kv[k] # NoVal)
    <3>1. call[p].op = "insert" => pc[p] = "pub"
      BY <1>1, <1>6 DEF OpAt
    <3> QED
      BY <1>0, <1>1, <1>6, <3>1 DEF Has, Absent, Meeting
  <2>3. Map!Apply(call[p], Map!Result(0, Spaces))
    BY <1>0, <1>2, <1>6, <2>1, <2>2
       DEF Map!Apply, Map!Insert, Map!Replace, Map!Store, Map!Put, Map!Result
  <2>4. ~ TookEffect(p) /\ TookEffect(p)' /\ pc'[p] # "closed" /\ pc[p] # "closed"
    BY <1>1, <1>6 DEF TookEffect
  <2>5. Map!TakeEffect(p)
    BY <1>1, <1>2, <1>3, <2>3, <2>4, MapTakes
  <2> QED
    BY <2>5 DEF MapSteps, Map!Next
<1> QED
  BY <1>1, <1>4, <1>5, <1>6

\* Entering and leaving a call.
LEMMA MapEnters ==
  ASSUME StoreInv, NEW p \in Proc, Step(p), ~ Die(p), kv' = Effect(p),
         \/ Begin(p) \/ StoreBadFlag(p) \/ Rewind(p) \/ BeginNextrec(p) \/ Close(p)
         \/ UnlockChain(p) \/ NextUnlock(p)
  PROVE  MapSteps
<1> DbInv /\ TypeOK
  BY DEF StoreInv, DbInv
<1>1. p \notin dead /\ Others(p) /\ dead' = dead /\ OpAt(p) /\ NoResult(p)
  BY StepKinds, StepOthers DEF StoreInv, MapInv, Story
<1>2. pc[p] \in {"idle", "unlock", "nx_unlock"} /\ kv' = kv
  <2>1. pc[p] \in {"idle", "unlock", "nx_unlock"}
    BY DEF Begin, StoreBadFlag, Rewind, BeginNextrec, Close, UnlockChain, NextUnlock
  <2> QED
    BY <1>1, <2>1 DEF Effect
<1>3. pc[p] = "idle" => call[p] = NoCall /\ call[p].op \notin KeyedOps
  BY <1>1 DEF OpAt, NoCall, KeyedOps, StoreOps
<1>4. CASE Begin(p)
  <2>1. pc[p] = "idle" /\ pc'[p] = "lock" /\ call'[p] \in Call /\ call'[p].op \in KeyedOps
    <3>1. PICK c \in Calls[p] : c.op \in KeyedOps /\ call' = [call EXCEPT ![p] = c]
      BY <1>4 DEF Begin
    <3>2. c \in Call
      BY DbAssumption
    <3>3. call'[p] = c
      BY <3>1 DEF TypeOK
    <3>4. pc[p] = "idle" /\ pc'[p] = "lock"
      BY <1>4 DEF Begin, Goto, TypeOK
    <3> QED
      BY <3>1, <3>2, <3>3, <3>4
  <2>2. Map!Invoke(p)
    BY <1>1, <1>2, <1>3, <2>1, MapInvokes
  <2> QED
    BY <2>2 DEF MapSteps, Map!Next
<1>5. CASE StoreBadFlag(p) \/ Rewind(p)
  <2>1. pc[p] = "idle" /\ UNCHANGED <<pc, call>>
    BY <1>5 DEF StoreBadFlag, Rewind
  <2> QED
    BY <1>1, <1>2, <1>3, <2>1, MapGoesOn DEF MapSteps
<1>6. CASE BeginNextrec(p) \/ NextUnlock(p)
  <2>1. /\ call[p].op \notin KeyedOps /\ call'[p].op \notin KeyedOps
        /\ pc[p] # "closed" /\ pc'[p] # "closed"
    <3>1. CASE BeginNextrec(p)
      <4>1. pc[p] = "idle" /\ pc'[p] = "nx_lock" /\ call'[p].op = "nextrec"
        BY <3>1 DEF BeginNextrec, Goto, TypeOK
      <4> QED
        BY <1>3, <4>1 DEF KeyedOps, StoreOps
    <3>2. CASE NextUnlock(p)
      <4>1. pc[p] = "nx_unlock" /\ pc'[p] = "idle" /\ call'[p] = NoCall
        BY <3>2 DEF NextUnlock, Return, Goto, TypeOK
      <4>2. call[p].op = "nextrec"
        BY <1>1, <4>1 DEF OpAt, Scanning
      <4> QED
        BY <4>1, <4>2 DEF NoCall, KeyedOps, StoreOps
    <3> QED
      BY <1>6, <3>1, <3>2
  <2>2. StateOf(p)' = StateOf(p) /\ ReqOf(p)' = ReqOf(p) /\ ResOf(p)' = ResOf(p)
    BY <1>1, <2>1 DEF StateOf, ReqOf, ResOf, InKeyedCall
  <2> QED
    BY <1>1, <1>2, <2>2, MapStutter DEF MapSteps
<1>7. CASE Close(p)
  <2>1. pc[p] = "idle" /\ pc'[p] = "closed" /\ UNCHANGED call
    BY <1>7 DEF Close, Goto, TypeOK
  <2>2. Map!Leave(p)
    BY <1>1, <1>2, <1>3, <2>1, MapLeaves
  <2> QED
    BY <2>2 DEF MapSteps, Map!Next
<1>8. CASE UnlockChain(p)
  <2>1. pc[p] = "unlock" /\ pc'[p] = "idle" /\ call'[p] = NoCall
    BY <1>8 DEF UnlockChain, Return, Goto, TypeOK
  <2>2. call[p].op \in KeyedOps
    BY <1>1, <2>1 DEF OpAt, Scanning
  <2>3. Map!Return(p)
    BY <1>1, <1>2, <2>1, <2>2, MapReturns
  <2> QED
    BY <2>3 DEF MapSteps, Map!Next
<1> QED
  BY <1>4, <1>5, <1>6, <1>7, <1>8

\* The other steps of a call, and of a scan.
LEMMA MapProceeds ==
  ASSUME StoreInv, NEW p \in Proc, Step(p), ~ Die(p), kv' = Effect(p),
         \/ LockGranted(p) \/ ReadHead(p) \/ WalkNext(p) \/ DelFree(p) \/ DelUnlock(p)
         \/ ReadLink(p) \/ FfHead(p) \/ FfHit(p) \/ FfNext(p) \/ FfEnd(p) \/ FfUnlock(p)
         \/ UnlockDat(p) \/ UnlockTail(p) \/ NextIdx(p) \/ NextEof(p) \/ NextDat(p)
         \/ DelDat(p) \/ ReuseDat(p) \/ AppendDat(p) \/ DelIdx(p) \/ DelPush(p) \/ FfTake(p)
         \/ ReuseIdx(p) \/ AppendIdx(p)
  PROVE  MapSteps
<1> DbInv /\ TypeOK
  BY DEF StoreInv, DbInv
<1>1. p \notin dead /\ Others(p) /\ dead' = dead /\ OpAt(p)
  BY StepKinds, StepOthers DEF StoreInv, MapInv
<1>2. /\ pc[p] \notin {"del_link", "pub", "over"} /\ UNCHANGED call
      /\ pc[p] \notin {"closed", "idle"}
  BY DEF LockGranted, ReadHead, WalkNext, DelFree, DelUnlock, ReadLink, FfHead, FfHit, FfNext,
     FfEnd, FfUnlock, UnlockDat, UnlockTail, NextIdx, NextEof, NextDat, ReadDat, DelDat, ReuseDat,
     AppendDat, DelIdx, DelPush, FfTake, ReuseIdx, AppendIdx, WritePtr, Local, LockPoints
<1>3. kv' = kv
  BY <1>1, <1>2 DEF Effect
<1>4. CASE NextIdx(p) \/ NextEof(p) \/ NextDat(p)
  <2>1. pc[p] \in {"nx_read", "nx_dat"} /\ pc'[p] \in {"nx_read", "nx_dat", "nx_unlock"}
    BY <1>4 DEF NextIdx, NextEof, NextDat, ReadDat, Goto, TypeOK
  <2>2. call[p].op \notin KeyedOps
    BY <1>1, <2>1 DEF OpAt, Scanning, KeyedOps, StoreOps
  <2> QED
    BY <1>1, <1>2, <1>3, <2>1, <2>2, MapGoesOn DEF MapSteps
<1>5. CASE DelUnlock(p)
  <2>1. /\ pc[p] = "del_unlock" /\ UNCHANGED ret
        /\ pc'[p] = IF call[p].op = "delete" THEN "unlock" ELSE "relink"
    BY <1>5 DEF DelUnlock, Goto, TypeOK
  <2>2. \/ ~ TookEffect(p) /\ ~ TookEffect(p)'
        \/ TookEffect(p) /\ TookEffect(p)' /\ ret'[p] = ret[p]
    BY <1>2, <2>1 DEF TookEffect
  <2>3. pc'[p] # "closed"
    BY <2>1
  <2> QED
    BY <1>1, <1>2, <1>3, <2>2, <2>3, MapGoesOn DEF MapSteps
<1>6. ASSUME pc[p] \notin {"unlock", "del_unlock"}, pc'[p] \notin {"unlock", "del_unlock", "closed"}
      PROVE  MapSteps
  <2>1. ~ TookEffect(p) /\ ~ TookEffect(p)'
    BY <1>6 DEF TookEffect
  <2> QED
    BY <1>1, <1>2, <1>3, <1>6, <2>1, MapGoesOn DEF MapSteps
<1>7. CASE LockGranted(p)
  <2>1. pc[p] \in LockPoints /\ pc'[p] = AfterLock(p)
    BY <1>7 DEF LockGranted, Goto, TypeOK
  <2>2. pc[p] \notin {"unlock", "del_unlock"} /\ pc'[p] \notin {"unlock", "del_unlock", "closed"}
    BY <2>1 DEF LockPoints, AfterLock
  <2> QED
    BY <1>6, <2>2
<1>8. CASE \/ ReadHead(p) \/ WalkNext(p) \/ DelFree(p) \/ ReadLink(p) \/ FfHead(p) \/ FfHit(p)
           \/ FfNext(p) \/ FfEnd(p)
  <2>1. pc[p] \notin {"unlock", "del_unlock"} /\ pc'[p] \notin {"unlock", "del_unlock", "closed"}
    BY <1>8 DEF ReadHead, WalkNext, DelFree, ReadLink, FfHead, FfHit, FfNext, FfEnd, Goto, TypeOK
  <2> QED
    BY <1>6, <2>1
<1>9. CASE \/ FfUnlock(p) \/ UnlockDat(p) \/ UnlockTail(p) \/ DelDat(p) \/ ReuseDat(p)
           \/ AppendDat(p)
  <2>1. pc[p] \notin {"unlock", "del_unlock"} /\ pc'[p] \notin {"unlock", "del_unlock", "closed"}
    BY <1>9 DEF FfUnlock, UnlockDat, UnlockTail, DelDat, ReuseDat, AppendDat, Goto, TypeOK
  <2> QED
    BY <1>6, <2>1
<1>10. CASE DelIdx(p) \/ DelPush(p) \/ FfTake(p) \/ ReuseIdx(p) \/ AppendIdx(p)
  <2>1. pc[p] \notin {"unlock", "del_unlock"} /\ pc'[p] \notin {"unlock", "del_unlock", "closed"}
    BY <1>10 DEF DelIdx, DelPush, FfTake, ReuseIdx, AppendIdx, WritePtr, Goto, TypeOK
  <2> QED
    BY <1>6, <2>1
<1> QED
  BY <1>4, <1>5, <1>7, <1>8, <1>9, <1>10

\* A process dies: the map loses at most the key a store was replacing.
LEMMA MapDeath ==
  ASSUME StoreInv, NEW p \in Proc, Step(p), Die(p), kv' = Effect(p)
  PROVE  MapSteps
<1> DbInv /\ TypeOK
  BY DEF StoreInv, DbInv
<1>1. /\ p \notin dead /\ Others(p) /\ dead' = dead \cup {p} /\ UNCHANGED <<pc, call, ret>>
      /\ OpAt(p) /\ Has(p)
  BY DieOthers DEF Step, Die, StoreInv, MapInv, Story
<1>0. PICK k : k = call[p].key
  OBVIOUS
<1>2. CASE pc[p] = "closed"
  <2>1. kv' = kv
    BY <1>1, <1>2 DEF Effect, Absent, Appending
  <2>2. StateOf(p) = "gone" /\ ReqOf(p) = NoCall /\ ResOf(p) = NoRet
    BY <1>1, <1>2 DEF OpAt, StateOf, ReqOf, ResOf, InKeyedCall, NoCall, KeyedOps, StoreOps
  <2>3. StateOf(p)' = "gone" /\ ReqOf(p)' = NoCall /\ ResOf(p)' = NoRet
    BY <1>1 DEF StateOf, ReqOf, ResOf, InKeyedCall
  <2>4. /\ MapState' = [MapState EXCEPT ![p] = "gone"] /\ MapState[p] = "gone"
        /\ MapReq' = [MapReq EXCEPT ![p] = NoCall] /\ MapReq[p] = NoCall
        /\ MapRes' = [MapRes EXCEPT ![p] = NoRet] /\ MapRes[p] = NoRet
    BY <1>1, <2>2, <2>3, MapSees
  <2>5. MapState' = MapState /\ MapReq' = MapReq /\ MapRes' = MapRes
    BY <2>4, MapFunctions
  <2> QED
    BY <2>1, <2>5 DEF MapSteps, MapStutters
<1>3. CASE pc[p] # "closed"
  <2>1. \/ kv' = kv
        \/ /\ call[p].op \in {"replace", "store"} /\ ~ TookEffect(p)
           /\ kv' = [kv EXCEPT ![call[p].key] = NoVal]
    <3>1. CASE call[p].op \in StoreOps /\ pc[p] \in Absent
      <4>1. kv' = [kv EXCEPT ![k] = NoVal]
        BY <1>0, <1>1, <3>1 DEF Effect
      <4>2. ~ TookEffect(p)
        BY <3>1 DEF TookEffect, Absent, Appending, StoreOps
      <4>3. CASE call[p].op = "insert"
        <5>1. kv[k] = NoVal /\ kv \in [Key -> Val \cup {NoVal}]
          BY <1>0, <1>1, <3>1, <4>3 DEF Has, StoreInv, MapInv
        <5>2. kv' = kv
          BY <4>1, <5>1
        <5> QED
          BY <5>2
      <4> QED
        BY <1>0, <3>1, <4>1, <4>2, <4>3 DEF StoreOps
    <3>2. CASE ~ (call[p].op \in StoreOps /\ pc[p] \in Absent)
      BY <1>1, <3>2 DEF Effect
    <3> QED
      BY <3>1, <3>2
  <2>2. Map!Leave(p)
    BY <1>1, <1>3, <2>1, MapLeaves
  <2> QED
    BY <2>2 DEF MapSteps, Map!Next
<1> QED
  BY <1>2, <1>3

\* Every step of the store is a step of the map, or none.
LEMMA MapRefines == StoreInv /\ [KVNext]_kvVars => [Map!Next]_Map!vars
<1> SUFFICES ASSUME StoreInv, [KVNext]_kvVars PROVE [Map!Next]_Map!vars
  OBVIOUS
<1>1. MapStutters => UNCHANGED Map!vars
  BY DEF MapStutters, Map!vars, MapState, MapReq, MapRes, ReqOf, ResOf
<1>2. ASSUME NEW p \in Proc, Step(p), kv' = Effect(p) PROVE MapSteps
  <2>1. CASE Die(p)
    BY <1>2, <2>1, MapDeath
  <2>2. CASE ~ Die(p)
    <3>1. LooksOn(p) \/ WritesDat(p) \/ WritesIdx(p)
      BY <1>2, <2>2, StepKinds
    <3> QED
      BY <1>2, <2>2, <3>1, MapWalk, MapFetch, MapWrites, MapEnters, MapProceeds
         DEF LooksOn, WritesDat, WritesIdx
  <2> QED
    BY <2>1, <2>2
<1>3. ASSUME UNCHANGED kvVars PROVE MapStutters
  <2>1. UNCHANGED <<pc, call, ret, dead, kv>>
    BY <1>3 DEF kvVars
  <2>2. \A p \in Proc : (InKeyedCall(p)' <=> InKeyedCall(p)) /\ (TookEffect(p)' <=> TookEffect(p))
    BY <2>1 DEF InKeyedCall, TookEffect
  <2>3. MapState' = MapState
    BY <2>1, <2>2 DEF MapState, State
  <2>4. MapReq' = MapReq /\ MapRes' = MapRes
    BY <2>1, <2>2 DEF MapReq, MapRes, ReqOf, ResOf
  <2> QED
    BY <2>1, <2>3, <2>4 DEF MapStutters
<1>4. Done /\ UNCHANGED kv => UNCHANGED kvVars
  BY DEF Done, vars, kvVars
<1> QED
  BY <1>1, <1>2, <1>3, <1>4 DEF KVNext, MapSteps

\* The map of a new database is empty.
LEMMA MapStarts == KVInit => Map!Init
<1> SUFFICES ASSUME KVInit PROVE Map!Init
  OBVIOUS
<1>1. \A p \in Proc : pc[p] = "idle" /\ call[p] = NoCall /\ p \notin dead
  BY DEF KVInit, Init
<1>2. \A p \in Proc : ~ InKeyedCall(p)
  BY <1>1 DEF InKeyedCall, NoCall, KeyedOps, StoreOps
<1>3. State = [p \in Proc |-> "idle"]
  BY <1>1, <1>2 DEF State
<1>4. kv = [k \in Key |-> NoVal]
  BY DEF KVInit
<1> QED
  BY <1>2, <1>3, <1>4 DEF Map!Init

\* The store implements the map: every db_fetch, db_store and db_delete acts on
\* it at one instant between its call and its return.
THEOREM Linearization == ASSUME NotKilledDeleting PROVE KVSpec => Linearizable
BY MapStarts, MapRefines, Storing, PTL DEF KVSpec, Linearizable, Map!Spec
=============================================================================

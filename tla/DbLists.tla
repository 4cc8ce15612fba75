------------------------------- MODULE DbLists -------------------------------
(***************************************************************************)
(* Why the lists of the index file stay lists: what each process knows     *)
(* about the cells it has read and is about to write.  A process knows it  *)
(* only while it holds its locks; a dead process knows nothing, but the    *)
(* record it had taken stays out of all lists.                             *)
(***************************************************************************)
EXTENDS DbSafety

\* No offset that is read from the file or written to it exceeds PTR_MAX.
PtrBounded ==
  /\ \A c \in Cell : ptr[c] <= PtrMax
  /\ \A p \in Proc : h[p].offset <= PtrMax /\ h[p].ptrval <= PtrMax
                       /\ h[p].link <= PtrMax /\ h[p].saveptr <= PtrMax

\* Only processes that are to change the chain get to the writes.
KnowOp(p) == pc[p] \in Writing => call[p].op # "fetch"

\* Before the walk the place in the chain is its head; during the walk it is a
\* field of the chain that points at the record to be read.
KnowPlace(p) ==
  /\ pc[p] \in {"lock", "head"} => h[p].ptroff = Chain(p)
  /\ pc[p] = "walk" =>
       /\ h[p].ptroff \in Settled /\ Home(h[p].ptroff) = Chain(p)
       /\ ptr[h[p].ptroff] = h[p].offset
       /\ h[p].offset # h[p].ptroff

\* The record to be deleted, and the field that points at it.
KnowFound(p) ==
  /\ pc[p] \in {"del_lock", "del_dat", "del_free", "del_idx"} =>
       /\ h[p].ptroff \in Settled /\ Home(h[p].ptroff) = Chain(p)
       /\ ptr[h[p].ptroff] = h[p].idxoff /\ h[p].idxoff \notin {0, h[p].ptroff}
       /\ ptr[h[p].idxoff] = h[p].ptrval
  /\ pc[p] = "del_idx" =>
       h[p].freeptr = ptr[FREE] /\ h[p].saveptr = h[p].ptrval

\* While the chain still points at the deleted record, nothing points at the
\* rest of the chain, which saveptr names.
KnowDeleted(p) ==
  /\ pc[p] \in {"del_push", "del_link"} =>
       /\ p \notin dead
       /\ h[p].ptroff \in Fields \ Held /\ Home(h[p].ptroff) = Chain(p)
       /\ h[p].saveptr # 0 =>
            /\ h[p].saveptr \in Allocated \ Held /\ Home(h[p].saveptr) = Chain(p)
            /\ \A c \in Settled : ptr[c] # h[p].saveptr
  /\ pc[p] = "del_push" =>
       /\ Home(h[p].idxoff) = FREE /\ h[p].idxoff <= PtrMax
       /\ ptr[h[p].idxoff] = ptr[FREE]

\* The head of the chain from its read by db_store to the write of the new one.
KnowLink(p) ==
  pc[p] \in Finding \cup Appending \cup {"ff_lock", "re_dat", "re_idx", "pub"} =>
    h[p].link = ptr[Chain(p)]

\* The place in the free list, as KnowPlace and KnowFound for a chain.
KnowFree(p) ==
  /\ pc[p] \in {"ff_walk", "ff_take"} =>
       /\ h[p].saveoffset \in Settled /\ Home(h[p].saveoffset) = FREE
       /\ ptr[h[p].saveoffset] = h[p].offset
       /\ h[p].offset # 0 => h[p].offset # h[p].saveoffset
  /\ pc[p] = "ff_take" =>
       /\ h[p].idxoff = h[p].offset /\ h[p].offset # 0
       /\ ptr[h[p].idxoff] = h[p].ptrval

\* The record a store has taken or appended, and is about to publish.
KnowTaken(p) ==
  /\ Taken(p) /\ pc[p] \in {"ff_unlock", "re_dat", "re_idx"} => Home(h[p].idxoff) = FREE
  /\ pc[p] \in {"app_idxunlock", "pub"} =>
       Home(h[p].idxoff) = Chain(p) /\ ptr[h[p].idxoff] = h[p].link

Know(p) ==
  KnowPlace(p) /\ KnowFound(p) /\ KnowLink(p) /\ KnowFree(p) /\ KnowTaken(p)

\* Each process has a record of its own in its hands, for ever if it died.
HeldOwned ==
  /\ \A p \in Proc : Taken(p) => h[p].idxoff \in Allocated
  /\ \A p, q \in Proc : Taken(p) /\ Taken(q) /\ p # q => h[p].idxoff # h[q].idxoff

\* The inductive invariant of the lists.
ListInv ==
  /\ PtrBounded
  /\ ListsSeparate
  /\ OneListPerRecord
  /\ HeldOwned
  /\ \A p \in Proc : KnowOp(p) /\ KnowDeleted(p)
  /\ \A p \in Proc \ dead : Know(p)
=============================================================================

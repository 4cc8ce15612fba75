-------------------------------- MODULE DbKV --------------------------------
(***************************************************************************)
(* The database implements the key-value map of KVStore.  A history        *)
(* variable holds the map; it changes at the write that makes a call take  *)
(* effect: the link of the chain around a deleted record, the new chain    *)
(* head of a stored one, or the data written over the old ones.            *)
(***************************************************************************)
EXTENDS DbSafety

CONSTANT NoVal   \* the map has no data for a key

ASSUME NoValAssumption == NoVal \notin Val \cup {Spaces}

VARIABLE kv

kvVars == <<ptr, rec, eof, dat, dateof, rlock, wlock, pc, call, h, ret, left, dead, kv>>

\* Program points of a store of data of another length after the old record
\* is gone, and of a store of a new key before its record is in the chain.
Absent == {"del_unlock", "relink", "pub"} \cup Appending

\* What the step of process p does to the map.
Effect(p) ==
  LET k == call[p].key
  IN IF p \in dead'
     THEN IF call[p].op \in StoreOps /\ pc[p] \in Absent
          THEN [kv EXCEPT ![k] = NoVal] ELSE kv
     ELSE CASE pc[p] = "del_link" /\ call[p].op = "delete" -> [kv EXCEPT ![k] = NoVal]
            [] pc[p] \in {"pub", "over"} -> [kv EXCEPT ![k] = call[p].val]
            [] OTHER -> kv

KVInit == Init /\ kv = [k \in Key |-> NoVal]

KVNext == (\E p \in Proc : Step(p) /\ kv' = Effect(p)) \/ (Done /\ UNCHANGED kv)

KVSpec == KVInit /\ [][KVNext]_kvVars

FairKVSpec == KVSpec /\ Fairness

-----------------------------------------------------------------------------
(* The refinement mapping.                                                 *)

InKeyedCall(p) == p \notin dead /\ call[p].op \in KeyedOps
TookEffect(p) == pc[p] = "unlock" \/ (pc[p] = "del_unlock" /\ call[p].op = "delete")

State == [p \in Proc |->
            IF p \in dead \/ pc[p] = "closed" THEN "gone"
            ELSE IF ~ InKeyedCall(p) THEN "idle"
            ELSE IF TookEffect(p) THEN "done" ELSE "pending"]

Map == INSTANCE KVStore WITH
         state <- State,
         req <- [p \in Proc |-> IF InKeyedCall(p) THEN call[p] ELSE NoCall],
         res <- [p \in Proc |-> IF InKeyedCall(p) /\ TookEffect(p) THEN ret[p] ELSE NoRet]

\* Every db_fetch, db_store and db_delete acts on the map at one instant
\* between its call and its return, whatever the other processes do.
Linearizable == Map!Spec

-----------------------------------------------------------------------------
(* What is on the disk.                                                    *)

\* The records a walk from head cell c comes to: the least set that holds what
\* the head and the records in the set point at.
List(c) ==
  {r \in Allocated :
     \A S \in SUBSET Allocated : (\A x \in {c} \cup S : ptr[x] \in S \cup {0}) => r \in S}

Stable(k) == \A p \in Proc : ~ (Modifies(p) /\ Chain(p) = Hash[k])

\* When no process is changing the chain of a key, the chain holds exactly
\* one record of the key if the map has data for it, with these data, and
\* none otherwise: nothing committed is lost, nothing deleted comes back.
DiskAgrees ==
  \A k \in Key : Stable(k) =>
    LET found == {r \in List(Hash[k]) : rec[r].key = k}
    IN IF kv[k] = NoVal THEN found = {}
       ELSE \E r \in found : found = {r} /\ dat[rec[r].datoff].val = kv[k]

\* Space is not lost: a record no process has in its hands is on its chain,
\* or on the free list when it is deleted.
NothingLeaks ==
  \A r \in Allocated \ (Held \cup Unlinking) :
    (\A p \in Proc : pc[p] \notin {"del_push", "del_link"}) => r \in List(Home(r))

\* A scan returns data some call stored under the key it returns: the ones
\* the map has, or the ones a db_store under way is about to put there.
ScanReturnsStored ==
  [][\A p \in Proc : NextDat(p) /\ p \notin dead' =>
       LET k == ret[p].key  v == ret'[p].val
       IN \/ v = kv[k]
          \/ \E q \in Proc : call[q].op \in StoreOps /\ call[q].key = k /\ call[q].val = v]_kvVars
=============================================================================

-------------------------------- MODULE MCDb --------------------------------
(***************************************************************************)
(* Small instances of the database for TLC.  Keys a and b share chain 1, c *)
(* has chain 2; a and c have the same length, so a deleted record of one   *)
(* can be reused for the other.  Data x and y have the same length, z is   *)
(* longer, w is too long for a record and e is the empty string.           *)
(***************************************************************************)
EXTENDS DbLists, TLC

CONSTANTS p1, p2, p3, a, b, c, x, y, z, w, e

MCHash == [k \in Key |-> IF k = c THEN 2 ELSE 1]
MCKeyLen == [k \in Key |-> IF k = b THEN 2 ELSE 1]
MCValLen == [v \in Val |-> IF v = z THEN 3 ELSE IF v = w THEN 5 ELSE IF v = e THEN 1 ELSE 2]

\* Sets of calls.  A call that has no use for a key or for data has a and x.
Of(op) == {[op |-> op, key |-> a, val |-> x]}
On(ops, keys) == [op : ops, key : keys, val : {x}]
With(ops, keys, vals) == [op : ops, key : keys, val : vals]

(* Two processes that store, delete and fetch, and calls that are refused. *)
TwoCalls == p1 :> (With({"store"}, {a, b}, {x, z}) \cup On({"delete"}, {a})
                     \cup With({"store"}, {a}, {w, e}) \cup Of("badflag"))
         @@ p2 :> (With({"store"}, {a}, {z}) \cup With({"replace"}, {c}, {x})
                     \cup With({"insert"}, {c}, {y})
                     \cup On({"fetch", "delete"}, {a, b}))
TwoMax == p1 :> 3 @@ p2 :> 3

(* A process is killed anywhere but inside _db_dodelete, between the write *)
(* of the blank data and the write that links the chain around the record. *)
(* One process scans, and the disk has room for two data records.          *)
KillSafe == Labels \ {"closed", "del_free", "del_idx", "del_push", "del_link"}
KillCalls == p1 :> (With({"store"}, {a}, {x, z}) \cup On({"delete"}, {a}))
          @@ p2 :> (With({"store"}, {b}, {y}) \cup With({"store"}, {c}, {x})
                      \cup On({"fetch"}, {a})
                      \cup Of("nextrec") \cup Of("rewind"))
KillMax == p1 :> 3 @@ p2 :> 3
=============================================================================

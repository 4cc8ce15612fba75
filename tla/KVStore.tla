------------------------------- MODULE KVStore -------------------------------
(***************************************************************************)
(* What the database promises to the processes that share it: a map from   *)
(* keys to data on which every db_fetch, db_store and db_delete acts at    *)
(* one instant between its call and its return.  A process that stops in   *)
(* the middle of a call leaves the map as it was before or after that      *)
(* call; but a store that was replacing data may leave the key without     *)
(* any.                                                                    *)
(***************************************************************************)
EXTENDS Integers

CONSTANTS Proc, Key, Val, Call, NoVal, NoCall, NoRet, Blank, Spaces

VARIABLES
  kv,     \* the map; NoVal where there is no record
  state,  \* "idle", "pending", "done" (the call took effect) or "gone"
  req,    \* the call of each process that is in one
  res     \* its result, once it took effect

vars == <<kv, state, req, res>>

Init ==
  /\ kv = [k \in Key |-> NoVal]
  /\ state = [p \in Proc |-> "idle"]
  /\ req = [p \in Proc |-> NoCall]
  /\ res = [p \in Proc |-> NoRet]

Result(rc, val) == [rc |-> rc, key |-> Blank, val |-> val]

Invoke(p) ==
  /\ state[p] = "idle"
  /\ \E c \in Call : req' = [req EXCEPT ![p] = c]
  /\ state' = [state EXCEPT ![p] = "pending"]
  /\ UNCHANGED <<kv, res>>

Put(k, v) == kv' = [kv EXCEPT ![k] = v]

\* The map and the result after call c.
Fetch(c, r) ==
  /\ c.op = "fetch"
  /\ r = IF kv[c.key] = NoVal THEN Result(-1, Spaces) ELSE Result(0, kv[c.key])
  /\ UNCHANGED kv

Delete(c, r) ==
  /\ c.op = "delete"
  /\ r = Result(IF kv[c.key] = NoVal THEN -1 ELSE 0, Spaces)
  /\ Put(c.key, NoVal)

Insert(c, r) ==
  /\ c.op = "insert"
  /\ r = Result(IF kv[c.key] = NoVal THEN 0 ELSE 1, Spaces)
  /\ IF kv[c.key] = NoVal THEN Put(c.key, c.val) ELSE UNCHANGED kv

Replace(c, r) ==
  /\ c.op = "replace"
  /\ r = Result(IF kv[c.key] = NoVal THEN -1 ELSE 0, Spaces)
  /\ IF kv[c.key] = NoVal THEN UNCHANGED kv ELSE Put(c.key, c.val)

Store(c, r) == c.op = "store" /\ r = Result(0, Spaces) /\ Put(c.key, c.val)

Apply(c, r) == Fetch(c, r) \/ Delete(c, r) \/ Insert(c, r) \/ Replace(c, r) \/ Store(c, r)

TakeEffect(p) ==
  /\ state[p] = "pending"
  /\ \E rc \in {-1, 0, 1}, v \in Val \cup {Spaces} :
       /\ Apply(req[p], Result(rc, v))
       /\ res' = [res EXCEPT ![p] = Result(rc, v)]
  /\ state' = [state EXCEPT ![p] = "done"]
  /\ UNCHANGED req

Return(p) ==
  /\ state[p] = "done"
  /\ state' = [state EXCEPT ![p] = "idle"]
  /\ req' = [req EXCEPT ![p] = NoCall]
  /\ res' = [res EXCEPT ![p] = NoRet]
  /\ UNCHANGED kv

\* The process exits, closes the database, or dies.
Leave(p) ==
  /\ state[p] # "gone"
  /\ state' = [state EXCEPT ![p] = "gone"]
  /\ req' = [req EXCEPT ![p] = NoCall]
  /\ res' = [res EXCEPT ![p] = NoRet]
  /\ \/ UNCHANGED kv
     \/ state[p] = "pending" /\ req[p].op \in {"replace", "store"} /\ Put(req[p].key, NoVal)

Next == \E p \in Proc : Invoke(p) \/ TakeEffect(p) \/ Return(p) \/ Leave(p)

Spec == Init /\ [][Next]_vars
=============================================================================

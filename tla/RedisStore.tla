----------------------------- MODULE RedisStore -----------------------------
(***************************************************************************)
(* The Redis commands the server uses, as operators on a store: a function *)
(* from keys to entries.  hichat-server/src/db/redis.ts implements them in *)
(* memory (MemoryRedisStore) for when no Redis is reachable.               *)
(*                                                                         *)
(* An entry is the set of its members or fields and whether it has a TTL.  *)
(* A key without members does not exist, and a key that comes to exist has *)
(* no TTL until EXPIRE gives it one.                                       *)
(***************************************************************************)

NoEntry == [members |-> {}, ttl |-> FALSE]

Exists(store, key) == store[key].members # {}

SMembers(store, key) == store[key].members

SAdd(store, key, m) == [store EXCEPT ![key].members = @ \cup {m}]

\* a hash is the set of its fields; field stands for those that are written
HSet(store, key, field) == SAdd(store, key, field)

Del(store, key) == [store EXCEPT ![key] = NoEntry]

SRem(store, key, m) ==
    IF store[key].members \subseteq {m}
    THEN Del(store, key)
    ELSE [store EXCEPT ![key].members = @ \ {m}]

\* mutant: EXPIRE is lost
NoExpire(store, key) == store

Expire(store, key) == [store EXCEPT ![key].ttl = Exists(store, key)]
=============================================================================

----------------------------- MODULE LocalCache -----------------------------
(***************************************************************************)
(* cache/local: the in-memory cache over FreeCache.  FreeCache itself is   *)
(* external: each of its calls is atomic, its clock and its expiry have    *)
(* second precision (0 means never), and it may evict any entry.  Time is  *)
(* in ticks, Second ticks to a second.                                     *)
(***************************************************************************)
EXTENDS Integers

CONSTANTS CacheKeys, Lockers,     \* keys; callers of SetNX
          TTLs, DefaultTTL,       \* in ticks
          Second,
          MaxTime                 \* bound: the clock

VARIABLES clock,
          entry,                  \* per key: when set, its TTL, the second it expires
          nx,                     \* per caller of SetNX: the key found missing
          won,                    \* history: keys whose entry a SetNX stored
          clobbered               \* history: a SetNX replaced the live entry of another

cacheVars == <<clock, entry, nx, won, clobbered>>

None == [set |-> 0, ttl |-> 0, expireAt |-> -1]
NoKey == "no key"

Init == /\ clock = 0
        /\ entry = [k \in CacheKeys |-> None]
        /\ nx = [c \in Lockers |-> NoKey]
        /\ won = {} /\ clobbered = FALSE

\* fc.Get finds the key.
Found(k) == entry[k].expireAt = 0 \/ clock \div Second < entry[k].expireAt

EffectiveTTL(ttl) == IF ttl <= 0 THEN DefaultTTL ELSE ttl

\* Faulty variant: a part of a second counts as a second.
Expire_RoundsUp(ttl) == (EffectiveTTL(ttl) + Second - 1) \div Second

\* int(ttl.Seconds())
Expire(ttl) == EffectiveTTL(ttl) \div Second

\* fc.Set
Stored(ttl) == [set |-> clock, ttl |-> EffectiveTTL(ttl),
                expireAt |-> IF Expire(ttl) = 0 THEN 0 ELSE clock \div Second + Expire(ttl)]

\* Set, and each turn of SetMulti.
Set(k, ttl) == /\ entry' = [entry EXCEPT ![k] = Stored(ttl)] /\ won' = won \ {k}
               /\ UNCHANGED <<clock, nx, clobbered>>

\* SetNX: the look-up; a key that is there ends the call with false.
SetNXLooks(c, k) == /\ nx[c] = NoKey /\ ~Found(k)
                    /\ nx' = [nx EXCEPT ![c] = k]
                    /\ UNCHANGED <<clock, entry, won, clobbered>>

\* SetNX: the store, which returns true.
SetNXStores(c, ttl) ==
  /\ nx[c] # NoKey
  /\ clobbered' = (clobbered \/ (nx[c] \in won /\ Found(nx[c])))
  /\ won' = won \union {nx[c]}
  /\ entry' = [entry EXCEPT ![nx[c]] = Stored(ttl)]
  /\ nx' = [nx EXCEPT ![c] = NoKey]
  /\ UNCHANGED clock

\* SetNX: fc.Set refuses the entry (too large), and the call returns its error.
SetNXFails(c) == /\ nx[c] # NoKey /\ nx' = [nx EXCEPT ![c] = NoKey]
                 /\ UNCHANGED <<clock, entry, won, clobbered>>

\* Delete, and an eviction by FreeCache.
Delete(k) == /\ entry[k] # None /\ entry' = [entry EXCEPT ![k] = None] /\ won' = won \ {k}
             /\ UNCHANGED <<clock, nx, clobbered>>

\* Close clears the cache.
Close == /\ entry' = [k \in CacheKeys |-> None] /\ won' = {}
         /\ UNCHANGED <<clock, nx, clobbered>>

Tick == /\ clock < MaxTime /\ clock' = clock + 1
        /\ UNCHANGED <<entry, nx, won, clobbered>>

Next == \/ Tick \/ Close
        \/ \E k \in CacheKeys : Delete(k) \/ \E ttl \in TTLs : Set(k, ttl)
        \/ \E c \in Lockers : \/ SetNXFails(c)
                              \/ \E k \in CacheKeys : SetNXLooks(c, k)
                              \/ \E ttl \in TTLs : SetNXStores(c, ttl)

Spec == Init /\ [][Next]_cacheVars

------------------------------------------------------------------------------
\* An entry with a TTL of a second or more is never found once its TTL is over,
\* although times are cut to whole seconds twice.
NeverOutlived ==
  \A k \in CacheKeys :
    Found(k) /\ entry[k].ttl >= Second => clock - entry[k].set < entry[k].ttl

\* "SetNX atomically sets the value only if the key does not already exist": of two
\* callers of SetNX one is told true as long as the entry it stored is there, so no
\* SetNX that returns true replaces the live entry of another that did.
SetNXExclusive == ~clobbered
=============================================================================

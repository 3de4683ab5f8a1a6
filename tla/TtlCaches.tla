------------------------------ MODULE TtlCaches ------------------------------
(***************************************************************************)
(* TtlCache: a map with an expiry and a limit.  A cache is the sequence of *)
(* its entries [key, value, at] in the order of the Map under it: setting  *)
(* a key again leaves the key in its place.                                *)
(***************************************************************************)
EXTENDS Places

CONSTANTS Ttl,  \* how long an entry is valid
          None  \* what a miss answers

KeysOf(cache)      == {cache[i].key : i \in DOMAIN cache}
EntryOf(cache, k)  == cache[CHOOSE i \in DOMAIN cache : cache[i].key = k]
Fresh(entry, now)  == now - entry.at <= Ttl

\* get: an entry past its time is no answer.
Get(cache, k, now) ==
  IF k \in KeysOf(cache) /\ Fresh(EntryOf(cache, k), now) THEN EntryOf(cache, k).value ELSE None

\* What get leaves behind: an expired entry is deleted when it is read.
AfterGet(cache, k, now) ==
  At(cache, {i \in DOMAIN cache : cache[i].key # k \/ Fresh(cache[i], now)})

Del(cache, k) == At(cache, {i \in DOMAIN cache : cache[i].key # k})

\* evict: the expired entries, and then as many from the front as are too many.
Evict(cache, max, now) ==
  LET fresh == At(cache, {i \in DOMAIN cache : Fresh(cache[i], now)})
  IN  IF Len(fresh) <= max THEN fresh ELSE SubSeq(fresh, Len(fresh) - max + 1, Len(fresh))

Put(cache, k, v, max, now) ==
  LET entry == [key |-> k, value |-> v, at |-> now]
      all   == IF k \in KeysOf(cache)
               THEN [i \in DOMAIN cache |-> IF cache[i].key = k THEN entry ELSE cache[i]]
               ELSE Append(cache, entry)
  IN  IF Len(all) > max THEN Evict(all, max, now) ELSE all
=============================================================================

------------------------- MODULE BaileysStoresProofs -------------------------
(***************************************************************************)
(* What TLAPS proves of what a Baileys adapter remembers between sockets:  *)
(* for any groups, messages, chats and contacts, any limits of the stores, *)
(* any accounts linked one after the other and any interleaving of what    *)
(* the socket reports with what is asked.                                  *)
(*                                                                         *)
(* First the operator At, by which stores are filtered: what it returns    *)
(* and in which order.  Then one invariant for each store; a step is one   *)
(* of the socket or of one store and no other (OneAtATime), so that each   *)
(* is proved by itself.  At the end whose account the entries are of,      *)
(* which relates all of them (Owned).                                      *)
(***************************************************************************)
EXTENDS BaileysStores, FiniteSetTheorems, SequenceTheorems, TLAPS

\* Which of some places one is, counted from the first.
Rank(P, i) == Cardinality({j \in P : j <= i})

\* Later places have later ranks.
LEMMA RankRises ==
  ASSUME NEW n \in Nat, NEW P \in SUBSET (1 .. n), NEW i \in P
  PROVE  /\ IsFiniteSet(P) /\ Cardinality(P) \in 0 .. n /\ Rank(P, i) \in 1 .. Cardinality(P)
         /\ \A j \in P : i < j => Rank(P, i) < Rank(P, j)
<1>1. IsFiniteSet(P) /\ Cardinality(P) \in 0 .. n
  <2>1. IsFiniteSet(1 .. n) /\ Cardinality(1 .. n) = n BY FS_Interval
  <2>2. IsFiniteSet(P) /\ Cardinality(P) <= n BY <2>1, FS_Subset
  <2>3. Cardinality(P) \in Nat BY <2>2, FS_CardinalityType
  <2> QED BY <2>2, <2>3
<1>2. \A k \in P : /\ IsFiniteSet({j \in P : j <= k}) /\ Rank(P, k) \in Nat
                   /\ Rank(P, k) <= Cardinality(P)
  <2> TAKE k \in P
  <2>1. {j \in P : j <= k} \in SUBSET P OBVIOUS
  <2> QED BY <1>1, <2>1, FS_Subset, FS_CardinalityType DEF Rank
<1>0. \A k \in P : k \in Nat OBVIOUS
<1>3. Rank(P, i) # 0
  <2>1. i \in {j \in P : j <= i} OBVIOUS
  <2> QED BY <1>2, <2>1, FS_EmptySet DEF Rank
<1>4. ASSUME NEW j \in P, i < j PROVE Rank(P, i) < Rank(P, j)
  <2>1. {l \in P : l <= i} \in SUBSET {l \in P : l <= j}
    <3> SUFFICES ASSUME NEW l \in P, l <= i PROVE l <= j OBVIOUS
    <3>1. l \in Nat /\ i \in Nat /\ j \in Nat BY <1>0
    <3> QED BY <1>4, <3>1
  <2>2. {l \in P : l <= i} # {l \in P : l <= j}
    <3>1. j \in {l \in P : l <= j} /\ j \notin {l \in P : l <= i} BY <1>4
    <3> QED BY <3>1
  <2>3. IsFiniteSet({l \in P : l <= j}) BY <1>2
  <2>4. Rank(P, i) <= Rank(P, j) /\ Rank(P, i) # Rank(P, j)
    BY <2>1, <2>2, <2>3, FS_Subset DEF Rank
  <2>5. Rank(P, i) \in Nat /\ Rank(P, j) \in Nat BY <1>2
  <2> QED BY <2>4, <2>5
<1>5. Rank(P, i) \in 1 .. Cardinality(P)
  <2>1. Rank(P, i) \in Nat /\ Rank(P, i) <= Cardinality(P) BY <1>2
  <2> QED BY <1>1, <1>3, <2>1
<1> QED BY <1>1, <1>4, <1>5

\* There is an n-th place for every n up to their number, and the n-th is before the next.
LEMMA NthIsOrdered ==
  ASSUME NEW n \in Nat, NEW P \in SUBSET (1 .. n)
  PROVE  /\ IsFiniteSet(P) /\ Cardinality(P) \in 0 .. n
         /\ \A k \in 1 .. Cardinality(P) : Nth(P, k) \in P /\ Rank(P, Nth(P, k)) = k
         /\ \A i \in P : Rank(P, i) \in 1 .. Cardinality(P) /\ Nth(P, Rank(P, i)) = i
         /\ \A k, l \in 1 .. Cardinality(P) : k < l => Nth(P, k) < Nth(P, l)
<1>1. IsFiniteSet(P) /\ Cardinality(P) \in 0 .. n
  <2>1. IsFiniteSet(1 .. n) /\ Cardinality(1 .. n) = n BY FS_Interval
  <2>2. IsFiniteSet(P) /\ Cardinality(P) <= n BY <2>1, FS_Subset
  <2>3. Cardinality(P) \in Nat BY <2>2, FS_CardinalityType
  <2> QED BY <2>2, <2>3
<1>2. \A i \in P : Rank(P, i) \in 1 .. Cardinality(P) BY RankRises
<1>3. \A i, j \in P : i < j => Rank(P, i) < Rank(P, j) BY RankRises
<1>4. \A i, j \in P : Rank(P, i) = Rank(P, j) => i = j BY <1>1, <1>2, <1>3
<1> DEFINE rank == [i \in P |-> Rank(P, i)]
<1>5. rank \in Injection(P, 1 .. Cardinality(P)) BY <1>2, <1>4 DEF Injection, IsInjective
<1>6. IsFiniteSet(1 .. Cardinality(P)) /\ Cardinality(1 .. Cardinality(P)) = Cardinality(P)
  BY <1>1, FS_Interval
<1>7. rank \in Surjection(P, 1 .. Cardinality(P)) BY <1>5, <1>6, FS_Injection
<1>8. \A k \in 1 .. Cardinality(P) : \E i \in P : Rank(P, i) = k BY <1>7 DEF Surjection
<1>9. \A k \in 1 .. Cardinality(P) : Nth(P, k) \in P /\ Rank(P, Nth(P, k)) = k
  BY <1>8 DEF Nth, Rank
<1>10. \A i \in P : Nth(P, Rank(P, i)) = i BY <1>2, <1>4, <1>9
<1>11. ASSUME NEW k \in 1 .. Cardinality(P), NEW l \in 1 .. Cardinality(P), k < l
       PROVE  Nth(P, k) < Nth(P, l)
  <2>1. Nth(P, k) \in P /\ Nth(P, l) \in P /\ Rank(P, Nth(P, k)) = k /\ Rank(P, Nth(P, l)) = l BY <1>9
  <2>2. PICK i \in P, j \in P : i = Nth(P, k) /\ j = Nth(P, l) BY <2>1
  <2>3. Rank(P, i) = k /\ Rank(P, j) = l BY <2>1, <2>2
  <2>4. i \in Nat /\ j \in Nat /\ k \in Nat /\ l \in Nat BY <1>1
  <2>5. ~(j < i) /\ j # i BY <1>3, <1>11, <2>3, <2>4
  <2> QED BY <2>2, <2>4, <2>5
<1> QED BY <1>1, <1>2, <1>9, <1>10, <1>11

\* What At returns: the elements at those places, each once, in their order.
LEMMA AtReturns ==
  ASSUME NEW S, NEW s \in Seq(S), NEW P \in SUBSET DOMAIN s, NEW t, t = At(s, P)
  PROVE  /\ t \in Seq(S) /\ Len(t) = Cardinality(P) /\ Cardinality(P) \in 0 .. Len(s)
         /\ \A k \in DOMAIN t : Nth(P, k) \in P /\ t[k] = s[Nth(P, k)]
         /\ \A i \in P : \E k \in DOMAIN t : Nth(P, k) = i
         /\ \A k, l \in DOMAIN t : k < l => Nth(P, k) < Nth(P, l)
<1>1. Len(s) \in Nat /\ DOMAIN s = 1 .. Len(s) BY LenProperties
<1>2. P \in SUBSET (1 .. Len(s)) BY <1>1
<1>3. Cardinality(P) \in 0 .. Len(s) BY <1>1, <1>2, NthIsOrdered
<1>4. \A k \in 1 .. Cardinality(P) : Nth(P, k) \in P BY <1>1, <1>2, NthIsOrdered
<1>5. t = [k \in 1 .. Cardinality(P) |-> s[Nth(P, k)]] BY DEF At
<1>6. \A k \in 1 .. Cardinality(P) : s[Nth(P, k)] \in S BY <1>4, ElementOfSeq, <1>1
<1>7. t \in Seq(S) /\ Len(t) = Cardinality(P) /\ DOMAIN t = 1 .. Cardinality(P)
  BY <1>3, <1>5, <1>6, IsASeq
<1>8. \A i \in P : \E k \in DOMAIN t : Nth(P, k) = i BY <1>1, <1>2, <1>7, NthIsOrdered
<1>9. \A k, l \in DOMAIN t : k < l => Nth(P, k) < Nth(P, l) BY <1>1, <1>2, <1>7, NthIsOrdered
<1> QED BY <1>3, <1>4, <1>5, <1>7, <1>8, <1>9

\* The entries of a cache; each key has one.
Entries(K, V) == [key : K, value : V, at : Nat]
Unique(s) == \A i, j \in DOMAIN s : s[i].key = s[j].key => i = j

\* As many values as places when no two are the same.
LEMMA UniqueCounts ==
  ASSUME NEW n \in Nat, NEW f, DOMAIN f = 1 .. n,
         \A i, j \in 1 .. n : f[i] = f[j] => i = j
  PROVE  Cardinality({f[i] : i \in 1 .. n}) = n
<1> DEFINE g == [i \in 1 .. n |-> f[i]]
           T == {f[i] : i \in 1 .. n}
<1>1. g \in Surjection(1 .. n, T) BY DEF Surjection
<1>2. g \in Injection(1 .. n, T) BY DEF Injection, IsInjective
<1>3. IsFiniteSet(1 .. n) /\ Cardinality(1 .. n) = n BY FS_Interval
<1> QED BY <1>1, <1>2, <1>3, FS_Surjection

LEMMA KeysCount ==
  ASSUME NEW S, NEW s \in Seq(S), Unique(s)
  PROVE  Cardinality(KeysOf(s)) = Len(s)
<1>1. Len(s) \in Nat /\ DOMAIN s = 1 .. Len(s) BY LenProperties
<1> DEFINE f == [i \in 1 .. Len(s) |-> s[i].key]
<1>2. DOMAIN f = 1 .. Len(s) /\ \A i, j \in 1 .. Len(s) : f[i] = f[j] => i = j
  BY <1>1 DEF Unique
<1>3. KeysOf(s) = {f[i] : i \in 1 .. Len(s)} BY <1>1 DEF KeysOf
<1> HIDE DEF f
<1> QED BY <1>1, <1>2, <1>3, UniqueCounts

\* What is left of a cache has no key twice.
LEMMA AtStaysUnique ==
  ASSUME NEW S, NEW s \in Seq(S), NEW P \in SUBSET DOMAIN s, NEW t, t = At(s, P), Unique(s)
  PROVE  t \in Seq(S) /\ Unique(t) /\ \A k \in DOMAIN t : \E i \in P : t[k] = s[i]
<1>1. /\ t \in Seq(S) /\ \A k \in DOMAIN t : Nth(P, k) \in P /\ t[k] = s[Nth(P, k)]
      /\ \A k, l \in DOMAIN t : k < l => Nth(P, k) < Nth(P, l)
  BY AtReturns
<1>2. DOMAIN t \subseteq Nat /\ P \subseteq Nat BY <1>1, LenProperties
<1>3. ASSUME NEW k \in DOMAIN t, NEW l \in DOMAIN t, t[k].key = t[l].key PROVE k = l
  <2>1. s[Nth(P, k)].key = s[Nth(P, l)].key /\ Nth(P, k) \in P /\ Nth(P, l) \in P BY <1>1, <1>3
  <2>2. Nth(P, k) = Nth(P, l) BY <2>1 DEF Unique
  <2>3. Nth(P, k) \in Nat /\ k \in Nat /\ l \in Nat BY <1>2, <2>1
  <2>4. ~(k < l) /\ ~(l < k) BY <1>1, <2>2, <2>3
  <2> QED BY <2>3, <2>4
<1> QED BY <1>1, <1>3 DEF Unique

\* Evict leaves no more than its limit, all of them from the cache.
LEMMA EvictKeeps ==
  ASSUME NEW S, NEW s \in Seq(S), Unique(s), NEW max \in Nat \ {0}, NEW time,
         NEW t, t = Evict(s, max, time)
  PROVE  t \in Seq(S) /\ Unique(t) /\ Len(t) <= max /\ \A k \in DOMAIN t : \E i \in DOMAIN s : t[k] = s[i]
<1> DEFINE P == {i \in DOMAIN s : Fresh(s[i], time)}
<1>0. P \in SUBSET DOMAIN s OBVIOUS
<1>1. PICK fresh : fresh = At(s, P) OBVIOUS
<1>6. t = IF Len(fresh) <= max THEN fresh ELSE SubSeq(fresh, Len(fresh) - max + 1, Len(fresh))
  BY <1>1 DEF Evict
<1> HIDE DEF P
<1>2. fresh \in Seq(S) /\ Unique(fresh) /\ \A k \in DOMAIN fresh : \E i \in P : fresh[k] = s[i]
  BY <1>0, <1>1, AtStaysUnique
<1>3. Len(fresh) \in Nat /\ DOMAIN fresh = 1 .. Len(fresh) BY <1>2, LenProperties
<1>4. CASE Len(fresh) <= max
  <2>1. t = fresh BY <1>6, <1>4
  <2> QED BY <1>0, <1>2, <1>4, <2>1
<1>5. CASE Len(fresh) > max
  <2> DEFINE m == Len(fresh) - max + 1
  <2>1. t = SubSeq(fresh, m, Len(fresh)) BY <1>6, <1>5, <1>3
  <2>2. m \in 1 .. Len(fresh) BY <1>3, <1>5
  <2>3. /\ t \in Seq(S) /\ Len(t) = max
        /\ \A i \in 1 .. max : t[i] = fresh[m + i - 1]
    BY <1>2, <1>3, <2>1, <2>2, SubSeqProperties
  <2>4. DOMAIN t = 1 .. max BY <2>3, LenProperties
  <2>5. \A i \in 1 .. max : m + i - 1 \in DOMAIN fresh BY <1>3, <2>2
  <2>6. ASSUME NEW i \in 1 .. max, NEW j \in 1 .. max, t[i].key = t[j].key PROVE i = j
    <3>1. fresh[m + i - 1].key = fresh[m + j - 1].key BY <2>3, <2>6
    <3>2. m + i - 1 = m + j - 1 BY <1>2, <2>5, <3>1 DEF Unique
    <3> QED BY <3>2, <2>2
  <2>7. Unique(t) BY <2>4, <2>6 DEF Unique
  <2>8. \A k \in DOMAIN t : \E i \in DOMAIN s : t[k] = s[i] BY <1>0, <1>2, <2>3, <2>4, <2>5
  <2> QED BY <2>3, <2>7, <2>8
<1> QED BY <1>3, <1>4, <1>5

\* What Put leaves: the entry, under its key alone, and others as they were.
PutTo(t, cache, k, v) ==
  \A i \in DOMAIN t : IF t[i].key = k THEN t[i].value = v ELSE \E j \in DOMAIN cache : t[i] = cache[j]

\* A cache within its limit stays within it.
LEMMA PutKeeps ==
  ASSUME NEW K, NEW V, NEW cache \in Seq(Entries(K, V)), Unique(cache), NEW k \in K, NEW v \in V,
         NEW max \in Nat \ {0}, Len(cache) <= max, NEW time \in Nat,
         NEW t, t = Put(cache, k, v, max, time)
  PROVE  t \in Seq(Entries(K, V)) /\ Unique(t) /\ Len(t) <= max /\ PutTo(t, cache, k, v)
<1> DEFINE entry == [key |-> k, value |-> v, at |-> time]
           set == [i \in DOMAIN cache |-> IF cache[i].key = k THEN entry ELSE cache[i]]
<1>1. PICK all : all = IF k \in KeysOf(cache) THEN set ELSE Append(cache, entry) OBVIOUS
<1>2. Len(cache) \in Nat /\ DOMAIN cache = 1 .. Len(cache) BY LenProperties
<1>3. entry \in Entries(K, V) BY DEF Entries
<1>4. all \in Seq(Entries(K, V)) /\ Unique(all) /\ PutTo(all, cache, k, v)
  <2>1. CASE k \in KeysOf(cache)
    <3>1. all = [i \in 1 .. Len(cache) |-> IF cache[i].key = k THEN entry ELSE cache[i]]
      BY <1>1, <1>2, <2>1
    <3>2. \A i \in 1 .. Len(cache) : cache[i] \in Entries(K, V) BY <1>2, ElementOfSeq
    <3>3. all \in Seq(Entries(K, V)) BY <1>2, <1>3, <3>1, <3>2, IsASeq
    <3>4. DOMAIN all = 1 .. Len(cache) /\ \A i \in 1 .. Len(cache) : all[i].key = cache[i].key
      BY <3>1
    <3>5. Unique(all) BY <1>2, <3>4 DEF Unique
    <3>6. PutTo(all, cache, k, v) BY <1>2, <3>1 DEF PutTo
    <3> QED BY <3>3, <3>5, <3>6
  <2>2. CASE k \notin KeysOf(cache)
    <3>1. all = Append(cache, entry) BY <1>1, <2>2
    <3>2. /\ all \in Seq(Entries(K, V)) /\ Len(all) = Len(cache) + 1
          /\ \A i \in 1 .. Len(cache) : all[i] = cache[i]
          /\ all[Len(cache) + 1] = entry
      BY <1>3, <3>1, AppendProperties
    <3>3. DOMAIN all = 1 .. (Len(cache) + 1) BY <3>2, LenProperties
    <3>4. \A i \in 1 .. Len(cache) : cache[i].key # k BY <1>2, <2>2 DEF KeysOf
    <3>5. \A i \in DOMAIN all : i \in 1 .. Len(cache) \/ i = Len(cache) + 1 BY <1>2, <3>3
    <3>6. Unique(all) BY <1>2, <3>2, <3>4, <3>5 DEF Unique
    <3>7. PutTo(all, cache, k, v) BY <1>2, <3>2, <3>4, <3>5 DEF PutTo
    <3> QED BY <3>2, <3>6, <3>7
  <2> QED BY <2>1, <2>2
<1>5. Len(all) \in Nat BY <1>4, LenProperties
<1>6. t = IF Len(all) > max THEN Evict(all, max, time) ELSE all BY <1>1 DEF Put
<1>7. CASE Len(all) > max
  <2>1. t = Evict(all, max, time) BY <1>6, <1>7
  <2>2. /\ t \in Seq(Entries(K, V)) /\ Unique(t) /\ Len(t) <= max
        /\ \A i \in DOMAIN t : \E j \in DOMAIN all : t[i] = all[j]
    BY <1>4, <2>1, EvictKeeps
  <2>3. PutTo(t, cache, k, v) BY <1>4, <2>2 DEF PutTo
  <2> QED BY <2>2, <2>3
<1>8. CASE ~(Len(all) > max)
  <2>1. t = all BY <1>6, <1>8
  <2> QED BY <1>4, <1>5, <1>8, <2>1
<1> QED BY <1>7, <1>8
-----------------------------------------------------------------------------
\* Answers are awaited on an open socket only, and a socket is open for a linked account.
SessionInv ==
  /\ sock \in {"none", "closed", "open"} /\ account \in Nat /\ linked \in BOOLEAN
  /\ unlinked \in BOOLEAN /\ now \in Nat
  /\ sock = "open" => linked
  /\ asked # {} => sock = "open"

SessionSteps == Connects \/ Drops \/ PhoneUnlinks \/ Destroys \/ Logout

\* The steps of each store.
GroupSteps ==
  \/ Tick
  \/ \E g \in Groups : GroupChanges(g) \/ CachedGroupMetadata(g) \/ GroupReported(g) \/ GroupUpserted(g)
  \/ \E a \in asked : MetadataArrives(a) \/ MetadataFails(a)
  \/ \E k \in Retried : Retries(k)
MessageSteps  == \E id \in Ids : sock = "open" /\ Remember(id)
ChatSteps     == \E c \in Chats : ChatDeleted(c) \/ \E a \in {None} \cup Activities : ChatReported(c, a)
BlockSteps    == BlocklistSet \/ \E c \in Contacts : BlockChanges(c) \/ BlocklistUpdate(c)
PresenceSteps ==
  \/ \E c \in Contacts : SubscribePresence(c)
  \/ \E i \in DOMAIN loops : Resubscribes(i) \/ ResubscribeEnds(i)

\* A step is one of the socket, or of one store and no other.
LEMMA OneAtATime ==
  ASSUME [Next]_vars
  PROVE  \/ SessionSteps
         \/ GroupSteps /\ UNCHANGED <<session, msgVars, chats, blockVars, presence>>
         \/ MessageSteps /\ UNCHANGED <<session, groupVars, chats, blockVars, presence>>
         \/ ChatSteps /\ UNCHANGED <<session, groupVars, msgVars, blockVars, presence>>
         \/ BlockSteps /\ UNCHANGED <<session, groupVars, msgVars, chats, presence>>
         \/ PresenceSteps /\ UNCHANGED <<session, groupVars, msgVars, chats, blockVars>>
         \/ UNCHANGED vars
<1>1. CASE Next
  <2>1. CASE Connects \/ Drops \/ PhoneUnlinks \/ Destroys \/ Logout
    BY <2>1 DEF SessionSteps
  <2>2. CASE Tick BY <2>2 DEF GroupSteps, Tick
  <2>3. ASSUME NEW g \in Groups,
               GroupChanges(g) \/ CachedGroupMetadata(g) \/ GroupReported(g) \/ GroupUpserted(g)
        PROVE  GroupSteps /\ UNCHANGED <<session, msgVars, chats, blockVars, presence>>
    BY <2>3 DEF GroupSteps, GroupChanges, CachedGroupMetadata, GroupReported, GroupUpserted
  <2>4. ASSUME NEW a \in asked, MetadataArrives(a) \/ MetadataFails(a)
        PROVE  GroupSteps /\ UNCHANGED <<session, msgVars, chats, blockVars, presence>>
    BY <2>4 DEF GroupSteps, MetadataArrives, MetadataFails
  <2>5. ASSUME NEW k \in Retried, Retries(k)
        PROVE  GroupSteps /\ UNCHANGED <<session, msgVars, chats, blockVars, presence>>
    BY <2>5 DEF GroupSteps, Retries
  <2>6. ASSUME NEW id \in Ids, MessageSeen(id) \/ MessageSent(id)
        PROVE  MessageSteps /\ UNCHANGED <<session, groupVars, chats, blockVars, presence>>
    BY <2>6 DEF MessageSteps, MessageSeen, MessageSent
  <2>7. ASSUME NEW c \in Chats, ChatDeleted(c) \/ \E a \in {None} \cup Activities : ChatReported(c, a)
        PROVE  ChatSteps /\ UNCHANGED <<session, groupVars, msgVars, blockVars, presence>>
    BY <2>7 DEF ChatSteps, ChatDeleted, ChatReported
  <2>8. ASSUME NEW c \in Contacts, BlockChanges(c) \/ BlocklistUpdate(c)
        PROVE  BlockSteps /\ UNCHANGED <<session, groupVars, msgVars, chats, presence>>
    BY <2>8 DEF BlockSteps, BlockChanges, BlocklistUpdate
  <2>9. CASE BlocklistSet BY <2>9 DEF BlockSteps, BlocklistSet
  <2>10. ASSUME NEW c \in Contacts, SubscribePresence(c)
         PROVE  PresenceSteps /\ UNCHANGED <<session, groupVars, msgVars, chats, blockVars>>
    BY <2>10 DEF PresenceSteps, SubscribePresence
  <2>11. ASSUME NEW i \in DOMAIN loops, Resubscribes(i) \/ ResubscribeEnds(i)
         PROVE  PresenceSteps /\ UNCHANGED <<session, groupVars, msgVars, chats, blockVars>>
    BY <2>11 DEF PresenceSteps, Resubscribes, ResubscribeEnds
  <2> QED BY <1>1, <2>1, <2>2, <2>3, <2>4, <2>5, <2>6, <2>7, <2>8, <2>9, <2>10, <2>11 DEF Next
<1> QED BY <1>1

\* What a step of the socket does to each store: it is left, or it is cleared.
LEMMA SessionLeaves ==
  ASSUME SessionSteps
  PROVE  /\ asked' = {} /\ UNCHANGED <<now, version, reported>>
         /\ \/ UNCHANGED <<lists, counters, msgVars, chats>>
            \/ /\ lists' = <<>> /\ counters' = <<>> /\ byId' = <<>> /\ heard' = <<>>
               /\ lastByChat' = NoLast /\ lastReceivedByChat' = NoLast /\ chats' = <<>>
BY DEF SessionSteps, Connects, Opens, Drops, PhoneUnlinks, Destroys, Logout, Ends, msgVars

LEMMA SessionStep ==
  ASSUME SessionInv, [Next]_vars PROVE SessionInv'
<1> USE DEF SessionInv
<1>1. CASE SessionSteps
  <2>1. asked' = {} /\ now' = now BY <1>1, SessionLeaves
  <2>2. sock' \in {"none", "closed", "open"} /\ (sock' = "open" => linked')
        /\ linked' \in BOOLEAN /\ unlinked' \in BOOLEAN
    BY <1>1 DEF SessionSteps, Connects, Opens, Drops, PhoneUnlinks, Destroys, Logout, Ends
  <2>3. account' \in {account, account + 1}
    BY <1>1 DEF SessionSteps, Connects, Opens, Drops, PhoneUnlinks, Destroys, Logout, Ends
  <2>4. account' \in Nat BY <2>3
  <2> QED BY <2>1, <2>2, <2>4
<1>2. CASE GroupSteps /\ UNCHANGED <<session, msgVars, chats, blockVars, presence>>
  <2>1. UNCHANGED <<sock, account, linked, unlinked>> BY <1>2 DEF session
  <2>2. now' \in Nat /\ (sock = "open" \/ asked' = asked \/ asked' \subseteq asked)
    <3>1. CASE Tick BY <3>1 DEF Tick
    <3>2. ASSUME NEW g \in Groups, GroupChanges(g) \/ CachedGroupMetadata(g)
          PROVE now' \in Nat /\ (sock = "open" \/ asked' = asked \/ asked' \subseteq asked)
      BY <3>2 DEF GroupChanges, CachedGroupMetadata
    <3>3. ASSUME NEW g \in Groups, GroupReported(g) \/ GroupUpserted(g)
          PROVE now' \in Nat /\ (sock = "open" \/ asked' = asked \/ asked' \subseteq asked)
      BY <3>3 DEF GroupReported, GroupUpserted
    <3>4. ASSUME NEW a \in asked, MetadataArrives(a) \/ MetadataFails(a)
          PROVE now' \in Nat /\ (sock = "open" \/ asked' = asked \/ asked' \subseteq asked)
      BY <3>4 DEF MetadataArrives, MetadataFails
    <3>5. ASSUME NEW k \in Retried, Retries(k)
          PROVE now' \in Nat /\ (sock = "open" \/ asked' = asked \/ asked' \subseteq asked)
      BY <3>5 DEF Retries
    <3> QED BY <1>2, <3>1, <3>2, <3>3, <3>4, <3>5 DEF GroupSteps
  <2> QED BY <2>1, <2>2
<1>3. CASE UNCHANGED <<session, groupVars>> BY <1>3 DEF session, groupVars
<1> QED BY <1>1, <1>2, <1>3, OneAtATime DEF vars, stores
-----------------------------------------------------------------------------
Lists == [version : Nat, account : Nat, raced : BOOLEAN]

\* An answer that is no older than what was reported, or that a report raced.
Current(g, v, raced) == v >= reported[g] \/ raced

\* Each list kept, and each under way, is as new as what was reported, or a report raced it.
GroupInv ==
  /\ lists \in Seq(Entries(Groups, Lists)) /\ Unique(lists) /\ Len(lists) <= MaxLists
  /\ counters \in Seq(Entries(Retried, Nat)) /\ Unique(counters) /\ Len(counters) <= MaxRetries
  /\ version \in [Groups -> Nat] /\ reported \in [Groups -> Nat]
  /\ \A g \in Groups : reported[g] <= version[g]
  /\ asked \subseteq Groups \X Nat \X BOOLEAN
  /\ \A a \in asked : Current(a[1], a[2], a[3])
  /\ \A i \in DOMAIN lists :
       Current(lists[i].key, lists[i].value.version, lists[i].value.raced)

LEMMA EmptyIsUnique ==
  ASSUME NEW S PROVE <<>> \in Seq(S) /\ Unique(<<>>) /\ Len(<<>>) = 0 /\ DOMAIN <<>> = {}
BY EmptySeq DEF Unique

\* A list that arrives is as current as it is said to be, and no other is touched.
LEMMA ListIsPut ==
  ASSUME SessionInv, GroupInv, NEW g \in Groups, NEW v \in Nat, NEW raced \in BOOLEAN,
         v >= reported'[g] \/ raced, reported' \in [Groups -> Nat],
         \A h \in Groups \ {g} : reported'[h] = reported[h],
         lists' = List(g, v, raced)
  PROVE  /\ lists' \in Seq(Entries(Groups, Lists)) /\ Unique(lists)' /\ Len(lists') <= MaxLists
         /\ \A i \in DOMAIN lists' :
              Current(lists[i].key, lists[i].value.version, lists[i].value.raced)'
<1> DEFINE value == [version |-> v, account |-> account, raced |-> raced]
<1>1. value \in Lists BY DEF Lists, SessionInv
<1>2. lists' = Put(lists, g, value, MaxLists, now) BY DEF List
<1>3. MaxLists \in Nat \ {0} /\ now \in Nat BY StoresAssumption DEF SessionInv
<1>4. value.version = v /\ value.raced = raced OBVIOUS
<1> HIDE DEF value
<1>5. /\ lists' \in Seq(Entries(Groups, Lists)) /\ Unique(lists') /\ Len(lists') <= MaxLists
      /\ PutTo(lists', lists, g, value)
  BY <1>1, <1>2, <1>3, PutKeeps DEF GroupInv
<1>6. ASSUME NEW i \in DOMAIN lists'
      PROVE  Current(lists[i].key, lists[i].value.version, lists[i].value.raced)'
  <2>1. CASE lists'[i].key = g
    <3>1. lists'[i].value = value BY <1>5, <2>1 DEF PutTo
    <3> QED BY <1>4, <2>1, <3>1 DEF Current
  <2>2. CASE lists'[i].key # g
    <3>1. PICK j \in DOMAIN lists : lists'[i] = lists[j] BY <1>5, <2>2 DEF PutTo
    <3>2. lists[j] \in Entries(Groups, Lists) BY ElementOfSeq, LenProperties DEF GroupInv
    <3>3. lists[j].key \in Groups \ {g} BY <2>2, <3>1, <3>2 DEF Entries
    <3>4. Current(lists[j].key, lists[j].value.version, lists[j].value.raced) BY DEF GroupInv
    <3> QED BY <3>1, <3>3, <3>4 DEF Current
  <2> QED BY <2>1, <2>2
<1> QED BY <1>5, <1>6 DEF Unique

\* Entries that go leave what is so of the others.
LEMMA ListsLose ==
  ASSUME GroupInv, NEW P \in SUBSET DOMAIN lists, lists' = At(lists, P),
         reported' \in [Groups -> Nat],
         \A i \in P : reported'[lists[i].key] = reported[lists[i].key]
  PROVE  /\ lists' \in Seq(Entries(Groups, Lists)) /\ Unique(lists)' /\ Len(lists') <= MaxLists
         /\ \A i \in DOMAIN lists' :
              Current(lists[i].key, lists[i].value.version, lists[i].value.raced)'
<1>1. /\ lists' \in Seq(Entries(Groups, Lists)) /\ Unique(lists')
      /\ \A k \in DOMAIN lists' : \E i \in P : lists'[k] = lists[i]
  BY AtStaysUnique DEF GroupInv
<1>2. lists \in Seq(Entries(Groups, Lists)) /\ Len(lists) <= MaxLists BY DEF GroupInv
<1>5. Len(lists') = Cardinality(P) /\ Cardinality(P) \in 0 .. Len(lists) BY <1>2, AtReturns
<1>6. Len(lists) \in Nat BY <1>2, LenProperties
<1>3. Len(lists') <= MaxLists BY <1>2, <1>5, <1>6, StoresAssumption
<1>4. ASSUME NEW k \in DOMAIN lists'
      PROVE  Current(lists[k].key, lists[k].value.version, lists[k].value.raced)'
  <2>1. PICK i \in P : lists'[k] = lists[i] BY <1>1
  <2>2. Current(lists[i].key, lists[i].value.version, lists[i].value.raced) BY DEF GroupInv
  <2> QED BY <2>1, <2>2 DEF Current
<1> QED BY <1>1, <1>3, <1>4 DEF Unique

\* A report of a group marks the answers about it that are under way.
LEMMA AnswersAreMarked ==
  ASSUME GroupInv, NEW g \in Groups, ReportOf(g), version' = version
  PROVE  /\ reported' \in [Groups -> Nat] /\ reported'[g] = version[g]
         /\ \A h \in Groups \ {g} : reported'[h] = reported[h]
         /\ \A h \in Groups : reported'[h] <= version'[h]
         /\ asked' \subseteq Groups \X Nat \X BOOLEAN
         /\ \A a \in asked' : Current(a[1], a[2], a[3])'
<1>1. reported' = [reported EXCEPT ![g] = version[g]] BY DEF ReportOf
<1>2. /\ reported' \in [Groups -> Nat] /\ reported'[g] = version[g]
      /\ \A h \in Groups \ {g} : reported'[h] = reported[h]
      /\ \A h \in Groups : reported'[h] <= version'[h]
  BY <1>1 DEF GroupInv
<1>3. asked' = {IF a[1] = g THEN <<g, a[2], TRUE>> ELSE a : a \in asked} BY DEF ReportOf
<1>4. ASSUME NEW b \in asked'
      PROVE  b \in Groups \X Nat \X BOOLEAN /\ Current(b[1], b[2], b[3])'
  <2>1. PICK a \in asked : b = IF a[1] = g THEN <<g, a[2], TRUE>> ELSE a BY <1>3
  <2>2. a \in Groups \X Nat \X BOOLEAN /\ Current(a[1], a[2], a[3]) BY DEF GroupInv
  <2>3. CASE a[1] = g
    <3>1. b = <<g, a[2], TRUE>> BY <2>1, <2>3
    <3> QED BY <2>2, <3>1 DEF Current
  <2>4. CASE a[1] # g
    <3>1. b = a BY <2>1, <2>4
    <3> QED BY <1>2, <2>2, <2>4, <3>1 DEF Current
  <2> QED BY <2>3, <2>4
<1> QED BY <1>2, <1>4

LEMMA CountersAreKept ==
  ASSUME SessionInv, GroupInv, NEW k \in Retried, Retries(k)
  PROVE  counters' \in Seq(Entries(Retried, Nat)) /\ Unique(counters)' /\ Len(counters') <= MaxRetries
<1>1. counters' = Put(counters, k, account, MaxRetries, now) BY DEF Retries
<1>2. MaxRetries \in Nat \ {0} /\ now \in Nat /\ account \in Nat BY StoresAssumption DEF SessionInv
<1>3. counters \in Seq(Entries(Retried, Nat)) /\ Unique(counters) /\ Len(counters) <= MaxRetries
  BY DEF GroupInv
<1>4. counters' \in Seq(Entries(Retried, Nat)) /\ Unique(counters') /\ Len(counters') <= MaxRetries
  BY <1>1, <1>2, <1>3, PutKeeps
<1> QED BY <1>4 DEF Unique

LEMMA GroupStep ==
  ASSUME SessionInv, GroupInv, GroupSteps PROVE GroupInv'
<1>1. CASE Tick
  <2>1. UNCHANGED <<lists, version, reported, asked, counters>> BY <1>1 DEF Tick
  <2> QED BY <2>1 DEF GroupInv, Unique, Current
<1>2. ASSUME NEW g \in Groups, GroupChanges(g) PROVE GroupInv'
  <2>1. version' = [version EXCEPT ![g] = @ + 1] /\ UNCHANGED <<lists, reported, asked, counters>>
    BY <1>2 DEF GroupChanges
  <2>2. version' \in [Groups -> Nat] /\ \A h \in Groups : reported[h] <= version'[h]
    BY <2>1 DEF GroupInv
  <2> QED BY <2>1, <2>2 DEF GroupInv, Unique, Current
<1>3. ASSUME NEW g \in Groups, CachedGroupMetadata(g) PROVE GroupInv'
  <2>1. lists' = AfterGet(lists, g, now) /\ UNCHANGED <<version, reported, counters>>
    BY <1>3 DEF CachedGroupMetadata
  <2> DEFINE P == {i \in DOMAIN lists : lists[i].key # g \/ Fresh(lists[i], now)}
  <2>2. P \in SUBSET DOMAIN lists /\ lists' = At(lists, P) BY <2>1 DEF AfterGet
  <2> HIDE DEF P
  <2>3. /\ lists' \in Seq(Entries(Groups, Lists)) /\ Unique(lists)' /\ Len(lists') <= MaxLists
        /\ \A i \in DOMAIN lists' :
             Current(lists[i].key, lists[i].value.version, lists[i].value.raced)'
    BY <2>1, <2>2, ListsLose DEF GroupInv
  <2>4. asked' \subseteq asked \cup {<<g, version[g], FALSE>>} BY <1>3 DEF CachedGroupMetadata
  <2>5. \A a \in asked' : a \in Groups \X Nat \X BOOLEAN /\ Current(a[1], a[2], a[3])'
    <3> SUFFICES ASSUME NEW a \in asked' PROVE a \in Groups \X Nat \X BOOLEAN /\ Current(a[1], a[2], a[3])'
      OBVIOUS
    <3>1. CASE a \in asked BY <2>1, <3>1 DEF GroupInv, Current
    <3>2. CASE a = <<g, version[g], FALSE>> BY <2>1, <3>2 DEF GroupInv, Current
    <3> QED BY <2>4, <3>1, <3>2
  <2> QED BY <2>1, <2>3, <2>5 DEF GroupInv, Unique
<1>4. ASSUME NEW g \in Groups, GroupReported(g) PROVE GroupInv'
  <2>1. ReportOf(g) /\ lists' = Del(lists, g) /\ UNCHANGED <<version, counters>>
    BY <1>4 DEF GroupReported
  <2>2. /\ reported' \in [Groups -> Nat] /\ \A h \in Groups \ {g} : reported'[h] = reported[h]
        /\ \A h \in Groups : reported'[h] <= version'[h]
        /\ asked' \subseteq Groups \X Nat \X BOOLEAN /\ \A a \in asked' : Current(a[1], a[2], a[3])'
    BY <2>1, AnswersAreMarked
  <2> DEFINE P == {i \in DOMAIN lists : lists[i].key # g}
  <2>3. P \in SUBSET DOMAIN lists /\ lists' = At(lists, P) BY <2>1 DEF Del
  <2>4. \A i \in P : reported'[lists[i].key] = reported[lists[i].key]
    <3> SUFFICES ASSUME NEW i \in DOMAIN lists, lists[i].key # g
                 PROVE  reported'[lists[i].key] = reported[lists[i].key] OBVIOUS
    <3>1. lists[i] \in Entries(Groups, Lists) BY ElementOfSeq, LenProperties DEF GroupInv
    <3> QED BY <2>2, <3>1 DEF Entries
  <2> HIDE DEF P
  <2>5. /\ lists' \in Seq(Entries(Groups, Lists)) /\ Unique(lists)' /\ Len(lists') <= MaxLists
        /\ \A i \in DOMAIN lists' :
             Current(lists[i].key, lists[i].value.version, lists[i].value.raced)'
    BY <2>2, <2>3, <2>4, ListsLose
  <2> QED BY <2>1, <2>2, <2>5 DEF GroupInv, Unique
<1>5. ASSUME NEW g \in Groups, GroupUpserted(g) PROVE GroupInv'
  <2>1. ReportOf(g) /\ lists' = List(g, version[g], FALSE) /\ UNCHANGED <<version, counters>>
    BY <1>5 DEF GroupUpserted
  <2>2. /\ reported' \in [Groups -> Nat] /\ \A h \in Groups \ {g} : reported'[h] = reported[h]
        /\ reported'[g] = version[g]
        /\ \A h \in Groups : reported'[h] <= version'[h]
        /\ asked' \subseteq Groups \X Nat \X BOOLEAN /\ \A a \in asked' : Current(a[1], a[2], a[3])'
    BY <2>1, AnswersAreMarked
  <2>3. version[g] \in Nat /\ version[g] >= reported'[g] BY <2>2 DEF GroupInv
  <2>4. PICK v \in Nat, raced \in BOOLEAN : v = version[g] /\ raced = FALSE BY <2>3
  <2>5. lists' = List(g, v, raced) /\ (v >= reported'[g] \/ raced) BY <2>1, <2>3, <2>4
  <2>6. /\ lists' \in Seq(Entries(Groups, Lists)) /\ Unique(lists)' /\ Len(lists') <= MaxLists
        /\ \A i \in DOMAIN lists' :
             Current(lists[i].key, lists[i].value.version, lists[i].value.raced)'
    BY <2>2, <2>5, ListIsPut
  <2> QED BY <2>1, <2>2, <2>6 DEF GroupInv, Unique
<1>6. ASSUME NEW a \in asked, MetadataArrives(a) PROVE GroupInv'
  <2>1. asked' = asked \ {a} /\ lists' = List(a[1], a[2], a[3]) /\ UNCHANGED <<version, reported, counters>>
    BY <1>6 DEF MetadataArrives
  <2>2. a \in Groups \X Nat \X BOOLEAN /\ Current(a[1], a[2], a[3]) BY DEF GroupInv
  <2>3. PICK g \in Groups, v \in Nat, raced \in BOOLEAN : g = a[1] /\ v = a[2] /\ raced = a[3]
    BY <2>2
  <2>4. lists' = List(g, v, raced) /\ (v >= reported'[g] \/ raced) BY <2>1, <2>2, <2>3 DEF Current
  <2>5. /\ lists' \in Seq(Entries(Groups, Lists)) /\ Unique(lists)' /\ Len(lists') <= MaxLists
        /\ \A i \in DOMAIN lists' :
             Current(lists[i].key, lists[i].value.version, lists[i].value.raced)'
    BY <2>1, <2>4, ListIsPut DEF GroupInv
  <2> QED BY <2>1, <2>5 DEF GroupInv, Unique, Current
<1>7. ASSUME NEW a \in asked, MetadataFails(a) PROVE GroupInv'
  <2>1. asked' = asked \ {a} /\ UNCHANGED <<lists, version, reported, counters>>
    BY <1>7 DEF MetadataFails
  <2> QED BY <2>1 DEF GroupInv, Unique, Current
<1>8. ASSUME NEW k \in Retried, Retries(k) PROVE GroupInv'
  <2>1. UNCHANGED <<lists, version, reported, asked>> BY <1>8 DEF Retries
  <2>2. counters' \in Seq(Entries(Retried, Nat)) /\ Unique(counters)' /\ Len(counters') <= MaxRetries
    BY <1>8, CountersAreKept
  <2> QED BY <2>1, <2>2 DEF GroupInv, Unique, Current
<1> QED BY <1>1, <1>2, <1>3, <1>4, <1>5, <1>6, <1>7, <1>8 DEF GroupSteps

LEMMA GroupSessionStep ==
  ASSUME GroupInv, SessionSteps PROVE GroupInv'
<1>1. /\ asked' = {} /\ UNCHANGED <<version, reported>>
      /\ UNCHANGED <<lists, counters>> \/ (lists' = <<>> /\ counters' = <<>>)
  BY SessionLeaves
<1>2. MaxLists \in Nat \ {0} /\ MaxRetries \in Nat \ {0} BY StoresAssumption
<1>3. CASE UNCHANGED <<lists, counters>> BY <1>1, <1>3 DEF GroupInv, Unique, Current
<1>4. CASE lists' = <<>> /\ counters' = <<>>
  <2>1. /\ lists' \in Seq(Entries(Groups, Lists)) /\ Unique(lists') /\ Len(lists') = 0
        /\ counters' \in Seq(Entries(Retried, Nat)) /\ Unique(counters') /\ Len(counters') = 0
        /\ DOMAIN lists' = {}
    BY <1>4, EmptyIsUnique
  <2> QED BY <1>1, <1>2, <2>1 DEF GroupInv, Unique
<1> QED BY <1>1, <1>3, <1>4

LEMMA GroupUnchanged == ASSUME GroupInv, UNCHANGED groupVars PROVE GroupInv'
<1>1. UNCHANGED <<lists, version, reported, asked, counters>> BY DEF groupVars
<1> QED BY <1>1 DEF GroupInv, Unique, Current

\* The group cache and the retry counters keep their invariant.
LEMMA GroupNext == ASSUME SessionInv, GroupInv, [Next]_vars PROVE GroupInv'
<1>1. CASE SessionSteps BY <1>1, GroupSessionStep
<1>2. CASE GroupSteps BY <1>2, GroupStep
<1>3. CASE UNCHANGED groupVars BY <1>3, GroupUnchanged
<1> QED BY <1>1, <1>2, <1>3, OneAtATime DEF vars, stores

\* What is found under a key is an entry with that key.
LEMMA FoundHasKey ==
  ASSUME NEW cache, NEW k \in KeysOf(cache)
  PROVE  \E i \in DOMAIN cache : EntryOf(cache, k) = cache[i] /\ cache[i].key = k
<1>1. \E i \in DOMAIN cache : cache[i].key = k BY DEF KeysOf
<1> QED BY <1>1 DEF EntryOf

\* It implies StaleOnlyIfRaced.
LEMMA ListsAreCurrent == ASSUME GroupInv PROVE StaleOnlyIfRaced
<1> SUFFICES ASSUME NEW g \in KeysOf(lists)
             PROVE  \/ EntryOf(lists, g).value.version >= reported[g]
                    \/ EntryOf(lists, g).value.raced
  BY DEF StaleOnlyIfRaced
<1>1. PICK i \in DOMAIN lists : EntryOf(lists, g) = lists[i] /\ lists[i].key = g BY FoundHasKey
<1>2. Current(lists[i].key, lists[i].value.version, lists[i].value.raced) BY DEF GroupInv
<1> QED BY <1>1, <1>2 DEF Current
-----------------------------------------------------------------------------
LEMMA Counting == ASSUME NEW n \in Nat PROVE IsFiniteSet(1 .. n) /\ Cardinality(1 .. n) = n
<1>1. 1 \in Int /\ n \in Int OBVIOUS
<1>2. IsFiniteSet(1 .. n) /\ Cardinality(1 .. n) = IF 1 > n THEN 0 ELSE n - 1 + 1 BY <1>1, FS_Interval
<1> QED BY <1>2

\* Without one place, what is after it moves up by one.
IsWithout(t, s, S, p) ==
  /\ t \in Seq(S) /\ Len(t) = Len(s) - 1
  /\ \A k \in 1 .. Len(s) - 1 : t[k] = IF k < p THEN s[k] ELSE s[k + 1]

LEMMA AtWithout ==
  ASSUME NEW S, NEW s \in Seq(S), NEW p \in DOMAIN s, NEW t, t = At(s, DOMAIN s \ {p})
  PROVE  IsWithout(t, s, S, p)
<1> DEFINE n == Len(s)
           P == DOMAIN s \ {p}
<1>1. n \in Nat /\ DOMAIN s = 1 .. n BY LenProperties
<1>2. P \in SUBSET (1 .. n) /\ P \in SUBSET DOMAIN s BY <1>1
<1>3. Cardinality(P) = n - 1
  <2>1. IsFiniteSet(1 .. n) /\ Cardinality(1 .. n) = n BY <1>1, Counting
  <2>2. p \in 1 .. n BY <1>1
  <2>0. PICK N \in Nat : N = n BY <1>1
  <2>3. PICK I : I = 1 .. n /\ N = n BY <2>0
  <2>4. IsFiniteSet(I) /\ Cardinality(I) = N /\ p \in I BY <2>1, <2>2, <2>3
  <2>5. Cardinality(I \ {p}) = N - 1 BY <2>4, FS_RemoveElement
  <2> QED BY <1>1, <2>3, <2>5
<1>4. ASSUME NEW k \in 1 .. n - 1 PROVE Nth(P, k) = IF k < p THEN k ELSE k + 1
  <2>1. CASE k < p
    <3>1. k \in P BY <1>1, <2>1
    <3>2. {j \in P : j <= k} = 1 .. k BY <1>1, <2>1
    <3>0. k \in Nat /\ Cardinality(1 .. k) = k BY <1>1, Counting
    <3>3. Rank(P, k) = k BY <3>0, <3>2 DEF Rank
    <3>4. \A i \in P : Nth(P, Rank(P, i)) = i BY <1>1, <1>2, NthIsOrdered
    <3> QED BY <2>1, <3>1, <3>3, <3>4
  <2>2. CASE ~(k < p)
    <3>1. k + 1 \in P BY <1>1, <2>2
    <3>2. {j \in P : j <= k + 1} = (1 .. k + 1) \ {p} BY <1>1, <2>2
    <3>3. Cardinality(1 .. k + 1) = k + 1 /\ IsFiniteSet(1 .. k + 1) BY Counting, <1>1
    <3>4. p \in 1 .. k + 1 BY <1>1, <2>2
    <3>0. k \in Nat /\ k + 1 - 1 = k BY <1>1
    <3>5. Cardinality((1 .. k + 1) \ {p}) = Cardinality(1 .. k + 1) - 1 BY <3>3, <3>4, FS_RemoveElement
    <3>8. Cardinality((1 .. k + 1) \ {p}) = k BY <3>0, <3>3, <3>5
    <3>7. Rank(P, k + 1) = k
      <4> HIDE DEF P
      <4> QED BY <3>2, <3>8 DEF Rank
    <3>6. \A i \in P : Nth(P, Rank(P, i)) = i BY <1>1, <1>2, NthIsOrdered
    <3> QED BY <2>2, <3>1, <3>6, <3>7
  <2> QED BY <2>1, <2>2
<1>5. /\ t \in Seq(S) /\ Len(t) = Cardinality(P)
      /\ \A k \in DOMAIN t : t[k] = s[Nth(P, k)]
  BY <1>2, AtReturns
<1>6. DOMAIN t = 1 .. n - 1 BY <1>3, <1>5, LenProperties
<1> QED BY <1>3, <1>4, <1>5, <1>6 DEF IsWithout

\* All places are the sequence itself.
LEMMA AtAll ==
  ASSUME NEW S, NEW s \in Seq(S), NEW t, t = At(s, DOMAIN s) PROVE t = s
<1> DEFINE n == Len(s)
           P == DOMAIN s
<1>1. n \in Nat /\ P = 1 .. n BY LenProperties
<1>2. P \in SUBSET (1 .. n) /\ P \in SUBSET DOMAIN s BY <1>1
<1>3. Cardinality(P) = n BY <1>1, Counting
<1>4. ASSUME NEW k \in 1 .. n PROVE Nth(P, k) = k
  <2>1. {j \in P : j <= k} = 1 .. k BY <1>1
  <2>0. k \in Nat /\ Cardinality(1 .. k) = k BY <1>1, Counting
  <2>2. Rank(P, k) = k BY <2>0, <2>1 DEF Rank
  <2>3. \A i \in P : Nth(P, Rank(P, i)) = i BY <1>1, <1>2, NthIsOrdered
  <2> QED BY <1>1, <2>2, <2>3
<1>5. /\ t \in Seq(S) /\ Len(t) = Cardinality(P)
      /\ \A k \in DOMAIN t : t[k] = s[Nth(P, k)]
  BY <1>2, AtReturns
<1>6. DOMAIN t = 1 .. n BY <1>3, <1>5, LenProperties
<1>7. \A k \in 1 .. n : t[k] = s[k] BY <1>4, <1>5, <1>6
<1> QED BY <1>1, <1>3, <1>5, <1>7, SeqEqual

\* How many go when n of a length are kept.
Drop(len, n, k) == \/ len > n /\ k = len - n
                   \/ len <= n /\ k = 0

\* What LastOf returns: the sequence from the k-th on.
IsEnd(t, s, S, k) == t \in Seq(S) /\ Len(t) = Len(s) - k /\ \A i \in 1 .. Len(s) - k : t[i] = s[k + i]

LEMMA LastOfReturns ==
  ASSUME NEW S, NEW s \in Seq(S), NEW n \in Nat \ {0}, NEW t, t = LastOf(s, n),
         NEW k \in Nat, Drop(Len(s), n, k)
  PROVE  IsEnd(t, s, S, k)
<1> DEFINE l == Len(s)
<1>1. l \in Nat BY LenProperties
<1>0. t = SubSeq(s, IF l > n THEN l - n + 1 ELSE 1, l) BY DEF LastOf
<1>6. (l > n /\ k = l - n) \/ (l <= n /\ k = 0) BY DEF Drop
<1>7. n \in Nat /\ n # 0 OBVIOUS
<1>8. \A i \in 1 .. l : s[i] \in S BY ElementOfSeq
<1>9. l = 0 => s = <<>> BY EmptySeq
<1> SUFFICES t \in Seq(S) /\ Len(t) = l - k /\ \A i \in 1 .. l - k : t[i] = s[k + i] BY DEF IsEnd
<1> HIDE DEF l
<1>2. t = SubSeq(s, k + 1, l)
  <2>1. (IF l > n THEN l - n + 1 ELSE 1) = k + 1 BY <1>1, <1>6, <1>7
  <2> QED BY <1>0, <2>1
<1>3. k + 1 \in 1 .. l + 1 BY <1>1, <1>6, <1>7
<1>4. CASE l = 0
  <2>1. k = 0 BY <1>1, <1>4, <1>6, <1>7
  <2>2. s = <<>> BY <1>4, <1>9
  <2>3. t = <<>> BY <1>2, <1>4, <2>1, <2>2, SubSeqEmpty
  <2>4. l - k = 0 BY <1>4, <2>1
  <2>5. t \in Seq(S) /\ Len(t) = 0 BY <2>3, EmptySeq
  <2> QED BY <2>4, <2>5
<1>5. CASE l # 0
  <2>1. k + 1 \in 1 .. l BY <1>1, <1>5, <1>6, <1>7
  <2>2. /\ t \in Seq(S) /\ Len(t) = l - (k + 1) + 1
        /\ \A i \in 1 .. l - (k + 1) + 1 : t[i] = s[k + 1 + i - 1]
    BY <1>1, <1>2, <1>8, <2>1, SubSeqProperties
  <2>3. l - (k + 1) + 1 = l - k BY <1>1
  <2>4. \A i \in 1 .. l - k : k + 1 + i - 1 = k + i BY <1>1
  <2> QED BY <2>2, <2>3, <2>4
<1> QED BY <1>4, <1>5
-----------------------------------------------------------------------------
\* Messages by when they were last heard of, each once.
Heard == [id : Ids, account : Nat]
UniqueIds(s) == \A i, j \in DOMAIN s : s[i].id = s[j].id => i = j
PlacesOf(s, id) == {i \in DOMAIN s : s[i].id = id}

\* What Moved returns: the message at the end, and what was after its place one place up.
MovedUp(m, s, id) ==
  /\ m \in Seq(Heard) /\ Len(m) \in Nat \ {0} /\ m[Len(m)] = [id |-> id, account |-> account]
  /\ \/ /\ PlacesOf(s, id) = {} /\ Len(m) = Len(s) + 1
        /\ \A i \in 1 .. Len(s) : m[i] = s[i]
     \/ \E p \in PlacesOf(s, id) :
          /\ Len(m) = Len(s)
          /\ \A i \in 1 .. Len(s) - 1 : m[i] = IF i < p THEN s[i] ELSE s[i + 1]

\* Where the i-th of n comes from, when that at p was moved to the end.
From(i, j, n, p) ==
  \/ i = n /\ j = p
  \/ i < p /\ j = i
  \/ i # n /\ i >= p /\ j = i + 1

\* Moved has each message once, with the moved one last.
LEMMA MovedReturns ==
  ASSUME NEW s \in Seq(Heard), UniqueIds(s), NEW id \in Ids, account \in Nat, NEW m, m = Moved(s, id)
  PROVE  MovedUp(m, s, id) /\ UniqueIds(m)
<1> DEFINE P == {i \in DOMAIN s : s[i].id # id}
           last == [id |-> id, account |-> account]
<1>1. Len(s) \in Nat /\ DOMAIN s = 1 .. Len(s) BY LenProperties
<1>2. last \in Heard /\ last.id = id BY DEF Heard
<1>3. PICK t : t = At(s, P) OBVIOUS
<1>4. m = Append(t, last) BY <1>3 DEF Moved
<1> HIDE DEF last
<1>5. ASSUME NEW n \in Nat, t \in Seq(Heard), Len(t) = n
      PROVE  /\ m \in Seq(Heard) /\ Len(m) = n + 1 /\ m[n + 1] = last
             /\ DOMAIN m = 1 .. n + 1 /\ \A i \in 1 .. n : m[i] = t[i]
  <2>1. m \in Seq(Heard) /\ Len(m) = n + 1 /\ m[n + 1] = last /\ \A i \in 1 .. n : m[i] = t[i]
    BY <1>2, <1>4, <1>5, AppendProperties
  <2> QED BY <2>1, LenProperties
<1>6. CASE PlacesOf(s, id) = {}
  <2>1. P = DOMAIN s BY <1>6 DEF PlacesOf
  <2>2. t = s BY <1>3, <2>1, AtAll
  <2>3. /\ m \in Seq(Heard) /\ Len(m) = Len(s) + 1 /\ m[Len(s) + 1] = last
        /\ DOMAIN m = 1 .. Len(s) + 1 /\ \A i \in 1 .. Len(s) : m[i] = s[i]
    BY <1>1, <1>5, <2>2
  <2>4. \A i \in 1 .. Len(s) : s[i].id # id BY <1>1, <1>6 DEF PlacesOf
  <2>5. ASSUME NEW i \in DOMAIN m, NEW j \in DOMAIN m, m[i].id = m[j].id PROVE i = j
    <3>1. (i \in 1 .. Len(s) \/ i = Len(s) + 1) /\ (j \in 1 .. Len(s) \/ j = Len(s) + 1)
      BY <1>1, <2>3
    <3> QED BY <1>1, <1>2, <2>3, <2>4, <2>5, <3>1 DEF UniqueIds
  <2>6. UniqueIds(m) BY <2>5 DEF UniqueIds
  <2>7. Len(m) \in Nat \ {0} BY <1>1, <2>3
  <2> QED BY <1>6, <2>3, <2>6, <2>7 DEF MovedUp, last
<1>7. ASSUME NEW p \in PlacesOf(s, id) PROVE MovedUp(m, s, id) /\ UniqueIds(m)
  <2>1. p \in DOMAIN s /\ s[p].id = id BY DEF PlacesOf
  <2>2. t = At(s, DOMAIN s \ {p})
    <3>1. P = DOMAIN s \ {p} BY <2>1 DEF UniqueIds
    <3> QED BY <1>3, <3>1
  <2>3. /\ t \in Seq(Heard) /\ Len(t) = Len(s) - 1
        /\ \A k \in 1 .. Len(s) - 1 : t[k] = IF k < p THEN s[k] ELSE s[k + 1]
    <3>1. IsWithout(t, s, Heard, p) BY <2>1, <2>2, AtWithout
    <3> QED BY <3>1 DEF IsWithout
  <2>4. Len(s) - 1 \in Nat /\ Len(s) - 1 + 1 = Len(s) BY <1>1, <2>1
  <2>5. /\ m \in Seq(Heard) /\ Len(m) = Len(s) /\ m[Len(s)] = last
        /\ DOMAIN m = 1 .. Len(s) /\ \A i \in 1 .. Len(s) - 1 : m[i] = t[i]
    BY <1>5, <2>3, <2>4
  <2>6. \A i \in 1 .. Len(s) - 1 : m[i] = IF i < p THEN s[i] ELSE s[i + 1] BY <2>3, <2>5
  <2>7. PICK n \in Nat : n = Len(s) /\ p \in 1 .. n BY <1>1, <2>1
  <2>8. ASSUME NEW i \in 1 .. n
        PROVE  \E j \in 1 .. n : /\ m[i].id = s[j].id
                                 /\ From(i, j, n, p)
    <3>1. CASE i = n BY <1>2, <2>1, <2>5, <2>7, <3>1 DEF From
    <3>2. CASE i # n /\ i < p
      <4>1. i \in 1 .. n - 1 BY <2>7, <3>2
      <4> QED BY <2>6, <2>7, <3>2, <4>1 DEF From
    <3>3. CASE i # n /\ ~(i < p)
      <4>1. i \in 1 .. n - 1 /\ i + 1 \in 1 .. n /\ i >= p BY <2>7, <3>3
      <4> QED BY <2>6, <2>7, <3>3, <4>1 DEF From
    <3> QED BY <3>1, <3>2, <3>3
  <2>9. ASSUME NEW i \in 1 .. n, NEW j \in 1 .. n, m[i].id = m[j].id PROVE i = j
    <3>1. PICK x \in 1 .. n : /\ m[i].id = s[x].id
                             /\ From(i, x, n, p)
      BY <2>8
    <3>2. PICK y \in 1 .. n : /\ m[j].id = s[y].id
                             /\ From(j, y, n, p)
      BY <2>8
    <3>3. x \in DOMAIN s /\ y \in DOMAIN s /\ s[x].id = s[y].id BY <1>1, <2>7, <2>9, <3>1, <3>2
    <3>4. x = y BY <3>3 DEF UniqueIds
    <3> QED BY <2>7, <3>1, <3>2, <3>4 DEF From
  <2>10. UniqueIds(m) BY <2>5, <2>7, <2>9 DEF UniqueIds
  <2>11. Len(m) \in Nat \ {0} BY <1>1, <2>1, <2>5
  <2> QED BY <2>5, <2>6, <2>10, <2>11 DEF MovedUp, last
<1> QED BY <1>6, <1>7

\* Of the newest only, moving one to the end and keeping the newest is the same as of all.
LEMMA NewestOfNewest ==
  ASSUME NEW h \in Seq(Heard), UniqueIds(h), NEW n \in Nat \ {0}, NEW id \in Ids, account \in Nat,
         NEW b, b = LastOf(h, n), NEW m, m = Moved(h, id)
  PROVE  Kept(b, id) = LastOf(m, MaxMessages) \/ n # MaxMessages
<1> SUFFICES ASSUME n = MaxMessages PROVE LastOf(Moved(b, id), n) = LastOf(m, n) BY DEF Kept
<1>0. PICK l : l = Len(h) OBVIOUS
<1>1. l \in Nat /\ DOMAIN h = 1 .. l /\ n \in Nat /\ n # 0 BY <1>0, LenProperties
<1>2. PICK k \in Nat : Drop(l, n, k) /\ ((l > n /\ k = l - n) \/ (l <= n /\ k = 0))
  <2>1. CASE l > n
    <3>1. l - n \in Nat BY <1>1, <2>1
    <3> QED BY <2>1, <3>1 DEF Drop
  <2>2. CASE ~(l > n) BY <1>1, <2>2 DEF Drop
  <2> QED BY <2>1, <2>2
<1>3. b \in Seq(Heard) /\ Len(b) = l - k /\ \A i \in 1 .. l - k : b[i] = h[k + i]
  <2>1. Drop(Len(h), n, k) BY <1>0, <1>2
  <2>2. IsEnd(b, h, Heard, k) BY <2>1, LastOfReturns
  <2> QED BY <1>0, <2>2 DEF IsEnd
<1>4. MovedUp(m, h, id) BY MovedReturns
<1>5. DOMAIN b = 1 .. l - k BY <1>3, LenProperties
<1>6. UniqueIds(b)
  <2> SUFFICES ASSUME NEW i \in 1 .. l - k, NEW j \in 1 .. l - k, b[i].id = b[j].id PROVE i = j
    BY <1>5 DEF UniqueIds
  <2>1. k + i \in DOMAIN h /\ k + j \in DOMAIN h BY <1>1, <1>2
  <2>2. k + i = k + j BY <1>3, <2>1 DEF UniqueIds
  <2> QED BY <1>2, <2>2
<1>7. PICK c : c = Moved(b, id) OBVIOUS
<1>8. MovedUp(c, b, id) BY <1>3, <1>6, <1>7, MovedReturns
<1>9. m \in Seq(Heard) /\ c \in Seq(Heard) /\ Len(m) \in Nat /\ Len(c) \in Nat BY <1>4, <1>8 DEF MovedUp
<1> DEFINE last == [id |-> id, account |-> account]
<1>10. m[Len(m)] = last /\ c[Len(c)] = last BY <1>4, <1>8 DEF MovedUp
<1> HIDE DEF last
<1> SUFFICES LastOf(c, n) = LastOf(m, n) BY <1>7
\* It is enough to find the same element in both, a fixed distance apart.
<1>11. ASSUME NEW d \in Nat, NEW e \in Nat,
              Drop(Len(m), n, d), Drop(Len(c), n, e),
              Len(m) - d = Len(c) - e,
              \A i \in 1 .. Len(c) - e : m[d + i] = c[e + i]
       PROVE  LastOf(c, n) = LastOf(m, n)
  <2>1. PICK x, y : x = LastOf(m, n) /\ y = LastOf(c, n) OBVIOUS
  <2>2. x \in Seq(Heard) /\ Len(x) = Len(m) - d /\ \A i \in 1 .. Len(m) - d : x[i] = m[d + i]
    <3>1. IsEnd(x, m, Heard, d) BY <1>9, <1>11, <2>1, LastOfReturns
    <3> QED BY <3>1 DEF IsEnd
  <2>3. y \in Seq(Heard) /\ Len(y) = Len(c) - e /\ \A i \in 1 .. Len(c) - e : y[i] = c[e + i]
    <3>1. IsEnd(y, c, Heard, e) BY <1>9, <1>11, <2>1, LastOfReturns
    <3> QED BY <3>1 DEF IsEnd
  <2>4. Len(x) = Len(y) /\ \A i \in 1 .. Len(x) : x[i] = y[i]
    <3>1. Len(x) = Len(y) /\ Len(x) = Len(c) - e /\ Len(m) - d = Len(c) - e BY <1>11, <2>2, <2>3
    <3>2. \A i \in 1 .. Len(c) - e : x[i] = m[d + i] /\ y[i] = c[e + i] BY <2>2, <2>3, <3>1
    <3> QED BY <1>11, <3>1, <3>2
  <2>5. x = y BY <2>2, <2>3, <2>4, SeqEqual
  <2> QED BY <2>1, <2>5
\* The message is new.
<1>12. CASE PlacesOf(h, id) = {}
  <2>1. Len(m) = l + 1 /\ \A i \in 1 .. l : m[i] = h[i] BY <1>0, <1>4, <1>12 DEF MovedUp
  <2>2. PlacesOf(b, id) = {}
    <3>1. \A i \in 1 .. l - k : k + i \in DOMAIN h BY <1>1, <1>2
    <3> QED BY <1>3, <1>5, <1>12, <3>1 DEF PlacesOf
  <2>3. Len(c) = l - k + 1 /\ \A i \in 1 .. l - k : c[i] = b[i] BY <1>3, <1>8, <2>2 DEF MovedUp
  <2>4. CASE l >= n
    <3>1. Len(m) - n = l + 1 - n /\ Len(m) > n /\ Len(c) > n /\ Len(c) - n = 1 /\ l - k = n
          /\ l + 1 - n \in Nat /\ k = l - n
      BY <1>1, <1>2, <2>1, <2>3, <2>4
    <3>2. ASSUME NEW i \in 1 .. n PROVE m[l + 1 - n + i] = c[1 + i]
      <4>1. CASE i = n
        <5>1. l + 1 - n + i = Len(m) /\ 1 + i = Len(c) BY <1>1, <2>1, <2>3, <3>1, <4>1
        <5> QED BY <1>10, <5>1
      <4>2. CASE i # n
        <5>1. l + 1 - n + i \in 1 .. l /\ 1 + i \in 1 .. l - k /\ k + (1 + i) = l + 1 - n + i
          BY <1>1, <2>4, <3>1, <4>2
        <5>2. m[l + 1 - n + i] = h[l + 1 - n + i] BY <2>1, <5>1
        <5>3. c[1 + i] = b[1 + i] /\ b[1 + i] = h[k + (1 + i)] BY <1>3, <2>3, <5>1
        <5> QED BY <5>1, <5>2, <5>3
      <4> QED BY <4>1, <4>2
    <3>3. Len(m) - (l + 1 - n) = n /\ Len(c) - 1 = n BY <1>1, <2>1, <2>3, <3>1
    <3>4. Drop(Len(m), n, l + 1 - n) /\ Drop(Len(c), n, 1) BY <3>1 DEF Drop
    <3> QED BY <1>11, <3>1, <3>2, <3>3, <3>4
  <2>5. CASE l < n
    <3>1. k = 0 /\ Len(m) <= n /\ Len(c) <= n /\ Len(m) = Len(c) /\ Len(c) = l + 1
      BY <1>1, <1>2, <2>1, <2>3, <2>5
    <3>2. ASSUME NEW i \in 1 .. l + 1 PROVE m[0 + i] = c[0 + i]
      <4>1. CASE i = l + 1 BY <1>1, <1>10, <3>1, <4>1
      <4>2. CASE i # l + 1
        <5>1. i \in 1 .. l /\ i \in 1 .. l - k /\ k + i = i /\ 0 + i = i BY <1>1, <3>1, <4>2
        <5> QED BY <1>3, <2>1, <2>3, <5>1
      <4> QED BY <4>1, <4>2
    <3>3. Len(m) - 0 = Len(c) - 0 /\ Len(c) - 0 = l + 1 BY <1>1, <3>1
    <3>4. Drop(Len(m), n, 0) /\ Drop(Len(c), n, 0) BY <3>1 DEF Drop
    <3> QED BY <1>11, <3>2, <3>3, <3>4
  <2> QED BY <1>1, <2>4, <2>5
\* It is known, and has a place.
<1>13. ASSUME NEW p \in PlacesOf(h, id) PROVE LastOf(c, n) = LastOf(m, n)
  <2>1. p \in 1 .. l /\ h[p].id = id BY <1>1 DEF PlacesOf
  <2>0. \A q \in 1 .. l : h[q].id = id => q = p BY <1>1, <2>1 DEF UniqueIds
  <2>2. Len(m) = l /\ \A i \in 1 .. l - 1 : m[i] = IF i < p THEN h[i] ELSE h[i + 1]
    <3>1. PICK q \in PlacesOf(h, id) :
            Len(m) = l /\ \A i \in 1 .. l - 1 : m[i] = IF i < q THEN h[i] ELSE h[i + 1]
      BY <1>0, <1>4, <1>13 DEF MovedUp
    <3>2. q = p BY <1>1, <2>0 DEF PlacesOf
    <3> QED BY <3>1, <3>2
  <2>3. \A i \in 1 .. l - k : k + i \in 1 .. l BY <1>1, <1>2
  <2>4. CASE p > k
    <3>1. p - k \in 1 .. l - k /\ k + (p - k) = p BY <1>1, <1>2, <2>1, <2>4
    <3>2. p - k \in PlacesOf(b, id) BY <1>3, <1>5, <2>1, <3>1 DEF PlacesOf
    <3>3. Len(c) = l - k /\ \A i \in 1 .. l - k - 1 : c[i] = IF i < p - k THEN b[i] ELSE b[i + 1]
      <4>1. PICK q \in PlacesOf(b, id) :
              Len(c) = l - k /\ \A i \in 1 .. l - k - 1 : c[i] = IF i < q THEN b[i] ELSE b[i + 1]
        BY <1>3, <1>8, <3>2 DEF MovedUp
      <4>2. q = p - k BY <1>6, <3>2 DEF PlacesOf, UniqueIds
      <4> QED BY <4>1, <4>2
    <3>4. Len(c) <= n /\ Len(m) - k = Len(c) - 0 /\ Len(c) - 0 = l - k
      BY <1>1, <1>2, <2>2, <3>3
    <3>5. Drop(Len(m), n, k) /\ Drop(Len(c), n, 0) BY <1>2, <2>2, <3>4 DEF Drop
    <3>6. ASSUME NEW i \in 1 .. l - k PROVE m[k + i] = c[0 + i]
      <4>1. CASE i = l - k
        <5>1. k + i = l /\ 0 + i = l - k BY <1>1, <1>2, <4>1
        <5> QED BY <1>10, <2>2, <3>3, <5>1
      <4>2. CASE i # l - k
        <5>1. /\ 0 + i = i /\ i \in 1 .. l - k - 1 /\ k + i \in 1 .. l - 1
              /\ (k + i < p <=> i < p - k) /\ k + i + 1 = k + (i + 1)
              /\ i \in 1 .. l - k /\ i + 1 \in 1 .. l - k
          BY <1>1, <1>2, <2>1, <4>2
        <5>2. m[k + i] = IF k + i < p THEN h[k + i] ELSE h[k + i + 1] BY <2>2, <5>1
        <5>3. c[i] = IF i < p - k THEN b[i] ELSE b[i + 1] BY <3>3, <5>1
        <5>4. b[i] = h[k + i] /\ b[i + 1] = h[k + (i + 1)] BY <1>3, <5>1
        <5> QED BY <5>1, <5>2, <5>3, <5>4
      <4> QED BY <4>1, <4>2
    <3> QED BY <1>2, <1>11, <3>4, <3>5, <3>6
  <2>5. CASE p <= k
    <3>1. l > n /\ k = l - n /\ l - k = n BY <1>1, <1>2, <2>1, <2>5
    <3>2. PlacesOf(b, id) = {}
      <4>1. \A i \in 1 .. l - k : k + i # p BY <1>1, <1>2, <2>1, <2>5
      <4> QED BY <1>3, <1>5, <2>0, <2>3, <4>1 DEF PlacesOf
    <3>3. Len(c) = n + 1 /\ \A i \in 1 .. n : c[i] = b[i] BY <1>3, <1>8, <3>1, <3>2 DEF MovedUp
    <3>4. Len(c) > n /\ Len(c) - n = 1 /\ Len(c) - 1 = n /\ Len(m) - k = n BY <1>1, <2>2, <3>1, <3>3
    <3>5. ASSUME NEW i \in 1 .. n PROVE m[k + i] = c[1 + i]
      <4>1. CASE i = n
        <5>1. k + i = l /\ 1 + i = n + 1 BY <1>1, <3>1, <4>1
        <5> QED BY <1>10, <2>2, <3>3, <5>1
      <4>2. CASE i # n
        <5>1. /\ k + i \in 1 .. l - 1 /\ ~(k + i < p) /\ k + i + 1 = k + (1 + i)
              /\ 1 + i \in 1 .. n /\ 1 + i \in 1 .. l - k
          BY <1>1, <1>2, <2>1, <2>5, <3>1, <4>2
        <5>2. m[k + i] = h[k + i + 1] BY <2>2, <5>1
        <5>3. c[1 + i] = b[1 + i] /\ b[1 + i] = h[k + (1 + i)] BY <1>3, <3>3, <5>1
        <5> QED BY <5>1, <5>2, <5>3
      <4> QED BY <4>1, <4>2
    <3>6. Drop(Len(m), n, k) /\ Drop(Len(c), n, 1) BY <1>2, <2>2, <3>4 DEF Drop
    <3> QED BY <1>2, <1>11, <3>4, <3>5, <3>6
  <2> QED BY <1>1, <1>2, <2>1, <2>4, <2>5
<1> QED BY <1>12, <1>13

\* v is the last of the messages of s that are in Q, or None if there is none.
PlacesIn(s, Q) == {i \in DOMAIN s : s[i].id \in Q}
IsLast(s, Q, v) ==
  \/ PlacesIn(s, Q) = {} /\ v = None
  \/ \E i \in PlacesIn(s, Q) : v = s[i].id /\ \A j \in PlacesIn(s, Q) : j <= i

\* The last message of some is the one that moved, or the one it was before.
LEMMA LastFollows ==
  ASSUME NEW s \in Seq(Heard), UniqueIds(s), NEW id \in Ids, account \in Nat, NEW m, MovedUp(m, s, id),
         NEW Q \in SUBSET Ids, NEW v, IsLast(s, Q, v)
  PROVE  /\ id \in Q => IsLast(m, Q, id)
         /\ id \notin Q => IsLast(m, Q, v)
<1>1. PICK n \in Nat : n = Len(s) /\ DOMAIN s = 1 .. n BY LenProperties
<1>2. PICK l \in Nat \ {0} : l = Len(m) /\ DOMAIN m = 1 .. l BY LenProperties DEF MovedUp
<1>3. m[l].id = id BY <1>2 DEF MovedUp
<1>4. ASSUME id \in Q PROVE IsLast(m, Q, id)
  <2>1. l \in PlacesIn(m, Q) BY <1>2, <1>3, <1>4 DEF PlacesIn
  <2>2. \A j \in PlacesIn(m, Q) : j <= l BY <1>2 DEF PlacesIn
  <2> QED BY <1>3, <2>1, <2>2 DEF IsLast
<1>5. ASSUME id \notin Q, PlacesOf(s, id) = {} PROVE IsLast(m, Q, v)
  <2>1. l = n + 1 /\ \A i \in 1 .. n : m[i] = s[i] BY <1>1, <1>2, <1>5 DEF MovedUp
  <2>2. PlacesIn(m, Q) = PlacesIn(s, Q)
    <3>1. \A i \in 1 .. l : i \in 1 .. n \/ i = l BY <1>1, <2>1
    <3>2. 1 .. n \subseteq 1 .. l BY <1>1, <2>1
    <3> QED BY <1>1, <1>2, <1>3, <1>5, <2>1, <3>1, <3>2 DEF PlacesIn
  <2>3. \A i \in PlacesIn(s, Q) : m[i] = s[i] BY <1>1, <2>1 DEF PlacesIn
  <2> QED BY <2>2, <2>3 DEF IsLast
<1>6. ASSUME id \notin Q, NEW p \in PlacesOf(s, id), Len(m) = Len(s),
             \A i \in 1 .. Len(s) - 1 : m[i] = IF i < p THEN s[i] ELSE s[i + 1]
      PROVE  IsLast(m, Q, v)
  <2>1. p \in 1 .. n /\ s[p].id = id /\ l = n BY <1>1, <1>2, <1>6 DEF PlacesOf
  <2>2. \A i \in 1 .. n - 1 : m[i] = IF i < p THEN s[i] ELSE s[i + 1] BY <1>1, <1>6
  <2>3. ASSUME NEW j \in PlacesIn(m, Q)
        PROVE  j \in 1 .. n - 1 /\ (IF j < p THEN j \in PlacesIn(s, Q) ELSE j + 1 \in PlacesIn(s, Q))
    <3>1. j \in 1 .. n /\ m[j].id \in Q BY <1>2, <2>1 DEF PlacesIn
    <3>2. j # n BY <1>3, <1>6, <2>1, <3>1
    <3>3. j \in 1 .. n - 1 BY <3>1, <3>2
    <3>4. CASE j < p BY <1>1, <2>2, <3>1, <3>3, <3>4 DEF PlacesIn
    <3>5. CASE ~(j < p)
      <4>1. m[j] = s[j + 1] /\ j + 1 \in 1 .. n BY <2>2, <3>3, <3>5
      <4> QED BY <1>1, <3>1, <3>3, <3>5, <4>1 DEF PlacesIn
    <3> QED BY <3>4, <3>5
  <2>4. CASE PlacesIn(s, Q) = {} /\ v = None
    <3>1. PlacesIn(m, Q) = {} BY <2>3, <2>4
    <3> QED BY <2>4, <3>1 DEF IsLast
  <2>5. ASSUME NEW i \in PlacesIn(s, Q), v = s[i].id, \A j \in PlacesIn(s, Q) : j <= i
        PROVE  IsLast(m, Q, v)
    <3>1. i \in 1 .. n /\ s[i].id \in Q /\ i # p BY <1>1, <1>6, <2>1 DEF PlacesIn
    <3>2. CASE i < p
      <4>1. i \in 1 .. n - 1 BY <2>1, <3>1, <3>2
      <4>2. m[i] = s[i] BY <2>2, <3>2, <4>1
      <4>3. i \in PlacesIn(m, Q) BY <1>2, <2>1, <3>1, <4>2 DEF PlacesIn
      <4>4. ASSUME NEW j \in PlacesIn(m, Q) PROVE j <= i
        <5>1. j \in 1 .. n - 1 BY <2>3
        <5>2. j < p => j <= i BY <2>3, <2>5
        <5>3. ~(j < p) => j + 1 <= i BY <2>3, <2>5
        <5> QED BY <2>1, <3>1, <3>2, <5>1, <5>2, <5>3
      <4> QED BY <2>5, <4>2, <4>3, <4>4 DEF IsLast
    <3>3. CASE i > p
      <4>1. PICK k \in 1 .. n - 1 : k + 1 = i /\ ~(k < p)
        <5>1. i - 1 \in 1 .. n - 1 /\ i - 1 + 1 = i /\ ~(i - 1 < p) BY <2>1, <3>1, <3>3
        <5> QED BY <5>1
      <4>2. m[k] = s[i] BY <2>2, <4>1
      <4>0. k \in 1 .. n BY <4>1
      <4>3. k \in PlacesIn(m, Q) BY <1>2, <2>1, <3>1, <4>0, <4>2 DEF PlacesIn
      <4>4. ASSUME NEW j \in PlacesIn(m, Q) PROVE j <= k
        <5>1. j \in 1 .. n - 1 BY <2>3
        <5>2. j < p => j <= k BY <2>1, <4>1, <5>1
        <5>3. ~(j < p) => j + 1 <= i BY <2>3, <2>5
        <5> QED BY <4>1, <5>1, <5>2, <5>3
      <4> QED BY <2>5, <4>2, <4>3, <4>4 DEF IsLast
    <3> QED BY <2>1, <3>1, <3>2, <3>3
  <2> QED BY <2>4, <2>5 DEF IsLast
<1> QED BY <1>4, <1>5, <1>6 DEF MovedUp

InChat(c)     == {id \in Ids : Messages[id].chat = c}
ReceivedIn(c) == {id \in InChat(c) : ~Messages[id].fromMe}

\* byId is the newest part of all that was heard, and the last of each chat is the last of it.
MsgInv ==
  /\ heard \in Seq(Heard) /\ UniqueIds(heard)
  /\ byId = LastOf(heard, MaxMessages)
  /\ lastByChat \in [Chats -> Ids \cup {None}] /\ lastReceivedByChat \in [Chats -> Ids \cup {None}]
  /\ \A c \in Chats : /\ IsLast(heard, InChat(c), lastByChat[c])
                      /\ IsLast(heard, ReceivedIn(c), lastReceivedByChat[c])

LEMMA EmptyIsHeard ==
  ASSUME heard' = <<>>, byId' = <<>>, lastByChat' = NoLast, lastReceivedByChat' = NoLast
  PROVE  MsgInv'
<1>1. MaxMessages \in Nat \ {0} BY StoresAssumption
<1>2. <<>> \in Seq(Heard) /\ Len(<<>>) = 0 /\ DOMAIN <<>> = {} BY EmptyIsUnique
<1>3. LastOf(<<>>, MaxMessages) = <<>>
  <2>1. PICK t, e : e = <<>> /\ t = LastOf(e, MaxMessages) OBVIOUS
  <2>2. e \in Seq(Heard) /\ Len(e) = 0 BY <1>2, <2>1
  <2>3. Drop(Len(e), MaxMessages, 0) BY <1>1, <2>2 DEF Drop
  <2>7. t = LastOf(e, MaxMessages) BY <2>1
  <2>8. e \in Seq(Heard) BY <2>2
  <2>9. PICK k \in Nat : k = 0 /\ Drop(Len(e), MaxMessages, k) BY <2>3
  <2>10. Drop(Len(e), MaxMessages, k) BY <2>9
  <2>5. t \in Seq(Heard) /\ Len(t) = Len(e) - k BY <1>1, <2>7, <2>8, <2>10, LastOfReturns DEF IsEnd
  <2>6. Len(t) = 0 BY <2>2, <2>5, <2>9
  <2> QED BY <2>1, <2>5, <2>6, EmptySeq
<1>4. UniqueIds(<<>>) BY <1>2 DEF UniqueIds
<1>5. \A Q : IsLast(<<>>, Q, None) BY <1>2 DEF IsLast, PlacesIn
<1>6. /\ lastByChat' \in [Chats -> Ids \cup {None}] /\ lastReceivedByChat' \in [Chats -> Ids \cup {None}]
      /\ \A c \in Chats : lastByChat'[c] = None /\ lastReceivedByChat'[c] = None
  BY DEF NoLast
<1>7. heard' \in Seq(Heard) /\ UniqueIds(heard)' /\ byId' = LastOf(heard', MaxMessages)
  BY <1>2, <1>3, <1>4 DEF UniqueIds
<1>8. \A c \in Chats : /\ IsLast(heard', InChat(c), lastByChat'[c])
                      /\ IsLast(heard', ReceivedIn(c), lastReceivedByChat'[c])
  BY <1>5, <1>6
<1> QED BY <1>6, <1>7, <1>8 DEF MsgInv, UniqueIds, IsLast, PlacesIn

\* One more message remembered keeps all of it.
LEMMA MessageStep ==
  ASSUME SessionInv, MsgInv, NEW id \in Ids, Remember(id) PROVE MsgInv'
<1>1. account \in Nat /\ MaxMessages \in Nat \ {0} BY StoresAssumption DEF SessionInv
<1>2. heard \in Seq(Heard) /\ UniqueIds(heard) BY DEF MsgInv
<1>3. heard' = Moved(heard, id) /\ byId' = Kept(byId, id) BY DEF Remember
<1>4. MovedUp(heard', heard, id) /\ UniqueIds(heard') BY <1>1, <1>2, <1>3, MovedReturns
<1>5. byId' = LastOf(heard', MaxMessages)
  <2>1. byId = LastOf(heard, MaxMessages) BY DEF MsgInv
  <2>2. Kept(byId, id) = LastOf(heard', MaxMessages) \/ MaxMessages # MaxMessages
    BY <1>1, <1>2, <1>3, <2>1, NewestOfNewest
  <2> QED BY <1>3, <2>2
<1>6. heard' \in Seq(Heard) BY <1>4 DEF MovedUp
<1>7. Messages[id].chat \in Chats /\ Messages[id].fromMe \in BOOLEAN BY MessagesAssumption
<1>8. lastByChat' = [lastByChat EXCEPT ![Messages[id].chat] = id] BY DEF Remember
<1>9. lastByChat' \in [Chats -> Ids \cup {None}] BY <1>8 DEF MsgInv
<1>10. lastReceivedByChat' \in [Chats -> Ids \cup {None}] BY DEF MsgInv, Remember
<1>11. ASSUME NEW c \in Chats PROVE IsLast(heard', InChat(c), lastByChat'[c])
  <2>1. IsLast(heard, InChat(c), lastByChat[c]) /\ InChat(c) \in SUBSET Ids BY DEF MsgInv, InChat
  <2>2. /\ id \in InChat(c) => IsLast(heard', InChat(c), id)
        /\ id \notin InChat(c) => IsLast(heard', InChat(c), lastByChat[c])
    BY <1>1, <1>2, <1>4, <2>1, LastFollows
  <2>3. lastByChat'[c] = IF id \in InChat(c) THEN id ELSE lastByChat[c] BY <1>8 DEF MsgInv, InChat
  <2> QED BY <2>2, <2>3
<1>12. ASSUME NEW c \in Chats PROVE IsLast(heard', ReceivedIn(c), lastReceivedByChat'[c])
  <2>1. IsLast(heard, ReceivedIn(c), lastReceivedByChat[c]) /\ ReceivedIn(c) \in SUBSET Ids
    BY DEF MsgInv, InChat, ReceivedIn
  <2>2. /\ id \in ReceivedIn(c) => IsLast(heard', ReceivedIn(c), id)
        /\ id \notin ReceivedIn(c) => IsLast(heard', ReceivedIn(c), lastReceivedByChat[c])
    BY <1>1, <1>2, <1>4, <2>1, LastFollows
  <2>3. lastReceivedByChat' = IF Messages[id].fromMe THEN lastReceivedByChat
                              ELSE [lastReceivedByChat EXCEPT ![Messages[id].chat] = id]
    BY DEF Remember
  <2>4. lastReceivedByChat \in [Chats -> Ids \cup {None}] BY DEF MsgInv
  <2>5. CASE Messages[id].fromMe
    <3>1. id \notin ReceivedIn(c) /\ lastReceivedByChat' = lastReceivedByChat BY <2>3, <2>5 DEF ReceivedIn
    <3> QED BY <2>2, <3>1
  <2>6. CASE ~Messages[id].fromMe
    <3>1. lastReceivedByChat'[c] = IF id \in ReceivedIn(c) THEN id ELSE lastReceivedByChat[c]
      BY <2>3, <2>4, <2>6 DEF ReceivedIn, InChat
    <3> QED BY <2>2, <3>1
  <2> QED BY <2>5, <2>6
<1> QED BY <1>4, <1>5, <1>6, <1>9, <1>10, <1>11, <1>12 DEF MsgInv, UniqueIds, IsLast, PlacesIn

LEMMA MsgUnchanged == ASSUME MsgInv, UNCHANGED msgVars PROVE MsgInv'
<1>1. UNCHANGED <<heard, byId, lastByChat, lastReceivedByChat>> BY DEF msgVars
<1> QED BY <1>1 DEF MsgInv, UniqueIds, IsLast, PlacesIn

LEMMA MsgNext == ASSUME SessionInv, MsgInv, [Next]_vars PROVE MsgInv'
<1>1. CASE SessionSteps
  <2>1. \/ UNCHANGED msgVars
        \/ /\ byId' = <<>> /\ heard' = <<>>
           /\ lastByChat' = NoLast /\ lastReceivedByChat' = NoLast
    BY <1>1, SessionLeaves
  <2> QED BY <2>1, MsgUnchanged, EmptyIsHeard
<1>2. CASE MessageSteps
  <2>1. PICK id \in Ids : Remember(id) BY <1>2 DEF MessageSteps
  <2> QED BY <2>1, MessageStep
<1>3. CASE UNCHANGED msgVars BY <1>3, MsgUnchanged
<1> QED BY <1>1, <1>2, <1>3, OneAtATime DEF vars, stores

\* It implies RecentAreAnswered.
LEMMA RecentOnes == ASSUME MsgInv PROVE RecentAreAnswered
<1> DEFINE last(set) == IF set = {} THEN None ELSE heard[CHOOSE i \in set : \A j \in set : j <= i].id
           of(c)     == {i \in DOMAIN heard : Messages[heard[i].id].chat = c}
           recent    == {LastOf(heard, MaxMessages)[i].id : i \in DOMAIN LastOf(heard, MaxMessages)}
           received(c) == {i \in of(c) : ~Messages[heard[i].id].fromMe}
<1>1. \A id \in Ids : CanRevoke(id) = (id \in recent) /\ ReadsVote(id) = (id \in recent)
  <2> TAKE id \in Ids
  <2>1. CanRevoke(id) = (id \in recent) BY DEF MsgInv, CanRevoke, Known
  <2>2. ReadsVote(id) = Known(id) BY MessagesAssumption DEF ReadsVote, Content, Known
  <2> QED BY <2>1, <2>2 DEF CanRevoke
<1>2. \A i \in DOMAIN heard : i \in Nat /\ heard[i].id \in Ids
  <2> TAKE i \in DOMAIN heard
  <2>1. heard \in Seq(Heard) BY DEF MsgInv
  <2>2. i \in 1 .. Len(heard) /\ Len(heard) \in Nat BY <2>1, LenProperties
  <2>3. heard[i] \in Heard BY <2>1, <2>2, ElementOfSeq
  <2> QED BY <2>2, <2>3 DEF Heard
<1>3. \A c \in Chats : of(c) = PlacesIn(heard, InChat(c)) /\ received(c) = PlacesIn(heard, ReceivedIn(c))
  BY <1>2 DEF PlacesIn, InChat, ReceivedIn
<1>4. ASSUME NEW Q, NEW v, IsLast(heard, Q, v)
      PROVE  v = last(PlacesIn(heard, Q)) /\ (PlacesIn(heard, Q) # {} => v \in Ids)
  <2>1. CASE PlacesIn(heard, Q) = {} /\ v = None BY <2>1
  <2>2. ASSUME NEW i \in PlacesIn(heard, Q), v = heard[i].id, \A j \in PlacesIn(heard, Q) : j <= i
        PROVE  v = last(PlacesIn(heard, Q)) /\ v \in Ids
    <3>1. PICK k : k = CHOOSE l \in PlacesIn(heard, Q) : \A j \in PlacesIn(heard, Q) : j <= l OBVIOUS
    <3>2. k \in PlacesIn(heard, Q) /\ \A j \in PlacesIn(heard, Q) : j <= k BY <2>2, <3>1
    <3>3. i \in DOMAIN heard /\ k \in DOMAIN heard BY <3>2 DEF PlacesIn
    <3>4. i <= k /\ k <= i /\ i \in Nat /\ k \in Nat BY <1>2, <2>2, <3>2, <3>3
    <3>5. i = k BY <3>4
    <3>6. last(PlacesIn(heard, Q)) = heard[k].id BY <3>1, <3>2
    <3> QED BY <1>2, <2>2, <3>3, <3>5, <3>6
  <2> QED BY <1>4, <2>1, <2>2 DEF IsLast
<1>5. ASSUME NEW c \in Chats
      PROVE  /\ Seen(c) = last(received(c))
             /\ Marker(c) = IF received(c) # {} THEN last(received(c)) ELSE last(of(c))
  <2>1. IsLast(heard, InChat(c), lastByChat[c]) /\ IsLast(heard, ReceivedIn(c), lastReceivedByChat[c])
    BY DEF MsgInv
  <2>2. /\ lastByChat[c] = last(of(c)) /\ lastReceivedByChat[c] = last(received(c))
        /\ (received(c) # {} => lastReceivedByChat[c] \in Ids)
    <3>1. /\ IsLast(heard, InChat(c), lastByChat[c]) =>
               lastByChat[c] = last(PlacesIn(heard, InChat(c)))
          /\ IsLast(heard, ReceivedIn(c), lastReceivedByChat[c]) =>
               /\ lastReceivedByChat[c] = last(PlacesIn(heard, ReceivedIn(c)))
               /\ PlacesIn(heard, ReceivedIn(c)) # {} => lastReceivedByChat[c] \in Ids
      BY <1>4
    <3> HIDE DEF last, of, received
    <3> QED BY <1>3, <2>1, <3>1
  <2>3. received(c) = {} => last(received(c)) = None OBVIOUS
  <2>4. None \notin Ids BY MessagesAssumption
  <2> HIDE DEF last, of, received
  <2> QED BY <2>2, <2>3, <2>4 DEF Seen, Marker
<1> QED BY <1>1, <1>5 DEF RecentAreAnswered
-----------------------------------------------------------------------------
ChatEntries == [id : Chats, activity : Nat, account : Nat]

\* The order in which chats go, and how many go before one.
Before(all, i, j) == \/ all[i].activity < all[j].activity
                     \/ all[i].activity = all[j].activity /\ i < j
Earlier(all, i) == {j \in DOMAIN all : Before(all, j, i)}

\* Of any chats there is a first in that order: counting who is earlier numbers them.
LEMMA SomeoneIsFirst ==
  ASSUME NEW all \in Seq(ChatEntries), Len(all) # 0
  PROVE  /\ \E i \in DOMAIN all : Cardinality(Earlier(all, i)) = 0
         /\ \A i \in DOMAIN all : /\ Cardinality(Earlier(all, i)) \in Nat
                                  /\ Cardinality(Earlier(all, i)) = 0 => Earlier(all, i) = {}
<1>1. PICK n \in Nat : n = Len(all) /\ DOMAIN all = 1 .. n BY LenProperties
<1>2. \A i \in 1 .. n : all[i].activity \in Nat
  <2> TAKE i \in 1 .. n
  <2>1. all[i] \in ChatEntries BY <1>1, ElementOfSeq
  <2> QED BY <2>1 DEF ChatEntries
<1>3. IsFiniteSet(1 .. n) /\ Cardinality(1 .. n) = n BY Counting
<1>4. ASSUME NEW i \in 1 .. n
      PROVE  /\ IsFiniteSet(Earlier(all, i)) /\ Cardinality(Earlier(all, i)) \in 0 .. n - 1
             /\ (Cardinality(Earlier(all, i)) = 0 => Earlier(all, i) = {})
  <2>1. Earlier(all, i) \in SUBSET ((1 .. n) \ {i}) BY <1>1, <1>2 DEF Earlier, Before
  <2>2. IsFiniteSet((1 .. n) \ {i}) /\ Cardinality((1 .. n) \ {i}) = n - 1
    BY <1>3, FS_RemoveElement
  <2>3. PICK E, R : E = Earlier(all, i) /\ R = (1 .. n) \ {i} OBVIOUS
  <2>4. E \in SUBSET R /\ IsFiniteSet(R) /\ Cardinality(R) = n - 1 BY <2>1, <2>2, <2>3
  <2>5. IsFiniteSet(E) /\ Cardinality(E) <= n - 1 BY <2>4, FS_Subset
  <2>6. Cardinality(E) \in Nat /\ (Cardinality(E) = 0 => E = {})
    BY <2>5, FS_CardinalityType, FS_EmptySet
  <2> QED BY <2>3, <2>5, <2>6
<1>5. ASSUME NEW i \in 1 .. n, NEW j \in 1 .. n, Before(all, i, j)
      PROVE  Cardinality(Earlier(all, i)) < Cardinality(Earlier(all, j))
  <2>1. PICK E, F : E = Earlier(all, i) /\ F = Earlier(all, j) OBVIOUS
  <2>2. E \subseteq F
    <3> SUFFICES ASSUME NEW k \in 1 .. n, Before(all, k, i) PROVE Before(all, k, j)
      BY <1>1, <2>1 DEF Earlier
    <3>1. PICK x \in Nat, y \in Nat, z \in Nat :
            x = all[k].activity /\ y = all[i].activity /\ z = all[j].activity BY <1>2
    <3>2. (x < y \/ (x = y /\ k < i)) /\ (y < z \/ (y = z /\ i < j)) BY <1>5, <3>1 DEF Before
    <3>3. k \in Nat /\ i \in Nat /\ j \in Nat BY <1>1
    <3>4. x < z \/ (x = z /\ k < j) BY <3>2, <3>3
    <3> QED BY <3>1, <3>4 DEF Before
  <2>3. i \in F /\ i \notin E BY <1>1, <1>2, <1>5, <2>1 DEF Earlier, Before
  <2>4. IsFiniteSet(F) /\ Cardinality(F) \in Nat /\ Cardinality(E) \in Nat BY <1>4, <2>1
  <2>5. Cardinality(E) <= Cardinality(F) /\ Cardinality(E) # Cardinality(F)
    BY <2>2, <2>3, <2>4, FS_Subset
  <2> QED BY <2>1, <2>4, <2>5
<1>6. ASSUME NEW i \in 1 .. n, NEW j \in 1 .. n,
             Cardinality(Earlier(all, i)) = Cardinality(Earlier(all, j))
      PROVE  i = j
  <2>1. Cardinality(Earlier(all, i)) \in Nat /\ Cardinality(Earlier(all, j)) \in Nat BY <1>4
  <2>2. ~Before(all, i, j) /\ ~Before(all, j, i) BY <1>5, <1>6, <2>1
  <2>3. all[i].activity \in Nat /\ all[j].activity \in Nat BY <1>2
  <2> QED BY <2>2, <2>3 DEF Before
<1> DEFINE rank == [i \in 1 .. n |-> Cardinality(Earlier(all, i))]
<1>7. rank \in Injection(1 .. n, 0 .. n - 1) BY <1>4, <1>6 DEF Injection, IsInjective
<1>8. IsFiniteSet(0 .. n - 1) /\ Cardinality(0 .. n - 1) = n
  <2>1. 0 \in Int /\ n - 1 \in Int OBVIOUS
  <2>2. IsFiniteSet(0 .. n - 1) /\ Cardinality(0 .. n - 1) = IF 0 > n - 1 THEN 0 ELSE n - 1 - 0 + 1
    BY <2>1, FS_Interval
  <2> QED BY <2>2
<1>9. rank \in Surjection(1 .. n, 0 .. n - 1) BY <1>3, <1>7, <1>8, FS_Injection
<1>10. 0 \in 0 .. n - 1 BY <1>1
<1>11. \E i \in 1 .. n : Cardinality(Earlier(all, i)) = 0 BY <1>9, <1>10 DEF Surjection
<1> QED BY <1>1, <1>4, <1>11

\* What evict returns of one chat too many: all others, and the one that goes is no more
\* active than any of them.
LEMMA TrimmedReturns ==
  ASSUME NEW all \in Seq(ChatEntries), UniqueIds(all), Len(all) <= MaxChats + 1,
         NEW t, t = Trimmed(all)
  PROVE  /\ t \in Seq(ChatEntries) /\ UniqueIds(t) /\ Len(t) <= MaxChats
         /\ \A k \in DOMAIN t : \E i \in DOMAIN all : t[k] = all[i]
         /\ \A i \in DOMAIN all : all[i].id \notin ChatIds(t) =>
              \A k \in DOMAIN t : all[i].activity <= t[k].activity
         /\ Len(all) <= MaxChats => t = all
<1>0. MaxChats \in Nat \ {0} BY StoresAssumption
<1>1. PICK n \in Nat : n = Len(all) /\ DOMAIN all = 1 .. n BY LenProperties
<1>2. CASE n <= MaxChats
  <2>1. t = all BY <1>1, <1>2 DEF Trimmed
  <2> QED BY <1>1, <1>2, <2>1 DEF ChatIds
<1>3. CASE n > MaxChats
  <2>1. n = MaxChats + 1 /\ n - MaxChats = 1 BY <1>0, <1>1, <1>3
  <2> DEFINE gone == {all[i].id : i \in {j \in DOMAIN all : Cardinality(Earlier(all, j)) < n - MaxChats}}
             P == {i \in DOMAIN all : all[i].id \notin gone}
  <2>2. t = At(all, P) BY <1>0, <1>1, <1>3 DEF Trimmed, Earlier, Before
  <2>3. PICK f \in DOMAIN all : Cardinality(Earlier(all, f)) = 0 BY <1>1, <1>3, <1>0, SomeoneIsFirst
  <2>4. \A i \in DOMAIN all : /\ Cardinality(Earlier(all, i)) \in Nat
                              /\ Cardinality(Earlier(all, i)) = 0 => Earlier(all, i) = {}
    BY <1>1, <1>3, <1>0, SomeoneIsFirst
  <2>5. ASSUME NEW i \in DOMAIN all, all[i].id \in gone PROVE Earlier(all, i) = {}
    <3>1. PICK j \in DOMAIN all : all[i].id = all[j].id /\ Cardinality(Earlier(all, j)) < n - MaxChats
      BY <2>5
    <3>2. i = j BY <3>1 DEF UniqueIds
    <3> QED BY <2>1, <2>4, <3>1, <3>2
  <2>6. all[f].id \in gone BY <2>1, <2>3
  <2> HIDE DEF gone
  <2>7. P \in SUBSET DOMAIN all /\ P \subseteq (1 .. n) \ {f} BY <1>1, <2>6
  <2>8. Cardinality(P) <= MaxChats
    <3>1. IsFiniteSet(1 .. n) /\ Cardinality(1 .. n) = n BY Counting
    <3>2. f \in 1 .. n BY <1>1
    <3>3. IsFiniteSet((1 .. n) \ {f}) /\ Cardinality((1 .. n) \ {f}) = n - 1 BY <3>1, <3>2, FS_RemoveElement
    <3>4. PICK R : R = (1 .. n) \ {f} OBVIOUS
    <3>5. IsFiniteSet(R) /\ Cardinality(R) = n - 1 /\ P \subseteq R BY <2>7, <3>3, <3>4
    <3>6. Cardinality(P) <= Cardinality(R) BY <3>5, FS_Subset
    <3> QED BY <1>0, <2>1, <3>5, <3>6
  <2>9. /\ t \in Seq(ChatEntries) /\ Len(t) = Cardinality(P)
        /\ \A k \in DOMAIN t : Nth(P, k) \in P /\ t[k] = all[Nth(P, k)]
        /\ \A i \in P : \E k \in DOMAIN t : Nth(P, k) = i
        /\ \A k, l \in DOMAIN t : k < l => Nth(P, k) < Nth(P, l)
    <3>1. P \in SUBSET DOMAIN all OBVIOUS
    <3> HIDE DEF P
    <3> QED BY <2>2, <3>1, AtReturns
  <2>10. UniqueIds(t)
    <3> SUFFICES ASSUME NEW k \in DOMAIN t, NEW l \in DOMAIN t, t[k].id = t[l].id PROVE k = l
      BY DEF UniqueIds
    <3>1. Nth(P, k) \in DOMAIN all /\ Nth(P, l) \in DOMAIN all /\ all[Nth(P, k)].id = all[Nth(P, l)].id
      BY <2>9
    <3>2. Nth(P, k) = Nth(P, l) BY <3>1 DEF UniqueIds
    <3>3. k \in Nat /\ l \in Nat /\ Nth(P, k) \in Nat BY <1>1, <2>9, <3>1, LenProperties
    <3>4. ~(k < l) /\ ~(l < k) BY <2>9, <3>2, <3>3
    <3> QED BY <3>3, <3>4
  <2>11. \A k \in DOMAIN t : \E i \in DOMAIN all : t[k] = all[i] BY <2>9
  <2>12. ASSUME NEW i \in DOMAIN all, all[i].id \notin ChatIds(t), NEW k \in DOMAIN t
         PROVE  all[i].activity <= t[k].activity
    <3>1. i \notin P BY <2>9, <2>12 DEF ChatIds
    <3>2. Earlier(all, i) = {} BY <2>5, <3>1
    <3>3. PICK j \in DOMAIN all : t[k] = all[j] BY <2>11
    <3>4. ~Before(all, j, i) BY <3>2 DEF Earlier
    <3>5. all[i] \in ChatEntries /\ all[j] \in ChatEntries BY <1>1, ElementOfSeq
    <3>6. all[i].activity \in Nat /\ all[j].activity \in Nat BY <3>5 DEF ChatEntries
    <3> QED BY <3>3, <3>4, <3>6 DEF Before
  <2> QED BY <1>1, <1>3, <1>0, <2>8, <2>9, <2>10, <2>11, <2>12
<1> QED BY <1>0, <1>1, <1>2, <1>3

\* What Merged returns: the same chats, or one more at the end.
LEMMA MergedReturns ==
  ASSUME NEW all \in Seq(ChatEntries), UniqueIds(all), NEW c \in Chats,
         NEW a \in {None} \cup Activities, account \in Nat, NEW m, m = Merged(all, c, a)
  PROVE  /\ m \in Seq(ChatEntries) /\ UniqueIds(m)
         /\ \/ /\ c \in ChatIds(all) /\ Len(m) = Len(all)
               /\ \A i \in DOMAIN all : i \in DOMAIN m /\ m[i].id = all[i].id
            \/ /\ c \notin ChatIds(all) /\ Len(m) = Len(all) + 1
               /\ \A i \in DOMAIN all : i \in DOMAIN m /\ m[i] = all[i]
         /\ \A i \in DOMAIN m : m[i].account = account \/ \E j \in DOMAIN all : m[i] = all[j]
<1> DEFINE entry(old) == [id |-> c, activity |-> IF a = None THEN old ELSE a, account |-> account]
<1>1. PICK n \in Nat : n = Len(all) /\ DOMAIN all = 1 .. n BY LenProperties
<1>2. \A old \in Nat : entry(old) \in ChatEntries /\ entry(old).id = c /\ entry(old).account = account
  BY StoresAssumption DEF ChatEntries
<1>3. \A i \in 1 .. n : all[i] \in ChatEntries /\ all[i].activity \in Nat
  <2> TAKE i \in 1 .. n
  <2>1. all[i] \in ChatEntries BY <1>1, ElementOfSeq
  <2> QED BY <2>1 DEF ChatEntries
<1>4. CASE c \in ChatIds(all)
  <2>1. m = [i \in 1 .. n |-> IF all[i].id = c THEN entry(all[i].activity) ELSE all[i]]
    BY <1>1, <1>4 DEF Merged
  <2> HIDE DEF entry
  <2>2. \A i \in 1 .. n : (IF all[i].id = c THEN entry(all[i].activity) ELSE all[i]) \in ChatEntries
    BY <1>2, <1>3
  <2>3. m \in Seq(ChatEntries) BY <2>1, <2>2, IsASeq
  <2>4. DOMAIN m = 1 .. n /\ \A i \in 1 .. n : m[i].id = all[i].id BY <1>2, <1>3, <2>1
  <2>5. Len(m) = n
    <3>1. Len(m) \in Nat /\ DOMAIN m = 1 .. Len(m) BY <2>3, LenProperties
    <3> QED BY <2>1, <2>4, <3>1
  <2>6. UniqueIds(m) BY <1>1, <2>4 DEF UniqueIds
  <2>7. \A i \in 1 .. n : m[i].account = account \/ \E j \in 1 .. n : m[i] = all[j]
    BY <1>2, <1>3, <2>1
  <2> QED BY <1>1, <1>4, <2>3, <2>4, <2>5, <2>6, <2>7
<1>5. CASE c \notin ChatIds(all)
  <2>1. PICK e \in ChatEntries : e = entry(0) /\ e.id = c /\ e.account = account BY <1>2
  <2>2. m = Append(all, e) BY <1>5, <2>1 DEF Merged
  <2> HIDE DEF entry
  <2>3. /\ m \in Seq(ChatEntries) /\ Len(m) = n + 1
        /\ (\A i \in 1 .. n : m[i] = all[i]) /\ m[n + 1] = e
    BY <1>1, <2>2, AppendProperties
  <2>4. DOMAIN m = 1 .. n + 1 BY <2>3, LenProperties
  <2>5. \A i \in 1 .. n : all[i].id # c BY <1>1, <1>5 DEF ChatIds
  <2>6. \A i \in DOMAIN m : i \in 1 .. n \/ i = n + 1 BY <2>4
  <2>7. UniqueIds(m) BY <1>1, <2>1, <2>3, <2>5, <2>6 DEF UniqueIds
  <2>8. \A i \in 1 .. n : i \in DOMAIN m BY <2>4
  <2> QED BY <1>1, <1>5, <2>1, <2>3, <2>6, <2>7, <2>8
<1> QED BY <1>4, <1>5

\* Each chat once, and no more than the limit.
ChatsInv == chats \in Seq(ChatEntries) /\ UniqueIds(chats) /\ Len(chats) <= MaxChats

\* What a step on the chats leaves: chats as they were, or of the account that is linked.
ChatsFrom == \A i \in DOMAIN chats' : \/ chats'[i].account = account
                                      \/ \E j \in DOMAIN chats : chats'[i].account = chats[j].account

\* The step of IdleChatsGo.
IdleGoes ==
  (sock = "open" /\ Len(chats') = MaxChats) =>
     \A i \in DOMAIN chats : chats[i].id \notin ChatIds(chats') =>
       \A j \in DOMAIN chats' : chats[i].activity <= chats'[j].activity

\* A report keeps that, and who goes is no more active than who stays.
LEMMA ChatReportedStep ==
  ASSUME SessionInv, ChatsInv, NEW c \in Chats, NEW a \in {None} \cup Activities, ChatReported(c, a)
  PROVE  ChatsInv' /\ IdleGoes /\ ChatsFrom
<1>0. MaxChats \in Nat \ {0} /\ account \in Nat BY StoresAssumption DEF SessionInv
<1>1. chats \in Seq(ChatEntries) /\ UniqueIds(chats) /\ Len(chats) <= MaxChats BY DEF ChatsInv
<1>2. PICK m : m = Merged(chats, c, a) OBVIOUS
<1>3. chats' = Trimmed(m) BY <1>2 DEF ChatReported
<1>4. PICK n \in Nat : n = Len(chats) /\ DOMAIN chats = 1 .. n BY <1>1, LenProperties
<1>5. /\ m \in Seq(ChatEntries) /\ UniqueIds(m)
      /\ \/ /\ c \in ChatIds(chats) /\ Len(m) = Len(chats)
            /\ \A i \in DOMAIN chats : i \in DOMAIN m /\ m[i].id = chats[i].id
         \/ /\ c \notin ChatIds(chats) /\ Len(m) = Len(chats) + 1
            /\ \A i \in DOMAIN chats : i \in DOMAIN m /\ m[i] = chats[i]
      /\ \A i \in DOMAIN m : m[i].account = account \/ \E j \in DOMAIN chats : m[i] = chats[j]
  BY <1>0, <1>1, <1>2, MergedReturns
<1>6. Len(m) <= MaxChats + 1 BY <1>0, <1>1, <1>4, <1>5
<1>7. /\ chats' \in Seq(ChatEntries) /\ UniqueIds(chats') /\ Len(chats') <= MaxChats
      /\ \A k \in DOMAIN chats' : \E i \in DOMAIN m : chats'[k] = m[i]
      /\ \A i \in DOMAIN m : m[i].id \notin ChatIds(chats') =>
           \A k \in DOMAIN chats' : m[i].activity <= chats'[k].activity
      /\ Len(m) <= MaxChats => chats' = m
  BY <1>3, <1>5, <1>6, TrimmedReturns
<1>8. ChatsFrom BY <1>5, <1>7 DEF ChatsFrom
<1>9. ASSUME NEW i \in DOMAIN chats, chats[i].id \notin ChatIds(chats'), NEW j \in DOMAIN chats'
      PROVE  chats[i].activity <= chats'[j].activity
  <2>1. CASE Len(m) = Len(chats) /\ \A k \in DOMAIN chats : k \in DOMAIN m /\ m[k].id = chats[k].id
    <3>1. chats' = m BY <1>1, <1>7, <2>1
    <3> QED BY <1>9, <2>1, <3>1 DEF ChatIds
  <2>2. CASE \A k \in DOMAIN chats : k \in DOMAIN m /\ m[k] = chats[k]
    BY <1>7, <1>9, <2>2
  <2> QED BY <1>5, <2>1, <2>2
<1> QED BY <1>7, <1>8, <1>9 DEF ChatsInv, IdleGoes, UniqueIds

\* A deletion leaves fewer than the limit.
LEMMA ChatDeletedStep ==
  ASSUME SessionInv, ChatsInv, NEW c \in Chats, ChatDeleted(c)
  PROVE  ChatsInv' /\ IdleGoes /\ ChatsFrom
<1>0. MaxChats \in Nat \ {0} BY StoresAssumption
<1>1. chats \in Seq(ChatEntries) /\ UniqueIds(chats) /\ Len(chats) <= MaxChats BY DEF ChatsInv
<1> DEFINE P == {i \in DOMAIN chats : chats[i].id # c}
<1>2. chats' = At(chats, P) BY DEF ChatDeleted
<1>3. PICK n \in Nat : n = Len(chats) /\ DOMAIN chats = 1 .. n BY <1>1, LenProperties
<1>4. CASE P = DOMAIN chats
  <2>1. chats' = chats BY <1>1, <1>2, <1>4, AtAll
  <2> QED BY <1>1, <2>1 DEF ChatsInv, UniqueIds, IdleGoes, ChatsFrom, ChatIds
<1>5. ASSUME NEW p \in DOMAIN chats, p \notin P PROVE ChatsInv' /\ IdleGoes /\ ChatsFrom
  <2>1. P = DOMAIN chats \ {p} BY <1>1, <1>5 DEF UniqueIds
  <2>2. chats' = At(chats, DOMAIN chats \ {p}) BY <1>2, <2>1
  <2>3. /\ chats' \in Seq(ChatEntries) /\ Len(chats') = n - 1
        /\ \A k \in 1 .. n - 1 : chats'[k] = IF k < p THEN chats[k] ELSE chats[k + 1]
    <3>1. PICK s : s = chats OBVIOUS
    <3>2. s \in Seq(ChatEntries) /\ p \in DOMAIN s /\ chats' = At(s, DOMAIN s \ {p})
      BY <1>1, <1>5, <2>2, <3>1
    <3>3. PICK t : t = chats' OBVIOUS
    <3>4. t = At(s, DOMAIN s \ {p}) BY <3>2, <3>3
    <3>5. IsWithout(t, s, ChatEntries, p) BY <3>2, <3>4, AtWithout
    <3> QED BY <1>3, <3>1, <3>3, <3>5 DEF IsWithout
  <2>4. DOMAIN chats' = 1 .. n - 1 BY <2>3, LenProperties
  <2>5. ASSUME NEW k \in DOMAIN chats'
        PROVE  \E i \in 1 .. n : chats'[k] = chats[i] /\ ((k < p /\ i = k) \/ (k >= p /\ i = k + 1))
    <3>1. k \in 1 .. n - 1 /\ p \in 1 .. n BY <1>3, <2>4
    <3>2. CASE k < p BY <2>3, <3>1, <3>2
    <3>3. CASE ~(k < p)
      <4>1. k + 1 \in 1 .. n /\ k >= p BY <3>1, <3>3
      <4> QED BY <2>3, <3>1, <3>3, <4>1
    <3> QED BY <3>1, <3>2, <3>3
  <2>6. UniqueIds(chats')
    <3> SUFFICES ASSUME NEW k \in DOMAIN chats', NEW l \in DOMAIN chats', chats'[k].id = chats'[l].id
                 PROVE  k = l
      BY DEF UniqueIds
    <3>1. PICK i \in 1 .. n : chats'[k] = chats[i] /\ ((k < p /\ i = k) \/ (k >= p /\ i = k + 1)) BY <2>5
    <3>2. PICK j \in 1 .. n : chats'[l] = chats[j] /\ ((l < p /\ j = l) \/ (l >= p /\ j = l + 1)) BY <2>5
    <3>3. i = j BY <1>1, <1>3, <3>1, <3>2 DEF UniqueIds
    <3>4. k \in Nat /\ l \in Nat /\ p \in Nat BY <1>3, <2>4
    <3> QED BY <3>1, <3>2, <3>3, <3>4
  <2>7. ChatsFrom BY <1>3, <2>5 DEF ChatsFrom
  <2>8. Len(chats') < MaxChats BY <1>0, <1>1, <1>3, <2>3
  <2>9. IdleGoes BY <1>0, <2>3, <2>8 DEF IdleGoes
  <2> QED BY <1>0, <2>3, <2>6, <2>7, <2>8, <2>9 DEF ChatsInv, UniqueIds
<1> QED BY <1>4, <1>5

LEMMA ChatsUnchanged == ASSUME ChatsInv, chats' = chats PROVE ChatsInv' /\ IdleGoes
BY DEF ChatsInv, UniqueIds, IdleGoes, ChatIds

LEMMA ChatsNext == ASSUME SessionInv, ChatsInv, [Next]_vars PROVE ChatsInv' /\ IdleGoes
<1>1. CASE SessionSteps
  <2>1. chats' = chats \/ chats' = <<>> BY <1>1, SessionLeaves
  <2>2. CASE chats' = <<>>
    <3>1. chats' \in Seq(ChatEntries) /\ Len(chats') = 0 /\ DOMAIN chats' = {} BY <2>2, EmptyIsUnique
    <3>2. MaxChats \in Nat \ {0} BY StoresAssumption
    <3> QED BY <3>1, <3>2 DEF ChatsInv, UniqueIds, IdleGoes
  <2> QED BY <2>1, <2>2, ChatsUnchanged
<1>2. CASE ChatSteps
  <2>1. PICK c \in Chats : ChatDeleted(c) \/ \E a \in {None} \cup Activities : ChatReported(c, a)
    BY <1>2 DEF ChatSteps
  <2> QED BY <2>1, ChatDeletedStep, ChatReportedStep
<1>3. CASE chats' = chats BY <1>3, ChatsUnchanged
<1> QED BY <1>1, <1>2, <1>3, OneAtATime DEF vars, stores
-----------------------------------------------------------------------------
\* What was told of and has not changed since is what is known.
BlockInv ==
  /\ truth \subseteq Contacts /\ owed \subseteq Contacts /\ told \subseteq Contacts
  /\ blocklistKnown \in BOOLEAN
  /\ told # {} => blocklistKnown
  /\ \A c \in told \ owed : (c \in blocked) = (c \in truth)

LEMMA BlockNext == ASSUME SessionInv, BlockInv, [Next]_vars PROVE BlockInv'
<1> USE DEF BlockInv
<1>1. CASE Connects BY <1>1 DEF Connects, Opens
<1>2. CASE Drops \/ PhoneUnlinks \/ Destroys BY <1>2 DEF Drops, PhoneUnlinks, Destroys, blockVars
<1>3. CASE Logout BY <1>3 DEF Logout
<1>4. CASE BlocklistSet BY <1>4 DEF BlocklistSet, Knows
<1>5. ASSUME NEW c \in Contacts, BlockChanges(c) PROVE BlockInv' BY <1>5 DEF BlockChanges, Flip
<1>6. ASSUME NEW c \in Contacts, BlocklistUpdate(c) PROVE BlockInv' BY <1>6 DEF BlocklistUpdate, Knows
<1>7. CASE UNCHANGED blockVars BY <1>7 DEF blockVars
<1> QED BY <1>1, <1>2, <1>3, <1>4, <1>5, <1>6, <1>7, OneAtATime DEF SessionSteps, BlockSteps, vars, stores

LEMMA ToldOnes == ASSUME BlockInv PROVE ToldIsSo
BY DEF BlockInv, ToldIsSo, IsBlocked
-----------------------------------------------------------------------------
\* On an open socket everyone subscribed was asked for, or a loop is at work that all it
\* has come to were asked for.
PresenceInv ==
  /\ subs \subseteq [contact : Contacts, account : Nat] /\ loops \in Seq(SUBSET Contacts)
  /\ sock = "open" => \/ Subscribed \subseteq active \cup failed
                      \/ \E i \in DOMAIN loops : loops[i] \subseteq active \cup failed

\* One loop that ends leaves the others at work.
LEMMA WithoutReturns ==
  ASSUME NEW S, NEW s \in Seq(S), NEW i \in DOMAIN s, NEW t, t = Without(s, i)
  PROVE  t \in Seq(S) /\ \A j \in DOMAIN s : j = i \/ \E k \in DOMAIN t : t[k] = s[j]
<1>1. PICK n \in Nat : n = Len(s) /\ DOMAIN s = 1 .. n BY LenProperties
<1>2. i \in 1 .. n /\ n - 1 \in Nat BY <1>1
<1>3. t = [j \in 1 .. n - 1 |-> IF j < i THEN s[j] ELSE s[j + 1]] BY <1>1 DEF Without
<1>4. \A j \in 1 .. n - 1 : (IF j < i THEN s[j] ELSE s[j + 1]) \in S
  <2> TAKE j \in 1 .. n - 1
  <2>1. j \in 1 .. n /\ j + 1 \in 1 .. n BY <1>2
  <2>2. s[j] \in S /\ s[j + 1] \in S BY <1>1, <2>1, ElementOfSeq
  <2> QED BY <2>2
<1>5. t \in Seq(S) BY <1>2, <1>3, <1>4, IsASeq
<1>6. ASSUME NEW j \in DOMAIN s, j # i PROVE \E k \in DOMAIN t : t[k] = s[j]
  <2>1. j \in 1 .. n BY <1>1
  <2>2. CASE j < i
    <3>1. j \in 1 .. n - 1 BY <1>2, <2>1, <2>2
    <3>2. t[j] = s[j] /\ j \in DOMAIN t BY <1>3, <2>2, <3>1
    <3> QED BY <3>2
  <2>3. CASE j > i
    <3>1. PICK k \in 1 .. n - 1 : k + 1 = j /\ ~(k < i)
      <4>1. j - 1 \in 1 .. n - 1 /\ j - 1 + 1 = j /\ ~(j - 1 < i) BY <1>2, <2>1, <2>3
      <4> QED BY <4>1
    <3>2. t[k] = s[j] /\ k \in DOMAIN t BY <1>3, <3>1
    <3> QED BY <3>2
  <2> QED BY <1>2, <1>6, <2>1, <2>2, <2>3
<1> QED BY <1>5, <1>6

LEMMA ConnectsStep == ASSUME SessionInv, PresenceInv, Connects PROVE PresenceInv'
<1>1. active' = {} /\ failed' = {} /\ subs' = subs BY DEF Connects, Opens
<1>2. loops' = IF subs = {} THEN loops ELSE Append(loops, {}) BY DEF Connects
<1>3. CASE subs = {}
  <2>1. loops' = loops BY <1>2, <1>3
  <2>2. Subscribed' = {} BY <1>1, <1>3 DEF Subscribed
  <2> QED BY <1>1, <2>1, <2>2 DEF PresenceInv
<1>4. CASE subs # {}
  <2>1. loops \in Seq(SUBSET Contacts) /\ {} \in SUBSET Contacts BY DEF PresenceInv
  <2>2. loops' = Append(loops, {}) BY <1>2, <1>4
  <2>3. loops' \in Seq(SUBSET Contacts) /\ Len(loops') = Len(loops) + 1 /\ loops'[Len(loops) + 1] = {}
    BY <2>1, <2>2, AppendProperties
  <2>4. Len(loops) \in Nat /\ DOMAIN loops' = 1 .. Len(loops) + 1 BY <2>1, <2>3, LenProperties
  <2>5. Len(loops) + 1 \in DOMAIN loops' BY <2>4
  <2>6. \E i \in DOMAIN loops' : loops'[i] \subseteq active' \cup failed' BY <2>3, <2>5
  <2> QED BY <1>1, <2>3, <2>6 DEF PresenceInv
<1> QED BY <1>3, <1>4

LEMMA PresenceStep == ASSUME SessionInv, PresenceInv, PresenceSteps, UNCHANGED session PROVE PresenceInv'
<1>0. sock' = sock BY DEF session
<1>1. ASSUME NEW c \in Contacts, SubscribePresence(c) PROVE PresenceInv'
  <2>1. /\ subs' = {s \in subs : s.contact # c}
                     \cup {[contact |-> c, account |-> IF linked THEN account ELSE 0]}
        /\ loops' = loops
        /\ IF sock = "none" THEN UNCHANGED <<active, failed>> ELSE Asks(c)
    BY <1>1 DEF SubscribePresence
  <2>2. subs' \subseteq [contact : Contacts, account : Nat] BY <2>1 DEF PresenceInv, SessionInv
  <2>3. Subscribed' \subseteq Subscribed \cup {c} BY <2>1 DEF Subscribed
  <2>4. ASSUME sock = "open"
        PROVE  active \cup failed \cup {c} \subseteq active' \cup failed'
    BY <2>1, <2>4 DEF Asks
  <2> QED BY <1>0, <2>1, <2>2, <2>3, <2>4 DEF PresenceInv
<1>2. ASSUME NEW i \in DOMAIN loops, Resubscribes(i) PROVE PresenceInv'
  <2>1. loops \in Seq(SUBSET Contacts) /\ subs' = subs BY <1>2 DEF PresenceInv, Resubscribes
  <2>2. Subscribed \subseteq Contacts BY DEF PresenceInv, Subscribed
  <2>3. PICK c \in Subscribed \ loops[i] :
          IF sock = "none" THEN loops' = Without(loops, i) /\ UNCHANGED <<active, failed>>
          ELSE loops' = [loops EXCEPT ![i] = @ \cup {c}] /\ Asks(c)
    BY <1>2 DEF Resubscribes
  <2>4. CASE sock = "none"
    <3>1. loops' = Without(loops, i) BY <2>3, <2>4
    <3>2. loops' \in Seq(SUBSET Contacts) BY <2>1, <3>1, WithoutReturns
    <3> QED BY <1>0, <2>1, <2>4, <3>2 DEF PresenceInv
  <2>5. CASE sock # "none"
    <3>1. loops' = [loops EXCEPT ![i] = @ \cup {c}] /\ Asks(c) BY <2>3, <2>5
    <3>2. DOMAIN loops = 1 .. Len(loops) /\ loops[i] \in SUBSET Contacts
      BY <2>1, LenProperties, ElementOfSeq
    <3>3. loops[i] \cup {c} \in SUBSET Contacts BY <2>2, <3>2
    <3>4. loops' \in Seq(SUBSET Contacts) BY <2>1, <3>1, <3>2, <3>3, ExceptSeq
    <3>5. ASSUME sock = "open" PROVE active \cup failed \cup {c} \subseteq active' \cup failed'
      BY <3>1, <3>5 DEF Asks
    <3>6. /\ DOMAIN loops' = DOMAIN loops
          /\ \A j \in DOMAIN loops : loops'[j] = IF j = i THEN loops[i] \cup {c} ELSE loops[j]
      BY <3>1, <3>2
    <3>7. Subscribed' = Subscribed BY <2>1 DEF Subscribed
    <3> QED BY <1>0, <2>1, <3>4, <3>5, <3>6, <3>7 DEF PresenceInv
  <2> QED BY <2>4, <2>5
<1>3. ASSUME NEW i \in DOMAIN loops, ResubscribeEnds(i) PROVE PresenceInv'
  <2>1. /\ loops \in Seq(SUBSET Contacts) /\ UNCHANGED <<subs, active, failed>>
        /\ Subscribed \subseteq loops[i] /\ loops' = Without(loops, i)
    BY <1>3 DEF PresenceInv, ResubscribeEnds
  <2>2. /\ loops' \in Seq(SUBSET Contacts)
        /\ \A j \in DOMAIN loops : j = i \/ \E k \in DOMAIN loops' : loops'[k] = loops[j]
    BY <2>1, WithoutReturns
  <2>3. Subscribed' = Subscribed BY <2>1 DEF Subscribed
  <2>4. ASSUME sock = "open"
        PROVE  \/ Subscribed \subseteq active \cup failed
               \/ \E k \in DOMAIN loops' : loops'[k] \subseteq active \cup failed
    <3>1. CASE Subscribed \subseteq active \cup failed BY <3>1
    <3>2. ASSUME NEW j \in DOMAIN loops, loops[j] \subseteq active \cup failed
          PROVE  \/ Subscribed \subseteq active \cup failed
                 \/ \E k \in DOMAIN loops' : loops'[k] \subseteq active \cup failed
      BY <2>1, <2>2, <3>2
    <3> QED BY <2>4, <3>1, <3>2 DEF PresenceInv
  <2> QED BY <1>0, <2>1, <2>2, <2>3, <2>4 DEF PresenceInv
<1> QED BY <1>1, <1>2, <1>3 DEF PresenceSteps

LEMMA PresenceNext == ASSUME SessionInv, PresenceInv, [Next]_vars PROVE PresenceInv'
<1>1. CASE Connects BY <1>1, ConnectsStep
<1>2. CASE Drops \/ PhoneUnlinks \/ Destroys
  BY <1>2 DEF Drops, PhoneUnlinks, Destroys, Ends, presence, PresenceInv
<1>3. CASE Logout BY <1>3 DEF Logout, Ends, PresenceInv
<1>4. CASE PresenceSteps /\ UNCHANGED session BY <1>4, PresenceStep
<1>5. CASE UNCHANGED presence /\ UNCHANGED session
  BY <1>5 DEF presence, session, PresenceInv, Subscribed
<1> QED BY <1>1, <1>2, <1>3, <1>4, <1>5, OneAtATime DEF SessionSteps, vars, stores

\* It implies PresenceSurvives.
LEMMA SubscribersAreAsked == ASSUME PresenceInv PROVE PresenceSurvives
<1> SUFFICES ASSUME sock = "open", loops = <<>> PROVE Subscribed \subseteq active \cup failed
  BY DEF PresenceSurvives
<1>1. DOMAIN loops = {} OBVIOUS
<1> QED BY <1>1 DEF PresenceInv
-----------------------------------------------------------------------------
NothingKept ==
  /\ lists = <<>> /\ counters = <<>> /\ heard = <<>> /\ chats = <<>> /\ ~blocklistKnown
  /\ \A s \in subs : s.account = 0

\* While nothing is linked nothing is kept, but for contacts subscribed for whichever comes.
Owned == unlinked \/ (linked /\ OneAccount) \/ (~linked /\ NothingKept)

\* What a step leaves in a store: the account of an entry is the linked one, or an old entry's.
ListsFrom    == \A i \in DOMAIN lists' : \/ lists'[i].value.account = account
                                         \/ \E j \in DOMAIN lists : lists'[i] = lists[j]
CountersFrom == \A i \in DOMAIN counters' : \/ counters'[i].value = account
                                            \/ \E j \in DOMAIN counters : counters'[i] = counters[j]
HeardFrom    == \A i \in DOMAIN heard' : \/ heard'[i].account = account
                                         \/ \E j \in DOMAIN heard : heard'[i] = heard[j]

LEMMA ListsFromAt == ASSUME GroupInv, NEW P \in SUBSET DOMAIN lists, lists' = At(lists, P) PROVE ListsFrom
<1>1. lists \in Seq(Entries(Groups, Lists)) /\ Unique(lists) BY DEF GroupInv
<1>2. \A k \in DOMAIN lists' : \E i \in P : lists'[k] = lists[i] BY <1>1, AtStaysUnique
<1> QED BY <1>2 DEF ListsFrom

LEMMA ListsFromPut ==
  ASSUME SessionInv, GroupInv, NEW g \in Groups, NEW v \in Nat, NEW raced \in BOOLEAN,
         lists' = List(g, v, raced)
  PROVE  ListsFrom
<1> DEFINE value == [version |-> v, account |-> account, raced |-> raced]
<1>1. value \in Lists /\ value.account = account BY DEF Lists, SessionInv
<1>2. lists' = Put(lists, g, value, MaxLists, now) BY DEF List
<1>3. MaxLists \in Nat \ {0} /\ now \in Nat BY StoresAssumption DEF SessionInv
<1>4. lists \in Seq(Entries(Groups, Lists)) /\ Unique(lists) /\ Len(lists) <= MaxLists BY DEF GroupInv
<1> HIDE DEF value
<1>5. PutTo(lists', lists, g, value) BY <1>1, <1>2, <1>3, <1>4, PutKeeps
<1> QED BY <1>1, <1>5 DEF PutTo, ListsFrom

LEMMA GroupsFrom ==
  ASSUME SessionInv, GroupInv, GroupSteps
  PROVE  /\ ListsFrom /\ CountersFrom
         /\ linked \/ UNCHANGED <<lists, counters>>
<1>1. CASE Tick BY <1>1 DEF Tick, ListsFrom, CountersFrom
<1>2. ASSUME NEW g \in Groups, GroupChanges(g)
      PROVE  ListsFrom /\ CountersFrom /\ UNCHANGED <<lists, counters>>
  BY <1>2 DEF GroupChanges, ListsFrom, CountersFrom
<1>3. ASSUME NEW g \in Groups, CachedGroupMetadata(g) \/ GroupReported(g)
      PROVE  ListsFrom /\ CountersFrom /\ linked
  <2>1. PICK P \in SUBSET DOMAIN lists : lists' = At(lists, P)
    BY <1>3 DEF CachedGroupMetadata, GroupReported, AfterGet, Del
  <2>2. counters' = counters /\ sock = "open" BY <1>3 DEF CachedGroupMetadata, GroupReported
  <2> QED BY <2>1, <2>2, ListsFromAt DEF CountersFrom, SessionInv
<1>4. ASSUME NEW g \in Groups, GroupUpserted(g) PROVE ListsFrom /\ CountersFrom /\ linked
  <2>1. lists' = List(g, version[g], FALSE) /\ counters' = counters /\ sock = "open" BY <1>4 DEF GroupUpserted
  <2>2. PICK v \in Nat, raced \in BOOLEAN : v = version[g] /\ raced = FALSE BY DEF GroupInv
  <2>3. lists' = List(g, v, raced) BY <2>1, <2>2
  <2>4. ListsFrom BY <2>3, ListsFromPut
  <2> QED BY <2>1, <2>4 DEF CountersFrom, SessionInv
<1>5. ASSUME NEW a \in asked, MetadataArrives(a) PROVE ListsFrom /\ CountersFrom /\ linked
  <2>1. lists' = List(a[1], a[2], a[3]) /\ counters' = counters BY <1>5 DEF MetadataArrives
  <2>2. a \in Groups \X Nat \X BOOLEAN BY DEF GroupInv
  <2>3. PICK g \in Groups, v \in Nat, raced \in BOOLEAN : g = a[1] /\ v = a[2] /\ raced = a[3] BY <2>2
  <2>4. lists' = List(g, v, raced) BY <2>1, <2>3
  <2>5. ListsFrom BY <2>4, ListsFromPut
  <2> QED BY <2>1, <2>5 DEF CountersFrom, SessionInv
<1>6. ASSUME NEW a \in asked, MetadataFails(a)
      PROVE  ListsFrom /\ CountersFrom /\ UNCHANGED <<lists, counters>>
  BY <1>6 DEF MetadataFails, ListsFrom, CountersFrom
<1>7. ASSUME NEW k \in Retried, Retries(k) PROVE ListsFrom /\ CountersFrom /\ linked
  <2>1. counters' = Put(counters, k, account, MaxRetries, now) /\ lists' = lists /\ sock = "open"
    BY <1>7 DEF Retries
  <2>2. MaxRetries \in Nat \ {0} /\ now \in Nat /\ account \in Nat BY StoresAssumption DEF SessionInv
  <2>3. counters \in Seq(Entries(Retried, Nat)) /\ Unique(counters) /\ Len(counters) <= MaxRetries
    BY DEF GroupInv
  <2>4. PutTo(counters', counters, k, account) BY <2>1, <2>2, <2>3, PutKeeps
  <2> QED BY <2>1, <2>4 DEF PutTo, ListsFrom, CountersFrom, SessionInv
<1> QED BY <1>1, <1>2, <1>3, <1>4, <1>5, <1>6, <1>7 DEF GroupSteps

LEMMA MessagesFrom == ASSUME SessionInv, MsgInv, NEW id \in Ids, Remember(id) PROVE HeardFrom
<1>1. account \in Nat BY DEF SessionInv
<1>2. heard \in Seq(Heard) /\ UniqueIds(heard) BY DEF MsgInv
<1>3. heard' = Moved(heard, id) BY DEF Remember
<1>4. MovedUp(heard', heard, id) BY <1>1, <1>2, <1>3, MovedReturns
<1>5. PICK n \in Nat : n = Len(heard) /\ DOMAIN heard = 1 .. n BY <1>2, LenProperties
<1>6. PICK l \in Nat \ {0} : l = Len(heard') /\ DOMAIN heard' = 1 .. l BY <1>4, LenProperties DEF MovedUp
<1>7. heard'[l].account = account BY <1>4, <1>6 DEF MovedUp
<1>8. ASSUME NEW i \in 1 .. l, i # l PROVE \E j \in 1 .. n : heard'[i] = heard[j]
  <2>1. CASE l = n + 1 /\ \A k \in 1 .. n : heard'[k] = heard[k]
    <3>1. i \in 1 .. n BY <1>8, <2>1
    <3> QED BY <2>1, <3>1
  <2>2. ASSUME NEW p, l = n, \A k \in 1 .. n - 1 : heard'[k] = IF k < p THEN heard[k] ELSE heard[k + 1]
        PROVE  \E j \in 1 .. n : heard'[i] = heard[j]
    <3>1. i \in 1 .. n - 1 /\ i \in 1 .. n /\ i + 1 \in 1 .. n BY <1>8, <2>2
    <3> QED BY <2>2, <3>1
  <2> QED BY <1>4, <1>5, <1>6, <2>1, <2>2 DEF MovedUp
<1> QED BY <1>5, <1>6, <1>7, <1>8 DEF HeardFrom

\* All stores together, and whose they are.
Stores == SessionInv /\ GroupInv /\ MsgInv /\ ChatsInv /\ BlockInv /\ PresenceInv

LEMMA SessionOwned == ASSUME SessionInv, Owned, SessionSteps PROVE Owned'
<1>1. CASE Connects
  <2>1. /\ UNCHANGED <<lists, counters, heard, chats, blocklistKnown, knownOf, subs, unlinked>>
        /\ linked' = TRUE
        /\ account' \in (IF linked THEN {account} ELSE {account, account + 1} \cap 1 .. MaxAccounts)
    BY <1>1 DEF Connects, Opens, msgVars
  <2>2. CASE linked /\ OneAccount
    <3>1. account' = account BY <2>1, <2>2
    <3> QED BY <2>1, <2>2, <3>1 DEF Owned, OneAccount
  <2>3. CASE ~linked /\ NothingKept
    <3>1. DOMAIN lists' = {} /\ DOMAIN counters' = {} /\ DOMAIN heard' = {} /\ DOMAIN chats' = {}
      BY <2>1, <2>3, EmptyIsUnique DEF NothingKept
    <3> QED BY <2>1, <2>3, <3>1 DEF Owned, OneAccount, NothingKept
  <2> QED BY <2>1, <2>2, <2>3 DEF Owned
<1>2. CASE Drops \/ Destroys
  <2>1. UNCHANGED <<account, linked, unlinked, lists, counters, heard, chats, blocklistKnown, knownOf, subs>>
    BY <1>2 DEF Drops, Destroys, msgVars, blockVars, presence
  <2> QED BY <2>1 DEF Owned, OneAccount, NothingKept
<1>3. CASE PhoneUnlinks BY <1>3 DEF PhoneUnlinks, Owned
<1>4. CASE Logout BY <1>4 DEF Logout, Owned, NothingKept
<1> QED BY <1>1, <1>2, <1>3, <1>4 DEF SessionSteps

LEMMA OwnedNext == ASSUME Stores, Owned, [Next]_vars PROVE Owned'
<1> USE DEF Stores
<1>1. CASE SessionSteps BY <1>1, SessionOwned
<1>2. CASE GroupSteps /\ UNCHANGED <<session, msgVars, chats, blockVars, presence>>
  <2>1. UNCHANGED <<account, linked, unlinked, heard, chats, blocklistKnown, knownOf, subs>>
    BY <1>2 DEF session, msgVars, blockVars, presence
  <2>2. /\ ListsFrom /\ CountersFrom
        /\ linked \/ UNCHANGED <<lists, counters>>
    BY <1>2, GroupsFrom
  <2>3. CASE linked /\ OneAccount BY <2>1, <2>2, <2>3 DEF Owned, OneAccount, ListsFrom, CountersFrom
  <2>4. CASE ~linked /\ NothingKept BY <2>1, <2>2, <2>4 DEF Owned, NothingKept
  <2> QED BY <2>1, <2>3, <2>4 DEF Owned
<1>3. CASE MessageSteps /\ UNCHANGED <<session, groupVars, chats, blockVars, presence>>
  <2>1. UNCHANGED <<account, linked, unlinked, lists, counters, chats, blocklistKnown, knownOf, subs>>
    BY <1>3 DEF session, groupVars, blockVars, presence
  <2>2. HeardFrom /\ linked BY <1>3, MessagesFrom DEF MessageSteps, SessionInv
  <2>3. CASE linked /\ OneAccount BY <2>1, <2>2, <2>3 DEF Owned, OneAccount, HeardFrom
  <2> QED BY <2>1, <2>2, <2>3 DEF Owned
<1>4. CASE ChatSteps /\ UNCHANGED <<session, groupVars, msgVars, blockVars, presence>>
  <2>1. UNCHANGED <<account, linked, unlinked, lists, counters, heard, blocklistKnown, knownOf, subs>>
    BY <1>4 DEF session, groupVars, msgVars, blockVars, presence
  <2>2. ChatsFrom /\ linked
    BY <1>4, ChatReportedStep, ChatDeletedStep DEF ChatSteps, ChatReported, ChatDeleted, SessionInv
  <2>3. CASE linked /\ OneAccount BY <2>1, <2>2, <2>3 DEF Owned, OneAccount, ChatsFrom
  <2> QED BY <2>1, <2>2, <2>3 DEF Owned
<1>5. CASE BlockSteps /\ UNCHANGED <<session, groupVars, msgVars, chats, presence>>
  <2>1. UNCHANGED <<account, linked, unlinked, lists, counters, heard, chats, subs>>
    BY <1>5 DEF session, groupVars, msgVars, presence
  <2>2. UNCHANGED <<blocklistKnown, knownOf>> \/ (knownOf' = account /\ linked)
    BY <1>5 DEF BlockSteps, BlocklistSet, BlockChanges, BlocklistUpdate, Knows, SessionInv
  <2> QED BY <2>1, <2>2 DEF Owned, OneAccount, NothingKept
<1>6. CASE PresenceSteps /\ UNCHANGED <<session, groupVars, msgVars, chats, blockVars>>
  <2>1. UNCHANGED <<account, linked, unlinked, lists, counters, heard, chats, blocklistKnown, knownOf>>
    BY <1>6 DEF session, groupVars, msgVars, blockVars
  <2>2. \A s \in subs' : s \in subs \/ s.account = IF linked THEN account ELSE 0
    BY <1>6 DEF PresenceSteps, SubscribePresence, Resubscribes, ResubscribeEnds
  <2> QED BY <2>1, <2>2 DEF Owned, OneAccount, NothingKept
<1>7. CASE UNCHANGED vars
  <2>1. UNCHANGED <<account, linked, unlinked, lists, counters, heard, chats, blocklistKnown, knownOf, subs>>
    BY <1>7 DEF vars, stores, session, groupVars, msgVars, blockVars, presence
  <2> QED BY <2>1 DEF Owned, OneAccount, NothingKept
<1> QED BY <1>1, <1>2, <1>3, <1>4, <1>5, <1>6, <1>7, OneAtATime
-----------------------------------------------------------------------------
IInv == Stores /\ Owned

LEMMA Starts == Init => IInv
<1> SUFFICES ASSUME Init PROVE IInv OBVIOUS
<1> USE DEF Init
<1>0. /\ {MaxLists, MaxRetries, MaxMessages, MaxChats} \subseteq Nat \ {0} BY StoresAssumption
<1>1. SessionInv BY DEF SessionInv
<1>2. GroupInv
  <2>1. /\ lists \in Seq(Entries(Groups, Lists)) /\ Unique(lists) /\ Len(lists) = 0 /\ DOMAIN lists = {}
        /\ counters \in Seq(Entries(Retried, Nat)) /\ Unique(counters) /\ Len(counters) = 0
    BY EmptyIsUnique
  <2> QED BY <1>0, <2>1 DEF GroupInv
<1>3. MsgInv
  <2>1. heard \in Seq(Heard) /\ Len(heard) = 0 /\ DOMAIN heard = {} BY EmptyIsUnique
  <2>2. PICK k \in Nat : k = 0 OBVIOUS
  <2>3. Drop(Len(heard), MaxMessages, k) BY <1>0, <2>1, <2>2 DEF Drop
  <2>4. PICK h, t : h = heard /\ t = LastOf(h, MaxMessages) OBVIOUS
  <2>5. h \in Seq(Heard) /\ Drop(Len(h), MaxMessages, k) /\ t = LastOf(h, MaxMessages) BY <2>1, <2>3, <2>4
  <2>6. t \in Seq(Heard) /\ Len(t) = Len(h) - k
    <3>1. MaxMessages \in Nat \ {0} BY <1>0
    <3> HIDE DEF Init
    <3>2. IsEnd(t, h, Heard, k) BY <2>5, <3>1, LastOfReturns
    <3> QED BY <3>2 DEF IsEnd
  <2>7. Len(t) = 0 BY <2>1, <2>2, <2>4, <2>6
  <2>8. byId = LastOf(heard, MaxMessages) BY <2>4, <2>6, <2>7, EmptySeq
  <2>9. /\ lastByChat \in [Chats -> Ids \cup {None}] /\ lastReceivedByChat \in [Chats -> Ids \cup {None}]
        /\ \A c \in Chats : lastByChat[c] = None /\ lastReceivedByChat[c] = None
    BY DEF NoLast
  <2>10. \A Q : IsLast(heard, Q, None) BY <2>1 DEF IsLast, PlacesIn
  <2> QED BY <2>1, <2>8, <2>9, <2>10 DEF MsgInv, UniqueIds
<1>4. ChatsInv
  <2>1. chats \in Seq(ChatEntries) /\ Len(chats) = 0 /\ DOMAIN chats = {} BY EmptyIsUnique
  <2> QED BY <1>0, <2>1 DEF ChatsInv, UniqueIds
<1>5. BlockInv BY DEF BlockInv
<1>6. PresenceInv
  <2>1. loops \in Seq(SUBSET Contacts) BY EmptySeq
  <2> QED BY <2>1 DEF PresenceInv, Subscribed
<1>7. Owned BY DEF Owned, NothingKept
<1> QED BY <1>1, <1>2, <1>3, <1>4, <1>5, <1>6, <1>7 DEF IInv, Stores

LEMMA Goes == IInv /\ [Next]_vars => IInv'
BY SessionStep, GroupNext, MsgNext, ChatsNext, BlockNext, PresenceNext, OwnedNext DEF IInv, Stores

\* A chat has one entry.
LEMMA ChatIdsCount ==
  ASSUME NEW S, NEW s \in Seq(S), UniqueIds(s) PROVE Cardinality(ChatIds(s)) = Len(s)
<1>1. Len(s) \in Nat /\ DOMAIN s = 1 .. Len(s) BY LenProperties
<1> DEFINE f == [i \in 1 .. Len(s) |-> s[i].id]
<1>2. DOMAIN f = 1 .. Len(s) /\ \A i, j \in 1 .. Len(s) : f[i] = f[j] => i = j
  BY <1>1 DEF UniqueIds
<1>3. ChatIds(s) = {f[i] : i \in 1 .. Len(s)} BY <1>1 DEF ChatIds
<1> HIDE DEF f
<1> QED BY <1>1, <1>2, <1>3, UniqueCounts

\* Every store is within its limit and has each key once.
LEMMA WithinLimits == ASSUME Stores PROVE TypeOK
<1>1. lists \in Seq(Entries(Groups, Lists)) /\ Unique(lists) /\ Len(lists) <= MaxLists
  BY DEF Stores, GroupInv
<1>2. counters \in Seq(Entries(Retried, Nat)) /\ Unique(counters) /\ Len(counters) <= MaxRetries
  BY DEF Stores, GroupInv
<1>3. chats \in Seq(ChatEntries) /\ UniqueIds(chats) /\ Len(chats) <= MaxChats BY DEF Stores, ChatsInv
<1>4. Cardinality(KeysOf(lists)) = Len(lists) BY <1>1, KeysCount
<1>5. Cardinality(KeysOf(counters)) = Len(counters) BY <1>2, KeysCount
<1>6. Cardinality(ChatIds(chats)) = Len(chats) BY <1>3, ChatIdsCount
<1>7. Len(byId) <= MaxMessages
  <2>1. heard \in Seq(Heard) /\ byId = LastOf(heard, MaxMessages) BY DEF Stores, MsgInv
  <2>2. MaxMessages \in Nat \ {0} BY StoresAssumption
  <2>3. PICK n \in Nat : n = Len(heard) BY <2>1, LenProperties
  <2>4. PICK k \in Nat : Drop(n, MaxMessages, k) /\ n - k <= MaxMessages
    <3>1. CASE n > MaxMessages
      <4>1. n - MaxMessages \in Nat /\ n - (n - MaxMessages) <= MaxMessages BY <2>2, <3>1
      <4> QED BY <3>1, <4>1 DEF Drop
    <3>2. CASE n <= MaxMessages BY <3>2 DEF Drop
    <3> QED BY <2>2, <3>1, <3>2
  <2>5. Drop(Len(heard), MaxMessages, k) BY <2>3, <2>4
  <2>6. Len(byId) = Len(heard) - k BY <2>1, <2>2, <2>5, LastOfReturns DEF IsEnd
  <2> QED BY <2>3, <2>4, <2>6
<1> QED BY <1>1, <1>2, <1>3, <1>4, <1>5, <1>6, <1>7 DEF TypeOK, Stores, SessionInv

LEMMA Always == Spec => []IInv
BY Starts, Goes, PTL DEF Spec

\* The group cache: whatever was asked and reported in whichever order, a participant list
\* that is kept is as new as the last report of its group, or a report raced its answer.
THEOREM ListsAreCurrentOrRaced == Spec => []StaleOnlyIfRaced
<1>1. IInv => StaleOnlyIfRaced BY ListsAreCurrent DEF IInv, Stores
<1> QED BY <1>1, Always, PTL

\* remember and evict: getMessage, revokeMessage and votes find exactly the MaxMessages that
\* were seen or sent last, and the marker of a chat is its last received or last message.
THEOREM RecentMessagesAreAnswered == Spec => []RecentAreAnswered
<1>1. IInv => RecentAreAnswered BY RecentOnes DEF IInv, Stores
<1> QED BY <1>1, Always, PTL

\* The stores are within their limits, isBlocked answers what the account was told, presence
\* is subscribed again after each reconnect, and logout() leaves nothing to the next account.
THEOREM StoresFollowTheAccount == Spec => []AccountIsFollowed
<1>1. IInv => AccountIsFollowed
  BY WithinLimits, ToldOnes, SubscribersAreAsked DEF IInv, Stores, AccountIsFollowed, LogoutForgets, Owned, OneAccount
<1> QED BY <1>1, Always, PTL

\* ChatStore.evict: no chat goes before a less active one, on any step.
THEOREM LeastActiveChatGoes == Spec => IdleChatsGo
<1>1. IInv /\ [Next]_vars => [IdleGoes]_vars BY ChatsNext DEF IInv, Stores
<1>2. Spec => [][IdleGoes]_vars BY <1>1, Always, PTL DEF Spec
<1> QED BY <1>2 DEF IdleChatsGo, IdleGoes
=============================================================================

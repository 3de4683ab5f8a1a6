-------------------------- MODULE ApplicationProofs --------------------------
(***************************************************************************)
(* What TLAPS proves of what an application is given: the ways to a client *)
(* and the commands.  They keep their state apart, and share the lemmas on *)
(* places.                                                                 *)
(*                                                                         *)
(* Ways to a client, for any clients, events, functions, listeners found   *)
(* and capabilities, in any order.  A subscription is a record of history, *)
(* a listener an entry of an emitter's array: the invariant ties them      *)
(* together in both directions (Backed, Heard), which holds because        *)
(* neither has anything twice (OneEach, PlacedOnce).                       *)
(*                                                                         *)
(* Commands, for any declarations, prefixes and bodies, of any symbols.    *)
(* First the text: which tokens there are, and that a handler is called    *)
(* exactly if they name it (CallsIs).  Then the tables (Good, Rivals): who *)
(* is listed and not contested has all his words and nobody else has one.  *)
(* Then the call (CallHolds), which owes an answer only to what the tables *)
(* have.                                                                   *)
(***************************************************************************)
EXTENDS ClientAccess, CommandDispatch, FiniteSetTheorems, SequenceTheorems, TLAPS

\* Which of some places one is, counted from the first.
Rank(P, i) == Cardinality({j \in P : j <= i})

\* Later places have later ranks.
LEMMA RankRises ==
  ASSUME NEW n \in Nat, NEW P \in SUBSET (1 .. n), NEW i \in P
  PROVE  /\ IsFiniteSet(P) /\ Cardinality(P) \in 0 .. n /\ Rank(P, i) \in 1 .. Cardinality(P)
         /\ \A j \in P : i < j => Rank(P, i) < Rank(P, j)
<1>1. IsFiniteSet(P) /\ Cardinality(P) \in 0 .. n
  <2>1. IsFiniteSet(1 .. n) /\ Cardinality(1 .. n) = n BY FS_Interval
  <2>2. IsFiniteSet(P) /\ Cardinality(P) <= n BY <2>1, FS_Subset
  <2>3. Cardinality(P) \in Nat BY <2>2, FS_CardinalityType
  <2> QED BY <2>2, <2>3
<1>2. \A k \in P : /\ IsFiniteSet({j \in P : j <= k}) /\ Rank(P, k) \in Nat
                   /\ Rank(P, k) <= Cardinality(P)
  <2> TAKE k \in P
  <2>1. {j \in P : j <= k} \in SUBSET P OBVIOUS
  <2> QED BY <1>1, <2>1, FS_Subset, FS_CardinalityType DEF Rank
<1>0. \A k \in P : k \in Nat OBVIOUS
<1>3. Rank(P, i) # 0
  <2>1. i \in {j \in P : j <= i} OBVIOUS
  <2> QED BY <1>2, <2>1, FS_EmptySet DEF Rank
<1>4. ASSUME NEW j \in P, i < j PROVE Rank(P, i) < Rank(P, j)
  <2>1. {l \in P : l <= i} \in SUBSET {l \in P : l <= j}
    <3> SUFFICES ASSUME NEW l \in P, l <= i PROVE l <= j OBVIOUS
    <3>1. l \in Nat /\ i \in Nat /\ j \in Nat BY <1>0
    <3> QED BY <1>4, <3>1
  <2>2. {l \in P : l <= i} # {l \in P : l <= j}
    <3>1. j \in {l \in P : l <= j} /\ j \notin {l \in P : l <= i} BY <1>4
    <3> QED BY <3>1
  <2>3. IsFiniteSet({l \in P : l <= j}) BY <1>2
  <2>4. Rank(P, i) <= Rank(P, j) /\ Rank(P, i) # Rank(P, j)
    BY <2>1, <2>2, <2>3, FS_Subset DEF Rank
  <2>5. Rank(P, i) \in Nat /\ Rank(P, j) \in Nat BY <1>2
  <2> QED BY <2>4, <2>5
<1>5. Rank(P, i) \in 1 .. Cardinality(P)
  <2>1. Rank(P, i) \in Nat /\ Rank(P, i) <= Cardinality(P) BY <1>2
  <2> QED BY <1>1, <1>3, <2>1
<1> QED BY <1>1, <1>4, <1>5

\* There is an n-th place for every n up to their number, and the n-th is before the next.
LEMMA NthIsOrdered ==
  ASSUME NEW n \in Nat, NEW P \in SUBSET (1 .. n)
  PROVE  /\ IsFiniteSet(P) /\ Cardinality(P) \in 0 .. n
         /\ \A k \in 1 .. Cardinality(P) : Nth(P, k) \in P /\ Rank(P, Nth(P, k)) = k
         /\ \A i \in P : Rank(P, i) \in 1 .. Cardinality(P) /\ Nth(P, Rank(P, i)) = i
         /\ \A k, l \in 1 .. Cardinality(P) : k < l => Nth(P, k) < Nth(P, l)
<1>1. IsFiniteSet(P) /\ Cardinality(P) \in 0 .. n
  <2>1. IsFiniteSet(1 .. n) /\ Cardinality(1 .. n) = n BY FS_Interval
  <2>2. IsFiniteSet(P) /\ Cardinality(P) <= n BY <2>1, FS_Subset
  <2>3. Cardinality(P) \in Nat BY <2>2, FS_CardinalityType
  <2> QED BY <2>2, <2>3
<1>2. \A i \in P : Rank(P, i) \in 1 .. Cardinality(P) BY RankRises
<1>3. \A i, j \in P : i < j => Rank(P, i) < Rank(P, j) BY RankRises
<1>4. \A i, j \in P : Rank(P, i) = Rank(P, j) => i = j BY <1>1, <1>2, <1>3
<1> DEFINE rank == [i \in P |-> Rank(P, i)]
<1>5. rank \in Injection(P, 1 .. Cardinality(P)) BY <1>2, <1>4 DEF Injection, IsInjective
<1>6. IsFiniteSet(1 .. Cardinality(P)) /\ Cardinality(1 .. Cardinality(P)) = Cardinality(P)
  BY <1>1, FS_Interval
<1>7. rank \in Surjection(P, 1 .. Cardinality(P)) BY <1>5, <1>6, FS_Injection
<1>8. \A k \in 1 .. Cardinality(P) : \E i \in P : Rank(P, i) = k BY <1>7 DEF Surjection
<1>9. \A k \in 1 .. Cardinality(P) : Nth(P, k) \in P /\ Rank(P, Nth(P, k)) = k
  BY <1>8 DEF Nth, Rank
<1>10. \A i \in P : Nth(P, Rank(P, i)) = i BY <1>2, <1>4, <1>9
<1>11. ASSUME NEW k \in 1 .. Cardinality(P), NEW l \in 1 .. Cardinality(P), k < l
       PROVE  Nth(P, k) < Nth(P, l)
  <2>1. Nth(P, k) \in P /\ Nth(P, l) \in P /\ Rank(P, Nth(P, k)) = k /\ Rank(P, Nth(P, l)) = l BY <1>9
  <2>2. PICK i \in P, j \in P : i = Nth(P, k) /\ j = Nth(P, l) BY <2>1
  <2>3. Rank(P, i) = k /\ Rank(P, j) = l BY <2>1, <2>2
  <2>4. i \in Nat /\ j \in Nat /\ k \in Nat /\ l \in Nat BY <1>1
  <2>5. ~(j < i) /\ j # i BY <1>3, <1>11, <2>3, <2>4
  <2> QED BY <2>2, <2>4, <2>5
<1> QED BY <1>1, <1>2, <1>9, <1>10, <1>11

\* What At returns: the elements at those places, each once, in their order.
LEMMA AtReturns ==
  ASSUME NEW S, NEW s \in Seq(S), NEW P \in SUBSET DOMAIN s, NEW t, t = At(s, P)
  PROVE  /\ t \in Seq(S) /\ Len(t) = Cardinality(P) /\ Cardinality(P) \in 0 .. Len(s)
         /\ \A k \in DOMAIN t : Nth(P, k) \in P /\ t[k] = s[Nth(P, k)]
         /\ \A i \in P : \E k \in DOMAIN t : Nth(P, k) = i
         /\ \A k, l \in DOMAIN t : k < l => Nth(P, k) < Nth(P, l)
<1>1. Len(s) \in Nat /\ DOMAIN s = 1 .. Len(s) BY LenProperties
<1>2. P \in SUBSET (1 .. Len(s)) BY <1>1
<1>3. Cardinality(P) \in 0 .. Len(s) BY <1>1, <1>2, NthIsOrdered
<1>4. \A k \in 1 .. Cardinality(P) : Nth(P, k) \in P BY <1>1, <1>2, NthIsOrdered
<1>5. t = [k \in 1 .. Cardinality(P) |-> s[Nth(P, k)]] BY DEF At
<1>6. \A k \in 1 .. Cardinality(P) : s[Nth(P, k)] \in S BY <1>4, ElementOfSeq, <1>1
<1>7. t \in Seq(S) /\ Len(t) = Cardinality(P) /\ DOMAIN t = 1 .. Cardinality(P)
  BY <1>3, <1>5, <1>6, IsASeq
<1>8. \A i \in P : \E k \in DOMAIN t : Nth(P, k) = i BY <1>1, <1>2, <1>7, NthIsOrdered
<1>9. \A k, l \in DOMAIN t : k < l => Nth(P, k) < Nth(P, l) BY <1>1, <1>2, <1>7, NthIsOrdered
<1> QED BY <1>3, <1>4, <1>5, <1>7, <1>8, <1>9

-----------------------------------------------------------------------------
(***************************************************************************)
(* Arrays of listeners                                                     *)
(***************************************************************************)
\* The listener of a subscription, what a listener is found by, and arrays that have
\* none twice, or nothing in common.
Own(s)      == Listener(s.event, s.handler, s.once)
Key(l)      == <<l.event, l.handler>>
Added(q, x) == Append(q, x)
Fresh(q, x) == \A k \in ToSet(q) : Key(k) # Key(x)
Joined(q, r) == q \o r
Apart(q, r) == \A k \in ToSet(q), l \in ToSet(r) : Key(k) # Key(l)
Alone(q)    == \A i, j \in DOMAIN q : Key(q[i]) = Key(q[j]) => i = j

\* An array filtered by place.
LEMMA AtKeeps ==
  ASSUME NEW S, NEW q \in Seq(S), Alone(q), NEW P \in SUBSET DOMAIN q, NEW t, t = At(q, P)
  PROVE  t \in Seq(S) /\ Alone(t) /\ ToSet(t) = {q[i] : i \in P}
<1>1. /\ t \in Seq(S) /\ \A k \in DOMAIN t : Nth(P, k) \in P /\ t[k] = q[Nth(P, k)]
      /\ \A i \in P : \E k \in DOMAIN t : Nth(P, k) = i
      /\ \A k, l \in DOMAIN t : k < l => Nth(P, k) < Nth(P, l)
  BY AtReturns
<1>2. Len(t) \in Nat /\ DOMAIN t = 1 .. Len(t) /\ DOMAIN q = 1 .. Len(q) /\ Len(q) \in Nat
  BY <1>1, LenProperties
<1>3. ASSUME NEW k \in DOMAIN t, NEW l \in DOMAIN t, Key(t[k]) = Key(t[l]) PROVE k = l
  <2>1. Nth(P, k) \in DOMAIN q /\ Nth(P, l) \in DOMAIN q BY <1>1
  <2>2. Nth(P, k) = Nth(P, l) BY <1>1, <1>3, <2>1 DEF Alone
  <2>3. PICK x \in DOMAIN q : x = Nth(P, k) /\ x = Nth(P, l) BY <2>1, <2>2
  <2>4. x \in Nat /\ k \in Nat /\ l \in Nat BY <1>2
  <2>5. ~(x < x) BY <2>4
  <2>6. k < l => x < x BY <1>1, <2>3
  <2>7. l < k => x < x BY <1>1, <2>3
  <2> QED BY <2>4, <2>5, <2>6, <2>7
<1>4. ToSet(t) = {t[k] : k \in DOMAIN t} BY DEF ToSet
<1>5. {t[k] : k \in DOMAIN t} = {q[i] : i \in P} BY <1>1
<1> QED BY <1>1, <1>3, <1>4, <1>5 DEF Alone

\* An array put behind another.
LEMMA JoinKeeps ==
  ASSUME NEW S, NEW q \in Seq(S), NEW r \in Seq(S), Alone(q), Alone(r), Apart(q, r),
         NEW t, t = Joined(q, r)
  PROVE  t \in Seq(S) /\ Alone(t) /\ ToSet(t) = ToSet(q) \cup ToSet(r)
<1>1. /\ Len(q) \in Nat /\ DOMAIN q = 1 .. Len(q) /\ Len(r) \in Nat /\ DOMAIN r = 1 .. Len(r)
  BY LenProperties
<1>2. PICK m \in Nat, n \in Nat : m = Len(q) /\ n = Len(r) BY <1>1
<1>3. t \in Seq(S) /\ Len(t) = m + n /\ DOMAIN t = 1 .. m + n
  BY <1>2, ConcatProperties, LenProperties DEF Joined
<1>4. \A i \in 1 .. m + n : t[i] = IF i <= m THEN q[i] ELSE r[i - m]
  BY <1>2, ConcatProperties DEF Joined
<1>5. ToSet(q) = {q[i] : i \in 1 .. m} /\ ToSet(r) = {r[i] : i \in 1 .. n}
      /\ ToSet(t) = {t[i] : i \in 1 .. m + n}
  BY <1>1, <1>2, <1>3 DEF ToSet
<1>6. \A i \in 1 .. m : t[i] = q[i] /\ i \in 1 .. m + n
  <2> TAKE i \in 1 .. m
  <2>1. i \in 1 .. m + n /\ i <= m OBVIOUS
  <2> QED BY <1>4, <2>1
<1>7. \A i \in 1 .. n : t[m + i] = r[i] /\ m + i \in 1 .. m + n
  <2> TAKE i \in 1 .. n
  <2>1. m + i \in 1 .. m + n /\ ~(m + i <= m) /\ (m + i) - m = i OBVIOUS
  <2> QED BY <1>4, <2>1
<1>8. \A i \in 1 .. m + n : i \in 1 .. m \/ \E j \in 1 .. n : i = m + j
  <2> SUFFICES ASSUME NEW i \in 1 .. m + n, i \notin 1 .. m PROVE \E j \in 1 .. n : i = m + j OBVIOUS
  <2>1. i - m \in 1 .. n /\ i = m + (i - m) OBVIOUS
  <2> QED BY <2>1
<1>9. ToSet(t) = ToSet(q) \cup ToSet(r)
  <2>1. ASSUME NEW i \in 1 .. m + n PROVE t[i] \in ToSet(q) \cup ToSet(r)
    <3>1. CASE i \in 1 .. m BY <1>5, <1>6, <3>1
    <3>2. ASSUME NEW j \in 1 .. n, i = m + j PROVE t[i] \in ToSet(r) BY <1>5, <1>7, <3>2
    <3> QED BY <1>8, <3>1, <3>2
  <2>2. \A x \in ToSet(q) \cup ToSet(r) : x \in ToSet(t) BY <1>5, <1>6, <1>7
  <2> QED BY <1>5, <2>1, <2>2
<1>10. ASSUME NEW i \in 1 .. m + n, NEW j \in 1 .. m + n, Key(t[i]) = Key(t[j]) PROVE i = j
  <2>1. CASE i \in 1 .. m /\ j \in 1 .. m BY <1>1, <1>2, <1>6, <1>10, <2>1 DEF Alone
  <2>2. ASSUME i \in 1 .. m, NEW k \in 1 .. n, j = m + k PROVE FALSE
    <3>1. t[i] \in ToSet(q) /\ t[j] \in ToSet(r) BY <1>5, <1>6, <1>7, <2>2
    <3> QED BY <1>10, <3>1 DEF Apart
  <2>3. ASSUME j \in 1 .. m, NEW k \in 1 .. n, i = m + k PROVE FALSE
    <3>1. t[j] \in ToSet(q) /\ t[i] \in ToSet(r) BY <1>5, <1>6, <1>7, <2>3
    <3> QED BY <1>10, <3>1 DEF Apart
  <2>4. ASSUME NEW k \in 1 .. n, NEW l \in 1 .. n, i = m + k, j = m + l PROVE i = j
    <3>1. t[i] = r[k] /\ t[j] = r[l] /\ k \in DOMAIN r /\ l \in DOMAIN r BY <1>1, <1>2, <1>7, <2>4
    <3>2. k = l BY <1>10, <3>1 DEF Alone
    <3> QED BY <2>4, <3>2
  <2> QED BY <1>8, <2>1, <2>2, <2>3, <2>4
<1> QED BY <1>3, <1>9, <1>10 DEF Alone

\* A listener put at the end.
LEMMA AppendKeeps ==
  ASSUME NEW S, NEW q \in Seq(S), NEW x \in S, Alone(q), Fresh(q, x),
         NEW t, t = Added(q, x)
  PROVE  t \in Seq(S) /\ Alone(t) /\ ToSet(t) = ToSet(q) \cup {x}
<1>1. PICK r : r = <<x>> OBVIOUS
<1>2. r \in Seq(S) /\ Len(r) = 1 /\ r[1] = x /\ DOMAIN r = {1} BY <1>1
<1>3. Alone(r) /\ ToSet(r) = {x} BY <1>2 DEF Alone, ToSet
<1>5. Apart(q, r) BY <1>3 DEF Apart, Fresh
<1>4. t = Joined(q, r) BY <1>1, AppendIsConcat DEF Joined, Added
<1>6. r \in Seq(S) /\ Alone(r) BY <1>2, <1>3
<1>7. t \in Seq(S) /\ Alone(t) /\ ToSet(t) = ToSet(q) \cup ToSet(r) BY <1>4, <1>5, <1>6, JoinKeeps
<1> QED BY <1>3, <1>7

\* A set of listeners as an array.
LEMMA ListedOnce ==
  ASSUME NEW S, NEW T \in SUBSET S, IsFiniteSet(T), \A k, l \in T : Key(k) = Key(l) => k = l,
         NEW t, t = SetToSeq(T)
  PROVE  t \in Seq(S) /\ Alone(t) /\ ToSet(t) = T
<1>1. PICK n \in Nat : n = Cardinality(T) /\ ExistsBijection(1 .. n, T) BY FS_CardinalityType
<1>2. PICK f \in Bijection(1 .. n, T) : TRUE BY <1>1 DEF ExistsBijection
<1>3. f \in [1 .. n -> T] /\ IsInjective(f) BY <1>2 DEF Bijection, Injection
<1>4. t \in [1 .. n -> T] /\ IsInjective(t) BY <1>1, <1>3 DEF SetToSeq
<1>5. t \in Injection(1 .. n, T) BY <1>4 DEF Injection
<1>6. IsFiniteSet(1 .. n) /\ Cardinality(1 .. n) = n BY FS_Interval
<1>7. t \in Surjection(1 .. n, T) BY <1>1, <1>5, <1>6, FS_Injection
<1>8. DOMAIN t = 1 .. n BY <1>4
<1>9. ToSet(t) = T BY <1>4, <1>7, <1>8 DEF ToSet, Surjection
<1>10. \A i, j \in 1 .. n : t[i] = t[j] => i = j BY <1>4, <1>8 DEF IsInjective
<1>11. t \in Seq(S) BY <1>4
<1> QED BY <1>4, <1>8, <1>9, <1>10, <1>11 DEF Alone
-----------------------------------------------------------------------------
(***************************************************************************)
(* The invariant                                                           *)
(***************************************************************************)
Callables     == Handlers \cup {f.handler : f \in Found}
Listeners     == [event : Events, handler : Callables, once : BOOLEAN]
Subscriptions == [client : Clients, event : Events, handler : Callables, once : BOOLEAN,
                  via : {"found", "client", "service"}, asked : Names]
FoundOf(c, f) == Subscription(c, f.event, f.handler, f.once, "found", c)
Who(s)        == <<s.client, s.event, s.handler>>
Standing      == subscribed \cup astray

Typed ==
  /\ bound \subseteq registered /\ registered \subseteq Clients
  /\ listeners \in [Emitters -> Seq(Listeners)]
  /\ subscribed \subseteq Subscriptions /\ astray \subseteq Subscriptions
  /\ DOMAIN BuiltIn \subseteq DOMAIN methods

\* A subscription is of a client there is, and of the application or found.
IsFound(s) == /\ s \in subscribed /\ s.client \in bound
              /\ \E f \in Bindings(s.client) : s = FoundOf(s.client, f)
Rooted ==
  /\ \A s \in Standing : s.client \in registered /\ (s.handler \in Handlers \/ IsFound(s))
  /\ \A s \in astray \cup taken : s.handler \in Handlers
  /\ subscribed \cap astray = {}

\* A function has one subscription to an event of a client; every listener is one of
\* a subscription that put it there, and every subscription whose listener was not
\* taken has it; an emitter has a function for an event once.
OneEach    == \A s, t \in Standing : Who(s) = Who(t) => s = t
Backed     == \A e \in Emitters : \A l \in ToSet(listeners[e]) :
                \E s \in Standing : On(s) = e /\ Own(s) = l
Heard      == \A s \in subscribed \ taken : Own(s) \in ToSet(listeners[On(s)])
PlacedOnce == \A e \in Emitters : Alone(listeners[e])

IInv == Typed /\ Rooted /\ OneEach /\ Backed /\ Heard /\ PlacedOnce

\* The two emitters of a client, and where a subscription is.
LEMMA EmittersAre ==
  /\ \A c \in Clients : Core(c) \in Emitters /\ Adapter(c) \in Emitters
  /\ \A c, d : Core(c) # Adapter(d) /\ Core(c)[2] = c /\ Adapter(c)[2] = c /\ Core(c)[1] = "core"
               /\ Adapter(c)[1] = "adapter"
  /\ \A e \in Emitters : e[2] \in Clients /\ (e = Core(e[2]) \/ e = Adapter(e[2]))
  /\ \A c, event : EmitterFor(c, event) \in {Core(c), Adapter(c)}
BY DEF Emitters, Core, Adapter, EmitterFor

\* The emitter a subscription is at is one of them.
LEMMA OnIs ==
  ASSUME NEW s \in Subscriptions
  PROVE  /\ On(s) \in Emitters /\ On(s)[2] = s.client /\ On(s) \in {Core(s.client), Adapter(s.client)}
         /\ On(s) = Core(s.client) => s.event \in Derived
         /\ Own(s) \in Listeners /\ s.client \in Clients /\ s.event \in Events
         /\ Own(s).event = s.event /\ Own(s).handler = s.handler /\ Own(s).once = s.once
         /\ Key(Own(s)) = <<s.event, s.handler>>
<1>1. s.client \in Clients /\ s.event \in Events BY DEF Subscriptions
<1>2. On(s) \in {Core(s.client), Adapter(s.client)} BY EmittersAre DEF On
<1>3. Own(s) \in Listeners BY DEF Own, Listener, Listeners, Subscriptions
<1>4. On(s) = Core(s.client) => s.event \in Derived BY EmittersAre DEF On, EmitterFor
<1>5. Own(s).event = s.event /\ Own(s).handler = s.handler /\ Own(s).once = s.once BY DEF Own, Listener
<1> QED BY <1>1, <1>2, <1>3, <1>4, <1>5, EmittersAre DEF Key

\* An emitter that nothing is on.
LEMMA NothingPlaced ==
  ASSUME NEW S, NEW q, q = <<>> PROVE q \in Seq(S) /\ ToSet(q) = {} /\ Alone(q)
<1>1. q \in Seq(S) /\ DOMAIN q = {} OBVIOUS
<1> QED BY <1>1 DEF ToSet, Alone

\* It holds before anything has come.
LEMMA InitHolds == ASSUME Init PROVE IInv
<1>1. \A e \in Emitters : listeners[e] = <<>> BY DEF Init
<1>2. \A e \in Emitters : listeners[e] \in Seq(Listeners) /\ ToSet(listeners[e]) = {} /\ Alone(listeners[e])
  BY <1>1, NothingPlaced
<1>3. Typed
  <2>1. listeners \in [Emitters -> Seq(Listeners)] BY <1>2 DEF Init
  <2> QED BY <2>1 DEF Init, Typed
<1>4. Standing = {} /\ subscribed = {} /\ astray = {} /\ taken = {} BY DEF Init, Standing
<1>5. Rooted /\ OneEach BY <1>4 DEF Rooted, OneEach
<1>6. Backed BY <1>2 DEF Backed
<1>7. Heard /\ PlacedOnce BY <1>2, <1>4 DEF Heard, PlacedOnce
<1> QED BY <1>3, <1>5, <1>6, <1>7 DEF IInv

\* A capability keeps the method it was registered with.
LEMMA MethodsGrow == ASSUME Typed, NEW k, NEW m, Registers(k, m)
                     PROVE  /\ DOMAIN methods \subseteq DOMAIN methods'
                            /\ \A j \in DOMAIN methods : methods'[j] = methods[j]
BY DEF Registers

\* Lives come and go.
LEMMA JoinsKeeps == ASSUME IInv, NEW c \in Clients, Joins(c) PROVE IInv'
<1>1. UNCHANGED <<bound, listeners, methods, subscribed, astray, taken>> /\ registered' = registered \cup {c}
  BY DEF Joins, history
<1>2. Standing' = Standing BY <1>1 DEF Standing
<1>3. Typed' BY <1>1 DEF IInv, Typed
<1>4. Rooted' BY <1>1, <1>2 DEF IInv, Rooted, IsFound
<1>5. OneEach' BY <1>2 DEF IInv, OneEach
<1>6. Backed' /\ Heard' /\ PlacedOnce' BY <1>1, <1>2 DEF IInv, Backed, Heard, PlacedOnce
<1> QED BY <1>3, <1>4, <1>5, <1>6 DEF IInv

LEMMA LeavesKeeps == ASSUME IInv, NEW c \in Clients, Leaves(c) PROVE IInv'
<1>1. /\ registered' = registered \ {c} /\ bound' = bound \ {c} /\ methods' = methods
      /\ listeners' = [e \in Emitters |-> IF e[2] = c THEN <<>> ELSE listeners[e]]
      /\ subscribed' = {s \in subscribed : s.client # c}
      /\ astray' = {s \in astray : s.client # c} /\ taken' = {s \in taken : s.client # c}
  BY DEF Leaves
<1>2. Standing' = {s \in Standing : s.client # c} BY <1>1 DEF Standing
<1>3. \A e \in Emitters : /\ e[2] # c => listeners'[e] = listeners[e]
                          /\ e[2] = c => listeners'[e] = <<>>
  BY <1>1
<1>4. \A e \in Emitters : e[2] = c => /\ listeners'[e] \in Seq(Listeners)
                                      /\ ToSet(listeners'[e]) = {} /\ Alone(listeners'[e])
  BY <1>3, NothingPlaced
<1>5. Typed'
  <2>1. \A e \in Emitters : listeners'[e] \in Seq(Listeners) BY <1>3, <1>4 DEF IInv, Typed
  <2>2. listeners' \in [Emitters -> Seq(Listeners)] BY <1>1, <2>1
  <2> QED BY <1>1, <2>2 DEF IInv, Typed
<1>6. Rooted' BY <1>1, <1>2 DEF IInv, Rooted, IsFound
<1>7. OneEach' BY <1>2 DEF IInv, OneEach
<1>8. Backed'
  <2> SUFFICES ASSUME NEW e \in Emitters, NEW l \in ToSet(listeners'[e])
               PROVE  \E s \in Standing' : On(s) = e /\ Own(s) = l BY DEF Backed
  <2>1. e[2] # c /\ l \in ToSet(listeners[e]) BY <1>3, <1>4
  <2>2. PICK s \in Standing : On(s) = e /\ Own(s) = l BY <2>1 DEF IInv, Backed
  <2>3. s.client # c BY <2>1, <2>2, OnIs DEF IInv, Typed, Standing
  <2> QED BY <1>2, <2>2, <2>3
<1>9. Heard'
  <2> SUFFICES ASSUME NEW s \in subscribed' \ taken' PROVE Own(s) \in ToSet(listeners'[On(s)])
    BY DEF Heard
  <2>1. s \in subscribed /\ s \notin taken /\ s.client # c BY <1>1
  <2>2. On(s) \in Emitters /\ On(s)[2] # c BY <2>1, OnIs DEF IInv, Typed
  <2> QED BY <1>3, <2>1, <2>2 DEF IInv, Heard
<1>10. PlacedOnce' BY <1>3, <1>4 DEF IInv, PlacedOnce
<1> QED BY <1>5, <1>6, <1>7, <1>8, <1>9, <1>10 DEF IInv

\* A subscription that was not there before, and its listener at the end.
LEMMA PutOnKeeps ==
  ASSUME IInv, NEW s \in Subscriptions, NEW e \in Emitters, e = On(s), PutOn(e, s),
         s.handler \in Handlers, s.client \in registered
  PROVE  IInv'
<1> DEFINE x == Own(s)
<1>1. /\ listeners' = [listeners EXCEPT ![e] = Append(@, x)] /\ subscribed' = subscribed \cup {s}
      /\ UNCHANGED <<registered, bound, methods, astray, taken>>
      /\ \A t \in Standing : Who(t) # Who(s)
  BY DEF PutOn, Own, Who, Standing
<1>2. Standing' = Standing \cup {s} BY <1>1 DEF Standing
<1>3. x \in Listeners /\ Key(x) = <<s.event, s.handler>> /\ e[2] = s.client BY OnIs
<1>4. PICK q : q = listeners[e] OBVIOUS
<1>5. q \in Seq(Listeners) /\ Alone(q) BY <1>4 DEF IInv, Typed, PlacedOnce
<1>6. Fresh(q, x)
  <2> SUFFICES ASSUME NEW k \in ToSet(q), Key(k) = Key(x) PROVE FALSE BY DEF Fresh
  <2>1. PICK t \in Standing : On(t) = e /\ Own(t) = k BY <1>4 DEF IInv, Backed
  <2>2. t \in Subscriptions BY DEF IInv, Typed, Standing
  <2>3. t.client = s.client /\ Key(k) = <<t.event, t.handler>> BY <1>3, <2>1, <2>2, OnIs
  <2>4. Who(t) = Who(s) BY <1>3, <2>3 DEF Who
  <2> QED BY <1>1, <2>4
<1>7. PICK r : r = Added(q, x) OBVIOUS
<1>8. r \in Seq(Listeners) /\ Alone(r) /\ ToSet(r) = ToSet(q) \cup {x}
  BY <1>3, <1>5, <1>6, <1>7, AppendKeeps
<1>9. listeners' = [listeners EXCEPT ![e] = r] BY <1>1, <1>4, <1>7 DEF Added
<1> HIDE DEF x
<1>10. /\ listeners'[e] = r /\ listeners[e] = q
       /\ \A d \in Emitters : d # e => listeners'[d] = listeners[d]
  BY <1>4, <1>9 DEF IInv, Typed
<1>11. Typed'
  <2>1. listeners' \in [Emitters -> Seq(Listeners)] BY <1>8, <1>9 DEF IInv, Typed
  <2> QED BY <1>1, <2>1 DEF IInv, Typed
<1>12. Rooted'
  <2>1. s \notin Standing BY <1>1
  <2> QED BY <1>1, <1>2, <2>1 DEF IInv, Rooted, IsFound, Standing
<1>13. OneEach' BY <1>1, <1>2 DEF IInv, OneEach
<1>14. Backed'
  <2> SUFFICES ASSUME NEW d \in Emitters, NEW l \in ToSet(listeners'[d])
               PROVE  \E t \in Standing' : On(t) = d /\ Own(t) = l BY DEF Backed
  <2>1. CASE l \in ToSet(listeners[d]) BY <1>2, <2>1 DEF IInv, Backed
  <2>2. CASE d = e /\ l = x BY <1>2, <2>2 DEF x
  <2> QED BY <1>8, <1>10, <2>1, <2>2
<1>15. Heard'
  <2> SUFFICES ASSUME NEW t \in subscribed' \ taken' PROVE Own(t) \in ToSet(listeners'[On(t)])
    BY DEF Heard
  <2>1. CASE t = s BY <1>8, <1>10, <2>1 DEF x
  <2>2. CASE t \in subscribed \ taken
    <3>1. On(t) \in Emitters /\ Own(t) \in ToSet(listeners[On(t)]) BY <2>2, OnIs DEF IInv, Heard, Typed
    <3> QED BY <1>8, <1>10, <3>1
  <2> QED BY <1>1, <2>1, <2>2
<1>16. PlacedOnce' BY <1>8, <1>10 DEF IInv, PlacedOnce
<1> QED BY <1>11, <1>12, <1>13, <1>14, <1>15, <1>16 DEF IInv

\* What TakeOff returns: no listener of the event and the function is left.
TakenOff(after, e, key) ==
  /\ after \in [Emitters -> Seq(Listeners)]
  /\ \A d \in Emitters : (d # e => after[d] = listeners[d]) /\ Alone(after[d])
  /\ ToSet(after[e]) = {l \in ToSet(listeners[e]) : Key(l) # key}

LEMMA TakeOffReturns ==
  ASSUME IInv, NEW e \in Emitters, NEW event, NEW handler, NEW after,
         after = TakeOff(e, event, handler)
  PROVE  TakenOff(after, e, <<event, handler>>)
<1>1. PICK q : q = listeners[e] OBVIOUS
<1>2. /\ q \in Seq(Listeners) /\ Alone(q) /\ listeners \in [Emitters -> Seq(Listeners)]
      /\ \A d \in Emitters : Alone(listeners[d])
  BY <1>1 DEF IInv, Typed, PlacedOnce
<1>3. Len(q) \in Nat /\ DOMAIN q = 1 .. Len(q) BY <1>2, LenProperties
<1> DEFINE places == {i \in DOMAIN q : q[i].event = event /\ q[i].handler = handler}
<1>4. \A i \in DOMAIN q : i \in places <=> Key(q[i]) = <<event, handler>> BY DEF Key
<1>5. \A i, j \in places : i = j BY <1>2, <1>4 DEF Alone
<1>6. ToSet(q) = {q[i] : i \in DOMAIN q} BY DEF ToSet
<1>7. CASE places = {}
  <2>1. after = [listeners EXCEPT ![e] = q] BY <1>1, <1>7 DEF TakeOff
  <2>2. after = listeners BY <1>1, <1>2, <2>1
  <2>3. \A l \in ToSet(q) : Key(l) # <<event, handler>> BY <1>4, <1>6, <1>7
  <2> QED BY <1>1, <1>2, <2>2, <2>3 DEF TakenOff
<1>8. ASSUME NEW i \in places PROVE TakenOff(after, e, <<event, handler>>)
  <2>1. i \in Nat BY <1>3
  <2>2. (CHOOSE k \in places : \A j \in places : j <= k) = i
    <3>1. \A j \in places : j <= i BY <1>5, <2>1
    <3> QED BY <1>5, <3>1
  <2>3. PICK P : P = DOMAIN q \ {i} OBVIOUS
  <2>4. PICK r : r = At(q, P) OBVIOUS
  <2>5. after = [listeners EXCEPT ![e] = r] BY <1>1, <1>8, <2>2, <2>3, <2>4 DEF TakeOff
  <2>6. P \in SUBSET DOMAIN q BY <2>3
  <2>7. r \in Seq(Listeners) /\ Alone(r) /\ ToSet(r) = {q[j] : j \in P} BY <1>2, <2>4, <2>6, AtKeeps
  <2>8. after \in [Emitters -> Seq(Listeners)] /\ after[e] = r
        /\ \A d \in Emitters : d # e => after[d] = listeners[d]
    BY <1>2, <2>5, <2>7
  <2>9. \A j \in DOMAIN q : j \in P <=> Key(q[j]) # <<event, handler>> BY <1>4, <1>5, <1>8, <2>3
  <2>10. ToSet(r) = {l \in ToSet(q) : Key(l) # <<event, handler>>} BY <1>6, <2>7, <2>9, <2>6
  <2> QED BY <1>1, <1>2, <2>7, <2>8, <2>10 DEF TakenOff
<1> QED BY <1>7, <1>8

\* The subscriptions meant end, or go astray; any other that is hit is in taken.
LEMMA OffKeeps ==
  ASSUME IInv, NEW e \in Emitters, NEW event, NEW handler \in Handlers, NEW meant \in SUBSET subscribed,
         \A s \in meant : s.event = event /\ s.handler = handler, Off(e, event, handler, meant)
  PROVE  IInv'
<1>1. PICK after : after = TakeOff(e, event, handler) OBVIOUS
<1>2. /\ listeners' = after /\ subscribed' = subscribed \ meant
      /\ astray' = astray \cup {s \in meant : On(s) # e}
      /\ taken' = (taken \ meant) \cup {s \in subscribed \ meant :
                     On(s) = e /\ s.event = event /\ s.handler = handler}
      /\ UNCHANGED <<registered, bound, methods>>
  BY <1>1 DEF Off
<1>3. /\ after \in [Emitters -> Seq(Listeners)]
      /\ \A d \in Emitters : (d # e => after[d] = listeners[d]) /\ Alone(after[d])
      /\ ToSet(after[e]) = {l \in ToSet(listeners[e]) : Key(l) # <<event, handler>>}
  <2>1. TakenOff(after, e, <<event, handler>>) BY <1>1, TakeOffReturns
  <2> QED BY <2>1 DEF TakenOff
<1>4. Standing' \in SUBSET Standing BY <1>2 DEF Standing
<1>5. Standing \in SUBSET Subscriptions BY DEF IInv, Typed, Standing
<1>6. Typed' BY <1>2, <1>3, <1>4, <1>5 DEF IInv, Typed, Standing
<1>7. Rooted'
  <2>1. \A s \in Standing' : s.client \in registered' /\ (s.handler \in Handlers \/ IsFound(s)')
    <3> TAKE s \in Standing'
    <3>1. s.client \in registered' BY <1>2, <1>4 DEF IInv, Rooted
    <3>2. CASE s.handler \in Handlers BY <3>1, <3>2
    <3>3. CASE s.handler \notin Handlers
      <4>1. IsFound(s) BY <1>4, <3>3 DEF IInv, Rooted
      <4>2. s \in subscribed' BY <1>2, <3>3, <4>1 DEF IsFound
      <4>3. IsFound(s)' BY <1>2, <4>1, <4>2 DEF IsFound
      <4> QED BY <3>1, <4>3
    <3> QED BY <3>2, <3>3
  <2>2. \A s \in astray' \cup taken' : s.handler \in Handlers BY <1>2 DEF IInv, Rooted
  <2>3. subscribed' \cap astray' = {} BY <1>2 DEF IInv, Rooted
  <2> QED BY <2>1, <2>2, <2>3 DEF Rooted
<1>8. OneEach' BY <1>4 DEF IInv, OneEach
<1>9. Backed'
  <2> SUFFICES ASSUME NEW d \in Emitters, NEW l \in ToSet(listeners'[d])
               PROVE  \E t \in Standing' : On(t) = d /\ Own(t) = l BY DEF Backed
  <2>1. l \in ToSet(listeners[d]) /\ (d = e => Key(l) # <<event, handler>>) BY <1>2, <1>3
  <2>2. PICK s \in Standing : On(s) = d /\ Own(s) = l BY <2>1 DEF IInv, Backed
  <2>3. Key(l) = <<s.event, s.handler>> BY <1>5, <2>2, OnIs
  <2>4. s \in Standing'
    <3>1. CASE s \notin meant BY <1>2, <3>1 DEF Standing
    <3>2. CASE s \in meant
      <4>1. d # e BY <2>1, <2>3, <3>2
      <4> QED BY <1>2, <2>2, <3>2, <4>1 DEF Standing
    <3> QED BY <3>1, <3>2
  <2> QED BY <2>2, <2>4
<1>10. Heard'
  <2> SUFFICES ASSUME NEW s \in subscribed' \ taken' PROVE Own(s) \in ToSet(listeners'[On(s)])
    BY DEF Heard
  <2>1. s \in subscribed \ meant /\ s \notin taken
        /\ (On(s) = e => <<s.event, s.handler>> # <<event, handler>>)
    BY <1>2
  <2>2. Own(s) \in ToSet(listeners[On(s)]) BY <2>1 DEF IInv, Heard
  <2>3. On(s) \in Emitters /\ Key(Own(s)) = <<s.event, s.handler>> BY <1>5, <2>1, OnIs DEF Standing
  <2> QED BY <1>2, <1>3, <2>1, <2>2, <2>3
<1>11. PlacedOnce' BY <1>2, <1>3 DEF PlacedOnce
<1> QED BY <1>6, <1>7, <1>8, <1>9, <1>10, <1>11 DEF IInv

\* The subscription of a listener that was found, and where it is put.
LEMMA FoundOfIs ==
  ASSUME NEW c \in Clients, NEW f \in Found
  PROVE  /\ FoundOf(c, f) \in Subscriptions /\ f.handler \notin Handlers
         /\ FoundOf(c, f).client = c /\ FoundOf(c, f).event = f.event /\ FoundOf(c, f).handler = f.handler
         /\ Own(FoundOf(c, f)) = Listener(f.event, f.handler, f.once)
         /\ On(FoundOf(c, f)) = EmitterFor(c, f.event)
<1>1. f.handler \notin Handlers /\ f.event \in Events /\ f.once \in BOOLEAN
  BY AccessAssumption DEF Events
<1>2. f.handler \in Callables BY DEF Callables
<1>3. FoundOf(c, f) \in Subscriptions BY <1>1, <1>2 DEF FoundOf, Subscription, Subscriptions, Names
<1>4. FoundOf(c, f).client = c /\ FoundOf(c, f).event = f.event /\ FoundOf(c, f).handler = f.handler
      /\ FoundOf(c, f).once = f.once /\ FoundOf(c, f).via = "found"
  BY DEF FoundOf, Subscription
<1>5. Own(FoundOf(c, f)) = Listener(f.event, f.handler, f.once) BY <1>4 DEF Own
<1>6. On(FoundOf(c, f)) = EmitterFor(c, f.event) BY <1>4 DEF On
<1> QED BY <1>1, <1>3, <1>4, <1>5, <1>6

\* What bindListeners adds to an emitter; nothing like it is there.
LEMMA BindsReturns ==
  ASSUME IInv, NEW c \in Clients, Binds(c), NEW e \in Emitters
  PROVE  /\ listeners'[e] \in Seq(Listeners) /\ Alone(listeners'[e])
         /\ ToSet(listeners'[e]) = ToSet(listeners[e]) \cup
              {Own(FoundOf(c, f)) : f \in {g \in Bindings(c) : On(FoundOf(c, g)) = e}}
<1> DEFINE here == {f \in Bindings(c) : EmitterFor(c, f.event) = e}
           T    == {Listener(f.event, f.handler, f.once) : f \in here}
<1>1. listeners'[e] = listeners[e] \o SetToSeq(T) BY DEF Binds
<1>2. Bindings(c) \in SUBSET Found BY DEF Bindings
<1>3. here \in SUBSET Found BY <1>2
<1>4. T = {Own(FoundOf(c, f)) : f \in {g \in Bindings(c) : On(FoundOf(c, g)) = e}}
  BY <1>2, FoundOfIs
<1>5. T \in SUBSET Listeners
  <2> SUFFICES ASSUME NEW f \in here PROVE Listener(f.event, f.handler, f.once) \in Listeners OBVIOUS
  <2>1. Own(FoundOf(c, f)) \in Listeners BY <1>3, FoundOfIs, OnIs
  <2> QED BY <1>3, <2>1, FoundOfIs
<1>6. IsFiniteSet(T)
  <2>1. IsFiniteSet(here)
    <3>1. IsFiniteSet(Found) BY AccessAssumption
    <3> QED BY <1>3, <3>1, FS_Subset
  <2>2. PICK g : g = [f \in here |-> Listener(f.event, f.handler, f.once)] OBVIOUS
  <2>3. g \in Surjection(here, T) BY <2>2 DEF Surjection
  <2> HIDE DEF here, T
  <2> QED BY <2>1, <2>3, FS_Surjection
<1>7. \A l \in T : \E f \in here : l = Listener(f.event, f.handler, f.once)
                                   /\ l.handler = f.handler /\ Key(l) = <<f.event, f.handler>>
  BY DEF Listener, Key
<1>8. \A k, l \in T : Key(k) = Key(l) => k = l
  <2> SUFFICES ASSUME NEW k \in T, NEW l \in T, Key(k) = Key(l) PROVE k = l OBVIOUS
  <2>1. PICK f \in here : k = Listener(f.event, f.handler, f.once) /\ Key(k) = <<f.event, f.handler>>
    BY <1>7
  <2>2. PICK g \in here : l = Listener(g.event, g.handler, g.once) /\ Key(l) = <<g.event, g.handler>>
    BY <1>7
  <2>3. f.handler = g.handler BY <2>1, <2>2
  <2>4. f = g BY <1>3, <2>3, AccessAssumption
  <2> QED BY <2>1, <2>2, <2>4
<1>9. PICK q : q = listeners[e] OBVIOUS
<1>10. PICK r : r = SetToSeq(T) OBVIOUS
<1>11. q \in Seq(Listeners) /\ Alone(q) BY <1>9 DEF IInv, Typed, PlacedOnce
<1>13. r \in Seq(Listeners) /\ Alone(r) /\ ToSet(r) = T
  <2> HIDE DEF T
  <2> QED BY <1>5, <1>6, <1>8, <1>10, ListedOnce
<1>14. Apart(q, r)
  <2> SUFFICES ASSUME NEW k \in ToSet(q), NEW l \in T, Key(k) = Key(l) PROVE FALSE
    BY <1>13 DEF Apart
  <2>1. PICK s \in Standing : On(s) = e /\ Own(s) = k BY <1>9 DEF IInv, Backed
  <2>2. s \in Subscriptions BY DEF IInv, Typed, Standing
  <2>3. PICK f \in here : Key(l) = <<f.event, f.handler>> BY <1>7
  <2>4. s.client = c
    <3>1. e \in {Core(c), Adapter(c)} BY <2>3, EmittersAre
    <3> QED BY <2>1, <2>2, <3>1, OnIs, EmittersAre
  <2>5. s.handler \in Handlers BY <2>4 DEF IInv, Rooted, IsFound, Binds
  <2>6. Key(k) = <<s.event, s.handler>> BY <2>1, <2>2, OnIs
  <2>7. f.handler \notin Handlers BY <1>3, FoundOfIs
  <2> QED BY <2>3, <2>5, <2>6, <2>7
<1>15. PICK t : t = Joined(q, r) OBVIOUS
<1>16. t \in Seq(Listeners) /\ Alone(t) /\ ToSet(t) = ToSet(q) \cup ToSet(r)
  BY <1>11, <1>13, <1>14, <1>15, JoinKeeps
<1>17. listeners'[e] = t BY <1>1, <1>9, <1>10, <1>15 DEF Joined
<1> HIDE DEF T
<1> QED BY <1>4, <1>9, <1>13, <1>16, <1>17

\* Nothing found was on a client that was not bound.
LEMMA BindsKeeps == ASSUME IInv, NEW c \in Clients, Binds(c) PROVE IInv'
<1> DEFINE new == {FoundOf(c, f) : f \in Bindings(c)}
<1>1. /\ c \in registered /\ c \notin bound /\ bound' = bound \cup {c}
      /\ UNCHANGED <<registered, methods, astray, taken>>
      /\ subscribed' = subscribed \cup new
  BY DEF Binds, FoundOf
<1>2. Standing' = Standing \cup new BY <1>1 DEF Standing
<1>3. Bindings(c) \in SUBSET Found BY DEF Bindings
<1>4. \A s \in new : /\ s \in Subscriptions /\ s.client = c /\ s.handler \notin Handlers
                     /\ \E f \in Bindings(s.client) : s = FoundOf(s.client, f) /\ s.handler = f.handler
  BY <1>3, FoundOfIs
<1>5. \A e \in Emitters :
        /\ listeners'[e] \in Seq(Listeners) /\ Alone(listeners'[e])
        /\ \A l : l \in ToSet(listeners'[e]) <=>
                    l \in ToSet(listeners[e]) \/ \E s \in new : On(s) = e /\ Own(s) = l
  <2> TAKE e \in Emitters
  <2>1. /\ listeners'[e] \in Seq(Listeners) /\ Alone(listeners'[e])
        /\ ToSet(listeners'[e]) = ToSet(listeners[e]) \cup
             {Own(FoundOf(c, f)) : f \in {g \in Bindings(c) : On(FoundOf(c, g)) = e}}
    BY BindsReturns
  <2> QED BY <2>1
<1>6. \A s \in Standing : s.client = c => s.handler \in Handlers
  BY <1>1 DEF IInv, Rooted, IsFound
<1> HIDE DEF new
<1>7. Typed'
  <2>1. listeners' = [e \in Emitters |-> listeners'[e]] BY DEF Binds
  <2>2. listeners' \in [Emitters -> Seq(Listeners)] BY <1>5, <2>1
  <2> QED BY <1>1, <1>4, <2>2 DEF IInv, Typed
<1>8. Rooted'
  <2>1. \A s \in Standing' : s.client \in registered' /\ (s.handler \in Handlers \/ IsFound(s)')
    <3> TAKE s \in Standing'
    <3>1. CASE s \in new BY <1>1, <1>4, <3>1 DEF IsFound
    <3>2. CASE s \in Standing BY <1>1, <3>2 DEF IInv, Rooted, IsFound
    <3> QED BY <1>2, <3>1, <3>2
  <2>2. subscribed' \cap astray' = {}
    <3>1. \A s \in astray : s \notin new BY <1>4 DEF IInv, Rooted
    <3> QED BY <1>1, <3>1 DEF IInv, Rooted
  <2> QED BY <1>1, <2>1, <2>2 DEF IInv, Rooted
<1>9. OneEach'
  <2> SUFFICES ASSUME NEW s \in Standing', NEW t \in Standing', Who(s) = Who(t) PROVE s = t
    BY DEF OneEach
  <2>1. s.client = t.client /\ s.handler = t.handler BY DEF Who
  <2>2. CASE s \in Standing /\ t \in Standing BY <2>2 DEF IInv, OneEach
  <2>3. CASE s \in new /\ t \in new
    <3>1. PICK f \in Bindings(c) : s = FoundOf(c, f) /\ s.handler = f.handler BY <1>4, <2>3
    <3>2. PICK g \in Bindings(c) : t = FoundOf(c, g) /\ t.handler = g.handler BY <1>4, <2>3
    <3>3. f = g BY <1>3, <2>1, <3>1, <3>2, AccessAssumption
    <3> QED BY <3>1, <3>2, <3>3
  <2>4. ~(s \in new /\ t \in Standing) /\ ~(t \in new /\ s \in Standing) BY <1>4, <1>6, <2>1
  <2> QED BY <1>2, <2>2, <2>3, <2>4
<1>10. Backed' BY <1>2, <1>5 DEF IInv, Backed
<1>11. Heard'
  <2> SUFFICES ASSUME NEW s \in subscribed' \ taken' PROVE Own(s) \in ToSet(listeners'[On(s)])
    BY DEF Heard
  <2>1. s \in Subscriptions BY <1>1, <1>4 DEF IInv, Typed
  <2>2. On(s) \in Emitters BY <2>1, OnIs
  <2>3. s \in new \/ Own(s) \in ToSet(listeners[On(s)]) BY <1>1 DEF IInv, Heard
  <2> QED BY <1>5, <2>2, <2>3
<1>12. PlacedOnce' BY <1>5 DEF PlacedOnce
<1> QED BY <1>7, <1>8, <1>9, <1>10, <1>11, <1>12 DEF IInv

\* An event takes off the onces that were called, and their subscriptions end.
LEMMA FiresKeeps == ASSUME IInv, NEW c \in Clients, NEW event \in Events, Fires(c, event) PROVE IInv'
<1> DEFINE e        == Source(c, event)
           on       == listeners[e]
           hearing  == {i \in DOMAIN on : on[i].event = event}
           throwing == {i \in hearing : on[i].handler \in Throwing}
           called   == {on[i].handler : i \in {j \in hearing : \A k \in throwing : j <= k}}
           left     == {i \in DOMAIN on : Stays(on[i], event) \/ on[i].handler \notin called}
           gone(s)  == s.client = c /\ s.event = event /\ s.once /\ s.handler \in called
<1>1. /\ listeners' = [listeners EXCEPT ![e] = At(on, left)]
      /\ subscribed' = {s \in subscribed : ~gone(s)} /\ taken' = taken \cap subscribed'
      /\ UNCHANGED <<registered, bound, methods, astray>>
  BY DEF Fires
<1>2. PICK q : q = listeners[e] OBVIOUS
<1>3. e \in Emitters /\ e \in {Core(c), Adapter(c)} /\ e[2] = c BY EmittersAre DEF Source
<1>4. q \in Seq(Listeners) /\ Alone(q) BY <1>2, <1>3 DEF IInv, Typed, PlacedOnce
<1>5. ToSet(q) = {q[i] : i \in DOMAIN q} BY DEF ToSet
<1>6. \A h \in called : \E l \in ToSet(q) : l.event = event /\ l.handler = h
  BY <1>2, <1>5
<1>7. PICK C : C = called OBVIOUS
<1>8. PICK P : P = {i \in DOMAIN q : Stays(q[i], event) \/ q[i].handler \notin C} OBVIOUS
<1>9. PICK r : r = At(q, P) OBVIOUS
<1>10. listeners' = [listeners EXCEPT ![e] = r] BY <1>1, <1>2, <1>7, <1>8, <1>9
<1>11. subscribed' = {s \in subscribed : ~(s.client = c /\ s.event = event /\ s.once /\ s.handler \in C)}
  BY <1>1, <1>7
<1>12. \A h \in C : \E l \in ToSet(q) : l.event = event /\ l.handler = h BY <1>6, <1>7
<1> HIDE DEF called, gone, left, throwing, hearing, on
<1>13. P \in SUBSET DOMAIN q BY <1>8
<1>14. r \in Seq(Listeners) /\ Alone(r) /\ ToSet(r) = {q[i] : i \in P} BY <1>4, <1>9, <1>13, AtKeeps
<1>15. ToSet(r) = {l \in ToSet(q) : Stays(l, event) \/ l.handler \notin C} BY <1>5, <1>8, <1>14
<1> HIDE DEF e
<1>16. /\ listeners' \in [Emitters -> Seq(Listeners)] /\ listeners'[e] = r
       /\ \A d \in Emitters : d # e => listeners'[d] = listeners[d]
  BY <1>3, <1>10, <1>14 DEF IInv, Typed
<1>17. Standing \in SUBSET Subscriptions /\ Standing' \in SUBSET Standing
  BY <1>1, <1>11 DEF IInv, Typed, Standing
<1>18. Typed' BY <1>1, <1>11, <1>16 DEF IInv, Typed
<1>19. Rooted'
  <2>1. \A s \in Standing' : s.client \in registered' /\ (s.handler \in Handlers \/ IsFound(s)')
    <3> TAKE s \in Standing'
    <3>1. s.client \in registered' BY <1>1, <1>17 DEF IInv, Rooted
    <3>2. CASE s.handler \in Handlers BY <3>1, <3>2
    <3>3. CASE s.handler \notin Handlers
      <4>1. IsFound(s) BY <1>17, <3>3 DEF IInv, Rooted
      <4>2. s \notin astray BY <3>3 DEF IInv, Rooted
      <4>3. s \in subscribed' BY <1>1, <4>2 DEF Standing
      <4>4. IsFound(s)' BY <1>1, <4>1, <4>3 DEF IsFound
      <4> QED BY <3>1, <4>4
    <3> QED BY <3>2, <3>3
  <2>2. subscribed' \cap astray' = {} BY <1>1, <1>11 DEF IInv, Rooted
  <2> QED BY <1>1, <2>1, <2>2 DEF IInv, Rooted
<1>20. OneEach' BY <1>17 DEF IInv, OneEach
<1>21. Backed'
  <2> SUFFICES ASSUME NEW d \in Emitters, NEW l \in ToSet(listeners'[d])
               PROVE  \E t \in Standing' : On(t) = d /\ Own(t) = l BY DEF Backed
  <2>1. l \in ToSet(listeners[d]) /\ (d = e => Stays(l, event) \/ l.handler \notin C)
    BY <1>2, <1>15, <1>16
  <2>2. PICK s \in Standing : On(s) = d /\ Own(s) = l BY <2>1 DEF IInv, Backed
  <2>3. s \in Subscriptions BY <1>17
  <2>4. ASSUME s.client = c, s.event = event, s.once, s.handler \in C, s \in subscribed PROVE FALSE
    <3>1. PICK k \in ToSet(q) : k.event = event /\ k.handler = s.handler BY <1>12, <2>4
    <3>2. PICK t \in Standing : On(t) = e /\ Own(t) = k BY <1>2, <1>3, <3>1 DEF IInv, Backed
    <3>3. t \in Subscriptions BY <1>17
    <3>4. t.client = c /\ t.event = event /\ t.handler = s.handler BY <1>3, <3>1, <3>2, <3>3, OnIs
    <3>5. s = t BY <2>4, <3>4 DEF IInv, OneEach, Who
    <3>6. d = e BY <2>2, <3>2, <3>5
    <3>7. l.event = event /\ l.once /\ l.handler \in C BY <2>2, <2>3, <2>4, OnIs
    <3> QED BY <2>1, <3>6, <3>7 DEF Stays
  <2>5. s \in Standing' BY <1>1, <1>11, <2>4 DEF Standing
  <2> QED BY <2>2, <2>5
<1>22. Heard'
  <2> SUFFICES ASSUME NEW s \in subscribed' \ taken' PROVE Own(s) \in ToSet(listeners'[On(s)])
    BY DEF Heard
  <2>1. s \in subscribed \ taken /\ ~(s.client = c /\ s.event = event /\ s.once /\ s.handler \in C)
    BY <1>1, <1>11
  <2>2. Own(s) \in ToSet(listeners[On(s)]) BY <2>1 DEF IInv, Heard
  <2>3. /\ On(s) \in Emitters /\ On(s)[2] = s.client
        /\ Own(s).event = s.event /\ Own(s).handler = s.handler /\ Own(s).once = s.once
    BY <1>17, <2>1, OnIs DEF Standing
  <2>4. CASE On(s) # e BY <1>16, <2>2, <2>3, <2>4
  <2>5. CASE On(s) = e
    <3>1. s.client = c BY <1>3, <2>3, <2>5
    <3>2. Stays(Own(s), event) \/ Own(s).handler \notin C BY <2>1, <2>3, <3>1 DEF Stays
    <3> QED BY <1>2, <1>15, <1>16, <2>2, <2>5, <3>2
  <2> QED BY <2>4, <2>5
<1>23. PlacedOnce' BY <1>14, <1>16 DEF IInv, PlacedOnce
<1> QED BY <1>18, <1>19, <1>20, <1>21, <1>22, <1>23 DEF IInv

\* A name stands for a client that is registered, or for none.
LEMMA ResolvesToOne == ASSUME Typed, NEW name, Resolve(name) # None PROVE Resolve(name) \in registered
<1>1. CASE name # None BY <1>1 DEF Resolve
<1>2. CASE name = None /\ Cardinality(registered) = 1
  <2>1. registered # {} BY <1>2, FS_EmptySet
  <2> QED BY <1>2, <2>1 DEF Resolve
<1>3. CASE name = None /\ Cardinality(registered) # 1 BY <1>3 DEF Resolve
<1> QED BY <1>1, <1>2, <1>3

\* The application's subscriptions.
LEMMA SubscriptionIs ==
  ASSUME NEW c \in Clients, NEW event \in Events, NEW handler \in Handlers, NEW once \in BOOLEAN,
         NEW via \in {"client", "service"}, NEW asked \in Names,
         NEW s, s = Subscription(c, event, handler, once, via, asked)
  PROVE  s \in Subscriptions /\ s.client = c /\ s.handler = handler
         /\ On(s) = IF via = "service" THEN Adapter(c) ELSE EmitterFor(c, event)
BY DEF Subscription, Subscriptions, On, Callables

LEMMA SubscribesKeeps ==
  ASSUME IInv, NEW event \in Events, NEW handler \in Handlers, NEW once \in BOOLEAN
  PROVE  /\ \A c \in Clients : ClientOn(c, event, handler, once) => IInv'
         /\ \A name \in Names : ServiceOn(name, event, handler, once) => IInv'
<1>1. ASSUME NEW c \in Clients, ClientOn(c, event, handler, once) PROVE IInv'
  <2>1. PICK s : s = Subscription(c, event, handler, once, "client", c) OBVIOUS
  <2>2. s \in Subscriptions /\ s.client = c /\ s.handler = handler /\ On(s) = EmitterFor(c, event)
    BY <2>1, SubscriptionIs DEF Names
  <2>3. PutOn(On(s), s) /\ s.client \in registered BY <1>1, <2>1, <2>2 DEF ClientOn
  <2>4. On(s) \in Emitters BY <2>2, OnIs
  <2> QED BY <2>2, <2>3, <2>4, PutOnKeeps
<1>2. ASSUME NEW name \in Names, ServiceOn(name, event, handler, once) PROVE IInv'
  <2>1. PICK c \in registered : c = Resolve(name) BY <1>2, ResolvesToOne DEF IInv, ServiceOn
  <2>2. c \in Clients BY DEF IInv, Typed
  <2>3. PICK s : s = Subscription(c, event, handler, once, "service", name) OBVIOUS
  <2>4. s \in Subscriptions /\ s.client = c /\ s.handler = handler /\ On(s) = Adapter(c)
    BY <2>2, <2>3, SubscriptionIs
  <2>5. PutOn(On(s), s) BY <1>2, <2>1, <2>3, <2>4 DEF ServiceOn
  <2>6. On(s) \in Emitters BY <2>4, OnIs
  <2> QED BY <2>4, <2>5, <2>6, PutOnKeeps
<1> QED BY <1>1, <1>2

LEMMA UnsubscribesKeeps ==
  ASSUME IInv
  PROVE  /\ \A event \in Events, handler \in Handlers :
              /\ \A c \in Clients : ClientOff(c, event, handler) => IInv'
              /\ \A name \in Names : ServiceOff(name, event, handler) => IInv'
         /\ \A s \in subscribed : Stop(s) => IInv'
<1>1. ASSUME NEW event \in Events, NEW handler \in Handlers, NEW c \in Clients,
             ClientOff(c, event, handler) PROVE IInv'
  <2>1. PICK meant : meant = {s \in subscribed : s.via = "client" /\ s.handler = handler
                                /\ s.client = c /\ s.event = event} OBVIOUS
  <2>2. PICK e : e = EmitterFor(c, event) OBVIOUS
  <2>3. e \in Emitters /\ meant \in SUBSET subscribed BY <2>1, <2>2, EmittersAre
  <2>4. Off(e, event, handler, meant) BY <1>1, <2>1, <2>2 DEF ClientOff
  <2>5. \A s \in meant : s.event = event /\ s.handler = handler BY <2>1
  <2> QED BY <2>3, <2>4, <2>5, OffKeeps
<1>2. ASSUME NEW event \in Events, NEW handler \in Handlers, NEW name \in Names,
             ServiceOff(name, event, handler) PROVE IInv'
  <2>1. PICK meant : meant = {s \in subscribed : s.via = "service" /\ s.handler = handler
                                /\ s.asked = name /\ s.event = event} OBVIOUS
  <2>2. PICK c \in registered : c = Resolve(name) BY <1>2, ResolvesToOne DEF IInv, ServiceOff
  <2>3. PICK e : e = Adapter(c) OBVIOUS
  <2>4. e \in Emitters /\ meant \in SUBSET subscribed BY <2>1, <2>3, EmittersAre DEF IInv, Typed
  <2>5. Off(e, event, handler, meant) BY <1>2, <2>1, <2>2, <2>3 DEF ServiceOff
  <2>6. \A s \in meant : s.event = event /\ s.handler = handler BY <2>1
  <2> QED BY <2>4, <2>5, <2>6, OffKeeps
<1>3. ASSUME NEW s \in subscribed, Stop(s) PROVE IInv'
  <2>1. s \in Subscriptions BY DEF IInv, Typed
  <2>2. s.handler \in Handlers
    <3>1. ~IsFound(s) BY <1>3 DEF Stop, IsFound, FoundOf, Subscription
    <3> QED BY <3>1 DEF IInv, Rooted, Standing
  <2>3. PICK e : e = IF s.via = "service" \/ s.event \in Native THEN Adapter(s.client)
                     ELSE Core(s.client) OBVIOUS
  <2>4. s.client \in Clients BY <2>1, OnIs
  <2>5. e \in Emitters BY <2>3, <2>4, EmittersAre
  <2>6. Off(e, s.event, s.handler, {s}) BY <1>3, <2>3 DEF Stop
  <2>7. PICK event : event = s.event OBVIOUS
  <2>8. PICK handler \in Handlers : handler = s.handler BY <2>2
  <2>9. PICK meant \in SUBSET subscribed : meant = {s} OBVIOUS
  <2>10. Off(e, event, handler, meant) BY <2>6, <2>7, <2>8, <2>9
  <2>11. \A t \in meant : t.event = event /\ t.handler = handler BY <2>7, <2>8, <2>9
  <2> QED BY <2>5, <2>10, <2>11, OffKeeps
<1> QED BY <1>1, <1>2, <1>3

\* Every step keeps the invariant.
LEMMA NextKeeps == ASSUME IInv, [Next]_vars PROVE IInv'
<1>1. ASSUME NEW c \in Clients, Joins(c) \/ Leaves(c) \/ Binds(c) PROVE IInv'
  BY <1>1, JoinsKeeps, LeavesKeeps, BindsKeeps
<1>2. ASSUME NEW event \in Events, NEW handler \in Handlers,
             \/ \E once \in BOOLEAN :
                  \/ \E c \in Clients : ClientOn(c, event, handler, once)
                  \/ \E name \in Names : ServiceOn(name, event, handler, once)
             \/ \E c \in Clients : ClientOff(c, event, handler)
             \/ \E name \in Names : ServiceOff(name, event, handler)
      PROVE  IInv'
  BY <1>2, SubscribesKeeps, UnsubscribesKeeps
<1>3. ASSUME NEW s \in subscribed, Stop(s) PROVE IInv' BY <1>3, UnsubscribesKeeps
<1>4. ASSUME NEW c \in Clients, NEW event \in Events, Fires(c, event) PROVE IInv' BY <1>4, FiresKeeps
<1>5. ASSUME NEW p \in Packages, Registers(p[1], p[2]) PROVE IInv'
  <2>1. UNCHANGED <<registered, bound, listeners, subscribed, astray, taken>>
    BY <1>5 DEF Registers, history
  <2>2. DOMAIN methods \subseteq DOMAIN methods' BY <1>5, MethodsGrow DEF IInv
  <2> QED BY <2>1, <2>2 DEF IInv, Typed, Rooted, IsFound, OneEach, Backed, Heard, PlacedOnce, Standing
<1>6. CASE UNCHANGED vars
  BY <1>6 DEF vars, history, IInv, Typed, Rooted, IsFound, OneEach, Backed, Heard, PlacedOnce, Standing
<1> QED BY <1>1, <1>2, <1>3, <1>4, <1>5, <1>6 DEF Next

\* The invariant always holds.
LEMMA Always == Spec => []IInv
<1>1. Init => IInv BY InitHolds
<1>2. IInv /\ [Next]_vars => IInv' BY NextKeeps
<1> QED BY <1>1, <1>2, PTL DEF Spec

-----------------------------------------------------------------------------
(***************************************************************************)
(* What follows                                                            *)
(***************************************************************************)
\* What is on the emitter of the core are events of the core.
LEMMA TypesHold == ASSUME IInv PROVE TypeOK
<1> SUFFICES ASSUME NEW e \in Emitters, NEW i \in DOMAIN listeners[e]
             PROVE  listeners[e][i].event \in (IF e[1] = "core" THEN Derived ELSE Events)
  BY DEF IInv, Typed, TypeOK
<1>1. PICK l : l = listeners[e][i] OBVIOUS
<1>2. l \in ToSet(listeners[e]) BY <1>1 DEF ToSet
<1>3. PICK s \in Standing : On(s) = e /\ Own(s) = l BY <1>2 DEF IInv, Backed
<1>4. s \in Subscriptions BY DEF IInv, Typed, Standing
<1>5. l.event = s.event /\ s.event \in Events BY <1>3, <1>4, OnIs
<1>6. e[1] = "core" => s.event \in Derived BY <1>3, <1>4, OnIs, EmittersAre
<1> QED BY <1>1, <1>5, <1>6

\* An event is emitted where the subscription was put, but for the two exceptions.
LEMMA WhoSubscribedHears == ASSUME IInv PROVE SubscribersHear
<1> SUFFICES ASSUME NEW s \in Unheard, s \notin taken, ~(s.via = "service" /\ s.event \in Derived)
             PROVE  FALSE
  BY DEF SubscribersHear
<1>1. s \in subscribed /\ s \in Subscriptions BY DEF Unheard, IInv, Typed
<1>2. On(s) = Source(s.client, s.event) BY AccessAssumption DEF On, Source, EmitterFor
<1>3. Own(s) \in ToSet(listeners[On(s)]) BY <1>1 DEF IInv, Heard
<1> QED BY <1>2, <1>3 DEF Unheard, Own, ToSet

\* Every listener is of a subscription.
LEMMA NobodyElseHears == ASSUME IInv PROVE OnlySubscribersHear
<1> SUFFICES ASSUME NEW e \in Emitters, NEW i \in DOMAIN listeners[e]
             PROVE  \E s \in subscribed \cup astray :
                      s.client = e[2] /\ Listener(s.event, s.handler, s.once) = listeners[e][i]
  BY DEF OnlySubscribersHear
<1>1. listeners[e][i] \in ToSet(listeners[e]) BY DEF ToSet
<1>2. PICK s \in Standing : On(s) = e /\ Own(s) = listeners[e][i] BY <1>1 DEF IInv, Backed
<1>3. s \in Subscriptions BY DEF IInv, Typed, Standing
<1> QED BY <1>2, <1>3, OnIs DEF Own, Standing

\* A found listener's function is on one emitter of its client, at one place, or on none.
LEMMA FoundOnce == ASSUME IInv PROVE FoundBoundOnce
<1> SUFFICES ASSUME NEW c \in bound, NEW f \in Found
             PROVE  LET s == Subscription(c, f.event, f.handler, f.once, "found", c)
                        on(e) == Cardinality({i \in DOMAIN listeners[e] :
                                                listeners[e][i].handler = f.handler})
                    IN  /\ on(Core(c)) + on(Adapter(c)) = IF s \in subscribed THEN 1 ELSE 0
                        /\ f.managed => s \notin subscribed
  BY DEF FoundBoundOnce
<1> DEFINE s     == FoundOf(c, f)
           at(e) == {i \in DOMAIN listeners[e] : listeners[e][i].handler = f.handler}
<1>1. c \in Clients /\ s \in Subscriptions /\ s.client = c /\ s.handler = f.handler
      /\ f.handler \notin Handlers /\ On(s) \in {Core(c), Adapter(c)}
  BY FoundOfIs, OnIs DEF IInv, Typed
<1>2. \A t \in Standing : t.client = c /\ t.handler = f.handler =>
        t = s /\ t \in subscribed /\ f \in Bindings(c)
  <2> SUFFICES ASSUME NEW t \in Standing, t.client = c, t.handler = f.handler
               PROVE  t = s /\ t \in subscribed /\ f \in Bindings(c) OBVIOUS
  <2>1. IsFound(t) BY <1>1 DEF IInv, Rooted
  <2>2. PICK g \in Bindings(c) : t = FoundOf(c, g) BY <2>1 DEF IsFound
  <2>3. g \in Found BY DEF Bindings
  <2>4. g.handler = f.handler BY <1>1, <2>2, <2>3, FoundOfIs
  <2>5. g = f BY <2>3, <2>4, AccessAssumption
  <2> QED BY <2>1, <2>2, <2>5 DEF IsFound
<1>3. ASSUME NEW e \in {Core(c), Adapter(c)}, NEW i \in at(e)
      PROVE  s \in subscribed /\ e = On(s) /\ listeners[e][i] = Own(s)
  <2>1. e \in Emitters /\ e[2] = c BY <1>1, EmittersAre
  <2>2. listeners[e][i] \in ToSet(listeners[e]) BY DEF ToSet
  <2>3. PICK t \in Standing : On(t) = e /\ Own(t) = listeners[e][i] BY <2>1, <2>2 DEF IInv, Backed
  <2>4. t \in Subscriptions BY DEF IInv, Typed, Standing
  <2>5. t.client = c /\ t.handler = f.handler BY <2>1, <2>3, <2>4, OnIs
  <2> QED BY <1>2, <2>3, <2>5
<1>4. \A e \in {Core(c), Adapter(c)} : \A i, j \in at(e) : i = j
  <2> SUFFICES ASSUME NEW e \in {Core(c), Adapter(c)}, NEW i \in at(e), NEW j \in at(e) PROVE i = j
    OBVIOUS
  <2>1. listeners[e][i] = listeners[e][j] BY <1>3
  <2>2. Alone(listeners[e]) BY <1>1, EmittersAre DEF IInv, PlacedOnce
  <2> QED BY <2>1, <2>2 DEF Alone
<1>5. s \in subscribed => \E i \in at(On(s)) : TRUE
  <2> SUFFICES ASSUME s \in subscribed PROVE \E i \in at(On(s)) : TRUE OBVIOUS
  <2>1. s \notin taken BY <1>1 DEF IInv, Rooted
  <2>2. Own(s) \in ToSet(listeners[On(s)]) BY <2>1 DEF IInv, Heard
  <2>3. Own(s).handler = f.handler BY <1>1, OnIs
  <2> QED BY <2>2, <2>3 DEF ToSet
<1>6. f.managed => s \notin subscribed
  <2> SUFFICES ASSUME s \in subscribed PROVE ~f.managed OBVIOUS
  <2>1. f \in Bindings(c) BY <1>1, <1>2 DEF Standing
  <2> QED BY <2>1 DEF Bindings
<1>7. PICK core, adapter : core = at(Core(c)) /\ adapter = at(Adapter(c)) OBVIOUS
<1>8. Cardinality(core) + Cardinality(adapter) = IF s \in subscribed THEN 1 ELSE 0
  <2>1. ASSUME s \notin subscribed PROVE core = {} /\ adapter = {} BY <1>3, <1>7, <2>1
  <2>2. ASSUME s \in subscribed
        PROVE  \/ (\E i : core = {i}) /\ adapter = {}
               \/ (\E i : adapter = {i}) /\ core = {}
    <3>1. Core(c) # Adapter(c) BY EmittersAre
    <3>2. PICK i \in at(On(s)) : TRUE BY <1>5, <2>2
    <3>3. On(s) = Core(c) \/ On(s) = Adapter(c) BY <1>1
    <3>4. CASE On(s) = Core(c)
      <4>1. at(Core(c)) = {i} BY <1>4, <3>2, <3>4
      <4>2. at(Adapter(c)) = {} BY <1>3, <3>1, <3>4
      <4> QED BY <1>7, <4>1, <4>2
    <3>5. CASE On(s) = Adapter(c)
      <4>1. at(Adapter(c)) = {i} BY <1>4, <3>2, <3>5
      <4>2. at(Core(c)) = {} BY <1>3, <3>1, <3>5
      <4> QED BY <1>7, <4>1, <4>2
    <3> QED BY <3>3, <3>4, <3>5
  <2>3. Cardinality({}) = 0 /\ \A i : Cardinality({i}) = 1 BY FS_EmptySet, FS_Singleton
  <2>4. CASE s \notin subscribed BY <2>1, <2>3, <2>4
  <2>5. CASE s \in subscribed
    <3>1. \/ Cardinality(core) = 1 /\ Cardinality(adapter) = 0
          \/ Cardinality(core) = 0 /\ Cardinality(adapter) = 1
      BY <2>2, <2>3, <2>5
    <3> QED BY <2>5, <3>1
  <2> QED BY <2>4, <2>5
<1> HIDE DEF at
<1> QED BY <1>6, <1>7, <1>8 DEF FoundOf, at

\* An event comes to exactly those who subscribed to it, once each: what client.on, the
\* messaging service and bindListeners put on the emitters of a client, off takes off
\* again, and an EventEmitter does with a once.
THEOREM SubscribersHearOnce == Spec => []ExactlySubscribersHear
<1>1. IInv => ExactlySubscribersHear
  BY TypesHold, WhoSubscribedHears, NobodyElseHears, FoundOnce DEF ExactlySubscribersHear
<1> QED BY <1>1, Always, PTL

\* What is supported stays supported.
LEMMA MethodsStay ==
  ASSUME IInv, [Next]_vars
  PROVE  \A c, k : Supports(c, k) => Supports(c, k)'
<1>1. DOMAIN methods \subseteq DOMAIN methods' /\ \A j \in DOMAIN methods : methods'[j] = methods[j]
  <2>1. CASE UNCHANGED methods BY <2>1
  <2>2. ASSUME NEW p \in Packages, Registers(p[1], p[2])
        PROVE  DOMAIN methods \subseteq DOMAIN methods' /\ \A j \in DOMAIN methods : methods'[j] = methods[j]
    BY <2>2, MethodsGrow DEF IInv
  <2>3. ASSUME NEW c \in Clients, Joins(c) \/ Leaves(c) \/ Binds(c) PROVE UNCHANGED methods
    BY <2>3 DEF Joins, Leaves, Binds
  <2>4. \A e, event, handler, meant : Off(e, event, handler, meant) => UNCHANGED methods BY DEF Off
  <2>5. \A e, s : PutOn(e, s) => UNCHANGED methods BY DEF PutOn
  <2>6. ASSUME NEW event \in Events, NEW handler \in Handlers,
               \/ \E once \in BOOLEAN :
                    \/ \E c \in Clients : ClientOn(c, event, handler, once)
                    \/ \E name \in Names : ServiceOn(name, event, handler, once)
               \/ \E c \in Clients : ClientOff(c, event, handler)
               \/ \E name \in Names : ServiceOff(name, event, handler)
        PROVE  UNCHANGED methods
    BY <2>4, <2>5, <2>6 DEF ClientOn, ServiceOn, ClientOff, ServiceOff
  <2>7. ASSUME NEW s \in subscribed, Stop(s) PROVE UNCHANGED methods BY <2>4, <2>7 DEF Stop
  <2>8. ASSUME NEW c \in Clients, NEW event \in Events, Fires(c, event) PROVE UNCHANGED methods
    BY <2>8 DEF Fires
  <2>9. UNCHANGED vars => UNCHANGED methods BY DEF vars
  <2> QED BY <2>1, <2>2, <2>3, <2>6, <2>7, <2>8, <2>9 DEF Next
<1> QED BY <1>1 DEF Supports

\* The same after a step.
LEMMA ResolvedOrNone ==
  ASSUME Typed', NEW name PROVE Resolve(name)' # None <=> Resolve(name)' \in registered'
<1>1. None \notin registered' BY NamesAssumption DEF Typed
<1>2. CASE name # None BY <1>1, <1>2 DEF Resolve
<1>3. CASE name = None /\ Cardinality(registered') = 1
  <2>1. registered' # {} BY <1>3, FS_EmptySet
  <2> QED BY <1>1, <1>3, <2>1 DEF Resolve
<1>4. CASE name = None /\ Cardinality(registered') # 1 BY <1>1, <1>4 DEF Resolve
<1> QED BY <1>2, <1>3, <1>4

\* What is supported stays so over any step.
LEMMA StepKeepsSupported ==
  ASSUME IInv, [Next]_vars
  PROVE  /\ \A c \in Clients, needed \in SUBSET {p[1] : p \in Packages} :
              Allows(c, needed) => (\A k \in needed : ClientDoes(c, k)') \/ c \notin registered'
         /\ \A name \in Names, p \in Packages :
              /\ ServiceDoes(name, p[1]) =>
                   ServiceDoes(name, p[1])' \/ Resolve(name)' # Resolve(name)
              /\ ServiceDoes(name, p[1])' = ClientDoes(Resolve(name), p[1])'
<1>1. \A c, k : Supports(c, k) => Supports(c, k)' BY MethodsStay
<1>2. IInv' BY NextKeeps
<1>3. \A name : Resolve(name)' # None <=> Resolve(name)' \in registered' BY <1>2, ResolvedOrNone DEF IInv
<1>4. ASSUME NEW c \in Clients, NEW needed \in SUBSET {p[1] : p \in Packages}, Allows(c, needed),
             c \in registered'
      PROVE  \A k \in needed : ClientDoes(c, k)'
  BY <1>1, <1>4 DEF Allows, ClientDoes
<1>5. ASSUME NEW name \in Names, NEW p \in Packages
      PROVE  /\ ServiceDoes(name, p[1]) => ServiceDoes(name, p[1])' \/ Resolve(name)' # Resolve(name)
             /\ ServiceDoes(name, p[1])' = ClientDoes(Resolve(name), p[1])'
  <2>1. ASSUME ServiceDoes(name, p[1]), Resolve(name)' = Resolve(name) PROVE ServiceDoes(name, p[1])'
    BY <1>1, <2>1 DEF ServiceDoes
  <2>2. ServiceDoes(name, p[1])' = ClientDoes(Resolve(name), p[1])' BY <1>3 DEF ServiceDoes, ClientDoes
  <2> QED BY <2>1, <2>2
<1> QED BY <1>4, <1>5

\* What supportsCapability said is true when the operation is asked for, and what the
\* guard let through is done, whatever packages register between.
THEOREM SupportIsKept == Spec => SupportedStaysSupported
BY Always, StepKeepsSupported, PTL DEF Spec, SupportedStaysSupported

-----------------------------------------------------------------------------
(***************************************************************************)
(* Commands: text                                                          *)
(***************************************************************************)
\* The first of some places is the least of them, and what is least is the first.
LEMMA FirstIsLeast ==
  ASSUME NEW n \in Nat, NEW P \in SUBSET (1 .. n), P # {}
  PROVE  /\ Cardinality(P) >= 1 /\ Nth(P, 1) \in P /\ \A j \in P : Nth(P, 1) <= j
         /\ \A i \in P : (\A j \in P : i <= j) => i = Nth(P, 1)
<1>1. PICK i \in P : TRUE OBVIOUS
<1>2. Rank(P, i) \in 1 .. Cardinality(P) /\ Cardinality(P) \in Nat BY NthIsOrdered
<1>3. 1 \in 1 .. Cardinality(P) BY <1>2
<1>4. Nth(P, 1) \in P BY <1>3, NthIsOrdered
<1>5. PICK f \in P : f = Nth(P, 1) BY <1>4
<1>6. ASSUME NEW j \in P PROVE f <= j
  <2>1. Rank(P, j) \in 1 .. Cardinality(P) /\ Nth(P, Rank(P, j)) = j BY NthIsOrdered
  <2>2. Rank(P, j) = 1 \/ 1 < Rank(P, j) BY <1>2, <2>1
  <2>3. 1 < Rank(P, j) => Nth(P, 1) < Nth(P, Rank(P, j)) BY <1>3, <2>1, NthIsOrdered
  <2>4. f \in Nat /\ j \in Nat OBVIOUS
  <2> QED BY <1>5, <2>1, <2>2, <2>3, <2>4
<1>7. \A i2 \in P : (\A j \in P : i2 <= j) => i2 = f
  <2> SUFFICES ASSUME NEW i2 \in P, \A j \in P : i2 <= j PROVE i2 = f OBVIOUS
  <2>1. f \in Nat /\ i2 \in Nat /\ i2 <= f /\ f <= i2 BY <1>6
  <2> QED BY <2>1
<1> QED BY <1>2, <1>3, <1>5, <1>6, <1>7

\* The second is the least of the others.
Second(P, i) ==
  /\ Cardinality(P) >= 2 =>
       Nth(P, 2) \in P /\ i < Nth(P, 2) /\ \A j \in P : j = i \/ Nth(P, 2) <= j
  /\ \A l \in P : (l # i /\ \A j \in P : j = i \/ l <= j) => Cardinality(P) >= 2 /\ l = Nth(P, 2)

LEMMA SecondIsNext ==
  ASSUME NEW n \in Nat, NEW P \in SUBSET (1 .. n), NEW i \in P, \A j \in P : i <= j
  PROVE  Second(P, i)
<1>0. i = Nth(P, 1) BY FirstIsLeast
<1>1. Cardinality(P) \in Nat BY NthIsOrdered
<1>2. ASSUME Cardinality(P) >= 2
      PROVE  Nth(P, 2) \in P /\ i < Nth(P, 2) /\ \A j \in P : j = i \/ Nth(P, 2) <= j
  <2>1. 1 \in 1 .. Cardinality(P) /\ 2 \in 1 .. Cardinality(P) /\ 1 < 2 BY <1>1, <1>2
  <2>2. Nth(P, 2) \in P /\ Nth(P, 1) < Nth(P, 2) BY <2>1, NthIsOrdered
  <2>3. PICK s \in P : s = Nth(P, 2) BY <2>2
  <2>4. ASSUME NEW j \in P, j # i PROVE s <= j
    <3>1. Rank(P, j) \in 1 .. Cardinality(P) /\ Nth(P, Rank(P, j)) = j BY NthIsOrdered
    <3>2. Rank(P, j) # 1 BY <1>0, <2>4, <3>1
    <3>3. Rank(P, j) = 2 \/ 2 < Rank(P, j) BY <1>1, <3>1, <3>2
    <3>4. 2 < Rank(P, j) => Nth(P, 2) < Nth(P, Rank(P, j)) BY <2>1, <3>1, NthIsOrdered
    <3>5. s \in Nat /\ j \in Nat OBVIOUS
    <3> QED BY <2>3, <3>1, <3>3, <3>4, <3>5
  <2> QED BY <1>0, <2>2, <2>3, <2>4
<1>3. ASSUME NEW l \in P, l # i, \A j \in P : j = i \/ l <= j
      PROVE  Cardinality(P) >= 2 /\ l = Nth(P, 2)
  <2>1. Rank(P, i) \in 1 .. Cardinality(P) /\ Nth(P, Rank(P, i)) = i
        /\ Rank(P, l) \in 1 .. Cardinality(P) /\ Nth(P, Rank(P, l)) = l BY NthIsOrdered
  <2>2. Rank(P, l) # Rank(P, i) BY <1>3, <2>1
  <2>3. Cardinality(P) >= 2 BY <1>1, <2>1, <2>2
  <2>4. PICK s \in P : s = Nth(P, 2) /\ i < s /\ \A j \in P : j = i \/ s <= j BY <1>2, <2>3
  <2>5. s \in Nat /\ l \in Nat /\ i \in Nat OBVIOUS
  <2>6. s # i BY <2>4, <2>5
  <2>7. l <= s /\ s <= l BY <1>3, <2>4, <2>6
  <2> QED BY <2>3, <2>4, <2>5, <2>7
<1> QED BY <1>2, <1>3 DEF Second

\* The n symbols of s that come after the first m.
Part(t, S, s, m, n) ==
  /\ t \in Seq(S) /\ Len(t) = n /\ DOMAIN t = 1 .. n
  /\ \A k \in 1 .. n : t[k] = s[k + m]

\* What SubSeq returns.
LEMMA PartIs ==
  ASSUME NEW S, NEW s \in Seq(S), NEW i \in 1 .. Len(s) + 1, NEW j \in Nat, i <= j + 1, j <= Len(s)
  PROVE  Part(SubSeq(s, i, j), S, s, i - 1, j + 1 - i)
<1>0. PICK t : t = SubSeq(s, i, j) OBVIOUS
<1>1. Len(s) \in Nat BY LenProperties
<1>2. \A k \in i .. j : s[k] \in S BY <1>1, ElementOfSeq
<1>3. t \in Seq(S) /\ Len(t) = (IF i <= j THEN j - i + 1 ELSE 0)
      /\ \A k \in 1 .. j - i + 1 : t[k] = s[i + k - 1]
  BY <1>0, <1>1, <1>2, SubSeqProperties
<1>4. DOMAIN t = 1 .. Len(t) BY <1>3, LenProperties
<1>5. Len(t) = j + 1 - i BY <1>1, <1>3
<1>6. \A k \in 1 .. (j + 1 - i) : k \in 1 .. j - i + 1 /\ i + k - 1 = k + (i - 1) BY <1>1
<1> QED BY <1>0, <1>3, <1>4, <1>5, <1>6 DEF Part

\* Only a space is a space in lower case.
LEMMA LowerKeepsSpace == \A s : Lower(s) = Space <=> s = Space
BY DispatchAssumption DEF Lower

\* What Lowered returns.
LEMMA LoweredIs ==
  ASSUME NEW S, NEW s \in Seq(S)
  PROVE  /\ Len(Lowered(s)) = Len(s) /\ DOMAIN Lowered(s) = 1 .. Len(s)
         /\ \A k \in 1 .. Len(s) : Lowered(s)[k] = Lower(s[k])
<1>1. Len(s) \in Nat /\ DOMAIN s = 1 .. Len(s) BY LenProperties
<1>2. Lowered(s) = [k \in 1 .. Len(s) |-> Lower(s[k])] BY <1>1 DEF Lowered
<1>3. Len([k \in 1 .. Len(s) |-> Lower(s[k])]) = Len(s) BY <1>1
<1> QED BY <1>2, <1>3

\* A text in lower case is one.
LEMMA LoweredIsText ==
  ASSUME NEW S, NEW s \in Seq(S)
  PROVE  Lowered(s) \in Seq({Lower(x) : x \in S})
<1>1. Len(s) \in Nat /\ DOMAIN s = 1 .. Len(s) BY LenProperties
<1>2. Lowered(s) = [k \in 1 .. Len(s) |-> Lower(s[k])] BY <1>1 DEF Lowered
<1>3. \A k \in 1 .. Len(s) : Lower(s[k]) \in {Lower(x) : x \in S} BY <1>1, ElementOfSeq
<1>4. [k \in 1 .. Len(s) |-> Lower(s[k])] \in Seq({Lower(x) : x \in S}) BY <1>1, <1>3, IsASeq
<1> QED BY <1>2, <1>4

\* Two texts are one but for capitals.
LEMMA SameLowered ==
  ASSUME NEW S, NEW s \in Seq(S), NEW T, NEW t \in Seq(T)
  PROVE  Lowered(s) = Lowered(t)
           <=> (Len(s) = Len(t) /\ \A k \in 1 .. Len(s) : Lower(s[k]) = Lower(t[k]))
<1>1. Len(s) \in Nat /\ DOMAIN s = 1 .. Len(s) /\ Len(t) \in Nat /\ DOMAIN t = 1 .. Len(t)
  BY LenProperties
<1>2. PICK a : a = Lowered(s) OBVIOUS
<1>3. PICK b : b = Lowered(t) OBVIOUS
<1>4. Len(a) = Len(s) /\ \A k \in 1 .. Len(s) : a[k] = Lower(s[k]) BY <1>2, LoweredIs
<1>5. Len(b) = Len(t) /\ \A k \in 1 .. Len(t) : b[k] = Lower(t[k]) BY <1>3, LoweredIs
<1>6. ASSUME a = b PROVE Len(s) = Len(t) /\ \A k \in 1 .. Len(s) : Lower(s[k]) = Lower(t[k])
  BY <1>4, <1>5, <1>6
<1>7. ASSUME Len(s) = Len(t), \A k \in 1 .. Len(s) : Lower(s[k]) = Lower(t[k]) PROVE a = b
  <2>1. a = [k \in 1 .. Len(s) |-> Lower(s[k])] BY <1>1, <1>2 DEF Lowered
  <2>2. b = [k \in 1 .. Len(s) |-> Lower(t[k])] BY <1>1, <1>3, <1>7 DEF Lowered
  <2> QED BY <1>7, <2>1, <2>2
<1> QED BY <1>2, <1>3, <1>6, <1>7

\* What After returns.
LEMMA AfterIs ==
  ASSUME NEW S, NEW s \in Seq(S), NEW n \in 0 .. Len(s)
  PROVE  Part(After(s, n), S, s, n, Len(s) - n)
<1>1. Len(s) \in Nat BY LenProperties
<1>2. PICK i \in 1 .. Len(s) + 1 : i = n + 1 BY <1>1
<1>3. After(s, n) = SubSeq(s, i, Len(s)) BY <1>2 DEF After
<1>4. Part(SubSeq(s, i, Len(s)), S, s, i - 1, Len(s) + 1 - i) BY <1>1, <1>2, PartIs
<1>5. Len(s) + 1 - i = Len(s) - n /\ i - 1 = n BY <1>1, <1>2
<1> QED BY <1>3, <1>4, <1>5

\* A token goes on from i up to the first space, or to the end.
EndsAt(text, i, j) ==
  /\ j \in i .. Len(text) + 1 /\ (j <= Len(text) => text[j] = Space)
  /\ \A k \in i .. (j - 1) : text[k] # Space

\* A token ends somewhere, and is what comes before.
LEMMA TokenEnds ==
  ASSUME NEW S, NEW s \in Seq(S), NEW i \in 1 .. Len(s) + 1
  PROVE  /\ \E j \in i .. Len(s) + 1 : EndsAt(s, i, j)
         /\ \A j \in i .. Len(s) + 1 : EndsAt(s, i, j) => Token(s, i) = SubSeq(s, i, j - 1)
<1>1. Len(s) \in Nat BY LenProperties
<1>2. PICK P : P = Stops(s, i) OBVIOUS
<1>3. P \in SUBSET (1 .. Len(s) + 1) /\ Len(s) + 1 \in P BY <1>1, <1>2 DEF Stops
<1>4. Len(s) + 1 \in Nat BY <1>1
<1>5. /\ Nth(P, 1) \in P /\ \A j \in P : Nth(P, 1) <= j
      /\ \A l \in P : (\A j \in P : l <= j) => l = Nth(P, 1)
  <2>1. P # {} BY <1>3
  <2> QED BY <1>3, <1>4, <2>1, FirstIsLeast
<1>6. PICK e \in P : e = Nth(P, 1) BY <1>5
<1>7. e \in i .. Len(s) + 1 /\ (e <= Len(s) => s[e] = Space) BY <1>2 DEF Stops
<1>8. \A k \in i .. (e - 1) : s[k] # Space
  <2> SUFFICES ASSUME NEW k \in i .. (e - 1), s[k] = Space PROVE FALSE OBVIOUS
  <2>1. k \in P BY <1>1, <1>2, <1>7 DEF Stops
  <2>2. e <= k BY <1>5, <1>6, <2>1
  <2> QED BY <1>1, <1>7, <2>2
<1>9. EndsAt(s, i, e) BY <1>7, <1>8 DEF EndsAt
<1>10. ASSUME NEW j \in i .. Len(s) + 1, EndsAt(s, i, j) PROVE j = e
  <2>1. (j <= Len(s) => s[j] = Space) /\ \A k \in i .. (j - 1) : s[k] # Space
    BY <1>10 DEF EndsAt
  <2>2. ~(j < e)
    <3> SUFFICES ASSUME j < e PROVE FALSE OBVIOUS
    <3>1. j \in i .. (e - 1) /\ j <= Len(s) BY <1>1, <1>7
    <3> QED BY <1>8, <2>1, <3>1
  <2>3. ~(e < j)
    <3> SUFFICES ASSUME e < j PROVE FALSE OBVIOUS
    <3>1. e \in i .. (j - 1) /\ e <= Len(s) BY <1>1, <1>7
    <3> QED BY <1>7, <2>1, <3>1
  <2>4. j \in Nat /\ e \in Nat BY <1>1, <1>7
  <2> QED BY <2>2, <2>3, <2>4
<1>11. Token(s, i) = SubSeq(s, i, e - 1) BY <1>2, <1>6 DEF Token
<1> QED BY <1>7, <1>9, <1>10, <1>11

\* What a token is made of.
LEMMA TokenIs ==
  ASSUME NEW S, NEW s \in Seq(S), NEW i \in 1 .. Len(s) + 1, NEW j \in i .. Len(s) + 1,
         EndsAt(s, i, j)
  PROVE  Part(Token(s, i), S, s, i - 1, j - i)
<1>1. Len(s) \in Nat BY LenProperties
<1>2. Token(s, i) = SubSeq(s, i, j - 1) BY TokenEnds
<1>3. PICK m \in Nat : m = j - 1 BY <1>1
<1>4. i <= m + 1 /\ m <= Len(s) /\ m + 1 - i = j - i BY <1>1, <1>3
<1>5. Part(SubSeq(s, i, m), S, s, i - 1, m + 1 - i) BY <1>1, <1>4, PartIs
<1> QED BY <1>2, <1>3, <1>4, <1>5

\* A token of what follows is one of the whole.
LEMMA TokenMoves ==
  ASSUME NEW S, NEW s \in Seq(S), NEW n \in 0 .. Len(s), NEW r, r = After(s, n),
         NEW i \in 1 .. Len(r) + 1
  PROVE  Token(s, i + n) = Token(r, i)
<1>1. Len(s) \in Nat BY LenProperties
<1>2. /\ r \in Seq(S) /\ Len(r) = Len(s) - n
      /\ \A k \in 1 .. (Len(s) - n) : r[k] = s[k + n]
  BY AfterIs DEF Part
<1>3. PICK j \in i .. Len(r) + 1 : EndsAt(r, i, j) BY <1>2, TokenEnds
<1>4. (j <= Len(r) => r[j] = Space) /\ \A k \in i .. (j - 1) : r[k] # Space BY <1>3 DEF EndsAt
<1>5. PICK i2 \in 1 .. Len(s) + 1 : i2 = i + n BY <1>1, <1>2
<1>6. PICK j2 \in i2 .. Len(s) + 1 : j2 = j + n BY <1>1, <1>2, <1>5
<1>7. j2 <= Len(s) => s[j2] = Space
  <2> SUFFICES ASSUME j2 <= Len(s) PROVE s[j2] = Space OBVIOUS
  <2>1. j <= Len(r) /\ j \in 1 .. (Len(s) - n) BY <1>1, <1>2, <1>6
  <2> QED BY <1>2, <1>4, <1>6, <2>1
<1>8. \A k \in i2 .. (j2 - 1) : s[k] # Space
  <2> SUFFICES ASSUME NEW k \in i2 .. (j2 - 1) PROVE s[k] # Space OBVIOUS
  <2>1. PICK l \in i .. (j - 1) : l + n = k /\ l \in 1 .. (Len(s) - n)
    <3>1. k - n \in i .. (j - 1) /\ (k - n) + n = k /\ k - n \in 1 .. (Len(s) - n)
      BY <1>1, <1>2, <1>5, <1>6
    <3> QED BY <3>1
  <2> QED BY <1>2, <1>4, <2>1
<1>9. EndsAt(s, i2, j2) BY <1>7, <1>8 DEF EndsAt
<1>10. PICK a : a = Token(s, i2) OBVIOUS
<1>11. PICK b : b = Token(r, i) OBVIOUS
<1>12. a \in Seq(S) /\ Len(a) = j2 - i2 /\ \A k \in 1 .. (j2 - i2) : a[k] = s[k + (i2 - 1)]
  <2>1. Part(a, S, s, i2 - 1, j2 - i2) BY <1>9, <1>10, TokenIs
  <2> QED BY <2>1 DEF Part
<1>13. b \in Seq(S) /\ Len(b) = j - i /\ \A k \in 1 .. (j - i) : b[k] = r[k + (i - 1)]
  <2>1. Part(b, S, r, i - 1, j - i) BY <1>2, <1>3, <1>11, TokenIs
  <2> QED BY <2>1 DEF Part
<1>14. j2 - i2 = j - i BY <1>1, <1>2, <1>5, <1>6
<1>15. \A k \in 1 .. (j - i) : a[k] = b[k]
  <2> TAKE k \in 1 .. (j - i)
  <2>0. /\ k \in Nat /\ i \in Nat /\ j \in Nat /\ n \in Nat /\ Len(r) \in Nat
        /\ 1 <= i /\ j <= Len(r) + 1 /\ 1 <= k /\ k <= j - i
    BY <1>1, <1>2
  <2>1. k + (i - 1) \in 1 .. (Len(s) - n) /\ (k + (i - 1)) + n = k + (i2 - 1)
    BY <1>1, <1>2, <1>5, <2>0
  <2>2. r[k + (i - 1)] = s[(k + (i - 1)) + n] BY <1>2, <2>1
  <2> QED BY <1>12, <1>13, <1>14, <2>1, <2>2
<1>16. a = b BY <1>12, <1>13, <1>14, <1>15, SeqEqual
<1> QED BY <1>5, <1>10, <1>11, <1>16

\* Where the tokens of a text begin.
LEMMA BeginsAre ==
  ASSUME NEW S, NEW s \in Seq(S)
  PROVE  /\ Len(s) + 1 \in Nat /\ Begins(s) \in SUBSET (1 .. Len(s) + 1)
         /\ 1 \in Begins(s) /\ \A j \in Begins(s) : 1 <= j
         /\ Cardinality(Begins(s)) \in Nat \ {0} /\ Nth(Begins(s), 1) = 1
<1>1. Len(s) \in Nat BY LenProperties
<1>2. PICK P : P = Begins(s) OBVIOUS
<1>3. P \in SUBSET (1 .. Len(s) + 1) /\ 1 \in P BY <1>1, <1>2 DEF Begins
<1>4. \A j \in P : 1 <= j BY <1>1, <1>3
<1>5. Len(s) + 1 \in Nat BY <1>1
<1>6. Cardinality(P) >= 1 /\ Nth(P, 1) = 1
  <2>1. P # {} BY <1>3
  <2> QED BY <1>3, <1>4, <1>5, <2>1, FirstIsLeast
<1>7. Cardinality(P) \in Nat BY <1>3, <1>5, NthIsOrdered
<1> QED BY <1>2, <1>3, <1>4, <1>5, <1>6, <1>7

\* There is a first token, and the n-th is at the n-th beginning.
LEMMA TokensAre ==
  ASSUME NEW S, NEW s \in Seq(S), NEW t, t = Tokens(s)
  PROVE  /\ t \in Seq(Seq(S)) /\ Len(t) = Cardinality(Begins(s))
         /\ DOMAIN t = 1 .. Cardinality(Begins(s)) /\ Len(t) >= 1
         /\ \A n \in 1 .. Cardinality(Begins(s)) : t[n] = Token(s, Nth(Begins(s), n))
         /\ t[1] = Token(s, 1)
<1>1. PICK P : P = Begins(s) OBVIOUS
<1>2. Len(s) \in Nat BY LenProperties
<1>3. /\ Len(s) + 1 \in Nat /\ P \in SUBSET (1 .. Len(s) + 1)
      /\ Cardinality(P) \in Nat \ {0} /\ Nth(P, 1) = 1
  BY <1>1, BeginsAre
<1>4. \A n \in 1 .. Cardinality(P) : Nth(P, n) \in P BY <1>3, NthIsOrdered
<1>5. t = [n \in 1 .. Cardinality(P) |-> Token(s, Nth(P, n))] BY <1>1 DEF Tokens
<1>6. \A n \in 1 .. Cardinality(P) : Token(s, Nth(P, n)) \in Seq(S)
  <2> TAKE n \in 1 .. Cardinality(P)
  <2>1. PICK i \in 1 .. Len(s) + 1 : i = Nth(P, n) BY <1>3, <1>4
  <2>2. PICK j \in i .. Len(s) + 1 : EndsAt(s, i, j) BY TokenEnds
  <2>3. PICK u : u = Token(s, i) OBVIOUS
  <2>4. u \in Seq(S) BY <2>2, <2>3, TokenIs DEF Part
  <2> QED BY <2>1, <2>3, <2>4
<1>7. t \in Seq(Seq(S)) BY <1>3, <1>5, <1>6, IsASeq
<1>8. Len([n \in 1 .. Cardinality(P) |-> Token(s, Nth(P, n))]) = Cardinality(P) BY <1>3
<1>9. DOMAIN t = 1 .. Cardinality(P) BY <1>5
<1>10. 1 \in 1 .. Cardinality(P) /\ Cardinality(P) >= 1 BY <1>3
<1> QED BY <1>1, <1>3, <1>5, <1>7, <1>8, <1>9, <1>10

\* One text begins with another, but for capitals.
LEMMA PrefixIs ==
  ASSUME NEW S, NEW s \in Seq(S), NEW T, NEW w \in Seq(T)
  PROVE  IsPrefix(Lowered(w), Lowered(s))
           <=> (Len(w) <= Len(s) /\ \A k \in 1 .. Len(w) : Lower(w[k]) = Lower(s[k]))
<1>1. Len(s) \in Nat /\ Len(w) \in Nat BY LenProperties
<1>2. PICK A, B : A = {Lower(x) : x \in S} /\ B = {Lower(x) : x \in T} OBVIOUS
<1>3. PICK a \in Seq(A) : a = Lowered(s) /\ Len(a) = Len(s) /\ \A k \in 1 .. Len(s) : a[k] = Lower(s[k])
  BY <1>2, LoweredIs, LoweredIsText
<1>4. PICK b \in Seq(B) : b = Lowered(w) /\ Len(b) = Len(w) /\ \A k \in 1 .. Len(w) : b[k] = Lower(w[k])
  BY <1>2, LoweredIs, LoweredIsText
<1>5. IsPrefix(b, a) <=> Len(b) <= Len(a) /\ SubSeq(b, 1, Len(b)) = SubSeq(a, 1, Len(b)) BY DEF IsPrefix
<1>6. SubSeq(b, 1, Len(b)) = b BY SubSeqFull
<1>7. ASSUME Len(w) <= Len(s)
      PROVE  b = SubSeq(a, 1, Len(b)) <=> \A k \in 1 .. Len(w) : Lower(w[k]) = Lower(s[k])
  <2>1. PICK c : c = SubSeq(a, 1, Len(b)) OBVIOUS
  <2>2. 1 \in 1 .. Len(a) + 1 /\ Len(b) \in Nat /\ 1 <= Len(b) + 1 /\ Len(b) <= Len(a)
    BY <1>1, <1>3, <1>4, <1>7
  <2>3. Part(c, A, a, 1 - 1, Len(b) + 1 - 1) BY <2>1, <2>2, PartIs
  <2>4. Len(b) + 1 - 1 = Len(b) /\ 1 - 1 = 0 BY <2>2
  <2>5. c \in Seq(A) /\ Len(c) = Len(b) /\ DOMAIN c = 1 .. Len(b) /\ \A k \in 1 .. Len(b) : c[k] = a[k]
    <3>1. \A k \in 1 .. Len(b) : k + 0 = k BY <2>2
    <3> QED BY <2>3, <2>4, <3>1 DEF Part
  <2>6. b = [k \in 1 .. Len(b) |-> b[k]] /\ c = [k \in 1 .. Len(b) |-> c[k]]
    <3>1. b \in [1 .. Len(b) -> B] /\ c \in [1 .. Len(c) -> A] BY <2>5, LenProperties
    <3> QED BY <2>5, <3>1
  <2>7. b = c <=> \A k \in 1 .. Len(b) : b[k] = c[k] BY <2>6
  <2>8. \A k \in 1 .. Len(w) : k \in 1 .. Len(s) BY <1>1, <1>7
  <2> QED BY <1>3, <1>4, <2>1, <2>5, <2>7, <2>8
<1> QED BY <1>3, <1>4, <1>5, <1>6, <1>7

\* A text opens with a word if the word is its first token.
OpensWith(text, w) ==
  /\ w # <<>> /\ Space \notin ToSet(w) /\ IsPrefix(Lowered(w), Lowered(text))
  /\ Len(text) > Len(w) => text[Len(w) + 1] = Space

\* A text begins with a word, and a space or nothing after it, if it is its first token.
LEMMA WordIs ==
  ASSUME NEW S, NEW s \in Seq(S), NEW T, NEW w \in Seq(T)
  PROVE  OpensWith(s, w) <=> (Token(s, 1) # <<>> /\ Lowered(w) = Lowered(Token(s, 1)))
<1>1. /\ Len(s) \in Nat /\ Len(w) \in Nat /\ 1 \in 1 .. Len(s) + 1
      /\ DOMAIN w = 1 .. Len(w) /\ DOMAIN s = 1 .. Len(s)
  BY LenProperties
<1>2. PICK e \in 1 .. Len(s) + 1 : EndsAt(s, 1, e) BY <1>1, TokenEnds
<1>3. (e <= Len(s) => s[e] = Space) /\ \A k \in 1 .. (e - 1) : s[k] # Space BY <1>2 DEF EndsAt
<1>4. PICK t : t = Token(s, 1) OBVIOUS
<1>5. PICK m \in Nat : m = e - 1 BY <1>1
<1>6. t \in Seq(S) /\ Len(t) = m /\ \A k \in 1 .. m : t[k] = s[k]
  <2>1. Part(t, S, s, 1 - 1, e - 1) BY <1>1, <1>2, <1>4, TokenIs
  <2>2. \A k \in 1 .. m : k + (1 - 1) = k BY <1>5
  <2> QED BY <1>5, <2>1, <2>2 DEF Part
<1>7. t # <<>> <=> m # 0
  <2>1. t = <<>> <=> Len(t) = 0 BY <1>6, EmptySeq
  <2> QED BY <1>6, <2>1
<1>8. w # <<>> <=> Len(w) # 0 BY EmptySeq
<1>9. ToSet(w) = {w[k] : k \in 1 .. Len(w)} BY <1>1 DEF ToSet
<1>10. Lowered(w) = Lowered(t) <=> Len(w) = m /\ \A k \in 1 .. Len(w) : Lower(w[k]) = Lower(t[k])
  BY <1>6, SameLowered
<1>11. IsPrefix(Lowered(w), Lowered(s))
         <=> (Len(w) <= Len(s) /\ \A k \in 1 .. Len(w) : Lower(w[k]) = Lower(s[k]))
  BY PrefixIs
<1>12. ASSUME OpensWith(s, w) PROVE t # <<>> /\ Lowered(w) = Lowered(t)
  <2>1. /\ Len(w) # 0 /\ \A k \in 1 .. Len(w) : w[k] # Space /\ Lower(w[k]) = Lower(s[k])
        /\ Len(w) <= Len(s) /\ (Len(s) > Len(w) => s[Len(w) + 1] = Space)
    BY <1>8, <1>9, <1>11, <1>12 DEF OpensWith
  <2>2. \A k \in 1 .. Len(w) : s[k] # Space BY <2>1, LowerKeepsSpace
  <2>3. ~(e <= Len(w))
    <3> SUFFICES ASSUME e <= Len(w) PROVE FALSE OBVIOUS
    <3>1. e \in 1 .. Len(w) /\ e <= Len(s) BY <1>1, <2>1
    <3> QED BY <1>3, <2>2, <3>1
  <2>4. ~(Len(w) + 1 < e)
    <3> SUFFICES ASSUME Len(w) + 1 < e PROVE FALSE OBVIOUS
    <3>1. Len(w) + 1 \in 1 .. (e - 1) /\ Len(s) > Len(w) BY <1>1
    <3> QED BY <1>3, <2>1, <3>1
  <2>5. Len(w) = m BY <1>1, <1>5, <2>3, <2>4
  <2> QED BY <1>6, <1>7, <1>10, <2>1, <2>5
<1>13. ASSUME t # <<>>, Lowered(w) = Lowered(t) PROVE OpensWith(s, w)
  <2>1. m # 0 /\ Len(w) = m /\ \A k \in 1 .. Len(w) : Lower(w[k]) = Lower(s[k])
    BY <1>6, <1>7, <1>10, <1>13
  <2>2. Len(w) <= Len(s) BY <1>1, <1>5, <2>1
  <2>3. \A k \in 1 .. Len(w) : k \in 1 .. (e - 1) BY <1>5, <2>1
  <2>4. \A k \in 1 .. Len(w) : w[k] # Space BY <1>3, <2>1, <2>3, LowerKeepsSpace
  <2>5. Len(s) > Len(w) => s[Len(w) + 1] = Space
    <3> SUFFICES ASSUME Len(s) > Len(w) PROVE s[Len(w) + 1] = Space OBVIOUS
    <3>1. Len(w) + 1 = e /\ e <= Len(s) BY <1>1, <1>5, <2>1
    <3> QED BY <1>3, <3>1
  <2> QED BY <1>8, <1>9, <1>11, <2>1, <2>2, <2>4, <2>5 DEF OpensWith
<1> QED BY <1>4, <1>12, <1>13

\* A text opens with one of some words if its first token is one of them.
LEMMA OpensIs ==
  ASSUME NEW S, NEW s \in Seq(S), NEW ws, \A w \in ToSet(ws) : IsText(w)
  PROVE  Opens(s, ws)
           <=> (Token(s, 1) # <<>> /\ Lowered(Token(s, 1)) \in {Lowered(w) : w \in ToSet(ws)})
<1>1. Opens(s, ws) <=> \E w \in ToSet(ws) : OpensWith(s, w) BY DEF Opens, OpensWith
<1>2. \A w \in ToSet(ws) : OpensWith(s, w) <=> (Token(s, 1) # <<>> /\ Lowered(w) = Lowered(Token(s, 1)))
  <2> TAKE w \in ToSet(ws)
  <2>1. w \in Seq(ToSet(w)) BY DEF IsText
  <2> QED BY <2>1, WordIs
<1> QED BY <1>1, <1>2

\* A token is empty only where a space or the end is.
LEMMA TokenIsSome ==
  ASSUME NEW S, NEW s \in Seq(S), NEW i \in 1 .. Len(s) + 1
  PROVE  Token(s, i) # <<>> <=> i <= Len(s) /\ s[i] # Space
<1>1. Len(s) \in Nat BY LenProperties
<1>2. PICK e \in i .. Len(s) + 1 : EndsAt(s, i, e) BY TokenEnds
<1>3. (e <= Len(s) => s[e] = Space) /\ \A k \in i .. (e - 1) : s[k] # Space BY <1>2 DEF EndsAt
<1>4. PICK t : t = Token(s, i) OBVIOUS
<1>5. t \in Seq(S) /\ Len(t) = e - i BY <1>2, <1>4, TokenIs DEF Part
<1>6. t = <<>> <=> Len(t) = 0 BY <1>5, EmptySeq
<1>7. t = <<>> <=> e = i BY <1>1, <1>5, <1>6
<1>8. e # i => i \in i .. (e - 1) /\ i <= Len(s) BY <1>1
<1> QED BY <1>3, <1>4, <1>7, <1>8

\* From the m-th symbol to the b-th there are only spaces.
Gap(s, m, b) == \E n \in m + 1 .. Len(s) : b = n + 1 /\ \A i \in m + 1 .. n : s[i] = Space

\* After a first word the second token begins where the spaces end.
LEMMA SecondBegins ==
  ASSUME NEW S, NEW s \in Seq(S), NEW m \in 1 .. Len(s), \A k \in 1 .. m : s[k] # Space,
         NEW P, P = Begins(s)
  PROVE  /\ \A n \in m + 1 .. Len(s) :
              ((\A i \in m + 1 .. n : s[i] = Space) /\ n < Len(s) /\ s[n + 1] # Space)
                => Cardinality(P) >= 2 /\ Nth(P, 2) = n + 1
         /\ (Cardinality(P) >= 2 /\ m < Len(s) /\ s[m + 1] = Space /\ Nth(P, 2) <= Len(s))
              => Gap(s, m, Nth(P, 2))
<1>1. Len(s) \in Nat /\ m \in Nat /\ 1 <= m /\ m <= Len(s) BY LenProperties
<1>2. /\ Len(s) + 1 \in Nat /\ P \in SUBSET (1 .. Len(s) + 1)
      /\ 1 \in P /\ \A j \in P : 1 <= j
  BY BeginsAre
<1>3. \A i \in 1 .. Len(s) + 1 :
        i \in P <=> (i > 1 => s[i - 1] = Space /\ (i <= Len(s) => s[i] # Space))
  BY DEF Begins
<1>4. /\ Cardinality(P) >= 2 =>
           Nth(P, 2) \in P /\ 1 < Nth(P, 2) /\ \A j \in P : j = 1 \/ Nth(P, 2) <= j
      /\ \A l \in P : (l # 1 /\ \A j \in P : j = 1 \/ l <= j)
           => Cardinality(P) >= 2 /\ l = Nth(P, 2)
  <2>1. PICK e \in Nat, f \in P : e = Len(s) + 1 /\ f = 1 BY <1>2
  <2>2. P \in SUBSET (1 .. e) /\ \A j \in P : f <= j BY <1>2, <2>1
  <2>3. Second(P, f) BY <2>2, SecondIsNext
  <2> QED BY <2>1, <2>3 DEF Second
<1>5. ASSUME NEW n \in m + 1 .. Len(s), \A i \in m + 1 .. n : s[i] = Space,
             n < Len(s), s[n + 1] # Space
      PROVE  Cardinality(P) >= 2 /\ Nth(P, 2) = n + 1
  <2>1. PICK l \in 1 .. Len(s) + 1 : l = n + 1 BY <1>1
  <2>2. l > 1 /\ l - 1 = n /\ n \in m + 1 .. n BY <1>1, <2>1
  <2>3. l \in P BY <1>3, <1>5, <2>1, <2>2
  <2>4. ASSUME NEW j \in P, j # 1 PROVE l <= j
    <3> SUFFICES ASSUME j < l PROVE FALSE BY <1>1, <1>2, <2>1
    <3>1. j \in Nat /\ j > 1 /\ j <= n BY <1>1, <1>2, <2>1, <2>4
    <3>2. s[j - 1] = Space /\ (j <= Len(s) => s[j] # Space) BY <1>2, <1>3, <3>1
    <3>3. j <= Len(s) BY <1>1, <3>1
    <3>4. CASE j <= m + 1
      <4>1. j - 1 \in 1 .. m BY <1>1, <3>1, <3>4
      <4> QED BY <3>2, <4>1
    <3>5. CASE j > m + 1
      <4>1. j \in m + 1 .. n BY <1>1, <3>1, <3>5
      <4> QED BY <1>5, <3>2, <3>3, <4>1
    <3> QED BY <1>1, <3>1, <3>4, <3>5
  <2>5. l # 1 BY <2>2
  <2> QED BY <1>4, <2>1, <2>3, <2>4, <2>5
<1>6. ASSUME Cardinality(P) >= 2, m < Len(s), s[m + 1] = Space, Nth(P, 2) <= Len(s)
      PROVE  Gap(s, m, Nth(P, 2))
  <2>1. PICK b \in P : b = Nth(P, 2) /\ 1 < b /\ \A j \in P : j = 1 \/ b <= j BY <1>4, <1>6
  <2>2. b \in Nat /\ b <= Len(s) BY <1>1, <1>2, <1>6, <2>1
  <2>3. s[b - 1] = Space BY <1>2, <1>3, <2>1
  <2>4. ~(b - 1 <= m)
    <3> SUFFICES ASSUME b - 1 <= m PROVE FALSE OBVIOUS
    <3>1. b - 1 \in 1 .. m BY <1>1, <2>1, <2>2
    <3> QED BY <2>3, <3>1
  <2>5. PICK n \in m + 1 .. Len(s) : n = b - 1 BY <1>1, <2>2, <2>4
  <2>6. ASSUME NEW i \in m + 1 .. n, s[i] # Space PROVE FALSE
    <3>1. PICK Q : Q = {j \in m + 1 .. n : s[j] # Space} OBVIOUS
    <3>2. Q \in SUBSET (1 .. Len(s)) /\ Q # {} BY <1>1, <2>5, <2>6, <3>1
    <3>3. PICK f \in Q : \A j \in Q : f <= j BY <1>1, <3>2, FirstIsLeast
    <3>4. f \in Nat /\ m + 1 <= f /\ f <= n /\ s[f] # Space BY <1>1, <2>5, <3>1
    <3>5. f # m + 1 BY <1>6, <3>4
    <3>6. f - 1 \in m + 1 .. n /\ ~(f <= f - 1) BY <1>1, <3>4, <3>5
    <3>7. s[f - 1] = Space BY <3>1, <3>3, <3>6
    <3>8. f \in 1 .. Len(s) + 1 /\ f > 1 /\ f < b BY <1>1, <2>2, <2>5, <3>4
    <3>9. f \in P BY <1>3, <3>4, <3>7, <3>8
    <3> QED BY <2>1, <2>2, <3>4, <3>8, <3>9
  <2>7. b = n + 1 BY <2>2, <2>5
  <2>8. \E l \in m + 1 .. Len(s) : b = l + 1 /\ \A i \in m + 1 .. l : s[i] = Space BY <2>6, <2>7
  <2> QED BY <2>1, <2>8 DEF Gap
<1> QED BY <1>5, <1>6

\* A text opens with a word and one of some others if those are its first two tokens.
LEMMA OpensTwiceIs ==
  ASSUME NEW S, NEW s \in Seq(S), NEW p, IsText(p), NEW ws, \A w \in ToSet(ws) : IsText(w),
         NEW t, t = Tokens(s)
  PROVE  OpensTwice(s, p, ws)
           <=> (/\ t[1] # <<>> /\ Lowered(t[1]) = Lowered(p) /\ Len(t) >= 2 /\ t[2] # <<>>
                /\ Lowered(t[2]) \in {Lowered(w) : w \in ToSet(ws)})
<1>1. PICK P : P = Begins(s) OBVIOUS
<1>2. /\ Len(t) = Cardinality(P) /\ t[1] = Token(s, 1) /\ Cardinality(P) \in Nat \ {0}
      /\ \A n \in 1 .. Cardinality(P) : t[n] = Token(s, Nth(P, n))
      /\ Len(s) \in Nat /\ P \in SUBSET (1 .. Len(s) + 1) /\ Len(s) + 1 \in Nat
  <2>1. /\ Len(t) = Cardinality(P) /\ t[1] = Token(s, 1)
        /\ \A n \in 1 .. Cardinality(P) : t[n] = Token(s, Nth(P, n))
    BY <1>1, TokensAre
  <2>2. Cardinality(P) \in Nat \ {0} /\ P \in SUBSET (1 .. Len(s) + 1) BY <1>1, BeginsAre
  <2> QED BY <2>1, <2>2, LenProperties
<1>3. p \in Seq(ToSet(p)) BY DEF IsText
<1>4. Len(p) \in Nat BY <1>3, LenProperties
<1>5. Opens(s, <<p>>) <=> OpensWith(s, p)
  <2>1. ToSet(<<p>>) = {p} BY DEF ToSet
  <2> QED BY <2>1 DEF Opens, OpensWith
<1>6. OpensWith(s, p) <=> t[1] # <<>> /\ Lowered(t[1]) = Lowered(p) BY <1>2, <1>3, WordIs
<1>7. ASSUME OpensWith(s, p)
      PROVE  /\ Len(p) \in 1 .. Len(s) /\ \A k \in 1 .. Len(p) : s[k] # Space
             /\ Len(p) < Len(s) => s[Len(p) + 1] = Space
  <2>1. /\ p # <<>> /\ Space \notin ToSet(p) /\ Len(p) <= Len(s)
        /\ \A k \in 1 .. Len(p) : Lower(p[k]) = Lower(s[k])
        /\ Len(s) > Len(p) => s[Len(p) + 1] = Space
    BY <1>3, <1>7, PrefixIs DEF OpensWith
  <2>2. Len(p) # 0 BY <1>3, <2>1, EmptySeq
  <2>3. \A k \in 1 .. Len(p) : p[k] # Space
    <3>1. DOMAIN p = 1 .. Len(p) BY <1>3, LenProperties
    <3> QED BY <2>1, <3>1 DEF ToSet
  <2> QED BY <1>2, <1>4, <2>1, <2>2, <2>3, LowerKeepsSpace
<1>8. ASSUME NEW n \in 0 .. Len(s)
      PROVE  Opens(After(s, n), ws)
               <=> (/\ Token(s, n + 1) # <<>>
                    /\ Lowered(Token(s, n + 1)) \in {Lowered(w) : w \in ToSet(ws)})
  <2>1. PICK r : r = After(s, n) OBVIOUS
  <2>2. r \in Seq(S) /\ Len(r) = Len(s) - n BY <2>1, AfterIs DEF Part
  <2>3. 1 \in 1 .. Len(r) + 1 BY <1>2, <2>2
  <2>4. Token(s, 1 + n) = Token(r, 1) BY <2>1, <2>3, TokenMoves
  <2>5. 1 + n = n + 1 BY <1>2
  <2>6. Opens(r, ws) <=> (Token(r, 1) # <<>> /\ Lowered(Token(r, 1)) \in {Lowered(w) : w \in ToSet(ws)})
    BY <2>2, OpensIs
  <2> QED BY <2>1, <2>4, <2>5, <2>6
<1>9. ASSUME OpensTwice(s, p, ws)
      PROVE  /\ t[1] # <<>> /\ Lowered(t[1]) = Lowered(p) /\ Len(t) >= 2 /\ t[2] # <<>>
             /\ Lowered(t[2]) \in {Lowered(w) : w \in ToSet(ws)}
  <2>1. OpensWith(s, p) BY <1>5, <1>9 DEF OpensTwice
  <2>2. PICK n \in Len(p) + 1 .. Len(s) :
          (\A i \in Len(p) + 1 .. n : s[i] = Space) /\ Opens(After(s, n), ws)
    BY <1>9 DEF OpensTwice
  <2>3. n \in 0 .. Len(s) /\ n + 1 \in 1 .. Len(s) + 1 BY <1>2, <1>4
  <2>4. /\ Token(s, n + 1) # <<>>
        /\ Lowered(Token(s, n + 1)) \in {Lowered(w) : w \in ToSet(ws)}
    BY <1>8, <2>2, <2>3
  <2>5. n + 1 <= Len(s) /\ s[n + 1] # Space BY <2>3, <2>4, TokenIsSome
  <2>6. n < Len(s) BY <1>2, <2>3, <2>5
  <2>7. Cardinality(P) >= 2 /\ Nth(P, 2) = n + 1 BY <1>1, <1>7, <2>1, <2>2, <2>5, <2>6, SecondBegins
  <2>8. 2 \in 1 .. Cardinality(P) BY <1>2, <2>7
  <2> QED BY <1>2, <1>6, <2>1, <2>4, <2>7, <2>8
<1>10. ASSUME t[1] # <<>>, Lowered(t[1]) = Lowered(p), Len(t) >= 2, t[2] # <<>>,
              Lowered(t[2]) \in {Lowered(w) : w \in ToSet(ws)}
       PROVE  OpensTwice(s, p, ws)
  <2>1. OpensWith(s, p) BY <1>6, <1>10
  <2>2. 2 \in 1 .. Cardinality(P) /\ Cardinality(P) >= 2 BY <1>2, <1>10
  <2>3. PICK b \in 1 .. Len(s) + 1 : b = Nth(P, 2) BY <1>2, <2>2, NthIsOrdered
  <2>4. t[2] = Token(s, b) BY <1>2, <2>2, <2>3
  <2>5. b <= Len(s) BY <1>10, <2>4, TokenIsSome
  <2>6. b > 1
    <3>1. Nth(P, 1) = 1 BY <1>1, BeginsAre
    <3>2. 1 \in 1 .. Cardinality(P) /\ 1 < 2 BY <1>2, <2>2
    <3>3. Nth(P, 1) < Nth(P, 2) BY <1>2, <2>2, <3>2, NthIsOrdered
    <3> QED BY <1>2, <2>3, <3>1, <3>3
  <2>7. Len(p) < Len(s) /\ s[Len(p) + 1] = Space
    <3>1. b \in P BY <1>2, <2>2, <2>3, NthIsOrdered
    <3>2. s[b - 1] = Space BY <1>1, <2>6, <3>1 DEF Begins
    <3>3. ~(b - 1 <= Len(p))
      <4> SUFFICES ASSUME b - 1 <= Len(p) PROVE FALSE OBVIOUS
      <4>1. b - 1 \in 1 .. Len(p) BY <1>2, <1>4, <2>6
      <4> QED BY <1>7, <2>1, <3>2, <4>1
    <3>4. Len(p) < Len(s) BY <1>2, <1>4, <2>5, <2>6, <3>3
    <3> QED BY <1>7, <2>1, <3>4
  <2>8. PICK n \in Len(p) + 1 .. Len(s) : b = n + 1 /\ \A i \in Len(p) + 1 .. n : s[i] = Space
    <3>1. PICK m \in 1 .. Len(s) : m = Len(p) /\ \A k \in 1 .. m : s[k] # Space BY <1>7, <2>1
    <3>2. Cardinality(P) >= 2 /\ m < Len(s) /\ s[m + 1] = Space /\ Nth(P, 2) <= Len(s)
      BY <2>2, <2>3, <2>5, <2>7, <3>1
    <3>3. Gap(s, m, Nth(P, 2)) BY <1>1, <3>1, <3>2, SecondBegins
    <3> QED BY <2>3, <3>1, <3>3 DEF Gap
  <2>9. n \in 0 .. Len(s) BY <1>2, <1>4
  <2>10. Opens(After(s, n), ws) BY <1>8, <1>10, <2>4, <2>8, <2>9
  <2> QED BY <1>5, <2>1, <2>8, <2>10 DEF OpensTwice
<1> QED BY <1>9, <1>10

\* Places moved without changing their order are counted as before.
Moves(f, Q, P) ==
  /\ f \in [Q -> P] /\ \A i, j \in Q : i < j => f[i] < f[j]
  /\ \A l \in P : \E i \in Q : f[i] = l

Follows(f, Q, P) ==
  Cardinality(P) = Cardinality(Q) /\ \A k \in 1 .. Cardinality(Q) : Nth(P, k) = f[Nth(Q, k)]

\* What moves places in their order takes the n-th to the n-th.
LEMMA NthMoves ==
  ASSUME NEW n \in Nat, NEW P \in SUBSET (1 .. n), NEW m \in Nat, NEW Q \in SUBSET (1 .. m),
         NEW f, Moves(f, Q, P)
  PROVE  Follows(f, Q, P)
<1>1. /\ f \in [Q -> P] /\ \A i, j \in Q : i < j => f[i] < f[j]
      /\ \A l \in P : \E i \in Q : f[i] = l
  BY DEF Moves
<1>0. \A i \in Q : i \in Nat /\ f[i] \in Nat
  <2> TAKE i \in Q
  <2>1. f[i] \in P BY <1>1
  <2>2. \A l \in P : l \in Nat OBVIOUS
  <2>3. i \in Nat OBVIOUS
  <2> QED BY <2>1, <2>2, <2>3
<1>2. \A i, j \in Q : f[i] <= f[j] <=> i <= j
  <2> TAKE i, j \in Q
  <2>1. i \in Nat /\ j \in Nat /\ f[i] \in Nat /\ f[j] \in Nat BY <1>0
  <2>2. i < j \/ i = j \/ j < i BY <2>1
  <2> QED BY <1>1, <2>1, <2>2
<1>3. \A i, j \in Q : f[i] = f[j] => i = j
  <2> TAKE i, j \in Q
  <2>1. i \in Nat /\ j \in Nat /\ f[i] \in Nat /\ f[j] \in Nat BY <1>0
  <2>2. i < j \/ i = j \/ j < i BY <2>1
  <2> QED BY <1>1, <2>1, <2>2
<1>4. IsFiniteSet(Q) BY NthIsOrdered
<1>5. Cardinality(P) = Cardinality(Q)
  <2>1. f \in Bijection(Q, P) BY <1>1, <1>3 DEF Bijection, Injection, Surjection, IsInjective
  <2> QED BY <1>4, <2>1, FS_Bijection DEF ExistsBijection
<1>6. ASSUME NEW i \in Q PROVE Rank(P, f[i]) = Rank(Q, i)
  <2>1. PICK A, B : A = {j \in Q : j <= i} /\ B = {l \in P : l <= f[i]} OBVIOUS
  <2> DEFINE g == [j \in A |-> f[j]]
  <2>2. \A j \in A : j \in Q /\ f[j] \in B BY <1>1, <1>2, <1>6, <2>1
  <2>3. \A l \in B : \E j \in A : f[j] = l
    <3> TAKE l \in B
    <3>1. PICK j \in Q : f[j] = l BY <1>1, <2>1
    <3>2. f[j] <= f[i] BY <2>1, <3>1
    <3> QED BY <1>2, <1>6, <2>1, <3>1, <3>2
  <2>4. g \in [A -> B] /\ (\A j, l \in A : g[j] = g[l] => j = l) /\ \A l \in B : \E j \in A : g[j] = l
    BY <1>3, <2>2, <2>3
  <2>5. g \in Bijection(A, B) BY <2>4 DEF Bijection, Injection, Surjection, IsInjective
  <2>6. IsFiniteSet(A)
    <3>1. A \in SUBSET Q BY <2>1
    <3> QED BY <1>4, <3>1, FS_Subset
  <2>7. Cardinality(A) = Cardinality(B) BY <2>5, <2>6, FS_Bijection DEF ExistsBijection
  <2> QED BY <2>1, <2>7 DEF Rank
<1>7. ASSUME NEW k \in 1 .. Cardinality(Q) PROVE Nth(P, k) = f[Nth(Q, k)]
  <2>1. PICK i \in Q : i = Nth(Q, k) /\ Rank(Q, i) = k BY NthIsOrdered
  <2>2. f[i] \in P /\ Rank(P, f[i]) = k BY <1>1, <1>6, <2>1
  <2>3. Nth(P, Rank(P, f[i])) = f[i] BY <2>2, NthIsOrdered
  <2> QED BY <2>1, <2>2, <2>3
<1> QED BY <1>5, <1>7 DEF Follows

\* Past the first token, what follows a prefix without spaces has the tokens of the whole.
LEMMA TailsAgree ==
  ASSUME NEW S, NEW s \in Seq(S), NEW n \in 0 .. Len(s), \A k \in 1 .. n : s[k] # Space,
         NEW m \in Nat, m >= 1
  PROVE  After(Tokens(s), m) = After(Tokens(After(s, n)), m)
<1>1. PICK r : r = After(s, n) OBVIOUS
<1>2. /\ r \in Seq(S) /\ Len(r) = Len(s) - n
      /\ \A k \in 1 .. (Len(s) - n) : r[k] = s[k + n]
  BY <1>1, AfterIs DEF Part
<1>3. PICK P, Q : P = Begins(s) /\ Q = Begins(r) OBVIOUS
<1>4. /\ Len(s) \in Nat /\ Len(s) + 1 \in Nat /\ P \in SUBSET (1 .. Len(s) + 1) /\ 1 \in P
      /\ Cardinality(P) \in Nat \ {0}
  BY <1>3, BeginsAre, LenProperties
<1>5. /\ Len(r) \in Nat /\ Len(r) + 1 \in Nat /\ Q \in SUBSET (1 .. Len(r) + 1) /\ 1 \in Q
      /\ Nth(Q, 1) = 1 /\ Cardinality(Q) \in Nat \ {0}
  BY <1>2, <1>3, BeginsAre, LenProperties
<1>6. \A i \in 1 .. Len(s) + 1 :
        i \in P <=> (i > 1 => s[i - 1] = Space /\ (i <= Len(s) => s[i] # Space))
  BY <1>3 DEF Begins
<1>7. \A i \in 1 .. Len(r) + 1 :
        i \in Q <=> (i > 1 => r[i - 1] = Space /\ (i <= Len(r) => r[i] # Space))
  BY <1>3 DEF Begins
<1>8. ASSUME NEW i \in 2 .. Len(r) + 1 PROVE i \in Q <=> i + n \in P
  <2>1. i + n \in 1 .. Len(s) + 1 /\ i + n > 1 /\ i > 1 /\ i \in 1 .. Len(r) + 1 BY <1>2, <1>4
  <2>2. r[i - 1] = s[(i + n) - 1]
    <3>1. i - 1 \in 1 .. (Len(s) - n) /\ (i - 1) + n = (i + n) - 1 BY <1>2, <1>4
    <3> QED BY <1>2, <3>1
  <2>3. i <= Len(r) <=> i + n <= Len(s) BY <1>2, <1>4
  <2>4. i <= Len(r) => r[i] = s[i + n]
    <3>1. i <= Len(r) => i \in 1 .. (Len(s) - n) BY <1>2, <1>4
    <3> QED BY <1>2, <3>1
  <2> QED BY <1>6, <1>7, <2>1, <2>2, <2>3, <2>4
<1>9. ASSUME NEW l \in P, l # 1 PROVE l - n \in 2 .. Len(r) + 1
  <2>1. l \in Nat /\ 1 < l /\ l <= Len(s) + 1 BY <1>4, <1>9
  <2>2. s[l - 1] = Space BY <1>4, <1>6, <2>1
  <2>3. ~(l - 1 <= n)
    <3> SUFFICES ASSUME l - 1 <= n PROVE FALSE OBVIOUS
    <3>1. l - 1 \in 1 .. n BY <1>4, <2>1
    <3> QED BY <2>2, <3>1
  <2> QED BY <1>2, <1>4, <2>1, <2>3
<1> DEFINE f == [i \in Q |-> IF i = 1 THEN 1 ELSE i + n]
<1>10. PICK g : g = f OBVIOUS
<1>18. Moves(g, Q, P)
  <2>1. \A i \in Q : i \in Nat /\ i >= 1 /\ (i # 1 => i \in 2 .. Len(r) + 1) BY <1>4, <1>5
  <2>2. f \in [Q -> P] BY <1>4, <1>8, <2>1
  <2>3. \A i, j \in Q : i < j => f[i] < f[j] BY <1>4, <2>1
  <2>4. ASSUME NEW l \in P PROVE \E i \in Q : f[i] = l
    <3>1. CASE l = 1 BY <1>5, <3>1
    <3>2. CASE l # 1
      <4>1. PICK i \in 2 .. Len(r) + 1 : i = l - n BY <1>9, <3>2
      <4>2. i + n = l /\ i # 1 BY <1>4, <1>5, <4>1
      <4>3. i \in Q BY <1>8, <4>2
      <4> QED BY <4>2, <4>3
    <3> QED BY <3>1, <3>2
  <2> QED BY <1>10, <2>2, <2>3, <2>4 DEF Moves
<1>11. /\ Cardinality(P) = Cardinality(Q)
       /\ \A k \in 1 .. Cardinality(Q) : Nth(P, k) = f[Nth(Q, k)]
  <2>1. /\ Cardinality(P) = Cardinality(Q)
        /\ \A k \in 1 .. Cardinality(Q) : Nth(P, k) = g[Nth(Q, k)]
    <3> HIDE DEF f
    <3>1. Follows(g, Q, P) BY <1>4, <1>5, <1>18, NthMoves
    <3> QED BY <3>1 DEF Follows
  <2> QED BY <1>10, <2>1
<1>12. PICK t, u : t = Tokens(s) /\ u = Tokens(r) OBVIOUS
<1>13. /\ t \in Seq(Seq(S)) /\ Len(t) = Cardinality(P)
       /\ \A k \in 1 .. Cardinality(P) : t[k] = Token(s, Nth(P, k))
  BY <1>3, <1>12, TokensAre
<1>14. /\ u \in Seq(Seq(S)) /\ Len(u) = Cardinality(Q)
       /\ \A k \in 1 .. Cardinality(Q) : u[k] = Token(r, Nth(Q, k))
  BY <1>2, <1>3, <1>12, TokensAre
<1>15. ASSUME NEW k \in 2 .. Cardinality(Q) PROVE t[k] = u[k]
  <2>1. k \in 1 .. Cardinality(Q) /\ 1 \in 1 .. Cardinality(Q) /\ 1 < k BY <1>5
  <2>2. Nth(Q, k) \in Q /\ Nth(Q, 1) < Nth(Q, k) BY <1>5, <2>1, NthIsOrdered
  <2>3. PICK i \in Q : i = Nth(Q, k) BY <2>2
  <2>6. i # 1 /\ i \in 1 .. Len(r) + 1 BY <1>5, <2>2, <2>3
  <2>4. Nth(P, k) = i + n BY <1>11, <2>1, <2>3, <2>6
  <2>5. Token(s, i + n) = Token(r, i) BY <1>1, <2>6, TokenMoves
  <2> QED BY <1>11, <1>13, <1>14, <2>1, <2>3, <2>4, <2>5
<1>16. CASE m <= Len(t)
  <2>1. m \in 0 .. Len(t) /\ m \in 0 .. Len(u) /\ Len(t) \in Nat /\ Len(t) = Len(u)
    BY <1>4, <1>11, <1>13, <1>14, <1>16
  <2>2. PICK a, b : a = After(t, m) /\ b = After(u, m) OBVIOUS
  <2>3. a \in Seq(Seq(S)) /\ Len(a) = Len(t) - m /\ \A k \in 1 .. (Len(t) - m) : a[k] = t[k + m]
    BY <1>13, <2>1, <2>2, AfterIs DEF Part
  <2>4. b \in Seq(Seq(S)) /\ Len(b) = Len(t) - m /\ \A k \in 1 .. (Len(t) - m) : b[k] = u[k + m]
    <3>1. Part(b, Seq(S), u, m, Len(u) - m) BY <1>14, <2>1, <2>2, AfterIs
    <3> QED BY <2>1, <3>1 DEF Part
  <2>5. \A k \in 1 .. (Len(t) - m) : k + m \in 2 .. Cardinality(Q) BY <1>11, <1>13, <2>1
  <2>6. \A k \in 1 .. Len(a) : a[k] = b[k] BY <1>15, <2>3, <2>4, <2>5
  <2>7. PICK T : T = Seq(S) OBVIOUS
  <2>8. a \in Seq(T) /\ b \in Seq(T) /\ Len(a) = Len(b) BY <2>3, <2>4, <2>7
  <2>9. a = b BY <2>6, <2>8, SeqEqual
  <2> QED BY <1>1, <1>12, <2>2, <2>9
<1>17. CASE ~(m <= Len(t))
  <2>1. Len(t) < m + 1 /\ Len(u) < m + 1 /\ Len(t) \in Int /\ Len(u) \in Int /\ m + 1 \in Int
    BY <1>4, <1>5, <1>11, <1>13, <1>14, <1>17
  <2>2. After(t, m) = <<>> /\ After(u, m) = <<>> BY <2>1, SubSeqEmpty DEF After
  <2> QED BY <1>1, <1>12, <2>2
<1> QED BY <1>16, <1>17

-----------------------------------------------------------------------------
(***************************************************************************)
(* The tables of commands                                                  *)
(***************************************************************************)
\* Under which keys a declaration is found; those that are in one table, by prefix, and
\* those of them that have a key in common.
KeysOf(d)   == IF d.kind = "sub" THEN {Lowered(d.parent)} \X Keys(d) ELSE Keys(d)
Subs        == {d \in Declared : d.kind = "sub"}
Group(p)    == {d \in Declared : d.kind # "sub" /\ d.prefix = p}
Customs     == {d.prefix : d \in Declared} \ {None}
Meets(d, e) == d # e /\ KeysOf(d) \cap KeysOf(e) # {}

\* A table of the declarations T, u of which are still undiscovered, l listed and c
\* contested: its entries are under keys of theirs, whoever is listed and not contested
\* has all his, while some are undiscovered no key has gone, and nobody is left in it
\* who is neither.
Good(table, T, u, l, c) ==
  /\ table = [k \in DOMAIN table |-> table[k]]
  /\ \A k \in DOMAIN table : /\ table[k] \in T /\ table[k] \notin u /\ k \in KeysOf(table[k])
                             /\ table[k] \in l \/ table[k] \in c
  /\ \A d \in T : d \in l /\ d \notin c => \A k \in KeysOf(d) : k \in DOMAIN table /\ table[k] = d
  /\ u # {} => \A d \in T : d \notin u => KeysOf(d) \subseteq DOMAIN table

\* Two of T that have been discovered and have a key in common are contested.
Rivals(T, u, c) ==
  \A d, e \in T : (d \notin u /\ e \notin u /\ Meets(d, e)) => d \in c /\ e \in c

\* A declaration's keys are set, after it was discovered or again.
LEMMA SetIsGood ==
  ASSUME NEW table, NEW T, NEW u, NEW l, NEW c, Good(table, T, u, l, c), Rivals(T, u, c),
         NEW d \in T, d \in u \/ u = {}, u # {} => \A e \in T : e \notin u => e \in l,
         NEW t, t = Set(table, KeysOf(d), d), NEW m, m = Losing(table, KeysOf(d), d)
  PROVE  /\ Good(t, T, u \ {d}, l \cup {d}, c \cup m \cup {x \in {d} : m # {}})
         /\ Rivals(T, u \ {d}, c \cup m \cup {x \in {d} : m # {}})
<1>1. /\ \A k \in DOMAIN table : /\ table[k] \in T /\ table[k] \notin u /\ k \in KeysOf(table[k])
                                 /\ table[k] \in l \/ table[k] \in c
      /\ \A e \in T : e \in l /\ e \notin c => \A k \in KeysOf(e) : k \in DOMAIN table /\ table[k] = e
      /\ u # {} => \A e \in T : e \notin u => KeysOf(e) \subseteq DOMAIN table
  BY DEF Good
<1>2. /\ t = [k \in DOMAIN t |-> t[k]] /\ DOMAIN t = KeysOf(d) \cup DOMAIN table
      /\ \A k \in DOMAIN t : t[k] = IF k \in KeysOf(d) THEN d ELSE table[k]
  BY DEF Set
<1>3. m = {table[k] : k \in KeysOf(d) \cap DOMAIN table} \ {d} BY DEF Losing
<1>4. PICK c2 : c2 = c \cup m \cup {x \in {d} : m # {}} OBVIOUS
<1>5. c \subseteq c2 /\ m \subseteq c2 /\ (m # {} => d \in c2) BY <1>4
<1>6. \A k \in DOMAIN t : /\ t[k] \in T /\ t[k] \notin u \ {d} /\ k \in KeysOf(t[k])
                          /\ t[k] \in l \cup {d} \/ t[k] \in c2
  BY <1>1, <1>2, <1>5
<1>7. ASSUME NEW e \in T, e \in l \cup {d}, e \notin c2, NEW k \in KeysOf(e)
      PROVE  k \in DOMAIN t /\ t[k] = e
  <2>1. CASE e = d BY <1>2, <2>1
  <2>2. CASE e # d
    <3>1. k \in DOMAIN table /\ table[k] = e BY <1>1, <1>5, <1>7, <2>2
    <3>2. k \notin KeysOf(d) BY <1>3, <1>5, <1>7, <2>2, <3>1
    <3> QED BY <1>2, <3>1, <3>2
  <2> QED BY <2>1, <2>2
<1>8. u \ {d} # {} => \A e \in T : e \notin u \ {d} => KeysOf(e) \subseteq DOMAIN t
  BY <1>1, <1>2
<1>9. Good(t, T, u \ {d}, l \cup {d}, c2) BY <1>2, <1>6, <1>7, <1>8 DEF Good
<1>10. ASSUME d \in u, NEW e \in T, e \notin u, KeysOf(d) \cap KeysOf(e) # {} PROVE d \in c2 /\ e \in c2
  <2>1. PICK k \in KeysOf(d) : k \in KeysOf(e) BY <1>10
  <2>2. k \in DOMAIN table BY <1>1, <1>10, <2>1
  <2>3. table[k] \in m BY <1>1, <1>3, <1>10, <2>1, <2>2
  <2>4. e \in l BY <1>10
  <2>5. e \in c \/ table[k] = e BY <1>1, <2>1, <2>4
  <2> QED BY <1>5, <2>3, <2>5
<1>11. Rivals(T, u \ {d}, c2)
  <2> SUFFICES ASSUME NEW a \in T, NEW b \in T, a \notin u \ {d}, b \notin u \ {d}, Meets(a, b)
               PROVE  a \in c2 /\ b \in c2
    BY DEF Rivals
  <2>1. CASE a \notin u /\ b \notin u BY <1>5, <2>1 DEF Rivals
  <2>2. CASE a \in u
    <3>1. a = d /\ b # d /\ b \notin u /\ KeysOf(d) \cap KeysOf(b) # {} BY <2>2 DEF Meets
    <3> QED BY <1>10, <2>2, <3>1
  <2>3. CASE b \in u
    <3>1. b = d /\ a # d /\ a \notin u /\ KeysOf(d) \cap KeysOf(a) # {} BY <2>3 DEF Meets
    <3> QED BY <1>10, <2>3, <3>1
  <2> QED BY <2>1, <2>2, <2>3
<1> QED BY <1>4, <1>9, <1>11

\* The other tables do not notice.
LEMMA OthersAreGood ==
  ASSUME NEW table, NEW T, NEW u, NEW l, NEW c, Good(table, T, u, l, c), Rivals(T, u, c),
         NEW d, d \notin T, NEW m, m = l \cup {d} \/ m = l \ {d}, NEW b, c \subseteq b
  PROVE  Good(table, T, u \ {d}, m, b) /\ Rivals(T, u \ {d}, b)
<1>1. /\ table = [k \in DOMAIN table |-> table[k]]
      /\ \A k \in DOMAIN table : /\ table[k] \in T /\ table[k] \notin u /\ k \in KeysOf(table[k])
                                 /\ table[k] \in l \/ table[k] \in c
      /\ \A e \in T : e \in l /\ e \notin c => \A k \in KeysOf(e) : k \in DOMAIN table /\ table[k] = e
      /\ u # {} => \A e \in T : e \notin u => KeysOf(e) \subseteq DOMAIN table
  BY DEF Good
<1>2. \A e \in T : (e \in l <=> e \in m) /\ (e \in u <=> e \in u \ {d}) OBVIOUS
<1>3. \A k \in DOMAIN table : /\ table[k] \in T /\ table[k] \notin u \ {d} /\ k \in KeysOf(table[k])
                              /\ table[k] \in m \/ table[k] \in b
  BY <1>1, <1>2
<1>4. \A e \in T : e \in m /\ e \notin b => \A k \in KeysOf(e) : k \in DOMAIN table /\ table[k] = e
  BY <1>1, <1>2
<1>5. u \ {d} # {} => \A e \in T : e \notin u \ {d} => KeysOf(e) \subseteq DOMAIN table
  BY <1>1, <1>2
<1>6. Good(table, T, u \ {d}, m, b) BY <1>1, <1>3, <1>4, <1>5 DEF Good
<1>7. Rivals(T, u \ {d}, b) BY <1>2 DEF Rivals
<1> QED BY <1>6, <1>7

\* Keys are taken off, once all has been discovered: all of them, asked by the name, or
\* what is left behind is contested.
LEMMA GoneIsGood ==
  ASSUME NEW table, NEW T \in SUBSET Declared, NEW l, NEW c, Good(table, T, {}, l, c),
         Rivals(T, {}, c), \A e \in T : e.kind # "sub",
         NEW key \in DOMAIN table, NEW d, d = table[key], NEW t, t = Gone(table, key)
  PROVE  /\ Good(t, T, {}, l \ {d}, c \cup {x \in {d} : key # Lowered(d.words[1])})
         /\ Rivals(T, {}, c \cup {x \in {d} : key # Lowered(d.words[1])})
<1>1. /\ \A k \in DOMAIN table : /\ table[k] \in T /\ k \in KeysOf(table[k])
                                 /\ table[k] \in l \/ table[k] \in c
      /\ \A e \in T : e \in l /\ e \notin c => \A k \in KeysOf(e) : k \in DOMAIN table /\ table[k] = e
  BY DEF Good
<1>2. PICK out : out = {key} \cup (Keys(d) \ {Lowered(d.words[1])}) OBVIOUS
<1>3. /\ t = [k \in DOMAIN t |-> t[k]] /\ DOMAIN t = DOMAIN table \ out
      /\ \A k \in DOMAIN t : t[k] = table[k]
  BY <1>2 DEF Gone, Without
<1>4. \A e \in T : KeysOf(e) = Keys(e) BY DEF KeysOf
<1>5. d \in T /\ key \in Keys(d) BY <1>1, <1>4
<1>6. out \subseteq Keys(d) BY <1>2, <1>5
<1>7. PICK c2 : c2 = c \cup {x \in {d} : key # Lowered(d.words[1])} OBVIOUS
<1>8. c \subseteq c2 /\ (d \notin c2 => out = Keys(d)) BY <1>2, <1>5, <1>7
<1>9. ASSUME NEW k \in DOMAIN t
      PROVE  t[k] \in T /\ k \in KeysOf(t[k]) /\ (t[k] \in l \ {d} \/ t[k] \in c2)
  <2>1. k \in DOMAIN table /\ k \notin out /\ t[k] = table[k] BY <1>3
  <2>2. ASSUME t[k] = d PROVE t[k] \in c2
    <3>1. k \in KeysOf(d) BY <1>1, <2>1, <2>2
    <3>2. k \in Keys(d) BY <1>4, <1>5, <3>1
    <3> QED BY <1>8, <2>1, <2>2, <3>2
  <2> QED BY <1>1, <1>8, <2>1, <2>2
<1>10. ASSUME NEW e \in T, e \in l \ {d}, e \notin c2, NEW k \in KeysOf(e)
       PROVE  k \in DOMAIN t /\ t[k] = e
  <2>1. k \in DOMAIN table /\ table[k] = e BY <1>1, <1>8, <1>10
  <2>2. k \notin out
    <3> SUFFICES ASSUME k \in out PROVE FALSE OBVIOUS
    <3>1. Meets(e, d) BY <1>4, <1>5, <1>6, <1>10 DEF Meets
    <3> QED BY <1>5, <1>8, <1>10, <3>1 DEF Rivals
  <2> QED BY <1>3, <2>1, <2>2
<1>11. Good(t, T, {}, l \ {d}, c2) BY <1>3, <1>9, <1>10 DEF Good
<1>12. Rivals(T, {}, c2) BY <1>8 DEF Rivals
<1> QED BY <1>7, <1>11, <1>12

\* The tables of the prefixes that commands brought along: one entry for each of them,
\* none of them empty.
AllKeys == UNION {Keys(d) : d \in Declared}
Tables  == UNION {[K -> Declared] : K \in SUBSET AllKeys}
Entries == [prefix : Customs, words : Tables]
Listing(q) ==
  /\ q \in Seq(Entries) /\ \A i \in DOMAIN q : DOMAIN q[i].words # {}
  /\ \A i, j \in DOMAIN q : q[i].prefix = q[j].prefix => i = j

With(q, p)    == {i \in DOMAIN q : q[i].prefix = p}
TableIn(q, p) == IF With(q, p) = {} THEN Nothing ELSE q[CHOOSE i \in With(q, p) : TRUE].words

\* The operators of the tables, of the state there is.
LEMMA TableOfIs == \A p : TableOf(p) = TableIn(prefixed, p) /\ Under(p) = With(prefixed, p)
BY DEF TableOf, TableIn, Under, With

\* A good table is of the type the list of tables has.
LEMMA GoodIsTable ==
  ASSUME NEW table, NEW p, NEW u, NEW l, NEW c, Good(table, Group(p), u, l, c)
  PROVE  table \in Tables
<1>1. /\ table = [k \in DOMAIN table |-> table[k]]
      /\ \A k \in DOMAIN table : table[k] \in Group(p) /\ k \in KeysOf(table[k])
  BY DEF Good
<1>2. \A k \in DOMAIN table : table[k] \in Declared /\ k \in AllKeys
  BY <1>1 DEF Group, AllKeys, KeysOf
<1>3. PICK K \in SUBSET AllKeys : K = DOMAIN table BY <1>2
<1>4. table \in [K -> Declared] BY <1>1, <1>2, <1>3
<1> QED BY <1>3, <1>4 DEF Tables

\* What is listed under a prefix, and what is not.
LEMMA TableInIs ==
  ASSUME NEW q, Listing(q)
  PROVE  /\ \A i \in DOMAIN q : TableIn(q, q[i].prefix) = q[i].words
         /\ \A p : (\A i \in DOMAIN q : q[i].prefix # p) => TableIn(q, p) = Nothing
         /\ \A p, k : k \in DOMAIN TableIn(q, p) => \E i \in DOMAIN q : q[i].prefix = p
         /\ \A i \in DOMAIN q : q[i].prefix \in Customs
<1>1. ASSUME NEW i \in DOMAIN q PROVE TableIn(q, q[i].prefix) = q[i].words
  <2>1. With(q, q[i].prefix) = {i} BY <1>1 DEF With, Listing
  <2> QED BY <2>1 DEF TableIn
<1>2. \A p : (\A i \in DOMAIN q : q[i].prefix # p) => TableIn(q, p) = Nothing BY DEF TableIn, With
<1>3. DOMAIN Nothing = {} BY DEF Nothing
<1>4. ASSUME NEW i \in DOMAIN q PROVE q[i].prefix \in Customs
  <2>1. q[i] \in Entries
    <3>1. q \in Seq(Entries) BY DEF Listing
    <3> QED BY <1>4, <3>1, LenProperties, ElementOfSeq
  <2> QED BY <2>1 DEF Entries
<1> QED BY <1>1, <1>2, <1>3, <1>4

\* A table is put where it was, or at the end.
LEMMA PutIs ==
  ASSUME Listing(prefixed), NEW p \in Customs, NEW table \in Tables, DOMAIN table # {},
         NEW r, r = PutTable(p, table)
  PROVE  /\ Listing(r) /\ TableIn(r, p) = table
         /\ \A o \in Customs : o # p => TableIn(r, o) = TableIn(prefixed, o)
<1>1. PICK q : q = prefixed OBVIOUS
<1>2. /\ q \in Seq(Entries) /\ DOMAIN q = 1 .. Len(q) /\ Len(q) \in Nat
      /\ \A i \in DOMAIN q : q[i] \in Entries
      /\ \A i \in DOMAIN q : DOMAIN q[i].words # {}
      /\ \A i, j \in DOMAIN q : q[i].prefix = q[j].prefix => i = j
  <2>1. q \in Seq(Entries) BY <1>1 DEF Listing
  <2>2. DOMAIN q = 1 .. Len(q) /\ Len(q) \in Nat BY <2>1, LenProperties
  <2> QED BY <1>1, <2>1, <2>2, ElementOfSeq DEF Listing
<1>3. PICK e \in Entries : e.prefix = p /\ e.words = table /\ e = [prefix |-> p, words |-> table]
  BY DEF Entries
<1>4. CASE With(q, p) = {}
  <2>1. r = Append(q, e) BY <1>1, <1>3, <1>4, TableOfIs DEF PutTable
  <2>2. /\ r \in Seq(Entries) /\ Len(r) = Len(q) + 1 /\ \A i \in 1 .. Len(q) : r[i] = q[i]
        /\ r[Len(q) + 1] = e
    BY <1>2, <2>1, AppendProperties
  <2>3. DOMAIN r = 1 .. Len(q) + 1 BY <2>2, LenProperties
  <2>4. \A i \in DOMAIN r : i \in DOMAIN q \/ i = Len(q) + 1 BY <1>2, <2>3
  <2>5. Len(q) + 1 \in DOMAIN r /\ (\A i \in DOMAIN q : i \in DOMAIN r /\ r[i] = q[i])
    BY <1>2, <2>2, <2>3
  <2>6. \A i \in DOMAIN q : q[i].prefix # p BY <1>4 DEF With
  <2>7. \A i \in DOMAIN r : DOMAIN r[i].words # {} BY <1>2, <1>3, <2>2, <2>4, <2>5
  <2>8. \A i, j \in DOMAIN r : r[i].prefix = r[j].prefix => i = j
    BY <1>2, <1>3, <2>2, <2>4, <2>5, <2>6
  <2>9. Listing(r) BY <2>2, <2>7, <2>8 DEF Listing
  <2>10. TableIn(r, p) = table BY <1>3, <2>2, <2>5, <2>9, TableInIs
  <2>11. ASSUME NEW o \in Customs, o # p PROVE TableIn(r, o) = TableIn(q, o)
    <3>1. CASE \E i \in DOMAIN q : q[i].prefix = o
      <4>1. PICK i \in DOMAIN q : q[i].prefix = o BY <3>1
      <4>2. TableIn(r, r[i].prefix) = r[i].words BY <2>5, <2>9, TableInIs
      <4>3. TableIn(q, q[i].prefix) = q[i].words BY <1>1, TableInIs
      <4> QED BY <2>5, <4>1, <4>2, <4>3
    <3>2. CASE \A i \in DOMAIN q : q[i].prefix # o
      <4>1. \A i \in DOMAIN r : r[i].prefix # o BY <1>3, <2>2, <2>4, <2>5, <2>11, <3>2
      <4> QED BY <1>1, <2>9, <3>2, <4>1, TableInIs
    <3> QED BY <3>1, <3>2
  <2> QED BY <1>1, <2>9, <2>10, <2>11
<1>5. CASE With(q, p) # {}
  <2>1. r = [i \in DOMAIN q |-> IF i \in With(q, p) THEN [q[i] EXCEPT !.words = table] ELSE q[i]]
    BY <1>1, <1>5, TableOfIs DEF PutTable
  <2>2. ASSUME NEW i \in DOMAIN q
        PROVE  /\ r[i] \in Entries /\ r[i].prefix = q[i].prefix
               /\ r[i].words = IF q[i].prefix = p THEN table ELSE q[i].words
    <3>1. q[i] \in Entries BY <1>2
    <3>2. i \in With(q, p) <=> q[i].prefix = p BY DEF With
    <3>3. r[i] = IF i \in With(q, p) THEN [q[i] EXCEPT !.words = table] ELSE q[i] BY <2>1
    <3> QED BY <3>1, <3>2, <3>3 DEF Entries
  <2>3. r \in Seq(Entries) /\ DOMAIN r = DOMAIN q
    <3> DEFINE g(i) == IF i \in With(q, p) THEN [q[i] EXCEPT !.words = table] ELSE q[i]
    <3>1. r = [i \in 1 .. Len(q) |-> g(i)] BY <1>2, <2>1
    <3>2. \A i \in 1 .. Len(q) : g(i) \in Entries BY <1>2, <2>1, <2>2
    <3>3. [i \in 1 .. Len(q) |-> g(i)] \in Seq(Entries)
      <4> HIDE DEF g
      <4> QED BY <1>2, <3>2, IsASeq
    <3> QED BY <1>2, <2>1, <3>1, <3>3
  <2>4. \A i \in DOMAIN r : DOMAIN r[i].words # {} BY <1>2, <2>2, <2>3
  <2>5. \A i, j \in DOMAIN r : r[i].prefix = r[j].prefix => i = j BY <1>2, <2>2, <2>3
  <2>6. Listing(r) BY <2>3, <2>4, <2>5 DEF Listing
  <2>7. TableIn(r, p) = table
    <3>1. PICK i \in DOMAIN q : q[i].prefix = p BY <1>5 DEF With
    <3>2. TableIn(r, r[i].prefix) = r[i].words BY <2>3, <2>6, TableInIs
    <3> QED BY <2>2, <3>1, <3>2
  <2>8. ASSUME NEW o \in Customs, o # p PROVE TableIn(r, o) = TableIn(q, o)
    <3>1. CASE \E i \in DOMAIN q : q[i].prefix = o
      <4>1. PICK i \in DOMAIN q : q[i].prefix = o BY <3>1
      <4>2. TableIn(r, r[i].prefix) = r[i].words BY <2>3, <2>6, TableInIs
      <4>3. TableIn(q, q[i].prefix) = q[i].words BY <1>1, TableInIs
      <4> QED BY <2>2, <2>8, <4>1, <4>2, <4>3
    <3>2. CASE \A i \in DOMAIN q : q[i].prefix # o
      <4>1. \A i \in DOMAIN r : r[i].prefix # o BY <2>2, <2>3, <3>2
      <4> QED BY <1>1, <2>6, <3>2, <4>1, TableInIs
    <3> QED BY <3>1, <3>2
  <2> QED BY <1>1, <2>6, <2>7, <2>8
<1> QED BY <1>4, <1>5

\* An emptied table goes with its prefix.
LEMMA DropIs ==
  ASSUME Listing(prefixed), NEW p \in Customs, NEW r, r = At(prefixed, DOMAIN prefixed \ Under(p))
  PROVE  /\ Listing(r) /\ TableIn(r, p) = Nothing
         /\ \A o \in Customs : o # p => TableIn(r, o) = TableIn(prefixed, o)
<1>1. PICK q : q = prefixed OBVIOUS
<1>2. /\ q \in Seq(Entries) /\ \A i \in DOMAIN q : DOMAIN q[i].words # {}
      /\ \A i, j \in DOMAIN q : q[i].prefix = q[j].prefix => i = j
      /\ DOMAIN q = 1 .. Len(q) /\ Len(q) \in Nat
  BY <1>1, LenProperties DEF Listing
<1>3. PICK P \in SUBSET DOMAIN q : P = DOMAIN q \ With(q, p) OBVIOUS
<1>4. r = At(q, P) BY <1>1, <1>3, TableOfIs
<1>5. /\ r \in Seq(Entries) /\ Len(r) = Cardinality(P)
      /\ \A k \in DOMAIN r : Nth(P, k) \in P /\ r[k] = q[Nth(P, k)]
      /\ \A i \in P : \E k \in DOMAIN r : Nth(P, k) = i
      /\ \A k, l \in DOMAIN r : k < l => Nth(P, k) < Nth(P, l)
  <2>1. q \in Seq(Entries) BY <1>2
  <2> QED BY ONLY <2>1, <1>4, AtReturns, P \in SUBSET DOMAIN q
<1>6. DOMAIN r = 1 .. Len(r) /\ Len(r) \in Nat BY <1>5, LenProperties
<1>7. \A k, l \in DOMAIN r : Nth(P, k) = Nth(P, l) => k = l
  <2> SUFFICES ASSUME NEW k \in DOMAIN r, NEW l \in DOMAIN r, Nth(P, k) = Nth(P, l), k # l
               PROVE  FALSE
    OBVIOUS
  <2>1. PICK i \in P : i = Nth(P, k) /\ i = Nth(P, l) BY <1>5
  <2>2. i \in Nat /\ k \in Nat /\ l \in Nat BY <1>2, <1>6
  <2>3. k < l \/ l < k BY <2>2
  <2>4. i < i BY <1>5, <2>1, <2>3
  <2> QED BY <2>2, <2>4
<1>8. ASSUME NEW k \in DOMAIN r PROVE \E i \in DOMAIN q : i = Nth(P, k) /\ r[k] = q[i] /\ q[i].prefix # p
  <2>1. PICK i \in P : i = Nth(P, k) BY <1>5
  <2> QED BY <1>3, <1>5, <2>1 DEF With
<1>9. \A i \in DOMAIN q : q[i].prefix # p => \E k \in DOMAIN r : r[k] = q[i]
  <2> SUFFICES ASSUME NEW i \in DOMAIN q, q[i].prefix # p PROVE \E k \in DOMAIN r : r[k] = q[i] OBVIOUS
  <2>1. i \in P BY <1>3 DEF With
  <2>2. PICK k \in DOMAIN r : Nth(P, k) = i BY <1>5, <2>1
  <2> QED BY <1>5, <2>2
<1>10. Listing(r)
  <2>1. \A k \in DOMAIN r : DOMAIN r[k].words # {} BY <1>2, <1>8
  <2>2. ASSUME NEW k \in DOMAIN r, NEW l \in DOMAIN r, r[k].prefix = r[l].prefix PROVE k = l
    <3>1. PICK i \in DOMAIN q : i = Nth(P, k) /\ r[k] = q[i] BY <1>8
    <3>2. PICK j \in DOMAIN q : j = Nth(P, l) /\ r[l] = q[j] BY <1>8
    <3>3. i = j BY <1>2, <2>2, <3>1, <3>2
    <3> QED BY <1>7, <3>1, <3>2, <3>3
  <2> QED BY <1>5, <2>1, <2>2 DEF Listing
<1>11. TableIn(r, p) = Nothing
  <2>1. \A k \in DOMAIN r : r[k].prefix # p BY <1>8
  <2> QED BY <1>10, <2>1, TableInIs
<1>12. ASSUME NEW o \in Customs, o # p PROVE TableIn(r, o) = TableIn(q, o)
  <2>1. CASE \E i \in DOMAIN q : q[i].prefix = o
    <3>1. PICK i \in DOMAIN q : q[i].prefix = o BY <2>1
    <3>2. PICK k \in DOMAIN r : r[k] = q[i] BY <1>9, <1>12, <3>1
    <3>3. TableIn(r, r[k].prefix) = r[k].words BY <1>10, TableInIs
    <3>4. TableIn(q, q[i].prefix) = q[i].words BY <1>1, TableInIs
    <3> QED BY <3>1, <3>2, <3>3, <3>4
  <2>2. CASE \A i \in DOMAIN q : q[i].prefix # o
    <3>1. \A k \in DOMAIN r : r[k].prefix # o BY <1>8, <2>2
    <3>2. TableIn(r, o) = Nothing BY <1>10, <3>1, TableInIs
    <3>3. TableIn(q, o) = Nothing BY <1>1, <2>2, TableInIs
    <3> QED BY <3>2, <3>3
  <2> QED BY <2>1, <2>2
<1> QED BY <1>1, <1>10, <1>11, <1>12

-----------------------------------------------------------------------------
(***************************************************************************)
(* The operations on the tables                                            *)
(***************************************************************************)
\* All tables together: w, q and s are those of the words, the prefixes and the
\* subcommands.
Kept(table, T, u, l, c) == Good(table, T, u, l, c) /\ Rivals(T, u, c)
TablesSound(w, q, s, u, l, c) ==
  /\ u \subseteq Declared /\ l \subseteq Declared /\ Listing(q)
  /\ u # {} => \A d \in Declared : d \notin u => d \in l
  /\ Kept(w, Group(None), u, l, c) /\ Kept(s, Subs, u, l, c)
  /\ \A p \in Customs : Kept(TableIn(q, p), Group(p), u, l, c)

Now  == TablesSound(words, prefixed, subs, undiscovered, listed, contested)

\* The tables before anything has been discovered.
LEMMA TablesInit == ASSUME DispatchInit PROVE Now
<1>1. words = Nothing /\ subs = Nothing /\ prefixed = <<>> /\ undiscovered = Declared
      /\ listed = {} /\ contested = {}
  BY DEF DispatchInit
<1>2. \A T \in SUBSET Declared : Kept(Nothing, T, Declared, {}, {})
  <2> TAKE T \in SUBSET Declared
  <2>1. DOMAIN Nothing = {} /\ Nothing = [k \in DOMAIN Nothing |-> Nothing[k]] BY DEF Nothing
  <2>2. Good(Nothing, T, Declared, {}, {}) BY <2>1 DEF Good
  <2>3. Rivals(T, Declared, {}) BY DEF Rivals
  <2> QED BY <2>2, <2>3 DEF Kept
<1>3. Subs \in SUBSET Declared /\ \A p : Group(p) \in SUBSET Declared BY DEF Subs, Group
<1>4. Listing(<<>>)
  <2>1. <<>> \in Seq(Entries) /\ DOMAIN <<>> = {} BY EmptySeq
  <2> QED BY <2>1 DEF Listing
<1>5. \A p : TableIn(<<>>, p) = Nothing
  <2>1. \A p : With(<<>>, p) = {} BY DEF With
  <2> QED BY <2>1 DEF TableIn
<1> QED BY <1>1, <1>2, <1>3, <1>4, <1>5 DEF Now, TablesSound

\* Every declaration has keys.
LEMMA KeysAre == \A d \in Declared : Keys(d) # {} /\ (d.kind # "sub" => KeysOf(d) = Keys(d))
<1> SUFFICES ASSUME NEW d \in Declared PROVE Keys(d) # {} BY DEF KeysOf
<1>1. IsText(d.words) /\ d.words # <<>> BY DispatchAssumption
<1>2. d.words \in Seq(ToSet(d.words)) BY <1>1 DEF IsText
<1>3. ToSet(d.words) # {}
  <2>1. Len(d.words) \in Nat /\ DOMAIN d.words = 1 .. Len(d.words) BY <1>2, LenProperties
  <2>2. Len(d.words) # 0 BY <1>1, <1>2, EmptySeq
  <2>3. 1 \in DOMAIN d.words BY <2>1, <2>2
  <2> QED BY <2>3 DEF ToSet
<1> QED BY <1>3 DEF Keys

\* The table d is added to, and those it is not.
LEMMA OneSet ==
  ASSUME NEW table, NEW T, NEW u, NEW l, NEW c, Kept(table, T, u, l, c),
         NEW d \in T, d \in u \/ u = {}, u # {} => \A e \in T : e \notin u => e \in l,
         NEW b, b = c \cup Losing(table, KeysOf(d), d)
                      \cup {x \in {d} : Losing(table, KeysOf(d), d) # {}}
  PROVE  Kept(Set(table, KeysOf(d), d), T, u \ {d}, l \cup {d}, b)
BY SetIsGood DEF Kept

\* A table d does not belong in keeps what it is, whatever becomes of d.
LEMMA NotOther ==
  ASSUME NEW table, NEW T, NEW u, NEW l, NEW c, Kept(table, T, u, l, c),
         NEW d, d \notin T, NEW m, m = l \cup {d} \/ m = l \ {d}, NEW b, c \subseteq b
  PROVE  Kept(table, T, u \ {d}, m, b)
BY OthersAreGood DEF Kept

\* add keeps the tables what they are.
LEMMA AddKeeps ==
  ASSUME Now, NEW d \in Declared, d.kind # "sub", d \in undiscovered \/ undiscovered = {}, Add(d)
  PROVE  TablesSound(words', prefixed', subs', undiscovered \ {d}, listed', contested')
<1>1. /\ undiscovered \subseteq Declared /\ listed \subseteq Declared /\ Listing(prefixed)
      /\ undiscovered # {} => \A e \in Declared : e \notin undiscovered => e \in listed
      /\ Kept(words, Group(None), undiscovered, listed, contested)
      /\ Kept(subs, Subs, undiscovered, listed, contested)
      /\ \A p \in Customs : Kept(TableIn(prefixed, p), Group(p), undiscovered, listed, contested)
  BY DEF Now, TablesSound
<1>2. KeysOf(d) = Keys(d) /\ Keys(d) # {} BY KeysAre
<1>3. PICK l, b : l = listed' /\ b = contested' OBVIOUS
<1>4. l = listed \cup {d} /\ contested \subseteq b BY <1>3 DEF Add, Claim
<1>5. /\ undiscovered \ {d} \subseteq Declared /\ l \subseteq Declared
      /\ undiscovered \ {d} # {} => \A e \in Declared : e \notin undiscovered \ {d} => e \in l
  BY <1>1, <1>4
<1>6. Kept(subs, Subs, undiscovered \ {d}, l, b)
  <2>1. d \notin Subs BY DEF Subs
  <2> QED BY <1>1, <1>4, <2>1, NotOther
<1>7. \A p \in Customs : d.prefix # p => Kept(TableIn(prefixed, p), Group(p), undiscovered \ {d}, l, b)
  <2> TAKE p \in Customs
  <2> HAVE d.prefix # p
  <2>1. d \notin Group(p) BY DEF Group
  <2> QED BY <1>1, <1>4, <2>1, NotOther
<1>8. \A p : Group(p) \subseteq Declared BY DEF Group
<1>9. CASE d.prefix = None
  <2>1. /\ words' = Set(words, Keys(d), d) /\ subs' = subs /\ prefixed' = prefixed
        /\ b = contested \cup Losing(words, Keys(d), d) \cup {x \in {d} : Losing(words, Keys(d), d) # {}}
    BY <1>3, <1>9 DEF Add, Claim
  <2>2. d \in Group(None) BY <1>9 DEF Group
  <2>3. undiscovered # {} => \A e \in Group(None) : e \notin undiscovered => e \in listed BY <1>1, <1>8
  <2>4. Kept(Set(words, KeysOf(d), d), Group(None), undiscovered \ {d}, listed \cup {d}, b)
    BY <1>1, <1>2, <2>1, <2>2, <2>3, OneSet
  <2>5. Kept(words', Group(None), undiscovered \ {d}, l, b) BY <1>2, <1>4, <2>1, <2>4
  <2>6. \A p \in Customs : d.prefix # p BY <1>9 DEF Customs
  <2> QED BY <1>1, <1>3, <1>5, <1>6, <1>7, <2>1, <2>5, <2>6 DEF TablesSound
<1>10. CASE d.prefix # None
  <2>1. PICK p \in Customs : p = d.prefix /\ p # None BY <1>10 DEF Customs
  <2>2. PICK old, new : old = TableIn(prefixed, p) /\ new = Set(old, Keys(d), d) OBVIOUS
  <2>3. TableOf(p) = old BY <2>2, TableOfIs
  <2>4. /\ words' = words /\ subs' = subs /\ prefixed' = PutTable(p, new)
        /\ b = contested \cup Losing(old, Keys(d), d) \cup {x \in {d} : Losing(old, Keys(d), d) # {}}
    BY <1>3, <1>10, <2>1, <2>2, <2>3 DEF Add, Claim
  <2>5. d \in Group(p) BY <2>1 DEF Group
  <2>6. undiscovered # {} => \A e \in Group(p) : e \notin undiscovered => e \in listed BY <1>1, <1>8
  <2>7. Kept(old, Group(p), undiscovered, listed, contested) BY <1>1, <2>2
  <2>8. Kept(Set(old, KeysOf(d), d), Group(p), undiscovered \ {d}, listed \cup {d}, b)
    BY <1>2, <2>4, <2>5, <2>6, <2>7, OneSet
  <2>9. Kept(new, Group(p), undiscovered \ {d}, l, b) BY <1>2, <1>4, <2>2, <2>8
  <2>10. new \in Tables
    <3>1. Good(new, Group(p), undiscovered \ {d}, l, b) BY <2>9 DEF Kept
    <3> QED BY <3>1, GoodIsTable
  <2>11. DOMAIN new # {} BY <1>2, <2>2 DEF Set
  <2>12. PICK r : r = prefixed' OBVIOUS
  <2>13. r = PutTable(p, new) BY <2>4, <2>12
  <2>14. /\ Listing(r) /\ TableIn(r, p) = new
         /\ \A o \in Customs : o # p => TableIn(r, o) = TableIn(prefixed, o)
    BY <1>1, <2>10, <2>11, <2>13, PutIs
  <2>15. \A o \in Customs : Kept(TableIn(r, o), Group(o), undiscovered \ {d}, l, b)
    BY <1>7, <2>1, <2>9, <2>14
  <2>16. Kept(words, Group(None), undiscovered \ {d}, l, b)
    <3>1. d \notin Group(None) BY <1>10 DEF Group
    <3> QED BY <1>1, <1>4, <3>1, NotOther
  <2> QED BY <1>3, <1>5, <1>6, <2>4, <2>12, <2>14, <2>15, <2>16 DEF TablesSound
<1> QED BY <1>9, <1>10

\* So does addSubcommand.
LEMMA AddSubcommandKeeps ==
  ASSUME Now, NEW d \in Declared, d.kind = "sub", d \in undiscovered, AddSubcommand(d)
  PROVE  TablesSound(words', prefixed', subs', undiscovered \ {d}, listed', contested')
<1>1. /\ undiscovered \subseteq Declared /\ listed \subseteq Declared /\ Listing(prefixed)
      /\ undiscovered # {} => \A e \in Declared : e \notin undiscovered => e \in listed
      /\ Kept(words, Group(None), undiscovered, listed, contested)
      /\ Kept(subs, Subs, undiscovered, listed, contested)
      /\ \A p \in Customs : Kept(TableIn(prefixed, p), Group(p), undiscovered, listed, contested)
  BY DEF Now, TablesSound
<1>2. KeysOf(d) = {Lowered(d.parent)} \X Keys(d) BY DEF KeysOf
<1>3. PICK l, b : l = listed' /\ b = contested' OBVIOUS
<1>4. /\ l = listed \cup {d} /\ words' = words /\ prefixed' = prefixed
      /\ subs' = Set(subs, KeysOf(d), d)
      /\ b = contested \cup Losing(subs, KeysOf(d), d) \cup {x \in {d} : Losing(subs, KeysOf(d), d) # {}}
  BY <1>2, <1>3 DEF AddSubcommand, Claim
<1>5. /\ undiscovered \ {d} \subseteq Declared /\ l \subseteq Declared /\ contested \subseteq b
      /\ undiscovered \ {d} # {} => \A e \in Declared : e \notin undiscovered \ {d} => e \in l
  BY <1>1, <1>4
<1>6. \A p : d \notin Group(p) BY DEF Group
<1>7. Kept(words, Group(None), undiscovered \ {d}, l, b) BY <1>1, <1>4, <1>5, <1>6, NotOther
<1>8. \A p \in Customs : Kept(TableIn(prefixed, p), Group(p), undiscovered \ {d}, l, b)
  BY <1>1, <1>4, <1>5, <1>6, NotOther
<1>9. Kept(Set(subs, KeysOf(d), d), Subs, undiscovered \ {d}, listed \cup {d}, b)
  <2>1. d \in Subs /\ \A e \in Subs : e \in Declared BY DEF Subs
  <2>2. undiscovered # {} => \A e \in Subs : e \notin undiscovered => e \in listed BY <1>1, <2>1
  <2> QED BY <1>1, <1>4, <2>1, <2>2, OneSet
<1> QED BY <1>1, <1>3, <1>4, <1>5, <1>7, <1>8, <1>9 DEF TablesSound

\* Keys that go, once all has been discovered.
LEMMA OneGone ==
  ASSUME NEW table, NEW p, NEW l, NEW c, Kept(table, Group(p), {}, l, c),
         NEW key \in DOMAIN table, NEW b, b = c \cup {x \in {table[key]} : key # Lowered(table[key].words[1])}
  PROVE  Kept(Gone(table, key), Group(p), {}, l \ {table[key]}, b)
<1>1. Group(p) \in SUBSET Declared /\ \A e \in Group(p) : e.kind # "sub" BY DEF Group
<1>2. Good(table, Group(p), {}, l, c) /\ Rivals(Group(p), {}, c) BY DEF Kept
<1> QED BY <1>1, <1>2, GoneIsGood DEF Kept

\* So does remove, from the common table.
LEMMA RemoveWordKeeps ==
  ASSUME Now, NEW key \in DOMAIN words, RemoveWord(key)
  PROVE  TablesSound(words', prefixed', subs', undiscovered', listed', contested')
<1>0. undiscovered = {} /\ undiscovered' = {} BY DEF RemoveWord, Running
<1>1. /\ listed \subseteq Declared /\ Listing(prefixed)
      /\ Kept(words, Group(None), {}, listed, contested)
      /\ Kept(subs, Subs, {}, listed, contested)
      /\ \A p \in Customs : Kept(TableIn(prefixed, p), Group(p), {}, listed, contested)
  BY <1>0 DEF Now, TablesSound
<1>2. PICK d : d = words[key] OBVIOUS
<1>3. PICK l, b : l = listed' /\ b = contested' OBVIOUS
<1>4. /\ l = listed \ {d} /\ words' = Gone(words, key) /\ prefixed' = prefixed /\ subs' = subs
      /\ b = contested \cup {x \in {d} : key # Lowered(d.words[1])}
  BY <1>2, <1>3 DEF RemoveWord, Unlists
<1>5. d \in Declared /\ d.kind # "sub" /\ d.prefix = None
  BY <1>1, <1>2 DEF Kept, Good, Group
<1>6. contested \subseteq b /\ {} \ {d} = {} BY <1>4
<1>7. Kept(words', Group(None), {}, l, b) BY <1>1, <1>2, <1>4, OneGone
<1>8. Kept(subs, Subs, {}, l, b)
  <2>1. d \notin Subs BY <1>5 DEF Subs
  <2>2. Kept(subs, Subs, {} \ {d}, l, b) BY <1>1, <1>4, <1>6, <2>1, NotOther
  <2> QED BY <1>6, <2>2
<1>9. ASSUME NEW p \in Customs PROVE Kept(TableIn(prefixed, p), Group(p), {}, l, b)
  <2>1. d \notin Group(p) BY <1>5 DEF Group, Customs
  <2>2. Kept(TableIn(prefixed, p), Group(p), {} \ {d}, l, b) BY <1>1, <1>4, <1>6, <2>1, NotOther
  <2> QED BY <1>6, <2>2
<1> QED BY <1>0, <1>1, <1>3, <1>4, <1>7, <1>8, <1>9 DEF TablesSound

\* So does remove, from a prefix's, which goes when it is empty.
LEMMA RemoveByPrefixKeeps ==
  ASSUME Now, NEW p \in Customs, NEW key, RemoveByPrefix(p, key)
  PROVE  TablesSound(words', prefixed', subs', undiscovered', listed', contested')
<1>0. undiscovered = {} /\ undiscovered' = {} BY DEF RemoveByPrefix, Running
<1>1. /\ listed \subseteq Declared /\ Listing(prefixed)
      /\ Kept(words, Group(None), {}, listed, contested)
      /\ Kept(subs, Subs, {}, listed, contested)
      /\ \A o \in Customs : Kept(TableIn(prefixed, o), Group(o), {}, listed, contested)
  BY <1>0 DEF Now, TablesSound
<1>2. PICK old, left, d : old = TableIn(prefixed, p) /\ left = Gone(old, key) /\ d = old[key] OBVIOUS
<1>3. TableOf(p) = old BY <1>2, TableOfIs
<1>4. PICK l, b, r : l = listed' /\ b = contested' /\ r = prefixed' OBVIOUS
<1>5. /\ l = listed \ {d} /\ words' = words /\ subs' = subs /\ key \in DOMAIN old
      /\ r = IF DOMAIN left = {} THEN At(prefixed, DOMAIN prefixed \ Under(p)) ELSE PutTable(p, left)
      /\ b = contested \cup {x \in {d} : key # Lowered(d.words[1])}
  BY <1>2, <1>3, <1>4 DEF RemoveByPrefix, Unlists
<1>6. d \in Declared /\ d.kind # "sub" /\ d.prefix = p /\ p # None
  <2>1. Kept(old, Group(p), {}, listed, contested) BY <1>1, <1>2
  <2>2. d \in Group(p) BY <1>2, <1>5, <2>1 DEF Kept, Good
  <2> QED BY <2>2 DEF Group, Customs
<1>7. contested \subseteq b /\ {} \ {d} = {} BY <1>5
<1>8. Kept(left, Group(p), {}, l, b) BY <1>1, <1>2, <1>5, OneGone
<1>9. Kept(subs, Subs, {}, l, b)
  <2>1. d \notin Subs BY <1>6 DEF Subs
  <2>2. Kept(subs, Subs, {} \ {d}, l, b) BY <1>1, <1>5, <1>7, <2>1, NotOther
  <2> QED BY <1>7, <2>2
<1>10. Kept(words, Group(None), {}, l, b)
  <2>1. d \notin Group(None) BY <1>6 DEF Group
  <2>2. Kept(words, Group(None), {} \ {d}, l, b) BY <1>1, <1>5, <1>7, <2>1, NotOther
  <2> QED BY <1>7, <2>2
<1>11. ASSUME NEW o \in Customs, o # p PROVE Kept(TableIn(prefixed, o), Group(o), {}, l, b)
  <2>1. d \notin Group(o) BY <1>6, <1>11 DEF Group
  <2>2. Kept(TableIn(prefixed, o), Group(o), {} \ {d}, l, b) BY <1>1, <1>5, <1>7, <2>1, NotOther
  <2> QED BY <1>7, <2>2
<1>12. Good(left, Group(p), {}, l, b) BY <1>8 DEF Kept
<1>13. /\ Listing(r) /\ TableIn(r, p) = left
       /\ \A o \in Customs : o # p => TableIn(r, o) = TableIn(prefixed, o)
  <2>1. CASE DOMAIN left = {}
    <3>1. /\ Listing(r) /\ TableIn(r, p) = Nothing
          /\ \A o \in Customs : o # p => TableIn(r, o) = TableIn(prefixed, o)
      BY <1>1, <1>5, <2>1, DropIs
    <3>2. left = Nothing
      <4>1. left = [k \in DOMAIN left |-> left[k]] BY <1>12 DEF Good
      <4>2. left = [k \in {} |-> left[k]] BY <2>1, <4>1
      <4>3. [k \in {} |-> left[k]] = Nothing BY DEF Nothing
      <4> QED BY <4>2, <4>3
    <3> QED BY <3>1, <3>2
  <2>2. CASE DOMAIN left # {}
    <3>1. r = PutTable(p, left) BY <1>5, <2>2
    <3>2. left \in Tables BY <1>12, GoodIsTable
    <3> QED BY <1>1, <2>2, <3>1, <3>2, PutIs
  <2> QED BY <2>1, <2>2
<1>14. \A o \in Customs : Kept(TableIn(r, o), Group(o), {}, l, b) BY <1>8, <1>11, <1>13
<1> QED BY <1>0, <1>1, <1>4, <1>5, <1>9, <1>10, <1>13, <1>14 DEF TablesSound

\* A body calls a handler if its tokens name it.
LEMMA CallsIs ==
  ASSUME NEW body, IsText(body), NEW prefix, IsText(prefix), StartsWith(body, prefix),
         NEW d \in Declared, NEW t, t = Tokens(After(body, Len(prefix)))
  PROVE  /\ d.kind # "sub" => (Calls(body, d, prefix) <=> t[1] # <<>> /\ Lowered(t[1]) \in Keys(d))
         /\ d.kind = "sub" =>
              (Calls(body, d, prefix)
                 <=> (/\ t[1] # <<>> /\ Len(t) >= 2 /\ t[2] # <<>>
                      /\ <<Lowered(t[1]), Lowered(t[2])>> \in KeysOf(d)))
<1>1. PICK S, T : body \in Seq(S) /\ prefix \in Seq(T) BY DEF IsText
<1>2. Len(prefix) <= Len(body) BY <1>1, PrefixIs DEF StartsWith
<1>3. Len(prefix) \in 0 .. Len(body)
  <2>1. Len(prefix) \in Nat /\ Len(body) \in Nat BY <1>1, LenProperties
  <2> QED BY <1>2, <2>1
<1>4. PICK text : text = After(body, Len(prefix)) OBVIOUS
<1>5. text \in Seq(S) BY <1>1, <1>3, <1>4, AfterIs DEF Part
<1>6. t[1] = Token(text, 1) BY <1>4, <1>5, TokensAre
<1>7. /\ \A w \in ToSet(d.words) : IsText(w)
      /\ d.kind = "sub" => IsText(d.parent)
  BY DispatchAssumption
<1>8. Keys(d) = {Lowered(w) : w \in ToSet(d.words)} BY DEF Keys
<1>9. ASSUME d.kind # "sub" PROVE Calls(body, d, prefix) <=> t[1] # <<>> /\ Lowered(t[1]) \in Keys(d)
  <2>1. Calls(body, d, prefix) <=> Opens(text, d.words) BY <1>4, <1>9 DEF Calls
  <2>2. Opens(text, d.words) <=> Token(text, 1) # <<>> /\ Lowered(Token(text, 1)) \in Keys(d)
    BY <1>5, <1>7, <1>8, OpensIs
  <2> QED BY <1>6, <2>1, <2>2
<1>10. ASSUME d.kind = "sub"
       PROVE  Calls(body, d, prefix)
                <=> (/\ t[1] # <<>> /\ Len(t) >= 2 /\ t[2] # <<>>
                     /\ <<Lowered(t[1]), Lowered(t[2])>> \in KeysOf(d))
  <2>1. Calls(body, d, prefix) <=> OpensTwice(text, d.parent, d.words) BY <1>4, <1>10 DEF Calls
  <2>2. t = Tokens(text) BY <1>4
  <2>3. OpensTwice(text, d.parent, d.words)
          <=> (/\ t[1] # <<>> /\ Lowered(t[1]) = Lowered(d.parent) /\ Len(t) >= 2 /\ t[2] # <<>>
               /\ Lowered(t[2]) \in {Lowered(w) : w \in ToSet(d.words)})
    <3>1. IsText(d.parent) BY <1>7, <1>10
    <3> QED BY <1>5, <1>7, <2>2, <3>1, OpensTwiceIs
  <2>4. <<Lowered(t[1]), Lowered(t[2])>> \in KeysOf(d)
          <=> Lowered(t[1]) = Lowered(d.parent) /\ Lowered(t[2]) \in Keys(d)
    BY <1>10 DEF KeysOf
  <2> QED BY <1>8, <2>1, <2>3, <2>4
<1> QED BY <1>9, <1>10

\* What a try finds was called, and who stands in the tables and is called is found, or
\* a subcommand is.
LEMMA FoundIs ==
  ASSUME NEW p, NEW table, NEW u, NEW l, NEW k,
         Good(table, Group(p), u, l, k), Good(subs, Subs, u, l, k),
         NEW c, IsText(c.body), NEW prefix, IsText(prefix), StartsWith(c.body, prefix),
         NEW F, F = FoundWith(c, prefix, table)
  PROVE  /\ \A d \in F : /\ d \in Declared /\ AllowsClient(d, c.client) /\ Calls(c.body, d, prefix)
                         /\ d.kind = "sub" \/ d.prefix = p
         /\ \A d \in Subs \cup Group(p) :
              (d \in l /\ d \notin k /\ AllowsClient(d, c.client) /\ Calls(c.body, d, prefix))
                => F # {} /\ \A e \in F : e = d \/ (e.kind = "sub" /\ d.kind # "sub")
<1>1. PICK t : t = Tokens(After(c.body, Len(prefix))) OBVIOUS
<1>2. PICK own, sub : own = Named(t, table) /\ sub = SubNamed(t) OBVIOUS
<1>3. /\ t[1] = <<>> => F = {}
      /\ t[1] # <<>> => F = IF {d \in sub : AllowsClient(d, c.client)} # {}
                            THEN {d \in sub : AllowsClient(d, c.client)}
                            ELSE {d \in own : AllowsClient(d, c.client)}
  BY <1>1, <1>2 DEF FoundWith, Chosen
<1>4. /\ \A key \in DOMAIN table : table[key] \in Group(p) /\ key \in KeysOf(table[key])
      /\ \A d \in Group(p) : d \in l /\ d \notin k =>
           \A key \in KeysOf(d) : key \in DOMAIN table /\ table[key] = d
  BY DEF Good
<1>5. /\ \A key \in DOMAIN subs : subs[key] \in Subs /\ key \in KeysOf(subs[key])
      /\ \A d \in Subs : d \in l /\ d \notin k =>
           \A key \in KeysOf(d) : key \in DOMAIN subs /\ subs[key] = d
  BY DEF Good
<1>6. \A d \in Group(p) : /\ d \in Declared /\ d.kind # "sub" /\ d.prefix = p
                          /\ KeysOf(d) = Keys(d)
  BY DEF Group, KeysOf
<1>7. \A d \in Subs : d \in Declared /\ d.kind = "sub" BY DEF Subs
<1>8. own = {table[key] : key \in {Lowered(t[1])} \cap DOMAIN table} BY <1>2 DEF Named
<1>9. /\ Len(t) < 2 \/ t[2] = <<>> => sub = {}
      /\ ~(Len(t) < 2 \/ t[2] = <<>>) =>
           sub = {subs[key] : key \in {<<Lowered(t[1]), Lowered(t[2])>>} \cap DOMAIN subs}
  BY <1>2 DEF SubNamed
<1>10. \A d \in Declared :
         /\ d.kind # "sub" => (Calls(c.body, d, prefix) <=> t[1] # <<>> /\ Lowered(t[1]) \in Keys(d))
         /\ d.kind = "sub" =>
              (Calls(c.body, d, prefix)
                 <=> (/\ t[1] # <<>> /\ Len(t) >= 2 /\ t[2] # <<>>
                      /\ <<Lowered(t[1]), Lowered(t[2])>> \in KeysOf(d)))
  BY <1>1, CallsIs
<1>11. Len(t) \in Nat
  <2>1. PICK S, T : c.body \in Seq(S) /\ prefix \in Seq(T) BY DEF IsText
  <2>2. Len(prefix) <= Len(c.body) BY <2>1, PrefixIs DEF StartsWith
  <2>3. Len(prefix) \in Nat /\ Len(c.body) \in Nat BY <2>1, LenProperties
  <2>4. Len(prefix) \in 0 .. Len(c.body) BY <2>2, <2>3
  <2>5. After(c.body, Len(prefix)) \in Seq(S) BY <2>1, <2>4, AfterIs DEF Part
  <2>6. t \in Seq(Seq(S)) BY <1>1, <2>5, TokensAre
  <2> QED BY <2>6, LenProperties
<1>12. ASSUME NEW d \in own, t[1] # <<>> PROVE d \in Group(p) /\ Calls(c.body, d, prefix)
  <2>1. d \in Group(p) /\ Lowered(t[1]) \in KeysOf(d) BY <1>4, <1>8, <1>12
  <2> QED BY <1>6, <1>10, <1>12, <2>1
<1>13. ASSUME NEW d \in sub, t[1] # <<>> PROVE d \in Subs /\ Calls(c.body, d, prefix)
  <2>1. Len(t) >= 2 /\ t[2] # <<>> BY <1>9, <1>11, <1>13
  <2>2. d \in Subs /\ <<Lowered(t[1]), Lowered(t[2])>> \in KeysOf(d) BY <1>5, <1>9, <1>11, <1>13, <2>1
  <2> QED BY <1>7, <1>10, <1>13, <2>1, <2>2
<1>14. ASSUME NEW d \in F
       PROVE  /\ d \in Declared /\ AllowsClient(d, c.client) /\ Calls(c.body, d, prefix)
              /\ d.kind = "sub" \/ d.prefix = p
  <2>1. t[1] # <<>> BY <1>3, <1>14
  <2>2. (d \in sub \/ d \in own) /\ AllowsClient(d, c.client) BY <1>3, <1>14, <2>1
  <2> QED BY <1>6, <1>7, <1>12, <1>13, <2>1, <2>2
<1>15. ASSUME NEW d \in Subs, d \in l, d \notin k, AllowsClient(d, c.client), Calls(c.body, d, prefix)
       PROVE  F = {d}
  <2>1. /\ t[1] # <<>> /\ Len(t) >= 2 /\ t[2] # <<>>
        /\ <<Lowered(t[1]), Lowered(t[2])>> \in KeysOf(d)
    BY <1>7, <1>10, <1>15
  <2>2. /\ <<Lowered(t[1]), Lowered(t[2])>> \in DOMAIN subs
        /\ subs[<<Lowered(t[1]), Lowered(t[2])>>] = d
    BY <1>5, <1>15, <2>1
  <2>3. sub = {d} BY <1>9, <1>11, <2>1, <2>2
  <2> QED BY <1>3, <1>15, <2>1, <2>3
<1>16. ASSUME NEW d \in Group(p), d \in l, d \notin k, AllowsClient(d, c.client), Calls(c.body, d, prefix)
       PROVE  F # {} /\ \A e \in F : e = d \/ (e.kind = "sub" /\ d.kind # "sub")
  <2>1. t[1] # <<>> /\ Lowered(t[1]) \in KeysOf(d) BY <1>6, <1>10, <1>16
  <2>2. Lowered(t[1]) \in DOMAIN table /\ table[Lowered(t[1])] = d BY <1>4, <1>16, <2>1
  <2>3. own = {d} BY <1>8, <2>2
  <2>4. \A e \in sub : e.kind = "sub" BY <1>7, <1>13, <2>1
  <2> QED BY <1>3, <1>6, <1>16, <2>1, <2>3, <2>4
<1> QED BY <1>14, <1>15, <1>16

-----------------------------------------------------------------------------
(***************************************************************************)
(* A call                                                                  *)
(***************************************************************************)
\* What a call is, and one that ran something ran what its body calls.
Runs     == {[d |-> d, prefix |-> p, args |-> Arguments(d, b)] :
               d \in Declared, p \in ClientPrefixes \cup Customs, b \in Bodies}
CallType == [client : Clients \cup {None}, body : Bodies \cup {<<>>},
             prefix : ClientPrefixes \cup {<<>>}, seen : SUBSET Customs,
             at : {"awaiting", "over"}, ran : SUBSET Runs]
Ran(c, r) ==
  /\ r.d \in Declared /\ IsText(r.prefix) /\ Calls(c.body, r.d, r.prefix) /\ AllowsClient(r.d, c.client)
  /\ r.d.prefix # None => r.prefix = r.d.prefix
  /\ r.args = Arguments(r.d, c.body)
CallSound(c) ==
  /\ c \in CallType
  /\ c.client # None => c.body \in Bodies /\ c.prefix \in ClientPrefixes
  /\ c.client = None => c.ran = {} /\ c.at = "over"
  /\ c.at = "awaiting" => c.ran = {}
  /\ \A r \in c.ran : Ran(c, r)

\* What a call has found so far of who is listed in l and not contested in k, q being
\* the table of the prefixes it tries: with its own prefix whoever it calls, and with
\* those it has seen, which are all in the end.
AnsweredSoFar(c, q, l, k) ==
  /\ \A r \in c.ran : r.prefix = c.prefix \/ \E i \in DOMAIN q : r.prefix = q[i].prefix
  /\ \A d \in l \ k : AllowsClient(d, c.client) =>
       /\ (d.prefix = None /\ c.prefix # <<>> /\ Calls(c.body, d, c.prefix))
            => c.ran # {} /\ \A r \in c.ran : r.d = d \/ r.d.kind = "sub"
       /\ (d.prefix # None /\ Calls(c.body, d, d.prefix) /\ (c.at = "over" \/ d.prefix \in c.seen))
            => c.ran # {}

CallHolds ==
  /\ prefixOf \in [Clients -> ClientPrefixes \cup {None}] /\ CallSound(call)
  /\ steady /\ call.client # None =>
       call.prefix = PrefixRead(call.client) /\ AnsweredSoFar(call, prefixed, listed, contested)

\* A try, by what it finds.
Answer(c, prefix, d) == [d |-> d, prefix |-> prefix, args |-> Arguments(d, c.body)]
Answered(c, r)       == [c EXCEPT !.at = "over", !.ran = {r}]

LEMMA TriedIs ==
  ASSUME NEW c, NEW prefix, NEW table, NEW F, F = FoundWith(c, prefix, table)
  PROVE  /\ F = {} => Tried(c, prefix, table) = [c EXCEPT !.at = "awaiting"]
         /\ F # {} => \E d \in F : Tried(c, prefix, table) = Answered(c, Answer(c, prefix, d))
<1>1. F = {} => Tried(c, prefix, table) = [c EXCEPT !.at = "awaiting"] BY DEF Tried
<1>2. ASSUME F # {} PROVE \E d \in F : Tried(c, prefix, table) = Answered(c, Answer(c, prefix, d))
  <2>1. PICK d : d = CHOOSE e \in F : TRUE OBVIOUS
  <2>2. d \in F BY <1>2, <2>1
  <2>3. Tried(c, prefix, table) = Answered(c, Answer(c, prefix, d))
    BY <1>2, <2>1 DEF Tried, Answered, Answer
  <2> QED BY <2>2, <2>3
<1> QED BY <1>1, <1>2

\* A try keeps a call what it is, whatever the tables.
LEMMA TriedIsSound ==
  ASSUME NEW p, NEW table, NEW u, NEW l, NEW k,
         Good(table, Group(p), u, l, k), Good(subs, Subs, u, l, k),
         NEW c, CallSound(c), c.client # None, c.ran = {},
         NEW prefix \in ClientPrefixes \cup Customs, p = None \/ p = prefix, IsText(prefix),
         StartsWith(c.body, prefix), NEW t, t = Tried(c, prefix, table)
  PROVE  /\ CallSound(t) /\ t.client = c.client /\ t.body = c.body /\ t.prefix = c.prefix
         /\ t.seen = c.seen /\ (t.ran = {} <=> t.at = "awaiting")
         /\ \A r \in t.ran : r.prefix = prefix
         /\ \A d \in Subs \cup Group(p) :
              (d \in l /\ d \notin k /\ AllowsClient(d, c.client) /\ Calls(c.body, d, prefix))
                => t.ran # {} /\ \A r \in t.ran : r.d = d \/ r.d.kind = "sub"
<1>1. PICK F : F = FoundWith(c, prefix, table) OBVIOUS
<1>2. c \in CallType /\ c.body \in Bodies /\ c.prefix \in ClientPrefixes BY DEF CallSound
<1>3. IsText(c.body) BY <1>2, DispatchAssumption
<1>4. /\ \A d \in F : /\ d \in Declared /\ AllowsClient(d, c.client) /\ Calls(c.body, d, prefix)
                      /\ d.kind = "sub" \/ d.prefix = p
      /\ \A d \in Subs \cup Group(p) :
           (d \in l /\ d \notin k /\ AllowsClient(d, c.client) /\ Calls(c.body, d, prefix))
             => F # {} /\ \A e \in F : e = d \/ (e.kind = "sub" /\ d.kind # "sub")
  BY <1>1, <1>3, FoundIs
<1>5. CASE F = {}
  <2>1. t = [c EXCEPT !.at = "awaiting"] BY <1>1, <1>5, TriedIs
  <2>2. /\ t \in CallType /\ t.client = c.client /\ t.body = c.body /\ t.prefix = c.prefix
        /\ t.seen = c.seen /\ t.ran = {} /\ t.at = "awaiting"
    BY <1>2, <2>1 DEF CallType
  <2> QED BY <1>2, <1>4, <1>5, <2>2 DEF CallSound
<1>6. CASE F # {}
  <2>1. PICK d \in F : t = Answered(c, Answer(c, prefix, d)) BY <1>1, <1>6, TriedIs
  <2>2. PICK r : r = Answer(c, prefix, d) OBVIOUS
  <2>3. r.d = d /\ r.prefix = prefix /\ r.args = Arguments(d, c.body) BY <2>2 DEF Answer
  <2>4. d \in Declared /\ AllowsClient(d, c.client) /\ Calls(c.body, d, prefix) BY <1>4
  <2>5. r \in Runs BY <1>2, <2>2, <2>4 DEF Runs, Answer
  <2>6. /\ t \in CallType /\ t.client = c.client /\ t.body = c.body /\ t.prefix = c.prefix
        /\ t.seen = c.seen /\ t.ran = {r} /\ t.at = "over"
    <3>1. PICK R : R = {r} /\ R \in SUBSET Runs BY <2>5
    <3>2. t = Answered(c, r) BY <2>1, <2>2
    <3>3. t = [[c EXCEPT !.at = "over"] EXCEPT !.ran = R] BY <3>1, <3>2 DEF Answered
    <3>4. PICK o : o = [c EXCEPT !.at = "over"] OBVIOUS
    <3>5. /\ o \in CallType /\ o.client = c.client /\ o.body = c.body /\ o.prefix = c.prefix
          /\ o.seen = c.seen /\ o.at = "over"
      BY <1>2, <3>4 DEF CallType
    <3>6. t = [o EXCEPT !.ran = R] BY <3>3, <3>4
    <3> QED BY <3>1, <3>5, <3>6 DEF CallType
  <2>7. d.prefix # None => prefix = d.prefix
    <3>1. d.kind = "sub" => d.prefix = None BY <2>4, DispatchAssumption
    <3>2. d.kind = "sub" \/ d.prefix = p BY <1>4
    <3> QED BY <3>1, <3>2
  <2>8. Ran(t, r) BY <2>3, <2>4, <2>6, <2>7 DEF Ran
  <2>9. CallSound(t) BY <1>2, <2>6, <2>8 DEF CallSound
  <2> QED BY <1>4, <2>3, <2>6, <2>9
<1> QED BY <1>5, <1>6

\* Every prefix that is tried is a text.
LEMMA PrefixesAreTexts == \A p \in ClientPrefixes \cup Customs : IsText(p)
BY DispatchAssumption DEF Customs

\* The first try, with the client's own prefix, finds whom it should.
LEMMA ArrivesKeeps ==
  ASSUME Now, CallHolds, NEW c \in Clients, NEW body \in Bodies, Arrives(c, body)
  PROVE  CallHolds'
<1>1. PICK s, own, fresh :
        s = call' /\ own = PrefixRead(c) /\ fresh = [NoCall EXCEPT !.client = c, !.body = body, !.prefix = own]
  OBVIOUS
<1>2. own \in ClientPrefixes BY <1>1, DispatchAssumption DEF PrefixRead, CallHolds
<1>3. /\ fresh.client = c /\ fresh.body = body /\ fresh.prefix = own /\ fresh.seen = {}
      /\ fresh.at = "over" /\ fresh.ran = {} /\ fresh \in CallType
  BY <1>1, <1>2 DEF NoCall, CallType
<1>4. c # None BY NamesAssumption
<1>5. CallSound(fresh) BY <1>2, <1>3, <1>4 DEF CallSound
<1>6. s = IF own # <<>> /\ StartsWith(body, own) THEN Tried(fresh, own, words)
          ELSE [fresh EXCEPT !.at = "awaiting"]
  BY <1>1, <1>3 DEF Arrives
<1>7. Good(words, Group(None), undiscovered, listed, contested) /\ Good(subs, Subs, undiscovered, listed, contested)
      /\ listed \subseteq Declared
  BY DEF Now, TablesSound, Kept
<1>8. /\ CallSound(s) /\ s.client = c /\ s.body = body /\ s.prefix = own /\ s.seen = {}
      /\ s.ran = {} <=> s.at = "awaiting"
      /\ \A r \in s.ran : r.prefix = own
      /\ \A d \in Subs \cup Group(None) :
           (d \in listed /\ d \notin contested /\ AllowsClient(d, c) /\ own # <<>> /\ Calls(body, d, own))
             => s.ran # {} /\ \A r \in s.ran : r.d = d \/ r.d.kind = "sub"
  <2>1. CASE own # <<>> /\ StartsWith(body, own)
    <3>1. s = Tried(fresh, own, words) BY <1>6, <2>1
    <3>2. own \in ClientPrefixes \cup Customs /\ IsText(own) BY <1>2, PrefixesAreTexts
    <3>3. fresh.client # None /\ StartsWith(fresh.body, own) BY <1>3, <1>4, <2>1
    <3>4. /\ CallSound(s) /\ s.client = fresh.client /\ s.body = fresh.body /\ s.prefix = fresh.prefix
          /\ s.seen = fresh.seen /\ (s.ran = {} <=> s.at = "awaiting")
          /\ \A r \in s.ran : r.prefix = own
          /\ \A d \in Subs \cup Group(None) :
               (d \in listed /\ d \notin contested /\ AllowsClient(d, fresh.client) /\ Calls(fresh.body, d, own))
                 => s.ran # {} /\ \A r \in s.ran : r.d = d \/ r.d.kind = "sub"
      BY <1>3, <1>5, <1>7, <3>1, <3>2, <3>3, TriedIsSound
    <3> QED BY <1>3, <3>4
  <2>2. CASE ~(own # <<>> /\ StartsWith(body, own))
    <3>1. s = [fresh EXCEPT !.at = "awaiting"] BY <1>6, <2>2
    <3>2. /\ s \in CallType /\ s.client = c /\ s.body = body /\ s.prefix = own /\ s.seen = {}
          /\ s.ran = {} /\ s.at = "awaiting"
      BY <1>3, <3>1 DEF CallType
    <3>3. CallSound(s) BY <1>2, <1>4, <3>2 DEF CallSound
    <3>4. \A d : own # <<>> /\ Calls(body, d, own) => FALSE BY <2>2 DEF Calls
    <3> QED BY <3>2, <3>3, <3>4
  <2> QED BY <2>1, <2>2
<1>9. /\ prefixed' = prefixed /\ prefixOf' = prefixOf /\ contested' = contested /\ listed' = listed
      /\ PrefixRead(c)' = own
  BY <1>1 DEF Arrives, tables, PrefixRead
<1>10. AnsweredSoFar(s, prefixed, listed, contested)
  <2>1. ASSUME NEW d \in listed \ contested, AllowsClient(d, s.client), d.prefix = None
        PROVE  d \in Subs \cup Group(None)
    BY <1>7, <2>1 DEF Subs, Group
  <2>2. s.at = "over" => s.ran # {} BY <1>8
  <2> QED BY <1>8, <2>1, <2>2 DEF AnsweredSoFar
<1>11. prefixOf' \in [Clients -> ClientPrefixes \cup {None}] BY <1>9 DEF CallHolds
<1>12. AnsweredSoFar(call, prefixed, listed, contested)' BY <1>1, <1>9, <1>10
<1>13. call'.prefix = PrefixRead(call.client)' BY <1>1, <1>8, <1>9
<1> QED BY <1>1, <1>8, <1>11, <1>12, <1>13 DEF CallHolds

\* So does the next one, and when none is left there was nobody to be found.
LEMMA GoesOnKeeps ==
  ASSUME Now, CallHolds, GoesOn
  PROVE  CallHolds'
<1>1. PICK s, q : s = call' /\ q = prefixed OBVIOUS
<1>2. /\ prefixed' = q /\ prefixOf' = prefixOf /\ contested' = contested /\ listed' = listed
      /\ steady' = steady /\ call.at = "awaiting"
  BY <1>1 DEF GoesOn, tables, claims
<1>3. /\ CallSound(call) /\ call \in CallType /\ call.ran = {} /\ call.client # None
      /\ call.body \in Bodies /\ call.prefix \in ClientPrefixes
  BY <1>2 DEF CallHolds, CallSound
<1>4. /\ Listing(q) /\ Good(subs, Subs, undiscovered, listed, contested)
      /\ \A p \in Customs : Good(TableIn(q, p), Group(p), undiscovered, listed, contested)
      /\ listed \subseteq Declared
  BY <1>1 DEF Now, TablesSound, Kept
<1>5. \A i \in DOMAIN q : q[i].prefix \in Customs /\ TableIn(q, q[i].prefix) = q[i].words
  BY <1>4, TableInIs
<1>6. steady => /\ call.prefix = PrefixRead(call.client)
                /\ AnsweredSoFar(call, q, listed, contested)
  BY <1>1, <1>3 DEF CallHolds
<1>7. /\ CallSound(s) /\ s.client = call.client /\ s.body = call.body /\ s.prefix = call.prefix
      /\ steady => AnsweredSoFar(s, q, listed, contested)
  <2>1. CASE Left(call) = {}
    <3>1. s = [call EXCEPT !.at = "over"] BY <1>1, <2>1 DEF GoesOn
    <3>2. /\ s \in CallType /\ s.client = call.client /\ s.body = call.body /\ s.prefix = call.prefix
          /\ s.seen = call.seen /\ s.ran = {} /\ s.at = "over"
      BY <1>3, <3>1 DEF CallType
    <3>3. CallSound(s) BY <1>3, <3>2 DEF CallSound
    <3>4. ASSUME NEW d \in listed \ contested, d.prefix # None, Calls(call.body, d, d.prefix)
          PROVE  d.prefix \in call.seen
      <4>1. d \in Declared BY <1>4
      <4>2. d.kind # "sub" /\ d.prefix \in Customs BY <3>4, <4>1, DispatchAssumption DEF Customs
      <4>3. d \in Group(d.prefix) BY <4>1, <4>2 DEF Group
      <4>4. PICK key : key \in KeysOf(d) BY <4>1, <4>2, KeysAre
      <4>5. key \in DOMAIN TableIn(q, d.prefix) BY <1>4, <4>2, <4>3, <4>4 DEF Good
      <4>6. PICK i \in DOMAIN q : q[i].prefix = d.prefix BY <1>4, <4>5, TableInIs
      <4>7. i \notin Left(call) /\ StartsWith(call.body, d.prefix) BY <2>1, <3>4 DEF Calls
      <4> QED BY <1>1, <4>6, <4>7 DEF Left
    <3>5. steady => AnsweredSoFar(s, q, listed, contested)
      BY <1>3, <1>6, <3>2, <3>4 DEF AnsweredSoFar
    <3> QED BY <3>2, <3>3, <3>5
  <2>2. CASE Left(call) # {}
    <3>1. PICK i \in Left(call) : \A j \in Left(call) : i <= j
      <4>1. Left(call) \in SUBSET (1 .. Len(q)) /\ Len(q) \in Nat
        <5>1. q \in Seq(Entries) BY <1>4 DEF Listing
        <5>2. DOMAIN q = 1 .. Len(q) /\ Len(q) \in Nat BY <5>1, LenProperties
        <5> QED BY <1>1, <5>2 DEF Left
      <4>2. PICK P, n : P = Left(call) /\ n = Len(q) OBVIOUS
      <4>3. P \in SUBSET (1 .. n) /\ n \in Nat /\ P # {} BY <2>2, <4>1, <4>2
      <4>4. Nth(P, 1) \in P /\ \A j \in P : Nth(P, 1) <= j BY <4>3, FirstIsLeast
      <4> QED BY <4>2, <4>4
    <3>2. PICK j : j = CHOOSE i2 \in Left(call) : \A j2 \in Left(call) : i2 <= j2 OBVIOUS
    <3>3. j \in Left(call) BY <3>1, <3>2
    <3>4. PICK p, table : p = q[j].prefix /\ table = q[j].words OBVIOUS
    <3>5. j \in DOMAIN q /\ p \notin call.seen /\ StartsWith(call.body, p) BY <1>1, <3>3, <3>4 DEF Left
    <3>6. p \in Customs /\ TableIn(q, p) = table BY <1>5, <3>4, <3>5
    <3>7. PICK o : o = [call EXCEPT !.seen = @ \cup {p}] OBVIOUS
    <3>8. /\ o \in CallType /\ o.client = call.client /\ o.body = call.body /\ o.prefix = call.prefix
          /\ o.seen = call.seen \cup {p} /\ o.at = "awaiting" /\ o.ran = {}
      <4>0. call.seen \in SUBSET Customs BY <1>3 DEF CallType
      <4>1. PICK S : S = call.seen \cup {p} /\ S \in SUBSET Customs BY <3>6, <4>0
      <4>2. o = [call EXCEPT !.seen = S] BY <3>7, <4>1
      <4> QED BY <1>2, <1>3, <4>1, <4>2 DEF CallType
    <3>9. CallSound(o) BY <1>3, <3>8 DEF CallSound
    <3>10. s = Tried(o, p, table)
      BY <1>1, <2>2, <3>2, <3>4, <3>7 DEF GoesOn
    <3>11. Good(table, Group(p), undiscovered, listed, contested) BY <1>4, <3>6
    <3>12. p \in ClientPrefixes \cup Customs /\ IsText(p) /\ (p = None \/ p = p) BY <3>6, PrefixesAreTexts
    <3>13. o.client # None /\ StartsWith(o.body, p) BY <1>3, <3>5, <3>8
    <3>14. /\ CallSound(s) /\ s.client = o.client /\ s.body = o.body /\ s.prefix = o.prefix
           /\ s.seen = o.seen /\ (s.ran = {} <=> s.at = "awaiting")
           /\ \A r \in s.ran : r.prefix = p
           /\ \A d \in Subs \cup Group(p) :
                (d \in listed /\ d \notin contested /\ AllowsClient(d, o.client) /\ Calls(o.body, d, p))
                  => s.ran # {} /\ \A r \in s.ran : r.d = d \/ r.d.kind = "sub"
      BY <1>4, <3>8, <3>9, <3>10, <3>11, <3>12, <3>13, TriedIsSound
    <3>15. ASSUME NEW d \in listed \ contested, AllowsClient(d, call.client), d.prefix = p,
                  Calls(call.body, d, p)
           PROVE  s.ran # {}
      <4>1. d \in Declared /\ p # None BY <1>4, <3>6 DEF Customs
      <4>2. d.kind # "sub" BY <3>15, <4>1, DispatchAssumption
      <4>3. d \in Group(p) BY <3>15, <4>1, <4>2 DEF Group
      <4> QED BY <3>8, <3>14, <3>15, <4>3
    <3>16. ASSUME steady PROVE AnsweredSoFar(s, q, listed, contested)
      <4>1. AnsweredSoFar(call, q, listed, contested) BY <1>6, <3>16
      <4>2. \A d \in listed \ contested : AllowsClient(d, call.client) =>
              /\ ~(d.prefix = None /\ call.prefix # <<>> /\ Calls(call.body, d, call.prefix))
              /\ d.prefix # None /\ Calls(call.body, d, d.prefix) => d.prefix \notin call.seen
        BY <1>3, <4>1 DEF AnsweredSoFar
      <4>3. \A r \in s.ran : \E n \in DOMAIN q : r.prefix = q[n].prefix BY <3>4, <3>5, <3>14
      <4>4. s.client = call.client /\ s.body = call.body /\ s.prefix = call.prefix
            /\ s.seen = call.seen \cup {p} /\ (s.at = "over" => s.ran # {})
        BY <3>8, <3>14
      <4> QED BY <3>15, <4>2, <4>3, <4>4 DEF AnsweredSoFar
    <3> QED BY <3>8, <3>14, <3>16
  <2> QED BY <2>1, <2>2
<1>8. /\ prefixOf' \in [Clients -> ClientPrefixes \cup {None}] BY <1>2 DEF CallHolds
<1>9. PrefixRead(call.client)' = PrefixRead(call.client) BY <1>1, <1>2, <1>7 DEF PrefixRead
<1> QED BY <1>1, <1>2, <1>6, <1>7, <1>8, <1>9 DEF CallHolds

-----------------------------------------------------------------------------
(***************************************************************************)
(* The commands' invariant, and what follows from it                       *)
(***************************************************************************)
DispatchIInv == Now /\ CallHolds

\* It holds before anything has been discovered.
LEMMA DispatchInitHolds == ASSUME DispatchInit PROVE DispatchIInv
<1>1. Now BY TablesInit
<1>2. call = NoCall /\ prefixOf = [c \in Clients |-> DefaultPrefix] BY DEF DispatchInit
<1>3. /\ call \in CallType /\ call.client = None /\ call.ran = {} /\ call.at = "over"
  BY <1>2 DEF NoCall, CallType
<1>4. CallSound(call) BY <1>3 DEF CallSound
<1>5. prefixOf \in [Clients -> ClientPrefixes \cup {None}] BY <1>2, DispatchAssumption
<1> QED BY <1>1, <1>3, <1>4, <1>5 DEF DispatchIInv, CallHolds

\* Whatever else moves, the call is not steady any more.
LEMMA UnsteadyKeeps ==
  ASSUME CallHolds, steady' = FALSE, NEW S, call' = call \/ call' = [call EXCEPT !.seen = @ \ S],
         prefixOf' \in [Clients -> ClientPrefixes \cup {None}]
  PROVE  CallHolds'
<1>1. PICK c : c = call' OBVIOUS
<1>2. CallSound(call) /\ call \in CallType BY DEF CallHolds, CallSound
<1>3. CallSound(c)
  <2>1. CASE c = call BY <1>2, <2>1
  <2>2. CASE c # call
    <3>0. call.seen \ S \in SUBSET Customs BY <1>2 DEF CallType
    <3>1. PICK seen : seen = call.seen \ S /\ seen \in SUBSET Customs BY <3>0
    <3>2. c = [call EXCEPT !.seen = seen] BY <1>1, <2>2, <3>1
    <3>3. /\ c \in CallType /\ c.client = call.client /\ c.body = call.body /\ c.prefix = call.prefix
          /\ c.at = call.at /\ c.ran = call.ran
      BY <1>2, <3>1, <3>2 DEF CallType
    <3> QED BY <1>2, <3>3 DEF CallSound, Ran
  <2> QED BY <2>1, <2>2
<1> QED BY <1>1, <1>3 DEF CallHolds

\* Every step keeps the tables and the call.
LEMMA DispatchStepsHold == ASSUME DispatchIInv, [DispatchNext]_dispatchVars PROVE DispatchIInv'
<1>0. Now /\ CallHolds BY DEF DispatchIInv
<1>1. prefixOf \in [Clients -> ClientPrefixes \cup {None}] BY <1>0 DEF CallHolds
<1>2. ASSUME NEW d \in Declared, Discover(d) PROVE DispatchIInv'
  <2>1. /\ d \in undiscovered /\ undiscovered' = undiscovered \ {d} /\ prefixOf' = prefixOf /\ call' = call
        /\ d.kind = "sub" => AddSubcommand(d)
        /\ d.kind # "sub" => Add(d)
    BY <1>2 DEF Discover
  <2>2. steady' = FALSE BY <2>1 DEF Add, AddSubcommand, Claim
  <2>3. TablesSound(words', prefixed', subs', undiscovered \ {d}, listed', contested')
    BY <1>0, <2>1, AddKeeps, AddSubcommandKeeps
  <2>4. Now' BY <2>1, <2>3 DEF Now
  <2>5. CallHolds' BY <1>0, <1>1, <2>1, <2>2, UnsteadyKeeps
  <2> QED BY <2>4, <2>5 DEF DispatchIInv
<1>3. ASSUME NEW d \in Declared, Readd(d) PROVE DispatchIInv'
  <2>1. /\ undiscovered = {} /\ undiscovered' = undiscovered /\ prefixOf' = prefixOf /\ call' = call
        /\ d.kind # "sub" /\ Add(d)
    BY <1>3 DEF Readd, Running
  <2>2. steady' = FALSE BY <2>1 DEF Add, Claim
  <2>3. TablesSound(words', prefixed', subs', undiscovered \ {d}, listed', contested')
    BY <1>0, <2>1, AddKeeps
  <2>4. undiscovered \ {d} = undiscovered' BY <2>1
  <2>5. Now' BY <2>3, <2>4 DEF Now
  <2>6. CallHolds' BY <1>0, <1>1, <2>1, <2>2, UnsteadyKeeps
  <2> QED BY <2>5, <2>6 DEF DispatchIInv
<1>4. ASSUME NEW key \in DOMAIN words, RemoveWord(key) PROVE DispatchIInv'
  <2>1. Now' BY <1>0, <1>4, RemoveWordKeeps DEF Now
  <2>2. steady' = FALSE /\ call' = call /\ prefixOf' = prefixOf BY <1>4 DEF RemoveWord, Unlists
  <2>3. CallHolds' BY <1>0, <1>1, <2>2, UnsteadyKeeps
  <2> QED BY <2>1, <2>3 DEF DispatchIInv
<1>5. ASSUME NEW i \in DOMAIN prefixed, NEW key \in DOMAIN prefixed[i].words,
             RemoveByPrefix(prefixed[i].prefix, key)
      PROVE  DispatchIInv'
  <2>1. PICK p : p = prefixed[i].prefix OBVIOUS
  <2>2. p \in Customs
    <3>1. Listing(prefixed) BY <1>0 DEF Now, TablesSound
    <3> QED BY <2>1, <3>1, TableInIs
  <2>3. RemoveByPrefix(p, key) BY <1>5, <2>1
  <2>4. Now' BY <1>0, <2>2, <2>3, RemoveByPrefixKeeps DEF Now
  <2>5. /\ steady' = FALSE /\ prefixOf' = prefixOf
        /\ call' = [call EXCEPT !.seen = @ \ {p}] \/ call' = [call EXCEPT !.seen = @ \ {}]
    BY <2>3 DEF RemoveByPrefix, Unlists
  <2>6. CallHolds' BY <1>0, <1>1, <2>5, UnsteadyKeeps
  <2> QED BY <2>4, <2>6 DEF DispatchIInv
<1>6. ASSUME NEW c \in Clients, NEW prefix \in {None} \cup ClientPrefixes, SetPrefix(c, prefix)
      PROVE  DispatchIInv'
  <2>1. /\ prefixOf' = [prefixOf EXCEPT ![c] = prefix] /\ steady' = FALSE /\ call' = call
        /\ words' = words /\ prefixed' = prefixed /\ subs' = subs /\ undiscovered' = undiscovered
        /\ contested' = contested /\ listed' = listed
    BY <1>6 DEF SetPrefix, tables
  <2>2. Now' BY <1>0, <2>1 DEF Now
  <2>3. prefixOf' \in [Clients -> ClientPrefixes \cup {None}] BY <1>1, <2>1
  <2>4. CallHolds' BY <1>0, <2>1, <2>3, UnsteadyKeeps
  <2> QED BY <2>2, <2>4 DEF DispatchIInv
<1>7. ASSUME NEW c \in Clients, NEW body \in Bodies, Arrives(c, body) PROVE DispatchIInv'
  <2>1. /\ words' = words /\ prefixed' = prefixed /\ subs' = subs /\ undiscovered' = undiscovered
        /\ contested' = contested /\ listed' = listed
    BY <1>7 DEF Arrives, tables
  <2>2. Now' BY <1>0, <2>1 DEF Now
  <2>3. CallHolds' BY <1>0, <1>7, ArrivesKeeps
  <2> QED BY <2>2, <2>3 DEF DispatchIInv
<1>8. ASSUME GoesOn PROVE DispatchIInv'
  <2>1. /\ words' = words /\ prefixed' = prefixed /\ subs' = subs /\ undiscovered' = undiscovered
        /\ contested' = contested /\ listed' = listed
    BY <1>8 DEF GoesOn, tables, claims
  <2>2. Now' BY <1>0, <2>1 DEF Now
  <2>3. CallHolds' BY <1>0, <1>8, GoesOnKeeps
  <2> QED BY <2>2, <2>3 DEF DispatchIInv
<1>9. ASSUME UNCHANGED dispatchVars PROVE DispatchIInv'
  <2>1. /\ words' = words /\ prefixed' = prefixed /\ subs' = subs /\ undiscovered' = undiscovered
        /\ contested' = contested /\ listed' = listed /\ steady' = steady /\ call' = call
        /\ prefixOf' = prefixOf
    BY <1>9 DEF dispatchVars, tables, claims
  <2>2. Now' BY <1>0, <2>1 DEF Now
  <2>3. PrefixRead(call.client)' = PrefixRead(call.client) BY <2>1 DEF PrefixRead
  <2>4. CallHolds' BY <1>0, <2>1, <2>3 DEF CallHolds
  <2> QED BY <2>2, <2>4 DEF DispatchIInv
<1> QED BY <1>2, <1>3, <1>4, <1>5, <1>6, <1>7, <1>8, <1>9 DEF DispatchNext

\* They always are what they should be.
LEMMA DispatchAlways == DispatchSpec => []DispatchIInv
BY DispatchInitHolds, DispatchStepsHold, PTL DEF DispatchSpec

\* The parts of the properties, from the invariant.
LEMMA TablesAreOK == ASSUME DispatchIInv PROVE TablesOK
<1>1. /\ Listing(prefixed) /\ listed \subseteq Declared
      /\ Good(words, Group(None), undiscovered, listed, contested)
      /\ Good(subs, Subs, undiscovered, listed, contested)
  BY DEF DispatchIInv, Now, TablesSound, Kept
<1>2. \A k \in DOMAIN words : words[k] \in Declared /\ words[k].prefix = None BY <1>1 DEF Good, Group
<1>3. \A k \in DOMAIN subs : subs[k].kind = "sub" BY <1>1 DEF Good, Subs
<1>4. call.at \in {"awaiting", "over"} BY DEF DispatchIInv, CallHolds, CallSound, CallType
<1>5. /\ \A i \in DOMAIN prefixed : DOMAIN prefixed[i].words # {}
      /\ \A i, j \in DOMAIN prefixed : prefixed[i].prefix = prefixed[j].prefix => i = j
  BY <1>1 DEF Listing
<1> QED BY <1>1, <1>2, <1>3, <1>4, <1>5 DEF TablesOK

\* While nothing else has moved, a call has heard all it should.
LEMMA HasAnswered ==
  ASSUME DispatchIInv, steady, call.client # None, call.at = "over",
         NEW d \in listed \ contested, AllowsClient(d, call.client), Addresses(call, d)
  PROVE  /\ d \in Declared /\ call.ran # {}
         /\ \A r \in call.ran : r.d.kind = "sub" \/ r.d = d \/ d.prefix # None
<1>1. PICK prefix \in PrefixesOf(d, call.prefix) : Calls(call.body, d, prefix) BY DEF Addresses
<1>2. /\ (d.prefix = None /\ call.prefix # <<>> /\ Calls(call.body, d, call.prefix))
           => call.ran # {} /\ \A r \in call.ran : r.d = d \/ r.d.kind = "sub"
      /\ (d.prefix # None /\ Calls(call.body, d, d.prefix)) => call.ran # {}
  BY DEF DispatchIInv, CallHolds, AnsweredSoFar
<1>3. d \in Declared BY DEF DispatchIInv, Now, TablesSound
<1>4. CASE d.prefix # None BY <1>1, <1>2, <1>3, <1>4 DEF PrefixesOf
<1>5. CASE d.prefix = None
  <2>1. prefix = call.prefix /\ call.prefix # <<>> BY <1>1, <1>5 DEF PrefixesOf
  <2> QED BY <1>1, <1>2, <1>3, <1>5, <2>1
<1> QED BY <1>4, <1>5

LEMMA ArgumentsDoFollow == ASSUME DispatchIInv PROVE ArgumentsFollow
<1> SUFFICES ASSUME NEW r \in call.ran, Space \notin ToSet(r.prefix), NEW text, text = After(call.body, Len(r.prefix))
             PROVE  r.args = After(Tokens(text), IF Opens(text, r.d.words) /\ r.d.kind # "sub" THEN 1 ELSE 2)
  BY DEF ArgumentsFollow
<1>1. CallSound(call) BY DEF DispatchIInv, CallHolds
<1>2. /\ IsText(r.prefix) /\ Calls(call.body, r.d, r.prefix) /\ r.args = Arguments(r.d, call.body)
  BY <1>1 DEF CallSound, Ran
<1>3. call.body \in Bodies BY <1>1 DEF CallSound
<1>4. IsText(call.body) BY <1>3, DispatchAssumption
<1>5. PICK S, T, body, prefix : body = call.body /\ prefix = r.prefix /\ body \in Seq(S) /\ prefix \in Seq(T)
  BY <1>2, <1>4 DEF IsText
<1>6. StartsWith(body, prefix) /\ (r.d.kind # "sub" => Opens(text, r.d.words)) BY <1>2, <1>5 DEF Calls
<1>7. Len(prefix) <= Len(body) /\ \A k \in 1 .. Len(prefix) : Lower(prefix[k]) = Lower(body[k])
  BY <1>5, <1>6, PrefixIs DEF StartsWith
<1>8. Len(prefix) \in Nat /\ Len(body) \in Nat /\ DOMAIN prefix = 1 .. Len(prefix) BY <1>5, LenProperties
<1>9. Len(prefix) \in 0 .. Len(body) BY <1>7, <1>8
<1>10. \A k \in 1 .. Len(prefix) : body[k] # Space
  <2> TAKE k \in 1 .. Len(prefix)
  <2>1. prefix[k] # Space BY <1>5, <1>8 DEF ToSet
  <2> QED BY <1>7, <2>1, LowerKeepsSpace
<1>11. PICK m : m = IF r.d.kind = "sub" THEN 2 ELSE 1 OBVIOUS
<1>12. m \in Nat /\ m >= 1 BY <1>11
<1>13. After(Tokens(body), m) = After(Tokens(After(body, Len(prefix))), m)
  BY <1>5, <1>9, <1>10, <1>12, TailsAgree
<1>14. r.args = After(Tokens(body), m) BY <1>2, <1>5, <1>11 DEF Arguments
<1> QED BY <1>5, <1>6, <1>11, <1>13, <1>14

LEMMA CallsAnswered == ASSUME DispatchIInv PROVE CallsAreAnswered
<1>1. CallSound(call) BY DEF DispatchIInv, CallHolds
<1>2. call.client = None => call.ran = {} BY <1>1 DEF CallSound
<1>3. RunsWhatWasCalled
  <2> SUFFICES ASSUME NEW r \in call.ran
               PROVE  /\ Calls(call.body, r.d, r.prefix) /\ AllowsClient(r.d, call.client)
                      /\ r.d.prefix # None => r.prefix = r.d.prefix
                      /\ steady => r.prefix \in
                           {IF prefixOf[call.client] = None THEN DefaultPrefix ELSE prefixOf[call.client]}
                             \cup {prefixed[i].prefix : i \in DOMAIN prefixed}
    BY DEF RunsWhatWasCalled
  <2>1. Ran(call, r) BY <1>1 DEF CallSound
  <2>2. ASSUME steady
        PROVE  r.prefix \in
                 {IF prefixOf[call.client] = None THEN DefaultPrefix ELSE prefixOf[call.client]}
                   \cup {prefixed[i].prefix : i \in DOMAIN prefixed}
    <3>1. call.prefix = PrefixRead(call.client) /\ AnsweredSoFar(call, prefixed, listed, contested)
      BY <1>2, <2>2 DEF DispatchIInv, CallHolds
    <3>2. r.prefix = call.prefix \/ \E i \in DOMAIN prefixed : r.prefix = prefixed[i].prefix
      BY <3>1 DEF AnsweredSoFar
    <3> QED BY <3>1, <3>2 DEF PrefixRead
  <2> QED BY <2>1, <2>2 DEF Ran
<1>4. CalledIsAnswered BY HasAnswered DEF CalledIsAnswered
<1>5. MostSpecificAnswers
  <2> SUFFICES ASSUME call.at = "over", steady, NEW r \in call.ran, NEW d \in listed \ contested,
                      AllowsClient(d, call.client), Addresses(call, d)
               PROVE  \/ r.d.kind = "sub" \/ r.d = d
                      \/ d.kind # "sub" /\ (d.prefix = None => r.prefix = call.prefix)
    BY DEF MostSpecificAnswers
  <2>1. d \in Declared /\ (r.d.kind = "sub" \/ r.d = d \/ d.prefix # None) BY <1>2, HasAnswered
  <2>2. d.prefix # None => d.kind # "sub" BY <2>1, DispatchAssumption
  <2> QED BY <2>1, <2>2
<1> QED BY <1>3, <1>4, <1>5, TablesAreOK, ArgumentsDoFollow DEF CallsAreAnswered

\* Whose words lead to him, from the invariant.
LEMMA RemovalExact == ASSUME DispatchIInv PROVE RemovalIsExact
<1> SUFFICES ASSUME NEW d \in Declared \ contested, d.kind # "sub"
             PROVE  Reach(words, d) \cup UNION {Reach(prefixed[i].words, d) : i \in DOMAIN prefixed}
                      = IF d \in listed THEN Keys(d) ELSE {}
  BY DEF RemovalIsExact
<1>1. /\ Listing(prefixed) /\ Good(words, Group(None), undiscovered, listed, contested)
      /\ \A p \in Customs : Good(TableIn(prefixed, p), Group(p), undiscovered, listed, contested)
  BY DEF DispatchIInv, Now, TablesSound, Kept
<1>2. KeysOf(d) = Keys(d) /\ Keys(d) # {} BY KeysAre
<1>3. ASSUME NEW table, NEW p, Good(table, Group(p), undiscovered, listed, contested)
      PROVE  /\ d.prefix = p => Reach(table, d) = IF d \in listed THEN Keys(d) ELSE {}
             /\ d.prefix # p => Reach(table, d) = {}
  <2>1. /\ \A k \in DOMAIN table : /\ table[k] \in Group(p) /\ k \in KeysOf(table[k])
                                   /\ table[k] \in listed \/ table[k] \in contested
        /\ \A e \in Group(p) : e \in listed /\ e \notin contested =>
             \A k \in KeysOf(e) : k \in DOMAIN table /\ table[k] = e
    BY <1>3 DEF Good
  <2>2. d \in Group(p) <=> d.prefix = p BY DEF Group
  <2> QED BY <1>2, <2>1, <2>2 DEF Reach
<1>4. /\ d.prefix = None => Reach(words, d) = IF d \in listed THEN Keys(d) ELSE {}
      /\ d.prefix # None => Reach(words, d) = {}
  BY <1>1, <1>3
<1>5. ASSUME NEW i \in DOMAIN prefixed
      PROVE  /\ prefixed[i].prefix # None
             /\ d.prefix = prefixed[i].prefix =>
                  Reach(prefixed[i].words, d) = IF d \in listed THEN Keys(d) ELSE {}
             /\ d.prefix # prefixed[i].prefix => Reach(prefixed[i].words, d) = {}
  <2>1. PICK p, table : p = prefixed[i].prefix /\ table = prefixed[i].words OBVIOUS
  <2>2. p \in Customs /\ TableIn(prefixed, p) = table BY <1>1, <2>1, TableInIs
  <2>3. Good(table, Group(p), undiscovered, listed, contested) BY <1>1, <2>2
  <2> QED BY <1>3, <2>1, <2>2, <2>3 DEF Customs
<1>6. CASE d.prefix = None
  <2>1. UNION {Reach(prefixed[i].words, d) : i \in DOMAIN prefixed} = {} BY <1>5, <1>6
  <2> QED BY <1>4, <1>6, <2>1
<1>7. CASE d.prefix # None
  <2>1. ASSUME d \in listed PROVE \E i \in DOMAIN prefixed : prefixed[i].prefix = d.prefix
    <3>1. d.prefix \in Customs /\ d \in Group(d.prefix) BY <1>7 DEF Customs, Group
    <3>2. Good(TableIn(prefixed, d.prefix), Group(d.prefix), undiscovered, listed, contested) BY <1>1, <3>1
    <3>3. PICK k : k \in DOMAIN TableIn(prefixed, d.prefix) BY <1>2, <2>1, <3>1, <3>2 DEF Good
    <3> QED BY <1>1, <3>3, TableInIs
  <2>2. UNION {Reach(prefixed[i].words, d) : i \in DOMAIN prefixed} = IF d \in listed THEN Keys(d) ELSE {}
    BY <1>5, <2>1
  <2> QED BY <1>4, <1>7, <2>2
<1> QED BY <1>6, <1>7

\* A message is answered by the handler it calls, the most specific one, with its
\* arguments, whatever the registry does between the awaits of handle.
THEOREM CallsAlwaysAnswered == DispatchSpec => []CallsAreAnswered
BY DispatchAlways, CallsAnswered, PTL

\* Exactly its words lead to a command that is listed, and none to one that is not.
THEOREM RemovalAlwaysExact == DispatchSpec => []RemovalIsExact
BY DispatchAlways, RemovalExact, PTL
==============================================================================

------------------------- MODULE InMemoryStore_proofs -------------------------
(***************************************************************************)
(* InMemoryStore for every number of threads, keys, stripes and entries    *)
(* and every TTL: types, the order the eviction loop relies on, capacity,  *)
(* atomicity of transition() and the safety of live mappings.              *)
(***************************************************************************)
EXTENDS InMemoryStore, SequenceTheorems, TLAPS

\* The dictionary as the proofs need it: distinct keys, expiries in order and
\* none later than a TTL from the clock reading t.
GoodData(s, t) ==
    /\ s \in Seq(Entries)
    /\ \A i, j \in 1..Len(s) : s[i].key = s[j].key => i = j
    /\ \A i, j \in 1..Len(s) : i < j => s[i].exp <= s[j].exp
    /\ \A i \in 1..Len(s) : s[i].exp <= t + TTL

-----------------------------------------------------------------------------
(* The OrderedDict operations.                                             *)

\* Removing the element at i shifts the later ones down.
LEMMA RemoveAtProps ==
    ASSUME NEW S, NEW s \in Seq(S), NEW i \in 1..Len(s)
    PROVE  /\ RemoveAt(s, i) \in Seq(S)
           /\ Len(RemoveAt(s, i)) = Len(s) - 1
           /\ \A j \in 1..(Len(s) - 1) :
                RemoveAt(s, i)[j] = IF j < i THEN s[j] ELSE s[j + 1]
<1> DEFINE a == SubSeq(s, 1, i - 1)
           b == SubSeq(s, i + 1, Len(s))
<1>1. /\ a \in Seq(S) /\ Len(a) = i - 1
      /\ \A j \in 1..(i - 1) : a[j] = s[j]
  OBVIOUS
<1>2. /\ b \in Seq(S) /\ Len(b) = Len(s) - i
      /\ \A j \in 1..(Len(s) - i) : b[j] = s[j + i]
  OBVIOUS
<1>3. /\ a \o b \in Seq(S) /\ Len(a \o b) = Len(a) + Len(b)
      /\ \A j \in 1..(Len(a) + Len(b)) :
            (a \o b)[j] = IF j <= Len(a) THEN a[j] ELSE b[j - Len(a)]
  BY <1>1, <1>2, ConcatProperties
<1>4. RemoveAt(s, i) = a \o b
  BY DEF RemoveAt
<1> HIDE DEF a, b
<1>5. Len(s) \in Nat /\ Len(a) + Len(b) = Len(s) - 1
  BY <1>1, <1>2
<1>6. ASSUME NEW j \in 1..(Len(s) - 1)
      PROVE  (a \o b)[j] = IF j < i THEN s[j] ELSE s[j + 1]
  <2>0. i \in Nat /\ j \in Nat
    BY <1>5
  <2>1. CASE j < i
    BY <1>1, <1>3, <1>5, <2>1
  <2>2. CASE j >= i
    <3> DEFINE m == j - (i - 1)
    <3>1. m \in 1..(Len(s) - i) /\ m + i = j + 1
      BY <1>5, <2>2
    <3>2. (a \o b)[j] = b[m]
      BY <1>1, <1>3, <1>5, <2>2
    <3>3. b[m] = s[m + i]
      BY <1>2, <3>1
    <3>4. QED BY <2>0, <2>2, <3>1, <3>2, <3>3
  <2>3. j < i \/ j >= i
    BY <2>0
  <2>4. QED BY ONLY <2>1, <2>2, <2>3
<1>7. QED BY <1>3, <1>4, <1>5, <1>6

\* IndexOf finds a key that is there.
LEMMA IndexOfProps ==
    ASSUME NEW s, NEW k, HasKey(s, k)
    PROVE  IndexOf(s, k) \in 1..Len(s) /\ s[IndexOf(s, k)].key = k
BY DEF HasKey, IndexOf

\* The entries of a good dictionary, one by one.
LEMMA GoodEntry ==
    ASSUME NEW t, NEW s, GoodData(s, t)
    PROVE  /\ s \in Seq(Entries) /\ Len(s) \in Nat
           /\ \A i \in 1..Len(s) :
                /\ s[i] \in Entries /\ s[i].key \in Keys
                /\ s[i].exp \in Nat /\ s[i].val \in Values
                /\ s[i].exp <= t + TTL
<1>1. s \in Seq(Entries)
  BY DEF GoodData
<1>2. Len(s) \in Nat /\ \A i \in 1..Len(s) : s[i] \in Entries
  BY <1>1
<1>3. \A x \in Entries : x.key \in Keys /\ x.exp \in Nat /\ x.val \in Values
  BY DEF Entries
<1>4. \A i \in 1..Len(s) : s[i].exp <= t + TTL
  BY DEF GoodData
<1>5. QED BY <1>1, <1>2, <1>3, <1>4

\* pop() keeps the dictionary good, removes the key and nothing else.
LEMMA PopProps ==
    ASSUME NEW t \in Nat, NEW s, GoodData(s, t), NEW k
    PROVE  /\ GoodData(Pop(s, k), t)
           /\ HasKey(s, k) => Len(Pop(s, k)) = Len(s) - 1
           /\ ~HasKey(s, k) => Len(Pop(s, k)) = Len(s)
           /\ ~HasKey(Pop(s, k), k)
           /\ \A j \in 1..Len(Pop(s, k)) : \E i \in 1..Len(s) : Pop(s, k)[j] = s[i]
           /\ \A i \in 1..Len(s) :
                s[i].key # k => \E j \in 1..Len(Pop(s, k)) : Pop(s, k)[j] = s[i]
<1>1. CASE ~HasKey(s, k)
  BY <1>1 DEF Pop
<1>2. CASE HasKey(s, k)
  <2> DEFINE n == IndexOf(s, k)
             r == RemoveAt(s, n)
  <2>1. n \in 1..Len(s) /\ s[n].key = k
    BY <1>2, IndexOfProps
  <2>2. Pop(s, k) = r
    BY <1>2 DEF Pop
  <2>3. /\ s \in Seq(Entries) /\ Len(s) \in Nat
        /\ \A i \in 1..Len(s) : s[i] \in Entries /\ s[i].exp \in Nat
    BY GoodEntry
  <2>4. /\ r \in Seq(Entries)
        /\ Len(r) = Len(s) - 1
        /\ \A j \in 1..(Len(s) - 1) : r[j] = IF j < n THEN s[j] ELSE s[j + 1]
    BY <2>1, <2>3, RemoveAtProps
  <2> HIDE DEF n, r
  <2>5. \A j \in 1..Len(r) :
            \E i \in 1..Len(s) : r[j] = s[i] /\ i # n /\ i = IF j < n THEN j ELSE j + 1
    BY <2>1, <2>3, <2>4
  <2>6. \A i \in 1..Len(s) : i # n => \E j \in 1..Len(r) : r[j] = s[i]
    <3> SUFFICES ASSUME NEW i \in 1..Len(s), i # n
                 PROVE  \E j \in 1..Len(r) : r[j] = s[i]
      OBVIOUS
    <3>1. CASE i < n
      <4>1. i \in 1..Len(r) /\ r[i] = s[i]
        BY <2>1, <2>3, <2>4, <3>1
      <4>2. QED BY <4>1
    <3>2. CASE i > n
      <4>1. i - 1 \in 1..Len(r) /\ ~(i - 1 < n) /\ (i - 1) + 1 = i
        BY <2>1, <2>3, <2>4, <3>2
      <4>2. r[i - 1] = s[i]
        BY <2>4, <4>1
      <4>3. QED BY <4>1, <4>2
    <3>3. QED BY <2>1, <2>3, <3>1, <3>2
  <2>7. GoodData(r, t)
    <3>1. ASSUME NEW i \in 1..Len(r), NEW j \in 1..Len(r), r[i].key = r[j].key
          PROVE  i = j
      BY <2>1, <2>3, <2>4, <2>5, <3>1, SMTT(30) DEF GoodData
    <3>2. ASSUME NEW i \in 1..Len(r), NEW j \in 1..Len(r), i < j
          PROVE  r[i].exp <= r[j].exp
      <4>1. PICK a \in 1..Len(s) : r[i] = s[a] /\ a = IF i < n THEN i ELSE i + 1
        BY <2>5
      <4>2. PICK b \in 1..Len(s) : r[j] = s[b] /\ b = IF j < n THEN j ELSE j + 1
        BY <2>5
      <4>3. a < b
        BY <2>1, <2>3, <2>4, <3>2, <4>1, <4>2
      <4>4. QED BY <4>1, <4>2, <4>3 DEF GoodData
    <3>3. \A i \in 1..Len(r) : r[i].exp <= t + TTL
      BY <2>5 DEF GoodData
    <3>4. QED BY <2>4, <3>1, <3>2, <3>3 DEF GoodData
  <2>8. ~HasKey(r, k)
    BY <2>1, <2>5 DEF HasKey, GoodData
  <2>9. \A i \in 1..Len(s) : s[i].key # k => i # n
    BY <2>1
  <2>10. QED BY <1>2, <2>2, <2>4, <2>5, <2>6, <2>7, <2>8, <2>9
<1>3. QED BY <1>1, <1>2

\* Writing keeps the dictionary good: the new expiry is the latest of all.
LEMMA PutProps ==
    ASSUME NEW t \in Nat, NEW u \in Nat, t <= u, NEW s, GoodData(s, t),
           NEW k \in Keys, NEW v \in Values
    PROVE  /\ GoodData(Put(s, k, v, u), u)
           /\ \A j \in 1..Len(Put(s, k, v, u)) :
                \/ Put(s, k, v, u)[j] = [key |-> k, exp |-> u + TTL, val |-> v]
                \/ \E i \in 1..Len(s) : Put(s, k, v, u)[j] = s[i] /\ s[i].key # k
           /\ \A i \in 1..Len(s) :
                \E j \in 1..Len(Put(s, k, v, u)) :
                    /\ Put(s, k, v, u)[j].key = s[i].key
                    /\ Put(s, k, v, u)[j].exp >= s[i].exp
<1> USE StoreConstants
<1> DEFINE e == [key |-> k, exp |-> u + TTL, val |-> v]
           p == Pop(s, k)
           r == Put(s, k, v, u)
<1>1. e \in Entries /\ e.key = k /\ e.exp = u + TTL /\ e.exp \in Nat
  BY DEF Entries
<1>2. r = Append(p, e)
  BY DEF Put
<1>3. /\ GoodData(p, t)
      /\ HasKey(s, k) => Len(p) = Len(s) - 1
      /\ ~HasKey(s, k) => Len(p) = Len(s)
      /\ ~HasKey(p, k)
      /\ \A j \in 1..Len(p) : \E i \in 1..Len(s) : p[j] = s[i]
      /\ \A i \in 1..Len(s) : s[i].key # k => \E j \in 1..Len(p) : p[j] = s[i]
  BY PopProps
<1>4. p \in Seq(Entries) /\ Len(p) \in Nat
  BY <1>3 DEF GoodData
<1> HIDE DEF e, p, r
<1>5. /\ r \in Seq(Entries) /\ Len(r) = Len(p) + 1
      /\ r[Len(p) + 1] = e
      /\ \A j \in 1..Len(p) : r[j] = p[j]
  BY <1>1, <1>2, <1>4
<1>6. \A j \in 1..Len(r) : j \in 1..Len(p) \/ j = Len(p) + 1
  BY <1>4, <1>5
<1>7. \A j \in 1..Len(p) : p[j].key # k /\ p[j].exp \in Nat /\ p[j].exp <= u + TTL
  <2> SUFFICES ASSUME NEW j \in 1..Len(p)
               PROVE  p[j].key # k /\ p[j].exp \in Nat /\ p[j].exp <= u + TTL
    OBVIOUS
  <2>1. p[j].exp \in Nat /\ p[j].exp <= t + TTL
    BY <1>3, GoodEntry
  <2>2. p[j].key # k
    BY <1>3 DEF HasKey
  <2>3. QED BY <2>1, <2>2
<1>8. GoodData(r, u)
  <2>1. ASSUME NEW i \in 1..Len(r), NEW j \in 1..Len(r), r[i].key = r[j].key
        PROVE  i = j
    BY <1>1, <1>3, <1>5, <1>6, <1>7, <2>1 DEF GoodData
  <2>2. ASSUME NEW i \in 1..Len(r), NEW j \in 1..Len(r), i < j
        PROVE  r[i].exp <= r[j].exp
    <3>1. i \in 1..Len(p)
      BY <1>4, <1>6, <2>2
    <3>2. CASE j \in 1..Len(p)
      BY <1>3, <1>5, <2>2, <3>1, <3>2 DEF GoodData
    <3>3. CASE j = Len(p) + 1
      BY <1>1, <1>5, <1>7, <3>1, <3>3
    <3>4. QED BY <1>6, <3>2, <3>3
  <2>3. \A i \in 1..Len(r) : r[i].exp <= u + TTL
    BY <1>1, <1>5, <1>6, <1>7
  <2>4. QED BY <1>5, <2>1, <2>2, <2>3 DEF GoodData
<1>9. \A j \in 1..Len(r) : r[j] = e \/ \E i \in 1..Len(s) : r[j] = s[i] /\ s[i].key # k
  <2> SUFFICES ASSUME NEW j \in 1..Len(r), j \in 1..Len(p)
               PROVE  \E i \in 1..Len(s) : r[j] = s[i] /\ s[i].key # k
    BY <1>5, <1>6
  <2>1. PICK i \in 1..Len(s) : p[j] = s[i]
    BY <1>3
  <2>2. r[j] = s[i] /\ s[i].key # k
    BY <1>5, <1>7, <2>1
  <2>3. QED BY <2>2
<1>10. ASSUME NEW i \in 1..Len(s)
       PROVE  \E j \in 1..Len(r) : r[j].key = s[i].key /\ r[j].exp >= s[i].exp
  <2>1. s[i] \in Entries /\ s[i].exp \in Nat /\ s[i].exp <= t + TTL
    BY GoodEntry
  <2>2. CASE s[i].key = k
    <3>1. Len(r) \in 1..Len(r) /\ r[Len(r)] = e
      BY <1>4, <1>5
    <3>2. e.exp >= s[i].exp
      BY <1>1, <2>1
    <3>3. QED BY <1>1, <2>2, <3>1, <3>2
  <2>3. CASE s[i].key # k
    <3>1. PICK j \in 1..Len(p) : p[j] = s[i]
      BY <1>3, <2>3
    <3>2. j \in 1..Len(r) /\ r[j] = s[i]
      BY <1>4, <1>5, <3>1
    <3>3. QED BY <2>1, <3>2
  <2>4. QED BY <2>2, <2>3
<1>11. QED BY <1>8, <1>9, <1>10 DEF e, r

\* Writing adds an entry only for a new key, so a store that is not full for
\* the key stays within its capacity.
LEMMA PutFits ==
    ASSUME NEW t \in Nat, NEW u \in Nat, t <= u, NEW s, GoodData(s, t),
           NEW k \in Keys, NEW v \in Values,
           Len(s) <= MaxEntries, ~Full(s, k)
    PROVE  Len(Put(s, k, v, u)) <= MaxEntries
<1> DEFINE p == Pop(s, k)
<1>1. /\ GoodData(p, t)
      /\ HasKey(s, k) => Len(p) = Len(s) - 1
      /\ ~HasKey(s, k) => Len(p) = Len(s)
  BY PopProps
<1>2. Len(s) \in Nat /\ Len(p) \in Nat /\ p \in Seq(Entries)
  BY <1>1, GoodEntry
<1>3. Len(p) + 1 <= MaxEntries
  BY <1>1, <1>2, StoreConstants DEF Full
<1> HIDE DEF p
<1>4. [key |-> k, exp |-> u + TTL, val |-> v] \in Entries
  BY StoreConstants DEF Entries
<1>5. Len(Append(p, [key |-> k, exp |-> u + TTL, val |-> v])) = Len(p) + 1
  BY <1>2, <1>4
<1>6. QED BY <1>3, <1>5 DEF Put, p

\* A dictionary good at one reading of the clock is good at a later one.
LEMMA GoodLater ==
    ASSUME NEW t \in Nat, NEW u \in Nat, t <= u, NEW s, GoodData(s, t)
    PROVE  GoodData(s, u)
<1>1. \A i \in 1..Len(s) : s[i].exp <= u + TTL
  BY GoodEntry, StoreConstants
<1>2. QED BY <1>1 DEF GoodData

\* What the eviction loop leaves is a good dictionary: the entries after the
\* first n.
LEMMA EvictedProps ==
    ASSUME NEW t \in Nat, NEW s, GoodData(s, t), NEW n \in 0..Len(s)
    PROVE  /\ GoodData(Evicted(s, n), t)
           /\ Len(Evicted(s, n)) = Len(s) - n
           /\ \A j \in 1..(Len(s) - n) :
                j + n \in 1..Len(s) /\ Evicted(s, n)[j] = s[j + n]
<1> DEFINE r == Evicted(s, n)
<1>1. s \in Seq(Entries) /\ Len(s) \in Nat
  BY GoodEntry
<1>2. /\ r \in Seq(Entries) /\ Len(r) = Len(s) - n
      /\ \A j \in 1..(Len(s) - n) : r[j] = s[j + n]
  BY <1>1 DEF Evicted
<1>3. \A j \in 1..(Len(s) - n) : j + n \in 1..Len(s)
  BY <1>1
<1> HIDE DEF r
<1>4. GoodData(r, t)
  <2>1. ASSUME NEW i \in 1..Len(r), NEW j \in 1..Len(r), r[i].key = r[j].key
        PROVE  i = j
    <3>1. i + n = j + n
      BY <1>2, <1>3, <2>1 DEF GoodData
    <3>2. QED BY <1>1, <1>2, <3>1
  <2>2. ASSUME NEW i \in 1..Len(r), NEW j \in 1..Len(r), i < j
        PROVE  r[i].exp <= r[j].exp
    <3>1. i + n < j + n
      BY <1>1, <1>2, <2>2
    <3>2. QED BY <1>2, <1>3, <3>1 DEF GoodData
  <2>3. \A i \in 1..Len(r) : r[i].exp <= t + TTL
    BY <1>2, <1>3 DEF GoodData
  <2>4. QED BY <1>2, <2>1, <2>2, <2>3 DEF GoodData
<1>5. QED BY <1>2, <1>3, <1>4 DEF r

\* The loop stops at the first live entry, and misses nothing behind it.
LEMMA EvictsProps ==
    ASSUME NEW t \in Nat, NEW u \in Nat, NEW s, GoodData(s, t),
           NEW n \in 0..Len(s), Evicts(s, u, n)
    PROVE  /\ \A j \in 1..Len(Evicted(s, n)) :
                /\ u < Evicted(s, n)[j].exp
                /\ \E i \in 1..Len(s) : Evicted(s, n)[j] = s[i]
           /\ \A i \in 1..Len(s) :
                u < s[i].exp => \E j \in 1..Len(Evicted(s, n)) : Evicted(s, n)[j] = s[i]
<1> DEFINE r == Evicted(s, n)
<1>1. /\ Len(r) = Len(s) - n
      /\ \A j \in 1..(Len(s) - n) : j + n \in 1..Len(s) /\ r[j] = s[j + n]
  BY EvictedProps
<1>2. /\ Len(s) \in Nat
      /\ \A i \in 1..Len(s) : s[i].exp \in Nat
  BY GoodEntry
<1> HIDE DEF r
<1>3. ASSUME NEW j \in 1..Len(r)
      PROVE  u < r[j].exp /\ \E i \in 1..Len(s) : r[j] = s[i]
  <2>1. j + n \in 1..Len(s) /\ r[j] = s[j + n]
    BY <1>1
  <2>2. n + 1 \in 1..Len(s) /\ u < s[n + 1].exp
    BY <1>1, <1>2 DEF Evicts
  <2>3. s[n + 1].exp <= s[j + n].exp
    <3>1. CASE j = 1
      BY <1>2, <2>2, <3>1
    <3>2. CASE j > 1
      <4>1. n + 1 < j + n
        BY <1>1, <1>2, <3>2
      <4>2. QED BY <2>1, <2>2, <4>1 DEF GoodData
    <3>3. QED BY <1>1, <1>2, <3>1, <3>2
  <2>4. QED BY <1>2, <2>1, <2>2, <2>3
<1>4. ASSUME NEW i \in 1..Len(s), u < s[i].exp
      PROVE  \E j \in 1..Len(r) : r[j] = s[i]
  <2>1. ~(i \in 1..n)
    BY <1>2, <1>4 DEF Evicts
  <2>2. i - n \in 1..(Len(s) - n) /\ (i - n) + n = i
    BY <1>2, <2>1
  <2>3. r[i - n] = s[i]
    BY <1>1, <2>2
  <2>4. QED BY <1>1, <2>2, <2>3
<1>5. QED BY <1>3, <1>4 DEF r

-----------------------------------------------------------------------------
(* The inductive invariant: the dictionary and the locks.                  *)

DataInv ==
    /\ now \in 0..MaxTime
    /\ GoodData(data, now)
    /\ CapacityRespected

\* A caller inside transition() holds the stripe of its key.
StripeHeld ==
    \A c \in Callers :
        stage[c] # "idle" =>
            keyOf[c] \in Keys /\ stripes[StripeOf[keyOf[c]]] = c

ControlInv ==
    /\ stripes \in [Stripes -> Callers \cup {Free}]
    /\ stage \in [Callers -> Stages]
    /\ keyOf \in [Callers -> Keys \cup {None}]
    /\ current \in [Callers -> Values \cup {None}]
    /\ newState \in [Callers -> Values \cup {None}]
    /\ StripeHeld

StoreInv == DataInv /\ ControlInv

\* The invariant gives the properties.
LEMMA StoreInvImplies == StoreInv => StoreTypeOK /\ OrderMatchesExpiry /\ CapacityRespected
BY DEF StoreInv, DataInv, ControlInv, StoreTypeOK, OrderMatchesExpiry, GoodData

\* Two callers inside transition() work on different stripes.
LEMMA StripesExclude ==
    ASSUME ControlInv, NEW c \in Callers, NEW d \in Callers, c # d,
           stage[c] # "idle", stage[d] # "idle"
    PROVE  StripeOf[keyOf[c]] # StripeOf[keyOf[d]] /\ keyOf[c] # keyOf[d]
BY DEF ControlInv, StripeHeld

\* Leaving transition() releases the caller's stripe and no other.
LEMMA LeaveControl ==
    ASSUME ControlInv, NEW c \in Callers, stage[c] # "idle", Leave(c)
    PROVE  ControlInv'
<1> USE StoreConstants
<1>1. StripeOf[keyOf[c]] \in Stripes
  BY DEF ControlInv, StripeHeld
<1>2. /\ stripes' \in [Stripes -> Callers \cup {Free}]
      /\ stage' \in [Callers -> Stages]
      /\ keyOf' \in [Callers -> Keys \cup {None}]
      /\ current' \in [Callers -> Values \cup {None}]
      /\ newState' \in [Callers -> Values \cup {None}]
  BY DEF ControlInv, Leave, Stages
<1>3. StripeHeld'
  <2> SUFFICES ASSUME NEW d \in Callers, stage'[d] # "idle"
               PROVE  keyOf'[d] \in Keys /\ stripes'[StripeOf[keyOf'[d]]] = d
    BY DEF StripeHeld
  <2>1. d # c
    BY DEF Leave, ControlInv
  <2>2. stage'[d] = stage[d] /\ keyOf'[d] = keyOf[d]
    BY <2>1 DEF Leave, ControlInv
  <2>3. keyOf[d] \in Keys /\ stripes[StripeOf[keyOf[d]]] = d
    BY <2>2 DEF ControlInv, StripeHeld
  <2>4. StripeOf[keyOf[c]] # StripeOf[keyOf[d]]
    BY <2>1, <2>2, StripesExclude
  <2>5. QED BY <1>1, <2>2, <2>3, <2>4 DEF Leave, ControlInv
<1>4. QED BY <1>2, <1>3 DEF ControlInv

\* Every step keeps the locks in order.
LEMMA ControlStep == StoreInv /\ [StoreNext]_storeVars => ControlInv'
<1> SUFFICES ASSUME StoreInv, [StoreNext]_storeVars PROVE ControlInv'
  OBVIOUS
<1> USE StoreConstants
<1>0. ControlInv
  BY DEF StoreInv
<1>1. ASSUME UNCHANGED <<stripes, stage, keyOf, current, newState>> PROVE ControlInv'
  BY <1>0, <1>1 DEF ControlInv, StripeHeld
<1>2. ASSUME NEW k \in Keys,
             Get(k) \/ Delete(k) \/ \E v \in Values : Save(k, v)
      PROVE  ControlInv'
  BY <1>1, <1>2 DEF Get, Delete, Save
<1>3. ASSUME NEW c \in Callers, NEW k \in Keys, TransitionAcquire(c, k)
      PROVE  ControlInv'
  <2>1. /\ stripes' \in [Stripes -> Callers \cup {Free}]
        /\ stage' \in [Callers -> Stages]
        /\ keyOf' \in [Callers -> Keys \cup {None}]
        /\ UNCHANGED <<current, newState>>
    BY <1>0, <1>3 DEF TransitionAcquire, ControlInv, Stages
  <2>2. StripeHeld'
    BY <1>0, <1>3 DEF TransitionAcquire, ControlInv, StripeHeld
  <2>3. QED BY <1>0, <2>1, <2>2 DEF ControlInv
<1>4. ASSUME NEW c \in Callers, TransitionRead(c) PROVE ControlInv'
  <2>1. PICK n \in 0..Len(data), later \in now..MaxTime :
          current' = [current EXCEPT ![c] =
            IF HasKey(Evicted(data, n), keyOf[c])
               /\ later < Evicted(data, n)[IndexOf(Evicted(data, n), keyOf[c])].exp
            THEN Evicted(data, n)[IndexOf(Evicted(data, n), keyOf[c])].val
            ELSE None]
    BY <1>4 DEF TransitionRead
  <2> DEFINE rest == Evicted(data, n)
             m    == IndexOf(rest, keyOf[c])
  <2>2. GoodData(rest, now)
    BY EvictedProps, StoreConstants DEF StoreInv, DataInv
  <2>3. HasKey(rest, keyOf[c]) => rest[m].val \in Values
    BY <2>2, IndexOfProps, GoodEntry
  <2>4. current' \in [Callers -> Values \cup {None}]
    BY <1>0, <2>1, <2>3 DEF ControlInv
  <2>5. /\ UNCHANGED <<stripes, keyOf, newState>>
        /\ stage[c] = "read" /\ stage' = [stage EXCEPT ![c] = "callback"]
    BY <1>4 DEF TransitionRead
  <2>6. QED BY <1>0, <2>4, <2>5 DEF ControlInv, StripeHeld, Stages
<1>5. ASSUME NEW c \in Callers, NEW v \in Values \cup {None}, TransitionCallback(c, v)
      PROVE  ControlInv'
  BY <1>0, <1>5 DEF TransitionCallback, ControlInv, StripeHeld, Stages
<1>6. ASSUME NEW c \in Callers,
             \/ TransitionRaise(c) \/ TransitionOverload(c)
             \/ TransitionWrite(c) \/ TransitionDelete(c)
      PROVE  ControlInv'
  <2>1. stage[c] # "idle" /\ Leave(c)
    BY <1>6 DEF TransitionRaise, TransitionOverload, TransitionWrite, TransitionDelete
  <2>2. QED BY <1>0, <2>1, LeaveControl
<1>7. CASE UNCHANGED storeVars
  BY <1>1, <1>7 DEF storeVars
<1>8. ASSUME Tick PROVE ControlInv'
  BY <1>1, <1>8 DEF Tick
<1>9. QED
  BY <1>2, <1>3, <1>4, <1>5, <1>6, <1>7, <1>8 DEF StoreNext, LifecycleNext, DirectNext

\* Every step keeps the dictionary good and within its capacity, and the
\* clock never runs back.
LEMMA DataStep ==
    StoreInv /\ [StoreNext]_storeVars => DataInv' /\ now <= now'
<1> SUFFICES ASSUME StoreInv, [StoreNext]_storeVars
             PROVE  DataInv' /\ now <= now'
  OBVIOUS
<1> USE StoreConstants
<1>0. /\ now \in 0..MaxTime /\ now \in Nat
      /\ GoodData(data, now) /\ Len(data) \in Nat /\ Len(data) <= MaxEntries
  BY GoodEntry DEF StoreInv, DataInv, CapacityRespected
\* It is enough that the new dictionary is good and no longer than allowed.
<1>1. ASSUME now' \in now..MaxTime, GoodData(data', now'), Len(data') <= MaxEntries
      PROVE  DataInv' /\ now <= now'
  <2>1. now' \in 0..MaxTime /\ now <= now'
    BY <1>0, <1>1
  <2>2. QED BY <1>1, <2>1 DEF DataInv, CapacityRespected
<1>2. ASSUME UNCHANGED <<now, data>> PROVE DataInv' /\ now <= now'
  BY <1>0, <1>1, <1>2
<1>3. CASE Tick
  <2>1. now' = now + 1 /\ now' \in Nat /\ now' <= MaxTime /\ data' = data
    BY <1>0, <1>3 DEF Tick
  <2>2. GoodData(data', now')
    BY <1>0, <2>1, GoodLater
  <2>3. QED BY <1>0, <1>1, <2>1, <2>2
\* Removing one key.
<1>4. ASSUME NEW k, now' = now, data' = Pop(data, k) PROVE DataInv' /\ now <= now'
  <2>1. GoodData(Pop(data, k), now)
    BY <1>0, PopProps
  <2>2. /\ HasKey(data, k) => Len(Pop(data, k)) = Len(data) - 1
        /\ ~HasKey(data, k) => Len(Pop(data, k)) = Len(data)
    BY <1>0, PopProps
  <2>3. Len(data') <= MaxEntries
    BY <1>0, <1>4, <2>2
  <2>4. QED BY <1>0, <1>1, <1>4, <2>1, <2>3
<1>5. ASSUME NEW k \in Keys, Get(k) PROVE DataInv' /\ now <= now'
  BY <1>2, <1>4, <1>5 DEF Get
<1>6. ASSUME NEW k \in Keys, Delete(k) PROVE DataInv' /\ now <= now'
  BY <1>4, <1>6 DEF Delete
<1>7. ASSUME NEW k \in Keys, NEW v \in Values, Save(k, v) PROVE DataInv' /\ now <= now'
  <2>1. PICK n \in 0..Len(data), later \in now..MaxTime :
          /\ now' = later
          /\ data' = IF Full(Evicted(data, n), k)
                     THEN Evicted(data, n)
                     ELSE Put(Evicted(data, n), k, v, later)
    BY <1>7 DEF Save
  <2> DEFINE rest == Evicted(data, n)
  <2>2. GoodData(rest, now) /\ Len(rest) = Len(data) - n
    BY <1>0, EvictedProps
  <2>3. later \in Nat /\ now <= later /\ Len(rest) \in Nat /\ Len(rest) <= MaxEntries
    BY <1>0, <2>2
  <2>4. CASE Full(rest, k)
    <3>1. GoodData(rest, later)
      BY <1>0, <2>2, <2>3, GoodLater
    <3>2. QED BY <1>1, <2>1, <2>3, <2>4, <3>1
  <2>5. CASE ~Full(rest, k)
    <3>1. GoodData(Put(rest, k, v, later), later)
      BY <1>0, <2>2, <2>3, PutProps
    <3>2. Len(Put(rest, k, v, later)) <= MaxEntries
      BY <1>0, <2>2, <2>3, <2>5, PutFits
    <3>3. QED BY <1>1, <2>1, <2>5, <3>1, <3>2
  <2>6. QED BY <2>4, <2>5
<1>8. ASSUME NEW c \in Callers, TransitionRead(c) PROVE DataInv' /\ now <= now'
  <2>1. PICK n \in 0..Len(data), later \in now..MaxTime :
          /\ now' = later
          /\ \/ data' = Evicted(data, n)
             \/ data' = Pop(Evicted(data, n), keyOf[c])
    BY <1>8 DEF TransitionRead
  <2> DEFINE rest == Evicted(data, n)
  <2>2. GoodData(rest, now) /\ Len(rest) = Len(data) - n
    BY <1>0, EvictedProps
  <2>3. later \in Nat /\ now <= later /\ Len(rest) \in Nat /\ Len(rest) <= MaxEntries
    BY <1>0, <2>2
  <2>4. GoodData(rest, later)
    BY <1>0, <2>2, <2>3, GoodLater
  <2>5. /\ GoodData(Pop(rest, keyOf[c]), later)
        /\ HasKey(rest, keyOf[c]) => Len(Pop(rest, keyOf[c])) = Len(rest) - 1
        /\ ~HasKey(rest, keyOf[c]) => Len(Pop(rest, keyOf[c])) = Len(rest)
    BY <2>3, <2>4, PopProps
  <2>6. QED BY <1>1, <2>1, <2>3, <2>4, <2>5
<1>9. ASSUME NEW c \in Callers, NEW v \in Values \cup {None}, TransitionCallback(c, v)
      PROVE  DataInv' /\ now <= now'
  BY <1>2, <1>9 DEF TransitionCallback
<1>10. ASSUME NEW c \in Callers, TransitionRaise(c) \/ TransitionOverload(c)
       PROVE  DataInv' /\ now <= now'
  BY <1>2, <1>10 DEF TransitionRaise, TransitionOverload
<1>11. ASSUME NEW c \in Callers, TransitionWrite(c) PROVE DataInv' /\ now <= now'
  <2> DEFINE k == keyOf[c]
             r == Put(data, k, newState[c], now)
  <2>1. k \in Keys /\ newState[c] \in Values
    BY <1>11 DEF TransitionWrite, StoreInv, ControlInv, StripeHeld
  <2>2. now' = now /\ data' = r /\ ~Full(data, k)
    BY <1>11 DEF TransitionWrite
  <2>3. now <= now
    BY <1>0
  <2>4. GoodData(r, now)
    BY <1>0, <2>1, <2>3, PutProps
  <2>5. Len(r) <= MaxEntries
    BY <1>0, <2>1, <2>2, <2>3, PutFits
  <2>6. QED BY <1>0, <1>1, <2>2, <2>4, <2>5
<1>12. ASSUME NEW c \in Callers, TransitionDelete(c) PROVE DataInv' /\ now <= now'
  BY <1>4, <1>12 DEF TransitionDelete
<1>13. ASSUME NEW c \in Callers, NEW k \in Keys, TransitionAcquire(c, k)
       PROVE  DataInv' /\ now <= now'
  BY <1>2, <1>13 DEF TransitionAcquire
<1>14. CASE UNCHANGED storeVars
  BY <1>2, <1>14 DEF storeVars
<1>15. QED
  BY <1>3, <1>5, <1>6, <1>7, <1>8, <1>9, <1>10, <1>11, <1>12, <1>13, <1>14
     DEF StoreNext, LifecycleNext, DirectNext

\* The initial states satisfy the invariant.
LEMMA StoreInitInv == StoreInit => StoreInv
<1> SUFFICES ASSUME StoreInit PROVE StoreInv
  OBVIOUS
<1> USE StoreConstants
<1>1. data = <<>> /\ Len(data) = 0 /\ data \in Seq(Entries)
  BY DEF StoreInit
<1>2. DataInv
  BY <1>1 DEF StoreInit, DataInv, GoodData, CapacityRespected
<1>3. ControlInv
  BY DEF StoreInit, ControlInv, StripeHeld, Stages
<1>4. QED BY <1>2, <1>3 DEF StoreInv

\* The inductive invariant holds of every reachable state.
THEOREM StoreInvariance == StoreSpec => []StoreInv
<1>1. StoreInv /\ [StoreNext]_storeVars => StoreInv'
  BY ControlStep, DataStep DEF StoreInv
<1>2. QED BY <1>1, StoreInitInv, PTL DEF StoreSpec

\* Every variable of the in-memory store keeps its type.
THEOREM MemoryTypeCorrect == StoreSpec => []StoreTypeOK
BY StoreInvariance, StoreInvImplies, PTL

\* memory.py:11-14: insertion order is expiry order, whatever get, save, delete
\* and transition calls interleave, so evicting from the front is enough.
THEOREM MemoryOrderMatchesExpiry == StoreSpec => []OrderMatchesExpiry
BY StoreInvariance, StoreInvImplies, PTL

\* The store never holds more than max_entries mappings.
THEOREM MemoryCapacityRespected == StoreSpec => []CapacityRespected
BY StoreInvariance, StoreInvImplies, PTL

-----------------------------------------------------------------------------
(* What the read section does, in the terms of the theorems below.         *)

\* Of the entries it finds, the read section leaves only live ones and every
\* live one; of the caller's key it leaves exactly the state it hands over.
LEMMA ReadSection ==
    ASSUME StoreInv, NEW c \in Callers, TransitionRead(c)
    PROVE  /\ \A j \in 1..Len(data') :
                now < data'[j].exp /\ \E i \in 1..Len(data) : data'[j] = data[i]
           /\ \A i \in 1..Len(data) :
                now' < data[i].exp => \E j \in 1..Len(data') : data'[j] = data[i]
           /\ \A j \in 1..Len(data') :
                data'[j].key = keyOf[c] => data'[j].val = current'[c]
<1> USE StoreConstants
<1> DEFINE k == keyOf[c]
<1>1. PICK n \in 0..Len(data), later \in now..MaxTime :
        LET rest == Evicted(data, n)
            here == HasKey(rest, k)
            live == here /\ later < rest[IndexOf(rest, k)].exp
        IN  /\ Evicts(data, now, n)
            /\ now' = later
            /\ data' = IF here /\ ~live THEN Pop(rest, k) ELSE rest
            /\ current' = [current EXCEPT ![c] =
                              IF live THEN rest[IndexOf(rest, k)].val ELSE None]
  BY DEF TransitionRead
<1> DEFINE rest == Evicted(data, n)
           m    == IndexOf(rest, k)
<1>2. now \in Nat /\ later \in Nat /\ now <= later /\ GoodData(data, now)
  BY DEF StoreInv, DataInv
<1>3. GoodData(rest, now)
  BY <1>2, EvictedProps
<1>4. /\ \A j \in 1..Len(rest) :
            now < rest[j].exp /\ \E i \in 1..Len(data) : rest[j] = data[i]
      /\ \A i \in 1..Len(data) :
            now < data[i].exp => \E j \in 1..Len(rest) : rest[j] = data[i]
  BY <1>1, <1>2, EvictsProps
<1>5. /\ \A i \in 1..Len(data) : data[i].exp \in Nat
      /\ \A j \in 1..Len(rest) : rest[j].exp \in Nat
  BY <1>2, <1>3, GoodEntry
<1>6. \A i \in 1..Len(data) :
        now' < data[i].exp => \E j \in 1..Len(rest) : rest[j] = data[i]
  BY <1>1, <1>2, <1>4, <1>5
<1>7. current'[c] = IF HasKey(rest, k) /\ later < rest[m].exp THEN rest[m].val ELSE None
  BY <1>1 DEF StoreInv, ControlInv
<1>8. HasKey(rest, k) => m \in 1..Len(rest) /\ rest[m].key = k
  BY IndexOfProps
<1>9. \A j \in 1..Len(rest) : rest[j].key = k => HasKey(rest, k) /\ j = m
  BY <1>3, <1>8 DEF HasKey, GoodData
<1>10. CASE HasKey(rest, k) /\ ~(later < rest[m].exp)
  <2>1. data' = Pop(rest, k)
    BY <1>1, <1>10
  <2> HIDE DEF rest, m, k
  <2>2. /\ ~HasKey(Pop(rest, k), k)
        /\ \A j \in 1..Len(Pop(rest, k)) : \E i \in 1..Len(rest) : Pop(rest, k)[j] = rest[i]
        /\ \A i \in 1..Len(rest) :
             rest[i].key # k => \E j \in 1..Len(Pop(rest, k)) : Pop(rest, k)[j] = rest[i]
    BY <1>2, <1>3, PopProps
  <2>3. \A j \in 1..Len(data') : data'[j].key # k
    BY <2>1, <2>2 DEF HasKey
  <2>4. \A j \in 1..Len(data') :
          now < data'[j].exp /\ \E i \in 1..Len(data) : data'[j] = data[i]
    BY <1>4, <2>1, <2>2
  <2>5. ASSUME NEW i \in 1..Len(data), now' < data[i].exp
        PROVE  \E j \in 1..Len(data') : data'[j] = data[i]
    <3>1. PICK a \in 1..Len(rest) : rest[a] = data[i]
      BY <1>6, <2>5
    <3>2. rest[a].key # k
      BY <1>1, <1>9, <1>10, <2>5, <3>1
    <3>3. QED BY <2>1, <2>2, <3>1, <3>2
  <2>6. QED BY <2>3, <2>4, <2>5 DEF k
<1>11. CASE ~(HasKey(rest, k) /\ ~(later < rest[m].exp))
  <2>1. data' = rest
    BY <1>1, <1>11
  <2>2. \A j \in 1..Len(rest) : rest[j].key = k => rest[j].val = current'[c]
    BY <1>7, <1>9, <1>11
  <2> HIDE DEF rest, m
  <2>3. QED BY <1>4, <1>6, <2>1, <2>2
<1>12. QED BY <1>10, <1>11

\* memory.py:143-149: the loop that looks only at the front misses no expired
\* entry.
THEOREM MemoryEvictionComplete == StoreSpec => EvictionComplete
<1> DEFINE A == (\E c \in Callers : stage[c] = "read" /\ stage'[c] = "callback")
                => \A i \in 1..Len(data') : now < data'[i].exp
<1>1. StoreInv /\ [StoreNext]_storeVars => [A]_storeVars
  <2> SUFFICES ASSUME StoreInv, StoreNext, NEW c \in Callers,
                      stage[c] = "read", stage'[c] = "callback"
               PROVE  \A i \in 1..Len(data') : now < data'[i].exp
    OBVIOUS
  <2>0. stage \in [Callers -> Stages]
    BY DEF StoreInv, ControlInv
  <2>1. TransitionRead(c)
    <3>1. ASSUME UNCHANGED stage PROVE FALSE
      BY <3>1
    <3>2. ASSUME NEW d \in Callers, NEW x, stage' = [stage EXCEPT ![d] = x],
                 x # "callback" \/ d # c
          PROVE  FALSE
      BY <2>0, <3>2
    <3>3. ASSUME NEW k \in Keys, Get(k) \/ Delete(k) \/ \E v \in Values : Save(k, v)
          PROVE  FALSE
      BY <3>1, <3>3 DEF Get, Delete, Save
    <3>4. ASSUME Tick PROVE FALSE
      BY <3>1, <3>4 DEF Tick
    <3>5. ASSUME NEW d \in Callers, NEW k \in Keys, TransitionAcquire(d, k) PROVE FALSE
      BY <3>2, <3>5 DEF TransitionAcquire
    <3>6. ASSUME NEW d \in Callers, NEW v \in Values \cup {None}, TransitionCallback(d, v)
          PROVE  FALSE
      BY <3>2, <3>6 DEF TransitionCallback
    <3>7. ASSUME NEW d \in Callers,
                 \/ TransitionRaise(d) \/ TransitionOverload(d)
                 \/ TransitionWrite(d) \/ TransitionDelete(d)
          PROVE  FALSE
      BY <3>2, <3>7
         DEF TransitionRaise, TransitionOverload, TransitionWrite, TransitionDelete, Leave
    <3>8. ASSUME NEW d \in Callers, TransitionRead(d), d # c PROVE FALSE
      BY <3>2, <3>8 DEF TransitionRead
    <3>9. QED
      BY <3>3, <3>4, <3>5, <3>6, <3>7, <3>8 DEF StoreNext, LifecycleNext, DirectNext
  <2>2. QED BY <2>1, ReadSection
<1>2. QED BY <1>1, StoreInvariance, PTL DEF StoreSpec, EvictionComplete

-----------------------------------------------------------------------------
(* The lifecycle's calls.                                                  *)

AtomicInv == StoreInv /\ AtomicTransition

\* Only the holder of a key's stripe writes the key, so what a transition read
\* stays true until it writes.
LEMMA AtomicStep == AtomicInv /\ [LifecycleNext]_storeVars => AtomicTransition'
<1> SUFFICES ASSUME StoreInv, AtomicTransition, [LifecycleNext]_storeVars
             PROVE  AtomicTransition'
  BY DEF AtomicInv
<1> USE StoreConstants
<1> DEFINE Inside == {"callback", "write"}
<1>0. /\ now \in Nat /\ GoodData(data, now)
      /\ stage \in [Callers -> Stages] /\ keyOf \in [Callers -> Keys \cup {None}]
      /\ current \in [Callers -> Values \cup {None}] /\ ControlInv
  BY DEF StoreInv, DataInv, ControlInv
\* A step that adds no entry and changes nothing of those inside.
<1>1. ASSUME \A j \in 1..Len(data') : \E i \in 1..Len(data) : data'[j] = data[i],
             \A d \in Callers : stage'[d] \in Inside =>
                stage[d] \in Inside /\ keyOf'[d] = keyOf[d] /\ current'[d] = current[d]
      PROVE  AtomicTransition'
  BY <1>1 DEF AtomicTransition
<1>2. ASSUME data' = data
      PROVE  \A j \in 1..Len(data') : \E i \in 1..Len(data) : data'[j] = data[i]
  BY <1>2
<1>3. ASSUME UNCHANGED <<stage, keyOf, current>>
      PROVE  \A d \in Callers : stage'[d] \in Inside =>
                stage[d] \in Inside /\ keyOf'[d] = keyOf[d] /\ current'[d] = current[d]
  BY <1>3
<1>4. ASSUME NEW c \in Callers, Leave(c)
      PROVE  \A d \in Callers : stage'[d] \in Inside =>
                /\ d # c /\ stage[d] \in Inside
                /\ keyOf'[d] = keyOf[d] /\ current'[d] = current[d]
  BY <1>0, <1>4 DEF Leave
<1>5. CASE Tick \/ UNCHANGED storeVars
  BY <1>1, <1>2, <1>3, <1>5 DEF Tick, storeVars
<1>6. ASSUME NEW k \in Keys, Get(k) PROVE AtomicTransition'
  <2>1. \A j \in 1..Len(Pop(data, k)) : \E i \in 1..Len(data) : Pop(data, k)[j] = data[i]
    BY <1>0, PopProps
  <2>2. \A j \in 1..Len(data') : \E i \in 1..Len(data) : data'[j] = data[i]
    BY <1>2, <1>6, <2>1 DEF Get
  <2>3. UNCHANGED <<stage, keyOf, current>>
    BY <1>6 DEF Get
  <2>4. QED BY <1>1, <1>3, <2>2, <2>3
<1>7. ASSUME NEW c \in Callers, NEW k \in Keys, TransitionAcquire(c, k)
      PROVE  AtomicTransition'
  <2>1. \A d \in Callers : stage'[d] \in Inside =>
          stage[d] \in Inside /\ keyOf'[d] = keyOf[d] /\ current'[d] = current[d]
    BY <1>0, <1>7 DEF TransitionAcquire
  <2>2. data' = data
    BY <1>7 DEF TransitionAcquire
  <2>3. QED BY <1>1, <1>2, <2>1, <2>2
<1>8. ASSUME NEW c \in Callers, TransitionRead(c) PROVE AtomicTransition'
  <2>1. /\ \A j \in 1..Len(data') : \E i \in 1..Len(data) : data'[j] = data[i]
        /\ \A j \in 1..Len(data') : data'[j].key = keyOf[c] => data'[j].val = current'[c]
    BY <1>8, ReadSection
  <2>2. \A d \in Callers \ {c} : stage'[d] = stage[d] /\ current'[d] = current[d]
    BY <1>0, <1>8 DEF TransitionRead
  <2>3. keyOf' = keyOf
    BY <1>8 DEF TransitionRead
  <2>4. QED BY <2>1, <2>2, <2>3 DEF AtomicTransition
<1>9. ASSUME NEW c \in Callers, NEW v \in Values, TransitionCallback(c, v)
      PROVE  AtomicTransition'
  <2>1. \A d \in Callers : stage'[d] \in Inside =>
          stage[d] \in Inside /\ keyOf'[d] = keyOf[d] /\ current'[d] = current[d]
    BY <1>0, <1>9 DEF TransitionCallback
  <2>2. data' = data
    BY <1>9 DEF TransitionCallback
  <2>3. QED BY <1>1, <1>2, <2>1, <2>2
<1>10. ASSUME NEW c \in Callers, TransitionRaise(c) \/ TransitionOverload(c)
       PROVE  AtomicTransition'
  <2>1. data' = data /\ Leave(c)
    BY <1>10 DEF TransitionRaise, TransitionOverload
  <2>2. QED BY <1>1, <1>2, <1>4, <2>1
<1>11. ASSUME NEW c \in Callers, TransitionWrite(c) PROVE AtomicTransition'
  <2> DEFINE k == keyOf[c]
             e == [key |-> k, exp |-> now + TTL, val |-> newState[c]]
  <2>1. k \in Keys /\ newState[c] \in Values /\ stage[c] # "idle" /\ Leave(c)
    BY <1>11 DEF TransitionWrite, StoreInv, ControlInv, StripeHeld
  <2>2. data' = Put(data, k, newState[c], now)
    BY <1>11 DEF TransitionWrite
  <2>3. now <= now
    BY <1>0
  <2>4. \A j \in 1..Len(Put(data, k, newState[c], now)) :
          \/ Put(data, k, newState[c], now)[j] = e
          \/ \E i \in 1..Len(data) :
                Put(data, k, newState[c], now)[j] = data[i] /\ data[i].key # k
    BY ONLY <1>0, <2>1, <2>3, PutProps
  <2>5. e.key = k
    OBVIOUS
  <2> HIDE DEF e
  <2>6. ASSUME NEW d \in Callers, stage'[d] \in Inside, NEW j \in 1..Len(data'),
               data'[j].key = keyOf'[d]
        PROVE  data'[j].val = current'[d]
    <3>1. /\ d # c /\ stage[d] \in Inside
          /\ keyOf'[d] = keyOf[d] /\ current'[d] = current[d]
      BY <1>4, <2>1, <2>6
    <3>2. k # keyOf[d]
      BY <1>0, <2>1, <3>1, StripesExclude
    <3>3. QED BY <2>2, <2>4, <2>5, <2>6, <3>1, <3>2 DEF AtomicTransition
  <2>7. QED BY <2>6 DEF AtomicTransition
<1>12. QED
  BY <1>5, <1>6, <1>7, <1>8, <1>9, <1>10, <1>11 DEF LifecycleNext

\* The same inductive invariant, with atomicity, under the lifecycle's calls.
THEOREM LifecycleInvariance == LifecycleSpec => []AtomicInv
<1>1. StoreInit => AtomicInv
  <2>1. StoreInit => AtomicTransition
    BY DEF StoreInit, AtomicTransition
  <2>2. QED BY <2>1, StoreInitInv DEF AtomicInv
<1>2. AtomicInv /\ [LifecycleNext]_storeVars => AtomicInv'
  BY AtomicStep, ControlStep, DataStep DEF AtomicInv, StoreInv, StoreNext
<1>3. QED BY <1>1, <1>2, PTL DEF LifecycleSpec

\* base.py:36-41: as long as all writers go through transition(), its
\* read-modify-write is atomic, for every number of threads and stripes.
THEOREM MemoryTransitionAtomic == LifecycleSpec => []AtomicTransition
<1>1. AtomicInv => AtomicTransition
  BY DEF AtomicInv
<1>2. QED BY <1>1, LifecycleInvariance, PTL

\* memory.py:90-91: no call of the lifecycle drops a live mapping, or brings
\* its expiry forward.
THEOREM MemoryLiveNeverEvicted == LifecycleSpec => LiveNeverEvicted
<1> DEFINE Kept(i) == \E j \in 1..Len(data') :
                        /\ data'[j].key = data[i].key
                        /\ data'[j].exp >= data[i].exp
           A == \A i \in 1..Len(data) : now' < data[i].exp => Kept(i)
<1>1. AtomicInv /\ [LifecycleNext]_storeVars => [A]_storeVars
  <2> SUFFICES ASSUME StoreInv, LifecycleNext, NEW i \in 1..Len(data), now' < data[i].exp
               PROVE  Kept(i)
    BY DEF AtomicInv
  <2> USE StoreConstants
  <2>0. now \in Nat /\ GoodData(data, now) /\ now <= now
    BY DEF StoreInv, DataInv
  <2>1. data[i].exp \in Nat
    BY <2>0, GoodEntry
  <2>2. ASSUME NEW j \in 1..Len(data'), data'[j] = data[i] PROVE Kept(i)
    BY <2>1, <2>2
  <2>3. ASSUME data' = data PROVE Kept(i)
    BY <2>2, <2>3
  <2>4. ASSUME NEW k \in Keys, Get(k) PROVE Kept(i)
    <3>1. CASE data' = data
      BY <2>3, <3>1
    <3>2. CASE data' # data
      <4> DEFINE m == IndexOf(data, k)
      <4>1. HasKey(data, k) /\ data[m].exp <= now /\ data' = Pop(data, k) /\ now' = now
        BY <2>4, <3>2 DEF Get
      <4>2. m \in 1..Len(data) /\ data[m].key = k
        BY <4>1, IndexOfProps
      <4> HIDE DEF m
      <4>3. i # m
        BY <2>0, <2>1, <4>1
      <4>4. data[i].key # k
        BY <2>0, <4>2, <4>3 DEF GoodData
      <4>5. \A a \in 1..Len(data) : data[a].key # k =>
              \E j \in 1..Len(Pop(data, k)) : Pop(data, k)[j] = data[a]
        BY ONLY <2>0, PopProps
      <4>6. QED BY <2>2, <4>1, <4>4, <4>5
    <3>3. QED BY <3>1, <3>2
  <2>5. ASSUME NEW c \in Callers, TransitionRead(c) PROVE Kept(i)
    <3>1. \E j \in 1..Len(data') : data'[j] = data[i]
      BY <2>5, ReadSection
    <3>2. QED BY <2>2, <3>1
  <2>6. ASSUME NEW c \in Callers, TransitionWrite(c) PROVE Kept(i)
    <3>1. /\ keyOf[c] \in Keys /\ newState[c] \in Values
          /\ data' = Put(data, keyOf[c], newState[c], now)
      BY <2>6 DEF TransitionWrite, StoreInv, ControlInv, StripeHeld
    <3>2. QED BY <2>0, <3>1, PutProps
  <2>7. CASE Tick
    BY <2>3, <2>7 DEF Tick
  <2>8. ASSUME NEW c \in Callers,
               \/ \E k \in Keys : TransitionAcquire(c, k)
               \/ \E v \in Values : TransitionCallback(c, v)
               \/ TransitionRaise(c) \/ TransitionOverload(c)
        PROVE  Kept(i)
    BY <2>3, <2>8
       DEF TransitionAcquire, TransitionCallback, TransitionRaise, TransitionOverload
  <2>9. QED BY <2>4, <2>5, <2>6, <2>7, <2>8 DEF LifecycleNext
<1>2. QED BY <1>1, LifecycleInvariance, PTL DEF LifecycleSpec, LiveNeverEvicted
=============================================================================

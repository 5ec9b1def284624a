---------------------------- MODULE CanLinkProofs ----------------------------
(***************************************************************************)
(* The reassembly of CAN messages, for any senders, messages, numbers of     *)
(* sessions and session numbers: the table stays sound, what is handed on is  *)
(* whole, and a message that nothing disturbs arrives once.                  *)
(***************************************************************************)
EXTENDS CanLink, FiniteSetTheorems, SequenceTheorems, WellFoundedInduction, TLAPS

\* Every set of naturals has a least element: of the sets of what is below one
\* of its elements, one has none of the others as a proper subset.
LEMMA LeastNatural ==
    ASSUME NEW S \in SUBSET Nat, S /= {}
    PROVE  \E n \in S : \A m \in S : n <= m
<1> DEFINE Below(n) == {m \in S : m < n}
           T == {Below(n) : n \in S}
<1>1. ASSUME NEW n \in S PROVE IsFiniteSet(Below(n)) /\ Below(n) \in SUBSET Nat
  <2>1. n \in Nat /\ \A s \in Nat : s < n => s <= n
    OBVIOUS
  <2>2. \A s \in Below(n) : s \in S /\ s < n
    OBVIOUS
  <2> HIDE DEF Below
  <2>3. Below(n) \in SUBSET Nat /\ \A s \in Below(n) : s <= n
    BY <2>1, <2>2
  <2> QED BY <2>1, <2>3, FS_BoundedSetOfNaturals
<1>2. T \subseteq FiniteSubsetsOf(Nat) /\ T /= {}
  BY <1>1 DEF FiniteSubsetsOf
<1>3. PICK B \in T : \A A \in T : ~(<<A, B>> \in StrictSubsetOrdering(Nat))
  <2> HIDE DEF T
  <2> QED BY <1>2, FS_StrictSubsetOrderingWellFounded, WFMin
<1>4. PICK n \in S : B = Below(n)
  OBVIOUS
<1>5. ASSUME NEW m \in S, m < n PROVE FALSE
  <2>1. Below(m) \in T /\ Below(m) \subseteq B /\ m \in B /\ m \notin Below(m)
    <3>1. m \in Nat /\ n \in Nat /\ m < n
      BY <1>5
    <3>2. \A k \in Nat : k < m => k < n
      BY <3>1
    <3>3. \A k : k \in Below(m) <=> k \in S /\ k < m
      OBVIOUS
    <3>4. \A k : k \in B <=> k \in S /\ k < n
      BY <1>4
    <3>5. Below(m) \in T
      OBVIOUS
    <3>6. ~(m < m)
      BY <3>1
    <3> HIDE DEF Below, T
    <3> QED BY <3>1, <3>2, <3>3, <3>4, <3>5, <3>6
  <2>2. Below(m) \in SUBSET Nat /\ B \in SUBSET Nat
    BY <1>4
  <2>3. <<Below(m), B>> \in StrictSubsetOrdering(Nat)
    BY <2>1, <2>2 DEF StrictSubsetOrdering
  <2> QED BY <1>3, <2>1, <2>3
<1> QED BY <1>5

-----------------------------------------------------------------------------
(* What stays of a table when only some places are kept.                     *)

\* The function that Only unfolds to exists, by the least place up to which it
\* would not.
LEMMA OnlyUnfolds ==
    ASSUME NEW A, NEW t \in Seq(A), NEW K
    PROVE  \E kept :
              /\ kept[0] = <<>>
              /\ \A n \in 1 .. Len(t) :
                    kept[n] = IF n \in K THEN Append(kept[n - 1], t[n]) ELSE kept[n - 1]
              /\ Only(t, K) = kept[Len(t)]
<1> DEFINE Step(u, n) == IF n \in K THEN Append(u, t[n]) ELSE u
           Upto(m) == {u \in [0 .. m -> Seq(A)] :
                          u[0] = <<>> /\ \A n \in 1 .. m : u[n] = Step(u[n - 1], n)}
           Bad == {m \in 0 .. Len(t) : Upto(m) = {}}
<1>1. ASSUME NEW u \in Seq(A), NEW n \in 1 .. Len(t) PROVE Step(u, n) \in Seq(A)
  BY AppendProperties
<1>2. Bad = {}
  <2> SUFFICES ASSUME Bad /= {} PROVE FALSE
    OBVIOUS
  <2>1. PICK m \in Bad : \A k \in Bad : m <= k
    <3>1. Bad \in SUBSET Nat
      OBVIOUS
    <3> HIDE DEF Bad
    <3> QED BY <3>1, LeastNatural
  <2>2. m \in 0 .. Len(t) /\ Upto(m) = {}
    BY <2>1
  <2>3. m /= 0
    <3>1. [n \in 0 .. 0 |-> <<>>] \in Upto(0)
      OBVIOUS
    <3> QED BY <2>2, <3>1
  <2>4. m \in 1 .. Len(t) /\ m - 1 \in 0 .. Len(t) /\ ~(m <= m - 1)
    BY <2>2, <2>3
  <2>5. Upto(m - 1) /= {}
    BY <2>1, <2>4
  <2>6. PICK u : u \in Upto(m - 1)
    BY <2>5
  <2>7. /\ u \in [0 .. m - 1 -> Seq(A)] /\ u[0] = <<>>
        /\ \A n \in 1 .. m - 1 : u[n] = Step(u[n - 1], n)
    BY <2>6
  <2> HIDE DEF Step, Upto, Bad
  <2> DEFINE v == [n \in 0 .. m |-> IF n = m THEN Step(u[m - 1], m) ELSE u[n]]
  <2>8. v \in [0 .. m -> Seq(A)]
    <3>1. Step(u[m - 1], m) \in Seq(A)
      BY <2>4, <2>7, <1>1
    <3>2. ASSUME NEW n \in 0 .. m, n /= m PROVE u[n] \in Seq(A)
      <4>1. n \in 0 .. m - 1
        BY <2>4, <3>2
      <4> QED BY <4>1, <2>7
    <3> QED BY <3>1, <3>2
  <2>9. ASSUME NEW n \in 1 .. m PROVE v[n] = Step(v[n - 1], n)
    <3>1. n \in 0 .. m /\ n - 1 \in 0 .. m /\ n - 1 /= m
      BY <2>4
    <3>2. v[n - 1] = u[n - 1]
      BY <3>1
    <3>3. CASE n = m
      BY <3>1, <3>2, <3>3
    <3>4. CASE n /= m
      BY <2>4, <2>7, <3>1, <3>2, <3>4
    <3> QED BY <3>3, <3>4
  <2>10. v[0] = <<>>
    BY <2>4, <2>7
  <2> HIDE DEF v
  <2>11. v \in Upto(m)
    BY <2>8, <2>9, <2>10 DEF Upto
  <2> QED BY <2>2, <2>11
<1>3. PICK u : u \in Upto(Len(t))
  <2>1. Len(t) \in 0 .. Len(t)
    OBVIOUS
  <2>2. Upto(Len(t)) /= {}
    BY <1>2, <2>1
  <2> HIDE DEF Upto
  <2> QED BY <2>2
<1> DEFINE Unfolded(f) == [n \in 0 .. Len(t) |->
                              IF n = 0 THEN <<>>
                              ELSE IF n \in K THEN Append(f[n - 1], t[n]) ELSE f[n - 1]]
<1>4. u = Unfolded(u)
  <2>1. ASSUME NEW n \in 0 .. Len(t) PROVE u[n] = Unfolded(u)[n]
    <3>1. u[0] = <<>> /\ \A k \in 1 .. Len(t) : u[k] = Step(u[k - 1], k)
      BY <1>3
    <3>2. n = 0 \/ n \in 1 .. Len(t)
      OBVIOUS
    <3> QED BY <3>1, <3>2
  <2>2. u = [n \in 0 .. Len(t) |-> u[n]]
    BY <1>3
  <2>3. Unfolded(u) = [n \in 0 .. Len(t) |-> Unfolded(u)[n]]
    OBVIOUS
  <2> HIDE DEF Unfolded
  <2> QED BY <2>1, <2>2, <2>3
<1> DEFINE f == CHOOSE g : g = Unfolded(g)
<1>5. f = Unfolded(f)
  <2> HIDE DEF Unfolded
  <2>1. \E g : g = Unfolded(g)
    BY <1>4
  <2> QED BY <2>1, Zenon
<1>6. Only(t, K) = f[Len(t)]
  BY DEF Only
<1>7. Len(t) \in Nat /\ \A n \in 0 .. Len(t) : Unfolded(f)[n] =
          IF n = 0 THEN <<>> ELSE IF n \in K THEN Append(f[n - 1], t[n]) ELSE f[n - 1]
  BY LenProperties
<1> HIDE DEF f, Unfolded
<1>8. \A n \in 0 .. Len(t) : f[n] =
          IF n = 0 THEN <<>> ELSE IF n \in K THEN Append(f[n - 1], t[n]) ELSE f[n - 1]
  BY <1>5, <1>7
<1> QED BY <1>6, <1>7, <1>8

\* What v is of the first n sessions of t: those at the places K.
KeptOf(t, K, n, v) ==
    /\ Len(v) <= n
    /\ Len(v) = n => \A k \in 1 .. n : k \in K
    /\ \A i \in 1 .. Len(v) : \E k \in 1 .. n : k \in K /\ v[i] = t[k]
    /\ \A k \in 1 .. n : k \in K => \E i \in 1 .. Len(v) : v[i] = t[k]
    /\ (\A j, k \in 1 .. n : t[j] = t[k] => j = k) =>
          \A i, j \in 1 .. Len(v) : v[i] = v[j] => i = j

LEMMA KeptAppend ==
    ASSUME NEW A, NEW t \in Seq(A), NEW K, NEW n \in 1 .. Len(t), n \in K,
           NEW v \in Seq(A), KeptOf(t, K, n - 1, v)
    PROVE  Append(v, t[n]) \in Seq(A) /\ KeptOf(t, K, n, Append(v, t[n]))
<1> DEFINE w == Append(v, t[n])
<1>1. /\ w \in Seq(A) /\ Len(w) = Len(v) + 1 /\ w[Len(v) + 1] = t[n]
      /\ \A i \in 1 .. Len(v) : w[i] = v[i]
  BY AppendProperties
<1>2. /\ Len(v) \in Nat /\ n \in Nat /\ n - 1 \in Nat /\ Len(w) \in Nat
      /\ \A k : k \in 1 .. n <=> k \in 1 .. n - 1 \/ k = n
      /\ \A i : i \in 1 .. Len(v) + 1 <=> i \in 1 .. Len(v) \/ i = Len(v) + 1
  BY <1>1
<1> HIDE DEF w
<1>3. Len(w) <= n /\ (Len(w) = n => Len(v) = n - 1)
  BY <1>1, <1>2 DEF KeptOf
<1>4. Len(w) = n => \A k \in 1 .. n : k \in K
  BY <1>2, <1>3 DEF KeptOf
<1>5. ASSUME NEW i \in 1 .. Len(w) PROVE \E k \in 1 .. n : k \in K /\ w[i] = t[k]
  <2>1. i \in 1 .. Len(v) \/ i = Len(v) + 1
    BY <1>1, <1>2
  <2>2. CASE i \in 1 .. Len(v)
    <3>1. PICK k \in 1 .. n - 1 : k \in K /\ v[i] = t[k]
      BY <2>2 DEF KeptOf
    <3> QED BY <1>1, <1>2, <2>2, <3>1
  <2>3. CASE i = Len(v) + 1
    BY <1>1, <1>2, <2>3
  <2> QED BY <2>1, <2>2, <2>3
<1>6. ASSUME NEW k \in 1 .. n, k \in K PROVE \E i \in 1 .. Len(w) : w[i] = t[k]
  BY <1>1, <1>2, <1>6 DEF KeptOf
<1>7. ASSUME \A j, k \in 1 .. n : t[j] = t[k] => j = k,
             NEW i \in 1 .. Len(w), NEW j \in 1 .. Len(w), w[i] = w[j]
      PROVE  i = j
  <2>1. \A h, k \in 1 .. n - 1 : t[h] = t[k] => h = k
    BY <1>2, <1>7
  <2>2. \A h, k \in 1 .. Len(v) : v[h] = v[k] => h = k
    BY <2>1 DEF KeptOf
  <2>3. \A h \in 1 .. Len(v) : v[h] /= t[n]
    <3> SUFFICES ASSUME NEW h \in 1 .. Len(v), v[h] = t[n] PROVE FALSE
      OBVIOUS
    <3>1. PICK k \in 1 .. n - 1 : v[h] = t[k]
      BY DEF KeptOf
    <3>2. k \in 1 .. n /\ n \in 1 .. n /\ k /= n
      BY <1>2
    <3> QED BY <1>7, <3>1, <3>2
  <2> QED BY <1>1, <1>2, <1>7, <2>2, <2>3
<1>8. KeptOf(t, K, n, w)
  BY <1>3, <1>4, <1>5, <1>6, <1>7 DEF KeptOf
<1> QED BY <1>1, <1>8 DEF w

LEMMA KeptSkip ==
    ASSUME NEW A, NEW t \in Seq(A), NEW K, NEW n \in 1 .. Len(t), n \notin K,
           NEW v \in Seq(A), KeptOf(t, K, n - 1, v)
    PROVE  KeptOf(t, K, n, v)
<1>1. /\ Len(v) \in Nat /\ n \in Nat /\ n - 1 \in Nat /\ Len(v) <= n - 1
      /\ \A k : k \in 1 .. n <=> k \in 1 .. n - 1 \/ k = n
  BY DEF KeptOf
<1>2. Len(v) <= n /\ Len(v) /= n
  BY <1>1
<1> QED BY <1>1, <1>2 DEF KeptOf

LEMMA OnlyKeeps ==
    ASSUME NEW A, NEW t \in Seq(A), NEW K
    PROVE  Only(t, K) \in Seq(A) /\ KeptOf(t, K, Len(t), Only(t, K))
<1>1. PICK kept :
          /\ kept[0] = <<>>
          /\ \A n \in 1 .. Len(t) :
                kept[n] = IF n \in K THEN Append(kept[n - 1], t[n]) ELSE kept[n - 1]
          /\ Only(t, K) = kept[Len(t)]
  BY OnlyUnfolds
<1> DEFINE Good(n) == kept[n] \in Seq(A) /\ KeptOf(t, K, n, kept[n])
           Bad == {n \in 0 .. Len(t) : ~Good(n)}
<1>2. Bad = {}
  <2> SUFFICES ASSUME Bad /= {} PROVE FALSE
    OBVIOUS
  <2>1. PICK m \in Bad : \A k \in Bad : m <= k
    <3>1. Bad \in SUBSET Nat
      OBVIOUS
    <3> HIDE DEF Bad
    <3> QED BY <3>1, LeastNatural
  <2>2. m \in 0 .. Len(t) /\ ~Good(m)
    BY <2>1
  <2>3. Good(0)
    BY <1>1, EmptySeq DEF KeptOf
  <2>4. m \in 1 .. Len(t) /\ m - 1 \in 0 .. Len(t) /\ ~(m <= m - 1)
    <3>1. m /= 0
      BY <2>2, <2>3
    <3> QED BY <2>2, <3>1
  <2>5. Good(m - 1)
    BY <2>1, <2>4
  <2>6. kept[m - 1] \in Seq(A) /\ KeptOf(t, K, m - 1, kept[m - 1])
    BY <2>5
  <2>7. kept[m] = IF m \in K THEN Append(kept[m - 1], t[m]) ELSE kept[m - 1]
    BY <1>1, <2>4
  <2>8. Good(m)
    BY <2>4, <2>6, <2>7, KeptAppend, KeptSkip
  <2> QED BY <2>2, <2>8
<1>3. Len(t) \in 0 .. Len(t)
  OBVIOUS
<1>4. Good(Len(t))
  BY <1>2, <1>3
<1> QED BY <1>1, <1>4
-----------------------------------------------------------------------------
(* The table through the operations of the adapter.                          *)

\* A session whose counter, bitmap and bytes agree, of a message its sender may
\* send.
Sound(x) ==
    /\ x \in Sessions
    /\ Len(x.buffer) = x.count /\ x.received \subseteq 1 .. x.count
    /\ x.received_count = Cardinality(x.received)
    /\ x.received = {n \in 1 .. x.count : x.buffer[n] /= Nothing}
    /\ x.crc[1] = x.source /\ x.crc[2] \in Sends[x.source] /\ x.count = Length[x.crc[2]]

OneEach(t) == \A j, k \in DOMAIN t : Key(t[j]) = Key(t[k]) => j = k

Table(t) == t \in Seq(Sessions) /\ OneEach(t) /\ \A k \in DOMAIN t : Sound(t[k])
Open(t) == Table(t) /\ Len(t) <= MaxSessions /\ \A k \in DOMAIN t : ~IsFull(t[k])

LEMMA OnlyFacts ==
    ASSUME NEW t, Table(t), NEW K
    PROVE  LET u == Only(t, K) IN
           /\ Table(u) /\ Len(u) <= Len(t)
           /\ Len(u) = Len(t) => DOMAIN t \subseteq K
           /\ \A i \in DOMAIN u : \E k \in DOMAIN t : k \in K /\ u[i] = t[k]
           /\ \A k \in DOMAIN t : k \in K => \E i \in DOMAIN u : u[i] = t[k]
<1> DEFINE u == Only(t, K)
<1>1. t \in Seq(Sessions) /\ DOMAIN t = 1 .. Len(t)
  BY DEF Table
<1>2. u \in Seq(Sessions) /\ KeptOf(t, K, Len(t), u) /\ DOMAIN u = 1 .. Len(u)
  BY <1>1, OnlyKeeps
<1> HIDE DEF u
<1>3. \A j, k \in DOMAIN t : t[j] = t[k] => j = k
  BY DEF Table, OneEach
<1>4. \A i, j \in DOMAIN u : u[i] = u[j] => i = j
  BY <1>1, <1>2, <1>3 DEF KeptOf
<1>5. \A i \in DOMAIN u : \E k \in DOMAIN t : k \in K /\ u[i] = t[k]
  BY <1>1, <1>2 DEF KeptOf
<1>6. ASSUME NEW i \in DOMAIN u, NEW j \in DOMAIN u, Key(u[i]) = Key(u[j])
      PROVE  i = j
  <2>1. PICK k, l \in DOMAIN t : u[i] = t[k] /\ u[j] = t[l]
    BY <1>5
  <2>2. k = l
    BY <1>6, <2>1 DEF Table, OneEach
  <2> QED BY <1>4, <2>1, <2>2
<1>7. Table(u)
  BY <1>2, <1>5, <1>6 DEF Table, OneEach
<1>8. /\ Len(u) <= Len(t)
      /\ Len(u) = Len(t) => DOMAIN t \subseteq K
      /\ \A k \in DOMAIN t : k \in K => \E i \in DOMAIN u : u[i] = t[k]
  BY <1>1, <1>2 DEF KeptOf
<1> QED BY <1>5, <1>7, <1>8 DEF u

LEMMA OpenOnly ==
    ASSUME NEW t, Open(t), NEW K
    PROVE  Open(Only(t, K))
<1>1. Table(t) /\ Len(t) \in Nat
  BY DEF Open, Table
<1>2. Len(Only(t, K)) \in Nat
  BY <1>1, OnlyFacts DEF Table
<1> QED BY <1>1, <1>2, OnlyFacts, CanLinkAssumption DEF Open

LEMMA KeysOf ==
    ASSUME NEW t
    PROVE  /\ \A k \in DOMAIN t : Key(t[k]) \in Keys(t)
           /\ \A key \in Keys(t) : \E k \in DOMAIN t : key = Key(t[k])
<1> QED BY DEF Keys

\* The scan of the timeouts drops sessions and changes none.
LEMMA ScanFacts ==
    ASSUME NEW t, Open(t)
    PROVE  LET u == ScanTimeouts(t) IN
           /\ Open(u) /\ Keys(u) \subseteq Keys(t)
           /\ \A k \in DOMAIN t : Key(t[k]) \in Keys(u) => \E i \in DOMAIN u : u[i] = t[k]
           /\ \A i \in DOMAIN u : \E k \in DOMAIN t : u[i] = t[k]
<1> DEFINE K == {k \in DOMAIN t : Alive(t[k])}
           u == Only(t, K)
<1>1. Table(t)
  BY DEF Open
<1>2. Open(u)
  BY OpenOnly
<1>3. /\ \A i \in DOMAIN u : \E k \in DOMAIN t : k \in K /\ u[i] = t[k]
      /\ \A k \in DOMAIN t : k \in K => \E i \in DOMAIN u : u[i] = t[k]
  <2> HIDE DEF K
  <2> QED BY <1>1, OnlyFacts
<1> HIDE DEF K, u
<1>4. Keys(u) \subseteq Keys(t)
  BY <1>3 DEF Keys
<1>5. ASSUME NEW k \in DOMAIN t, Key(t[k]) \in Keys(u)
      PROVE  \E i \in DOMAIN u : u[i] = t[k]
  <2>1. PICK i \in DOMAIN u : Key(u[i]) = Key(t[k])
    BY <1>5 DEF Keys
  <2>2. PICK j \in DOMAIN t : u[i] = t[j]
    BY <1>3
  <2>3. j = k
    BY <1>1, <2>1, <2>2 DEF Table, OneEach
  <2> QED BY <2>2, <2>3
<1>6. ScanTimeouts(t) = u
  BY DEF ScanTimeouts, u, K
<1> QED BY <1>2, <1>3, <1>4, <1>5, <1>6

LEMMA NewSound ==
    ASSUME NEW s \in Senders, NEW id \in 0 .. SessionMod - 1, NEW m \in Sends[s], NEW x,
           x = NewSession(s, Sof(s, id, m))
    PROVE  /\ Sound(x) /\ ~IsFull(x) /\ Key(x) = <<s, id>>
           /\ x.crc = <<s, m>> /\ x.received = {}
<1>1. m \in Messages /\ Length[m] \in Nat \ {0}
  BY CanLinkAssumption
<1> DEFINE b == [n \in 1 .. Length[m] |-> Nothing]
<1>2. b \in Seq(Fragments \cup {Nothing}) /\ Len(b) = Length[m]
      /\ \A n \in 1 .. Length[m] : b[n] = Nothing
  BY <1>1, IsASeq
<1> HIDE DEF b
<1>3. x = [source |-> s, sid |-> id, crc |-> <<s, m>>, count |-> Length[m],
           received |-> {}, received_count |-> 0, idle |-> 0, buffer |-> b]
  BY DEF NewSession, Sof, b
<1>4. x \in Sessions
  BY <1>1, <1>2, <1>3, CanLinkAssumption DEF Sessions
<1>5. Cardinality({}) = 0
  BY FS_EmptySet
<1>6. {n \in 1 .. Length[m] : b[n] /= Nothing} = {}
  BY <1>2
<1>7. Sound(x)
  BY <1>1, <1>2, <1>3, <1>4, <1>5, <1>6 DEF Sound
<1> QED BY <1>1, <1>3, <1>7 DEF IsFull, Key

\* A start frame makes room for its session, which replaces an older one of its
\* key; all others come from the table.
LEMMA SofFacts ==
    ASSUME NEW t, Open(t), NEW s \in Senders, NEW id \in 0 .. SessionMod - 1,
           NEW m \in Sends[s]
    PROVE  LET u == HandleSof(s, Sof(s, id, m), t) IN
           /\ Open(u)
           /\ \E i \in DOMAIN u : u[i] = NewSession(s, Sof(s, id, m))
           /\ \A i \in DOMAIN u : u[i] = NewSession(s, Sof(s, id, m)) \/ \E k \in DOMAIN t : u[i] = t[k]
           /\ \A i \in DOMAIN u : Key(u[i]) = <<s, id>> => u[i] = NewSession(s, Sof(s, id, m))
<1> DEFINE f == Sof(s, id, m)
           x == NewSession(s, f)
           K == {k \in DOMAIN t : Key(t[k]) /= <<s, id>>}
           others == Only(t, K)
           room == IF Len(others) < Len(t) \/ Len(t) < MaxSessions THEN others ELSE Tail(t)
           u == Append(room, x)
<1>1. Sound(x) /\ ~IsFull(x) /\ Key(x) = <<s, id>>
  BY NewSound
<1>2. f.sid = id
  BY DEF Sof
<1>3. HandleSof(s, f, t) = u
  BY <1>2 DEF HandleSof, Without
<1>4. Table(t) /\ t \in Seq(Sessions) /\ Len(t) \in Nat /\ Len(t) <= MaxSessions
      /\ DOMAIN t = 1 .. Len(t) /\ \A k \in DOMAIN t : ~IsFull(t[k])
  BY DEF Open, Table
<1>5. \A k : k \in K <=> k \in DOMAIN t /\ Key(t[k]) /= <<s, id>>
  OBVIOUS
<1>6. /\ Open(others) /\ Len(others) <= Len(t)
      /\ Len(others) = Len(t) => DOMAIN t \subseteq K
      /\ \A i \in DOMAIN others : \E k \in DOMAIN t : k \in K /\ others[i] = t[k]
  <2> HIDE DEF K, room, u, x, f
  <2>1. Open(others)
    BY OpenOnly
  <2> QED BY <1>4, <2>1, OnlyFacts
<1> HIDE DEF f, x, K, others
<1>7. others \in Seq(Sessions) /\ Len(others) \in Nat /\ DOMAIN others = 1 .. Len(others)
      /\ Table(others)
  BY <1>6 DEF Open, Table
<1>8. /\ Table(room) /\ room \in Seq(Sessions) /\ Len(room) < MaxSessions
      /\ \A i \in DOMAIN room : /\ Key(room[i]) /= <<s, id>>
                                /\ \E k \in DOMAIN t : room[i] = t[k]
  <2>1. CASE Len(others) < Len(t) \/ Len(t) < MaxSessions
    <3>1. room = others
      BY <2>1
    <3>2. Len(others) < MaxSessions
      <4>1. Len(others) <= Len(t) /\ MaxSessions \in Nat
        BY <1>6, CanLinkAssumption
      <4> HIDE DEF room, u
      <4> QED BY <1>4, <1>7, <2>1, <4>1
    <3> HIDE DEF room
    <3> QED BY <1>5, <1>6, <1>7, <3>1, <3>2
  <2>2. CASE ~(Len(others) < Len(t) \/ Len(t) < MaxSessions)
    <3>1. room = Tail(t)
      BY <2>2
    <3>2. Len(others) = Len(t) /\ Len(t) = MaxSessions /\ t /= <<>>
      <4>1. Len(others) <= Len(t) /\ MaxSessions \in Nat \ {0}
        BY <1>6, CanLinkAssumption
      <4> HIDE DEF room, u
      <4>2. ~(Len(others) < Len(t)) /\ ~(Len(t) < MaxSessions)
        BY <2>2
      <4>3. Len(others) = Len(t) /\ Len(t) = MaxSessions
        <5>1. Len(t) \in Nat /\ Len(others) \in Nat /\ Len(t) <= MaxSessions
          BY <1>4, <1>7
        <5> QED BY <4>1, <4>2, <5>1
      <4> QED BY <1>4, <4>1, <4>3
    <3>3. /\ Tail(t) \in Seq(Sessions) /\ Len(Tail(t)) = Len(t) - 1
          /\ \A i \in 1 .. Len(t) - 1 : Tail(t)[i] = t[i + 1]
      BY <1>4, <3>2, HeadTailProperties
    <3> HIDE DEF room
    <3>4. DOMAIN room = 1 .. Len(t) - 1 /\ Len(room) < MaxSessions
      BY <1>4, <3>1, <3>2, <3>3
    <3>5. \A i \in DOMAIN room : i + 1 \in DOMAIN t /\ room[i] = t[i + 1]
      BY <1>4, <3>1, <3>3, <3>4
    <3>6. OneEach(room)
      <4> SUFFICES ASSUME NEW i \in DOMAIN room, NEW j \in DOMAIN room,
                          Key(room[i]) = Key(room[j])
                   PROVE  i = j
        BY DEF OneEach
      <4>1. i + 1 = j + 1
        BY <1>4, <3>5 DEF Table, OneEach
      <4> QED BY <3>4, <4>1
    <3>7. Table(room)
      BY <1>4, <3>1, <3>3, <3>5, <3>6 DEF Table
    <3>8. \A k \in DOMAIN t : Key(t[k]) /= <<s, id>>
      BY <1>5, <1>6, <3>2
    <3> QED BY <3>1, <3>3, <3>4, <3>5, <3>7, <3>8
  <2> QED BY <2>1, <2>2
<1> HIDE DEF room
<1>9. x \in Sessions
  BY <1>1 DEF Sound
<1>10. /\ u \in Seq(Sessions) /\ Len(u) = Len(room) + 1 /\ u[Len(room) + 1] = x
       /\ \A i \in 1 .. Len(room) : u[i] = room[i]
       /\ DOMAIN u = 1 .. Len(u)
  BY <1>8, <1>9, AppendProperties
<1>11. /\ Len(room) \in Nat /\ DOMAIN room = 1 .. Len(room)
       /\ Len(room) + 1 \in DOMAIN u
       /\ \A i \in DOMAIN u : i \in DOMAIN room \/ i = Len(room) + 1
  BY <1>8, <1>10
<1> HIDE DEF u
<1>12. \A i \in DOMAIN u :
          \/ i \in DOMAIN room /\ u[i] = room[i]
          \/ i = Len(room) + 1 /\ u[i] = x
  BY <1>10, <1>11
<1>13. OneEach(u)
  BY <1>1, <1>8, <1>12 DEF Table, OneEach
<1>14. \A i \in DOMAIN u : Sound(u[i]) /\ ~IsFull(u[i])
  BY <1>1, <1>4, <1>8, <1>12 DEF Table
<1>15. Open(u)
  BY <1>8, <1>10, <1>11, <1>13, <1>14, CanLinkAssumption DEF Open, Table
<1>16. /\ \E i \in DOMAIN u : u[i] = x
       /\ \A i \in DOMAIN u : u[i] = x \/ \E k \in DOMAIN t : u[i] = t[k]
       /\ \A i \in DOMAIN u : Key(u[i]) = <<s, id>> => u[i] = x
  BY <1>8, <1>10, <1>11, <1>12
<1> QED BY <1>3, <1>15, <1>16 DEF f, x

\* A fragment that is accepted keeps counter, bitmap and bytes in step.
LEMMA StoreFacts ==
    ASSUME NEW x, Sound(x), NEW s \in Senders, NEW id \in 0 .. SessionMod - 1,
           NEW m \in Messages, NEW n \in 1 .. Length[m], NEW f, f = Data(s, id, m, n),
           Accepts(x, s, f), NEW y, y = StoreFragment(x, f)
    PROVE  /\ Sound(y) /\ Key(y) = Key(x) /\ y.crc = x.crc /\ y.count = x.count
           /\ y.received = x.received \cup {n} /\ y.buffer[n] = <<s, m, n>>
           /\ \A k \in x.received : y.buffer[k] = x.buffer[k]
<1>1. f.seq = n /\ f.bytes = <<s, m, n>> /\ f.sid = id
  BY DEF Data
<1>2. x \in Sessions /\ x.buffer \in Seq(Fragments \cup {Nothing}) /\ Len(x.buffer) = x.count
      /\ x.count \in Nat /\ x.received \subseteq 1 .. x.count /\ x.received_count \in Nat
  BY DEF Sound, Sessions
<1>3. n \in 1 .. x.count /\ n \in Nat /\ n \notin x.received
  <2>1. n <= x.count /\ n \notin x.received
    BY <1>1 DEF Accepts
  <2>2. Length[m] \in Nat
    BY CanLinkAssumption
  <2> QED BY <1>2, <2>1, <2>2
<1>4. <<s, m, n>> \in Fragments /\ <<s, m, n>> /= Nothing
  BY <1>3, CanLinkAssumption DEF Fragments
<1> DEFINE b == [x.buffer EXCEPT ![n] = <<s, m, n>>]
           r == x.received \cup {n}
<1>5. /\ b \in Seq(Fragments \cup {Nothing}) /\ Len(b) = x.count /\ b[n] = <<s, m, n>>
      /\ \A k \in 1 .. x.count : k /= n => b[k] = x.buffer[k]
  BY <1>2, <1>3, <1>4, ExceptSeq
<1>6. y = [x EXCEPT !.buffer = b, !.received = r, !.received_count = x.received_count + 1,
                    !.idle = 0]
  BY <1>1, <1>2 DEF StoreFragment, Sessions
<1>7. r \subseteq 1 .. x.count /\ r \in SUBSET Nat
  BY <1>2, <1>3
<1>8. Cardinality(r) = x.received_count + 1
  <2>1. IsFiniteSet(x.received)
    <3>1. IsFiniteSet(1 .. x.count)
      BY <1>2, FS_Interval
    <3> QED BY <1>2, <3>1, FS_Subset
  <2>2. Cardinality(r) = Cardinality(x.received) + 1
    BY <1>3, <2>1, FS_AddElement
  <2> QED BY <2>2 DEF Sound
<1>9. r = {k \in 1 .. x.count : b[k] /= Nothing}
  <2>1. x.received = {k \in 1 .. x.count : x.buffer[k] /= Nothing}
    BY DEF Sound
  <2> HIDE DEF b
  <2>2. \A k \in 1 .. x.count : b[k] /= Nothing <=> k \in r
    BY <1>3, <1>4, <1>5, <2>1
  <2> HIDE DEF r
  <2> QED BY <1>7, <2>2
<1> HIDE DEF b, r
<1>10. /\ y \in Sessions /\ y.buffer = b /\ y.received = r /\ y.crc = x.crc
       /\ y.received_count = x.received_count + 1 /\ y.count = x.count
       /\ y.source = x.source /\ y.sid = x.sid
  <2>1. x.received_count + 1 \in Nat /\ 0 \in 0 .. Timeout + 1
    BY <1>2, CanLinkAssumption
  <2> QED BY <1>2, <1>5, <1>6, <1>7, <2>1 DEF Sessions
<1>11. Sound(y)
  BY <1>5, <1>7, <1>8, <1>9, <1>10 DEF Sound
<1>12. \A k \in x.received : y.buffer[k] = x.buffer[k]
  BY <1>2, <1>3, <1>5, <1>10
<1> QED BY <1>5, <1>10, <1>11, <1>12 DEF Key, r

\* A data frame changes the session of its key and no other.
LEMMA DataFacts ==
    ASSUME NEW t, Open(t), NEW s \in Senders, NEW id \in 0 .. SessionMod - 1,
           NEW m \in Messages, NEW n \in 1 .. Length[m],
           NEW f, f = Data(s, id, m, n), NEW u, u = HandleData(s, f, t)
    PROVE  /\ Table(u) /\ DOMAIN u = DOMAIN t /\ Len(u) = Len(t)
           /\ \A k \in DOMAIN t :
                 /\ Key(u[k]) = Key(t[k])
                 /\ u[k] = IF Accepts(t[k], s, f) THEN StoreFragment(t[k], f) ELSE t[k]
                 /\ Key(t[k]) /= <<s, id>> => u[k] = t[k]
                 /\ IsFull(u[k]) => Key(u[k]) = <<s, id>>
<1>1. t \in Seq(Sessions) /\ DOMAIN t = 1 .. Len(t) /\ Len(t) \in Nat
  BY DEF Open, Table
<1>2. u = [k \in DOMAIN t |-> IF Accepts(t[k], s, f) THEN StoreFragment(t[k], f) ELSE t[k]]
  BY DEF HandleData
<1>3. f.sid = id
  BY DEF Data
<1>4. ASSUME NEW k \in DOMAIN t
      PROVE  /\ u[k] = IF Accepts(t[k], s, f) THEN StoreFragment(t[k], f) ELSE t[k]
             /\ Sound(u[k]) /\ Key(u[k]) = Key(t[k]) /\ u[k] \in Sessions
             /\ Key(t[k]) /= <<s, id>> => u[k] = t[k]
             /\ IsFull(u[k]) => Key(u[k]) = <<s, id>>
  <2>1. u[k] = IF Accepts(t[k], s, f) THEN StoreFragment(t[k], f) ELSE t[k]
    BY <1>2
  <2>2. Sound(t[k]) /\ ~IsFull(t[k])
    BY DEF Open, Table
  <2>3. CASE Accepts(t[k], s, f)
    <3>1. u[k] = StoreFragment(t[k], f) /\ Key(t[k]) = <<s, id>>
      BY <1>3, <2>1, <2>3 DEF Accepts
    <3>2. Sound(u[k]) /\ Key(u[k]) = Key(t[k])
      BY <2>2, <2>3, <3>1, StoreFacts
    <3> QED BY <2>1, <3>1, <3>2 DEF Sound
  <2>4. CASE ~Accepts(t[k], s, f)
    BY <2>1, <2>2, <2>4 DEF Sound
  <2> QED BY <2>3, <2>4
<1>5. u \in Seq(Sessions) /\ DOMAIN u = DOMAIN t /\ Len(u) = Len(t)
  <2>1. u \in [1 .. Len(t) -> Sessions]
    BY <1>1, <1>2, <1>4
  <2> QED BY <1>1, <2>1
<1>6. OneEach(u)
  BY <1>4, <1>5 DEF Open, Table, OneEach
<1> QED BY <1>4, <1>5, <1>6 DEF Table

\* A session that is full is closed, the others stay.
LEMMA CloseFacts ==
    ASSUME NEW t, Table(t), Len(t) <= MaxSessions, NEW u, u = CloseFull(t)
    PROVE  /\ Open(u)
           /\ \A i \in DOMAIN u : \E k \in DOMAIN t : u[i] = t[k]
           /\ \A k \in DOMAIN t : IF IsFull(t[k]) THEN Key(t[k]) \notin Keys(u)
                                                  ELSE \E i \in DOMAIN u : u[i] = t[k]
<1> DEFINE K == {k \in DOMAIN t : ~IsFull(t[k])}
<1>1. u = Only(t, K)
  BY DEF CloseFull
<1>2. \A k : k \in K <=> k \in DOMAIN t /\ ~IsFull(t[k])
  OBVIOUS
<1> HIDE DEF K
<1>3. /\ Table(u) /\ Len(u) <= Len(t)
      /\ \A i \in DOMAIN u : \E k \in DOMAIN t : k \in K /\ u[i] = t[k]
      /\ \A k \in DOMAIN t : k \in K => \E i \in DOMAIN u : u[i] = t[k]
  BY <1>1, OnlyFacts
<1>4. Len(u) <= MaxSessions
  <2>1. Len(u) \in Nat /\ Len(t) \in Nat /\ MaxSessions \in Nat
    BY <1>3, CanLinkAssumption DEF Table
  <2> QED BY <1>3, <2>1
<1>5. Open(u)
  BY <1>2, <1>3, <1>4 DEF Open
<1>6. ASSUME NEW k \in DOMAIN t, IsFull(t[k]), Key(t[k]) \in Keys(u) PROVE FALSE
  <2>1. PICK i \in DOMAIN u : Key(u[i]) = Key(t[k])
    BY <1>6 DEF Keys
  <2>2. PICK j \in DOMAIN t : j \in K /\ u[i] = t[j]
    BY <1>3
  <2>3. j = k
    BY <2>1, <2>2 DEF Table, OneEach
  <2> QED BY <1>2, <1>6, <2>2, <2>3
<1> QED BY <1>2, <1>3, <1>5, <1>6
-----------------------------------------------------------------------------
(* What a sender has left to write.                                          *)

LEMMA FunctionSeq ==
    ASSUME NEW A, NEW n \in Nat, NEW u \in [1 .. n -> A]
    PROVE  u \in Seq(A) /\ Len(u) = n
<1>1. u \in Seq(A)
  BY SeqDef
<1> QED BY <1>1, LenProperties

LEMMA FramesSent ==
    ASSUME NEW s \in Senders, NEW id \in 0 .. SessionMod - 1, NEW m \in Messages,
           NEW n \in 0 .. Length[m]
    PROVE  FrameOf(s, id, m, n) \in Frames
<1>1. CASE n = 0
  BY <1>1 DEF FrameOf, Frames
<1>2. CASE n /= 0
  <2>1. n \in 1 .. Length[m]
    BY <1>2, CanLinkAssumption
  <2>2. Data(s, id, m, n) \in {Data(p, k, m, j) : p \in Senders, k \in 0 .. SessionMod - 1,
                                                  j \in 1 .. Length[m]}
    BY <2>1
  <2> QED BY <1>2, <2>2 DEF FrameOf, Frames
<1> QED BY <1>1, <1>2

LEMMA RestFacts ==
    ASSUME NEW s \in Senders, NEW id \in 0 .. SessionMod - 1, NEW m \in Messages,
           NEW n \in 0 .. Length[m], NEW u, u = Rest(s, id, m, n)
    PROVE  /\ u \in Seq(Frames) /\ u /= <<>> /\ Head(u) = FrameOf(s, id, m, n)
           /\ Tail(u) \in Seq(Frames)
           /\ n = Length[m] => Tail(u) = <<>>
           /\ n /= Length[m] => n + 1 \in 1 .. Length[m] /\ Tail(u) = Rest(s, id, m, n + 1)
<1>1. Length[m] \in Nat \ {0} /\ n \in Nat /\ n <= Length[m]
  BY CanLinkAssumption
<1>2. PICK L : L \in Nat /\ L = Length[m] + 1 - n /\ L > 0 /\ n + L = Length[m] + 1
  BY <1>1
<1>3. ASSUME NEW k \in 1 .. L PROVE n + k - 1 \in 0 .. Length[m]
  BY <1>1, <1>2
<1>4. u = [k \in 1 .. L |-> FrameOf(s, id, m, n + k - 1)]
  BY <1>2 DEF Rest
<1>5. \A k \in 1 .. L : FrameOf(s, id, m, n + k - 1) \in Frames
  BY <1>3, FramesSent
<1>6. u \in Seq(Frames) /\ Len(u) = L /\ \A k \in 1 .. L : u[k] = FrameOf(s, id, m, n + k - 1)
  <2>1. u \in [1 .. L -> Frames]
    BY <1>4, <1>5
  <2>2. u \in Seq(Frames) /\ Len(u) = L
    BY <1>2, <2>1, FunctionSeq
  <2> QED BY <1>4, <2>2
<1>7. u /= <<>> /\ Head(u) = FrameOf(s, id, m, n)
  <2>1. n + 1 - 1 = n /\ 1 \in 1 .. L
    BY <1>1, <1>2
  <2>2. u[1] = FrameOf(s, id, m, n)
    BY <1>6, <2>1
  <2>3. u /= <<>>
    BY <1>2, <1>6
  <2> QED BY <1>6, <2>2, <2>3, HeadTailProperties
<1>8. /\ Tail(u) \in Seq(Frames) /\ Len(Tail(u)) = L - 1
      /\ \A k \in 1 .. L - 1 : Tail(u)[k] = u[k + 1]
  BY <1>6, <1>7, HeadTailProperties
<1>9. ASSUME n = Length[m] PROVE Tail(u) = <<>>
  <2>1. L - 1 = 0
    BY <1>1, <1>2, <1>9
  <2>2. Tail(u) \in Seq(Frames) /\ Len(Tail(u)) = 0
    BY <1>8, <2>1
  <2> QED BY <2>2, EmptySeq
<1>10. ASSUME n /= Length[m]
       PROVE  n + 1 \in 1 .. Length[m] /\ Tail(u) = Rest(s, id, m, n + 1)
  <2>1. n + 1 \in 1 .. Length[m] /\ Length[m] + 1 - (n + 1) = L - 1 /\ L - 1 \in Nat
    BY <1>1, <1>2, <1>10
  <2>2. \A k \in 1 .. L - 1 : k + 1 \in 1 .. L /\ n + (k + 1) - 1 = (n + 1) + k - 1
    BY <1>1, <1>2
  <2> DEFINE v == [k \in 1 .. L - 1 |-> FrameOf(s, id, m, (n + 1) + k - 1)]
  <2>3. Rest(s, id, m, n + 1) = v
    BY <2>1 DEF Rest
  <2>4. \A k \in 1 .. L - 1 : Tail(u)[k] = v[k]
    BY <1>6, <1>8, <2>2
  <2>5. v \in Seq(Frames) /\ Len(v) = L - 1
    <3>1. \A k \in 1 .. L - 1 : FrameOf(s, id, m, (n + 1) + k - 1) \in Frames
      BY <1>5, <2>2
    <3>2. v \in [1 .. L - 1 -> Frames]
      BY <3>1
    <3> QED BY <2>1, <3>2, FunctionSeq
  <2> HIDE DEF v
  <2>6. Tail(u) = v
    BY <1>8, <2>1, <2>4, <2>5, SeqEqual
  <2> QED BY <2>1, <2>3, <2>6
<1> QED BY <1>6, <1>7, <1>8, <1>9, <1>10

\* A whole message is the start frame with all of its data frames.
LEMMA RestWhole ==
    ASSUME NEW s \in Senders, NEW id \in 0 .. SessionMod - 1, NEW m \in Messages
    PROVE  <<Sof(s, id, m)>> \o [n \in 1 .. Length[m] |-> Data(s, id, m, n)]
              = Rest(s, id, m, 0)
<1> DEFINE a == <<Sof(s, id, m)>>
           b == [n \in 1 .. Length[m] |-> Data(s, id, m, n)]
           L == Length[m]
<1>1. L \in Nat \ {0}
  BY CanLinkAssumption
<1>2. \A n \in 0 .. L : FrameOf(s, id, m, n) \in Frames
  BY FramesSent
<1>3. a \in Seq(Frames) /\ Len(a) = 1 /\ a[1] = FrameOf(s, id, m, 0)
  <2>1. FrameOf(s, id, m, 0) = Sof(s, id, m) /\ 0 \in 0 .. L
    BY <1>1 DEF FrameOf
  <2> QED BY <1>2, <2>1
<1>4. b \in Seq(Frames) /\ Len(b) = L /\ \A n \in 1 .. L : b[n] = FrameOf(s, id, m, n)
  <2>1. \A n \in 1 .. L : Data(s, id, m, n) = FrameOf(s, id, m, n) /\ n \in 0 .. L
    BY <1>1 DEF FrameOf
  <2>2. b \in [1 .. L -> Frames]
    BY <1>2, <2>1
  <2> QED BY <1>1, <2>1, <2>2
<1> HIDE DEF a, b
<1>5. /\ a \o b \in Seq(Frames) /\ Len(a \o b) = L + 1
      /\ \A k \in 1 .. L + 1 : (a \o b)[k] = IF k <= 1 THEN a[k] ELSE b[k - 1]
  <2>1. Len(a) + Len(b) = L + 1
    BY <1>1, <1>3, <1>4
  <2> HIDE DEF L
  <2>2. a \in Seq(Frames) /\ b \in Seq(Frames) /\ Len(a) = 1
    BY <1>3, <1>4
  <2>3. /\ a \o b \in Seq(Frames) /\ Len(a \o b) = Len(a) + Len(b)
        /\ \A k \in 1 .. Len(a) + Len(b) :
              (a \o b)[k] = IF k <= Len(a) THEN a[k] ELSE b[k - Len(a)]
    BY <2>2, ConcatProperties
  <2> QED BY <2>1, <2>2, <2>3
<1>6. ASSUME NEW k \in 1 .. L + 1 PROVE (a \o b)[k] = FrameOf(s, id, m, 0 + k - 1)
  <2>1. CASE k = 1
    <3>1. 0 + 1 - 1 = 0 /\ 1 <= 1
      OBVIOUS
    <3> QED BY <1>3, <1>5, <2>1, <3>1
  <2>2. CASE k /= 1
    <3>1. k - 1 \in 1 .. L /\ ~(k <= 1) /\ 0 + k - 1 = k - 1
      BY <1>1, <2>2
    <3> QED BY <1>4, <1>5, <3>1
  <2> QED BY <2>1, <2>2
<1> DEFINE r == [k \in 1 .. L + 1 |-> FrameOf(s, id, m, 0 + k - 1)]
<1>7. Rest(s, id, m, 0) = r
  <2>1. Length[m] + 1 - 0 = L + 1
    BY <1>1
  <2> QED BY <2>1 DEF Rest
<1>8. r \in Seq(Frames) /\ Len(r) = L + 1 /\ \A k \in 1 .. L + 1 : r[k] = (a \o b)[k]
  <2>1. \A k \in 1 .. L + 1 : 0 + k - 1 \in 0 .. L
    BY <1>1
  <2>2. r \in [1 .. L + 1 -> Frames]
    BY <1>2, <2>1
  <2>3. L + 1 \in Nat
    BY <1>1
  <2>4. r \in Seq(Frames) /\ Len(r) = L + 1
    BY <2>2, <2>3, FunctionSeq
  <2> QED BY <1>6, <2>4
<1> HIDE DEF r, L
<1>9. a \o b = r
  BY <1>5, <1>8, SeqEqual
<1> QED BY <1>7, <1>9 DEF a, b
-----------------------------------------------------------------------------
(* The invariant, in the terms of the lemmas.                                *)

Typed ==
    /\ next_session_id \in [Senders -> 0 .. SessionMod - 1]
    /\ out \in [Senders -> Seq(Frames)]
    /\ online \in BOOLEAN
    /\ intact \in [Senders -> BOOLEAN] /\ arrivals \in [Senders -> 0 .. 2]

Inv ==
    /\ Typed /\ Open(sessions)
    /\ CompletedIsWhole /\ CutInOrder /\ ArrivedIsOver /\ IntactIsWhole

LEMMA InvMeans == Inv => CanInv
<1> SUFFICES ASSUME Inv PROVE CanInv
  OBVIOUS
<1>1. /\ sessions \in Seq(Sessions) /\ Len(sessions) <= MaxSessions
      /\ \A k \in DOMAIN sessions : Sound(sessions[k]) /\ ~IsFull(sessions[k])
      /\ OneSessionPerKey
  BY DEF Inv, Open, Table, OneEach, OneSessionPerKey
<1>2. TypeOK
  BY <1>1 DEF Inv, Typed, TypeOK, Sound
<1>3. CountAgrees
  BY <1>1 DEF CountAgrees, Sound
<1>4. \A k \in DOMAIN sessions : Unfinished(sessions[k])
  BY <1>1 DEF Unfinished, Sound
<1> QED BY <1>1, <1>2, <1>3, <1>4 DEF Inv, CanInv, SessionTable

LEMMA NumberFacts ==
    ASSUME NEW n \in 0 .. SessionMod - 1
    PROVE  /\ (n + (SessionMod - 1)) % SessionMod \in 0 .. SessionMod - 1
           /\ (n + 1) % SessionMod \in 0 .. SessionMod - 1
           /\ (((n + 1) % SessionMod) + (SessionMod - 1)) % SessionMod = n
<1> DEFINE M == SessionMod
<1>1. M \in Nat \ {0} /\ n \in Nat /\ n < M
  BY CanLinkAssumption
<1> HIDE DEF M
<1>2. (n + (M - 1)) % M \in 0 .. M - 1 /\ (n + 1) % M \in 0 .. M - 1
  BY <1>1
<1>3. CASE n + 1 = M
  <2>1. (n + 1) % M = 0
    BY <1>1, <1>3
  <2>2. (0 + (M - 1)) % M = n
    BY <1>1, <1>3
  <2> QED BY <1>2, <2>1, <2>2 DEF M
<1>4. CASE n + 1 /= M
  <2>1. (n + 1) % M = n + 1
    BY <1>1, <1>4
  <2>2. (n + M) % M = n
    BY <1>1
  <2>3. ((n + 1) + (M - 1)) = n + M
    BY <1>1
  <2>4. (((n + 1) % M) + (M - 1)) % M = n
    BY <2>1, <2>2, <2>3
  <2> QED BY <1>2, <2>4 DEF M
<1> QED BY <1>3, <1>4

LEMMA NumberTyped ==
    ASSUME Typed, NEW s \in Senders
    PROVE  Number(s) \in 0 .. SessionMod - 1 /\ Current(s) = <<s, Number(s)>>
<1> QED BY NumberFacts DEF Typed, Number, Current

\* The frame at the head tells where its sender is in a message.
LEMMA HeadOfMessage ==
    ASSUME Typed, CutInOrder, NEW s \in Senders, out[s] /= <<>>
    PROVE  \E m \in Sends[s] : \E n \in 0 .. Length[m] :
              /\ out[s] = Rest(s, Number(s), m, n)
              /\ Head(out[s]) = FrameOf(s, Number(s), m, n)
              /\ Head(out[s]).kind = IF n = 0 THEN "sof" ELSE "data"
<1>0. PICK m \in Sends[s] : \E n \in 0 .. Length[m] : out[s] = Rest(s, Number(s), m, n)
  BY DEF CutInOrder
<1>1. PICK n \in 0 .. Length[m] : out[s] = Rest(s, Number(s), m, n)
  BY <1>0
<1>2. m \in Messages
  BY CanLinkAssumption
<1>3. Head(out[s]) = FrameOf(s, Number(s), m, n)
  BY <1>1, <1>2, NumberTyped, RestFacts
<1>4. Head(out[s]).kind = IF n = 0 THEN "sof" ELSE "data"
  BY <1>3 DEF FrameOf, Sof, Data
<1> QED BY <1>1, <1>3, <1>4

\* What is left of a message is the end of one, and not its start frame.
LEMMA TailOfMessage ==
    ASSUME Typed, CutInOrder, NEW s \in Senders, out[s] /= <<>>
    PROVE  /\ Tail(out[s]) \in Seq(Frames)
           /\ Tail(out[s]) /= <<>> =>
                 /\ Head(Tail(out[s])).kind = "data"
                 /\ \E m \in Sends[s] : \E n \in 0 .. Length[m] :
                       Tail(out[s]) = Rest(s, Number(s), m, n)
<1>0. PICK m \in Sends[s] : \E n \in 0 .. Length[m] : out[s] = Rest(s, Number(s), m, n)
  BY DEF CutInOrder
<1>1. PICK n \in 0 .. Length[m] : out[s] = Rest(s, Number(s), m, n)
  BY <1>0
<1>2. m \in Messages /\ Number(s) \in 0 .. SessionMod - 1
  BY CanLinkAssumption, NumberTyped
<1>3. /\ Tail(out[s]) \in Seq(Frames)
      /\ n = Length[m] => Tail(out[s]) = <<>>
      /\ n /= Length[m] => /\ n + 1 \in 1 .. Length[m]
                           /\ Tail(out[s]) = Rest(s, Number(s), m, n + 1)
  BY <1>1, <1>2, RestFacts
<1>4. ASSUME n /= Length[m]
      PROVE  Head(Tail(out[s])).kind = "data" /\ n + 1 \in 0 .. Length[m]
  <2>0. n \in Nat /\ Length[m] \in Nat /\ n + 1 \in 1 .. Length[m]
    BY <1>2, <1>3, <1>4, CanLinkAssumption
  <2>1. n + 1 \in 0 .. Length[m] /\ n + 1 /= 0
    BY <2>0
  <2> DEFINE u == Tail(out[s])
  <2>2. u = Rest(s, Number(s), m, n + 1)
    BY <1>3, <1>4
  <2> HIDE DEF u
  <2>3. Head(u) = FrameOf(s, Number(s), m, n + 1)
    BY <1>2, <2>1, <2>2, RestFacts
  <2>4. FrameOf(s, Number(s), m, n + 1) = Data(s, Number(s), m, n + 1)
    BY <2>1 DEF FrameOf
  <2>5. Head(u).kind = "data"
    BY <2>3, <2>4 DEF Data
  <2> QED BY <2>1, <2>5 DEF u
<1> QED BY <1>3, <1>4
-----------------------------------------------------------------------------
(* The senders that a step does not concern.                                 *)

\* The last two conjuncts of the invariant, for one sender.
Over(s) ==
    arrivals[s] > 0 =>
        /\ arrivals[s] = 1
        /\ out[s] /= <<>> => Head(out[s]).kind = "data" /\ Current(s) \notin Keys(sessions)

Whole(s) ==
    intact[s] =>
        \/ out[s] = <<>> /\ arrivals[s] = 1
        \/ \E m \in Sends[s] : \E n \in 0 .. Length[m] :
              /\ out[s] = Rest(s, Number(s), m, n)
              /\ \/ n = 0 /\ arrivals[s] = 0
                 \/ n = Length[m] /\ arrivals[s] = 1
                 \/ /\ n > 0 /\ arrivals[s] = 0
                    /\ \E k \in DOMAIN sessions : UnderWay(sessions[k], s, Number(s), m, n)

LEMMA EachSender ==
    /\ ArrivedIsOver <=> \A s \in Senders : Over(s)
    /\ IntactIsWhole <=> \A s \in Senders : Whole(s)
<1> QED BY DEF ArrivedIsOver, IntactIsWhole, Over, Whole

\* A session that is like another but for the time it was idle.
Same(x, y) == Key(x) = Key(y) /\ x.crc = y.crc /\ x.received = y.received /\ x.buffer = y.buffer

LEMMA Bystander ==
    ASSUME NEW s \in Senders, Over(s), Whole(s),
           next_session_id'[s] = next_session_id[s], out'[s] = out[s],
           arrivals'[s] = arrivals[s], intact'[s] => intact[s],
           Current(s) \in Keys(sessions') => Current(s) \in Keys(sessions),
           intact'[s] => \A k \in DOMAIN sessions : Key(sessions[k]) = Current(s) =>
                            \E i \in DOMAIN sessions' : Same(sessions'[i], sessions[k])
    PROVE  Over(s)' /\ Whole(s)'
<1>1. Number(s)' = Number(s) /\ Current(s)' = Current(s) /\ Keys(sessions)' = Keys(sessions')
  BY DEF Number, Current, Keys
<1>2. Over(s)'
  BY <1>1 DEF Over
<1>3. ASSUME intact'[s], NEW m, NEW n, NEW k \in DOMAIN sessions,
             UnderWay(sessions[k], s, Number(s), m, n)
      PROVE  \E i \in DOMAIN sessions' : UnderWay(sessions'[i], s, Number(s)', m, n)
  <2>1. Key(sessions[k]) = Current(s)
    BY <1>3 DEF UnderWay, Current
  <2>2. PICK i \in DOMAIN sessions' : Same(sessions'[i], sessions[k])
    BY <1>3, <2>1
  <2> QED BY <1>1, <1>3, <2>2 DEF UnderWay, Same
<1>4. ASSUME intact'[s], ~(out[s] = <<>> /\ arrivals[s] = 1)
      PROVE  \E m \in Sends[s] : \E n \in 0 .. Length[m] :
                /\ out'[s] = Rest(s, Number(s)', m, n)
                /\ \/ n = 0 /\ arrivals'[s] = 0
                   \/ n = Length[m] /\ arrivals'[s] = 1
                   \/ /\ n > 0 /\ arrivals'[s] = 0
                      /\ \E k \in DOMAIN sessions' :
                            UnderWay(sessions'[k], s, Number(s)', m, n)
  <2>1. PICK m \in Sends[s] : \E n \in 0 .. Length[m] :
            /\ out[s] = Rest(s, Number(s), m, n)
            /\ \/ n = 0 /\ arrivals[s] = 0
               \/ n = Length[m] /\ arrivals[s] = 1
               \/ /\ n > 0 /\ arrivals[s] = 0
                  /\ \E k \in DOMAIN sessions : UnderWay(sessions[k], s, Number(s), m, n)
    BY <1>4 DEF Whole
  <2>2. PICK n \in 0 .. Length[m] :
            /\ out[s] = Rest(s, Number(s), m, n)
            /\ \/ n = 0 /\ arrivals[s] = 0
               \/ n = Length[m] /\ arrivals[s] = 1
               \/ /\ n > 0 /\ arrivals[s] = 0
                  /\ \E k \in DOMAIN sessions : UnderWay(sessions[k], s, Number(s), m, n)
    BY <2>1
  <2>3. out'[s] = Rest(s, Number(s)', m, n)
    BY <1>1, <2>2
  <2>4. \/ n = 0 /\ arrivals'[s] = 0
        \/ n = Length[m] /\ arrivals'[s] = 1
        \/ /\ n > 0 /\ arrivals'[s] = 0
           /\ \E k \in DOMAIN sessions' : UnderWay(sessions'[k], s, Number(s)', m, n)
    BY <1>3, <1>4, <2>2
  <2> QED BY <2>3, <2>4
<1>5. Whole(s)'
  BY <1>4 DEF Whole
<1> QED BY <1>2, <1>5

\* Sessions that come from a table unchanged are those of their keys.
LEMMA Survivors ==
    ASSUME NEW key, NEW t, Open(t), NEW u,
           \A i \in DOMAIN u : Key(u[i]) = key => \E k \in DOMAIN t : u[i] = t[k]
    PROVE  key \in Keys(u) =>
              /\ key \in Keys(t)
              /\ \A k \in DOMAIN t : Key(t[k]) = key => \E i \in DOMAIN u : Same(u[i], t[k])
<1> SUFFICES ASSUME key \in Keys(u)
             PROVE  /\ key \in Keys(t)
                    /\ \A k \in DOMAIN t : Key(t[k]) = key => \E i \in DOMAIN u : Same(u[i], t[k])
  OBVIOUS
<1>1. PICK i \in DOMAIN u : Key(u[i]) = key
  BY DEF Keys
<1>2. PICK j \in DOMAIN t : u[i] = t[j]
  BY <1>1
<1>3. key \in Keys(t)
  BY <1>1, <1>2 DEF Keys
<1>4. ASSUME NEW k \in DOMAIN t, Key(t[k]) = key PROVE Same(u[i], t[k])
  <2>1. j = k
    BY <1>1, <1>2, <1>4 DEF Open, Table, OneEach
  <2> QED BY <1>2, <2>1 DEF Same
<1> QED BY <1>3, <1>4

\* A session that meets the next fragment of its message, for the first time or
\* again, has all up to it, and is full and right with the last one.
LEMMA UnderWayReads ==
    ASSUME NEW s \in Senders, NEW id \in 0 .. SessionMod - 1, NEW m \in Messages,
           NEW n \in 1 .. Length[m], NEW f, f = Data(s, id, m, n),
           NEW x, Sound(x), UnderWay(x, s, id, m, n),
           NEW y, y = IF Accepts(x, s, f) THEN StoreFragment(x, f) ELSE x
    PROVE  /\ Sound(y) /\ UnderWay(y, s, id, m, n) /\ y.received = 1 .. n
           /\ IsFull(y) <=> n = Length[m]
           /\ IsFull(y) => CrcRight(y)
<1>1. n \in Nat /\ Length[m] \in Nat /\ 1 <= n /\ n <= Length[m]
  BY CanLinkAssumption
<1>2. x.crc = <<s, m>> /\ Key(x) = <<s, id>> /\ x.received \in {1 .. n - 1, 1 .. n}
      /\ \A k \in x.received : x.buffer[k] = <<s, m, k>>
  BY DEF UnderWay
<1>3. x.count = Length[m]
  BY <1>2 DEF Sound
<1>4. f.sid = id /\ f.seq = n
  BY DEF Data
<1>5. n \in 1 .. n /\ n \notin 1 .. n - 1 /\ (1 .. n - 1) \cup {n} = 1 .. n
  BY <1>1
<1>6. /\ Sound(y) /\ Key(y) = <<s, id>> /\ y.crc = <<s, m>> /\ y.count = Length[m]
      /\ y.received = 1 .. n /\ \A k \in y.received : y.buffer[k] = <<s, m, k>>
  <2>1. CASE x.received = 1 .. n - 1
    <3>1. Accepts(x, s, f)
      BY <1>1, <1>2, <1>3, <1>4, <1>5, <2>1 DEF Accepts
    <3>2. y = StoreFragment(x, f)
      BY <3>1
    <3>3. /\ Sound(y) /\ Key(y) = Key(x) /\ y.crc = x.crc /\ y.count = x.count
          /\ y.received = x.received \cup {n} /\ y.buffer[n] = <<s, m, n>>
          /\ \A k \in x.received : y.buffer[k] = x.buffer[k]
      BY <3>1, <3>2, StoreFacts
    <3> QED BY <1>2, <1>3, <1>5, <2>1, <3>3
  <2>2. CASE x.received = 1 .. n
    <3>1. ~Accepts(x, s, f)
      BY <1>4, <1>5, <2>2 DEF Accepts
    <3> QED BY <1>2, <1>3, <2>2, <3>1
  <2> QED BY <1>2, <2>1, <2>2
<1>7. UnderWay(y, s, id, m, n)
  BY <1>6 DEF UnderWay
<1>8. Cardinality(1 .. n) = n
  <2>1. n - 1 + 1 = n
    BY <1>1
  <2> QED BY <1>1, FS_Interval
<1>9. IsFull(y) <=> n = Length[m]
  <2>1. y.received_count = n /\ y.count = Length[m]
    BY <1>6, <1>8 DEF Sound
  <2> QED BY <1>1, <2>1 DEF IsFull
<1>10. ASSUME IsFull(y) PROVE CrcRight(y)
  <2>1. y.buffer \in Seq(Fragments \cup {Nothing}) /\ Len(y.buffer) = n
    BY <1>6, <1>9, <1>10 DEF Sound, Sessions
  <2>2. y.buffer = [k \in 1 .. n |-> y.buffer[k]]
    BY <2>1
  <2>3. \A k \in 1 .. n : y.buffer[k] = <<y.crc[1], y.crc[2], k>>
    BY <1>6
  <2>4. y.count = n
    BY <1>6, <1>9, <1>10
  <2> QED BY <2>2, <2>3, <2>4 DEF CrcRight
<1> QED BY <1>6, <1>7, <1>9, <1>10
-----------------------------------------------------------------------------
(* The invariant through the steps of a sender.                              *)

LEMMA InvInit == Init => Inv
<1> SUFFICES ASSUME Init PROVE Inv
  OBVIOUS
<1>1. Typed
  <2>1. 0 \in 0 .. SessionMod - 1 /\ 0 \in 0 .. 2 /\ <<>> \in Seq(Frames)
    BY CanLinkAssumption
  <2> QED BY <2>1 DEF Init, Typed
<1>2. Open(sessions)
  BY CanLinkAssumption DEF Init, Open, Table, OneEach
<1>3. CompletedIsWhole /\ CutInOrder /\ ArrivedIsOver /\ IntactIsWhole
  BY DEF Init, CompletedIsWhole, NoMsg, CutInOrder, ArrivedIsOver, IntactIsWhole
<1> QED BY <1>1, <1>2, <1>3 DEF Inv

\* A step that touches neither the table nor what has been handed on.
LEMMA SenderStep ==
    ASSUME Inv, NEW s \in Senders, Typed', UNCHANGED sessions, complete_msg' = NoMsg,
           CutInOrder', Over(s)', Whole(s)',
           \A p \in Senders \ {s} :
              /\ next_session_id'[p] = next_session_id[p] /\ out'[p] = out[p]
              /\ arrivals'[p] = arrivals[p] /\ intact'[p] = intact[p]
    PROVE  Inv'
<1>1. ASSUME NEW p \in Senders, p /= s PROVE Over(p)' /\ Whole(p)'
  <2>1. Over(p) /\ Whole(p)
    BY EachSender DEF Inv
  <2>2. \A k \in DOMAIN sessions : Same(sessions[k], sessions[k])
    BY DEF Same
  <2> QED BY <1>1, <2>1, <2>2, Bystander
<1>2. ArrivedIsOver' /\ IntactIsWhole'
  <2>1. \A p \in Senders : Over(p)' /\ Whole(p)'
    BY <1>1
  <2> QED BY <2>1 DEF ArrivedIsOver, IntactIsWhole, Over, Whole
<1>3. Open(sessions)'
  BY DEF Inv, Open, Table, OneEach
<1>4. CompletedIsWhole'
  BY DEF CompletedIsWhole, NoMsg
<1> QED BY <1>2, <1>3, <1>4 DEF Inv

LEMMA InvFragmentTx ==
    ASSUME Inv, NEW s \in Senders, NEW m \in Sends[s], FragmentTx(s, m)
    PROVE  Inv'
<1> DEFINE id == next_session_id[s]
<1>1. Typed /\ id \in 0 .. SessionMod - 1 /\ m \in Messages
  BY CanLinkAssumption DEF Inv, Typed
<1>2. out' = [out EXCEPT ![s] = Rest(s, id, m, 0)]
  BY <1>1, RestWhole DEF FragmentTx
<1>3. /\ next_session_id' = [next_session_id EXCEPT ![s] = (id + 1) % SessionMod]
      /\ intact' = [intact EXCEPT ![s] = TRUE] /\ arrivals' = [arrivals EXCEPT ![s] = 0]
      /\ complete_msg' = NoMsg /\ UNCHANGED <<online, sessions>>
  BY DEF FragmentTx
<1>4. (id + 1) % SessionMod \in 0 .. SessionMod - 1 /\ Number(s)' = id
  <2>1. next_session_id'[s] = (id + 1) % SessionMod
    BY <1>1, <1>3 DEF Typed
  <2> QED BY <1>1, <2>1, NumberFacts DEF Number
<1>5. 0 \in 0 .. Length[m]
  BY <1>1, CanLinkAssumption
<1>6. Rest(s, id, m, 0) \in Seq(Frames)
  BY <1>1, <1>5, RestFacts
<1> HIDE DEF id
<1>7. Typed'
  BY <1>1, <1>2, <1>3, <1>4, <1>6 DEF Typed
<1>8. out'[s] = Rest(s, Number(s)', m, 0) /\ arrivals'[s] = 0
  BY <1>1, <1>2, <1>3, <1>4 DEF Typed
<1>9. /\ Over(s)' /\ Whole(s)'
      /\ \E k \in Sends[s] : \E n \in 0 .. Length[k] : out'[s] = Rest(s, Number(s)', k, n)
  BY <1>5, <1>8 DEF Over, Whole
<1>10. \A p \in Senders \ {s} :
          /\ next_session_id'[p] = next_session_id[p] /\ out'[p] = out[p]
          /\ arrivals'[p] = arrivals[p] /\ intact'[p] = intact[p]
  BY <1>1, <1>2, <1>3 DEF Typed
<1>11. CutInOrder'
  <2>1. \A p \in Senders \ {s} : Number(p)' = Number(p)
    BY <1>10 DEF Number
  <2> QED BY <1>9, <1>10, <2>1 DEF Inv, CutInOrder
<1> QED BY <1>3, <1>7, <1>9, <1>10, <1>11, SenderStep

\* The sender gives up, starts again, or loses a frame.
LEMMA InvDisturbed ==
    ASSUME Inv, NEW s \in Senders, SendFails(s) \/ SenderRestarts(s) \/ FrameLost(s)
    PROVE  Inv'
<1>1. Typed /\ CutInOrder /\ Over(s)
  BY EachSender DEF Inv
<1>2. /\ intact' = [intact EXCEPT ![s] = FALSE] /\ complete_msg' = NoMsg
      /\ UNCHANGED <<online, sessions, arrivals>>
  BY DEF SendFails, SenderRestarts, FrameLost
<1>3. /\ \/ out' = [out EXCEPT ![s] = <<>>]
         \/ /\ out[s] /= <<>> /\ out' = [out EXCEPT ![s] = Tail(out[s])]
            /\ next_session_id' = next_session_id
      /\ \/ next_session_id' = next_session_id
         \/ next_session_id' = [next_session_id EXCEPT ![s] = 0]
  BY DEF SendFails, SenderRestarts, FrameLost
<1>4. 0 \in 0 .. SessionMod - 1 /\ <<>> \in Seq(Frames)
  BY CanLinkAssumption
<1>5. out[s] /= <<>> =>
         /\ Tail(out[s]) \in Seq(Frames)
         /\ Tail(out[s]) /= <<>> =>
               /\ Head(Tail(out[s])).kind = "data"
               /\ \E m \in Sends[s] : \E n \in 0 .. Length[m] :
                     Tail(out[s]) = Rest(s, Number(s), m, n)
  BY <1>1, TailOfMessage
<1>6. Typed'
  BY <1>1, <1>2, <1>3, <1>4, <1>5 DEF Typed
<1>7. \A p \in Senders \ {s} :
         /\ next_session_id'[p] = next_session_id[p] /\ out'[p] = out[p]
         /\ arrivals'[p] = arrivals[p] /\ intact'[p] = intact[p]
  BY <1>1, <1>2, <1>3 DEF Typed
<1>8. out'[s] = <<>> \/ (out[s] /= <<>> /\ out'[s] = Tail(out[s]) /\ Number(s)' = Number(s))
  BY <1>1, <1>3 DEF Typed, Number
<1>9. CutInOrder'
  <2>1. \A p \in Senders \ {s} : Number(p)' = Number(p)
    BY <1>7 DEF Number
  <2>2. out'[s] /= <<>> => \E m \in Sends[s] : \E n \in 0 .. Length[m] :
                               out'[s] = Rest(s, Number(s)', m, n)
    BY <1>5, <1>8
  <2> QED BY <1>1, <1>7, <2>1, <2>2 DEF CutInOrder
<1>10. Over(s)'
  <2>1. out'[s] /= <<>> => Current(s)' = Current(s)
    BY <1>8 DEF Current
  <2>2. Keys(sessions)' = Keys(sessions) /\ arrivals'[s] = arrivals[s]
    BY <1>2 DEF Keys
  <2>3. ASSUME out'[s] /= <<>>
        PROVE  out[s] /= <<>> /\ Head(out'[s]).kind = "data"
    BY <1>5, <1>8, <2>3
  <2> QED BY <1>1, <2>1, <2>2, <2>3 DEF Over
<1>11. Whole(s)'
  BY <1>1, <1>2 DEF Typed, Whole
<1> QED BY <1>2, <1>6, <1>7, <1>9, <1>10, <1>11, SenderStep
-----------------------------------------------------------------------------
(* The invariant through the other steps of the adapter.                     *)

\* A message stays intact only while its session is in the table.
LEMMA Dropped ==
    ASSUME Typed, NEW u, DropAllBut(u)
    PROVE  /\ intact' \in [Senders -> BOOLEAN]
           /\ \A p \in Senders : intact'[p] =>
                 intact[p] /\ (Current(p) \in Keys(sessions) => Current(p) \in Keys(u))
<1>1. intact' = [p \in Senders |-> intact[p] /\ Current(p) \notin Keys(sessions) \ Keys(u)]
  BY DEF DropAllBut
<1>2. \A p \in Senders : intact'[p] <=> intact[p] /\ Current(p) \notin Keys(sessions) \ Keys(u)
  BY <1>1
<1>3. intact' \in [Senders -> BOOLEAN]
  BY <1>1
<1> QED BY <1>2, <1>3

\* Whoever wrote nothing and is not concerned by the step keeps its part of the
\* invariant when the table is replaced by u.
LEMMA KeepsOthers ==
    ASSUME Inv, NEW u, sessions' = u, NEW p \in Senders,
           next_session_id'[p] = next_session_id[p], out'[p] = out[p],
           arrivals'[p] = arrivals[p], intact'[p] => intact[p],
           intact'[p] => (Current(p) \in Keys(sessions) => Current(p) \in Keys(u)),
           \A i \in DOMAIN u : Key(u[i]) = Current(p) => \E k \in DOMAIN sessions : u[i] = sessions[k]
    PROVE  Over(p)' /\ Whole(p)'
<1>1. Open(sessions) /\ Over(p) /\ Whole(p)
  BY EachSender DEF Inv
<1>2. Current(p) \in Keys(u) =>
         /\ Current(p) \in Keys(sessions)
         /\ \A k \in DOMAIN sessions : Key(sessions[k]) = Current(p) =>
               \E i \in DOMAIN u : Same(u[i], sessions[k])
  BY <1>1, Survivors
<1>3. intact'[p] => \A k \in DOMAIN sessions : Key(sessions[k]) = Current(p) =>
                       \E i \in DOMAIN sessions' : Same(sessions'[i], sessions[k])
  BY <1>2, KeysOf
<1>4. Current(p) \in Keys(sessions') => Current(p) \in Keys(sessions)
  BY <1>2
<1> QED BY <1>1, <1>3, <1>4, Bystander

LEMMA InvDrops ==
    ASSUME Inv, NEW u, Open(u), sessions' = u, DropAllBut(u), complete_msg' = NoMsg,
           UNCHANGED <<senderVars, arrivals>>, online' \in BOOLEAN,
           \A i \in DOMAIN u : \E k \in DOMAIN sessions : u[i] = sessions[k]
    PROVE  Inv'
<1>1. /\ intact' \in [Senders -> BOOLEAN]
      /\ \A p \in Senders : intact'[p] =>
            intact[p] /\ (Current(p) \in Keys(sessions) => Current(p) \in Keys(u))
  BY Dropped DEF Inv
<1>2. next_session_id' = next_session_id /\ out' = out /\ arrivals' = arrivals
  BY DEF senderVars
<1>3. Typed'
  BY <1>1, <1>2 DEF Inv, Typed
<1>4. \A p \in Senders : Over(p)' /\ Whole(p)'
  BY <1>1, <1>2, KeepsOthers
<1>5. ArrivedIsOver' /\ IntactIsWhole'
  BY <1>4 DEF ArrivedIsOver, IntactIsWhole, Over, Whole
<1>6. Open(sessions)'
  BY DEF Open, Table, OneEach
<1>7. CompletedIsWhole' /\ CutInOrder'
  <2>1. \A p \in Senders : Number(p)' = Number(p)
    BY <1>2 DEF Number
  <2> QED BY <1>2, <2>1 DEF Inv, CompletedIsWhole, NoMsg, CutInOrder
<1> QED BY <1>3, <1>5, <1>6, <1>7 DEF Inv

LEMMA InvReadNothing ==
    ASSUME Inv, ReadNothing PROVE Inv'
<1> DEFINE u == ScanTimeouts(sessions)
<1>1. Open(u) /\ \A i \in DOMAIN u : \E k \in DOMAIN sessions : u[i] = sessions[k]
  BY ScanFacts DEF Inv
<1>2. sessions' = u /\ DropAllBut(u) /\ complete_msg' = NoMsg
      /\ UNCHANGED <<senderVars, arrivals>> /\ online' = online
  BY DEF ReadNothing
<1> HIDE DEF u
<1>3. online' \in BOOLEAN
  BY <1>2 DEF Inv, Typed
<1> QED BY <1>1, <1>2, <1>3, InvDrops

LEMMA InvBusOff ==
    ASSUME Inv, BusOff PROVE Inv'
<1> DEFINE u == <<>>
<1>1. Open(u) /\ \A i \in DOMAIN u : \E k \in DOMAIN sessions : u[i] = sessions[k]
  BY CanLinkAssumption DEF Open, Table, OneEach
<1>2. sessions' = u /\ DropAllBut(u) /\ complete_msg' = NoMsg
      /\ UNCHANGED <<senderVars, arrivals>> /\ online' \in BOOLEAN
  BY DEF BusOff
<1> HIDE DEF u
<1> QED BY <1>1, <1>2, InvDrops

\* The interface goes down or comes up, and steps that change nothing.
LEMMA InvInterface ==
    ASSUME Inv,
           \/ Offline \/ Reopen
           \/ UNCHANGED vars
    PROVE  Inv'
<1>1. /\ next_session_id' = next_session_id /\ out' = out /\ intact' = intact
      /\ arrivals' = arrivals /\ sessions' = sessions
      /\ online' \in BOOLEAN
      /\ complete_msg' = NoMsg \/ complete_msg' = complete_msg
  BY DEF Inv, Typed, Offline, Reopen, vars, senderVars, ghosts
<1>2. Typed' /\ Open(sessions)'
  BY <1>1 DEF Inv, Typed, Open, Table, OneEach
<1>3. \A p \in Senders : Number(p)' = Number(p) /\ Current(p)' = Current(p)
  BY <1>1 DEF Number, Current
<1>4. CompletedIsWhole'
  BY <1>1 DEF Inv, CompletedIsWhole, NoMsg
<1>5. CutInOrder'
  BY <1>1, <1>3 DEF Inv, CutInOrder
<1>6. \A p \in Senders : Over(p)' /\ Whole(p)'
  <2>1. \A i \in DOMAIN sessions : Same(sessions[i], sessions[i])
    BY DEF Same
  <2> QED BY <1>1, <2>1, EachSender, Bystander DEF Inv
<1>7. ArrivedIsOver' /\ IntactIsWhole'
  BY <1>6 DEF ArrivedIsOver, IntactIsWhole, Over, Whole
<1> QED BY <1>2, <1>4, <1>5, <1>7 DEF Inv

LEMMA InvTick ==
    ASSUME Inv, Tick PROVE Inv'
<1> DEFINE u == [k \in DOMAIN sessions |->
                    [sessions[k] EXCEPT !.idle = IF @ <= Timeout THEN @ + 1 ELSE @]]
<1>1. /\ sessions' = u /\ complete_msg' = NoMsg
      /\ next_session_id' = next_session_id /\ out' = out /\ intact' = intact
      /\ arrivals' = arrivals /\ online' = online
  BY DEF Tick, senderVars, ghosts
<1>2. /\ sessions \in Seq(Sessions) /\ Len(sessions) \in Nat /\ Len(sessions) <= MaxSessions
      /\ DOMAIN sessions = 1 .. Len(sessions) /\ OneEach(sessions)
      /\ \A k \in DOMAIN sessions : Sound(sessions[k]) /\ ~IsFull(sessions[k])
  BY DEF Inv, Open, Table
<1>3. DOMAIN u = DOMAIN sessions
  OBVIOUS
<1>4. ASSUME NEW k \in DOMAIN sessions
      PROVE  Sound(u[k]) /\ ~IsFull(u[k]) /\ Same(u[k], sessions[k])
  <2>1. PICK x : x = sessions[k]
    OBVIOUS
  <2>2. Sound(x) /\ ~IsFull(x) /\ x \in Sessions /\ x.idle \in 0 .. Timeout + 1
    BY <1>2, <2>1 DEF Sound, Sessions
  <2>3. PICK i \in 0 .. Timeout + 1 : i = IF x.idle <= Timeout THEN x.idle + 1 ELSE x.idle
    BY <2>2, CanLinkAssumption
  <2>4. u[k] = [x EXCEPT !.idle = i]
    BY <2>1, <2>2, <2>3 DEF Sessions
  <2> HIDE DEF u
  <2>5. /\ u[k] \in Sessions /\ u[k].source = x.source /\ u[k].sid = x.sid
        /\ u[k].crc = x.crc /\ u[k].count = x.count /\ u[k].received = x.received
        /\ u[k].received_count = x.received_count /\ u[k].buffer = x.buffer
    BY <2>2, <2>3, <2>4 DEF Sessions
  <2>6. Sound(u[k]) /\ ~IsFull(u[k])
    BY <2>2, <2>5 DEF Sound, IsFull
  <2> QED BY <2>1, <2>5, <2>6 DEF Same, Key
<1> HIDE DEF u
<1>5. u \in Seq(Sessions) /\ Len(u) = Len(sessions)
  <2>1. u = [k \in 1 .. Len(sessions) |-> u[k]]
    BY <1>2 DEF u
  <2>2. u \in [1 .. Len(sessions) -> Sessions]
    BY <1>2, <1>4, <2>1 DEF Sound
  <2> QED BY <1>2, <2>2, FunctionSeq
<1>6. Open(u)
  BY <1>2, <1>3, <1>4, <1>5 DEF Open, Table, OneEach, Same
<1>7. \A p \in Senders : Over(p)' /\ Whole(p)'
  <2>1. \A key \in Keys(u) : key \in Keys(sessions)
    BY <1>3, <1>4 DEF Keys, Same
  <2>2. \A k \in DOMAIN sessions : \E i \in DOMAIN u : Same(u[i], sessions[k])
    BY <1>3, <1>4
  <2> QED BY <1>1, <2>1, <2>2, EachSender, Bystander DEF Inv
<1>8. ArrivedIsOver' /\ IntactIsWhole'
  BY <1>7 DEF ArrivedIsOver, IntactIsWhole, Over, Whole
<1>9. CompletedIsWhole' /\ CutInOrder'
  <2>1. \A p \in Senders : Number(p)' = Number(p)
    BY <1>1 DEF Number
  <2> QED BY <1>1, <2>1 DEF Inv, CompletedIsWhole, NoMsg, CutInOrder
<1>10. Typed' /\ Open(sessions)'
  BY <1>1, <1>6 DEF Inv, Typed, Open, Table, OneEach
<1> QED BY <1>8, <1>9, <1>10 DEF Inv
-----------------------------------------------------------------------------
(* The invariant through a frame that is read.                               *)

LEMMA ConsumedFacts ==
    ASSUME Inv, NEW s \in Senders, out[s] /= <<>>, Consumed(s),
           next_session_id' = next_session_id
    PROVE  /\ out' \in [Senders -> Seq(Frames)] /\ CutInOrder'
           /\ out'[s] \in {out[s], Tail(out[s])}
           /\ \A p \in Senders \ {s} : out'[p] = out[p]
           /\ \A p \in Senders : Number(p)' = Number(p) /\ Current(p)' = Current(p)
<1>1. Typed /\ CutInOrder
  BY DEF Inv
<1>2. /\ Tail(out[s]) \in Seq(Frames)
      /\ Tail(out[s]) /= <<>> =>
            \E m \in Sends[s] : \E n \in 0 .. Length[m] : Tail(out[s]) = Rest(s, Number(s), m, n)
  BY <1>1, TailOfMessage
<1>3. out' = out \/ out' = [out EXCEPT ![s] = Tail(out[s])]
  BY DEF Consumed
<1>4. /\ out' \in [Senders -> Seq(Frames)] /\ out'[s] \in {out[s], Tail(out[s])}
      /\ \A p \in Senders \ {s} : out'[p] = out[p]
  BY <1>1, <1>2, <1>3 DEF Typed
<1>5. \A p \in Senders : Number(p)' = Number(p) /\ Current(p)' = Current(p)
  BY DEF Number, Current
<1>6. CutInOrder'
  BY <1>1, <1>2, <1>4, <1>5 DEF CutInOrder
<1> QED BY <1>4, <1>5, <1>6

LEMMA InvReadSof ==
    ASSUME Inv, NEW s \in Senders, ReadSof(s)
    PROVE  Inv'
<1> DEFINE id == Number(s)
           f == Head(out[s])
           t == ScanTimeouts(sessions)
           u == HandleSof(s, f, t)
<1>1. Typed /\ CutInOrder /\ Open(sessions) /\ Over(s) /\ Whole(s)
  BY EachSender DEF Inv
<1>2. /\ out[s] /= <<>> /\ f.kind = "sof" /\ sessions' = u /\ Consumed(s) /\ DropAllBut(u)
      /\ complete_msg' = NoMsg /\ next_session_id' = next_session_id
      /\ online' = online /\ arrivals' = arrivals
  BY DEF ReadSof
<1>3. PICK m \in Sends[s] : f = Sof(s, id, m)
  <2>1. PICK m \in Sends[s] : \E n \in 0 .. Length[m] :
            f = FrameOf(s, id, m, n) /\ f.kind = IF n = 0 THEN "sof" ELSE "data"
    BY <1>1, <1>2, HeadOfMessage
  <2>2. PICK n \in 0 .. Length[m] :
            f = FrameOf(s, id, m, n) /\ f.kind = IF n = 0 THEN "sof" ELSE "data"
    BY <2>1
  <2>3. n = 0
    BY <1>2, <2>2
  <2> QED BY <2>2, <2>3 DEF FrameOf
<1>4. id \in 0 .. SessionMod - 1 /\ Current(s) = <<s, id>>
  BY <1>1, NumberTyped
<1>5. Open(t) /\ \A i \in DOMAIN t : \E k \in DOMAIN sessions : t[i] = sessions[k]
  BY <1>1, ScanFacts
<1>6. /\ out' \in [Senders -> Seq(Frames)] /\ CutInOrder'
      /\ out'[s] \in {out[s], Tail(out[s])}
      /\ \A p \in Senders \ {s} : out'[p] = out[p]
      /\ \A p \in Senders : Number(p)' = Number(p) /\ Current(p)' = Current(p)
  BY <1>2, ConsumedFacts
<1> HIDE DEF id, f, t
<1> DEFINE x == NewSession(s, f)
<1>7. /\ Open(u) /\ \E i \in DOMAIN u : u[i] = x
      /\ \A i \in DOMAIN u : u[i] = x \/ \E k \in DOMAIN t : u[i] = t[k]
  BY <1>3, <1>4, <1>5, SofFacts
<1>8. Key(x) = <<s, id>> /\ x.crc = <<s, m>> /\ x.received = {}
  BY <1>3, <1>4, NewSound
<1> HIDE DEF u, x
<1>9. /\ intact' \in [Senders -> BOOLEAN]
      /\ \A p \in Senders : intact'[p] =>
            intact[p] /\ (Current(p) \in Keys(sessions) => Current(p) \in Keys(u))
  BY <1>1, <1>2, Dropped
<1>10. ASSUME NEW p \in Senders, p /= s PROVE Over(p)' /\ Whole(p)'
  <2>1. ASSUME NEW i \in DOMAIN u, Key(u[i]) = Current(p)
        PROVE  \E k \in DOMAIN sessions : u[i] = sessions[k]
    <3>1. u[i] /= x
      BY <1>8, <1>10, <2>1 DEF Current
    <3> QED BY <1>5, <1>7, <3>1
  <2> QED BY <1>2, <1>6, <1>9, <1>10, <2>1, KeepsOthers
<1>11. arrivals[s] = 0
  <2>1. ~(arrivals[s] > 0)
    <3>1. f.kind /= "data"
      BY <1>2
    <3> QED BY <1>1, <1>2, <3>1 DEF Over, f
  <2>2. arrivals[s] \in 0 .. 2
    BY <1>1 DEF Typed
  <2> QED BY <2>1, <2>2
<1>12. Over(s)'
  BY <1>2, <1>11 DEF Over
<1>13. Whole(s)'
  <2> SUFFICES ASSUME intact'[s]
               PROVE  \E k \in Sends[s] : \E n \in 0 .. Length[k] :
                         /\ out'[s] = Rest(s, Number(s)', k, n)
                         /\ \/ n = 0 /\ arrivals'[s] = 0
                            \/ /\ n > 0 /\ arrivals'[s] = 0
                               /\ \E i \in DOMAIN sessions' :
                                     UnderWay(sessions'[i], s, Number(s)', k, n)
    BY DEF Whole
  <2>1. PICK k \in Sends[s] : \E n \in 0 .. Length[k] : out[s] = Rest(s, id, k, n)
    BY <1>1, <1>2, <1>9 DEF Whole, id
  <2>2. PICK n \in 0 .. Length[k] : out[s] = Rest(s, id, k, n)
    BY <2>1
  <2>3. k \in Messages /\ Length[k] \in Nat \ {0}
    BY CanLinkAssumption
  <2>4. f = FrameOf(s, id, k, n)
    BY <1>4, <2>2, <2>3, RestFacts DEF f
  <2>5. n = 0
    BY <1>2, <2>4 DEF FrameOf, Data
  <2>6. k = m
    BY <1>3, <2>4, <2>5 DEF FrameOf, Sof
  <2>7. Number(s)' = id /\ arrivals'[s] = 0
    BY <1>2, <1>6, <1>11 DEF id
  <2>8. CASE out'[s] = out[s]
    <3>1. 0 \in 0 .. Length[k]
      BY <2>3
    <3> QED BY <2>2, <2>5, <2>7, <2>8, <3>1
  <2>9. CASE out'[s] = Tail(out[s])
    <3>1. 0 + 1 \in 1 .. Length[k] /\ Tail(out[s]) = Rest(s, id, k, 0 + 1)
      BY <1>4, <2>2, <2>3, <2>5, RestFacts
    <3>2. 0 + 1 = 1 /\ 1 > 0 /\ 1 \in 0 .. Length[k] /\ 1 .. (1 - 1) = {}
      BY <2>3
    <3>3. PICK i \in DOMAIN sessions' : sessions'[i] = x
      BY <1>2, <1>7
    <3>4. UnderWay(sessions'[i], s, id, k, 1)
      BY <1>8, <2>6, <3>2, <3>3 DEF UnderWay
    <3> QED BY <2>7, <2>9, <3>1, <3>2, <3>4
  <2> QED BY <1>6, <2>8, <2>9
<1>14. ArrivedIsOver' /\ IntactIsWhole'
  <2>1. \A p \in Senders : Over(p)' /\ Whole(p)'
    BY <1>10, <1>12, <1>13
  <2> QED BY <2>1 DEF ArrivedIsOver, IntactIsWhole, Over, Whole
<1>15. Typed'
  BY <1>1, <1>2, <1>6, <1>9 DEF Typed
<1>16. Open(sessions)'
  BY <1>2, <1>7 DEF Open, Table, OneEach
<1>17. CompletedIsWhole'
  BY <1>2 DEF CompletedIsWhole, NoMsg
<1> QED BY <1>6, <1>14, <1>15, <1>16, <1>17 DEF Inv
LEMMA InvReadData ==
    ASSUME Inv, NEW s \in Senders, ReadData(s)
    PROVE  Inv'
<1> DEFINE id == Number(s)
           f == Head(out[s])
           t == ScanTimeouts(sessions)
           v == HandleData(s, f, t)
           u == CloseFull(v)
           done == {x \in FullIn(v) : CrcRight(x)}
<1>1. Typed /\ CutInOrder /\ Open(sessions) /\ Over(s) /\ Whole(s)
  BY EachSender DEF Inv
<1>2. /\ out[s] /= <<>> /\ f.kind = "data" /\ sessions' = u /\ Consumed(s) /\ DropAllBut(t)
      /\ complete_msg' = IF done = {} THEN NoMsg
                         ELSE LET x == CHOOSE y \in done : TRUE
                              IN [source |-> x.source, bytes |-> x.buffer]
      /\ arrivals' = [p \in Senders |->
                         IF \E x \in done : x.source = p /\ arrivals[p] < 2
                         THEN arrivals[p] + 1 ELSE arrivals[p]]
      /\ next_session_id' = next_session_id /\ online' = online
  BY DEF ReadData
<1>3. PICK m \in Sends[s], l \in Nat \ {0} : l \in 1 .. Length[m] /\ f = Data(s, id, m, l)
  <2>1. PICK m \in Sends[s] : \E n \in 0 .. Length[m] :
            f = FrameOf(s, id, m, n) /\ f.kind = IF n = 0 THEN "sof" ELSE "data"
    BY <1>1, <1>2, HeadOfMessage
  <2>2. PICK n \in 0 .. Length[m] :
            f = FrameOf(s, id, m, n) /\ f.kind = IF n = 0 THEN "sof" ELSE "data"
    BY <2>1
  <2>3. n /= 0
    BY <1>2, <2>2
  <2>4. f = Data(s, id, m, n)
    BY <2>2, <2>3 DEF FrameOf
  <2>5. Length[m] \in Nat
    BY CanLinkAssumption
  <2>6. n \in Nat \ {0} /\ n \in 1 .. Length[m]
    BY <2>2, <2>3, <2>5
  <2> QED BY <2>4, <2>6
<1>4. id \in 0 .. SessionMod - 1 /\ Current(s) = <<s, id>> /\ m \in Messages
  BY <1>1, NumberTyped, CanLinkAssumption
<1>5. /\ Open(t) /\ Keys(t) \subseteq Keys(sessions)
      /\ \A i \in DOMAIN t : \E k \in DOMAIN sessions : t[i] = sessions[k]
      /\ \A k \in DOMAIN sessions : Key(sessions[k]) \in Keys(t) => \E i \in DOMAIN t : t[i] = sessions[k]
  BY <1>1, ScanFacts
<1>6. /\ out' \in [Senders -> Seq(Frames)] /\ CutInOrder'
      /\ out'[s] \in {out[s], Tail(out[s])}
      /\ \A p \in Senders \ {s} : out'[p] = out[p]
      /\ \A p \in Senders : Number(p)' = Number(p) /\ Current(p)' = Current(p)
  BY <1>2, ConsumedFacts
<1> HIDE DEF id, f, t
<1>7. /\ Table(v) /\ DOMAIN v = DOMAIN t /\ Len(v) = Len(t)
      /\ \A k \in DOMAIN t :
            /\ Key(v[k]) = Key(t[k])
            /\ v[k] = IF Accepts(t[k], s, f) THEN StoreFragment(t[k], f) ELSE t[k]
            /\ Key(t[k]) /= <<s, id>> => v[k] = t[k]
            /\ IsFull(v[k]) => Key(v[k]) = <<s, id>>
  BY <1>3, <1>4, <1>5, DataFacts
<1> HIDE DEF v
<1>8. /\ Open(u)
      /\ \A i \in DOMAIN u : \E k \in DOMAIN v : u[i] = v[k]
      /\ \A k \in DOMAIN v : IF IsFull(v[k]) THEN Key(v[k]) \notin Keys(u)
                                             ELSE \E i \in DOMAIN u : u[i] = v[k]
  <2>1. Len(v) <= MaxSessions
    BY <1>5, <1>7 DEF Open
  <2> QED BY <1>7, <2>1, CloseFacts
<1> HIDE DEF u
<1>9. /\ intact' \in [Senders -> BOOLEAN]
      /\ \A p \in Senders : intact'[p] =>
            intact[p] /\ (Current(p) \in Keys(sessions) => Current(p) \in Keys(t))
  BY <1>1, <1>2, Dropped
<1>10. \A x \in done : /\ Sound(x) /\ IsFull(x) /\ CrcRight(x) /\ Key(x) = <<s, id>>
                       /\ x.source = s
                       /\ \E k \in DOMAIN v : x = v[k]
  <2> SUFFICES ASSUME NEW x \in done
               PROVE  /\ Sound(x) /\ IsFull(x) /\ CrcRight(x) /\ Key(x) = <<s, id>>
                      /\ x.source = s
                      /\ \E k \in DOMAIN v : x = v[k]
    OBVIOUS
  <2>1. PICK k \in DOMAIN v : x = v[k] /\ IsFull(v[k]) /\ CrcRight(x)
    BY DEF FullIn
  <2> HIDE DEF done
  <2>2. Sound(x) /\ Key(x) = <<s, id>>
    BY <1>7, <2>1 DEF Table
  <2> QED BY <2>1, <2>2 DEF Key
<1>11. \A k \in DOMAIN v : IsFull(v[k]) /\ CrcRight(v[k]) => v[k] \in done
  BY DEF FullIn
<1> HIDE DEF done
<1>12. /\ \A p \in Senders \ {s} : arrivals'[p] = arrivals[p]
       /\ arrivals'[s] = IF done /= {} /\ arrivals[s] < 2 THEN arrivals[s] + 1 ELSE arrivals[s]
  BY <1>2, <1>10
<1>13. CompletedIsWhole'
  <2>1. CASE done = {}
    BY <1>2, <2>1 DEF CompletedIsWhole, NoMsg
  <2>2. CASE done /= {}
    <3>1. PICK x \in done : complete_msg' = [source |-> x.source, bytes |-> x.buffer]
      BY <1>2, <2>2
    <3>2. Sound(x) /\ CrcRight(x)
      BY <1>10
    <3>3. /\ x.source = complete_msg'.source /\ x.buffer = complete_msg'.bytes
          /\ x.crc[1] = x.source /\ x.crc[2] \in Sends[x.source] /\ x.count = Length[x.crc[2]]
      BY <3>1, <3>2 DEF Sound
    <3>4. x.buffer = [n \in 1 .. Length[x.crc[2]] |-> <<x.source, x.crc[2], n>>]
      BY <3>2, <3>3 DEF CrcRight
    <3> QED BY <3>3, <3>4 DEF CompletedIsWhole
  <2> QED BY <2>1, <2>2
<1>14. ASSUME NEW p \in Senders, p /= s PROVE Over(p)' /\ Whole(p)'
  <2>1. Current(p) /= <<s, id>>
    BY <1>14 DEF Current
  <2>2. ASSUME NEW i \in DOMAIN u, Key(u[i]) = Current(p)
        PROVE  \E k \in DOMAIN sessions : u[i] = sessions[k]
    BY <1>5, <1>7, <1>8, <2>1, <2>2
  <2>3. ASSUME Current(p) \in Keys(t) PROVE Current(p) \in Keys(u)
    <3>1. PICK k \in DOMAIN t : Key(t[k]) = Current(p)
      BY <2>3, KeysOf
    <3>2. PICK i \in DOMAIN u : u[i] = v[k]
      BY <1>7, <1>8, <2>1, <3>1
    <3> QED BY <1>7, <3>1, <3>2, KeysOf
  <2>4. intact'[p] => (Current(p) \in Keys(sessions) => Current(p) \in Keys(u))
    BY <1>9, <2>3
  <2>5. /\ next_session_id'[p] = next_session_id[p] /\ out'[p] = out[p]
        /\ arrivals'[p] = arrivals[p] /\ (intact'[p] => intact[p])
    BY <1>2, <1>6, <1>9, <1>12, <1>14
  <2>6. sessions' = u /\ \A i \in DOMAIN u : Key(u[i]) = Current(p) =>
                           \E k \in DOMAIN sessions : u[i] = sessions[k]
    BY <1>2, <2>2
  <2> QED BY <2>4, <2>5, <2>6, KeepsOthers
\* What the reader and the sender agree on when the message is still intact.
<1>15. \A k \in DOMAIN v : Key(v[k]) = <<s, id>> => <<s, id>> \in Keys(sessions)
  BY <1>5, <1>7, KeysOf
<1>16. arrivals[s] > 0 => done = {} /\ arrivals[s] = 1 /\ Current(s) \notin Keys(sessions)
  BY <1>1, <1>2, <1>4, <1>10, <1>15 DEF Over
<1>17. /\ arrivals[s] \in {0, 1}
       /\ arrivals'[s] = IF done /= {} THEN 1 ELSE arrivals[s]
  <2>1. arrivals[s] \in 0 .. 2
    BY <1>1 DEF Typed
  <2> QED BY <1>12, <1>16, <2>1
<1>18. Over(s)'
  <2>1. ASSUME arrivals'[s] > 0
        PROVE  arrivals'[s] = 1 /\ Current(s) \notin Keys(u)
    <3>1. arrivals'[s] = 1
      BY <1>17, <2>1
    <3>2. CASE done /= {}
      BY <1>4, <1>8, <1>10, <3>1, <3>2
    <3>3. CASE done = {}
      <4>1. Current(s) \notin Keys(sessions)
        BY <1>16, <1>17, <2>1, <3>3
      <4>2. \A key \in Keys(u) : key \in Keys(sessions)
        BY <1>5, <1>7, <1>8, KeysOf
      <4> QED BY <3>1, <4>1, <4>2
    <3> QED BY <3>1, <3>2, <3>3
  <2>2. out'[s] /= <<>> => Head(out'[s]).kind = "data"
    BY <1>1, <1>2, <1>6, TailOfMessage DEF f
  <2>3. Current(s)' = Current(s) /\ Keys(sessions)' = Keys(u)
    BY <1>2, <1>6 DEF Keys
  <2> QED BY <2>1, <2>2, <2>3 DEF Over
<1>19. Whole(s)'
  <2> SUFFICES ASSUME intact'[s], ~(out'[s] = <<>> /\ arrivals'[s] = 1)
               PROVE  \E k \in Sends[s] : \E n \in 0 .. Length[k] :
                         /\ out'[s] = Rest(s, id, k, n)
                         /\ \/ n = Length[k] /\ arrivals'[s] = 1
                            \/ /\ n > 0 /\ arrivals'[s] = 0
                               /\ \E i \in DOMAIN u : UnderWay(u[i], s, id, k, n)
    BY <1>2, <1>6 DEF Whole, id
  <2>1. PICK k \in Sends[s] : \E n \in 0 .. Length[k] :
            /\ out[s] = Rest(s, id, k, n)
            /\ \/ n = 0 /\ arrivals[s] = 0
               \/ n = Length[k] /\ arrivals[s] = 1
               \/ /\ n > 0 /\ arrivals[s] = 0
                  /\ \E i \in DOMAIN sessions : UnderWay(sessions[i], s, id, k, n)
    BY <1>1, <1>2, <1>9 DEF Whole, id
  <2>2. PICK n \in 0 .. Length[k] :
            /\ out[s] = Rest(s, id, k, n)
            /\ \/ n = 0 /\ arrivals[s] = 0
               \/ n = Length[k] /\ arrivals[s] = 1
               \/ /\ n > 0 /\ arrivals[s] = 0
                  /\ \E i \in DOMAIN sessions : UnderWay(sessions[i], s, id, k, n)
    BY <2>1
  <2>3. k \in Messages /\ Length[k] \in Nat \ {0}
    BY CanLinkAssumption
  <2> DEFINE w == out[s]
  <2>4. w = Rest(s, id, k, n)
    BY <2>2
  <2> HIDE DEF w
  <2>5. /\ Head(w) = FrameOf(s, id, k, n)
        /\ n = Length[k] => Tail(w) = <<>>
        /\ n /= Length[k] => n + 1 \in 1 .. Length[k] /\ Tail(w) = Rest(s, id, k, n + 1)
    BY <1>4, <2>3, <2>4, RestFacts
  <2>6. /\ f = FrameOf(s, id, k, n)
        /\ n = Length[k] => Tail(out[s]) = <<>>
        /\ n /= Length[k] => n + 1 \in 1 .. Length[k] /\ Tail(out[s]) = Rest(s, id, k, n + 1)
    BY <2>5 DEF f, w
  <2>7. n /= 0
    BY <1>2, <2>6 DEF FrameOf, Sof
  <2>8. n \in 1 .. Length[k] /\ n > 0 /\ f = Data(s, id, k, n)
    BY <2>3, <2>6, <2>7 DEF FrameOf
  <2>9. CASE n = Length[k] /\ arrivals[s] = 1
    <3>1. arrivals'[s] = 1 /\ out'[s] = out[s]
      BY <1>6, <1>17, <2>6, <2>9
    <3> QED BY <2>2, <2>9, <3>1
  <2>10. CASE arrivals[s] = 0 /\ \E i \in DOMAIN sessions : UnderWay(sessions[i], s, id, k, n)
    <3>1. PICK j \in DOMAIN sessions : UnderWay(sessions[j], s, id, k, n)
      BY <2>10
    <3>2. Key(sessions[j]) \in Keys(t)
      <4>1. Key(sessions[j]) = Current(s)
        BY <1>4, <3>1 DEF UnderWay
      <4> QED BY <1>9, <4>1, KeysOf
    <3>3. PICK i \in DOMAIN t : t[i] = sessions[j]
      BY <1>5, <3>2
    <3>4. Sound(t[i]) /\ UnderWay(t[i], s, id, k, n)
      BY <1>5, <3>1, <3>3 DEF Open, Table
    <3>5. i \in DOMAIN v /\ v[i] = IF Accepts(t[i], s, f) THEN StoreFragment(t[i], f) ELSE t[i]
      BY <1>7
    <3>6. /\ Sound(v[i]) /\ UnderWay(v[i], s, id, k, n) /\ v[i].received = 1 .. n
          /\ IsFull(v[i]) <=> n = Length[k]
          /\ IsFull(v[i]) => CrcRight(v[i])
      BY <1>4, <2>3, <2>8, <3>4, <3>5, UnderWayReads
    <3>7. CASE n = Length[k]
      <4>1. done /= {}
        BY <1>11, <3>5, <3>6, <3>7
      <4>2. arrivals'[s] = 1 /\ out'[s] = out[s]
        BY <1>6, <1>17, <2>6, <3>7, <4>1
      <4> QED BY <2>2, <3>7, <4>2
    <3>8. CASE n /= Length[k]
      <4>1. ~IsFull(v[i])
        BY <3>6, <3>8
      <4>2. done = {}
        <5> SUFFICES ASSUME NEW x \in done PROVE FALSE
          OBVIOUS
        <5>1. PICK h \in DOMAIN v : x = v[h] /\ IsFull(v[h]) /\ Key(v[h]) = <<s, id>>
          BY <1>10
        <5>2. Key(v[i]) = <<s, id>>
          BY <3>6 DEF UnderWay
        <5>3. h = i
          BY <1>7, <3>5, <5>1, <5>2 DEF Table, OneEach
        <5> QED BY <4>1, <5>1, <5>3
      <4>3. arrivals'[s] = 0
        BY <1>17, <2>10, <4>2
      <4>4. PICK h \in DOMAIN u : u[h] = v[i]
        BY <1>8, <3>5, <4>1
      <4>5. CASE out'[s] = out[s]
        BY <2>2, <2>8, <3>6, <4>3, <4>4, <4>5
      <4>6. CASE out'[s] = Tail(out[s])
        <5>1. n + 1 \in 0 .. Length[k] /\ n + 1 > 0 /\ n + 1 - 1 = n
          BY <2>3, <2>8, <3>8
        <5>2. UnderWay(u[h], s, id, k, n + 1)
          BY <3>6, <4>4, <5>1 DEF UnderWay
        <5>3. out'[s] = Rest(s, id, k, n + 1)
          BY <2>6, <3>8, <4>6
        <5> QED BY <4>3, <5>1, <5>2, <5>3
      <4> QED BY <1>6, <4>5, <4>6
    <3> QED BY <3>7, <3>8
  <2> QED BY <2>2, <2>7, <2>9, <2>10
<1>20. ArrivedIsOver' /\ IntactIsWhole'
  <2>1. \A p \in Senders : Over(p)' /\ Whole(p)'
    BY <1>14, <1>18, <1>19
  <2> QED BY <2>1 DEF ArrivedIsOver, IntactIsWhole, Over, Whole
<1>21. Typed'
  <2>1. arrivals' \in [Senders -> 0 .. 2]
    <3>1. \A p \in Senders : arrivals'[p] \in 0 .. 2
      BY <1>1, <1>12, <1>17 DEF Typed
    <3>2. arrivals' = [p \in Senders |-> arrivals'[p]]
      BY <1>2
    <3> QED BY <3>1, <3>2
  <2> QED BY <1>1, <1>2, <1>6, <1>9, <2>1 DEF Typed
<1>22. Open(sessions)'
  BY <1>2, <1>8 DEF Open, Table, OneEach
<1> QED BY <1>6, <1>13, <1>20, <1>21, <1>22 DEF Inv
-----------------------------------------------------------------------------
(* The theorems.                                                             *)

LEMMA InvNext == Inv /\ [Next]_vars => Inv'
<1> SUFFICES ASSUME Inv, [Next]_vars PROVE Inv'
  OBVIOUS
<1>1. CASE \E s \in Senders : \E m \in Sends[s] : FragmentTx(s, m)
  BY <1>1, InvFragmentTx
<1>2. CASE \E s \in Senders : SendFails(s) \/ SenderRestarts(s) \/ FrameLost(s)
  BY <1>2, InvDisturbed
<1>3. CASE \E s \in Senders : ReadSof(s)
  BY <1>3, InvReadSof
<1>4. CASE \E s \in Senders : ReadData(s)
  BY <1>4, InvReadData
<1>5. CASE ReadNothing
  BY <1>5, InvReadNothing
<1>6. CASE BusOff
  BY <1>6, InvBusOff
<1>7. CASE Offline \/ Reopen \/ UNCHANGED vars
  BY <1>7, InvInterface
<1>8. CASE Tick
  BY <1>8, InvTick
<1> QED BY <1>1, <1>2, <1>3, <1>4, <1>5, <1>6, <1>7, <1>8 DEF Next

LEMMA AlwaysInv == Spec => []Inv
<1> QED BY InvInit, InvNext, PTL DEF Spec

\* The invariant that the other theorems rest on: what the sessions in use, the
\* frames still to be written and the message put together say of each other.
THEOREM CanInvariant == Spec => []CanInv
<1> QED BY AlwaysInv, InvMeans, PTL

\* However messages are abandoned, sessions evicted and numbers used again, a key
\* has one session, and its counter, bitmap and bytes agree (handle_sof,
\* handle_data and scan_timeouts of the CAN adapter).
THEOREM CanSessionTable == Spec => []SessionTable
<1>1. CanInv => SessionTable
  BY DEF CanInv
<1> QED BY <1>1, CanInvariant, PTL

\* What the adapter hands on is one message of one sender as it was sent, with
\* frames lost and session numbers wrapped around.
THEOREM CanCompletedIsWhole == Spec => []CompletedIsWhole
<1>1. CanInv => CompletedIsWhole
  BY DEF CanInv
<1> QED BY <1>1, CanInvariant, PTL

\* A message of which no frame was lost and whose session stayed in the table is
\* put together, and once, although frames are repeated on the bus.
THEOREM CanArrivesExactlyOnce == Spec => []ArrivesExactlyOnce
<1>1. Inv => ArrivesExactlyOnce
  <2> SUFFICES ASSUME Inv PROVE ArrivesExactlyOnce
    OBVIOUS
  <2>1. ASSUME NEW s \in Senders PROVE arrivals[s] <= 1
    <3>1. arrivals[s] \in 0 .. 2 /\ Over(s)
      BY EachSender DEF Inv, Typed
    <3> QED BY <3>1 DEF Over
  <2>2. ASSUME NEW s \in Senders, intact[s], out[s] = <<>> PROVE arrivals[s] > 0
    <3>1. ASSUME NEW m \in Sends[s], NEW n \in 0 .. Length[m]
          PROVE  Rest(s, Number(s), m, n) /= <<>>
      <4>1. m \in Messages /\ Number(s) \in 0 .. SessionMod - 1
        BY CanLinkAssumption, NumberTyped DEF Inv
      <4> QED BY <4>1, RestFacts
    <3>2. Whole(s)
      BY EachSender DEF Inv
    <3>3. arrivals[s] = 1
      BY <2>2, <3>1, <3>2 DEF Whole
    <3> QED BY <3>3
  <2> QED BY <2>1, <2>2 DEF ArrivesExactlyOnce, IntactArrives, ArrivesOnce
<1> QED BY <1>1, AlwaysInv, PTL
=============================================================================

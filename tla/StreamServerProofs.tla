------------------------- MODULE StreamServerProofs -------------------------
(***************************************************************************)
(* The stream services, for any connections, messages, lengths and cuts of   *)
(* the stream: what a service puts together is one message of the connection *)
(* it serves, and it hands the messages on as MessagePipe says.              *)
(***************************************************************************)
EXTENDS StreamServer, FiniteSetTheorems, SequenceTheorems, WellFoundedInduction, TLAPS

\* Every set of naturals has a least element: of the sets of what is below one
\* of its elements, one has none of the others as a proper subset.
LEMMA LeastNatural ==
    ASSUME NEW S \in SUBSET Nat, S /= {}
    PROVE  \E n \in S : \A m \in S : n <= m
<1> DEFINE Below(n) == {m \in S : m < n}
           T == {Below(n) : n \in S}
<1>1. ASSUME NEW n \in S PROVE IsFiniteSet(Below(n)) /\ Below(n) \in SUBSET Nat
  <2>1. n \in Nat /\ \A s \in Nat : s < n => s <= n
    OBVIOUS
  <2>2. \A s \in Below(n) : s \in S /\ s < n
    OBVIOUS
  <2> HIDE DEF Below
  <2>3. Below(n) \in SUBSET Nat /\ \A s \in Below(n) : s <= n
    BY <2>1, <2>2
  <2> QED BY <2>1, <2>3, FS_BoundedSetOfNaturals
<1>2. T \subseteq FiniteSubsetsOf(Nat) /\ T /= {}
  BY <1>1 DEF FiniteSubsetsOf
<1>3. PICK B \in T : \A A \in T : ~(<<A, B>> \in StrictSubsetOrdering(Nat))
  <2> HIDE DEF T
  <2> QED BY <1>2, FS_StrictSubsetOrderingWellFounded, WFMin
<1>4. PICK n \in S : B = Below(n)
  OBVIOUS
<1>5. ASSUME NEW m \in S, m < n PROVE FALSE
  <2>1. Below(m) \in T /\ Below(m) \subseteq B /\ m \in B /\ m \notin Below(m)
    <3>1. m \in Nat /\ n \in Nat /\ m < n
      BY <1>5
    <3>2. \A k \in Nat : k < m => k < n
      BY <3>1
    <3>3. \A k : k \in Below(m) <=> k \in S /\ k < m
      OBVIOUS
    <3>4. \A k : k \in B <=> k \in S /\ k < n
      BY <1>4
    <3>5. Below(m) \in T
      OBVIOUS
    <3>6. ~(m < m)
      BY <3>1
    <3> HIDE DEF Below, T
    <3> QED BY <3>1, <3>2, <3>3, <3>4, <3>5, <3>6
  <2>2. Below(m) \in SUBSET Nat /\ B \in SUBSET Nat
    BY <1>4
  <2>3. <<Below(m), B>> \in StrictSubsetOrdering(Nat)
    BY <2>1, <2>2 DEF StrictSubsetOrdering
  <2> QED BY <1>3, <2>1, <2>3
<1> QED BY <1>5

-----------------------------------------------------------------------------
(* How the messages of a connection lie in its stream.                       *)

\* FlattenSeq puts the sequences of q together one after the other.
Unfolds(A, N, q) ==
    \E f : /\ f \in [1 .. N -> Seq(A)] /\ f[1] = q[1]
           /\ \A n \in 2 .. N : f[n] = f[n - 1] \o q[n]
           /\ FlattenSeq(q) = f[N]

\* Such a function exists, by the least place up to which it would not.
LEMMA FlattenUnfolds ==
    ASSUME NEW A, NEW N \in Nat \ {0}, NEW q, q \in [1 .. N -> Seq(A)], Len(q) = N
    PROVE  Unfolds(A, N, q)
<1> DEFINE Step(u, n) == IF n = 1 THEN q[n] ELSE u[n - 1] \o q[n]
           Upto(m) == {u \in [1 .. m -> Seq(A)] : \A n \in 1 .. m : u[n] = Step(u, n)}
           Bad == {m \in 1 .. N : Upto(m) = {}}
<1>1. Bad = {}
  <2> SUFFICES ASSUME Bad /= {} PROVE FALSE
    OBVIOUS
  <2>1. PICK m \in Bad : \A k \in Bad : m <= k
    <3>1. Bad \in SUBSET Nat
      OBVIOUS
    <3> HIDE DEF Bad
    <3> QED BY <3>1, LeastNatural
  <2>2. m \in 1 .. N /\ Upto(m) = {}
    BY <2>1
  <2>3. m /= 1
    <3>1. [n \in 1 .. 1 |-> q[1]] \in Upto(1)
      <4>1. q[1] \in Seq(A) /\ \A n \in 1 .. 1 : n = 1
        OBVIOUS
      <4> QED BY <4>1
    <3> QED BY <2>2, <3>1
  <2>4. m \in 2 .. N /\ m - 1 \in 1 .. N /\ ~(m <= m - 1)
    BY <2>2, <2>3
  <2>5. Upto(m - 1) /= {}
    BY <2>1, <2>4
  <2>6. PICK u : u \in Upto(m - 1)
    BY <2>5
  <2>7. u \in [1 .. m - 1 -> Seq(A)] /\ \A n \in 1 .. m - 1 : u[n] = Step(u, n)
    BY <2>6
  <2> HIDE DEF Upto, Bad
  <2> DEFINE v == [n \in 1 .. m |-> IF n = m THEN u[m - 1] \o q[m] ELSE u[n]]
  <2>8. v \in [1 .. m -> Seq(A)]
    <3>1. u[m - 1] \o q[m] \in Seq(A)
      <4>1. u[m - 1] \in Seq(A) /\ q[m] \in Seq(A)
        BY <2>4, <2>7
      <4> QED BY <4>1, ConcatProperties
    <3>2. ASSUME NEW n \in 1 .. m, n /= m PROVE u[n] \in Seq(A)
      <4>1. n \in 1 .. m - 1
        BY <2>4, <3>2
      <4> QED BY <4>1, <2>7
    <3> QED BY <3>1, <3>2
  <2>9. ASSUME NEW n \in 1 .. m PROVE v[n] = Step(v, n)
    <3>1. CASE n = m
      <4>1. m - 1 \in 1 .. m /\ m - 1 /= m /\ m /= 1
        BY <2>4
      <4>2. v[m - 1] = u[m - 1] /\ v[m] = u[m - 1] \o q[m]
        BY <4>1, <2>2
      <4> QED BY <3>1, <4>1, <4>2
    <3>2. CASE n /= m
      <4>1. n \in 1 .. m - 1 /\ (n /= 1 => n - 1 \in 1 .. m /\ n - 1 /= m)
        BY <2>4, <3>2
      <4>2. v[n] = u[n] /\ (n /= 1 => v[n - 1] = u[n - 1])
        BY <3>2, <4>1
      <4> QED BY <2>7, <4>1, <4>2
    <3> QED BY <3>1, <3>2
  <2> HIDE DEF v, Step
  <2>10. v \in Upto(m)
    BY <2>8, <2>9 DEF Upto
  <2> QED BY <2>2, <2>10
<1>2. PICK u : u \in Upto(N)
  <2>1. N \in 1 .. N
    OBVIOUS
  <2>2. Upto(N) /= {}
    BY <1>1, <2>1
  <2> HIDE DEF Upto
  <2> QED BY <2>2
<1> DEFINE Unfolded(f) == [n \in 1 .. N |-> IF n = 1 THEN q[n] ELSE f[n - 1] \o q[n]]
<1>3. \E g : g = Unfolded(g)
  <2>1. u = [n \in 1 .. N |-> u[n]] /\ \A n \in 1 .. N : u[n] = Step(u, n)
    BY <1>2
  <2>2. u = Unfolded(u)
    BY <2>1
  <2> QED BY <2>2
<1> DEFINE f == CHOOSE g : g = Unfolded(g)
<1>4. f = Unfolded(f)
  <2> HIDE DEF Unfolded
  <2> QED BY <1>3, Zenon
<1>5. FlattenSeq(q) = f[N]
  <2>1. Len(q) /= 0
    OBVIOUS
  <2> QED BY <2>1 DEF FlattenSeq
<1> HIDE DEF f
<1>6. \A n \in 1 .. N : f[n] = IF n = 1 THEN q[n] ELSE f[n - 1] \o q[n]
  BY <1>4
<1>7. 1 \in 1 .. N /\ \A n \in 2 .. N : n \in 1 .. N /\ n /= 1 /\ n - 1 \in 1 .. N
  OBVIOUS
<1>8. f[1] = q[1] /\ \A n \in 2 .. N : f[n] = f[n - 1] \o q[n]
  BY <1>6, <1>7
<1>9. f \in [1 .. N -> Seq(A)]
  <2> DEFINE Wrong == {n \in 1 .. N : f[n] \notin Seq(A)}
  <2>1. ASSUME Wrong /= {} PROVE FALSE
    <3>1. PICK n \in Wrong : \A k \in Wrong : n <= k
      <4>1. Wrong \in SUBSET Nat
        OBVIOUS
      <4> HIDE DEF Wrong
      <4> QED BY <2>1, <4>1, LeastNatural
    <3>2. n \in 1 .. N /\ f[n] \notin Seq(A) /\ n /= 1
      BY <1>7, <1>8, <3>1
    <3>3. n \in 2 .. N /\ n - 1 \in 1 .. N /\ ~(n <= n - 1)
      BY <3>2
    <3>4. f[n - 1] \in Seq(A) /\ q[n] \in Seq(A) /\ f[n] = f[n - 1] \o q[n]
      BY <1>8, <3>1, <3>2, <3>3
    <3> QED BY <3>2, <3>4, ConcatProperties
  <2>2. f = [n \in 1 .. N |-> f[n]]
    BY <1>4
  <2>3. \A n \in 1 .. N : f[n] \in Seq(A)
    BY <2>1
  <2> QED BY <2>2, <2>3
<1> QED BY <1>5, <1>8, <1>9 DEF Unfolds

Count(c) == Len(MessagesOf(c))
Size(c, k) == LengthOf(MessagesOf(c)[k])
Message(c, k) == [n \in 1 .. Size(c, k) |-> <<c, k, n>>]

LEMMA MessageFacts ==
    ASSUME NEW c \in Clients
    PROVE  /\ Count(c) \in Nat /\ MessagesOf(c) \in Seq(Kinds)
           /\ DOMAIN MessagesOf(c) = 1 .. Count(c)
           /\ \A k \in 1 .. Count(c) :
                 /\ MessagesOf(c)[k] \in Kinds
                 /\ Size(c, k) \in Nat /\ Size(c, k) > LengthField
                 /\ Message(c, k) \in Seq(Byte) /\ Len(Message(c, k)) = Size(c, k)
                 /\ \A n \in 1 .. Size(c, k) : Message(c, k)[n] = <<c, k, n>>
<1>1. MessagesOf(c) \in Seq(Kinds) /\ Count(c) \in Nat /\ DOMAIN MessagesOf(c) = 1 .. Count(c)
  BY StreamAssumption DEF Count
<1>2. ASSUME NEW k \in 1 .. Count(c)
      PROVE  /\ MessagesOf(c)[k] \in Kinds
             /\ Size(c, k) \in Nat /\ Size(c, k) > LengthField
             /\ Message(c, k) \in Seq(Byte) /\ Len(Message(c, k)) = Size(c, k)
             /\ \A n \in 1 .. Size(c, k) : Message(c, k)[n] = <<c, k, n>>
  <2>1. MessagesOf(c)[k] \in Kinds
    BY <1>1
  <2>2. Size(c, k) \in Nat /\ Size(c, k) > LengthField
    BY <2>1, StreamAssumption DEF Size
  <2>3. Message(c, k) \in [1 .. Size(c, k) -> Byte]
    <3>1. \A n \in 1 .. Size(c, k) : <<c, k, n>> \in Byte
      BY <1>1, <2>2 DEF Byte
    <3> QED BY <3>1 DEF Message
  <2>4. Message(c, k) \in Seq(Byte) /\ Len(Message(c, k)) = Size(c, k)
    BY <2>2, <2>3
  <2>5. \A n \in 1 .. Size(c, k) : Message(c, k)[n] = <<c, k, n>>
    BY DEF Message
  <2> QED BY <2>1, <2>2, <2>4, <2>5
<1> QED BY <1>1, <1>2

\* The first m messages of c are the bytes u, and message k begins after at[k].
LaidTo(c, at, m, u) ==
    /\ u \in Seq(Byte)
    /\ \A k \in 1 .. m : \A n \in 1 .. Size(c, k) :
          at[k] + n \in 1 .. Len(u) /\ u[at[k] + n] = <<c, k, n>>
    /\ \A i \in 1 .. Len(u) : \E k \in 1 .. m : \E n \in 1 .. Size(c, k) : i = at[k] + n

LEMMA LayoutStep ==
    ASSUME NEW c \in Clients, NEW m \in 1 .. Count(c), NEW at, at \in [1 .. m -> Nat],
           NEW u, LaidTo(c, at, m - 1, u), at[m] = Len(u), NEW w, w = u \o Message(c, m)
    PROVE  LaidTo(c, at, m, w) /\ Len(w) = at[m] + Size(c, m)
<1> DEFINE q == Message(c, m)
           L == Size(c, m)
<1>1. /\ L \in Nat /\ q \in Seq(Byte) /\ Len(q) = L /\ \A n \in 1 .. L : q[n] = <<c, m, n>>
      /\ m \in Nat /\ m >= 1 /\ Count(c) \in Nat
  BY MessageFacts
<1>2. u \in Seq(Byte) /\ Len(u) \in Nat
  BY DEF LaidTo
<1>3. \A k \in 1 .. m : at[k] \in Nat
  OBVIOUS
<1> HIDE DEF q, L
<1>4. /\ w \in Seq(Byte) /\ Len(w) = Len(u) + L
      /\ \A i \in 1 .. Len(u) + L : w[i] = IF i <= Len(u) THEN u[i] ELSE q[i - Len(u)]
  BY <1>1, <1>2, ConcatProperties DEF q
<1>5. ASSUME NEW k \in 1 .. m, NEW n \in 1 .. Size(c, k)
      PROVE  at[k] + n \in 1 .. Len(w) /\ w[at[k] + n] = <<c, k, n>>
  <2>1. CASE k = m
    <3>1. n \in 1 .. L /\ n \in Nat /\ at[k] = Len(u)
      BY <1>1, <2>1 DEF L
    <3>2. at[k] + n \in 1 .. Len(u) + L /\ ~(at[k] + n <= Len(u)) /\ at[k] + n - Len(u) = n
      BY <1>1, <1>2, <3>1
    <3>3. PICK j \in 1 .. Len(u) + L : j = at[k] + n
      BY <3>2
    <3>4. w[j] = q[n] /\ j \in 1 .. Len(w)
      <4>1. j \in 1 .. Len(u) + L /\ ~(j <= Len(u)) /\ j - Len(u) = n
        <5>1. n \in Nat /\ at[k] \in Nat /\ Len(u) \in Nat
          BY <1>2, <1>3, <3>1
        <5> QED BY <3>2, <3>3, <5>1
      <4>2. j \in 1 .. Len(w)
        BY <1>4, <4>1
      <4>3. w[j] = q[j - Len(u)]
        BY <1>4, <4>1
      <4> QED BY <4>1, <4>2, <4>3
    <3>5. q[n] = <<c, k, n>>
      BY <1>1, <2>1, <3>1
    <3> QED BY <3>3, <3>4, <3>5
  <2>2. CASE k /= m
    <3>1. k \in 1 .. m - 1
      BY <1>1, <2>2
    <3>2. at[k] + n \in 1 .. Len(u) /\ u[at[k] + n] = <<c, k, n>>
      BY <3>1 DEF LaidTo
    <3>3. at[k] + n \in 1 .. Len(u) + L /\ at[k] + n <= Len(u)
      BY <1>1, <1>2, <3>2
    <3> QED BY <1>4, <3>2, <3>3
  <2> QED BY <2>1, <2>2
<1>6. ASSUME NEW i \in 1 .. Len(w)
      PROVE  \E k \in 1 .. m : \E n \in 1 .. Size(c, k) : i = at[k] + n
  <2>1. CASE i \in 1 .. Len(u)
    <3>1. PICK k \in 1 .. m - 1 : \E n \in 1 .. Size(c, k) : i = at[k] + n
      BY <2>1 DEF LaidTo
    <3>2. k \in 1 .. m
      BY <1>1
    <3> QED BY <3>1, <3>2
  <2>2. CASE i \notin 1 .. Len(u)
    <3>1. i - Len(u) \in 1 .. L /\ i = at[m] + (i - Len(u)) /\ m \in 1 .. m
      BY <1>1, <1>2, <1>4, <2>2
    <3> QED BY <3>1 DEF L
  <2> QED BY <2>1, <2>2
<1>7. LaidTo(c, at, m, w)
  BY <1>4, <1>5, <1>6 DEF LaidTo
<1> QED BY <1>4, <1>7 DEF L

\* The bytes of c are its messages one behind the other.
Laid(c, at) ==
    /\ at \in [1 .. Count(c) + 1 -> Nat] /\ at[1] = 0
    /\ \A k \in 1 .. Count(c) : at[k + 1] = at[k] + Size(c, k)
    /\ at[Count(c) + 1] = Len(BytesOf(c))
    /\ LaidTo(c, at, Count(c), BytesOf(c))

LEMMA Layout ==
    ASSUME NEW c \in Clients
    PROVE  \E at : Laid(c, at)
<1> DEFINE N == Count(c)
           q == [k \in DOMAIN MessagesOf(c) |->
                    [n \in 1 .. LengthOf(MessagesOf(c)[k]) |-> <<c, k, n>>]]
<1>1. N \in Nat /\ DOMAIN MessagesOf(c) = 1 .. N /\ BytesOf(c) = FlattenSeq(q)
  BY MessageFacts DEF BytesOf
<1>2. q = [k \in 1 .. N |-> Message(c, k)]
  BY <1>1 DEF Message, Size
<1>3. \A k \in 1 .. N : Message(c, k) \in Seq(Byte)
  BY MessageFacts
<1>4. q \in [1 .. N -> Seq(Byte)] /\ q \in Seq(Seq(Byte)) /\ Len(q) = N
  <2> HIDE DEF q, N
  <2>1. q \in [1 .. N -> Seq(Byte)]
    BY <1>2, <1>3
  <2> QED BY <1>1, <2>1
<1> HIDE DEF q
\* From the first message on, also when there is none.
<1>5. \E g : /\ g \in [0 .. N -> Seq(Byte)] /\ g[0] = <<>>
             /\ \A n \in 1 .. N : g[n] = g[n - 1] \o Message(c, n)
             /\ BytesOf(c) = g[N]
  <2> HIDE DEF N
  <2>1. CASE N = 0
    <3>1. q = <<>>
      BY <1>4, <2>1, EmptySeq
    <3>2. BytesOf(c) = <<>>
      <4>1. Len(q) = 0
        BY <1>4, <2>1
      <4> QED BY <1>1, <3>1, <4>1 DEF FlattenSeq
    <3> DEFINE g == [n \in 0 .. N |-> <<>>]
    <3>3. g \in [0 .. N -> Seq(Byte)] /\ g[0] = <<>> /\ g[N] = <<>> /\ 1 .. N = {}
      BY <2>1
    <3> HIDE DEF g
    <3> QED BY <3>2, <3>3
  <2>2. CASE N /= 0
    <3>0. N \in Nat \ {0}
      BY <1>1, <2>2
    <3>1. PICK f : /\ f \in [1 .. N -> Seq(Byte)] /\ f[1] = q[1]
                   /\ \A n \in 2 .. N : f[n] = f[n - 1] \o q[n]
                   /\ FlattenSeq(q) = f[N]
      <4>1. Unfolds(Byte, N, q)
        BY <1>4, <3>0, FlattenUnfolds
      <4> QED BY <4>1 DEF Unfolds
    <3> DEFINE g == [n \in 0 .. N |-> IF n = 0 THEN <<>> ELSE f[n]]
    <3>2. g \in [0 .. N -> Seq(Byte)]
      <4>1. \A n \in 0 .. N : n /= 0 => n \in 1 .. N
        BY <3>0
      <4> QED BY <3>1, <4>1
    <3>3. g[0] = <<>> /\ \A n \in 1 .. N : g[n] = f[n]
      BY <3>0
    <3> HIDE DEF g
    <3>4. ASSUME NEW n \in 1 .. N PROVE g[n] = g[n - 1] \o Message(c, n)
      <4>1. q[n] = Message(c, n) /\ q[n] \in Seq(Byte)
        BY <1>2, <1>4
      <4>2. CASE n = 1
        <5>1. g[n - 1] = <<>>
          BY <3>3, <4>2
        <5>2. <<>> \o q[n] = q[n]
          BY <4>1, ConcatEmptySeq
        <5> QED BY <3>1, <3>3, <4>1, <4>2, <5>1, <5>2
      <4>3. CASE n /= 1
        <5>1. n \in 2 .. N /\ n - 1 \in 1 .. N
          BY <3>0, <4>3
        <5> QED BY <3>1, <3>3, <4>1, <5>1
      <4> QED BY <4>2, <4>3
    <3>5. BytesOf(c) = g[N]
      <4>1. N \in 1 .. N
        BY <3>0
      <4> QED BY <1>1, <3>1, <3>3, <4>1
    <3> QED BY <3>2, <3>3, <3>4, <3>5
  <2> QED BY <2>1, <2>2
<1>6. PICK g : /\ g \in [0 .. N -> Seq(Byte)] /\ g[0] = <<>>
               /\ \A n \in 1 .. N : g[n] = g[n - 1] \o Message(c, n)
               /\ BytesOf(c) = g[N]
  BY <1>5
<1> DEFINE at == [k \in 1 .. N + 1 |-> Len(g[k - 1])]
<1>7. at \in [1 .. N + 1 -> Nat]
  <2>1. \A k \in 1 .. N + 1 : k - 1 \in 0 .. N
    BY <1>1
  <2>2. \A k \in 1 .. N + 1 : Len(g[k - 1]) \in Nat
    BY <1>6, <2>1
  <2> HIDE DEF N
  <2> QED BY <2>2
<1>8. \A n \in 0 .. N : n + 1 \in 1 .. N + 1 /\ at[n + 1] = Len(g[n])
  <2>1. \A n \in 0 .. N : n + 1 \in 1 .. N + 1 /\ n + 1 - 1 = n
    BY <1>1
  <2> HIDE DEF N
  <2> QED BY <2>1
<1> HIDE DEF at, N
<1>9. LaidTo(c, at, 0, g[0]) /\ at[1] = 0
  <2>1. 0 \in 0 .. N /\ 0 + 1 = 1 /\ 1 .. 0 = {}
    BY <1>1
  <2>2. g[0] \in Seq(Byte) /\ Len(g[0]) = 0 /\ at[1] = 0
    BY <1>6, <1>8, <2>1
  <2> QED BY <2>1, <2>2 DEF LaidTo
<1>10. ASSUME NEW m \in 1 .. N, LaidTo(c, at, m - 1, g[m - 1])
       PROVE  LaidTo(c, at, m, g[m]) /\ at[m + 1] = at[m] + Size(c, m)
  <2>1. m \in 0 .. N /\ m - 1 \in 0 .. N /\ m - 1 + 1 = m
    BY <1>1
  <2>2. at[m] = Len(g[m - 1]) /\ at[m + 1] = Len(g[m])
    BY <1>8, <2>1
  <2> DEFINE low == [k \in 1 .. m |-> at[k]]
  <2>3. low \in [1 .. m -> Nat] /\ \A k \in 1 .. m : low[k] = at[k]
    <3>1. \A k \in 1 .. m : k \in 1 .. N + 1
      BY <1>1
    <3> QED BY <1>7, <3>1
  <2>4. m \in 1 .. m /\ \A k \in 1 .. m - 1 : k \in 1 .. m
    BY <1>1
  <2> HIDE DEF low
  <2>5. LaidTo(c, low, m - 1, g[m - 1])
    BY <1>10, <2>3, <2>4 DEF LaidTo
  <2>6. LaidTo(c, low, m, g[m]) /\ Len(g[m]) = low[m] + Size(c, m)
    <3>1. low[m] = Len(g[m - 1]) /\ g[m] = g[m - 1] \o Message(c, m) /\ m \in 1 .. Count(c)
      BY <1>6, <2>2, <2>3, <2>4 DEF N
    <3> QED BY <2>3, <2>5, <3>1, LayoutStep
  <2>7. LaidTo(c, at, m, g[m])
    <3>1. ASSUME NEW k \in 1 .. m, NEW n \in 1 .. Size(c, k)
          PROVE  at[k] + n \in 1 .. Len(g[m]) /\ g[m][at[k] + n] = <<c, k, n>>
      <4>1. low[k] = at[k]
        BY <2>3
      <4>2. low[k] + n \in 1 .. Len(g[m]) /\ g[m][low[k] + n] = <<c, k, n>>
        BY <2>6 DEF LaidTo
      <4> QED BY <4>1, <4>2
    <3>2. ASSUME NEW i \in 1 .. Len(g[m])
          PROVE  \E k \in 1 .. m : \E n \in 1 .. Size(c, k) : i = at[k] + n
      <4>1. PICK k \in 1 .. m : \E n \in 1 .. Size(c, k) : i = low[k] + n
        BY <2>6 DEF LaidTo
      <4>2. low[k] = at[k]
        BY <2>3
      <4> QED BY <4>1, <4>2
    <3>3. g[m] \in Seq(Byte)
      BY <2>6 DEF LaidTo
    <3> QED BY <3>1, <3>2, <3>3 DEF LaidTo
  <2> QED BY <2>2, <2>3, <2>4, <2>6, <2>7
<1> DEFINE Wrong == {n \in 0 .. N : ~LaidTo(c, at, n, g[n])}
<1>11. Wrong = {}
  <2> SUFFICES ASSUME Wrong /= {} PROVE FALSE
    OBVIOUS
  <2>1. PICK m \in Wrong : \A k \in Wrong : m <= k
    <3>1. Wrong \in SUBSET Nat
      OBVIOUS
    <3> HIDE DEF Wrong
    <3> QED BY <3>1, LeastNatural
  <2>2. m \in 0 .. N /\ m /= 0
    BY <1>9, <2>1
  <2>3. m \in 1 .. N /\ m - 1 \in 0 .. N /\ ~(m <= m - 1)
    BY <1>1, <2>2
  <2>4. LaidTo(c, at, m - 1, g[m - 1])
    BY <2>1, <2>3
  <2> QED BY <1>10, <2>1, <2>3, <2>4
<1>12. ASSUME NEW k \in 1 .. N PROVE at[k + 1] = at[k] + Size(c, k)
  <2>1. k - 1 \in 0 .. N
    BY <1>1
  <2> QED BY <1>10, <1>11, <2>1
<1>13. LaidTo(c, at, N, BytesOf(c)) /\ at[N + 1] = Len(BytesOf(c))
  <2>1. N \in 0 .. N
    BY <1>1
  <2> QED BY <1>6, <1>8, <1>11, <2>1
<1> QED BY <1>7, <1>9, <1>12, <1>13 DEF Laid, N

\* Every byte of the stream belongs to one message, and the first of a message
\* is the one with number 1.
LEMMA BoundaryFacts ==
    ASSUME NEW c \in Clients, NEW p \in Nat, p < Len(BytesOf(c)), Boundary(c, p)
    PROVE  LET k == MessageAfter(c, p) IN
           /\ k \in 1 .. Count(c)
           /\ p + Size(c, k) <= Len(BytesOf(c))
           /\ \A n \in 1 .. Size(c, k) : BytesOf(c)[p + n] = <<c, k, n>>
           /\ Boundary(c, p + Size(c, k))
           /\ MessageAfter(c, p + Size(c, k)) = k + 1
<1> DEFINE B == BytesOf(c)
           k == MessageAfter(c, p)
           N == Count(c)
<1>1. PICK at : Laid(c, at)
  BY Layout
<1>2. /\ at \in [1 .. N + 1 -> Nat] /\ at[N + 1] = Len(B)
      /\ \A j \in 1 .. N : at[j + 1] = at[j] + Size(c, j)
      /\ B \in Seq(Byte) /\ Len(B) \in Nat /\ N \in Nat
      /\ \A j \in 1 .. N : Size(c, j) \in Nat /\ Size(c, j) > 2
  BY <1>1, MessageFacts DEF Laid, LaidTo, LengthField
<1>3. \A j \in 1 .. N : \A n \in 1 .. Size(c, j) :
         at[j] + n \in 1 .. Len(B) /\ B[at[j] + n] = <<c, j, n>>
  BY <1>1 DEF Laid, LaidTo
<1>4. \A i \in 1 .. Len(B) : \E j \in 1 .. N : \E n \in 1 .. Size(c, j) : i = at[j] + n
  BY <1>1 DEF Laid, LaidTo
<1> HIDE DEF B, N
<1>5. p + 1 \in 1 .. Len(B)
  BY <1>2 DEF B
<1>6. PICK j \in 1 .. N : \E n \in 1 .. Size(c, j) : p + 1 = at[j] + n
  BY <1>4, <1>5
<1>7. PICK n \in 1 .. Size(c, j) : p + 1 = at[j] + n
  BY <1>6
<1>8. B[p + 1] = <<c, j, n>>
  BY <1>3, <1>7
<1>9. n = 1 /\ k = j
  BY <1>8 DEF Boundary, MessageAfter, B
<1>10. at[j] = p /\ at[j + 1] = p + Size(c, j) /\ j \in Nat /\ Size(c, j) \in Nat
       /\ Size(c, j) > 2 /\ at[j + 1] \in Nat
  <2>1. at[j] \in Nat /\ at[j + 1] = at[j] + Size(c, j) /\ j \in Nat
    BY <1>2
  <2>2. Size(c, j) \in Nat /\ Size(c, j) > 2
    BY <1>2
  <2> QED BY <1>7, <1>9, <2>1, <2>2
<1> HIDE DEF k
<1>11. k \in 1 .. N
  BY <1>9
<1>12. \A m \in 1 .. Size(c, k) : B[p + m] = <<c, k, m>>
  BY <1>3, <1>9, <1>10
<1>13. p + Size(c, k) <= Len(B)
  <2>1. Size(c, j) \in 1 .. Size(c, j)
    BY <1>10
  <2>2. at[j] + Size(c, j) \in 1 .. Len(B)
    BY <1>3, <2>1
  <2> QED BY <1>2, <1>9, <1>10, <2>2
<1>14. Boundary(c, p + Size(c, k)) /\ MessageAfter(c, p + Size(c, k)) = k + 1
  <2>1. CASE j = N
    <3>1. p + Size(c, k) = Len(B)
      BY <1>2, <1>9, <1>10, <2>1
    <3> HIDE DEF Size
    <3> QED BY <1>2, <1>9, <2>1, <3>1 DEF Boundary, MessageAfter, B, N, Count
  <2>2. CASE j /= N
    <3>1. j + 1 \in 1 .. N
      BY <1>2, <1>10, <2>2
    <3>2. 1 \in 1 .. Size(c, j + 1)
      BY <1>2, <3>1
    <3>3. at[j + 1] + 1 \in 1 .. Len(B) /\ B[at[j + 1] + 1] = <<c, j + 1, 1>>
      BY <1>3, <3>1, <3>2
    <3>4. p + Size(c, k) < Len(B) /\ B[p + Size(c, k) + 1] = <<c, j + 1, 1>>
      BY <1>2, <1>9, <1>10, <3>3
    <3> QED BY <1>9, <3>4 DEF Boundary, MessageAfter, B
  <2> QED BY <2>1, <2>2
<1> QED BY <1>11, <1>12, <1>13, <1>14 DEF k, B, N

\* A stream begins with its first message, if there is one.
LEMMA StartFacts ==
    ASSUME NEW c \in Clients
    PROVE  /\ BytesOf(c) \in Seq(Byte) /\ Len(BytesOf(c)) \in Nat
           /\ Boundary(c, 0) /\ MessageAfter(c, 0) = 1
<1> DEFINE B == BytesOf(c)
           N == Count(c)
<1>1. PICK at : Laid(c, at)
  BY Layout
<1>2. B \in Seq(Byte) /\ Len(B) \in Nat /\ at[1] = 0 /\ N \in Nat
  BY <1>1, MessageFacts DEF Laid, LaidTo
<1>3. \A j \in 1 .. N : \A n \in 1 .. Size(c, j) :
         at[j] + n \in 1 .. Len(B) /\ B[at[j] + n] = <<c, j, n>>
  BY <1>1 DEF Laid, LaidTo
<1>4. \A i \in 1 .. Len(B) : \E j \in 1 .. N : \E n \in 1 .. Size(c, j) : i = at[j] + n
  BY <1>1 DEF Laid, LaidTo
<1> HIDE DEF B, N
<1>5. CASE N = 0
  <2>1. Len(B) = 0
    <3>1. ASSUME Len(B) /= 0 PROVE FALSE
      <4>1. 1 \in 1 .. Len(B) /\ 1 .. N = {}
        BY <1>2, <1>5, <3>1
      <4> QED BY <1>4, <4>1
    <3> QED BY <3>1
  <2> QED BY <1>2, <1>5, <2>1 DEF Boundary, MessageAfter, B, N, Count
<1>6. CASE N /= 0
  <2>1. 1 \in 1 .. N
    BY <1>2, <1>6
  <2>2. Size(c, 1) \in Nat /\ Size(c, 1) > 2
    BY <2>1, MessageFacts DEF LengthField, N
  <2>3. 1 \in 1 .. Size(c, 1)
    BY <2>2
  <2>4. at[1] + 1 \in 1 .. Len(B) /\ B[at[1] + 1] = <<c, 1, 1>>
    BY <1>3, <2>1, <2>3
  <2>5. 0 < Len(B) /\ B[0 + 1] = <<c, 1, 1>>
    BY <1>2, <2>4
  <2> QED BY <1>2, <2>5 DEF Boundary, MessageAfter, B
<1> QED BY <1>5, <1>6

-----------------------------------------------------------------------------
(* Pieces of a sequence, one behind the other.                               *)

LEMMA RestFacts ==
    ASSUME NEW S, NEW t \in Seq(S), NEW p \in 0 .. Len(t)
    PROVE  /\ SubSeq(t, p + 1, Len(t)) \in Seq(S)
           /\ Len(SubSeq(t, p + 1, Len(t))) = Len(t) - p
           /\ \A i \in 1 .. Len(t) - p : SubSeq(t, p + 1, Len(t))[i] = t[p + i]
           /\ SubSeq(t, 1, p) \in Seq(S) /\ Len(SubSeq(t, 1, p)) = p
           /\ \A i \in 1 .. p : SubSeq(t, 1, p)[i] = t[i]
           /\ SubSeq(t, 1, p) \o SubSeq(t, p + 1, Len(t)) = t
<1>1. Len(t) \in Nat /\ p \in Nat /\ p <= Len(t)
  OBVIOUS
<1>2. \A i \in p + 1 .. Len(t) : t[i] \in S
  <2>1. \A i \in p + 1 .. Len(t) : i \in 1 .. Len(t)
    BY <1>1
  <2> QED BY <2>1
<1>3. \A i \in 1 .. p : t[i] \in S
  <2>1. \A i \in 1 .. p : i \in 1 .. Len(t)
    BY <1>1
  <2> QED BY <2>1
<1>4. p + 1 \in Int /\ Len(t) \in Int /\ 1 \in Int /\ p \in Int
  BY <1>1
<1> DEFINE r == SubSeq(t, p + 1, Len(t))
           q == SubSeq(t, 1, p)
<1>5. /\ r \in Seq(S)
      /\ Len(r) = IF p + 1 <= Len(t) THEN Len(t) - (p + 1) + 1 ELSE 0
      /\ \A i \in 1 .. Len(t) - (p + 1) + 1 : r[i] = t[p + 1 + i - 1]
  BY <1>2, <1>4, SubSeqProperties
<1>6. /\ q \in Seq(S)
      /\ Len(q) = IF 1 <= p THEN p - 1 + 1 ELSE 0
      /\ \A i \in 1 .. p - 1 + 1 : q[i] = t[1 + i - 1]
  BY <1>3, <1>4, SubSeqProperties
<1>7. q \o r = t
  <2>1. 1 \in 1 .. Len(t) + 1 /\ p \in 1 - 1 .. Len(t) /\ Len(t) \in p .. Len(t)
    BY <1>1
  <2>2. q \o r = SubSeq(t, 1, Len(t))
    BY <2>1, ConcatAdjacentSubSeq
  <2> QED BY <2>2, SubSeqFull
<1> HIDE DEF r, q
<1>8. Len(r) = Len(t) - p /\ Len(q) = p
  BY <1>1, <1>5, <1>6
<1>9. \A i \in 1 .. Len(t) - p : r[i] = t[p + i]
  <2> SUFFICES ASSUME NEW i \in 1 .. Len(t) - p PROVE r[i] = t[p + i]
    OBVIOUS
  <2>1. i \in 1 .. Len(t) - (p + 1) + 1 /\ p + 1 + i - 1 = p + i
    BY <1>1
  <2> QED BY <1>5, <2>1
<1>10. \A i \in 1 .. p : q[i] = t[i]
  <2> SUFFICES ASSUME NEW i \in 1 .. p PROVE q[i] = t[i]
    OBVIOUS
  <2>1. i \in 1 .. p - 1 + 1 /\ 1 + i - 1 = i
    BY <1>1
  <2> QED BY <1>6, <2>1
<1> QED BY <1>5, <1>6, <1>7, <1>8, <1>9, <1>10 DEF r, q

\* w is b, and behind it u.
Joins(w, b, u, l) ==
    /\ Len(w) = Len(b) + l /\ Len(u) = l
    /\ \A n \in 1 .. Len(b) : w[n] = b[n]
    /\ \A n \in 1 .. l : w[Len(b) + n] = u[n]

LEMMA ThreePieces ==
    ASSUME NEW S, NEW b \in Seq(S), NEW i \in Seq(S), NEW t \in Seq(S)
    PROVE  /\ b \o i \o t \in Seq(S) /\ i \o t \in Seq(S)
           /\ Joins(b \o i \o t, b, i \o t, Len(i) + Len(t))
<1> DEFINE u == i \o t
           w == b \o i \o t
<1>1. u \in Seq(S) /\ Len(u) = Len(i) + Len(t)
  BY ConcatProperties
<1>2. w = b \o u
  BY ConcatAssociative
<1>3. Len(b) \in Nat /\ Len(i) \in Nat /\ Len(t) \in Nat
  OBVIOUS
<1>4. /\ w \in Seq(S) /\ Len(w) = Len(b) + Len(u)
      /\ \A n \in 1 .. Len(b) + Len(u) : w[n] = IF n <= Len(b) THEN b[n] ELSE u[n - Len(b)]
  <2>1. u \in Seq(S)
    BY <1>1
  <2> HIDE DEF w, u
  <2> QED BY <1>2, <2>1, ConcatProperties
<1> HIDE DEF w, u
<1>5. ASSUME NEW n \in 1 .. Len(b) PROVE w[n] = b[n]
  <2>1. n \in 1 .. Len(b) + Len(u) /\ n <= Len(b)
    BY <1>1, <1>3
  <2> QED BY <1>4, <2>1
<1>6. ASSUME NEW n \in 1 .. Len(i) + Len(t) PROVE w[Len(b) + n] = u[n]
  <2>1. Len(b) + n \in 1 .. Len(b) + Len(u) /\ ~(Len(b) + n <= Len(b)) /\ Len(b) + n - Len(b) = n
    BY <1>1, <1>3
  <2> QED BY <1>4, <2>1
<1>7. Len(w) = Len(b) + (Len(i) + Len(t))
  BY <1>1, <1>4
<1>8. Joins(w, b, u, Len(i) + Len(t))
  BY <1>1, <1>5, <1>6, <1>7 DEF Joins
<1> QED BY <1>1, <1>4, <1>8 DEF u, w

\* What follows the first piece is the rest of the sequence.
RestIs(B, p, b, i, t) ==
    /\ p + Len(b) + Len(i) + Len(t) = Len(B)
    /\ \A n \in 1 .. Len(b) : b[n] = B[p + n]
    /\ \A q \in Nat : q = p + Len(b) => <<>> \o i \o t = SubSeq(B, q + 1, Len(B))

LEMMA Following ==
    ASSUME NEW S, NEW B \in Seq(S), NEW p \in 0 .. Len(B),
           NEW b \in Seq(S), NEW i \in Seq(S), NEW t \in Seq(S),
           b \o i \o t = SubSeq(B, p + 1, Len(B))
    PROVE  RestIs(B, p, b, i, t)
<1>0. Len(b) \in Nat /\ Len(i) \in Nat /\ Len(t) \in Nat /\ Len(B) \in Nat /\ p \in Nat /\ p <= Len(B)
  OBVIOUS
<1> DEFINE r == SubSeq(B, p + 1, Len(B))
           w == b \o i \o t
           u == i \o t
<1>1. /\ w = r /\ Len(w) = Len(b) + (Len(i) + Len(t))
      /\ u \in Seq(S) /\ Len(u) = Len(i) + Len(t)
      /\ \A n \in 1 .. Len(b) : w[n] = b[n]
      /\ \A n \in 1 .. Len(i) + Len(t) : w[Len(b) + n] = u[n]
  <2>1. w = r
    OBVIOUS
  <2>2. Joins(w, b, u, Len(i) + Len(t)) /\ u \in Seq(S)
    BY ThreePieces
  <2> HIDE DEF r, w, u
  <2> QED BY <2>1, <2>2 DEF Joins
<1>2. Len(r) = Len(B) - p /\ \A n \in 1 .. Len(B) - p : r[n] = B[p + n]
  BY RestFacts
<1> HIDE DEF r, w, u
<1>3. p + Len(b) + Len(i) + Len(t) = Len(B)
  <2>1. Len(w) = Len(B) - p /\ Len(w) = Len(b) + (Len(i) + Len(t))
    BY <1>1, <1>2
  <2> QED BY <1>0, <2>1
<1>4. ASSUME NEW n \in 1 .. Len(b) PROVE b[n] = B[p + n]
  <2>1. n \in 1 .. Len(B) - p
    BY <1>0, <1>3
  <2> QED BY <1>1, <1>2, <2>1
<1>5. ASSUME NEW q \in Nat, q = p + Len(b) PROVE <<>> \o i \o t = SubSeq(B, q + 1, Len(B))
  <2> DEFINE v == SubSeq(B, q + 1, Len(B))
  <2>1. <<>> \o i \o t = u
    BY ConcatEmptySeq DEF u
  <2>2. u \in Seq(S) /\ Len(u) = Len(i) + Len(t)
    BY <1>1
  <2>3. q \in 0 .. Len(B)
    BY <1>0, <1>3, <1>5
  <2>4. v \in Seq(S) /\ Len(v) = Len(B) - q /\ \A n \in 1 .. Len(B) - q : v[n] = B[q + n]
    BY <2>3, RestFacts
  <2>5. \A n \in 1 .. Len(i) + Len(t) : w[Len(b) + n] = u[n]
    BY <1>1
  <2> HIDE DEF v
  <2>6. Len(u) = Len(v)
    BY <1>0, <1>3, <1>5, <2>2, <2>4
  <2>7. ASSUME NEW n \in 1 .. Len(u) PROVE u[n] = v[n]
    <3>1. /\ n \in 1 .. Len(i) + Len(t) /\ n \in 1 .. Len(B) - q
          /\ Len(b) + n \in 1 .. Len(B) - p /\ p + (Len(b) + n) = q + n
      BY <1>0, <1>3, <1>5, <2>2
    <3>2. u[n] = w[Len(b) + n] /\ v[n] = B[q + n]
      BY <2>4, <2>5, <3>1
    <3>3. r[Len(b) + n] = B[p + (Len(b) + n)] /\ w = r
      BY <1>1, <1>2, <3>1
    <3> QED BY <3>1, <3>2, <3>3
  <2>8. u = v
    BY <2>2, <2>4, <2>6, <2>7, SeqEqual
  <2> QED BY <2>1, <2>8 DEF v
<1> QED BY <1>3, <1>4, <1>5 DEF RestIs

-----------------------------------------------------------------------------
(* What a service has put together is the beginning of one message.          *)

LEMMA TypedAt ==
    ASSUME Typed
    PROVE  /\ \A s \in Services : /\ backlog[s] \in Seq(Clients) /\ client[s] \in Clients \cup {None}
                                 /\ input[s] \in Seq(Byte) /\ buffer[s] \in Seq(Byte)
           /\ \A c \in Clients : stream[c] \in Seq(Byte) /\ handed[c] \in Seq(Nat)
<1> QED BY DEF Typed

LEMMA MessageSoFar ==
    ASSUME Typed, NEW s \in Services, NEW c \in Clients, NEW p \in 0 .. Len(BytesOf(c)),
           InMessage(s, c, p), buffer[s] /= <<>>
    PROVE  LET k == MessageAfter(c, p) IN
           /\ p < Len(BytesOf(c)) /\ k \in 1 .. Count(c)
           /\ \A n \in 1 .. Len(buffer[s]) : buffer[s][n] = <<c, k, n>>
           /\ Len(buffer[s]) \in 1 .. Size(c, k)
           /\ KindOf(buffer[s][1]) = MessagesOf(c)[k]
           /\ MsgLength(s) = Size(c, k)
<1> DEFINE k == MessageAfter(c, p)
           B == BytesOf(c)
           b == buffer[s]
<1>1. B \in Seq(Byte) /\ Len(B) \in Nat /\ p \in Nat
  BY StartFacts
<1>2. b \in Seq(Byte) /\ input[s] \in Seq(Byte) /\ stream[c] \in Seq(Byte)
  BY TypedAt
<1>3. /\ Boundary(c, p) /\ b \o input[s] \o stream[c] = SubSeq(B, p + 1, Len(B))
      /\ Len(b) <= Size(c, k)
  BY DEF InMessage, Size
<1>4. Len(b) \in Nat /\ Len(b) /= 0 /\ Len(input[s]) \in Nat /\ Len(stream[c]) \in Nat
  BY <1>2, EmptySeq
<1>0. p \in 0 .. Len(B)
  OBVIOUS
<1> HIDE DEF B, b, k
<1>5. p + Len(b) + Len(input[s]) + Len(stream[c]) = Len(B) /\ \A n \in 1 .. Len(b) : b[n] = B[p + n]
  <2>1. RestIs(B, p, b, input[s], stream[c])
    BY <1>0, <1>1, <1>2, <1>3, Following
  <2> QED BY <2>1 DEF RestIs
<1>6. p < Len(B)
  <2>1. p + Len(b) + Len(input[s]) + Len(stream[c]) = Len(B)
    BY <1>5
  <2>2. \A x, y, z, w, n \in Nat : x + y + z + w = n /\ y /= 0 => x < n
    OBVIOUS
  <2> QED BY <1>1, <1>4, <2>1, <2>2
<1>7. k \in 1 .. Count(c) /\ \A n \in 1 .. Size(c, k) : B[p + n] = <<c, k, n>>
  BY <1>1, <1>3, <1>6, BoundaryFacts DEF B, k
<1>8. Size(c, k) \in Nat
  BY <1>7, MessageFacts
<1>9. Len(b) \in 1 .. Size(c, k)
  BY <1>3, <1>4, <1>8
<1>10. ASSUME NEW n \in 1 .. Len(b) PROVE b[n] = <<c, k, n>>
  <2>1. n \in 1 .. Size(c, k)
    BY <1>8, <1>9
  <2> QED BY <1>5, <1>7, <2>1
<1>11. b[1] = <<c, k, 1>>
  <2>1. 1 \in 1 .. Len(b)
    BY <1>4
  <2> QED BY <1>10, <2>1
<1>12. KindOf(b[1]) = MessagesOf(c)[k]
  BY <1>11 DEF KindOf
<1>13. MsgLength(s) = Size(c, k)
  BY <1>12 DEF MsgLength, Size, b
<1> QED BY <1>6, <1>7, <1>9, <1>10, <1>12, <1>13 DEF B, b, k

\* It has put a whole message together: the next one begins behind it.
WholeMessage(s, c, p, k, q) ==
    /\ k = MessageAfter(c, p) /\ k \in 1 .. Count(c)
    /\ q = p + Size(c, k) /\ q \in 0 .. Len(BytesOf(c))
    /\ Boundary(c, q) /\ MessageAfter(c, q) = k + 1
    /\ <<>> \o input[s] \o stream[c] = SubSeq(BytesOf(c), q + 1, Len(BytesOf(c)))
    /\ buffer[s][1] = <<c, k, 1>>

LEMMA WholeMessageFacts ==
    ASSUME Typed, NEW s \in Services, NEW c \in Clients, NEW p \in 0 .. Len(BytesOf(c)),
           InMessage(s, c, p), Complete(s)
    PROVE  \E k, q : WholeMessage(s, c, p, k, q)
<1> DEFINE k == MessageAfter(c, p)
           B == BytesOf(c)
           q == p + Size(c, k)
<1>1. B \in Seq(Byte) /\ Len(B) \in Nat /\ p \in Nat /\ p \in 0 .. Len(B)
  BY StartFacts
<1>2. buffer[s] \in Seq(Byte) /\ input[s] \in Seq(Byte) /\ stream[c] \in Seq(Byte)
  BY TypedAt
<1>3. buffer[s] /= <<>> /\ Len(buffer[s]) >= MsgLength(s)
  BY <1>2, EmptySeq DEF Complete, LengthField
<1>4. /\ p < Len(B) /\ k \in 1 .. Count(c)
      /\ Len(buffer[s]) \in 1 .. Size(c, k) /\ MsgLength(s) = Size(c, k)
      /\ \A n \in 1 .. Len(buffer[s]) : buffer[s][n] = <<c, k, n>>
  BY <1>3, MessageSoFar
<1>5. Size(c, k) \in Nat
  BY <1>4, MessageFacts
<1>6. Boundary(c, p)
  BY DEF InMessage
<1>7. /\ p + Size(c, k) <= Len(B)
      /\ Boundary(c, p + Size(c, k)) /\ MessageAfter(c, p + Size(c, k)) = k + 1
  BY <1>1, <1>4, <1>6, BoundaryFacts
<1>8. buffer[s] \o input[s] \o stream[c] = SubSeq(B, p + 1, Len(B))
  BY DEF InMessage
<1> HIDE DEF B, k
<1>9. RestIs(B, p, buffer[s], input[s], stream[c])
  BY <1>1, <1>2, <1>8, Following
<1>10. Len(buffer[s]) = Size(c, k) /\ 1 \in 1 .. Len(buffer[s])
  BY <1>3, <1>4, <1>5
<1>11. buffer[s][1] = <<c, k, 1>>
  BY <1>4, <1>10
<1>12. q \in Nat /\ q \in 0 .. Len(B) /\ q = p + Len(buffer[s])
  <2>1. Size(c, k) \in Nat /\ p + Size(c, k) <= Len(B) /\ Len(buffer[s]) = Size(c, k)
    BY <1>5, <1>7, <1>10
  <2> QED BY <1>1, <2>1
<1> HIDE DEF q
<1>13. <<>> \o input[s] \o stream[c] = SubSeq(B, q + 1, Len(B))
  BY <1>9, <1>12 DEF RestIs
<1>14. WholeMessage(s, c, p, k, q)
  BY <1>4, <1>7, <1>11, <1>12, <1>13 DEF WholeMessage, B, k, q
<1> QED BY <1>14

-----------------------------------------------------------------------------
(* The invariant.                                                           *)

LEMMA ServedFacts ==
    ASSUME StreamInv, NEW s \in Services, client[s] /= None
    PROVE  /\ client[s] \in Clients /\ ServiceOf[client[s]] = s
           /\ \E p \in 0 .. Len(BytesOf(client[s])) : InMessage(s, client[s], p)
<1> QED BY DEF StreamInv, Typed, Queues, Serving, Serves

\* Between two connections a service can do nothing with what it has.
LEMMA BetweenWaits ==
    ASSUME StreamInv, NEW s \in Services, client[s] = None
    PROVE  ~CopyLength(s) /\ ~BadLength(s) /\ ~CopyBody(s) /\ ~Complete(s)
<1>1. Between(s)
  BY DEF StreamInv, Serving, Serves
<1> QED BY <1>1 DEF Between, CopyLength, CopyBody, BadLength

\* The services that a step is not about go on as they were.
LEMMA OthersServe ==
    ASSUME StreamInv, NEW s \in Services, NEW c \in Clients, ServiceOf[c] = s,
           \A t \in Services \ {s} : /\ client'[t] = client[t] /\ input'[t] = input[t]
                                     /\ buffer'[t] = buffer[t],
           \A d \in Clients \ {c} : stream'[d] = stream[d] /\ handed'[d] = handed[d]
    PROVE  \A t \in Services \ {s} : Serves(t)'
<1> SUFFICES ASSUME NEW t \in Services \ {s}
             PROVE  Serves(t)'
  OBVIOUS
<1>1. client'[t] = client[t] /\ input'[t] = input[t] /\ buffer'[t] = buffer[t]
  OBVIOUS
<1>2. CASE client[t] = None
  <2>1. Between(t)
    BY <1>2 DEF StreamInv, Serving, Serves
  <2>2. Between(t)'
    BY <1>1, <2>1 DEF Between, Complete, LengthInRange, MsgLength
  <2> QED BY <1>1, <1>2, <2>2 DEF Serves
<1>3. CASE client[t] /= None
  <2>1. PICK d \in Clients : d = client[t] /\ ServiceOf[d] = t
    BY <1>3, ServedFacts
  <2>2. PICK p \in 0 .. Len(BytesOf(d)) : InMessage(t, d, p)
    BY <1>3, <2>1, ServedFacts
  <2>3. stream'[d] = stream[d] /\ handed'[d] = handed[d]
    BY <2>1
  <2>4. InMessage(t, d, p)'
    BY <1>1, <2>2, <2>3 DEF InMessage, LastHanded
  <2>5. client'[t] = d /\ d /= None
    BY <1>1, <1>3, <2>1
  <2>6. \E r \in 0 .. Len(BytesOf(client'[t])) : InMessage(t, d, r)'
    BY <2>4, <2>5
  <2> QED BY <2>5, <2>6 DEF Serves
<1> QED BY <1>2, <1>3

\* A step of a service with the connection it serves, which stays open: what it
\* has and what is on its way are again what follows a message.
LEMMA OpenStep ==
    ASSUME StreamInv, NEW s \in Services, NEW c \in Clients, c = client[s], StaysOpen,
           NEW b \in Seq(Byte), buffer' = [buffer EXCEPT ![s] = b],
           NEW i \in Seq(Byte), input' = [input EXCEPT ![s] = i],
           NEW t \in Seq(Byte), stream' = [stream EXCEPT ![c] = t],
           NEW h \in Seq(Nat), handed' = [handed EXCEPT ![c] = h],
           h \in Seq(DOMAIN MessagesOf(c)),
           NEW p \in 0 .. Len(BytesOf(c)), InMessage(s, c, p)'
    PROVE  StreamInv'
<1>1. Typed /\ Queues /\ Untouched /\ HandedInRange /\ ServiceOf[c] = s /\ c /= None
  BY StreamAssumption, ServedFacts DEF StreamInv
<1>2. client' = client /\ backlog' = backlog /\ ended' = ended
  BY DEF StaysOpen
<1>3. /\ buffer'[s] = b /\ input'[s] = i /\ stream'[c] = t /\ handed'[c] = h
      /\ \A u \in Services \ {s} : buffer'[u] = buffer[u] /\ input'[u] = input[u]
      /\ \A d \in Clients \ {c} : stream'[d] = stream[d] /\ handed'[d] = handed[d]
  BY <1>1 DEF Typed
<1>4. Typed'
  BY <1>1, <1>2 DEF Typed
<1>5. Queues'
  BY <1>1, <1>2 DEF Queues
<1>6. Untouched'
  <2> SUFFICES ASSUME NEW d \in Clients, Waiting(d)' \/ (d \notin ended' /\ ~Served(d)')
               PROVE  stream'[d] = BytesOf(d) /\ handed'[d] = <<>>
    BY DEF Untouched
  <2>1. Waiting(d) \/ (d \notin ended /\ ~Served(d))
    BY <1>2 DEF Waiting, Served
  <2>2. d /= c
    <3>1. ASSUME Waiting(c) PROVE FALSE
      <4>1. PICK j \in 1 .. Len(backlog[s]) : backlog[s][j] = c
        BY <1>1, <3>1 DEF Waiting, Contains
      <4>2. j \in DOMAIN backlog[s]
        BY <1>1, <4>1 DEF Typed
      <4> QED BY <1>1, <4>1, <4>2 DEF Queues
    <3> QED BY <1>1, <2>1, <3>1 DEF Served
  <2> QED BY <1>1, <1>3, <2>1, <2>2 DEF Untouched
<1>7. Serving'
  <2>1. \A u \in Services \ {s} : Serves(u)'
    BY <1>1, <1>2, <1>3, OthersServe
  <2>2. Serves(s)'
    <3>1. client'[s] = c
      BY <1>2
    <3>2. \E r \in 0 .. Len(BytesOf(client'[s])) : InMessage(s, c, r)'
      BY <3>1
    <3> QED BY <1>1, <3>1, <3>2 DEF Serves
  <2> QED BY <2>1, <2>2 DEF Serving
<1>8. HandedInRange'
  BY <1>1, <1>3 DEF HandedInRange
<1> QED BY <1>4, <1>5, <1>6, <1>7, <1>8 DEF StreamInv

\* The connection is given up, and nothing that could be taken for a message is left.
LEMMA CloseStep ==
    ASSUME StreamInv, NEW s \in Services, client[s] /= None, Close(s),
           NEW b \in Seq(Byte), buffer' = [buffer EXCEPT ![s] = b],
           NEW i \in Seq(Byte), input' = [input EXCEPT ![s] = i],
           UNCHANGED handed, Between(s)'
    PROVE  StreamInv'
<1>1. PICK c \in Clients : c = client[s] /\ ServiceOf[c] = s
  BY ServedFacts
<1>2. Typed /\ Queues /\ Untouched /\ HandedInRange /\ c /= None
  BY <1>1 DEF StreamInv
<1>3. /\ client' = [client EXCEPT ![s] = None] /\ stream' = [stream EXCEPT ![c] = <<>>]
      /\ ended' = ended \cup {c} /\ backlog' = backlog /\ handed' = handed
  BY <1>1 DEF Close
<1>4. /\ client'[s] = None
      /\ \A u \in Services \ {s} : /\ client'[u] = client[u] /\ buffer'[u] = buffer[u]
                                   /\ input'[u] = input[u]
      /\ \A d \in Clients \ {c} : stream'[d] = stream[d] /\ handed'[d] = handed[d]
  BY <1>2, <1>3 DEF Typed
<1>5. Typed'
  BY <1>2, <1>3 DEF Typed
<1>6. Queues'
  <2>1. \A u \in Services : client'[u] = None \/ client'[u] = client[u]
    BY <1>4
  <2>2. \A u \in Services : \A j \in DOMAIN backlog[u] : backlog[u][j] \in Clients
    BY <1>2 DEF Typed
  <2> QED BY <1>2, <1>3, <2>1, <2>2, StreamAssumption DEF Queues
<1>7. Untouched'
  <2> SUFFICES ASSUME NEW d \in Clients, Waiting(d)' \/ (d \notin ended' /\ ~Served(d)')
               PROVE  stream'[d] = BytesOf(d) /\ handed'[d] = <<>>
    BY DEF Untouched
  <2>1. ASSUME Waiting(c) PROVE FALSE
    <3>1. PICK j \in 1 .. Len(backlog[s]) : backlog[s][j] = c
      BY <1>1, <2>1 DEF Waiting, Contains
    <3>2. j \in DOMAIN backlog[s]
      BY <1>2, <3>1 DEF Typed
    <3> QED BY <1>1, <1>2, <3>1, <3>2 DEF Queues
  <2>2. d /= c
    BY <1>3, <2>1 DEF Waiting
  <2>3. ServiceOf[d] \in Services
    BY StreamAssumption
  <2>4. Served(d) => Served(d)'
    BY <1>1, <1>4, <2>2, <2>3 DEF Served
  <2>5. Waiting(d) \/ (d \notin ended /\ ~Served(d))
    BY <1>3, <2>4 DEF Waiting
  <2> QED BY <1>2, <1>4, <2>2, <2>5 DEF Untouched
<1>8. Serving'
  <2>1. \A u \in Services \ {s} : Serves(u)'
    BY <1>1, <1>4, OthersServe
  <2>2. Serves(s)'
    BY <1>4 DEF Serves
  <2> QED BY <2>1, <2>2 DEF Serving
<1>9. HandedInRange'
  BY <1>2, <1>3 DEF HandedInRange
<1> QED BY <1>5, <1>6, <1>7, <1>8, <1>9 DEF StreamInv

\* What arrives goes behind what the service has.
LEMMA ReceivedStep ==
    ASSUME StreamInv, NEW s \in Services, Waits(s), NEW n, Received(s, n),
           StaysOpen, UNCHANGED <<buffer, handed>>
    PROVE  StreamInv'
<1>1. client[s] /= None /\ input[s] = <<>>
  BY DEF Waits
<1>2. PICK c \in Clients : c = client[s]
  BY <1>1, ServedFacts
<1>3. PICK p \in 0 .. Len(BytesOf(c)) : InMessage(s, c, p)
  BY <1>1, <1>2, ServedFacts
<1>4. Typed /\ HandedInRange
  BY DEF StreamInv
<1>5. /\ buffer[s] \in Seq(Byte) /\ stream[c] \in Seq(Byte) /\ handed[c] \in Seq(Nat)
      /\ handed[c] \in Seq(DOMAIN MessagesOf(c))
  BY <1>4 DEF Typed, HandedInRange
<1> DEFINE b == buffer[s]
           i == SubSeq(stream[c], 1, n)
           t == SubSeq(stream[c], n + 1, Len(stream[c]))
           h == handed[c]
<1>6. n \in 0 .. Len(stream[c])
  BY <1>2, <1>5 DEF Received
<1>7. i \in Seq(Byte) /\ t \in Seq(Byte) /\ i \o t = stream[c]
  BY <1>5, <1>6, RestFacts
<1>8. /\ buffer' = [buffer EXCEPT ![s] = b] /\ input' = [input EXCEPT ![s] = i]
      /\ stream' = [stream EXCEPT ![c] = t] /\ handed' = [handed EXCEPT ![c] = h]
  BY <1>2, <1>4 DEF Received, Typed
<1>9. buffer'[s] = b /\ input'[s] = i /\ stream'[c] = t /\ handed'[c] = handed[c]
  BY <1>4, <1>8 DEF Typed
<1> HIDE DEF i, t
<1>10. b \o i \o t = b \o input[s] \o stream[c]
  <2>1. b \o i \o t = b \o (i \o t)
    <3>1. b \in Seq(Byte) /\ i \in Seq(Byte) /\ t \in Seq(Byte)
      BY <1>5, <1>7
    <3> HIDE DEF b
    <3> QED BY <3>1, ConcatAssociative
  <2>2. b \o <<>> = b
    BY <1>5, ConcatEmptySeq
  <2> QED BY <1>1, <1>7, <2>1, <2>2
<1>11. InMessage(s, c, p)'
  BY <1>3, <1>9, <1>10 DEF InMessage, LastHanded
<1> HIDE DEF b, h
<1> QED BY <1>2, <1>5, <1>7, <1>8, <1>11, OpenStep DEF b, h

\* Copying n of the bytes there are keeps their order, and stays within the message.
LEMMA TakeStep ==
    ASSUME StreamInv, NEW s \in Services, client[s] /= None, NEW needed \in Nat, Take(s, needed),
           StaysOpen, UNCHANGED <<stream, handed>>,
           NEW p \in 0 .. Len(BytesOf(client[s])), InMessage(s, client[s], p),
           \/ Len(buffer[s]) + needed <= LengthField
           \/ Len(buffer[s]) + needed <= Size(client[s], MessageAfter(client[s], p))
    PROVE  StreamInv'
<1>1. PICK c \in Clients : c = client[s]
  BY ServedFacts
<1>2. Typed /\ HandedInRange
  BY DEF StreamInv
<1>3. /\ buffer[s] \in Seq(Byte) /\ input[s] \in Seq(Byte) /\ stream[c] \in Seq(Byte)
      /\ handed[c] \in Seq(Nat) /\ handed[c] \in Seq(DOMAIN MessagesOf(c))
  BY <1>2 DEF Typed, HandedInRange
<1> DEFINE n == Smaller(needed, Len(input[s]))
           x == SubSeq(input[s], 1, n)
           b == buffer[s] \o x
           i == SubSeq(input[s], n + 1, Len(input[s]))
           t == stream[c]
           h == handed[c]
           k == MessageAfter(c, p)
<1>4. n \in 0 .. Len(input[s]) /\ n <= needed /\ Len(input[s]) \in Nat /\ Len(buffer[s]) \in Nat
  BY <1>3 DEF Smaller
<1>5. /\ buffer' = [buffer EXCEPT ![s] = b] /\ input' = [input EXCEPT ![s] = i]
      /\ stream' = [stream EXCEPT ![c] = t] /\ handed' = [handed EXCEPT ![c] = h]
  BY <1>2 DEF Take, Typed
<1>6. buffer'[s] = b /\ input'[s] = i /\ stream'[c] = stream[c] /\ handed'[c] = handed[c]
  BY <1>2, <1>5 DEF Typed
<1> HIDE DEF n
<1>7. x \in Seq(Byte) /\ i \in Seq(Byte) /\ x \o i = input[s] /\ Len(x) = n
  <2> DEFINE y == input[s]
  <2>1. y \in Seq(Byte) /\ n \in 0 .. Len(y)
    BY <1>3, <1>4
  <2> HIDE DEF y
  <2>2. /\ SubSeq(y, 1, n) \in Seq(Byte) /\ SubSeq(y, n + 1, Len(y)) \in Seq(Byte)
        /\ SubSeq(y, 1, n) \o SubSeq(y, n + 1, Len(y)) = y /\ Len(SubSeq(y, 1, n)) = n
    BY <2>1, RestFacts
  <2> QED BY <2>2 DEF y
<1> HIDE DEF x, i
<1>8. b \in Seq(Byte) /\ Len(b) = Len(buffer[s]) + n
  BY <1>3, <1>7, ConcatProperties
<1>9. b \o i \o t = buffer[s] \o input[s] \o t
  <2>1. b \o i = buffer[s] \o (x \o i)
    <3> DEFINE y == buffer[s]
    <3>1. y \in Seq(Byte) /\ x \in Seq(Byte) /\ i \in Seq(Byte)
      BY <1>3, <1>7
    <3> HIDE DEF y
    <3>2. y \o x \o i = y \o (x \o i)
      BY <3>1, ConcatAssociative
    <3> QED BY <3>2 DEF y
  <2> QED BY <1>7, <2>1
<1> HIDE DEF b
<1>10. ASSUME b /= <<>> PROVE Len(b) <= Size(c, k)
  <2> DEFINE B == BytesOf(c)
  <2>1. b \o i \o t = SubSeq(B, p + 1, Len(B)) /\ p \in 0 .. Len(B)
    BY <1>1, <1>9 DEF InMessage
  <2>2. B \in Seq(Byte) /\ Len(B) \in Nat /\ t \in Seq(Byte) /\ p \in Nat
    BY <1>1, <1>3, StartFacts
  <2> HIDE DEF B, t
  <2>3. RestIs(B, p, b, i, t)
    BY <1>7, <1>8, <2>1, <2>2, Following
  <2>4. Len(b) \in Nat /\ Len(b) /= 0 /\ Len(i) \in Nat /\ Len(t) \in Nat
    BY <1>7, <1>8, <1>10, <2>2, EmptySeq
  <2>5. p < Len(B)
    <3>1. p + Len(b) + Len(i) + Len(t) = Len(B)
      BY <2>3 DEF RestIs
    <3>2. \A u, v, w, y, z \in Nat : u + v + w + y = z /\ v /= 0 => u < z
      OBVIOUS
    <3> QED BY <2>2, <2>4, <3>1, <3>2
  <2>6. Boundary(c, p)
    BY <1>1 DEF InMessage
  <2>7. k \in 1 .. Count(c)
    BY <2>2, <2>5, <2>6, BoundaryFacts DEF B, k
  <2> HIDE DEF k
  <2>8. Size(c, k) \in Nat /\ Size(c, k) > LengthField
    BY <2>7, MessageFacts
  <2>9. Len(b) <= Len(buffer[s]) + needed
    <3>1. \A u, v, w, y \in Nat : u = v + w /\ w <= y => u <= v + y
      OBVIOUS
    <3> QED BY <1>4, <1>8, <2>4, <3>1
  <2>10. Len(buffer[s]) + needed <= Size(c, k)
    <3>1. Len(buffer[s]) + needed <= LengthField \/ Len(buffer[s]) + needed <= Size(c, k)
      BY <1>1 DEF k
    <3>2. Len(buffer[s]) + needed \in Nat
      BY <1>4
    <3> QED BY <2>8, <3>1, <3>2 DEF LengthField
  <2>11. \A u, v, w \in Nat : u <= v /\ v <= w => u <= w
    OBVIOUS
  <2> QED BY <1>4, <2>4, <2>8, <2>9, <2>10, <2>11
<1>11. InMessage(s, c, p)'
  <2>1. InMessage(s, c, p)
    BY <1>1
  <2>2. b \o i \o stream[c] = SubSeq(BytesOf(c), p + 1, Len(BytesOf(c)))
    BY <1>9, <2>1 DEF InMessage
  <2>3. b /= <<>> => Len(b) <= LengthOf(MessagesOf(c)[MessageAfter(c, p)])
    BY <1>10 DEF Size
  <2> HIDE DEF t, k
  <2> QED BY <1>6, <2>1, <2>2, <2>3 DEF InMessage, LastHanded
<1>12. t \in Seq(Byte) /\ h \in Seq(Nat) /\ h \in Seq(DOMAIN MessagesOf(c)) /\ p \in 0 .. Len(BytesOf(c))
  BY <1>1, <1>3
<1> HIDE DEF t, h
<1> QED BY <1>1, <1>5, <1>7, <1>8, <1>11, <1>12, OpenStep

LEMMA CopyStep ==
    ASSUME StreamInv, NEW s \in Services, CopyLength(s) \/ CopyBody(s)
    PROVE  StreamInv'
<1>1. client[s] /= None
  BY BetweenWaits
<1>2. Len(buffer[s]) \in Nat /\ Typed
  BY DEF StreamInv, Typed
<1>3. PICK p \in 0 .. Len(BytesOf(client[s])) : InMessage(s, client[s], p)
  BY <1>1, ServedFacts
<1>4. CASE CopyLength(s)
  <2> DEFINE needed == LengthField - Len(buffer[s])
  <2>1. needed \in Nat /\ Len(buffer[s]) + needed <= LengthField
    BY <1>2, <1>4 DEF CopyLength, LengthField
  <2>2. Take(s, needed) /\ StaysOpen /\ UNCHANGED <<stream, handed>>
    BY <1>4 DEF CopyLength
  <2> HIDE DEF needed
  <2> QED BY <1>1, <1>3, <2>1, <2>2, TakeStep
<1>5. CASE CopyBody(s)
  <2> DEFINE needed == Needed(s)
             k == MessageAfter(client[s], p)
  <2>1. buffer[s] /= <<>>
    BY <1>2, <1>5 DEF CopyBody, LengthField
  <2>2. /\ k \in 1 .. Count(client[s]) /\ MsgLength(s) = Size(client[s], k)
        /\ client[s] \in Clients
    BY <1>1, <1>2, <1>3, <2>1, MessageSoFar, ServedFacts
  <2>3. Size(client[s], k) \in Nat
    BY <2>2, MessageFacts
  <2>4. Len(buffer[s]) < MsgLength(s)
    BY <1>5 DEF CopyBody
  <2>5. needed \in Nat /\ Len(buffer[s]) + needed <= Size(client[s], k)
    BY <1>2, <2>2, <2>3, <2>4 DEF Needed
  <2>6. Take(s, needed) /\ StaysOpen /\ UNCHANGED <<stream, handed>>
    BY <1>5 DEF CopyBody
  <2> HIDE DEF needed
  <2> QED BY <1>1, <1>3, <2>5, <2>6, TakeStep
<1> QED BY <1>4, <1>5

\* A whole message is behind it: handed on, or refused by the RFCOMM service.
LEMMA MessageStep ==
    ASSUME StreamInv, NEW s \in Services, Complete(s), StaysOpen,
           buffer' = [buffer EXCEPT ![s] = <<>>], UNCHANGED <<input, stream>>,
           \/ handed' = [handed EXCEPT ![buffer[s][1][1]] = Append(@, buffer[s][1][2])]
           \/ UNCHANGED handed /\ s \notin Tcp
    PROVE  StreamInv'
<1>1. client[s] /= None
  BY BetweenWaits
<1>2. PICK c \in Clients : c = client[s]
  BY <1>1, ServedFacts
<1>3. PICK p \in 0 .. Len(BytesOf(c)) : InMessage(s, c, p)
  BY <1>1, <1>2, ServedFacts
<1>4. Typed /\ HandedInRange
  BY DEF StreamInv
<1>5. PICK k, q : WholeMessage(s, c, p, k, q)
  BY <1>3, <1>4, WholeMessageFacts
<1>6. /\ k = MessageAfter(c, p) /\ k \in 1 .. Count(c) /\ q \in 0 .. Len(BytesOf(c))
      /\ Boundary(c, q) /\ MessageAfter(c, q) = k + 1
      /\ buffer[s][1][1] = c /\ buffer[s][1][2] = k
  BY <1>5 DEF WholeMessage
<1>7. /\ handed[c] \in Seq(Nat) /\ handed[c] \in Seq(DOMAIN MessagesOf(c))
      /\ input[s] \in Seq(Byte) /\ stream[c] \in Seq(Byte) /\ <<>> \in Seq(Byte)
  BY <1>4 DEF Typed, HandedInRange
<1>8. /\ Len(handed[c]) < k /\ \A j \in DOMAIN handed[c] : handed[c][j] \in 1 .. k - 1
      /\ s \in Tcp => LastHanded(c) = k - 1
  BY <1>3, <1>6 DEF InMessage
<1>9. k \in Nat \ {0} /\ k \in DOMAIN MessagesOf(c) /\ Len(handed[c]) \in Nat
  BY <1>6, <1>7, MessageFacts
<1>10. PICK h \in Seq(Nat) :
          /\ handed' = [handed EXCEPT ![c] = h] /\ h \in Seq(DOMAIN MessagesOf(c))
          /\ Len(h) < k + 1 /\ \A j \in DOMAIN h : h[j] \in 1 .. k
          /\ s \in Tcp => h /= <<>> /\ h[Len(h)] = k
  <2>1. CASE UNCHANGED handed /\ s \notin Tcp
    <3> DEFINE h == handed[c]
    <3>1. handed' = [handed EXCEPT ![c] = h]
      BY <1>4, <2>1 DEF Typed
    <3>2. Len(h) < k + 1 /\ \A j \in DOMAIN h : h[j] \in 1 .. k
      BY <1>8, <1>9
    <3> HIDE DEF h
    <3> QED BY <1>7, <2>1, <3>1, <3>2 DEF h
  <2>2. CASE handed' = [handed EXCEPT ![buffer[s][1][1]] = Append(@, buffer[s][1][2])]
    <3> DEFINE g == handed[c]
               h == Append(g, k)
    <3>1. handed' = [handed EXCEPT ![c] = h]
      BY <1>6, <2>2
    <3>2. g \in Seq(Nat) /\ g \in Seq(DOMAIN MessagesOf(c)) /\ Len(g) < k /\ Len(g) \in Nat
          /\ \A j \in 1 .. Len(g) : g[j] \in 1 .. k - 1
      BY <1>7, <1>8, <1>9
    <3> HIDE DEF g
    <3>3. h \in Seq(Nat) /\ h \in Seq(DOMAIN MessagesOf(c)) /\ Len(h) = Len(g) + 1
          /\ DOMAIN h = 1 .. Len(g) + 1 /\ h[Len(g) + 1] = k /\ h /= <<>>
          /\ \A j \in 1 .. Len(g) : h[j] = g[j]
      BY <1>9, <3>2, AppendProperties
    <3> HIDE DEF h
    <3>4. ASSUME NEW j \in DOMAIN h PROVE h[j] \in 1 .. k
      <4>1. CASE j = Len(g) + 1
        BY <1>9, <3>3, <4>1
      <4>2. CASE j /= Len(g) + 1
        <5>1. j \in 1 .. Len(g)
          BY <3>2, <3>3, <4>2
        <5>2. h[j] \in 1 .. k - 1
          BY <3>2, <3>3, <5>1
        <5> QED BY <1>9, <5>2
      <4> QED BY <4>1, <4>2
    <3>5. Len(h) < k + 1 /\ h[Len(h)] = k
      BY <1>9, <3>2, <3>3
    <3> QED BY <3>1, <3>3, <3>4, <3>5
  <2> QED BY <2>1, <2>2
<1>11. /\ buffer'[s] = <<>> /\ input'[s] = input[s] /\ stream'[c] = stream[c] /\ handed'[c] = h
       /\ input' = [input EXCEPT ![s] = input[s]] /\ stream' = [stream EXCEPT ![c] = stream[c]]
  BY <1>4, <1>10 DEF Typed
<1>12. InMessage(s, c, q)'
  <2>1. buffer'[s] \o input'[s] \o stream'[c] = SubSeq(BytesOf(c), q + 1, Len(BytesOf(c)))
    BY <1>5, <1>11 DEF WholeMessage
  <2>2. k + 1 - 1 = k
    BY <1>9
  <2>3. s \in Tcp => LastHanded(c)' = k
    BY <1>10, <1>11 DEF LastHanded
  <2>4. /\ Len(handed'[c]) < MessageAfter(c, q)
        /\ \A j \in DOMAIN handed'[c] : handed'[c][j] \in 1 .. MessageAfter(c, q) - 1
        /\ s \in Tcp => LastHanded(c)' = MessageAfter(c, q) - 1
    BY <1>6, <1>10, <1>11, <2>2, <2>3
  <2>5. Boundary(c, q) /\ buffer'[s] = <<>>
    BY <1>6, <1>11
  <2> QED BY <2>1, <2>4, <2>5 DEF InMessage
<1>13. PICK i \in Seq(Byte) : i = input[s]
  BY <1>7
<1>14. PICK t \in Seq(Byte) : t = stream[c]
  BY <1>7
<1> QED BY <1>2, <1>6, <1>7, <1>10, <1>11, <1>12, <1>13, <1>14, OpenStep

LEMMA EndsStep ==
    ASSUME StreamInv, NEW s \in Services, RecvEnds(s)
    PROVE  StreamInv'
<1>1. client[s] /= None /\ input[s] = <<>> /\ Typed /\ Close(s)
  BY DEF RecvEnds, Waits, StreamInv
<1>2. PICK c \in Clients : c = client[s]
  BY <1>1, ServedFacts
<1>3. PICK p \in 0 .. Len(BytesOf(c)) : InMessage(s, c, p)
  BY <1>1, <1>2, ServedFacts
<1>4. buffer[s] \in Seq(Byte) /\ Len(buffer[s]) \in Nat
  BY <1>1 DEF Typed
<1>5. Len(buffer[s]) >= LengthField => LengthInRange(s) /\ ~(Len(buffer[s]) >= MsgLength(s))
  <2> SUFFICES ASSUME Len(buffer[s]) >= LengthField
               PROVE  LengthInRange(s) /\ ~(Len(buffer[s]) >= MsgLength(s))
    OBVIOUS
  <2>1. buffer[s] /= <<>> /\ ~(Len(buffer[s]) < LengthField)
    BY <1>4 DEF LengthField
  <2>2. LengthInRange(s) /\ Len(buffer[s]) < MsgLength(s)
    BY <2>1 DEF RecvEnds, Waits
  <2>3. MsgLength(s) \in Nat
    <3>1. MessageAfter(c, p) \in 1 .. Count(c) /\ MsgLength(s) = Size(c, MessageAfter(c, p))
      BY <1>1, <1>3, <2>1, MessageSoFar
    <3> QED BY <3>1, MessageFacts
  <2> QED BY <1>4, <2>2, <2>3
<1>6. Between(s)
  BY <1>1, <1>5 DEF Between, Complete
<1>7. Between(s)'
  BY <1>6 DEF Between, Complete, LengthInRange, MsgLength, RecvEnds
<1>8. /\ buffer' = [buffer EXCEPT ![s] = buffer[s]] /\ input' = [input EXCEPT ![s] = <<>>]
      /\ handed' = handed /\ <<>> \in Seq(Byte)
  BY <1>1 DEF RecvEnds, Typed
<1> QED BY <1>1, <1>4, <1>7, <1>8, CloseStep

LEMMA DropStep ==
    ASSUME StreamInv, NEW s \in Services, client[s] /= None, Close(s),
           buffer' = [buffer EXCEPT ![s] = <<>>], input' = [input EXCEPT ![s] = <<>>],
           UNCHANGED handed
    PROVE  StreamInv'
<1>1. Typed /\ <<>> \in Seq(Byte) /\ Len(<<>>) = 0
  BY DEF StreamInv
<1>2. buffer'[s] = <<>> /\ input'[s] = <<>>
  BY <1>1 DEF Typed
<1>3. Between(s)'
  <2>1. ~(Len(buffer'[s]) >= LengthField)
    BY <1>1, <1>2 DEF LengthField
  <2> QED BY <1>2, <2>1 DEF Between, Complete
<1> QED BY <1>1, <1>3, CloseStep

\* The first of those that wait is new to the service.
LEMMA AcceptStep ==
    ASSUME StreamInv, NEW s \in Services, Accept(s)
    PROVE  StreamInv'
<1>1. Typed /\ Queues /\ Untouched /\ HandedInRange
  BY DEF StreamInv
<1>2. client[s] = None /\ backlog[s] /= <<>> /\ backlog[s] \in Seq(Clients)
  BY <1>1 DEF Accept, Typed
<1> DEFINE r == backlog[s]
<1>3. PICK c \in Clients : c = Head(r)
  BY <1>2
<1>4. /\ Tail(r) \in Seq(Clients) /\ 1 \in DOMAIN r /\ c = r[1] /\ 1 \in 1 .. Len(r)
      /\ Len(r) \in Nat
      /\ \A j \in DOMAIN Tail(r) : j + 1 \in DOMAIN r /\ Tail(r)[j] = r[j + 1] /\ j + 1 /= 1
      /\ \A j, k \in DOMAIN Tail(r) : j + 1 = k + 1 => j = k
      /\ \A j \in 1 .. Len(Tail(r)) : j \in DOMAIN Tail(r) /\ j + 1 \in 1 .. Len(r)
      /\ \A j \in 1 .. Len(r) : j /= 1 => j - 1 \in 1 .. Len(Tail(r)) /\ Tail(r)[j - 1] = r[j]
  BY <1>2, <1>3
<1>5. c /= None /\ ServiceOf[c] = s /\ c = r[1]
  BY <1>1, <1>4, StreamAssumption DEF Queues
<1>6. Waiting(c)
  BY <1>4, <1>5 DEF Waiting, Contains
<1>7. stream[c] = BytesOf(c) /\ handed[c] = <<>>
  BY <1>1, <1>6 DEF Untouched
<1>8. /\ client' = [client EXCEPT ![s] = c] /\ backlog' = [backlog EXCEPT ![s] = Tail(r)]
      /\ input' = [input EXCEPT ![s] = <<>>] /\ buffer' = [buffer EXCEPT ![s] = <<>>]
      /\ stream' = stream /\ ended' = ended /\ handed' = handed
  BY <1>3 DEF Accept
<1>9. /\ client'[s] = c /\ backlog'[s] = Tail(r) /\ input'[s] = <<>> /\ buffer'[s] = <<>>
      /\ \A u \in Services \ {s} : /\ client'[u] = client[u] /\ backlog'[u] = backlog[u]
                                   /\ input'[u] = input[u] /\ buffer'[u] = buffer[u]
  BY <1>1, <1>8 DEF Typed
<1>10. Typed'
  <2>1. <<>> \in Seq(Byte)
    OBVIOUS
  <2> HIDE DEF r
  <2> QED BY <1>1, <1>4, <1>8, <2>1 DEF Typed
<1>11. Queues'
  <2> HIDE DEF r
  <2>1. \A j \in DOMAIN r : /\ ServiceOf[r[j]] = s
                            /\ \A k \in DOMAIN r : r[j] = r[k] => j = k
    BY <1>1 DEF Queues, r
  <2>2. ASSUME NEW j \in DOMAIN Tail(r)
        PROVE  /\ ServiceOf[Tail(r)[j]] = s /\ Tail(r)[j] /= c
               /\ \A k \in DOMAIN Tail(r) : Tail(r)[j] = Tail(r)[k] => j = k
    <3>1. Tail(r)[j] = r[j + 1] /\ j + 1 \in DOMAIN r /\ j + 1 /= 1
      BY <1>4
    <3>2. r[j + 1] /= r[1]
      BY <1>4, <2>1, <3>1
    <3>3. ASSUME NEW k \in DOMAIN Tail(r), Tail(r)[j] = Tail(r)[k] PROVE j = k
      <4>1. Tail(r)[k] = r[k + 1] /\ k + 1 \in DOMAIN r
        BY <1>4
      <4>2. j + 1 = k + 1
        BY <2>1, <3>1, <3>3, <4>1
      <4> QED BY <1>4, <4>2
    <3> QED BY <1>5, <2>1, <3>1, <3>2, <3>3
  <2>3. ASSUME NEW u \in Services
        PROVE  /\ client'[u] /= None => ServiceOf[client'[u]] = u
               /\ \A j \in DOMAIN backlog'[u] :
                     /\ ServiceOf[backlog'[u][j]] = u
                     /\ backlog'[u][j] /= client'[u]
                     /\ \A k \in DOMAIN backlog'[u] : backlog'[u][j] = backlog'[u][k] => j = k
    <3>1. CASE u = s
      <4> DEFINE x == Tail(r)
      <4>1. client'[u] = c /\ backlog'[u] = x
        BY <1>9, <3>1
      <4>2. \A j \in DOMAIN x : /\ ServiceOf[x[j]] = s /\ x[j] /= c
                                /\ \A k \in DOMAIN x : x[j] = x[k] => j = k
        BY <2>2
      <4> HIDE DEF x
      <4> QED BY <1>5, <3>1, <4>1, <4>2
    <3>2. CASE u /= s
      <4>1. client'[u] = client[u] /\ backlog'[u] = backlog[u]
        BY <1>9, <3>2
      <4> QED BY <1>1, <4>1 DEF Queues
    <3> QED BY <3>1, <3>2
  <2> QED BY <2>3 DEF Queues
<1>12. Untouched'
  <2> SUFFICES ASSUME NEW d \in Clients, Waiting(d)' \/ (d \notin ended' /\ ~Served(d)')
               PROVE  stream'[d] = BytesOf(d) /\ handed'[d] = <<>>
    BY DEF Untouched
  <2>1. ServiceOf[d] \in Services
    BY StreamAssumption
  <2>2. Waiting(d)' => Waiting(d)
    <3>1. CASE ServiceOf[d] = s
      <4> HIDE DEF r
      <4>1. ASSUME NEW j \in 1 .. Len(Tail(r)), Tail(r)[j] = d
            PROVE  \E k \in 1 .. Len(r) : r[k] = d
        BY <1>4, <4>1
      <4> QED BY <1>9, <3>1, <4>1 DEF Waiting, Contains, r
    <3>2. CASE ServiceOf[d] /= s
      BY <1>9, <2>1, <3>2 DEF Waiting
    <3> QED BY <3>1, <3>2
  <2>3. Served(d) => Served(d)'
    <3>1. CASE ServiceOf[d] = s
      BY <1>2, <3>1, StreamAssumption DEF Served
    <3>2. CASE ServiceOf[d] /= s
      BY <1>9, <2>1, <3>2 DEF Served
    <3> QED BY <3>1, <3>2
  <2> QED BY <1>1, <1>8, <2>2, <2>3 DEF Untouched
<1>13. Serving'
  <2>1. \A u \in Services \ {s} : Serves(u)'
    BY <1>5, <1>8, <1>9, OthersServe
  <2>2. /\ BytesOf(c) \in Seq(Byte) /\ Len(BytesOf(c)) \in Nat
        /\ Boundary(c, 0) /\ MessageAfter(c, 0) = 1
    BY StartFacts
  <2>3. <<>> \o <<>> \o BytesOf(c) = SubSeq(BytesOf(c), 1, Len(BytesOf(c)))
    <3> DEFINE B == BytesOf(c)
    <3>1. B \in Seq(Byte) /\ <<>> \in Seq(Byte)
      BY <2>2
    <3> HIDE DEF B
    <3>2. <<>> \o <<>> = <<>> /\ <<>> \o B = B /\ SubSeq(B, 1, Len(B)) = B
      BY <3>1, ConcatEmptySeq, SubSeqFull
    <3> QED BY <3>2 DEF B
  <2>4. stream'[c] = BytesOf(c) /\ handed'[c] = <<>>
    BY <1>7, <1>8
  <2>5. InMessage(s, c, 0)'
    <3>1. buffer'[s] \o input'[s] \o stream'[c] = SubSeq(BytesOf(c), 0 + 1, Len(BytesOf(c)))
      BY <1>9, <2>3, <2>4
    <3>2. /\ Len(handed'[c]) < 1 /\ \A j \in DOMAIN handed'[c] : handed'[c][j] \in 1 .. 1 - 1
          /\ LastHanded(c)' = 1 - 1
      BY <2>4 DEF LastHanded
    <3> QED BY <1>9, <2>2, <3>1, <3>2 DEF InMessage
  <2>6. Serves(s)'
    <3>1. 0 \in 0 .. Len(BytesOf(client'[s]))
      BY <1>9, <2>2
    <3>2. \E p \in 0 .. Len(BytesOf(client'[s])) : InMessage(s, c, p)'
      BY <2>5, <3>1
    <3> QED BY <1>5, <1>9, <3>2 DEF Serves
  <2> QED BY <2>1, <2>6 DEF Serving
<1>14. HandedInRange'
  BY <1>1, <1>8 DEF HandedInRange
<1> QED BY <1>10, <1>11, <1>12, <1>13, <1>14 DEF StreamInv

LEMMA ConnectStep ==
    ASSUME StreamInv, NEW c \in Clients, Connect(c)
    PROVE  StreamInv'
<1>1. Typed /\ Queues /\ Untouched /\ Serving /\ HandedInRange
  BY DEF StreamInv
<1>2. PICK s \in Services : s = ServiceOf[c]
  BY StreamAssumption
<1> DEFINE r == backlog[s]
           x == Append(r, c)
<1>3. /\ backlog' = [backlog EXCEPT ![s] = x] /\ r \in Seq(Clients)
      /\ client' = client /\ input' = input /\ buffer' = buffer /\ stream' = stream
      /\ ended' = ended /\ handed' = handed
      /\ ~Waiting(c) /\ client[s] /= c /\ c \notin ended
  BY <1>1, <1>2 DEF Connect, Typed, Served
<1>4. backlog'[s] = x /\ \A u \in Services \ {s} : backlog'[u] = backlog[u]
  BY <1>1, <1>3 DEF Typed
<1>5. \A j \in 1 .. Len(r) : r[j] /= c
  BY <1>2, <1>3 DEF Waiting, Contains
<1> HIDE DEF r
<1>6. /\ x \in Seq(Clients) /\ Len(r) \in Nat /\ DOMAIN r = 1 .. Len(r)
      /\ DOMAIN x = 1 .. Len(r) + 1 /\ Len(x) = Len(r) + 1 /\ x[Len(r) + 1] = c
      /\ \A j \in 1 .. Len(r) : x[j] = r[j]
  BY <1>3, AppendProperties
<1> HIDE DEF x
<1>7. \A j \in DOMAIN x : (j \in 1 .. Len(r) /\ x[j] = r[j] /\ r[j] /= c) \/ (j = Len(r) + 1 /\ x[j] = c)
  BY <1>5, <1>6
<1>8. Typed'
  BY <1>1, <1>3, <1>6 DEF Typed
<1>9. Queues'
  <2>1. \A j \in DOMAIN r : /\ ServiceOf[r[j]] = s /\ r[j] /= client[s]
                            /\ \A k \in DOMAIN r : r[j] = r[k] => j = k
    BY <1>1 DEF Queues, r
  <2>2. \A j \in DOMAIN x : /\ ServiceOf[x[j]] = s /\ x[j] /= client[s]
                            /\ \A k \in DOMAIN x : x[j] = x[k] => j = k
    BY <1>2, <1>3, <1>6, <1>7, <2>1
  <2>3. ASSUME NEW u \in Services
        PROVE  /\ client'[u] /= None => ServiceOf[client'[u]] = u
               /\ \A j \in DOMAIN backlog'[u] :
                     /\ ServiceOf[backlog'[u][j]] = u
                     /\ backlog'[u][j] /= client'[u]
                     /\ \A k \in DOMAIN backlog'[u] : backlog'[u][j] = backlog'[u][k] => j = k
    <3>1. client'[u] = client[u] /\ (client[u] /= None => ServiceOf[client[u]] = u)
      BY <1>1, <1>3 DEF Queues
    <3>2. CASE u = s
      BY <1>4, <2>2, <3>1, <3>2
    <3>3. CASE u /= s
      <4>1. backlog'[u] = backlog[u]
        BY <1>4, <3>3
      <4> QED BY <1>1, <3>1, <4>1 DEF Queues
    <3> QED BY <3>2, <3>3
  <2> QED BY <2>3 DEF Queues
<1>10. Untouched'
  <2> SUFFICES ASSUME NEW d \in Clients, Waiting(d)' \/ (d \notin ended' /\ ~Served(d)')
               PROVE  stream'[d] = BytesOf(d) /\ handed'[d] = <<>>
    BY DEF Untouched
  <2>1. ServiceOf[d] \in Services
    BY StreamAssumption
  <2>2. Waiting(d)' => Waiting(d) \/ d = c
    <3>1. CASE ServiceOf[d] = s
      <4>1. ASSUME NEW j \in 1 .. Len(x), x[j] = d, d /= c
            PROVE  \E k \in 1 .. Len(r) : r[k] = d
        BY <1>6, <1>7, <4>1
      <4> QED BY <1>4, <3>1, <4>1 DEF Waiting, Contains, r
    <3>2. CASE ServiceOf[d] /= s
      BY <1>4, <2>1, <3>2 DEF Waiting
    <3> QED BY <3>1, <3>2
  <2>3. Served(d)' <=> Served(d)
    BY <1>3 DEF Served
  <2>4. ~Served(c)
    BY <1>2, <1>3 DEF Served
  <2> QED BY <1>1, <1>3, <2>2, <2>3, <2>4 DEF Untouched
<1>11. Serving'
  <2> SUFFICES ASSUME NEW t \in Services PROVE Serves(t)'
    BY DEF Serving
  <2>1. Serves(t)
    BY <1>1 DEF Serving
  <2> QED BY <1>3, <2>1
          DEF Serves, Between, Complete, LengthInRange, MsgLength, InMessage, LastHanded
<1>12. HandedInRange'
  BY <1>1, <1>3 DEF HandedInRange
<1> QED BY <1>8, <1>9, <1>10, <1>11, <1>12 DEF StreamInv

\* The end of a stream does not touch the services.
LEMMA EndStep ==
    ASSUME StreamInv, UNCHANGED <<backlog, client, input, buffer, stream, handed>>,
           ended \subseteq ended', ended' \subseteq Clients
    PROVE  StreamInv'
<1>1. Typed /\ Queues /\ Untouched /\ Serving /\ HandedInRange
  BY DEF StreamInv
<1>2. Typed' /\ Queues' /\ HandedInRange'
  BY <1>1 DEF Typed, Queues, HandedInRange
<1>3. Untouched'
  BY <1>1 DEF Untouched, Waiting, Served
<1>4. Serving'
  <2> SUFFICES ASSUME NEW t \in Services PROVE Serves(t)'
    BY DEF Serving
  <2>1. Serves(t)
    BY <1>1 DEF Serving
  <2> QED BY <2>1
          DEF Serves, Between, Complete, LengthInRange, MsgLength, InMessage, LastHanded
<1> QED BY <1>2, <1>3, <1>4 DEF StreamInv

LEMMA ServeStep ==
    ASSUME StreamInv, NEW s \in Services, Serve(s)
    PROVE  StreamInv'
<1>1. Typed
  BY DEF StreamInv
<1>2. CASE Accept(s)
  BY <1>2, AcceptStep
<1>3. CASE Recv(s)
  BY <1>3, ReceivedStep DEF Recv
<1>4. CASE RecvAll(s)
  BY <1>4, ReceivedStep DEF RecvAll
<1>5. CASE RecvEnds(s)
  BY <1>5, EndsStep
<1>6. CASE CopyLength(s) \/ CopyBody(s)
  BY <1>6, CopyStep
<1>7. CASE BadLength(s)
  BY <1>7, BetweenWaits, DropStep DEF BadLength
<1>8. CASE HandleDatagram(s)
  BY <1>8, MessageStep DEF HandleDatagram
<1>9. CASE HandleFails(s)
  <2>1. CASE s \in Tcp
    BY <1>9, <2>1, BetweenWaits, DropStep DEF HandleFails, Refused
  <2>2. CASE s \notin Tcp
    BY <1>9, <2>2, MessageStep DEF HandleFails, Refused
  <2> QED BY <2>1, <2>2
<1> QED BY <1>2, <1>3, <1>4, <1>5, <1>6, <1>7, <1>8, <1>9 DEF Serve, HandleTcpBytes

LEMMA StreamInvStep ==
    ASSUME StreamInv, [Next]_vars
    PROVE  StreamInv'
<1>1. ended \subseteq Clients
  BY DEF StreamInv, Typed
<1>2. ASSUME NEW c \in Clients, Connect(c) PROVE StreamInv'
  BY <1>2, ConnectStep
<1>3. ASSUME NEW c \in Clients, End(c) PROVE StreamInv'
  BY <1>1, <1>3, EndStep DEF End
<1>4. CASE Idle \/ UNCHANGED vars
  BY <1>1, <1>4, EndStep DEF Idle, vars
<1> QED BY <1>2, <1>3, <1>4, ServeStep DEF Next

LEMMA StreamInvInit ==
    ASSUME Init
    PROVE  StreamInv
<1>1. \A c \in Clients : BytesOf(c) \in Seq(Byte)
  BY StartFacts
<1>2. Typed
  BY <1>1 DEF Init, Typed
<1>3. Queues
  BY DEF Init, Queues
<1>4. Untouched
  BY DEF Init, Untouched
<1>5. Serving
  <2> SUFFICES ASSUME NEW s \in Services PROVE Serves(s)
    BY DEF Serving
  <2>1. client[s] = None /\ input[s] = <<>> /\ buffer[s] = <<>>
    BY DEF Init
  <2>2. ~(Len(buffer[s]) >= LengthField)
    BY <2>1 DEF LengthField
  <2> QED BY <2>1, <2>2 DEF Serves, Between, Complete
<1>6. HandedInRange
  BY DEF Init, HandedInRange
<1> QED BY <1>2, <1>3, <1>4, <1>5, <1>6 DEF StreamInv

\* The inductive invariant of the stream services.
THEOREM StreamInvariant == Spec => []StreamInv
<1> QED BY StreamInvInit, StreamInvStep, PTL DEF Spec

-----------------------------------------------------------------------------
(* What the invariant says.                                                  *)

LEMMA RestIsSuffix ==
    ASSUME NEW S, NEW t \in Seq(S), NEW p \in 0 .. Len(t)
    PROVE  IsSuffix(SubSeq(t, p + 1, Len(t)), t)
<1> DEFINE r == SubSeq(t, p + 1, Len(t))
           v == Reverse(r)
           w == Reverse(t)
<1>1. /\ r \in Seq(S) /\ Len(r) = Len(t) - p /\ \A i \in 1 .. Len(t) - p : r[i] = t[p + i]
      /\ Len(t) \in Nat /\ p \in Nat /\ p <= Len(t)
  BY RestFacts
<1> HIDE DEF r
<1>2. Len(r) \in Nat /\ Len(r) <= Len(t) /\ Len(r) = Len(t) - p
  BY <1>1
<1>3. ASSUME NEW q \in Seq(S)
      PROVE  /\ Reverse(q) \in Seq(S) /\ Len(Reverse(q)) = Len(q)
             /\ \A i \in 1 .. Len(q) : Reverse(q)[i] = q[Len(q) - i + 1]
  <2>1. Len(q) \in Nat /\ \A i \in 1 .. Len(q) : Len(q) - i + 1 \in 1 .. Len(q)
    OBVIOUS
  <2>2. \A i \in 1 .. Len(q) : q[Len(q) - i + 1] \in S
    BY <2>1
  <2>3. Reverse(q) \in [1 .. Len(q) -> S] /\ \A i \in 1 .. Len(q) : Reverse(q)[i] = q[Len(q) - i + 1]
    BY <2>2 DEF Reverse
  <2> QED BY <2>1, <2>3
<1>4. /\ v \in Seq(S) /\ Len(v) = Len(r)
      /\ \A i \in 1 .. Len(r) : v[i] = r[Len(r) - i + 1]
  BY <1>1, <1>3
<1>5. /\ w \in Seq(S) /\ Len(w) = Len(t)
      /\ \A i \in 1 .. Len(t) : w[i] = t[Len(t) - i + 1]
  BY <1>3
<1> HIDE DEF v, w
<1>6. Len(v) \in 0 .. Len(w) /\ Len(v) \in 0 .. Len(v) /\ Len(v) <= Len(w)
  BY <1>1, <1>2, <1>4, <1>5
<1> DEFINE a == SubSeq(v, 1, Len(v))
           b == SubSeq(w, 1, Len(v))
<1>7. /\ a \in Seq(S) /\ Len(a) = Len(v) /\ \A i \in 1 .. Len(v) : a[i] = v[i]
      /\ b \in Seq(S) /\ Len(b) = Len(v) /\ \A i \in 1 .. Len(v) : b[i] = w[i]
  BY <1>4, <1>5, <1>6, RestFacts
<1>8. ASSUME NEW i \in 1 .. Len(v) PROVE v[i] = w[i]
  <2>1. /\ i \in 1 .. Len(r) /\ i \in 1 .. Len(t)
        /\ Len(r) - i + 1 \in 1 .. Len(t) - p
        /\ p + (Len(r) - i + 1) = Len(t) - i + 1
    BY <1>1, <1>2, <1>4
  <2>2. v[i] = r[Len(r) - i + 1] /\ w[i] = t[Len(t) - i + 1]
    BY <1>4, <1>5, <2>1
  <2>3. r[Len(r) - i + 1] = t[p + (Len(r) - i + 1)]
    BY <1>1, <2>1
  <2> QED BY <2>1, <2>2, <2>3
<1> HIDE DEF a, b
<1>9. a = b
  <2>1. \A i \in 1 .. Len(a) : a[i] = b[i]
    BY <1>7, <1>8
  <2> QED BY <1>7, <2>1, SeqEqual
<1>10. IsPrefix(v, w)
  BY <1>6, <1>9 DEF IsPrefix, a, b
<1> QED BY <1>10 DEF IsSuffix, v, w, r

LEMMA NothingMixedOfInv ==
    ASSUME StreamInv
    PROVE  NothingMixed
<1>1. Typed /\ HandedInRange
  BY DEF StreamInv
<1>2. TypeOK
  BY <1>1 DEF TypeOK, Typed, HandedInRange
<1>3. ASSUME NEW s \in Services, client[s] /= None
      PROVE  LET c == client[s] IN
             /\ Len(handed[c]) <= Len(MessagesOf(c))
             /\ IsSuffix(buffer[s] \o input[s] \o stream[c], BytesOf(c))
             /\ buffer[s] /= <<>> => /\ buffer[s][1][3] = 1
                                     /\ \A n \in DOMAIN buffer[s] : buffer[s][n][2] = buffer[s][1][2]
  <2>1. PICK c \in Clients : c = client[s]
    BY <1>3, ServedFacts
  <2>2. PICK p \in 0 .. Len(BytesOf(c)) : InMessage(s, c, p)
    BY <1>3, <2>1, ServedFacts
  <2> DEFINE k == MessageAfter(c, p)
  <2>3. /\ BytesOf(c) \in Seq(Byte) /\ Len(BytesOf(c)) \in Nat /\ p \in Nat
        /\ Len(handed[c]) \in Nat /\ Len(handed[c]) < k /\ Boundary(c, p)
    BY <1>1, <2>2, StartFacts DEF Typed, InMessage
  <2>4. Len(handed[c]) <= Len(MessagesOf(c))
    <3>1. CASE p < Len(BytesOf(c))
      <4>1. k \in 1 .. Count(c) /\ Count(c) \in Nat
        BY <2>3, <3>1, BoundaryFacts, MessageFacts
      <4> HIDE DEF k
      <4> QED BY <2>3, <4>1 DEF Count
    <3>2. CASE ~(p < Len(BytesOf(c)))
      <4>1. k = Count(c) + 1 /\ Count(c) \in Nat
        BY <3>2, MessageFacts DEF MessageAfter, Count
      <4> HIDE DEF k
      <4> QED BY <2>3, <4>1 DEF Count
    <3> QED BY <3>1, <3>2
  <2>5. IsSuffix(buffer[s] \o input[s] \o stream[c], BytesOf(c))
    <3> DEFINE B == BytesOf(c)
               w == buffer[s] \o input[s] \o stream[c]
    <3>1. w = SubSeq(B, p + 1, Len(B)) /\ B \in Seq(Byte) /\ p \in 0 .. Len(B)
      BY <2>2, <2>3 DEF InMessage
    <3> HIDE DEF B, w
    <3>2. IsSuffix(SubSeq(B, p + 1, Len(B)), B)
      BY <3>1, RestIsSuffix
    <3>3. IsSuffix(w, B)
      BY <3>1, <3>2
    <3> QED BY <3>3 DEF B, w
  <2>6. ASSUME buffer[s] /= <<>>
        PROVE  /\ buffer[s][1][3] = 1
               /\ \A n \in DOMAIN buffer[s] : buffer[s][n][2] = buffer[s][1][2]
    <3>1. \A n \in 1 .. Len(buffer[s]) : buffer[s][n] = <<c, k, n>>
      BY <1>1, <2>2, <2>6, MessageSoFar
    <3>2. DOMAIN buffer[s] = 1 .. Len(buffer[s]) /\ 1 \in 1 .. Len(buffer[s])
      <4>1. buffer[s] \in Seq(Byte)
        BY <1>1 DEF Typed
      <4> QED BY <2>6, <4>1, EmptySeq
    <3> HIDE DEF k
    <3> QED BY <3>1, <3>2
  <2> QED BY <2>1, <2>4, <2>5, <2>6
<1> QED BY <1>2, <1>3 DEF NothingMixed

\* However the streams are cut up, no service puts bytes of two messages or of
\* two connections together, and none of a connection it serves is lost.
THEOREM StreamNothingMixed == Spec => []NothingMixed
<1> QED BY StreamInvariant, NothingMixedOfInv, PTL

-----------------------------------------------------------------------------
(* The services are such pipes as MessagePipe says.                          *)

LEMMA HandOnStep ==
    ASSUME StreamInv, NEW s \in Services, HandleDatagram(s)
    PROVE  Pipe!Next
<1>1. client[s] /= None /\ Complete(s) /\ Typed
  BY BetweenWaits DEF HandleDatagram, StreamInv
<1>2. PICK c \in Clients : c = client[s] /\ ServiceOf[c] = s
  BY <1>1, ServedFacts
<1>3. PICK p \in 0 .. Len(BytesOf(c)) : InMessage(s, c, p)
  BY <1>1, <1>2, ServedFacts
<1>4. PICK k, q : WholeMessage(s, c, p, k, q)
  BY <1>1, <1>3, WholeMessageFacts
<1>5. /\ k = MessageAfter(c, p) /\ k \in 1 .. Count(c)
      /\ buffer[s][1][1] = c /\ buffer[s][1][2] = k
  BY <1>4 DEF WholeMessage
<1>6. k \in DOMAIN MessagesOf(c) /\ k \in Nat /\ k > 0
  BY <1>5, MessageFacts
<1>7. Pipe!Last(c) = LastHanded(c)
  BY DEF Pipe!Last, LastHanded
<1>8. k > LastHanded(c)
  <2>1. \A j \in DOMAIN handed[c] : handed[c][j] \in 1 .. k - 1
    BY <1>3, <1>5 DEF InMessage
  <2>2. CASE handed[c] = <<>>
    BY <1>6, <2>2 DEF LastHanded
  <2>3. CASE handed[c] /= <<>>
    <3>1. handed[c] \in Seq(Nat)
      BY <1>1 DEF Typed
    <3>2. Len(handed[c]) \in DOMAIN handed[c]
      BY <2>3, <3>1, EmptySeq
    <3>3. handed[c][Len(handed[c])] \in 1 .. k - 1
      BY <2>1, <3>2
    <3> QED BY <1>6, <2>3, <3>3 DEF LastHanded
  <2> QED BY <2>2, <2>3
<1>9. s \in Tcp => k = LastHanded(c) + 1
  <2>1. s \in Tcp => LastHanded(c) = k - 1
    BY <1>3, <1>5 DEF InMessage
  <2> QED BY <1>6, <2>1
<1>10. s \in Tcp \/ ServiceOf[c] \in Rfcomm
  BY <1>2 DEF Services
<1>11. handed' = [handed EXCEPT ![c] = Append(@, k)]
  BY <1>5 DEF HandleDatagram
<1>12. Pipe!HandOn(c, k)
  BY <1>6, <1>7, <1>8, <1>9, <1>10, <1>11 DEF Pipe!HandOn
<1> QED BY <1>6, <1>12 DEF Pipe!Next

LEMMA PipeStep ==
    ASSUME StreamInv, [Next]_vars
    PROVE  [Pipe!Next]_handed
<1>1. ASSUME NEW s \in Services, Serve(s), ~HandleDatagram(s) PROVE handed' = handed
  BY <1>1 DEF Serve, Accept, Recv, RecvAll, RecvEnds, HandleTcpBytes, CopyLength, BadLength,
              CopyBody, HandleFails
<1>2. ASSUME NEW c \in Clients, Connect(c) \/ End(c) PROVE handed' = handed
  BY <1>2 DEF Connect, End
<1>3. CASE Idle \/ UNCHANGED vars
  BY <1>3 DEF Idle, vars
<1> QED BY <1>1, <1>2, <1>3, HandOnStep DEF Next

\* Every message of a connection is handed on at most once, in the order of the
\* connection; only the RFCOMM service leaves one out and goes on.
THEOREM StreamImplementsPipe == Spec => ImplementsPipe
<1>1. Init => Pipe!Init
  BY DEF Init, Pipe!Init
<1>2. StreamInv /\ [Next]_vars => [Pipe!Next]_handed
  BY PipeStep
<1> QED BY <1>1, <1>2, StreamInvariant, PTL DEF Spec, ImplementsPipe, Pipe!Spec
=============================================================================

------------------------- MODULE PendingKeysProofs -------------------------
(***************************************************************************)
(* Proofs about PendingKeys, for every value of its constants: its types,  *)
(* that no event is forgotten, that the ids are those of the queue, that   *)
(* an event is handed on once, and that a key brings what waits for it.    *)
(*                                                                         *)
(* All five follow from one invariant, which tells where an event may be   *)
(* while tasks move it.  The first sections say what the operators on      *)
(* sequences, on the queue and on the table do; then come the invariant,   *)
(* what each action does to the fields it talks of (the lemmas "...Is"),   *)
(* that each keeps the base (the lemmas "...Base") and the rest of it (the *)
(* lemmas "...Keeps").                                                     *)
(***************************************************************************)
EXTENDS PendingKeys, FiniteSetTheorems, WellFoundedInduction, TLAPS

\* A set of numbers that is not empty has a least member.
LEMMA LeastNat ==
    ASSUME NEW T \in SUBSET Nat, T # {}
    PROVE  \E n \in T : \A m \in T : n <= m
<1> DEFINE R == OpToRel(<, Nat)
<1>1. IsWellFoundedOn(R, Nat)
  BY NatLessThanWellFounded
<1>2. \A x, y \in Nat : x < y => <<x, y>> \in R
  BY Zenon DEF OpToRel
<1> HIDE DEF R
<1>3. PICK x \in T : \A y \in T : ~ (<<y, x>> \in R)
  BY <1>1, WFMin
<1>4. \A y \in T : ~(y < x)
  BY <1>2, <1>3
<1>5. QED
  BY <1>4

-----------------------------------------------------------------------------
(* Recursion over the members of a sequence.                               *)

\* Induction for sets of numbers.
LEMMA UpTo ==
    ASSUME NEW N \in Nat, NEW G, 0 \in G, \A n \in 1..N : n - 1 \in G => n \in G
    PROVE  0..N \subseteq G
<1> DEFINE Bad == {n \in 0..N : n \notin G}
<1>1. SUFFICES ASSUME Bad # {} PROVE FALSE
  OBVIOUS
<1>2. PICK n \in Bad : \A m \in Bad : n <= m
  <2>1. Bad \in SUBSET Nat
    OBVIOUS
  <2> HIDE DEF Bad
  <2>2. QED
    BY <1>1, <2>1, LeastNat
<1>3. n \in 1..N /\ n - 1 \notin G
  BY <1>2
<1>4. n - 1 \in Bad /\ n - 1 < n
  BY <1>3
<1>5. QED
  BY <1>2, <1>4

\* f is the sequence of values from base on, each made from the one before it by g.
GivenBy(f, N, V, base, g) ==
    f \in [0..N -> V] /\ f[0] = base /\ \A n \in 1..N : f[n] = g[<<n, f[n - 1]>>]

\* A function that is given by its first value and a step exists.
LEMMA RecursionExists ==
    ASSUME NEW N \in Nat, NEW V, NEW base \in V, NEW g,
           \A n \in 1..N : \A v \in V : g[<<n, v>>] \in V
    PROVE  \E f : GivenBy(f, N, V, base, g)
<1> DEFINE For(f, n) == f \in [0..n -> V] /\ f[0] = base
                        /\ \A k \in 1..n : f[k] = g[<<k, f[k - 1]>>]
           G == {n \in 0..N : \E f : For(f, n)}
<1>1. 0 \in G
  <2>1. For([n \in 0..0 |-> base], 0)
    OBVIOUS
  <2> HIDE DEF For
  <2>2. QED
    BY <2>1
<1>2. ASSUME NEW n \in 1..N, n - 1 \in G PROVE n \in G
  <2>1. PICK f : For(f, n - 1)
    BY <1>2
  <2> DEFINE h == [k \in 0..n |-> IF k = n THEN g[<<n, f[n - 1]>>] ELSE f[k]]
  <2>2. f[n - 1] \in V /\ g[<<n, f[n - 1]>>] \in V
    <3>1. f[n - 1] \in V
      BY <2>1
    <3>2. QED
      BY <3>1
  <2>3. h \in [0..n -> V] /\ h[0] = base
    BY <2>1, <2>2
  <2>4. h[n] = g[<<n, f[n - 1]>>] /\ \A k \in 0..(n - 1) : h[k] = f[k]
    OBVIOUS
  <2> HIDE DEF h
  <2>5. ASSUME NEW k \in 1..n PROVE h[k] = g[<<k, h[k - 1]>>]
    <3>1. h[k - 1] = f[k - 1]
      BY <2>4
    <3>2. CASE k = n
      BY <2>4, <3>1, <3>2
    <3>3. CASE k # n
      <4>1. k \in 1..(n - 1) /\ k \in 0..(n - 1)
        BY <3>3
      <4>2. h[k] = f[k] /\ f[k] = g[<<k, f[k - 1]>>]
        BY <2>1, <2>4, <4>1
      <4>3. QED
        BY <3>1, <4>2
    <3>4. QED
      BY <3>2, <3>3
  <2>6. For(h, n)
    BY <2>3, <2>5
  <2> HIDE DEF For
  <2>7. QED
    BY <2>6
<1>3. N \in G
  <2> HIDE DEF G
  <2>1. 0..N \subseteq G
    BY <1>1, <1>2, UpTo
  <2>2. QED
    BY <2>1
<1>4. PICK f : For(f, N)
  BY <1>3
<1>5. GivenBy(f, N, V, base, g)
  BY <1>4 DEF GivenBy
<1>6. QED
  BY <1>5

\* The member i of o is the member at[i] of seq.
InOrder(at, o, seq) ==
    /\ at \in [1..Len(o) -> 1..Len(seq)]
    /\ \A i, j \in 1..Len(o) : i < j => at[i] < at[j]
    /\ \A i \in 1..Len(o) : o[i] = seq[at[i]]

\* Only keeps the members of S, in their order.
LEMMA OnlyIs ==
    ASSUME NEW T, NEW seq \in Seq(T), NEW S
    PROVE  /\ Only(seq, S) \in Seq(T) /\ Len(Only(seq, S)) <= Len(seq)
           /\ \E at : InOrder(at, Only(seq, S), seq)
           /\ Range(Only(seq, S)) = Range(seq) \cap S
<1> DEFINE N == Len(seq)
           g == [p \in (1..N) \X Seq(T) |->
                    IF seq[p[1]] \in S THEN Append(p[2], seq[p[1]]) ELSE p[2]]
           Is(f) == f = [n \in 0..N |-> IF n = 0 THEN <<>>
                                        ELSE IF seq[n] \in S THEN Append(f[n - 1], seq[n])
                                        ELSE f[n - 1]]
<1>0. N \in Nat /\ DOMAIN seq = 1..N /\ \A n \in 1..N : seq[n] \in T
  OBVIOUS
<1>1. \E f : Is(f)
  <2>1. g \in [(1..N) \X Seq(T) -> Seq(T)]
    BY <1>0
  <2>2. \A p \in (1..N) \X Seq(T) :
            g[p] = IF seq[p[1]] \in S THEN Append(p[2], seq[p[1]]) ELSE p[2]
    OBVIOUS
  <2>3. <<>> \in Seq(T)
    OBVIOUS
  <2> HIDE DEF g
  <2>4. PICK f \in [0..N -> Seq(T)] :
            f[0] = <<>> /\ \A n \in 1..N : f[n] = g[<<n, f[n - 1]>>]
    <3> HIDE DEF N
    <3>1. PICK V : V = Seq(T)
      OBVIOUS
    <3>2. PICK base : base = <<>>
      OBVIOUS
    <3>3. base \in V /\ N \in Nat /\ \A n \in 1..N : \A v \in V : g[<<n, v>>] \in V
      BY <1>0, <2>1, <2>3, <3>1, <3>2
    <3>4. \E f : GivenBy(f, N, V, base, g)
      BY <3>3, RecursionExists
    <3>5. QED
      BY <3>1, <3>2, <3>4 DEF GivenBy
  <2>5. ASSUME NEW n \in 0..N, n # 0
        PROVE  g[<<n, f[n - 1]>>] = IF seq[n] \in S THEN Append(f[n - 1], seq[n]) ELSE f[n - 1]
    <3>1. n - 1 \in 0..N /\ n \in 1..N
      BY <1>0, <2>5
    <3>2. f[n - 1] \in Seq(T)
      BY <2>4, <3>1
    <3>3. <<n, f[n - 1]>> \in (1..N) \X Seq(T)
      BY <3>1, <3>2
    <3>4. QED
      BY <2>2, <3>3
  <2>6. Is(f)
    <3>1. f = [n \in 0..N |-> f[n]]
      BY <2>4
    <3>2. \A n \in 0..N : n = 0 \/ n \in 1..N
      BY <1>0
    <3> HIDE DEF N
    <3>3. \A n \in 0..N : f[n] = IF n = 0 THEN <<>> ELSE IF seq[n] \in S
                                  THEN Append(f[n - 1], seq[n]) ELSE f[n - 1]
      BY <2>4, <2>5, <3>2
    <3>4. QED
      BY <3>1, <3>3
  <2>7. QED
    BY <2>6
<1>2. PICK f : Is(f) /\ Only(seq, S) = f[N]
  BY <1>1 DEF Only
<1>3. f[0] = <<>> /\ \A n \in 1..N : f[n] = IF seq[n] \in S THEN Append(f[n - 1], seq[n]) ELSE f[n - 1]
  <2>1. 0 \in 0..N /\ \A n \in 1..N : n \in 0..N /\ n # 0
    <3> HIDE DEF N
    <3>1. QED
      BY <1>0
  <2>2. QED
    BY <1>2, <2>1
<1> HIDE DEF Is
<1> DEFINE From(o, n, at) ==
              /\ at \in [1..Len(o) -> 1..n]
              /\ \A i, j \in 1..Len(o) : i < j => at[i] < at[j]
              /\ \A i \in 1..Len(o) : o[i] = seq[at[i]] /\ seq[at[i]] \in S
              /\ \A k \in 1..n : seq[k] \in S => \E i \in 1..Len(o) : at[i] = k
           Good(o, n) == o \in Seq(T) /\ Len(o) <= n /\ \E at : From(o, n, at)
           G == {n \in 0..N : Good(f[n], n)}
<1>4. 0 \in G
  <2>1. Good(<<>>, 0)
    <3>1. <<>> \in Seq(T) /\ Len(<<>>) = 0
      OBVIOUS
    <3>2. From(<<>>, 0, [i \in 1..0 |-> 0])
      BY <3>1
    <3> HIDE DEF From
    <3>3. QED
      BY <3>1, <3>2
  <2> HIDE DEF Good
  <2>2. QED
    BY <1>0, <1>3, <2>1
<1>5. ASSUME NEW n \in 1..N, n - 1 \in G PROVE n \in G
  <2>0. n \in 0..N /\ n \in Nat /\ n - 1 \in Nat
    BY <1>0
  <2>1. Good(f[n - 1], n - 1)
    BY <1>5
  <2> DEFINE o == f[n - 1]
  <2>2. PICK at : From(o, n - 1, at)
    BY <2>1
  <2>3. o \in Seq(T) /\ Len(o) \in Nat /\ Len(o) <= n - 1
    BY <2>1
  <2> HIDE DEF o
  <2>4. CASE seq[n] \notin S
    <3>1. f[n] = o
      BY <1>3, <2>4 DEF o
    <3>2. at \in [1..Len(o) -> 1..n]
      BY <2>0, <2>2
    <3>3. \A k \in 1..n : seq[k] \in S => \E i \in 1..Len(o) : at[i] = k
      BY <2>0, <2>2, <2>4
    <3>4. From(o, n, at)
      BY <2>2, <3>2, <3>3
    <3> HIDE DEF From
    <3>5. Good(o, n)
      BY <2>0, <2>3, <3>4
    <3>6. QED
      BY <2>0, <3>1, <3>5
  <2>5. CASE seq[n] \in S
    <3> DEFINE a == Append(o, seq[n])
               b == [i \in 1..(Len(o) + 1) |-> IF i = Len(o) + 1 THEN n ELSE at[i]]
    <3>1. f[n] = a /\ seq[n] \in T
      BY <1>0, <1>3, <2>5 DEF o
    <3>2. /\ a \in Seq(T) /\ Len(a) = Len(o) + 1 /\ a[Len(o) + 1] = seq[n]
          /\ \A i \in 1..Len(o) : a[i] = o[i]
      BY <2>3, <3>1
    <3> HIDE DEF a
    <3>3. b \in [1..Len(a) -> 1..n]
      BY <2>0, <2>2, <2>3, <3>2
    <3>4. /\ b[Len(o) + 1] = n /\ \A i \in 1..Len(o) : b[i] = at[i]
          /\ Len(o) + 1 \in 1..Len(a)
      BY <2>3, <3>2
    <3> HIDE DEF b
    <3>5. ASSUME NEW i \in 1..Len(a), NEW j \in 1..Len(a), i < j PROVE b[i] < b[j]
      <4>1. i \in 1..Len(o) /\ b[i] = at[i] /\ at[i] \in 1..(n - 1)
        BY <2>2, <2>3, <3>2, <3>4, <3>5
      <4>2. CASE j = Len(o) + 1
        BY <2>0, <3>4, <4>1, <4>2
      <4>3. CASE j # Len(o) + 1
        <5>1. j \in 1..Len(o) /\ b[j] = at[j]
          BY <2>3, <3>2, <3>4, <4>3
        <5>2. QED
          BY <2>2, <3>5, <4>1, <5>1
      <4>4. QED
        BY <4>2, <4>3
    <3>6. \A i \in 1..Len(a) : a[i] = seq[b[i]] /\ seq[b[i]] \in S
      BY <2>2, <2>3, <2>5, <3>2, <3>4
    <3>7. ASSUME NEW k \in 1..n, seq[k] \in S PROVE \E i \in 1..Len(a) : b[i] = k
      <4>1. CASE k = n
        BY <3>4, <4>1
      <4>2. CASE k # n
        <5>1. PICK i \in 1..Len(o) : at[i] = k
          BY <2>0, <2>2, <3>7, <4>2
        <5>2. i \in 1..Len(a) /\ b[i] = k
          BY <2>3, <3>2, <3>4, <5>1
        <5>3. QED
          BY <5>2
      <4>3. QED
        BY <4>1, <4>2
    <3>8. From(a, n, b)
      BY <3>3, <3>5, <3>6, <3>7
    <3> HIDE DEF From
    <3>9. Good(a, n)
      BY <2>0, <2>3, <3>2, <3>8
    <3>10. QED
      BY <2>0, <3>1, <3>9
  <2>6. QED
    BY <2>4, <2>5
<1>6. N \in G
  <2> HIDE DEF G, N
  <2>1. 0..N \subseteq G
    BY <1>0, <1>4, <1>5, UpTo
  <2>2. QED
    BY <1>0, <2>1
<1>7. Good(Only(seq, S), N)
  BY <1>2, <1>6
<1> DEFINE o == Only(seq, S)
<1>8. PICK at : From(o, N, at)
  BY <1>7
<1>9. o \in Seq(T) /\ Len(o) <= N /\ Len(o) \in Nat
  BY <1>7
<1>10. Range(o) = Range(seq) \cap S
  <2>1. DOMAIN o = 1..Len(o)
    BY <1>9
  <2> HIDE DEF o
  <2>2. ASSUME NEW x \in Range(o) PROVE x \in Range(seq) \cap S
    BY <1>0, <1>8, <2>1 DEF Range
  <2>3. ASSUME NEW x \in Range(seq) \cap S PROVE x \in Range(o)
    <3>1. PICK k \in 1..N : x = seq[k]
      BY <1>0 DEF Range
    <3>2. PICK i \in 1..Len(o) : at[i] = k
      BY <1>8, <3>1
    <3>3. QED
      BY <1>8, <2>1, <3>1, <3>2 DEF Range
  <2>4. QED
    BY <2>2, <2>3
<1>11. InOrder(at, o, seq)
  BY <1>8 DEF InOrder
<1>12. QED
  BY <1>9, <1>10, <1>11

-----------------------------------------------------------------------------
(* Sequences, seen as the sets of their members.                           *)

\* At most one member of the sequence is in P.
Single(P, seq) == \A i, j \in DOMAIN seq : seq[i] \in P /\ seq[j] \in P => i = j

\* A sequence over a set is one over every larger set.
LEMMA SeqGrows == ASSUME NEW A, NEW B, A \subseteq B PROVE Seq(A) \subseteq Seq(B)
<1>1. ASSUME NEW q \in Seq(A) PROVE q \in Seq(B)
  <2>1. Len(q) \in Nat /\ q \in [1..Len(q) -> A]
    OBVIOUS
  <2>2. q \in [1..Len(q) -> B]
    BY <2>1
  <2>3. QED
    BY <2>1, <2>2
<1>2. QED
  BY <1>1

\* A sequence is one over every set that has its members.
LEMMA SeqOf == ASSUME NEW T, NEW seq \in Seq(T), NEW A, Range(seq) \subseteq A PROVE seq \in Seq(A)
<1>1. Len(seq) \in Nat /\ seq \in [1..Len(seq) -> T] /\ DOMAIN seq = 1..Len(seq)
  OBVIOUS
<1>2. \A i \in 1..Len(seq) : seq[i] \in A
  BY <1>1 DEF Range
<1>3. QED
  BY <1>1, <1>2

\* The members of a sequence, by their places.
LEMMA RangeIs ==
    ASSUME NEW T, NEW seq \in Seq(T)
    PROVE  /\ Range(seq) \subseteq T
           /\ \A x : x \in Range(seq) <=> \E i \in 1..Len(seq) : seq[i] = x
           /\ seq = <<>> <=> Range(seq) = {}
<1>1. Len(seq) \in Nat /\ DOMAIN seq = 1..Len(seq) /\ \A i \in 1..Len(seq) : seq[i] \in T
  OBVIOUS
<1>2. Range(seq) \subseteq T /\ \A x : x \in Range(seq) <=> \E i \in 1..Len(seq) : seq[i] = x
  BY <1>1 DEF Range
<1>3. seq = <<>> => Range(seq) = {}
  BY DEF Range
<1>4. seq # <<>> => seq[1] \in Range(seq)
  BY <1>1 DEF Range
<1>5. QED
  BY <1>2, <1>3, <1>4

\* What the tail of a sequence loses, and what stays single in it.
LEMMA TailIs ==
    ASSUME NEW T, NEW seq \in Seq(T), seq # <<>>
    PROVE  /\ Head(seq) \in T /\ Tail(seq) \in Seq(T) /\ Head(seq) \in Range(seq)
           /\ Range(seq) = {Head(seq)} \cup Range(Tail(seq))
           /\ Len(Tail(seq)) = Len(seq) - 1 /\ Len(seq) >= 1
           /\ \A P : Single(P, seq) => /\ Single(P, Tail(seq))
                                       /\ Head(seq) \in P => Range(Tail(seq)) \cap P = {}
<1>1. /\ Len(seq) \in Nat /\ Len(seq) >= 1 /\ DOMAIN seq = 1..Len(seq)
      /\ Head(seq) = seq[1] /\ Head(seq) \in T /\ Tail(seq) \in Seq(T)
      /\ Len(Tail(seq)) = Len(seq) - 1
      /\ DOMAIN Tail(seq) = 1..(Len(seq) - 1)
  OBVIOUS
<1>0. \A i \in 1..(Len(seq) - 1) : Tail(seq)[i] = seq[i + 1]
  BY <1>1
<1> DEFINE h == Head(seq) t == Tail(seq) n == Len(seq)
<1>2. /\ n \in Nat /\ n >= 1 /\ DOMAIN seq = 1..n /\ h = seq[1]
      /\ DOMAIN t = 1..(n - 1) /\ \A i \in 1..(n - 1) : t[i] = seq[i + 1]
  BY <1>0, <1>1
<1> HIDE DEF h, t, n
<1>3. Range(seq) = {h} \cup Range(t)
  <2>1. ASSUME NEW x \in Range(seq) PROVE x \in {h} \cup Range(t)
    <3>1. PICK i \in 1..n : x = seq[i]
      BY <1>2 DEF Range
    <3>2. CASE i = 1
      BY <1>2, <3>1, <3>2
    <3>3. CASE i # 1
      <4>1. i - 1 \in 1..(n - 1) /\ t[i - 1] = seq[i]
        BY <1>2, <3>3
      <4>2. QED
        BY <1>2, <3>1, <4>1 DEF Range
    <3>4. QED
      BY <3>2, <3>3
  <2>2. h \in Range(seq)
    BY <1>2 DEF Range
  <2>3. ASSUME NEW x \in Range(t) PROVE x \in Range(seq)
    <3>1. PICK i \in 1..(n - 1) : x = t[i]
      BY <1>2 DEF Range
    <3>2. i + 1 \in 1..n /\ seq[i + 1] = x
      BY <1>2, <3>1
    <3>3. QED
      BY <1>2, <3>2 DEF Range
  <2>4. QED
    BY <2>1, <2>2, <2>3
<1>4. ASSUME NEW P, Single(P, seq)
      PROVE  Single(P, t) /\ (h \in P => Range(t) \cap P = {})
  <2>1. ASSUME NEW i \in 1..(n - 1), NEW j \in 1..(n - 1), t[i] \in P, t[j] \in P PROVE i = j
    <3>1. i + 1 \in DOMAIN seq /\ j + 1 \in DOMAIN seq /\ seq[i + 1] \in P /\ seq[j + 1] \in P
      BY <1>2, <2>1
    <3>2. i + 1 = j + 1
      BY <1>4, <3>1 DEF Single
    <3>3. QED
      BY <1>2, <3>2
  <2>2. ASSUME h \in P, NEW i \in 1..(n - 1), t[i] \in P PROVE FALSE
    <3>1. 1 \in DOMAIN seq /\ i + 1 \in DOMAIN seq /\ seq[i + 1] \in P /\ seq[1] \in P
      BY <1>2, <2>2
    <3>2. i + 1 = 1
      BY <1>4, <3>1 DEF Single
    <3>3. QED
      BY <1>2, <3>2
  <2>3. QED
    BY <1>2, <2>1, <2>2 DEF Single, Range
<1>5. h \in Range(seq)
  BY <1>3
<1>6. QED
  BY <1>1, <1>3, <1>4, <1>5 DEF h, t, n

\* The members of two sequences put together, and what stays single.
LEMMA ConcatIs ==
    ASSUME NEW T, NEW a \in Seq(T), NEW b \in Seq(T)
    PROVE  /\ a \o b \in Seq(T) /\ Range(a \o b) = Range(a) \cup Range(b)
           /\ Len(a \o b) = Len(a) + Len(b)
           /\ \A i \in 1..Len(a) : (a \o b)[i] = a[i]
           /\ \A i \in 1..Len(b) : (a \o b)[Len(a) + i] = b[i]
           /\ a # <<>> => a \o b # <<>> /\ Head(a \o b) = Head(a) /\ Tail(a \o b) = Tail(a) \o b
           /\ b = <<>> => a \o b = a
           /\ a = <<>> => a \o b = b
           /\ \A P : Single(P, a) /\ Single(P, b) /\ (Range(a) \cap P = {} \/ Range(b) \cap P = {})
                     => Single(P, a \o b)
<1>1. /\ Len(a) \in Nat /\ Len(b) \in Nat /\ DOMAIN a = 1..Len(a) /\ DOMAIN b = 1..Len(b)
      /\ a \o b \in Seq(T) /\ Len(a \o b) = Len(a) + Len(b)
      /\ DOMAIN (a \o b) = 1..(Len(a) + Len(b))
  OBVIOUS
<1>2. /\ \A i \in 1..Len(a) : (a \o b)[i] = a[i]
      /\ \A i \in 1..Len(b) : (a \o b)[Len(a) + i] = b[i]
  BY <1>1
<1> DEFINE c == a \o b m == Len(a) n == Len(b)
<1>3. /\ m \in Nat /\ n \in Nat /\ DOMAIN a = 1..m /\ DOMAIN b = 1..n /\ DOMAIN c = 1..(m + n)
      /\ \A i \in 1..m : c[i] = a[i]
      /\ \A i \in 1..n : c[m + i] = b[i]
  BY <1>1, <1>2
<1> HIDE DEF c, m, n
<1>4. \A i \in 1..(m + n) : i \in 1..m \/ (i - m \in 1..n /\ c[i] = b[i - m])
  <2>1. ASSUME NEW i \in 1..(m + n), i \notin 1..m PROVE i - m \in 1..n /\ c[i] = b[i - m]
    <3>1. m \in Nat /\ n \in Nat
      BY <1>3
    <3>2. i - m \in 1..n /\ m + (i - m) = i
      BY <2>1, <3>1
    <3>3. c[m + (i - m)] = b[i - m]
      BY <1>3, <3>2
    <3>4. QED
      BY <3>2, <3>3
  <2>2. QED
    BY <2>1
<1>5. Range(c) = Range(a) \cup Range(b)
  <2>1. ASSUME NEW x \in Range(c) PROVE x \in Range(a) \cup Range(b)
    BY <1>3, <1>4 DEF Range
  <2>2. ASSUME NEW x \in Range(a) PROVE x \in Range(c)
    <3>1. PICK i \in 1..m : x = a[i]
      BY <1>3 DEF Range
    <3>2. i \in 1..(m + n) /\ c[i] = x
      BY <1>3, <3>1
    <3>3. QED
      BY <1>3, <3>2 DEF Range
  <2>3. ASSUME NEW x \in Range(b) PROVE x \in Range(c)
    <3>1. PICK i \in 1..n : x = b[i]
      BY <1>3 DEF Range
    <3>2. m \in Nat /\ n \in Nat /\ c[m + i] = x
      BY <1>3, <3>1
    <3>3. m + i \in 1..(m + n)
      BY <3>2
    <3>4. QED
      BY <1>3, <3>2, <3>3 DEF Range
  <2>4. QED
    BY <2>1, <2>2, <2>3
<1>6. a # <<>> => a \o b # <<>> /\ Head(a \o b) = Head(a) /\ Tail(a \o b) = Tail(a) \o b
  <2>1. ASSUME a # <<>> PROVE a \o b # <<>> /\ Head(a \o b) = Head(a)
    BY <1>1, <1>2, <2>1
  <2>2. ASSUME a # <<>> PROVE Tail(a \o b) = Tail(a) \o b
    <3>1. Len(a) >= 1 /\ Tail(a) \in Seq(T) /\ Len(Tail(a)) = Len(a) - 1
      BY <2>2
    <3>2. /\ Tail(a \o b) \in Seq(T) /\ Len(Tail(a \o b)) = Len(a) + Len(b) - 1
          /\ Tail(a) \o b \in Seq(T) /\ Len(Tail(a) \o b) = Len(a) + Len(b) - 1
      BY <1>1, <2>1, <2>2, <3>1
    <3>3. ASSUME NEW i \in 1..(Len(a) + Len(b) - 1) PROVE Tail(a \o b)[i] = (Tail(a) \o b)[i]
      <4>1. Tail(a \o b)[i] = (a \o b)[i + 1]
        BY <1>1, <2>1, <2>2, <3>2
      <4>2. CASE i \in 1..(Len(a) - 1)
        BY <1>1, <1>2, <3>1, <4>1, <4>2
      <4>3. CASE i \notin 1..(Len(a) - 1)
        <5>1. i - Len(a) + 1 \in 1..Len(b) /\ i + 1 = Len(a) + (i - Len(a) + 1)
          BY <1>1, <3>1, <4>3
        <5>2. (a \o b)[i + 1] = b[i - Len(a) + 1]
          BY <1>2, <5>1
        <5>3. (Tail(a) \o b)[i] = b[i - Len(a) + 1]
          BY <1>1, <3>1, <4>3, <5>1
        <5>4. QED
          BY <4>1, <5>2, <5>3
      <4>4. QED
        BY <4>2, <4>3
    <3>4. QED
      BY <3>2, <3>3
  <2>3. QED
    BY <2>1, <2>2
<1>7. ASSUME NEW P, Single(P, a), Single(P, b), Range(a) \cap P = {} \/ Range(b) \cap P = {}
      PROVE  Single(P, c)
  <2>1. (\A i \in 1..m : a[i] \notin P) \/ (\A i \in 1..n : b[i] \notin P)
    BY <1>3, <1>7 DEF Range
  <2>2. ASSUME NEW i \in 1..(m + n), NEW j \in 1..(m + n), c[i] \in P, c[j] \in P PROVE i = j
    <3>1. CASE i \in 1..m /\ j \in 1..m
      BY <1>3, <1>7, <2>2, <3>1 DEF Single
    <3>2. CASE i \notin 1..m /\ j \notin 1..m
      <4>1. i - m \in 1..n /\ j - m \in 1..n /\ b[i - m] \in P /\ b[j - m] \in P
        BY <1>4, <2>2, <3>2
      <4>2. i - m = j - m
        BY <1>3, <1>7, <4>1 DEF Single
      <4>3. QED
        BY <1>3, <4>2
    <3>3. CASE (i \in 1..m) # (j \in 1..m)
      BY <1>3, <1>4, <2>1, <2>2, <3>3
    <3>4. QED
      BY <3>1, <3>2, <3>3
  <2>3. QED
    BY <1>3, <2>2 DEF Single
<1>8. (b = <<>> => a \o b = a) /\ (a = <<>> => a \o b = b)
  OBVIOUS
<1>9. QED
  BY <1>1, <1>2, <1>5, <1>6, <1>7, <1>8 DEF c, m, n

\* The members of a sequence that is one longer, and what stays single.
LEMMA AppendIs ==
    ASSUME NEW T, NEW seq \in Seq(T), NEW x \in T
    PROVE  /\ Append(seq, x) \in Seq(T) /\ Range(Append(seq, x)) = Range(seq) \cup {x}
           /\ Len(Append(seq, x)) = Len(seq) + 1
           /\ Append(seq, x)[Len(seq) + 1] = x
           /\ \A i \in 1..Len(seq) : Append(seq, x)[i] = seq[i]
           /\ \A P : Single(P, seq) /\ (Range(seq) \cap P = {} \/ x \notin P)
                     => Single(P, Append(seq, x))
<1>1. /\ <<x>> \in Seq(T) /\ Range(<<x>>) = {x} /\ Append(seq, x) = seq \o <<x>> /\ Len(seq) \in Nat
      /\ \A P : Single(P, <<x>>)
  BY DEF Range, Single
<1> DEFINE b == <<x>>
<1>2. b \in Seq(T) /\ Range(b) = {x} /\ Append(seq, x) = seq \o b /\ \A P : Single(P, b)
  BY <1>1
<1> HIDE DEF b
<1>3. /\ seq \o b \in Seq(T) /\ Range(seq \o b) = Range(seq) \cup {x}
      /\ \A P : Single(P, seq) /\ Single(P, b) /\ (Range(seq) \cap P = {} \/ Range(b) \cap P = {})
                     => Single(P, seq \o b)
  BY <1>2, ConcatIs
<1>4. /\ Len(Append(seq, x)) = Len(seq) + 1 /\ Append(seq, x)[Len(seq) + 1] = x
      /\ \A i \in 1..Len(seq) : Append(seq, x)[i] = seq[i]
  BY <1>1
<1>5. ASSUME NEW P, Single(P, seq), Range(seq) \cap P = {} \/ x \notin P PROVE Single(P, seq \o b)
  BY <1>2, <1>3, <1>5
<1>6. QED
  BY <1>2, <1>3, <1>4, <1>5

\* What is in a sequence once is in its filtered form once at most.
LEMMA OnlySingle ==
    ASSUME NEW T, NEW seq \in Seq(T), NEW S, NEW P, Single(P, seq)
    PROVE  Single(P, Only(seq, S))
<1> DEFINE o == Only(seq, S)
<1>1. /\ o \in Seq(T)
      /\ \E at : InOrder(at, o, seq)
  BY OnlyIs
<1> HIDE DEF o
<1>2. PICK at : InOrder(at, o, seq)
  BY <1>1
<1>3. DOMAIN o = 1..Len(o) /\ Len(o) \in Nat /\ DOMAIN seq = 1..Len(seq) /\ Len(seq) \in Nat
  BY <1>1
<1>4. ASSUME NEW i \in 1..Len(o), NEW j \in 1..Len(o), o[i] \in P, o[j] \in P PROVE i = j
  <2>1. at[i] \in 1..Len(seq) /\ at[j] \in 1..Len(seq) /\ seq[at[i]] \in P /\ seq[at[j]] \in P
    BY <1>2, <1>4 DEF InOrder
  <2>2. at[i] = at[j]
    BY <1>3, <2>1 DEF Single
  <2>3. ~(i < j) /\ ~(j < i)
    BY <1>2, <1>3, <2>1, <2>2 DEF InOrder
  <2>4. QED
    BY <1>3, <2>3
<1>5. Single(P, o)
  BY <1>3, <1>4 DEF Single
<1>6. QED
  BY <1>5 DEF o

-----------------------------------------------------------------------------
(* The queue: what it holds of a session.                                  *)

\* An entry of the queue: a session and its items, of which there is at least one.
Entry == [session : Sessions, events : Seq(Item) \ {<<>>}]

\* A queue: one entry for a session.
QueueOK(q) == q \in Seq(Entry) /\ \A s : Single({en \in Entry : en.session = s}, q)

\* The events of a session in the queue q.
Held(q, s) == LET at == {i \in DOMAIN q : q[i].session = s}
              IN  IF at = {} THEN <<>> ELSE q[CHOOSE i \in at : TRUE].events

\* The queue without the sessions in S.
Rest(q, S) == Only(q, {entry \in Range(q) : entry.session \notin S})

\* The queue with other events in the entry of s.
Replaced(q, s, new) ==
    [i \in DOMAIN q |-> IF q[i].session = s THEN [q[i] EXCEPT !.events = new] ELSE q[i]]

\* An entry of the queue is what the queue holds of its session.
LEMMA HeldIs ==
    ASSUME NEW q, QueueOK(q)
    PROVE  /\ \A i \in DOMAIN q : q[i].session \in Sessions /\ Held(q, q[i].session) = q[i].events
           /\ \A s : Held(q, s) \in Seq(Item)
           /\ \A s : Held(q, s) # <<>> <=> \E i \in DOMAIN q : q[i].session = s
           /\ \A s : Held(q, s) # <<>> => s \in Sessions
<1>1. /\ q \in Seq(Entry) /\ Len(q) \in Nat /\ DOMAIN q = 1..Len(q)
      /\ \A i \in DOMAIN q : q[i] \in Entry
      /\ \A i, j \in DOMAIN q : q[i].session = q[j].session => i = j
  <2>1. /\ q \in Seq(Entry) /\ Len(q) \in Nat /\ DOMAIN q = 1..Len(q)
        /\ \A i \in DOMAIN q : q[i] \in Entry
    BY DEF QueueOK
  <2>2. \A i, j \in DOMAIN q : q[i].session = q[j].session => i = j
    BY <2>1 DEF QueueOK, Single
  <2>3. QED
    BY <2>1, <2>2
<1>2. \A i \in DOMAIN q : q[i].session \in Sessions /\ q[i].events \in Seq(Item) \ {<<>>}
  BY <1>1 DEF Entry
<1>3. ASSUME NEW i \in DOMAIN q PROVE Held(q, q[i].session) = q[i].events
  <2> DEFINE at == {k \in DOMAIN q : q[k].session = q[i].session}
  <2>1. i \in at /\ \A k \in at : k = i
    BY <1>1
  <2>2. Held(q, q[i].session) = IF at = {} THEN <<>> ELSE q[CHOOSE k \in at : TRUE].events
    BY DEF Held
  <2> HIDE DEF at
  <2>3. (CHOOSE k \in at : TRUE) = i /\ at # {}
    BY <2>1
  <2>4. QED
    BY <2>2, <2>3
<1>4. ASSUME NEW s, ~\E i \in DOMAIN q : q[i].session = s PROVE Held(q, s) = <<>>
  BY <1>4 DEF Held
<1>5. ASSUME NEW s
      PROVE  /\ Held(q, s) \in Seq(Item)
             /\ Held(q, s) # <<>> <=> \E i \in DOMAIN q : q[i].session = s
             /\ Held(q, s) # <<>> => s \in Sessions
  <2>1. CASE \E i \in DOMAIN q : q[i].session = s
    <3>1. PICK i \in DOMAIN q : q[i].session = s
      BY <2>1
    <3>2. Held(q, s) = q[i].events /\ q[i].events \in Seq(Item) \ {<<>>} /\ s \in Sessions
      BY <1>2, <1>3, <3>1
    <3>3. QED
      BY <2>1, <3>2
  <2>2. CASE ~\E i \in DOMAIN q : q[i].session = s
    <3>1. Held(q, s) = <<>> /\ <<>> \in Seq(Item)
      BY <1>4, <2>2
    <3>2. QED
      BY <2>2, <3>1
  <2>3. QED
    BY <2>1, <2>2
<1>6. QED
  BY <1>2, <1>3, <1>5

\* The same, by members and without places.
LEMMA HeldByMember ==
    ASSUME NEW q, QueueOK(q)
    PROVE  /\ \A en \in Range(q) : en \in Entry /\ Held(q, en.session) = en.events
           /\ \A s : Held(q, s) # <<>> <=> \E en \in Range(q) : en.session = s
<1>1. q \in Seq(Entry) /\ \A i \in DOMAIN q : q[i] \in Entry
  <2>1. q \in Seq(Entry)
    BY DEF QueueOK
  <2>2. QED
    BY <2>1
<1>2. QED
  BY <1>1, HeldIs DEF Range

\* Sessions that are taken out leave the others as they were.
LEMMA RestIs ==
    ASSUME NEW q, QueueOK(q), NEW S
    PROVE  /\ QueueOK(Rest(q, S))
           /\ \A s : Held(Rest(q, S), s) = IF s \in S THEN <<>> ELSE Held(q, s)
<1> DEFINE r == Rest(q, S)
           P == {entry \in Range(q) : entry.session \notin S}
<1>0. q \in Seq(Entry) /\ \A s : Single({en \in Entry : en.session = s}, q)
  BY DEF QueueOK
<1>1. r \in Seq(Entry) /\ Range(r) = Range(q) \cap P
  <2> HIDE DEF P
  <2>1. Only(q, P) \in Seq(Entry) /\ Range(Only(q, P)) = Range(q) \cap P
    BY <1>0, OnlyIs
  <2>2. QED
    BY <2>1 DEF Rest, P
<1>2. \A s : Single({en \in Entry : en.session = s}, r)
  <2> SUFFICES ASSUME NEW s PROVE Single({en \in Entry : en.session = s}, r)
    OBVIOUS
  <2> DEFINE A == {en \in Entry : en.session = s}
  <2>1. Single(A, q)
    BY <1>0
  <2> HIDE DEF A, P
  <2>2. Single(A, Only(q, P))
    BY <1>0, <2>1, OnlySingle
  <2>3. QED
    BY <2>2 DEF Rest, A, P
<1>3. QueueOK(r)
  BY <1>1, <1>2 DEF QueueOK
<1>4. \A en : en \in Range(r) <=> en \in Range(q) /\ en.session \notin S
  BY <1>1
<1> HIDE DEF r
<1>5. ASSUME NEW s PROVE Held(r, s) = IF s \in S THEN <<>> ELSE Held(q, s)
  <2>1. CASE \E en \in Range(r) : en.session = s
    <3>1. PICK en \in Range(r) : en.session = s
      BY <2>1
    <3>2. Held(r, s) = en.events /\ en \in Range(q) /\ s \notin S
      BY <1>3, <1>4, <3>1, HeldByMember
    <3>3. Held(q, s) = en.events
      BY <3>1, <3>2, HeldByMember
    <3>4. QED
      BY <3>2, <3>3
  <2>2. CASE ~\E en \in Range(r) : en.session = s
    <3>1. Held(r, s) = <<>>
      BY <1>3, <2>2, HeldByMember
    <3>2. s \in S \/ ~\E en \in Range(q) : en.session = s
      BY <1>4, <2>2
    <3>3. s \in S \/ Held(q, s) = <<>>
      BY <3>2, HeldByMember
    <3>4. QED
      BY <3>1, <3>3
  <2>3. QED
    BY <2>1, <2>2
<1>6. QED
  BY <1>3, <1>5 DEF r

\* Writing back the items of a session leaves the others as they were.
LEMMA ReplacedIs ==
    ASSUME NEW q, QueueOK(q), NEW s, NEW new \in Seq(Item) \ {<<>>}
    PROVE  /\ QueueOK(Replaced(q, s, new))
           /\ \A x : Held(Replaced(q, s, new), x) =
                        IF x = s /\ Held(q, s) # <<>> THEN new ELSE Held(q, x)
<1> DEFINE r == Replaced(q, s, new)
<1>1. /\ q \in Seq(Entry) /\ Len(q) \in Nat /\ DOMAIN q = 1..Len(q)
      /\ \A i \in DOMAIN q : q[i] \in Entry
  <2>1. q \in Seq(Entry)
    BY DEF QueueOK
  <2>2. QED
    BY <2>1
<1>2. \A i \in DOMAIN q : r[i] = IF q[i].session = s THEN [q[i] EXCEPT !.events = new] ELSE q[i]
  BY DEF Replaced
<1>3. DOMAIN r = DOMAIN q /\ r = [i \in DOMAIN q |-> r[i]]
  BY DEF Replaced
<1> HIDE DEF r
<1>4. ASSUME NEW i \in DOMAIN q
      PROVE  /\ r[i] \in Entry /\ r[i].session = q[i].session
             /\ r[i].events = IF q[i].session = s THEN new ELSE q[i].events
  BY <1>1, <1>2 DEF Entry
<1>5. r \in Seq(Entry)
  BY <1>1, <1>3, <1>4
<1>6. \A x : Single({en \in Entry : en.session = x}, r)
  <2>1. \A x : Single({en \in Entry : en.session = x}, q)
    BY DEF QueueOK
  <2>2. QED
    BY <1>1, <1>3, <1>4, <2>1 DEF Single
<1>7. QueueOK(r)
  BY <1>5, <1>6 DEF QueueOK
<1>10. /\ \A i \in DOMAIN r : Held(r, r[i].session) = r[i].events
       /\ \A x : Held(r, x) # <<>> <=> \E i \in DOMAIN r : r[i].session = x
  BY <1>7, HeldIs
<1>8. ASSUME NEW x PROVE Held(r, x) = IF x = s /\ Held(q, s) # <<>> THEN new ELSE Held(q, x)
  <2>1. CASE \E i \in DOMAIN q : q[i].session = x
    <3>1. PICK i \in DOMAIN q : q[i].session = x
      BY <2>1
    <3>2. Held(q, x) = q[i].events /\ Held(q, x) # <<>>
      BY <3>1, HeldIs
    <3>3. Held(r, x) = r[i].events
      BY <1>3, <1>4, <1>10, <3>1
    <3>4. QED
      BY <1>4, <3>1, <3>2, <3>3
  <2>2. CASE ~\E i \in DOMAIN q : q[i].session = x
    <3>1. Held(q, x) = <<>>
      BY <2>2, HeldIs
    <3>2. Held(r, x) = <<>>
      BY <1>3, <1>4, <1>10, <2>2
    <3>3. QED
      BY <3>1, <3>2
  <2>3. QED
    BY <2>1, <2>2
<1>9. QED
  BY <1>7, <1>8 DEF r

\* What setdefault() and append() do: the items follow those that are there.
LEMMA WithIs ==
    ASSUME NEW q, QueueOK(q), NEW s \in Sessions, NEW items \in Seq(Item)
    PROVE  /\ QueueOK(With(q, s, items))
           /\ \A x : Held(With(q, s, items), x) = IF x = s THEN Held(q, s) \o items ELSE Held(q, x)
<1>0. Held(q, s) \in Seq(Item)
  BY HeldIs
<1>1. CASE \E i \in DOMAIN q : q[i].session = s
  <2> DEFINE new == Held(q, s) \o items
  <2>1. Held(q, s) # <<>>
    BY <1>1, HeldIs
  <2>2. new \in Seq(Item) /\ new # <<>>
    BY <1>0, <2>1, ConcatIs
  <2>3. \A i \in DOMAIN q : q[i].session = s => q[i].events = Held(q, s) /\ q[i] \in Entry
    <3>1. q \in Seq(Entry)
      BY DEF QueueOK
    <3>2. QED
      BY <3>1, HeldIs
  <2>4. With(q, s, items) = Replaced(q, s, new)
    <3>1. \A i \in DOMAIN q : q[i].session = s =>
             [q[i] EXCEPT !.events = @ \o items] = [q[i] EXCEPT !.events = new]
      BY <2>3 DEF Entry
    <3> HIDE DEF new
    <3>2. QED
      BY <1>1, <3>1 DEF With, Replaced
  <2>5. new \in Seq(Item) \ {<<>>}
    BY <2>2
  <2> HIDE DEF new
  <2>6. /\ QueueOK(Replaced(q, s, new))
        /\ \A x : Held(Replaced(q, s, new), x) = IF x = s /\ Held(q, s) # <<>> THEN new ELSE Held(q, x)
    BY <2>5, ReplacedIs
  <2>7. QED
    BY <2>1, <2>4, <2>6 DEF new
<1>2. CASE ~\E i \in DOMAIN q : q[i].session = s
  <2>1. Held(q, s) = <<>>
    BY <1>2, HeldIs
  <2>2. CASE items = <<>>
    <3>1. With(q, s, items) = q
      BY <1>2, <2>2 DEF With
    <3>2. Held(q, s) \o items = Held(q, s)
      BY <2>1, <2>2
    <3>3. QED
      BY <3>1, <3>2
  <2>3. CASE items # <<>>
    <3> DEFINE en == [session |-> s, events |-> items]
               r == With(q, s, items)
    <3>1. r = Append(q, en) /\ en \in Entry /\ en.session = s /\ en.events = items
      BY <1>2, <2>3 DEF With, Entry
    <3> HIDE DEF en
    <3>2. q \in Seq(Entry) /\ \A x : Single({k \in Entry : k.session = x}, q)
      BY DEF QueueOK
    <3>3. Range(q) \cap {k \in Entry : k.session = s} = {}
      BY <1>2 DEF Range
    <3>4. Append(q, en) \in Seq(Entry) /\ Range(Append(q, en)) = Range(q) \cup {en}
      BY <3>1, <3>2, AppendIs
    <3>5. ASSUME NEW x PROVE Single({k \in Entry : k.session = x}, Append(q, en))
      <4> DEFINE P == {k \in Entry : k.session = x}
      <4>1. Single(P, q) /\ (Range(q) \cap P = {} \/ en \notin P)
        <5>1. CASE x = s
          BY <3>2, <3>3, <5>1
        <5>2. CASE x # s
          BY <3>1, <3>2, <5>2
        <5>3. QED
          BY <5>1, <5>2
      <4> HIDE DEF P
      <4>2. Single(P, Append(q, en))
        BY <3>1, <3>2, <4>1, AppendIs
      <4>3. QED
        BY <4>2 DEF P
    <3>6. QueueOK(r)
      BY <3>1, <3>4, <3>5 DEF QueueOK
    <3>7. Range(r) = Range(q) \cup {en}
      BY <3>1, <3>4
    <3> HIDE DEF r
    <3>8. Held(r, s) = items /\ Held(q, s) \o items = items
      <4>1. Held(r, s) = items
        BY <3>1, <3>6, <3>7, HeldByMember
      <4>2. QED
        BY <2>1, <4>1
    <3>9. ASSUME NEW x, x # s PROVE Held(r, x) = Held(q, x)
      <4>1. CASE \E k \in Range(q) : k.session = x
        <5>1. PICK k \in Range(q) : k.session = x
          BY <4>1
        <5>2. Held(q, x) = k.events
          BY <5>1, HeldByMember
        <5>3. Held(r, x) = k.events
          BY <3>6, <3>7, <5>1, HeldByMember
        <5>4. QED
          BY <5>2, <5>3
      <4>2. CASE ~\E k \in Range(q) : k.session = x
        <5>1. ~\E k \in Range(r) : k.session = x
          BY <3>1, <3>7, <3>9, <4>2
        <5>2. Held(q, x) = <<>> /\ Held(r, x) = <<>>
          BY <3>6, <4>2, <5>1, HeldByMember
        <5>3. QED
          BY <5>2
      <4>3. QED
        BY <4>1, <4>2
    <3>10. QED
      BY <3>6, <3>8, <3>9 DEF r
  <2>4. QED
    BY <2>2, <2>3
<1>3. QED
  BY <1>1, <1>2

\* The queue full after the limit of the events of s is applied.
Capped(full, s) ==
    LET over == {i \in DOMAIN full : Len(full[i].events) > MaxPerSession /\ full[i].session = s}
    IN  [i \in DOMAIN full |-> IF i \in over THEN [full[i] EXCEPT !.events = Tail(@)] ELSE full[i]]

\* The events that the limit drops.
CutOff(full, s) ==
    LET over == {i \in DOMAIN full : Len(full[i].events) > MaxPerSession /\ full[i].session = s}
    IN  {Head(full[i].events).ev : i \in over}

\* What the limit on the events of a session cuts off.
LEMMA CappedIs ==
    ASSUME NEW full, QueueOK(full), NEW s
    PROVE  /\ QueueOK(Capped(full, s))
           /\ Len(Held(full, s)) > MaxPerSession =>
                 /\ \A x : Held(Capped(full, s), x) = IF x = s THEN Tail(Held(full, s)) ELSE Held(full, x)
                 /\ CutOff(full, s) = {Head(Held(full, s)).ev} /\ Held(full, s) # <<>>
           /\ ~(Len(Held(full, s)) > MaxPerSession) =>
                 /\ \A x : Held(Capped(full, s), x) = Held(full, x)
                 /\ CutOff(full, s) = {}
<1> DEFINE over == {i \in DOMAIN full : Len(full[i].events) > MaxPerSession /\ full[i].session = s}
           h == Held(full, s)
<1>0. MaxPerSession \in Nat \ {0} /\ h \in Seq(Item) /\ Len(h) \in Nat
  <2>1. h \in Seq(Item)
    BY HeldIs
  <2> HIDE DEF h
  <2>2. QED
    BY <2>1, PendingAssumption
<1>1. \A i \in DOMAIN full : full[i].session = s => full[i].events = h /\ full[i] \in Entry
  <2>1. full \in Seq(Entry)
    BY DEF QueueOK
  <2>2. QED
    BY <2>1, HeldIs
<1>2. h # <<>> <=> \E i \in DOMAIN full : full[i].session = s
  BY HeldIs
<1>3. CASE Len(h) > MaxPerSession
  <2>1. h # <<>> /\ Tail(h) \in Seq(Item) \ {<<>>}
    <3> HIDE DEF h
    <3>1. h # <<>>
      BY <1>0, <1>3
    <3>2. Tail(h) \in Seq(Item) /\ Len(Tail(h)) = Len(h) - 1
      BY <1>0, <3>1, TailIs
    <3>3. \A m, n \in Nat : m > n /\ n # 0 => m - 1 # 0
      OBVIOUS
    <3>4. Len(Tail(h)) # 0
      BY <1>0, <1>3, <3>2, <3>3
    <3>5. \A x : Len(x) # 0 => x # <<>>
      OBVIOUS
    <3>6. QED
      BY <3>1, <3>2, <3>4, <3>5
  <2>2. \A i \in DOMAIN full : i \in over <=> full[i].session = s
    BY <1>1, <1>3
  <2>3. Capped(full, s) = Replaced(full, s, Tail(h))
    <3>1. \A i \in DOMAIN full : full[i].session = s =>
              [full[i] EXCEPT !.events = Tail(@)] = [full[i] EXCEPT !.events = Tail(h)]
      BY <1>1 DEF Entry
    <3>2. Capped(full, s) = [i \in DOMAIN full |->
              IF i \in over THEN [full[i] EXCEPT !.events = Tail(@)] ELSE full[i]]
      BY DEF Capped
    <3> HIDE DEF over, h
    <3>3. QED
      BY <2>2, <3>1, <3>2 DEF Replaced
  <2>4. CutOff(full, s) = {Head(h).ev}
    <3>1. CutOff(full, s) = {Head(full[i].events).ev : i \in over}
      BY DEF CutOff
    <3>2. over # {} /\ \A i \in over : i \in DOMAIN full /\ full[i].events = h
      BY <1>1, <1>2, <2>1, <2>2
    <3> HIDE DEF over, h
    <3>3. QED
      BY <3>1, <3>2
  <2> DEFINE new == Tail(h)
  <2>5. new \in Seq(Item) \ {<<>>}
    BY <2>1
  <2> HIDE DEF new
  <2>6. /\ QueueOK(Replaced(full, s, new))
        /\ \A x : Held(Replaced(full, s, new), x) = IF x = s /\ Held(full, s) # <<>> THEN new ELSE Held(full, x)
    BY <2>5, ReplacedIs
  <2>7. QED
    BY <1>3, <2>1, <2>3, <2>4, <2>6 DEF new
<1>4. CASE ~(Len(h) > MaxPerSession)
  <2>1. over = {}
    BY <1>1, <1>4
  <2>2. Capped(full, s) = full
    <3>1. Capped(full, s) = [i \in DOMAIN full |-> full[i]]
      BY <2>1 DEF Capped
    <3>2. full \in Seq(Entry)
      BY DEF QueueOK
    <3>3. QED
      BY <3>1, <3>2
  <2>3. CutOff(full, s) = {}
    BY <2>1 DEF CutOff
  <2>4. QED
    BY <1>4, <2>2, <2>3
<1>5. QED
  BY <1>3, <1>4

-----------------------------------------------------------------------------
(* The items of a session, and their events.                               *)

\* The items of the event e.
Of(e) == {item \in Item : item.ev = e}

\* The events of a list of items.
LEMMA EvsIs ==
    ASSUME NEW items \in Seq(Item)
    PROVE  /\ Evs(items) = {item.ev : item \in Range(items)} /\ Evs(items) \subseteq Events
           /\ \A e : e \in Evs(items) <=> Range(items) \cap Of(e) # {}
           /\ items = <<>> <=> Evs(items) = {}
<1>1. Len(items) \in Nat /\ DOMAIN items = 1..Len(items) /\ \A i \in DOMAIN items : items[i] \in Item
  OBVIOUS
<1>2. Evs(items) = {item.ev : item \in Range(items)}
  BY <1>1 DEF Evs, Range
<1>3. Range(items) \subseteq Item /\ (items = <<>> <=> Range(items) = {})
  BY RangeIs
<1>4. Evs(items) \subseteq Events
  BY <1>2, <1>3 DEF Item
<1>5. \A e : e \in Evs(items) <=> Range(items) \cap Of(e) # {}
  BY <1>2, <1>3 DEF Of
<1>6. items = <<>> <=> Evs(items) = {}
  BY <1>2, <1>3
<1>7. QED
  BY <1>2, <1>4, <1>5, <1>6

\* The first event is not among the others if it is there once.
LEMMA EvsTail ==
    ASSUME NEW items \in Seq(Item), items # <<>>
    PROVE  /\ Head(items) \in Item /\ Tail(items) \in Seq(Item)
           /\ Evs(items) = {Head(items).ev} \cup Evs(Tail(items))
           /\ \A e : Single(Of(e), items) => /\ Single(Of(e), Tail(items))
                                             /\ Head(items).ev = e => e \notin Evs(Tail(items))
<1>1. /\ Head(items) \in Item /\ Tail(items) \in Seq(Item)
      /\ Range(items) = {Head(items)} \cup Range(Tail(items))
      /\ \A P : Single(P, items) => /\ Single(P, Tail(items))
                                    /\ Head(items) \in P => Range(Tail(items)) \cap P = {}
  BY TailIs
<1> DEFINE t == Tail(items) h == Head(items)
<1>2. t \in Seq(Item) /\ h \in Item /\ Range(items) = {h} \cup Range(t)
  BY <1>1
<1> HIDE DEF t, h
<1>3. Evs(items) = {h.ev} \cup Evs(t)
  <2>1. Evs(items) = {item.ev : item \in Range(items)} /\ Evs(t) = {item.ev : item \in Range(t)}
    BY <1>2, EvsIs
  <2>2. QED
    BY <1>2, <2>1
<1>4. ASSUME NEW e, Single(Of(e), items) PROVE Single(Of(e), t) /\ (h.ev = e => e \notin Evs(t))
  <2>1. Single(Of(e), t) /\ (h \in Of(e) => Range(t) \cap Of(e) = {})
    BY <1>1, <1>4 DEF t, h
  <2>2. h.ev = e => h \in Of(e)
    BY <1>2 DEF Of
  <2>3. e \in Evs(t) <=> Range(t) \cap Of(e) # {}
    BY <1>2, EvsIs
  <2>4. QED
    BY <2>1, <2>2, <2>3
<1>5. QED
  BY <1>1, <1>3, <1>4 DEF t, h

\* Events of two lists, each there once, are once in both if in one of them.
LEMMA EvsConcat ==
    ASSUME NEW a \in Seq(Item), NEW b \in Seq(Item)
    PROVE  /\ a \o b \in Seq(Item) /\ Evs(a \o b) = Evs(a) \cup Evs(b)
           /\ \A e : Single(Of(e), a) /\ Single(Of(e), b) /\ (e \notin Evs(a) \/ e \notin Evs(b))
                     => Single(Of(e), a \o b)
<1> DEFINE c == a \o b
<1>1. /\ c \in Seq(Item) /\ Range(c) = Range(a) \cup Range(b)
      /\ \A P : Single(P, a) /\ Single(P, b) /\ (Range(a) \cap P = {} \/ Range(b) \cap P = {})
                     => Single(P, c)
  BY ConcatIs
<1> HIDE DEF c
<1>2. /\ Evs(a) = {item.ev : item \in Range(a)} /\ Evs(b) = {item.ev : item \in Range(b)}
      /\ Evs(c) = {item.ev : item \in Range(c)}
  BY <1>1, EvsIs
<1>3. Evs(c) = Evs(a) \cup Evs(b)
  BY <1>1, <1>2
<1>4. \A e : /\ e \in Evs(a) <=> Range(a) \cap Of(e) # {}
             /\ e \in Evs(b) <=> Range(b) \cap Of(e) # {}
  BY EvsIs
<1>5. \A e : Single(Of(e), a) /\ Single(Of(e), b) /\ (e \notin Evs(a) \/ e \notin Evs(b))
                     => Single(Of(e), c)
  BY <1>1, <1>4
<1>6. QED
  BY <1>1, <1>3, <1>5 DEF c

\* The same, for one item more.
LEMMA EvsAppend ==
    ASSUME NEW items \in Seq(Item), NEW x \in Item
    PROVE  /\ Append(items, x) \in Seq(Item) /\ Evs(Append(items, x)) = Evs(items) \cup {x.ev}
           /\ \A e : Single(Of(e), items) /\ (e \notin Evs(items) \/ x.ev # e)
                     => Single(Of(e), Append(items, x))
<1> DEFINE c == Append(items, x)
<1>1. /\ c \in Seq(Item) /\ Range(c) = Range(items) \cup {x}
      /\ \A P : Single(P, items) /\ (Range(items) \cap P = {} \/ x \notin P) => Single(P, c)
  BY AppendIs
<1> HIDE DEF c
<1>2. Evs(items) = {item.ev : item \in Range(items)} /\ Evs(c) = {item.ev : item \in Range(c)}
  BY <1>1, EvsIs
<1>3. Evs(c) = Evs(items) \cup {x.ev}
  BY <1>1, <1>2
<1>4. \A e : e \in Evs(items) <=> Range(items) \cap Of(e) # {}
  BY EvsIs
<1>5. \A e : Single(Of(e), items) /\ (e \notin Evs(items) \/ x.ev # e) => Single(Of(e), c)
  BY <1>1, <1>4 DEF Of
<1>6. QED
  BY <1>1, <1>3, <1>5 DEF c

\* The items whose events are not in I.
LEMMA EvsFresh ==
    ASSUME NEW items \in Seq(Item), NEW I
    PROVE  LET new == Only(items, {item \in Item : item.ev \notin I})
           IN  /\ new \in Seq(Item) /\ Evs(new) = Evs(items) \ I
               /\ Range(new) \subseteq Range(items)
               /\ \A e : Single(Of(e), items) => Single(Of(e), new)
<1> DEFINE S == {item \in Item : item.ev \notin I}
           new == Only(items, S)
<1>1. new \in Seq(Item) /\ Range(new) = Range(items) \cap S
  <2> HIDE DEF S
  <2>1. QED
    BY OnlyIs
<1>2. \A e : Single(Of(e), items) => Single(Of(e), new)
  <2> HIDE DEF S
  <2>1. QED
    BY OnlySingle
<1>3. Range(items) \subseteq Item
  BY RangeIs
<1> HIDE DEF new
<1>4. Evs(items) = {item.ev : item \in Range(items)} /\ Evs(new) = {item.ev : item \in Range(new)}
  BY <1>1, EvsIs
<1>5. Evs(new) = Evs(items) \ I
  BY <1>1, <1>3, <1>4
<1>6. QED
  BY <1>1, <1>2, <1>5 DEF new

-----------------------------------------------------------------------------
(* The table of failures.                                                  *)

\* A table of failures: no event twice, within its limit.
TableOK(t) == t \in Seq(Events) /\ (\A e : Single({e}, t)) /\ Len(t) <= MaxFailed

\* Rows that are deleted leave a table.
LEMMA OnlyTable ==
    ASSUME NEW t, TableOK(t), NEW S
    PROVE  TableOK(Only(t, S)) /\ Range(Only(t, S)) = Range(t) \cap S
<1>0. t \in Seq(Events) /\ (\A x : Single({x}, t)) /\ Len(t) <= MaxFailed
  BY DEF TableOK
<1>1. t \in Seq(Events) /\ (\A x : Single({x}, t)) /\ Len(t) <= MaxFailed /\ Len(t) \in Nat
  <2>1. t \in Seq(Events)
    BY <1>0
  <2>2. Len(t) \in Nat
    BY <2>1
  <2>3. QED
    BY <1>0, <2>2
<1> DEFINE o == Only(t, S)
<1>2. o \in Seq(Events) /\ Len(o) <= Len(t) /\ Range(o) = Range(t) \cap S
  BY <1>1, OnlyIs
<1>3. \A e : Single({e}, o)
  BY <1>1, OnlySingle
<1> HIDE DEF o
<1>4. Len(o) \in Nat /\ MaxFailed \in Nat
  BY <1>2, PendingAssumption
<1>5. Len(o) <= MaxFailed
  BY <1>1, <1>2, <1>4
<1>6. QED
  BY <1>2, <1>3, <1>5 DEF TableOK, o

\* A row that is saved is there, even if the table was full.
LEMMA SavedIs ==
    ASSUME NEW t, TableOK(t), NEW e \in Events
    PROVE  /\ TableOK(Saved(t, e)) /\ e \in Range(Saved(t, e))
           /\ Range(Saved(t, e)) \subseteq Range(t) \cup {e}
<1>0. t \in Seq(Events) /\ (\A x : Single({x}, t)) /\ Len(t) <= MaxFailed
  BY DEF TableOK
<1>1. t \in Seq(Events) /\ (\A x : Single({x}, t)) /\ Len(t) <= MaxFailed /\ Len(t) \in Nat
  <2>1. t \in Seq(Events)
    BY <1>0
  <2>2. Len(t) \in Nat
    BY <2>1
  <2>3. QED
    BY <1>0, <2>2
<1>2. MaxFailed \in Nat /\ MaxFailed >= 1
  BY PendingAssumption
<1>3. CASE e \in Range(t)
  <2>1. Saved(t, e) = SubSeq(t, 1, Len(t))
    <3>1. Saved(t, e) = SubSeq(t, (IF Len(t) > MaxFailed THEN Len(t) - MaxFailed ELSE 0) + 1, Len(t))
      BY <1>3 DEF Saved
    <3>2. ~(Len(t) > MaxFailed)
      BY <1>1, <1>2
    <3>3. QED
      BY <3>1, <3>2
  <2>2. SubSeq(t, 1, Len(t)) = t
    BY <1>1
  <2>3. QED
    BY <1>3, <2>1, <2>2
<1>4. CASE e \notin Range(t)
  <2> DEFINE all == Append(t, e)
  <2>1. /\ all \in Seq(Events) /\ Range(all) = Range(t) \cup {e} /\ Len(all) = Len(t) + 1
        /\ \A P : Single(P, t) /\ (Range(t) \cap P = {} \/ e \notin P) => Single(P, all)
        /\ all[Len(t) + 1] = e /\ \A i \in 1..Len(t) : all[i] = t[i]
    BY <1>1, AppendIs
  <2>2. Saved(t, e) = SubSeq(all, (IF Len(all) > MaxFailed THEN Len(all) - MaxFailed ELSE 0) + 1, Len(all))
    BY <1>4 DEF Saved
  <2> HIDE DEF all
  <2>3. \A x : Single({x}, all)
    <3> SUFFICES ASSUME NEW x PROVE Single({x}, all)
      OBVIOUS
    <3> DEFINE P == {x}
    <3>1. Single(P, t) /\ (Range(t) \cap P = {} \/ e \notin P)
      BY <1>1, <1>4
    <3> HIDE DEF P
    <3>2. Single(P, all)
      BY <2>1, <3>1
    <3>3. QED
      BY <3>2 DEF P
  <2>4. CASE Len(t) < MaxFailed
    <3>0. ~(Len(all) > MaxFailed)
      BY <1>1, <1>2, <2>1, <2>4
    <3>1. Saved(t, e) = SubSeq(all, 1, Len(all))
      BY <2>2, <3>0
    <3>2. SubSeq(all, 1, Len(all)) = all /\ Len(all) <= MaxFailed
      BY <1>1, <1>2, <2>1, <2>4
    <3>3. QED
      BY <2>1, <2>3, <3>1, <3>2 DEF TableOK
  <2>5. CASE Len(t) = MaxFailed
    <3>0. Len(all) > MaxFailed /\ Len(all) - MaxFailed = 1
      BY <1>1, <1>2, <2>1, <2>5
    <3>1. Saved(t, e) = SubSeq(all, 2, Len(all))
      BY <2>2, <3>0
    <3>2. SubSeq(all, 2, Len(all)) = Tail(all) /\ all # <<>>
      BY <1>1, <1>2, <2>1
    <3>3. /\ Tail(all) \in Seq(Events) /\ Range(all) = {Head(all)} \cup Range(Tail(all))
          /\ Len(Tail(all)) = Len(all) - 1
          /\ \A P : Single(P, all) => Single(P, Tail(all))
      BY <2>1, <3>2, TailIs
    <3>4. Head(all) # e
      <4>1. Head(all) = all[1] /\ 1 \in 1..Len(t)
        BY <1>1, <1>2, <2>1, <2>5, <3>2
      <4>2. all[1] \in Range(t)
        BY <1>1, <2>1, <4>1 DEF Range
      <4>3. QED
        BY <1>4, <4>1, <4>2
    <3>5. \A x : Single({x}, Tail(all))
      BY <2>3, <3>3
    <3>6. Len(Tail(all)) <= MaxFailed
      BY <1>1, <1>2, <2>1, <2>5, <3>3
    <3>7. QED
      BY <2>1, <3>1, <3>2, <3>3, <3>4, <3>5, <3>6 DEF TableOK
  <2>6. QED
    BY <1>1, <1>2, <2>4, <2>5
<1>5. QED
  BY <1>3, <1>4

\* Saving one item after the other leaves a table, with nothing in it that is of neither.
LEMMA SavedAllIs ==
    ASSUME NEW t, TableOK(t), NEW items \in Seq(Item)
    PROVE  TableOK(SavedAll(t, items)) /\ Range(SavedAll(t, items)) \subseteq Range(t) \cup Evs(items)
<1> DEFINE N == Len(items)
           Is(f) == f = [n \in 0..N |-> IF n = 0 THEN t ELSE Saved(f[n - 1], items[n].ev)]
<1>1. N \in Nat /\ DOMAIN items = 1..N /\ \A n \in 1..N : items[n].ev \in Events /\ items[n].ev \in Evs(items)
  <2>1. N \in Nat /\ DOMAIN items = 1..N /\ \A n \in 1..N : items[n] \in Item
    OBVIOUS
  <2>2. QED
    BY <2>1 DEF Item, Evs
<1>2. \E f : Is(f)
  <2>1. PICK V : V = {r \in Seq(Events) : TableOK(r)}
    OBVIOUS
  <2> DEFINE h == [p \in (1..N) \X V |-> Saved(p[2], items[p[1]].ev)]
  <2>2. \A n \in 1..N : \A v \in V : h[<<n, v>>] = Saved(v, items[n].ev)
    OBVIOUS
  <2> HIDE DEF h, N
  <2>3. PICK g : g = h
    OBVIOUS
  <2>4. t \in V /\ N \in Nat
    BY <1>1, <2>1 DEF TableOK
  <2>5. \A n \in 1..N : \A v \in V : g[<<n, v>>] \in V
    <3> SUFFICES ASSUME NEW n \in 1..N, NEW v \in V PROVE g[<<n, v>>] \in V
      OBVIOUS
    <3>1. TableOK(v) /\ items[n].ev \in Events
      BY <1>1, <2>1
    <3>2. TableOK(Saved(v, items[n].ev))
      BY <3>1, SavedIs
    <3>3. QED
      BY <2>1, <2>2, <2>3, <3>2 DEF TableOK
  <2>6. \E f : GivenBy(f, N, V, t, g)
    BY <2>4, <2>5, RecursionExists
  <2>7. PICK f : f \in [0..N -> V] /\ f[0] = t /\ \A n \in 1..N : f[n] = g[<<n, f[n - 1]>>]
    BY <2>6 DEF GivenBy
  <2>8. \A n \in 0..N : n = 0 \/ (n \in 1..N /\ n - 1 \in 0..N)
    BY <1>1
  <2>9. \A n \in 1..N : f[n] = Saved(f[n - 1], items[n].ev)
    <3> SUFFICES ASSUME NEW n \in 1..N PROVE f[n] = Saved(f[n - 1], items[n].ev)
      OBVIOUS
    <3>1. f[n - 1] \in V
      BY <1>1, <2>7
    <3>2. QED
      BY <2>2, <2>3, <2>7, <3>1
  <2>10. Is(f)
    <3>1. f = [n \in 0..N |-> f[n]]
      BY <2>7
    <3>2. \A n \in 0..N : f[n] = IF n = 0 THEN t ELSE Saved(f[n - 1], items[n].ev)
      BY <2>7, <2>8, <2>9
    <3>3. QED
      BY <3>1, <3>2
  <2> HIDE DEF Is
  <2>11. QED
    BY <2>10
<1>3. PICK f : Is(f) /\ SavedAll(t, items) = f[N]
  BY <1>2 DEF SavedAll
<1>4. f[0] = t /\ \A n \in 1..N : f[n] = Saved(f[n - 1], items[n].ev)
  <2>1. 0 \in 0..N /\ \A n \in 1..N : n \in 0..N /\ n # 0
    <3> HIDE DEF N
    <3>1. QED
      BY <1>1
  <2>2. QED
    BY <1>3, <2>1
<1> HIDE DEF Is
<1> DEFINE G == {n \in 0..N : TableOK(f[n]) /\ Range(f[n]) \subseteq Range(t) \cup Evs(items)}
<1>5. 0 \in G
  BY <1>1, <1>4
<1>6. ASSUME NEW n \in 1..N, n - 1 \in G PROVE n \in G
  <2>1. TableOK(f[n - 1]) /\ Range(f[n - 1]) \subseteq Range(t) \cup Evs(items)
    BY <1>6
  <2>2. items[n].ev \in Events /\ items[n].ev \in Evs(items) /\ n \in 0..N
    BY <1>1
  <2>3. /\ TableOK(Saved(f[n - 1], items[n].ev))
        /\ Range(Saved(f[n - 1], items[n].ev)) \subseteq Range(f[n - 1]) \cup {items[n].ev}
    BY <2>1, <2>2, SavedIs
  <2>4. QED
    BY <1>4, <2>1, <2>2, <2>3
<1>7. N \in G
  <2> HIDE DEF G, N
  <2>1. 0..N \subseteq G
    BY <1>1, <1>5, <1>6, UpTo
  <2>2. QED
    BY <1>1, <2>1
<1>8. QED
  BY <1>3, <1>7

\* A pass over the table visits the sessions of all rows.
LEMMA FailedSessionsIs ==
    ASSUME TableOK(table)
    PROVE  FailedSessions \in Seq(Sessions) /\ Range(FailedSessions) = {Session(e) : e \in Range(table)}
<1> DEFINE N == Len(table)
           leads(k) == \A j \in 1..(k - 1) : Session(table[j]) # Session(table[k])
           S == {table[i] : i \in {k \in DOMAIN table : leads(k)}}
           first == Only(table, S)
<1>1. /\ table \in Seq(Events) /\ N \in Nat /\ DOMAIN table = 1..N
      /\ \A i \in 1..N : table[i] \in Events /\ Session(table[i]) \in Sessions
  <2>1. table \in Seq(Events)
    BY DEF TableOK
  <2>2. \A e \in Events : Session(e) \in Sessions
    BY PendingAssumption DEF Session
  <2>3. N \in Nat /\ DOMAIN table = 1..N /\ \A i \in 1..N : table[i] \in Events
    BY <2>1
  <2>4. QED
    BY <2>1, <2>2, <2>3
<1>2. first \in Seq(Events) /\ Range(first) = Range(table) \cap S
  <2> HIDE DEF S
  <2>1. QED
    BY <1>1, OnlyIs
<1>3. FailedSessions = [i \in DOMAIN first |-> Session(first[i])]
  BY DEF FailedSessions
<1>4. S \subseteq Range(table)
  BY DEF Range
<1>5. \A s \in {Session(e) : e \in Range(table)} : \E e \in S : Session(e) = s
  <2> SUFFICES ASSUME NEW s \in {Session(e) : e \in Range(table)} PROVE \E e \in S : Session(e) = s
    OBVIOUS
  <2> DEFINE T == {k \in 1..N : Session(table[k]) = s}
  <2>1. T \in SUBSET Nat /\ T # {}
    BY <1>1 DEF Range
  <2> HIDE DEF T
  <2>2. PICK n \in T : \A m \in T : n <= m
    BY <2>1, LeastNat
  <2>3. n \in 1..N /\ n \in Nat /\ Session(table[n]) = s
    BY <2>2 DEF T
  <2>4. \A j \in 1..(n - 1) : j \in 1..N /\ ~(n <= j)
    BY <1>1, <2>3
  <2>5. leads(n)
    BY <2>2, <2>3, <2>4 DEF T
  <2>6. table[n] \in S
    BY <1>1, <2>3, <2>5
  <2>7. QED
    BY <2>3, <2>6
<1>6. Range(first) = S
  BY <1>2, <1>4
<1> HIDE DEF S, first
<1>7. Len(first) \in Nat /\ DOMAIN first = 1..Len(first) /\ \A i \in 1..Len(first) : first[i] \in Events
  BY <1>2
<1>8. \A i \in 1..Len(first) : Session(first[i]) \in Sessions
  BY <1>7, PendingAssumption DEF Session
<1>9. FailedSessions \in Seq(Sessions)
  BY <1>3, <1>7, <1>8
<1>10. Range(FailedSessions) = {Session(e) : e \in Range(first)}
  BY <1>3, <1>7 DEF Range
<1>11. QED
  BY <1>4, <1>5, <1>6, <1>9, <1>10

-----------------------------------------------------------------------------
(* The inductive invariant.                                                *)

\* Items of the session s, of events in a; what is decrypted has its key in k.
Good(s, a, k) == {item \in Item : item.ev \in a /\ Session(item.ev) = s /\ (item.plain => s \in k)}

\* Items that are not decrypted yet, or are of an event in x, after f faults.
Done(f, x) == {item \in Item : item.plain => f > 0 /\ item.ev \in x}

\* The sets only name what has arrived, and only what arrived was handed on.
PastInv ==
    /\ phase \in {"down", "syncing", "starting", "up"}
    /\ arrived \subseteq Events /\ keys \subseteq Sessions
    /\ backup \subseteq Sessions /\ seen \subseteq backup /\ ids \subseteq arrived
    /\ faults \in 0..MaxFaults /\ ends \in 0..MaxEnds
    /\ sent \in [Events -> 0..2] /\ \A e \in Events : sent[e] > 0 => e \in arrived
    /\ lost \subseteq arrived /\ excused \subseteq arrived /\ stranded \subseteq arrived

\* The queue has one entry by session, of items of that session.
QueueInv == QueueOK(queue) /\ \A s \in Sessions : Held(queue, s) \in Seq(Good(s, arrived, keys))

\* The table holds events that have arrived.
TableInv == TableOK(table) /\ Range(table) \subseteq arrived

\* Where the sync loop asks the backup for a key.
Asking == {"failed", "given", "refused"}

\* Where a worker may be.
Places(t) == IF t = "sync" THEN {"idle", "try", "rows", "items"} \cup Asking
             ELSE {"idle", "pop", "try", "rows", "items", "ensure"}

\* The locals of a worker.
Job == [at : Places("sync") \cup Places("retry"), event : Events \cup {<<>>},
        queued : Seq(Sessions), session : Sessions \cup {<<>>}, todo : Seq(Item),
        failed : Seq(Item), rows : Seq(Sessions), items : Seq(Events),
        handled : SUBSET Events, next : {"idle", "up", "ensure"}]

\* The locals that count where a worker is, and those that are empty there.
JobOK(t) ==
    LET w == work[t] IN
    /\ w.at \in Places(t)
    /\ w.at \in Asking => w.event \in arrived
    /\ w.at = "given" => Session(w.event) \in backup
    /\ w.at = "try" => w.session \in Sessions
    /\ w.at # "try" => w.todo = <<>> /\ w.failed = <<>>
    /\ w.at # "items" => w.items = <<>>
    /\ w.todo \in Seq(Good(w.session, arrived, keys)) /\ w.failed \in Seq(Good(w.session, arrived, keys))
    /\ Range(w.items) \subseteq arrived
    /\ \A e \in w.handled : e \in arrived /\ sent[e] > 0 /\ Session(e) \in keys
    /\ w.at \in {"idle", "ensure"} \cup Asking => w.handled = {}
    /\ t = "sync" => w.next = "idle"

\* Every worker has locals of this form.
JobsInv == work \in [Workers -> Job] /\ \A t \in Workers : JobOK(t)

\* An entry that the recheck has a reference to.
Seen == [session : Sessions, dead : BOOLEAN, events : Seq(Item)]

\* The recheck's lists hold items of their session.
RecheckInv ==
    /\ recheck \in [snap : Seq(Seen), at : Nat, still : Seq(Item)]
    /\ \A entry \in Range(recheck.snap) : entry.events \in Seq(Good(entry.session, arrived, keys))
    /\ recheck.snap = <<>> => recheck = Rested
    /\ recheck.snap # <<>> => recheck.still \in Seq(Good(Head(recheck.snap).session, arrived, keys))

\* Before and in the first sync no pass is at work; in the rest of the start nobody else is, and
\* a pass finds every session it set out with.
PhaseInv ==
    LET w == work["retry"] IN
    /\ phase \in {"down", "starting"} => work["sync"].at = "idle"
    /\ phase # "up" => recheck = Rested
    /\ phase \in {"down", "syncing"} => w.at = "idle"
    /\ phase # "starting" => w.at # "ensure" /\ w.next = "idle"
    /\ phase = "starting" => w.at # "idle" /\ (w.at # "ensure" => w.next \in {"ensure", "up"})
    /\ w.at = "ensure" => Range(w.rows) \subseteq {Session(e) : e \in Range(table)}
    /\ w.next # "idle" /\ w.at \in {"pop", "try"} =>
          /\ \A s \in Range(w.queued) : Held(queue, s) # <<>>
          /\ \A s : Single({s}, w.queued)
          /\ w.at = "try" => w.session \notin Range(w.queued)

\* The last pass of the start has not come to the session s, whose events may be decrypted.
Before(s) ==
    LET w == work["retry"] IN
    \/ phase \in {"down", "syncing"} \/ w.at = "ensure" \/ w.next = "ensure"
    \/ w.next = "up" /\ w.at \in {"pop", "try"} /\ s \in Range(w.queued)

\* The job w of t takes up what is in the queue before the start is done, in phase p.
Early(t, w, p) == IF t = "retry" THEN w.next # "idle" ELSE p = "syncing"

\* Outside the start, what is decrypted and waits has raised once.
PlainInv ==
    /\ \A s \in Sessions : Before(s) \/ Held(queue, s) \in Seq(Done(faults, excused))
    /\ \A t \in Workers : /\ Early(t, work[t], phase) \/ work[t].todo \in Seq(Done(faults, excused))
                          /\ work[t].failed \in Seq(Done(faults, excused))
    /\ recheck.still \in Seq(Done(faults, excused))
    /\ \A entry \in Range(recheck.snap) : entry.events \in Seq(Done(faults, excused))
    /\ faults = 0 => recheck = Rested

\* The job w of the sync loop is to ask for the key of e, which is stored nowhere yet.
AskedFor(w, e) == w.at \in Asking /\ e = w.event

\* An event that was not handed on is asked for, or in the table, or taken from it.
BackInv == \A e \in arrived : sent[e] = 0 =>
    \/ e \in Range(table) \/ e \in lost \/ AskedFor(work["sync"], e)
    \/ \E t \in Workers : e \in Range(work[t].items)

\* What the job w is to hand on from the queue or from the table.
HeldBy(w) == Evs(w.todo) \cup Evs(w.failed) \cup Range(w.items)

\* What is in the queue, the table, or the lists of a task.
Stored == Queued \cup Range(table) \cup HeldBy(work["sync"]) \cup HeldBy(work["retry"])
          \cup work["sync"].handled \cup work["retry"].handled
          \cup Evs(recheck.still) \cup UNION {Evs(entry.events) : entry \in Range(recheck.snap)}

\* What is asked for is nowhere else and was never handed on.
AskedInv == \A e \in Events : AskedFor(work["sync"], e) => e \notin Stored /\ sent[e] = 0

\* While nothing raises, no event is waiting twice.
IdsInv == faults = 0 =>
    /\ ids = Queued /\ \A s \in Sessions : \A e : Single(Of(e), Held(queue, s))
    /\ \A t \in Workers : /\ \A e : Single(Of(e), work[t].todo) /\ Single(Of(e), work[t].failed)
                          /\ Evs(work[t].todo) \cap Evs(work[t].failed) = {}

\* The task t is to hand e on.
Holds(t, w, e) == e \in HeldBy(w) \/ (t = "sync" /\ AskedFor(w, e))

\* The job w has e in one of its lists, and there once.
Singly(w, e) ==
    /\ Single(Of(e), w.todo) /\ Single(Of(e), w.failed) /\ Single({e}, w.items)
    /\ e \notin Evs(w.todo) \cap Evs(w.failed)

\* The recheck will write e back to the queue.
InStill(r, e) == r.snap # <<>> /\ ~Head(r.snap).dead /\ e \in Evs(r.still)

\* The event e is among the first n items, or not among the items.
Within(e, items, n) == \A i \in DOMAIN items : items[i].ev = e => i <= n

\* The pass of t will remove the row of e, which it has handed on.
Leaves(t, w, e) ==
    e \in w.handled /\ \/ t = "retry" /\ w.at \in {"pop", "try"}
                       \/ Session(e) \in Range(w.rows)

\* What may not be handed on twice is in one place.
OnceOf(e) ==
    /\ sent[e] <= 1
    /\ Single(Of(e), Held(queue, Session(e)))
    /\ \A t \in Workers : Holds(t, work[t], e) =>
           /\ e \notin Queued /\ ~InStill(recheck, e) /\ sent[e] = 0
           /\ Singly(work[t], e) /\ \A u \in Workers \ {t} : ~Holds(u, work[u], e)
    /\ \A t \in Workers : e \in Range(work[t].items) => e \notin Range(table)
    /\ e \in Queued \/ InStill(recheck, e) => sent[e] = 0
    /\ InStill(recheck, e) =>
          /\ Single(Of(e), recheck.still)
          /\ Within(e, Held(queue, Session(e)), recheck.at)
    /\ e \in Range(table) /\ sent[e] > 0 => \E t \in Workers : Leaves(t, work[t], e)

\* All but what is excused is in one place.
OnceInv == \A e \in Events \ excused : OnceOf(e)

\* A pass that is on its way, or is to come, takes up the rows of s.
Covered(s) ==
    LET w == work["retry"] v == work["sync"] IN
    \/ s \in backup \ seen
    \/ v.at \in {"try", "rows", "items"} /\ s \in Range(v.rows)
    \/ w.at \in {"pop", "try", "ensure"} \/ w.next = "ensure"
    \/ w.at \in {"rows", "items"} /\ s \in Range(w.rows)

\* An event in the table whose key is there is not forgotten.
CoverInv == \A e \in Range(table) :
    /\ Session(e) \in keys /\ sent[e] = 0 /\ e \notin lost \cup excused \cup stranded
    /\ phase \in {"starting", "up"}
    => Covered(Session(e))

\* The handler of a room key goes on to the rows of the session it retries.
SyncRows == work["sync"].at = "try" => work["sync"].session \in Range(work["sync"].rows)

\* What every other part of the invariant rests on.
Base == PastInv /\ QueueInv /\ TableInv /\ JobsInv /\ RecheckInv /\ PhaseInv

\* The inductive invariant.
IInv == /\ Base /\ PlainInv /\ BackInv /\ AskedInv /\ IdsInv /\ OnceInv /\ SyncRows /\ CoverInv

-----------------------------------------------------------------------------
(* What the actions do, in terms of the fields of a job and of what the    *)
(* queue holds of each session.                                            *)

\* The constants, and the session of an event.
LEMMA Given == /\ MaxSessions \in Nat /\ MaxSessions >= 1 /\ MaxPerSession \in Nat /\ MaxPerSession >= 1
               /\ MaxFailed \in Nat /\ MaxFailed >= 1 /\ Recovery \in BOOLEAN
               /\ MaxFaults \in Nat /\ MaxEnds \in Nat
               /\ \A e \in Events : Session(e) \in Sessions
  BY PendingAssumption DEF Session

\* The sync loop and the retry task.
LEMMA TwoWorkers == /\ "sync" \in Workers /\ "retry" \in Workers
                    /\ \A t \in Workers : t = "sync" \/ t = "retry"
  BY DEF Workers

\* The events in a queue.
QueuedIn(q) == UNION {Evs(q[i].events) : i \in DOMAIN q}

\* An event in a queue is in the entry of its session.
LEMMA QueuedIs ==
    ASSUME NEW q, QueueOK(q), \A s \in Sessions : \A e \in Evs(Held(q, s)) : Session(e) = s
    PROVE  \A e : e \in QueuedIn(q) <=> e \in Evs(Held(q, Session(e)))
<1>1. ASSUME NEW e, e \in QueuedIn(q) PROVE e \in Evs(Held(q, Session(e)))
  <2>1. PICK i \in DOMAIN q : e \in Evs(q[i].events)
    BY <1>1 DEF QueuedIn
  <2>2. q[i].session \in Sessions /\ Held(q, q[i].session) = q[i].events
    BY HeldIs
  <2>3. QED
    BY <2>1, <2>2
<1>2. ASSUME NEW e, e \in Evs(Held(q, Session(e))) PROVE e \in QueuedIn(q)
  <2>1. Held(q, Session(e)) # <<>>
    BY <1>2 DEF Evs
  <2>2. PICK i \in DOMAIN q : q[i].session = Session(e)
    BY <2>1, HeldIs
  <2>3. Held(q, Session(e)) = q[i].events
    BY <2>2, HeldIs
  <2>4. QED
    BY <1>2, <2>3 DEF QueuedIn
<1>3. QED
  BY <1>1, <1>2

\* The model's operators on the queue, as those of the sections above.
LEMMA EventsOfIs == \A s : EventsOf(s) = Held(queue, s)
  BY DEF EventsOf, Held, Place

LEMMA PlaceIs == ASSUME QueueOK(queue) PROVE \A s : Place(s) = {} <=> Held(queue, s) = <<>>
  BY HeldIs DEF Place

LEMMA WithoutIs == \A S : Without(S) = Rest(queue, S)
  BY DEF Without, Rest

\* The items of a session, as sets.
LEMMA GoodIs ==
    ASSUME NEW a, NEW k, NEW s, NEW items \in Seq(Good(s, a, k))
    PROVE  /\ items \in Seq(Item) /\ \A e \in Evs(items) : e \in a /\ Session(e) = s
           /\ \A item \in Range(items) : item \in Good(s, a, k)
<1>1. Good(s, a, k) \subseteq Item
  BY DEF Good
<1>2. items \in Seq(Item)
  BY <1>1, SeqGrows
<1>3. Range(items) \subseteq Good(s, a, k) /\ Evs(items) = {item.ev : item \in Range(items)}
  BY <1>2, RangeIs, EvsIs
<1>4. QED
  BY <1>2, <1>3 DEF Good

\* More arrivals and more keys admit more items.
LEMMA GoodGrows ==
    ASSUME NEW a, NEW k, NEW b, NEW l, a \subseteq b, k \subseteq l, NEW s
    PROVE  Good(s, a, k) \subseteq Good(s, b, l) /\ Seq(Good(s, a, k)) \subseteq Seq(Good(s, b, l))
<1>1. Good(s, a, k) \subseteq Good(s, b, l)
  BY DEF Good
<1>2. QED
  BY <1>1, SeqGrows

\* What the queue holds of a session is of that session.
LEMMA QueueIs ==
    ASSUME QueueInv
    PROVE  /\ \A s : Held(queue, s) \in Seq(Good(s, arrived, keys)) /\ Held(queue, s) \in Seq(Item)
           /\ \A s : \A e \in Evs(Held(queue, s)) : Session(e) = s /\ e \in arrived
           /\ \A e : e \in Queued <=> e \in Evs(Held(queue, Session(e)))
<1>1. QueueOK(queue)
  BY DEF QueueInv
<1>2. \A s : s \notin Sessions => Held(queue, s) = <<>>
  BY <1>1, HeldIs
<1>3. ASSUME NEW s PROVE Held(queue, s) \in Seq(Good(s, arrived, keys))
  <2>1. CASE s \in Sessions
    BY <2>1 DEF QueueInv
  <2>2. CASE s \notin Sessions
    <3>1. \A A : <<>> \in Seq(A)
      OBVIOUS
    <3>2. QED
      BY <1>2, <2>2, <3>1
  <2>3. QED
    BY <2>1, <2>2
<1>4. ASSUME NEW s PROVE \A e \in Evs(Held(queue, s)) : Session(e) = s /\ e \in arrived
  BY <1>3, GoodIs
<1>5. \A s : Held(queue, s) \in Seq(Item)
  BY <1>1, HeldIs
<1>6. Queued = QueuedIn(queue)
  BY DEF Queued, QueuedIn
<1>7. \A e : e \in QueuedIn(queue) <=> e \in Evs(Held(queue, Session(e)))
  BY <1>1, <1>4, QueuedIs
<1>8. QED
  BY <1>3, <1>4, <1>5, <1>6, <1>7

\* The job of t is as given; the other worker's stays.
Becomes(t, at, event, queued, session, todo, failed, rows, items, handled, next) ==
    /\ work' \in [Workers -> Job] /\ \A u \in Workers \ {t} : work'[u] = work[u]
    /\ work'[t].at = at /\ work'[t].event = event /\ work'[t].queued = queued
    /\ work'[t].session = session /\ work'[t].todo = todo /\ work'[t].failed = failed
    /\ work'[t].rows = rows /\ work'[t].items = items /\ work'[t].handled = handled
    /\ work'[t].next = next

\* A job that is set, field by field.
LEMMA SetIs ==
    ASSUME work \in [Workers -> Job], NEW t \in Workers, NEW r \in Job, Set(t, r)
    PROVE  Becomes(t, r.at, r.event, r.queued, r.session, r.todo, r.failed, r.rows, r.items,
                   r.handled, r.next)
<1>1. work' = [work EXCEPT ![t] = r]
  BY DEF Set
<1>2. work' \in [Workers -> Job] /\ work'[t] = r /\ \A u \in Workers \ {t} : work'[u] = work[u]
  BY <1>1
<1>3. QED
  BY <1>2 DEF Becomes

\* The fields of an idle job.
LEMMA IdleIs == /\ Idle \in Job /\ Idle.at = "idle" /\ Idle.event = <<>> /\ Idle.queued = <<>>
                /\ Idle.session = <<>> /\ Idle.todo = <<>> /\ Idle.failed = <<>> /\ Idle.rows = <<>>
                /\ Idle.items = <<>> /\ Idle.handled = {} /\ Idle.next = "idle"
  BY DEF Idle, Job, Places, Asking

\* An event that is handed on is counted, the others keep their count.
LEMMA DispatchedIs ==
    ASSUME sent \in [Events -> 0..2], NEW e \in Events, Dispatched(e)
    PROVE  /\ sent' \in [Events -> 0..2] /\ sent'[e] > 0
           /\ sent'[e] = IF sent[e] = 2 THEN 2 ELSE sent[e] + 1
           /\ \A x \in Events : x # e => sent'[x] = sent[x]
           /\ \A x \in Events : sent[x] \in 0..2 /\ sent'[x] \in 0..2 /\ sent[x] <= sent'[x]
<1>1. sent[e] \in 0..2 /\ sent' = [sent EXCEPT ![e] = IF sent[e] = 2 THEN 2 ELSE sent[e] + 1]
  BY DEF Dispatched
<1>2. (IF sent[e] = 2 THEN 2 ELSE sent[e] + 1) \in 0..2
  BY <1>1
<1>3. sent' \in [Events -> 0..2] /\ sent'[e] = IF sent[e] = 2 THEN 2 ELSE sent[e] + 1
  BY <1>1, <1>2
<1>4. \A x \in Events : x # e => sent'[x] = sent[x]
  BY <1>1
<1>5. sent'[e] > 0 /\ sent[e] <= sent'[e]
  BY <1>1, <1>3
<1>6. ASSUME NEW x \in Events PROVE sent[x] \in 0..2 /\ sent'[x] \in 0..2 /\ sent[x] <= sent'[x]
  <2>1. CASE x = e
    BY <1>1, <1>2, <1>3, <1>5, <2>1
  <2>2. CASE x # e
    <3>1. sent[x] \in 0..2 /\ sent'[x] = sent[x]
      BY <1>4, <2>2
    <3>2. QED
      BY <3>1
  <2>3. QED
    BY <2>1, <2>2
<1>7. QED
  BY <1>3, <1>4, <1>5, <1>6

\* The entries of the recheck after the sessions in S have left the queue.
LEMMA DetachedIs ==
    ASSUME RecheckInv, QueueInv, NEW S, recheck' = Detached(S)
    PROVE  /\ recheck' \in [snap : Seq(Seen), at : Nat, still : Seq(Item)]
           /\ recheck'.at = recheck.at /\ recheck'.still = recheck.still
           /\ recheck.snap = <<>> <=> recheck'.snap = <<>>
           /\ recheck.snap = <<>> => recheck' = recheck
           /\ Len(recheck'.snap) = Len(recheck.snap)
           /\ \A entry \in Range(recheck'.snap) : \E old \in Range(recheck.snap) :
                 /\ entry.session = old.session
                 /\ entry.events = old.events \/ entry.events = Held(queue, old.session)
           /\ recheck.snap # <<>> =>
                 LET h == Head(recheck.snap) g == Head(recheck'.snap) IN
                 /\ g.session = h.session /\ g.dead = (h.dead \/ h.session \in S)
                 /\ g.events = IF h.session \in S /\ ~h.dead THEN Held(queue, h.session) ELSE h.events
<1> DEFINE snap == recheck.snap
           detach(entry) == IF entry.session \in S /\ ~entry.dead
                            THEN [entry EXCEPT !.dead = TRUE, !.events = Held(queue, entry.session)]
                            ELSE entry
           new == [i \in DOMAIN snap |-> detach(snap[i])]
<1>1. /\ recheck \in [snap : Seq(Seen), at : Nat, still : Seq(Item)]
      /\ snap \in Seq(Seen) /\ Len(snap) \in Nat /\ DOMAIN snap = 1..Len(snap)
      /\ \A i \in DOMAIN snap : snap[i] \in Seen
  <2>1. recheck \in [snap : Seq(Seen), at : Nat, still : Seq(Item)]
    BY DEF RecheckInv
  <2>2. snap \in Seq(Seen)
    BY <2>1
  <2> HIDE DEF snap
  <2>3. QED
    BY <2>1, <2>2
<1>2. recheck' = [recheck EXCEPT !.snap = new]
  BY EventsOfIs DEF Detached
<1>3. ASSUME NEW i \in DOMAIN snap
      PROVE  /\ new[i] \in Seen /\ new[i].session = snap[i].session
             /\ new[i].dead = (snap[i].dead \/ snap[i].session \in S)
             /\ new[i].events = IF snap[i].session \in S /\ ~snap[i].dead
                                THEN Held(queue, snap[i].session) ELSE snap[i].events
  <2>1. snap[i] \in Seen /\ new[i] = detach(snap[i]) /\ Held(queue, snap[i].session) \in Seq(Item)
    <3>1. Held(queue, snap[i].session) \in Seq(Item)
      BY QueueIs
    <3>2. QED
      BY <1>1, <3>1
  <2> HIDE DEF new, snap
  <2>2. snap[i].dead \in BOOLEAN
    BY <2>1 DEF Seen
  <2>3. CASE snap[i].session \in S /\ ~snap[i].dead
    <3>1. new[i] = [snap[i] EXCEPT !.dead = TRUE, !.events = Held(queue, snap[i].session)]
      BY <2>1, <2>3
    <3>2. QED
      BY <2>1, <2>3, <3>1 DEF Seen
  <2>4. CASE ~(snap[i].session \in S /\ ~snap[i].dead)
    <3>1. new[i] = snap[i]
      BY <2>1, <2>4
    <3>2. QED
      BY <2>1, <2>2, <2>4, <3>1
  <2>5. QED
    BY <2>3, <2>4
<1>4. /\ new \in Seq(Seen) /\ Len(new) = Len(snap) /\ DOMAIN new = DOMAIN snap
  <2>1. DOMAIN new = 1..Len(snap) /\ new = [i \in 1..Len(snap) |-> new[i]]
    BY <1>1
  <2>2. \A i \in 1..Len(snap) : new[i] \in Seen
    BY <1>1, <1>3
  <2> HIDE DEF new, snap
  <2>3. QED
    BY <1>1, <2>1, <2>2
<1>5. snap = <<>> => new = <<>>
  OBVIOUS
<1> HIDE DEF new
<1>6. /\ recheck'.snap = new /\ recheck'.at = recheck.at /\ recheck'.still = recheck.still
      /\ recheck' \in [snap : Seq(Seen), at : Nat, still : Seq(Item)]
  BY <1>1, <1>2, <1>4
<1>7. new = <<>> <=> snap = <<>>
  <2> HIDE DEF snap
  <2>1. QED
    BY <1>1, <1>4, <1>5
<1>8. snap = <<>> => recheck' = recheck
  BY <1>1, <1>2, <1>5
<1>9. \A entry \in Range(new) : \E old \in Range(snap) :
                 /\ entry.session = old.session
                 /\ entry.events = old.events \/ entry.events = Held(queue, old.session)
  BY <1>3, <1>4 DEF Range
<1>10. snap # <<>> => /\ 1 \in DOMAIN snap /\ Head(snap) = snap[1] /\ Head(new) = new[1]
  <2> HIDE DEF snap
  <2>1. QED
    BY <1>1, <1>4
<1>11. QED
  BY <1>3, <1>4, <1>6, <1>7, <1>8, <1>9, <1>10

\* The fields of a job.
LEMMA JobIs ==
    ASSUME JobsInv, NEW t \in Workers
    PROVE  LET w == work[t] IN
           /\ w \in Job /\ JobOK(t) /\ work \in [Workers -> Job]
           /\ w.todo \in Seq(Item) /\ w.failed \in Seq(Item) /\ w.items \in Seq(Events)
           /\ w.rows \in Seq(Sessions) /\ w.queued \in Seq(Sessions)
           /\ \A e \in Evs(w.todo) \cup Evs(w.failed) : Session(e) = w.session /\ e \in arrived
           /\ InHand(t) \subseteq arrived /\ w.handled \subseteq arrived
<1> DEFINE w == work[t]
<1>1. w \in Job /\ JobOK(t) /\ work \in [Workers -> Job]
  BY DEF JobsInv
<1>2. /\ w.todo \in Seq(Item) /\ w.failed \in Seq(Item) /\ w.items \in Seq(Events)
      /\ w.rows \in Seq(Sessions) /\ w.queued \in Seq(Sessions)
  BY <1>1 DEF Job
<1>3. /\ w.todo \in Seq(Good(w.session, arrived, keys)) /\ w.failed \in Seq(Good(w.session, arrived, keys))
      /\ Range(w.items) \subseteq arrived /\ (w.at \in Asking => w.event \in arrived)
      /\ w.handled \subseteq arrived
  BY <1>1 DEF JobOK
<1> HIDE DEF w
<1>4. \A e \in Evs(w.todo) \cup Evs(w.failed) : Session(e) = w.session /\ e \in arrived
  BY <1>3, GoodIs
<1>5. InHand(t) \subseteq arrived
  BY <1>3, <1>4 DEF InHand, Asking, w
<1>6. QED
  BY <1>1, <1>2, <1>3, <1>4, <1>5 DEF w

\* Arrive: the key is there, or the sync loop has the event in hand.
LEMMA ArriveIs ==
    ASSUME Base, NEW e \in Events, Arrive(e)
    PROVE  \/ Session(e) \in keys /\ Dispatched(e) /\ work' = work
           \/ /\ Session(e) \notin keys /\ sent' = sent
              /\ Becomes("sync", "failed", e, <<>>, <<>>, <<>>, <<>>, <<>>, <<>>, {}, "idle")
<1> DEFINE r == [Idle EXCEPT !.at = "failed", !.event = e]
<1>1. /\ r \in Job /\ r.at = "failed" /\ r.event = e /\ r.queued = <<>> /\ r.session = <<>>
      /\ r.todo = <<>> /\ r.failed = <<>> /\ r.rows = <<>> /\ r.items = <<>> /\ r.handled = {}
      /\ r.next = "idle"
  BY IdleIs DEF Job, Places, Asking
<1>2. work \in [Workers -> Job]
  BY DEF Base, JobsInv
<1>3. CASE Session(e) \in keys
  BY <1>3 DEF Arrive
<1>4. CASE Session(e) \notin keys
  <2>1. Set("sync", r) /\ sent' = sent
    BY <1>4 DEF Arrive
  <2> HIDE DEF r
  <2>2. Becomes("sync", r.at, r.event, r.queued, r.session, r.todo, r.failed, r.rows, r.items, r.handled, r.next)
    BY <1>1, <1>2, <2>1, TwoWorkers, SetIs
  <2>3. QED
    BY <1>1, <1>4, <2>1, <2>2
<1>5. QED
  BY <1>3, <1>4

\* Only the place of the job changes.
LEMMA PlaceSet ==
    ASSUME work \in [Workers -> Job], NEW t \in Workers, NEW at \in Places("sync") \cup Places("retry"),
           work' = [work EXCEPT ![t].at = at]
    PROVE  LET w == work[t] IN
           Becomes(t, at, w.event, w.queued, w.session, w.todo, w.failed, w.rows, w.items, w.handled, w.next)
<1> DEFINE r == [work[t] EXCEPT !.at = at]
<1>1. Set(t, r)
  BY DEF Set
<1>2. work[t] \in Job
  OBVIOUS
<1>3. /\ r \in Job /\ r.at = at /\ r.event = work[t].event /\ r.queued = work[t].queued
      /\ r.session = work[t].session /\ r.todo = work[t].todo /\ r.failed = work[t].failed
      /\ r.rows = work[t].rows /\ r.items = work[t].items /\ r.handled = work[t].handled
      /\ r.next = work[t].next
  BY <1>2 DEF Job
<1> HIDE DEF r
<1>4. Becomes(t, r.at, r.event, r.queued, r.session, r.todo, r.failed, r.rows, r.items, r.handled, r.next)
  BY <1>1, <1>3, SetIs
<1>5. QED
  BY <1>3, <1>4

\* The job becomes idle.
LEMMA IdleSet ==
    ASSUME work \in [Workers -> Job], NEW t \in Workers, Set(t, Idle)
    PROVE  Becomes(t, "idle", <<>>, <<>>, <<>>, <<>>, <<>>, <<>>, <<>>, {}, "idle")
<1>1. Becomes(t, Idle.at, Idle.event, Idle.queued, Idle.session, Idle.todo, Idle.failed, Idle.rows,
              Idle.items, Idle.handled, Idle.next)
  BY IdleIs, SetIs
<1>2. QED
  BY <1>1, IdleIs

\* AskBackup: the answer is on its way, or the request was refused.
LEMMA AskIs ==
    ASSUME Base, AskBackup
    PROVE  LET w == work["sync"] IN
           /\ w.at = "failed" /\ w.event \in arrived
           /\ \E at \in {"given", "refused"} :
                 /\ at = "given" => Session(w.event) \in backup
                 /\ Becomes("sync", at, w.event, w.queued, w.session, w.todo, w.failed, w.rows,
                            w.items, w.handled, w.next)
           /\ faults' = faults \/ Fault
<1>1. work \in [Workers -> Job] /\ "sync" \in Workers /\ JobOK("sync")
  BY TwoWorkers DEF Base, JobsInv
<1>2. \E at \in {"given", "refused"} : /\ at = "given" => Session(work["sync"].event) \in backup
                                       /\ work' = [work EXCEPT !["sync"].at = at]
  BY DEF AskBackup
<1>3. PICK at \in {"given", "refused"} : /\ at = "given" => Session(work["sync"].event) \in backup
                                         /\ work' = [work EXCEPT !["sync"].at = at]
  BY <1>2
<1>4. at \in Places("sync") \cup Places("retry")
  BY DEF Places, Asking
<1>5. LET w == work["sync"] IN
      Becomes("sync", at, w.event, w.queued, w.session, w.todo, w.failed, w.rows, w.items, w.handled, w.next)
  BY <1>1, <1>3, <1>4, PlaceSet
<1>6. work["sync"].at = "failed" /\ (faults' = faults \/ Fault)
  BY DEF AskBackup, Fault
<1>7. work["sync"].event \in arrived
  BY <1>1, <1>6 DEF JobOK, Asking
<1>8. QED
  BY <1>3, <1>5, <1>6, <1>7

\* KeyGiven: the event is handed on, or its dispatch raises.
LEMMA GivenIs ==
    ASSUME Base, KeyGiven
    PROVE  LET w == work["sync"] e == w.event IN
           /\ w.at = "given" /\ e \in arrived /\ e \in Events /\ Session(e) \in backup
           /\ Session(e) \in Sessions /\ keys' = keys \cup {Session(e)}
           /\ \/ /\ Dispatched(e) /\ faults' = faults /\ excused' = excused
                 /\ Becomes("sync", "idle", <<>>, <<>>, <<>>, <<>>, <<>>, <<>>, <<>>, {}, "idle")
              \/ /\ Fault /\ excused' = excused \cup {e} /\ sent' = sent
                 /\ Becomes("sync", "refused", w.event, w.queued, w.session, w.todo, w.failed, w.rows,
                            w.items, w.handled, w.next)
<1>1. work \in [Workers -> Job] /\ "sync" \in Workers /\ JobOK("sync") /\ arrived \subseteq Events
  BY TwoWorkers DEF Base, JobsInv, PastInv
<1>2. work["sync"].at = "given" /\ keys' = keys \cup {Session(work["sync"].event)}
  BY DEF KeyGiven
<1>3. work["sync"].event \in arrived /\ Session(work["sync"].event) \in backup
  BY <1>1, <1>2 DEF JobOK, Asking
<1>4. work["sync"].event \in Events /\ Session(work["sync"].event) \in Sessions
  BY <1>1, <1>3, Given
<1>5. CASE Dispatched(work["sync"].event) /\ Set("sync", Idle) /\ UNCHANGED <<faults, excused>>
  <2>1. Becomes("sync", "idle", <<>>, <<>>, <<>>, <<>>, <<>>, <<>>, <<>>, {}, "idle")
    BY <1>1, <1>5, IdleSet
  <2>2. QED
    BY <1>2, <1>3, <1>4, <1>5, <2>1
<1>6. CASE /\ Fault /\ work' = [work EXCEPT !["sync"].at = "refused"]
           /\ excused' = excused \cup {work["sync"].event} /\ UNCHANGED sent
  <2>1. "refused" \in Places("sync") \cup Places("retry")
    BY DEF Places, Asking
  <2>2. LET w == work["sync"] IN
        Becomes("sync", "refused", w.event, w.queued, w.session, w.todo, w.failed, w.rows, w.items, w.handled, w.next)
    BY <1>1, <1>6, <2>1, PlaceSet
  <2>3. QED
    BY <1>2, <1>3, <1>4, <1>6, <2>2
<1>7. QED
  BY <1>5, <1>6 DEF KeyGiven

\* The event e, as an item that is not decrypted.
New(e) == <<[ev |-> e, plain |-> FALSE]>>

\* The events of the sessions in out, which are evicted.
Evicted(out) == UNION {Evs(Held(queue, x)) : x \in out}

\* e goes to the queue: the sessions in out leave it, and the first event of its session is
\* cut off if cut.
Enqueued(e, out, cut) ==
    LET s == Session(e)
        h == Held(queue, s) \o New(e)
    IN  /\ out \in SUBSET Sessions /\ s \notin out
        /\ QueueOK(queue')
        /\ \A x : Held(queue', x) = IF x = s THEN (IF cut THEN Tail(h) ELSE h)
                                    ELSE IF x \in out THEN <<>> ELSE Held(queue, x)
        /\ ids' = (ids \cup {e}) \ (Evicted(out)
                                    \cup (IF cut THEN {Head(h).ev} ELSE {}))
        /\ recheck' = Detached(out)

\* Enqueue: a session makes room, the event follows those of its session, its row is saved.
LEMMA EnqueueIs ==
    ASSUME Base, Enqueue
    PROVE  LET e == work["sync"].event IN
           /\ work["sync"].at \in Asking /\ e \in arrived /\ e \in Events /\ Session(e) \in Sessions
           /\ Becomes("sync", "idle", <<>>, <<>>, <<>>, <<>>, <<>>, <<>>, <<>>, {}, "idle")
           /\ table' = Saved(table, e)
           /\ \E out \in SUBSET Sessions, cut \in BOOLEAN : Enqueued(e, out, cut)
<1>1. /\ work \in [Workers -> Job] /\ "sync" \in Workers /\ JobOK("sync") /\ arrived \subseteq Events
      /\ QueueOK(queue)
  BY TwoWorkers DEF Base, JobsInv, PastInv, QueueInv
<1>2. work["sync"].at \in Asking /\ table' = Saved(table, work["sync"].event) /\ Set("sync", Idle)
  BY DEF Enqueue, Asking
<1>3. work["sync"].event \in arrived
  BY <1>1, <1>2 DEF JobOK
<1>4. PICK e : e = work["sync"].event
  OBVIOUS
<1>5. PICK s : s = Session(e)
  OBVIOUS
<1>6. e \in arrived /\ e \in Events /\ s \in Sessions
  BY <1>1, <1>3, <1>4, <1>5, Given
<1>7. Becomes("sync", "idle", <<>>, <<>>, <<>>, <<>>, <<>>, <<>>, <<>>, {}, "idle")
  BY <1>1, <1>2, IdleSet
<1>8. PICK out : out = IF Place(s) = {} /\ Len(queue) >= MaxSessions THEN {Head(queue).session} ELSE {}
  OBVIOUS
<1>9. out \in SUBSET Sessions /\ s \notin out
  <2>1. CASE Place(s) = {} /\ Len(queue) >= MaxSessions
    <3>1. queue \in Seq(Entry)
      BY <1>1 DEF QueueOK
    <3>2. Len(queue) \in Nat /\ DOMAIN queue = 1..Len(queue)
      BY <3>1
    <3>3. 1 \in DOMAIN queue
      BY <2>1, <3>2, Given
    <3>4. Head(queue) = queue[1] /\ queue[1] \in Entry
      BY <3>1, <3>2, <3>3
    <3>5. queue[1].session \in Sessions /\ queue[1].session # s
      BY <2>1, <3>3, <3>4 DEF Place, Entry
    <3>6. QED
      BY <1>8, <2>1, <3>4, <3>5
  <2>2. CASE ~(Place(s) = {} /\ Len(queue) >= MaxSessions)
    BY <1>8, <2>2
  <2>3. QED
    BY <2>1, <2>2
<1>10. PICK room : room = Rest(queue, out)
  OBVIOUS
<1>11. QueueOK(room) /\ \A x : Held(room, x) = IF x \in out THEN <<>> ELSE Held(queue, x)
  BY <1>1, <1>10, RestIs
<1>12. PICK full : full = With(room, s, New(e))
  OBVIOUS
<1>13. New(e) \in Seq(Item)
  BY <1>6 DEF New, Item
<1>14. QueueOK(full) /\ \A x : Held(full, x) = IF x = s THEN Held(room, s) \o New(e) ELSE Held(room, x)
  BY <1>6, <1>11, <1>12, <1>13, WithIs
<1>15. \A x : Held(full, x) = IF x = s THEN Held(queue, s) \o New(e)
                              ELSE IF x \in out THEN <<>> ELSE Held(queue, x)
  BY <1>9, <1>11, <1>14
<1>16. /\ queue' = Capped(full, s)
       /\ ids' = (ids \cup {e}) \ ((UNION {Evs(Held(queue, x)) : x \in out}) \cup CutOff(full, s))
       /\ recheck' = Detached(out)
  <2> DEFINE ev == work["sync"].event
             evicted == IF Place(Session(ev)) = {} /\ Len(queue) >= MaxSessions
                        THEN {Head(queue).session} ELSE {}
             whole == With(Without(evicted), Session(ev), <<[ev |-> ev, plain |-> FALSE]>>)
  <2>1. /\ queue' = Capped(whole, Session(ev))
        /\ ids' = (ids \cup {ev}) \ ((UNION {Evs(EventsOf(x)) : x \in evicted}) \cup CutOff(whole, Session(ev)))
        /\ recheck' = Detached(evicted)
    BY DEF Enqueue, Capped, CutOff
  <2>2. ev = e /\ Session(ev) = s /\ evicted = out
    BY <1>4, <1>5, <1>8
  <2>3. whole = full
    BY <1>10, <1>12, <2>2, WithoutIs DEF New
  <2> HIDE DEF ev, evicted, whole
  <2>4. UNION {Evs(EventsOf(x)) : x \in out} = UNION {Evs(Held(queue, x)) : x \in out}
    BY EventsOfIs
  <2>5. QED
    BY <2>1, <2>2, <2>3, <2>4
<1>17. QueueOK(queue')
  BY <1>14, <1>16, CappedIs
<1>18. CASE Len(Held(full, s)) > MaxPerSession
  <2>1. /\ \A x : Held(queue', x) = IF x = s THEN Tail(Held(full, s)) ELSE Held(full, x)
        /\ CutOff(full, s) = {Head(Held(full, s)).ev}
    BY <1>14, <1>16, <1>18, CappedIs
  <2>2. Held(full, s) = Held(queue, s) \o New(e)
    BY <1>15
  <2>3. \A x : Held(queue', x) = IF x = s THEN Tail(Held(queue, s) \o New(e))
                                 ELSE IF x \in out THEN <<>> ELSE Held(queue, x)
    BY <1>15, <2>1, <2>2
  <2>4. Enqueued(e, out, TRUE)
    <3>1. ids' = (ids \cup {e}) \ ((UNION {Evs(Held(queue, x)) : x \in out}) \cup {Head(Held(queue, s) \o New(e)).ev})
      BY <1>16, <2>1, <2>2
    <3>2. ids' = (ids \cup {e}) \ (Evicted(out)
                       \cup (IF TRUE THEN {Head(Held(queue, s) \o New(e)).ev} ELSE {}))
      <4>1. ids' = (ids \cup {e}) \ (Evicted(out) \cup {Head(Held(queue, s) \o New(e)).ev})
        BY <3>1, Zenon DEF Evicted
      <4>2. QED
        BY <4>1
    <3>3. recheck' = Detached(out)
      BY <1>16
    <3>4. QED
      BY <1>5, <1>9, <1>17, <2>3, <3>2, <3>3 DEF Enqueued
  <2>5. QED
    BY <1>2, <1>4, <1>5, <1>6, <1>7, <1>9, <2>4
<1>19. CASE ~(Len(Held(full, s)) > MaxPerSession)
  <2>1. (\A x : Held(queue', x) = Held(full, x)) /\ CutOff(full, s) = {}
    BY <1>14, <1>16, <1>19, CappedIs
  <2>2. \A x : Held(queue', x) = IF x = s THEN Held(queue, s) \o New(e)
                                 ELSE IF x \in out THEN <<>> ELSE Held(queue, x)
    BY <1>15, <2>1
  <2>3. Enqueued(e, out, FALSE)
    BY <1>5, <1>9, <1>16, <1>17, <2>1, <2>2 DEF Enqueued, Evicted
  <2>4. QED
    BY <1>2, <1>4, <1>5, <1>6, <1>7, <1>9, <2>3
<1>20. QED
  BY <1>18, <1>19

\* The session s is taken out of the queue.
Taken(s) ==
    /\ QueueOK(queue') /\ \A x : Held(queue', x) = IF x = s THEN <<>> ELSE Held(queue, x)
    /\ ids' = ids \ Evs(Held(queue, s)) /\ recheck' = Detached({s})

\* What a session that is taken out leaves in the queue and in the recheck.
LEMMA TakenIs ==
    ASSUME QueueOK(queue), NEW s, queue' = Without({s}), ids' = ids \ Evs(EventsOf(s)),
           recheck' = Detached({s})
    PROVE  Taken(s)
<1>1. queue' = Rest(queue, {s}) /\ EventsOf(s) = Held(queue, s)
  BY WithoutIs, EventsOfIs
<1>2. QueueOK(queue') /\ \A x : Held(queue', x) = IF x \in {s} THEN <<>> ELSE Held(queue, x)
  <2> DEFINE S == {s}
  <2>1. queue' = Rest(queue, S)
    BY <1>1
  <2> HIDE DEF S
  <2>2. QueueOK(Rest(queue, S)) /\ \A x : Held(Rest(queue, S), x) = IF x \in S THEN <<>> ELSE Held(queue, x)
    BY RestIs
  <2>3. QED
    BY <2>1, <2>2 DEF S
<1>3. QED
  BY <1>1, <1>2 DEF Taken

\* KeyArrives: the sync loop has the entry of the session.
LEMMA KeyArrivesIs ==
    ASSUME Base, NEW s \in Sessions, KeyArrives(s)
    PROVE  /\ Syncs /\ work["sync"].at = "idle" /\ keys' = keys \cup {s}
           /\ Becomes("sync", "try", <<>>, <<>>, s, Held(queue, s), <<>>, <<s>>, <<>>, {}, "idle")
           /\ Taken(s) /\ TakeUp("sync", Evs(Held(queue, s)))
<1> DEFINE h == Held(queue, s)
           r == [Idle EXCEPT !.at = "try", !.session = s, !.todo = h, !.rows = <<s>>]
<1>1. QueueOK(queue) /\ work \in [Workers -> Job]
  BY DEF Base, QueueInv, JobsInv
<1>2. EventsOf(s) = h /\ h \in Seq(Item)
  BY <1>1, EventsOfIs, HeldIs
<1>3. /\ Set("sync", r) /\ Syncs /\ work["sync"].at = "idle" /\ keys' = keys \cup {s}
      /\ TakeUp("sync", h) \/ TakeUp("sync", Evs(h))
  BY <1>2 DEF KeyArrives
<1>4. TakeUp("sync", Evs(h)) /\ Taken(s)
  BY <1>1, <1>2, TakenIs DEF KeyArrives
<1> HIDE DEF h
<1>5. <<s>> \in Seq(Sessions)
  OBVIOUS
<1>6. /\ r \in Job /\ r.at = "try" /\ r.event = <<>> /\ r.queued = <<>> /\ r.session = s
      /\ r.todo = h /\ r.failed = <<>> /\ r.rows = <<s>> /\ r.items = <<>> /\ r.handled = {}
      /\ r.next = "idle"
  BY <1>2, <1>5, IdleIs DEF Job, Places, Asking
<1> HIDE DEF r
<1>7. Becomes("sync", r.at, r.event, r.queued, r.session, r.todo, r.failed, r.rows, r.items, r.handled, r.next)
  BY <1>1, <1>3, <1>6, TwoWorkers, SetIs
<1>8. QED
  BY <1>3, <1>4, <1>6, <1>7 DEF h

\* PopNext: the pass goes on to the rows, ends, or has the next session.
LEMMA PopNextIs ==
    ASSUME Base, PopNext
    PROVE  LET w == work["retry"] s == Head(w.queued) IN
           /\ w.at = "pop" /\ w \in Job
           /\ \/ /\ w.queued = <<>> /\ UNCHANGED <<queue, ids, recheck, excused, stranded>>
                 /\ Becomes("retry", "rows", w.event, w.queued, w.session, w.todo, w.failed,
                            FailedSessions, w.items, w.handled, w.next)
              \/ /\ w.queued # <<>> /\ Held(queue, s) = <<>>
                 /\ Becomes("retry", "idle", <<>>, <<>>, <<>>, <<>>, <<>>, <<>>, <<>>, {}, "idle")
                 /\ stranded' = stranded \cup Queued \cup Range(table)
                 /\ excused' = excused \cup w.handled
                 /\ UNCHANGED <<queue, ids, recheck>>
              \/ /\ w.queued # <<>> /\ Held(queue, s) # <<>> /\ s \in Sessions
                 /\ Becomes("retry", "try", w.event, Tail(w.queued), s, Held(queue, s), w.failed,
                            w.rows, w.items, w.handled, w.next)
                 /\ Taken(s) /\ TakeUp("retry", Evs(Held(queue, s))) /\ UNCHANGED stranded
<1> DEFINE w == work["retry"]
           s == Head(w.queued)
<1>1. /\ QueueOK(queue) /\ work \in [Workers -> Job] /\ "retry" \in Workers /\ TableOK(table)
      /\ w \in Job /\ w.queued \in Seq(Sessions)
  BY TwoWorkers, JobIs DEF Base, QueueInv, JobsInv, TableInv
<1>2. w.at = "pop"
  BY DEF PopNext
<1>3. CASE w.queued = <<>>
  <2> DEFINE r == [w EXCEPT !.at = "rows", !.rows = FailedSessions]
  <2>1. Set("retry", r) /\ UNCHANGED <<queue, ids, recheck, excused, stranded>>
    BY <1>3 DEF PopNext
  <2>2. FailedSessions \in Seq(Sessions)
    BY <1>1, FailedSessionsIs
  <2> HIDE DEF w
  <2>3. /\ r \in Job /\ r.at = "rows" /\ r.event = w.event /\ r.queued = w.queued
        /\ r.session = w.session /\ r.todo = w.todo /\ r.failed = w.failed /\ r.rows = FailedSessions
        /\ r.items = w.items /\ r.handled = w.handled /\ r.next = w.next
    BY <1>1, <2>2 DEF Job, Places
  <2> HIDE DEF r
  <2>4. Becomes("retry", r.at, r.event, r.queued, r.session, r.todo, r.failed, r.rows, r.items, r.handled, r.next)
    BY <1>1, <2>1, <2>3, SetIs
  <2>5. QED
    BY <1>1, <1>2, <1>3, <2>1, <2>3, <2>4 DEF w
<1>4. CASE w.queued # <<>> /\ Place(s) = {}
  <2>1. Becomes("retry", "idle", <<>>, <<>>, <<>>, <<>>, <<>>, <<>>, <<>>, {}, "idle")
    BY <1>1, <1>4, IdleSet DEF PopNext
  <2>2. Held(queue, s) = <<>>
    BY <1>1, <1>4, PlaceIs
  <2>3. QED
    BY <1>1, <1>2, <1>4, <2>1, <2>2 DEF PopNext
<1>5. CASE w.queued # <<>> /\ Place(s) # {}
  <2> DEFINE h == Held(queue, s)
             r == [w EXCEPT !.at = "try", !.session = s, !.queued = Tail(@), !.todo = h]
  <2>1. EventsOf(s) = h /\ h \in Seq(Item) /\ h # <<>>
    BY <1>1, <1>5, EventsOfIs, HeldIs, PlaceIs
  <2>2. Set("retry", r) /\ TakeUp("retry", Evs(h)) /\ UNCHANGED stranded
    BY <1>5, <2>1 DEF PopNext
  <2>3. Taken(s)
    BY <1>1, <1>5, TakenIs DEF PopNext
  <2>4. s \in Sessions /\ Tail(w.queued) \in Seq(Sessions)
    BY <1>1, <1>5, TailIs
  <2> HIDE DEF h, s, w
  <2>5. /\ r \in Job /\ r.at = "try" /\ r.event = w.event /\ r.queued = Tail(w.queued)
        /\ r.session = s /\ r.todo = h /\ r.failed = w.failed /\ r.rows = w.rows
        /\ r.items = w.items /\ r.handled = w.handled /\ r.next = w.next
    BY <1>1, <2>1, <2>4 DEF Job, Places
  <2> HIDE DEF r
  <2>6. Becomes("retry", r.at, r.event, r.queued, r.session, r.todo, r.failed, r.rows, r.items, r.handled, r.next)
    BY <1>1, <2>2, <2>5, SetIs
  <2>7. QED
    BY <1>1, <1>2, <1>5, <2>1, <2>2, <2>3, <2>4, <2>5, <2>6 DEF h, s, w
<1>6. QED
  BY <1>3, <1>4, <1>5

\* Try: the event is handed on, or goes to what failed.
LEMMA TryIs ==
    ASSUME Base, NEW t \in Workers, Try(t)
    PROVE  LET w == work[t] item == Head(w.todo) IN
           /\ w.at = "try" /\ w.todo # <<>> /\ w \in Job /\ JobOK(t) /\ item \in Item
           /\ item.ev \in Events /\ item.ev \in arrived /\ Session(item.ev) = w.session
           /\ item.ev \in Evs(w.todo) /\ (item.plain => w.session \in keys)
           /\ \/ /\ Session(item.ev) \in keys /\ Dispatched(item.ev) /\ UNCHANGED <<faults, excused>>
                 /\ Becomes(t, "try", w.event, w.queued, w.session, Tail(w.todo), w.failed, w.rows,
                            w.items, w.handled \cup {item.ev}, w.next)
              \/ /\ \/ (item.plain \/ Session(item.ev) \in keys) /\ Fault /\ excused' = excused \cup {item.ev}
                    \/ ~item.plain /\ Session(item.ev) \notin keys /\ UNCHANGED <<faults, excused>>
                 /\ sent' = sent
                 /\ Becomes(t, "try", w.event, w.queued, w.session, Tail(w.todo),
                            Append(w.failed, item), w.rows, w.items, w.handled, w.next)
<1> DEFINE w == work[t]
           item == Head(w.todo)
<1>1. w.at = "try" /\ w.todo # <<>>
  BY DEF Try
<1>2. /\ w \in Job /\ JobOK(t) /\ work \in [Workers -> Job] /\ w.todo \in Seq(Item) /\ w.failed \in Seq(Item)
      /\ \A e \in Evs(w.todo) : Session(e) = w.session /\ e \in arrived
      /\ w.todo \in Seq(Good(w.session, arrived, keys))
  BY JobIs DEF Base, JobOK
<1>3. item \in Item /\ Tail(w.todo) \in Seq(Item) /\ item.ev \in Evs(w.todo) /\ item \in Range(w.todo)
  BY <1>1, <1>2, EvsTail, TailIs
<1>4. item.ev \in arrived /\ item.ev \in Events /\ Session(item.ev) = w.session
  BY <1>2, <1>3 DEF Item
<1>5. item.plain => w.session \in keys
  <2>1. item \in Good(w.session, arrived, keys)
    BY <1>2, <1>3, GoodIs
  <2>2. QED
    BY <2>1 DEF Good
<1>6. CASE /\ item.plain \/ Session(item.ev) \in keys
           /\ Dispatched(item.ev)
           /\ Set(t, [w EXCEPT !.todo = Tail(@), !.handled = @ \cup {item.ev}])
           /\ UNCHANGED <<faults, excused>>
  <2> DEFINE r == [w EXCEPT !.todo = Tail(@), !.handled = @ \cup {item.ev}]
  <2> HIDE DEF w, item
  <2>1. /\ r \in Job /\ r.at = w.at /\ r.event = w.event /\ r.queued = w.queued
        /\ r.session = w.session /\ r.todo = Tail(w.todo) /\ r.failed = w.failed /\ r.rows = w.rows
        /\ r.items = w.items /\ r.handled = w.handled \cup {item.ev} /\ r.next = w.next
    BY <1>2, <1>3, <1>4 DEF Job
  <2>2. Set(t, r)
    BY <1>6
  <2> HIDE DEF r
  <2>3. Becomes(t, r.at, r.event, r.queued, r.session, r.todo, r.failed, r.rows, r.items, r.handled, r.next)
    BY <1>2, <2>1, <2>2, SetIs
  <2>4. QED
    BY <1>1, <1>2, <1>3, <1>4, <1>5, <1>6, <2>1, <2>3 DEF w, item
<1>7. CASE /\ IF item.plain \/ Session(item.ev) \in keys
              THEN Fault /\ excused' = excused \cup {item.ev}
              ELSE UNCHANGED <<faults, excused>>
           /\ Set(t, [w EXCEPT !.todo = Tail(@), !.failed = Append(@, item)])
           /\ UNCHANGED sent
  <2> DEFINE r == [w EXCEPT !.todo = Tail(@), !.failed = Append(@, item)]
  <2>0. Append(w.failed, item) \in Seq(Item)
    BY <1>2, <1>3, AppendIs
  <2> HIDE DEF w, item
  <2>1. /\ r \in Job /\ r.at = w.at /\ r.event = w.event /\ r.queued = w.queued
        /\ r.session = w.session /\ r.todo = Tail(w.todo) /\ r.failed = Append(w.failed, item)
        /\ r.rows = w.rows /\ r.items = w.items /\ r.handled = w.handled /\ r.next = w.next
    BY <1>2, <1>3, <2>0 DEF Job
  <2>2. Set(t, r)
    BY <1>7
  <2> HIDE DEF r
  <2>3. Becomes(t, r.at, r.event, r.queued, r.session, r.todo, r.failed, r.rows, r.items, r.handled, r.next)
    BY <1>2, <2>1, <2>2, SetIs
  <2>4. QED
    BY <1>1, <1>2, <1>3, <1>4, <1>5, <1>7, <2>1, <2>3 DEF w, item
<1>8. QED
  BY <1>6, <1>7 DEF Try

\* What a worker puts back into the queue.
Back(w) == Only(w.failed, {item \in Item : item.ev \notin ids})

\* Requeue: what failed is back, in the queue and of the sync loop in the table.
LEMMA RequeueIs ==
    ASSUME Base, NEW t \in Workers, Requeue(t)
    PROVE  LET w == work[t] IN
           /\ w.at = "try" /\ w.todo = <<>> /\ w \in Job /\ JobOK(t) /\ w.session \in Sessions
           /\ Back(w) \in Seq(Item) /\ Evs(Back(w)) = Evs(w.failed) \ ids
           /\ Range(Back(w)) \subseteq Range(w.failed)
           /\ \A e : Single(Of(e), w.failed) => Single(Of(e), Back(w))
           /\ QueueOK(queue') /\ ids' = ids \cup Evs(Back(w))
           /\ \A x : Held(queue', x) = IF x = w.session THEN Held(queue, x) \o Back(w) ELSE Held(queue, x)
           /\ TableOK(table') /\ Range(table') \subseteq Range(table) \cup Evs(w.failed)
           /\ t = "retry" => table' = table
           /\ Becomes(t, IF t = "sync" THEN "rows" ELSE "pop", w.event, w.queued, w.session, <<>>,
                      <<>>, w.rows, w.items, w.handled, w.next)
<1> DEFINE w == work[t]
           at == IF t = "sync" THEN "rows" ELSE "pop"
           r == [w EXCEPT !.failed = <<>>, !.at = at]
<1>1. w.at = "try" /\ w.todo = <<>>
  BY DEF Requeue
<1>2. /\ w \in Job /\ JobOK(t) /\ work \in [Workers -> Job] /\ w.failed \in Seq(Item)
      /\ QueueOK(queue) /\ TableOK(table)
  BY JobIs DEF Base, QueueInv, TableInv
<1>3. w.session \in Sessions
  BY <1>1, <1>2 DEF JobOK
<1>4. /\ Back(w) \in Seq(Item) /\ Evs(Back(w)) = Evs(w.failed) \ ids
      /\ Range(Back(w)) \subseteq Range(w.failed)
      /\ \A e : Single(Of(e), w.failed) => Single(Of(e), Back(w))
  <2> HIDE DEF w
  <2>1. QED
    BY <1>2, EvsFresh DEF Back
<1>5. /\ queue' = With(queue, w.session, Back(w)) /\ ids' = ids \cup Evs(Back(w)) /\ Set(t, r)
      /\ table' = IF t = "sync" THEN SavedAll(table, w.failed) ELSE table
  BY DEF Requeue, Back
<1>6. QueueOK(queue') /\ \A x : Held(queue', x) = IF x = w.session THEN Held(queue, w.session) \o Back(w)
                                                  ELSE Held(queue, x)
  <2>1. PICK q : q = queue
    OBVIOUS
  <2>2. PICK items : items = Back(w)
    OBVIOUS
  <2>3. PICK s : s = w.session
    OBVIOUS
  <2>4. QueueOK(q) /\ s \in Sessions /\ items \in Seq(Item) /\ queue' = With(q, s, items)
    BY <1>2, <1>3, <1>4, <1>5, <2>1, <2>2, <2>3
  <2>5. /\ QueueOK(With(q, s, items))
        /\ \A x : Held(With(q, s, items), x) = IF x = s THEN Held(q, s) \o items ELSE Held(q, x)
    BY <2>4, WithIs
  <2>6. QED
    BY <2>1, <2>2, <2>3, <2>4, <2>5
<1>7. /\ TableOK(table') /\ Range(table') \subseteq Range(table) \cup Evs(w.failed)
      /\ t = "retry" => table' = table
  <2>1. CASE t = "sync"
    <3> HIDE DEF w
    <3>1. QED
      BY <1>2, <1>5, <2>1, SavedAllIs
  <2>2. CASE t = "retry"
    BY <1>2, <1>5, <2>2
  <2>3. QED
    BY <2>1, <2>2, TwoWorkers
<1>8. /\ r \in Job /\ r.at = at /\ r.event = w.event /\ r.queued = w.queued /\ r.session = w.session
      /\ r.todo = w.todo /\ r.failed = <<>> /\ r.rows = w.rows /\ r.items = w.items
      /\ r.handled = w.handled /\ r.next = w.next
  <2>1. at \in Places("sync") \cup Places("retry") /\ <<>> \in Seq(Item)
    BY DEF Places
  <2> HIDE DEF w, at
  <2>2. QED
    BY <1>2, <2>1 DEF Job
<1> HIDE DEF r
<1>9. Becomes(t, r.at, r.event, r.queued, r.session, r.todo, r.failed, r.rows, r.items, r.handled, r.next)
  BY <1>2, <1>5, <1>8, SetIs
<1>10. QED
  BY <1>1, <1>2, <1>3, <1>4, <1>5, <1>6, <1>7, <1>8, <1>9

\* The worker t is done with a pass that next follows.
Ends(t, next) ==
    /\ next = "ensure" => Becomes(t, "ensure", <<>>, <<>>, <<>>, <<>>, <<>>, FailedSessions, <<>>, {}, "idle")
    /\ next # "ensure" => Becomes(t, "idle", <<>>, <<>>, <<>>, <<>>, <<>>, <<>>, <<>>, {}, "idle")

\* What a pass leaves of its job.
LEMMA AfterSet ==
    ASSUME Base, NEW t \in Workers, NEW next, Set(t, After(next))
    PROVE  Ends(t, next)
<1>1. work \in [Workers -> Job] /\ TableOK(table)
  BY DEF Base, JobsInv, TableInv
<1>2. CASE next = "ensure"
  <2> DEFINE r == [Idle EXCEPT !.at = "ensure", !.rows = FailedSessions]
  <2>1. Set(t, r)
    BY <1>2 DEF After
  <2>2. FailedSessions \in Seq(Sessions)
    BY <1>1, FailedSessionsIs
  <2>3. /\ r \in Job /\ r.at = "ensure" /\ r.event = <<>> /\ r.queued = <<>> /\ r.session = <<>>
        /\ r.todo = <<>> /\ r.failed = <<>> /\ r.rows = FailedSessions /\ r.items = <<>>
        /\ r.handled = {} /\ r.next = "idle"
    BY <2>2, IdleIs DEF Job, Places, Asking
  <2> HIDE DEF r
  <2>4. Becomes(t, r.at, r.event, r.queued, r.session, r.todo, r.failed, r.rows, r.items, r.handled, r.next)
    BY <1>1, <2>1, <2>3, SetIs
  <2>5. QED
    BY <1>2, <2>3, <2>4 DEF Ends
<1>3. CASE next # "ensure"
  <2>1. Set(t, Idle)
    BY <1>3 DEF After
  <2>2. QED
    BY <1>1, <1>3, <2>1, IdleSet DEF Ends
<1>4. QED
  BY <1>2, <1>3

\* The rows of a session, and the table without them.
LEMMA RowsAre ==
    ASSUME TableOK(table)
    PROVE  /\ \A s : /\ RowsOf(s) \in Seq(Events) /\ TableOK(RowsOf(s))
                     /\ Range(RowsOf(s)) = {e \in Range(table) : Session(e) = s}
                     /\ TableOK(PopFailed(s))
                     /\ Range(PopFailed(s)) = {e \in Range(table) : Session(e) # s}
           /\ \A e : TableOK(RemoveFailed(e)) /\ Range(RemoveFailed(e)) = Range(table) \ {e}
<1>1. Range(table) \subseteq Events
  <2>1. table \in Seq(Events)
    BY DEF TableOK
  <2>2. QED
    BY <2>1, RangeIs
<1>2. ASSUME NEW s
      PROVE  /\ RowsOf(s) \in Seq(Events) /\ TableOK(RowsOf(s))
             /\ Range(RowsOf(s)) = {e \in Range(table) : Session(e) = s}
             /\ TableOK(PopFailed(s))
             /\ Range(PopFailed(s)) = {e \in Range(table) : Session(e) # s}
  <2> DEFINE S == EventsIn(s)
             U == Events \ EventsIn(s)
  <2>1. /\ Range(table) \cap S = {e \in Range(table) : Session(e) = s}
        /\ Range(table) \cap U = {e \in Range(table) : Session(e) # s}
    BY <1>1 DEF EventsIn
  <2> HIDE DEF S, U
  <2>2. /\ TableOK(Only(table, S)) /\ Range(Only(table, S)) = Range(table) \cap S
        /\ TableOK(Only(table, U)) /\ Range(Only(table, U)) = Range(table) \cap U
    BY OnlyTable
  <2>3. Only(table, S) \in Seq(Events)
    BY <2>2 DEF TableOK
  <2>4. QED
    BY <2>1, <2>2, <2>3 DEF RowsOf, PopFailed, S, U
<1>3. ASSUME NEW e PROVE TableOK(RemoveFailed(e)) /\ Range(RemoveFailed(e)) = Range(table) \ {e}
  <2> DEFINE S == Events \ {e}
  <2>1. Range(table) \cap S = Range(table) \ {e}
    BY <1>1
  <2> HIDE DEF S
  <2>2. TableOK(Only(table, S)) /\ Range(Only(table, S)) = Range(table) \cap S
    BY OnlyTable
  <2>3. QED
    BY <2>1, <2>2 DEF RemoveFailed, S
<1>4. QED
  BY <1>2, <1>3

\* PopRows: the pass ends, passes over a session, or has its rows in hand.
LEMMA PopRowsIs ==
    ASSUME Base, NEW t \in Workers, PopRows(t)
    PROVE  LET w == work[t] s == Head(w.rows) IN
           /\ w.at = "rows" /\ w \in Job /\ JobOK(t)
           /\ \/ /\ w.rows = <<>> /\ Ends(t, w.next) /\ UNCHANGED <<table, excused>>
                 /\ phase' = IF w.next = "up" THEN "up" ELSE phase
              \/ /\ w.rows # <<>> /\ s \in Sessions /\ t = "retry"
                 /\ s \in keys => ~\E e \in Range(table) : Session(e) = s
                 /\ UNCHANGED <<phase, table, excused>>
                 /\ Becomes(t, "rows", w.event, w.queued, w.session, w.todo, w.failed,
                            Tail(w.rows), w.items, w.handled, w.next)
              \/ /\ w.rows # <<>> /\ s \in Sessions /\ UNCHANGED phase
                 /\ \E items \in Seq(Events) :
                       /\ Range(items) = {e \in Range(table) : Session(e) = s} \ w.handled
                       /\ \A e : Single({e}, items)
                       /\ Becomes(t, "items", w.event, w.queued, w.session, w.todo, w.failed,
                                  Tail(w.rows), items, w.handled, w.next)
                 /\ TableOK(table') /\ Range(table') = {e \in Range(table) : Session(e) # s}
                 /\ excused' = excused \cup ({e \in Range(table) : Session(e) = s}
                                             \cap (Claimed(t) \cup Queued))
<1> DEFINE w == work[t]
           s == Head(w.rows)
<1>1. w.at = "rows"
  BY DEF PopRows
<1>2. /\ w \in Job /\ JobOK(t) /\ work \in [Workers -> Job] /\ w.rows \in Seq(Sessions) /\ TableOK(table)
  BY JobIs DEF Base, TableInv
<1>3. w.rows # <<>> => s \in Sessions /\ Tail(w.rows) \in Seq(Sessions)
  BY <1>2, TailIs
<1>4. /\ RowsOf(s) \in Seq(Events) /\ TableOK(RowsOf(s))
      /\ Range(RowsOf(s)) = {e \in Range(table) : Session(e) = s}
      /\ TableOK(PopFailed(s)) /\ Range(PopFailed(s)) = {e \in Range(table) : Session(e) # s}
      /\ RowsOf(s) = <<>> <=> Range(RowsOf(s)) = {}
  <2> HIDE DEF s
  <2>1. /\ RowsOf(s) \in Seq(Events) /\ TableOK(RowsOf(s))
        /\ Range(RowsOf(s)) = {e \in Range(table) : Session(e) = s}
        /\ TableOK(PopFailed(s)) /\ Range(PopFailed(s)) = {e \in Range(table) : Session(e) # s}
    BY <1>2, RowsAre
  <2>2. RowsOf(s) = <<>> <=> Range(RowsOf(s)) = {}
    BY <2>1, RangeIs
  <2>3. QED
    BY <2>1, <2>2
<1>5. CASE w.rows = <<>>
  <2>1. Over(t) /\ UNCHANGED <<table, excused>>
    BY <1>5 DEF PopRows
  <2>2. Ends(t, w.next)
    BY <2>1, AfterSet DEF Over
  <2>3. QED
    BY <1>1, <1>2, <1>5, <2>1, <2>2 DEF Over
<1>6. CASE w.rows # <<>> /\ t = "retry" /\ (RowsOf(s) = <<>> \/ s \notin keys)
  <2> DEFINE r == [w EXCEPT !.rows = Tail(@)]
  <2>1. Set(t, r) /\ UNCHANGED <<phase, table, excused>>
    BY <1>6 DEF PopRows
  <2>2. s \in keys => ~\E e \in Range(table) : Session(e) = s
    BY <1>4, <1>6
  <2> HIDE DEF w, s
  <2>3. /\ r \in Job /\ r.at = w.at /\ r.event = w.event /\ r.queued = w.queued
        /\ r.session = w.session /\ r.todo = w.todo /\ r.failed = w.failed /\ r.rows = Tail(w.rows)
        /\ r.items = w.items /\ r.handled = w.handled /\ r.next = w.next
    BY <1>2, <1>3, <1>6 DEF Job
  <2> HIDE DEF r
  <2>4. Becomes(t, r.at, r.event, r.queued, r.session, r.todo, r.failed, r.rows, r.items, r.handled, r.next)
    BY <1>2, <2>1, <2>3, SetIs
  <2>5. QED
    BY <1>1, <1>2, <1>3, <1>6, <2>1, <2>2, <2>3, <2>4 DEF w, s
<1>7. CASE w.rows # <<>> /\ ~(t = "retry" /\ (RowsOf(s) = <<>> \/ s \notin keys))
  <2> DEFINE items == Only(RowsOf(s), Events \ w.handled)
             r == [w EXCEPT !.at = "items", !.rows = Tail(@), !.items = items]
  <2>1. /\ Set(t, r) /\ UNCHANGED phase /\ table' = PopFailed(s)
        /\ excused' = excused \cup (Range(RowsOf(s)) \cap (Claimed(t) \cup Queued))
    BY <1>7 DEF PopRows
  <2>2. /\ items \in Seq(Events) /\ Range(items) = Range(RowsOf(s)) \cap (Events \ w.handled)
        /\ \A e : Single({e}, items)
    <3> DEFINE A == Events \ w.handled
               rows == RowsOf(s)
    <3>1. rows \in Seq(Events) /\ TableOK(rows)
      BY <1>4
    <3> HIDE DEF A, rows
    <3>2. TableOK(Only(rows, A)) /\ Range(Only(rows, A)) = Range(rows) \cap A
      BY <3>1, OnlyTable
    <3>3. Only(rows, A) \in Seq(Events) /\ \A e : Single({e}, Only(rows, A))
      BY <3>2 DEF TableOK
    <3>4. QED
      BY <3>2, <3>3 DEF A, rows
  <2>3. Range(items) = {e \in Range(table) : Session(e) = s} \ w.handled
    <3>1. Range(RowsOf(s)) \subseteq Events
      BY <1>4, RangeIs
    <3>2. QED
      BY <1>4, <2>2, <3>1
  <2> HIDE DEF w, s, items
  <2>4. /\ r \in Job /\ r.at = "items" /\ r.event = w.event /\ r.queued = w.queued
        /\ r.session = w.session /\ r.todo = w.todo /\ r.failed = w.failed /\ r.rows = Tail(w.rows)
        /\ r.items = items /\ r.handled = w.handled /\ r.next = w.next
    BY <1>2, <1>3, <1>7, <2>2 DEF Job, Places
  <2> HIDE DEF r
  <2>5. Becomes(t, r.at, r.event, r.queued, r.session, r.todo, r.failed, r.rows, r.items, r.handled, r.next)
    BY <1>2, <2>1, <2>4, SetIs
  <2>6. Becomes(t, "items", w.event, w.queued, w.session, w.todo, w.failed, Tail(w.rows), items, w.handled, w.next)
    BY <2>4, <2>5
  <2>7. QED
    BY <1>1, <1>2, <1>3, <1>4, <1>7, <2>1, <2>2, <2>3, <2>6 DEF w, s
<1>8. QED
  BY <1>5, <1>6, <1>7

\* TryRow: the event is handed on, is lost, or is saved again.
LEMMA TryRowIs ==
    ASSUME Base, NEW t \in Workers, TryRow(t)
    PROVE  LET w == work[t] e == Head(w.items) IN
           /\ w.at = "items" /\ w.items # <<>> /\ w \in Job /\ JobOK(t)
           /\ e \in arrived /\ e \in Events /\ e \in Range(w.items)
           /\ Range(w.items) = {e} \cup Range(Tail(w.items))
           /\ Single({e}, w.items) => e \notin Range(Tail(w.items))
           /\ \A x : Single({x}, w.items) => Single({x}, Tail(w.items))
           /\ Becomes(t, "items", w.event, w.queued, w.session, w.todo, w.failed, w.rows,
                      Tail(w.items), w.handled, w.next)
           /\ \/ Session(e) \in keys /\ Dispatched(e) /\ UNCHANGED <<table, faults, lost, excused>>
              \/ Fault /\ lost' = lost \cup {e} /\ UNCHANGED <<table, sent, excused>>
              \/ /\ \/ Session(e) \in keys /\ Fault /\ excused' = excused \cup {e}
                    \/ Session(e) \notin keys /\ UNCHANGED <<faults, excused>>
                 /\ table' = Saved(table, e)
                 /\ lost' = lost \cup (Range(table) \ Range(table'))
                 /\ UNCHANGED sent
<1> DEFINE w == work[t]
           r == [w EXCEPT !.items = Tail(@)]
<1>1. w.at = "items" /\ w.items # <<>> /\ Set(t, r)
  BY DEF TryRow
<1>2. /\ w \in Job /\ JobOK(t) /\ work \in [Workers -> Job] /\ w.items \in Seq(Events)
      /\ Range(w.items) \subseteq arrived /\ arrived \subseteq Events
  BY JobIs DEF Base, JobOK, PastInv
<1> HIDE DEF w
<1>3. /\ Tail(w.items) \in Seq(Events) /\ Head(w.items) \in Range(w.items)
      /\ Range(w.items) = {Head(w.items)} \cup Range(Tail(w.items))
      /\ \A P : Single(P, w.items) => /\ Single(P, Tail(w.items))
                                      /\ Head(w.items) \in P => Range(Tail(w.items)) \cap P = {}
  BY <1>1, <1>2, TailIs
<1>4. /\ \A x : Single({x}, w.items) => Single({x}, Tail(w.items))
      /\ Single({Head(w.items)}, w.items) => Head(w.items) \notin Range(Tail(w.items))
  <2>1. ASSUME NEW x, Single({x}, w.items)
        PROVE  Single({x}, Tail(w.items)) /\ (Head(w.items) = x => x \notin Range(Tail(w.items)))
    <3> DEFINE P == {x}
    <3>1. x \in P /\ Single(P, w.items)
      BY <2>1
    <3> HIDE DEF P
    <3>2. Single(P, Tail(w.items)) /\ (Head(w.items) = x => x \notin Range(Tail(w.items)))
      BY <1>3, <3>1
    <3>3. QED
      BY <3>2 DEF P
  <2>2. QED
    BY <2>1
<1>5. /\ r \in Job /\ r.at = w.at /\ r.event = w.event /\ r.queued = w.queued
      /\ r.session = w.session /\ r.todo = w.todo /\ r.failed = w.failed /\ r.rows = w.rows
      /\ r.items = Tail(w.items) /\ r.handled = w.handled /\ r.next = w.next
  BY <1>2, <1>3 DEF Job
<1> HIDE DEF r
<1>6. Becomes(t, r.at, r.event, r.queued, r.session, r.todo, r.failed, r.rows, r.items, r.handled, r.next)
  BY <1>1, <1>2, <1>5, SetIs
<1>7. Becomes(t, "items", w.event, w.queued, w.session, w.todo, w.failed, w.rows,
                      Tail(w.items), w.handled, w.next)
  BY <1>1, <1>5, <1>6
<1>8. LET e == Head(w.items) IN
      \/ Session(e) \in keys /\ Dispatched(e) /\ UNCHANGED <<table, faults, lost, excused>>
      \/ Fault /\ lost' = lost \cup {e} /\ UNCHANGED <<table, sent, excused>>
      \/ /\ \/ Session(e) \in keys /\ Fault /\ excused' = excused \cup {e}
            \/ Session(e) \notin keys /\ UNCHANGED <<faults, excused>>
         /\ table' = Saved(table, e)
         /\ lost' = lost \cup (Range(table) \ Range(table'))
         /\ UNCHANGED sent
  BY DEF TryRow, w
<1>9. QED
  BY <1>1, <1>2, <1>3, <1>4, <1>7, <1>8 DEF w

\* RowsDone: the next session is up.
LEMMA RowsDoneIs ==
    ASSUME Base, NEW t \in Workers, RowsDone(t)
    PROVE  LET w == work[t] IN
           /\ w.at = "items" /\ w.items = <<>> /\ w \in Job /\ JobOK(t)
           /\ Becomes(t, "rows", w.event, w.queued, w.session, w.todo, w.failed, w.rows, w.items, w.handled, w.next)
<1>1. work[t].at = "items" /\ work[t].items = <<>> /\ work' = [work EXCEPT ![t].at = "rows"]
  BY DEF RowsDone
<1>2. work[t] \in Job /\ JobOK(t) /\ work \in [Workers -> Job]
  BY JobIs DEF Base
<1>3. "rows" \in Places("sync") \cup Places("retry")
  BY DEF Places
<1>4. LET w == work[t] IN
      Becomes(t, "rows", w.event, w.queued, w.session, w.todo, w.failed, w.rows, w.items, w.handled, w.next)
  BY <1>1, <1>2, <1>3, PlaceSet
<1>5. QED
  BY <1>1, <1>2, <1>4

\* The sessions of the queue, in its order.
QueueSessions == [i \in DOMAIN queue |-> queue[i].session]

\* The sessions that a pass sets out with.
LEMMA QueueSessionsAre ==
    ASSUME QueueOK(queue)
    PROVE  /\ QueueSessions \in Seq(Sessions) /\ \A s : Single({s}, QueueSessions)
           /\ \A s : s \in Range(QueueSessions) <=> Held(queue, s) # <<>>
<1>1. /\ queue \in Seq(Entry) /\ Len(queue) \in Nat /\ DOMAIN queue = 1..Len(queue)
  <2>1. queue \in Seq(Entry)
    BY DEF QueueOK
  <2>2. QED
    BY <2>1
<1>2. \A i \in DOMAIN queue : queue[i] \in Entry /\ queue[i].session \in Sessions
  <2>1. \A i \in DOMAIN queue : queue[i] \in Entry
    BY <1>1
  <2>2. QED
    BY <2>1 DEF Entry
<1>3. QueueSessions \in Seq(Sessions)
  BY <1>1, <1>2 DEF QueueSessions
<1>4. \A s : Single({en \in Entry : en.session = s}, queue)
  BY DEF QueueOK
<1>5. \A s : Single({s}, QueueSessions)
  BY <1>2, <1>4 DEF Single, QueueSessions
<1>6. \A s : s \in Range(QueueSessions) <=> Held(queue, s) # <<>>
  BY HeldIs DEF QueueSessions, Range
<1>7. QED
  BY <1>3, <1>5, <1>6

\* A pass over the queue begins.
Begins(next) ==
    Becomes("retry", "pop", <<>>, QueueSessions, <<>>, <<>>, <<>>, <<>>, <<>>, {}, next)

\* A pass begins.
LEMMA PassSet ==
    ASSUME Base, NEW next \in {"idle", "up", "ensure"}, Set("retry", Pass(next))
    PROVE  Begins(next)
<1> DEFINE r == Pass(next)
<1>1. work \in [Workers -> Job] /\ QueueSessions \in Seq(Sessions)
  BY QueueSessionsAre DEF Base, JobsInv, QueueInv
<1>2. r = [Idle EXCEPT !.at = "pop", !.next = next, !.queued = QueueSessions]
  BY DEF Pass, QueueSessions
<1>3. /\ r \in Job /\ r.at = "pop" /\ r.event = <<>> /\ r.queued = QueueSessions /\ r.session = <<>>
      /\ r.todo = <<>> /\ r.failed = <<>> /\ r.rows = <<>> /\ r.items = <<>> /\ r.handled = {}
      /\ r.next = next
  <2> HIDE DEF r
  <2>1. QED
    BY <1>1, <1>2, IdleIs DEF Job, Places, Asking
<1>4. Becomes("retry", r.at, r.event, r.queued, r.session, r.todo, r.failed, r.rows, r.items, r.handled, r.next)
  <2> HIDE DEF r
  <2>1. Set("retry", r)
    BY DEF r
  <2>2. QED
    BY <1>1, <1>3, <2>1, TwoWorkers, SetIs
<1>5. QED
  BY <1>3, <1>4 DEF Begins

\* Restored: keys of the backup come in and a pass begins, or nothing is restored.
LEMMA RestoredIs ==
    ASSUME Base, NEW next \in {"idle", "up", "ensure"}, Restored(next)
    PROVE  /\ keys \subseteq keys' /\ keys' \subseteq keys \cup backup /\ (faults' = faults \/ Fault)
           /\ \/ seen' = backup /\ Begins(next)
              \/ seen' = seen /\ keys' = keys /\ Ends("retry", next)
<1>1. faults' = faults \/ Fault
  BY DEF Restored
<1>2. CASE /\ backup # seen
           /\ \E got \in (SUBSET backup) \ {{}} :
                 /\ IF got = backup THEN UNCHANGED faults ELSE Fault
                 /\ keys' = keys \cup got
           /\ seen' = backup
           /\ Set("retry", Pass(next))
  BY <1>1, <1>2, PassSet
<1>3. CASE /\ IF backup = seen THEN UNCHANGED faults ELSE Fault
           /\ Set("retry", After(next))
           /\ UNCHANGED <<keys, seen>>
  BY <1>1, <1>3, AfterSet, TwoWorkers
<1>4. QED
  BY <1>2, <1>3 DEF Restored

\* Synced: the first sync is done, and a pass begins with what the backup gave.
LEMMA SyncedIs ==
    ASSUME Base, Synced
    PROVE  /\ phase = "syncing" /\ phase' = "starting" /\ work["sync"].at = "idle"
           /\ keys \subseteq keys' /\ keys' \subseteq keys \cup backup /\ (faults' = faults \/ Fault)
           /\ \/ seen' = backup /\ Begins("ensure")
              \/ seen' = seen /\ keys' = keys /\ Ends("retry", "ensure")
<1>1. phase = "syncing" /\ phase' = "starting" /\ work["sync"].at = "idle"
  BY DEF Synced
<1>2. CASE Recovery
  <2>1. Restored("ensure")
    BY <1>2 DEF Synced
  <2>2. QED
    BY <1>1, <2>1, RestoredIs
<1>3. CASE ~Recovery
  BY <1>1, <1>3, AfterSet, TwoWorkers DEF Synced
<1>4. QED
  BY <1>2, <1>3

\* PeriodicRestore: a pass begins, unless nothing is restored or nothing waits.
LEMMA PeriodicRestoreIs ==
    ASSUME Base, PeriodicRestore
    PROVE  /\ phase = "up" /\ work["retry"].at = "idle"
           /\ keys \subseteq keys' /\ keys' \subseteq keys \cup backup /\ (faults' = faults \/ Fault)
           /\ \/ seen' = backup /\ Begins("idle")
              \/ /\ seen' = seen /\ keys' = keys
                 /\ Becomes("retry", "idle", <<>>, <<>>, <<>>, <<>>, <<>>, <<>>, <<>>, {}, "idle")
              \/ seen' = backup /\ work' = work /\ queue = <<>> /\ table = <<>>
<1>1. phase = "up" /\ work["retry"].at = "idle"
  BY DEF PeriodicRestore
<1>2. CASE queue # <<>> \/ table # <<>>
  <2>1. Restored("idle")
    BY <1>2 DEF PeriodicRestore
  <2>2. QED
    BY <1>1, <2>1, RestoredIs DEF Ends
<1>3. CASE ~(queue # <<>> \/ table # <<>>)
  BY <1>1, <1>3 DEF PeriodicRestore
<1>4. QED
  BY <1>2, <1>3

\* The event e of a persisted session, decrypted if its key is there.
Fetched(e) == <<[ev |-> e, plain |-> Session(e) \in keys]>>

\* Ensure: at most one event joins the queue, from the table.
LEMMA EnsureIs ==
    ASSUME Base, Ensure
    PROVE  LET w == work["retry"] s == Head(w.rows) IN
           /\ w.at = "ensure" /\ w.rows # <<>> /\ s \in Sessions /\ w \in Job
           /\ Becomes("retry", "ensure", w.event, w.queued, w.session, w.todo, w.failed, Tail(w.rows),
                      w.items, w.handled, w.next)
           /\ \/ UNCHANGED <<queue, ids, excused>> /\ (faults' = faults \/ Fault)
              \/ /\ UNCHANGED faults
                 /\ \E e \in Range(table) :
                       /\ Session(e) = s /\ e \notin ids /\ Fetched(e) \in Seq(Item)
                       /\ excused' = excused \cup ({e} \cap Queued)
                       /\ QueueOK(queue') /\ ids' = ids \cup {e}
                       /\ \A x : Held(queue', x) = IF x = s THEN Held(queue, x) \o Fetched(e)
                                                   ELSE Held(queue, x)
<1> DEFINE w == work["retry"]
           s == Head(w.rows)
           r == [w EXCEPT !.rows = Tail(w.rows)]
<1>1. w.at = "ensure" /\ w.rows # <<>> /\ work' = [work EXCEPT !["retry"].rows = Tail(w.rows)]
  BY DEF Ensure
<1>2. /\ w \in Job /\ JobOK("retry") /\ work \in [Workers -> Job] /\ w.rows \in Seq(Sessions)
      /\ TableOK(table) /\ QueueOK(queue) /\ Range(table) \subseteq arrived /\ arrived \subseteq Events
      /\ Range(w.rows) \subseteq {Session(e) : e \in Range(table)}
  BY <1>1, JobIs, TwoWorkers DEF Base, TableInv, QueueInv, PastInv, PhaseInv
<1>3. s \in Sessions /\ Tail(w.rows) \in Seq(Sessions) /\ s \in Range(w.rows)
  BY <1>1, <1>2, TailIs
<1>4. Set("retry", r)
  BY <1>1 DEF Set
<1>5. Becomes("retry", "ensure", w.event, w.queued, w.session, w.todo, w.failed, Tail(w.rows),
                      w.items, w.handled, w.next)
  <2> HIDE DEF w
  <2>1. /\ r \in Job /\ r.at = w.at /\ r.event = w.event /\ r.queued = w.queued
        /\ r.session = w.session /\ r.todo = w.todo /\ r.failed = w.failed /\ r.rows = Tail(w.rows)
        /\ r.items = w.items /\ r.handled = w.handled /\ r.next = w.next
    BY <1>2, <1>3 DEF Job
  <2> HIDE DEF r
  <2>2. Becomes("retry", r.at, r.event, r.queued, r.session, r.todo, r.failed, r.rows, r.items, r.handled, r.next)
    BY <1>2, <1>4, <2>1, TwoWorkers, SetIs
  <2>3. QED
    BY <1>1, <2>1, <2>2
<1>6. PICK e : e = Head(RowsOf(s))
  OBVIOUS
<1>7. e \in Range(table) /\ Session(e) = s /\ e \in Events
  <2>1. RowsOf(s) \in Seq(Events) /\ Range(RowsOf(s)) = {x \in Range(table) : Session(x) = s}
    <3> HIDE DEF s
    <3>1. QED
      BY <1>2, RowsAre
  <2>2. \E x \in Range(table) : Session(x) = s
    BY <1>2, <1>3
  <2>3. RowsOf(s) # <<>>
    BY <2>1, <2>2, RangeIs
  <2>4. Head(RowsOf(s)) \in Range(RowsOf(s)) /\ Head(RowsOf(s)) \in Events
    BY <2>1, <2>3, TailIs
  <2>5. QED
    BY <1>6, <2>1, <2>4
<1>8. Fetched(e) \in Seq(Item)
  <2>1. [ev |-> e, plain |-> Session(e) \in keys] \in Item
    BY <1>7 DEF Item
  <2>2. QED
    BY <2>1 DEF Fetched
<1>9. CASE UNCHANGED <<queue, ids, excused>> /\ (faults' = faults \/ Fault)
  BY <1>1, <1>2, <1>3, <1>5, <1>9
<1>10. CASE /\ e \notin ids
            /\ queue' = With(queue, s, <<[ev |-> e, plain |-> s \in keys]>>)
            /\ ids' = ids \cup {e}
            /\ excused' = excused \cup ({e} \cap Queued)
            /\ UNCHANGED faults
  <2>1. PICK q : q = queue
    OBVIOUS
  <2>2. PICK items : items = Fetched(e)
    OBVIOUS
  <2>3. PICK x : x = s
    OBVIOUS
  <2>4. QueueOK(q) /\ x \in Sessions /\ items \in Seq(Item) /\ queue' = With(q, x, items)
    BY <1>2, <1>3, <1>7, <1>8, <1>10, <2>1, <2>2, <2>3 DEF Fetched
  <2>5. /\ QueueOK(With(q, x, items))
        /\ \A y : Held(With(q, x, items), y) = IF y = x THEN Held(q, x) \o items ELSE Held(q, y)
    BY <2>4, WithIs
  <2>6. \A y : Held(queue', y) = IF y = s THEN Held(queue, y) \o Fetched(e) ELSE Held(queue, y)
    BY <2>1, <2>2, <2>3, <2>4, <2>5
  <2>7. QueueOK(queue')
    BY <2>4, <2>5
  <2>8. QED
    BY <1>1, <1>2, <1>3, <1>5, <1>7, <1>8, <1>10, <2>6, <2>7
<1>11. QED
  BY <1>6, <1>9, <1>10 DEF Ensure, Fault

\* EnsureDone: the pass of the start begins.
LEMMA EnsureDoneIs ==
    ASSUME Base, EnsureDone
    PROVE  work["retry"].at = "ensure" /\ Begins("up")
  BY PassSet DEF EnsureDone

\* The items that the recheck goes through.
LEMMA CurrentIs ==
    Current = IF Head(recheck.snap).dead THEN Head(recheck.snap).events
              ELSE Held(queue, Head(recheck.snap).session)
  BY EventsOfIs DEF Current

\* The fields of the recheck while it works.
LEMMA RecheckNow ==
    ASSUME Base, recheck.snap # <<>>
    PROVE  LET h == Head(recheck.snap) IN
           /\ recheck \in [snap : Seq(Seen), at : Nat, still : Seq(Item)]
           /\ recheck.snap \in Seq(Seen) /\ recheck.still \in Seq(Item) /\ recheck.at \in Nat
           /\ h \in Seen /\ h \in Range(recheck.snap) /\ h.session \in Sessions /\ h.dead \in BOOLEAN
           /\ Current \in Seq(Good(h.session, arrived, keys)) /\ Current \in Seq(Item)
           /\ recheck.still \in Seq(Good(h.session, arrived, keys))
           /\ Tail(recheck.snap) \in Seq(Seen) /\ Range(Tail(recheck.snap)) \subseteq Range(recheck.snap)
<1> DEFINE h == Head(recheck.snap)
<1>1. /\ recheck \in [snap : Seq(Seen), at : Nat, still : Seq(Item)] /\ QueueInv
      /\ \A entry \in Range(recheck.snap) : entry.events \in Seq(Good(entry.session, arrived, keys))
      /\ recheck.still \in Seq(Good(h.session, arrived, keys))
  BY DEF Base, RecheckInv
<1>2. recheck.snap \in Seq(Seen) /\ recheck.still \in Seq(Item) /\ recheck.at \in Nat
  BY <1>1
<1>3. /\ h \in Seen /\ h \in Range(recheck.snap) /\ Tail(recheck.snap) \in Seq(Seen)
      /\ Range(Tail(recheck.snap)) \subseteq Range(recheck.snap)
  BY <1>2, TailIs
<1>4. h.session \in Sessions /\ h.dead \in BOOLEAN
  BY <1>3 DEF Seen
<1>5. Current \in Seq(Good(h.session, arrived, keys))
  <2>1. Held(queue, h.session) \in Seq(Good(h.session, arrived, keys))
    BY <1>1, QueueIs
  <2>2. h.events \in Seq(Good(h.session, arrived, keys))
    BY <1>1, <1>3
  <2>3. QED
    BY <2>1, <2>2, CurrentIs
<1>6. Current \in Seq(Item)
  BY <1>5, GoodIs
<1>7. QED
  BY <1>1, <1>2, <1>3, <1>4, <1>5, <1>6

\* The recheck between two entries.
LEMMA RestedIs ==
    ASSUME NEW snap \in Seq(Seen)
    PROVE  LET r == [Rested EXCEPT !.snap = snap] IN
           /\ r \in [snap : Seq(Seen), at : Nat, still : Seq(Item)]
           /\ r.snap = snap /\ r.at = 0 /\ r.still = <<>>
           /\ snap = <<>> => r = Rested
<1>1. Rested = [snap |-> <<>>, at |-> 0, still |-> <<>>]
  BY DEF Rested
<1>2. [Rested EXCEPT !.snap = snap] = [snap |-> snap, at |-> 0, still |-> <<>>]
  BY <1>1
<1>3. <<>> \in Seq(Item)
  OBVIOUS
<1>4. QED
  BY <1>1, <1>2, <1>3

\* Recheck: it begins with references to all entries, when something is decrypted already.
LEMMA RecheckIs ==
    ASSUME Base, Recheck
    PROVE  /\ phase = "up" /\ recheck = Rested
           /\ \E s \in Sessions : \E item \in Range(Held(queue, s)) : item.plain
           /\ recheck' \in [snap : Seq(Seen), at : Nat, still : Seq(Item)]
           /\ recheck'.at = 0 /\ recheck'.still = <<>> /\ recheck'.snap # <<>>
           /\ \A entry \in Range(recheck'.snap) : entry.events = <<>>
           /\ ~Head(recheck'.snap).dead /\ Head(recheck'.snap).events = <<>>
<1> DEFINE snap == [i \in DOMAIN queue |-> [session |-> queue[i].session, dead |-> FALSE, events |-> <<>>]]
<1>1. QueueOK(queue) /\ recheck.snap = <<>> /\ phase = "up" /\ recheck' = [Rested EXCEPT !.snap = snap]
  BY DEF Base, QueueInv, Recheck
<1>2. recheck = Rested
  BY <1>1 DEF Base, RecheckInv
<1>3. PICK i \in DOMAIN queue : \E j \in DOMAIN queue[i].events : queue[i].events[j].plain
  BY DEF Recheck
<1>4. queue[i].session \in Sessions /\ Held(queue, queue[i].session) = queue[i].events
  BY <1>1, HeldIs
<1>5. \E item \in Range(queue[i].events) : item.plain
  BY <1>3 DEF Range
<1>6. /\ queue \in Seq(Entry) /\ Len(queue) \in Nat /\ DOMAIN queue = 1..Len(queue)
  <2>1. queue \in Seq(Entry)
    BY <1>1 DEF QueueOK
  <2>2. QED
    BY <2>1
<1>7. \A k \in DOMAIN queue : snap[k] \in Seen /\ snap[k].events = <<>> /\ ~snap[k].dead
  <2>1. \A k \in DOMAIN queue : queue[k] \in Entry
    BY <1>6
  <2>2. \A k \in DOMAIN queue : queue[k].session \in Sessions
    BY <2>1 DEF Entry
  <2>3. \A k \in DOMAIN queue : snap[k] = [session |-> queue[k].session, dead |-> FALSE, events |-> <<>>]
    OBVIOUS
  <2> HIDE DEF snap
  <2>4. <<>> \in Seq(Item)
    OBVIOUS
  <2>5. ASSUME NEW k \in DOMAIN queue PROVE snap[k] \in Seen /\ snap[k].events = <<>> /\ ~snap[k].dead
    <3>1. PICK x \in Sessions : x = queue[k].session
      BY <2>2
    <3>2. snap[k] = [session |-> x, dead |-> FALSE, events |-> <<>>]
      BY <2>3, <3>1
    <3>3. [session |-> x, dead |-> FALSE, events |-> <<>>] \in Seen
      BY <2>4 DEF Seen
    <3>4. QED
      BY <3>2, <3>3
  <2>6. QED
    BY <2>5
<1>8. DOMAIN snap = 1..Len(queue) /\ snap \in Seq(Seen)
  <2>1. DOMAIN snap = 1..Len(queue) /\ snap = [k \in 1..Len(queue) |-> snap[k]]
    BY <1>6
  <2> HIDE DEF snap
  <2>2. QED
    BY <1>6, <1>7, <2>1
<1> HIDE DEF snap
<1>9. snap # <<>> /\ Head(snap) = snap[1] /\ 1 \in DOMAIN queue
  BY <1>3, <1>6, <1>8
<1>10. /\ recheck' \in [snap : Seq(Seen), at : Nat, still : Seq(Item)]
       /\ recheck'.at = 0 /\ recheck'.still = <<>> /\ recheck'.snap = snap
  BY <1>1, <1>8, RestedIs
<1>11. \A entry \in Range(snap) : entry.events = <<>>
  BY <1>6, <1>7, <1>8 DEF Range
<1>12. QED
  BY <1>1, <1>2, <1>4, <1>5, <1>7, <1>9, <1>10, <1>11

\* RecheckEvent: the event is handed on and forgotten, or is kept for the queue.
LEMMA RecheckEventIs ==
    ASSUME Base, RecheckEvent
    PROVE  LET item == Current[recheck.at + 1] h == Head(recheck.snap) IN
           /\ recheck.snap # <<>> /\ recheck.at < Len(Current) /\ recheck.at + 1 \in DOMAIN Current
           /\ item \in Range(Current) /\ item \in Item /\ item.ev \in Events /\ item.ev \in arrived
           /\ item.ev \in Evs(Current) /\ Session(item.ev) = h.session /\ (item.plain => h.session \in keys)
           /\ recheck' \in [snap : Seq(Seen), at : Nat, still : Seq(Item)]
           /\ recheck'.snap = recheck.snap /\ recheck'.at = recheck.at + 1
           /\ \/ /\ item.plain /\ Dispatched(item.ev) /\ ids' = ids \ {item.ev} /\ UNCHANGED faults
                 /\ TableOK(table') /\ Range(table') = Range(table) \ {item.ev}
                 /\ recheck'.still = recheck.still /\ TakeUp("recheck", {item.ev})
              \/ /\ \/ item.plain /\ Fault /\ excused' = excused \cup {item.ev}
                    \/ ~item.plain /\ UNCHANGED <<faults, excused>>
                 /\ recheck'.still = Append(recheck.still, item) /\ UNCHANGED <<sent, ids, table>>
<1> DEFINE item == Current[recheck.at + 1]
           h == Head(recheck.snap)
           next == [recheck EXCEPT !.at = @ + 1]
<1>1. recheck.snap # <<>> /\ recheck.at < Len(Current)
  BY DEF RecheckEvent
<1>2. /\ recheck \in [snap : Seq(Seen), at : Nat, still : Seq(Item)]
      /\ recheck.still \in Seq(Item) /\ recheck.at \in Nat
      /\ Current \in Seq(Good(h.session, arrived, keys)) /\ Current \in Seq(Item)
      /\ TableOK(table)
  BY <1>1, RecheckNow DEF Base, TableInv
<1>3. recheck.at + 1 \in DOMAIN Current /\ item \in Item
  <2>1. Len(Current) \in Nat /\ DOMAIN Current = 1..Len(Current)
    BY <1>2
  <2>2. recheck.at + 1 \in 1..Len(Current)
    BY <1>1, <1>2, <2>1
  <2>3. QED
    BY <1>2, <2>1, <2>2
<1>4. item \in Range(Current) /\ item.ev \in Evs(Current)
  BY <1>3 DEF Range, Evs
<1>5. item \in Good(h.session, arrived, keys)
  BY <1>2, <1>4, GoodIs
<1>6. item.ev \in Events /\ item.ev \in arrived /\ Session(item.ev) = h.session /\ (item.plain => h.session \in keys)
  BY <1>3, <1>5 DEF Good, Item
<1>7. /\ next \in [snap : Seq(Seen), at : Nat, still : Seq(Item)] /\ next.snap = recheck.snap
      /\ next.at = recheck.at + 1 /\ next.still = recheck.still
  BY <1>2
<1>8. CASE /\ item.plain
           /\ Dispatched(item.ev)
           /\ ids' = ids \ {item.ev}
           /\ table' = RemoveFailed(item.ev)
           /\ recheck' = next
           /\ TakeUp("recheck", {item.ev})
           /\ UNCHANGED faults
  <2>1. TableOK(table') /\ Range(table') = Range(table) \ {item.ev}
    <3> HIDE DEF item
    <3>1. QED
      BY <1>2, <1>8, RowsAre
  <2>2. QED
    BY <1>1, <1>3, <1>4, <1>6, <1>7, <1>8, <2>1
<1>9. CASE /\ IF item.plain THEN Fault /\ excused' = excused \cup {item.ev}
              ELSE UNCHANGED <<faults, excused>>
           /\ recheck' = [next EXCEPT !.still = Append(@, item)]
           /\ UNCHANGED <<sent, ids, table>>
  <2>1. Append(recheck.still, item) \in Seq(Item)
    BY <1>2, <1>3, AppendIs
  <2>2. /\ recheck' \in [snap : Seq(Seen), at : Nat, still : Seq(Item)] /\ recheck'.snap = recheck.snap
        /\ recheck'.at = recheck.at + 1 /\ recheck'.still = Append(recheck.still, item)
    <3> HIDE DEF item, next
    <3>1. QED
      BY <1>7, <1>9, <2>1
  <2>3. QED
    BY <1>1, <1>3, <1>4, <1>6, <1>9, <2>2
<1>10. QED
  BY <1>8, <1>9 DEF RecheckEvent

\* RecheckWrites: what was kept replaces the entry of the session.
LEMMA RecheckWritesIs ==
    ASSUME Base, RecheckWrites
    PROVE  LET h == Head(recheck.snap) IN
           /\ recheck.snap # <<>> /\ recheck.at >= Len(Current)
           /\ recheck' \in [snap : Seq(Seen), at : Nat, still : Seq(Item)]
           /\ recheck'.snap = Tail(recheck.snap) /\ recheck'.at = 0 /\ recheck'.still = <<>>
           /\ Tail(recheck.snap) = <<>> => recheck' = Rested
           /\ QueueOK(queue')
           /\ \A x : Held(queue', x) = IF /\ x = h.session
                                          /\ \/ recheck.still = <<>>
                                             \/ ~h.dead /\ Held(queue, x) # <<>>
                                       THEN recheck.still ELSE Held(queue, x)
<1> DEFINE h == Head(recheck.snap)
<1>1. /\ recheck.snap # <<>> /\ recheck.at >= Len(Current)
      /\ recheck' = [Rested EXCEPT !.snap = Tail(recheck.snap)]
  BY DEF RecheckWrites
<1>2. /\ recheck \in [snap : Seq(Seen), at : Nat, still : Seq(Item)]
      /\ Tail(recheck.snap) \in Seq(Seen) /\ h.dead \in BOOLEAN /\ recheck.still \in Seq(Item)
      /\ QueueOK(queue)
  BY <1>1, RecheckNow DEF Base, QueueInv
<1>3. /\ recheck' \in [snap : Seq(Seen), at : Nat, still : Seq(Item)]
      /\ recheck'.snap = Tail(recheck.snap) /\ recheck'.at = 0 /\ recheck'.still = <<>>
      /\ Tail(recheck.snap) = <<>> => recheck' = Rested
  BY <1>1, <1>2, RestedIs
<1>4. CASE recheck.still = <<>>
  <2> DEFINE S == {h.session}
  <2>1. queue' = Rest(queue, S)
    BY <1>4, WithoutIs DEF RecheckWrites
  <2> HIDE DEF S
  <2>2. QueueOK(queue') /\ \A x : Held(queue', x) = IF x \in S THEN <<>> ELSE Held(queue, x)
    BY <1>2, <2>1, RestIs
  <2>3. QED
    BY <1>1, <1>3, <1>4, <2>2 DEF S
<1>5. CASE recheck.still # <<>> /\ h.dead
  <2>1. queue' = queue
    BY <1>5 DEF RecheckWrites
  <2>2. QED
    BY <1>1, <1>2, <1>3, <1>5, <2>1
<1>6. CASE recheck.still # <<>> /\ ~h.dead
  <2>1. PICK q : q = queue
    OBVIOUS
  <2>2. PICK s : s = h.session
    OBVIOUS
  <2>3. PICK new : new = recheck.still
    OBVIOUS
  <2>4. queue' = Replaced(q, s, new) /\ new \in Seq(Item) \ {<<>>} /\ QueueOK(q)
    BY <1>2, <1>6, <2>1, <2>2, <2>3 DEF RecheckWrites, Replaced
  <2>5. /\ QueueOK(Replaced(q, s, new))
        /\ \A x : Held(Replaced(q, s, new), x) = IF x = s /\ Held(q, s) # <<>> THEN new ELSE Held(q, x)
    BY <2>4, ReplacedIs
  <2>6. QED
    BY <1>1, <1>3, <1>6, <2>1, <2>2, <2>3, <2>4, <2>5
<1>7. QED
  BY <1>4, <1>5, <1>6

-----------------------------------------------------------------------------
(* Every step keeps the base of the invariant.                             *)

\* What has happened stays so; what is stranded does until the next start has synced.
Grows ==
    /\ arrived \subseteq arrived' /\ keys \subseteq keys' /\ backup \subseteq backup'
    /\ lost \subseteq lost' /\ excused \subseteq excused'
    /\ phase # "syncing" => stranded \subseteq stranded'
    /\ faults' \in Nat /\ faults <= faults' /\ \A e \in Events : sent[e] > 0 => sent'[e] > 0

\* Faults are numbers, and one more is one more.
LEMMA FaultIs == ASSUME PastInv PROVE /\ Fault => faults' \in 0..MaxFaults /\ faults' > faults /\ faults' > 0
                                      /\ faults \in Nat
<1>1. faults \in Nat /\ MaxFaults \in Nat /\ faults \in 0..MaxFaults
  BY Given DEF PastInv
<1>2. ASSUME Fault PROVE faults' \in 0..MaxFaults /\ faults' > faults /\ faults' > 0
  <2>1. faults < MaxFaults /\ faults' = faults + 1
    BY <1>2 DEF Fault
  <2>2. QED
    BY <1>1, <2>1
<1>3. QED
  BY <1>1, <1>2

\* The past after a step, which hands one event on or none.
LEMMA PastStep ==
    ASSUME Base,
           phase' \in {"down", "syncing", "starting", "up"}, arrived \subseteq arrived', arrived' \subseteq Events,
           keys \subseteq keys', keys' \subseteq Sessions, backup \subseteq backup',
           backup' \subseteq Sessions, seen' \subseteq backup', ids' \subseteq arrived',
           faults' = faults \/ Fault, ends' \in 0..MaxEnds,
           sent' = sent \/ \E e \in arrived' : Dispatched(e),
           lost \subseteq lost', lost' \subseteq arrived', excused \subseteq excused',
           excused' \subseteq arrived', stranded' \subseteq arrived',
           phase # "syncing" => stranded \subseteq stranded'
    PROVE  PastInv' /\ Grows
<1>1. PastInv
  BY DEF Base
<1>2. faults' \in 0..MaxFaults /\ faults' \in Nat /\ faults <= faults'
  <2>1. faults \in 0..MaxFaults /\ MaxFaults \in Nat
    BY <1>1, Given DEF PastInv
  <2>2. faults' \in 0..MaxFaults /\ (faults' = faults \/ faults' > faults)
    BY <1>1, <2>1, FaultIs
  <2>3. QED
    BY <2>1, <2>2
<1>3. /\ sent' \in [Events -> 0..2] /\ \A e \in Events : sent'[e] > 0 => e \in arrived'
      /\ \A e \in Events : sent[e] > 0 => sent'[e] > 0
  <2>1. sent \in [Events -> 0..2] /\ \A e \in Events : sent[e] > 0 => e \in arrived
    BY <1>1 DEF PastInv
  <2>2. CASE sent' = sent
    BY <2>1, <2>2
  <2>3. CASE \E e \in arrived' : Dispatched(e)
    <3>1. PICK e \in arrived' : Dispatched(e)
      BY <2>3
    <3>2. /\ sent' \in [Events -> 0..2] /\ sent'[e] > 0 /\ \A x \in Events : x # e => sent'[x] = sent[x]
      BY <2>1, <3>1, DispatchedIs
    <3>3. QED
      BY <2>1, <3>1, <3>2
  <2>4. QED
    BY <2>2, <2>3
<1>4. PastInv'
  BY <1>2, <1>3 DEF PastInv
<1>5. Grows
  BY <1>2, <1>3 DEF Grows
<1>6. QED
  BY <1>4, <1>5

\* The queue after a step, from what it holds of each session.
LEMMA QueueGrows ==
    ASSUME Base, Grows, QueueOK(queue'),
           \A s \in Sessions : Held(queue', s) \in Seq(Good(s, arrived, keys))
                               \/ Held(queue', s) \in Seq(Good(s, arrived', keys'))
    PROVE  QueueInv'
<1>1. \A s : Seq(Good(s, arrived, keys)) \subseteq Seq(Good(s, arrived', keys'))
  BY GoodGrows DEF Grows
<1>2. QED
  BY <1>1 DEF QueueInv

\* The queue that a step leaves alone.
LEMMA QueueStays == ASSUME Base, Grows, queue' = queue PROVE QueueInv'
<1>1. QueueOK(queue') /\ \A s \in Sessions : Held(queue', s) \in Seq(Good(s, arrived, keys))
  BY DEF Base, QueueInv
<1>2. QED
  BY <1>1, QueueGrows

\* The queue without a session.
LEMMA QueueTaken == ASSUME Base, Grows, NEW s, Taken(s) PROVE QueueInv'
<1>1. QueueOK(queue') /\ \A x : Held(queue', x) = IF x = s THEN <<>> ELSE Held(queue, x)
  BY DEF Taken
<1>2. \A x \in Sessions : Held(queue', x) \in Seq(Good(x, arrived, keys))
  <2>1. \A x : <<>> \in Seq(Good(x, arrived, keys))
    OBVIOUS
  <2>2. QED
    BY <1>1, <2>1 DEF Base, QueueInv
<1>3. QED
  BY <1>1, <1>2, QueueGrows

\* The job that a step leaves alone.
LEMMA JobGrows ==
    ASSUME Base, Grows, NEW t \in Workers, work'[t] = work[t]
    PROVE  JobOK(t)'
<1> DEFINE w == work[t]
<1>1. JobOK(t) /\ w \in Job
  BY JobIs DEF Base
<1>2. Seq(Good(w.session, arrived, keys)) \subseteq Seq(Good(w.session, arrived', keys'))
  BY GoodGrows DEF Grows
<1>3. \A e \in w.handled : e \in Events /\ e \in arrived' /\ sent'[e] > 0 /\ Session(e) \in keys'
  BY <1>1 DEF JobOK, Grows, Base, PastInv
<1>4. QED
  BY <1>1, <1>2, <1>3 DEF JobOK, Grows

\* Both of them.
LEMMA JobsStay == ASSUME Base, Grows, work' = work PROVE JobsInv'
  BY JobGrows, JobIs, TwoWorkers DEF Base, JobsInv

\* One worker's job changes.
LEMMA JobsStep ==
    ASSUME Base, Grows, NEW t \in Workers, NEW at, NEW event, NEW queued, NEW session, NEW todo, NEW failed,
           NEW rows, NEW items, NEW handled, NEW next,
           Becomes(t, at, event, queued, session, todo, failed, rows, items, handled, next),
           at \in Places(t), at \in Asking => event \in arrived',
           at = "given" => Session(event) \in backup', at = "try" => session \in Sessions,
           at # "try" => todo = <<>> /\ failed = <<>>, at # "items" => items = <<>>,
           todo \in Seq(Good(session, arrived', keys')), failed \in Seq(Good(session, arrived', keys')),
           Range(items) \subseteq arrived',
           \A e \in handled : e \in arrived' /\ sent'[e] > 0 /\ Session(e) \in keys',
           at \in {"idle", "ensure"} \cup Asking => handled = {}, t = "sync" => next = "idle"
    PROVE  JobsInv'
<1>1. JobOK(t)'
  BY DEF JobOK, Becomes
<1>2. \A u \in Workers \ {t} : JobOK(u)'
  BY JobGrows DEF Becomes
<1>3. QED
  BY <1>1, <1>2 DEF JobsInv, Becomes

\* A job that ends.
LEMMA JobIdles ==
    ASSUME Base, Grows, NEW t \in Workers,
           Becomes(t, "idle", <<>>, <<>>, <<>>, <<>>, <<>>, <<>>, <<>>, {}, "idle")
    PROVE  JobsInv'
<1>1. <<>> \in Seq(Good(<<>>, arrived', keys')) /\ Range(<<>>) = {}
  BY DEF Range
<1>2. "idle" \in Places(t) /\ "idle" \notin Asking
  BY DEF Places, Asking
<1>3. QED
  BY <1>1, <1>2, JobsStep

\* The job of the sync loop that asks for a key.
LEMMA JobAsks ==
    ASSUME Base, Grows, NEW at \in Asking, NEW event \in arrived', at = "given" => Session(event) \in backup',
           NEW queued, NEW session, NEW todo, NEW failed, NEW rows, NEW items, NEW handled, NEW next,
           todo = <<>>, failed = <<>>, items = <<>>, handled = {}, next = "idle",
           Becomes("sync", at, event, queued, session, todo, failed, rows, items, handled, next)
    PROVE  JobsInv'
<1>1. <<>> \in Seq(Good(session, arrived', keys')) /\ Range(<<>>) = {}
  BY DEF Range
<1>2. at \in Places("sync") /\ at # "try" /\ at # "items"
  BY DEF Places, Asking
<1>3. JobOK("sync")'
  BY <1>1, <1>2 DEF JobOK, Becomes
<1>4. \A u \in Workers \ {"sync"} : JobOK(u)'
  BY JobGrows DEF Becomes
<1>5. QED
  BY <1>3, <1>4 DEF JobsInv, Becomes

\* A pass goes on, with no items of the queue in its hands.
LEMMA JobPasses ==
    ASSUME Base, Grows, NEW t \in Workers, NEW at \in {"pop", "rows", "items"}, at \in Places(t),
           NEW event, NEW queued, NEW session, NEW todo, NEW failed, NEW rows, NEW items, NEW handled, NEW next,
           todo = <<>>, failed = <<>>, at # "items" => items = <<>>, Range(items) \subseteq arrived',
           handled = work[t].handled, t = "sync" => next = "idle",
           Becomes(t, at, event, queued, session, todo, failed, rows, items, handled, next)
    PROVE  JobsInv'
<1>1. <<>> \in Seq(Good(session, arrived', keys'))
  OBVIOUS
<1>2. at \notin {"idle", "ensure"} \cup Asking /\ at # "try" /\ at # "given"
  BY DEF Asking
<1>3. \A x \in handled : x \in arrived' /\ sent'[x] > 0 /\ Session(x) \in keys'
  <2>1. JobOK(t) /\ arrived \subseteq Events
    BY JobIs DEF Base, PastInv
  <2>2. QED
    BY <2>1 DEF JobOK, Grows
<1>4. JobOK(t)'
  BY <1>1, <1>2, <1>3 DEF JobOK, Becomes
<1>5. \A u \in Workers \ {t} : JobOK(u)'
  BY JobGrows DEF Becomes
<1>6. QED
  BY <1>4, <1>5 DEF JobsInv, Becomes

\* The recheck that a step leaves alone.
LEMMA RecheckStays == ASSUME Base, Grows, recheck' = recheck PROVE RecheckInv'
<1>1. \A s : Seq(Good(s, arrived, keys)) \subseteq Seq(Good(s, arrived', keys'))
  BY GoodGrows DEF Grows
<1>2. QED
  BY <1>1 DEF Base, RecheckInv

\* The recheck whose entries are popped.
LEMMA RecheckDetached == ASSUME Base, Grows, NEW S, recheck' = Detached(S) PROVE RecheckInv'
<1>1. \A s : Seq(Good(s, arrived, keys)) \subseteq Seq(Good(s, arrived', keys'))
  BY GoodGrows DEF Grows
<1>2. RecheckInv /\ QueueInv
  BY DEF Base
<1>3. /\ recheck' \in [snap : Seq(Seen), at : Nat, still : Seq(Item)]
      /\ recheck'.still = recheck.still
      /\ recheck.snap = <<>> <=> recheck'.snap = <<>>
      /\ recheck.snap = <<>> => recheck' = recheck
      /\ \A entry \in Range(recheck'.snap) : \E old \in Range(recheck.snap) :
            /\ entry.session = old.session
            /\ entry.events = old.events \/ entry.events = Held(queue, old.session)
      /\ recheck.snap # <<>> => Head(recheck'.snap).session = Head(recheck.snap).session
  BY <1>2, DetachedIs
<1>4. \A s : Held(queue, s) \in Seq(Good(s, arrived, keys))
  BY <1>2, QueueIs
<1>5. ASSUME NEW entry \in Range(recheck'.snap)
      PROVE  entry.events \in Seq(Good(entry.session, arrived', keys'))
  <2>1. PICK old \in Range(recheck.snap) :
            /\ entry.session = old.session
            /\ entry.events = old.events \/ entry.events = Held(queue, old.session)
    BY <1>3
  <2>2. old.events \in Seq(Good(old.session, arrived, keys))
    BY <1>2 DEF RecheckInv
  <2>3. QED
    BY <1>1, <1>4, <2>1, <2>2
<1>6. recheck'.snap = <<>> => recheck' = Rested
  BY <1>2, <1>3 DEF RecheckInv
<1>7. recheck'.snap # <<>> => recheck'.still \in Seq(Good(Head(recheck'.snap).session, arrived', keys'))
  BY <1>1, <1>2, <1>3 DEF RecheckInv
<1>8. QED
  BY <1>3, <1>5, <1>6, <1>7 DEF RecheckInv

\* The source syncs, and no pass of the start is at work.
LEMMA PhaseUp ==
    ASSUME Syncs', work'["retry"].at # "ensure", work'["retry"].next = "idle",
           phase' = "syncing" => work'["retry"].at = "idle" /\ recheck' = Rested
    PROVE  PhaseInv'
  BY DEF PhaseInv, Syncs

\* While the sync loop is at work, the source syncs; while the recheck is, it is up.
LEMMA UpIs ==
    ASSUME Base, work["sync"].at # "idle" \/ recheck # Rested \/ recheck.snap # <<>> \/ Syncs
    PROVE  /\ Syncs /\ work["retry"].at # "ensure" /\ work["retry"].next = "idle"
           /\ phase = "syncing" => work["retry"].at = "idle" /\ recheck = Rested
           /\ recheck # Rested \/ recheck.snap # <<>> => phase = "up"
<1>1. recheck.snap # <<>> => recheck # Rested
  BY DEF Rested
<1>2. phase \in {"down", "syncing", "starting", "up"} /\ PhaseInv
  BY DEF Base, PastInv
<1>3. QED
  BY <1>1, <1>2 DEF PhaseInv, Syncs

\* A step of the sync loop.
LEMMA PhaseSync ==
    ASSUME Base, work["sync"].at # "idle" \/ Syncs, phase' = phase, work'["retry"] = work["retry"],
           recheck.snap = <<>> => recheck' = recheck
    PROVE  PhaseInv'
<1>1. /\ Syncs /\ work["retry"].at # "ensure" /\ work["retry"].next = "idle"
      /\ phase = "syncing" => work["retry"].at = "idle" /\ recheck = Rested
  BY UpIs
<1>2. Syncs' /\ (recheck = Rested => recheck' = Rested)
  BY <1>1 DEF Syncs, Rested
<1>3. QED
  BY <1>1, <1>2, PhaseUp

\* The recheck that has no entries in hand, when entries are popped.
LEMMA DetachedRests ==
    ASSUME Base, NEW S, recheck' = Detached(S)
    PROVE  recheck.snap = <<>> => recheck' = recheck
  BY DetachedIs DEF Base

\* The base, part by part.
LEMMA BaseIs ==
    ASSUME Base
    PROVE  /\ PastInv /\ QueueInv /\ TableInv /\ JobsInv /\ RecheckInv /\ PhaseInv
           /\ phase \in {"down", "syncing", "starting", "up"}
           /\ arrived \subseteq Events /\ keys \subseteq Sessions /\ backup \subseteq Sessions
           /\ seen \subseteq backup /\ ids \subseteq arrived /\ ends \in 0..MaxEnds
           /\ lost \subseteq arrived /\ excused \subseteq arrived /\ stranded \subseteq arrived
           /\ Range(table) \subseteq arrived /\ TableOK(table) /\ QueueOK(queue)
           /\ sent \in [Events -> 0..2] /\ (\A e \in Events : sent[e] > 0 => e \in arrived)
           /\ Queued \subseteq arrived
<1>1. Queued \subseteq arrived
  BY QueueIs DEF Base
<1>2. QED
  BY <1>1 DEF Base, PastInv, TableInv, QueueInv

-----------------------------------------------------------------------------
(* Every action keeps the base, and lets the record of the past only grow. *)

LEMMA ArriveBase == ASSUME Base, NEW e \in Events, Arrive(e) PROVE Base' /\ Grows
<1>1. /\ Syncs /\ e \notin arrived /\ arrived' = arrived \cup {e}
      /\ UNCHANGED <<phase, keys, backup, seen, queue, ids, table, recheck, faults, ends,
                   lost, excused, stranded>>
  BY DEF Arrive
<1>2. \/ Session(e) \in keys /\ Dispatched(e) /\ work' = work
      \/ /\ Session(e) \notin keys /\ sent' = sent
         /\ Becomes("sync", "failed", e, <<>>, <<>>, <<>>, <<>>, <<>>, <<>>, {}, "idle")
  BY ArriveIs
<1>3. PastInv' /\ Grows
  BY <1>1, <1>2, BaseIs, PastStep
<1>4. QueueInv'
  BY <1>1, <1>3, QueueStays
<1>5. TableInv'
  BY <1>1 DEF Base, TableInv
<1>6. JobsInv'
  <2>1. CASE work' = work
    BY <1>3, <2>1, JobsStay
  <2>2. CASE Becomes("sync", "failed", e, <<>>, <<>>, <<>>, <<>>, <<>>, <<>>, {}, "idle")
    <3>1. "failed" \in Asking /\ e \in arrived'
      BY <1>1 DEF Asking
    <3>2. QED
      BY <1>3, <2>2, <3>1, JobAsks
  <2>3. QED
    BY <1>2, <2>1, <2>2
<1>7. RecheckInv'
  BY <1>1, <1>3, RecheckStays
<1>8. PhaseInv'
  <2>1. work'["retry"] = work["retry"]
    BY <1>2, TwoWorkers DEF Becomes
  <2>2. QED
    BY <1>1, <2>1, PhaseSync
<1>9. QED
  BY <1>3, <1>4, <1>5, <1>6, <1>7, <1>8 DEF Base

LEMMA AskBase == ASSUME Base, AskBackup PROVE Base' /\ Grows
<1> DEFINE w == work["sync"]
<1>1. UNCHANGED <<phase, arrived, keys, backup, seen, queue, ids, table, recheck, ends,
                   sent, lost, excused, stranded>>
  BY DEF AskBackup
<1>2. w.at = "failed" /\ w.event \in arrived /\ (faults' = faults \/ Fault)
  BY AskIs
<1>3. PICK at \in {"given", "refused"} :
                 /\ at = "given" => Session(w.event) \in backup
                 /\ Becomes("sync", at, w.event, w.queued, w.session, w.todo, w.failed, w.rows,
                            w.items, w.handled, w.next)
  BY AskIs
<1>4. PastInv' /\ Grows
  BY <1>1, <1>2, BaseIs, PastStep
<1>5. QueueInv' /\ RecheckInv'
  BY <1>1, <1>4, QueueStays, RecheckStays
<1>6. TableInv'
  BY <1>1 DEF Base, TableInv
<1>7. JobsInv'
  <2>1. JobOK("sync")
    BY TwoWorkers, JobIs DEF Base
  <2>2. /\ w.todo = <<>> /\ w.failed = <<>> /\ w.items = <<>> /\ w.handled = {} /\ w.next = "idle"
    BY <1>2, <2>1 DEF JobOK, Asking
  <2>3. at \in Asking /\ w.event \in arrived' /\ (at = "given" => Session(w.event) \in backup')
    BY <1>1, <1>2, <1>3 DEF Asking
  <2>4. QED
    BY <1>3, <1>4, <2>2, <2>3, JobAsks
<1>8. PhaseInv'
  <2>1. work'["retry"] = work["retry"]
    BY <1>3, TwoWorkers DEF Becomes
  <2>2. QED
    BY <1>1, <1>2, <2>1, PhaseSync
<1>9. QED
  BY <1>4, <1>5, <1>6, <1>7, <1>8 DEF Base

LEMMA GivenBase == ASSUME Base, KeyGiven PROVE Base' /\ Grows
<1> DEFINE w == work["sync"]
           e == w.event
<1>1. /\ UNCHANGED <<phase, arrived, backup, seen, queue, ids, table, recheck, ends, lost>>
      /\ stranded' = stranded \cup {x \in Queued \cup Range(table) :
                                         Session(x) = Session(e) /\ Session(e) \in seen}
  BY DEF KeyGiven
<1>2. /\ w.at = "given" /\ e \in arrived /\ e \in Events /\ Session(e) \in backup
      /\ Session(e) \in Sessions /\ keys' = keys \cup {Session(e)}
      /\ \/ /\ Dispatched(e) /\ faults' = faults /\ excused' = excused
            /\ Becomes("sync", "idle", <<>>, <<>>, <<>>, <<>>, <<>>, <<>>, <<>>, {}, "idle")
         \/ /\ Fault /\ excused' = excused \cup {e} /\ sent' = sent
            /\ Becomes("sync", "refused", w.event, w.queued, w.session, w.todo, w.failed, w.rows,
                            w.items, w.handled, w.next)
  BY GivenIs
<1>3. stranded' \subseteq arrived /\ stranded \subseteq stranded'
  BY <1>1, BaseIs
<1>4. PastInv' /\ Grows
  <2> HIDE DEF e
  <2>1. QED
    BY <1>1, <1>2, <1>3, BaseIs, PastStep
<1>5. QueueInv' /\ RecheckInv'
  BY <1>1, <1>4, QueueStays, RecheckStays
<1>6. TableInv'
  BY <1>1 DEF Base, TableInv
<1>7. JobsInv'
  <2>1. JobOK("sync")
    BY TwoWorkers, JobIs DEF Base
  <2>2. /\ w.todo = <<>> /\ w.failed = <<>> /\ w.items = <<>> /\ w.handled = {} /\ w.next = "idle"
    BY <1>2, <2>1 DEF JobOK, Asking
  <2>3. CASE Becomes("sync", "idle", <<>>, <<>>, <<>>, <<>>, <<>>, <<>>, <<>>, {}, "idle")
    BY <1>4, <2>3, TwoWorkers, JobIdles
  <2>4. CASE Becomes("sync", "refused", w.event, w.queued, w.session, w.todo, w.failed, w.rows,
                            w.items, w.handled, w.next)
    <3>1. "refused" \in Asking /\ w.event \in arrived' /\ "refused" # "given"
      BY <1>1, <1>2 DEF Asking
    <3>2. QED
      BY <1>4, <2>2, <2>4, <3>1, JobAsks
  <2>5. QED
    BY <1>2, <2>3, <2>4
<1>8. PhaseInv'
  <2>1. work'["retry"] = work["retry"]
    BY <1>2, TwoWorkers DEF Becomes
  <2>2. QED
    BY <1>1, <1>2, <2>1, PhaseSync
<1>9. QED
  BY <1>4, <1>5, <1>6, <1>7, <1>8 DEF Base

LEMMA EnqueueBase == ASSUME Base, Enqueue PROVE Base' /\ Grows
<1>1. /\ UNCHANGED <<phase, arrived, keys, backup, seen, faults, ends, sent, excused>>
      /\ lost' = lost \cup (Range(table) \ Range(table'))
      /\ \E x : stranded' = stranded \cup {y \in {work["sync"].event} : x}
  BY DEF Enqueue
<1>2. PICK e : e = work["sync"].event
  OBVIOUS
<1>3. /\ work["sync"].at \in Asking /\ e \in arrived /\ e \in Events /\ Session(e) \in Sessions
      /\ Becomes("sync", "idle", <<>>, <<>>, <<>>, <<>>, <<>>, <<>>, <<>>, {}, "idle")
      /\ table' = Saved(table, e)
      /\ \E out \in SUBSET Sessions, cut \in BOOLEAN : Enqueued(e, out, cut)
  BY <1>2, EnqueueIs
<1>4. PICK out \in SUBSET Sessions, cut \in BOOLEAN : Enqueued(e, out, cut)
  BY <1>3
<1>5. PICK h : h = Held(queue, Session(e)) \o New(e)
  OBVIOUS
<1>6. /\ QueueOK(queue')
      /\ \A x : Held(queue', x) = IF x = Session(e) THEN (IF cut THEN Tail(h) ELSE h)
                                    ELSE IF x \in out THEN <<>> ELSE Held(queue, x)
      /\ ids' \subseteq ids \cup {e} /\ recheck' = Detached(out)
  BY <1>4, <1>5 DEF Enqueued
<1>7. TableOK(table') /\ Range(table') \subseteq arrived
  <2>1. TableOK(Saved(table, e)) /\ Range(Saved(table, e)) \subseteq Range(table) \cup {e}
    BY <1>3, BaseIs, SavedIs
  <2>2. QED
    BY <1>3, <2>1, BaseIs
<1>8. PastInv' /\ Grows
  <2>1. stranded' \subseteq arrived /\ stranded \subseteq stranded'
    BY <1>1, <1>2, <1>3, BaseIs
  <2>2. lost' \subseteq arrived
    BY <1>1, BaseIs
  <2>3. QED
    BY <1>1, <1>3, <1>6, <2>1, <2>2, BaseIs, PastStep
<1>9. QueueInv'
  <2>1. Held(queue, Session(e)) \in Seq(Good(Session(e), arrived, keys))
    BY <1>3 DEF Base, QueueInv
  <2>2. New(e) \in Seq(Good(Session(e), arrived, keys))
    <3>1. [ev |-> e, plain |-> FALSE] \in Good(Session(e), arrived, keys)
      BY <1>3 DEF Good, Item
    <3>2. QED
      BY <3>1 DEF New
  <2>3. h \in Seq(Good(Session(e), arrived, keys)) /\ h # <<>>
    <3>1. h \in Seq(Good(Session(e), arrived, keys)) /\ Len(h) = Len(Held(queue, Session(e))) + Len(New(e))
      BY <1>5, <2>1, <2>2, ConcatIs
    <3>2. Len(New(e)) = 1 /\ Len(Held(queue, Session(e))) \in Nat
      BY <2>1 DEF New
    <3>3. QED
      BY <3>1, <3>2
  <2>4. Tail(h) \in Seq(Good(Session(e), arrived, keys))
    BY <2>3
  <2>5. \A x : <<>> \in Seq(Good(x, arrived, keys))
    OBVIOUS
  <2>6. \A x \in Sessions : Held(queue', x) \in Seq(Good(x, arrived, keys))
    BY <1>6, <2>3, <2>4, <2>5 DEF Base, QueueInv
  <2>7. QED
    BY <1>6, <1>8, <2>6, QueueGrows
<1>10. TableInv'
  BY <1>1, <1>7 DEF TableInv
<1>11. JobsInv'
  BY <1>3, <1>8, TwoWorkers, JobIdles
<1>12. RecheckInv'
  BY <1>6, <1>8, RecheckDetached
<1>13. PhaseInv'
  <2>1. work'["retry"] = work["retry"] /\ work["sync"].at # "idle"
    BY <1>3, TwoWorkers DEF Becomes, Asking
  <2>2. recheck.snap = <<>> => recheck' = recheck
    BY <1>4, DetachedRests DEF Enqueued
  <2>3. QED
    BY <1>1, <2>1, <2>2, PhaseSync
<1>14. QED
  BY <1>8, <1>9, <1>10, <1>11, <1>12, <1>13 DEF Base

LEMMA KeyArrivesBase == ASSUME Base, NEW s \in Sessions, KeyArrives(s) PROVE Base' /\ Grows
<1>1. UNCHANGED <<phase, arrived, backup, seen, table, faults, ends, sent, lost, stranded>>
  BY DEF KeyArrives
<1>2. /\ Syncs /\ work["sync"].at = "idle" /\ keys' = keys \cup {s}
      /\ Becomes("sync", "try", <<>>, <<>>, s, Held(queue, s), <<>>, <<s>>, <<>>, {}, "idle")
      /\ Taken(s) /\ TakeUp("sync", Evs(Held(queue, s)))
  BY KeyArrivesIs
<1>3. \A e \in Evs(Held(queue, s)) : e \in arrived
  BY QueueIs DEF Base
<1>4. PastInv' /\ Grows
  <2>1. excused \subseteq excused' /\ excused' \subseteq arrived
    BY <1>2, <1>3, BaseIs DEF TakeUp
  <2>2. ids' \subseteq arrived
    BY <1>2, BaseIs DEF Taken
  <2>3. QED
    BY <1>1, <1>2, <2>1, <2>2, BaseIs, PastStep
<1>5. QueueInv' /\ RecheckInv'
  <2>1. recheck' = Detached({s})
    BY <1>2 DEF Taken
  <2>2. QED
    BY <1>2, <1>4, <2>1, QueueTaken, RecheckDetached
<1>6. TableInv'
  BY <1>1 DEF Base, TableInv
<1>7. JobsInv'
  <2>1. Held(queue, s) \in Seq(Good(s, arrived', keys'))
    <3>1. Held(queue, s) \in Seq(Good(s, arrived, keys))
      BY DEF Base, QueueInv
    <3>2. QED
      BY <1>4, <3>1, GoodGrows DEF Grows
  <2>2. <<>> \in Seq(Good(s, arrived', keys')) /\ Range(<<>>) = {}
    BY DEF Range
  <2>3. QED
    BY <1>2, <1>4, <2>1, <2>2, TwoWorkers, JobsStep DEF Places, Asking
<1>8. PhaseInv'
  <2>1. work'["retry"] = work["retry"]
    BY <1>2, TwoWorkers DEF Becomes
  <2>2. recheck.snap = <<>> => recheck' = recheck
    BY <1>2, DetachedRests DEF Taken
  <2>3. QED
    BY <1>1, <1>2, <2>1, <2>2, PhaseSync
<1>9. QED
  BY <1>4, <1>5, <1>6, <1>7, <1>8 DEF Base

\* The queue after a step.
LEMMA QueueNow ==
    ASSUME QueueInv'
    PROVE  /\ \A s : Held(queue', s) \in Seq(Good(s, arrived', keys')) /\ Held(queue', s) \in Seq(Item)
           /\ \A s : \A e \in Evs(Held(queue', s)) : Session(e) = s /\ e \in arrived'
           /\ \A e : e \in Queued' <=> e \in Evs(Held(queue', Session(e)))
<1>1. PICK q : q = queue'
  OBVIOUS
<1>2. PICK a : a = arrived'
  OBVIOUS
<1>3. PICK k : k = keys'
  OBVIOUS
<1>4. QueueOK(q) /\ \A s \in Sessions : Held(q, s) \in Seq(Good(s, a, k))
  BY <1>1, <1>2, <1>3 DEF QueueInv
<1>5. \A s : s \notin Sessions => Held(q, s) = <<>>
  BY <1>4, HeldIs
<1>6. ASSUME NEW s PROVE Held(q, s) \in Seq(Good(s, a, k))
  <2>1. <<>> \in Seq(Good(s, a, k))
    OBVIOUS
  <2>2. QED
    BY <1>4, <1>5, <2>1
<1>7. ASSUME NEW s PROVE Held(q, s) \in Seq(Item) /\ \A e \in Evs(Held(q, s)) : Session(e) = s /\ e \in a
  BY <1>6, GoodIs
<1>8. \A e : e \in QueuedIn(q) <=> e \in Evs(Held(q, Session(e)))
  BY <1>4, <1>7, QueuedIs
<1>9. Queued' = QueuedIn(q)
  BY <1>1 DEF Queued, QueuedIn
<1>10. QED
  BY <1>1, <1>2, <1>3, <1>6, <1>7, <1>8, <1>9

\* A pass goes on.
LEMMA PhasePass ==
    ASSUME Base, phase' = phase, work'["sync"] = work["sync"], recheck.snap = <<>> => recheck' = recheck,
           LET w == work["retry"] v == work'["retry"] IN
           /\ w.at \notin {"idle", "ensure"} /\ v.at \notin {"idle", "ensure"} /\ v.next = w.next
           /\ w.next # "idle" /\ v.at \in {"pop", "try"} =>
                 /\ \A s \in Range(v.queued) : Held(queue', s) # <<>>
                 /\ \A s : Single({s}, v.queued)
                 /\ v.at = "try" => v.session \notin Range(v.queued)
    PROVE  PhaseInv'
<1> DEFINE w == work["retry"]
           v == work'["retry"]
<1>1. phase \in {"down", "syncing", "starting", "up"} /\ PhaseInv
  BY DEF Base, PastInv
<1>2. CASE phase = "up"
  <2>1. w.next = "idle"
    BY <1>1, <1>2 DEF PhaseInv
  <2>2. QED
    BY <1>2, <2>1, PhaseUp DEF Syncs
<1>3. CASE phase \in {"down", "syncing"}
  BY <1>1, <1>3 DEF PhaseInv
<1>4. CASE phase = "starting"
  <2>1. work["sync"].at = "idle" /\ recheck = Rested /\ w.next \in {"ensure", "up"}
    BY <1>1, <1>4 DEF PhaseInv
  <2>2. recheck' = Rested /\ phase' = "starting" /\ work'["sync"].at = "idle"
    BY <1>4, <2>1 DEF Rested
  <2>3. v.next # "idle" /\ v.at \in {"pop", "try"} =>
                 /\ \A s \in Range(v.queued) : Held(queue', s) # <<>>
                 /\ \A s : Single({s}, v.queued)
                 /\ v.at = "try" => v.session \notin Range(v.queued)
    OBVIOUS
  <2>4. v.at \notin {"idle", "ensure"} /\ v.next \in {"ensure", "up"}
    BY <2>1
  <2> HIDE DEF w, v
  <2>5. QED
    BY <2>2, <2>3, <2>4 DEF PhaseInv, v
<1>5. QED
  BY <1>1, <1>2, <1>3, <1>4

LEMMA TryBase == ASSUME Base, NEW t \in Workers, Try(t) PROVE Base' /\ Grows
<1> DEFINE w == work[t]
           item == Head(w.todo)
<1>1. UNCHANGED <<phase, arrived, keys, backup, seen, queue, ids, table, recheck,
                       ends, lost, stranded>>
  BY DEF Try
<1>2. /\ w.at = "try" /\ w.todo # <<>> /\ w \in Job /\ JobOK(t) /\ item \in Item
      /\ item.ev \in Events /\ item.ev \in arrived /\ Session(item.ev) = w.session
      /\ item.ev \in Evs(w.todo) /\ (item.plain => w.session \in keys)
      /\ \/ /\ Session(item.ev) \in keys /\ Dispatched(item.ev) /\ UNCHANGED <<faults, excused>>
            /\ Becomes(t, "try", w.event, w.queued, w.session, Tail(w.todo), w.failed, w.rows,
                            w.items, w.handled \cup {item.ev}, w.next)
         \/ /\ \/ (item.plain \/ Session(item.ev) \in keys) /\ Fault /\ excused' = excused \cup {item.ev}
               \/ ~item.plain /\ Session(item.ev) \notin keys /\ UNCHANGED <<faults, excused>>
            /\ sent' = sent
            /\ Becomes(t, "try", w.event, w.queued, w.session, Tail(w.todo),
                            Append(w.failed, item), w.rows, w.items, w.handled, w.next)
  BY TryIs
<1>3. PICK e \in arrived : e = item.ev
  BY <1>2
<1>4. PastInv' /\ Grows
  <2>1. /\ faults' = faults \/ Fault
        /\ sent' = sent \/ \E x \in arrived' : Dispatched(x)
        /\ excused \subseteq excused' /\ excused' \subseteq excused \cup {e}
    <3> HIDE DEF item
    <3>1. QED
      BY <1>1, <1>2, <1>3
  <2>2. excused' \subseteq arrived'
    BY <1>1, <2>1, BaseIs
  <2>3. QED
    BY <1>1, <2>1, <2>2, BaseIs, PastStep
<1>5. QueueInv' /\ RecheckInv'
  BY <1>1, <1>4, QueueStays, RecheckStays
<1>6. TableInv'
  BY <1>1 DEF Base, TableInv
<1>7. JobsInv'
  <2>1. /\ w.todo \in Seq(Good(w.session, arrived', keys')) /\ w.failed \in Seq(Good(w.session, arrived', keys'))
        /\ w.session \in Sessions /\ w.items = <<>> /\ (t = "sync" => w.next = "idle")
    BY <1>1, <1>2 DEF JobOK
  <2>2. Tail(w.todo) \in Seq(Good(w.session, arrived', keys')) /\ item \in Good(w.session, arrived', keys')
    BY <1>2, <2>1, TailIs
  <2>3. Append(w.failed, item) \in Seq(Good(w.session, arrived', keys'))
    BY <2>1, <2>2, AppendIs
  <2>4. "try" \in Places(t) /\ "try" \notin {"idle", "ensure"} \cup Asking /\ Range(<<>>) = {}
    BY TwoWorkers DEF Places, Asking, Range
  <2>5. CASE /\ Session(item.ev) \in keys /\ Dispatched(item.ev) /\ UNCHANGED <<faults, excused>>
             /\ Becomes(t, "try", w.event, w.queued, w.session, Tail(w.todo), w.failed, w.rows,
                            w.items, w.handled \cup {item.ev}, w.next)
    <3>1. \A x \in w.handled : x \in arrived' /\ sent'[x] > 0 /\ Session(x) \in keys'
      BY <1>2, <1>4, BaseIs DEF JobOK, Grows
    <3>2. sent'[item.ev] > 0
      BY <1>2, <2>5, BaseIs, DispatchedIs
    <3>3. \A x \in w.handled \cup {item.ev} : x \in arrived' /\ sent'[x] > 0 /\ Session(x) \in keys'
      BY <1>1, <1>2, <2>5, <3>1, <3>2
    <3> HIDE DEF w, item
    <3>4. QED
      BY <1>4, <2>1, <2>2, <2>4, <2>5, <3>3, JobsStep
  <2>6. CASE Becomes(t, "try", w.event, w.queued, w.session, Tail(w.todo),
                            Append(w.failed, item), w.rows, w.items, w.handled, w.next)
    <3>1. \A x \in w.handled : x \in arrived' /\ sent'[x] > 0 /\ Session(x) \in keys'
      BY <1>2, <1>4, BaseIs DEF JobOK, Grows
    <3> HIDE DEF w, item
    <3>2. QED
      BY <1>4, <2>1, <2>2, <2>3, <2>4, <2>6, <3>1, JobsStep
  <2>7. QED
    BY <1>2, <2>5, <2>6
<1>8. PhaseInv'
  <2>1. CASE t = "sync"
    <3>1. work'["retry"] = work["retry"]
      BY <1>2, <2>1, TwoWorkers DEF Becomes
    <3>2. QED
      BY <1>1, <1>2, <2>1, <3>1, PhaseSync
  <2>2. CASE t = "retry"
    <3>1. /\ work'["sync"] = work["sync"] /\ work'[t].at = "try" /\ work'[t].queued = w.queued
          /\ work'[t].session = w.session /\ work'[t].next = w.next
      BY <1>2, <2>2, TwoWorkers DEF Becomes
    <3>3. w.next # "idle" => /\ \A s \in Range(w.queued) : Held(queue, s) # <<>>
                          /\ \A s : Single({s}, w.queued)
                          /\ w.session \notin Range(w.queued)
      BY <1>2, <2>2 DEF Base, PhaseInv
    <3>4. QED
      BY <1>1, <1>2, <2>2, <3>1, <3>3, PhasePass
  <2>3. QED
    BY <2>1, <2>2, TwoWorkers
<1>9. QED
  BY <1>4, <1>5, <1>6, <1>7, <1>8 DEF Base

LEMMA RequeueBase == ASSUME Base, NEW t \in Workers, Requeue(t) PROVE Base' /\ Grows
<1> DEFINE w == work[t]
<1>1. /\ UNCHANGED <<phase, arrived, keys, backup, seen, recheck, faults, ends, sent,
                       excused, stranded>>
      /\ lost' = lost \cup (Range(table) \ Range(table'))
  BY DEF Requeue
<1>2. /\ w.at = "try" /\ w.todo = <<>> /\ w \in Job /\ JobOK(t) /\ w.session \in Sessions
      /\ Back(w) \in Seq(Item) /\ Evs(Back(w)) = Evs(w.failed) \ ids
      /\ Range(Back(w)) \subseteq Range(w.failed)
      /\ QueueOK(queue') /\ ids' = ids \cup Evs(Back(w))
      /\ \A x : Held(queue', x) = IF x = w.session THEN Held(queue, x) \o Back(w) ELSE Held(queue, x)
      /\ TableOK(table') /\ Range(table') \subseteq Range(table) \cup Evs(w.failed)
      /\ t = "retry" => table' = table
      /\ Becomes(t, IF t = "sync" THEN "rows" ELSE "pop", w.event, w.queued, w.session, <<>>,
                      <<>>, w.rows, w.items, w.handled, w.next)
  BY RequeueIs
<1>3. \A e \in Evs(w.failed) : e \in arrived
  BY JobIs DEF Base
<1>4. PastInv' /\ Grows
  <2>1. ids' \subseteq arrived /\ lost' \subseteq arrived
    BY <1>1, <1>2, <1>3, BaseIs
  <2>2. QED
    BY <1>1, <2>1, BaseIs, PastStep
<1>5. QueueInv'
  <2>1. Back(w) \in Seq(Good(w.session, arrived, keys))
    <3>1. w.failed \in Seq(Good(w.session, arrived, keys))
      BY <1>2 DEF JobOK
    <3>2. Range(w.failed) \subseteq Good(w.session, arrived, keys)
      BY <3>1, RangeIs
    <3>3. QED
      BY <1>2, <3>2, SeqOf
  <2>2. Held(queue, w.session) \in Seq(Good(w.session, arrived, keys))
    BY <1>2 DEF Base, QueueInv
  <2>3. Held(queue, w.session) \o Back(w) \in Seq(Good(w.session, arrived, keys))
    BY <2>1, <2>2, ConcatIs
  <2>4. \A x \in Sessions : Held(queue', x) \in Seq(Good(x, arrived, keys))
    BY <1>2, <2>3 DEF Base, QueueInv
  <2>5. QED
    BY <1>2, <1>4, <2>4, QueueGrows
<1>6. TableInv'
  BY <1>1, <1>2, <1>3, BaseIs DEF TableInv
<1>7. JobsInv'
  <2>1. \A x \in w.handled : x \in arrived' /\ sent'[x] > 0 /\ Session(x) \in keys'
    BY <1>2, <1>4, BaseIs DEF JobOK, Grows
  <2>2. w.items = <<>> /\ (t = "sync" => w.next = "idle")
    BY <1>2 DEF JobOK
  <2>3. <<>> \in Seq(Good(w.session, arrived', keys')) /\ Range(<<>>) = {}
    BY DEF Range
  <2>4. PICK at \in {"rows", "pop"} : at = IF t = "sync" THEN "rows" ELSE "pop"
    OBVIOUS
  <2>5. at \in Places(t) /\ at \notin {"idle", "ensure"} \cup Asking /\ at # "try" /\ at # "items"
        /\ at # "given"
    BY <2>4, TwoWorkers DEF Places, Asking
  <2> HIDE DEF w
  <2>6. Becomes(t, at, w.event, w.queued, w.session, <<>>, <<>>, w.rows, w.items, w.handled, w.next)
    BY <1>2, <2>4
  <2>7. QED
    BY <1>4, <2>1, <2>2, <2>3, <2>5, <2>6, JobsStep
<1>8. RecheckInv'
  BY <1>1, <1>4, RecheckStays
<1>9. PhaseInv'
  <2>1. CASE t = "sync"
    <3>1. work'["retry"] = work["retry"]
      BY <1>2, <2>1, TwoWorkers DEF Becomes
    <3>2. QED
      BY <1>1, <1>2, <2>1, <3>1, PhaseSync
  <2>2. CASE t = "retry"
    <3>1. /\ work'["sync"] = work["sync"] /\ work'[t].at = "pop" /\ work'[t].queued = w.queued
          /\ work'[t].session = w.session /\ work'[t].next = w.next
      BY <1>2, <2>2, TwoWorkers DEF Becomes
    <3>3. w.next # "idle" => /\ \A s \in Range(w.queued) : Held(queue, s) # <<>>
                          /\ \A s : Single({s}, w.queued)
      BY <1>2, <2>2 DEF Base, PhaseInv
    <3>4. \A s : Held(queue, s) # <<>> => Held(queue', s) # <<>>
      <4>1. \A s : Held(queue, s) \in Seq(Item)
        BY QueueIs DEF Base
      <4>2. Held(queue, w.session) # <<>> => Held(queue, w.session) \o Back(w) # <<>>
        BY <1>2, <4>1, ConcatIs
      <4>3. QED
        BY <1>2, <4>2
    <3>5. QED
      BY <1>1, <1>2, <2>2, <3>1, <3>3, <3>4, PhasePass
  <2>3. QED
    BY <2>1, <2>2, TwoWorkers
<1>10. QED
  BY <1>4, <1>5, <1>6, <1>7, <1>8, <1>9 DEF Base

LEMMA PopNextBase == ASSUME Base, PopNext PROVE Base' /\ Grows
<1> DEFINE w == work["retry"]
           s == Head(w.queued)
<1>1. UNCHANGED <<phase, arrived, keys, backup, seen, table, faults, ends, sent, lost>>
  BY DEF PopNext
<1>2. w.at = "pop" /\ w \in Job /\ JobOK("retry") /\ w.queued \in Seq(Sessions) /\ TableOK(table)
  BY PopNextIs, JobIs, TwoWorkers, BaseIs
<1>3. /\ w.todo = <<>> /\ w.failed = <<>> /\ w.items = <<>> /\ Range(<<>>) = {}
      /\ \A x : <<>> \in Seq(Good(x, arrived', keys'))
  BY <1>2 DEF JobOK, Range
<1>4. CASE /\ w.queued = <<>> /\ UNCHANGED <<queue, ids, recheck, excused, stranded>>
           /\ Becomes("retry", "rows", w.event, w.queued, w.session, w.todo, w.failed,
                            FailedSessions, w.items, w.handled, w.next)
  <2>1. PastInv' /\ Grows
    BY <1>1, <1>4, BaseIs, PastStep
  <2>2. QueueInv' /\ RecheckInv'
    BY <1>4, <2>1, QueueStays, RecheckStays
  <2>3. TableInv'
    BY <1>1 DEF Base, TableInv
  <2>4. JobsInv'
    <3>1. "rows" \in Places("retry") /\ w.handled = work["retry"].handled /\ Range(w.items) \subseteq arrived'
      BY <1>3 DEF Places
    <3> HIDE DEF w
    <3>2. QED
      BY <1>3, <1>4, <2>1, <3>1, TwoWorkers, JobPasses
  <2>5. PhaseInv'
    <3>1. /\ work'["sync"] = work["sync"] /\ work'["retry"].at = "rows"
          /\ work'["retry"].queued = w.queued /\ work'["retry"].handled = w.handled
          /\ work'["retry"].next = w.next
      BY <1>4, TwoWorkers DEF Becomes
    <3>2. QED
      BY <1>1, <1>2, <1>4, <3>1, PhasePass
  <2>6. QED
    BY <2>1, <2>2, <2>3, <2>4, <2>5 DEF Base
<1>5. CASE /\ w.queued # <<>> /\ Held(queue, s) = <<>>
           /\ Becomes("retry", "idle", <<>>, <<>>, <<>>, <<>>, <<>>, <<>>, <<>>, {}, "idle")
           /\ stranded' = stranded \cup Queued \cup Range(table)
           /\ excused' = excused \cup w.handled
           /\ UNCHANGED <<queue, ids, recheck>>
  <2>1. PastInv' /\ Grows
    <3>1. w.handled \subseteq arrived
      BY <1>2 DEF JobOK
    <3>2. excused' \subseteq arrived /\ stranded' \subseteq arrived
      BY <1>5, <3>1, BaseIs
    <3>3. QED
      BY <1>1, <1>5, <3>2, BaseIs, PastStep
  <2>2. QueueInv' /\ RecheckInv'
    BY <1>5, <2>1, QueueStays, RecheckStays
  <2>3. TableInv'
    BY <1>1 DEF Base, TableInv
  <2>4. JobsInv'
    BY <1>5, <2>1, TwoWorkers, JobIdles
  <2>5. PhaseInv'
    <3>1. s \in Range(w.queued)
      BY <1>2, <1>5, TailIs
    <3>2. phase = "up"
      BY <1>2, <1>5, <3>1 DEF Base, PhaseInv, PastInv
    <3>3. work'["retry"].at = "idle" /\ work'["retry"].next = "idle"
      BY <1>5 DEF Becomes
    <3>4. QED
      BY <1>1, <3>2, <3>3, PhaseUp DEF Syncs
  <2>6. QED
    BY <2>1, <2>2, <2>3, <2>4, <2>5 DEF Base
<1>6. CASE /\ w.queued # <<>> /\ Held(queue, s) # <<>> /\ s \in Sessions
           /\ Becomes("retry", "try", w.event, Tail(w.queued), s, Held(queue, s), w.failed,
                            w.rows, w.items, w.handled, w.next)
           /\ Taken(s) /\ TakeUp("retry", Evs(Held(queue, s))) /\ UNCHANGED stranded
  <2>1. PastInv' /\ Grows
    <3>1. \A e \in Evs(Held(queue, s)) : e \in arrived
      BY QueueIs DEF Base
    <3>2. excused \subseteq excused' /\ excused' \subseteq arrived
      BY <1>6, <3>1, BaseIs DEF TakeUp
    <3>3. ids' \subseteq arrived
      BY <1>6, BaseIs DEF Taken
    <3>4. QED
      BY <1>1, <1>6, <3>2, <3>3, BaseIs, PastStep
  <2>2. recheck' = Detached({s})
    BY <1>6 DEF Taken
  <2>3. QueueInv' /\ RecheckInv'
    BY <1>6, <2>1, <2>2, QueueTaken, RecheckDetached
  <2>4. TableInv'
    BY <1>1 DEF Base, TableInv
  <2>5. JobsInv'
    <3>1. Held(queue, s) \in Seq(Good(s, arrived', keys'))
      BY <1>1, <1>6 DEF Base, QueueInv
    <3>2. \A x \in w.handled : x \in arrived' /\ sent'[x] > 0 /\ Session(x) \in keys'
      BY <1>2, <2>1, BaseIs DEF JobOK, Grows
    <3>3. "try" \in Places("retry") /\ "try" \notin {"idle", "ensure"} \cup Asking
      BY DEF Places, Asking
    <3>4. w.failed \in Seq(Good(s, arrived', keys')) /\ Range(w.items) \subseteq arrived' /\ "retry" # "sync"
      BY <1>3
    <3> HIDE DEF w, s
    <3>5. JobOK("retry")'
      BY <1>3, <1>6, <3>1, <3>2, <3>3, <3>4 DEF JobOK, Becomes
    <3>6. JobOK("sync")'
      BY <1>6, <2>1, TwoWorkers, JobGrows DEF Becomes
    <3>7. QED
      BY <1>6, <3>5, <3>6, TwoWorkers DEF JobsInv, Becomes
  <2>6. PhaseInv'
    <3>1. /\ work'["sync"] = work["sync"] /\ work'["retry"].at = "try"
          /\ work'["retry"].queued = Tail(w.queued) /\ work'["retry"].session = s
          /\ work'["retry"].next = w.next
      BY <1>6, TwoWorkers DEF Becomes
    <3>2. recheck.snap = <<>> => recheck' = recheck
      BY <2>2, DetachedIs DEF Base
    <3>4. Range(Tail(w.queued)) \subseteq Range(w.queued) /\ s \in Range(w.queued)
      BY <1>2, <1>6, TailIs
    <3>5. w.next # "idle" =>
            /\ \A x \in Range(Tail(w.queued)) : Held(queue', x) # <<>>
            /\ \A x : Single({x}, Tail(w.queued))
            /\ s \notin Range(Tail(w.queued))
      <4> SUFFICES ASSUME w.next # "idle"
                   PROVE  /\ \A x \in Range(Tail(w.queued)) : Held(queue', x) # <<>>
                          /\ \A x : Single({x}, Tail(w.queued))
                          /\ s \notin Range(Tail(w.queued))
        OBVIOUS
      <4>1. /\ \A x \in Range(w.queued) : Held(queue, x) # <<>>
            /\ \A x : Single({x}, w.queued)
        BY <1>2 DEF Base, PhaseInv
      <4>2. \A x : Single({x}, Tail(w.queued))
        BY <1>2, <1>6, <4>1, TailIs
      <4>3. s \notin Range(Tail(w.queued))
        <5> DEFINE P == {s}
        <5>1. Single(P, w.queued) /\ s \in P
          BY <4>1
        <5> HIDE DEF P
        <5>2. QED
          BY <1>2, <1>6, <5>1, TailIs
      <4>4. QED
        BY <1>6, <3>4, <4>1, <4>2, <4>3 DEF Taken
    <3> HIDE DEF s
    <3>7. QED
      BY <1>1, <1>2, <3>1, <3>2, <3>5, PhasePass
  <2>7. QED
    BY <2>1, <2>3, <2>4, <2>5, <2>6 DEF Base
<1>7. QED
  BY <1>4, <1>5, <1>6, PopNextIs

LEMMA TryRowBase == ASSUME Base, NEW t \in Workers, TryRow(t) PROVE Base' /\ Grows
<1> DEFINE w == work[t]
           e == Head(w.items)
<1>1. UNCHANGED <<phase, arrived, keys, backup, seen, queue, ids, recheck, ends, stranded>>
  BY DEF TryRow
<1>2. /\ w.at = "items" /\ w.items # <<>> /\ w \in Job /\ JobOK(t)
      /\ e \in arrived /\ e \in Events /\ Range(w.items) = {e} \cup Range(Tail(w.items))
      /\ Becomes(t, "items", w.event, w.queued, w.session, w.todo, w.failed, w.rows,
                      Tail(w.items), w.handled, w.next)
      /\ \/ Session(e) \in keys /\ Dispatched(e) /\ UNCHANGED <<table, faults, lost, excused>>
         \/ Fault /\ lost' = lost \cup {e} /\ UNCHANGED <<table, sent, excused>>
         \/ /\ \/ Session(e) \in keys /\ Fault /\ excused' = excused \cup {e}
               \/ Session(e) \notin keys /\ UNCHANGED <<faults, excused>>
            /\ table' = Saved(table, e)
            /\ lost' = lost \cup (Range(table) \ Range(table'))
            /\ UNCHANGED sent
  BY TryRowIs
<1>3. TableOK(Saved(table, e)) /\ Range(Saved(table, e)) \subseteq Range(table) \cup {e}
  BY <1>2, BaseIs, SavedIs
<1>4. /\ TableOK(table') /\ Range(table') \subseteq Range(table) \cup {e}
      /\ (faults' = faults \/ Fault) /\ (sent' = sent \/ Dispatched(e))
      /\ excused \subseteq excused' /\ excused' \subseteq excused \cup {e}
      /\ lost \subseteq lost' /\ lost' \subseteq lost \cup {e} \cup Range(table)
  <2> HIDE DEF e
  <2>1. QED
    BY <1>2, <1>3, BaseIs
<1>5. PastInv' /\ Grows
  <2>1. lost' \subseteq arrived /\ excused' \subseteq arrived
    BY <1>2, <1>4, BaseIs
  <2>2. sent' = sent \/ \E x \in arrived' : Dispatched(x)
    BY <1>1, <1>2, <1>4
  <2>3. QED
    BY <1>1, <1>4, <2>1, <2>2, BaseIs, PastStep
<1>6. QueueInv' /\ RecheckInv'
  BY <1>1, <1>5, QueueStays, RecheckStays
<1>7. TableInv'
  BY <1>1, <1>2, <1>4, BaseIs DEF TableInv
<1>8. JobsInv'
  <2>1. /\ w.todo = <<>> /\ w.failed = <<>> /\ Range(Tail(w.items)) \subseteq arrived'
        /\ (t = "sync" => w.next = "idle") /\ w.handled = work[t].handled
    BY <1>1, <1>2 DEF JobOK
  <2>2. "items" \in Places(t)
    BY TwoWorkers DEF Places, Asking
  <2> HIDE DEF w
  <2>3. QED
    BY <1>2, <1>5, <2>1, <2>2, JobPasses
<1>9. PhaseInv'
  <2>1. CASE t = "sync"
    <3>1. work'["retry"] = work["retry"]
      BY <1>2, <2>1, TwoWorkers DEF Becomes
    <3>2. QED
      BY <1>1, <1>2, <2>1, <3>1, PhaseSync
  <2>2. CASE t = "retry"
    <3>1. /\ work'["sync"] = work["sync"] /\ work'[t].at = "items" /\ work'[t].queued = w.queued
          /\ work'[t].session = w.session /\ work'[t].next = w.next /\ work'[t].handled = w.handled
      BY <1>2, <2>2, TwoWorkers DEF Becomes
    <3>2. QED
      BY <1>1, <1>2, <2>2, <3>1, PhasePass
  <2>3. QED
    BY <2>1, <2>2, TwoWorkers
<1>10. QED
  BY <1>5, <1>6, <1>7, <1>8, <1>9 DEF Base

LEMMA RowsDoneBase == ASSUME Base, NEW t \in Workers, RowsDone(t) PROVE Base' /\ Grows
<1> DEFINE w == work[t]
<1>1. UNCHANGED <<phase, arrived, keys, backup, seen, queue, ids, table, recheck, faults,
                   ends, sent, lost, excused, stranded>>
  BY DEF RowsDone
<1>2. /\ w.at = "items" /\ w.items = <<>> /\ w \in Job /\ JobOK(t)
      /\ Becomes(t, "rows", w.event, w.queued, w.session, w.todo, w.failed, w.rows, w.items, w.handled, w.next)
  BY RowsDoneIs
<1>3. PastInv' /\ Grows
  BY <1>1, BaseIs, PastStep
<1>4. QueueInv' /\ RecheckInv'
  BY <1>1, <1>3, QueueStays, RecheckStays
<1>5. TableInv'
  BY <1>1 DEF Base, TableInv
<1>6. JobsInv'
  <2>1. /\ w.todo = <<>> /\ w.failed = <<>> /\ Range(w.items) \subseteq arrived'
        /\ (t = "sync" => w.next = "idle") /\ w.handled = work[t].handled
    BY <1>1, <1>2 DEF JobOK
  <2>2. "rows" \in Places(t)
    BY TwoWorkers DEF Places, Asking
  <2> HIDE DEF w
  <2>3. QED
    BY <1>2, <1>3, <2>1, <2>2, JobPasses
<1>7. PhaseInv'
  <2>1. CASE t = "sync"
    <3>1. work'["retry"] = work["retry"]
      BY <1>2, <2>1, TwoWorkers DEF Becomes
    <3>2. QED
      BY <1>1, <1>2, <2>1, <3>1, PhaseSync
  <2>2. CASE t = "retry"
    <3>1. /\ work'["sync"] = work["sync"] /\ work'[t].at = "rows" /\ work'[t].queued = w.queued
          /\ work'[t].session = w.session /\ work'[t].next = w.next /\ work'[t].handled = w.handled
      BY <1>2, <2>2, TwoWorkers DEF Becomes
    <3>2. QED
      BY <1>1, <1>2, <2>2, <3>1, PhasePass
  <2>3. QED
    BY <2>1, <2>2, TwoWorkers
<1>8. QED
  BY <1>3, <1>4, <1>5, <1>6, <1>7 DEF Base

LEMMA PopRowsBase == ASSUME Base, NEW t \in Workers, PopRows(t) PROVE Base' /\ Grows
<1> DEFINE w == work[t]
           s == Head(w.rows)
<1>1. UNCHANGED <<arrived, keys, backup, seen, queue, ids, recheck, faults, ends,
                       sent, lost, stranded>>
  BY DEF PopRows
<1>2. w.at = "rows" /\ w \in Job /\ JobOK(t) /\ w.items = <<>> /\ w.todo = <<>> /\ w.failed = <<>>
      /\ (t = "sync" => w.next = "idle") /\ w.handled = work[t].handled
  BY PopRowsIs DEF JobOK
<1>3. Queued' = Queued
  BY <1>1 DEF Queued
<1>4. CASE /\ w.rows = <<>> /\ Ends(t, w.next) /\ UNCHANGED <<table, excused>>
           /\ phase' = IF w.next = "up" THEN "up" ELSE phase
  <2>1. PastInv' /\ Grows
    <3>1. phase' \in {"down", "syncing", "starting", "up"}
      BY <1>4, BaseIs
    <3>2. QED
      BY <1>1, <1>4, <3>1, BaseIs, PastStep
  <2>2. QueueInv' /\ RecheckInv'
    BY <1>1, <2>1, QueueStays, RecheckStays
  <2>3. TableInv'
    BY <1>1, <1>4 DEF Base, TableInv
  <2>4. CASE w.next = "ensure"
    <3>1. Becomes(t, "ensure", <<>>, <<>>, <<>>, <<>>, <<>>, FailedSessions, <<>>, {}, "idle") /\ t = "retry"
      BY <1>2, <1>4, <2>4, TwoWorkers DEF Ends
    <3>2. JobsInv'
      <4>1. <<>> \in Seq(Good(<<>>, arrived', keys')) /\ Range(<<>>) = {} /\ "ensure" \in Places("retry")
        BY DEF Range, Places
      <4>2. "ensure" \notin Asking
        BY DEF Asking
      <4>3. JobOK("retry")'
        BY <3>1, <4>1, <4>2 DEF JobOK, Becomes
      <4>4. JobOK("sync")'
        BY <2>1, <3>1, TwoWorkers, JobGrows DEF Becomes
      <4>5. QED
        BY <3>1, <4>3, <4>4, TwoWorkers DEF JobsInv, Becomes
    <3>3. PhaseInv'
      <4>1. /\ work'["sync"] = work["sync"] /\ work'["retry"].at = "ensure" /\ work'["retry"].next = "idle"
            /\ Range(work'["retry"].rows) = {Session(e) : e \in Range(table')}
        BY <1>4, <3>1, BaseIs, TwoWorkers, FailedSessionsIs DEF Becomes
      <4>2. phase = "starting" /\ phase' = "starting"
        BY <1>2, <1>4, <2>4, <3>1, BaseIs DEF Base, PhaseInv
      <4>3. work["sync"].at = "idle" /\ recheck = Rested
        BY <4>2 DEF Base, PhaseInv
      <4>4. QED
        BY <1>1, <1>3, <4>1, <4>2, <4>3 DEF PhaseInv
    <3>4. QED
      BY <2>1, <2>2, <2>3, <3>2, <3>3 DEF Base
  <2>5. CASE w.next # "ensure"
    <3>1. Becomes(t, "idle", <<>>, <<>>, <<>>, <<>>, <<>>, <<>>, <<>>, {}, "idle")
      BY <1>4, <2>5 DEF Ends
    <3>2. JobsInv'
      BY <2>1, <3>1, JobIdles
    <3>3. PhaseInv'
      <4>1. CASE t = "sync"
        <5>1. phase' = phase /\ work'["retry"] = work["retry"]
          BY <1>2, <1>4, <3>1, <4>1, TwoWorkers DEF Becomes
        <5>2. QED
          BY <1>1, <1>2, <4>1, <5>1, PhaseSync
      <4>2. CASE t = "retry"
        <5>1. phase' = "up"
          BY <1>2, <1>4, <2>5, <4>2, BaseIs DEF PhaseInv
        <5>2. work'["retry"].at # "ensure" /\ work'["retry"].next = "idle"
          BY <3>1, <4>2 DEF Becomes
        <5>3. QED
          BY <5>1, <5>2, PhaseUp DEF Syncs
      <4>3. QED
        BY <4>1, <4>2, TwoWorkers
    <3>4. QED
      BY <2>1, <2>2, <2>3, <3>2, <3>3 DEF Base
  <2>6. QED
    BY <2>4, <2>5
<1>5. ASSUME w.rows # <<>>, UNCHANGED phase, TableOK(table'), Range(table') \subseteq Range(table),
             excused \subseteq excused', excused' \subseteq excused \cup Range(table),
             NEW at \in {"rows", "items"}, NEW items, at = "rows" => items = <<>>, Range(items) \subseteq arrived,
             Becomes(t, at, w.event, w.queued, w.session, w.todo, w.failed,
                            Tail(w.rows), items, w.handled, w.next)
      PROVE  Base' /\ Grows
  <2>1. PastInv' /\ Grows
    <3>1. excused' \subseteq arrived
      BY <1>5, BaseIs
    <3>2. QED
      BY <1>1, <1>5, <3>1, BaseIs, PastStep
  <2>2. QueueInv' /\ RecheckInv'
    BY <1>1, <2>1, QueueStays, RecheckStays
  <2>3. TableInv'
    BY <1>1, <1>5, BaseIs DEF TableInv
  <2>4. JobsInv'
    <3>1. at \in Places(t) /\ at \in {"pop", "rows", "items"} /\ Range(items) \subseteq arrived'
      BY <1>1, <1>5, TwoWorkers DEF Places, Asking
    <3> HIDE DEF w
    <3>2. QED
      BY <1>2, <1>5, <2>1, <3>1, JobPasses
  <2>5. PhaseInv'
    <3>1. CASE t = "sync"
      <4>1. work'["retry"] = work["retry"]
        BY <1>5, <3>1, TwoWorkers DEF Becomes
      <4>2. QED
        BY <1>1, <1>2, <1>5, <3>1, <4>1, PhaseSync
    <3>2. CASE t = "retry"
      <4>1. /\ work'["sync"] = work["sync"] /\ work'[t].at = at /\ work'[t].queued = w.queued
            /\ work'[t].session = w.session /\ work'[t].next = w.next /\ work'[t].handled = w.handled
        BY <1>5, <3>2, TwoWorkers DEF Becomes
      <4>2. QED
        BY <1>1, <1>2, <1>3, <1>5, <3>2, <4>1, PhasePass
    <3>3. QED
      BY <3>1, <3>2, TwoWorkers
  <2>6. QED
    BY <2>1, <2>2, <2>3, <2>4, <2>5 DEF Base
<1>6. CASE /\ w.rows # <<>> /\ UNCHANGED <<phase, table, excused>>
           /\ Becomes(t, "rows", w.event, w.queued, w.session, w.todo, w.failed,
                            Tail(w.rows), w.items, w.handled, w.next)
  <2>1. Range(w.items) \subseteq arrived
    BY <1>2 DEF Range
  <2> HIDE DEF w
  <2>2. QED
    BY <1>2, <1>5, <1>6, <2>1, BaseIs
<1>7. CASE /\ w.rows # <<>> /\ s \in Sessions /\ UNCHANGED phase
           /\ \E items \in Seq(Events) :
                       /\ Range(items) = {e \in Range(table) : Session(e) = s} \ w.handled
                       /\ \A e : Single({e}, items)
                       /\ Becomes(t, "items", w.event, w.queued, w.session, w.todo, w.failed,
                                  Tail(w.rows), items, w.handled, w.next)
           /\ TableOK(table') /\ Range(table') = {e \in Range(table) : Session(e) # s}
           /\ excused' = excused \cup ({e \in Range(table) : Session(e) = s}
                                             \cap (Claimed(t) \cup Queued))
  <2>1. PICK items \in Seq(Events) :
                       /\ Range(items) = {e \in Range(table) : Session(e) = s} \ w.handled
                       /\ Becomes(t, "items", w.event, w.queued, w.session, w.todo, w.failed,
                                  Tail(w.rows), items, w.handled, w.next)
    BY <1>7
  <2>2. Range(items) \subseteq arrived
    BY <2>1, BaseIs
  <2>3. Range(table') \subseteq Range(table) /\ excused' \subseteq excused \cup Range(table) /\ excused \subseteq excused'
    BY <1>7
  <2> HIDE DEF w, s
  <2>4. QED
    BY <1>5, <1>7, <2>1, <2>2, <2>3
<1>8. QED
  BY <1>4, <1>6, <1>7, PopRowsIs

LEMMA BackUpBase == ASSUME Base, NEW s \in Sessions, BackUp(s) PROVE Base' /\ Grows
<1>1. /\ backup' = backup \cup {s}
      /\ UNCHANGED <<phase, arrived, keys, seen, queue, ids, table, work, recheck, faults,
                   ends, sent, lost, excused, stranded>>
  BY DEF BackUp
<1>2. PastInv' /\ Grows
  BY <1>1, BaseIs, PastStep
<1>3. QueueInv' /\ RecheckInv' /\ JobsInv'
  BY <1>1, <1>2, QueueStays, RecheckStays, JobsStay
<1>4. TableInv' /\ PhaseInv'
  BY <1>1 DEF Base, TableInv, PhaseInv, Queued
<1>5. QED
  BY <1>2, <1>3, <1>4 DEF Base

\* A pass over the queue is on its way.
LEMMA BeginsJobs ==
    ASSUME Base, Grows, NEW next, Begins(next)
    PROVE  JobsInv'
<1>1. Becomes("retry", "pop", <<>>, QueueSessions, <<>>, <<>>, <<>>, <<>>, <<>>, {}, next)
  BY DEF Begins
<1>2. <<>> \in Seq(Good(<<>>, arrived', keys')) /\ Range(<<>>) = {} /\ "pop" \in Places("retry")
      /\ "pop" \notin Asking
  BY DEF Range, Places, Asking
<1>3. JobOK("retry")'
  BY <1>1, <1>2 DEF JobOK, Becomes
<1>4. JobOK("sync")'
  BY <1>1, TwoWorkers, JobGrows DEF Becomes
<1>5. QED
  BY <1>1, <1>3, <1>4, TwoWorkers DEF JobsInv, Becomes

LEMMA StartBase == ASSUME Base, Start PROVE Base' /\ Grows
<1>1. /\ phase = "down" /\ phase' = "syncing"
      /\ UNCHANGED <<arrived, keys, backup, seen, queue, ids, table, work, recheck, faults, ends,
                     sent, lost, excused, stranded>>
  BY DEF Start
<1>2. PastInv' /\ Grows
  BY <1>1, BaseIs, PastStep
<1>3. QueueInv' /\ RecheckInv' /\ JobsInv'
  BY <1>1, <1>2, QueueStays, RecheckStays, JobsStay
<1>4. TableInv' /\ PhaseInv'
  BY <1>1 DEF Base, TableInv, PhaseInv
<1>5. QED
  BY <1>2, <1>3, <1>4 DEF Base

LEMMA SyncedBase == ASSUME Base, Synced PROVE Base' /\ Grows
<1>1. UNCHANGED <<arrived, backup, queue, ids, table, recheck, ends, sent, lost, excused>>
      /\ stranded' = {}
  BY DEF Synced
<1>2. /\ phase = "syncing" /\ phase' = "starting"
      /\ keys \subseteq keys' /\ keys' \subseteq keys \cup backup /\ (faults' = faults \/ Fault)
      /\ \/ seen' = backup /\ Begins("ensure")
         \/ seen' = seen /\ keys' = keys /\ Ends("retry", "ensure")
  BY SyncedIs
<1>3. PastInv' /\ Grows
  <2>1. keys' \subseteq Sessions /\ seen' \subseteq backup'
    BY <1>1, <1>2, BaseIs
  <2>2. QED
    BY <1>1, <1>2, <2>1, BaseIs, PastStep
<1>4. QueueInv' /\ RecheckInv'
  BY <1>1, <1>3, QueueStays, RecheckStays
<1>5. TableInv' /\ Queued' = Queued
  BY <1>1 DEF Base, TableInv, Queued
<1>6. work["sync"].at = "idle" /\ recheck = Rested
  BY <1>2, SyncedIs DEF Base, PhaseInv
<1>7. CASE Begins("ensure")
  <2>1. JobsInv'
    BY <1>3, <1>7, BeginsJobs
  <2>2. (\A s : Single({s}, QueueSessions)) /\ \A s : s \in Range(QueueSessions) <=> Held(queue, s) # <<>>
    BY BaseIs, QueueSessionsAre
  <2>3. /\ work'["sync"] = work["sync"] /\ work'["retry"].at = "pop" /\ work'["retry"].next = "ensure"
        /\ work'["retry"].queued = QueueSessions
    BY <1>7, TwoWorkers DEF Begins, Becomes
  <2>4. PhaseInv'
    <3>1. (\A s : Single({s}, work'["retry"].queued)) /\ \A s \in Range(work'["retry"].queued) : Held(queue', s) # <<>>
      BY <1>1, <2>2, <2>3
    <3>2. QED
      BY <1>1, <1>2, <1>6, <2>3, <3>1 DEF PhaseInv
  <2>5. QED
    BY <1>3, <1>4, <1>5, <2>1, <2>4 DEF Base
<1>8. CASE Ends("retry", "ensure")
  <2>1. Becomes("retry", "ensure", <<>>, <<>>, <<>>, <<>>, <<>>, FailedSessions, <<>>, {}, "idle")
    BY <1>8 DEF Ends
  <2>2. JobsInv'
    <3>1. <<>> \in Seq(Good(<<>>, arrived', keys')) /\ Range(<<>>) = {} /\ "ensure" \in Places("retry")
          /\ "ensure" \notin Asking
      BY DEF Range, Places, Asking
    <3>2. JobOK("retry")'
      BY <2>1, <3>1 DEF JobOK, Becomes
    <3>3. JobOK("sync")'
      BY <1>3, <2>1, TwoWorkers, JobGrows DEF Becomes
    <3>4. QED
      BY <2>1, <3>2, <3>3, TwoWorkers DEF JobsInv, Becomes
  <2>3. /\ work'["sync"] = work["sync"] /\ work'["retry"].at = "ensure" /\ work'["retry"].next = "idle"
        /\ Range(work'["retry"].rows) = {Session(e) : e \in Range(table')}
    BY <1>1, <2>1, BaseIs, TwoWorkers, FailedSessionsIs DEF Becomes
  <2>4. PhaseInv'
    BY <1>1, <1>2, <1>6, <2>3 DEF PhaseInv
  <2>5. QED
    BY <1>3, <1>4, <1>5, <2>2, <2>4 DEF Base
<1>9. QED
  BY <1>2, <1>7, <1>8

LEMMA PeriodicRestoreBase == ASSUME Base, PeriodicRestore PROVE Base' /\ Grows
<1>1. UNCHANGED <<phase, arrived, backup, queue, ids, table, recheck, ends, sent, lost,
                   excused, stranded>>
  BY DEF PeriodicRestore
<1>2. /\ phase = "up" /\ work["retry"].at = "idle"
      /\ keys \subseteq keys' /\ keys' \subseteq keys \cup backup /\ (faults' = faults \/ Fault)
      /\ \/ seen' = backup /\ Begins("idle")
         \/ /\ seen' = seen /\ keys' = keys
            /\ Becomes("retry", "idle", <<>>, <<>>, <<>>, <<>>, <<>>, <<>>, <<>>, {}, "idle")
         \/ seen' = backup /\ work' = work /\ queue = <<>> /\ table = <<>>
  BY PeriodicRestoreIs
<1>3. PastInv' /\ Grows
  <2>1. keys' \subseteq Sessions /\ seen' \subseteq backup'
    BY <1>1, <1>2, BaseIs
  <2>2. QED
    BY <1>1, <1>2, <2>1, BaseIs, PastStep
<1>4. QueueInv' /\ RecheckInv'
  BY <1>1, <1>3, QueueStays, RecheckStays
<1>5. TableInv'
  BY <1>1 DEF Base, TableInv
<1>6. JobsInv'
  BY <1>2, <1>3, BeginsJobs, JobIdles, JobsStay, TwoWorkers
<1>7. PhaseInv'
  <2>1. work'["retry"].at # "ensure" /\ work'["retry"].next = "idle"
    BY <1>2, UpIs DEF Begins, Becomes, Syncs
  <2>2. QED
    BY <1>1, <1>2, <2>1, PhaseUp DEF Syncs
<1>8. QED
  BY <1>3, <1>4, <1>5, <1>6, <1>7 DEF Base

LEMMA EnsureBase == ASSUME Base, Ensure PROVE Base' /\ Grows
<1> DEFINE w == work["retry"]
           s == Head(w.rows)
<1>1. UNCHANGED <<phase, arrived, keys, backup, seen, table, recheck, ends, sent, lost,
                       stranded>>
  BY DEF Ensure
<1>2. /\ w.at = "ensure" /\ w.rows # <<>> /\ s \in Sessions /\ w \in Job
      /\ Becomes("retry", "ensure", w.event, w.queued, w.session, w.todo, w.failed, Tail(w.rows),
                      w.items, w.handled, w.next)
      /\ \/ UNCHANGED <<queue, ids, excused>> /\ (faults' = faults \/ Fault)
         \/ /\ UNCHANGED faults
            /\ \E e \in Range(table) :
                       /\ Session(e) = s /\ e \notin ids /\ Fetched(e) \in Seq(Item)
                       /\ excused' = excused \cup ({e} \cap Queued)
                       /\ QueueOK(queue') /\ ids' = ids \cup {e}
                       /\ \A x : Held(queue', x) = IF x = s THEN Held(queue, x) \o Fetched(e)
                                                   ELSE Held(queue, x)
  BY EnsureIs
<1>3. JobOK("retry") /\ w.rows \in Seq(Sessions)
  BY TwoWorkers, JobIs DEF Base
<1>4. /\ w.todo = <<>> /\ w.failed = <<>> /\ w.items = <<>> /\ w.handled = {}
  BY <1>2, <1>3 DEF JobOK
<1>5. /\ ids' \subseteq arrived /\ (faults' = faults \/ Fault)
      /\ excused \subseteq excused' /\ excused' \subseteq arrived
  BY <1>2, BaseIs
<1>6. PastInv' /\ Grows
  BY <1>1, <1>5, BaseIs, PastStep
<1>7. TableInv' /\ RecheckInv'
  BY <1>1, <1>6, RecheckStays DEF Base, TableInv
<1>8. JobsInv'
  <2>1. <<>> \in Seq(Good(w.session, arrived', keys')) /\ Range(<<>>) = {} /\ "ensure" \in Places("retry")
        /\ "ensure" \notin Asking
    BY DEF Range, Places, Asking
  <2>2. JobOK("retry")'
    BY <1>2, <1>4, <2>1 DEF JobOK, Becomes
  <2>3. JobOK("sync")'
    BY <1>2, <1>6, TwoWorkers, JobGrows DEF Becomes
  <2>4. QED
    BY <1>2, <2>2, <2>3, TwoWorkers DEF JobsInv, Becomes
<1>9. QueueInv'
  <2>1. CASE UNCHANGED <<queue, ids>>
    BY <1>6, <2>1, QueueStays
  <2>2. CASE \E e \in Range(table) :
                       /\ Session(e) = s /\ e \notin ids /\ Fetched(e) \in Seq(Item)
                       /\ excused' = excused \cup ({e} \cap Queued)
                       /\ QueueOK(queue') /\ ids' = ids \cup {e}
                       /\ \A x : Held(queue', x) = IF x = s THEN Held(queue, x) \o Fetched(e)
                                                   ELSE Held(queue, x)
    <3>1. PICK e \in Range(table) :
                       /\ Session(e) = s /\ Fetched(e) \in Seq(Item) /\ QueueOK(queue')
                       /\ \A x : Held(queue', x) = IF x = s THEN Held(queue, x) \o Fetched(e)
                                                   ELSE Held(queue, x)
      BY <2>2
    <3>2. Fetched(e) \in Seq(Good(s, arrived, keys))
      <4>1. [ev |-> e, plain |-> Session(e) \in keys] \in Good(s, arrived, keys)
        <5>1. [ev |-> e, plain |-> Session(e) \in keys] \in Item /\ e \in arrived
          BY <3>1, BaseIs DEF Item
        <5>2. CASE s \in keys
          BY <3>1, <5>1, <5>2 DEF Good
        <5>3. CASE s \notin keys
          <6>1. [ev |-> e, plain |-> Session(e) \in keys] = [ev |-> e, plain |-> FALSE]
            <7>1. (Session(e) \in keys) = FALSE
              BY <3>1, <5>3
            <7>2. QED
              BY <7>1, Zenon
          <6>2. QED
            BY <3>1, <5>1, <6>1 DEF Good
        <5>4. QED
          BY <5>2, <5>3
      <4>2. QED
        BY <4>1 DEF Fetched
    <3>3. Held(queue, s) \o Fetched(e) \in Seq(Good(s, arrived, keys))
      <4>1. Held(queue, s) \in Seq(Good(s, arrived, keys))
        BY QueueIs DEF Base
      <4>2. QED
        BY <3>2, <4>1, ConcatIs
    <3>4. \A x \in Sessions : Held(queue', x) \in Seq(Good(x, arrived, keys))
      BY <3>1, <3>3 DEF Base, QueueInv
    <3>5. QED
      BY <1>6, <3>1, <3>4, QueueGrows
  <2>3. QED
    BY <1>2, <2>1, <2>2
<1>10. PhaseInv'
  <2>1. phase = "starting" /\ phase' = "starting"
    BY <1>1, <1>2, BaseIs DEF PhaseInv
  <2>2. work["sync"].at = "idle" /\ recheck' = Rested
        /\ Range(w.rows) \subseteq {Session(e) : e \in Range(table')}
    BY <1>1, <1>2, <2>1 DEF Base, PhaseInv
  <2>3. Range(Tail(w.rows)) \subseteq Range(w.rows)
    BY <1>2, <1>3, TailIs
  <2>4. /\ work'["sync"] = work["sync"] /\ work'["retry"].at = "ensure" /\ work'["retry"].next = w.next
        /\ work'["retry"].rows = Tail(w.rows)
    BY <1>2, TwoWorkers DEF Becomes
  <2> HIDE DEF w
  <2>5. QED
    BY <2>1, <2>2, <2>3, <2>4 DEF PhaseInv
<1>11. QED
  BY <1>6, <1>7, <1>8, <1>9, <1>10 DEF Base

LEMMA EnsureDoneBase == ASSUME Base, EnsureDone PROVE Base' /\ Grows
<1>1. UNCHANGED <<phase, arrived, keys, backup, seen, queue, ids, table, recheck, faults,
                   ends, sent, lost, excused, stranded>>
  BY DEF EnsureDone
<1>2. work["retry"].at = "ensure" /\ Begins("up")
  BY EnsureDoneIs
<1>3. PastInv' /\ Grows
  BY <1>1, BaseIs, PastStep
<1>4. QueueInv' /\ RecheckInv' /\ JobsInv'
  BY <1>1, <1>2, <1>3, QueueStays, RecheckStays, BeginsJobs
<1>5. TableInv'
  BY <1>1 DEF Base, TableInv
<1>6. PhaseInv'
  <2>1. phase = "starting" /\ work["sync"].at = "idle" /\ recheck = Rested
    BY <1>2, BaseIs DEF PhaseInv
  <2>2. (\A s : Single({s}, QueueSessions)) /\ \A s : s \in Range(QueueSessions) <=> Held(queue, s) # <<>>
    BY BaseIs, QueueSessionsAre
  <2>3. /\ work'["sync"] = work["sync"] /\ work'["retry"].at = "pop" /\ work'["retry"].next = "up"
        /\ work'["retry"].queued = QueueSessions
    BY <1>2, TwoWorkers DEF Begins, Becomes
  <2>4. (\A s : Single({s}, work'["retry"].queued)) /\ \A s \in Range(work'["retry"].queued) : Held(queue', s) # <<>>
    BY <1>1, <2>2, <2>3
  <2>5. QED
    BY <1>1, <2>1, <2>3, <2>4 DEF PhaseInv
<1>7. QED
  BY <1>3, <1>4, <1>5, <1>6 DEF Base

LEMMA RecheckBase == ASSUME Base, Recheck PROVE Base' /\ Grows
<1>1. UNCHANGED <<phase, arrived, keys, backup, seen, queue, ids, table, work, faults,
                   ends, sent, lost, excused, stranded>>
  BY DEF Recheck
<1>2. /\ phase = "up"
      /\ recheck' \in [snap : Seq(Seen), at : Nat, still : Seq(Item)]
      /\ recheck'.still = <<>> /\ recheck'.snap # <<>>
      /\ \A entry \in Range(recheck'.snap) : entry.events = <<>>
  BY RecheckIs
<1>3. PastInv' /\ Grows
  BY <1>1, BaseIs, PastStep
<1>4. QueueInv' /\ JobsInv'
  BY <1>1, <1>3, QueueStays, JobsStay
<1>5. TableInv'
  BY <1>1 DEF Base, TableInv
<1>6. RecheckInv'
  <2>1. \A s : <<>> \in Seq(Good(s, arrived', keys'))
    OBVIOUS
  <2>2. QED
    BY <1>2, <2>1 DEF RecheckInv
<1>7. PhaseInv'
  BY <1>1, <1>2, UpIs, PhaseUp DEF Syncs
<1>8. QED
  BY <1>3, <1>4, <1>5, <1>6, <1>7 DEF Base

LEMMA RecheckEventBase == ASSUME Base, RecheckEvent PROVE Base' /\ Grows
<1> DEFINE item == Current[recheck.at + 1]
           h == Head(recheck.snap)
<1>1. UNCHANGED <<phase, arrived, keys, backup, seen, queue, work, ends, lost, stranded>>
  BY DEF RecheckEvent
<1>2. /\ recheck.snap # <<>> /\ recheck.at < Len(Current) /\ recheck.at + 1 \in DOMAIN Current
      /\ item \in Range(Current) /\ item \in Item /\ item.ev \in Events /\ item.ev \in arrived
      /\ item.ev \in Evs(Current) /\ Session(item.ev) = h.session /\ (item.plain => h.session \in keys)
      /\ recheck' \in [snap : Seq(Seen), at : Nat, still : Seq(Item)]
      /\ recheck'.snap = recheck.snap /\ recheck'.at = recheck.at + 1
      /\ \/ /\ item.plain /\ Dispatched(item.ev) /\ ids' = ids \ {item.ev} /\ UNCHANGED faults
            /\ TableOK(table') /\ Range(table') = Range(table) \ {item.ev}
            /\ recheck'.still = recheck.still /\ TakeUp("recheck", {item.ev})
         \/ /\ \/ item.plain /\ Fault /\ excused' = excused \cup {item.ev}
               \/ ~item.plain /\ UNCHANGED <<faults, excused>>
            /\ recheck'.still = Append(recheck.still, item) /\ UNCHANGED <<sent, ids, table>>
  BY RecheckEventIs
<1>3. PICK e \in arrived : e = item.ev
  BY <1>2
<1>4. /\ ids' \subseteq ids /\ (faults' = faults \/ Fault) /\ (sent' = sent \/ Dispatched(e))
      /\ TableOK(table') /\ Range(table') \subseteq Range(table)
      /\ excused \subseteq excused' /\ excused' \subseteq excused \cup {e}
      /\ recheck'.still = recheck.still \/ recheck'.still = Append(recheck.still, item)
  <2>1. TakeUp("recheck", {item.ev}) => excused \subseteq excused' /\ excused' \subseteq excused \cup {e}
    BY <1>3 DEF TakeUp
  <2> HIDE DEF item
  <2>2. QED
    BY <1>2, <1>3, <2>1, BaseIs
<1>5. PastInv' /\ Grows
  <2>1. ids' \subseteq arrived' /\ excused' \subseteq arrived' /\ e \in arrived'
    BY <1>1, <1>4, BaseIs
  <2>2. QED
    BY <1>1, <1>4, <2>1, BaseIs, PastStep
<1>6. QueueInv' /\ JobsInv'
  BY <1>1, <1>5, QueueStays, JobsStay
<1>7. TableInv'
  BY <1>1, <1>4, BaseIs DEF TableInv
<1>8. RecheckInv'
  <2>1. RecheckInv /\ recheck.still \in Seq(Good(h.session, arrived, keys)) /\ item \in Good(h.session, arrived, keys)
    BY <1>2 DEF Base, RecheckInv, Good
  <2>2. Append(recheck.still, item) \in Seq(Good(h.session, arrived, keys))
    BY <2>1, AppendIs
  <2>3. recheck'.still \in Seq(Good(h.session, arrived', keys'))
    BY <1>1, <1>4, <2>1, <2>2
  <2>4. \A entry \in Range(recheck'.snap) : entry.events \in Seq(Good(entry.session, arrived', keys'))
    BY <1>1, <1>2, <2>1 DEF RecheckInv
  <2> HIDE DEF item
  <2>5. QED
    BY <1>2, <2>3, <2>4 DEF RecheckInv
<1>9. PhaseInv'
  BY <1>1, <1>2, UpIs, PhaseUp DEF Syncs
<1>10. QED
  BY <1>5, <1>6, <1>7, <1>8, <1>9 DEF Base

LEMMA RecheckWritesBase == ASSUME Base, RecheckWrites PROVE Base' /\ Grows
<1> DEFINE h == Head(recheck.snap)
<1>1. UNCHANGED <<phase, arrived, keys, backup, seen, ids, table, work, faults, ends,
                       sent, lost, excused, stranded>>
  BY DEF RecheckWrites
<1>2. /\ recheck.snap # <<>>
      /\ recheck' \in [snap : Seq(Seen), at : Nat, still : Seq(Item)]
      /\ recheck'.snap = Tail(recheck.snap) /\ recheck'.at = 0 /\ recheck'.still = <<>>
      /\ Tail(recheck.snap) = <<>> => recheck' = Rested
      /\ QueueOK(queue')
      /\ \A x : Held(queue', x) = IF /\ x = h.session
                                     /\ \/ recheck.still = <<>>
                                        \/ ~h.dead /\ Held(queue, x) # <<>>
                                  THEN recheck.still ELSE Held(queue, x)
  BY RecheckWritesIs
<1>3. /\ recheck.still \in Seq(Good(h.session, arrived, keys))
      /\ Range(Tail(recheck.snap)) \subseteq Range(recheck.snap)
  BY <1>2, RecheckNow
<1>4. PastInv' /\ Grows
  BY <1>1, BaseIs, PastStep
<1>5. JobsInv'
  BY <1>1, <1>4, JobsStay
<1>6. TableInv'
  BY <1>1 DEF Base, TableInv
<1>7. QueueInv'
  <2>1. \A x \in Sessions : Held(queue', x) \in Seq(Good(x, arrived, keys))
    BY <1>2, <1>3 DEF Base, QueueInv
  <2>2. QED
    BY <1>2, <1>4, <2>1, QueueGrows
<1>8. RecheckInv'
  <2>1. \A s : <<>> \in Seq(Good(s, arrived', keys'))
    OBVIOUS
  <2>2. \A entry \in Range(recheck'.snap) : entry.events \in Seq(Good(entry.session, arrived', keys'))
    BY <1>1, <1>2, <1>3 DEF Base, RecheckInv
  <2>3. QED
    BY <1>2, <2>1, <2>2 DEF RecheckInv
<1>9. PhaseInv'
  BY <1>1, <1>2, UpIs, PhaseUp DEF Syncs
<1>10. QED
  BY <1>4, <1>5, <1>6, <1>7, <1>8, <1>9 DEF Base

\* Nothing is at work.
LEMMA NothingIs ==
    /\ QueueOK(<<>>) /\ (\A s : Held(<<>>, s) = <<>>)
    /\ [t \in Workers |-> Idle] \in [Workers -> Job]
    /\ Rested \in [snap : Seq(Seen), at : Nat, still : Seq(Item)] /\ Rested.snap = <<>>
    /\ Rested.still = <<>> /\ Rested.at = 0
    /\ \A s, a, k : <<>> \in Seq(Good(s, a, k))
<1>1. QueueOK(<<>>) /\ \A s : Held(<<>>, s) = <<>>
  BY DEF QueueOK, Held, Single
<1>2. [t \in Workers |-> Idle] \in [Workers -> Job]
  BY IdleIs
<1>3. Rested \in [snap : Seq(Seen), at : Nat, still : Seq(Item)] /\ Rested.snap = <<>>
    /\ Rested.still = <<>> /\ Rested.at = 0
  <2>1. <<>> \in Seq(Seen) /\ <<>> \in Seq(Item) /\ 0 \in Nat
    OBVIOUS
  <2>2. QED
    BY <2>1 DEF Rested
<1>4. \A s, a, k : <<>> \in Seq(Good(s, a, k))
  OBVIOUS
<1>5. QED
  BY <1>1, <1>2, <1>3, <1>4

\* The tasks are cut off; the queue stays, or goes with the process.
LEMMA CutBase ==
    ASSUME Base, NEW left, left \subseteq arrived, Cut(left),
           \/ UNCHANGED <<seen, queue, ids>>
           \/ seen' = {} /\ queue' = <<>> /\ ids' = {}
    PROVE  Base' /\ Grows
<1>1. /\ ends < MaxEnds /\ ends' = ends + 1
      /\ phase' = "down" /\ work' = [t \in Workers |-> Idle] /\ recheck' = Rested
      /\ lost' = lost \cup ((InHand("sync") \cup InHand("retry")) \ Range(table))
      /\ excused' = excused \cup {e \in left : sent[e] > 0}
      /\ UNCHANGED <<arrived, keys, backup, table, faults, sent, stranded>>
  BY DEF Cut
<1>2. ends' \in 0..MaxEnds
  <2>1. ends \in 0..MaxEnds /\ MaxEnds \in Nat
    BY BaseIs, Given
  <2>2. QED
    BY <1>1, <2>1
<1>3. PastInv' /\ Grows
  <2>1. lost' \subseteq arrived
    BY <1>1, BaseIs, JobIs, TwoWorkers
  <2>2. QED
    BY <1>1, <1>2, <2>1, BaseIs, PastStep
<1>4. QueueInv'
  <2>1. CASE queue' = queue
    BY <1>3, <2>1, QueueStays
  <2>2. CASE queue' = <<>>
    BY <2>2, NothingIs DEF QueueInv
  <2>3. QED
    BY <2>1, <2>2
<1>5. TableInv'
  BY <1>1 DEF Base, TableInv
<1>6. JobsInv'
  <2>1. \A t \in Workers : work'[t] = Idle
    BY <1>1
  <2>2. \A t \in Workers : JobOK(t)'
    <3>1. \A t \in Workers : "idle" \in Places(t)
      BY DEF Places
    <3>2. "idle" \notin Asking /\ Range(<<>>) = {}
      BY DEF Asking, Range
    <3>3. QED
      BY <2>1, <3>1, <3>2, IdleIs, NothingIs DEF JobOK
  <2>3. QED
    BY <1>1, <2>2, NothingIs DEF JobsInv
<1>7. RecheckInv'
  BY <1>1, NothingIs DEF RecheckInv, Range
<1>8. PhaseInv'
  <2>1. work'["sync"] = Idle /\ work'["retry"] = Idle
    BY <1>1, TwoWorkers
  <2>2. QED
    BY <1>1, <2>1, IdleIs DEF PhaseInv
<1>9. QED
  BY <1>3, <1>4, <1>5, <1>6, <1>7, <1>8 DEF Base

LEMMA StopBase == ASSUME Base, Stop PROVE Base' /\ Grows
<1>1. PICK left : left = Range(table) \cup Queued
  OBVIOUS
<1>2. left \subseteq arrived /\ Cut(left) /\ UNCHANGED <<seen, queue, ids>>
  BY <1>1, BaseIs DEF Stop
<1>3. QED
  BY <1>2, CutBase

LEMMA CrashBase == ASSUME Base, Crash PROVE Base' /\ Grows
<1>1. PICK left : left = Range(table)
  OBVIOUS
<1>2. left \subseteq arrived /\ Cut(left) /\ seen' = {} /\ queue' = <<>> /\ ids' = {}
  BY <1>1, BaseIs DEF Crash
<1>3. QED
  BY <1>2, CutBase

-----------------------------------------------------------------------------
(* What the other parts of the invariant need to last.                     *)

\* More faults and more that is excused admit more items.
LEMMA DoneGrows ==
    ASSUME NEW f, NEW g, NEW x, NEW y, f > 0 => g > 0, x \subseteq y
    PROVE  Seq(Done(f, x)) \subseteq Seq(Done(g, y))
<1>1. Done(f, x) \subseteq Done(g, y)
  BY DEF Done
<1>2. QED
  BY <1>1, SeqGrows

\* A step of the system does so.
LEMMA DoneNow == ASSUME Base, Grows PROVE Seq(Done(faults, excused)) \subseteq Seq(Done(faults', excused'))
<1>1. faults > 0 => faults' > 0
  BY DEF Base, PastInv, Grows
<1>2. excused \subseteq excused'
  BY DEF Grows
<1>3. QED
  BY <1>1, <1>2, DoneGrows

\* Once the source is up, whatever is decrypted and queued has raised.
LEMMA NoneBefore ==
    ASSUME Base, PlainInv
    PROVE  /\ phase = "up" => \A s : ~Before(s) /\ Held(queue, s) \in Seq(Done(faults, excused))
           /\ \A s : ~Before(s) => Held(queue, s) \in Seq(Done(faults, excused))
<1>1. \A s : s \notin Sessions => Held(queue, s) = <<>>
  BY BaseIs, HeldIs
<1>2. <<>> \in Seq(Done(faults, excused))
  OBVIOUS
<1>3. ASSUME phase = "up" PROVE \A s : ~Before(s)
  <2>1. work["retry"].at # "ensure" /\ work["retry"].next = "idle"
    BY <1>3, UpIs DEF Syncs
  <2>2. QED
    BY <1>3, <2>1 DEF Before
<1>4. QED
  BY <1>1, <1>2, <1>3 DEF PlainInv

\* What is decrypted, after a step.
LEMMA PlainStep ==
    ASSUME Base, PlainInv, Grows,
           \A s \in Sessions : Before(s)' \/ Held(queue', s) \in Seq(Done(faults, excused))
                               \/ Held(queue', s) \in Seq(Done(faults', excused')),
           \A t \in Workers :
              /\ \/ Early(t, work'[t], phase')
                 \/ work'[t].todo \in Seq(Done(faults, excused)) \cup Seq(Done(faults', excused'))
              /\ work'[t].failed \in Seq(Done(faults, excused)) \cup Seq(Done(faults', excused')),
           recheck'.still \in Seq(Done(faults, excused)) \cup Seq(Done(faults', excused')),
           \A entry \in Range(recheck'.snap) : entry.events \in Seq(Done(faults, excused)),
           faults' = 0 => recheck' = Rested
    PROVE  PlainInv'
<1> DEFINE D == Seq(Done(faults, excused))
           E == Seq(Done(faults', excused'))
<1>1. D \subseteq E
  BY DoneNow
<1>2. /\ \A s \in Sessions : Before(s)' \/ Held(queue', s) \in E
      /\ \A t \in Workers : /\ Early(t, work'[t], phase') \/ work'[t].todo \in E
                            /\ work'[t].failed \in E
      /\ recheck'.still \in E
      /\ \A entry \in Range(recheck'.snap) : entry.events \in E
  <2> HIDE DEF D, E
  <2>1. /\ \A s \in Sessions : Before(s)' \/ Held(queue', s) \in D \/ Held(queue', s) \in E
        /\ \A t \in Workers : /\ Early(t, work'[t], phase') \/ work'[t].todo \in D \cup E
                              /\ work'[t].failed \in D \cup E
        /\ recheck'.still \in D \cup E
        /\ \A entry \in Range(recheck'.snap) : entry.events \in D
    BY DEF D, E
  <2>2. QED
    BY <1>1, <2>1
<1>3. QED
  BY <1>2 DEF PlainInv

\* The recheck, when it stays or entries are detached.
LEMMA PlainRecheck ==
    ASSUME Base, PlainInv, Grows, recheck' = recheck \/ \E S : recheck' = Detached(S)
    PROVE  /\ recheck'.still \in Seq(Done(faults, excused)) \cup Seq(Done(faults', excused'))
           /\ \A entry \in Range(recheck'.snap) : entry.events \in Seq(Done(faults, excused))
           /\ faults' = 0 => recheck' = Rested
<1>1. faults' = 0 => faults = 0
  BY DEF Base, PastInv, Grows
<1>2. CASE recheck' = recheck
  BY <1>1, <1>2 DEF PlainInv
<1>3. CASE \E S : recheck' = Detached(S)
  <2>1. PICK S : recheck' = Detached(S)
    BY <1>3
  <2>2. RecheckInv /\ QueueInv
    BY BaseIs
  <2>3. /\ recheck'.still = recheck.still
        /\ recheck.snap = <<>> => recheck' = recheck
        /\ \A entry \in Range(recheck'.snap) : \E old \in Range(recheck.snap) :
              /\ entry.session = old.session
              /\ entry.events = old.events \/ entry.events = Held(queue, old.session)
    BY <2>1, <2>2, DetachedIs
  <2>4. CASE recheck.snap = <<>>
    BY <1>1, <2>3, <2>4 DEF PlainInv
  <2>5. CASE recheck.snap # <<>>
    <3>1. \A s : Held(queue, s) \in Seq(Done(faults, excused))
      BY <2>5, UpIs, NoneBefore
    <3>2. recheck # Rested
      BY <2>5 DEF Rested
    <3>3. QED
      BY <1>1, <2>3, <3>1, <3>2 DEF PlainInv
  <2>6. QED
    BY <2>4, <2>5
<1>4. QED
  BY <1>2, <1>3

\* A job that takes up nothing new, while its place is the same.
LEMMA EarlyStays ==
    ASSUME Base, PlainInv, NEW u \in Workers, work'[u] = work[u],
           phase = "syncing" => phase' = "syncing" \/ work["sync"].at = "idle"
    PROVE  Early(u, work'[u], phase') \/ work'[u].todo \in Seq(Done(faults, excused))
<1>1. work["sync"].at = "idle" => work["sync"].todo = <<>>
  BY JobIs, TwoWorkers DEF Base, JobOK
<1>2. <<>> \in Seq(Done(faults, excused))
  OBVIOUS
<1>3. CASE u = "retry"
  BY <1>3 DEF PlainInv, Early
<1>4. CASE u = "sync"
  BY <1>1, <1>2, <1>4 DEF PlainInv, Early
<1>5. QED
  BY <1>3, <1>4 DEF Workers

\* The queue stays, and so do the jobs but for what is done.
LEMMA PlainJobs ==
    ASSUME Base, PlainInv, Grows, queue' = queue, recheck' = recheck,
           \A s : Before(s) => Before(s)',
           \A t \in Workers :
              /\ \/ Early(t, work'[t], phase')
                 \/ work'[t].todo \in Seq(Done(faults, excused)) \cup Seq(Done(faults', excused'))
              /\ work'[t].failed \in Seq(Done(faults, excused)) \cup Seq(Done(faults', excused'))
    PROVE  PlainInv'
<1>1. \A s \in Sessions : Before(s)' \/ Held(queue', s) \in Seq(Done(faults, excused))
  BY DEF PlainInv
<1>2. QED
  BY <1>1, PlainRecheck, PlainStep

\* Nothing is asked for.
LEMMA AskedEnds == ASSUME work'["sync"].at \notin Asking PROVE AskedInv'
  BY DEF AskedInv, AskedFor

\* What is asked for stays apart from what is stored.
LEMMA AskedStep ==
    ASSUME Base, AskedInv, work'["sync"].at \in Asking => work["sync"].at \in Asking,
           work'["sync"].event = work["sync"].event,
           Stored' \subseteq Stored, sent' = sent \/ \E x \in Stored \cap Events : Dispatched(x)
    PROVE  AskedInv'
<1>1. ASSUME NEW e \in Events, AskedFor(work'["sync"], e)
      PROVE  e \notin Stored' /\ sent'[e] = 0
  <2>1. e \notin Stored /\ sent[e] = 0
    BY <1>1 DEF AskedFor, AskedInv
  <2>2. sent'[e] = sent[e]
    <3>1. CASE \E x \in Stored \cap Events : Dispatched(x)
      BY <2>1, <3>1, DispatchedIs, BaseIs
    <3>2. QED
      BY <3>1
  <2>3. QED
    BY <2>1, <2>2
<1>2. QED
  BY <1>1 DEF AskedInv

\* Where an event may be stored.
LEMMA StoredIs ==
    /\ Queued \subseteq Stored /\ Range(table) \subseteq Stored
    /\ \A t \in Workers : HeldBy(work[t]) \subseteq Stored /\ work[t].handled \subseteq Stored
    /\ Evs(recheck.still) \subseteq Stored
    /\ \A entry \in Range(recheck.snap) : Evs(entry.events) \subseteq Stored
    /\ QueueInv => \A s : Evs(Held(queue, s)) \subseteq Stored
<1>1. QueueInv => \A s : Evs(Held(queue, s)) \subseteq Queued
  BY QueueIs
<1>2. QED
  BY <1>1, TwoWorkers DEF Stored

\* A step that only moves what is stored.
LEMMA StoredStep ==
    ASSUME Queued' \subseteq Stored, Range(table') \subseteq Stored,
           \A t \in Workers : HeldBy(work'[t]) \subseteq Stored /\ work'[t].handled \subseteq Stored,
           Evs(recheck'.still) \subseteq Stored,
           \A entry \in Range(recheck'.snap) : Evs(entry.events) \subseteq Stored
    PROVE  Stored' \subseteq Stored
<1> DEFINE S == Stored
<1>1. Stored' = Queued' \cup Range(table') \cup HeldBy(work'["sync"]) \cup HeldBy(work'["retry"])
          \cup work'["sync"].handled \cup work'["retry"].handled
          \cup Evs(recheck'.still) \cup UNION {Evs(entry.events) : entry \in Range(recheck'.snap)}
  BY DEF Stored
<1> HIDE DEF S
<1>2. QED
  BY <1>1, TwoWorkers DEF S

\* The recheck brings in nothing new when entries are popped.
LEMMA StoredRecheck ==
    ASSUME Base, recheck' = recheck \/ \E S : recheck' = Detached(S)
    PROVE  /\ Evs(recheck'.still) \subseteq Stored
           /\ \A entry \in Range(recheck'.snap) : Evs(entry.events) \subseteq Stored
<1>1. RecheckInv /\ QueueInv
  BY BaseIs
<1>2. CASE recheck' = recheck
  BY <1>2, StoredIs
<1>3. CASE \E S : recheck' = Detached(S)
  <2>1. PICK S : recheck' = Detached(S)
    BY <1>3
  <2>2. /\ recheck'.still = recheck.still
        /\ \A entry \in Range(recheck'.snap) : \E old \in Range(recheck.snap) :
              /\ entry.session = old.session
              /\ entry.events = old.events \/ entry.events = Held(queue, old.session)
    BY <1>1, <2>1, DetachedIs
  <2>3. QED
    BY <1>1, <2>2, StoredIs
<1>4. QED
  BY <1>2, <1>3

\* What is covered stays so, and what is new in the table is.
LEMMA CoverStep ==
    ASSUME Base, CoverInv, Grows,
           \A e \in Range(table') :
              /\ Session(e) \in keys' /\ sent'[e] = 0 /\ e \notin lost' \cup excused' \cup stranded'
              /\ phase' \in {"starting", "up"}
              => \/ Covered(Session(e))'
                 \/ /\ e \in Range(table) /\ Session(e) \in keys /\ phase \in {"starting", "up"}
                    /\ Covered(Session(e)) => Covered(Session(e))'
    PROVE  CoverInv'
<1>1. \A e \in Range(table) : sent'[e] = 0 => sent[e] = 0
  BY BaseIs DEF Grows
<1>2. QED
  BY <1>1 DEF CoverInv, Grows

\* The table and the keys stay, and so do the passes.
LEMMA CoverStays ==
    ASSUME Base, CoverInv, Grows, Range(table') \subseteq Range(table), keys' = keys,
           phase' \in {"starting", "up"} => phase \in {"starting", "up"}, \A s : Covered(s) => Covered(s)'
    PROVE  CoverInv'
  BY CoverStep

\* What is not handed on is still somewhere.
LEMMA BackStep ==
    ASSUME Base, BackInv, Grows, arrived' = arrived,
           \A e \in Range(table) : sent'[e] = 0 => \/ e \in Range(table') \/ e \in lost'
                                                   \/ \E t \in Workers : e \in Range(work'[t].items),
           \A e \in arrived : AskedFor(work["sync"], e) /\ sent'[e] = 0 =>
                  AskedFor(work'["sync"], e) \/ e \in Range(table'),
           \A t \in Workers : \A e \in Range(work[t].items) : sent'[e] = 0 =>
                  e \in Range(work'[t].items) \/ e \in Range(table') \/ e \in lost'
    PROVE  BackInv'
<1>1. \A e \in arrived : sent'[e] = 0 => sent[e] = 0
  BY BaseIs DEF Grows
<1>2. QED
  BY <1>1 DEF BackInv, Grows

\* The event e is handed on by nobody, and nobody new takes it up.
LEMMA OnceKeeps ==
    ASSUME NEW e, OnceOf(e), sent'[e] = sent[e], Single(Of(e), Held(queue', Session(e))),
           e \in Queued' => e \in Queued \/ InStill(recheck, e),
           InStill(recheck', e) =>
              /\ InStill(recheck, e) /\ Single(Of(e), recheck'.still)
              /\ Within(e, Held(queue', Session(e)), recheck'.at),
           \A t \in Workers : Holds(t, work'[t], e) => Holds(t, work[t], e) /\ Singly(work'[t], e),
           \A t \in Workers : e \in Range(work'[t].items) => e \notin Range(table'),
           e \in Range(table') /\ sent[e] > 0 => \E t \in Workers : Leaves(t, work'[t], e)
    PROVE  OnceOf(e)'
<1>1. sent'[e] <= 1 /\ Single(Of(e), Held(queue', Session(e)))
  BY DEF OnceOf
<1>2. ASSUME NEW t \in Workers, Holds(t, work'[t], e)
      PROVE  /\ e \notin Queued' /\ ~InStill(recheck', e) /\ sent'[e] = 0
             /\ Singly(work'[t], e) /\ \A u \in Workers \ {t} : ~Holds(u, work'[u], e)
  BY <1>2 DEF OnceOf
<1>3. e \in Queued' \/ InStill(recheck', e) => sent'[e] = 0
  BY DEF OnceOf
<1>4. QED
  BY <1>1, <1>2, <1>3 DEF OnceOf

\* Only one job changes.
LEMMA HoldsSame ==
    ASSUME NEW e, OnceOf(e), NEW t \in Workers, \A u \in Workers \ {t} : work'[u] = work[u],
           Holds(t, work'[t], e) => Holds(t, work[t], e) /\ Singly(work'[t], e)
    PROVE  \A u \in Workers : Holds(u, work'[u], e) => Holds(u, work[u], e) /\ Singly(work'[u], e)
  BY DEF OnceOf

\* Empty lists.
LEMMA EmptyIs == /\ Evs(<<>>) = {} /\ Range(<<>>) = {} /\ (\A P : Single(P, <<>>))
                 /\ \A f, x : <<>> \in Seq(Done(f, x))
<1>1. Evs(<<>>) = {} /\ Range(<<>>) = {} /\ \A P : Single(P, <<>>)
  BY DEF Evs, Range, Single
<1>2. \A f, x : <<>> \in Seq(Done(f, x))
  OBVIOUS
<1>3. QED
  BY <1>1, <1>2

\* What a job holds depends on its place.
LEMMA JobsAre ==
    ASSUME Base, NEW t \in Workers
    PROVE  LET w == work[t] IN
           /\ w \in Job /\ w.at \in Places(t)
           /\ w.at # "try" => w.todo = <<>> /\ w.failed = <<>> /\ Evs(w.todo) = {} /\ Evs(w.failed) = {}
           /\ w.at # "items" => w.items = <<>> /\ Range(w.items) = {}
           /\ w.at \in {"idle", "ensure"} \cup Asking => w.handled = {} /\ HeldBy(w) = {}
           /\ HeldBy(w) \subseteq InHand(t) /\ HeldBy(w) \subseteq arrived /\ w.handled \subseteq arrived
           /\ (\A e : AskedFor(w, e) => e \in InHand(t)) /\ InHand(t) \subseteq arrived
           /\ \A e \in w.handled : e \in Events /\ sent[e] > 0 /\ Session(e) \in keys
           /\ t = "sync" => w.next = "idle"
<1> DEFINE w == work[t]
<1>1. w \in Job /\ JobOK(t) /\ InHand(t) \subseteq arrived /\ w.handled \subseteq arrived
  BY JobIs DEF Base
<1>2. /\ w.at # "try" => w.todo = <<>> /\ w.failed = <<>> /\ Evs(w.todo) = {} /\ Evs(w.failed) = {}
      /\ w.at # "items" => w.items = <<>> /\ Range(w.items) = {}
  BY <1>1, EmptyIs DEF JobOK
<1>3. w.at \in {"idle", "ensure"} \cup Asking => w.handled = {} /\ HeldBy(w) = {}
  BY <1>1, <1>2 DEF JobOK, HeldBy, Asking
<1>4. HeldBy(w) \subseteq InHand(t) /\ \A e : AskedFor(w, e) => e \in InHand(t)
  BY DEF HeldBy, InHand, AskedFor, Asking
<1>5. \A e \in w.handled : e \in Events /\ sent[e] > 0 /\ Session(e) \in keys
  BY <1>1, BaseIs DEF JobOK
<1>6. QED
  BY <1>1, <1>2, <1>3, <1>4, <1>5 DEF JobOK

\* A place that is handed nothing holds nothing.
LEMMA EmptyHolds ==
    ASSUME NEW w, w.todo = <<>>, w.failed = <<>>, w.items = <<>>
    PROVE  HeldBy(w) = {} /\ \A e : Singly(w, e)
  BY EmptyIs DEF HeldBy, Singly

-----------------------------------------------------------------------------
(* Every action keeps the whole invariant.                                 *)

LEMMA ArriveKeeps == ASSUME IInv, NEW e \in Events, Arrive(e) PROVE IInv'
<1> DEFINE w == work["sync"]
           v == work'["sync"]
<1>1. /\ Syncs /\ e \notin arrived /\ arrived' = arrived \cup {e} /\ w.at = "idle"
      /\ UNCHANGED <<phase, keys, backup, seen, queue, ids, table, recheck, faults, ends,
                   lost, excused, stranded>>
  BY DEF Arrive
<1>2. \/ Session(e) \in keys /\ Dispatched(e) /\ work' = work
      \/ /\ Session(e) \notin keys /\ sent' = sent
         /\ Becomes("sync", "failed", e, <<>>, <<>>, <<>>, <<>>, <<>>, <<>>, {}, "idle")
  BY ArriveIs DEF IInv
<1>3. Base /\ Base' /\ Grows /\ Queued' = Queued
  BY <1>1, ArriveBase DEF IInv, Queued
<1>4. /\ w.handled = {} /\ HeldBy(w) = {} /\ Range(w.items) = {} /\ w.todo = <<>> /\ w.failed = <<>>
      /\ w.items = <<>>
  BY <1>1, <1>3, JobsAre, TwoWorkers
<1>5. /\ work'["retry"] = work["retry"] /\ v.handled = {} /\ HeldBy(v) = {} /\ v.items = <<>>
      /\ v.todo = <<>> /\ v.failed = <<>> /\ v.rows = IF Session(e) \in keys THEN w.rows ELSE <<>>
      /\ v.at = IF Session(e) \in keys THEN "idle" ELSE "failed"
      /\ Session(e) \notin keys => v.event = e
  <2>1. CASE work' = work /\ Session(e) \in keys
    BY <1>1, <1>4, <2>1
  <2>2. CASE Becomes("sync", "failed", e, <<>>, <<>>, <<>>, <<>>, <<>>, <<>>, {}, "idle") /\ Session(e) \notin keys
    BY <2>2, EmptyHolds, TwoWorkers DEF Becomes
  <2>3. QED
    BY <1>2, <2>1, <2>2
<1>6. \A x \in Events : x # e => sent'[x] = sent[x]
  BY <1>2, <1>3, BaseIs, DispatchedIs
<1>7. sent[e] = 0 /\ (sent'[e] = IF Session(e) \in keys THEN 1 ELSE 0)
  <2>1. sent[e] = 0
    BY <1>1, <1>3, BaseIs
  <2>2. QED
    BY <1>2, <1>3, <2>1, BaseIs, DispatchedIs
<1>8. e \notin Stored
  <2>1. \A entry \in Range(recheck.snap) : e \notin Evs(entry.events)
    BY <1>1, <1>3, GoodIs DEF Base, RecheckInv
  <2>2. e \notin Evs(recheck.still)
    <3>1. CASE recheck.snap = <<>>
      BY <1>3, <3>1, EmptyIs, NothingIs DEF Base, RecheckInv
    <3>2. CASE recheck.snap # <<>>
      BY <1>1, <1>3, <3>2, GoodIs DEF Base, RecheckInv
    <3>3. QED
      BY <3>1, <3>2
  <2>3. e \notin HeldBy(work["retry"]) \cup work["retry"].handled
    BY <1>1, <1>3, JobsAre, TwoWorkers
  <2>4. QED
    BY <1>1, <1>3, <1>4, <2>1, <2>2, <2>3, BaseIs DEF Stored
<1>9. PlainInv'
  <2>1. \A s : Before(s) => Before(s)'
    BY <1>1, <1>5 DEF Before
  <2>2. work["retry"].next = "idle" /\ PlainInv
    BY <1>1, <1>3, UpIs DEF IInv
  <2>3. \A t \in Workers : /\ Early(t, work'[t], phase') \/ work'[t].todo \in Seq(Done(faults, excused))
                           /\ work'[t].failed \in Seq(Done(faults, excused))
    BY <1>1, <1>5, <2>2, EmptyIs, TwoWorkers DEF PlainInv, Early
  <2>4. QED
    BY <1>1, <1>3, <2>1, <2>2, <2>3, PlainJobs
<1>10. BackInv'
  <2>1. ASSUME NEW x \in arrived', sent'[x] = 0
        PROVE  \/ x \in Range(table') \/ x \in lost' \/ AskedFor(work'["sync"], x)
               \/ \E t \in Workers : x \in Range(work'[t].items)
    <3>1. CASE x = e
      BY <1>5, <1>7, <2>1, <3>1 DEF AskedFor, Asking
    <3>2. CASE x # e
      <4>1. x \in arrived /\ sent[x] = 0
        BY <1>1, <1>3, <1>6, <2>1, <3>2, BaseIs
      <4>2. \/ x \in Range(table) \/ x \in lost \/ \E t \in Workers : x \in Range(work[t].items)
        BY <1>1, <4>1 DEF IInv, BackInv, AskedFor, Asking
      <4>3. QED
        BY <1>1, <1>4, <1>5, <4>2, TwoWorkers
    <3>3. QED
      BY <3>1, <3>2
  <2>2. QED
    BY <2>1 DEF BackInv
<1>11. AskedInv'
  <2>1. CASE Session(e) \in keys
    BY <1>5, <2>1, AskedEnds DEF Asking
  <2>2. CASE Session(e) \notin keys
    <3>1. Stored' \subseteq Stored
      BY <1>1, <1>3, <1>5, StoredIs, StoredRecheck, StoredStep, TwoWorkers
    <3>2. QED
      BY <1>5, <1>7, <1>8, <2>2, <3>1 DEF AskedInv, AskedFor
  <2>3. QED
    BY <2>1, <2>2
<1>12. IdsInv'
  BY <1>1, <1>3, <1>5, EmptyIs, TwoWorkers DEF IInv, IdsInv
<1>13. SyncRows'
  BY <1>5 DEF SyncRows
<1>14. OnceInv'
  <2>1. ASSUME NEW x \in Events \ excused' PROVE OnceOf(x)'
    <3>1. OnceOf(x)
      BY <1>1, <2>1 DEF IInv, OnceInv
    <3>2. CASE x # e
      <4>1. \A t \in Workers : Holds(t, work'[t], x) => Holds(t, work[t], x) /\ Singly(work'[t], x)
        <5>1. ~Holds("sync", work'["sync"], x)
          BY <1>5, <3>2 DEF Holds, AskedFor, Asking
        <5>2. QED
          BY <1>5, <3>1, <5>1, TwoWorkers DEF OnceOf
      <4>2. \A t \in Workers : x \in Range(work'[t].items) => x \notin Range(table')
        BY <1>1, <1>5, <3>1, EmptyIs, TwoWorkers DEF OnceOf
      <4>3. x \in Range(table') /\ sent[x] > 0 => \E t \in Workers : Leaves(t, work'[t], x)
        BY <1>1, <1>4, <1>5, <3>1, TwoWorkers DEF OnceOf, Leaves
      <4>4. QED
        BY <1>1, <1>3, <1>6, <3>1, <3>2, <4>1, <4>2, <4>3, OnceKeeps DEF OnceOf
    <3>3. CASE x = e
      <4>1. /\ e \notin Queued' /\ e \notin Range(table') /\ ~InStill(recheck', e)
            /\ ~Holds("retry", work'["retry"], e)
            /\ \A t \in Workers : e \notin Range(work'[t].items)
        BY <1>1, <1>3, <1>5, <1>8, StoredIs, TwoWorkers, EmptyIs DEF InStill, Holds, HeldBy
      <4>2. Single(Of(e), Held(queue', Session(e)))
        BY <1>1, <3>1, <3>3 DEF OnceOf
      <4>3. Holds("sync", work'["sync"], e) => sent'[e] = 0 /\ Singly(work'["sync"], e)
        BY <1>5, <1>7, EmptyHolds DEF Holds, AskedFor, Asking
      <4>4. sent'[e] <= 1
        BY <1>7
      <4>5. QED
        BY <3>3, <4>1, <4>2, <4>3, <4>4, TwoWorkers DEF OnceOf
    <3>4. QED
      BY <3>2, <3>3
  <2>2. QED
    BY <2>1 DEF OnceInv
<1>15. CoverInv'
  <2>1. \A s : Covered(s) => Covered(s)'
    BY <1>1, <1>5 DEF Covered
  <2>2. QED
    BY <1>1, <1>3, <2>1, CoverStays DEF IInv
<1>16. QED
  BY <1>3, <1>9, <1>10, <1>11, <1>12, <1>13, <1>14, <1>15 DEF IInv

LEMMA AskKeeps == ASSUME IInv, AskBackup PROVE IInv'
<1> DEFINE w == work["sync"]
           v == work'["sync"]
<1>1. UNCHANGED <<phase, arrived, keys, backup, seen, queue, ids, table, recheck, ends,
                   sent, lost, excused, stranded>>
  BY DEF AskBackup
<1>2. /\ w.at = "failed" /\ w.event \in arrived
      /\ \E at \in {"given", "refused"} :
            Becomes("sync", at, w.event, w.queued, w.session, w.todo, w.failed, w.rows,
                            w.items, w.handled, w.next)
  BY AskIs DEF IInv
<1>3. Base /\ Base' /\ Grows /\ Queued' = Queued
  BY <1>1, AskBase DEF IInv, Queued
<1>4. /\ w.handled = {} /\ HeldBy(w) = {} /\ w.todo = <<>> /\ w.failed = <<>> /\ w.items = <<>>
  BY <1>2, <1>3, JobsAre, TwoWorkers DEF Asking
<1>5. /\ work'["retry"] = work["retry"] /\ v.handled = {} /\ v.items = <<>>
      /\ v.todo = <<>> /\ v.failed = <<>> /\ v.event = w.event /\ w.at \in Asking /\ v.at \in Asking
  BY <1>2, <1>4, TwoWorkers DEF Becomes, Asking
<1>6. HeldBy(v) = {} /\ \A e : AskedFor(v, e) <=> AskedFor(w, e)
  BY <1>5, EmptyHolds DEF AskedFor
<1>7. Syncs /\ work["retry"].next = "idle"
  BY <1>2, <1>3, UpIs
<1>8. PlainInv'
  <2>1. \A s : Before(s) => Before(s)'
    BY <1>1, <1>5 DEF Before
  <2>2. QED
    BY <1>1, <1>3, <1>5, <1>7, <2>1, EmptyIs, TwoWorkers, PlainJobs DEF PlainInv, IInv, Early
<1>9. BackInv'
  BY <1>1, <1>4, <1>5, <1>6, TwoWorkers DEF IInv, BackInv
<1>10. AskedInv'
  <2>1. Stored' \subseteq Stored
    BY <1>1, <1>3, <1>5, <1>6, StoredIs, StoredRecheck, StoredStep, TwoWorkers
  <2>2. QED
    BY <1>1, <1>3, <1>5, <2>1, AskedStep DEF IInv
<1>11. IdsInv'
  <2>1. faults' = 0 => faults = 0
    BY <1>3, BaseIs DEF Grows, PastInv
  <2>2. QED
    BY <1>1, <1>3, <1>5, <2>1, EmptyIs, TwoWorkers DEF IInv, IdsInv
<1>12. SyncRows'
  BY <1>5 DEF SyncRows, Asking
<1>13. OnceInv'
  <2>1. ASSUME NEW x \in Events \ excused' PROVE OnceOf(x)'
    <3>1. OnceOf(x)
      BY <1>1, <2>1 DEF IInv, OnceInv
    <3>2. \A t \in Workers : Holds(t, work'[t], x) => Holds(t, work[t], x) /\ Singly(work'[t], x)
      BY <1>4, <1>5, <1>6, <3>1, EmptyHolds, TwoWorkers DEF OnceOf, Holds
    <3>3. \A t \in Workers : x \in Range(work'[t].items) => x \notin Range(table')
      BY <1>1, <1>5, <3>1, EmptyIs, TwoWorkers DEF OnceOf
    <3>4. x \in Range(table') /\ sent[x] > 0 => \E t \in Workers : Leaves(t, work'[t], x)
      BY <1>1, <1>4, <1>5, <3>1, TwoWorkers DEF OnceOf, Leaves
    <3>5. QED
      BY <1>1, <1>3, <3>1, <3>2, <3>3, <3>4, OnceKeeps DEF OnceOf
  <2>2. QED
    BY <2>1 DEF OnceInv
<1>14. CoverInv'
  <2>1. \A s : Covered(s) => Covered(s)'
    BY <1>1, <1>5 DEF Covered, Asking
  <2>2. QED
    BY <1>1, <1>3, <2>1, CoverStays DEF IInv
<1>15. QED
  BY <1>3, <1>8, <1>9, <1>10, <1>11, <1>12, <1>13, <1>14 DEF IInv

LEMMA GivenKeeps == ASSUME IInv, KeyGiven PROVE IInv'
<1> DEFINE w == work["sync"]
           v == work'["sync"]
<1>1. /\ UNCHANGED <<phase, arrived, backup, seen, queue, ids, table, recheck, ends, lost>>
      /\ stranded' = stranded \cup {x \in Queued \cup Range(table) :
                                         Session(x) = Session(w.event) /\ Session(w.event) \in seen}
  BY DEF KeyGiven
<1>2. PICK e : e = w.event
  OBVIOUS
<1>3. /\ w.at = "given" /\ e \in arrived /\ e \in Events /\ Session(e) \in backup
      /\ Session(e) \in Sessions /\ keys' = keys \cup {Session(e)}
      /\ \/ /\ Dispatched(e) /\ faults' = faults /\ excused' = excused
            /\ Becomes("sync", "idle", <<>>, <<>>, <<>>, <<>>, <<>>, <<>>, <<>>, {}, "idle")
         \/ /\ Fault /\ excused' = excused \cup {e} /\ sent' = sent
            /\ Becomes("sync", "refused", w.event, w.queued, w.session, w.todo, w.failed, w.rows,
                            w.items, w.handled, w.next)
  BY <1>2, GivenIs DEF IInv
<1>4. Base /\ Base' /\ Grows /\ Queued' = Queued
  BY <1>1, GivenBase DEF IInv, Queued
<1>5. /\ w.handled = {} /\ HeldBy(w) = {} /\ w.todo = <<>> /\ w.failed = <<>> /\ w.items = <<>>
      /\ w.at \in Asking
  BY <1>3, <1>4, JobsAre, TwoWorkers DEF Asking
<1>6. /\ work'["retry"] = work["retry"] /\ v.handled = {} /\ v.items = <<>>
      /\ v.todo = <<>> /\ v.failed = <<>>
      /\ \/ v.at = "idle" /\ Dispatched(e) /\ excused' = excused
         \/ v.at = "refused" /\ v.event = e /\ sent' = sent /\ excused' = excused \cup {e}
  BY <1>2, <1>3, <1>5, TwoWorkers DEF Becomes
<1>7. HeldBy(v) = {} /\ \A x : AskedFor(v, x) => x = e
  BY <1>6, EmptyHolds DEF AskedFor, Asking
<1>8. Syncs /\ work["retry"].next = "idle"
  BY <1>3, <1>4, UpIs
<1>9. e \notin Stored /\ sent[e] = 0
  BY <1>2, <1>3, <1>5 DEF IInv, AskedInv, AskedFor
<1>10. \A x \in Events : x # e => sent'[x] = sent[x]
  BY <1>3, <1>4, BaseIs, DispatchedIs
<1>11. PlainInv'
  <2>1. \A s : Before(s) => Before(s)'
    BY <1>1, <1>6 DEF Before
  <2>2. \A t \in Workers :
              /\ \/ Early(t, work'[t], phase')
                 \/ work'[t].todo \in Seq(Done(faults, excused)) \cup Seq(Done(faults', excused'))
              /\ work'[t].failed \in Seq(Done(faults, excused)) \cup Seq(Done(faults', excused'))
    <3>1. PlainInv
      BY DEF IInv
    <3>2. work'["retry"] = work["retry"] /\ work'["sync"].todo = <<>> /\ work'["sync"].failed = <<>>
      BY <1>6
    <3>3. QED
      BY <1>8, <3>1, <3>2, EmptyIs, TwoWorkers DEF PlainInv, Early
  <2>3. QED
    BY <1>1, <1>4, <2>1, <2>2, PlainJobs DEF IInv
<1>12. BackInv'
  <2>1. \A x \in arrived : AskedFor(work["sync"], x) /\ sent'[x] = 0 =>
                  AskedFor(work'["sync"], x) \/ x \in Range(table')
    <3>1. ASSUME Dispatched(e) PROVE sent'[e] # 0
      <4>1. sent'[e] > 0
        BY <1>3, <1>4, <3>1, BaseIs, DispatchedIs
      <4>2. QED
        BY <4>1
    <3>2. QED
      BY <1>2, <1>6, <3>1 DEF AskedFor, Asking
  <2>2. \A t \in Workers : work'[t].items = work[t].items
    BY <1>5, <1>6, TwoWorkers
  <2>3. QED
    BY <1>1, <1>4, <2>1, <2>2, BackStep DEF IInv
<1>13. AskedInv'
  <2>1. Stored' \subseteq Stored
    BY <1>1, <1>4, <1>6, <1>7, StoredIs, StoredRecheck, StoredStep, TwoWorkers
  <2>2. CASE v.at = "idle"
    BY <2>2, AskedEnds DEF Asking
  <2>3. CASE v.at = "refused" /\ sent' = sent
    BY <1>7, <1>9, <2>1, <2>3 DEF AskedInv
  <2>4. QED
    BY <1>6, <2>2, <2>3
<1>14. IdsInv'
  <2>1. faults' = 0 => faults = 0
    BY <1>4, BaseIs DEF Grows, PastInv
  <2>2. QED
    BY <1>1, <1>4, <1>6, <2>1, EmptyIs, TwoWorkers DEF IInv, IdsInv
<1>15. SyncRows'
  BY <1>6 DEF SyncRows
<1>16. OnceInv'
  <2>1. ASSUME NEW x \in Events \ excused' PROVE OnceOf(x)'
    <3>1. OnceOf(x)
      BY <1>4, <2>1 DEF IInv, OnceInv, Grows
    <3>2. ~Holds("sync", v, x)
      BY <1>6, <1>7, <2>1 DEF Holds, AskedFor, Asking
    <3>3. CASE x # e
      <4>1. \A t \in Workers : Holds(t, work'[t], x) => Holds(t, work[t], x) /\ Singly(work'[t], x)
        BY <1>6, <3>1, <3>2, TwoWorkers DEF OnceOf
      <4>2. \A t \in Workers : x \in Range(work'[t].items) => x \notin Range(table')
        BY <1>1, <1>6, <3>1, EmptyIs, TwoWorkers DEF OnceOf
      <4>3. x \in Range(table') /\ sent[x] > 0 => \E t \in Workers : Leaves(t, work'[t], x)
        BY <1>1, <1>5, <1>6, <3>1, TwoWorkers DEF OnceOf, Leaves
      <4>4. QED
        BY <1>1, <1>4, <1>10, <3>1, <3>3, <4>1, <4>2, <4>3, OnceKeeps DEF OnceOf
    <3>4. CASE x = e
      <4>1. /\ e \notin Queued' /\ e \notin Range(table') /\ ~InStill(recheck', e)
            /\ \A t \in Workers : ~Holds(t, work'[t], e)
            /\ \A t \in Workers : e \notin Range(work'[t].items)
        BY <1>1, <1>4, <1>6, <1>9, <3>2, <3>4, StoredIs, TwoWorkers, EmptyIs DEF InStill, Holds, HeldBy
      <4>2. Single(Of(e), Held(queue', Session(e)))
        BY <1>1, <3>1, <3>4 DEF OnceOf
      <4>3. sent'[e] <= 1
        <5>1. Dispatched(e)
          BY <1>6, <2>1, <3>4
        <5>2. sent'[e] = 1
          BY <1>3, <1>4, <1>9, <5>1, BaseIs, DispatchedIs
        <5>3. QED
          BY <5>2
      <4>4. QED
        BY <3>4, <4>1, <4>2, <4>3, TwoWorkers DEF OnceOf
    <3>5. QED
      BY <3>3, <3>4
  <2>2. QED
    BY <2>1 DEF OnceInv
<1>17. CoverInv'
  <2>1. \A s : Covered(s) => Covered(s)'
    BY <1>1, <1>5, <1>6 DEF Covered, Asking
  <2>2. ASSUME NEW x \in Range(table'), x \notin stranded', Session(x) \in keys', Session(x) \notin keys
        PROVE  Covered(Session(x))'
    <3>1. x \in Range(table) /\ Session(x) = Session(e)
      BY <1>1, <1>3, <2>2
    <3>2. Session(e) \notin seen
      BY <1>1, <1>2, <2>2, <3>1
    <3>3. QED
      BY <1>1, <1>3, <3>1, <3>2 DEF Covered
  <2>3. QED
    BY <1>1, <1>4, <1>8, <2>1, <2>2, CoverStep DEF IInv
<1>18. QED
  BY <1>4, <1>11, <1>12, <1>13, <1>14, <1>15, <1>16, <1>17 DEF IInv

\* What follows the first items, and what is left of them.
LEMMA WithinIs ==
    ASSUME NEW e, NEW a \in Seq(Item), NEW n \in Nat, Within(e, a, n)
    PROVE  /\ \A b \in Seq(Item) : e \notin Evs(b) => Within(e, a \o b, n)
           /\ a # <<>> => Within(e, Tail(a), n)
<1>1. Len(a) \in Nat /\ DOMAIN a = 1..Len(a)
  OBVIOUS
<1>2. ASSUME NEW b \in Seq(Item), e \notin Evs(b) PROVE Within(e, a \o b, n)
  <2>1. /\ Len(b) \in Nat /\ DOMAIN b = 1..Len(b) /\ a \o b \in Seq(Item) /\ Len(a \o b) = Len(a) + Len(b)
        /\ \A i \in 1..Len(a) : (a \o b)[i] = a[i]
        /\ \A i \in 1..Len(b) : (a \o b)[Len(a) + i] = b[i]
    BY <1>2, ConcatIs
  <2>2. DOMAIN (a \o b) = 1..(Len(a) + Len(b))
    BY <2>1
  <2>3. \A i \in 1..Len(b) : b[i].ev # e
    BY <1>2, <2>1 DEF Evs
  <2>4. ASSUME NEW i \in 1..(Len(a) + Len(b)), (a \o b)[i].ev = e PROVE i <= n
    <3>1. CASE i \in 1..Len(a)
      BY <1>1, <2>1, <2>4, <3>1 DEF Within
    <3>2. CASE i \notin 1..Len(a)
      <4>1. i - Len(a) \in 1..Len(b) /\ Len(a) + (i - Len(a)) = i
        BY <1>1, <2>1, <3>2
      <4>2. QED
        BY <2>1, <2>3, <2>4, <4>1
    <3>3. QED
      BY <3>1, <3>2
  <2>5. QED
    BY <2>2, <2>4 DEF Within
<1>3. ASSUME a # <<>> PROVE Within(e, Tail(a), n)
  <2>1. Len(a) >= 1 /\ Tail(a) \in Seq(Item) /\ Len(Tail(a)) = Len(a) - 1
    BY <1>3, TailIs
  <2>2. DOMAIN Tail(a) = 1..(Len(a) - 1) /\ \A i \in 1..(Len(a) - 1) : Tail(a)[i] = a[i + 1]
    BY <1>1, <1>3, <2>1
  <2>3. ASSUME NEW i \in 1..(Len(a) - 1), Tail(a)[i].ev = e PROVE i <= n
    <3>1. i + 1 \in 1..Len(a) /\ a[i + 1].ev = e
      BY <1>1, <2>2, <2>3
    <3>2. i + 1 <= n
      BY <1>1, <3>1 DEF Within
    <3>3. QED
      BY <1>1, <3>2
  <2>4. QED
    BY <2>2, <2>3 DEF Within
<1>4. QED
  BY <1>2, <1>3

\* What the recheck will write back, when it stays or entries are detached.
LEMMA StillIs ==
    ASSUME Base, recheck' = recheck \/ \E S : recheck' = Detached(S)
    PROVE  \A e : InStill(recheck', e) =>
              /\ InStill(recheck, e) /\ recheck'.still = recheck.still /\ recheck'.at = recheck.at
              /\ recheck.at \in Nat
<1>1. RecheckInv /\ QueueInv /\ recheck.at \in Nat
  BY DEF Base, RecheckInv
<1>2. CASE recheck' = recheck
  BY <1>1, <1>2
<1>3. CASE \E S : recheck' = Detached(S)
  <2>1. PICK S : recheck' = Detached(S)
    BY <1>3
  <2>2. /\ recheck'.at = recheck.at /\ recheck'.still = recheck.still
        /\ recheck.snap = <<>> <=> recheck'.snap = <<>>
        /\ recheck.snap # <<>> => (Head(recheck'.snap).dead = (Head(recheck.snap).dead \/ Head(recheck.snap).session \in S))
    BY <1>1, <2>1, DetachedIs
  <2>3. QED
    BY <1>1, <2>2 DEF InStill
<1>4. QED
  BY <1>2, <1>3

\* The list of one item that Enqueue adds.
LEMMA NewIs ==
    ASSUME NEW e \in Events
    PROVE  New(e) \in Seq(Item) /\ Evs(New(e)) = {e} /\ (\A x : Single(Of(x), New(e)))
           /\ \A f, x : New(e) \in Seq(Done(f, x))
<1>1. [ev |-> e, plain |-> FALSE] \in Item
  BY DEF Item
<1>2. \A f, x : [ev |-> e, plain |-> FALSE] \in Done(f, x)
  BY <1>1 DEF Done
<1>3. DOMAIN New(e) = {1} /\ New(e)[1] = [ev |-> e, plain |-> FALSE]
  BY DEF New
<1>4. Evs(New(e)) = {e} /\ \A x : Single(Of(x), New(e))
  BY <1>3 DEF Evs, Single
<1>5. New(e) \in Seq(Item) /\ \A f, x : New(e) \in Seq(Done(f, x))
  <2>1. New(e) \in Seq(Item)
    BY <1>1 DEF New
  <2>2. ASSUME NEW f, NEW x PROVE New(e) \in Seq(Done(f, x))
    <3>1. [ev |-> e, plain |-> FALSE] \in Done(f, x)
      BY <1>2
    <3>2. QED
      BY <3>1 DEF New
  <2>3. QED
    BY <2>1, <2>2
<1>6. QED
  BY <1>4, <1>5

LEMMA EnqueueKeeps == ASSUME IInv, Enqueue PROVE IInv'
<1> DEFINE w == work["sync"]
           v == work'["sync"]
<1>1. /\ UNCHANGED <<phase, arrived, keys, backup, seen, faults, ends, sent, excused>>
      /\ lost' = lost \cup (Range(table) \ Range(table'))
      /\ stranded' = stranded \cup {x \in {w.event} : Session(w.event) \in keys}
  BY DEF Enqueue
<1>2. PICK e : e = w.event
  OBVIOUS
<1>3. /\ w.at \in Asking /\ e \in arrived /\ e \in Events /\ Session(e) \in Sessions
      /\ Becomes("sync", "idle", <<>>, <<>>, <<>>, <<>>, <<>>, <<>>, <<>>, {}, "idle")
      /\ table' = Saved(table, e)
      /\ \E out \in SUBSET Sessions, cut \in BOOLEAN : Enqueued(e, out, cut)
  BY <1>2, EnqueueIs DEF IInv
<1>4. PICK out \in SUBSET Sessions, cut \in BOOLEAN : Enqueued(e, out, cut)
  BY <1>3
<1>5. PICK s : s = Session(e)
  OBVIOUS
<1>6. PICK H : H = Held(queue, s)
  OBVIOUS
<1>7. PICK h : h = H \o New(e)
  OBVIOUS
<1>8. /\ s \notin out
      /\ \A x : Held(queue', x) = IF x = s THEN (IF cut THEN Tail(h) ELSE h)
                                    ELSE IF x \in out THEN <<>> ELSE Held(queue, x)
      /\ ids' = (ids \cup {e}) \ (Evicted(out)
                                    \cup (IF cut THEN {Head(h).ev} ELSE {}))
      /\ recheck' = Detached(out)
  BY <1>4, <1>5, <1>6, <1>7 DEF Enqueued
<1>9. Base /\ Base' /\ Grows
  BY EnqueueBase DEF IInv
<1>10. /\ w.handled = {} /\ HeldBy(w) = {} /\ w.items = <<>>
  BY <1>3, <1>9, JobsAre, TwoWorkers DEF Asking
<1>11. /\ work'["retry"] = work["retry"] /\ v.handled = {} /\ v.items = <<>>
       /\ v.todo = <<>> /\ v.failed = <<>> /\ v.at = "idle"
  BY <1>3, TwoWorkers DEF Becomes
<1>12. HeldBy(v) = {} /\ \A x : ~Holds("sync", v, x)
  BY <1>11, EmptyHolds DEF Holds, AskedFor, Asking
<1>13. Syncs /\ work["retry"].next = "idle"
  BY <1>3, <1>9, UpIs DEF Asking
<1>14. e \notin Stored /\ sent[e] = 0
  BY <1>2, <1>3 DEF IInv, AskedInv, AskedFor
<1>15. TableOK(table') /\ e \in Range(table') /\ Range(table') \subseteq Range(table) \cup {e}
  BY <1>3, <1>9, BaseIs, SavedIs
<1>16. /\ H \in Seq(Item) /\ h \in Seq(Item) /\ h # <<>> /\ Evs(h) = Evs(H) \cup {e}
       /\ Tail(h) \in Seq(Item) /\ Evs(h) = {Head(h).ev} \cup Evs(Tail(h)) /\ e \notin Evs(H)
       /\ \A x \in Evs(H) : Session(x) = s
  <2>1. H \in Seq(Item) /\ e \notin Evs(H) /\ \A x \in Evs(H) : Session(x) = s
    BY <1>6, <1>9, <1>14, BaseIs, QueueIs, StoredIs
  <2>2. h \in Seq(Item) /\ Evs(h) = Evs(H) \cup {e}
    BY <1>3, <1>7, <2>1, NewIs, EvsConcat
  <2>3. h # <<>>
    BY <2>2, EvsIs
  <2>4. QED
    BY <2>1, <2>2, <2>3, EvsTail
<1>17. \A x : Single(Of(x), H) => /\ Single(Of(x), h) /\ Single(Of(x), Tail(h))
                                  /\ Head(h).ev = x => x \notin Evs(Tail(h))
  <2>1. ASSUME NEW x, Single(Of(x), H) PROVE Single(Of(x), h)
    <3>1. Single(Of(x), New(e)) /\ New(e) \in Seq(Item) /\ Evs(New(e)) = {e}
      BY <1>3, NewIs
    <3>2. x \notin Evs(H) \/ x \notin Evs(New(e))
      BY <1>16, <3>1
    <3>3. QED
      BY <1>7, <1>16, <2>1, <3>1, <3>2, EvsConcat
  <2>2. QED
    BY <1>16, <2>1, EvsTail
<1>18. PlainInv'
  <2>1. ASSUME phase = "up"
        PROVE  \A x \in Sessions : Held(queue', x) \in Seq(Done(faults, excused))
    <3>1. \A x : Held(queue, x) \in Seq(Done(faults, excused))
      BY <1>9, <2>1, NoneBefore DEF IInv
    <3>2. h \in Seq(Done(faults, excused))
      BY <1>3, <1>6, <1>7, <3>1, NewIs, ConcatIs
    <3>3. Tail(h) \in Seq(Done(faults, excused))
      BY <1>16, <3>2, TailIs
    <3>4. QED
      BY <1>8, <3>1, <3>2, <3>3, EmptyIs
  <2>2. \A x \in Sessions : Before(x)' \/ Held(queue', x) \in Seq(Done(faults, excused))
    <3>1. phase = "syncing" => \A x : Before(x)'
      BY <1>1 DEF Before
    <3>2. QED
      BY <1>13, <2>1, <3>1 DEF Syncs
  <2>3. \A t \in Workers :
              /\ \/ Early(t, work'[t], phase')
                 \/ work'[t].todo \in Seq(Done(faults, excused)) \cup Seq(Done(faults', excused'))
              /\ work'[t].failed \in Seq(Done(faults, excused)) \cup Seq(Done(faults', excused'))
    <3>1. PlainInv
      BY DEF IInv
    <3>2. work'["retry"] = work["retry"] /\ work'["sync"].todo = <<>> /\ work'["sync"].failed = <<>>
      BY <1>11
    <3>3. QED
      BY <1>13, <3>1, <3>2, EmptyIs, TwoWorkers DEF PlainInv, Early
  <2>4. QED
    BY <1>8, <1>9, <2>2, <2>3, PlainStep, PlainRecheck DEF IInv
<1>19. BackInv'
  <2>1. \A x \in arrived : AskedFor(work["sync"], x) /\ sent'[x] = 0 =>
                  AskedFor(work'["sync"], x) \/ x \in Range(table')
    BY <1>2, <1>15 DEF AskedFor
  <2>2. \A t \in Workers : work'[t].items = work[t].items
    BY <1>10, <1>11, TwoWorkers
  <2>3. QED
    BY <1>1, <1>9, <2>1, <2>2, BackStep DEF IInv
<1>20. AskedInv'
  BY <1>11, AskedEnds DEF Asking
<1>21. ASSUME NEW x PROVE x \in Queued' => x \in Queued \cup {e}
  <2>1. x \in Queued' <=> x \in Evs(Held(queue', Session(x)))
    BY <1>9, BaseIs, QueueNow DEF Base
  <2>2. x \in Queued <=> x \in Evs(Held(queue, Session(x)))
    BY <1>9, BaseIs, QueueIs
  <2>3. QED
    BY <1>6, <1>8, <1>16, <2>1, <2>2, EmptyIs
<1>22. IdsInv'
  <2> SUFFICES ASSUME faults = 0
               PROVE  /\ ids' = Queued' /\ \A x \in Sessions : \A y : Single(Of(y), Held(queue', x))
                      /\ \A t \in Workers : /\ \A y : Single(Of(y), work'[t].todo) /\ Single(Of(y), work'[t].failed)
                                            /\ Evs(work'[t].todo) \cap Evs(work'[t].failed) = {}
    BY <1>1 DEF IdsInv
  <2>1. /\ ids = Queued /\ (\A x \in Sessions : \A y : Single(Of(y), Held(queue, x)))
        /\ \A t \in Workers : /\ \A y : Single(Of(y), work[t].todo) /\ Single(Of(y), work[t].failed)
                              /\ Evs(work[t].todo) \cap Evs(work[t].failed) = {}
    BY DEF IInv, IdsInv
  <2>2. \A y : Single(Of(y), H)
    BY <1>3, <1>5, <1>6, <2>1
  <2>3. \A x \in Sessions : \A y : Single(Of(y), Held(queue', x))
    BY <1>8, <1>17, <2>1, <2>2, EmptyIs
  <2>4. \A t \in Workers : /\ \A y : Single(Of(y), work'[t].todo) /\ Single(Of(y), work'[t].failed)
                           /\ Evs(work'[t].todo) \cap Evs(work'[t].failed) = {}
    BY <1>11, <2>1, EmptyIs, TwoWorkers
  <2>5. ASSUME NEW x PROVE x \in Queued' <=> x \in ids'
    <3>1. x \in Queued' <=> x \in Evs(Held(queue', Session(x)))
      BY <1>9, QueueNow DEF Base
    <3>2. x \in ids <=> x \in Evs(Held(queue, Session(x)))
      BY <1>9, <2>1, BaseIs, QueueIs
    <3>3. /\ x \in Evicted(out) => Session(x) \in out /\ x \in Evs(Held(queue, Session(x)))
          /\ Session(x) \in out /\ x \in Evs(Held(queue, Session(x))) => x \in Evicted(out)
      <4>1. \A y \in out : x \in Evs(Held(queue, y)) => Session(x) = y
        BY <1>9, BaseIs, QueueIs
      <4>2. x \in Evicted(out) <=> \E y \in out : x \in Evs(Held(queue, y))
        BY DEF Evicted
      <4>3. QED
        BY <4>1, <4>2
    <3>4. Head(h).ev \in Evs(H) \cup {e} /\ Session(Head(h).ev) = s
      BY <1>5, <1>16
    <3>5. CASE cut
      <4>1. ids' = (ids \cup {e}) \ (Evicted(out) \cup {Head(h).ev})
        BY <1>8, <3>5
      <4>2. Held(queue', s) = Tail(h)
        BY <1>8, <3>5
      <4>3. x \in Evs(Tail(h)) <=> x \in Evs(h) /\ x # Head(h).ev
        BY <1>16, <1>17, <2>2
      <4>4. CASE Session(x) = s
        BY <1>6, <1>8, <1>16, <3>1, <3>2, <3>3, <4>1, <4>2, <4>3, <4>4
      <4>5. CASE Session(x) # s /\ Session(x) \in out
        BY <1>5, <1>8, <3>1, <3>2, <3>3, <4>1, <4>5, EmptyIs
      <4>6. CASE Session(x) # s /\ Session(x) \notin out
        BY <1>5, <1>8, <3>1, <3>2, <3>3, <3>4, <4>1, <4>6
      <4>7. QED
        BY <4>4, <4>5, <4>6
    <3>6. CASE ~cut
      <4>1. ids' = (ids \cup {e}) \ Evicted(out)
        BY <1>8, <3>6
      <4>2. Held(queue', s) = h
        BY <1>8, <3>6
      <4>3. CASE Session(x) = s
        BY <1>6, <1>8, <1>16, <3>1, <3>2, <3>3, <4>1, <4>2, <4>3
      <4>4. CASE Session(x) # s /\ Session(x) \in out
        BY <1>5, <1>8, <3>1, <3>2, <3>3, <4>1, <4>4, EmptyIs
      <4>5. CASE Session(x) # s /\ Session(x) \notin out
        BY <1>5, <1>8, <3>1, <3>2, <3>3, <4>1, <4>5
      <4>6. QED
        BY <4>3, <4>4, <4>5
    <3>7. QED
      BY <3>5, <3>6
  <2>6. QED
    BY <2>3, <2>4, <2>5
<1>23. SyncRows'
  BY <1>11 DEF SyncRows
<1>24. OnceInv'
  <2>1. ASSUME NEW x \in Events \ excused' PROVE OnceOf(x)'
    <3>1. OnceOf(x)
      BY <1>1, <2>1 DEF IInv, OnceInv
    <3>2. Single(Of(x), Held(queue', Session(x)))
      <4>1. Single(Of(x), Held(queue, Session(x)))
        BY <3>1 DEF OnceOf
      <4>2. QED
        BY <1>6, <1>8, <1>17, <4>1, EmptyIs
    <3>3. \A t \in Workers : x \in Range(work'[t].items) => x \in Range(work[t].items)
      BY <1>11, EmptyIs, TwoWorkers
    <3>4. CASE x # e
      <4>1. x \in Queued' => x \in Queued
        BY <1>21, <3>4
      <4>2. InStill(recheck', x) => InStill(recheck, x) /\ recheck'.still = recheck.still
                                    /\ recheck'.at = recheck.at /\ recheck.at \in Nat
        BY <1>8, <1>9, StillIs
      <4>3. InStill(recheck', x) => Within(x, Held(queue', Session(x)), recheck'.at)
        <5> SUFFICES ASSUME InStill(recheck', x) PROVE Within(x, Held(queue', Session(x)), recheck.at)
          BY <4>2
        <5>1. Within(x, Held(queue, Session(x)), recheck.at) /\ recheck.at \in Nat
          BY <3>1, <4>2 DEF OnceOf
        <5>2. CASE Session(x) = s
          <6>1. Within(x, h, recheck.at)
            BY <1>3, <1>6, <1>7, <1>16, <3>4, <5>1, <5>2, NewIs, WithinIs
          <6>2. Within(x, Tail(h), recheck.at)
            BY <1>16, <5>1, <6>1, WithinIs
          <6>3. QED
            BY <1>8, <5>2, <6>1, <6>2
        <5>3. CASE Session(x) # s
          BY <1>8, <5>1, <5>3 DEF Within
        <5>4. QED
          BY <5>2, <5>3
      <4>4. \A t \in Workers : Holds(t, work'[t], x) => Holds(t, work[t], x) /\ Singly(work'[t], x)
        BY <1>11, <1>12, <3>1, TwoWorkers DEF OnceOf
      <4>5. \A t \in Workers : x \in Range(work'[t].items) => x \notin Range(table')
        BY <1>15, <3>1, <3>3, <3>4 DEF OnceOf
      <4>6. x \in Range(table') /\ sent[x] > 0 => \E t \in Workers : Leaves(t, work'[t], x)
        BY <1>10, <1>11, <1>15, <3>1, <3>4, TwoWorkers DEF OnceOf, Leaves
      <4>7. QED
        BY <1>1, <3>1, <3>2, <4>1, <4>2, <4>3, <4>4, <4>5, <4>6, OnceKeeps DEF OnceOf
    <3>5. CASE x = e
      <4>1. ~InStill(recheck, e) /\ ~InStill(recheck', e)
        BY <1>8, <1>9, <1>14, StillIs, StoredIs DEF InStill
      <4>2. \A t \in Workers : ~Holds(t, work'[t], e)
        BY <1>11, <1>12, <1>14, StoredIs, TwoWorkers DEF Holds
      <4>3. \A t \in Workers : e \notin Range(work'[t].items)
        BY <1>14, <3>3, <3>5, StoredIs DEF HeldBy
      <4>4. sent'[e] = 0
        BY <1>1, <1>14
      <4>5. QED
        BY <3>2, <3>5, <4>1, <4>2, <4>3, <4>4 DEF OnceOf
    <3>6. QED
      BY <3>4, <3>5
  <2>2. QED
    BY <2>1 DEF OnceInv
<1>25. CoverInv'
  <2>1. \A x : Covered(x) => Covered(x)'
    BY <1>1, <1>3, <1>11 DEF Covered, Asking
  <2>2. \A x \in Range(table') : x \in Range(table) \/ x \in stranded' \/ Session(x) \notin keys'
    BY <1>1, <1>2, <1>15
  <2>3. QED
    BY <1>1, <1>9, <1>13, <2>1, <2>2, CoverStep DEF IInv
<1>26. QED
  BY <1>9, <1>18, <1>19, <1>20, <1>22, <1>23, <1>24, <1>25 DEF IInv

\* What no other task works on, as Claimed says it.
LEMMA ClaimedIs ==
    ASSUME NEW t \in Workers, NEW e, e \notin Claimed(t)
    PROVE  /\ \A u \in Workers \ {t} : e \notin InHand(u) /\ e \notin work[u].handled
           /\ recheck.snap # <<>> => e \notin Evs(recheck.still)
<1>1. t # "recheck"
  BY DEF Workers
<1>2. QED
  BY <1>1 DEF Claimed

\* A task takes the events of a session out of the queue.
LEMMA TakenKeeps ==
    ASSUME IInv, Base', Grows, NEW t \in Workers, NEW s, Taken(s), TakeUp(t, Evs(Held(queue, s))),
           UNCHANGED <<arrived, table, sent, lost, faults>>,
           \A u \in Workers \ {t} : work'[u] = work[u],
           HeldBy(work[t]) = {}, work[t].at \notin Asking, work'[t].at = "try",
           work'[t].todo = Held(queue, s), work'[t].failed = <<>>, work'[t].items = <<>>,
           work'[t].handled = work[t].handled,
           \A e : Leaves(t, work[t], e) => Leaves(t, work'[t], e),
           phase = "syncing" => phase' = "syncing" \/ work["sync"].at = "idle",
           \/ Early(t, work'[t], phase')
           \/ Held(queue, s) \in Seq(Done(faults, excused)),
           \A x : x # s /\ Before(x) => Before(x)'
    PROVE  PlainInv' /\ BackInv' /\ AskedInv' /\ IdsInv' /\ OnceInv'
<1>1. PICK H : H = Held(queue, s)
  OBVIOUS
<1>2. PICK v : v = work'[t]
  OBVIOUS
<1>3. /\ v.at = "try" /\ v.todo = H /\ v.failed = <<>> /\ v.items = <<>> /\ v.handled = work[t].handled
      /\ \A x : Held(queue', x) = IF x = s THEN <<>> ELSE Held(queue, x)
      /\ ids' = ids \ Evs(H) /\ recheck' = Detached({s}) /\ excused' = excused \cup (Evs(H) \cap Claimed(t))
  BY <1>1, <1>2 DEF Taken, TakeUp
<1>4. Base /\ faults' = faults /\ PlainInv /\ QueueInv /\ QueueInv'
  BY DEF IInv, Base
<1>5. H \in Seq(Item) /\ (\A x \in Evs(H) : Session(x) = s) /\ Evs(H) \subseteq Queued
  BY <1>1, <1>4, QueueIs
<1>6. HeldBy(v) = Evs(H) /\ \A x : AskedFor(v, x) <=> FALSE
  BY <1>3, EmptyIs DEF HeldBy, AskedFor, Asking
<1>7. \A x : x \in Queued' <=> x \in Queued /\ x \notin Evs(H)
  <2>1. ASSUME NEW x PROVE x \in Queued' <=> x \in Queued /\ x \notin Evs(H)
    <3>1. x \in Queued' <=> x \in Evs(Held(queue', Session(x)))
      BY <1>4, QueueNow
    <3>2. x \in Queued <=> x \in Evs(Held(queue, Session(x)))
      BY <1>4, QueueIs
    <3>3. QED
      BY <1>1, <1>3, <1>5, <3>1, <3>2, EmptyIs
  <2>2. QED
    BY <2>1
<1>8. PlainInv'
  <2>1. \A x \in Sessions : Before(x)' \/ Held(queue', x) \in Seq(Done(faults, excused))
    BY <1>3, <1>4, EmptyIs DEF PlainInv
  <2>2. \A u \in Workers :
              /\ \/ Early(u, work'[u], phase')
                 \/ work'[u].todo \in Seq(Done(faults, excused)) \cup Seq(Done(faults', excused'))
              /\ work'[u].failed \in Seq(Done(faults, excused)) \cup Seq(Done(faults', excused'))
    <3>1. ASSUME NEW u \in Workers, u # t
          PROVE  /\ \/ Early(u, work'[u], phase')
                    \/ work'[u].todo \in Seq(Done(faults, excused)) \cup Seq(Done(faults', excused'))
                 /\ work'[u].failed \in Seq(Done(faults, excused)) \cup Seq(Done(faults', excused'))
      BY <1>4, <3>1, EarlyStays DEF PlainInv
    <3>2. /\ Early(t, work'[t], phase') \/ work'[t].todo \in Seq(Done(faults, excused))
          /\ work'[t].failed \in Seq(Done(faults, excused))
      BY EmptyIs
    <3>3. QED
      BY <3>1, <3>2
  <2>3. QED
    BY <1>3, <1>4, <2>1, <2>2, PlainStep, PlainRecheck
<1>9. BackInv'
  <2>1. \A u \in Workers : \A x \in Range(work[u].items) : x \in Range(work'[u].items)
    BY DEF HeldBy
  <2>2. \A x \in arrived : AskedFor(work["sync"], x) => AskedFor(work'["sync"], x)
    BY TwoWorkers DEF AskedFor
  <2>3. QED
    BY <1>4, <2>1, <2>2, BackStep DEF IInv
<1>10. AskedInv'
  <2>1. CASE t = "sync"
    BY <2>1, AskedEnds DEF Asking
  <2>2. CASE t # "sync"
    <3>1. \A u \in Workers : HeldBy(work'[u]) \subseteq Stored /\ work'[u].handled \subseteq Stored
      BY <1>2, <1>3, <1>5, <1>6, StoredIs
    <3>2. Stored' \subseteq Stored
      BY <1>3, <1>4, <1>7, <3>1, StoredIs, StoredRecheck, StoredStep
    <3>3. work'["sync"] = work["sync"]
      BY <2>2, TwoWorkers
    <3>4. QED
      BY <1>4, <3>2, <3>3, AskedStep DEF IInv
  <2>3. QED
    BY <2>1, <2>2
<1>11. IdsInv'
  <2> SUFFICES ASSUME faults = 0
               PROVE  /\ ids' = Queued' /\ \A x \in Sessions : \A y : Single(Of(y), Held(queue', x))
                      /\ \A u \in Workers : /\ \A y : Single(Of(y), work'[u].todo) /\ Single(Of(y), work'[u].failed)
                                            /\ Evs(work'[u].todo) \cap Evs(work'[u].failed) = {}
    BY <1>4 DEF IdsInv
  <2>1. /\ ids = Queued /\ (\A x \in Sessions : \A y : Single(Of(y), Held(queue, x)))
        /\ \A u \in Workers : /\ \A y : Single(Of(y), work[u].todo) /\ Single(Of(y), work[u].failed)
                              /\ Evs(work[u].todo) \cap Evs(work[u].failed) = {}
    BY DEF IInv, IdsInv
  <2>2. ids' = Queued'
    BY <1>3, <1>7, <2>1
  <2>3. \A x \in Sessions : \A y : Single(Of(y), Held(queue', x))
    BY <1>3, <2>1, EmptyIs
  <2>4. \A y : Single(Of(y), H)
    <3>1. s \in Sessions \/ H = <<>>
      BY <1>1, <1>4, BaseIs, HeldIs
    <3>2. QED
      BY <1>1, <2>1, <3>1, EmptyIs
  <2>5. \A u \in Workers : /\ \A y : Single(Of(y), work'[u].todo) /\ Single(Of(y), work'[u].failed)
                           /\ Evs(work'[u].todo) \cap Evs(work'[u].failed) = {}
    BY <1>1, <2>1, <2>4, EmptyIs
  <2>6. QED
    BY <2>2, <2>3, <2>5
<1>12. OnceInv'
  <2>1. ASSUME NEW x \in Events \ excused' PROVE OnceOf(x)'
    <3>1. OnceOf(x) /\ x \notin Evs(H) \cap Claimed(t)
      BY <1>3, <2>1 DEF IInv, OnceInv
    <3>2. InStill(recheck', x) => /\ InStill(recheck, x) /\ recheck'.still = recheck.still
                                  /\ recheck'.at = recheck.at
      BY <1>3, <1>4, StillIs
    <3>3. Single(Of(x), Held(queue', Session(x)))
      BY <1>3, <3>1, EmptyIs DEF OnceOf
    <3>4. \A u \in Workers : x \in Range(work'[u].items) => x \notin Range(table')
      BY <3>1, EmptyIs DEF OnceOf
    <3>5. x \in Range(table') /\ sent[x] > 0 => \E u \in Workers : Leaves(u, work'[u], x)
      BY <3>1 DEF OnceOf
    <3>6. CASE x \in Evs(H)
      <4>1. sent[x] = 0 /\ x \notin Queued' /\ \A u \in Workers \ {t} : ~Holds(u, work'[u], x)
        BY <1>5, <1>7, <3>1, <3>6 DEF OnceOf
      <4>2. ~InStill(recheck', x)
        BY <3>1, <3>2, <3>6, ClaimedIs DEF InStill
      <4>3. Singly(work'[t], x)
        <5>1. Single(Of(x), H)
          BY <1>1, <1>5, <3>1, <3>6 DEF OnceOf
        <5>2. QED
          BY <1>1, <5>1, EmptyIs DEF Singly
      <4>4. sent'[x] = 0
        BY <4>1
      <4>5. \A u \in Workers : Holds(u, work'[u], x) => u = t
        BY <4>1
      <4>6. QED
        BY <3>3, <3>4, <4>1, <4>2, <4>3, <4>4, <4>5 DEF OnceOf
    <3>7. CASE x \notin Evs(H)
      <4>1. \A u \in Workers : Holds(u, work'[u], x) => Holds(u, work[u], x) /\ Singly(work'[u], x)
        BY <1>2, <1>6, <3>1, <3>7 DEF OnceOf, Holds
      <4>2. InStill(recheck', x) => Within(x, Held(queue', Session(x)), recheck'.at)
        BY <1>3, <3>1, <3>2 DEF OnceOf, Within
      <4>3. QED
        BY <1>7, <3>1, <3>2, <3>3, <3>4, <3>5, <4>1, <4>2, OnceKeeps DEF OnceOf
    <3>8. QED
      BY <3>6, <3>7
  <2>2. QED
    BY <2>1 DEF OnceInv
<1>13. QED
  BY <1>8, <1>9, <1>10, <1>11, <1>12

LEMMA KeyArrivesKeeps == ASSUME IInv, NEW s \in Sessions, KeyArrives(s) PROVE IInv'
<1> DEFINE w == work["sync"]
           v == work'["sync"]
<1>1. UNCHANGED <<phase, arrived, backup, seen, table, faults, ends, sent, lost, stranded>>
  BY DEF KeyArrives
<1>2. /\ Syncs /\ w.at = "idle" /\ keys' = keys \cup {s}
      /\ Becomes("sync", "try", <<>>, <<>>, s, Held(queue, s), <<>>, <<s>>, <<>>, {}, "idle")
      /\ Taken(s) /\ TakeUp("sync", Evs(Held(queue, s)))
  BY KeyArrivesIs DEF IInv
<1>3. Base /\ Base' /\ Grows
  BY KeyArrivesBase DEF IInv
<1>4. w.handled = {} /\ HeldBy(w) = {} /\ w.at \notin Asking
  BY <1>2, <1>3, JobsAre, TwoWorkers DEF Asking
<1>5. /\ (\A u \in Workers \ {"sync"} : work'[u] = work[u]) /\ work'["retry"] = work["retry"]
      /\ v.at = "try" /\ v.session = s /\ v.todo = Held(queue, s)
      /\ v.failed = <<>> /\ v.items = <<>> /\ v.rows = <<s>> /\ v.handled = w.handled
  BY <1>2, <1>4, TwoWorkers DEF Becomes
<1>6. s \in Range(v.rows)
  BY <1>5 DEF Range
<1>7. PlainInv' /\ BackInv' /\ AskedInv' /\ IdsInv' /\ OnceInv'
  <2>1. \A e : ~Leaves("sync", w, e)
    BY <1>4 DEF Leaves
  <2>2. /\ Early("sync", v, phase') \/ Held(queue, s) \in Seq(Done(faults, excused))
        /\ \A x : Before(x) => Before(x)'
    <3>1. phase = "up" => Held(queue, s) \in Seq(Done(faults, excused))
      BY <1>3, NoneBefore DEF IInv
    <3>2. QED
      BY <1>1, <1>2, <1>5, <3>1 DEF Early, Before, Syncs
  <2>3. QED
    BY <1>1, <1>2, <1>3, <1>4, <1>5, <2>1, <2>2, TwoWorkers, TakenKeeps
<1>8. SyncRows'
  BY <1>5, <1>6 DEF SyncRows
<1>9. CoverInv'
  <2>1. \A x : x # s /\ Covered(x) => Covered(x)'
    BY <1>1, <1>2, <1>5 DEF Covered
  <2>2. Covered(s)'
    BY <1>5, <1>6 DEF Covered
  <2>3. QED
    BY <1>1, <1>2, <1>3, <2>1, <2>2, CoverStep DEF IInv
<1>10. QED
  BY <1>3, <1>7, <1>8, <1>9 DEF IInv

\* A task that has nothing in hand goes on, and takes nothing up.
LEMMA PassKeeps ==
    ASSUME IInv, Base', Grows, NEW t \in Workers,
           UNCHANGED <<arrived, queue, ids, table, recheck, sent, lost>>,
           \A u \in Workers \ {t} : work'[u] = work[u],
           HeldBy(work[t]) = {}, work[t].at \notin Asking, work'[t].at \notin Asking,
           work'[t].todo = <<>>, work'[t].failed = <<>>, work'[t].items = <<>>,
           work'[t].handled \subseteq work[t].handled,
           \A x \in Range(table) : Leaves(t, work[t], x) => Leaves(t, work'[t], x) \/ x \in excused',
           phase = "syncing" => phase' = "syncing" \/ work["sync"].at = "idle",
           \A x : Before(x) => Before(x)' \/ Held(queue, x) = <<>>
    PROVE  PlainInv' /\ BackInv' /\ AskedInv' /\ IdsInv' /\ OnceInv'
<1>1. PICK v : v = work'[t]
  OBVIOUS
<1>2. /\ v.at \notin Asking /\ v.todo = <<>> /\ v.failed = <<>> /\ v.items = <<>>
      /\ v.handled \subseteq work[t].handled
  BY <1>1
<1>3. Base /\ PlainInv /\ QueueInv /\ QueueInv' /\ Queued' = Queued
  BY DEF IInv, Base, Queued
<1>4. HeldBy(v) = {} /\ \A x : ~AskedFor(v, x)
  BY <1>2, EmptyHolds DEF AskedFor
<1>5. faults' = 0 => faults = 0
  BY <1>3, BaseIs DEF Grows, PastInv
<1>6. PlainInv'
  <2>1. \A x \in Sessions : Before(x)' \/ Held(queue', x) \in Seq(Done(faults, excused))
    BY <1>3, EmptyIs DEF PlainInv
  <2>2. \A u \in Workers :
              /\ \/ Early(u, work'[u], phase')
                 \/ work'[u].todo \in Seq(Done(faults, excused)) \cup Seq(Done(faults', excused'))
              /\ work'[u].failed \in Seq(Done(faults, excused)) \cup Seq(Done(faults', excused'))
    <3>1. ASSUME NEW u \in Workers, u # t
          PROVE  /\ \/ Early(u, work'[u], phase')
                    \/ work'[u].todo \in Seq(Done(faults, excused)) \cup Seq(Done(faults', excused'))
                 /\ work'[u].failed \in Seq(Done(faults, excused)) \cup Seq(Done(faults', excused'))
      BY <1>3, <3>1, EarlyStays DEF PlainInv
    <3>2. /\ work'[t].todo \in Seq(Done(faults, excused))
          /\ work'[t].failed \in Seq(Done(faults, excused))
      BY EmptyIs
    <3>3. QED
      BY <3>1, <3>2
  <2>3. QED
    BY <1>3, <2>1, <2>2, PlainStep, PlainRecheck
<1>7. BackInv'
  <2>1. \A u \in Workers : \A x \in Range(work[u].items) : x \in Range(work'[u].items)
    BY DEF HeldBy
  <2>2. \A x \in arrived : AskedFor(work["sync"], x) => AskedFor(work'["sync"], x)
    BY TwoWorkers DEF AskedFor
  <2>3. QED
    BY <1>3, <2>1, <2>2, BackStep DEF IInv
<1>8. AskedInv'
  <2>1. CASE t = "sync"
    BY <2>1, AskedEnds
  <2>2. CASE t # "sync"
    <3>1. \A u \in Workers : HeldBy(work'[u]) \subseteq Stored /\ work'[u].handled \subseteq Stored
      BY <1>1, <1>2, <1>4, StoredIs
    <3>2. Stored' \subseteq Stored
      BY <1>3, <3>1, StoredIs, StoredRecheck, StoredStep
    <3>3. work'["sync"] = work["sync"]
      BY <2>2, TwoWorkers
    <3>4. QED
      BY <1>3, <3>2, <3>3, AskedStep DEF IInv
  <2>3. QED
    BY <2>1, <2>2
<1>9. IdsInv'
  BY <1>3, <1>5, EmptyIs DEF IInv, IdsInv
<1>10. OnceInv'
  <2>1. ASSUME NEW x \in Events \ excused' PROVE OnceOf(x)'
    <3>1. OnceOf(x)
      BY <2>1 DEF IInv, OnceInv, Grows
    <3>2. \A u \in Workers : Holds(u, work'[u], x) => Holds(u, work[u], x) /\ Singly(work'[u], x)
      BY <1>1, <1>4, <3>1 DEF OnceOf, Holds
    <3>3. \A u \in Workers : x \in Range(work'[u].items) => x \notin Range(table')
      BY <3>1, EmptyIs DEF OnceOf
    <3>4. x \in Range(table') /\ sent[x] > 0 => \E u \in Workers : Leaves(u, work'[u], x)
      BY <2>1, <3>1 DEF OnceOf
    <3>5. QED
      BY <1>3, <3>1, <3>2, <3>3, <3>4, OnceKeeps DEF OnceOf
  <2>2. QED
    BY <2>1 DEF OnceInv
<1>11. QED
  BY <1>6, <1>7, <1>8, <1>9, <1>10

LEMMA PopNextKeeps == ASSUME IInv, PopNext PROVE IInv'
<1> DEFINE v == work'["retry"]
<1>1. UNCHANGED <<phase, arrived, keys, backup, seen, table, faults, ends, sent, lost>>
  BY DEF PopNext
<1>2. PICK w : w = work["retry"]
  OBVIOUS
<1>3. PICK s : s = Head(w.queued)
  OBVIOUS
<1>4. /\ w.at = "pop" /\ w \in Job
      /\ \/ /\ w.queued = <<>> /\ UNCHANGED <<queue, ids, recheck, excused, stranded>>
            /\ Becomes("retry", "rows", w.event, w.queued, w.session, w.todo, w.failed,
                       FailedSessions, w.items, w.handled, w.next)
         \/ /\ w.queued # <<>> /\ Held(queue, s) = <<>>
            /\ Becomes("retry", "idle", <<>>, <<>>, <<>>, <<>>, <<>>, <<>>, <<>>, {}, "idle")
            /\ stranded' = stranded \cup Queued \cup Range(table)
            /\ excused' = excused \cup w.handled
            /\ UNCHANGED <<queue, ids, recheck>>
         \/ /\ w.queued # <<>> /\ Held(queue, s) # <<>> /\ s \in Sessions
            /\ Becomes("retry", "try", w.event, Tail(w.queued), s, Held(queue, s), w.failed,
                       w.rows, w.items, w.handled, w.next)
            /\ Taken(s) /\ TakeUp("retry", Evs(Held(queue, s))) /\ UNCHANGED stranded
  BY <1>2, <1>3, PopNextIs DEF IInv
<1>5. Base /\ Base' /\ Grows /\ PhaseInv
  BY PopNextBase DEF IInv, Base
<1>6. w.todo = <<>> /\ w.failed = <<>> /\ w.items = <<>> /\ HeldBy(w) = {}
  BY <1>2, <1>4, <1>5, JobsAre, EmptyHolds, TwoWorkers
<1>7. CASE w.queued = <<>>
  <2>1. /\ v.at = "rows" /\ v.todo = <<>> /\ v.failed = <<>> /\ v.items = <<>> /\ v.handled = w.handled
        /\ v.rows = FailedSessions /\ v.next = w.next /\ work'["sync"] = work["sync"]
        /\ \A u \in Workers \ {"retry"} : work'[u] = work[u]
        /\ UNCHANGED <<queue, ids, recheck, excused, stranded>>
    BY <1>4, <1>6, <1>7, TwoWorkers DEF Becomes
  <2>2. \A x \in Range(table) : Session(x) \in Range(v.rows)
    BY <1>5, <2>1, BaseIs, FailedSessionsIs
  <2>3. PlainInv' /\ BackInv' /\ AskedInv' /\ IdsInv' /\ OnceInv'
    <3>1. \A x \in Range(table) : Leaves("retry", work["retry"], x) => Leaves("retry", work'["retry"], x)
      BY <1>2, <2>1, <2>2 DEF Leaves
    <3>2. \A x : Before(x) => Before(x)'
      <4>1. phase \notin {"down", "syncing"}
        BY <1>2, <1>4, <1>5 DEF PhaseInv
      <4>2. QED
        BY <1>1, <1>2, <1>4, <1>7, <2>1, <4>1, EmptyIs DEF Before
    <3>3. QED
      BY <1>1, <1>2, <1>4, <1>5, <1>6, <2>1, <3>1, <3>2, PassKeeps, TwoWorkers DEF Asking
  <2>4. SyncRows'
    BY <2>1 DEF SyncRows, IInv
  <2>5. CoverInv'
    <3>1. \A x \in Range(table') : Covered(Session(x))'
      BY <1>1, <2>1, <2>2 DEF Covered
    <3>2. QED
      BY <3>1 DEF CoverInv
  <2>6. QED
    BY <1>5, <2>3, <2>4, <2>5 DEF IInv
<1>8. CASE w.queued # <<>> /\ Held(queue, s) = <<>>
  <2>1. /\ v.at = "idle" /\ v.todo = <<>> /\ v.failed = <<>> /\ v.items = <<>> /\ v.handled = {}
        /\ work'["sync"] = work["sync"]
        /\ \A u \in Workers \ {"retry"} : work'[u] = work[u]
        /\ stranded' = stranded \cup Queued \cup Range(table) /\ excused' = excused \cup w.handled
        /\ UNCHANGED <<queue, ids, recheck>>
    BY <1>4, <1>6, <1>8, TwoWorkers DEF Becomes
  <2>2. s \in Range(w.queued)
    BY <1>3, <1>4, <1>8, TailIs DEF Job
  <2>3. w.next = "idle"
    BY <1>2, <1>4, <1>5, <1>8, <2>2 DEF PhaseInv
  <2>4. PlainInv' /\ BackInv' /\ AskedInv' /\ IdsInv' /\ OnceInv'
    <3>1. \A x \in Range(table) : Leaves("retry", work["retry"], x) => x \in excused'
      BY <1>2, <2>1 DEF Leaves
    <3>2. \A x : ~Before(x)
      BY <1>2, <1>4, <1>5, <2>3 DEF Before, PhaseInv
    <3>3. QED
      BY <1>1, <1>2, <1>4, <1>5, <1>6, <2>1, <3>1, <3>2, PassKeeps, TwoWorkers DEF Asking
  <2>5. SyncRows'
    BY <2>1 DEF SyncRows, IInv
  <2>6. CoverInv'
    BY <1>1, <2>1 DEF CoverInv
  <2>7. QED
    BY <1>5, <2>4, <2>5, <2>6 DEF IInv
<1>9. CASE w.queued # <<>> /\ Held(queue, s) # <<>>
  <2>1. /\ v.at = "try" /\ v.queued = Tail(w.queued) /\ v.todo = Held(queue, s) /\ v.failed = <<>>
        /\ v.items = <<>> /\ v.handled = w.handled /\ v.next = w.next
        /\ work'["sync"] = work["sync"] /\ \A u \in Workers \ {"retry"} : work'[u] = work[u]
        /\ Taken(s) /\ TakeUp("retry", Evs(Held(queue, s))) /\ UNCHANGED stranded /\ s \in Sessions
    BY <1>4, <1>6, <1>9, TwoWorkers DEF Becomes
  <2>2. Range(w.queued) = {s} \cup Range(v.queued)
    BY <1>3, <1>4, <1>9, <2>1, TailIs DEF Job
  <2>3. PlainInv' /\ BackInv' /\ AskedInv' /\ IdsInv' /\ OnceInv'
    <3>1. \A x : Leaves("retry", work["retry"], x) => Leaves("retry", work'["retry"], x)
      BY <1>2, <2>1 DEF Leaves
    <3>2. Early("retry", v, phase') \/ Held(queue, s) \in Seq(Done(faults, excused))
      <4>1. w.next = "idle" => ~Before(s)
        BY <1>2, <1>4, <1>5 DEF Before, PhaseInv
      <4>2. QED
        BY <1>5, <2>1, <4>1, NoneBefore DEF IInv, Early
    <3>3. \A x : x # s /\ Before(x) => Before(x)'
      BY <1>1, <1>2, <1>4, <2>1, <2>2 DEF Before
    <3>4. work["retry"].at \notin Asking /\ HeldBy(work["retry"]) = {}
      BY <1>2, <1>4, <1>6 DEF Asking
    <3>5. QED
      BY <1>1, <1>2, <1>5, <2>1, <3>1, <3>2, <3>3, <3>4, TakenKeeps, TwoWorkers
  <2>4. SyncRows'
    BY <2>1 DEF SyncRows, IInv
  <2>5. CoverInv'
    <3>1. \A x : Covered(x)'
      BY <2>1 DEF Covered
    <3>2. QED
      BY <3>1 DEF CoverInv
  <2>6. QED
    BY <1>5, <2>3, <2>4, <2>5 DEF IInv
<1>10. QED
  BY <1>4, <1>7, <1>8, <1>9

LEMMA PopRowsKeeps == ASSUME IInv, NEW t \in Workers, PopRows(t) PROVE IInv'
<1> DEFINE v == work'[t]
<1>1. UNCHANGED <<arrived, keys, backup, seen, queue, ids, recheck, faults, ends, sent, lost, stranded>>
  BY DEF PopRows
<1>2. PICK w : w = work[t]
  OBVIOUS
<1>3. PICK s : s = Head(w.rows)
  OBVIOUS
<1>4. /\ w.at = "rows" /\ w \in Job /\ JobOK(t)
      /\ \/ /\ w.rows = <<>> /\ Ends(t, w.next) /\ UNCHANGED <<table, excused>>
            /\ phase' = IF w.next = "up" THEN "up" ELSE phase
         \/ /\ w.rows # <<>> /\ s \in Sessions /\ t = "retry"
            /\ s \in keys => ~\E e \in Range(table) : Session(e) = s
            /\ UNCHANGED <<phase, table, excused>>
            /\ Becomes(t, "rows", w.event, w.queued, w.session, w.todo, w.failed,
                       Tail(w.rows), w.items, w.handled, w.next)
         \/ /\ w.rows # <<>> /\ s \in Sessions /\ UNCHANGED phase
            /\ \E items \in Seq(Events) :
                  /\ Range(items) = {e \in Range(table) : Session(e) = s} \ w.handled
                  /\ \A e : Single({e}, items)
                  /\ Becomes(t, "items", w.event, w.queued, w.session, w.todo, w.failed,
                             Tail(w.rows), items, w.handled, w.next)
            /\ TableOK(table') /\ Range(table') = {e \in Range(table) : Session(e) # s}
            /\ excused' = excused \cup ({e \in Range(table) : Session(e) = s}
                                        \cap (Claimed(t) \cup Queued))
  BY <1>2, <1>3, PopRowsIs DEF IInv
<1>5. Base /\ Base' /\ Grows /\ PhaseInv /\ Queued' = Queued
  BY <1>1, PopRowsBase DEF IInv, Base, Queued
<1>6. /\ w.todo = <<>> /\ w.failed = <<>> /\ w.items = <<>> /\ HeldBy(w) = {}
      /\ \A e \in w.handled : sent[e] > 0 /\ Session(e) \in keys
      /\ t = "sync" => w.next = "idle"
  BY <1>2, <1>4, <1>5, JobsAre, EmptyHolds
<1>7. work[t].at \notin Asking /\ HeldBy(work[t]) = {}
  BY <1>2, <1>4, <1>6 DEF Asking
<1>8. w.rows # <<>> => Range(w.rows) = {s} \cup Range(Tail(w.rows))
  BY <1>3, <1>4, TailIs DEF Job
<1>9. ASSUME w.rows = <<>>, Ends(t, w.next), table' = table, excused' = excused,
             phase' = IF w.next = "up" THEN "up" ELSE phase
      PROVE  IInv'
  <2>1. /\ v.at = (IF w.next = "ensure" THEN "ensure" ELSE "idle") /\ v.todo = <<>> /\ v.failed = <<>>
        /\ v.items = <<>> /\ v.handled = {} /\ \A u \in Workers \ {t} : work'[u] = work[u]
    BY <1>9 DEF Ends, Becomes
  <2>2. v.at \notin Asking
    BY <2>1 DEF Asking
  <2>3. \A x : ~Leaves(t, work[t], x)
    BY <1>2, <1>4, <1>9, EmptyIs DEF Leaves
  <2>4. /\ \A x : Before(x) => Before(x)'
        /\ phase = "syncing" => phase' = "syncing"
        /\ phase' \in {"starting", "up"} => phase \in {"starting", "up"}
    <3>1. CASE t = "sync"
      BY <1>6, <1>9, <2>1, <3>1, BaseIs, TwoWorkers DEF Before
    <3>2. CASE t = "retry"
      <4>1. phase \notin {"down", "syncing"}
        BY <1>2, <1>4, <1>5, <3>2 DEF PhaseInv
      <4>2. \A x : Before(x) => w.next = "ensure"
        BY <1>2, <1>4, <3>2, <4>1 DEF Before
      <4>3. w.next = "ensure" => work'["retry"].at = "ensure"
        BY <2>1, <3>2
      <4>4. QED
        BY <1>5, <4>1, <4>2, <4>3, BaseIs DEF Before
    <3>3. QED
      BY <3>1, <3>2, TwoWorkers
  <2>5. PlainInv' /\ BackInv' /\ AskedInv' /\ IdsInv' /\ OnceInv'
    BY <1>1, <1>5, <1>7, <1>9, <2>1, <2>2, <2>3, <2>4, PassKeeps
  <2>6. SyncRows'
    BY <2>1, TwoWorkers DEF IInv, SyncRows
  <2>7. CoverInv'
    <3>1. \A x : Covered(x) => Covered(x)'
      <4>1. CASE t = "sync"
        BY <1>1, <1>2, <1>4, <1>9, <2>1, <4>1, EmptyIs, TwoWorkers DEF Covered
      <4>2. CASE t = "retry"
        BY <1>1, <1>2, <1>4, <1>9, <2>1, <4>2, EmptyIs, TwoWorkers DEF Covered
      <4>3. QED
        BY <4>1, <4>2, TwoWorkers
    <3>2. QED
      BY <1>1, <1>5, <1>9, <2>4, <3>1, CoverStays DEF IInv
  <2>8. QED
    BY <1>5, <2>5, <2>6, <2>7 DEF IInv
<1>10. ASSUME w.rows # <<>>, t = "retry", s \in keys => ~\E e \in Range(table) : Session(e) = s,
              phase' = phase, table' = table, excused' = excused,
              Becomes(t, "rows", w.event, w.queued, w.session, w.todo, w.failed,
                      Tail(w.rows), w.items, w.handled, w.next)
       PROVE  IInv'
  <2>1. /\ v.at = "rows" /\ v.todo = <<>> /\ v.failed = <<>> /\ v.items = <<>> /\ v.handled = w.handled
        /\ v.rows = Tail(w.rows) /\ v.queued = w.queued /\ v.next = w.next
        /\ (\A u \in Workers \ {t} : work'[u] = work[u]) /\ work'["sync"] = work["sync"]
    BY <1>6, <1>10, TwoWorkers DEF Becomes
  <2>2. v.at \notin Asking
    BY <2>1 DEF Asking
  <2>3. \A x \in Range(table) : Leaves(t, work[t], x) => Leaves(t, work'[t], x)
    BY <1>2, <1>4, <1>6, <1>8, <1>10, <2>1 DEF Leaves
  <2>4. \A x : Before(x) => Before(x)'
    BY <1>2, <1>4, <1>10, <2>1 DEF Before
  <2>5. PlainInv' /\ BackInv' /\ AskedInv' /\ IdsInv' /\ OnceInv'
    BY <1>1, <1>2, <1>5, <1>7, <1>10, <2>1, <2>2, <2>3, <2>4, PassKeeps
  <2>6. SyncRows'
    BY <2>1 DEF IInv, SyncRows
  <2>7. CoverInv'
    <3>1. \A x : x # s /\ Covered(x) => Covered(x)'
      BY <1>1, <1>2, <1>4, <1>8, <1>10, <2>1 DEF Covered
    <3>2. \A e \in Range(table') : Session(e) \in keys' => Session(e) # s
      BY <1>1, <1>10
    <3>3. QED
      BY <1>1, <1>5, <1>10, <3>1, <3>2, CoverStep DEF IInv
  <2>8. QED
    BY <1>5, <2>5, <2>6, <2>7 DEF IInv
<1>11. ASSUME w.rows # <<>>, phase' = phase, NEW items \in Seq(Events),
              Range(items) = {e \in Range(table) : Session(e) = s} \ w.handled,
              \A e : Single({e}, items),
              Becomes(t, "items", w.event, w.queued, w.session, w.todo, w.failed,
                      Tail(w.rows), items, w.handled, w.next),
              Range(table') = {e \in Range(table) : Session(e) # s},
              excused' = excused \cup ({e \in Range(table) : Session(e) = s}
                                        \cap (Claimed(t) \cup Queued))
       PROVE  IInv'
  <2>1. /\ v.at = "items" /\ v.todo = <<>> /\ v.failed = <<>> /\ v.items = items /\ v.handled = w.handled
        /\ v.rows = Tail(w.rows) /\ v.queued = w.queued /\ v.next = w.next
        /\ \A u \in Workers \ {t} : work'[u] = work[u]
    BY <1>6, <1>11 DEF Becomes
  <2>2. HeldBy(v) = Range(items) /\ \A x : ~AskedFor(v, x)
    BY <2>1, EmptyIs DEF HeldBy, AskedFor, Asking
  <2>3. PlainInv'
    <3>1. \A x : Before(x) => Before(x)'
      BY <1>2, <1>4, <1>11, <2>1, TwoWorkers DEF Before
    <3>2. \A u \in Workers :
              /\ \/ Early(u, work'[u], phase')
                 \/ work'[u].todo \in Seq(Done(faults, excused)) \cup Seq(Done(faults', excused'))
              /\ work'[u].failed \in Seq(Done(faults, excused)) \cup Seq(Done(faults', excused'))
      <4>1. ASSUME NEW u \in Workers, u # t
            PROVE  /\ \/ Early(u, work'[u], phase')
                      \/ work'[u].todo \in Seq(Done(faults, excused)) \cup Seq(Done(faults', excused'))
                   /\ work'[u].failed \in Seq(Done(faults, excused)) \cup Seq(Done(faults', excused'))
        BY <1>11, <2>1, <4>1 DEF IInv, PlainInv
      <4>2. /\ work'[t].todo \in Seq(Done(faults, excused))
            /\ work'[t].failed \in Seq(Done(faults, excused))
        BY <2>1, EmptyIs
      <4>3. QED
        BY <4>1, <4>2
    <3>3. QED
      BY <1>1, <1>5, <3>1, <3>2, PlainJobs DEF IInv
  <2>4. BackInv'
    <3>1. \A x \in Range(table) : sent[x] = 0 => x \in Range(table') \/ x \in Range(work'[t].items)
      BY <1>6, <1>11, <2>1
    <3>2. \A u \in Workers : \A x \in Range(work[u].items) : x \in Range(work'[u].items)
      BY <1>7, <2>1 DEF HeldBy
    <3>3. \A x \in arrived : AskedFor(work["sync"], x) => AskedFor(work'["sync"], x)
      BY <1>7, <2>1, TwoWorkers DEF AskedFor
    <3>4. QED
      BY <1>1, <1>5, <3>1, <3>2, <3>3, BackStep DEF IInv
  <2>5. AskedInv'
    <3>1. CASE t = "sync"
      BY <2>1, <3>1, AskedEnds DEF Asking
    <3>2. CASE t # "sync"
      <4>1. HeldBy(v) \subseteq Range(table) /\ Range(table') \subseteq Range(table)
        BY <1>11, <2>2
      <4>2. \A u \in Workers : HeldBy(work'[u]) \subseteq Stored /\ work'[u].handled \subseteq Stored
        BY <1>2, <2>1, <4>1, StoredIs
      <4>3. Stored' \subseteq Stored
        BY <1>1, <1>5, <4>1, <4>2, StoredIs, StoredRecheck, StoredStep
      <4>4. work'["sync"] = work["sync"]
        BY <2>1, <3>2, TwoWorkers
      <4>5. QED
        BY <1>1, <1>5, <4>3, <4>4, AskedStep DEF IInv
    <3>3. QED
      BY <3>1, <3>2
  <2>6. IdsInv'
    BY <1>1, <1>5, <2>1, EmptyIs DEF IInv, IdsInv
  <2>7. OnceInv'
    <3>1. ASSUME NEW x \in Events \ excused' PROVE OnceOf(x)'
      <4>1. OnceOf(x)
        BY <1>11, <3>1 DEF IInv, OnceInv
      <4>2. CASE x \in Range(items)
        <5>1. x \in Range(table) /\ Session(x) = s /\ x \notin w.handled /\ x \notin Claimed(t) /\ x \notin Queued
          BY <1>11, <3>1, <4>2
        <5>2. /\ \A u \in Workers \ {t} : x \notin InHand(u) /\ x \notin work[u].handled
              /\ ~InStill(recheck, x)
          BY <5>1, ClaimedIs DEF InStill
        <5>3. sent[x] = 0
          <6>1. \A u \in Workers : x \notin work[u].handled
            BY <1>2, <5>1, <5>2
          <6>2. ~(sent[x] > 0)
            BY <4>1, <5>1, <6>1 DEF OnceOf, Leaves
          <6>3. sent[x] \in 0..2
            BY <1>5, BaseIs
          <6>4. QED
            BY <6>2, <6>3
        <5>4. \A u \in Workers \ {t} : ~Holds(u, work'[u], x)
          BY <1>5, <2>1, <5>2, JobsAre DEF Holds
        <5>5. x \notin Range(table') /\ \A u \in Workers \ {t} : x \notin Range(work'[u].items)
          BY <1>11, <5>1, <5>4 DEF Holds, HeldBy
        <5>6. Singly(work'[t], x)
          BY <1>11, <2>1, EmptyIs DEF Singly
        <5>7. Single(Of(x), Held(queue', Session(x)))
          BY <1>1, <4>1 DEF OnceOf
        <5>8. x \notin Queued' /\ ~InStill(recheck', x) /\ sent'[x] = 0
          BY <1>1, <1>5, <5>1, <5>2, <5>3
        <5>9. \A u \in Workers : Holds(u, work'[u], x) => u = t
          BY <5>4
        <5>10. QED
          BY <5>4, <5>5, <5>6, <5>7, <5>8, <5>9 DEF OnceOf
      <4>3. CASE x \notin Range(items)
        <5>1. ~Holds(t, work'[t], x)
          BY <2>2, <4>3 DEF Holds
        <5>2. \A u \in Workers : Holds(u, work'[u], x) => Holds(u, work[u], x) /\ Singly(work'[u], x)
          BY <2>1, <4>1, <5>1 DEF OnceOf
        <5>3. \A u \in Workers : x \in Range(work'[u].items) => x \notin Range(table')
          BY <1>11, <2>1, <4>1, <4>3 DEF OnceOf
        <5>4. x \in Range(table') /\ sent[x] > 0 => \E u \in Workers : Leaves(u, work'[u], x)
          <6>1. x \in Range(table') => x \in Range(table) /\ Session(x) # s
            BY <1>11
          <6>2. Session(x) # s /\ Leaves(t, work[t], x) => Leaves(t, work'[t], x)
            BY <1>2, <1>4, <1>8, <1>11, <2>1 DEF Leaves
          <6>3. QED
            BY <2>1, <4>1, <6>1, <6>2 DEF OnceOf
        <5>5. QED
          BY <1>1, <1>5, <4>1, <5>2, <5>3, <5>4, OnceKeeps DEF OnceOf
      <4>4. QED
        BY <4>2, <4>3
    <3>2. QED
      BY <3>1 DEF OnceInv
  <2>8. SyncRows'
    BY <2>1, TwoWorkers DEF IInv, SyncRows
  <2>9. CoverInv'
    <3>1. \A x : x # s /\ Covered(x) => Covered(x)'
      <4>1. CASE t = "sync"
        BY <1>1, <1>2, <1>4, <1>8, <1>11, <2>1, <4>1, TwoWorkers DEF Covered
      <4>2. CASE t = "retry"
        BY <1>1, <1>2, <1>4, <1>8, <1>11, <2>1, <4>2, TwoWorkers DEF Covered
      <4>3. QED
        BY <4>1, <4>2, TwoWorkers
    <3>2. \A x \in Range(table') : x \in Range(table) /\ Session(x) # s
      BY <1>11
    <3>3. QED
      BY <1>1, <1>5, <1>11, <3>1, <3>2, CoverStep DEF IInv
  <2>10. QED
    BY <1>5, <2>3, <2>4, <2>5, <2>6, <2>7, <2>8, <2>9 DEF IInv
<1>12. QED
  BY <1>4, <1>9, <1>10, <1>11

LEMMA RowsDoneKeeps == ASSUME IInv, NEW t \in Workers, RowsDone(t) PROVE IInv'
<1> DEFINE v == work'[t]
<1>1. UNCHANGED <<phase, arrived, keys, backup, seen, queue, ids, table, recheck, faults,
                   ends, sent, lost, excused, stranded>>
  BY DEF RowsDone
<1>2. PICK w : w = work[t]
  OBVIOUS
<1>3. /\ w.at = "items" /\ w.items = <<>>
      /\ Becomes(t, "rows", w.event, w.queued, w.session, w.todo, w.failed, w.rows, w.items, w.handled, w.next)
  BY <1>2, RowsDoneIs DEF IInv
<1>4. Base /\ Base' /\ Grows
  BY RowsDoneBase DEF IInv
<1>5. w.todo = <<>> /\ w.failed = <<>> /\ HeldBy(w) = {}
  BY <1>2, <1>3, <1>4, JobsAre, EmptyHolds
<1>6. /\ v.at = "rows" /\ v.todo = <<>> /\ v.failed = <<>> /\ v.items = <<>> /\ v.handled = w.handled
      /\ v.rows = w.rows /\ v.next = w.next /\ \A u \in Workers \ {t} : work'[u] = work[u]
  BY <1>3, <1>5 DEF Becomes
<1>7. PlainInv' /\ BackInv' /\ AskedInv' /\ IdsInv' /\ OnceInv'
  <2>1. \A x : Leaves(t, work[t], x) => Leaves(t, work'[t], x)
    BY <1>2, <1>3, <1>6 DEF Leaves
  <2>2. \A x : Before(x) => Before(x)'
    BY <1>1, <1>2, <1>3, <1>6, TwoWorkers DEF Before
  <2>3. work[t].at \notin Asking /\ work'[t].at \notin Asking
    BY <1>2, <1>3, <1>6 DEF Asking
  <2>4. QED
    BY <1>1, <1>2, <1>4, <1>5, <1>6, <2>1, <2>2, <2>3, PassKeeps
<1>8. SyncRows'
  BY <1>6, TwoWorkers DEF IInv, SyncRows
<1>9. CoverInv'
  <2>1. \A x : Covered(x) => Covered(x)'
    <3>1. CASE t = "sync"
      BY <1>1, <1>2, <1>3, <1>6, <3>1, TwoWorkers DEF Covered
    <3>2. CASE t = "retry"
      BY <1>1, <1>2, <1>3, <1>6, <3>2, TwoWorkers DEF Covered
    <3>3. QED
      BY <3>1, <3>2, TwoWorkers
  <2>2. QED
    BY <1>1, <1>4, <2>1, CoverStays DEF IInv
<1>10. QED
  BY <1>4, <1>7, <1>8, <1>9 DEF IInv

\* All that the invariant speaks of stays.
LEMMA SameKeeps ==
    ASSUME IInv, UNCHANGED <<arrived, queue, ids, table, work, recheck, faults, sent, lost, excused>>,
           phase' = phase \/ (phase = "down" /\ phase' = "syncing")
    PROVE  PlainInv' /\ BackInv' /\ AskedInv' /\ IdsInv' /\ OnceInv' /\ SyncRows'
<1>1. Queued' = Queued
  BY DEF Queued
<1>2. PlainInv'
  <2>1. \A x : Before(x) => Before(x)'
    BY DEF Before
  <2>2. \A t \in Workers : Early(t, work[t], phase) => Early(t, work'[t], phase')
    BY DEF Early
  <2>3. QED
    BY <2>1, <2>2 DEF IInv, PlainInv
<1>3. BackInv' /\ IdsInv' /\ SyncRows'
  BY <1>1 DEF IInv, BackInv, IdsInv, SyncRows
<1>4. AskedInv'
  <2>1. Stored' = Stored
    BY <1>1 DEF Stored
  <2>2. QED
    BY <2>1 DEF IInv, AskedInv
<1>5. OnceInv'
  <2>1. \A x \in Events : OnceOf(x) => OnceOf(x)'
    BY <1>1 DEF OnceOf
  <2>2. QED
    BY <2>1 DEF IInv, OnceInv
<1>6. QED
  BY <1>2, <1>3, <1>4, <1>5

LEMMA BackUpKeeps == ASSUME IInv, NEW s \in Sessions, BackUp(s) PROVE IInv'
<1>1. /\ UNCHANGED <<phase, arrived, keys, seen, queue, ids, table, work, recheck, faults,
                   ends, sent, lost, excused, stranded>>
      /\ backup \subseteq backup'
  BY DEF BackUp
<1>2. Base /\ Base' /\ Grows
  BY BackUpBase DEF IInv
<1>3. CoverInv'
  <2>1. \A x : Covered(x) => Covered(x)'
    BY <1>1 DEF Covered
  <2>2. QED
    BY <1>1, <1>2, <2>1, CoverStays DEF IInv
<1>4. QED
  BY <1>1, <1>2, <1>3, SameKeeps DEF IInv

LEMMA StutterKeeps == ASSUME IInv, UNCHANGED vars PROVE IInv'
<1>1. UNCHANGED <<phase, arrived, keys, backup, seen, queue, ids, table, work, recheck, faults,
                  ends, sent, lost, excused, stranded>>
  BY DEF vars
<1>2. Base'
  <2>1. Queued' = Queued /\ \A t : InHand(t)' = InHand(t)
    BY <1>1 DEF Queued, InHand
  <2>2. PastInv' /\ QueueInv' /\ TableInv' /\ JobsInv' /\ RecheckInv' /\ PhaseInv'
    BY <1>1, <2>1 DEF IInv, Base, PastInv, QueueInv, TableInv, JobsInv, JobOK, RecheckInv, PhaseInv
  <2>3. QED
    BY <2>2 DEF Base
<1>3. CoverInv'
  <2>1. \A x : Covered(x) => Covered(x)'
    BY <1>1 DEF Covered
  <2>2. QED
    BY <1>1, <2>1 DEF IInv, CoverInv
<1>4. QED
  BY <1>1, <1>2, <1>3, SameKeeps DEF IInv

\* A pass of the retry task begins, or its next part, over an idle one.
LEMMA BeginsKeeps ==
    ASSUME IInv, Base', Grows, NEW next, Begins(next),
           UNCHANGED <<arrived, queue, ids, table, recheck, sent, lost>>,
           work["retry"].at \in {"idle", "ensure"}, next \in {"up", "ensure"} \/ phase = "up",
           phase = "syncing" => phase' = "syncing" \/ work["sync"].at = "idle"
    PROVE  PlainInv' /\ BackInv' /\ AskedInv' /\ IdsInv' /\ OnceInv' /\ SyncRows' /\ CoverInv'
<1> DEFINE v == work'["retry"]
<1>1. Base
  BY DEF IInv
<1>2. PICK w : w = work["retry"]
  OBVIOUS
<1>3. /\ v.at = "pop" /\ v.queued = QueueSessions /\ v.todo = <<>> /\ v.failed = <<>> /\ v.items = <<>>
      /\ v.handled = {} /\ v.next = next /\ work'["sync"] = work["sync"]
      /\ \A u \in Workers \ {"retry"} : work'[u] = work[u]
  BY TwoWorkers DEF Begins, Becomes
<1>4. w.handled = {} /\ HeldBy(w) = {}
  BY <1>1, <1>2, JobsAre, TwoWorkers
<1>5. w.at \notin Asking /\ v.at \notin Asking /\ \A x : ~Leaves("retry", w, x)
  BY <1>2, <1>3, <1>4 DEF Asking, Leaves
<1>6. \A x : Before(x) => Before(x)' \/ Held(queue, x) = <<>>
  <2>1. \A x : x \in Range(QueueSessions) <=> Held(queue, x) # <<>>
    BY <1>1, BaseIs, QueueSessionsAre
  <2>2. CASE next \in {"up", "ensure"}
    BY <1>3, <2>1, <2>2 DEF Before
  <2>3. CASE phase = "up"
    BY <2>3, NoneBefore DEF IInv
  <2>4. QED
    BY <2>2, <2>3
<1>7. PlainInv' /\ BackInv' /\ AskedInv' /\ IdsInv' /\ OnceInv'
  BY <1>2, <1>3, <1>4, <1>5, <1>6, PassKeeps, TwoWorkers
<1>8. SyncRows'
  BY <1>3 DEF IInv, SyncRows
<1>9. CoverInv'
  <2>1. \A x : Covered(x)'
    BY <1>3 DEF Covered
  <2>2. QED
    BY <2>1 DEF CoverInv
<1>10. QED
  BY <1>7, <1>8, <1>9

\* At the start nobody else has anything in hand.
LEMMA EnsureAlone ==
    ASSUME Base, work["retry"].at = "ensure"
    PROVE  /\ phase = "starting" /\ recheck = Rested
           /\ work["sync"].at = "idle" /\ HeldBy(work["sync"]) = {} /\ work["sync"].handled = {}
           /\ HeldBy(work["retry"]) = {} /\ work["retry"].handled = {}
           /\ \A e : \A t \in Workers : ~Holds(t, work[t], e) /\ ~Leaves(t, work[t], e)
           /\ \A e : ~InStill(recheck, e)
<1>1. phase = "starting" /\ recheck = Rested /\ work["sync"].at = "idle"
  <2>1. phase \notin {"down", "syncing", "up"}
    BY DEF Base, PhaseInv
  <2>2. QED
    BY <2>1, BaseIs DEF PhaseInv
<1>2. /\ HeldBy(work["sync"]) = {} /\ work["sync"].handled = {}
      /\ HeldBy(work["retry"]) = {} /\ work["retry"].handled = {}
  BY <1>1, JobsAre, TwoWorkers
<1>3. \A e : \A t \in Workers : ~Holds(t, work[t], e) /\ ~Leaves(t, work[t], e)
  BY <1>1, <1>2, TwoWorkers DEF Holds, Leaves, AskedFor, Asking
<1>4. \A e : ~InStill(recheck, e)
  BY <1>1, NothingIs DEF InStill
<1>5. QED
  BY <1>1, <1>2, <1>3, <1>4

LEMMA EnsureDoneKeeps == ASSUME IInv, EnsureDone PROVE IInv'
<1>1. UNCHANGED <<arrived, queue, ids, table, recheck, sent, lost>>
  BY DEF EnsureDone
<1>2. work["retry"].at = "ensure" /\ Begins("up")
  BY EnsureDoneIs DEF IInv
<1>3. Base' /\ Grows /\ phase = "starting"
  BY <1>2, EnsureDoneBase, EnsureAlone DEF IInv
<1>4. QED
  BY <1>1, <1>2, <1>3, BeginsKeeps DEF IInv

\* The retry task is idle, and no pass begins.
LEMMA EndsKeeps ==
    ASSUME IInv, Base', Grows, NEW next, Ends("retry", next),
           UNCHANGED <<arrived, queue, ids, table, recheck, sent, lost>>, work["retry"].at = "idle",
           next = "ensure" \/ phase = "up",
           phase = "syncing" => phase' = "syncing" \/ work["sync"].at = "idle"
    PROVE  PlainInv' /\ BackInv' /\ AskedInv' /\ IdsInv' /\ OnceInv' /\ SyncRows'
<1> DEFINE v == work'["retry"]
<1>1. Base
  BY DEF IInv
<1>2. PICK w : w = work["retry"]
  OBVIOUS
<1>3. /\ v.at \in {"idle", "ensure"} /\ v.todo = <<>> /\ v.failed = <<>> /\ v.items = <<>>
      /\ v.handled = {} /\ work'["sync"] = work["sync"]
      /\ \A u \in Workers \ {"retry"} : work'[u] = work[u]
  BY TwoWorkers DEF Ends, Becomes
<1>4. w.handled = {} /\ HeldBy(w) = {}
  BY <1>1, <1>2, JobsAre, TwoWorkers
<1>5. w.at \notin Asking /\ v.at \notin Asking /\ \A x : ~Leaves("retry", w, x)
  BY <1>2, <1>3, <1>4 DEF Asking, Leaves
<1>6. \A x : Before(x) => Before(x)'
  <2>1. CASE next = "ensure"
    BY <2>1 DEF Ends, Becomes, Before
  <2>2. CASE phase = "up"
    BY <2>2, NoneBefore DEF IInv
  <2>3. QED
    BY <2>1, <2>2
<1>7. PlainInv' /\ BackInv' /\ AskedInv' /\ IdsInv' /\ OnceInv'
  BY <1>2, <1>3, <1>4, <1>5, <1>6, PassKeeps, TwoWorkers
<1>8. SyncRows'
  BY <1>3 DEF IInv, SyncRows
<1>9. QED
  BY <1>7, <1>8

LEMMA StartKeeps == ASSUME IInv, Start PROVE IInv'
<1>1. /\ UNCHANGED <<arrived, queue, ids, table, work, recheck, faults, sent, lost, excused>>
      /\ phase = "down" /\ phase' = "syncing"
  BY DEF Start
<1>2. Base' /\ CoverInv'
  BY <1>1, StartBase DEF IInv, CoverInv
<1>3. QED
  BY <1>1, <1>2, SameKeeps DEF IInv

LEMMA SyncedKeeps == ASSUME IInv, Synced PROVE IInv'
<1>1. UNCHANGED <<arrived, queue, ids, table, recheck, sent, lost>>
  BY DEF Synced
<1>2. /\ phase = "syncing" /\ phase' = "starting" /\ work["sync"].at = "idle"
      /\ \/ seen' = backup /\ Begins("ensure")
         \/ seen' = seen /\ keys' = keys /\ Ends("retry", "ensure")
  BY SyncedIs DEF IInv
<1>3. Base' /\ Grows
  BY SyncedBase DEF IInv
<1>4. work["retry"].at = "idle"
  BY <1>2 DEF IInv, Base, PhaseInv
<1>5. CASE Begins("ensure")
  BY <1>1, <1>2, <1>3, <1>4, <1>5, BeginsKeeps DEF IInv
<1>6. CASE Ends("retry", "ensure")
  <2>1. work'["retry"].at = "ensure"
    BY <1>6 DEF Ends, Becomes
  <2>2. CoverInv'
    BY <2>1 DEF CoverInv, Covered
  <2>3. QED
    BY <1>1, <1>2, <1>3, <1>4, <1>6, <2>2, EndsKeeps DEF IInv
<1>7. QED
  BY <1>2, <1>5, <1>6

LEMMA PeriodicRestoreKeeps == ASSUME IInv, PeriodicRestore PROVE IInv'
<1>1. UNCHANGED <<phase, arrived, backup, queue, ids, table, recheck, ends, sent, lost,
                   excused, stranded>>
  BY DEF PeriodicRestore
<1>2. /\ phase = "up" /\ work["retry"].at = "idle"
      /\ \/ seen' = backup /\ Begins("idle")
         \/ /\ seen' = seen /\ keys' = keys
            /\ Becomes("retry", "idle", <<>>, <<>>, <<>>, <<>>, <<>>, <<>>, <<>>, {}, "idle")
         \/ seen' = backup /\ work' = work /\ queue = <<>> /\ table = <<>>
  BY PeriodicRestoreIs DEF IInv
<1>3. Base /\ Base' /\ Grows
  BY PeriodicRestoreBase DEF IInv
<1>4. CASE Begins("idle")
  BY <1>1, <1>2, <1>3, <1>4, BeginsKeeps DEF IInv
<1>5. CASE /\ seen' = seen /\ keys' = keys
           /\ Becomes("retry", "idle", <<>>, <<>>, <<>>, <<>>, <<>>, <<>>, <<>>, {}, "idle")
  <2>1. Ends("retry", "idle")
    BY <1>5 DEF Ends
  <2>2. work["retry"].next = "idle"
    BY <1>2, <1>3, UpIs DEF Syncs
  <2>3. work'["sync"] = work["sync"]
    BY <1>5, TwoWorkers DEF Becomes
  <2>4. \A x : Covered(x) => Covered(x)'
    BY <1>1, <1>2, <1>5, <2>2, <2>3 DEF Covered
  <2>5. CoverInv'
    BY <1>1, <1>3, <1>5, <2>4, CoverStays DEF IInv
  <2>6. QED
    BY <1>1, <1>2, <1>3, <2>1, <2>5, EndsKeeps DEF IInv
<1>6. CASE seen' = backup /\ work' = work /\ queue = <<>> /\ table = <<>>
  <2>1. CoverInv'
    BY <1>1, <1>6, EmptyIs DEF CoverInv
  <2>2. faults' = faults
    BY <1>6 DEF PeriodicRestore
  <2>3. QED
    BY <1>1, <1>3, <1>6, <2>1, <2>2, SameKeeps DEF IInv
<1>7. QED
  BY <1>2, <1>4, <1>5, <1>6

\* The list of one item that Ensure adds.
LEMMA FetchedIs ==
    ASSUME NEW e \in Events, Fetched(e) \in Seq(Item)
    PROVE  Evs(Fetched(e)) = {e} /\ \A x : Single(Of(x), Fetched(e))
<1>1. DOMAIN Fetched(e) = {1} /\ Fetched(e)[1].ev = e
  BY DEF Fetched
<1>2. QED
  BY <1>1 DEF Evs, Single

LEMMA EnsureKeeps == ASSUME IInv, Ensure PROVE IInv'
<1> DEFINE v == work'["retry"]
<1>1. UNCHANGED <<phase, arrived, keys, backup, seen, table, recheck, ends, sent, lost, stranded>>
  BY DEF Ensure
<1>2. PICK w : w = work["retry"]
  OBVIOUS
<1>3. PICK s : s = Head(w.rows)
  OBVIOUS
<1>4. /\ w.at = "ensure" /\ w.rows # <<>> /\ s \in Sessions /\ w \in Job
      /\ Becomes("retry", "ensure", w.event, w.queued, w.session, w.todo, w.failed, Tail(w.rows),
                 w.items, w.handled, w.next)
      /\ \/ UNCHANGED <<queue, ids, excused>> /\ (faults' = faults \/ Fault)
         \/ /\ UNCHANGED faults
            /\ \E e \in Range(table) :
                  /\ Session(e) = s /\ e \notin ids /\ Fetched(e) \in Seq(Item)
                  /\ excused' = excused \cup ({e} \cap Queued)
                  /\ QueueOK(queue') /\ ids' = ids \cup {e}
                  /\ \A x : Held(queue', x) = IF x = s THEN Held(queue, x) \o Fetched(e)
                                              ELSE Held(queue, x)
  BY <1>2, <1>3, EnsureIs DEF IInv
<1>5. Base /\ Base' /\ Grows
  BY EnsureBase DEF IInv
<1>6. /\ HeldBy(w) = {} /\ w.handled = {} /\ w.todo = <<>> /\ w.failed = <<>> /\ w.items = <<>>
      /\ recheck = Rested /\ work["sync"].at = "idle"
      /\ \A e : \A t \in Workers : ~Holds(t, work[t], e) /\ ~Leaves(t, work[t], e)
      /\ \A e : ~InStill(recheck, e)
  BY <1>2, <1>4, <1>5, EnsureAlone, JobsAre, TwoWorkers
<1>7. /\ v.at = "ensure" /\ v.todo = <<>> /\ v.failed = <<>> /\ v.items = <<>> /\ v.handled = {}
      /\ work'["sync"] = work["sync"] /\ \A u \in Workers \ {"retry"} : work'[u] = work[u]
  BY <1>4, <1>6, TwoWorkers DEF Becomes
<1>8. \A x : Before(x)'
  BY <1>7 DEF Before
<1>9. SyncRows' /\ CoverInv'
  <2>1. \A x : Covered(x)'
    BY <1>7 DEF Covered
  <2>2. QED
    BY <1>7, <2>1 DEF IInv, SyncRows, CoverInv
<1>10. CASE UNCHANGED <<queue, ids, excused>>
  <2>1. work["retry"].at \notin Asking /\ v.at \notin Asking
    BY <1>2, <1>4, <1>7 DEF Asking
  <2>2. PlainInv' /\ BackInv' /\ AskedInv' /\ IdsInv' /\ OnceInv'
    BY <1>1, <1>2, <1>5, <1>6, <1>7, <1>8, <1>10, <2>1, PassKeeps, TwoWorkers
  <2>3. QED
    BY <1>5, <1>9, <2>2 DEF IInv
<1>11. ASSUME faults' = faults, NEW e \in Range(table), Session(e) = s, e \notin ids,
              Fetched(e) \in Seq(Item), ids' = ids \cup {e}, excused' = excused \cup ({e} \cap Queued),
              \A x : Held(queue', x) = IF x = s THEN Held(queue, x) \o Fetched(e) ELSE Held(queue, x)
       PROVE  IInv'
  <2>1. e \in Events /\ Evs(Fetched(e)) = {e} /\ \A x : Single(Of(x), Fetched(e))
    BY <1>5, <1>11, BaseIs, FetchedIs
  <2>2. PICK H : H = Held(queue, s)
    OBVIOUS
  <2>3. H \in Seq(Item) /\ \A x \in Evs(H) : Session(x) = s /\ x \in Queued
    BY <1>5, <1>11, <2>2, BaseIs, QueueIs
  <2>4. /\ Evs(H \o Fetched(e)) = Evs(H) \cup {e}
        /\ \A x : Single(Of(x), H) /\ (x = e => e \notin Queued) => Single(Of(x), H \o Fetched(e))
    BY <1>11, <2>1, <2>3, EvsConcat
  <2>5. \A x : x \in Queued' <=> x \in Queued \cup {e}
    <3>1. ASSUME NEW x PROVE x \in Queued' <=> x \in Queued \cup {e}
      <4>1. x \in Queued' <=> x \in Evs(Held(queue', Session(x)))
        BY <1>5, QueueNow DEF Base
      <4>2. x \in Queued <=> x \in Evs(Held(queue, Session(x)))
        BY <1>5, BaseIs, QueueIs
      <4>3. QED
        BY <1>11, <2>2, <2>4, <4>1, <4>2
    <3>2. QED
      BY <3>1
  <2>6. PlainInv'
    <3>1. \A u \in Workers :
              /\ \/ Early(u, work'[u], phase')
                 \/ work'[u].todo \in Seq(Done(faults, excused)) \cup Seq(Done(faults', excused'))
              /\ work'[u].failed \in Seq(Done(faults, excused)) \cup Seq(Done(faults', excused'))
      <4>1. ASSUME NEW u \in Workers, u # "retry"
            PROVE  /\ work'[u].todo \in Seq(Done(faults, excused))
                   /\ work'[u].failed \in Seq(Done(faults, excused))
        <5>1. work["sync"].todo = <<>> /\ work["sync"].failed = <<>>
          BY <1>5, <1>6, JobsAre, TwoWorkers
        <5>2. u = "sync" /\ <<>> \in Seq(Done(faults, excused))
          BY <4>1, TwoWorkers
        <5>3. QED
          BY <1>7, <5>1, <5>2
      <4>2. /\ v.todo \in Seq(Done(faults, excused))
            /\ v.failed \in Seq(Done(faults, excused))
        BY <1>7, EmptyIs
      <4>3. QED
        BY <4>1, <4>2
    <3>2. QED
      BY <1>1, <1>5, <1>8, <3>1, PlainStep, PlainRecheck DEF IInv
  <2>7. BackInv'
    <3>1. \A u \in Workers : work'[u].items = work[u].items
      BY <1>2, <1>6, <1>7, TwoWorkers
    <3>2. QED
      BY <1>1, <1>5, <1>7, <3>1, BackStep DEF IInv
  <2>8. AskedInv'
    BY <1>6, <1>7, AskedEnds DEF Asking
  <2>9. IdsInv'
    <3> SUFFICES ASSUME faults = 0
                 PROVE  /\ ids' = Queued' /\ \A x \in Sessions : \A y : Single(Of(y), Held(queue', x))
                        /\ \A t \in Workers : /\ \A y : Single(Of(y), work'[t].todo) /\ Single(Of(y), work'[t].failed)
                                              /\ Evs(work'[t].todo) \cap Evs(work'[t].failed) = {}
      BY <1>11 DEF IdsInv
    <3>1. /\ ids = Queued /\ (\A x \in Sessions : \A y : Single(Of(y), Held(queue, x)))
          /\ \A t \in Workers : /\ \A y : Single(Of(y), work[t].todo) /\ Single(Of(y), work[t].failed)
                                /\ Evs(work[t].todo) \cap Evs(work[t].failed) = {}
      BY DEF IInv, IdsInv
    <3>2. ids' = Queued'
      BY <1>11, <2>5, <3>1
    <3>3. \A x \in Sessions : \A y : Single(Of(y), Held(queue', x))
      BY <1>4, <1>11, <2>2, <2>4, <3>1
    <3>4. \A t \in Workers : /\ \A y : Single(Of(y), work'[t].todo) /\ Single(Of(y), work'[t].failed)
                             /\ Evs(work'[t].todo) \cap Evs(work'[t].failed) = {}
      BY <1>7, <3>1, EmptyIs, TwoWorkers
    <3>5. QED
      BY <3>2, <3>3, <3>4
  <2>10. OnceInv'
    <3>1. ASSUME NEW x \in Events \ excused' PROVE OnceOf(x)'
      <4>1. OnceOf(x) /\ (x = e => e \notin Queued)
        BY <1>11, <3>1 DEF IInv, OnceInv
      <4>2. Single(Of(x), Held(queue', Session(x)))
        BY <1>11, <2>2, <2>4, <4>1 DEF OnceOf
      <4>3. \A t \in Workers : ~Holds(t, work'[t], x)
        <5>1. HeldBy(v) = {}
          BY <1>7, EmptyHolds
        <5>2. QED
          BY <1>6, <1>7, <5>1, TwoWorkers DEF Holds, AskedFor, Asking
      <4>4. \A t \in Workers : x \notin Range(work'[t].items)
        BY <4>3 DEF Holds, HeldBy
      <4>5. ~InStill(recheck', x)
        BY <1>1, <1>6
      <4>6. x \in Range(table) => sent[x] = 0
        <5>1. x \in Range(table) => ~(sent[x] > 0)
          BY <1>6, <4>1 DEF OnceOf
        <5>2. sent[x] \in 0..2
          BY <1>5, BaseIs
        <5>3. QED
          BY <5>1, <5>2
      <4>7. x \in Queued' => sent[x] = 0
        BY <1>11, <2>5, <4>1, <4>6 DEF OnceOf
      <4>8. sent' = sent /\ table' = table /\ sent[x] <= 1
        BY <1>1, <4>1 DEF OnceOf
      <4>9. QED
        BY <4>2, <4>3, <4>4, <4>5, <4>6, <4>7, <4>8 DEF OnceOf
    <3>2. QED
      BY <3>1 DEF OnceInv
  <2>11. QED
    BY <1>5, <1>9, <2>6, <2>7, <2>8, <2>9, <2>10 DEF IInv
<1>12. QED
  BY <1>4, <1>10, <1>11

LEMMA TryKeeps == ASSUME IInv, NEW t \in Workers, Try(t) PROVE IInv'
<1>1. UNCHANGED <<phase, arrived, keys, backup, seen, queue, ids, table, recheck,
                  ends, lost, stranded>>
  BY DEF Try
<1>2. PICK w : w = work[t]
  OBVIOUS
<1>3. PICK v : v = work'[t]
  OBVIOUS
<1>4. PICK item : item = Head(w.todo)
  OBVIOUS
<1>5. PICK e : e = item.ev
  OBVIOUS
<1>6. /\ w.at = "try" /\ w.todo # <<>> /\ w \in Job /\ item \in Item
      /\ e \in Events /\ e \in arrived /\ Session(e) = w.session /\ e \in Evs(w.todo)
      /\ \/ /\ Session(e) \in keys /\ Dispatched(e) /\ UNCHANGED <<faults, excused>>
            /\ Becomes(t, "try", w.event, w.queued, w.session, Tail(w.todo), w.failed, w.rows,
                       w.items, w.handled \cup {e}, w.next)
         \/ /\ \/ (item.plain \/ Session(e) \in keys) /\ Fault /\ excused' = excused \cup {e}
               \/ ~item.plain /\ Session(e) \notin keys /\ UNCHANGED <<faults, excused>>
            /\ sent' = sent
            /\ Becomes(t, "try", w.event, w.queued, w.session, Tail(w.todo),
                       Append(w.failed, item), w.rows, w.items, w.handled, w.next)
  BY <1>2, <1>4, <1>5, TryIs DEF IInv
<1>7. Base /\ Base' /\ Grows /\ Queued' = Queued /\ PastInv
  BY <1>1, TryBase DEF IInv, Queued, Base
<1>8. /\ v.at = "try" /\ v.todo = Tail(w.todo) /\ v.items = <<>> /\ w.items = <<>> /\ v.rows = w.rows
      /\ v.queued = w.queued /\ v.session = w.session /\ v.next = w.next /\ v.event = w.event
      /\ \A u \in Workers \ {t} : work'[u] = work[u]
      /\ \/ /\ Dispatched(e) /\ UNCHANGED <<faults, excused>>
            /\ v.failed = w.failed /\ v.handled = w.handled \cup {e}
         \/ /\ sent' = sent /\ v.failed = Append(w.failed, item) /\ v.handled = w.handled
            /\ \/ Fault /\ excused' = excused \cup {e}
               \/ ~item.plain /\ UNCHANGED <<faults, excused>>
  <2>1. w.items = <<>>
    BY <1>2, <1>6, <1>7, JobsAre
  <2>2. QED
    BY <1>3, <1>6, <2>1 DEF Becomes
<1>9. /\ w.todo \in Seq(Item) /\ w.failed \in Seq(Item) /\ Tail(w.todo) \in Seq(Item)
      /\ Evs(w.todo) = {e} \cup Evs(Tail(w.todo))
      /\ Append(w.failed, item) \in Seq(Item) /\ Evs(Append(w.failed, item)) = Evs(w.failed) \cup {e}
      /\ \A x : Single(Of(x), w.todo) => /\ Single(Of(x), Tail(w.todo))
                                         /\ e = x => x \notin Evs(Tail(w.todo))
      /\ \A x : Single(Of(x), w.failed) /\ (x \notin Evs(w.failed) \/ e # x)
                => Single(Of(x), Append(w.failed, item))
  <2>1. w.todo \in Seq(Item) /\ w.failed \in Seq(Item)
    BY <1>6 DEF Job
  <2>2. QED
    BY <1>4, <1>5, <1>6, <2>1, EvsTail, EvsAppend
<1>10. /\ Evs(v.todo) \subseteq Evs(w.todo) /\ Evs(v.failed) \subseteq Evs(w.failed) \cup {e}
       /\ HeldBy(w) = Evs(w.todo) \cup Evs(w.failed) /\ HeldBy(v) = Evs(v.todo) \cup Evs(v.failed)
       /\ HeldBy(v) \subseteq HeldBy(w) /\ e \in HeldBy(w) /\ HeldBy(w) \subseteq Stored
       /\ \A x : ~AskedFor(w, x) /\ ~AskedFor(v, x)
  <2>1. HeldBy(w) \subseteq Stored
    BY <1>2, StoredIs
  <2>2. HeldBy(w) = Evs(w.todo) \cup Evs(w.failed) /\ HeldBy(v) = Evs(v.todo) \cup Evs(v.failed)
    BY <1>8, EmptyIs DEF HeldBy
  <2>3. Evs(v.todo) \subseteq Evs(w.todo) /\ Evs(v.failed) \subseteq Evs(w.failed) \cup {e}
    BY <1>8, <1>9
  <2>4. \A x : ~AskedFor(w, x) /\ ~AskedFor(v, x)
    BY <1>6, <1>8 DEF AskedFor, Asking
  <2>5. QED
    BY <1>6, <2>1, <2>2, <2>3, <2>4
<1>11. PlainInv'
  <2>1. \A x : Before(x) => Before(x)'
    BY <1>1, <1>2, <1>3, <1>6, <1>8, TwoWorkers DEF Before
  <2>2. PlainInv
    BY DEF IInv
  <2>3. Early(t, work'[t], phase') \/ work'[t].todo \in Seq(Done(faults, excused))
    <3>1. Early(t, w, phase) \/ w.todo \in Seq(Done(faults, excused))
      BY <1>2, <2>2 DEF PlainInv
    <3>2. w.todo \in Seq(Done(faults, excused)) => Tail(w.todo) \in Seq(Done(faults, excused))
      BY <1>6, TailIs
    <3>3. QED
      BY <1>1, <1>3, <1>8, <3>1, <3>2 DEF Early
  <2>4. v.failed \in Seq(Done(faults, excused)) \cup Seq(Done(faults', excused'))
    <3>1. w.failed \in Seq(Done(faults, excused))
      BY <1>2, <2>2 DEF PlainInv
    <3>2. CASE v.failed = w.failed
      BY <3>1, <3>2
    <3>3. CASE v.failed = Append(w.failed, item) /\ (item.plain => Fault /\ excused' = excused \cup {e})
      <4>1. w.failed \in Seq(Done(faults', excused'))
        BY <1>7, <3>1, DoneNow
      <4>2. item \in Done(faults', excused')
        BY <1>5, <1>6, <1>7, <3>3, FaultIs DEF Done
      <4>3. QED
        BY <3>3, <4>1, <4>2, AppendIs
    <3>4. QED
      BY <1>8, <3>2, <3>3
  <2>5. \A u \in Workers :
              /\ \/ Early(u, work'[u], phase')
                 \/ work'[u].todo \in Seq(Done(faults, excused)) \cup Seq(Done(faults', excused'))
              /\ work'[u].failed \in Seq(Done(faults, excused)) \cup Seq(Done(faults', excused'))
    <3>1. ASSUME NEW u \in Workers, u # t
          PROVE  /\ \/ Early(u, work'[u], phase')
                    \/ work'[u].todo \in Seq(Done(faults, excused)) \cup Seq(Done(faults', excused'))
                 /\ work'[u].failed \in Seq(Done(faults, excused)) \cup Seq(Done(faults', excused'))
      BY <1>1, <1>8, <2>2, <3>1 DEF PlainInv
    <3>2. QED
      BY <1>3, <2>3, <2>4, <3>1
  <2>6. QED
    BY <1>1, <1>7, <2>1, <2>2, <2>5, PlainJobs
<1>12. BackInv'
  <2>1. \A u \in Workers : \A x \in Range(work[u].items) : x \in Range(work'[u].items)
    BY <1>2, <1>3, <1>8
  <2>2. \A x \in arrived : AskedFor(work["sync"], x) => AskedFor(work'["sync"], x)
    BY <1>2, <1>8, <1>10, TwoWorkers
  <2>3. QED
    BY <1>1, <1>7, <2>1, <2>2, BackStep DEF IInv
<1>13. AskedInv'
  <2>1. CASE t = "sync"
    BY <1>3, <1>8, <2>1, AskedEnds DEF Asking
  <2>2. CASE t # "sync"
    <3>1. \A u \in Workers : HeldBy(work'[u]) \subseteq Stored /\ work'[u].handled \subseteq Stored
      <4>1. v.handled \subseteq w.handled \cup {e} /\ w.handled \subseteq Stored
        BY <1>2, <1>8, StoredIs
      <4>2. QED
        BY <1>3, <1>8, <1>10, <4>1, StoredIs
    <3>2. Stored' \subseteq Stored
      BY <1>1, <1>7, <3>1, StoredIs, StoredRecheck, StoredStep
    <3>3. work'["sync"] = work["sync"]
      BY <1>8, <2>2, TwoWorkers
    <3>4. sent' = sent \/ \E x \in Stored \cap Events : Dispatched(x)
      BY <1>6, <1>8, <1>10
    <3>5. QED
      BY <1>7, <3>2, <3>3, <3>4, AskedStep DEF IInv
  <2>3. QED
    BY <2>1, <2>2
<1>14. IdsInv'
  <2> SUFFICES ASSUME faults' = 0
               PROVE  /\ ids' = Queued' /\ \A x \in Sessions : \A y : Single(Of(y), Held(queue', x))
                      /\ \A u \in Workers : /\ \A y : Single(Of(y), work'[u].todo) /\ Single(Of(y), work'[u].failed)
                                            /\ Evs(work'[u].todo) \cap Evs(work'[u].failed) = {}
    BY DEF IdsInv
  <2>1. faults = 0
    BY <1>7, BaseIs DEF Grows, PastInv
  <2>2. /\ ids = Queued /\ (\A x \in Sessions : \A y : Single(Of(y), Held(queue, x)))
        /\ \A u \in Workers : /\ \A y : Single(Of(y), work[u].todo) /\ Single(Of(y), work[u].failed)
                              /\ Evs(work[u].todo) \cap Evs(work[u].failed) = {}
    BY <2>1 DEF IInv, IdsInv
  <2>3. /\ (\A y : Single(Of(y), w.todo) /\ Single(Of(y), w.failed))
        /\ Evs(w.todo) \cap Evs(w.failed) = {}
    BY <1>2, <2>2
  <2>4. /\ (\A y : Single(Of(y), v.todo) /\ Single(Of(y), v.failed))
        /\ Evs(v.todo) \cap Evs(v.failed) = {}
    <3>1. e \notin Evs(w.failed) /\ e \notin Evs(Tail(w.todo))
      BY <1>6, <1>9, <2>3
    <3>2. \A y : Single(Of(y), Tail(w.todo)) /\ Single(Of(y), Append(w.failed, item))
      BY <1>9, <2>3, <3>1
    <3>3. Evs(Tail(w.todo)) \cap (Evs(w.failed) \cup {e}) = {}
      BY <1>9, <2>3, <3>1
    <3>4. CASE v.failed = w.failed
      BY <1>8, <2>3, <3>2, <3>3, <3>4
    <3>5. CASE v.failed = Append(w.failed, item)
      BY <1>8, <1>9, <3>2, <3>3, <3>5
    <3>6. QED
      BY <1>8, <3>4, <3>5
  <2>5. \A u \in Workers : /\ \A y : Single(Of(y), work'[u].todo) /\ Single(Of(y), work'[u].failed)
                           /\ Evs(work'[u].todo) \cap Evs(work'[u].failed) = {}
    <3>1. \A u \in Workers \ {t} : work'[u].todo = work[u].todo /\ work'[u].failed = work[u].failed
      BY <1>8
    <3>2. QED
      BY <1>3, <2>2, <2>4, <3>1
  <2>6. QED
    BY <1>1, <1>7, <2>2, <2>5
<1>15. SyncRows'
  <2>1. CASE t = "sync"
    BY <1>2, <1>3, <1>6, <1>8, <2>1 DEF IInv, SyncRows
  <2>2. CASE t # "sync"
    BY <1>8, <2>2, TwoWorkers DEF IInv, SyncRows
  <2>3. QED
    BY <2>1, <2>2
<1>16. OnceInv'
  <2>1. ASSUME NEW x \in Events \ excused' PROVE OnceOf(x)'
    <3>1. OnceOf(x)
      BY <1>7, <2>1 DEF IInv, OnceInv, Grows
    <3>2. Holds(t, w, x) <=> x \in HeldBy(w)
      BY <1>10 DEF Holds
    <3>3. Holds(t, v, x) <=> x \in HeldBy(v)
      BY <1>10 DEF Holds
    <3>4. x \in HeldBy(w) => Singly(w, x)
      BY <1>2, <3>1, <3>2 DEF OnceOf
    <3>5. CASE x = e
      <4>1. /\ x \notin Queued /\ ~InStill(recheck, x) /\ sent[x] = 0 /\ Singly(w, x)
            /\ \A u \in Workers \ {t} : ~Holds(u, work[u], x)
        BY <1>2, <1>10, <3>1, <3>2, <3>5 DEF OnceOf
      <4>2. \A u \in Workers \ {t} : ~Holds(u, work'[u], x)
        BY <1>8, <4>1
      <4>3. \A u \in Workers : x \notin Range(work'[u].items)
        BY <1>3, <1>8, <4>2, EmptyIs DEF Holds, HeldBy
      <4>4. x \notin Evs(w.failed) /\ x \notin Evs(Tail(w.todo)) /\ Single(Of(x), Tail(w.todo))
        BY <1>6, <1>9, <3>5, <4>1 DEF Singly
      <4>5. x \notin Queued' /\ ~InStill(recheck', x) /\ Single(Of(x), Held(queue', Session(x)))
        BY <1>1, <1>7, <3>1, <4>1 DEF OnceOf
      <4>6. CASE Dispatched(e) /\ v.failed = w.failed /\ v.handled = w.handled \cup {e}
        <5>1. sent'[x] = 1
          BY <1>6, <1>7, <3>5, <4>1, <4>6, BaseIs, DispatchedIs
        <5>2. \A u \in Workers : ~Holds(u, work'[u], x)
          <6>1. ~Holds(t, v, x)
            BY <1>8, <1>10, <3>3, <4>4, <4>6
          <6>2. QED
            BY <1>3, <4>2, <6>1
        <5>3. Leaves(t, work'[t], x)
          <6>1. CASE t = "sync"
            <7>1. w.session \in Range(w.rows)
              BY <1>2, <1>6, <6>1 DEF IInv, SyncRows
            <7>2. QED
              BY <1>3, <1>6, <1>8, <3>5, <4>6, <7>1 DEF Leaves
          <6>2. CASE t = "retry"
            BY <1>3, <1>8, <3>5, <4>6, <6>2 DEF Leaves
          <6>3. QED
            BY <6>1, <6>2, TwoWorkers
        <5>4. sent'[x] <= 1
          BY <5>1
        <5>5. QED
          BY <4>3, <4>5, <5>2, <5>3, <5>4 DEF OnceOf
      <4>7. CASE sent' = sent /\ v.failed = Append(w.failed, item)
        <5>1. Single(Of(x), w.failed) /\ Single({x}, w.items)
          BY <4>1 DEF Singly
        <5>2. Singly(v, x)
          BY <1>8, <1>9, <4>4, <4>7, <5>1 DEF Singly
        <5>3. sent'[x] = 0 /\ Singly(work'[t], x)
          BY <1>3, <4>1, <4>7, <5>2
        <5>4. \A u \in Workers : Holds(u, work'[u], x) => u = t
          BY <4>2
        <5>5. QED
          BY <4>2, <4>3, <4>5, <5>3, <5>4 DEF OnceOf
      <4>8. QED
        BY <1>8, <4>6, <4>7
    <3>6. CASE x # e
      <4>1. sent'[x] = sent[x]
        BY <1>6, <1>7, <1>8, <3>6, BaseIs, DispatchedIs
      <4>2. x \in HeldBy(v) => x \in HeldBy(w) /\ Singly(v, x)
        <5> SUFFICES ASSUME x \in HeldBy(v) PROVE Singly(v, x)
          BY <1>10
        <5>1. Singly(w, x)
          BY <1>10, <3>4
        <5>2. Single(Of(x), Tail(w.todo)) /\ Single(Of(x), Append(w.failed, item)) /\ Single(Of(x), w.failed)
          BY <1>9, <3>6, <5>1 DEF Singly
        <5>3. x \notin Evs(v.todo) \cap Evs(v.failed)
          BY <1>10, <3>6, <5>1 DEF Singly
        <5>4. Single({x}, v.items)
          BY <1>8, EmptyIs
        <5>5. QED
          BY <1>8, <5>2, <5>3, <5>4 DEF Singly
      <4>3. \A u \in Workers : Holds(u, work'[u], x) => Holds(u, work[u], x) /\ Singly(work'[u], x)
        <5>1. Holds(t, work'[t], x) => Holds(t, work[t], x) /\ Singly(work'[t], x)
          BY <1>2, <1>3, <3>2, <3>3, <4>2
        <5>2. QED
          BY <1>8, <3>1, <5>1, HoldsSame
      <4>4. \A u \in Workers : x \in Range(work'[u].items) => x \notin Range(table')
        BY <1>1, <1>3, <1>8, <3>1, EmptyIs DEF OnceOf
      <4>5. x \in Range(table') /\ sent[x] > 0 => \E u \in Workers : Leaves(u, work'[u], x)
        <5>1. Leaves(t, w, x) => Leaves(t, v, x)
          BY <1>6, <1>8 DEF Leaves
        <5>2. \A u \in Workers : Leaves(u, work[u], x) => Leaves(u, work'[u], x)
          BY <1>2, <1>3, <1>8, <5>1
        <5>3. QED
          BY <1>1, <3>1, <5>2 DEF OnceOf
      <4>6. QED
        BY <1>1, <1>7, <3>1, <4>1, <4>3, <4>4, <4>5, OnceKeeps DEF OnceOf
    <3>7. QED
      BY <3>5, <3>6
  <2>2. QED
    BY <2>1 DEF OnceInv
<1>17. CoverInv'
  <2>1. \A x : Covered(x) => Covered(x)'
    <3>1. CASE t = "sync"
      BY <1>1, <1>2, <1>3, <1>6, <1>8, <3>1, TwoWorkers DEF Covered
    <3>2. CASE t = "retry"
      BY <1>3, <1>8, <3>2 DEF Covered
    <3>3. QED
      BY <3>1, <3>2, TwoWorkers
  <2>2. QED
    BY <1>1, <1>7, <2>1, CoverStays DEF IInv
<1>18. QED
  BY <1>7, <1>11, <1>12, <1>13, <1>14, <1>15, <1>16, <1>17 DEF IInv

LEMMA RequeueKeeps == ASSUME IInv, NEW t \in Workers, Requeue(t) PROVE IInv'
<1>1. /\ UNCHANGED <<phase, arrived, keys, backup, seen, recheck, faults, ends, sent,
                     excused, stranded>>
      /\ lost' = lost \cup (Range(table) \ Range(table'))
  BY DEF Requeue
<1>2. PICK w : w = work[t]
  OBVIOUS
<1>3. PICK v : v = work'[t]
  OBVIOUS
<1>4. PICK s : s = w.session
  OBVIOUS
<1>5. PICK B : B = Back(w)
  OBVIOUS
<1>6. /\ w.at = "try" /\ w.todo = <<>> /\ w \in Job /\ s \in Sessions
      /\ B \in Seq(Item) /\ Evs(B) = Evs(w.failed) \ ids
      /\ Range(B) \subseteq Range(w.failed)
      /\ \A e : Single(Of(e), w.failed) => Single(Of(e), B)
      /\ ids' = ids \cup Evs(B)
      /\ \A x : Held(queue', x) = IF x = s THEN Held(queue, x) \o B ELSE Held(queue, x)
      /\ Range(table') \subseteq Range(table) \cup Evs(w.failed)
      /\ t = "retry" => table' = table
      /\ Becomes(t, IF t = "sync" THEN "rows" ELSE "pop", w.event, w.queued, w.session, <<>>,
                      <<>>, w.rows, w.items, w.handled, w.next)
  BY <1>2, <1>4, <1>5, RequeueIs DEF IInv
<1>7. Base /\ Base' /\ Grows /\ PhaseInv
  BY RequeueBase DEF IInv, Base
<1>8. /\ v.at = (IF t = "sync" THEN "rows" ELSE "pop") /\ v.todo = <<>> /\ v.failed = <<>>
      /\ v.items = <<>> /\ w.items = <<>> /\ v.rows = w.rows /\ v.queued = w.queued
      /\ v.handled = w.handled /\ v.next = w.next
      /\ \A u \in Workers \ {t} : work'[u] = work[u]
  <2>1. w.items = <<>>
    BY <1>2, <1>6, <1>7, JobsAre
  <2>2. QED
    BY <1>3, <1>6, <2>1 DEF Becomes
<1>9. /\ HeldBy(v) = {} /\ HeldBy(w) = Evs(w.failed)
      /\ \A x : ~AskedFor(w, x) /\ ~AskedFor(v, x)
  <2>1. HeldBy(v) = {} /\ HeldBy(w) = Evs(w.failed)
    BY <1>6, <1>8, EmptyIs DEF HeldBy
  <2>2. \A x : ~AskedFor(w, x) /\ ~AskedFor(v, x)
    BY <1>6, <1>8 DEF AskedFor, Asking
  <2>3. QED
    BY <2>1, <2>2
<1>10. PICK H : H = Held(queue, s)
  OBVIOUS
<1>11. /\ H \in Seq(Item) /\ (\A x \in Evs(H) : Session(x) = s /\ x \in Queued)
       /\ w.failed \in Seq(Item) /\ \A x \in Evs(w.failed) : Session(x) = s
  <2>1. H \in Seq(Item) /\ \A x \in Evs(H) : Session(x) = s /\ x \in Queued
    BY <1>7, <1>10, BaseIs, QueueIs
  <2>2. w.failed \in Seq(Item) /\ \A x \in Evs(w.failed) : Session(x) = s
    BY <1>2, <1>4, <1>7, BaseIs, JobIs
  <2>3. QED
    BY <2>1, <2>2
<1>12. /\ H \o B \in Seq(Item) /\ Evs(H \o B) = Evs(H) \cup Evs(B)
       /\ \A x : Single(Of(x), H) /\ Single(Of(x), B) /\ (x \notin Evs(H) \/ x \notin Evs(B))
                 => Single(Of(x), H \o B)
  BY <1>6, <1>11, EvsConcat
<1>13. \A x : x \in Queued' <=> x \in Queued \cup Evs(B)
  <2>1. ASSUME NEW x PROVE x \in Queued' <=> x \in Queued \cup Evs(B)
    <3>1. x \in Queued' <=> x \in Evs(Held(queue', Session(x)))
      BY <1>7, QueueNow DEF Base
    <3>2. x \in Queued <=> x \in Evs(Held(queue, Session(x)))
      BY <1>7, BaseIs, QueueIs
    <3>3. x \in Evs(B) => Session(x) = s
      BY <1>6, <1>11
    <3>4. QED
      BY <1>6, <1>10, <1>12, <3>1, <3>2, <3>3
  <2>2. QED
    BY <2>1
<1>14. PlainInv'
  <2>1. PlainInv
    BY DEF IInv
  <2>2. ASSUME ~Before(s) PROVE H \o B \in Seq(Done(faults, excused))
    <3>1. H \in Seq(Done(faults, excused))
      BY <1>7, <1>10, <2>1, <2>2, NoneBefore
    <3>2. B \in Seq(Done(faults, excused))
      <4>1. w.failed \in Seq(Done(faults, excused))
        BY <1>2, <2>1 DEF PlainInv
      <4>2. Range(w.failed) \subseteq Done(faults, excused)
        BY <4>1, RangeIs
      <4>3. QED
        BY <1>6, <4>2, SeqOf
    <3>3. QED
      BY <3>1, <3>2, ConcatIs
  <2>3. \A x \in Sessions : Before(x)' \/ Held(queue', x) \in Seq(Done(faults, excused))
    <3>1. \A x : Before(x) => Before(x)'
      BY <1>1, <1>2, <1>3, <1>6, <1>8, TwoWorkers DEF Before
    <3>2. QED
      BY <1>6, <1>10, <2>1, <2>2, <3>1 DEF PlainInv
  <2>4. \A u \in Workers :
              /\ \/ Early(u, work'[u], phase')
                 \/ work'[u].todo \in Seq(Done(faults, excused)) \cup Seq(Done(faults', excused'))
              /\ work'[u].failed \in Seq(Done(faults, excused)) \cup Seq(Done(faults', excused'))
    <3>1. ASSUME NEW u \in Workers, u # t
          PROVE  /\ \/ Early(u, work'[u], phase')
                    \/ work'[u].todo \in Seq(Done(faults, excused)) \cup Seq(Done(faults', excused'))
                 /\ work'[u].failed \in Seq(Done(faults, excused)) \cup Seq(Done(faults', excused'))
      BY <1>1, <1>8, <2>1, <3>1 DEF PlainInv
    <3>2. /\ v.todo \in Seq(Done(faults, excused))
          /\ v.failed \in Seq(Done(faults, excused))
      BY <1>8, EmptyIs
    <3>3. QED
      BY <1>3, <3>1, <3>2
  <2>5. QED
    BY <1>1, <1>7, <2>1, <2>3, <2>4, PlainStep, PlainRecheck
<1>15. BackInv'
  <2>1. \A u \in Workers : \A x \in Range(work[u].items) : x \in Range(work'[u].items)
    BY <1>2, <1>3, <1>8
  <2>2. \A x \in arrived : AskedFor(work["sync"], x) => AskedFor(work'["sync"], x)
    BY <1>2, <1>8, <1>9, TwoWorkers
  <2>3. QED
    BY <1>1, <1>7, <2>1, <2>2, BackStep DEF IInv
<1>16. AskedInv'
  <2>1. CASE t = "sync"
    BY <1>3, <1>8, <2>1, AskedEnds DEF Asking
  <2>2. CASE t # "sync"
    <3>1. \A u \in Workers : HeldBy(work'[u]) \subseteq Stored /\ work'[u].handled \subseteq Stored
      BY <1>2, <1>3, <1>8, <1>9, StoredIs
    <3>2. Evs(B) \subseteq Stored
      BY <1>2, <1>6, <1>9, StoredIs
    <3>3. table' = table
      BY <1>6, <2>2, TwoWorkers
    <3>4. Stored' \subseteq Stored
      BY <1>1, <1>7, <1>13, <3>1, <3>2, <3>3, StoredIs, StoredRecheck, StoredStep
    <3>5. work'["sync"] = work["sync"]
      BY <1>8, <2>2, TwoWorkers
    <3>6. QED
      BY <1>1, <1>7, <3>4, <3>5, AskedStep DEF IInv
  <2>3. QED
    BY <2>1, <2>2
<1>17. IdsInv'
  <2> SUFFICES ASSUME faults = 0
               PROVE  /\ ids' = Queued' /\ \A x \in Sessions : \A y : Single(Of(y), Held(queue', x))
                      /\ \A u \in Workers : /\ \A y : Single(Of(y), work'[u].todo) /\ Single(Of(y), work'[u].failed)
                                            /\ Evs(work'[u].todo) \cap Evs(work'[u].failed) = {}
    BY <1>1 DEF IdsInv
  <2>1. /\ ids = Queued /\ (\A x \in Sessions : \A y : Single(Of(y), Held(queue, x)))
        /\ \A u \in Workers : /\ \A y : Single(Of(y), work[u].todo) /\ Single(Of(y), work[u].failed)
                              /\ Evs(work[u].todo) \cap Evs(work[u].failed) = {}
    BY DEF IInv, IdsInv
  <2>2. ids' = Queued'
    BY <1>6, <1>13, <2>1
  <2>3. \A y : Single(Of(y), H \o B)
    BY <1>2, <1>6, <1>10, <1>11, <1>12, <2>1
  <2>4. \A x \in Sessions : \A y : Single(Of(y), Held(queue', x))
    BY <1>6, <1>10, <2>1, <2>3
  <2>5. \A u \in Workers : /\ \A y : Single(Of(y), work'[u].todo) /\ Single(Of(y), work'[u].failed)
                           /\ Evs(work'[u].todo) \cap Evs(work'[u].failed) = {}
    <3>1. (\A y : Single(Of(y), v.todo) /\ Single(Of(y), v.failed)) /\ Evs(v.todo) \cap Evs(v.failed) = {}
      BY <1>8, EmptyIs
    <3>2. \A u \in Workers \ {t} : work'[u].todo = work[u].todo /\ work'[u].failed = work[u].failed
      BY <1>8
    <3>3. QED
      BY <1>3, <2>1, <3>1, <3>2
  <2>6. QED
    BY <2>2, <2>4, <2>5
<1>18. SyncRows'
  <2>1. CASE t = "sync"
    BY <1>3, <1>8, <2>1 DEF SyncRows
  <2>2. CASE t # "sync"
    BY <1>8, <2>2, TwoWorkers DEF IInv, SyncRows
  <2>3. QED
    BY <2>1, <2>2
<1>19. OnceInv'
  <2>1. ASSUME NEW x \in Events \ excused' PROVE OnceOf(x)'
    <3>1. OnceOf(x)
      BY <1>1, <2>1 DEF IInv, OnceInv
    <3>2. ~Holds(t, v, x) /\ (Holds(t, w, x) <=> x \in Evs(w.failed))
      BY <1>9 DEF Holds
    <3>3. CASE x \in Evs(w.failed)
      <4>1. /\ x \notin Queued /\ ~InStill(recheck, x) /\ sent[x] = 0 /\ Singly(w, x)
            /\ \A u \in Workers \ {t} : ~Holds(u, work[u], x)
        BY <1>2, <3>1, <3>2, <3>3 DEF OnceOf
      <4>2. \A u \in Workers : ~Holds(u, work'[u], x)
        BY <1>3, <1>8, <3>2, <4>1
      <4>3. \A u \in Workers : x \notin Range(work'[u].items)
        BY <4>2 DEF Holds, HeldBy
      <4>4. Single(Of(x), Held(queue', Session(x)))
        <5>1. Session(x) = s /\ x \notin Evs(H) /\ Single(Of(x), H) /\ Single(Of(x), B)
          BY <1>6, <1>10, <1>11, <3>1, <3>3, <4>1 DEF OnceOf, Singly
        <5>2. QED
          BY <1>6, <1>10, <1>12, <5>1
      <4>5. QED
        BY <1>1, <4>1, <4>2, <4>3, <4>4 DEF OnceOf
    <3>4. CASE x \notin Evs(w.failed)
      <4>1. x \notin Evs(B) /\ (x \in Queued' => x \in Queued)
        BY <1>6, <1>13, <3>4
      <4>2. Single(Of(x), Held(queue', Session(x)))
        <5>1. Single(Of(x), Held(queue, Session(x)))
          BY <3>1 DEF OnceOf
        <5>2. Single(Of(x), B)
          BY <4>1 DEF Single, Of, Evs
        <5>3. QED
          BY <1>6, <1>10, <1>12, <4>1, <5>1, <5>2
      <4>3. InStill(recheck', x) => InStill(recheck, x) /\ Single(Of(x), recheck'.still)
                                    /\ Within(x, Held(queue', Session(x)), recheck'.at)
        <5> SUFFICES ASSUME InStill(recheck, x)
                     PROVE  Single(Of(x), recheck.still) /\ Within(x, Held(queue', Session(x)), recheck.at)
          BY <1>1
        <5>1. Single(Of(x), recheck.still) /\ Within(x, Held(queue, Session(x)), recheck.at)
          BY <3>1 DEF OnceOf
        <5>2. recheck.at \in Nat
          BY <1>7 DEF Base, RecheckInv
        <5>3. Within(x, H, recheck.at) => Within(x, H \o B, recheck.at)
          BY <1>6, <1>11, <4>1, <5>2, WithinIs
        <5>4. CASE Session(x) = s
          BY <1>6, <1>10, <5>1, <5>3, <5>4
        <5>5. CASE Session(x) # s
          BY <1>6, <5>1, <5>5
        <5>6. QED
          BY <5>4, <5>5
      <4>4. \A u \in Workers : Holds(u, work'[u], x) => Holds(u, work[u], x) /\ Singly(work'[u], x)
        BY <1>3, <1>8, <3>1, <3>2 DEF OnceOf
      <4>5. \A u \in Workers : x \in Range(work'[u].items) => x \notin Range(table')
        BY <1>3, <1>6, <1>8, <3>1, <3>4, EmptyIs DEF OnceOf
      <4>6. x \in Range(table') /\ sent[x] > 0 => \E u \in Workers : Leaves(u, work'[u], x)
        <5>1. Leaves(t, w, x) => Leaves(t, v, x)
          BY <1>6, <1>8, TwoWorkers DEF Leaves
        <5>2. \A u \in Workers : Leaves(u, work[u], x) => Leaves(u, work'[u], x)
          BY <1>2, <1>3, <1>8, <5>1
        <5>3. x \in Range(table') => x \in Range(table)
          BY <1>6, <3>4
        <5>4. QED
          BY <3>1, <5>2, <5>3 DEF OnceOf
      <4>7. sent'[x] = sent[x]
        BY <1>1
      <4>8. QED
        BY <3>1, <4>1, <4>2, <4>3, <4>4, <4>5, <4>6, <4>7, OnceKeeps DEF OnceOf
    <3>5. QED
      BY <3>3, <3>4
  <2>2. QED
    BY <2>1 DEF OnceInv
<1>20. CoverInv'
  <2>1. CASE t = "retry"
    <3>1. \A x : Covered(x)'
      BY <1>3, <1>8, <2>1 DEF Covered
    <3>2. QED
      BY <3>1 DEF CoverInv
  <2>2. CASE t = "sync"
    <3>1. \A x : Covered(x) => Covered(x)'
      BY <1>1, <1>2, <1>3, <1>6, <1>8, <2>2, TwoWorkers DEF Covered
    <3>2. Covered(s)'
      <4>1. s \in Range(w.rows)
        BY <1>2, <1>4, <1>6, <2>2 DEF IInv, SyncRows
      <4>2. QED
        BY <1>3, <1>8, <2>2, <4>1 DEF Covered
    <3>3. \A x \in Range(table') : x \in Range(table) \/ Session(x) = s
      BY <1>6, <1>11
    <3>4. QED
      BY <1>1, <1>7, <3>1, <3>2, <3>3, CoverStep DEF IInv
  <2>3. QED
    BY <2>1, <2>2, TwoWorkers
<1>21. QED
  BY <1>7, <1>14, <1>15, <1>16, <1>17, <1>18, <1>19, <1>20 DEF IInv

LEMMA TryRowKeeps == ASSUME IInv, NEW t \in Workers, TryRow(t) PROVE IInv'
<1>1. UNCHANGED <<phase, arrived, keys, backup, seen, queue, ids, recheck, ends, stranded>>
  BY DEF TryRow
<1>2. PICK w : w = work[t]
  OBVIOUS
<1>3. PICK v : v = work'[t]
  OBVIOUS
<1>4. PICK e : e = Head(w.items)
  OBVIOUS
<1>5. /\ w.at = "items" /\ w.items # <<>> /\ w \in Job
      /\ e \in arrived /\ e \in Events /\ e \in Range(w.items)
      /\ Range(w.items) = {e} \cup Range(Tail(w.items))
      /\ Single({e}, w.items) => e \notin Range(Tail(w.items))
      /\ \A x : Single({x}, w.items) => Single({x}, Tail(w.items))
      /\ Becomes(t, "items", w.event, w.queued, w.session, w.todo, w.failed, w.rows,
                 Tail(w.items), w.handled, w.next)
      /\ \/ Session(e) \in keys /\ Dispatched(e) /\ UNCHANGED <<table, faults, lost, excused>>
         \/ Fault /\ lost' = lost \cup {e} /\ UNCHANGED <<table, sent, excused>>
         \/ /\ \/ Session(e) \in keys /\ Fault /\ excused' = excused \cup {e}
               \/ Session(e) \notin keys /\ UNCHANGED <<faults, excused>>
            /\ table' = Saved(table, e)
            /\ lost' = lost \cup (Range(table) \ Range(table'))
            /\ UNCHANGED sent
  BY <1>2, <1>4, TryRowIs DEF IInv
<1>6. Base /\ Base' /\ Grows /\ Queued' = Queued /\ PastInv
  BY <1>1, TryRowBase DEF IInv, Queued, Base
<1>7. /\ v.at = "items" /\ v.todo = <<>> /\ w.todo = <<>> /\ v.failed = <<>> /\ w.failed = <<>>
      /\ v.items = Tail(w.items) /\ v.rows = w.rows /\ v.queued = w.queued /\ v.session = w.session
      /\ v.handled = w.handled /\ v.next = w.next /\ \A u \in Workers \ {t} : work'[u] = work[u]
  <2>1. w.todo = <<>> /\ w.failed = <<>>
    BY <1>2, <1>5, <1>6, JobsAre
  <2>2. QED
    BY <1>3, <1>5, <2>1 DEF Becomes
<1>8. /\ HeldBy(w) = Range(w.items) /\ HeldBy(v) = Range(v.items) /\ HeldBy(w) = {e} \cup HeldBy(v)
      /\ \A x : ~AskedFor(w, x) /\ ~AskedFor(v, x)
  <2>1. HeldBy(w) = Range(w.items) /\ HeldBy(v) = Range(v.items)
    BY <1>7, EmptyIs DEF HeldBy
  <2>2. \A x : ~AskedFor(w, x) /\ ~AskedFor(v, x)
    BY <1>5, <1>7 DEF AskedFor, Asking
  <2>3. QED
    BY <1>5, <1>7, <2>1, <2>2
<1>9. Range(table') \subseteq Range(table) \cup {e}
  BY <1>5, <1>6, BaseIs, SavedIs
<1>10. PlainInv'
  <2>1. \A x : Before(x) => Before(x)'
    BY <1>1, <1>2, <1>3, <1>5, <1>7, TwoWorkers DEF Before
  <2>2. PlainInv
    BY DEF IInv
  <2>3. \A u \in Workers :
              /\ \/ Early(u, work'[u], phase')
                 \/ work'[u].todo \in Seq(Done(faults, excused)) \cup Seq(Done(faults', excused'))
              /\ work'[u].failed \in Seq(Done(faults, excused)) \cup Seq(Done(faults', excused'))
    <3>1. ASSUME NEW u \in Workers, u # t
          PROVE  /\ \/ Early(u, work'[u], phase')
                    \/ work'[u].todo \in Seq(Done(faults, excused)) \cup Seq(Done(faults', excused'))
                 /\ work'[u].failed \in Seq(Done(faults, excused)) \cup Seq(Done(faults', excused'))
      BY <1>1, <1>7, <2>2, <3>1 DEF PlainInv
    <3>2. v.todo \in Seq(Done(faults, excused)) /\ v.failed \in Seq(Done(faults, excused))
      BY <1>7, EmptyIs
    <3>3. QED
      BY <1>3, <3>1, <3>2
  <2>4. QED
    BY <1>1, <1>6, <2>1, <2>2, <2>3, PlainJobs
<1>11. BackInv'
  <2>1. \A x \in Range(table) : x \in Range(table') \/ x \in lost'
    BY <1>5
  <2>2. sent'[e] = 0 => e \in Range(table') \/ e \in lost'
    <3>1. Dispatched(e) => sent'[e] > 0
      BY <1>5, <1>6, BaseIs, DispatchedIs
    <3>2. table' = Saved(table, e) => e \in Range(table')
      BY <1>5, <1>6, BaseIs, SavedIs
    <3>3. Dispatched(e) => sent'[e] # 0
      BY <3>1
    <3>4. QED
      BY <1>5, <3>2, <3>3
  <2>3. \A u \in Workers : \A x \in Range(work[u].items) : sent'[x] = 0 =>
            x \in Range(work'[u].items) \/ x \in Range(table') \/ x \in lost'
    BY <1>2, <1>3, <1>5, <1>7, <2>2
  <2>4. \A x \in arrived : AskedFor(work["sync"], x) => AskedFor(work'["sync"], x)
    BY <1>2, <1>7, <1>8, TwoWorkers
  <2>5. QED
    BY <1>1, <1>6, <2>1, <2>3, <2>4, BackStep DEF IInv
<1>12. AskedInv'
  <2>1. CASE t = "sync"
    BY <1>3, <1>7, <2>1, AskedEnds DEF Asking
  <2>2. CASE t # "sync"
    <3>1. HeldBy(w) \subseteq Stored
      BY <1>2, StoredIs
    <3>2. \A u \in Workers : HeldBy(work'[u]) \subseteq Stored /\ work'[u].handled \subseteq Stored
      BY <1>2, <1>3, <1>7, <1>8, StoredIs
    <3>3. Range(table') \subseteq Stored
      BY <1>8, <1>9, <3>1, StoredIs
    <3>4. Stored' \subseteq Stored
      BY <1>1, <1>6, <3>2, <3>3, StoredIs, StoredRecheck, StoredStep
    <3>5. work'["sync"] = work["sync"]
      BY <1>7, <2>2, TwoWorkers
    <3>6. e \in Stored \cap Events
      BY <1>5, <1>8, <3>1
    <3>7. sent' = sent \/ \E x \in Stored \cap Events : Dispatched(x)
      BY <1>5, <3>6
    <3>8. QED
      BY <1>6, <3>4, <3>5, <3>7, AskedStep DEF IInv
  <2>3. QED
    BY <2>1, <2>2
<1>13. IdsInv'
  <2> SUFFICES ASSUME faults' = 0
               PROVE  /\ ids' = Queued' /\ \A x \in Sessions : \A y : Single(Of(y), Held(queue', x))
                      /\ \A u \in Workers : /\ \A y : Single(Of(y), work'[u].todo) /\ Single(Of(y), work'[u].failed)
                                            /\ Evs(work'[u].todo) \cap Evs(work'[u].failed) = {}
    BY DEF IdsInv
  <2>1. faults = 0
    BY <1>6, BaseIs DEF Grows, PastInv
  <2>2. /\ ids = Queued /\ (\A x \in Sessions : \A y : Single(Of(y), Held(queue, x)))
        /\ \A u \in Workers : /\ \A y : Single(Of(y), work[u].todo) /\ Single(Of(y), work[u].failed)
                              /\ Evs(work[u].todo) \cap Evs(work[u].failed) = {}
    BY <2>1 DEF IInv, IdsInv
  <2>3. \A u \in Workers : /\ \A y : Single(Of(y), work'[u].todo) /\ Single(Of(y), work'[u].failed)
                           /\ Evs(work'[u].todo) \cap Evs(work'[u].failed) = {}
    <3>1. (\A y : Single(Of(y), v.todo) /\ Single(Of(y), v.failed)) /\ Evs(v.todo) \cap Evs(v.failed) = {}
      BY <1>7, EmptyIs
    <3>2. \A u \in Workers \ {t} : work'[u].todo = work[u].todo /\ work'[u].failed = work[u].failed
      BY <1>7
    <3>3. QED
      BY <1>3, <2>2, <3>1, <3>2
  <2>4. QED
    BY <1>1, <1>6, <2>2, <2>3
<1>14. SyncRows'
  <2>1. CASE t = "sync"
    BY <1>3, <1>7, <2>1 DEF SyncRows
  <2>2. CASE t # "sync"
    BY <1>7, <2>2, TwoWorkers DEF IInv, SyncRows
  <2>3. QED
    BY <2>1, <2>2
<1>15. OnceInv'
  <2>1. ASSUME NEW x \in Events \ excused' PROVE OnceOf(x)'
    <3>1. OnceOf(x)
      BY <1>6, <2>1 DEF IInv, OnceInv, Grows
    <3>2. (Holds(t, v, x) <=> x \in Range(v.items)) /\ (Holds(t, w, x) <=> x \in Range(w.items))
      BY <1>8 DEF Holds
    <3>3. CASE x = e
      <4>1. /\ x \notin Queued /\ ~InStill(recheck, x) /\ sent[x] = 0 /\ Singly(w, x)
            /\ (\A u \in Workers \ {t} : ~Holds(u, work[u], x)) /\ x \notin Range(table)
        BY <1>2, <1>5, <3>1, <3>2, <3>3 DEF OnceOf
      <4>2. \A u \in Workers : ~Holds(u, work'[u], x)
        BY <1>3, <1>5, <1>7, <3>2, <3>3, <4>1 DEF Singly
      <4>3. \A u \in Workers : x \notin Range(work'[u].items)
        BY <4>2 DEF Holds, HeldBy
      <4>4. Single(Of(x), Held(queue', Session(x)))
        BY <1>1, <3>1 DEF OnceOf
      <4>5. x \notin Queued' /\ ~InStill(recheck', x)
        BY <1>1, <1>6, <4>1
      <4>6. sent'[x] <= 1 /\ (x \in Range(table') => ~(sent'[x] > 0))
        <5>1. CASE Dispatched(e) /\ UNCHANGED table
          <6>1. sent'[x] = 1
            BY <1>5, <1>6, <3>3, <4>1, <5>1, BaseIs, DispatchedIs
          <6>2. QED
            BY <4>1, <5>1, <6>1
        <5>2. CASE UNCHANGED sent
          BY <4>1, <5>2
        <5>3. QED
          BY <1>5, <5>1, <5>2
      <4>7. QED
        BY <4>2, <4>3, <4>4, <4>5, <4>6 DEF OnceOf
    <3>4. CASE x # e
      <4>1. sent'[x] = sent[x]
        BY <1>5, <1>6, <3>4, BaseIs, DispatchedIs
      <4>2. \A u \in Workers : Holds(u, work'[u], x) => Holds(u, work[u], x) /\ Singly(work'[u], x)
        <5>1. ASSUME Holds(t, v, x) PROVE Holds(t, w, x) /\ Singly(v, x)
          <6>1. Holds(t, w, x)
            BY <1>5, <1>7, <3>2, <5>1
          <6>2. Single({x}, w.items)
            BY <1>2, <3>1, <6>1 DEF OnceOf, Singly
          <6>3. QED
            BY <1>5, <1>7, <6>1, <6>2, EmptyIs DEF Singly
        <5>2. QED
          BY <1>2, <1>3, <1>7, <3>1, <5>1, HoldsSame
      <4>3. \A u \in Workers : x \in Range(work'[u].items) => x \notin Range(table')
        <5>1. \A u \in Workers : x \in Range(work[u].items) => x \notin Range(table)
          BY <3>1 DEF OnceOf
        <5>2. \A u \in Workers : x \in Range(work'[u].items) => x \in Range(work[u].items)
          BY <1>2, <1>3, <1>5, <1>7
        <5>3. QED
          BY <1>9, <3>4, <5>1, <5>2
      <4>4. x \in Range(table') /\ sent[x] > 0 => \E u \in Workers : Leaves(u, work'[u], x)
        <5>1. Leaves(t, w, x) => Leaves(t, v, x)
          BY <1>5, <1>7 DEF Leaves
        <5>2. \A u \in Workers : Leaves(u, work[u], x) => Leaves(u, work'[u], x)
          BY <1>2, <1>3, <1>7, <5>1
        <5>3. x \in Range(table') => x \in Range(table)
          BY <1>9, <3>4
        <5>4. QED
          BY <3>1, <5>2, <5>3 DEF OnceOf
      <4>5. QED
        BY <1>1, <1>6, <3>1, <4>1, <4>2, <4>3, <4>4, OnceKeeps DEF OnceOf
    <3>5. QED
      BY <3>3, <3>4
  <2>2. QED
    BY <2>1 DEF OnceInv
<1>16. CoverInv'
  <2>1. \A x : Covered(x) => Covered(x)'
    <3>1. CASE t = "sync"
      BY <1>1, <1>2, <1>3, <1>5, <1>7, <3>1, TwoWorkers DEF Covered
    <3>2. CASE t = "retry"
      BY <1>1, <1>2, <1>3, <1>5, <1>7, <3>2, TwoWorkers DEF Covered
    <3>3. QED
      BY <3>1, <3>2, TwoWorkers
  <2>2. CASE table' = table
    BY <1>1, <1>6, <2>1, <2>2, CoverStays DEF IInv
  <2>3. CASE Session(e) \notin keys \/ e \in excused'
    <3>1. \A x \in Range(table') : x \in Range(table) \/ x = e
      BY <1>9
    <3>2. QED
      BY <1>1, <1>6, <2>1, <2>3, <3>1, CoverStep DEF IInv
  <2>4. QED
    BY <1>5, <2>2, <2>3
<1>17. QED
  BY <1>6, <1>10, <1>11, <1>12, <1>13, <1>14, <1>15, <1>16 DEF IInv

\* What is decrypted and waits outside the start has raised, so no event of it is kept apart.
LEMMA RecheckPlain ==
    ASSUME Base, PlainInv, recheck.snap # <<>>
    PROVE  /\ phase = "up" /\ faults # 0 /\ Current \in Seq(Done(faults, excused))
           /\ Evs(Current) \subseteq Stored
<1>1. phase = "up"
  BY UpIs
<1>2. Rested.snap = <<>>
  BY NothingIs
<1>3. faults # 0
  BY <1>2 DEF PlainInv
<1>4. PICK h : h = Head(recheck.snap)
  OBVIOUS
<1>5. h \in Range(recheck.snap)
  BY <1>4, RecheckNow
<1>6. /\ Held(queue, h.session) \in Seq(Done(faults, excused))
      /\ h.events \in Seq(Done(faults, excused))
  BY <1>1, <1>5, NoneBefore DEF PlainInv
<1>7. Evs(Held(queue, h.session)) \subseteq Stored /\ Evs(h.events) \subseteq Stored
  BY <1>5, StoredIs DEF Base
<1>8. Current = IF h.dead THEN h.events ELSE Held(queue, h.session)
  BY <1>4, CurrentIs
<1>9. CASE h.dead
  BY <1>1, <1>3, <1>6, <1>7, <1>8, <1>9
<1>10. CASE ~h.dead
  BY <1>1, <1>3, <1>6, <1>7, <1>8, <1>10
<1>11. QED
  BY <1>9, <1>10

LEMMA RecheckKeeps == ASSUME IInv, Recheck PROVE IInv'
<1>1. UNCHANGED <<phase, arrived, keys, backup, seen, queue, ids, table, work, faults,
                  ends, sent, lost, excused, stranded>>
  BY DEF Recheck
<1>2. Base /\ Base' /\ Grows /\ PlainInv /\ PastInv
  BY RecheckBase DEF IInv, Base
<1>3. /\ phase = "up" /\ recheck = Rested
      /\ \E s \in Sessions : \E item \in Range(Held(queue, s)) : item.plain
      /\ recheck'.at = 0 /\ recheck'.still = <<>>
      /\ \A entry \in Range(recheck'.snap) : entry.events = <<>>
  BY <1>2, RecheckIs
<1>4. Queued' = Queued
  BY <1>1 DEF Queued
<1>5. faults # 0
  <2>1. PICK s \in Sessions : \E item \in Range(Held(queue, s)) : item.plain
    BY <1>3
  <2>2. PICK item \in Range(Held(queue, s)) : item.plain
    BY <2>1
  <2>3. Held(queue, s) \in Seq(Done(faults, excused))
    BY <1>2, <1>3, NoneBefore
  <2>4. item \in Done(faults, excused)
    BY <2>2, <2>3, RangeIs
  <2>5. QED
    BY <2>2, <2>4 DEF Done
<1>6. \A x : ~InStill(recheck, x) /\ ~InStill(recheck', x)
  BY <1>3, EmptyIs, NothingIs DEF InStill
<1>7. PlainInv'
  <2>1. \A s : Before(s)' <=> Before(s)
    BY <1>1 DEF Before
  <2>2. \A u \in Workers :
              /\ \/ Early(u, work'[u], phase')
                 \/ work'[u].todo \in Seq(Done(faults, excused)) \cup Seq(Done(faults', excused'))
              /\ work'[u].failed \in Seq(Done(faults, excused)) \cup Seq(Done(faults', excused'))
    BY <1>1, <1>2 DEF PlainInv
  <2>3. /\ recheck'.still \in Seq(Done(faults, excused))
        /\ \A entry \in Range(recheck'.snap) : entry.events \in Seq(Done(faults, excused))
    BY <1>3, EmptyIs
  <2>4. \A s \in Sessions : Before(s)' \/ Held(queue', s) \in Seq(Done(faults, excused))
    BY <1>1, <1>2, <2>1 DEF PlainInv
  <2>5. faults' # 0
    BY <1>1, <1>5
  <2>6. QED
    BY <1>2, <2>2, <2>3, <2>4, <2>5, PlainStep
<1>8. BackInv' /\ IdsInv' /\ SyncRows'
  BY <1>1, <1>4 DEF IInv, BackInv, IdsInv, SyncRows
<1>9. AskedInv'
  <2>1. Stored' \subseteq Stored
    BY <1>1, <1>3, <1>4, EmptyIs, StoredIs, StoredStep
  <2>2. QED
    BY <1>1, <1>2, <2>1, AskedStep DEF IInv
<1>10. OnceInv'
  <2>1. \A x \in Events : OnceOf(x) => OnceOf(x)'
    BY <1>1, <1>4, <1>6 DEF OnceOf
  <2>2. QED
    BY <1>1, <2>1 DEF IInv, OnceInv
<1>11. CoverInv'
  <2>1. \A x : Covered(x) => Covered(x)'
    BY <1>1 DEF Covered
  <2>2. QED
    BY <1>1, <1>2, <2>1, CoverStays DEF IInv
<1>12. QED
  BY <1>2, <1>7, <1>8, <1>9, <1>10, <1>11 DEF IInv

LEMMA RecheckEventKeeps == ASSUME IInv, RecheckEvent PROVE IInv'
<1>1. UNCHANGED <<phase, arrived, keys, backup, seen, queue, work, ends, lost, stranded>>
  BY DEF RecheckEvent
<1>2. Base /\ Base' /\ Grows /\ PlainInv /\ PastInv /\ PastInv'
  BY RecheckEventBase DEF IInv, Base
<1>3. PICK h : h = Head(recheck.snap)
  OBVIOUS
<1>4. PICK n : n = recheck.at + 1
  OBVIOUS
<1>5. PICK item : item = Current[n]
  OBVIOUS
<1>6. PICK e : e = item.ev
  OBVIOUS
<1>7. /\ recheck.snap # <<>> /\ n \in DOMAIN Current
      /\ item \in Range(Current) /\ item \in Item /\ e \in Events /\ e \in arrived
      /\ e \in Evs(Current) /\ Session(e) = h.session
      /\ recheck'.snap = recheck.snap /\ recheck'.at = n
      /\ \/ /\ item.plain /\ Dispatched(e) /\ UNCHANGED faults
            /\ Range(table') = Range(table) \ {e}
            /\ recheck'.still = recheck.still /\ TakeUp("recheck", {e})
         \/ /\ \/ item.plain /\ Fault /\ excused' = excused \cup {e}
               \/ ~item.plain /\ UNCHANGED <<faults, excused>>
            /\ recheck'.still = Append(recheck.still, item) /\ UNCHANGED <<sent, ids, table>>
  BY <1>2, <1>3, <1>4, <1>5, <1>6, RecheckEventIs
<1>8. /\ recheck.at \in Nat /\ recheck.still \in Seq(Item) /\ Current \in Seq(Item)
      /\ Current = IF h.dead THEN h.events ELSE Held(queue, h.session)
  BY <1>2, <1>3, <1>7, RecheckNow, CurrentIs
<1>9. /\ faults # 0 /\ Current \in Seq(Done(faults, excused)) /\ e \in Stored /\ phase = "up"
      /\ item \in Done(faults, excused)
  <2>1. faults # 0 /\ Current \in Seq(Done(faults, excused)) /\ Evs(Current) \subseteq Stored /\ phase = "up"
    BY <1>2, <1>7, RecheckPlain
  <2>2. QED
    BY <1>7, <2>1, RangeIs
<1>10. faults' # 0 /\ (item.plain => e \in excused) /\ Queued' = Queued
  <2>1. faults' # 0
    BY <1>2, <1>9 DEF Grows, PastInv
  <2>2. QED
    BY <1>1, <1>6, <1>9, <2>1 DEF Done, Queued
<1>11. Range(table') \subseteq Range(table) /\ \A x \in Range(table) : x \in Range(table') \/ x = e
  BY <1>7
<1>12. /\ recheck'.still \in Seq(Done(faults, excused))
       /\ Evs(recheck'.still) \subseteq Evs(recheck.still) \cup {e}
       /\ \A x : x # e /\ Single(Of(x), recheck.still) => Single(Of(x), recheck'.still)
       /\ e \notin Evs(recheck.still) => Single(Of(e), recheck'.still)
  <2>1. recheck.still \in Seq(Done(faults, excused))
    BY <1>2 DEF PlainInv
  <2>2. Append(recheck.still, item) \in Seq(Done(faults, excused))
    BY <1>9, <2>1, AppendIs
  <2>3. /\ Evs(Append(recheck.still, item)) = Evs(recheck.still) \cup {e}
        /\ \A x : Single(Of(x), recheck.still) /\ (x \notin Evs(recheck.still) \/ e # x)
                => Single(Of(x), Append(recheck.still, item))
    BY <1>6, <1>7, <1>8, EvsAppend
  <2>4. \A x : x \notin Evs(recheck.still) => Single(Of(x), recheck.still)
    BY DEF Single, Of, Evs
  <2>5. CASE recheck'.still = recheck.still
    BY <2>1, <2>4, <2>5
  <2>6. CASE recheck'.still = Append(recheck.still, item)
    BY <2>2, <2>3, <2>4, <2>6
  <2>7. QED
    BY <1>7, <2>5, <2>6
<1>13. PlainInv'
  <2>1. \A s : Before(s)' <=> Before(s)
    BY <1>1 DEF Before
  <2>2. \A u \in Workers :
              /\ \/ Early(u, work'[u], phase')
                 \/ work'[u].todo \in Seq(Done(faults, excused)) \cup Seq(Done(faults', excused'))
              /\ work'[u].failed \in Seq(Done(faults, excused)) \cup Seq(Done(faults', excused'))
    BY <1>1, <1>2 DEF PlainInv
  <2>3. \A entry \in Range(recheck'.snap) : entry.events \in Seq(Done(faults, excused))
    BY <1>2, <1>7 DEF PlainInv
  <2>4. \A s \in Sessions : Before(s)' \/ Held(queue', s) \in Seq(Done(faults, excused))
    BY <1>1, <1>2, <2>1 DEF PlainInv
  <2>5. QED
    BY <1>2, <1>10, <1>12, <2>2, <2>3, <2>4, PlainStep
<1>14. BackInv'
  <2>1. \A x \in Range(table) : sent'[x] = 0 => x \in Range(table')
    <3>1. CASE Dispatched(e)
      <4>1. sent'[e] > 0
        BY <1>2, <1>7, <3>1, BaseIs, DispatchedIs
      <4>2. sent'[e] # 0
        BY <4>1
      <4>3. QED
        BY <1>11, <4>2
    <3>2. CASE UNCHANGED table
      BY <3>2
    <3>3. QED
      BY <1>7, <3>1, <3>2
  <2>2. QED
    BY <1>1, <1>2, <2>1, BackStep DEF IInv
<1>15. AskedInv'
  <2>1. Evs(recheck'.still) \subseteq Stored
    BY <1>9, <1>12, StoredIs
  <2>2. \A entry \in Range(recheck'.snap) : Evs(entry.events) \subseteq Stored
    BY <1>7, StoredIs
  <2>3. Stored' \subseteq Stored
    BY <1>1, <1>10, <1>11, <2>1, <2>2, StoredIs, StoredStep
  <2>4. sent' = sent \/ \E x \in Stored \cap Events : Dispatched(x)
    BY <1>7, <1>9
  <2>5. QED
    BY <1>1, <1>2, <2>3, <2>4, AskedStep DEF IInv
<1>16. IdsInv' /\ SyncRows'
  BY <1>1, <1>10 DEF IInv, IdsInv, SyncRows
<1>17. OnceInv'
  <2>1. ASSUME NEW x \in Events \ excused' PROVE OnceOf(x)'
    <3>1. OnceOf(x)
      BY <1>2, <2>1 DEF IInv, OnceInv, Grows
    <3>2. CASE x # e
      <4>1. sent'[x] = sent[x]
        BY <1>2, <1>7, <3>2, BaseIs, DispatchedIs
      <4>2. InStill(recheck', x) =>
              /\ InStill(recheck, x) /\ Single(Of(x), recheck'.still)
              /\ Within(x, Held(queue', Session(x)), recheck'.at)
        <5> SUFFICES ASSUME InStill(recheck', x)
                     PROVE  /\ InStill(recheck, x) /\ Single(Of(x), recheck'.still)
                            /\ Within(x, Held(queue', Session(x)), recheck'.at)
          OBVIOUS
        <5>1. InStill(recheck, x)
          BY <1>7, <1>12, <3>2 DEF InStill
        <5>2. Single(Of(x), recheck.still) /\ Within(x, Held(queue, Session(x)), recheck.at)
          BY <3>1, <5>1 DEF OnceOf
        <5>3. Held(queue, Session(x)) \in Seq(Item)
          BY <1>2, BaseIs, HeldIs
        <5>4. \A i \in DOMAIN Held(queue, Session(x)) : i \in Nat
          BY <5>3
        <5>5. Within(x, Held(queue, Session(x)), n)
          BY <1>4, <1>8, <5>2, <5>4 DEF Within
        <5>6. QED
          BY <1>1, <1>7, <1>12, <3>2, <5>1, <5>2, <5>5
      <4>3. \A u \in Workers : Holds(u, work'[u], x) => Holds(u, work[u], x) /\ Singly(work'[u], x)
        BY <1>1, <3>1 DEF OnceOf
      <4>4. \A u \in Workers : x \in Range(work'[u].items) => x \notin Range(table')
        BY <1>1, <1>11, <3>1 DEF OnceOf
      <4>5. x \in Range(table') /\ sent[x] > 0 => \E u \in Workers : Leaves(u, work'[u], x)
        BY <1>1, <1>11, <3>1 DEF OnceOf
      <4>6. QED
        BY <1>1, <1>10, <3>1, <4>1, <4>2, <4>3, <4>4, <4>5, OnceKeeps DEF OnceOf
    <3>3. CASE x = e
      <4>1. ~item.plain /\ UNCHANGED <<sent, table>>
        BY <1>2, <1>7, <1>10, <2>1, <3>3 DEF Grows
      <4>2. CASE h.dead
        <5>1. ~InStill(recheck', x)
          BY <1>3, <1>7, <4>2 DEF InStill
        <5>2. \A u \in Workers : Holds(u, work'[u], x) => Holds(u, work[u], x) /\ Singly(work'[u], x)
          BY <1>1, <3>1 DEF OnceOf
        <5>3. \A u \in Workers : x \in Range(work'[u].items) => x \notin Range(table')
          BY <1>1, <3>1, <4>1 DEF OnceOf
        <5>4. x \in Range(table') /\ sent[x] > 0 => \E u \in Workers : Leaves(u, work'[u], x)
          BY <1>1, <3>1, <4>1 DEF OnceOf
        <5>5. QED
          BY <1>1, <1>10, <3>1, <4>1, <5>1, <5>2, <5>3, <5>4, OnceKeeps DEF OnceOf
      <4>3. CASE ~h.dead
        <5>1. PICK H : H = Held(queue, Session(x))
          OBVIOUS
        <5>2. H = Current /\ Single(Of(x), H) /\ H[n].ev = x /\ n \in DOMAIN H /\ x \in Evs(H)
          BY <1>5, <1>6, <1>7, <1>8, <3>1, <3>3, <4>3, <5>1 DEF OnceOf
        <5>3. H \in Seq(Item) /\ \A i \in DOMAIN H : i \in Nat /\ H[i] \in Item
          BY <1>8, <5>2
        <5>4. x \in Queued
          BY <1>2, <5>1, <5>2, BaseIs, QueueIs
        <5>5. sent[x] = 0 /\ \A u \in Workers : ~Holds(u, work[u], x)
          BY <3>1, <5>4 DEF OnceOf
        <5>6. x \notin Evs(recheck.still)
          <6> SUFFICES ASSUME x \in Evs(recheck.still) PROVE FALSE
            OBVIOUS
          <6>1. InStill(recheck, x)
            BY <1>3, <1>7, <4>3 DEF InStill
          <6>2. Within(x, H, recheck.at)
            BY <3>1, <5>1, <6>1 DEF OnceOf
          <6>3. n <= recheck.at
            BY <5>2, <6>2 DEF Within
          <6>4. QED
            BY <1>4, <1>8, <6>3
        <5>7. Within(x, H, n)
          <6>1. \A i \in DOMAIN H : H[i].ev = x => i = n
            BY <5>2, <5>3 DEF Single, Of
          <6>2. n <= n
            BY <1>4, <1>8
          <6>3. QED
            BY <6>1, <6>2 DEF Within
        <5>8. \A u \in Workers : ~Holds(u, work'[u], x) /\ x \notin Range(work'[u].items)
          BY <1>1, <5>5 DEF Holds, HeldBy
        <5>9. Single(Of(x), recheck'.still) /\ Within(x, Held(queue', Session(x)), recheck'.at)
          BY <1>1, <1>7, <1>12, <3>3, <5>1, <5>6, <5>7
        <5>10. sent'[x] = 0 /\ Single(Of(x), Held(queue', Session(x)))
          BY <1>1, <4>1, <5>1, <5>2, <5>5
        <5>11. QED
          BY <5>8, <5>9, <5>10 DEF OnceOf
      <4>4. QED
        BY <4>2, <4>3
    <3>4. QED
      BY <3>2, <3>3
  <2>2. QED
    BY <2>1 DEF OnceInv
<1>18. CoverInv'
  <2>1. \A x : Covered(x) => Covered(x)'
    BY <1>1 DEF Covered
  <2>2. QED
    BY <1>1, <1>2, <1>11, <2>1, CoverStays DEF IInv
<1>19. QED
  BY <1>2, <1>13, <1>14, <1>15, <1>16, <1>17, <1>18 DEF IInv

LEMMA RecheckWritesKeeps == ASSUME IInv, RecheckWrites PROVE IInv'
<1>1. UNCHANGED <<phase, arrived, keys, backup, seen, ids, table, work, faults, ends,
                  sent, lost, excused, stranded>>
  BY DEF RecheckWrites
<1>2. Base /\ Base' /\ Grows /\ PlainInv /\ PastInv
  BY RecheckWritesBase DEF IInv, Base
<1>3. PICK h : h = Head(recheck.snap)
  OBVIOUS
<1>4. PICK b : b = recheck.still
  OBVIOUS
<1>5. /\ recheck.snap # <<>> /\ recheck'.snap = Tail(recheck.snap) /\ recheck'.still = <<>>
      /\ \A x : Held(queue', x) = IF /\ x = h.session
                                     /\ \/ b = <<>>
                                        \/ ~h.dead /\ Held(queue, x) # <<>>
                                  THEN b ELSE Held(queue, x)
  BY <1>2, <1>3, <1>4, RecheckWritesIs
<1>6. /\ b \in Seq(Item) /\ Range(recheck'.snap) \subseteq Range(recheck.snap)
      /\ phase = "up" /\ faults # 0 /\ faults' # 0
  BY <1>1, <1>2, <1>4, <1>5, RecheckNow, RecheckPlain
<1>7. \A x : /\ Held(queue', x) = Held(queue, x) \/ Held(queue', x) = b
             /\ Held(queue', x) # Held(queue, x) => b = <<>> \/ (Held(queue', x) = b /\ ~h.dead)
  BY <1>5
<1>8. \A x : x \in Queued' => x \in Queued \/ (x \in Evs(b) /\ ~h.dead)
  <2> SUFFICES ASSUME NEW x, x \in Queued' PROVE x \in Queued \/ (x \in Evs(b) /\ ~h.dead)
    OBVIOUS
  <2>1. x \in Evs(Held(queue', Session(x)))
    BY <1>2, QueueNow DEF Base
  <2>2. x \in Evs(Held(queue, Session(x))) => x \in Queued
    BY <1>2, BaseIs, QueueIs
  <2>3. QED
    BY <1>7, <2>1, <2>2, EmptyIs
<1>9. \A x : ~InStill(recheck', x)
  BY <1>5, EmptyIs DEF InStill
<1>10. \A x : x \in Evs(b) /\ ~h.dead => InStill(recheck, x)
  BY <1>3, <1>4, <1>5 DEF InStill
<1>11. PlainInv'
  <2>1. \A s : Before(s)' <=> Before(s)
    BY <1>1 DEF Before
  <2>2. \A u \in Workers :
              /\ \/ Early(u, work'[u], phase')
                 \/ work'[u].todo \in Seq(Done(faults, excused)) \cup Seq(Done(faults', excused'))
              /\ work'[u].failed \in Seq(Done(faults, excused)) \cup Seq(Done(faults', excused'))
    BY <1>1, <1>2 DEF PlainInv
  <2>3. \A entry \in Range(recheck'.snap) : entry.events \in Seq(Done(faults, excused))
    BY <1>2, <1>6 DEF PlainInv
  <2>4. b \in Seq(Done(faults, excused)) /\ recheck'.still \in Seq(Done(faults, excused))
    BY <1>2, <1>4, <1>5, EmptyIs DEF PlainInv
  <2>5. \A s \in Sessions : Before(s)' \/ Held(queue', s) \in Seq(Done(faults, excused))
    BY <1>2, <1>7, <2>1, <2>4 DEF PlainInv
  <2>6. QED
    BY <1>2, <1>6, <2>2, <2>3, <2>4, <2>5, PlainStep
<1>12. BackInv' /\ SyncRows'
  BY <1>1 DEF IInv, BackInv, SyncRows
<1>13. IdsInv'
  BY <1>6 DEF IdsInv
<1>14. AskedInv'
  <2>1. Evs(b) \subseteq Stored
    BY <1>4, StoredIs
  <2>2. Queued' \subseteq Stored
    BY <1>8, <2>1, StoredIs
  <2>3. Evs(recheck'.still) \subseteq Stored /\ \A entry \in Range(recheck'.snap) : Evs(entry.events) \subseteq Stored
    BY <1>5, <1>6, EmptyIs, StoredIs
  <2>4. Stored' \subseteq Stored
    BY <1>1, <2>2, <2>3, StoredIs, StoredStep
  <2>5. QED
    BY <1>1, <1>2, <2>4, AskedStep DEF IInv
<1>15. OnceInv'
  <2>1. ASSUME NEW x \in Events \ excused' PROVE OnceOf(x)'
    <3>1. OnceOf(x)
      BY <1>1, <2>1 DEF IInv, OnceInv
    <3>2. Single(Of(x), Held(queue', Session(x)))
      <4>1. Single(Of(x), Held(queue, Session(x))) /\ Single(Of(x), <<>>)
        BY <3>1, EmptyIs DEF OnceOf
      <4>2. x \notin Evs(b) => Single(Of(x), b)
        BY DEF Single, Of, Evs
      <4>3. x \in Evs(b) /\ ~h.dead => Single(Of(x), b)
        BY <1>4, <1>10, <3>1 DEF OnceOf
      <4>4. QED
        BY <1>7, <4>1, <4>2, <4>3
    <3>3. \A u \in Workers : Holds(u, work'[u], x) => Holds(u, work[u], x) /\ Singly(work'[u], x)
      BY <1>1, <3>1 DEF OnceOf
    <3>4. \A u \in Workers : x \in Range(work'[u].items) => x \notin Range(table')
      BY <1>1, <3>1 DEF OnceOf
    <3>5. x \in Range(table') /\ sent[x] > 0 => \E u \in Workers : Leaves(u, work'[u], x)
      BY <1>1, <3>1 DEF OnceOf
    <3>6. x \in Queued' => x \in Queued \/ InStill(recheck, x)
      BY <1>8, <1>10
    <3>7. sent'[x] = sent[x] /\ ~InStill(recheck', x)
      BY <1>1, <1>9
    <3>8. QED
      BY <3>1, <3>2, <3>3, <3>4, <3>5, <3>6, <3>7, OnceKeeps
  <2>2. QED
    BY <2>1 DEF OnceInv
<1>16. CoverInv'
  <2>1. \A x : Covered(x) => Covered(x)'
    BY <1>1 DEF Covered
  <2>2. QED
    BY <1>1, <1>2, <2>1, CoverStays DEF IInv
<1>17. QED
  BY <1>2, <1>11, <1>12, <1>13, <1>14, <1>15, <1>16 DEF IInv

\* The tasks are cut off; what they had handed on and left in the table is excused.
LEMMA CutKeeps ==
    ASSUME IInv, Base', NEW left, Range(table) \subseteq left, Cut(left),
           \/ UNCHANGED <<queue, ids>>
           \/ queue' = <<>> /\ ids' = {}
    PROVE  IInv'
<1>1. /\ phase' = "down" /\ work' = [t \in Workers |-> Idle] /\ recheck' = Rested
      /\ lost' = lost \cup ((InHand("sync") \cup InHand("retry")) \ Range(table))
      /\ excused' = excused \cup {e \in left : sent[e] > 0}
      /\ UNCHANGED <<arrived, table, faults, sent>>
  BY DEF Cut
<1>2. Base
  BY DEF IInv
<1>3. recheck'.snap = <<>> /\ recheck'.still = <<>>
  BY <1>1, NothingIs
<1>4. \A t \in Workers : /\ work'[t].at = "idle" /\ work'[t].todo = <<>> /\ work'[t].failed = <<>>
                         /\ work'[t].items = <<>>
  BY <1>1, IdleIs
<1>5. PlainInv'
  <2>1. \A s : Before(s)'
    BY <1>1 DEF Before
  <2>2. \A t \in Workers : /\ work'[t].todo \in Seq(Done(faults', excused'))
                           /\ work'[t].failed \in Seq(Done(faults', excused'))
    BY <1>4, EmptyIs
  <2>3. /\ recheck'.still \in Seq(Done(faults', excused'))
        /\ \A entry \in Range(recheck'.snap) : entry.events \in Seq(Done(faults', excused'))
    BY <1>3, EmptyIs
  <2>4. QED
    BY <1>1, <2>1, <2>2, <2>3 DEF PlainInv
<1>6. BackInv'
  <2> SUFFICES ASSUME NEW e \in arrived, sent[e] = 0 PROVE e \in Range(table) \cup lost'
    BY <1>1 DEF BackInv
  <2>1. \/ e \in Range(table) \/ e \in lost \/ AskedFor(work["sync"], e)
        \/ \E t \in Workers : e \in Range(work[t].items)
    BY DEF IInv, BackInv
  <2>2. AskedFor(work["sync"], e) => e \in InHand("sync")
    BY <1>2, TwoWorkers, JobsAre
  <2>3. \A t \in Workers : Range(work[t].items) \subseteq InHand(t)
    BY DEF InHand
  <2>4. QED
    BY <1>1, <2>1, <2>2, <2>3, TwoWorkers
<1>7. AskedInv' /\ SyncRows'
  BY <1>4, TwoWorkers, AskedEnds DEF SyncRows, Asking
<1>8. Queued' \subseteq Queued /\ \A s : Held(queue', s) \in {Held(queue, s), <<>>}
  <2>1. CASE queue' = queue
    BY <2>1 DEF Queued
  <2>2. CASE queue' = <<>>
    BY <2>2, NothingIs DEF Queued
  <2>3. QED
    BY <2>1, <2>2
<1>9. IdsInv'
  <2> SUFFICES ASSUME faults = 0
               PROVE  /\ ids' = Queued' /\ \A s \in Sessions : \A e : Single(Of(e), Held(queue', s))
                      /\ \A t \in Workers : /\ \A e : Single(Of(e), work'[t].todo) /\ Single(Of(e), work'[t].failed)
                                            /\ Evs(work'[t].todo) \cap Evs(work'[t].failed) = {}
    BY <1>1 DEF IdsInv
  <2>1. ids = Queued /\ \A s \in Sessions : \A e : Single(Of(e), Held(queue, s))
    BY DEF IInv, IdsInv
  <2>2. ids' = Queued'
    BY <2>1 DEF Queued
  <2>3. \A s \in Sessions : \A e : Single(Of(e), Held(queue', s))
    BY <1>8, <2>1, EmptyIs
  <2>4. (\A t \in Workers : \A e : Single(Of(e), work'[t].todo) /\ Single(Of(e), work'[t].failed))
        /\ \A t \in Workers : Evs(work'[t].todo) \cap Evs(work'[t].failed) = {}
    BY <1>4, EmptyIs
  <2>5. QED
    BY <2>2, <2>3, <2>4
<1>10. OnceInv'
  <2>1. ASSUME NEW x \in Events \ excused' PROVE OnceOf(x)'
    <3>1. OnceOf(x) /\ sent[x] <= 1 /\ (x \in Range(table) => ~(sent[x] > 0))
      BY <1>1, <2>1 DEF IInv, OnceInv, OnceOf
    <3>2. \A t \in Workers : ~Holds(t, work'[t], x) /\ x \notin Range(work'[t].items)
      BY <1>4, EmptyIs, EmptyHolds DEF Holds, AskedFor, Asking
    <3>3. /\ Single(Of(x), Held(queue', Session(x))) /\ ~InStill(recheck', x)
          /\ x \in Queued' => sent[x] = 0
      BY <1>3, <1>8, <3>1, EmptyIs DEF InStill, OnceOf
    <3>4. QED
      BY <1>1, <3>1, <3>2, <3>3 DEF OnceOf
  <2>2. QED
    BY <2>1 DEF OnceInv
<1>11. CoverInv'
  BY <1>1 DEF CoverInv
<1>12. QED
  BY <1>5, <1>6, <1>7, <1>9, <1>10, <1>11 DEF IInv

LEMMA StopKeeps == ASSUME IInv, Stop PROVE IInv'
<1>1. PICK left : left = Range(table) \cup Queued
  OBVIOUS
<1>2. Range(table) \subseteq left /\ Cut(left) /\ UNCHANGED <<queue, ids>>
  BY <1>1 DEF Stop
<1>3. QED
  BY <1>2, StopBase, CutKeeps DEF IInv

LEMMA CrashKeeps == ASSUME IInv, Crash PROVE IInv'
<1>1. PICK left : left = Range(table)
  OBVIOUS
<1>2. Cut(left) /\ queue' = <<>> /\ ids' = {}
  BY <1>1 DEF Crash
<1>3. QED
  BY <1>1, <1>2, CrashBase, CutKeeps DEF IInv

-----------------------------------------------------------------------------
(* The invariant, and the properties that it implies.                      *)

\* The invariant holds before the first start.
LEMMA StartsSound == ASSUME Init PROVE IInv
<1>1. /\ phase = "down" /\ arrived = {} /\ keys = {} /\ backup = {} /\ seen = {}
      /\ queue = <<>> /\ ids = {} /\ table = <<>>
      /\ work = [t \in Workers |-> Idle] /\ recheck = Rested
      /\ faults = 0 /\ ends = 0
      /\ sent = [e \in Events |-> 0] /\ lost = {} /\ excused = {} /\ stranded = {}
  BY DEF Init
<1>2. \A t \in Workers : work[t] = Idle
  BY <1>1
<1>3. (\A s : Held(queue, s) = <<>>) /\ recheck.snap = <<>> /\ recheck.still = <<>> /\ Queued = {}
  BY <1>1, NothingIs DEF Queued
<1>4. \A t \in Workers : /\ work[t].at = "idle" /\ work[t].todo = <<>> /\ work[t].failed = <<>>
                         /\ work[t].items = <<>> /\ work[t].handled = {} /\ work[t].next = "idle"
  BY <1>2, IdleIs
<1>5. PastInv
  <2>1. 0 \in 0..MaxFaults /\ 0 \in 0..MaxEnds /\ 0 \in 0..2
    BY Given
  <2>2. \A e \in Events : sent[e] = 0
    BY <1>1
  <2>3. sent \in [Events -> 0..2]
    BY <1>1, <2>1
  <2>4. QED
    BY <1>1, <2>1, <2>2, <2>3 DEF PastInv
<1>6. QueueInv
  BY <1>1, <1>3, NothingIs DEF QueueInv
<1>7. TableInv
  <2>1. table \in Seq(Events) /\ Len(table) = 0 /\ Range(table) = {} /\ \A e : Single({e}, table)
    BY <1>1, EmptyIs
  <2>2. Len(table) <= MaxFailed
    BY <2>1, Given
  <2>3. QED
    BY <2>1, <2>2 DEF TableInv, TableOK
<1>8. JobsInv
  <2>1. work \in [Workers -> Job]
    BY <1>1, NothingIs
  <2>2. ASSUME NEW t \in Workers PROVE JobOK(t)
    <3>1. /\ work[t].todo \in Seq(Good(work[t].session, arrived, keys))
          /\ work[t].failed \in Seq(Good(work[t].session, arrived, keys))
      BY <1>4, NothingIs
    <3>2. Range(work[t].items) = {}
      BY <1>4, EmptyIs
    <3>3. "idle" \in Places(t) /\ "idle" \notin Asking
      BY DEF Places, Asking
    <3>4. QED
      BY <1>4, <3>1, <3>2, <3>3 DEF JobOK
  <2>3. QED
    BY <2>1, <2>2 DEF JobsInv
<1>9. RecheckInv
  <2>1. Range(recheck.snap) = {}
    BY <1>3, EmptyIs
  <2>2. QED
    BY <1>1, <1>3, <2>1, NothingIs DEF RecheckInv
<1>10. PhaseInv
  BY <1>1, <1>3, <1>4, TwoWorkers DEF PhaseInv
<1>11. PlainInv
  <2>1. Range(recheck.snap) = {}
    BY <1>3, EmptyIs
  <2>2. \A s \in Sessions : Held(queue, s) \in Seq(Done(faults, excused))
    BY <1>3, EmptyIs
  <2>3. \A t \in Workers : /\ work[t].todo \in Seq(Done(faults, excused))
                           /\ work[t].failed \in Seq(Done(faults, excused))
    BY <1>4, EmptyIs
  <2>4. recheck.still \in Seq(Done(faults, excused))
    BY <1>3, EmptyIs
  <2>5. QED
    BY <1>1, <2>1, <2>2, <2>3, <2>4 DEF PlainInv
<1>12. BackInv /\ CoverInv
  BY <1>1 DEF BackInv, CoverInv
<1>13. AskedInv /\ SyncRows
  BY <1>4, TwoWorkers DEF AskedInv, AskedFor, Asking, SyncRows
<1>14. IdsInv
  <2>1. (\A t \in Workers : \A e : Single(Of(e), work[t].todo) /\ Single(Of(e), work[t].failed))
        /\ \A t \in Workers : Evs(work[t].todo) \cap Evs(work[t].failed) = {}
    BY <1>4, EmptyIs
  <2>2. \A s \in Sessions : \A e : Single(Of(e), Held(queue, s))
    BY <1>3, EmptyIs
  <2>3. QED
    BY <1>1, <1>3, <2>1, <2>2 DEF IdsInv
<1>15. OnceInv
  <2>1. ASSUME NEW x \in Events PROVE OnceOf(x)
    <3>1. sent[x] = 0
      BY <1>1
    <3>2. \A t \in Workers : ~Holds(t, work[t], x) /\ x \notin Range(work[t].items)
      BY <1>4, EmptyIs, EmptyHolds DEF Holds, AskedFor, Asking
    <3>3. Single(Of(x), Held(queue, Session(x))) /\ x \notin Queued /\ ~InStill(recheck, x)
      BY <1>3, EmptyIs DEF InStill
    <3>4. QED
      BY <3>1, <3>2, <3>3 DEF OnceOf
  <2>2. QED
    BY <2>1 DEF OnceInv
<1>16. QED
  BY <1>5, <1>6, <1>7, <1>8, <1>9, <1>10, <1>11, <1>12, <1>13, <1>14, <1>15 DEF IInv, Base

\* Every step keeps the invariant, action by action.
LEMMA NextKeeps == ASSUME IInv, [Next]_vars PROVE IInv'
<1>1. ASSUME NEW e \in Events, Arrive(e) PROVE IInv'
  BY <1>1, ArriveKeeps
<1>2. ASSUME NEW s \in Sessions, KeyArrives(s) \/ BackUp(s) PROVE IInv'
  BY <1>2, KeyArrivesKeeps, BackUpKeeps
<1>3. ASSUME SyncLoop PROVE IInv'
  BY <1>3, AskKeeps, GivenKeeps, EnqueueKeeps, TryKeeps, RequeueKeeps, PopRowsKeeps, TryRowKeeps,
     RowsDoneKeeps, TwoWorkers DEF SyncLoop
<1>4. ASSUME RetryTask PROVE IInv'
  BY <1>4, PopNextKeeps, TryKeeps, RequeueKeeps, PopRowsKeeps, TryRowKeeps, RowsDoneKeeps,
     EnsureKeeps, EnsureDoneKeeps, TwoWorkers DEF RetryTask
<1>5. ASSUME RecheckTask PROVE IInv'
  BY <1>5, RecheckKeeps, RecheckEventKeeps, RecheckWritesKeeps DEF RecheckTask
<1>6. ASSUME Start \/ Synced \/ PeriodicRestore \/ Stop \/ Crash PROVE IInv'
  BY <1>6, StartKeeps, SyncedKeeps, PeriodicRestoreKeeps, StopKeeps, CrashKeeps
<1>7. ASSUME UNCHANGED vars PROVE IInv'
  BY <1>7, StutterKeeps
<1>8. QED
  BY <1>1, <1>2, <1>3, <1>4, <1>5, <1>6, <1>7 DEF Next

\* The invariant holds in every state of every behaviour.
LEMMA InductiveInvariant == Spec => []IInv
<1>1. Init => IInv
  BY StartsSound
<1>2. IInv /\ [Next]_vars => IInv'
  BY NextKeeps
<1>3. QED
  BY <1>1, <1>2, PTL DEF Spec

\* A list of items no two of which are of one event has as many events as items.
LEMMA EventsCounted ==
    ASSUME NEW items \in Seq(Item), \A e : Single(Of(e), items)
    PROVE  Cardinality(Evs(items)) = Len(items)
<1>1. Len(items) \in Nat /\ DOMAIN items = 1..Len(items) /\ \A i \in 1..Len(items) : items[i] \in Item
  OBVIOUS
<1> DEFINE S == 1..Len(items)
           f == [i \in S |-> items[i].ev]
<1>2. f \in Bijection(S, Evs(items))
  <2>1. f \in [S -> Evs(items)] /\ \A y \in Evs(items) : \E i \in S : f[i] = y
    BY <1>1 DEF Evs
  <2>2. ASSUME NEW i \in S, NEW j \in S, f[i] = f[j] PROVE i = j
    <3>1. items[i] \in Of(items[i].ev) /\ items[j] \in Of(items[i].ev)
      BY <1>1, <2>2 DEF Of
    <3>2. QED
      BY <1>1, <3>1 DEF Single
  <2>3. QED
    BY <2>1, <2>2 DEF Bijection, Injection, Surjection, IsInjective
<1>3. ExistsBijection(S, Evs(items))
  BY <1>2 DEF ExistsBijection
<1>4. IsFiniteSet(S) /\ Cardinality(S) = Len(items)
  <2>1. 1 \in Int /\ Len(items) \in Int
    BY <1>1
  <2>2. IsFiniteSet(1..Len(items)) /\ Cardinality(1..Len(items)) = IF 1 > Len(items) THEN 0 ELSE Len(items) - 1 + 1
    BY <2>1, FS_Interval
  <2>3. QED
    BY <1>1, <2>2
<1>5. QED
  BY <1>3, <1>4, FS_Bijection

\* The entries of the queue, one by one.
LEMMA EntriesAre ==
    ASSUME QueueInv
    PROVE  /\ \A i \in DOMAIN queue : /\ queue[i].session \in Sessions
                                      /\ queue[i].events \in Seq(Item) \ {<<>>}
                                      /\ queue[i].events = Held(queue, queue[i].session)
                                      /\ \A e \in Evs(queue[i].events) : Session(e) = queue[i].session
           /\ IsInjective([i \in DOMAIN queue |-> queue[i].session])
<1>1. /\ queue \in Seq(Entry) /\ QueueOK(queue)
      /\ \A s : Single({en \in Entry : en.session = s}, queue)
  BY DEF QueueInv, QueueOK
<1>2. \A i \in DOMAIN queue : queue[i] \in Entry
  BY <1>1
<1>3. \A i \in DOMAIN queue : /\ queue[i].session \in Sessions /\ queue[i].events \in Seq(Item) \ {<<>>}
                              /\ queue[i].events = Held(queue, queue[i].session)
  BY <1>1, <1>2, HeldIs DEF Entry
<1>4. \A i \in DOMAIN queue : \A e \in Evs(queue[i].events) : Session(e) = queue[i].session
  BY <1>3, QueueIs
<1>5. ASSUME NEW i \in DOMAIN queue, NEW j \in DOMAIN queue, queue[i].session = queue[j].session PROVE i = j
  BY <1>1, <1>2, <1>5 DEF Single
<1>6. IsInjective([i \in DOMAIN queue |-> queue[i].session])
  BY <1>5 DEF IsInjective
<1>7. QED
  BY <1>3, <1>4, <1>6

\* Queue, table and marks are well formed: no session has two entries and no event two rows,
\* the table keeps its limit, and tasks only have in hand what has arrived
\* (matrix_base.py:925-950, state.py's table of failures).
THEOREM TypeCorrect == Spec => []TypeOK
<1>1. IInv => TypeOK
  <2> SUFFICES ASSUME IInv PROVE TypeOK
    OBVIOUS
  <2>1. Base /\ PastInv /\ QueueInv
    BY DEF IInv, Base
  <2>2. IsInjective(table) /\ Len(table) <= MaxFailed
    <3>1. TableOK(table)
      BY <2>1, BaseIs
    <3>2. \A i, j \in DOMAIN table : table[i] = table[j] => i = j
      BY <3>1 DEF TableOK, Single
    <3>3. QED
      BY <3>1, <3>2 DEF TableOK, IsInjective
  <2>3. \A t \in Workers : InHand(t) \subseteq arrived
    BY <2>1, JobsAre
  <2>4. QED
    BY <2>1, <2>2, <2>3, BaseIs, EntriesAre DEF TypeOK, PastInv
<1>2. QED
  BY <1>1, InductiveInvariant, PTL

\* An event that was not handed on is in the queue, in the table or with a task, unless a limit,
\* a refused request or the end of a session dropped it, however the sync loop, the pass and
\* the recheck interleave (matrix_source.py:262-330, 597-652, matrix_base.py:758-835, 925-950).
THEOREM NothingForgotten == Spec => []Kept
<1>1. IInv => Kept
  <2> SUFFICES ASSUME IInv, NEW e \in arrived, sent[e] = 0 PROVE e \in Holders \cup lost
    BY DEF Kept
  <2>1. \/ e \in Range(table) \/ e \in lost \/ AskedFor(work["sync"], e)
        \/ \E t \in Workers : e \in Range(work[t].items)
    BY DEF IInv, BackInv
  <2>2. AskedFor(work["sync"], e) => e \in InHand("sync")
    BY TwoWorkers, JobsAre DEF IInv
  <2>3. \A t \in Workers : Range(work[t].items) \subseteq InHand(t)
    BY DEF InHand
  <2>4. QED
    BY <2>1, <2>2, <2>3, TwoWorkers DEF Holders
<1>2. QED
  BY <1>1, InductiveInvariant, PTL

\* While nothing raises, _pending_event_ids are the events of _pending_encrypted, and none is
\* there twice (matrix_base.py:931-950).
THEOREM IdsAgreeWithQueue == Spec => []IdsAgree
<1>1. IInv => IdsAgree
  <2> SUFFICES ASSUME IInv, faults = 0
               PROVE  /\ ids = Queued
                      /\ \A i \in DOMAIN queue : Cardinality(Evs(queue[i].events)) = Len(queue[i].events)
    BY DEF IdsAgree
  <2>1. ids = Queued /\ \A s \in Sessions : \A e : Single(Of(e), Held(queue, s))
    BY DEF IInv, IdsInv
  <2>2. ASSUME NEW i \in DOMAIN queue PROVE Cardinality(Evs(queue[i].events)) = Len(queue[i].events)
    <3>1. /\ queue[i].session \in Sessions /\ queue[i].events \in Seq(Item)
          /\ queue[i].events = Held(queue, queue[i].session)
      BY EntriesAre DEF IInv, Base
    <3>2. \A e : Single(Of(e), queue[i].events)
      BY <2>1, <3>1
    <3>3. QED
      BY <3>1, <3>2, EventsCounted
  <2>3. QED
    BY <2>1, <2>2
<1>2. QED
  BY <1>1, InductiveInvariant, PTL

\* An event is handed on decrypted once, but for those whose dispatch raised, that two tasks
\* had in hand at once or the queue held twice, or whose row was still there when the session,
\* the process or the pass ended
\* (docs/ARCHITECTURE.md:1030).
THEOREM HandedOnOnce == Spec => []DispatchedOnce
<1>1. IInv => DispatchedOnce
  BY DEF IInv, OnceInv, OnceOf, DispatchedOnce
<1>2. QED
  BY <1>1, InductiveInvariant, PTL

\* With all tasks at rest and nothing new in the backup, no event waits whose key is there,
\* but for those that raised, were dropped or were left behind by a race, over any number of
\* logouts and restarts (docs/USERGUIDE.md:476, matrix_source.py:262-330, 508, 597-652).
THEOREM KeyIsEnough == Spec => []KeyBringsDispatch
<1>1. IInv => KeyBringsDispatch
  <2> SUFFICES ASSUME IInv PROVE KeyBringsDispatch
    OBVIOUS
  <2>0. \A x \in arrived : sent[x] > 0 \/ sent[x] = 0
    <3>1. \A x \in arrived : sent[x] \in 0..2
      BY BaseIs DEF IInv
    <3>2. QED
      BY <3>1
  <2> SUFFICES ASSUME phase = "up", \A t \in Workers : work[t].at = "idle", backup = seen,
                      NEW e \in arrived, Session(e) \in keys, sent[e] = 0,
                      e \notin lost \cup excused \cup stranded
               PROVE  FALSE
    BY <2>0 DEF KeyBringsDispatch
  <2>1. Base /\ PhaseInv
    BY DEF IInv, Base
  <2>2. /\ \A t \in Workers : Range(work[t].items) = {}
        /\ ~AskedFor(work["sync"], e)
    <3>1. \A t \in Workers : Range(work[t].items) = {}
      BY <2>1, JobsAre
    <3>2. QED
      BY <3>1, TwoWorkers DEF AskedFor, Asking
  <2>3. e \in Range(table)
    BY <2>2 DEF IInv, BackInv
  <2>4. Covered(Session(e))
    BY <2>3 DEF IInv, CoverInv
  <2>5. work["retry"].at = "idle" /\ work["sync"].at = "idle" /\ work["retry"].next = "idle"
    BY <2>1, TwoWorkers DEF PhaseInv
  <2>6. QED
    BY <2>4, <2>5 DEF Covered
<1>2. QED
  BY <1>1, InductiveInvariant, PTL

=============================================================================

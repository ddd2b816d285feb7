----------------------- MODULE NimBLEAdvPayload_proofs -----------------------
(***************************************************************************)
(* Proofs about the payloads that are advertised, legacy and extended, as  *)
(* they are built and as a scanner reads them: for every limit up to 255   *)
(* bytes and for all UUIDs and texts.                                      *)
(***************************************************************************)
EXTENDS NimBLEExtAdvertisement, NimBLEAdvertisedDevice,
        FiniteSetTheorems, FunctionTheorems, SequenceTheorems, WellFoundedInduction, TLAPS

-----------------------------------------------------------------------------
(* NimBLEAdvFields: what every payload is *)

\* The least and the greatest of a set of positions.
LEMMA FirstPosition ==
  ASSUME NEW S, S \subseteq Nat, S # {}
  PROVE  \E x \in S : \A y \in S : x <= y
<1> DEFINE R == {p \in Nat \X Nat : p[1] < p[2]}
<1>1. R = OpToRel(<, Nat)
  BY DEF OpToRel
<1>2. IsWellFoundedOn(R, Nat)
  BY <1>1, NatLessThanWellFounded
<1>3. \E x \in S : \A y \in S : ~(<<y, x>> \in R)
  <2> HIDE DEF R
  <2> QED  BY <1>2, WFMin
<1>4. \A x, y \in Nat : ~(<<y, x>> \in R) => x <= y
  BY SMT
<1> HIDE DEF R
<1> QED  BY <1>3, <1>4

LEMMA LastPosition ==
  ASSUME NEW N \in Nat, NEW S, S \subseteq 1 .. N, S # {}
  PROVE  \E x \in S : \A y \in S : y <= x
<1> DEFINE M == {N - x : x \in S}
<1>1. M \subseteq Nat /\ M # {}
  <2>1. PICK s : s \in S
    OBVIOUS
  <2>2. N - s \in M
    BY <2>1
  <2> QED  BY <2>2
<1>2. PICK m \in M : \A k \in M : m <= k
  <2> HIDE DEF M
  <2> QED  BY <1>1, FirstPosition
<1>3. PICK x \in S : m = N - x
  OBVIOUS
<1>4. \A y \in S : N - x <= N - y
  BY <1>2, <1>3
<1> QED  BY <1>3, <1>4

\* A walk over X, upwards and no further than N: there is a function that is what it finds
\* from each x on.
Upwards(N, X, rank, stop, next) ==
  \A x \in X : rank[x] \in Nat /\ (~stop[x] => next[x] \in X /\ rank[x] <= N /\ rank[next[x]] > rank[x])
FoundFrom(found, X, stop, val, next) ==
  found = [x \in X |-> IF stop[x] THEN val[x] ELSE found[next[x]]]

LEMMA WalkExists ==
  ASSUME NEW N \in Nat, NEW X, NEW rank, NEW stop, NEW val, NEW next, Upwards(N, X, rank, stop, next)
  PROVE  \E f : FoundFrom(f, X, stop, val, next)
<1> USE DEF Upwards, FoundFrom
<1> DEFINE D(m) == {x \in X : rank[x] + m > N}
           Good(m) == \E f : f = [x \in D(m) |-> IF stop[x] THEN val[x] ELSE f[next[x]]]
           Bad == {m \in Nat : ~Good(m)}
<1>1. Good(0)
  <2>1. \A x \in D(0) : stop[x]
    OBVIOUS
  <2>2. [x \in D(0) |-> val[x]] =
          [x \in D(0) |-> IF stop[x] THEN val[x] ELSE [y \in D(0) |-> val[y]][next[x]]]
    BY <2>1
  <2> QED  BY <2>2
<1>2. ASSUME NEW m \in Nat, Good(m)
      PROVE  Good(m + 1)
  <2>1. PICK f : f = [x \in D(m) |-> IF stop[x] THEN val[x] ELSE f[next[x]]]
    BY <1>2
  <2> DEFINE g == [x \in D(m + 1) |-> IF stop[x] THEN val[x] ELSE f[next[x]]]
  <2>2. \A x \in D(m + 1) : ~stop[x] => next[x] \in D(m) /\ next[x] \in D(m + 1)
    OBVIOUS
  <2>3. \A x \in D(m) : x \in D(m + 1)
    OBVIOUS
  <2> HIDE DEF D
  <2>4. \A x \in D(m) : g[x] = f[x]
    <3> TAKE x \in D(m)
    <3>1. f[x] = IF stop[x] THEN val[x] ELSE f[next[x]]
      BY <2>1
    <3> QED  BY <2>3, <3>1
  <2>5. \A x \in D(m + 1) : g[x] = IF stop[x] THEN val[x] ELSE g[next[x]]
    <3> TAKE x \in D(m + 1)
    <3>1. ~stop[x] => g[next[x]] = f[next[x]]
      BY <2>2, <2>4
    <3> QED  BY <3>1
  <2>6. g = [x \in D(m + 1) |-> IF stop[x] THEN val[x] ELSE g[next[x]]]
    <3>1. g = [x \in D(m + 1) |-> g[x]]
      OBVIOUS
    <3> HIDE DEF g
    <3> QED  BY <2>5, <3>1
  <2> QED  BY <2>6
<1>3. Bad = {}
  <2> SUFFICES ASSUME Bad # {} PROVE FALSE
    OBVIOUS
  <2>1. PICK m \in Bad : \A k \in Bad : m <= k
    <3>1. Bad \subseteq Nat
      OBVIOUS
    <3> HIDE DEF Bad
    <3> QED  BY <3>1, FirstPosition
  <2> HIDE DEF Good
  <2>2. m \in Nat /\ m # 0 /\ ~Good(m)
    BY <1>1
  <2>3. Good(m - 1)
    BY <2>1, <2>2
  <2>4. m - 1 \in Nat /\ (m - 1) + 1 = m
    BY <2>2
  <2> QED  BY <1>2, <2>2, <2>3, <2>4
<1>4. D(N + 1) = X
  OBVIOUS
<1>5. Good(N + 1)
  <2> HIDE DEF Good
  <2> QED  BY <1>3
<1> QED  BY <1>4, <1>5

Itself == [i \in Nat \ {0} |-> i]

\* And what it finds, it finds in a set that no step leaves.
LEMMA WalkStays ==
  ASSUME NEW N \in Nat, NEW X, NEW rank, NEW stop, NEW val, NEW next, Upwards(N, X, rank, stop, next),
         NEW f, FoundFrom(f, X, stop, val, next),
         NEW I, I \subseteq X, \A x \in I : ~stop[x] => next[x] \in I
  PROVE  \A x \in I : \E y \in I : stop[y] /\ f[x] = val[y]
<1> DEFINE Right(x) == \E y \in I : stop[y] /\ f[x] = val[y]
           Wrong == {x \in I : ~Right(x)}
           M == {N - rank[x] : x \in Wrong}
<1>1. \A x \in X : f[x] = IF stop[x] THEN val[x] ELSE f[next[x]]
  BY DEF FoundFrom
<1>2. \A x \in Wrong : /\ x \in X /\ ~stop[x] /\ next[x] \in I /\ rank[x] \in Nat /\ rank[x] <= N
                       /\ rank[next[x]] > rank[x] /\ rank[next[x]] \in Nat /\ next[x] \in Wrong
  <2> TAKE x \in Wrong
  <2>1. x \in X /\ ~stop[x] /\ next[x] \in I
    BY <1>1
  <2>2. f[x] = f[next[x]]
    BY <1>1, <2>1
  <2>3. next[x] \in Wrong
    BY <2>1, <2>2
  <2> HIDE DEF Wrong
  <2> QED  BY <2>1, <2>3 DEF Upwards
<1> SUFFICES ASSUME Wrong # {} PROVE FALSE
  OBVIOUS
<1> HIDE DEF Wrong
<1>3. PICK m \in M : \A k \in M : m <= k
  <2>1. M \subseteq Nat /\ M # {}
    <3>1. \A x \in Wrong : N - rank[x] \in Nat
      BY <1>2
    <3> QED  BY <3>1
  <2> HIDE DEF M
  <2> QED  BY <2>1, FirstPosition
<1>4. PICK x \in Wrong : m = N - rank[x]
  OBVIOUS
<1> DEFINE r == rank[x]
           h == rank[next[x]]
<1>5. r \in Nat /\ h \in Nat /\ h > r /\ N - h \in M /\ m = N - r
  BY <1>2, <1>4
<1>6. N - r <= N - h
  BY <1>3, <1>5
<1> HIDE DEF r, h
<1> QED  BY <1>5, <1>6

\* The marks S of a payload: where its fields start, and its end.  A list of services
\* holds whole UUIDs, data of a service begins with its UUID, and flags are one byte.
ListsOf(bytes) == {COMP_UUIDS(bytes), INCOMP_UUIDS(bytes)}
Sized(length, type) ==
  /\ \A bytes \in {2, 4, 16} : type \in ListsOf(bytes) => (length - 1) % bytes = 0
  /\ \A bytes \in {2, 4, 16} : type = SVC_DATA(bytes) => length > bytes
  /\ type = FLAGS => length = 2
Chain(p, S) ==
  /\ S \subseteq 1 .. Len(p) + 1 /\ 1 \in S /\ Len(p) + 1 \in S
  /\ \A i \in S : i <= Len(p) =>
       i < Len(p) /\ p[i] > 0 /\ i + p[i] + 1 \in S /\ Sized(p[i], p[i + 1])
  /\ \A i, j \in S : i < j => i + p[i] < j

LEMMA OctetAt ==
  ASSUME NEW p \in Seq(Octet), NEW i \in 1 .. Len(p)
  PROVE  Len(p) \in Nat /\ p[i] \in 0 .. 255
<1> QED  BY ElementOfSeq, LenProperties DEF Octet

\* From one mark to the next.
LEMMA ChainStep ==
  ASSUME NEW p \in Seq(Octet), NEW S, Chain(p, S), NEW i \in S, i <= Len(p)
  PROVE  /\ Len(p) \in Nat /\ i \in Nat \ {0} /\ i < Len(p) /\ p[i] \in 1 .. 255
         /\ i + p[i] + 1 \in S /\ i + p[i] + 1 \in Nat /\ i + p[i] + 1 > i
         /\ i + p[i] + 1 <= Len(p) + 1
<1> DEFINE N == Len(p)
           e == p[i]
<1>1. N \in Nat
  BY LenProperties
<1>2. S \subseteq 1 .. N + 1 /\ i <= N /\ i < N /\ e > 0 /\ i + e + 1 \in S
  BY DEF Chain
<1>3. i \in 1 .. N
  <2> HIDE DEF N, e
  <2> QED  BY <1>1, <1>2
<1>4. e \in 0 .. 255
  BY <1>3, OctetAt
<1> HIDE DEF N, e
<1>5. /\ N \in Nat /\ i \in Nat \ {0} /\ i < N /\ e \in 1 .. 255
      /\ i + e + 1 \in S /\ i + e + 1 \in Nat /\ i + e + 1 > i
      /\ i + e + 1 <= N + 1
  BY <1>1, <1>2, <1>3, <1>4
<1> QED  BY <1>5 DEF N, e

\* Walking along the marks finds a field of the type, or nothing.
LEMMA FieldLocated ==
  ASSUME NEW p \in Seq(Octet), NEW S, Chain(p, S), NEW type, NEW loc, loc = getDataLocation(p, type)
  PROVE  loc = 0 \/ (loc \in S /\ loc < Len(p) /\ p[loc + 1] = type)
<1> DEFINE N == Len(p)
           at == CHOOSE f : f = [i \in Nat \ {0} |->
                   IF i > Len(p) THEN 0 ELSE IF p[i + 1] = type THEN i ELSE f[i + p[i] + 1]]
           stop == [i \in Nat \ {0} |-> i > N \/ p[i + 1] = type]
           val == [i \in Nat \ {0} |-> IF i > N THEN 0 ELSE i]
           next == [i \in Nat \ {0} |-> IF i > N THEN 1 ELSE i + p[i] + 1]
<1>1. loc = at[1]
  BY DEF getDataLocation
<1>2. N \in Nat /\ \A i \in 1 .. N : p[i] \in 0 .. 255
  BY OctetAt, LenProperties
<1>3. Upwards(N, Nat \ {0}, Itself, stop, next)
  <2> SUFFICES \A i \in Nat \ {0} : next[i] \in Nat \ {0} /\ (~stop[i] => i <= N /\ next[i] > i)
    BY DEF Upwards, Itself
  <2> TAKE i \in Nat \ {0}
  <2>1. i <= N => p[i] \in 0 .. 255
    BY <1>2
  <2>2. next[i] = (IF i > N THEN 1 ELSE i + p[i] + 1) /\ (~stop[i] => ~(i > N))
    OBVIOUS
  <2> HIDE DEF N, stop, next
  <2>3. CASE i > N
    BY <1>2, <2>2, <2>3
  <2>4. CASE ~(i > N)
    <3> DEFINE e == p[i]
    <3>1. e \in 0 .. 255 /\ N \in Nat /\ i \in Nat \ {0} /\ i <= N
      BY <1>2, <2>1, <2>4
    <3>2. i + e + 1 \in Nat \ {0} /\ i + e + 1 > i
      <4> HIDE DEF e
      <4> QED  BY <3>1
    <3> QED  BY <2>2, <2>4, <3>1, <3>2
  <2> QED  BY <2>3, <2>4
<1>4. PICK f : FoundFrom(f, Nat \ {0}, stop, val, next)
  <2> HIDE DEF N, stop, val, next
  <2> QED  BY <1>2, <1>3, WalkExists
<1>5. f = [i \in Nat \ {0} |->
             IF i > Len(p) THEN 0 ELSE IF p[i + 1] = type THEN i ELSE f[i + p[i] + 1]]
  <2>1. \A i \in Nat \ {0} :
          (IF stop[i] THEN val[i] ELSE f[next[i]])
             = IF i > Len(p) THEN 0 ELSE IF p[i + 1] = type THEN i ELSE f[i + p[i] + 1]
    OBVIOUS
  <2> HIDE DEF stop, val, next
  <2> QED  BY <1>4, <2>1 DEF FoundFrom
<1>6. at = [i \in Nat \ {0} |->
              IF i > Len(p) THEN 0 ELSE IF p[i + 1] = type THEN i ELSE at[i + p[i] + 1]]
  <2> HIDE DEF stop, val, next, N
  <2> QED  BY <1>5
<1> HIDE DEF at, stop, val, next
<1> DEFINE Right(i) == at[i] = 0 \/ (at[i] \in S /\ at[i] < N /\ p[at[i] + 1] = type)
           Wrong == {i \in S : ~Right(i)}
<1>7. S \subseteq 1 .. N + 1 /\ \A i \in S : i <= N => i + p[i] + 1 \in S
  BY DEF Chain
<1>8. ASSUME NEW i \in S, i <= N, Right(i + p[i] + 1)  PROVE Right(i)
  <2>1. at[i] = IF i > N THEN 0 ELSE IF p[i + 1] = type THEN i ELSE at[i + p[i] + 1]
    <3>1. i \in Nat \ {0}
      BY <1>2, <1>7
    <3> QED  BY <1>6, <3>1
  <2>2. i < N
    BY <1>8 DEF Chain
  <2> QED  BY <1>2, <1>7, <1>8, <2>1, <2>2
<1>9. Right(N + 1)
  BY <1>2, <1>6
<1>10. Wrong = {}
  <2> SUFFICES ASSUME Wrong # {} PROVE FALSE
    OBVIOUS
  <2>1. Wrong \subseteq 1 .. N + 1
    BY <1>7
  <2>2. PICK i \in Wrong : \A j \in Wrong : j <= i
    <3>1. N + 1 \in Nat
      BY <1>2
    <3> HIDE DEF Wrong, N
    <3> QED  BY <2>1, <3>1, LastPosition
  <2>3. i \in S /\ i <= N
    BY <1>2, <1>7, <1>9
  <2>4. /\ i + p[i] + 1 \in S /\ i + p[i] + 1 > i
        /\ i + p[i] + 1 \in Nat /\ i \in Nat
    BY <2>3, ChainStep
  <2> HIDE DEF Right, N
  <2>5. Right(i + p[i] + 1)
    <3> DEFINE k == i + p[i] + 1
    <3>1. k \in S /\ k > i /\ k \in Nat /\ i \in Nat
      BY <2>4
    <3> HIDE DEF k
    <3>2. ~(k <= i)
      BY <3>1
    <3>3. Right(k)
      BY <2>2, <3>1, <3>2, Zenon
    <3> QED  BY <3>3 DEF k
  <2> QED  BY <1>8, <2>3, <2>5
<1> QED  BY <1>1, <1>10 DEF Chain

\* And it comes to the end.
LEMMA ChainIsWhole ==
  ASSUME NEW p \in Seq(Octet), NEW S, Chain(p, S)
  PROVE  WholeFieldsIn(p)
<1> DEFINE N == Len(p)
           whole == CHOOSE f : f = [i \in Nat \ {0} |->
                      IF i < Len(p) /\ p[i] > 0 THEN f[i + p[i] + 1] ELSE i = Len(p) + 1]
           stop == [i \in Nat \ {0} |-> ~(i < N /\ p[i] > 0)]
           val == [i \in Nat \ {0} |-> i = N + 1]
           next == [i \in Nat \ {0} |-> IF i < N THEN i + p[i] + 1 ELSE 1]
<1>1. WholeFieldsIn(p) = whole[1]
  BY DEF WholeFieldsIn
<1>2. N \in Nat /\ \A i \in 1 .. N : p[i] \in 0 .. 255
  BY OctetAt, LenProperties
<1>3. Upwards(N, Nat \ {0}, Itself, stop, next)
  <2> SUFFICES \A i \in Nat \ {0} : next[i] \in Nat \ {0} /\ (~stop[i] => i <= N /\ next[i] > i)
    BY DEF Upwards, Itself
  <2> TAKE i \in Nat \ {0}
  <2>1. i <= N => p[i] \in 0 .. 255
    BY <1>2
  <2>2. next[i] = (IF i < N THEN i + p[i] + 1 ELSE 1) /\ (~stop[i] => i < N)
    OBVIOUS
  <2> HIDE DEF N, stop, next
  <2>3. CASE i > N
    BY <1>2, <2>2, <2>3
  <2>4. CASE ~(i > N)
    <3> DEFINE e == p[i]
    <3>1. e \in 0 .. 255 /\ N \in Nat /\ i \in Nat \ {0} /\ i <= N
      BY <1>2, <2>1, <2>4
    <3>2. i + e + 1 \in Nat \ {0} /\ i + e + 1 > i
      <4> HIDE DEF e
      <4> QED  BY <3>1
    <3> QED  BY <2>2, <2>4, <3>1, <3>2
  <2> QED  BY <2>3, <2>4
<1>4. PICK f : FoundFrom(f, Nat \ {0}, stop, val, next)
  <2> HIDE DEF N, stop, val, next
  <2> QED  BY <1>2, <1>3, WalkExists
<1>5. f = [i \in Nat \ {0} |-> IF i < Len(p) /\ p[i] > 0 THEN f[i + p[i] + 1] ELSE i = Len(p) + 1]
  <2>1. \A i \in Nat \ {0} :
          (IF stop[i] THEN val[i] ELSE f[next[i]])
             = IF i < Len(p) /\ p[i] > 0 THEN f[i + p[i] + 1] ELSE i = Len(p) + 1
    OBVIOUS
  <2> HIDE DEF stop, val, next
  <2> QED  BY <1>4, <2>1 DEF FoundFrom
<1>6. whole = [i \in Nat \ {0} |->
                 IF i < Len(p) /\ p[i] > 0 THEN whole[i + p[i] + 1] ELSE i = Len(p) + 1]
  <2> HIDE DEF stop, val, next, N
  <2> QED  BY <1>5
<1> HIDE DEF whole, stop, val, next
<1> DEFINE Wrong == {i \in S : ~whole[i]}
<1>7. S \subseteq 1 .. N + 1 /\ \A i \in S : i <= N => i + p[i] + 1 \in S
  BY DEF Chain
<1>8. ASSUME NEW i \in S, i <= N, whole[i + p[i] + 1]  PROVE whole[i]
  <2>1. whole[i] = IF i < Len(p) /\ p[i] > 0 THEN whole[i + p[i] + 1] ELSE i = Len(p) + 1
    BY <1>6, <1>7
  <2>2. i < N /\ p[i] > 0
    BY <1>8 DEF Chain
  <2> QED  BY <1>8, <2>1, <2>2
<1>9. whole[N + 1]
  <2>1. N + 1 \in Nat \ {0} /\ ~(N + 1 < N)
    BY <1>2
  <2>2. whole[N + 1] = (N + 1 = Len(p) + 1)
    BY <1>6, <2>1
  <2> QED  BY <2>2
<1>10. Wrong = {}
  <2> SUFFICES ASSUME Wrong # {} PROVE FALSE
    OBVIOUS
  <2>1. Wrong \subseteq 1 .. N + 1
    BY <1>7
  <2>2. PICK i \in Wrong : \A j \in Wrong : j <= i
    <3>1. N + 1 \in Nat
      BY <1>2
    <3> HIDE DEF Wrong, N
    <3> QED  BY <2>1, <3>1, LastPosition
  <2>3. i \in S /\ ~whole[i]
    OBVIOUS
  <2>4. i # N + 1
    BY <1>9, <2>3
  <2>5. i <= N
    BY <1>2, <1>7, <2>3, <2>4
  <2> DEFINE k == i + p[i] + 1
  <2>6. k \in S /\ k > i
    BY <2>3, <2>5, ChainStep
  <2>7. k \in Nat /\ i \in Nat
    BY <2>3, <2>5, ChainStep
  <2> HIDE DEF N
  <2>8. whole[k]
    <3> HIDE DEF k
    <3>1. k \in S /\ k > i
      BY <2>6 DEF k
    <3>2. ~(k <= i)
      BY <2>7, <3>1
    <3> QED  BY <2>2, <3>1, <3>2, Zenon
  <2> QED  BY <1>8, <2>3, <2>5, <2>8
<1>11. 1 \in S
  BY DEF Chain
<1> QED  BY <1>1, <1>10, <1>11

\* The fields a scanner sees are at the marks, but for one without a value at the end.
LEMMA FieldsAtMarks ==
  ASSUME NEW p \in Seq(Octet), NEW S, Chain(p, S)
  PROVE  FieldsOf(p) = {i \in S : Len(p) - i >= 2}
<1> DEFINE N == Len(p)
           X == [data : Nat \ {0}, fields : SUBSET Nat]
           Next1(x) == [data |-> x.data + p[x.data] + 1, fields |-> x.fields \cup {x.data}]
           IsWalk(f) == f = [x \in X |-> IF ~IsField(p, x.data) THEN x.fields ELSE f[Next1(x)]]
           walk == CHOOSE f : IsWalk(f)
           first == [data |-> 1, fields |-> {}]
           rank == [x \in X |-> x.data]
           stop == [x \in X |-> ~IsField(p, x.data)]
           val == [x \in X |-> x.fields]
           next == [x \in X |-> Next1(x)]
           Seen == {x \in X : /\ x.data \in S /\ x.fields = {i \in S : i < x.data}
                              /\ \A i \in x.fields : N - i >= 2}
<1>1. FieldsOf(p) = walk[first]
  BY DEF FieldsOf
<1>2. N \in Nat /\ S \subseteq 1 .. N + 1 /\ 1 \in S
  BY LenProperties DEF Chain
<1>3. ASSUME NEW i \in Nat \ {0}, IsField(p, i)
      PROVE  i <= N /\ p[i] \in Nat /\ i + p[i] + 1 \in Nat \ {0} /\ i + p[i] + 1 > i
  <2>1. i \in 1 .. Len(p)
    BY <1>2, <1>3 DEF IsField
  <2> DEFINE e == p[i]
  <2>2. e \in 0 .. 255
    BY <2>1, OctetAt
  <2> HIDE DEF e
  <2>3. e \in Nat /\ i + e + 1 \in Nat \ {0} /\ i + e + 1 > i
    BY <2>2
  <2> QED  BY <2>1, <2>3 DEF e
<1>4. \A x \in X : /\ x.data \in Nat \ {0} /\ x.fields \in SUBSET Nat /\ rank[x] = x.data
                   /\ stop[x] = ~IsField(p, x.data) /\ val[x] = x.fields /\ next[x] = Next1(x)
  OBVIOUS
<1>5. \A d \in Nat \ {0}, F \in SUBSET Nat :
        [data |-> d, fields |-> F] \in X /\ [data |-> d, fields |-> F].data = d
  OBVIOUS
<1>6. Upwards(N, X, rank, stop, next)
  <2> SUFFICES ASSUME NEW x \in X
               PROVE  rank[x] \in Nat /\ (~stop[x] => next[x] \in X /\ rank[x] <= N /\ rank[next[x]] > rank[x])
    BY DEF Upwards
  <2>1. x.fields \cup {x.data} \in SUBSET Nat
    BY <1>4
  <2>2. CASE IsField(p, x.data)
    <3>1. Next1(x) \in X /\ Next1(x).data = x.data + p[x.data] + 1
      BY <1>3, <1>4, <1>5, <2>1, <2>2
    <3>2. rank[Next1(x)] = Next1(x).data
      BY <1>4, <3>1
    <3> HIDE DEF X, rank, stop, next, Next1, N
    <3> QED  BY <1>3, <1>4, <2>2, <3>1, <3>2
  <2>3. CASE ~IsField(p, x.data)
    <3> HIDE DEF X, rank, stop, next, Next1, N
    <3> QED  BY <1>4, <2>3
  <2> QED  BY <2>2, <2>3
<1> HIDE DEF X, rank, stop, val, next, N, Next1
<1>7. \A f : FoundFrom(f, X, stop, val, next) <=> IsWalk(f)
  BY <1>4 DEF FoundFrom
<1>8. IsWalk(walk)
  <2>1. \E f : IsWalk(f)
    BY <1>2, <1>6, <1>7, WalkExists
  <2> HIDE DEF IsWalk
  <2> QED  BY <2>1
<1>9. ASSUME NEW x \in Seen, ~stop[x]  PROVE next[x] \in Seen
  <2> DEFINE i == x.data
             k == i + p[i] + 1
  <2>1. x \in X /\ i \in S /\ x.fields = {j \in S : j < i} /\ IsField(p, i) /\ next[x] \in X
    BY <1>4, <1>6, <1>9 DEF Upwards
  <2>2. i <= N /\ i \in Nat \ {0}
    BY <1>3, <1>4, <2>1
  <2>3. k \in S /\ k > i /\ k \in Nat
    BY <2>1, <2>2, ChainStep DEF N
  <2>4. \A j \in S : j < k <=> j < i \/ j = i
    <3> TAKE j \in S
    <3>1. i < j => i + p[i] < j
      BY <2>1 DEF Chain
    <3>2. p[i] \in Nat /\ j \in Nat
      BY <1>2, <1>3, <2>1, <2>2
    <3> HIDE DEF i
    <3> QED  BY <2>2, <2>3, <3>1, <3>2
  <2>5. next[x].data = k /\ next[x].fields = x.fields \cup {i}
    <3>1. next[x] = [data |-> k, fields |-> x.fields \cup {i}]
      <4>1. next[x] = Next1(x)
        BY <1>4, <2>1
      <4> QED  BY <4>1 DEF Next1
    <3> HIDE DEF k, i
    <3> QED  BY <3>1
  <2> HIDE DEF k, i
  <2>6. next[x].fields = {j \in S : j < k}
    BY <2>1, <2>4, <2>5
  <2>7. \A j \in next[x].fields : N - j >= 2
    BY <2>1, <2>5 DEF IsField, N
  <2> QED  BY <2>1, <2>3, <2>5, <2>6, <2>7
<1>10. first \in Seen
  <2>1. first \in X
    BY DEF X
  <2>2. {i \in S : i < 1} = {}
    <3>1. \A i \in 1 .. N + 1 : ~(i < 1)
      OBVIOUS
    <3> QED  BY <1>2, <3>1
  <2> QED  BY <1>2, <2>1, <2>2
<1>11. PICK y \in Seen : stop[y] /\ walk[first] = val[y]
  <2>1. Seen \subseteq X
    OBVIOUS
  <2> HIDE DEF Seen, first, IsWalk, walk
  <2>2. FoundFrom(walk, X, stop, val, next)
    BY <1>7, <1>8
  <2> QED  BY <1>2, <1>6, <1>9, <1>10, <2>1, <2>2, WalkStays
<1>12. /\ walk[first] = {i \in S : i < y.data} /\ y.data \in S /\ y.data \in Nat \ {0}
       /\ ~IsField(p, y.data) /\ \A i \in walk[first] : N - i >= 2
  BY <1>4, <1>11
<1> DEFINE d == y.data
<1>13. N - d < 2
  <2>1. CASE d > N
    BY <1>2, <1>12, <2>1
  <2>2. CASE d <= N
    <3>1. d + p[d] + 1 <= N + 1 /\ p[d] \in 1 .. 255
      BY <1>12, <2>2, ChainStep DEF N
    <3> DEFINE e == p[d]
    <3>2. e \in Nat /\ d + e + 1 <= N + 1
      <4> HIDE DEF e, d
      <4>1. e \in 1 .. 255 /\ d + e + 1 <= N + 1
        BY <3>1 DEF e, d
      <4> QED  BY <4>1
    <3> HIDE DEF e, d
    <3>3. e <= N - d
      BY <1>2, <1>12, <3>2 DEF d
    <3> QED  BY <1>2, <1>12, <3>3 DEF IsField, N, d, e
  <2> QED  BY <1>2, <1>12, <2>1, <2>2
<1>14. ASSUME NEW i \in S  PROVE i < d <=> N - i >= 2
  <2>1. i \in Nat /\ i <= N + 1 /\ d \in Nat
    BY <1>2, <1>12
  <2>2. CASE i < d
    BY <1>12, <2>2
  <2>3. CASE ~(i < d)
    BY <1>2, <1>13, <2>1, <2>3
  <2> QED  BY <2>2, <2>3
<1> QED  BY <1>1, <1>12, <1>14 DEF N

\* The n bytes of a field at loc, or none, become the m bytes of one, or none; the rest moves.
SplicedAt(p, q, loc, n, m) ==
  /\ n = 0 \/ (loc <= Len(p) /\ n = p[loc] + 1)
  /\ Len(q) = Len(p) - n + m
  /\ \A i \in 1 .. loc - 1 : q[i] = p[i]
  /\ \A i \in loc + n .. Len(p) : q[i - n + m] = p[i]
  /\ m = 0 \/ (m >= 2 /\ q[loc] = m - 1 /\ Sized(m - 1, q[loc + 1]))

MarksAfter(S, Q, loc, n, m) ==
  {i \in S : i < loc} \cup {loc} \cup {i \in 1 .. Q + 1 : i >= loc + m /\ i - m + n \in S}

LEMMA Spliced ==
  ASSUME NEW p \in Seq(Octet), NEW S, Chain(p, S), NEW q \in Seq(Octet),
         NEW loc \in S, NEW n \in Nat, NEW m \in Nat, SplicedAt(p, q, loc, n, m)
  PROVE  Chain(q, MarksAfter(S, Len(q), loc, n, m))
<1> USE DEF SplicedAt
<1> DEFINE P == Len(p)
           Q == Len(q)
           T == {i \in S : i < loc} \cup {loc}
                  \cup {i \in 1 .. Q + 1 : i >= loc + m /\ i - m + n \in S}
<1>1. P \in Nat /\ Q \in Nat /\ Q = P - n + m
  BY LenProperties
<1>2. S \subseteq 1 .. P + 1 /\ 1 \in S /\ P + 1 \in S /\ \A i, j \in S : i < j => i + p[i] < j
  BY DEF Chain
<1>3. loc + n \in S /\ loc \in 1 .. P + 1
  <2>1. CASE n = 0
    BY <1>1, <1>2, <2>1
  <2>2. CASE loc <= Len(p) /\ n = p[loc] + 1
    <3>1. /\ loc + p[loc] + 1 \in S /\ p[loc] \in 1 .. 255 /\ loc \in Nat \ {0}
          /\ loc + p[loc] + 1 <= P + 1
      BY <2>2, ChainStep
    <3> DEFINE e == p[loc]
    <3>2. n = e + 1
      BY <2>2
    <3>3. /\ e \in 1 .. 255 /\ loc + e + 1 \in S /\ loc + e + 1 <= P + 1
          /\ loc \in Nat
      BY <3>1
    <3> HIDE DEF e
    <3>4. loc + n = loc + e + 1
      BY <3>2, <3>3
    <3> QED  BY <1>1, <2>2, <3>1, <3>3, <3>4
  <2> QED  BY <2>1, <2>2
<1>4. ASSUME NEW i \in S, i <= P
      PROVE  /\ i \in Nat \ {0} /\ i < P /\ p[i] \in 1 .. 255
             /\ i + p[i] + 1 \in S /\ i + p[i] + 1 <= P + 1 /\ Sized(p[i], p[i + 1])
  BY <1>4, ChainStep DEF Chain
<1>5. loc + n <= P + 1 /\ loc + m <= Q + 1
  BY <1>1, <1>2, <1>3
<1>6. T \subseteq 1 .. Q + 1 /\ 1 \in T /\ Q + 1 \in T
  <2> HIDE DEF P, Q
  <2>1. T \subseteq 1 .. Q + 1
    <3>1. ASSUME NEW i \in S, i < loc  PROVE i \in 1 .. Q + 1
      BY <1>1, <1>2, <1>3, <1>5, <3>1
    <3>2. loc \in 1 .. Q + 1
      BY <1>1, <1>3, <1>5
    <3> QED  BY <3>1, <3>2
  <2>2. 1 \in T
    BY <1>1, <1>2, <1>3
  <2>3. (Q + 1) - m + n = P + 1 /\ Q + 1 \in 1 .. Q + 1
    BY <1>1
  <2>4. Q + 1 \in T
    BY <1>2, <1>5, <2>3
  <2> QED  BY <2>1, <2>2, <2>4
\* A field before the place, the field at the place, and one behind it.
<1>7. ASSUME NEW i \in S, i < loc
      PROVE  /\ i \in Nat /\ i < Q /\ q[i] = p[i] /\ p[i] \in 1 .. 255 /\ q[i + 1] = p[i + 1]
             /\ i + p[i] < loc /\ i + p[i] + 1 \in T
             /\ Sized(q[i], q[i + 1])
  <2>1. i <= P
    BY <1>1, <1>2, <1>3, <1>7
  <2>2. i + p[i] < loc
    BY <1>2, <1>7
  <2>3. /\ i \in Nat \ {0} /\ p[i] \in 1 .. 255 /\ i + p[i] + 1 \in S /\ Sized(p[i], p[i + 1])
    BY <1>4, <2>1
  <2> DEFINE e == p[i]
  <2>4. /\ i + e + 1 <= loc /\ i \in 1 .. loc - 1 /\ i + 1 \in 1 .. loc - 1 /\ i < Q
    <3> HIDE DEF e, P, Q
    <3>1. e \in 1 .. 255 /\ i + e < loc
      BY <2>2, <2>3 DEF e
    <3> QED  BY <1>1, <1>3, <1>5, <2>3, <3>1
  <2>5. q[i] = p[i] /\ q[i + 1] = p[i + 1]
    BY <2>4
  <2>6. i + e + 1 \in T
    <3>1. i + e + 1 \in S /\ (i + e + 1 = loc \/ i + e + 1 < loc)
      <4> HIDE DEF e
      <4>1. e \in 1 .. 255 /\ i + e + 1 \in S
        BY <2>3 DEF e
      <4> QED  BY <1>1, <1>3, <2>3, <2>4, <4>1
    <3> HIDE DEF e
    <3> QED  BY <3>1
  <2> QED  BY <2>2, <2>3, <2>4, <2>5, <2>6
<1>8. ASSUME m # 0
      PROVE  loc < Q /\ q[loc] = m - 1 /\ m - 1 > 0 /\ loc + m \in T /\ Sized(q[loc], q[loc + 1])
  <2>1. m >= 2 /\ q[loc] = m - 1 /\ Sized(q[loc], q[loc + 1])
    BY <1>8
  <2>2. (loc + m) - m + n = loc + n /\ loc + m \in 1 .. Q + 1 /\ loc < Q
    <3> HIDE DEF P, Q
    <3> QED  BY <1>1, <1>3, <1>5, <2>1
  <2>3. loc + m \in T
    <3> HIDE DEF P, Q
    <3> QED  BY <1>3, <2>2
  <2> QED  BY <2>1, <2>2, <2>3
<1>9. ASSUME NEW i \in 1 .. Q, i >= loc + m, i - m + n \in S
      PROVE  /\ i < Q /\ q[i] = p[i - m + n] /\ q[i] \in 1 .. 255
             /\ i + q[i] + 1 \in T /\ Sized(q[i], q[i + 1])
  <2> DEFINE j == i - m + n
  <2>1. j \in S /\ j \in loc + n .. P /\ j - n + m = i /\ (j + 1) - n + m = i + 1
    <3> HIDE DEF P, Q
    <3> QED  BY <1>1, <1>3, <1>9
  <2> HIDE DEF j
  <2>2. /\ j \in Nat \ {0} /\ j < P /\ p[j] \in 1 .. 255
        /\ j + p[j] + 1 \in S /\ j + p[j] + 1 <= P + 1 /\ Sized(p[j], p[j + 1])
    <3>1. j <= P
      BY <1>1, <1>3, <2>1
    <3> QED  BY <1>4, <2>1, <3>1
  <2>3. j + 1 \in loc + n .. P
    BY <1>1, <1>3, <2>1, <2>2
  <2>4. q[i] = p[j] /\ q[i + 1] = p[j + 1]
    <3>1. q[j - n + m] = p[j] /\ q[(j + 1) - n + m] = p[j + 1]
      BY <2>1, <2>3
    <3> QED  BY <2>1, <3>1
  <2> DEFINE e == p[j]
  <2>5. /\ (i + e + 1) - m + n = j + e + 1 /\ i + e + 1 \in 1 .. Q + 1 /\ i + e + 1 >= loc + m
        /\ j + e + 1 \in S /\ i < Q
    <3>1. e \in 1 .. 255 /\ j + e + 1 \in S /\ j + e + 1 <= P + 1
      BY <2>2
    <3> HIDE DEF e, P, Q
    <3> QED  BY <1>1, <1>3, <1>9, <2>1, <2>2, <3>1
  <2>6. i + e + 1 \in T
    <3> HIDE DEF e, P, Q
    <3> QED  BY <2>5
  <2> QED  BY <2>2, <2>4, <2>5, <2>6 DEF j
<1>10. ASSUME NEW i \in T, i <= Q
       PROVE  i < Q /\ q[i] > 0 /\ i + q[i] + 1 \in T /\ Sized(q[i], q[i + 1])
  <2>1. CASE i \in S /\ i < loc
    <3> HIDE DEF T
    <3>1. /\ i < Q /\ q[i] = p[i] /\ p[i] \in 1 .. 255 /\ i + p[i] + 1 \in T
          /\ Sized(q[i], q[i + 1])
      BY <1>7, <2>1
    <3>2. \A e \in 1 .. 255 : e > 0
      OBVIOUS
    <3> QED  BY <3>1, <3>2
  <2>2. CASE i = loc /\ m # 0
    <3>1. loc + (m - 1) + 1 = loc + m
      BY <1>3
    <3> QED  BY <1>8, <2>2, <3>1
  <2>3. CASE i >= loc + m /\ i - m + n \in S
    <3>1. i \in 1 .. Q
      BY <1>1, <1>6, <1>10
    <3>2. \A e \in 1 .. 255 : e > 0
      OBVIOUS
    <3> HIDE DEF T
    <3> QED  BY <1>9, <2>3, <3>1, <3>2
  <2>4. i = loc /\ m = 0 => i >= loc + m /\ i - m + n \in S
    BY <1>1, <1>3
  <2> QED  BY <2>1, <2>2, <2>3, <2>4
<1>11. ASSUME NEW i \in T, NEW k \in T, i < k
       PROVE  i + q[i] < k
  <2>1. i <= Q /\ i \in Nat /\ k \in Nat
    BY <1>1, <1>6, <1>11
  <2>2. CASE i \in S /\ i < loc
    <3>1. i + p[i] < loc /\ q[i] = p[i] /\ p[i] \in Nat
      <4> HIDE DEF T
      <4>1. i + p[i] < loc /\ q[i] = p[i] /\ p[i] \in 1 .. 255
        BY <1>7, <2>2
      <4>2. \A e \in 1 .. 255 : e \in Nat
        OBVIOUS
      <4> QED  BY <4>1, <4>2
    <3>2. CASE k \in S /\ k < loc
      BY <1>2, <1>11, <2>2, <3>1, <3>2
    <3>3. CASE k >= loc
      BY <1>1, <1>3, <2>1, <3>1, <3>3
    <3>4. (k \in S /\ k < loc) \/ k >= loc
      BY <1>1, <1>3
    <3> QED  BY <3>2, <3>3, <3>4
  <2>3. CASE i = loc /\ m # 0
    <3>1. k >= loc + m
      BY <1>1, <1>3, <1>11, <2>1, <2>3
    <3> QED  BY <1>3, <1>8, <2>1, <2>3, <3>1
  <2>4. CASE i >= loc + m /\ i - m + n \in S
    <3> DEFINE j == i - m + n
               h == k - m + n
    <3>1. h \in S
      BY <1>1, <1>3, <1>11, <2>1, <2>4
    <3>2. j \in S /\ j < h
      BY <1>11, <2>1, <2>4
    <3>3. j + p[j] < h
      BY <1>2, <3>1, <3>2
    <3>4. q[i] = p[j] /\ p[j] \in 1 .. 255
      <4>1. i \in 1 .. Q
        BY <1>1, <1>6, <2>1
      <4> HIDE DEF T
      <4>2. q[i] = p[i - m + n] /\ q[i] \in 1 .. 255
        BY <1>9, <2>4, <4>1
      <4> QED  BY <4>2
    <3>5. \A e \in 1 .. 255 : j + e < h => i + e < k
      BY <2>1
    <3> QED  BY <3>3, <3>4, <3>5
  <2>5. i = loc /\ m = 0 => i >= loc + m /\ i - m + n \in S
    BY <1>1, <1>3
  <2> QED  BY <2>2, <2>3, <2>4, <2>5
<1> HIDE DEF T
<1>12. Chain(q, T)
  BY <1>6, <1>10, <1>11 DEF Chain
<1> QED  BY <1>12 DEF T, MarksAfter

\* A payload within its limit.
Whole(p, max) == p \in Seq(Octet) /\ Len(p) <= max /\ \E S : Chain(p, S)

LEMMA Joint ==
  ASSUME NEW a \in Seq(Octet), NEW b \in Seq(Octet)
  PROVE  /\ a \o b \in Seq(Octet) /\ Len(a) \in Nat /\ Len(b) \in Nat
         /\ Len(a \o b) = Len(a) + Len(b)
         /\ \A i \in 1 .. Len(a) : (a \o b)[i] = a[i]
         /\ \A i \in 1 .. Len(b) : (a \o b)[Len(a) + i] = b[i]
<1> DEFINE c == a \o b
<1>1. Len(a) \in Nat /\ Len(b) \in Nat
  BY LenProperties
<1>2. /\ c \in Seq(Octet) /\ Len(c) = Len(a) + Len(b)
      /\ \A i \in 1 .. Len(a) + Len(b) : c[i] = IF i <= Len(a) THEN a[i] ELSE b[i - Len(a)]
  BY ConcatProperties
<1> HIDE DEF c
<1>3. ASSUME NEW i \in 1 .. Len(a)  PROVE c[i] = a[i]
  BY <1>1, <1>2
<1>4. ASSUME NEW i \in 1 .. Len(b)  PROVE c[Len(a) + i] = b[i]
  <2>1. Len(a) + i \in 1 .. Len(a) + Len(b) /\ ~(Len(a) + i <= Len(a)) /\ (Len(a) + i) - Len(a) = i
    BY <1>1
  <2>2. c[Len(a) + i] = b[(Len(a) + i) - Len(a)]
    BY <1>2, <2>1
  <2> QED  BY <2>1, <2>2
<1> QED  BY <1>1, <1>2, <1>3, <1>4 DEF c

LEMMA Part ==
  ASSUME NEW p \in Seq(Octet), NEW first \in Nat \ {0}, NEW last \in Nat,
         last <= Len(p), first <= last + 1
  PROVE  /\ SubSeq(p, first, last) \in Seq(Octet) /\ Len(SubSeq(p, first, last)) = last - first + 1
         /\ \A i \in 1 .. last - first + 1 : SubSeq(p, first, last)[i] = p[first + i - 1]
<1> DEFINE c == SubSeq(p, first, last)
<1>1. Len(p) \in Nat
  BY LenProperties
<1>2. \A i \in first .. last : p[i] \in Octet
  BY <1>1, ElementOfSeq
<1>3. /\ c \in Seq(Octet)
      /\ Len(c) = IF first <= last THEN last - first + 1 ELSE 0
      /\ \A i \in 1 .. last - first + 1 : c[i] = p[first + i - 1]
  BY <1>2, SubSeqProperties
<1> HIDE DEF c
<1> QED  BY <1>1, <1>3 DEF c

LEMMA FieldBytes ==
  ASSUME NEW type \in Octet, NEW data \in Seq(Octet), Len(data) <= 254
  PROVE  /\ Field(type, data) \in Seq(Octet) /\ Len(Field(type, data)) = Len(data) + 2
         /\ Field(type, data)[1] = Len(data) + 1 /\ Field(type, data)[2] = type
         /\ Len(data) \in Nat /\ \A j \in 1 .. Len(data) : Field(type, data)[2 + j] = data[j]
<1> DEFINE header == <<Len(data) + 1, type>>
           f == Field(type, data)
<1>1. Len(data) \in Nat
  BY LenProperties
<1>2. header \in Seq(Octet) /\ Len(header) = 2 /\ header[1] = Len(data) + 1 /\ header[2] = type
  <2>1. \A l \in Nat : l <= 254 => l + 1 \in Octet
    BY DEF Octet
  <2> QED  BY <1>1, <2>1
<1>3. f = header \o data
  BY DEF Field
<1> HIDE DEF header, f
<1>4. /\ f \in Seq(Octet) /\ Len(f) = Len(header) + Len(data)
      /\ \A i \in 1 .. Len(header) : f[i] = header[i]
      /\ \A i \in 1 .. Len(data) : f[Len(header) + i] = data[i]
  BY <1>2, <1>3, Joint
<1>5. f[1] = Len(data) + 1 /\ f[2] = type
  BY <1>2, <1>4
<1>6. Len(f) = Len(data) + 2
  BY <1>1, <1>2, <1>4
<1>7. \A j \in 1 .. Len(data) : f[2 + j] = data[j]
  BY <1>2, <1>4
<1> QED  BY <1>1, <1>4, <1>5, <1>6, <1>7 DEF f

\* Where a list at i holds a UUID: at one of its places, and whole.
InBytes(id) == id \in Seq(Octet) /\ Len(id) \in {2, 4, 16}
UuidAt(p, x, u) == \A j \in 1 .. Len(u) : p[x + j - 1] = u[j]
Held(p, i, u) ==
  IF p[i + 1] \in ListsOf(Len(u)) THEN {x \in Matches(p, i, u) : x + Len(u) <= i + p[i] + 1} ELSE {}

LEMMA BytesAre ==
  ASSUME NEW p \in Seq(Octet), NEW u \in Seq(Octet), NEW x \in Nat \ {0}, x + Len(u) <= Len(p) + 1
  PROVE  SubSeq(p, x, x + Len(u) - 1) = u <=> UuidAt(p, x, u)
<1> DEFINE k == Len(u)
           s == SubSeq(p, x, x + k - 1)
<1>1. k \in Nat /\ Len(p) \in Nat /\ x + k - 1 \in Nat /\ x + k - 1 <= Len(p) /\ x <= (x + k - 1) + 1
      /\ (x + k - 1) - x + 1 = k
  <2>1. k \in Nat /\ Len(p) \in Nat /\ x + k <= Len(p) + 1
    BY LenProperties
  <2> HIDE DEF k
  <2> QED  BY <2>1
<1> HIDE DEF k
<1>2. s \in Seq(Octet) /\ Len(s) = k /\ \A j \in 1 .. k : s[j] = p[x + j - 1]
  BY <1>1, Part
<1> HIDE DEF s
<1>3. s = u <=> \A j \in 1 .. k : s[j] = u[j]
  BY <1>2, SeqEqual DEF k
<1>4. s = u <=> \A j \in 1 .. k : p[x + j - 1] = u[j]
  BY <1>2, <1>3
<1> QED  BY <1>4 DEF s, k, UuidAt

\* The field at i, whole, and what it is asked for.
FieldIn(p, i) == i \in Nat \ {0} /\ p[i] \in Nat \ {0} /\ i + p[i] <= Len(p)
PlaceIn(p, i, u, x) ==
  /\ p[i + 1] \in ListsOf(Len(u))
  /\ x \in Nat /\ i + 2 <= x /\ x + Len(u) <= i + p[i] + 1
  /\ (x - i - 2) % Len(u) = 0 /\ UuidAt(p, x, u)

LEMMA HeldPlaces ==
  ASSUME NEW p \in Seq(Octet), NEW u, InBytes(u), NEW i, FieldIn(p, i), NEW x
  PROVE  x \in Held(p, i, u) <=> PlaceIn(p, i, u, x)
<1> DEFINE N == Len(p)
           k == Len(u)
           e == p[i]
<1>1. N \in Nat /\ k \in Nat /\ i \in Nat /\ i # 0 /\ e \in Nat /\ i + e <= N /\ u \in Seq(Octet)
  BY LenProperties DEF InBytes, FieldIn
<1>2. x \in Held(p, i, u) <=>
        /\ p[i + 1] \in ListsOf(k) /\ x \in i + 2 .. N - k + 1
        /\ (x - i - 2) % k = 0 /\ SubSeq(p, x, x + k - 1) = u /\ x + k <= i + e + 1
  BY DEF Held, Matches
<1> HIDE DEF N, k, e
<1>3. x \in Nat /\ i + 2 <= x /\ x + k <= i + e + 1 => x \in i + 2 .. N - k + 1
  BY <1>1
<1>4. x \in i + 2 .. N - k + 1 => x \in Nat /\ x \in Nat \ {0} /\ i + 2 <= x /\ x + k <= N + 1
  BY <1>1
<1>5. x \in i + 2 .. N - k + 1 => (SubSeq(p, x, x + k - 1) = u <=> UuidAt(p, x, u))
  BY <1>1, <1>4, BytesAre DEF N, k
<1> QED  BY <1>2, <1>3, <1>4, <1>5 DEF PlaceIn, k, e

\* A field that moves takes its UUIDs with it.
LEMMA HeldMoves ==
  ASSUME NEW p \in Seq(Octet), NEW q \in Seq(Octet), NEW u, InBytes(u),
         NEW i, FieldIn(p, i), NEW s \in Int, FieldIn(q, i + s),
         \A j \in i .. i + p[i] : q[j + s] = p[j]
  PROVE  \A x \in Int : x \in Held(p, i, u) <=> x + s \in Held(q, i + s, u)
<1> DEFINE e == p[i]
           k == Len(u)
<1>1. k \in Nat /\ i \in Nat /\ i # 0 /\ e \in Nat /\ e # 0 /\ i + s \in Nat
  BY LenProperties DEF InBytes, FieldIn
<1>2. q[i + s] = e /\ q[(i + s) + 1] = p[i + 1]
  <2>1. i \in i .. i + e /\ i + 1 \in i .. i + e /\ (i + s) + 1 = (i + 1) + s
    <3> HIDE DEF e
    <3> QED  BY <1>1
  <2> QED  BY <2>1
<1> SUFFICES ASSUME NEW x \in Int PROVE x \in Held(p, i, u) <=> x + s \in Held(q, i + s, u)
  OBVIOUS
<1>3. x \in Held(p, i, u) <=> PlaceIn(p, i, u, x)
  BY HeldPlaces
<1>4. x + s \in Held(q, i + s, u) <=> PlaceIn(q, i + s, u, x + s)
  BY HeldPlaces
<1>5. /\ i + 2 <= x <=> (i + s) + 2 <= x + s
      /\ x + k <= i + e + 1 <=> (x + s) + k <= (i + s) + e + 1
      /\ (x + s) - (i + s) - 2 = x - i - 2
      /\ i + 2 <= x => x \in Nat /\ x + s \in Nat
  <2> HIDE DEF e, k
  <2> QED  BY <1>1
<1>6. ASSUME i + 2 <= x, x + k <= i + e + 1
      PROVE  UuidAt(p, x, u) <=> UuidAt(q, x + s, u)
  <2>1. \A j \in 1 .. k : x + j - 1 \in i .. i + e /\ (x + s) + j - 1 = (x + j - 1) + s
    <3> HIDE DEF e, k
    <3> QED  BY <1>1, <1>6
  <2>2. \A j \in 1 .. k : q[(x + s) + j - 1] = p[x + j - 1]
    BY <2>1
  <2> QED  BY <2>2 DEF UuidAt
<1> HIDE DEF e, k
<1>7. PlaceIn(p, i, u, x) <=> PlaceIn(q, i + s, u, x + s)
  BY <1>2, <1>5, <1>6 DEF PlaceIn, e, k
<1> QED  BY <1>3, <1>4, <1>7

\* Where the lists of a payload hold a UUID, and how often.
Places(p, u) == UNION {Held(p, i, u) : i \in FieldsOf(p)}
Listings(p, u) == Cardinality(Places(p, u))

LEMMA MarkedField ==
  ASSUME NEW p \in Seq(Octet), NEW S, Chain(p, S), NEW i \in S, i <= Len(p)
  PROVE  FieldIn(p, i) /\ i + p[i] + 1 <= Len(p) + 1 /\ i < Len(p)
<1> DEFINE e == p[i]
           N == Len(p)
<1>1. N \in Nat /\ i \in Nat \ {0} /\ e \in 1 .. 255 /\ i + e + 1 <= N + 1 /\ i < N
  BY ChainStep
<1> HIDE DEF e, N
<1>2. e \in Nat \ {0} /\ i + e <= N
  BY <1>1
<1> QED  BY <1>1, <1>2 DEF FieldIn, e, N

LEMMA PlacesAtMarks ==
  ASSUME NEW p \in Seq(Octet), NEW S, Chain(p, S), NEW u, InBytes(u)
  PROVE  /\ \A x : x \in Places(p, u) <=> \E i \in S : i <= Len(p) /\ x \in Held(p, i, u)
         /\ Places(p, u) \subseteq 1 .. Len(p) /\ IsFiniteSet(Places(p, u)) /\ Listings(p, u) \in Nat
<1> DEFINE N == Len(p)
<1>1. N \in Nat /\ S \subseteq 1 .. N + 1
  BY LenProperties DEF Chain
<1>2. FieldsOf(p) = {i \in S : N - i >= 2}
  BY FieldsAtMarks
<1>3. ASSUME NEW i \in S, i <= N, NEW x \in Held(p, i, u)
      PROVE  N - i >= 2 /\ x \in 1 .. N
  <2> DEFINE e == p[i]
             k == Len(u)
  <2>1. FieldIn(p, i)
    BY <1>3, MarkedField
  <2>2. x \in Nat /\ i + 2 <= x /\ x + k <= i + e + 1
    BY <1>3, <2>1, HeldPlaces DEF PlaceIn
  <2>3. k \in {2, 4, 16} /\ i \in Nat \ {0} /\ e \in Nat /\ i + e <= N
    BY <2>1 DEF FieldIn, InBytes
  <2> HIDE DEF e, k, N
  <2>4. k \in Nat /\ k >= 2
    BY <2>3
  <2> QED  BY <1>1, <2>2, <2>3, <2>4
<1>4. \A x : x \in Places(p, u) <=> \E i \in S : i <= N /\ x \in Held(p, i, u)
  <2>1. \A i \in S : N - i >= 2 => i <= N
    BY <1>1
  <2> QED  BY <1>2, <1>3, <2>1 DEF Places
<1>5. Places(p, u) \subseteq 1 .. N
  BY <1>3, <1>4
<1>6. IsFiniteSet(Places(p, u)) /\ Listings(p, u) \in Nat
  <2>1. IsFiniteSet(1 .. N)
    BY <1>1, FS_Interval
  <2> QED  BY <1>5, <2>1, FS_Subset, FS_CardinalityType DEF Listings
<1> QED  BY <1>4, <1>5, <1>6

\* Positions of which those between lo and hi are replaced and those behind move.
Replaced(X, Y, C, D, lo, hi, s) ==
  /\ X \subseteq Int /\ IsFiniteSet(X) /\ Y \subseteq Int /\ IsFiniteSet(D)
  /\ lo \in Int /\ hi \in Int /\ s \in Int /\ lo <= hi /\ lo <= hi + s
  /\ C \subseteq {x \in Int : lo <= x /\ x < hi} /\ D \subseteq {x \in Int : lo <= x /\ x < hi + s}
  /\ \A x \in Int : lo <= x /\ x < hi => (x \in X <=> x \in C)
  /\ \A x \in Int : x < lo => (x \in Y <=> x \in X)
  /\ \A x \in Int : lo <= x /\ x < hi + s => (x \in Y <=> x \in D)
  /\ \A x \in Int : hi <= x => (x + s \in Y <=> x \in X)

LEMMA PartReplaced ==
  ASSUME NEW X, NEW Y, NEW C, NEW D, NEW lo, NEW hi, NEW s, Replaced(X, Y, C, D, lo, hi, s)
  PROVE  /\ IsFiniteSet(Y) /\ IsFiniteSet(C) /\ Cardinality(C) \in Nat /\ Cardinality(D) \in Nat
         /\ Cardinality(X) \in Nat /\ Cardinality(Y) \in Nat
         /\ Cardinality(Y) + Cardinality(C) = Cardinality(X) + Cardinality(D)
<1> USE DEF Replaced
<1> DEFINE A == {x \in X : x < lo}
           B == {x \in X : hi <= x}
           M == {x \in Y : hi + s <= x}
           move == [x \in B |-> x + s]
<1>1. A \in SUBSET X /\ B \in SUBSET X /\ C \in SUBSET X
  OBVIOUS
<1>2. IsFiniteSet(A) /\ IsFiniteSet(B) /\ IsFiniteSet(C)
  BY <1>1, FS_Subset
<1>3. move \in Bijection(B, M)
  <2>1. \A x \in B : x + s \in M
    OBVIOUS
  <2>2. \A x, y \in B : move[x] = move[y] => x = y
    OBVIOUS
  <2>3. \A y \in M : \E x \in B : move[x] = y
    <3> TAKE y \in M
    <3>1. y - s \in Int /\ hi <= y - s /\ (y - s) + s = y
      OBVIOUS
    <3>2. y - s \in B
      BY <3>1
    <3> QED  BY <3>1, <3>2
  <2> HIDE DEF B, M
  <2>4. move \in [B -> M]
    BY <2>1
  <2> QED  BY <2>2, <2>3, <2>4, Fun_IsBij
<1>4. IsFiniteSet(M) /\ Cardinality(M) = Cardinality(B)
  <2>1. ExistsBijection(B, M)
    BY <1>3 DEF ExistsBijection
  <2> QED  BY <1>2, <2>1, FS_Bijection
<1>5. X = (A \cup C) \cup B /\ A \cap C = {} /\ (A \cup C) \cap B = {}
  <2>1. \A x \in X : x \in A \/ x \in C \/ x \in B
    OBVIOUS
  <2>2. \A x \in C : x \notin A /\ x \notin B
    OBVIOUS
  <2>3. \A x \in A : x \notin B
    OBVIOUS
  <2> HIDE DEF A, B
  <2> QED  BY <1>1, <2>1, <2>2, <2>3
<1>6. Y = (A \cup D) \cup M /\ A \cap D = {} /\ (A \cup D) \cap M = {}
  <2>1. \A y \in Y : y \in A \/ y \in D \/ y \in M
    OBVIOUS
  <2>2. (\A x \in A : x \in Y /\ x \notin M) /\ \A x \in D : x \in Y /\ x \notin A /\ x \notin M
    OBVIOUS
  <2>3. M \subseteq Y
    OBVIOUS
  <2> HIDE DEF A, M
  <2> QED  BY <2>1, <2>2, <2>3
<1> HIDE DEF A, B, M
<1>7. Cardinality({}) = 0
  BY FS_EmptySet
<1>8. /\ IsFiniteSet(A \cup C) /\ Cardinality(A \cup C) = Cardinality(A) + Cardinality(C) - 0
      /\ IsFiniteSet(A \cup D) /\ Cardinality(A \cup D) = Cardinality(A) + Cardinality(D) - 0
  BY <1>2, <1>5, <1>6, <1>7, FS_Union
<1>9. /\ Cardinality(X) = Cardinality(A \cup C) + Cardinality(B) - 0
      /\ IsFiniteSet(Y) /\ Cardinality(Y) = Cardinality(A \cup D) + Cardinality(M) - 0
  BY <1>2, <1>4, <1>5, <1>6, <1>7, <1>8, FS_Union
<1>10. /\ Cardinality(A) \in Nat /\ Cardinality(B) \in Nat /\ Cardinality(C) \in Nat
       /\ Cardinality(D) \in Nat /\ Cardinality(X) \in Nat /\ Cardinality(Y) \in Nat
  BY <1>2, <1>9, FS_CardinalityType
<1>11. Cardinality(Y) + Cardinality(C) = Cardinality(X) + Cardinality(D)
  BY <1>4, <1>8, <1>9, <1>10
<1> QED  BY <1>2, <1>9, <1>10, <1>11

LEMMA PlacesWithin ==
  ASSUME NEW p \in Seq(Octet), NEW S, Chain(p, S), NEW u, InBytes(u), NEW loc \in S, loc <= Len(p)
  PROVE  /\ Held(p, loc, u) \subseteq {x \in Int : loc <= x /\ x < loc + p[loc] + 1}
         /\ \A x \in Int : loc <= x /\ x < loc + p[loc] + 1 => (x \in Places(p, u) <=> x \in Held(p, loc, u))
<1>1. S \subseteq Nat
  BY LenProperties DEF Chain
<1>2. ASSUME NEW i \in S, i <= Len(p), NEW x \in Held(p, i, u)
      PROVE  x \in Int /\ i <= x /\ x < i + p[i] + 1
  <2> DEFINE e == p[i]
             k == Len(u)
  <2>1. FieldIn(p, i)
    BY <1>2, MarkedField
  <2>2. x \in Nat /\ i + 2 <= x /\ x + k <= i + e + 1
    BY <1>2, <2>1, HeldPlaces DEF PlaceIn
  <2>3. k \in {2, 4, 16} /\ i \in Nat /\ e \in Nat
    BY <2>1 DEF FieldIn, InBytes
  <2> HIDE DEF e, k
  <2>4. x \in Int /\ i <= x /\ x < i + e + 1
    BY <2>2, <2>3
  <2> QED  BY <2>4 DEF e
<1>3. ASSUME NEW x \in Int, loc <= x, x < loc + p[loc] + 1, x \in Places(p, u)
      PROVE  x \in Held(p, loc, u)
  <2>1. PICK i \in S : i <= Len(p) /\ x \in Held(p, i, u)
    BY <1>3, PlacesAtMarks
  <2>2. i <= x /\ x < i + p[i] + 1
    BY <1>2, <2>1
  <2>3. i \in Nat /\ loc \in Nat /\ p[i] \in Nat /\ p[loc] \in Nat
    BY <1>1, <2>1, MarkedField DEF FieldIn
  <2>4. (i < loc => i + p[i] < loc) /\ (loc < i => loc + p[loc] < i)
    BY DEF Chain
  <2>5. i = loc
    BY <1>3, <2>2, <2>3, <2>4
  <2> QED  BY <2>1, <2>5
<1> QED  BY <1>2, <1>3, PlacesAtMarks

\* What changes at one place of a payload changes how often a UUID is listed, and nothing
\* else does.
HeldIn(p, loc, n, u) == IF n = 0 THEN {} ELSE Held(p, loc, u)

LEMMA Recounted ==
  ASSUME NEW p \in Seq(Octet), NEW S, Chain(p, S), NEW q \in Seq(Octet),
         NEW loc \in S, NEW n \in Nat, NEW m \in Nat, SplicedAt(p, q, loc, n, m), NEW u, InBytes(u)
  PROVE  /\ Listings(p, u) \in Nat /\ Listings(q, u) \in Nat
         /\ IsFiniteSet(HeldIn(p, loc, n, u)) /\ IsFiniteSet(HeldIn(q, loc, m, u))
         /\ Cardinality(HeldIn(p, loc, n, u)) \in Nat /\ Cardinality(HeldIn(q, loc, m, u)) \in Nat
         /\ Listings(q, u) + Cardinality(HeldIn(p, loc, n, u))
              = Listings(p, u) + Cardinality(HeldIn(q, loc, m, u))
<1> DEFINE P == Len(p)
           Q == Len(q)
           T == MarksAfter(S, Q, loc, n, m)
           X == Places(p, u)
           Y == Places(q, u)
           C == HeldIn(p, loc, n, u)
           D == HeldIn(q, loc, m, u)
           s == m - n
<1>1. Chain(q, T)
  BY Spliced
<1>2. /\ P \in Nat /\ Q \in Nat /\ Q = P - n + m /\ s \in Int /\ Q = P + s
      /\ S \subseteq 1 .. P + 1 /\ T \subseteq 1 .. Q + 1
  BY <1>1, LenProperties DEF SplicedAt, Chain
<1>3. \A i : i \in T <=> (i \in S /\ i < loc) \/ i = loc
                           \/ (i \in 1 .. Q + 1 /\ i >= loc + m /\ i - m + n \in S)
  BY DEF MarksAfter
<1>4. /\ \A i, j \in S : i < j => i + p[i] < j
      /\ \A i, j \in T : i < j => i + q[i] < j
  BY <1>1 DEF Chain
<1>5. loc \in T /\ loc \in Nat /\ loc \in S
  BY <1>2, <1>3
<1>6. n # 0 => loc <= P /\ loc + p[loc] + 1 = loc + n
  <2>1. n # 0 => loc <= P /\ n = p[loc] + 1
    BY DEF SplicedAt
  <2> DEFINE e == p[loc]
  <2>2. n # 0 => loc <= P /\ n = e + 1 /\ e \in Nat
    BY <2>1, MarkedField DEF FieldIn
  <2> HIDE DEF e
  <2>3. n # 0 => loc <= P /\ loc + e + 1 = loc + n
    BY <1>5, <2>2
  <2> QED  BY <2>3 DEF e
<1>7. m # 0 => loc <= Q /\ loc + q[loc] + 1 = loc + m
  <2>1. m # 0 => m >= 2 /\ q[loc] = m - 1
    BY DEF SplicedAt
  <2>2. m # 0 => loc # Q + 1
    <3> SUFFICES ASSUME m # 0, loc = Q + 1 PROVE FALSE
      OBVIOUS
    <3>1. loc <= P + 1 /\ (n # 0 => loc + p[loc] + 1 <= P + 1)
      <4>1. n # 0 => loc + p[loc] + 1 <= P + 1
        BY <1>6, MarkedField
      <4> QED  BY <1>2, <1>5, <4>1
    <3>2. loc + n <= P + 1
      BY <1>2, <1>5, <1>6, <3>1
    <3>3. P \in Nat /\ Q \in Nat /\ Q = P - n + m /\ loc \in Nat /\ m >= 2
      BY <1>2, <1>5, <2>1
    <3> HIDE DEF P, Q
    <3> QED  BY <3>2, <3>3
  <2>3. P \in Nat /\ Q \in Nat /\ loc \in Nat /\ loc <= Q + 1
    BY <1>2, <1>5
  <2> HIDE DEF P, Q
  <2> QED  BY <2>1, <2>2, <2>3
<1>8. ASSUME NEW i \in S, i <= P
      PROVE  /\ i \in Nat /\ p[i] \in Nat /\ i + p[i] <= P /\ FieldIn(p, i)
             /\ \A x \in Held(p, i, u) : x \in Nat /\ i < x /\ x <= i + p[i]
  <2>1. FieldIn(p, i)
    BY <1>8, MarkedField
  <2>2. i \in Nat /\ p[i] \in Nat /\ i + p[i] <= P
    BY <2>1 DEF FieldIn
  <2>4. ASSUME NEW x \in Held(p, i, u)  PROVE x \in Nat /\ i < x /\ x <= i + p[i]
    <3> DEFINE k == Len(u)
    <3>1. x \in Nat /\ i + 2 <= x /\ x + k <= i + p[i] + 1
      BY <2>1, HeldPlaces DEF PlaceIn
    <3>2. k \in {2, 4, 16}
      BY DEF InBytes
    <3> HIDE DEF k
    <3>3. k \in Nat /\ k >= 2
      BY <3>2
    <3> QED  BY <2>2, <3>1, <3>3
  <2> QED  BY <2>1, <2>2, <2>4
<1>9. ASSUME NEW i \in T, i <= Q
      PROVE  /\ i \in Nat /\ q[i] \in Nat /\ i + q[i] <= Q /\ FieldIn(q, i)
             /\ \A x \in Held(q, i, u) : x \in Nat /\ i < x /\ x <= i + q[i]
  <2>1. FieldIn(q, i)
    BY <1>1, <1>9, MarkedField
  <2>2. i \in Nat /\ q[i] \in Nat /\ i + q[i] <= Q
    BY <2>1 DEF FieldIn
  <2>4. ASSUME NEW x \in Held(q, i, u)  PROVE x \in Nat /\ i < x /\ x <= i + q[i]
    <3> DEFINE k == Len(u)
    <3>1. x \in Nat /\ i + 2 <= x /\ x + k <= i + q[i] + 1
      BY <2>1, HeldPlaces DEF PlaceIn
    <3>2. k \in {2, 4, 16}
      BY DEF InBytes
    <3> HIDE DEF k
    <3>3. k \in Nat /\ k >= 2
      BY <3>2
    <3> QED  BY <2>2, <3>1, <3>3
  <2> QED  BY <2>1, <2>2, <2>4
<1> HIDE DEF T, X, Y, C, D, s, P, Q
<1>10. /\ \A x : x \in X <=> \E i \in S : i <= P /\ x \in Held(p, i, u)
       /\ X \subseteq Int /\ IsFiniteSet(X)
  <2>1. 1 .. P \subseteq Int
    OBVIOUS
  <2> QED  BY <2>1, PlacesAtMarks DEF X, P
<1>11. /\ \A x : x \in Y <=> \E i \in T : i <= Q /\ x \in Held(q, i, u)
       /\ Y \subseteq Int /\ IsFiniteSet(Y)
  <2>1. 1 .. Q \subseteq Int
    OBVIOUS
  <2> QED  BY <1>1, <2>1, PlacesAtMarks DEF Y, Q
\* At the place.
<1>12. /\ C \subseteq {x \in Int : loc <= x /\ x < loc + n}
       /\ \A x \in Int : loc <= x /\ x < loc + n => (x \in X <=> x \in C)
  <2>1. CASE n = 0
    BY <1>5, <2>1 DEF C, HeldIn
  <2>2. CASE n # 0
    <3>1. C = Held(p, loc, u) /\ loc <= Len(p) /\ loc + p[loc] + 1 = loc + n
      BY <1>6, <2>2 DEF C, HeldIn, P
    <3> QED  BY <3>1, PlacesWithin DEF X
  <2> QED  BY <2>1, <2>2
<1>13. /\ D \subseteq {x \in Int : loc <= x /\ x < loc + m}
       /\ \A x \in Int : loc <= x /\ x < loc + m => (x \in Y <=> x \in D)
  <2>1. CASE m = 0
    BY <1>5, <2>1 DEF D, HeldIn
  <2>2. CASE m # 0
    <3>1. D = Held(q, loc, u) /\ loc <= Len(q) /\ loc + q[loc] + 1 = loc + m
      BY <1>7, <2>2 DEF D, HeldIn, Q
    <3> QED  BY <1>1, <1>5, <3>1, PlacesWithin DEF Y
  <2> QED  BY <2>1, <2>2
\* Before it.
<1>14. ASSUME NEW i \in S, i < loc
       PROVE  i <= P /\ i <= Q /\ i \in T /\ \A x \in Int : x \in Held(p, i, u) <=> x \in Held(q, i, u)
  <2>1. i <= P /\ i \in T /\ i \in Nat
    BY <1>2, <1>3, <1>5, <1>14
  <2>2. i <= Q
    BY <1>2, <1>5, <1>14, <2>1
  <2>3. i + p[i] < loc /\ p[i] \in Nat /\ FieldIn(p, i) /\ FieldIn(q, i)
    BY <1>4, <1>5, <1>8, <1>9, <1>14, <2>1, <2>2
  <2>4. \A j \in 1 .. loc - 1 : q[j] = p[j]
    BY DEF SplicedAt
  <2>5. \A j \in i .. i + p[i] : q[j + 0] = p[j]
    <3>1. i # 0
      BY <2>3 DEF FieldIn
    <3> DEFINE e == p[i]
    <3>2. e \in Nat /\ i + e < loc
      BY <2>3
    <3> HIDE DEF e
    <3>3. \A j \in i .. i + e : j \in 1 .. loc - 1 /\ j + 0 = j
      BY <1>5, <2>1, <3>1, <3>2
    <3> QED  BY <2>4, <3>3 DEF e
  <2>6. FieldIn(q, i + 0) /\ i + 0 = i /\ 0 \in Int
    BY <2>1, <2>3
  <2>7. \A x \in Int : x \in Held(p, i, u) <=> x + 0 \in Held(q, i + 0, u)
    BY <2>3, <2>5, <2>6, HeldMoves
  <2>8. \A x \in Int : x + 0 = x
    OBVIOUS
  <2> QED  BY <2>1, <2>2, <2>6, <2>7, <2>8
<1>15. ASSUME NEW x \in Int, x < loc
       PROVE  x \in Y <=> x \in X
  <2>1. ASSUME x \in X  PROVE x \in Y
    <3>1. PICK i \in S : i <= P /\ x \in Held(p, i, u)
      BY <1>10, <2>1
    <3>2. i < loc
      BY <1>5, <1>8, <1>15, <3>1
    <3> QED  BY <1>11, <1>14, <3>1, <3>2
  <2>2. ASSUME x \in Y  PROVE x \in X
    <3>1. PICK i \in T : i <= Q /\ x \in Held(q, i, u)
      BY <1>11, <2>2
    <3>2. i < loc
      BY <1>5, <1>9, <1>15, <3>1
    <3>3. i \in S
      BY <1>3, <1>5, <1>9, <3>1, <3>2
    <3> QED  BY <1>10, <1>14, <3>1, <3>2, <3>3
  <2> QED  BY <2>1, <2>2
\* Behind it.
<1>16. ASSUME NEW i \in S, loc + n <= i, i <= P
       PROVE  i + s <= Q /\ i + s \in T /\ \A x \in Int : x \in Held(p, i, u) <=> x + s \in Held(q, i + s, u)
  <2>1. i \in Nat /\ p[i] \in Nat /\ i + p[i] <= P /\ FieldIn(p, i)
    BY <1>8, <1>16
  <2>2. i + s <= Q /\ i + s >= loc + m /\ i + s \in 1 .. Q + 1 /\ (i + s) - m + n = i
    <3>1. i # 0
      BY <2>1 DEF FieldIn
    <3>2. m # 0 => loc + m <= Q + 1
      BY <1>2, <1>5, <1>16, <2>1 DEF s
    <3>3. loc # 0
      BY <1>2, <1>5
    <3> QED  BY <1>2, <1>5, <1>16, <2>1, <3>1, <3>2, <3>3 DEF s
  <2>3. i + s \in T
    BY <1>3, <1>16, <2>2
  <2>4. FieldIn(q, i + s)
    BY <1>9, <2>2, <2>3
  <2>5. \A j \in i .. i + p[i] : q[j + s] = p[j]
    <3>1. \A j \in loc + n .. P : q[j - n + m] = p[j]
      BY DEF SplicedAt, P
    <3> DEFINE e == p[i]
    <3>2. e \in Nat /\ i + e <= P
      BY <2>1
    <3> HIDE DEF e
    <3>3. \A j \in i .. i + e : j \in loc + n .. P /\ j - n + m = j + s
      BY <1>2, <1>5, <1>16, <2>1, <3>2 DEF s
    <3> QED  BY <3>1, <3>3 DEF e
  <2>6. \A x \in Int : x \in Held(p, i, u) <=> x + s \in Held(q, i + s, u)
    BY <1>2, <2>1, <2>4, <2>5, HeldMoves
  <2> QED  BY <2>2, <2>3, <2>6
<1>17. ASSUME NEW x \in Int, loc + n <= x
       PROVE  x + s \in Y <=> x \in X
  <2>1. ASSUME x \in X  PROVE x + s \in Y
    <3>1. PICK i \in S : i <= P /\ x \in Held(p, i, u)
      BY <1>10, <2>1
    <3>2. i \in Nat /\ p[i] \in Nat /\ x <= i + p[i]
      BY <1>8, <3>1
    <3>3. ~(i < loc)
      BY <1>4, <1>5, <1>17, <3>2
    <3>4. loc + n <= i
      <4>1. CASE n = 0
        BY <1>5, <3>2, <3>3, <4>1
      <4>2. CASE n # 0
        <5>1. i # loc
          BY <1>5, <1>6, <1>17, <3>2, <4>2
        <5>2. loc + p[loc] < i /\ p[loc] \in Nat
          BY <1>4, <1>5, <1>6, <1>8, <3>2, <3>3, <4>2, <5>1
        <5> QED  BY <1>5, <1>6, <3>2, <4>2, <5>2
      <4> QED  BY <4>1, <4>2
    <3> QED  BY <1>11, <1>16, <3>1, <3>4
  <2>2. ASSUME x + s \in Y  PROVE x \in X
    <3>1. PICK j \in T : j <= Q /\ x + s \in Held(q, j, u)
      BY <1>11, <2>2
    <3>2. j \in Nat /\ q[j] \in Nat /\ x + s <= j + q[j] /\ loc + m <= x + s
      BY <1>2, <1>5, <1>9, <1>17, <3>1 DEF s
    <3> DEFINE e == q[j]
               y == x + s
    <3>3. /\ j \in Nat /\ e \in Nat /\ y \in Int /\ y <= j + e /\ loc + m <= y /\ loc \in Nat
          /\ (j < loc => j + e < loc) /\ (j = loc /\ m # 0 => loc + e + 1 = loc + m)
      BY <1>2, <1>4, <1>5, <1>7, <3>1, <3>2
    <3> HIDE DEF e, y
    <3>4. ~(j < loc) /\ ~(j = loc /\ m # 0)
      BY <3>3
    <3>5. j = loc /\ m = 0 => j >= loc + m /\ j - m + n \in S
      <4>1. n # 0 => loc + n \in S
        <5>1. n # 0 => loc + p[loc] + 1 \in S
          BY <1>6 DEF Chain, P
        <5> QED  BY <1>6, <5>1
      <4>2. n = 0 => loc + n \in S
        BY <1>5
      <4> QED  BY <1>5, <4>1, <4>2
    <3>6. j >= loc + m /\ j - m + n \in S
      BY <1>2, <1>3, <1>5, <3>1, <3>2, <3>4, <3>5
    <3> DEFINE i == j - m + n
    <3>7. i \in S /\ loc + n <= i /\ i <= P /\ i + s = j
      BY <1>2, <1>5, <3>1, <3>2, <3>6 DEF s
    <3> HIDE DEF i
    <3>8. x \in Held(p, i, u)
      BY <1>16, <3>1, <3>7
    <3> QED  BY <1>10, <3>7, <3>8
  <2> QED  BY <2>1, <2>2
<1>18. IsFiniteSet(D)
  <2>1. D \subseteq loc .. loc + m
    BY <1>5, <1>13
  <2>2. IsFiniteSet(loc .. loc + m)
    BY <1>5, FS_Interval
  <2> QED  BY <2>1, <2>2, FS_Subset
<1>19. loc \in Int /\ loc + n \in Int /\ loc <= loc + n /\ loc <= (loc + n) + s /\ (loc + n) + s = loc + m
  BY <1>2, <1>5 DEF s
<1> DEFINE hi == loc + n
<1>20. Replaced(X, Y, C, D, loc, hi, s)
  BY <1>2, <1>10, <1>11, <1>12, <1>13, <1>15, <1>17, <1>18, <1>19 DEF Replaced
<1> HIDE DEF hi
<1>21. /\ IsFiniteSet(C) /\ Cardinality(C) \in Nat /\ Cardinality(D) \in Nat
       /\ Cardinality(X) \in Nat /\ Cardinality(Y) \in Nat
       /\ Cardinality(Y) + Cardinality(C) = Cardinality(X) + Cardinality(D)
  BY <1>20, PartReplaced
<1> QED  BY <1>18, <1>21 DEF Listings, C, D, X, Y

LEMMA ListTypes ==
  /\ COMP_UUIDS(2) = 3 /\ COMP_UUIDS(4) = 5 /\ COMP_UUIDS(16) = 7
  /\ INCOMP_UUIDS(2) = 2 /\ INCOMP_UUIDS(4) = 4 /\ INCOMP_UUIDS(16) = 6
  /\ ListsOf(2) = {3, 2} /\ ListsOf(4) = {5, 4} /\ ListsOf(16) = {7, 6}
  /\ SVC_DATA(2) = 22 /\ SVC_DATA(4) = 32 /\ SVC_DATA(16) = 33
<1> QED  BY DEF COMP_UUIDS, INCOMP_UUIDS, ListsOf, SVC_DATA

\* The types whose fields have no size to keep, and the sizes of the others.
Plain == {t \in Octet : t \notin {1, 2, 3, 4, 5, 6, 7, 22, 32, 33}}

LEMMA SizedPlain == ASSUME NEW type \in Plain, NEW l  PROVE Sized(l, type)
<1> QED  BY ListTypes DEF Sized, FLAGS, Plain

LEMMA SizedList ==
  ASSUME NEW b \in {2, 4, 16}, NEW l, NEW type \in ListsOf(b)
  PROVE  Sized(l, type) <=> (l - 1) % b = 0
<1>1. CASE b = 2
  <2>1. type # FLAGS /\ (\A c \in {2, 4, 16} : type \in ListsOf(c) <=> c = 2)
        /\ \A c \in {2, 4, 16} : type # SVC_DATA(c)
    BY <1>1, ListTypes DEF FLAGS
  <2> QED  BY <1>1, <2>1 DEF Sized
<1>2. CASE b = 4
  <2>1. type # FLAGS /\ (\A c \in {2, 4, 16} : type \in ListsOf(c) <=> c = 4)
        /\ \A c \in {2, 4, 16} : type # SVC_DATA(c)
    BY <1>2, ListTypes DEF FLAGS
  <2> QED  BY <1>2, <2>1 DEF Sized
<1>3. CASE b = 16
  <2>1. type # FLAGS /\ (\A c \in {2, 4, 16} : type \in ListsOf(c) <=> c = 16)
        /\ \A c \in {2, 4, 16} : type # SVC_DATA(c)
    BY <1>3, ListTypes DEF FLAGS
  <2> QED  BY <1>3, <2>1 DEF Sized
<1> QED  BY <1>1, <1>2, <1>3

LEMMA SizedData ==
  ASSUME NEW b \in {2, 4, 16}, NEW l \in Nat, l > b
  PROVE  Sized(l, SVC_DATA(b)) /\ SVC_DATA(b) \in Octet
<1>1. SVC_DATA(b) \in {22, 32, 33} /\ \A c \in {2, 4, 16} : SVC_DATA(b) = SVC_DATA(c) => c = b
  BY ListTypes
<1>2. SVC_DATA(b) # FLAGS /\ \A c \in {2, 4, 16} : SVC_DATA(b) \notin ListsOf(c)
  BY <1>1, ListTypes DEF FLAGS
<1>3. {22, 32, 33} \subseteq Octet
  BY DEF Octet
<1> QED  BY <1>1, <1>2, <1>3 DEF Sized

\* A UUID more or less keeps the list's size whole.
LEMMA WholeUuids ==
  ASSUME NEW b \in {2, 4, 16}, NEW e \in 1 .. 255, (e - 1) % b = 0
  PROVE  /\ ((e + b) - 1) % b = 0 /\ ((e - b) - 1) % b = 0
         /\ \A d \in Nat : d % b = 0 /\ d < e - 1 => d + b <= e - 1
<1>1. CASE b = 2  BY <1>1
<1>2. CASE b = 4  BY <1>2
<1>3. CASE b = 16  BY <1>3
<1> QED  BY <1>1, <1>2, <1>3

\* The places of a list's UUIDs, up to its end.
LEMMA PlaceOrEnd ==
  ASSUME NEW b \in {2, 4, 16}, NEW e \in 1 .. 255, (e - 1) % b = 0, NEW loc \in Nat, NEW x \in Nat,
         loc + 2 <= x, (x - loc - 2) % b = 0, x + b <= loc + (e + b) + 1
  PROVE  x = loc + e + 1 \/ x + b <= loc + e + 1
<1> DEFINE d == x - loc - 2
<1>1. d \in Nat /\ d % b = 0 /\ d + b <= e + b - 1 /\ x = loc + 2 + d
  <2>1. d \in Nat /\ d + b <= e + b - 1 /\ x = loc + 2 + d
    OBVIOUS
  <2> QED  BY <2>1
<1> HIDE DEF d
<1>2. d < e - 1 => d + b <= e - 1
  BY <1>1, WholeUuids
<1>3. b \in Nat /\ e \in Nat
  OBVIOUS
<1> QED  BY <1>1, <1>2, <1>3

LEMMA PlacesApart ==
  ASSUME NEW b \in {2, 4, 16}, NEW loc \in Nat, NEW x \in Nat, NEW y \in Nat, loc + 2 <= x, x < y,
         (x - loc - 2) % b = 0, (y - loc - 2) % b = 0
  PROVE  x + b <= y
<1> DEFINE c == x - loc - 2
           d == y - loc - 2
<1>1. c \in Nat /\ d \in Nat /\ c < d /\ x = loc + 2 + c /\ y = loc + 2 + d
  OBVIOUS
<1>2. c % b = 0 /\ d % b = 0
  OBVIOUS
<1> HIDE DEF c, d
<1>3. c + b <= d
  <2>1. CASE b = 2  BY <1>1, <1>2, <2>1
  <2>2. CASE b = 4  BY <1>1, <1>2, <2>2
  <2>3. CASE b = 16  BY <1>1, <1>2, <2>3
  <2> QED  BY <2>1, <2>2, <2>3
<1>4. b \in Nat
  OBVIOUS
<1> QED  BY <1>1, <1>3, <1>4

LEMMA PlaceMoved ==
  ASSUME NEW b \in {2, 4, 16}, NEW loc \in Nat, NEW x \in Nat, loc + 2 <= x - b
  PROVE  ((x - b) - loc - 2) % b = 0 <=> (x - loc - 2) % b = 0
<1>1. CASE b = 2  BY <1>1
<1>2. CASE b = 4  BY <1>2
<1>3. CASE b = 16  BY <1>3
<1> QED  BY <1>1, <1>2, <1>3

\* What a field holds, by its type and bytes.
LEMMA ListTypeOf ==
  /\ \A b, c \in {2, 4, 16} : \A t \in ListsOf(b) : t \in ListsOf(c) => b = c
  /\ \A b \in {2, 4, 16} : COMP_UUIDS(b) \in ListsOf(b) /\ ListsOf(b) \subseteq {2, 3, 4, 5, 6, 7}
<1> QED  BY ListTypes

LEMMA NothingHeld ==
  ASSUME NEW p, NEW i, p[i + 1] \notin {2, 3, 4, 5, 6, 7}, NEW u, InBytes(u)
  PROVE  Held(p, i, u) = {}
<1>1. Len(u) \in {2, 4, 16}
  BY DEF InBytes
<1>2. p[i + 1] \notin ListsOf(Len(u))
  BY <1>1, ListTypeOf
<1> QED  BY <1>2 DEF Held

LEMMA SameUuid ==
  ASSUME NEW p, NEW x, NEW u, InBytes(u), NEW v, InBytes(v), UuidAt(p, x, u), Len(v) = Len(u)
  PROVE  UuidAt(p, x, v) <=> u = v
<1>1. UuidAt(p, x, v) <=> \A j \in 1 .. Len(u) : u[j] = v[j]
  BY DEF UuidAt
<1> QED  BY <1>1, SeqEqual DEF InBytes

LEMMA OneHeld ==
  ASSUME NEW p \in Seq(Octet), NEW id, InBytes(id), NEW i, FieldIn(p, i),
         p[i + 1] = COMP_UUIDS(Len(id)), p[i] = Len(id) + 1, UuidAt(p, i + 2, id),
         NEW u, InBytes(u)
  PROVE  Cardinality(Held(p, i, u)) = IF u = id THEN 1 ELSE 0
<1> DEFINE k == Len(id)
<1>1. k \in {2, 4, 16} /\ Len(u) \in {2, 4, 16} /\ i \in Nat
  BY DEF InBytes, FieldIn
<1>2. p[i + 1] \in ListsOf(Len(u)) <=> Len(u) = k
  BY <1>1, ListTypeOf
<1>3. \A x : x \in Held(p, i, u) <=> x = i + 2 /\ u = id
  <2> TAKE x
  <2>1. x \in Held(p, i, u) <=> PlaceIn(p, i, u, x)
    BY HeldPlaces
  <2>2. UuidAt(p, i + 2, u) /\ Len(u) = k <=> u = id
    BY SameUuid
  <2>3. x \in Nat /\ i + 2 <= x /\ x + k <= i + (k + 1) + 1 <=> x = i + 2
    <3> HIDE DEF k
    <3>1. k \in Nat
      BY <1>1
    <3> QED  BY <1>1, <3>1
  <2>4. ((i + 2) - i - 2) % k = 0
    <3> HIDE DEF k
    <3>1. (i + 2) - i - 2 = 0
      BY <1>1
    <3>2. 0 % k = 0
      BY <1>1
    <3> QED  BY <3>1, <3>2
  <2>5. CASE Len(u) = k
    <3>1. PlaceIn(p, i, u, x) <=> /\ x \in Nat /\ i + 2 <= x /\ x + k <= i + (k + 1) + 1
                                  /\ (x - i - 2) % k = 0 /\ UuidAt(p, x, u)
      BY <1>2, <2>5 DEF PlaceIn
    <3> HIDE DEF k
    <3> QED  BY <2>1, <2>2, <2>3, <2>4, <2>5, <3>1
  <2>6. CASE Len(u) # k
    BY <1>2, <2>1, <2>6 DEF PlaceIn
  <2> QED  BY <2>5, <2>6
<1>4. CASE u = id
  <2>1. Held(p, i, u) = {i + 2}
    BY <1>3, <1>4
  <2> QED  BY <1>4, <2>1, FS_Singleton
<1>5. CASE u # id
  <2>1. Held(p, i, u) = {}
    BY <1>3, <1>5
  <2> QED  BY <1>5, <2>1, FS_EmptySet
<1> QED  BY <1>4, <1>5

\* Its header and its value.
FieldOf(q, loc, type, data) ==
  /\ FieldIn(q, loc) /\ q[loc] = Len(data) + 1 /\ q[loc + 1] = type
  /\ \A j \in 1 .. Len(data) : q[(loc + 2) + j - 1] = data[j]

\* The same UUIDs are listed, or one once more or once less, or those of a further field.
SameLists(q, p) == \A u : InBytes(u) => Listings(p, u) \in Nat /\ Listings(q, u) = Listings(p, u)
Relisted(q, p, id, d) ==
  \A u : InBytes(u) => /\ Listings(p, u) \in Nat
                       /\ Listings(q, u) = Listings(p, u) + (IF u = id THEN d ELSE 0)
ListsMore(q, p, loc) ==
  \A u : InBytes(u) => /\ Listings(p, u) \in Nat /\ IsFiniteSet(Held(q, loc, u))
                       /\ Listings(q, u) = Listings(p, u) + Cardinality(Held(q, loc, u))

LEMMA SameListsItself == ASSUME NEW max, NEW p, Whole(p, max) PROVE SameLists(p, p)
<1>1. PICK S : Chain(p, S)
  BY DEF Whole
<1> QED  BY <1>1, PlacesAtMarks DEF SameLists, Whole

LEMMA NothingListed ==
  ASSUME NEW p, NEW q, NEW loc, ListsMore(q, p, loc), q[loc + 1] \notin {2, 3, 4, 5, 6, 7}
  PROVE  SameLists(q, p) /\ SameLists(p, q)
<1> SUFFICES ASSUME NEW u, InBytes(u)
             PROVE  /\ Listings(p, u) \in Nat /\ Listings(q, u) = Listings(p, u)
                    /\ Listings(q, u) \in Nat /\ Listings(p, u) = Listings(q, u)
  BY DEF SameLists
<1>1. Cardinality(Held(q, loc, u)) = 0
  BY NothingHeld, FS_EmptySet
<1> QED  BY <1>1 DEF ListsMore

\* A field behind the others.
LEMMA FieldAppended ==
  ASSUME NEW max \in 1 .. 255, NEW p, Whole(p, max), NEW type \in Octet, NEW data \in Seq(Octet),
         Fits(p, max, Len(data) + 2), Sized(Len(data) + 1, type)
  PROVE  /\ Whole(p \o Field(type, data), max)
         /\ ListsMore(p \o Field(type, data), p, Len(p) + 1)
         /\ FieldOf(p \o Field(type, data), Len(p) + 1, type, data)
<1> DEFINE f == Field(type, data)
           q == p \o f
           loc == Len(p) + 1
           m == Len(data) + 2
<1>1. PICK S : Chain(p, S)
  BY DEF Whole
<1>2. p \in Seq(Octet) /\ Len(p) \in Nat /\ Len(data) \in Nat /\ Len(p) + m <= max
  BY LenProperties DEF Whole, Fits
<1>3. /\ f \in Seq(Octet) /\ Len(f) = m /\ f[1] = m - 1 /\ f[2] = type
      /\ \A j \in 1 .. Len(data) : f[2 + j] = data[j]
  BY <1>2, FieldBytes
<1> HIDE DEF f
<1>4. /\ q \in Seq(Octet) /\ Len(q) = Len(p) + Len(f)
      /\ \A i \in 1 .. Len(p) : q[i] = p[i]
      /\ \A i \in 1 .. Len(f) : q[Len(p) + i] = f[i]
  BY <1>2, <1>3, Joint
<1>5. q[loc] = m - 1 /\ q[loc + 1] = type
  <2>1. 1 \in 1 .. m /\ 2 \in 1 .. m /\ Len(p) + 2 = loc + 1
    BY <1>2
  <2> QED  BY <1>3, <1>4, <2>1
<1> HIDE DEF q
<1>6. loc \in S
  BY <1>1 DEF Chain
<1>7. Sized(m - 1, q[loc + 1])
  <2>1. m - 1 = Len(data) + 1
    BY <1>2
  <2> QED  BY <1>5, <2>1
<1>8. m \in Nat /\ SplicedAt(p, q, loc, 0, m)
  BY <1>2, <1>3, <1>4, <1>5, <1>7 DEF SplicedAt
<1> HIDE DEF loc, m
<1>9. \E T : Chain(q, T)
  BY <1>1, <1>2, <1>4, <1>6, <1>8, Spliced
<1>10. Len(q) <= max
  BY <1>2, <1>3, <1>4 DEF m
<1>11. ListsMore(q, p, loc)
  <2> SUFFICES ASSUME NEW u, InBytes(u)
               PROVE  /\ Listings(p, u) \in Nat /\ IsFiniteSet(Held(q, loc, u))
                      /\ Listings(q, u) = Listings(p, u) + Cardinality(Held(q, loc, u))
    BY DEF ListsMore
  <2>1. /\ HeldIn(p, loc, 0, u) = {} /\ HeldIn(q, loc, m, u) = Held(q, loc, u)
        /\ Cardinality({}) = 0
    <3>1. m # 0
      BY <1>2 DEF m
    <3> QED  BY <3>1, FS_EmptySet DEF HeldIn
  <2>2. /\ Listings(p, u) \in Nat /\ Listings(q, u) \in Nat /\ IsFiniteSet(Held(q, loc, u))
        /\ Cardinality(Held(q, loc, u)) \in Nat
        /\ Listings(q, u) + 0 = Listings(p, u) + Cardinality(Held(q, loc, u))
    <3>1. 0 \in Nat
      OBVIOUS
    <3>2. /\ Listings(p, u) \in Nat /\ Listings(q, u) \in Nat
          /\ IsFiniteSet(HeldIn(q, loc, m, u)) /\ Cardinality(HeldIn(q, loc, m, u)) \in Nat
          /\ Listings(q, u) + Cardinality(HeldIn(p, loc, 0, u))
               = Listings(p, u) + Cardinality(HeldIn(q, loc, m, u))
      BY <1>1, <1>2, <1>4, <1>6, <1>8, <3>1, Recounted
    <3> QED  BY <2>1, <3>2
  <2> QED  BY <2>2
<1>12. FieldOf(q, loc, type, data)
  <2>1. loc \in Nat \ {0} /\ q[loc] = Len(data) + 1 /\ loc + (Len(data) + 1) <= Len(q)
    BY <1>2, <1>3, <1>4, <1>5 DEF loc, m
  <2>2. Len(data) + 1 \in Nat \ {0}
    BY <1>2
  <2>3. ASSUME NEW j \in 1 .. Len(data)  PROVE q[(loc + 2) + j - 1] = data[j]
    <3>1. 2 + j \in 1 .. Len(f) /\ (loc + 2) + j - 1 = Len(p) + (2 + j)
      BY <1>2, <1>3 DEF loc, m
    <3> QED  BY <1>3, <1>4, <3>1
  <2> QED  BY <1>5, <2>1, <2>2, <2>3 DEF FieldOf, FieldIn
<1> QED  BY <1>4, <1>9, <1>10, <1>11, <1>12 DEF Whole, q, f, loc

\* What is left when some bytes go.
LEMMA BytesGone ==
  ASSUME NEW p \in Seq(Octet), NEW first \in Nat \ {0}, NEW count \in Nat,
         first + count <= Len(p) + 1
  PROVE  /\ WithoutBytes(p, first, count) \in Seq(Octet)
         /\ Len(WithoutBytes(p, first, count)) = Len(p) - count
         /\ \A i \in 1 .. first - 1 : WithoutBytes(p, first, count)[i] = p[i]
         /\ \A i \in first + count .. Len(p) : WithoutBytes(p, first, count)[i - count] = p[i]
<1> DEFINE a == SubSeq(p, 1, first - 1)
           b == SubSeq(p, first + count, Len(p))
           q == WithoutBytes(p, first, count)
<1>1. Len(p) \in Nat
  BY LenProperties
<1>2. /\ a \in Seq(Octet) /\ Len(a) = first - 1
      /\ \A i \in 1 .. first - 1 : a[i] = p[i]
  <2>1. 1 \in Nat \ {0} /\ first - 1 \in Nat /\ first - 1 <= Len(p) /\ 1 <= (first - 1) + 1
    BY <1>1
  <2>2. /\ a \in Seq(Octet) /\ Len(a) = (first - 1) - 1 + 1
        /\ \A i \in 1 .. (first - 1) - 1 + 1 : a[i] = p[1 + i - 1]
    BY <2>1, Part
  <2> HIDE DEF a
  <2>3. (first - 1) - 1 + 1 = first - 1 /\ \A i \in 1 .. first - 1 : 1 + i - 1 = i
    OBVIOUS
  <2> QED  BY <2>2, <2>3
<1>3. /\ b \in Seq(Octet) /\ Len(b) = Len(p) - (first + count) + 1
      /\ \A i \in 1 .. Len(p) - (first + count) + 1 : b[i] = p[(first + count) + i - 1]
  <2>1. first + count \in Nat \ {0}
    OBVIOUS
  <2> QED  BY <1>1, <2>1, Part
<1>4. q = a \o b
  BY DEF WithoutBytes
<1> HIDE DEF a, b, q
<1>5. /\ q \in Seq(Octet) /\ Len(q) = Len(a) + Len(b)
      /\ \A i \in 1 .. Len(a) : q[i] = a[i]
      /\ \A i \in 1 .. Len(b) : q[Len(a) + i] = b[i]
  BY <1>2, <1>3, <1>4, Joint
<1>6. Len(q) = Len(p) - count
  BY <1>1, <1>2, <1>3, <1>5
<1>7. ASSUME NEW i \in first + count .. Len(p)  PROVE q[i - count] = p[i]
  <2> DEFINE j == i - (first + count) + 1
  <2>1. /\ j \in 1 .. Len(p) - (first + count) + 1 /\ Len(a) + j = i - count
        /\ (first + count) + j - 1 = i /\ j \in 1 .. Len(b)
    BY <1>1, <1>2, <1>3
  <2> HIDE DEF j
  <2>2. q[Len(a) + j] = b[j] /\ b[j] = p[(first + count) + j - 1]
    BY <1>3, <1>5, <2>1
  <2> QED  BY <2>1, <2>2
<1>8. \A i \in 1 .. first - 1 : q[i] = p[i]
  BY <1>2, <1>5
<1> QED  BY <1>5, <1>6, <1>7, <1>8 DEF q

LEMMA FieldAt ==
  ASSUME NEW p \in Seq(Octet), NEW S, Chain(p, S), NEW type,
         NEW loc, loc = getDataLocation(p, type), loc # 0
  PROVE  /\ loc \in S /\ loc \in Nat \ {0} /\ loc < Len(p) /\ p[loc] \in 1 .. 255
         /\ loc + p[loc] + 1 \in S /\ loc + p[loc] + 1 <= Len(p) + 1
         /\ p[loc + 1] = type /\ Sized(p[loc], type)
<1>1. loc \in S /\ loc < Len(p) /\ p[loc + 1] = type
  BY FieldLocated
<1>2. S \subseteq 1 .. Len(p) + 1 /\ Len(p) \in Nat
  BY LenProperties DEF Chain
<1>3. loc <= Len(p)
  BY <1>1, <1>2
<1>4. Sized(p[loc], p[loc + 1])
  BY <1>1, <1>3 DEF Chain
<1> QED  BY <1>1, <1>3, <1>4, ChainStep

LEMMA FieldGone ==
  ASSUME NEW max \in 1 .. 255, NEW p, Whole(p, max), NEW type
  PROVE  /\ Whole(WithoutField(p, type), max)
         /\ getDataLocation(p, type) # 0 => ListsMore(p, WithoutField(p, type), getDataLocation(p, type))
<1> DEFINE loc == getDataLocation(p, type)
           n == p[loc] + 1
           q == WithoutBytes(p, loc, n)
<1>1. PICK S : Chain(p, S)
  BY DEF Whole
<1>2. p \in Seq(Octet) /\ Len(p) \in Nat /\ Len(p) <= max
  BY LenProperties DEF Whole
<1>3. CASE loc = 0
  <2>1. WithoutField(p, type) = p
    BY <1>3 DEF WithoutField
  <2> QED  BY <1>3, <2>1
<1>4. CASE loc # 0
  <2>1. /\ loc \in S /\ loc \in Nat \ {0} /\ loc < Len(p) /\ p[loc] \in 1 .. 255
        /\ loc + p[loc] + 1 <= Len(p) + 1
    BY <1>1, <1>2, <1>4, FieldAt
  <2>2. WithoutField(p, type) = q
    BY <1>4 DEF WithoutField
  <2> HIDE DEF loc
  <2>3. loc <= Len(p)
    BY <1>2, <2>1
  <2>4. n \in Nat /\ loc + n <= Len(p) + 1
    <3> DEFINE e == p[loc]
    <3>1. e \in 1 .. 255 /\ loc + e + 1 <= Len(p) + 1
      BY <2>1
    <3> HIDE DEF e
    <3>2. e + 1 \in Nat /\ loc + (e + 1) <= Len(p) + 1
      BY <1>2, <2>1, <3>1
    <3> QED  BY <3>2 DEF e
  <2>5. n = p[loc] + 1
    OBVIOUS
  <2> HIDE DEF n
  <2>6. /\ q \in Seq(Octet) /\ Len(q) = Len(p) - n
        /\ \A i \in 1 .. loc - 1 : q[i] = p[i]
        /\ \A i \in loc + n .. Len(p) : q[i - n] = p[i]
    BY <1>2, <2>1, <2>4, BytesGone
  <2> HIDE DEF q
  <2>7. SplicedAt(p, q, loc, n, 0)
    <3>1. Len(q) = Len(p) - n + 0
      <4>1. Len(p) \in Nat /\ n \in Nat /\ Len(q) = Len(p) - n
        BY <1>2, <2>4, <2>6
      <4> QED  BY <4>1
    <3>2. ASSUME NEW i \in loc + n .. Len(p)  PROVE q[i - n + 0] = p[i]
      <4>1. i - n + 0 = i - n
        BY <2>1, <2>4
      <4> QED  BY <2>6, <4>1
    <3> QED  BY <2>3, <2>5, <2>6, <3>1, <3>2 DEF SplicedAt
  <2>8. \E T : Chain(q, T)
    BY <1>1, <1>2, <2>1, <2>4, <2>6, <2>7, Spliced
  <2>9. Len(q) <= max
    <3>1. /\ Len(p) \in Nat /\ n \in Nat /\ max \in Nat /\ Len(p) <= max
          /\ Len(q) = Len(p) - n
      BY <1>2, <2>4, <2>6
    <3> QED  BY <3>1
  <2>10. ListsMore(p, q, loc)
    <3> SUFFICES ASSUME NEW u, InBytes(u)
                 PROVE  /\ Listings(q, u) \in Nat /\ IsFiniteSet(Held(p, loc, u))
                        /\ Listings(p, u) = Listings(q, u) + Cardinality(Held(p, loc, u))
      BY DEF ListsMore
    <3>1. /\ HeldIn(q, loc, 0, u) = {} /\ HeldIn(p, loc, n, u) = Held(p, loc, u)
          /\ Cardinality({}) = 0
      <4>1. n # 0
        <5> DEFINE e == p[loc]
        <5>1. e \in 1 .. 255 /\ n = e + 1
          BY <2>1, <2>5
        <5> HIDE DEF e
        <5> QED  BY <5>1
      <4> QED  BY <4>1, FS_EmptySet DEF HeldIn
    <3>2. /\ Listings(p, u) \in Nat /\ Listings(q, u) \in Nat /\ IsFiniteSet(Held(p, loc, u))
          /\ Cardinality(Held(p, loc, u)) \in Nat
          /\ Listings(q, u) + Cardinality(Held(p, loc, u)) = Listings(p, u) + 0
      <4>1. 0 \in Nat
        OBVIOUS
      <4>2. /\ Listings(p, u) \in Nat /\ Listings(q, u) \in Nat
            /\ IsFiniteSet(HeldIn(p, loc, n, u)) /\ Cardinality(HeldIn(p, loc, n, u)) \in Nat
            /\ Listings(q, u) + Cardinality(HeldIn(p, loc, n, u))
                 = Listings(p, u) + Cardinality(HeldIn(q, loc, 0, u))
        BY <1>1, <1>2, <2>1, <2>4, <2>6, <2>7, <4>1, Recounted
      <4> QED  BY <3>1, <4>2
    <3> QED  BY <3>2
  <2> QED  BY <2>2, <2>6, <2>8, <2>9, <2>10 DEF Whole, loc
<1> QED  BY <1>3, <1>4

LEMMA NothingGone ==
  ASSUME NEW max \in 1 .. 255, NEW p, Whole(p, max), NEW type, type \notin {2, 3, 4, 5, 6, 7}
  PROVE  SameLists(WithoutField(p, type), p)
<1> DEFINE loc == getDataLocation(p, type)
           q == WithoutField(p, type)
<1>1. CASE loc = 0
  <2>1. q = p
    BY <1>1 DEF WithoutField
  <2> QED  BY <2>1, SameListsItself
<1>2. CASE loc # 0
  <2>1. PICK S : Chain(p, S)
    BY DEF Whole
  <2>2. p[loc + 1] = type
    BY <1>2, <2>1, FieldAt DEF Whole
  <2>3. ListsMore(p, q, loc)
    BY <1>2, FieldGone
  <2> HIDE DEF loc, q
  <2>4. SameLists(q, p)
    BY <2>2, <2>3, NothingListed
  <2> QED  BY <2>4 DEF q
<1> QED  BY <1>1, <1>2

\* The list of the UUID's size grows by it.

LEMMA ListGrown ==
  ASSUME NEW max \in 1 .. 255, NEW p, Whole(p, max), NEW S, Chain(p, S),
         NEW id, InBytes(id), Fits(p, max, Len(id)),
         NEW loc, loc = getDataLocation(p, COMP_UUIDS(Len(id))), loc # 0
  PROVE  Whole(WithUuid(p, id), max) /\ Relisted(WithUuid(p, id), p, id, 1)
<1> DEFINE k == Len(id)
           e == p[loc]
           end == loc + e
           a == SubSeq(p, 1, end)
           b == [a EXCEPT ![loc] = @ + k]
           c == SubSeq(p, end + 1, Len(p))
           bu == b \o id
           q == bu \o c
<1>1. p \in Seq(Octet) /\ Len(p) \in Nat /\ Len(p) <= max
  BY LenProperties DEF Whole
<1>2. k \in {2, 4, 16} /\ k \in Nat /\ Len(p) + k <= max /\ id \in Seq(Octet)
  BY DEF InBytes, Fits
<1>3. /\ loc \in S /\ loc \in Nat \ {0} /\ loc < Len(p) /\ e \in 1 .. 255
      /\ loc + e + 1 <= Len(p) + 1
      /\ p[loc + 1] = COMP_UUIDS(k) /\ Sized(e, COMP_UUIDS(k))
  <2> DEFINE type == COMP_UUIDS(k)
  <2> HIDE DEF type
  <2>1. loc = getDataLocation(p, type)
    BY DEF type
  <2>2. /\ loc \in S /\ loc \in Nat \ {0} /\ loc < Len(p) /\ p[loc] \in 1 .. 255
        /\ loc + p[loc] + 1 <= Len(p) + 1
        /\ p[loc + 1] = type /\ Sized(p[loc], type)
    BY <1>1, <2>1, FieldAt
  <2> QED  BY <2>2 DEF type
<1>4. /\ end \in Nat /\ end <= Len(p) /\ loc <= end /\ loc + 1 <= end /\ loc \in 1 .. end
      /\ e \in Octet /\ e + k \in Octet /\ end = loc + e
  <2> HIDE DEF e, k
  <2>1. e \in 1 .. 255 /\ loc \in Nat \ {0} /\ loc + e + 1 <= Len(p) + 1
    BY <1>3
  <2>2. e + k <= 255
    <3>1. /\ Len(p) \in Nat /\ k \in Nat /\ Len(p) + k <= max
          /\ e \in Nat /\ loc \in Nat /\ loc # 0 /\ loc + e + 1 <= Len(p) + 1
      BY <1>1, <1>2, <2>1
    <3>2. max \in Nat /\ max <= 255
      OBVIOUS
    <3> DEFINE L == Len(p)
    <3>3. L \in Nat /\ L + k <= max /\ loc + e + 1 <= L + 1
      BY <3>1
    <3> HIDE DEF L
    <3> QED  BY <3>1, <3>2, <3>3
  <2>3. e \in Octet /\ e + k \in Octet
    <3>1. e \in Nat /\ k \in Nat /\ e <= 255
      BY <1>2, <2>1
    <3> QED  BY <2>2, <3>1 DEF Octet
  <2>4. end \in Nat /\ end <= Len(p) /\ loc + 1 <= end /\ loc <= end /\ loc \in 1 .. end
    <3>1. /\ Len(p) \in Nat /\ e \in Nat /\ e # 0 /\ loc \in Nat /\ loc # 0
          /\ loc + e + 1 <= Len(p) + 1
      BY <1>1, <2>1
    <3> QED  BY <3>1
  <2> QED  BY <2>3, <2>4
<1>5. /\ a \in Seq(Octet) /\ Len(a) = end /\ \A i \in 1 .. end : a[i] = p[i]
  <2>1. 1 \in Nat \ {0} /\ 1 <= end + 1 /\ end - 1 + 1 = end /\ \A i \in 1 .. end : 1 + i - 1 = i
    BY <1>4
  <2> HIDE DEF end
  <2>2. /\ a \in Seq(Octet) /\ Len(a) = end - 1 + 1
        /\ \A i \in 1 .. end - 1 + 1 : a[i] = p[1 + i - 1]
    BY <1>1, <1>4, <2>1, Part
  <2> HIDE DEF a
  <2> QED  BY <2>1, <2>2
<1>6. a[loc] = e
  BY <1>4, <1>5
<1>7. /\ b \in Seq(Octet) /\ Len(b) = end /\ b[loc] = e + k
      /\ \A i \in 1 .. end : i # loc => b[i] = p[i]
  <2> HIDE DEF a, e, k, end
  <2>1. b = [a EXCEPT ![loc] = e + k]
    BY <1>6
  <2>2. /\ b \in Seq(Octet) /\ Len(b) = Len(a)
        /\ \A i \in 1 .. Len(a) : b[i] = IF i = loc THEN e + k ELSE a[i]
    BY <1>4, <1>5, <2>1, ExceptSeq
  <2> HIDE DEF b
  <2> QED  BY <1>4, <1>5, <2>2
<1>8. /\ c \in Seq(Octet) /\ Len(c) = Len(p) - end
      /\ \A i \in 1 .. Len(p) - end : c[i] = p[end + i]
  <2> HIDE DEF end
  <2>1. end + 1 \in Nat \ {0} /\ end + 1 <= Len(p) + 1
    BY <1>1, <1>4
  <2>2. /\ c \in Seq(Octet) /\ Len(c) = Len(p) - (end + 1) + 1
        /\ \A i \in 1 .. Len(p) - (end + 1) + 1 : c[i] = p[(end + 1) + i - 1]
    BY <1>1, <2>1, Part, SMTT(30)
  <2> HIDE DEF c
  <2>3. /\ Len(p) - (end + 1) + 1 = Len(p) - end
        /\ \A i \in 1 .. Len(p) - end : (end + 1) + i - 1 = end + i
    BY <1>1, <1>4
  <2> QED  BY <2>2, <2>3
<1> HIDE DEF a, b, c
<1>9. /\ bu \in Seq(Octet) /\ Len(bu) = Len(b) + Len(id)
      /\ \A i \in 1 .. Len(b) : bu[i] = b[i]
      /\ \A i \in 1 .. Len(id) : bu[Len(b) + i] = id[i]
  BY <1>2, <1>7, Joint
<1> HIDE DEF bu
<1>10. /\ q \in Seq(Octet) /\ Len(q) = Len(bu) + Len(c)
       /\ \A i \in 1 .. Len(bu) : q[i] = bu[i]
       /\ \A i \in 1 .. Len(c) : q[Len(bu) + i] = c[i]
  BY <1>8, <1>9, Joint
<1>11. q = [SubSeq(p, 1, loc + p[loc]) EXCEPT ![loc] = @ + Len(id)] \o id
             \o SubSeq(p, loc + p[loc] + 1, Len(p))
  BY DEF a, b, c, bu
<1> DEFINE n == e + 1
           m == e + k + 1
<1> HIDE DEF q, end, e, k
<1>12. end = loc + e /\ e = p[loc] /\ k = Len(id)
  BY DEF end, e, k
<1>13. Len(q) = Len(p) + k /\ Len(bu) = end + k /\ Len(b) = end
  <2>1. Len(b) = end /\ Len(bu) = Len(b) + k /\ Len(c) = Len(p) - end /\ Len(q) = Len(bu) + Len(c)
    BY <1>7, <1>8, <1>9, <1>10, <1>12
  <2> QED  BY <1>1, <1>2, <1>4, <2>1
<1>14. ASSUME NEW i \in 1 .. end, i # loc  PROVE q[i] = p[i]
  <2>1. i \in 1 .. Len(b) /\ i \in 1 .. Len(bu)
    BY <1>1, <1>2, <1>4, <1>13
  <2> QED  BY <1>7, <1>9, <1>10, <1>14, <2>1
<1>15. q[loc] = e + k
  <2>1. loc \in 1 .. Len(b) /\ loc \in 1 .. Len(bu)
    BY <1>1, <1>2, <1>4, <1>13
  <2> QED  BY <1>7, <1>9, <1>10, <2>1
<1>16. ASSUME NEW i \in end + 1 .. Len(p)  PROVE q[i + k] = p[i]
  <2>1. /\ i - end \in 1 .. Len(p) - end /\ i - end \in 1 .. Len(c)
        /\ end + (i - end) = i /\ Len(bu) + (i - end) = i + k
    <3>1. /\ end \in Nat /\ Len(p) \in Nat /\ k \in Nat /\ Len(c) = Len(p) - end
          /\ Len(bu) = end + k
      BY <1>1, <1>2, <1>4, <1>8, <1>13
    <3> QED  BY <3>1
  <2>2. q[Len(bu) + (i - end)] = c[i - end] /\ c[i - end] = p[end + (i - end)]
    BY <1>8, <1>10, <2>1
  <2> QED  BY <2>1, <2>2
<1>17. SplicedAt(p, q, loc, n, m)
  <2>1. Len(q) = Len(p) - n + m
    BY <1>1, <1>2, <1>3, <1>13
  <2>2. \A i \in 1 .. loc - 1 : q[i] = p[i]
    BY <1>4, <1>14
  <2>3. ASSUME NEW i \in loc + n .. Len(p)  PROVE q[i - n + m] = p[i]
    <3>1. i \in end + 1 .. Len(p) /\ i - n + m = i + k
      <4>1. e \in 1 .. 255 /\ loc \in Nat /\ k \in Nat /\ end = loc + e /\ Len(p) \in Nat
        BY <1>1, <1>2, <1>3, <1>4
      <4> QED  BY <4>1
    <3> QED  BY <1>16, <3>1
  <2>4. m >= 2 /\ m - 1 = e + k /\ q[loc] = m - 1
    BY <1>1, <1>2, <1>3, <1>15
  <2>5. q[loc + 1] = COMP_UUIDS(k)
    <3>1. loc + 1 \in 1 .. end /\ loc + 1 # loc
      BY <1>4
    <3> QED  BY <1>2, <1>3, <1>14, <3>1
  <2>6. Sized(e + k, COMP_UUIDS(k))
    <3>1. (e - 1) % k = 0
      BY <1>2, <1>3, ListTypeOf, SizedList
    <3>2. ((e + k) - 1) % k = 0
      BY <1>1, <1>2, <1>3, <3>1, WholeUuids
    <3> QED  BY <1>2, <3>2, ListTypeOf, SizedList
  <2>7. loc <= Len(p) /\ n = p[loc] + 1
    BY <1>1, <1>2, <1>3, <1>12
  <2> HIDE DEF n, m
  <2> QED  BY <2>1, <2>2, <2>3, <2>4, <2>5, <2>6, <2>7 DEF SplicedAt
<1>18. n \in Nat /\ m \in Nat
  BY <1>1, <1>2, <1>3
<1> HIDE DEF n, m
<1>19. \E T : Chain(q, T)
  BY <1>1, <1>2, <1>3, <1>10, <1>17, <1>18, Spliced
<1>20. Len(q) <= max
  BY <1>2, <1>13
\* One UUID more at the end.
<1>21. /\ e \in Nat \ {0} /\ k \in Nat \ {0} /\ loc \in Nat \ {0} /\ end = loc + e /\ Len(p) \in Nat
       /\ end <= Len(p) /\ Len(q) = Len(p) + k /\ end \in Nat
  <2>1. k \in Nat \ {0}
    BY <1>2
  <2>2. e \in Nat \ {0}
    BY <1>3
  <2> QED  BY <1>1, <1>3, <1>4, <1>12, <1>13, <2>1, <2>2
<1>22. UuidAt(q, end + 1, id)
  <2>1. ASSUME NEW j \in 1 .. k  PROVE q[(end + 1) + j - 1] = id[j]
    <3>1. (end + 1) + j - 1 = Len(b) + j /\ Len(b) + j \in 1 .. Len(bu)
      BY <1>2, <1>4, <1>13
    <3>2. bu[Len(b) + j] = id[j]
      BY <1>9, <1>12
    <3> QED  BY <1>10, <3>1, <3>2
  <2> QED  BY <2>1 DEF UuidAt, k
<1>23. q[loc + 1] = COMP_UUIDS(k) /\ p[loc + 1] = COMP_UUIDS(k)
  <2>1. loc + 1 \in 1 .. end /\ loc + 1 # loc
    BY <1>4
  <2> QED  BY <1>3, <1>14, <2>1
<1>24. FieldIn(p, loc) /\ FieldIn(q, loc)
  <2>1. e \in Nat \ {0} /\ e + k \in Nat \ {0} /\ loc + e <= Len(p) /\ loc + (e + k) <= Len(q)
    BY <1>21
  <2> QED  BY <1>3, <1>12, <1>15, <2>1 DEF FieldIn
<1>25. ASSUME NEW x \in Nat, loc + 2 <= x, (x - loc - 2) % k = 0, x + k <= loc + (e + k) + 1
       PROVE  x = end + 1 \/ x + k <= loc + e + 1
  <2>1. (e - 1) % k = 0
    BY <1>2, <1>3, ListTypeOf, SizedList
  <2>2. x = loc + e + 1 \/ x + k <= loc + e + 1
    BY <1>2, <1>3, <1>25, <2>1, PlaceOrEnd
  <2> QED  BY <1>21, <2>2
<1>26. ((end + 1) - loc - 2) % k = 0
  <2>1. (e - 1) % k = 0
    BY <1>2, <1>3, ListTypeOf, SizedList
  <2>2. (end + 1) - loc - 2 = e - 1
    BY <1>3, <1>12
  <2> QED  BY <2>1, <2>2
<1>27. ASSUME NEW u, InBytes(u), NEW x \in Nat, loc + 2 <= x, x + Len(u) <= loc + e + 1
       PROVE  UuidAt(p, x, u) <=> UuidAt(q, x, u)
  <2>1. Len(u) \in Nat
    BY DEF InBytes
  <2>2. \A j \in 1 .. Len(u) : x + j - 1 \in 1 .. end /\ x + j - 1 # loc
    BY <1>21, <1>27, <2>1
  <2>3. \A j \in 1 .. Len(u) : q[x + j - 1] = p[x + j - 1]
    BY <1>14, <2>2
  <2> QED  BY <2>3 DEF UuidAt
<1>28. ASSUME NEW u, InBytes(u), NEW x
       PROVE  x \in Held(q, loc, u) <=> x \in Held(p, loc, u) \/ (x = end + 1 /\ u = id)
  <2>1. (x \in Held(q, loc, u) <=> PlaceIn(q, loc, u, x)) /\ (x \in Held(p, loc, u) <=> PlaceIn(p, loc, u, x))
    BY <1>1, <1>10, <1>24, <1>28, HeldPlaces
  <2>2. COMP_UUIDS(k) \in ListsOf(Len(u)) <=> Len(u) = k
    BY <1>2, <1>28, ListTypeOf DEF InBytes
  <2>3. CASE Len(u) = k
    <3>1. PlaceIn(q, loc, u, x) <=> /\ x \in Nat /\ loc + 2 <= x /\ x + k <= loc + (e + k) + 1
                                    /\ (x - loc - 2) % k = 0 /\ UuidAt(q, x, u)
      BY <1>15, <1>23, <2>2, <2>3 DEF PlaceIn
    <3>2. PlaceIn(p, loc, u, x) <=> /\ x \in Nat /\ loc + 2 <= x /\ x + k <= loc + e + 1
                                    /\ (x - loc - 2) % k = 0 /\ UuidAt(p, x, u)
      BY <1>12, <1>23, <2>2, <2>3 DEF PlaceIn
    <3>3. UuidAt(q, end + 1, u) <=> u = id
      BY <1>22, <1>28, <2>3, SameUuid DEF k
    <3>4. /\ end + 1 \in Nat /\ loc + 2 <= end + 1 /\ (end + 1) + k <= loc + (e + k) + 1
          /\ ~((end + 1) + k <= loc + e + 1)
          /\ x \in Nat /\ x + k <= loc + e + 1 => x + k <= loc + (e + k) + 1
      BY <1>21
    <3>5. CASE x = end + 1
      BY <1>26, <2>1, <3>1, <3>2, <3>3, <3>4, <3>5
    <3>6. CASE x # end + 1
      <4>1. x \in Nat /\ loc + 2 <= x /\ x + k <= loc + e + 1 => (UuidAt(p, x, u) <=> UuidAt(q, x, u))
        BY <1>27, <1>28, <2>3
      <4> QED  BY <1>25, <2>1, <3>1, <3>2, <3>4, <3>6, <4>1
    <3> QED  BY <3>5, <3>6
  <2>4. CASE Len(u) # k
    BY <1>12, <1>23, <2>1, <2>2, <2>4 DEF PlaceIn
  <2> QED  BY <2>3, <2>4
<1>29. Relisted(q, p, id, 1)
  <2> SUFFICES ASSUME NEW u, InBytes(u)
               PROVE  /\ Listings(p, u) \in Nat
                      /\ Listings(q, u) = Listings(p, u) + (IF u = id THEN 1 ELSE 0)
    BY DEF Relisted
  <2> DEFINE H == Held(p, loc, u)
             G == Held(q, loc, u)
  <2>1. HeldIn(p, loc, n, u) = H /\ HeldIn(q, loc, m, u) = G
    <3>1. n # 0 /\ m # 0
      BY <1>2, <1>3 DEF n, m
    <3> QED  BY <3>1 DEF HeldIn
  <2> HIDE DEF H, G
  <2>2. /\ Listings(p, u) \in Nat /\ Listings(q, u) \in Nat /\ IsFiniteSet(H)
        /\ Cardinality(H) \in Nat /\ Cardinality(G) \in Nat
        /\ Listings(q, u) + Cardinality(H) = Listings(p, u) + Cardinality(G)
    <3>1. /\ Listings(p, u) \in Nat /\ Listings(q, u) \in Nat
          /\ IsFiniteSet(HeldIn(p, loc, n, u))
          /\ Cardinality(HeldIn(p, loc, n, u)) \in Nat /\ Cardinality(HeldIn(q, loc, m, u)) \in Nat
          /\ Listings(q, u) + Cardinality(HeldIn(p, loc, n, u))
               = Listings(p, u) + Cardinality(HeldIn(q, loc, m, u))
      BY <1>1, <1>3, <1>10, <1>17, <1>18, Recounted
    <3> QED  BY <2>1, <3>1
  <2>3. \A x : x \in G <=> x \in H \/ (x = end + 1 /\ u = id)
    BY <1>28 DEF G, H
  <2>4. CASE u = id
    <3>1. G = H \cup {end + 1}
      BY <2>3, <2>4
    <3>2. end + 1 \notin H
      <4>1. end + 1 \in H => (end + 1) + Len(u) <= loc + e + 1
        BY <1>1, <1>12, <1>24, HeldPlaces DEF H, PlaceIn
      <4>2. Len(u) \in Nat /\ Len(u) # 0
        BY <1>2, <1>12, <2>4
      <4> QED  BY <1>3, <1>4, <4>1, <4>2
    <3>3. Cardinality(G) = Cardinality(H) + 1
      BY <2>2, <3>1, <3>2, FS_AddElement
    <3> QED  BY <2>2, <2>4, <3>3
  <2>5. CASE u # id
    <3>1. G = H
      BY <2>3, <2>5
    <3> QED  BY <2>2, <2>5, <3>1
  <2> QED  BY <2>4, <2>5
<1>30. q = WithUuid(p, id)
  <2> DEFINE type == COMP_UUIDS(Len(id))
  <2>1. getDataLocation(p, type) # 0 /\ getDataLocation(p, type) = loc
    OBVIOUS
  <2> QED  BY <1>11, <2>1 DEF WithUuid
<1> QED  BY <1>10, <1>19, <1>20, <1>29, <1>30 DEF Whole

\* Or shrinks by it, where it holds more.
LEMMA BytesBehind ==
  ASSUME NEW N \in Nat, NEW k \in Nat, NEW loc \in Nat, NEW e \in Nat, NEW first \in Nat, NEW x \in Nat,
         loc + 2 <= first, first + k <= x, loc + e <= N, x + k <= loc + e + 1
  PROVE  \A j \in 1 .. k : /\ x + j - 1 \in first + k .. N /\ x + j - 1 \in 1 .. N
                           /\ x + j - 1 # loc /\ (x - k) + j - 1 = (x + j - 1) - k
<1> QED  OBVIOUS

LEMMA ListShrunk ==
  ASSUME NEW max \in 1 .. 255, NEW p, Whole(p, max), NEW S, Chain(p, S),
         NEW id, InBytes(id),
         NEW loc, loc = getDataLocation(p, COMP_UUIDS(Len(id))), loc # 0,
         NEW first \in Matches(p, loc, id), first <= loc + p[loc], p[loc] - Len(id) # 1
  PROVE  /\ Whole(WithoutBytes([p EXCEPT ![loc] = @ - Len(id)], first, Len(id)), max)
         /\ Relisted(WithoutBytes([p EXCEPT ![loc] = @ - Len(id)], first, Len(id)), p, id, -1)
<1> DEFINE k == Len(id)
           e == p[loc]
           b == [p EXCEPT ![loc] = @ - k]
           q == WithoutBytes(b, first, k)
<1>1. p \in Seq(Octet) /\ Len(p) \in Nat /\ Len(p) <= max
  BY LenProperties DEF Whole
<1>2. k \in {2, 4, 16} /\ k \in Nat
  BY DEF InBytes
<1>3. /\ loc \in S /\ loc \in Nat \ {0} /\ loc < Len(p) /\ e \in 1 .. 255
      /\ loc + e + 1 <= Len(p) + 1
      /\ p[loc + 1] = COMP_UUIDS(k) /\ Sized(e, COMP_UUIDS(k))
  <2> DEFINE type == COMP_UUIDS(k)
  <2> HIDE DEF type
  <2>1. loc = getDataLocation(p, type)
    BY DEF type
  <2>2. /\ loc \in S /\ loc \in Nat \ {0} /\ loc < Len(p) /\ p[loc] \in 1 .. 255
        /\ loc + p[loc] + 1 <= Len(p) + 1
        /\ p[loc + 1] = type /\ Sized(p[loc], type)
    BY <1>1, <2>1, FieldAt
  <2> QED  BY <2>2 DEF type
<1>4. /\ first \in loc + 2 .. Len(p) - k + 1 /\ (first - loc - 2) % k = 0
      /\ first <= loc + e /\ e - k # 1
  BY DEF Matches
<1> HIDE DEF e, k, b, q
<1>5. first \in Nat \ {0} /\ first >= loc + 2 /\ first + k <= Len(p) + 1
  BY <1>1, <1>2, <1>3, <1>4
<1>6. first + k <= loc + e + 1 /\ e - k \in 2 .. 255 /\ ((e - k) - 1) % k = 0
  <2>1. (e - 1) % k = 0
    BY <1>2, <1>3, ListTypeOf, SizedList
  <2> DEFINE d == first - loc - 2
  <2>2. d \in Nat /\ d % k = 0 /\ d < e - 1 /\ first = loc + 2 + d
    <3>1. loc \in Nat /\ e \in 1 .. 255 /\ first \in Nat /\ first >= loc + 2 /\ first <= loc + e
      BY <1>3, <1>4, <1>5
    <3>2. d \in Nat /\ d < e - 1 /\ first = loc + 2 + d
      BY <3>1
    <3> QED  BY <1>4, <3>2
  <2> HIDE DEF d
  <2>3. ((e - k) - 1) % k = 0 /\ d + k <= e - 1
    BY <1>2, <1>3, <2>1, <2>2, WholeUuids
  <2>4. first + k <= loc + e + 1 /\ e - k \in 2 .. 255
    <3>1. /\ loc \in Nat /\ e \in 1 .. 255 /\ k \in Nat /\ d \in Nat /\ d + k <= e - 1
          /\ e - k # 1 /\ first = loc + 2 + d
      BY <1>2, <1>3, <1>4, <2>2, <2>3
    <3> QED  BY <3>1
  <2> QED  BY <2>3, <2>4
<1>7. /\ b \in Seq(Octet) /\ Len(b) = Len(p) /\ b[loc] = e - k
      /\ \A i \in 1 .. Len(p) : i # loc => b[i] = p[i]
  <2>1. b = [p EXCEPT ![loc] = e - k]
    BY DEF b, e
  <2>2. loc \in 1 .. Len(p) /\ e - k \in Octet
    BY <1>1, <1>3, <1>6 DEF Octet
  <2>3. /\ b \in Seq(Octet) /\ Len(b) = Len(p)
        /\ \A i \in 1 .. Len(p) : b[i] = IF i = loc THEN e - k ELSE p[i]
    BY <1>1, <2>1, <2>2, ExceptSeq
  <2> QED  BY <2>2, <2>3
<1>8. /\ q \in Seq(Octet) /\ Len(q) = Len(p) - k
      /\ \A i \in 1 .. first - 1 : q[i] = b[i]
      /\ \A i \in first + k .. Len(p) : q[i - k] = b[i]
  <2>1. /\ q \in Seq(Octet) /\ Len(q) = Len(b) - k
        /\ \A i \in 1 .. first - 1 : q[i] = b[i]
        /\ \A i \in first + k .. Len(b) : q[i - k] = b[i]
    <3>1. first + k <= Len(b) + 1
      BY <1>5, <1>7
    <3> QED  BY <1>2, <1>5, <1>7, <3>1, BytesGone DEF q
  <2> QED  BY <1>7, <2>1
<1> DEFINE n == e + 1
           m == e - k + 1
<1>9. n \in Nat /\ m \in Nat /\ m >= 2 /\ m - 1 = e - k
  BY <1>2, <1>3, <1>6
<1>10. SplicedAt(p, q, loc, n, m)
  <2>1. Len(q) = Len(p) - n + m
    <3>1. Len(p) \in Nat /\ k \in Nat /\ e \in 1 .. 255 /\ Len(q) = Len(p) - k
      BY <1>1, <1>2, <1>3, <1>8
    <3> QED  BY <3>1
  <2>2. ASSUME NEW i \in 1 .. loc - 1  PROVE q[i] = p[i]
    <3>1. i \in 1 .. first - 1 /\ i \in 1 .. Len(p) /\ i # loc
      <4>1. Len(p) \in Nat /\ loc \in Nat /\ loc < Len(p) /\ first \in Nat /\ first >= loc + 2
        BY <1>1, <1>3, <1>5
      <4> QED  BY <4>1
    <3> QED  BY <1>7, <1>8, <3>1
  <2>3. ASSUME NEW i \in loc + n .. Len(p)  PROVE q[i - n + m] = p[i]
    <3>1. i \in first + k .. Len(p) /\ i - n + m = i - k /\ i \in 1 .. Len(p) /\ i # loc
      BY <1>1, <1>2, <1>3, <1>5, <1>6
    <3> QED  BY <1>7, <1>8, <3>1
  <2>4. q[loc] = m - 1
    <3>1. loc \in 1 .. first - 1
      BY <1>3, <1>5
    <3> QED  BY <1>7, <1>8, <1>9, <3>1
  <2>5. q[loc + 1] = COMP_UUIDS(k)
    <3>1. loc + 1 \in 1 .. first - 1 /\ loc + 1 \in 1 .. Len(p) /\ loc + 1 # loc
      <4>1. Len(p) \in Nat /\ loc \in Nat /\ loc < Len(p) /\ first \in Nat /\ first >= loc + 2
        BY <1>1, <1>3, <1>5
      <4> QED  BY <4>1
    <3> QED  BY <1>3, <1>7, <1>8, <3>1
  <2>6. Sized(m - 1, COMP_UUIDS(k))
    BY <1>2, <1>6, <1>9, ListTypeOf, SizedList
  <2>7. loc <= Len(p) /\ n = p[loc] + 1
    BY <1>1, <1>3 DEF e
  <2> HIDE DEF n, m
  <2> QED  BY <1>9, <2>1, <2>2, <2>3, <2>4, <2>5, <2>6, <2>7 DEF SplicedAt
<1> HIDE DEF n, m
<1>11. \E T : Chain(q, T)
  BY <1>1, <1>3, <1>8, <1>9, <1>10, Spliced
<1>12. Len(q) <= max
  <2>1. Len(p) \in Nat /\ k \in Nat /\ max \in Nat /\ Len(p) <= max /\ Len(q) = Len(p) - k
    BY <1>1, <1>2, <1>8
  <2> QED  BY <2>1
<1>13. Whole(q, max)
  BY <1>8, <1>11, <1>12 DEF Whole
\* One UUID less, the first of those that match.
<1>14. /\ e \in Nat \ {0} /\ k \in Nat \ {0} /\ loc \in Nat \ {0} /\ first \in Nat /\ loc + 2 <= first
       /\ first + k <= loc + e + 1 /\ e - k \in Nat \ {0} /\ loc + e <= Len(p) /\ Len(p) \in Nat
       /\ Len(q) = Len(p) - k
  <2>1. e \in Nat \ {0} /\ k \in Nat \ {0} /\ e - k \in Nat \ {0}
    <3>1. k \in Nat \ {0}
      BY <1>2
    <3>2. e \in Nat \ {0}
      BY <1>3
    <3>3. e - k \in Nat \ {0}
      <4>1. \A y \in 2 .. 255 : y \in Nat \ {0}
        OBVIOUS
      <4> QED  BY <1>6, <4>1
    <3> QED  BY <3>1, <3>2, <3>3
  <2> QED  BY <1>1, <1>3, <1>5, <1>6, <1>8, <2>1
<1>15. UuidAt(p, first, id)
  <2>1. id \in Seq(Octet) /\ first + Len(id) <= Len(p) + 1 /\ SubSeq(p, first, first + Len(id) - 1) = id
    BY <1>5 DEF Matches, InBytes, k
  <2> QED  BY <1>1, <1>5, <2>1, BytesAre
<1>16. FieldIn(p, loc) /\ FieldIn(q, loc)
  <2>1. q[loc] = e - k
    BY <1>9, <1>10 DEF SplicedAt
  <2>2. loc + e <= Len(p) /\ loc + (e - k) <= Len(q)
    BY <1>14
  <2> QED  BY <1>14, <2>1, <2>2 DEF FieldIn, e
<1>17. q[loc + 1] = COMP_UUIDS(k) /\ q[loc] = e - k
  <2>1. loc + 1 \in 1 .. first - 1 /\ loc + 1 \in 1 .. Len(p) /\ loc + 1 # loc
    BY <1>14
  <2> QED  BY <1>3, <1>7, <1>8, <1>9, <1>10, <2>1 DEF SplicedAt
<1>18. ASSUME NEW u, InBytes(u), Len(u) = k, NEW x \in Int
       PROVE  /\ x \in Held(p, loc, u) <=> /\ x \in Nat /\ loc + 2 <= x /\ x + k <= loc + e + 1
                                           /\ (x - loc - 2) % k = 0 /\ UuidAt(p, x, u)
              /\ x \in Held(q, loc, u) <=> /\ x \in Nat /\ loc + 2 <= x /\ x + k <= loc + (e - k) + 1
                                           /\ (x - loc - 2) % k = 0 /\ UuidAt(q, x, u)
  <2>1. (x \in Held(q, loc, u) <=> PlaceIn(q, loc, u, x)) /\ (x \in Held(p, loc, u) <=> PlaceIn(p, loc, u, x))
    BY <1>1, <1>8, <1>16, <1>18, HeldPlaces
  <2>2. COMP_UUIDS(k) \in ListsOf(Len(u))
    BY <1>2, <1>18, ListTypeOf
  <2> QED  BY <1>3, <1>17, <1>18, <2>1, <2>2 DEF PlaceIn, e
<1>19. ASSUME NEW u, InBytes(u), Len(u) = k, NEW x \in Int, first <= x, x < first + k
       PROVE  x \in Held(p, loc, u) <=> x = first /\ u = id
  <2>1. UuidAt(p, first, u) <=> u = id
    BY <1>15, <1>19, SameUuid DEF k
  <2>2. x \in Nat /\ loc + 2 <= x
    BY <1>14, <1>19
  <2>3. (x - loc - 2) % k = 0 => x = first
    <3>1. (x - loc - 2) % k = 0 /\ first < x => first + k <= x
      BY <1>2, <1>4, <1>14, <2>2, PlacesApart
    <3> QED  BY <1>14, <1>19, <3>1
  <2> QED  BY <1>4, <1>14, <1>18, <1>19, <2>1, <2>2, <2>3
<1>20. ASSUME NEW u, InBytes(u), Len(u) = k, NEW x \in Int, x < first
       PROVE  x \in Held(q, loc, u) <=> x \in Held(p, loc, u)
  <2>1. CASE x \in Nat /\ loc + 2 <= x /\ (x - loc - 2) % k = 0
    <3>1. x + k <= first
      BY <1>2, <1>4, <1>14, <1>20, <2>1, PlacesApart
    <3>2. x + k <= loc + e + 1 /\ x + k <= loc + (e - k) + 1
      <4>1. x \in Nat
        BY <2>1
      <4> QED  BY <1>14, <3>1, <4>1
    <3>3. \A j \in 1 .. k : x + j - 1 \in 1 .. first - 1 /\ x + j - 1 \in 1 .. Len(p) /\ x + j - 1 # loc
      <4>1. x \in Nat /\ loc + 2 <= x
        BY <2>1
      <4> QED  BY <1>14, <3>1, <4>1
    <3>4. \A j \in 1 .. k : q[x + j - 1] = p[x + j - 1]
      BY <1>7, <1>8, <3>3
    <3>5. UuidAt(p, x, u) <=> UuidAt(q, x, u)
      BY <1>20, <3>4 DEF UuidAt
    <3> QED  BY <1>18, <1>20, <2>1, <3>2, <3>5
  <2> QED  BY <1>18, <1>20, <2>1
<1>21. ASSUME NEW u, InBytes(u), Len(u) = k, NEW x \in Int, first + k <= x
       PROVE  x - k \in Held(q, loc, u) <=> x \in Held(p, loc, u)
  <2>1. /\ x \in Nat /\ x - k \in Nat /\ x - k \in Int /\ loc + 2 <= x - k /\ loc + 2 <= x
        /\ (x - k) + k <= loc + (e - k) + 1 <=> x + k <= loc + e + 1
    BY <1>14, <1>21
  <2>2. ((x - k) - loc - 2) % k = 0 <=> (x - loc - 2) % k = 0
    <3>1. loc + 2 <= x - k /\ loc \in Nat /\ x \in Nat
      BY <1>14, <2>1
    <3> QED  BY <1>2, <3>1, PlaceMoved
  <2>3. ASSUME x + k <= loc + e + 1
        PROVE  UuidAt(p, x, u) <=> UuidAt(q, x - k, u)
    <3>1. \A j \in 1 .. k : /\ x + j - 1 \in first + k .. Len(p) /\ x + j - 1 \in 1 .. Len(p)
                            /\ x + j - 1 # loc /\ (x - k) + j - 1 = (x + j - 1) - k
      <4>1. /\ Len(p) \in Nat /\ k \in Nat /\ loc \in Nat /\ e \in Nat /\ first \in Nat /\ x \in Nat
            /\ loc + 2 <= first /\ first + k <= x /\ loc + e <= Len(p) /\ x + k <= loc + e + 1
        BY <1>14, <1>21, <2>1, <2>3
      <4> QED  BY <4>1, BytesBehind
    <3>2. \A j \in 1 .. k : q[(x - k) + j - 1] = p[x + j - 1]
      BY <1>7, <1>8, <3>1
    <3> QED  BY <1>21, <3>2 DEF UuidAt
  <2> QED  BY <1>18, <1>21, <2>1, <2>2, <2>3
<1>22. Relisted(q, p, id, -1)
  <2> SUFFICES ASSUME NEW u, InBytes(u)
               PROVE  /\ Listings(p, u) \in Nat
                      /\ Listings(q, u) = Listings(p, u) + (IF u = id THEN -1 ELSE 0)
    BY DEF Relisted
  <2> DEFINE H == Held(p, loc, u)
             G == Held(q, loc, u)
             C == IF u = id THEN {first} ELSE {}
  <2>1. HeldIn(p, loc, n, u) = H /\ HeldIn(q, loc, m, u) = G
    <3>1. n # 0 /\ m # 0
      BY <1>9, <1>14 DEF n
    <3> QED  BY <3>1 DEF HeldIn
  <2> HIDE DEF H, G
  <2>2. /\ Listings(p, u) \in Nat /\ Listings(q, u) \in Nat /\ IsFiniteSet(H)
        /\ Cardinality(H) \in Nat /\ Cardinality(G) \in Nat
        /\ Listings(q, u) + Cardinality(H) = Listings(p, u) + Cardinality(G)
    <3>1. /\ Listings(p, u) \in Nat /\ Listings(q, u) \in Nat
          /\ IsFiniteSet(HeldIn(p, loc, n, u))
          /\ Cardinality(HeldIn(p, loc, n, u)) \in Nat /\ Cardinality(HeldIn(q, loc, m, u)) \in Nat
          /\ Listings(q, u) + Cardinality(HeldIn(p, loc, n, u))
               = Listings(p, u) + Cardinality(HeldIn(q, loc, m, u))
      BY <1>1, <1>3, <1>8, <1>9, <1>10, Recounted
    <3> QED  BY <2>1, <3>1
  <2>3. Cardinality(G) + Cardinality(C) = Cardinality(H)
    <3>1. CASE Len(u) = k
      <4> DEFINE hi == first + k
                 s == -k
      <4>1. /\ H \subseteq Int /\ G \subseteq Int
        <5>1. \A x \in H : x \in Int
          BY <1>1, <1>16, HeldPlaces DEF H, PlaceIn
        <5>2. \A x \in G : x \in Int
          BY <1>8, <1>16, HeldPlaces DEF G, PlaceIn
        <5> QED  BY <5>1, <5>2
      <4>2. /\ first \in Int /\ hi \in Int /\ s \in Int /\ first <= hi /\ first <= hi + s /\ hi + s = first
        BY <1>14
      <4>3. C \subseteq {x \in Int : first <= x /\ x < hi}
        BY <1>14
      <4>4. \A x \in Int : first <= x /\ x < hi => (x \in H <=> x \in C)
        BY <1>19, <3>1 DEF H
      <4>5. \A x \in Int : x < first => (x \in G <=> x \in H)
        BY <1>20, <3>1 DEF G, H
      <4>6. \A x \in Int : first <= x /\ x < hi + s => (x \in G <=> x \in {})
        BY <4>2
      <4>7. \A x \in Int : hi <= x => (x + s \in G <=> x \in H)
        <5>1. \A x \in Int : x + s = x - k
          BY <1>14
        <5> QED  BY <1>21, <3>1, <5>1 DEF G, H
      <4>8. IsFiniteSet({}) /\ Cardinality({}) = 0
        BY FS_EmptySet
      <4> HIDE DEF hi, s, C
      <4>9. Replaced(H, G, C, {}, first, hi, s)
        BY <2>2, <4>1, <4>2, <4>3, <4>4, <4>5, <4>6, <4>7, <4>8 DEF Replaced
      <4>10. Cardinality(G) + Cardinality(C) = Cardinality(H) + Cardinality({})
        BY <4>9, PartReplaced
      <4> QED  BY <2>2, <4>8, <4>10
    <3>2. CASE Len(u) # k
      <4>1. COMP_UUIDS(k) \notin ListsOf(Len(u))
        BY <1>2, <3>2, ListTypeOf DEF InBytes
      <4>2. H = {} /\ G = {}
        BY <1>3, <1>17, <4>1 DEF H, G, Held
      <4>3. C = {}
        BY <3>2 DEF k
      <4> QED  BY <4>2, <4>3, FS_EmptySet
    <3> QED  BY <3>1, <3>2
  <2>4. Cardinality(C) = IF u = id THEN 1 ELSE 0
    BY FS_EmptySet, FS_Singleton
  <2> HIDE DEF C
  <2> QED  BY <2>2, <2>3, <2>4
<1> QED  BY <1>13, <1>22 DEF q, b, k

LEMMA OneListed ==
  ASSUME NEW p, NEW q \in Seq(Octet), NEW id, InBytes(id), NEW loc, ListsMore(q, p, loc),
         FieldIn(q, loc), q[loc + 1] = COMP_UUIDS(Len(id)), q[loc] = Len(id) + 1, UuidAt(q, loc + 2, id)
  PROVE  Relisted(q, p, id, 1) /\ Relisted(p, q, id, -1)
<1> SUFFICES ASSUME NEW u, InBytes(u)
             PROVE  /\ Listings(p, u) \in Nat /\ Listings(q, u) \in Nat
                    /\ Listings(q, u) = Listings(p, u) + (IF u = id THEN 1 ELSE 0)
                    /\ Listings(p, u) = Listings(q, u) + (IF u = id THEN -1 ELSE 0)
  BY DEF Relisted
<1>1. Cardinality(Held(q, loc, u)) = IF u = id THEN 1 ELSE 0
  BY OneHeld
<1>2. Listings(p, u) \in Nat /\ Listings(q, u) = Listings(p, u) + Cardinality(Held(q, loc, u))
  BY DEF ListsMore
<1> QED  BY <1>1, <1>2

\* addServiceUUID, removeServiceUUID and the fields that are added where they fit.
LEMMA UuidAdded ==
  ASSUME NEW max \in 1 .. 255, NEW p, Whole(p, max), NEW id, InBytes(id),
         Fits(p, max, RoomForUuid(p, id))
  PROVE  Whole(WithUuid(p, id), max) /\ Relisted(WithUuid(p, id), p, id, 1)
<1> DEFINE type == COMP_UUIDS(Len(id))
           loc == getDataLocation(p, type)
<1>1. PICK S : Chain(p, S)
  BY DEF Whole
<1>2. id \in Seq(Octet) /\ Len(id) \in {2, 4, 16} /\ Len(p) \in Nat
  BY LenProperties DEF InBytes, Whole
<1>3. CASE loc = 0
  <2>1. type \in Octet
    <3>1. type \in {3, 5, 7}
      BY <1>2, ListTypes
    <3>2. {3, 5, 7} \subseteq Octet
      BY DEF Octet
    <3> QED  BY <3>1, <3>2
  <2>2. Sized(Len(id) + 1, type)
    <3>1. \A b \in {2, 4, 16} : ((b + 1) - 1) % b = 0
      OBVIOUS
    <3> QED  BY <1>2, <3>1, ListTypeOf, SizedList
  <2>3. Fits(p, max, Len(id) + 2)
    BY <1>3 DEF RoomForUuid
  <2> DEFINE q == p \o Field(type, id)
             new == Len(p) + 1
  <2>4. Whole(q, max) /\ ListsMore(q, p, new) /\ FieldOf(q, new, type, id)
    <3> HIDE DEF type
    <3> QED  BY <1>2, <2>1, <2>2, <2>3, FieldAppended
  <2>5. WithUuid(p, id) = q
    BY <1>3 DEF WithUuid
  <2> HIDE DEF q, new
  <2>6. Relisted(q, p, id, 1)
    BY <2>4, OneListed DEF Whole, FieldOf, UuidAt
  <2> QED  BY <2>4, <2>5, <2>6
<1>4. CASE loc # 0
  <2>1. Fits(p, max, Len(id))
    <3>1. RoomForUuid(p, id) = Len(id) + 0 /\ Len(id) + 0 = Len(id)
      BY <1>2, <1>4 DEF RoomForUuid
    <3> QED  BY <3>1
  <2> QED  BY <1>1, <1>4, <2>1, ListGrown
<1> QED  BY <1>3, <1>4

LEMMA NoRoomForMore ==
  ASSUME NEW k \in {2, 4, 16}, NEW loc \in Nat, NEW first \in Nat, loc + 2 <= first,
         (first - loc - 2) % k = 0, first <= loc + (k + 1)
  PROVE  first = loc + 2
<1>1. CASE k = 2  BY <1>1
<1>2. CASE k = 4  BY <1>2
<1>3. CASE k = 16  BY <1>3
<1> QED  BY <1>1, <1>2, <1>3

LEMMA UuidRemoved ==
  ASSUME NEW max \in 1 .. 255, NEW p, Whole(p, max), NEW id, InBytes(id),
         NEW loc, loc = getDataLocation(p, COMP_UUIDS(Len(id))), loc # 0,
         Matches(p, loc, id) = {} \/ \E i \in Matches(p, loc, id) : i <= loc + p[loc]
  PROVE  /\ Whole(Removed(p, loc, id), max)
         /\ Relisted(Removed(p, loc, id), p, id, IF Matches(p, loc, id) = {} THEN 0 ELSE -1)
<1> DEFINE type == COMP_UUIDS(Len(id))
           M == Matches(p, loc, id)
           first == CHOOSE i \in M : \A j \in M : i <= j
<1>1. PICK S : Chain(p, S)
  BY DEF Whole
<1>2. CASE M = {}
  <2>1. Removed(p, loc, id) = p
    BY <1>2 DEF Removed
  <2>2. SameLists(p, p)
    BY SameListsItself
  <2>3. Relisted(p, p, id, 0)
    BY <2>2 DEF SameLists, Relisted
  <2> QED  BY <1>2, <2>1, <2>3
<1>3. CASE M # {}
  <2>1. M \subseteq Nat
    <3>1. p \in Seq(Octet) /\ Len(p) \in Nat
      BY LenProperties DEF Whole
    <3>2. loc \in Nat
      BY <1>1, <3>1, FieldAt
    <3>3. M \subseteq loc + 2 .. Len(p) - Len(id) + 1 /\ Len(id) \in Nat
      BY DEF Matches, InBytes
    <3> HIDE DEF M
    <3> QED  BY <3>1, <3>2, <3>3
  <2>2. \E i \in M : \A j \in M : i <= j
    <3> HIDE DEF M
    <3> QED  BY <1>3, <2>1, FirstPosition
  <2>3. first \in M
    BY <2>2
  <2>6. /\ first \in Nat \ {0} /\ loc \in Nat \ {0} /\ loc + 2 <= first /\ first + Len(id) <= Len(p) + 1
        /\ (first - loc - 2) % Len(id) = 0 /\ Len(id) \in {2, 4, 16}
    <3>1. p \in Seq(Octet) /\ Len(p) \in Nat /\ Len(id) \in {2, 4, 16}
      BY LenProperties DEF Whole, InBytes
    <3>2. loc \in Nat \ {0}
      BY <1>1, <3>1, FieldAt
    <3>3. first \in loc + 2 .. Len(p) - Len(id) + 1 /\ (first - loc - 2) % Len(id) = 0
      <4> HIDE DEF first
      <4> QED  BY <2>3 DEF Matches
    <3> HIDE DEF first
    <3>4. Len(id) \in Nat
      BY <3>1
    <3>5. first \in loc + 2 .. Len(p) - Len(id) + 1
      BY <3>3
    <3>6. first \in Nat \ {0} /\ loc + 2 <= first /\ first + Len(id) <= Len(p) + 1
      BY <3>1, <3>2, <3>4, <3>5
    <3> QED  BY <3>1, <3>2, <3>3, <3>6
  <2>9. first <= loc + p[loc]
    <3>1. PICK i \in M : i <= loc + p[loc]
      BY <1>3
    <3>2. first <= i
      BY <2>2
    <3>3. i \in Nat /\ first \in Nat
      BY <2>1, <2>3
    <3> DEFINE e == p[loc]
    <3>4. loc \in Nat /\ e \in 1 .. 255
      <4>1. p \in Seq(Octet)
        BY DEF Whole
      <4> QED  BY <1>1, <4>1, FieldAt
    <3> HIDE DEF e, first, M
    <3>5. loc + e \in Nat /\ i <= loc + e
      <4>1. loc + e \in Nat
        BY <3>4
      <4> QED  BY <3>1, <4>1 DEF e
    <3> DEFINE x == loc + e
    <3>6. x \in Nat /\ i <= x
      BY <3>5
    <3> HIDE DEF x
    <3>7. first <= x
      BY <3>2, <3>3, <3>6
    <3> QED  BY <3>7 DEF x, e
  <2> HIDE DEF first, M
  <2>4. CASE p[loc] - Len(id) = 1
    <3> DEFINE n == p[loc] + 1
    <3>1. Removed(p, loc, id) = WithoutBytes(p, loc, n)
      BY <1>3, <2>4 DEF Removed, first, M
    <3>2. WithoutField(p, type) = WithoutBytes(p, loc, n)
      BY DEF WithoutField
    <3> DEFINE q == WithoutField(p, type)
    <3>3. Whole(q, max) /\ ListsMore(p, q, loc)
      <4>1. loc = getDataLocation(p, type)
        OBVIOUS
      <4> HIDE DEF type
      <4> QED  BY <4>1, FieldGone
    <3>4. p \in Seq(Octet) /\ FieldIn(p, loc) /\ p[loc + 1] = type /\ p[loc] = Len(id) + 1
          /\ UuidAt(p, loc + 2, id)
      <4>1. p \in Seq(Octet) /\ FieldIn(p, loc) /\ p[loc + 1] = type
        <5> HIDE DEF type
        <5>1. p \in Seq(Octet) /\ loc \in S /\ loc <= Len(p) /\ p[loc + 1] = type
          <6>1. p \in Seq(Octet) /\ Len(p) \in Nat
            BY LenProperties DEF Whole
          <6>2. loc \in S /\ loc \in Nat /\ loc < Len(p) /\ p[loc + 1] = type
            BY <1>1, <6>1, FieldAt DEF type
          <6> QED  BY <6>1, <6>2
        <5> QED  BY <1>1, <5>1, MarkedField
      <4>2. p[loc] = Len(id) + 1
        <5>1. p[loc] \in Nat /\ Len(id) \in Nat
          BY <4>1, LenProperties DEF FieldIn, InBytes
        <5> HIDE DEF n
        <5> QED  BY <2>4, <5>1
      <4>3. first = loc + 2
        BY <2>6, <2>9, <4>2, NoRoomForMore
      <4>4. SubSeq(p, first, first + Len(id) - 1) = id
        BY <2>3 DEF Matches, M
      <4>5. UuidAt(p, first, id)
        BY <2>6, <4>1, <4>4, BytesAre DEF InBytes
      <4> QED  BY <4>1, <4>2, <4>3, <4>5
    <3> HIDE DEF q
    <3>5. Relisted(q, p, id, -1)
      BY <3>3, <3>4, OneListed
    <3>6. Removed(p, loc, id) = q /\ Matches(p, loc, id) # {}
      BY <1>3, <3>1, <3>2 DEF q, M
    <3> QED  BY <3>3, <3>5, <3>6
  <2>5. CASE p[loc] - Len(id) # 1
    <3> DEFINE b == [p EXCEPT ![loc] = @ - Len(id)]
    <3>1. Removed(p, loc, id) = WithoutBytes(b, first, Len(id))
      BY <1>3, <2>5 DEF Removed, first, M
    <3> HIDE DEF first, M
    <3>3. /\ Whole(WithoutBytes(b, first, Len(id)), max)
          /\ Relisted(WithoutBytes(b, first, Len(id)), p, id, -1)
      BY <1>1, <2>3, <2>5, <2>9, ListShrunk DEF M
    <3> QED  BY <1>3, <3>1, <3>3 DEF M
  <2> QED  BY <2>4, <2>5
<1> QED  BY <1>2, <1>3

LEMMA FieldAdded ==
  ASSUME NEW max \in 1 .. 255, NEW p, Whole(p, max), NEW type \in Octet, NEW data \in Seq(Octet),
         Sized(Len(data) + 1, type)
  PROVE  /\ Whole(WithData(p, max, Field(type, data)), max)
         /\ type \notin {2, 3, 4, 5, 6, 7} => SameLists(WithData(p, max, Field(type, data)), p)
<1> DEFINE f == Field(type, data)
<1>1. CASE Len(f) = Len(data) + 2 /\ Fits(p, max, Len(f))
  <2> DEFINE q == p \o f
             new == Len(p) + 1
  <2>1. Whole(q, max) /\ ListsMore(q, p, new) /\ FieldOf(q, new, type, data)
    BY <1>1, FieldAppended
  <2>2. WithData(p, max, f) = q
    BY <1>1 DEF WithData
  <2> HIDE DEF q, new, f
  <2>3. type \notin {2, 3, 4, 5, 6, 7} => SameLists(q, p)
    BY <2>1, NothingListed DEF FieldOf
  <2> QED  BY <2>1, <2>2, <2>3 DEF f
<1>2. CASE ~Fits(p, max, Len(f))
  BY <1>2, SameListsItself DEF WithData
<1>3. Len(f) = Len(data) + 2
  <2> DEFINE header == <<Len(data) + 1, type>>
  <2>1. Len(data) \in Nat /\ header \in Seq(Nat) /\ Len(header) = 2 /\ data \in Seq(Nat)
    <3>1. Octet \subseteq Nat
      BY DEF Octet
    <3>2. data \in Seq(Nat) /\ Len(data) \in Nat /\ type \in Nat
      BY <3>1, LenProperties, SeqMonotonic
    <3> QED  BY <3>2
  <2>2. f = header \o data
    BY DEF Field
  <2> HIDE DEF header, f
  <2>3. Len(f) = Len(header) + Len(data)
    BY <2>1, <2>2, ConcatProperties
  <2> QED  BY <2>1, <2>3
<1> QED  BY <1>1, <1>2, <1>3

Limits == {u \in Nat : 6 <= u /\ u <= 3200}
LimitBytes(u, v) == <<u % 256, u \div 256, v % 256, v \div 256>>

LEMMA LimitsAreOctets ==
  ASSUME NEW u \in Limits, NEW v \in Limits
  PROVE  LimitBytes(u, v) \in Seq(Octet)
<1>1. u % 256 \in Octet
  BY DEF Octet, Limits
<1>2. u \div 256 \in Octet
  BY DEF Octet, Limits
<1>3. v % 256 \in Octet
  BY DEF Octet, Limits
<1>4. v \div 256 \in Octet
  BY DEF Octet, Limits
<1> DEFINE a == u % 256
           b == u \div 256
           c == v % 256
           d == v \div 256
<1> HIDE DEF a, b, c, d
<1>5. a \in Octet /\ b \in Octet /\ c \in Octet /\ d \in Octet
  BY <1>1, <1>2, <1>3, <1>4 DEF a, b, c, d
<1>6. <<a, b, c, d>> \in Seq(Octet)
  BY <1>5
<1> QED  BY <1>6 DEF a, b, c, d, LimitBytes

LEMMA PreferredAdded ==
  ASSUME NEW max \in 1 .. 255, NEW p, Whole(p, max), NEW v \in Nat, NEW w \in Nat
  PROVE  Whole(WithPreferredParams(p, max, v, w), max) /\ SameLists(WithPreferredParams(p, max, v, w), p)
<1> DEFINE Limited(u) == IF u < 6 THEN 6 ELSE IF u > 3200 THEN 3200 ELSE u
           least == Limited(v)
           most == IF Limited(w) < least THEN least ELSE Limited(w)
<1>1. \E x, y \in Limits : x = least /\ y = most
  <2>1. least \in Limits /\ most \in Limits
    BY DEF Limits
  <2> HIDE DEF least, most
  <2> QED  BY <2>1
<1> HIDE DEF least, most, Limited
<1> PICK x \in Limits, y \in Limits : x = least /\ y = most
  BY <1>1
<1> DEFINE data == LimitBytes(x, y)
<1>2. data \in Seq(Octet)
  BY LimitsAreOctets
<1>3. SLAVE_ITVL_RANGE \in Plain
  BY DEF SLAVE_ITVL_RANGE, Octet, Plain
<1> HIDE DEF data
<1>4. /\ Whole(WithData(p, max, Field(SLAVE_ITVL_RANGE, data)), max)
      /\ SameLists(WithData(p, max, Field(SLAVE_ITVL_RANGE, data)), p)
  <2>1. /\ SLAVE_ITVL_RANGE \in Octet /\ SLAVE_ITVL_RANGE \notin {2, 3, 4, 5, 6, 7}
        /\ Sized(Len(data) + 1, SLAVE_ITVL_RANGE)
    BY <1>3, SizedPlain DEF Plain
  <2> QED  BY <1>2, <2>1, FieldAdded
<1>5. WithPreferredParams(p, max, v, w) = WithData(p, max, Field(SLAVE_ITVL_RANGE, data))
  BY DEF WithPreferredParams, LimitBytes, Limited, data, least, most
<1> QED  BY <1>4, <1>5

\* The UUIDs of a list are all its bytes.
UuidsOf(bytes) == {u \in Seq(Octet) : Len(u) = bytes}

LEMMA AllSideBySide ==
  ASSUME NEW b \in {2, 4, 16}, NEW uuids \in Seq(UuidsOf(b))
  PROVE  /\ SideBySide(uuids, b) \in Seq(Octet) /\ Len(uuids) \in Nat
         /\ Len(SideBySide(uuids, b)) = b * Len(uuids)
<1> DEFINE n == Len(uuids)
           Place(i) == ((i - 1) \div b) + 1
           Within(i) == ((i - 1) % b) + 1
           all == SideBySide(uuids, b)
<1>1. n \in Nat /\ \A i \in 1 .. n : uuids[i] \in UuidsOf(b)
  BY LenProperties, ElementOfSeq
<1>2. all = [i \in 1 .. b * n |-> uuids[Place(i)][Within(i)]]
  BY DEF SideBySide
<1> HIDE DEF n, all
<1>3. ASSUME NEW i \in 1 .. b * n  PROVE Place(i) \in 1 .. n /\ Within(i) \in 1 .. b
  <2>1. CASE b = 2  BY <1>1, <2>1
  <2>2. CASE b = 4  BY <1>1, <2>2
  <2>3. CASE b = 16  BY <1>1, <2>3
  <2> QED  BY <2>1, <2>2, <2>3
<1>4. ASSUME NEW i \in 1 .. b * n  PROVE uuids[Place(i)][Within(i)] \in Octet
  <2> DEFINE j == Within(i)
             k == Place(i)
  <2>1. k \in 1 .. n /\ j \in 1 .. b
    BY <1>3
  <2> HIDE DEF j, k
  <2>2. uuids[k] \in Seq(Octet) /\ Len(uuids[k]) = b
    BY <1>1, <2>1 DEF UuidsOf
  <2>3. uuids[k][j] \in Octet
    BY <2>1, <2>2, ElementOfSeq
  <2> QED  BY <2>3 DEF j, k
<1> DEFINE m == b * n
<1>5. m \in Nat
  BY <1>1
<1>6. all \in [1 .. m -> Octet]
  BY <1>2, <1>4
<1> HIDE DEF m
<1>7. all \in Seq(Octet) /\ Len(all) = m
  BY <1>5, <1>6, SeqDef
<1> QED  BY <1>1, <1>7 DEF all, n, m

\* The places of a list of n UUIDs, from the first byte of its value on.
NthPlace(from, b, i) == from + b * (i - 1)

NthFits(loc, b, n, i) ==
  LET x == NthPlace(loc + 2, b, i)
  IN  /\ x \in Nat /\ loc + 2 <= x /\ x + b <= loc + (b * n + 1) + 1 /\ (x - loc - 2) % b = 0
      /\ \A j \in 1 .. b :
           LET k == b * (i - 1) + j
           IN  /\ k \in 1 .. b * n /\ ((k - 1) \div b) + 1 = i /\ ((k - 1) % b) + 1 = j
               /\ (loc + 2) + k - 1 = x + j - 1
      /\ \A h \in 1 .. n : NthPlace(loc + 2, b, h) = x => h = i

LEMMA NthPlaces ==
  ASSUME NEW b \in {2, 4, 16}, NEW n \in Nat, NEW loc \in Nat, NEW i \in 1 .. n
  PROVE  NthFits(loc, b, n, i)
<1>1. CASE b = 2  BY <1>1 DEF NthPlace, NthFits
<1>2. CASE b = 4  BY <1>2 DEF NthPlace, NthFits
<1>3. CASE b = 16  BY <1>3 DEF NthPlace, NthFits
<1> QED  BY <1>1, <1>2, <1>3

LEMMA PlaceIsNth ==
  ASSUME NEW b \in {2, 4, 16}, NEW n \in Nat, NEW loc \in Nat, NEW x \in Nat, loc + 2 <= x,
         x + b <= loc + (b * n + 1) + 1, (x - loc - 2) % b = 0
  PROVE  \E i \in 1 .. n : x = NthPlace(loc + 2, b, i)
<1> DEFINE i == ((x - loc - 2) \div b) + 1
<1>1. i \in 1 .. n /\ x = (loc + 2) + b * (i - 1)
  <2>1. CASE b = 2  BY <2>1
  <2>2. CASE b = 4  BY <2>2
  <2>3. CASE b = 16  BY <2>3
  <2> QED  BY <2>1, <2>2, <2>3
<1> HIDE DEF i
<1> QED  BY <1>1 DEF NthPlace

Times(uuids, u) == Cardinality({i \in DOMAIN uuids : uuids[i] = u})

LEMMA AllHeld ==
  ASSUME NEW q \in Seq(Octet), NEW b \in {2, 4, 16}, NEW uuids \in Seq(UuidsOf(b)),
         NEW type \in ListsOf(b), NEW loc, FieldOf(q, loc, type, SideBySide(uuids, b)),
         NEW u, InBytes(u)
  PROVE  Cardinality(Held(q, loc, u)) = Times(uuids, u)
<1> DEFINE n == Len(uuids)
           all == SideBySide(uuids, b)
           A == {i \in 1 .. n : uuids[i] = u}
           H == Held(q, loc, u)
<1>1. n \in Nat /\ DOMAIN uuids = 1 .. n /\ \A i \in 1 .. n : uuids[i] \in Seq(Octet) /\ Len(uuids[i]) = b
  BY LenProperties, ElementOfSeq DEF UuidsOf
<1>2. /\ \A k \in 1 .. b * n : all[k] = uuids[((k - 1) \div b) + 1][((k - 1) % b) + 1]
      /\ Len(all) = b * n
  BY AllSideBySide DEF SideBySide
<1>3. /\ FieldIn(q, loc) /\ q[loc] = b * n + 1 /\ q[loc + 1] = type /\ loc \in Nat
      /\ \A k \in 1 .. b * n : q[(loc + 2) + k - 1] = all[k]
  BY <1>2 DEF FieldOf, FieldIn
<1> HIDE DEF n, all, H
<1>4. CASE Len(u) # b
  <2>1. A = {}
    BY <1>1, <1>4
  <2>2. H = {}
    <3>1. type \notin ListsOf(Len(u))
      BY <1>4, ListTypeOf DEF InBytes
    <3> QED  BY <1>3, <3>1 DEF H, Held
  <2> QED  BY <1>1, <2>1, <2>2 DEF H, Times
<1>5. CASE Len(u) = b
  <2> DEFINE place == [i \in A |-> NthPlace(loc + 2, b, i)]
  <2>1. \A x : x \in H <=> /\ x \in Nat /\ loc + 2 <= x /\ x + b <= loc + (b * n + 1) + 1
                           /\ (x - loc - 2) % b = 0 /\ UuidAt(q, x, u)
    <3> TAKE x
    <3>1. x \in H <=> PlaceIn(q, loc, u, x)
      BY <1>3, HeldPlaces DEF H
    <3> QED  BY <1>3, <1>5, <3>1 DEF PlaceIn
  <2>11. ASSUME NEW i \in 1 .. n  PROVE NthFits(loc, b, n, i)
    BY <1>1, <1>3, NthPlaces
  <2>2. ASSUME NEW i \in 1 .. n  PROVE UuidAt(q, NthPlace(loc + 2, b, i), uuids[i])
    <3> DEFINE x == NthPlace(loc + 2, b, i)
    <3>1. ASSUME NEW j \in 1 .. b  PROVE q[x + j - 1] = uuids[i][j]
      <4> DEFINE k == b * (i - 1) + j
      <4>1. /\ k \in 1 .. b * n /\ ((k - 1) \div b) + 1 = i /\ ((k - 1) % b) + 1 = j
            /\ (loc + 2) + k - 1 = x + j - 1
        BY <2>11 DEF NthFits
      <4> HIDE DEF k, x
      <4>2. q[(loc + 2) + k - 1] = all[k] /\ all[k] = uuids[((k - 1) \div b) + 1][((k - 1) % b) + 1]
        BY <1>2, <1>3, <4>1
      <4> QED  BY <4>1, <4>2
    <3> HIDE DEF x
    <3>2. UuidAt(q, x, uuids[i])
      BY <1>1, <3>1 DEF UuidAt
    <3> QED  BY <3>2 DEF x
  <2>3. ASSUME NEW i \in 1 .. n
        PROVE  UuidAt(q, NthPlace(loc + 2, b, i), u) <=> uuids[i] = u
    <3>1. InBytes(uuids[i]) /\ Len(uuids[i]) = Len(u)
      BY <1>1, <1>5 DEF InBytes
    <3> QED  BY <2>2, <3>1, SameUuid
  <2>4. \A i \in A : NthPlace(loc + 2, b, i) \in H
    BY <2>1, <2>3, <2>11 DEF NthFits
  <2>5. \A x \in H : \E i \in A : NthPlace(loc + 2, b, i) = x
    <3> TAKE x \in H
    <3>1. PICK i \in 1 .. n : x = NthPlace(loc + 2, b, i)
      <4>1. n \in Nat /\ loc \in Nat /\ x \in Nat /\ loc + 2 <= x
            /\ x + b <= loc + (b * n + 1) + 1 /\ (x - loc - 2) % b = 0
        BY <1>1, <1>3, <2>1
      <4> QED  BY <4>1, PlaceIsNth
    <3>2. uuids[i] = u
      BY <2>1, <2>3, <3>1
    <3> QED  BY <3>1, <3>2
  <2>6. \A h, i \in A : NthPlace(loc + 2, b, h) = NthPlace(loc + 2, b, i) => h = i
    BY <2>11 DEF NthFits
  <2>7. IsFiniteSet(A)
    <3>1. IsFiniteSet(1 .. n) /\ A \subseteq 1 .. n
      BY <1>1, FS_Interval
    <3> QED  BY <3>1, FS_Subset
  <2> HIDE DEF A
  <2>8. place \in Bijection(A, H)
    <3>1. place \in [A -> H]
      BY <2>4
    <3>2. \A x, y \in A : place[x] = place[y] => x = y
      BY <2>6
    <3>3. \A y \in H : \E x \in A : place[x] = y
      BY <2>5
    <3> QED  BY <3>1, <3>2, <3>3, Fun_IsBij
  <2>9. ExistsBijection(A, H)
    BY <2>8 DEF ExistsBijection
  <2>10. Cardinality(H) = Cardinality(A)
    BY <2>7, <2>9, FS_Bijection
  <2> QED  BY <1>1, <2>10 DEF A, H, Times
<1> QED  BY <1>4, <1>5

ListsAll(q, p, uuids) ==
  \A u : InBytes(u) => /\ Listings(p, u) \in Nat
                       /\ Listings(q, u) = Listings(p, u) + Times(uuids, u)

\* A list of UUIDs of one size, where the whole field fits.
LEMMA ListAppended ==
  ASSUME NEW max \in 1 .. 255, NEW p, Whole(p, max), NEW b \in {2, 4, 16},
         NEW uuids \in Seq(UuidsOf(b)),
         NEW type \in ListsOf(b), Fits(p, max, 2 + b * Len(uuids))
  PROVE  /\ Whole(p \o Field(type, SideBySide(uuids, b)), max)
         /\ ListsAll(p \o Field(type, SideBySide(uuids, b)), p, uuids)
<1> DEFINE all == SideBySide(uuids, b)
           n == Len(uuids)
<1>1. all \in Seq(Octet) /\ Len(all) = b * n /\ n \in Nat /\ p \in Seq(Octet) /\ Len(p) \in Nat
  BY AllSideBySide, LenProperties DEF Whole
<1> HIDE DEF all, n
<1>2. type \in {2, 3, 4, 5, 6, 7}
  BY ListTypes
<1>3. type \in Octet
  BY <1>2 DEF Octet
<1>4. Sized(Len(all) + 1, type)
  <2>1. (b * n + 1 - 1) % b = 0
    <3>1. CASE b = 2  BY <1>1, <3>1
    <3>2. CASE b = 4  BY <1>1, <3>2
    <3>3. CASE b = 16  BY <1>1, <3>3
    <3> QED  BY <3>1, <3>2, <3>3
  <2> QED  BY <1>1, <2>1, SizedList
<1>5. Fits(p, max, Len(all) + 2)
  <2>1. b * n \in Nat
    BY <1>1
  <2>2. 2 + b * n = b * n + 2
    BY <2>1
  <2> QED  BY <1>1, <2>2 DEF n
<1> DEFINE q == p \o Field(type, all)
           new == Len(p) + 1
<1>6. Whole(q, max) /\ ListsMore(q, p, new) /\ FieldOf(q, new, type, all)
  BY <1>1, <1>3, <1>4, <1>5, FieldAppended
<1> HIDE DEF q, new
<1>7. ASSUME NEW u, InBytes(u)
      PROVE  Cardinality(Held(q, new, u)) = Times(uuids, u)
  BY <1>6, <1>7, AllHeld DEF Whole, all
<1>8. ListsAll(q, p, uuids)
  BY <1>6, <1>7 DEF ListsMore, ListsAll
<1> QED  BY <1>6, <1>8 DEF all, q

LEMMA FlagsSized == ASSUME NEW flag PROVE Sized(Len(<<flag>>) + 1, FLAGS)
<1>1. FLAGS = 1 /\ Len(<<flag>>) + 1 = 2
  BY DEF FLAGS
<1> QED  BY <1>1, ListTypes DEF Sized

LEMMA NothingIsWhole ==
  ASSUME NEW max \in 1 .. 255
  PROVE  Whole(<<>>, max) /\ \A u : Listings(<<>>, u) = 0
<1>1. Chain(<<>>, {1})
  <2>1. Len(<<>>) = 0
    OBVIOUS
  <2> QED  BY <2>1 DEF Chain
<1>2. <<>> \in Seq(Octet) /\ Len(<<>>) = 0
  BY EmptySeq
<1>3. FieldsOf(<<>>) = {}
  <2>1. FieldsOf(<<>>) = {i \in {1} : Len(<<>>) - i >= 2}
    BY <1>1, <1>2, FieldsAtMarks
  <2> QED  BY <1>2, <2>1
<1>4. \A u : Places(<<>>, u) = {}
  BY <1>3 DEF Places
<1> QED  BY <1>1, <1>2, <1>4, FS_EmptySet DEF Whole, Listings

-----------------------------------------------------------------------------
(* NimBLEExtAdvertisement *)

\* What is always so of the extended payload.
ExtInv == Whole(ext_payload, ExtMax)

LEMMA HeaderAndValueAdded ==
  ASSUME FitsFirst, ExtInv, NEW type \in Plain, NEW data \in Seq(Octet),
         AddsHeaderAndValue(type, data)
  PROVE  ExtInv'
<1> DEFINE p == ext_payload
<1>1. ExtMax \in 1 .. 255
  BY ExtDataAssumption DEF ExtMax
<1>2. Len(p) \in Nat /\ Len(data) \in Nat
  BY LenProperties DEF ExtInv, Whole
<1>3. Fits(p, ExtMax, 2 + Len(data)) /\ Fits(p, ExtMax, 2) /\ Fits(p, ExtMax, Len(data) + 2)
  <2>1. Fits(p, ExtMax, 2 + Len(data))
    BY DEF AddsHeaderAndValue
  <2> QED  BY <1>1, <1>2, <2>1 DEF Fits
<1>4. ext_payload' = p \o Field(type, data)
  BY <1>3 DEF AddsHeaderAndValue
<1>5. Whole(p \o Field(type, data), ExtMax)
  BY <1>1, <1>3, SizedPlain, FieldAppended DEF ExtInv, Plain
<1> QED  BY <1>4, <1>5 DEF ExtInv, ExtMax

LEMMA ExtStep == FitsFirst /\ ExtInv /\ [ExtAdvertisementNext]_ext_advertisement => ExtInv'
<1> SUFFICES ASSUME FitsFirst, ExtInv, [ExtAdvertisementNext]_ext_advertisement
             PROVE  ExtInv'
  OBVIOUS
<1> DEFINE p == ext_payload
<1>1. ExtMax \in 1 .. 255 /\ Whole(p, ExtMax)
  BY ExtDataAssumption DEF ExtMax, ExtInv
<1>2. /\ MFG_DATA \in Octet /\ URI \in Octet /\ COMP_NAME \in Octet /\ INCOMP_NAME \in Octet
      /\ FLAGS \in Octet /\ APPEARANCE \in Octet /\ TX_PWR_LVL \in Octet
      /\ {MFG_DATA, URI, COMP_NAME, INCOMP_NAME, APPEARANCE, TX_PWR_LVL} \subseteq Plain
  BY DEF MFG_DATA, URI, COMP_NAME, INCOMP_NAME, FLAGS, APPEARANCE, TX_PWR_LVL, Octet, Plain
<1>3. (\A u \in ExtUuids : InBytes(u)) /\ (\A t \in ExtTexts : t \in Seq(Octet))
  BY ExtBytesAssumption DEF InBytes
<1>4. ASSUME NEW q, ext_payload' = q, Whole(q, ExtMax)
      PROVE  ExtInv'
  BY <1>4 DEF ExtInv, ExtMax
<1>5. CASE UNCHANGED ext_payload
  BY <1>1, <1>4, <1>5
<1>6. ASSUME NEW t \in ExtTexts, setExtManufacturerData(t)  PROVE ExtInv'
  BY <1>2, <1>3, <1>6, HeaderAndValueAdded DEF setExtManufacturerData
<1>7. ASSUME NEW t \in ExtTexts, setExtURI(t)  PROVE ExtInv'
  BY <1>2, <1>3, <1>7, HeaderAndValueAdded DEF setExtURI
<1>8. ASSUME NEW t \in ExtTexts, NEW c \in BOOLEAN, setExtName(t, c)  PROVE ExtInv'
  <2>1. CASE c
    BY <1>2, <1>3, <1>8, <2>1, HeaderAndValueAdded DEF setExtName
  <2>2. CASE ~c
    BY <1>2, <1>3, <1>8, <2>2, HeaderAndValueAdded DEF setExtName
  <2> QED  BY <2>1, <2>2
<1>9. ASSUME NEW t \in ExtTexts, setExtData(Field(MFG_DATA, t))  PROVE ExtInv'
  <2> DEFINE f == Field(MFG_DATA, t)
  <2>1. Whole(WithData(<<>>, ExtMax, f), ExtMax)
    <3>1. Whole(<<>>, ExtMax)
      BY <1>1, NothingIsWhole
    <3> QED  BY <1>1, <1>2, <1>3, <3>1, FieldAdded, SizedPlain
  <2>2. CASE Len(f) <= ExtMax
    <3>1. f \in Seq(Nat) /\ Len(f) \in Nat
      <4> DEFINE header == <<Len(t) + 1, MFG_DATA>>
      <4>1. t \in Seq(Nat)
        <5>1. Octet \subseteq Nat
          BY DEF Octet
        <5> QED  BY <1>3, <5>1, SeqMonotonic
      <4>2. Len(t) \in Nat /\ MFG_DATA \in Nat
        BY <4>1, LenProperties DEF MFG_DATA
      <4>3. header \in Seq(Nat)
        BY <4>2
      <4>4. f = header \o t
        BY DEF Field
      <4> HIDE DEF f, header
      <4> QED  BY <4>1, <4>3, <4>4, ConcatProperties, LenProperties
    <3> HIDE DEF f
    <3>2. <<>> \o f = f
      BY <3>1, ConcatEmptySeq
    <3>3. Fits(<<>>, ExtMax, Len(f))
      <4>1. Len(<<>>) = 0
        OBVIOUS
      <4> QED  BY <2>2, <3>1, <4>1 DEF Fits, ExtMax
    <3>4. Whole(f, ExtMax)
      BY <2>1, <3>2, <3>3 DEF WithData
    <3> QED  BY <1>4, <1>9, <2>2, <3>4 DEF setExtData, f
  <2>3. CASE ~(Len(f) <= ExtMax)
    BY <1>5, <1>9, <2>3 DEF setExtData
  <2> QED  BY <2>2, <2>3
<1>10. ASSUME NEW f \in {0, 2}, setExtFlags(f)  PROVE ExtInv'
  <2>1. CASE f = 0
    <3>1. ext_payload' = WithoutField(p, FLAGS)
      BY <1>10, <2>1 DEF setExtFlags
    <3> QED  BY <1>1, <1>4, <3>1, FieldGone
  <2>2. CASE f # 0
    <3> DEFINE data == <<f + BREDR_UNSUP>>
    <3>1. data \in Seq(Octet)
      <4>1. f + BREDR_UNSUP \in Octet
        BY <2>2 DEF BREDR_UNSUP, Octet
      <4> QED  BY <4>1
    <3>2. ext_payload' = WithData(p, ExtMax, Field(FLAGS, data))
      BY <1>10, <2>2 DEF setExtFlags
    <3>3. Sized(Len(data) + 1, FLAGS)
      BY FlagsSized DEF data
    <3> HIDE DEF data
    <3> QED  BY <1>1, <1>2, <1>4, <3>1, <3>2, <3>3, FieldAdded
  <2> QED  BY <2>1, <2>2
<1>11. ASSUME NEW a \in {<<0, 0>>, <<1, 0>>}, setExtAppearance(a)  PROVE ExtInv'
  <2>1. CASE a = <<0, 0>>
    <3>1. ext_payload' = WithoutField(p, APPEARANCE)
      BY <1>11, <2>1 DEF setExtAppearance, WithAppearance
    <3> QED  BY <1>1, <1>4, <3>1, FieldGone
  <2>2. CASE a # <<0, 0>>
    <3>1. a \in Seq(Octet)
      <4>1. 0 \in Octet /\ 1 \in Octet
        BY DEF Octet
      <4>2. <<0, 0>> \in Seq(Octet) /\ <<1, 0>> \in Seq(Octet)
        BY <4>1
      <4> QED  BY <4>2
    <3>2. ext_payload' = WithData(p, ExtMax, Field(APPEARANCE, a))
      BY <1>11, <2>2 DEF setExtAppearance, WithAppearance
    <3> QED  BY <1>1, <1>2, <1>4, <3>1, <3>2, FieldAdded, SizedPlain
  <2> QED  BY <2>1, <2>2
<1>12. CASE setExtPreferredParams(0, 6)
  <2>1. ext_payload' = WithPreferredParams(p, ExtMax, 0, 6)
    BY <1>12 DEF setExtPreferredParams
  <2>2. Whole(WithPreferredParams(p, ExtMax, 0, 6), ExtMax)
    BY <1>1, PreferredAdded
  <2> QED  BY <1>4, <2>1, <2>2
<1>13. ASSUME NEW u \in ExtUuids, NEW t \in ExtTexts \cup {<<>>}, setExtServiceData(u, t)
       PROVE  ExtInv'
  <2> DEFINE type == SVC_DATA(Len(u))
             data == u \o t
  <2>1. u \in Seq(Octet) /\ t \in Seq(Octet) /\ Len(u) \in {2, 4, 16}
    BY <1>3, EmptySeq DEF InBytes
  <2>2. data \in Seq(Octet) /\ Len(data) + 1 \in Nat /\ Len(data) + 1 > Len(u)
    <3>1. data \in Seq(Octet) /\ Len(u) \in Nat /\ Len(t) \in Nat /\ Len(data) = Len(u) + Len(t)
      BY <2>1, Joint
    <3> HIDE DEF data
    <3> QED  BY <3>1
  <2>3. type \in Octet /\ Sized(Len(data) + 1, type)
    <3> HIDE DEF data
    <3> QED  BY <2>1, <2>2, SizedData
  <2>4. \/ UNCHANGED ext_payload
        \/ ext_payload' = WithoutField(p, type)
        \/ ext_payload' = WithData(p, ExtMax, Field(type, data))
    BY <1>13 DEF setExtServiceData
  <2> HIDE DEF type, data
  <2>5. CASE ext_payload' = WithoutField(p, type)
    BY <1>1, <1>4, <2>5, FieldGone
  <2>6. CASE ext_payload' = WithData(p, ExtMax, Field(type, data))
    BY <1>1, <1>4, <2>2, <2>3, <2>6, FieldAdded
  <2> QED  BY <1>5, <2>4, <2>5, <2>6
<1>14. ASSUME NEW u \in ExtUuids, addExtServiceUUID(u)  PROVE ExtInv'
  <2>1. CASE Fits(p, ExtMax, RoomForUuid(p, u))
    <3>1. ext_payload' = WithUuid(p, u)
      BY <1>14, <2>1 DEF addExtServiceUUID
    <3> QED  BY <1>1, <1>3, <1>4, <2>1, <3>1, UuidAdded
  <2>2. CASE ~Fits(p, ExtMax, RoomForUuid(p, u))
    BY <1>5, <1>14, <2>2 DEF addExtServiceUUID
  <2> QED  BY <2>1, <2>2
<1>15. ASSUME NEW u \in ExtUuids, removeExtServiceUUID(u)  PROVE ExtInv'
  <2> DEFINE loc == getDataLocation(p, COMP_UUIDS(Len(u)))
  <2>1. CASE loc = 0
    BY <1>5, <1>15, <2>1 DEF removeExtServiceUUID
  <2>2. CASE loc # 0
    <3>1. /\ \A i \in Matches(p, loc, u) : i <= loc + p[loc]
          /\ ext_payload' = Removed(p, loc, u)
      BY <1>15, <2>2 DEF removeExtServiceUUID
    <3>2. Whole(Removed(p, loc, u), ExtMax)
      BY <1>1, <1>3, <2>2, <3>1, UuidRemoved
    <3> HIDE DEF loc
    <3> QED  BY <1>4, <3>1, <3>2
  <2> QED  BY <2>1, <2>2
<1>16. ASSUME NEW c \in BOOLEAN, NEW u \in ExtUuids, setExtServices(c, Len(u), <<u, u>>)
       PROVE  ExtInv'
  <2> DEFINE b == Len(u)
             type == IF c THEN COMP_UUIDS(b) ELSE INCOMP_UUIDS(b)
             header == <<b * 2 + 1, type>>
             all == SideBySide(<<u, u>>, b)
  <2>1. Len(<<u, u>>) = 2
    OBVIOUS
  <2>2. CASE Fits(p, ExtMax, 2 + b * 2)
    <3>1. ext_payload' = p \o header \o all
      BY <1>16, <2>1, <2>2 DEF setExtServices
    <3>2. b \in {2, 4, 16} /\ <<u, u>> \in Seq(UuidsOf(b))
      <4>1. u \in UuidsOf(b) /\ b \in {2, 4, 16}
        BY <1>3 DEF InBytes, UuidsOf
      <4> HIDE DEF b
      <4> QED  BY <4>1
    <3>3. Whole(p \o Field(type, all), ExtMax)
      <4>1. type \in ListsOf(b)
        BY DEF ListsOf
      <4>2. Fits(p, ExtMax, 2 + b * Len(<<u, u>>))
        BY <2>1, <2>2
      <4> HIDE DEF type, b
      <4> QED  BY <1>1, <3>2, <4>1, <4>2, ListAppended
    <3>4. all \in Seq(Octet) /\ Len(all) = b * 2
      <4> HIDE DEF b
      <4> QED  BY <2>1, <3>2, AllSideBySide
    <3>5. header \in Seq(Octet)
      <4>1. b * 2 + 1 \in Octet
        <5> HIDE DEF b
        <5> QED  BY <3>2 DEF Octet
      <4>2. type \in Octet
        <5>1. COMP_UUIDS(b) \in 0 .. 7 /\ INCOMP_UUIDS(b) \in 0 .. 7
          BY <3>2 DEF COMP_UUIDS, INCOMP_UUIDS
        <5>2. 0 .. 7 \subseteq Octet
          BY DEF Octet
        <5> QED  BY <5>1, <5>2
      <4> HIDE DEF type, b
      <4> QED  BY <4>1, <4>2
    <3>6. Field(type, all) = header \o all
      BY <3>4 DEF Field
    <3>7. (p \o header) \o all = p \o (header \o all)
      <4>1. p \in Seq(Octet)
        BY <1>1 DEF Whole
      <4> HIDE DEF all, header
      <4> QED  BY <3>4, <3>5, <4>1, ConcatAssociative
    <3> HIDE DEF all, header, type
    <3> QED  BY <1>4, <3>1, <3>3, <3>6, <3>7
  <2>3. CASE ~Fits(p, ExtMax, 2 + b * 2)
    BY <1>5, <1>16, <2>1, <2>3 DEF setExtServices
  <2> QED  BY <2>2, <2>3
<1>17. CASE clearExtData
  BY <1>1, <1>4, <1>17, NothingIsWhole DEF clearExtData
<1>18. CASE addExtTxPower(9)
  <2>1. CASE legacy_pdu
    <3> DEFINE data == <<9>>
    <3>1. data \in Seq(Octet)
      <4>1. 9 \in Octet
        BY DEF Octet
      <4> QED  BY <4>1
    <3>2. ext_payload' = WithData(p, ExtMax, Field(TX_PWR_LVL, data))
      BY <1>18, <2>1 DEF addExtTxPower
    <3> HIDE DEF data
    <3> QED  BY <1>1, <1>2, <1>4, <3>1, <3>2, FieldAdded, SizedPlain
  <2>2. CASE ~legacy_pdu
    BY <1>5, <1>18, <2>2 DEF addExtTxPower
  <2> QED  BY <2>1, <2>2
<1>19. CASE \E e \in BOOLEAN : setLegacyAdvertising(e)
  BY <1>5, <1>19 DEF setLegacyAdvertising
<1>20. CASE UNCHANGED ext_advertisement
  BY <1>5, <1>20 DEF ext_advertisement
<1> QED  BY <1>6, <1>7, <1>8, <1>9, <1>10, <1>11, <1>12, <1>13, <1>14, <1>15, <1>16, <1>17, <1>18,
            <1>19, <1>20 DEF ExtAdvertisementNext

\* For every limit up to 255 bytes and for all UUIDs and texts: the payload of an application
\* that adds headers and values only where both fit is always a sequence of whole fields.
THEOREM ExtAlwaysWhole == FitsFirst /\ ExtAdvertisementSpec => []ExtWholeFields
<1> SUFFICES ASSUME FitsFirst PROVE ExtAdvertisementSpec => []ExtWholeFields
  OBVIOUS
<1>1. ExtAdvertisementInit => ExtInv
  <2>1. ExtMax \in 1 .. 255
    BY ExtDataAssumption DEF ExtMax
  <2> QED  BY <2>1, NothingIsWhole DEF ExtAdvertisementInit, ExtInv
<1>2. ExtInv => ExtWholeFields
  <2> SUFFICES ASSUME ExtInv PROVE ExtWholeFields
    OBVIOUS
  <2>1. PICK S : Chain(ext_payload, S)
    BY DEF ExtInv, Whole
  <2>2. WholeFieldsIn(ext_payload)
    BY <2>1, ChainIsWhole DEF ExtInv, Whole
  <2> QED  BY <2>2 DEF ExtInv, Whole, ExtWholeFields
<1>3. ExtInv /\ [ExtAdvertisementNext]_ext_advertisement => ExtInv'
  BY ExtStep
<1> QED  BY <1>1, <1>2, <1>3, PTL DEF ExtAdvertisementSpec

-----------------------------------------------------------------------------
(* NimBLEAdvertisementData *)

\* What is always so of the legacy payload, and of what is listed in it.
LegacyInv ==
  /\ Whole(m_payload, BLE_HS_ADV_MAX_SZ)
  /\ listed = [u \in Uuids |-> Listings(m_payload, u)]

\* The flags change where they are.
LEMMA FlagsChanged ==
  ASSUME NEW max \in 1 .. 255, NEW p, Whole(p, max), NEW flag \in Octet,
         NEW loc, loc = getDataLocation(p, FLAGS), loc # 0
  PROVE  Whole([p EXCEPT ![loc + 2] = flag], max) /\ SameLists([p EXCEPT ![loc + 2] = flag], p)
<1> DEFINE q == [p EXCEPT ![loc + 2] = flag]
<1>1. PICK S : Chain(p, S)
  BY DEF Whole
<1>2. p \in Seq(Octet) /\ Len(p) \in Nat /\ Len(p) <= max
  BY LenProperties DEF Whole
<1>3. /\ loc \in S /\ loc \in Nat \ {0} /\ loc + p[loc] + 1 <= Len(p) + 1
      /\ p[loc + 1] = FLAGS /\ Sized(p[loc], FLAGS)
  BY <1>1, <1>2, FieldAt
<1>4. p[loc] = 2
  BY <1>3 DEF Sized
<1>5. loc + 2 <= Len(p)
  BY <1>2, <1>3, <1>4
<1>6. /\ q \in Seq(Octet) /\ Len(q) = Len(p)
      /\ \A i \in 1 .. Len(p) : i # loc + 2 => q[i] = p[i]
  <2>1. loc + 2 \in 1 .. Len(p)
    BY <1>2, <1>3, <1>5
  <2> QED  BY <1>2, <2>1, ExceptSeq
<1> HIDE DEF q
<1>7. q[loc] = 2 /\ q[loc + 1] = FLAGS
  <2>1. loc \in 1 .. Len(p) /\ loc + 1 \in 1 .. Len(p) /\ loc # loc + 2 /\ loc + 1 # loc + 2
    BY <1>2, <1>3, <1>5
  <2> QED  BY <1>3, <1>4, <1>6, <2>1
<1>8. SplicedAt(p, q, loc, 3, 3)
  <2>1. loc <= Len(p) /\ 3 = p[loc] + 1
    BY <1>2, <1>3, <1>4, <1>5
  <2>2. Len(q) = Len(p) - 3 + 3
    BY <1>2, <1>6
  <2>3. \A i \in 1 .. loc - 1 : q[i] = p[i]
    <3>1. \A i \in 1 .. loc - 1 : i \in 1 .. Len(p) /\ i # loc + 2
      BY <1>2, <1>3, <1>5
    <3> QED  BY <1>6, <3>1
  <2>4. \A i \in loc + 3 .. Len(p) : q[i - 3 + 3] = p[i]
    <3>1. \A i \in loc + 3 .. Len(p) : i \in 1 .. Len(p) /\ i # loc + 2 /\ i - 3 + 3 = i
      BY <1>2, <1>3
    <3> QED  BY <1>6, <3>1
  <2>5. Sized(3 - 1, q[loc + 1])
    BY <1>3, <1>4, <1>7
  <2> QED  BY <1>7, <2>1, <2>2, <2>3, <2>4, <2>5 DEF SplicedAt
<1>9. \E T : Chain(q, T)
  BY <1>1, <1>2, <1>3, <1>6, <1>8, Spliced
<1>10. SameLists(q, p)
  <2> SUFFICES ASSUME NEW u, InBytes(u)
               PROVE  Listings(p, u) \in Nat /\ Listings(q, u) = Listings(p, u)
    BY DEF SameLists
  <2>1. HeldIn(p, loc, 3, u) = {} /\ HeldIn(q, loc, 3, u) = {}
    BY <1>3, <1>7, NothingHeld DEF HeldIn, FLAGS
  <2>2. /\ Listings(p, u) \in Nat /\ Listings(q, u) \in Nat
        /\ Listings(q, u) + Cardinality(HeldIn(p, loc, 3, u))
             = Listings(p, u) + Cardinality(HeldIn(q, loc, 3, u))
    <3>1. 3 \in Nat
      OBVIOUS
    <3> QED  BY <1>1, <1>2, <1>3, <1>6, <1>8, <3>1, Recounted
  <2>3. Cardinality({}) = 0
    BY FS_EmptySet
  <2> QED  BY <2>1, <2>2, <2>3
<1> QED  BY <1>2, <1>6, <1>9, <1>10 DEF Whole, q

\* Of two UUIDs, those of a size.
LEMMA TwoOfSize ==
  ASSUME NEW b \in {2, 4, 16}, NEW u, InBytes(u), NEW v, InBytes(v)
  PROVE  OfSize(<<u, v>>, b) \in Seq(UuidsOf(b))
<1> DEFINE two == <<u, v>>
           Own(i) == IF Len(two[i]) = b THEN <<two[i]>> ELSE <<>>
           IsFrom(f) == f = [i \in 1 .. Len(two) + 1 |-> IF i > Len(two) THEN <<>> ELSE Own(i) \o f[i + 1]]
           from == CHOOSE f : IsFrom(f)
           f3 == <<>>
           f2 == Own(2) \o f3
           f1 == Own(1) \o f2
           g == [i \in 1 .. 3 |-> IF i = 3 THEN f3 ELSE IF i = 2 THEN f2 ELSE f1]
<1>1. Len(two) = 2
  OBVIOUS
<1>2. Own(1) \in Seq(UuidsOf(b)) /\ Own(2) \in Seq(UuidsOf(b)) /\ <<>> \in Seq(UuidsOf(b))
  <2>1. two[1] = u /\ two[2] = v
    OBVIOUS
  <2>2. \A x : InBytes(x) /\ Len(x) = b => x \in UuidsOf(b)
    BY DEF InBytes, UuidsOf
  <2> HIDE DEF two
  <2>3. \A x \in UuidsOf(b) : <<x>> \in Seq(UuidsOf(b))
    OBVIOUS
  <2>4. <<>> \in Seq(UuidsOf(b))
    BY EmptySeq
  <2> QED  BY <2>1, <2>2, <2>3, <2>4
<1>3. IsFrom(g)
  <2> HIDE DEF Own, two
  <2>1. Len(two) + 1 = 3
    BY <1>1
  <2>2. ASSUME NEW i \in 1 .. 3
        PROVE  g[i] = IF i > Len(two) THEN <<>> ELSE Own(i) \o g[i + 1]
    <3>1. g[1] = f1 /\ g[2] = f2 /\ g[3] = f3
      <4> HIDE DEF f1, f2, f3
      <4> QED  OBVIOUS
    <3>2. i = 1 \/ i = 2 \/ i = 3
      OBVIOUS
    <3>3. ~(1 > 2) /\ ~(2 > 2) /\ 3 > 2 /\ 1 + 1 = 2 /\ 2 + 1 = 3
      OBVIOUS
    <3> HIDE DEF g
    <3> QED  BY <1>1, <3>1, <3>2, <3>3
  <2>3. g = [i \in 1 .. 3 |-> g[i]]
    OBVIOUS
  <2> HIDE DEF g
  <2>4. [i \in 1 .. 3 |-> g[i]] =
          [i \in 1 .. 3 |-> IF i > Len(two) THEN <<>> ELSE Own(i) \o g[i + 1]]
    BY <2>2
  <2> QED  BY <2>1, <2>3, <2>4
<1>4. IsFrom(from)
  <2> HIDE DEF IsFrom, g
  <2> QED  BY <1>3
<1>5. OfSize(two, b) = from[1]
  BY DEF OfSize
<1> HIDE DEF from, Own, two
<1>6. /\ from[3] = <<>> /\ from[2] = Own(2) \o from[3] /\ from[1] = Own(1) \o from[2]
  <2>1. Len(two) + 1 = 3
    BY <1>1
  <2>2. from = [i \in 1 .. 3 |-> IF i > Len(two) THEN <<>> ELSE Own(i) \o from[i + 1]]
    BY <1>4, <2>1
  <2> QED  BY <1>1, <2>2
<1>7. from[2] \in Seq(UuidsOf(b))
  BY <1>2, <1>6, ConcatProperties
<1>8. from[1] \in Seq(UuidsOf(b))
  BY <1>2, <1>6, <1>7, ConcatProperties
<1> QED  BY <1>5, <1>8 DEF two

LEMMA OneOfSize ==
  ASSUME NEW b \in {2, 4, 16}, NEW u, InBytes(u)
  PROVE  OfSize(<<u>>, b) \in Seq(UuidsOf(b))
<1> DEFINE one == <<u>>
           Own(i) == IF Len(one[i]) = b THEN <<one[i]>> ELSE <<>>
           IsFrom(f) == f = [i \in 1 .. Len(one) + 1 |-> IF i > Len(one) THEN <<>> ELSE Own(i) \o f[i + 1]]
           from == CHOOSE f : IsFrom(f)
           f2 == <<>>
           f1 == Own(1) \o f2
           g == [i \in 1 .. 2 |-> IF i = 2 THEN f2 ELSE f1]
<1>1. Len(one) = 1
  OBVIOUS
<1>2. Own(1) \in Seq(UuidsOf(b)) /\ <<>> \in Seq(UuidsOf(b))
  <2>1. one[1] = u
    OBVIOUS
  <2>2. \A x : InBytes(x) /\ Len(x) = b => x \in UuidsOf(b)
    BY DEF InBytes, UuidsOf
  <2> HIDE DEF one
  <2>3. \A x \in UuidsOf(b) : <<x>> \in Seq(UuidsOf(b))
    OBVIOUS
  <2>4. <<>> \in Seq(UuidsOf(b))
    BY EmptySeq
  <2> QED  BY <2>1, <2>2, <2>3, <2>4
<1>3. IsFrom(g)
  <2> HIDE DEF Own, one
  <2>1. Len(one) + 1 = 2
    BY <1>1
  <2>2. ASSUME NEW i \in 1 .. 2
        PROVE  g[i] = IF i > Len(one) THEN <<>> ELSE Own(i) \o g[i + 1]
    <3>1. g[1] = f1 /\ g[2] = f2
      <4> HIDE DEF f1, f2
      <4> QED  OBVIOUS
    <3>2. i = 1 \/ i = 2
      OBVIOUS
    <3>3. ~(1 > 1) /\ 2 > 1 /\ 1 + 1 = 2
      OBVIOUS
    <3> HIDE DEF g
    <3> QED  BY <1>1, <3>1, <3>2, <3>3
  <2>3. g = [i \in 1 .. 2 |-> g[i]]
    OBVIOUS
  <2> HIDE DEF g
  <2>4. [i \in 1 .. 2 |-> g[i]] =
          [i \in 1 .. 2 |-> IF i > Len(one) THEN <<>> ELSE Own(i) \o g[i + 1]]
    BY <2>2
  <2> QED  BY <2>1, <2>3, <2>4
<1>4. IsFrom(from)
  <2> HIDE DEF IsFrom, g
  <2> QED  BY <1>3
<1>5. OfSize(one, b) = from[1]
  BY DEF OfSize
<1> HIDE DEF from, Own, one
<1>6. from[2] = <<>> /\ from[1] = Own(1) \o from[2]
  <2>1. Len(one) + 1 = 2
    BY <1>1
  <2>2. from = [i \in 1 .. 2 |-> IF i > Len(one) THEN <<>> ELSE Own(i) \o from[i + 1]]
    BY <1>4, <2>1
  <2> QED  BY <1>1, <2>2
<1>7. from[1] \in Seq(UuidsOf(b))
  BY <1>2, <1>6, ConcatProperties
<1> QED  BY <1>5, <1>7 DEF one

\* setServices, with as many as fit into a payload.
LEMMA ServicesSet ==
  ASSUME LegacyInv, NEW c \in BOOLEAN, NEW b \in {2, 4, 16}, NEW uuids,
         OfSize(uuids, b) \in Seq(UuidsOf(b)), setServices(c, b, uuids)
  PROVE  LegacyInv'
<1> DEFINE p == m_payload
           max == BLE_HS_ADV_MAX_SZ
           valid == OfSize(uuids, b)
           room == (max - 3) \div b
           kept == IF Len(valid) > room THEN SubSeq(valid, 1, room) ELSE valid
           type == IF c /\ kept = valid THEN COMP_UUIDS(b) ELSE INCOMP_UUIDS(b)
           all == SideBySide(kept, b)
           f == Field(type, all)
<1>1. max \in 1 .. 255 /\ max \in 3 .. 255 /\ Whole(p, max)
  BY LegacySizeAssumption DEF LegacyInv
<1>2. /\ m_payload' = WithData(p, max, f)
      /\ IF Fits(p, max, 2 + b * Len(kept)) THEN Listed(kept) ELSE UNCHANGED listed
  BY DEF setServices, addData
<1>3. kept \in Seq(UuidsOf(b))
  <2> HIDE DEF valid
  <2>1. room \in Nat
    <3> HIDE DEF max
    <3>1. CASE b = 2  BY <1>1, <3>1
    <3>2. CASE b = 4  BY <1>1, <3>2
    <3>3. CASE b = 16  BY <1>1, <3>3
    <3> QED  BY <3>1, <3>2, <3>3
  <2> HIDE DEF room
  <2>2. valid \in Seq(UuidsOf(b)) /\ Len(valid) \in Nat
    BY LenProperties DEF valid
  <2>3. CASE Len(valid) > room
    <3>1. \A i \in 1 .. room : valid[i] \in UuidsOf(b)
      BY <2>1, <2>2, <2>3, ElementOfSeq
    <3>2. SubSeq(valid, 1, room) \in Seq(UuidsOf(b))
      BY <2>1, <3>1, SubSeqProperties
    <3> QED  BY <2>3, <3>2
  <2> QED  BY <2>2, <2>3
<1>4. type \in ListsOf(b)
  BY DEF ListsOf
<1> HIDE DEF kept, type, max
<1>5. all \in Seq(Octet) /\ Len(kept) \in Nat /\ Len(all) = b * Len(kept)
  BY <1>3, AllSideBySide
<1>6. Len(f) = 2 + b * Len(kept)
  <2>1. type \in Nat
    <3>1. type \in {2, 3, 4, 5, 6, 7}
      BY <1>4, ListTypeOf
    <3> QED  BY <3>1
  <2> DEFINE header == <<Len(all) + 1, type>>
             n == b * Len(kept)
  <2>2. n \in Nat
    BY <1>5
  <2> HIDE DEF n
  <2>3. header \in Seq(Nat) /\ Len(header) = 2
    BY <1>5, <2>1, <2>2 DEF n
  <2>4. all \in Seq(Nat)
    <3>1. Octet \subseteq Nat
      BY DEF Octet
    <3> HIDE DEF all
    <3> QED  BY <1>5, <3>1, SeqMonotonic
  <2>5. f = header \o all
    BY DEF Field
  <2> HIDE DEF f, header, all
  <2>6. Len(f) = Len(header) + Len(all)
    BY <2>3, <2>4, <2>5, ConcatProperties
  <2>7. Len(all) = n
    BY <1>5 DEF n, all
  <2> QED  BY <2>2, <2>3, <2>6, <2>7 DEF n
<1>7. CASE Fits(p, max, 2 + b * Len(kept))
  <2> DEFINE q == p \o f
  <2>1. Whole(q, max) /\ \A u : InBytes(u) => Listings(q, u) = Listings(p, u) + Times(kept, u)
    <3>1. max \in 1 .. 255 /\ Whole(p, max)
      BY <1>1
    <3>2. Whole(q, max) /\ ListsAll(q, p, kept)
      BY <1>3, <1>4, <1>7, <3>1, ListAppended
    <3> QED  BY <3>2 DEF ListsAll
  <2>2. m_payload' = q
    BY <1>2, <1>6, <1>7 DEF WithData
  <2>3. listed' = [u \in Uuids |-> listed[u] + Times(kept, u)]
    BY <1>2, <1>7 DEF Listed, Times
  <2> HIDE DEF q
  <2>4. listed' = [u \in Uuids |-> Listings(q, u)]
    <3>1. \A u \in Uuids : listed[u] + Times(kept, u) = Listings(q, u)
      BY <2>1, LegacyBytesAssumption DEF LegacyInv, InBytes
    <3> QED  BY <2>3, <3>1
  <2> QED  BY <2>1, <2>2, <2>4 DEF LegacyInv, max
<1>8. CASE ~Fits(p, max, 2 + b * Len(kept))
  BY <1>1, <1>2, <1>6, <1>8 DEF LegacyInv, WithData, max
<1> QED  BY <1>7, <1>8

LEMMA LegacyStep ==
  SparesLaterFields /\ LegacyInv /\ [AdvertisementNext]_advertisement => LegacyInv'
<1> SUFFICES ASSUME SparesLaterFields, LegacyInv, [AdvertisementNext]_advertisement
             PROVE  LegacyInv'
  OBVIOUS
<1> DEFINE p == m_payload
           max == BLE_HS_ADV_MAX_SZ
<1>1. max \in 1 .. 255 /\ max \in 3 .. 255 /\ Whole(p, max)
  BY LegacySizeAssumption DEF LegacyInv
<1>2. /\ {MFG_DATA, URI, COMP_NAME, INCOMP_NAME, FLAGS, APPEARANCE, TX_PWR_LVL} \subseteq Octet
      /\ {MFG_DATA, URI, COMP_NAME, INCOMP_NAME, APPEARANCE, TX_PWR_LVL} \subseteq Plain
  BY DEF MFG_DATA, URI, COMP_NAME, INCOMP_NAME, FLAGS, APPEARANCE, TX_PWR_LVL, Octet, Plain
<1>3. (\A u \in Uuids : InBytes(u)) /\ (\A t \in Texts : t \in Seq(Octet))
  BY LegacyBytesAssumption DEF InBytes
<1>4. ASSUME NEW q, m_payload' = q, Whole(q, max), SameLists(q, p), UNCHANGED listed
      PROVE  LegacyInv'
  <2>1. \A u \in Uuids : Listings(p, u) = Listings(q, u)
    BY <1>3, <1>4 DEF SameLists
  <2> QED  BY <1>4, <2>1 DEF LegacyInv
<1>5. CASE UNCHANGED advertisement
  BY <1>5 DEF LegacyInv, advertisement
<1> HIDE DEF max
<1>6. ASSUME NEW type \in Octet, NEW data \in Seq(Octet), Sized(Len(data) + 1, type),
             type \notin {2, 3, 4, 5, 6, 7}, addData(Field(type, data)), UNCHANGED listed
      PROVE  LegacyInv'
  <2> DEFINE q == WithData(p, max, Field(type, data))
  <2>1. Whole(q, max) /\ SameLists(q, p)
    BY <1>1, <1>6, FieldAdded
  <2> QED  BY <1>4, <1>6, <2>1 DEF addData, max
<1>7. ASSUME NEW type, type \notin {2, 3, 4, 5, 6, 7}, removeData(type), UNCHANGED listed
      PROVE  LegacyInv'
  <2> DEFINE q == WithoutField(p, type)
  <2>1. Whole(q, max) /\ SameLists(q, p)
    BY <1>1, <1>7, FieldGone, NothingGone
  <2> QED  BY <1>4, <1>7, <2>1 DEF removeData
<1>23. ASSUME NEW type \in Plain, NEW data \in Seq(Octet), addData(Field(type, data)), UNCHANGED listed
       PROVE  LegacyInv'
  <2>1. type \in Octet /\ type \notin {2, 3, 4, 5, 6, 7} /\ Sized(Len(data) + 1, type)
    BY <1>23, SizedPlain DEF Plain
  <2> QED  BY <1>6, <1>23, <2>1
<1>8. ASSUME NEW type \in Plain, NEW data \in Seq(Octet), Bounded(type, data), UNCHANGED listed
      PROVE  LegacyInv'
  <2>1. CASE UNCHANGED m_payload
    BY <1>5, <1>8, <2>1 DEF advertisement
  <2>2. CASE addData(Field(type, data))
    BY <1>8, <1>23, <2>2
  <2> QED  BY <1>8, <2>1, <2>2 DEF Bounded
<1>9. ASSUME NEW t \in Texts, setManufacturerData(t), UNCHANGED listed  PROVE LegacyInv'
  <2>1. MFG_DATA \in Plain
    BY <1>2
  <2> QED  BY <1>3, <1>8, <1>9, <2>1 DEF setManufacturerData
<1>10. ASSUME NEW t \in Texts, setURI(t), UNCHANGED listed  PROVE LegacyInv'
  <2>1. URI \in Plain
    BY <1>2
  <2> QED  BY <1>3, <1>8, <1>10, <2>1 DEF setURI
<1>11. ASSUME NEW t \in Texts, NEW c \in BOOLEAN, setName(t, c), UNCHANGED listed  PROVE LegacyInv'
  <2> DEFINE room == BLE_HS_ADV_MAX_FIELD_SZ
  <2>1. COMP_NAME \in Plain /\ INCOMP_NAME \in Plain
    BY <1>2
  <2>2. t \in Seq(Octet) /\ Len(t) \in Nat
    BY <1>3, LenProperties
  <2>3. CASE Len(t) > room
    <3> DEFINE cut == SubSeq(t, 1, room)
    <3>1. room \in Nat
      BY <1>1 DEF BLE_HS_ADV_MAX_FIELD_SZ, max
    <3> HIDE DEF room
    <3>2. \A i \in 1 .. room : t[i] \in Octet
      BY <2>2, <2>3, <3>1, ElementOfSeq
    <3>3. cut \in Seq(Octet)
      BY <3>1, <3>2, SubSeqProperties
    <3>4. addData(Field(INCOMP_NAME, cut))
      BY <1>11, <2>3 DEF setName, room
    <3> HIDE DEF cut
    <3> QED  BY <1>11, <1>23, <2>1, <3>3, <3>4
  <2>4. CASE ~(Len(t) > room)
    <3> DEFINE type == IF c THEN COMP_NAME ELSE INCOMP_NAME
    <3>1. addData(Field(type, t))
      BY <1>11, <2>4 DEF setName
    <3>2. type \in Plain
      BY <2>1
    <3> HIDE DEF type
    <3> QED  BY <1>11, <1>23, <2>2, <3>1, <3>2
  <2> QED  BY <2>3, <2>4
<1>12. ASSUME NEW f \in {0, 2}, setFlags(f), UNCHANGED listed  PROVE LegacyInv'
  <2> DEFINE loc == getDataLocation(p, FLAGS)
             data == <<f + BREDR_UNSUP>>
  <2>1. f + BREDR_UNSUP \in Octet
    BY DEF BREDR_UNSUP, Octet
  <2>2. CASE loc = 0
    <3>1. addData(Field(FLAGS, data))
      BY <1>12, <2>2 DEF setFlags
    <3>2. data \in Seq(Octet)
      BY <2>1
    <3>3. Sized(Len(data) + 1, FLAGS)
      BY FlagsSized
    <3>4. FLAGS \in Octet /\ FLAGS \notin {2, 3, 4, 5, 6, 7}
      BY <1>2 DEF FLAGS
    <3> HIDE DEF data
    <3> QED  BY <1>6, <1>12, <3>1, <3>2, <3>3, <3>4
  <2>3. CASE loc # 0 /\ f # 0
    <3>1. m_payload' = [p EXCEPT ![loc + 2] = f + BREDR_UNSUP]
      BY <1>12, <2>3 DEF setFlags
    <3> DEFINE q == [p EXCEPT ![loc + 2] = f + BREDR_UNSUP]
    <3>2. Whole(q, max) /\ SameLists(q, p)
      BY <1>1, <2>1, <2>3, FlagsChanged
    <3> HIDE DEF q
    <3> QED  BY <1>4, <1>12, <3>1, <3>2 DEF q
  <2>4. CASE loc # 0 /\ f = 0
    <3>1. removeData(FLAGS) /\ FLAGS \notin {2, 3, 4, 5, 6, 7}
      BY <1>12, <2>4 DEF setFlags, FLAGS
    <3> QED  BY <1>7, <1>12, <3>1
  <2> QED  BY <2>2, <2>3, <2>4
<1>13. ASSUME NEW a \in {<<0, 0>>, <<1, 0>>}, setAppearance(a), UNCHANGED listed  PROVE LegacyInv'
  <2>1. CASE a = <<0, 0>>
    <3>1. removeData(APPEARANCE) /\ APPEARANCE \notin {2, 3, 4, 5, 6, 7}
      BY <1>13, <2>1 DEF setAppearance, WithAppearance, removeData, APPEARANCE
    <3> QED  BY <1>7, <1>13, <3>1
  <2>2. CASE a # <<0, 0>>
    <3>1. a \in Seq(Octet)
      <4>1. 0 \in Octet /\ 1 \in Octet
        BY DEF Octet
      <4>2. <<0, 0>> \in Seq(Octet) /\ <<1, 0>> \in Seq(Octet)
        BY <4>1
      <4> QED  BY <4>2
    <3>2. addData(Field(APPEARANCE, a))
      BY <1>13, <2>2 DEF setAppearance, WithAppearance, addData
    <3>3. APPEARANCE \in Plain
      BY <1>2
    <3> QED  BY <1>13, <1>23, <3>1, <3>2, <3>3
  <2> QED  BY <2>1, <2>2
<1>14. ASSUME addTxPower(9), UNCHANGED listed  PROVE LegacyInv'
  <2> DEFINE data == <<9>>
  <2>1. data \in Seq(Octet)
    <3>1. 9 \in Octet
      BY DEF Octet
    <3> QED  BY <3>1
  <2>2. addData(Field(TX_PWR_LVL, data))
    BY <1>14 DEF addTxPower
  <2>3. TX_PWR_LVL \in Plain
    BY <1>2
  <2> HIDE DEF data
  <2> QED  BY <1>14, <1>23, <2>1, <2>2, <2>3
<1>15. ASSUME NEW v \in {0, 256}, setPreferredParams(v, 6), UNCHANGED listed  PROVE LegacyInv'
  <2>1. m_payload' = WithPreferredParams(p, max, v, 6)
    BY <1>15 DEF setPreferredParams, max
  <2>2. v \in Nat /\ 6 \in Nat
    OBVIOUS
  <2> DEFINE q == WithPreferredParams(p, max, v, 6)
  <2>3. Whole(q, max) /\ SameLists(q, p)
    BY <1>1, <2>2, PreferredAdded
  <2> QED  BY <1>4, <1>15, <2>1, <2>3
<1>16. ASSUME NEW u \in Uuids, NEW t \in Texts \cup {<<>>}, setServiceData(u, t), UNCHANGED listed
       PROVE  LegacyInv'
  <2> DEFINE type == SVC_DATA(Len(u))
             data == u \o t
  <2>1. u \in Seq(Octet) /\ t \in Seq(Octet) /\ Len(u) \in {2, 4, 16}
    BY <1>3, EmptySeq DEF InBytes
  <2>2. data \in Seq(Octet) /\ Len(data) + 1 \in Nat /\ Len(data) + 1 > Len(u)
    <3>1. data \in Seq(Octet) /\ Len(u) \in Nat /\ Len(t) \in Nat /\ Len(data) = Len(u) + Len(t)
      BY <2>1, Joint
    <3> HIDE DEF data
    <3> QED  BY <3>1
  <2>3. type \in Octet /\ Sized(Len(data) + 1, type) /\ type \notin {2, 3, 4, 5, 6, 7}
    <3>1. type \in {22, 32, 33}
      BY <2>1, ListTypes
    <3> HIDE DEF data
    <3>2. type \in Octet /\ Sized(Len(data) + 1, type)
      BY <2>1, <2>2, SizedData
    <3> HIDE DEF type
    <3> QED  BY <3>1, <3>2
  <2>4. UNCHANGED m_payload \/ removeData(type) \/ addData(Field(type, data))
    BY <1>16 DEF setServiceData
  <2> HIDE DEF type, data
  <2>5. CASE UNCHANGED m_payload
    BY <1>5, <1>16, <2>5 DEF advertisement
  <2>6. CASE removeData(type)
    BY <1>7, <1>16, <2>3, <2>6
  <2>7. CASE addData(Field(type, data))
    BY <1>6, <1>16, <2>2, <2>3, <2>7
  <2> QED  BY <2>4, <2>5, <2>6, <2>7
<1>17. ASSUME NEW u \in Uuids, addServiceUUID(u)  PROVE LegacyInv'
  <2>1. CASE Fits(p, max, RoomForUuid(p, u))
    <3> DEFINE q == WithUuid(p, u)
    <3>1. m_payload' = q /\ Listed(<<u>>)
      BY <1>17, <2>1 DEF addServiceUUID, max
    <3>2. Whole(q, max) /\ Relisted(q, p, u, 1)
      BY <1>1, <1>3, <2>1, UuidAdded
    <3>3. \A v : Cardinality({i \in DOMAIN <<u>> : <<u>>[i] = v}) = IF v = u THEN 1 ELSE 0
      <4> TAKE v
      <4>1. CASE v = u
        <5>1. {i \in DOMAIN <<u>> : <<u>>[i] = v} = {1}
          BY <4>1
        <5> QED  BY <4>1, <5>1, FS_Singleton
      <4>2. CASE v # u
        <5>1. {i \in DOMAIN <<u>> : <<u>>[i] = v} = {}
          BY <4>2
        <5> QED  BY <4>2, <5>1, FS_EmptySet
      <4> QED  BY <4>1, <4>2
    <3>4. listed' = [v \in Uuids |-> listed[v] + (IF v = u THEN 1 ELSE 0)]
      BY <3>1, <3>3 DEF Listed
    <3> HIDE DEF q
    <3>5. \A v \in Uuids : listed[v] + (IF v = u THEN 1 ELSE 0) = Listings(q, v)
      BY <1>3, <3>2 DEF LegacyInv, Relisted
    <3>6. listed' = [v \in Uuids |-> Listings(q, v)]
      BY <3>4, <3>5
    <3> QED  BY <3>1, <3>2, <3>6 DEF LegacyInv, max
  <2>2. CASE ~Fits(p, max, RoomForUuid(p, u))
    BY <1>5, <1>17, <2>2 DEF addServiceUUID, max
  <2> QED  BY <2>1, <2>2
<1>18. ASSUME NEW u \in Uuids, removeServiceUUID(u)  PROVE LegacyInv'
  <2> DEFINE loc == getDataLocation(p, COMP_UUIDS(Len(u)))
             found == Matches(p, loc, u)
             mine == {i \in found : i <= loc + p[loc]}
  <2>1. CASE loc = 0
    BY <1>5, <1>18, <2>1 DEF removeServiceUUID, advertisement
  <2>2. CASE loc # 0
    <3> DEFINE q == Removed(p, loc, u)
               d == IF found = {} THEN 0 ELSE -1
    <3>1. /\ mine # {} \/ found = {}
          /\ m_payload' = q
          /\ listed' = [listed EXCEPT ![u] = IF mine = {} THEN @ ELSE @ - 1]
      BY <1>18, <2>2 DEF removeServiceUUID
    <3>2. found = {} \/ \E i \in found : i <= loc + p[loc]
      BY <3>1
    <3>3. Whole(q, max) /\ Relisted(q, p, u, d)
      BY <1>1, <1>3, <2>2, <3>2, UuidRemoved
    <3>4. mine = {} <=> found = {}
      BY <3>1
    <3>5. listed' = [listed EXCEPT ![u] = IF found = {} THEN @ ELSE @ - 1] /\ m_payload' = q
      BY <3>1, <3>4
    <3> HIDE DEF found, mine, loc, q
    <3>6. \A v \in Uuids : Listings(p, v) \in Nat /\ Listings(q, v) = Listings(p, v) + (IF v = u THEN d ELSE 0)
      BY <1>3, <3>3 DEF Relisted
    <3>7. listed' = [v \in Uuids |-> Listings(q, v)]
      BY <3>5, <3>6 DEF LegacyInv
    <3> QED  BY <3>3, <3>5, <3>7 DEF LegacyInv, max
  <2> QED  BY <2>1, <2>2
<1>19. ASSUME NEW c \in BOOLEAN, NEW u \in Uuids, setServices(c, Len(u), <<u>>)  PROVE LegacyInv'
  <2>1. Len(u) \in {2, 4, 16} /\ InBytes(u)
    BY <1>3 DEF InBytes
  <2>2. OfSize(<<u>>, Len(u)) \in Seq(UuidsOf(Len(u)))
    BY <2>1, OneOfSize
  <2> QED  BY <1>19, <2>1, <2>2, ServicesSet
<1>20. ASSUME NEW c \in BOOLEAN, NEW u \in Uuids, NEW v \in Uuids, setServices(c, Len(u), <<u, v>>)
       PROVE  LegacyInv'
  <2>1. Len(u) \in {2, 4, 16} /\ InBytes(u) /\ InBytes(v)
    BY <1>3 DEF InBytes
  <2>2. OfSize(<<u, v>>, Len(u)) \in Seq(UuidsOf(Len(u)))
    BY <2>1, TwoOfSize
  <2> QED  BY <1>20, <2>1, <2>2, ServicesSet
<1>21. CASE clearData
  <2>1. m_payload' = <<>> /\ listed' = [u \in Uuids |-> 0]
    BY <1>21 DEF clearData
  <2> QED  BY <1>1, <2>1, NothingIsWhole DEF LegacyInv, max
<1>22. CASE UNCHANGED listed
  <2>1. CASE \E t \in Texts : \/ setManufacturerData(t) \/ setURI(t) \/ \E c \in BOOLEAN : setName(t, c)
    BY <1>9, <1>10, <1>11, <1>22, <2>1
  <2>2. CASE \E f \in {0, 2} : setFlags(f)
    BY <1>12, <1>22, <2>2
  <2>3. CASE \E a \in {<<0, 0>>, <<1, 0>>} : setAppearance(a)
    BY <1>13, <1>22, <2>3
  <2>4. CASE addTxPower(9)
    BY <1>14, <1>22, <2>4
  <2>5. CASE \E v \in {0, 256} : setPreferredParams(v, 6)
    BY <1>15, <1>22, <2>5
  <2>6. CASE \E u \in Uuids, t \in Texts \cup {<<>>} : setServiceData(u, t)
    BY <1>16, <1>22, <2>6
  <2> QED  BY <1>5, <1>17, <1>18, <1>19, <1>20, <1>21, <2>1, <2>2, <2>3, <2>4, <2>5, <2>6 DEF AdvertisementNext
<1> QED  BY <1>5, <1>17, <1>18, <1>19, <1>20, <1>21, <1>22 DEF AdvertisementNext

\* What the payload is and what it lists stay together: every listing that the application
\* made and did not take back is an entry of one of the payload's lists, once for once.
LEMMA ListedIsInThePayload == SparesLaterFields /\ AdvertisementSpec => []LegacyInv
<1> SUFFICES ASSUME SparesLaterFields PROVE AdvertisementSpec => []LegacyInv
  OBVIOUS
<1>1. AdvertisementInit => LegacyInv
  <2>1. BLE_HS_ADV_MAX_SZ \in 1 .. 255
    BY LegacySizeAssumption
  <2> QED  BY <2>1, NothingIsWhole DEF AdvertisementInit, LegacyInv
<1>2. LegacyInv /\ [AdvertisementNext]_advertisement => LegacyInv'
  BY LegacyStep
<1> QED  BY <1>1, <1>2, PTL DEF AdvertisementSpec

\* For every size of a payload up to 255 bytes and for all UUIDs and texts: whatever is
\* added, changed, truncated and removed, the legacy payload is a sequence of whole fields
\* that fits the controller.  UUIDs are removed only where a list has them (a search that
\* runs on into the fields behind the list is what SparesLaterFields leaves out).
THEOREM LegacyAlwaysWhole == SparesLaterFields /\ AdvertisementSpec => []WholeFields
<1> SUFFICES ASSUME SparesLaterFields PROVE AdvertisementSpec => []WholeFields
  OBVIOUS
<1>1. AdvertisementSpec => []LegacyInv
  BY ListedIsInThePayload
<1>2. LegacyInv => WholeFields
  <2> SUFFICES ASSUME LegacyInv PROVE WholeFields
    OBVIOUS
  <2>1. PICK S : Chain(m_payload, S)
    BY DEF LegacyInv, Whole
  <2>2. WholeFieldsIn(m_payload)
    BY <2>1, ChainIsWhole DEF LegacyInv, Whole
  <2> QED  BY <2>2 DEF LegacyInv, Whole, WholeFields
<1> QED  BY <1>1, <1>2, PTL

-----------------------------------------------------------------------------
(* NimBLEAdvertisedDevice: findAdvField *)

\* One round of the loop.
Passed(x, y, i, e) ==
  y.data = i + e + 1 /\ y.count = x.count /\ y.index = x.index /\ y.loc = x.loc /\ y.ended = x.ended
Counted(x, y, i, e, n) ==
  y.data = i + e + 1 /\ y.count = x.count + n /\ y.index = x.index /\ y.loc = x.loc /\ y.ended = x.ended
Remembered(x, y, i, e) ==
  y.data = i + e + 1 /\ y.count = x.count + 1 /\ y.index = x.index + 1 /\ y.loc = i /\ y.ended = x.ended
BrokenOff(x, y, i, n) == y.data = i /\ y.count = x.count + n /\ y.loc = i /\ y.ended = TRUE

RoundIs(p, type, data_loc, x, y, i, n) ==
  /\ y \in Scan /\ i \in Nat \ {0} /\ i + 2 <= Len(p) /\ p[i] \in Nat /\ i + p[i] <= Len(p)
  /\ n \in Nat /\ (y.data = i + p[i] + 1 \/ (y.data = i /\ y.ended = TRUE))
  /\ ~IsOf(p, i, type) => Passed(x, y, i, p[i])
  /\ type # COMP_NAME /\ IsOf(p, i, type) =>
       IF data_loc /\ x.count + n > x.index THEN BrokenOff(x, y, i, n) /\ y.index = x.index
                                            ELSE Counted(x, y, i, p[i], n)
  /\ type = COMP_NAME /\ p[i + 1] = INCOMP_NAME /\ data_loc /\ x.count <= x.index =>
       Remembered(x, y, i, p[i])
  /\ type = COMP_NAME /\ p[i + 1] = COMP_NAME /\ data_loc /\ x.count = x.index =>
       BrokenOff(x, y, i, 1)

LEMMA RoundOf ==
  ASSUME NEW p \in Seq(Octet), NEW type, NEW data_loc \in BOOLEAN, NEW x \in Scan, IsField(p, x.data),
         NEW y, y = Read(p, type, data_loc, x), NEW i, i = x.data, NEW n, n = Entries(p, i, type)
  PROVE  RoundIs(p, type, data_loc, x, y, i, n)
<1> USE DEF RoundIs
<1> DEFINE N == Len(p)
           e == p[i]
<1>1. x.data = i /\ i \in Nat \ {0} /\ x.count \in Nat /\ x.index \in Nat /\ x.loc \in Nat /\ x.ended \in BOOLEAN
      /\ x = [data |-> x.data, count |-> x.count, index |-> x.index, loc |-> x.loc, ended |-> x.ended]
  BY DEF Scan
<1>2. N \in Nat /\ i + 2 <= N /\ e \in 0 .. 255 /\ e <= N - i
  <2>1. N \in Nat /\ N - i >= 2 /\ e <= N - i
    BY <1>1, LenProperties DEF IsField
  <2>2. i \in 1 .. N
    BY <1>1, <2>1
  <2> QED  BY <1>1, <2>1, <2>2, OctetAt
<1>3. n \in Nat
  <2>1. CASE IsList(type)
    <3>1. Width(type) \in {2, 4, 16}
      BY <2>1 DEF IsList, Width
    <3>2. n = e \div Width(type)
      BY <2>1 DEF Entries
    <3> DEFINE w == Width(type)
    <3> HIDE DEF e, w
    <3>3. \A k \in {2, 4, 16} : e \div k \in Nat
      BY <1>2
    <3> QED  BY <3>1, <3>2, <3>3 DEF w, e
  <2>2. CASE ~IsList(type)
    BY <2>2 DEF Entries
  <2> QED  BY <2>1, <2>2
<1> HIDE DEF N, e
<1>4. e \in Nat /\ i + e + 1 \in Nat \ {0} /\ i + e <= N
  <2>1. e \in Nat /\ i \in Nat /\ N \in Nat /\ e <= N - i
    <3>1. i \in Nat
      BY <1>1
    <3> QED  BY <1>2, <3>1
  <2> QED  BY <2>1
<1> DEFINE own == IsOf(p, i, type)
<1>5. CASE ~own
  <2>1. y = [x EXCEPT !.data = i + e + 1]
    BY <1>1, <1>5 DEF Read, e
  <2>2. y = [data |-> i + e + 1, count |-> x.count, index |-> x.index, loc |-> x.loc, ended |-> x.ended]
    BY <1>1, <2>1
  <2>3. y \in Scan
    BY <1>1, <1>4, <2>2 DEF Scan
  <2>4. Passed(x, y, i, e) /\ y.data = i + e + 1
    BY <2>2 DEF Passed
  <2>5. type = COMP_NAME => p[i + 1] # COMP_NAME /\ p[i + 1] # INCOMP_NAME
    BY <1>5 DEF IsOf
  <2> QED  BY <1>1, <1>2, <1>3, <1>4, <1>5, <2>3, <2>4, <2>5 DEF N, e
<1>6. CASE own /\ ~(type = COMP_NAME /\ p[i + 1] = INCOMP_NAME)
  <2>1. NameSeen(x, p, i, type) = x
    BY <1>6 DEF NameSeen
  <2>2. CASE data_loc /\ x.count + n > x.index
    <3>1. y = [x EXCEPT !.count = x.count + n, !.loc = i, !.ended = TRUE]
      BY <1>1, <1>6, <2>1, <2>2 DEF Read
    <3>2. y = [data |-> i, count |-> x.count + n, index |-> x.index, loc |-> i, ended |-> TRUE]
      BY <1>1, <3>1
    <3>3. y \in Scan
      BY <1>1, <1>3, <3>2 DEF Scan
    <3>4. BrokenOff(x, y, i, n) /\ y.index = x.index /\ y.data = i /\ y.ended = TRUE
      BY <3>2 DEF BrokenOff
    <3>5. type = COMP_NAME => n = 1
      BY DEF Entries, IsList, COMP_NAME
    <3> QED  BY <1>1, <1>2, <1>3, <1>4, <1>6, <2>2, <3>3, <3>4, <3>5 DEF N, e
  <2>3. CASE ~(data_loc /\ x.count + n > x.index)
    <3>1. y = [x EXCEPT !.count = x.count + n, !.data = i + e + 1]
      BY <1>1, <1>6, <2>1, <2>3 DEF Read, e
    <3>2. y = [data |-> i + e + 1, count |-> x.count + n, index |-> x.index, loc |-> x.loc, ended |-> x.ended]
      BY <1>1, <3>1
    <3>3. y \in Scan
      BY <1>1, <1>3, <1>4, <3>2 DEF Scan
    <3>4. Counted(x, y, i, e, n) /\ y.data = i + e + 1
      BY <3>2 DEF Counted
    <3>5. type = COMP_NAME => n = 1
      BY DEF Entries, IsList, COMP_NAME
    <3> QED  BY <1>1, <1>2, <1>3, <1>4, <1>6, <2>3, <3>3, <3>4, <3>5 DEF N, e
  <2> QED  BY <2>2, <2>3
<1>7. CASE type = COMP_NAME /\ p[i + 1] = INCOMP_NAME
  <2> DEFINE seen == NameSeen(x, p, i, type)
  <2>1. seen = [data |-> i, count |-> x.count, index |-> x.index + 1, loc |-> i, ended |-> x.ended]
    BY <1>1, <1>7 DEF NameSeen
  <2>2. own /\ INCOMP_NAME # COMP_NAME
    BY <1>7 DEF IsOf, INCOMP_NAME, COMP_NAME
  <2>3. n = 1
    BY <1>7 DEF Entries, IsList, COMP_NAME
  <2> HIDE DEF seen
  <2>4. CASE data_loc /\ x.count + n > x.index + 1
    <3>1. y = [seen EXCEPT !.count = x.count + n, !.loc = i, !.ended = TRUE]
      BY <1>1, <2>1, <2>2, <2>4 DEF Read, seen
    <3>2. y = [data |-> i, count |-> x.count + n, index |-> x.index + 1, loc |-> i, ended |-> TRUE]
      BY <2>1, <3>1
    <3>3. y \in Scan
      BY <1>1, <1>3, <3>2 DEF Scan
    <3>4. ~(x.count <= x.index) /\ y.data = i /\ y.ended = TRUE
      <4>1. ~(x.count <= x.index)
        BY <1>1, <2>3, <2>4
      <4> QED  BY <3>2, <4>1
    <3> QED  BY <1>1, <1>2, <1>3, <1>4, <1>7, <2>2, <3>3, <3>4 DEF N, e
  <2>5. CASE ~(data_loc /\ x.count + n > x.index + 1)
    <3>1. y = [seen EXCEPT !.count = x.count + n, !.data = i + e + 1]
      BY <1>1, <2>1, <2>2, <2>5 DEF Read, seen, e
    <3>2. y = [data |-> i + e + 1, count |-> x.count + n, index |-> x.index + 1, loc |-> i, ended |-> x.ended]
      BY <2>1, <3>1
    <3>3. y \in Scan
      BY <1>1, <1>3, <1>4, <3>2 DEF Scan
    <3>4. Remembered(x, y, i, e) /\ y.data = i + e + 1
      BY <2>3, <3>2 DEF Remembered
    <3> QED  BY <1>1, <1>2, <1>3, <1>4, <1>7, <2>2, <3>3, <3>4 DEF N, e
  <2> QED  BY <2>4, <2>5
<1> QED  BY <1>5, <1>6, <1>7

\* What the loop is in when it ends is in every set of states that no round leaves.
ScanFrom(index) == [data |-> 1, count |-> 0, index |-> index, loc |-> 0, ended |-> FALSE]
Over(p, x) == x.ended \/ ~IsField(p, x.data)

NoRoundLeaves(p, type, data_loc, I) ==
  I \subseteq Scan /\ \A x \in I : ~Over(p, x) => Read(p, type, data_loc, x) \in I

LEMMA ScanStays ==
  ASSUME NEW p \in Seq(Octet), NEW type, NEW index \in Nat, NEW data_loc \in BOOLEAN,
         NEW I, ScanFrom(index) \in I, NoRoundLeaves(p, type, data_loc, I)
  PROVE  findAdvField(p, type, index, data_loc) \in I /\ Over(p, findAdvField(p, type, index, data_loc))
<1> DEFINE N == Len(p)
           X == Scan
           Round(x) == Read(p, type, data_loc, x)
           IsWalk(f) == f = [x \in X |-> IF x.ended \/ ~IsField(p, x.data) THEN x ELSE f[Round(x)]]
           walk == CHOOSE f : IsWalk(f)
           rank == [x \in X |-> x.data + (IF x.ended THEN 1 ELSE 0)]
           stop == [x \in X |-> Over(p, x)]
           val == [x \in X |-> x]
           next == [x \in X |-> Round(x)]
<1>1. findAdvField(p, type, index, data_loc) = walk[ScanFrom(index)]
  BY DEF findAdvField, ScanFrom
<1>2. N \in Nat
  BY LenProperties
<1>3. ASSUME NEW x \in X, ~Over(p, x)
      PROVE  /\ Round(x) \in X /\ rank[x] \in Nat /\ rank[x] <= N /\ rank[Round(x)] > rank[x]
  <2> DEFINE y == Round(x)
             i == x.data
             e == p[i]
             n == Entries(p, i, type)
  <2>1. IsField(p, x.data) /\ x.ended = FALSE
    BY <1>3 DEF Over, Scan
  <2>2. /\ y \in Scan /\ i \in Nat \ {0} /\ i + 2 <= N /\ e \in Nat /\ n \in Nat
        /\ y.data = i + e + 1 \/ (y.data = i /\ y.ended = TRUE)
    <3> HIDE DEF y, i, n
    <3>1. y = Read(p, type, data_loc, x) /\ i = x.data /\ n = Entries(p, i, type)
      BY DEF y, i, n
    <3>2. IsField(p, x.data)
      BY <2>1
    <3>3. x \in Scan
      OBVIOUS
    <3>4. RoundIs(p, type, data_loc, x, y, i, n)
      BY <3>1, <3>2, <3>3, RoundOf
    <3> QED  BY <3>4 DEF RoundIs
  <2>4. rank[x] = i /\ rank[y] = y.data + (IF y.ended THEN 1 ELSE 0)
    BY <2>1, <2>2
  <2>5. y.data \in Nat /\ y.ended \in BOOLEAN
    BY <2>2 DEF Scan
  <2> HIDE DEF y, i, e, rank, N
  <2>6. rank[x] \in Nat /\ rank[x] <= N /\ rank[y] > rank[x]
    BY <1>2, <2>2, <2>4, <2>5
  <2> QED  BY <2>2, <2>6 DEF y
<1>4. \A x \in X : stop[x] = Over(p, x) /\ val[x] = x /\ next[x] = Round(x) /\ rank[x] \in Nat
  BY DEF Scan
<1> HIDE DEF X, rank, stop, val, next, N, Round
<1>5. Upwards(N, X, rank, stop, next)
  BY <1>3, <1>4 DEF Upwards
<1>6. \A f : FoundFrom(f, X, stop, val, next) <=> IsWalk(f)
  BY <1>4 DEF FoundFrom, Over
<1>7. IsWalk(walk)
  <2>1. \E f : IsWalk(f)
    BY <1>2, <1>5, <1>6, WalkExists
  <2> HIDE DEF IsWalk
  <2> QED  BY <2>1
<1> HIDE DEF IsWalk, walk
<1>8. I \subseteq X /\ \A x \in I : ~stop[x] => next[x] \in I
  BY <1>4 DEF X, Round, NoRoundLeaves
<1>9. PICK y \in I : stop[y] /\ walk[ScanFrom(index)] = val[y]
  <2>1. FoundFrom(walk, X, stop, val, next)
    BY <1>6, <1>7
  <2> QED  BY <1>2, <1>5, <1>8, <2>1, WalkStays
<1> QED  BY <1>1, <1>4, <1>8, <1>9

\* How many entries of a type the fields before each mark have.
OwnEntries(p, type, i) == IF i \in OfType(p, type) THEN Entries(p, i, type) ELSE 0
Sums(p, S, type, before) ==
  /\ before \in [S -> Nat] /\ before[1] = 0
  /\ \A i \in S : i <= Len(p) => before[i + p[i] + 1] = before[i] + OwnEntries(p, type, i)
  /\ \A i \in OfType(p, type) : before[i] + Entries(p, i, type) <= before[Len(p) + 1]
Located(p, type, before, index, r) ==
  /\ r.loc \in OfType(p, type) /\ r.count = before[r.loc] + Entries(p, r.loc, type)
  /\ before[r.loc] <= index /\ index < r.count
Scanned(p, type, before, index, data_loc, r) ==
  IF data_loc /\ index < before[Len(p) + 1]
    THEN Located(p, type, before, index, r)
    ELSE r.loc = 0 /\ r.count = before[Len(p) + 1]

LEMMA FieldsFit ==
  ASSUME NEW p \in Seq(Octet), NEW S, Chain(p, S), NEW i \in S
  PROVE  /\ i \in FieldsOf(p) <=> IsField(p, i)
         /\ i \in FieldsOf(p) => i <= Len(p) /\ i + 2 <= Len(p)
         /\ i \notin FieldsOf(p) => i = Len(p) + 1 \/ (i <= Len(p) /\ i + p[i] + 1 = Len(p) + 1)
<1> DEFINE N == Len(p)
           e == p[i]
<1>1. N \in Nat /\ i \in 1 .. N + 1
  BY LenProperties DEF Chain
<1>2. i \in FieldsOf(p) <=> N - i >= 2
  BY FieldsAtMarks
<1>3. i <= N => e \in 1 .. 255 /\ i + e + 1 <= N + 1
  BY ChainStep
<1>4. IsField(p, i) <=> N - i >= 2 /\ e <= N - i
  BY DEF IsField
<1> HIDE DEF N, e
<1>7. i \in Nat /\ i <= N + 1 /\ (i <= N => e \in Nat /\ e >= 1 /\ i + e + 1 <= N + 1)
  <2>1. \A y \in 1 .. 255 : y \in Nat /\ y >= 1
    OBVIOUS
  <2>2. i \in Nat /\ i <= N + 1
    BY <1>1
  <2> QED  BY <1>3, <2>1, <2>2
<1>5. N - i >= 2 => i <= N /\ i + 2 <= N /\ e <= N - i
  <2> SUFFICES ASSUME N - i >= 2 PROVE i <= N /\ i + 2 <= N /\ e <= N - i
    OBVIOUS
  <2>1. i <= N /\ i + 2 <= N
    BY <1>1, <1>7
  <2> QED  BY <1>1, <1>7, <2>1
<1>6. ~(N - i >= 2) => i = N + 1 \/ (i <= N /\ i + e + 1 = N + 1)
  <2> SUFFICES ASSUME ~(N - i >= 2), i # N + 1 PROVE i <= N /\ i + e + 1 = N + 1
    OBVIOUS
  <2>1. i <= N
    BY <1>1, <1>7
  <2> QED  BY <1>1, <1>7, <2>1
<1> QED  BY <1>2, <1>4, <1>5, <1>6 DEF N, e

LEMMA FieldScanned ==
  ASSUME NEW p \in Seq(Octet), NEW S, Chain(p, S), NEW type, type # COMP_NAME,
         NEW before, Sums(p, S, type, before), NEW index \in Nat, NEW data_loc \in BOOLEAN
  PROVE  Scanned(p, type, before, index, data_loc, findAdvField(p, type, index, data_loc))
<1> DEFINE N == Len(p)
           r == findAdvField(p, type, index, data_loc)
           Going(x) == x.ended = FALSE /\ x.loc = 0 /\ x.count = before[x.data] /\ (data_loc => x.count <= index)
           Broken(x) == x.ended = TRUE /\ data_loc /\ Located(p, type, before, index, x)
           I == {x \in Scan : x.data \in S /\ x.index = index /\ (Going(x) \/ Broken(x))}
<1>1. N \in Nat /\ S \subseteq 1 .. N + 1 /\ 1 \in S /\ N + 1 \in S
  BY LenProperties DEF Chain
<1>2. /\ before \in [S -> Nat] /\ before[1] = 0
      /\ \A i \in S : i <= N => before[i + p[i] + 1] = before[i] + OwnEntries(p, type, i)
      /\ \A i \in OfType(p, type) : before[i] + Entries(p, i, type) <= before[N + 1]
  BY DEF Sums
<1>3. ScanFrom(index) \in I
  BY <1>1, <1>2 DEF ScanFrom, Scan
<1>4. ASSUME NEW x \in I, ~Over(p, x)
      PROVE  Read(p, type, data_loc, x) \in I
  <2> DEFINE y == Read(p, type, data_loc, x)
             i == x.data
             n == Entries(p, i, type)
             k == i + p[i] + 1
  <2>1. x \in Scan /\ i \in S /\ x.index = index /\ Going(x) /\ IsField(p, i) /\ x.count \in Nat
    BY <1>4 DEF Over, Scan
  <2>2. RoundIs(p, type, data_loc, x, y, i, n)
    <3> HIDE DEF y, i, n
    <3>1. y = Read(p, type, data_loc, x) /\ i = x.data /\ n = Entries(p, i, type)
      BY DEF y, i, n
    <3>2. x \in Scan /\ IsField(p, x.data)
      BY <2>1, <3>1
    <3> QED  BY <3>1, <3>2, RoundOf
  <2>3. i \in FieldsOf(p) /\ i <= N
    BY <2>1, FieldsFit
  <2>4. k \in S
    BY <2>1, <2>3, ChainStep
  <2>5. before[k] = before[i] + OwnEntries(p, type, i)
    BY <1>2, <2>1, <2>3
  <2>6. i \in OfType(p, type) <=> IsOf(p, i, type)
    BY <2>3 DEF OfType, IsOf
  <2>7. OwnEntries(p, type, i) = (IF IsOf(p, i, type) THEN n ELSE 0)
    BY <2>6 DEF OwnEntries
  <2>8. before[i] \in Nat /\ x.count = before[i] /\ x.loc = 0 /\ (data_loc => x.count <= index) /\ n \in Nat
        /\ y \in Scan /\ x.ended = FALSE
    BY <1>2, <2>1, <2>2 DEF RoundIs
  <2> HIDE DEF y, i, n, k, N
  <2>9. CASE ~IsOf(p, i, type)
    <3>1. Passed(x, y, i, p[i])
      BY <2>2, <2>9 DEF RoundIs
    <3>2. y.data = k /\ y.count = x.count /\ y.index = index /\ y.loc = 0 /\ y.ended = FALSE
      BY <2>1, <2>8, <3>1 DEF Passed, k
    <3>3. before[k] = before[i]
      BY <2>5, <2>7, <2>8, <2>9
    <3> QED  BY <2>4, <2>8, <3>2, <3>3 DEF y
  <2>10. CASE IsOf(p, i, type) /\ data_loc /\ x.count + n > x.index
    <3>1. BrokenOff(x, y, i, n) /\ y.index = x.index
      BY <2>2, <2>10 DEF RoundIs
    <3>2. y.data = i /\ y.count = before[i] + n /\ y.index = index /\ y.loc = i /\ y.ended = TRUE
      BY <2>1, <2>8, <3>1 DEF BrokenOff
    <3>3. Located(p, type, before, index, y)
      BY <2>1, <2>6, <2>8, <2>10, <3>2 DEF Located, n
    <3> QED  BY <2>1, <2>8, <2>10, <3>2, <3>3 DEF y
  <2>11. CASE IsOf(p, i, type) /\ ~(data_loc /\ x.count + n > x.index)
    <3>1. Counted(x, y, i, p[i], n)
      BY <2>2, <2>11 DEF RoundIs
    <3>2. y.data = k /\ y.count = x.count + n /\ y.index = index /\ y.loc = 0 /\ y.ended = FALSE
      BY <2>1, <2>8, <3>1 DEF Counted, k
    <3>3. before[k] = before[i] + n /\ (data_loc => y.count <= index)
      BY <2>1, <2>5, <2>7, <2>8, <2>11, <3>2
    <3> QED  BY <2>4, <2>8, <3>2, <3>3 DEF y
  <2> QED  BY <2>9, <2>10, <2>11
<1>5. r \in I /\ Over(p, r)
  <2>1. NoRoundLeaves(p, type, data_loc, I)
    BY <1>4 DEF NoRoundLeaves
  <2> HIDE DEF I
  <2> QED  BY <1>3, <2>1, ScanStays
<1> HIDE DEF r, N
<1>6. r.data \in S /\ (Going(r) \/ Broken(r))
  BY <1>5
<1>7. before[N + 1] \in Nat /\ \A i \in S : before[i] \in Nat
  BY <1>1, <1>2
<1>8. CASE Broken(r)
  <2>1. r.loc \in OfType(p, type) /\ index < r.count /\ r.count = before[r.loc] + Entries(p, r.loc, type)
    BY <1>8 DEF Located
  <2>2. r.count <= before[N + 1]
    BY <1>2, <2>1
  <2>3. r.count \in Nat
    BY <1>5 DEF Scan
  <2>4. index < before[N + 1]
    BY <1>7, <2>1, <2>2, <2>3
  <2> QED  BY <1>8, <2>4 DEF Scanned, r, N
<1>9. CASE Going(r)
  <2> DEFINE i == r.data
  <2>1. ~IsField(p, i) /\ i \in S
    BY <1>5, <1>6, <1>9 DEF Over
  <2>2. i \notin FieldsOf(p) /\ (i = N + 1 \/ (i <= N /\ i + p[i] + 1 = N + 1))
    BY <2>1, FieldsFit DEF N
  <2>3. OwnEntries(p, type, i) = 0
    BY <2>2 DEF OwnEntries, OfType
  <2>4. before[i] = before[N + 1]
    <3>1. CASE i = N + 1
      BY <3>1
    <3>2. CASE i <= N /\ i + p[i] + 1 = N + 1
      <4>1. before[N + 1] = before[i] + 0
        BY <1>2, <2>1, <2>3, <3>2
      <4> QED  BY <1>7, <2>1, <4>1
    <3> QED  BY <2>2, <3>1, <3>2
  <2>5. r.count = before[N + 1] /\ r.loc = 0 /\ (data_loc => ~(index < before[N + 1]))
    <3>1. r.count = before[i] /\ r.loc = 0 /\ (data_loc => r.count <= index)
      BY <1>9
    <3> QED  BY <1>7, <2>4, <3>1
  <2> QED  BY <2>5 DEF Scanned, r, N
<1> QED  BY <1>6, <1>8, <1>9

LEMMA FoundCount ==
  ASSUME NEW p \in Seq(Octet), NEW S, Chain(p, S), NEW type, NEW index \in Nat, NEW data_loc \in BOOLEAN
  PROVE  findAdvField(p, type, index, data_loc).count \in Nat
<1> DEFINE I == Scan
<1>1. ScanFrom(index) \in I
  BY DEF ScanFrom, Scan
<1>2. ASSUME NEW x \in I, ~Over(p, x)
      PROVE  Read(p, type, data_loc, x) \in I
  <2> DEFINE y == Read(p, type, data_loc, x)
             i == x.data
             n == Entries(p, i, type)
  <2>1. x \in Scan /\ IsField(p, i)
    BY <1>2 DEF Over
  <2>2. RoundIs(p, type, data_loc, x, y, i, n)
    <3>1. y = Read(p, type, data_loc, x) /\ i = x.data /\ n = Entries(p, i, type)
      BY DEF y, i, n
    <3>2. x \in Scan /\ IsField(p, x.data)
      BY <2>1, <3>1
    <3> QED  BY <3>1, <3>2, RoundOf
  <2> QED  BY <2>2 DEF RoundIs
<1>3. NoRoundLeaves(p, type, data_loc, I)
  BY <1>2 DEF NoRoundLeaves
<1> HIDE DEF I
<1>4. findAdvField(p, type, index, data_loc) \in I
  BY <1>1, <1>3, ScanStays
<1> QED  BY <1>4 DEF I, Scan

\* A field that is not a list is an entry: the entries are counted from field to field.
DataRanked(p, type, rank) ==
  LET own == OfType(p, type)
  IN  /\ rank \in [own -> Nat] /\ \A i \in own : rank[i] < Cardinality(own)
      /\ \A i, j \in own : rank[i] = rank[j] => i = j
DataFound(p, type, rank, index, data_loc, r) ==
  LET own == OfType(p, type)
  IN  IF data_loc /\ index < Cardinality(own)
        THEN r.loc \in own /\ rank[r.loc] = index /\ index < r.count
        ELSE r.count = Cardinality(own)

LEMMA OwnFields ==
  ASSUME NEW p \in Seq(Octet), NEW S, Chain(p, S), NEW type
  PROVE  /\ OfType(p, type) \subseteq S /\ OfType(p, type) \subseteq 1 .. Len(p)
         /\ IsFiniteSet(OfType(p, type)) /\ Cardinality(OfType(p, type)) \in Nat
<1>1. Len(p) \in Nat /\ S \subseteq 1 .. Len(p) + 1
  BY LenProperties DEF Chain
<1>2. OfType(p, type) \subseteq S
  BY FieldsAtMarks DEF OfType
<1>3. \A i \in OfType(p, type) : i \in 1 .. Len(p)
  <2> TAKE i \in OfType(p, type)
  <2>1. i \in S /\ i <= Len(p)
    BY <1>2, FieldsFit DEF OfType
  <2> QED  BY <1>1, <2>1
<1>4. IsFiniteSet(OfType(p, type))
  <2>1. IsFiniteSet(1 .. Len(p))
    BY <1>1, FS_Interval
  <2> QED  BY <1>3, <2>1, FS_Subset
<1> QED  BY <1>2, <1>3, <1>4, FS_CardinalityType

LEMMA DataSums ==
  ASSUME NEW p \in Seq(Octet), NEW S, Chain(p, S), NEW type, ~IsList(type)
  PROVE  \E before : /\ Sums(p, S, type, before)
                     /\ before[Len(p) + 1] = Cardinality(OfType(p, type))
                     /\ \A i, j \in OfType(p, type) : before[i] = before[j] => i = j
<1> DEFINE N == Len(p)
           own == OfType(p, type)
           Below(i) == {f \in own : f < i}
           before == [i \in S |-> Cardinality(Below(i))]
<1>1. /\ N \in Nat /\ S \subseteq 1 .. N + 1 /\ 1 \in S /\ N + 1 \in S
      /\ own \subseteq S /\ own \subseteq 1 .. N /\ IsFiniteSet(own)
  BY LenProperties, OwnFields DEF Chain
<1>2. \A i \in S : IsFiniteSet(Below(i)) /\ before[i] = Cardinality(Below(i)) /\ Cardinality(Below(i)) \in Nat
  <2> TAKE i \in S
  <2>1. Below(i) \subseteq own
    OBVIOUS
  <2>2. IsFiniteSet(Below(i))
    BY <1>1, <2>1, FS_Subset
  <2> QED  BY <2>2, FS_CardinalityType
<1>3. \A i \in own : Entries(p, i, type) = 1
  BY DEF Entries
<1>4. before[1] = 0
  <2>1. Below(1) = {}
    BY <1>1
  <2> QED  BY <1>1, <1>2, <2>1, FS_EmptySet
<1>5. before[N + 1] = Cardinality(own)
  <2>1. Below(N + 1) = own
    BY <1>1
  <2> QED  BY <1>1, <1>2, <2>1
<1> HIDE DEF own
<1>6. ASSUME NEW i \in S, i <= N
      PROVE  before[i + p[i] + 1] = before[i] + OwnEntries(p, type, i)
  <2> DEFINE k == i + p[i] + 1
  <2>1. k \in S /\ k \in Nat /\ i \in Nat /\ k > i
    BY <1>6, ChainStep
  <2>2. \A f \in own : f < k <=> f < i \/ f = i
    <3> TAKE f \in own
    <3>1. f \in S /\ f \in Nat /\ p[i] \in Nat
      <4>1. f \in S /\ f \in 1 .. N
        BY <1>1
      <4>2. \A y \in 1 .. N : y \in Nat
        BY <1>1
      <4>3. p[i] \in Nat
        <5>1. p[i] \in 1 .. 255
          BY <1>6, ChainStep
        <5>2. \A y \in 1 .. 255 : y \in Nat
          OBVIOUS
        <5> QED  BY <5>1, <5>2
      <4> QED  BY <4>1, <4>2, <4>3
    <3>2. i < f => i + p[i] < f
      BY <3>1 DEF Chain
    <3> QED  BY <2>1, <3>1, <3>2
  <2> HIDE DEF k
  <2>3. CASE i \in own
    <3>0. i \notin Below(i)
      BY <2>1
    <3>1. Below(k) = Below(i) \cup {i} /\ i \notin Below(i)
      <4>1. \A f : f \in Below(k) <=> f \in Below(i) \/ f = i
        BY <2>2, <2>3
      <4>2. \A f : f \in Below(i) \cup {i} <=> f \in Below(i) \/ f = i
        OBVIOUS
      <4> HIDE DEF Below
      <4> QED  BY <3>0, <4>1, <4>2
    <3>2. Cardinality(Below(i) \cup {i}) = Cardinality(Below(i)) + 1
      BY <1>2, <3>1, FS_AddElement
    <3>3. OwnEntries(p, type, i) = 1
      BY <1>3, <2>3 DEF OwnEntries, own
    <3> HIDE DEF Below
    <3> QED  BY <1>2, <2>1, <3>1, <3>2, <3>3 DEF k
  <2>4. CASE i \notin own
    <3>1. Below(k) = Below(i)
      BY <2>2, <2>4
    <3>2. OwnEntries(p, type, i) = 0
      BY <2>4 DEF OwnEntries, own
    <3> HIDE DEF Below
    <3> QED  BY <1>2, <2>1, <3>1, <3>2 DEF k
  <2> QED  BY <2>3, <2>4
<1>7. ASSUME NEW i \in own, NEW j \in S, i < j
      PROVE  before[i] + 1 <= before[j]
  <2>1. Below(i) \cup {i} \subseteq Below(j) /\ i \notin Below(i) /\ i \in S
    <3>1. own \subseteq Nat /\ own \subseteq S /\ j \in Nat
      <4>1. \A y \in 1 .. N + 1 : y \in Nat
        BY <1>1
      <4>2. \A y \in 1 .. N : y \in Nat
        BY <1>1
      <4> QED  BY <1>1, <4>1, <4>2
    <3>2. i \in Nat /\ i \in S /\ i < j
      BY <1>7, <3>1
    <3>3. i \notin Below(i)
      BY <3>2
    <3>4. \A f \in Below(i) : f \in Below(j)
      BY <3>1, <3>2
    <3>5. i \in Below(j)
      BY <1>7, <3>2
    <3> QED  BY <3>2, <3>3, <3>4, <3>5
  <2> HIDE DEF Below
  <2>2. Cardinality(Below(i) \cup {i}) = Cardinality(Below(i)) + 1
    BY <1>2, <2>1, FS_AddElement
  <2>3. Cardinality(Below(i) \cup {i}) <= Cardinality(Below(j))
    BY <1>2, <2>1, FS_Subset
  <2> QED  BY <1>2, <2>1, <2>2, <2>3
<1>8. \A i \in own : before[i] + Entries(p, i, type) <= before[N + 1]
  <2> TAKE i \in own
  <2>1. i < N + 1
    BY <1>1
  <2> QED  BY <1>1, <1>3, <1>7, <2>1
<1>9. \A i, j \in own : before[i] = before[j] => i = j
  <2>1. ASSUME NEW i \in own, NEW j \in own, i < j PROVE before[i] # before[j]
    <3>1. i \in S /\ j \in S
      BY <1>1
    <3>2. before[i] + 1 <= before[j]
      BY <1>7, <2>1, <3>1
    <3>3. before[i] \in Nat /\ before[j] \in Nat
      BY <1>2, <3>1
    <3> HIDE DEF before
    <3> QED  BY <3>2, <3>3
  <2>2. \A i, j \in own : i = j \/ i < j \/ j < i
    <3>1. \A y, z \in 1 .. N : y = z \/ y < z \/ z < y
      BY <1>1
    <3> QED  BY <1>1, <3>1
  <2> HIDE DEF before
  <2> QED  BY <2>1, <2>2
<1>10. before \in [S -> Nat]
  BY <1>2
<1> HIDE DEF before
<1>11. Sums(p, S, type, before)
  BY <1>4, <1>6, <1>8, <1>10 DEF Sums, own
<1> QED  BY <1>5, <1>9, <1>11 DEF own

LEMMA DataScanned ==
  ASSUME NEW p \in Seq(Octet), NEW S, Chain(p, S), NEW type, ~IsList(type), type # COMP_NAME
  PROVE  \E rank : /\ DataRanked(p, type, rank)
                   /\ \A index \in Nat, data_loc \in BOOLEAN :
                        DataFound(p, type, rank, index, data_loc, findAdvField(p, type, index, data_loc))
<1> DEFINE N == Len(p)
           own == OfType(p, type)
           C == Cardinality(own)
<1>1. PICK before : /\ Sums(p, S, type, before) /\ before[N + 1] = C
                    /\ \A i, j \in own : before[i] = before[j] => i = j
  BY DataSums
<1> DEFINE rank == [i \in own |-> before[i]]
<1>2. own \subseteq S /\ C \in Nat /\ before \in [S -> Nat]
  BY <1>1, OwnFields DEF Sums
<1>3. \A i \in own : Entries(p, i, type) = 1 /\ before[i] + Entries(p, i, type) <= C
  BY <1>1 DEF Sums, Entries
<1>4. DataRanked(p, type, rank)
  <2>1. rank \in [own -> Nat]
    BY <1>2
  <2>2. \A i \in own : rank[i] < C
    BY <1>2, <1>3
  <2>3. \A i, j \in own : rank[i] = rank[j] => i = j
    BY <1>1
  <2> HIDE DEF rank
  <2> QED  BY <2>1, <2>2, <2>3 DEF DataRanked
<1>5. ASSUME NEW index \in Nat, NEW data_loc \in BOOLEAN
      PROVE  DataFound(p, type, rank, index, data_loc, findAdvField(p, type, index, data_loc))
  <2> DEFINE r == findAdvField(p, type, index, data_loc)
  <2>1. Scanned(p, type, before, index, data_loc, r)
    BY <1>1, FieldScanned
  <2> HIDE DEF r
  <2>2. CASE data_loc /\ index < C
    <3>1. r.loc \in own /\ r.count = before[r.loc] + Entries(p, r.loc, type)
          /\ before[r.loc] <= index /\ index < r.count
      BY <1>1, <2>1, <2>2 DEF Scanned, Located
    <3>2. rank[r.loc] = index
      BY <1>2, <1>3, <3>1
    <3> QED  BY <2>2, <3>1, <3>2 DEF DataFound, r
  <2>3. CASE ~(data_loc /\ index < C)
    BY <1>1, <2>1, <2>3 DEF Scanned, DataFound, r
  <2> QED  BY <2>2, <2>3
<1> HIDE DEF rank
<1> QED  BY <1>4, <1>5

\* A list counts its entries; where its type occurs once they are all of one field.
ListOf(p, type, c) ==
  LET own == OfType(p, type)
  IN  /\ own = {} => c = 0
      /\ \A f \in own : own = {f} /\ c = Entries(p, f, type)
ListFound(p, type, c, index, data_loc, r) ==
  /\ r.count = c
  /\ IF data_loc /\ index < c THEN r.loc \in OfType(p, type) ELSE r.loc = 0

LEMMA EntriesNat ==
  ASSUME NEW p \in Seq(Octet), NEW i \in 1 .. Len(p), NEW type
  PROVE  Entries(p, i, type) \in Nat
<1> DEFINE e == p[i]
<1>1. e \in Nat
  <2>1. e \in 0 .. 255
    BY OctetAt
  <2>2. \A y \in 0 .. 255 : y \in Nat
    OBVIOUS
  <2> QED  BY <2>1, <2>2
<1> HIDE DEF e
<1>2. CASE IsList(type)
  <2>1. Width(type) \in {2, 4, 16}
    BY <1>2 DEF IsList, Width
  <2>2. \A k \in {2, 4, 16} : e \div k \in Nat
    BY <1>1
  <2> QED  BY <1>2, <2>1, <2>2 DEF Entries, e
<1>3. CASE ~IsList(type)
  BY <1>3 DEF Entries
<1> QED  BY <1>2, <1>3

LEMMA ListSums ==
  ASSUME NEW p \in Seq(Octet), NEW S, Chain(p, S), NEW type, IsList(type),
         Cardinality(OfType(p, type)) <= 1
  PROVE  \E before : /\ Sums(p, S, type, before) /\ before[Len(p) + 1] \in Nat
                     /\ ListOf(p, type, before[Len(p) + 1])
                     /\ \A i \in OfType(p, type) : before[i] = 0
<1> DEFINE N == Len(p)
           own == OfType(p, type)
<1>1. /\ N \in Nat /\ S \subseteq 1 .. N + 1 /\ 1 \in S /\ N + 1 \in S
      /\ own \subseteq S /\ own \subseteq 1 .. N /\ IsFiniteSet(own) /\ Cardinality(own) \in Nat
  BY LenProperties, OwnFields DEF Chain
<1>2. \A i \in S : i <= N => i + p[i] + 1 \in S /\ i \in Nat /\ i + p[i] + 1 > i
  BY ChainStep
<1>3. CASE own = {}
  <2> DEFINE before == [i \in S |-> 0]
  <2>1. Sums(p, S, type, before)
    <3>1. \A i \in S : OwnEntries(p, type, i) = 0
      BY <1>3 DEF OwnEntries
    <3>2. \A i \in S : i <= N => before[i + p[i] + 1] = before[i] + OwnEntries(p, type, i)
      BY <1>2, <3>1
    <3> QED  BY <1>1, <1>3, <3>2 DEF Sums
  <2>2. before[N + 1] = 0
    BY <1>1
  <2> HIDE DEF before
  <2> QED  BY <1>3, <2>1, <2>2 DEF ListOf
<1>4. ASSUME own # {}
      PROVE  \E before : /\ Sums(p, S, type, before) /\ before[N + 1] \in Nat
                         /\ ListOf(p, type, before[N + 1])
                         /\ \A i \in own : before[i] = 0
  <2>1. PICK f : own = {f}
    <3>1. Cardinality(own) # 0
      BY <1>1, <1>4, FS_EmptySet
    <3>2. Cardinality(own) = 1
      BY <1>1, <3>1
    <3> QED  BY <1>1, <3>2, FS_Singleton
  <2> DEFINE e == Entries(p, f, type)
             before == [i \in S |-> IF f < i THEN e ELSE 0]
  <2>2. f \in 1 .. N /\ f \in S
    BY <1>1, <2>1
  <2>3. e \in Nat
    BY <2>2, EntriesNat
  <2> HIDE DEF e
  <2>4. before[1] = 0 /\ before[N + 1] = e /\ before[f] = 0 /\ before \in [S -> Nat]
    BY <1>1, <2>2, <2>3
  <2>5. ASSUME NEW i \in S, i <= N
        PROVE  before[i + p[i] + 1] = before[i] + OwnEntries(p, type, i)
    <3> DEFINE k == i + p[i] + 1
    <3>1. k \in S /\ k \in Nat /\ i \in Nat /\ k > i
      BY <2>5, ChainStep
    <3>2. f \in Nat /\ (i < f => k <= f)
      <4>1. f \in Nat
        <5>1. \A y \in 1 .. N : y \in Nat
          BY <1>1
        <5> QED  BY <2>2, <5>1
      <4>2. i < f => i + p[i] < f
        BY <2>2 DEF Chain
      <4>3. p[i] \in Nat
        <5>1. p[i] \in 1 .. 255
          BY <2>5, ChainStep
        <5>2. \A y \in 1 .. 255 : y \in Nat
          OBVIOUS
        <5> QED  BY <5>1, <5>2
      <4> QED  BY <3>1, <4>1, <4>2, <4>3
    <3>3. before[k] = (IF f < k THEN e ELSE 0) /\ before[i] = (IF f < i THEN e ELSE 0)
      BY <3>1
    <3>4. OwnEntries(p, type, i) = (IF i = f THEN e ELSE 0)
      BY <2>1 DEF OwnEntries, e
    <3> HIDE DEF k, before
    <3> QED  BY <2>3, <3>1, <3>2, <3>3, <3>4 DEF k
  <2>6. \A i \in own : before[i] + Entries(p, i, type) <= before[N + 1]
    <3>1. before[f] + e <= before[N + 1]
      BY <2>3, <2>4
    <3> HIDE DEF before
    <3> QED  BY <2>1, <3>1 DEF e
  <2> HIDE DEF before
  <2>7. Sums(p, S, type, before)
    BY <2>4, <2>5, <2>6 DEF Sums
  <2>8. ListOf(p, type, before[N + 1])
    BY <2>1, <2>4 DEF ListOf, e
  <2> QED  BY <2>1, <2>3, <2>4, <2>7, <2>8
<1> QED  BY <1>3, <1>4

LEMMA ListScanned ==
  ASSUME NEW p \in Seq(Octet), NEW S, Chain(p, S), NEW type, IsList(type),
         Cardinality(OfType(p, type)) <= 1
  PROVE  \E c \in Nat : /\ ListOf(p, type, c)
                        /\ \A index \in Nat, data_loc \in BOOLEAN :
                             ListFound(p, type, c, index, data_loc, findAdvField(p, type, index, data_loc))
<1> DEFINE N == Len(p)
           own == OfType(p, type)
<1>1. PICK before : /\ Sums(p, S, type, before) /\ before[N + 1] \in Nat
                    /\ ListOf(p, type, before[N + 1])
                    /\ \A i \in own : before[i] = 0
  BY ListSums
<1> DEFINE c == before[N + 1]
<1>2. type # COMP_NAME
  BY DEF IsList, COMP_NAME
<1>3. ASSUME NEW index \in Nat, NEW data_loc \in BOOLEAN
      PROVE  ListFound(p, type, c, index, data_loc, findAdvField(p, type, index, data_loc))
  <2> DEFINE r == findAdvField(p, type, index, data_loc)
  <2>1. Scanned(p, type, before, index, data_loc, r)
    BY <1>1, <1>2, FieldScanned
  <2> HIDE DEF r
  <2>2. CASE data_loc /\ index < c
    <3>1. r.loc \in own /\ r.count = before[r.loc] + Entries(p, r.loc, type)
      BY <2>1, <2>2 DEF Scanned, Located
    <3>2. before[r.loc] = 0 /\ c = Entries(p, r.loc, type)
      BY <1>1, <3>1 DEF ListOf
    <3>3. r.count = c
      BY <1>1, <3>1, <3>2
    <3> QED  BY <2>2, <3>1, <3>3 DEF ListFound, r
  <2>3. CASE ~(data_loc /\ index < c)
    BY <2>1, <2>3 DEF Scanned, ListFound, r
  <2> QED  BY <2>2, <2>3
<1> QED  BY <1>1, <1>3

\* A complete name is taken before an incomplete one.
NoneBefore(own, i) == \A f \in own : i <= f
NameFound(p, r) ==
  \/ r.loc \in OfType(p, COMP_NAME) /\ r.count > 0
  \/ OfType(p, COMP_NAME) = {} /\ r.loc \in OfType(p, INCOMP_NAME) /\ r.count > 0
  \/ OfType(p, COMP_NAME) = {} /\ OfType(p, INCOMP_NAME) = {} /\ r.loc = 0

LEMMA AheadOf ==
  ASSUME NEW p \in Seq(Octet), NEW S, Chain(p, S), NEW i \in S, i <= Len(p), NEW type,
         NoneBefore(OfType(p, type), i), p[i + 1] # type
  PROVE  NoneBefore(OfType(p, type), i + p[i] + 1)
<1>1. p[i] \in Nat /\ i \in Nat
  <2>1. p[i] \in 1 .. 255 /\ i \in Nat
    BY ChainStep
  <2>2. \A y \in 1 .. 255 : y \in Nat
    OBVIOUS
  <2> QED  BY <2>1, <2>2
<1>2. ASSUME NEW f \in OfType(p, type)
      PROVE  i + p[i] + 1 <= f
  <2>1. f \in S /\ f \in 1 .. Len(p) /\ Len(p) \in Nat
    BY OwnFields, LenProperties
  <2>2. f \in Nat
    <3>1. \A n \in Nat : \A y \in 1 .. n : y \in Nat
      OBVIOUS
    <3> QED  BY <2>1, <3>1
  <2>3. i <= f /\ f # i
    BY <1>2 DEF NoneBefore, OfType
  <2>4. i < f
    BY <1>1, <2>2, <2>3
  <2>5. i + p[i] < f
    BY <2>1, <2>4 DEF Chain
  <2> QED  BY <1>1, <2>2, <2>5
<1> QED  BY <1>2 DEF NoneBefore

LEMMA NoneLeft ==
  ASSUME NEW p \in Seq(Octet), NEW S, Chain(p, S), NEW i \in S, ~IsField(p, i), NEW type,
         NoneBefore(OfType(p, type), i)
  PROVE  OfType(p, type) = {}
<1> SUFFICES ASSUME NEW f \in OfType(p, type)
             PROVE  FALSE
  OBVIOUS
<1>1. f \in S /\ f \in 1 .. Len(p) /\ Len(p) \in Nat
  BY OwnFields, LenProperties
<1>2. f \in Nat /\ f <= Len(p)
  BY <1>1
<1>3. i \notin FieldsOf(p)
  BY FieldsFit
<1>4. i <= f /\ f # i
  BY <1>3 DEF NoneBefore, OfType
<1>5. CASE i = Len(p) + 1
  BY <1>1, <1>2, <1>4, <1>5
<1>6. CASE i <= Len(p) /\ i + p[i] + 1 = Len(p) + 1
  <2>1. i \in Nat /\ p[i] \in Nat
    <3>1. p[i] \in 1 .. 255 /\ i \in Nat
      BY <1>6, ChainStep
    <3>2. \A y \in 1 .. 255 : y \in Nat
      OBVIOUS
    <3> QED  BY <3>1, <3>2
  <2>2. i < f
    BY <1>2, <1>4, <2>1
  <2>3. i + p[i] < f
    BY <1>1, <2>2 DEF Chain
  <2> QED  BY <1>1, <1>2, <1>6, <2>1, <2>3
<1> QED  BY <1>3, <1>5, <1>6, FieldsFit

LEMMA NameScanned ==
  ASSUME NEW p \in Seq(Octet), NEW S, Chain(p, S)
  PROVE  NameFound(p, findAdvField(p, COMP_NAME, 0, TRUE))
<1> DEFINE r == findAdvField(p, COMP_NAME, 0, TRUE)
           full == OfType(p, COMP_NAME)
           short == OfType(p, INCOMP_NAME)
           Going(x) == /\ x.ended = FALSE /\ x.count = x.index /\ NoneBefore(full, x.data)
                       /\ (x.loc = 0 /\ NoneBefore(short, x.data)) \/ (x.loc \in short /\ x.count > 0)
           Broken(x) == x.ended = TRUE /\ x.loc \in full /\ x.count > 0
           I == {x \in Scan : x.data \in S /\ (Going(x) \/ Broken(x))}
<1>0. S \subseteq 1 .. Len(p) + 1 /\ 1 \in S /\ Len(p) \in Nat
  BY LenProperties DEF Chain
<1>1. ScanFrom(0) \in I
  <2>1. NoneBefore(full, 1) /\ NoneBefore(short, 1)
    <3>1. \A type : \A f \in OfType(p, type) : 1 <= f
      <4>1. \A type : OfType(p, type) \subseteq 1 .. Len(p)
        BY OwnFields
      <4>2. \A y \in 1 .. Len(p) : 1 <= y
        BY <1>0
      <4> QED  BY <4>1, <4>2
    <3> QED  BY <3>1 DEF NoneBefore
  <2> QED  BY <1>0, <2>1 DEF ScanFrom, Scan
<1>2. ASSUME NEW x \in I, ~Over(p, x)
      PROVE  Read(p, COMP_NAME, TRUE, x) \in I
  <2> DEFINE y == Read(p, COMP_NAME, TRUE, x)
             i == x.data
             n == Entries(p, i, COMP_NAME)
             k == i + p[i] + 1
  <2>1. x \in Scan /\ i \in S /\ Going(x) /\ IsField(p, i)
    BY <1>2 DEF Over
  <2>2. RoundIs(p, COMP_NAME, TRUE, x, y, i, n)
    <3>1. y = Read(p, COMP_NAME, TRUE, x) /\ i = x.data /\ n = Entries(p, i, COMP_NAME)
      BY DEF y, i, n
    <3>2. x \in Scan /\ IsField(p, x.data)
      BY <2>1
    <3> QED  BY <3>1, <3>2, RoundOf
  <2>3. i \in FieldsOf(p) /\ i <= Len(p)
    BY <2>1, FieldsFit
  <2>4. k \in S
    BY <2>1, <2>3, ChainStep
  <2>5. x.count \in Nat /\ x.index \in Nat
    BY <2>1 DEF Scan
  <2>6. y \in Scan
    BY <2>2 DEF RoundIs
  <2> HIDE DEF y, i, n
  <2>7. CASE p[i + 1] = COMP_NAME
    <3>1. BrokenOff(x, y, i, 1)
      BY <2>1, <2>2, <2>5, <2>7 DEF RoundIs
    <3>2. y.data = i /\ y.ended = TRUE /\ y.loc = i /\ y.count = x.count + 1
      BY <3>1 DEF BrokenOff
    <3>3. i \in full /\ y.count > 0
      BY <2>3, <2>5, <2>7, <3>2 DEF OfType
    <3> QED  BY <2>1, <2>6, <3>2, <3>3 DEF y
  <2>8. CASE p[i + 1] = INCOMP_NAME
    <3>1. Remembered(x, y, i, p[i])
      BY <2>1, <2>2, <2>5, <2>8 DEF RoundIs
    <3>2. y.data = k /\ y.ended = FALSE /\ y.loc = i /\ y.count = x.count + 1 /\ y.index = x.index + 1
      BY <2>1, <3>1 DEF Remembered
    <3>3. i \in short /\ y.count > 0 /\ y.count = y.index
      BY <2>1, <2>3, <2>5, <2>8, <3>2 DEF OfType
    <3>4. NoneBefore(full, k)
      <4>1. p[i + 1] # COMP_NAME
        BY <2>8 DEF COMP_NAME, INCOMP_NAME
      <4>2. NoneBefore(full, i)
        BY <2>1 DEF i
      <4> QED  BY <2>1, <2>3, <4>1, <4>2, AheadOf
    <3> QED  BY <2>4, <2>6, <3>2, <3>3, <3>4 DEF y
  <2>9. CASE p[i + 1] # COMP_NAME /\ p[i + 1] # INCOMP_NAME
    <3>1. Passed(x, y, i, p[i])
      BY <2>2, <2>9 DEF RoundIs, IsOf
    <3>2. y.data = k /\ y.ended = FALSE /\ y.loc = x.loc /\ y.count = x.count /\ y.index = x.index
      BY <2>1, <3>1 DEF Passed
    <3>3. NoneBefore(full, k)
      <4>1. NoneBefore(full, i)
        BY <2>1 DEF i
      <4> QED  BY <2>1, <2>3, <2>9, <4>1, AheadOf
    <3>4. NoneBefore(short, i) => NoneBefore(short, k)
      BY <2>1, <2>3, <2>9, AheadOf
    <3>5. (x.loc = 0 /\ NoneBefore(short, i)) \/ (x.loc \in short /\ x.count > 0)
      BY <2>1 DEF i
    <3>6. x.count = x.index
      BY <2>1
    <3> QED  BY <2>4, <2>6, <3>2, <3>3, <3>4, <3>5, <3>6 DEF y
  <2> QED  BY <2>7, <2>8, <2>9
<1>3. r \in I /\ Over(p, r)
  <2>1. NoRoundLeaves(p, COMP_NAME, TRUE, I)
    BY <1>2 DEF NoRoundLeaves
  <2> HIDE DEF I
  <2> QED  BY <1>1, <2>1, ScanStays
<1> HIDE DEF r
<1>4. CASE Broken(r)
  BY <1>4 DEF NameFound, r
<1>5. CASE Going(r)
  <2>1. ~IsField(p, r.data) /\ r.data \in S
    BY <1>3, <1>5 DEF Over
  <2>2. full = {}
    BY <1>5, <2>1, NoneLeft
  <2>3. NoneBefore(short, r.data) => short = {}
    BY <2>1, NoneLeft
  <2> QED  BY <1>5, <2>2, <2>3 DEF NameFound, r
<1> QED  BY <1>3, <1>4, <1>5

ValuesOf(p, type) == {Bytes(p, i + 2, p[i] - 1) : i \in OfType(p, type)}

LEMMA NameRead ==
  ASSUME NEW p \in Seq(Octet), NEW S, Chain(p, S)
  PROVE  getName(p) \in
           AnyOf(IF ValuesOf(p, COMP_NAME) # {} THEN ValuesOf(p, COMP_NAME) ELSE ValuesOf(p, INCOMP_NAME))
<1> DEFINE r == findAdvField(p, COMP_NAME, 0, TRUE)
           i == r.loc
           full == OfType(p, COMP_NAME)
           short == OfType(p, INCOMP_NAME)
<1>1. NameFound(p, r)
  BY NameScanned
<1>2. getName(p) = (IF r.count > 0 /\ i # 0 /\ p[i] > 1 THEN Bytes(p, i + 2, p[i] - 1) ELSE Nothing)
  BY DEF getName, getPayloadByType
<1> HIDE DEF r
<1>3. \A type : ValuesOf(p, type) = {} <=> OfType(p, type) = {}
  BY DEF ValuesOf
<1>4. ASSUME NEW type, i \in OfType(p, type), r.count > 0
      PROVE  getName(p) \in ValuesOf(p, type)
  <2>1. i \in S /\ i \in FieldsOf(p)
    BY <1>4, OwnFields DEF OfType
  <2>2. i <= Len(p)
    BY <2>1, FieldsFit
  <2>3. i \in Nat \ {0} /\ p[i] \in Nat /\ p[i] >= 1
    <3>1. p[i] \in 1 .. 255 /\ i \in Nat \ {0}
      BY <2>1, <2>2, ChainStep
    <3>2. \A y \in 1 .. 255 : y \in Nat /\ y >= 1
      OBVIOUS
    <3> QED  BY <3>1, <3>2
  <2>4. getName(p) = Bytes(p, i + 2, p[i] - 1)
    <3>1. CASE p[i] > 1
      BY <1>2, <1>4, <2>3, <3>1
    <3>2. CASE ~(p[i] > 1)
      <4>1. p[i] - 1 = 0
        BY <2>3, <3>2
      <4>2. i + 2 \in Int /\ i + 2 + 0 - 1 \in Int /\ i + 2 + 0 - 1 < i + 2
        BY <2>3
      <4>3. Bytes(p, i + 2, 0) = <<>>
        BY <4>2, SubSeqEmpty DEF Bytes
      <4>4. getName(p) = Nothing
        BY <1>2, <3>2
      <4> QED  BY <4>1, <4>3, <4>4 DEF Nothing
    <3> QED  BY <3>1, <3>2
  <2> QED  BY <1>4, <2>4 DEF ValuesOf
<1>5. CASE i \in full /\ r.count > 0
  <2>1. getName(p) \in ValuesOf(p, COMP_NAME)
    BY <1>4, <1>5
  <2> QED  BY <2>1 DEF AnyOf
<1>6. CASE full = {} /\ i \in short /\ r.count > 0
  <2>1. getName(p) \in ValuesOf(p, INCOMP_NAME) /\ ValuesOf(p, COMP_NAME) = {}
    BY <1>3, <1>4, <1>6
  <2> QED  BY <2>1 DEF AnyOf
<1>7. CASE full = {} /\ short = {} /\ i = 0
  <2>1. ValuesOf(p, COMP_NAME) = {} /\ ValuesOf(p, INCOMP_NAME) = {} /\ getName(p) = Nothing
    BY <1>2, <1>3, <1>7
  <2> QED  BY <2>1 DEF AnyOf
<1> QED  BY <1>1, <1>5, <1>6, <1>7 DEF NameFound

-----------------------------------------------------------------------------
(* NimBLEAdvertisedDevice: the data of a service *)

LEMMA PartOfPart ==
  ASSUME NEW p \in Seq(Octet), NEW a \in Nat \ {0}, NEW z \in Nat, z <= Len(p), a <= z + 1,
         NEW m \in Nat \ {0}, NEW n \in Nat, n <= z - a + 1, m <= n + 1
  PROVE  SubSeq(SubSeq(p, a, z), m, n) = SubSeq(p, a + m - 1, a + n - 1)
<1> DEFINE w == SubSeq(p, a, z)
           s == SubSeq(w, m, n)
           t == SubSeq(p, a + m - 1, a + n - 1)
<1>1. w \in Seq(Octet) /\ Len(w) = z - a + 1 /\ \A i \in 1 .. z - a + 1 : w[i] = p[a + i - 1]
  BY Part
<1>2. Len(p) \in Nat
  BY LenProperties
<1> HIDE DEF w
<1>3. n <= Len(w)
  BY <1>1
<1>4. s \in Seq(Octet) /\ Len(s) = n - m + 1 /\ \A i \in 1 .. n - m + 1 : s[i] = w[m + i - 1]
  BY <1>1, <1>3, Part
<1>5. /\ a + m - 1 \in Nat \ {0} /\ a + n - 1 \in Nat /\ a + n - 1 <= Len(p)
      /\ a + m - 1 <= (a + n - 1) + 1 /\ (a + n - 1) - (a + m - 1) + 1 = n - m + 1
  BY <1>2
<1>6. /\ t \in Seq(Octet) /\ Len(t) = n - m + 1
      /\ \A i \in 1 .. n - m + 1 : t[i] = p[(a + m - 1) + i - 1]
  <2> DEFINE x == a + m - 1
             y == a + n - 1
  <2>1. x \in Nat \ {0} /\ y \in Nat /\ y <= Len(p) /\ x <= y + 1 /\ y - x + 1 = n - m + 1
    BY <1>5
  <2> HIDE DEF x, y
  <2>2. /\ SubSeq(p, x, y) \in Seq(Octet) /\ Len(SubSeq(p, x, y)) = y - x + 1
        /\ \A i \in 1 .. y - x + 1 : SubSeq(p, x, y)[i] = p[x + i - 1]
    BY <2>1, Part
  <2> QED  BY <2>1, <2>2 DEF x, y
<1> HIDE DEF s, t
<1>7. \A i \in 1 .. n - m + 1 : s[i] = t[i]
  <2> TAKE i \in 1 .. n - m + 1
  <2>1. i \in Nat \ {0} /\ m + i - 1 \in 1 .. z - a + 1 /\ a + (m + i - 1) - 1 = (a + m - 1) + i - 1
    OBVIOUS
  <2>2. s[i] = w[m + i - 1] /\ t[i] = p[(a + m - 1) + i - 1]
    BY <1>4, <1>6
  <2>3. w[m + i - 1] = p[a + (m + i - 1) - 1]
    BY <1>1, <2>1
  <2> QED  BY <2>1, <2>2, <2>3
<1>8. s = t
  BY <1>4, <1>6, <1>7, SeqEqual
<1> QED  BY <1>8 DEF s, t, w

\* A field of service data: the UUID, then the data.
DataIn(p, u) == {SubSeq(v, Len(u) + 1, Len(v)) : v \in {w \in ValuesOf(p, SVC_DATA(Len(u))) : IsPrefix(u, w)}}
IsDataOf(p, i, u) == Bytes(p, i + 2, Len(u)) = u

LEMMA DataField ==
  ASSUME NEW p \in Seq(Octet), NEW S, Chain(p, S), NEW u \in Seq(Octet), Len(u) \in {2, 4, 16},
         NEW i \in OfType(p, SVC_DATA(Len(u))),
         NEW w, w = Bytes(p, i + 2, p[i] - 1)
  PROVE  /\ IsPrefix(u, w) <=> IsDataOf(p, i, u)
         /\ SubSeq(w, Len(u) + 1, Len(w)) = Bytes(p, i + 2 + Len(u), p[i] - Len(u) - 1)
<1> DEFINE b == Len(u)
           e == p[i]
<1>1. i \in S /\ i \in FieldsOf(p) /\ p[i + 1] = SVC_DATA(b)
  BY OwnFields DEF OfType
<1>2. i <= Len(p)
  BY <1>1, FieldsFit
<1>3. Len(p) \in Nat /\ i \in Nat \ {0} /\ e \in Nat /\ i + e <= Len(p)
  <2>1. e \in 1 .. 255 /\ i \in Nat \ {0} /\ i + e + 1 <= Len(p) + 1 /\ Len(p) \in Nat
    BY <1>1, <1>2, ChainStep
  <2>2. \A y \in 1 .. 255 : y \in Nat
    OBVIOUS
  <2>3. e \in Nat
    BY <2>1, <2>2
  <2> HIDE DEF e
  <2> QED  BY <2>1, <2>3
<1>4. e > b
  <2>1. Sized(e, p[i + 1])
    BY <1>1, <1>2 DEF Chain
  <2> QED  BY <1>1, <2>1 DEF Sized
<1>5. b \in Nat /\ b >= 2
  <2>1. \A k \in {2, 4, 16} : k \in Nat /\ k >= 2
    OBVIOUS
  <2> QED  BY <2>1
<1>6. w = SubSeq(p, i + 2, i + 2 + (e - 1) - 1)
  BY DEF Bytes
<1> HIDE DEF b, e
<1> DEFINE a == i + 2
           z == i + e
           c == b + 1
           d == e - 1
<1>7. /\ a + d - 1 = z /\ z \in Nat /\ a \in Nat \ {0} /\ a <= z + 1 /\ z - a + 1 = d
      /\ d \in Nat /\ b <= d /\ z <= Len(p) /\ c \in Nat \ {0} /\ c <= d + 1 /\ 1 \in Nat \ {0} /\ 1 <= b + 1
      /\ a + 1 - 1 = a /\ a + c - 1 = a + b /\ a + d - 1 = (a + b) + (e - b - 1) - 1
  BY <1>3, <1>4, <1>5
<1>8. w = SubSeq(p, a, z)
  BY <1>6, <1>7
<1> HIDE DEF a, z, c, d
<1>9. Len(w) = d /\ w \in Seq(Octet)
  <2>1. SubSeq(p, a, z) \in Seq(Octet) /\ Len(SubSeq(p, a, z)) = z - a + 1
    BY <1>7, Part
  <2> QED  BY <1>7, <1>8, <2>1
<1>10. SubSeq(w, 1, b) = Bytes(p, a, b)
  <2>1. SubSeq(SubSeq(p, a, z), 1, b) = SubSeq(p, a + 1 - 1, a + b - 1)
    <3>1. b <= z - a + 1
      BY <1>7
    <3> QED  BY <1>5, <1>7, <3>1, PartOfPart
  <2> QED  BY <1>7, <1>8, <2>1 DEF Bytes
<1>11. SubSeq(w, c, d) = Bytes(p, a + b, e - b - 1)
  <2>1. SubSeq(SubSeq(p, a, z), c, d) = SubSeq(p, a + c - 1, a + d - 1)
    <3>1. d <= z - a + 1
      BY <1>7
    <3> QED  BY <1>7, <3>1, PartOfPart
  <2> QED  BY <1>7, <1>8, <2>1 DEF Bytes
<1>12. SubSeq(u, 1, b) = u
  BY SubSeqFull DEF b
<1>13. IsPrefix(u, w) <=> Bytes(p, a, b) = u
  BY <1>7, <1>9, <1>10, <1>12 DEF IsPrefix, b
<1>14. SubSeq(w, b + 1, Len(w)) = Bytes(p, a + b, e - b - 1)
  BY <1>9, <1>11 DEF c
<1> QED  BY <1>13, <1>14 DEF IsDataOf, a, b, e

\* The index goes through the fields of service data, and through each of them once.
DataAt(p, bytes, loc) == [bytes |-> bytes, loc |-> loc]
LeadsToData(p, at) == \A bytes \in {2, 4, 16} : at.bytes = bytes => at.loc \in OfType(p, SVC_DATA(bytes))
DataReached(p, bytes) ==
  \A i \in OfType(p, SVC_DATA(bytes)) :
    \E n \in Nat : n < getServiceDataCount(p) /\ findServiceData(p, n) = DataAt(p, bytes, i)

LEMMA DataTypes == SVC_DATA(2) = 22 /\ SVC_DATA(4) = 32 /\ SVC_DATA(16) = 33
<1> QED  BY DEF SVC_DATA

LEMMA DataPlaces ==
  ASSUME NEW p \in Seq(Octet), NEW S, Chain(p, S)
  PROVE  /\ getServiceDataCount(p) \in Nat
         /\ \A n \in Nat : LeadsToData(p, findServiceData(p, n))
         /\ DataReached(p, 2) /\ DataReached(p, 4) /\ DataReached(p, 16)
<1> DEFINE F(t, n) == findAdvField(p, t, n, TRUE)
           C(t) == Cardinality(OfType(p, t))
<1>1. \A t \in {22, 32, 33} : ~IsList(t) /\ t # COMP_NAME
  BY DEF IsList, COMP_NAME
<1>2. \A t \in {22, 32, 33} :
        \E rank : /\ DataRanked(p, t, rank)
                  /\ \A index \in Nat, data_loc \in BOOLEAN :
                       DataFound(p, t, rank, index, data_loc, findAdvField(p, t, index, data_loc))
  BY <1>1, DataScanned
<1>3. \A t \in {22, 32, 33} : C(t) \in Nat
  BY OwnFields
<1>4. \A t \in {22, 32, 33} : Count(p, t) = C(t)
  <2> TAKE t \in {22, 32, 33}
  <2>1. PICK rank : \A index \in Nat, data_loc \in BOOLEAN :
                      DataFound(p, t, rank, index, data_loc, findAdvField(p, t, index, data_loc))
    BY <1>2
  <2>2. DataFound(p, t, rank, 0, FALSE, findAdvField(p, t, 0, FALSE))
    BY <2>1
  <2> QED  BY <2>2 DEF DataFound, Count
<1> DEFINE own2 == OfType(p, 22)
           own4 == OfType(p, 32)
           own16 == OfType(p, 33)
           c2 == C(22)
           c4 == C(32)
           c16 == C(33)
<1>5. PICK rank2 : /\ DataRanked(p, 22, rank2)
                   /\ \A n \in Nat : DataFound(p, 22, rank2, n, TRUE, F(22, n))
  BY <1>2
<1>6. PICK rank4 : /\ DataRanked(p, 32, rank4)
                   /\ \A n \in Nat : DataFound(p, 32, rank4, n, TRUE, F(32, n))
  BY <1>2
<1>7. PICK rank16 : /\ DataRanked(p, 33, rank16)
                    /\ \A n \in Nat : DataFound(p, 33, rank16, n, TRUE, F(33, n))
  BY <1>2
<1>8. c2 \in Nat /\ c4 \in Nat /\ c16 \in Nat /\ getServiceDataCount(p) = c2 + c4 + c16
  BY <1>3, <1>4 DEF getServiceDataCount
<1>9. \A n \in Nat : /\ n < c2 => F(22, n).loc \in own2 /\ rank2[F(22, n).loc] = n /\ n < F(22, n).count
                     /\ ~(n < c2) => F(22, n).count = c2
  BY <1>5 DEF DataFound
<1>10. \A n \in Nat : /\ n < c4 => F(32, n).loc \in own4 /\ rank4[F(32, n).loc] = n /\ n < F(32, n).count
                      /\ ~(n < c4) => F(32, n).count = c4
  BY <1>6 DEF DataFound
<1>11. \A n \in Nat : /\ n < c16 => F(33, n).loc \in own16 /\ rank16[F(33, n).loc] = n /\ n < F(33, n).count
                      /\ ~(n < c16) => F(33, n).count = c16
  BY <1>7 DEF DataFound
<1>12. \A n : findServiceData(p, n) =
         LET in16 == F(22, n)
             in32 == F(32, n - in16.count)
             in128 == F(33, n - in16.count - in32.count)
         IN  IF in16.count > n THEN DataAt(p, 2, in16.loc)
             ELSE IF in16.count + in32.count > n THEN DataAt(p, 4, in32.loc)
             ELSE IF in16.count + in32.count + in128.count > n THEN DataAt(p, 16, in128.loc)
             ELSE DataAt(p, 0, 0)
  BY DEF findServiceData, DataAt
<1>13. \A t \in {22, 32, 33}, n \in Nat : F(t, n).count \in Nat
  BY FoundCount
<1> HIDE DEF F, c2, c4, c16, own2, own4, own16
<1>14. ASSUME NEW n \in Nat, n < c2
       PROVE  findServiceData(p, n) = DataAt(p, 2, F(22, n).loc)
  <2>1. F(22, n).count > n
    BY <1>9, <1>13, <1>14
  <2> QED  BY <1>12, <2>1
<1>15. ASSUME NEW m \in Nat, m < c4
       PROVE  findServiceData(p, c2 + m) = DataAt(p, 4, F(32, m).loc)
  <2> DEFINE n == c2 + m
  <2>1. n \in Nat /\ ~(n < c2) /\ n - c2 = m
    BY <1>8
  <2>2. F(22, n).count = c2 /\ F(32, m).count > m /\ F(32, m).count \in Nat
    BY <1>9, <1>10, <1>13, <1>15, <2>1
  <2>3. ~(c2 > n) /\ c2 + F(32, m).count > n
    BY <1>8, <2>2
  <2> HIDE DEF n
  <2>4. ~(F(22, n).count > n) /\ n - F(22, n).count = m /\ F(22, n).count + F(32, m).count > n
    BY <2>1, <2>2, <2>3
  <2> QED  BY <1>12, <2>4 DEF n
<1>16. ASSUME NEW n \in Nat, ~(n < c2 + c4)
       PROVE  /\ n - c2 - c4 < c16 => findServiceData(p, n) = DataAt(p, 16, F(33, n - c2 - c4).loc)
              /\ ~(n - c2 - c4 < c16) => findServiceData(p, n) = DataAt(p, 0, 0)
  <2> DEFINE m == n - c2
             k == n - c2 - c4
  <2>1. ~(n < c2) /\ m \in Nat /\ ~(m < c4) /\ k \in Nat /\ k = m - c4
    BY <1>8, <1>16
  <2>2. F(22, n).count = c2 /\ F(32, m).count = c4 /\ F(33, k).count \in Nat
        /\ (IF k < c16 THEN F(33, k).count > k ELSE F(33, k).count = c16)
    <3>1. F(22, n).count = c2
      BY <1>9, <2>1
    <3>2. F(32, m).count = c4
      BY <1>10, <2>1
    <3>3. F(33, k).count \in Nat
      BY <1>13, <2>1
    <3>4. IF k < c16 THEN k < F(33, k).count ELSE F(33, k).count = c16
      BY <1>11, <2>1
    <3> HIDE DEF k, m
    <3> QED  BY <2>1, <3>1, <3>2, <3>3, <3>4
  <2>3. ~(c2 > n) /\ ~(c2 + c4 > n)
        /\ (IF k < c16 THEN c2 + c4 + F(33, k).count > n ELSE ~(c2 + c4 + F(33, k).count > n))
    <3> DEFINE f == F(33, k).count
    <3>1. f \in Nat /\ (IF k < c16 THEN f > k ELSE f = c16)
      BY <2>2
    <3> HIDE DEF f
    <3>2. ~(c2 > n) /\ ~(c2 + c4 > n) /\ (IF k < c16 THEN c2 + c4 + f > n ELSE ~(c2 + c4 + f > n))
      BY <1>8, <1>16, <3>1
    <3> QED  BY <3>2 DEF f
  <2>4. n - F(22, n).count = m /\ n - F(22, n).count - F(32, m).count = k
    BY <2>2
  <2> HIDE DEF m, k
  <2>5. findServiceData(p, n) = IF c2 + c4 + F(33, k).count > n THEN DataAt(p, 16, F(33, k).loc) ELSE DataAt(p, 0, 0)
    BY <1>12, <2>2, <2>3, <2>4
  <2> QED  BY <2>3, <2>5 DEF k
<1>17. ASSUME NEW n \in Nat
       PROVE  LeadsToData(p, findServiceData(p, n))
  <2>1. CASE n < c2
    <3>1. findServiceData(p, n) = DataAt(p, 2, F(22, n).loc) /\ F(22, n).loc \in own2
      BY <1>9, <1>14, <2>1
    <3> QED  BY <3>1, DataTypes DEF LeadsToData, DataAt, own2
  <2>2. CASE ~(n < c2) /\ n < c2 + c4
    <3> DEFINE m == n - c2
    <3>1. m \in Nat /\ m < c4 /\ c2 + m = n
      BY <1>8, <2>2
    <3> HIDE DEF m
    <3>2. findServiceData(p, n) = DataAt(p, 4, F(32, m).loc) /\ F(32, m).loc \in own4
      <4>1. findServiceData(p, c2 + m) = DataAt(p, 4, F(32, m).loc)
        BY <1>15, <3>1
      <4> QED  BY <1>10, <3>1, <4>1
    <3> QED  BY <3>2, DataTypes DEF LeadsToData, DataAt, own4
  <2>3. CASE ~(n < c2 + c4)
    <3> DEFINE k == n - c2 - c4
    <3>1. k \in Nat
      BY <1>8, <2>3
    <3>2. /\ k < c16 => findServiceData(p, n) = DataAt(p, 16, F(33, k).loc)
          /\ ~(k < c16) => findServiceData(p, n) = DataAt(p, 0, 0)
      BY <1>16, <2>3
    <3> HIDE DEF k
    <3>3. k < c16 => F(33, k).loc \in own16
      BY <1>11, <3>1
    <3> QED  BY <3>2, <3>3, DataTypes DEF LeadsToData, DataAt, own16
  <2> QED  BY <1>8, <2>1, <2>2, <2>3
<1>18. DataReached(p, 2)
  <2> SUFFICES ASSUME NEW i \in own2
               PROVE  \E n \in Nat : n < getServiceDataCount(p) /\ findServiceData(p, n) = DataAt(p, 2, i)
    BY DataTypes DEF DataReached, own2
  <2> DEFINE n == rank2[i]
  <2>1. n \in Nat /\ n < c2
    BY <1>5 DEF DataRanked, own2, c2
  <2>2. F(22, n).loc \in own2 /\ rank2[F(22, n).loc] = n
    BY <1>9, <2>1
  <2>3. F(22, n).loc = i
    BY <1>5, <2>2 DEF DataRanked, own2
  <2> HIDE DEF n
  <2>4. n < getServiceDataCount(p)
    BY <1>8, <2>1
  <2> QED  BY <1>14, <2>1, <2>3, <2>4
<1>19. DataReached(p, 4)
  <2> SUFFICES ASSUME NEW i \in own4
               PROVE  \E n \in Nat : n < getServiceDataCount(p) /\ findServiceData(p, n) = DataAt(p, 4, i)
    BY DataTypes DEF DataReached, own4
  <2> DEFINE m == rank4[i]
  <2>1. m \in Nat /\ m < c4
    BY <1>6 DEF DataRanked, own4, c4
  <2>2. F(32, m).loc \in own4 /\ rank4[F(32, m).loc] = m
    BY <1>10, <2>1
  <2>3. F(32, m).loc = i
    BY <1>6, <2>2 DEF DataRanked, own4
  <2> HIDE DEF m
  <2>4. c2 + m \in Nat /\ c2 + m < getServiceDataCount(p)
    BY <1>8, <2>1
  <2> QED  BY <1>15, <2>1, <2>3, <2>4
<1>20. DataReached(p, 16)
  <2> SUFFICES ASSUME NEW i \in own16
               PROVE  \E n \in Nat : n < getServiceDataCount(p) /\ findServiceData(p, n) = DataAt(p, 16, i)
    BY DataTypes DEF DataReached, own16
  <2> DEFINE k == rank16[i]
             n == c2 + c4 + k
  <2>1. k \in Nat /\ k < c16
    BY <1>7 DEF DataRanked, own16, c16
  <2>2. F(33, k).loc \in own16 /\ rank16[F(33, k).loc] = k
    BY <1>11, <2>1
  <2>3. F(33, k).loc = i
    BY <1>7, <2>2 DEF DataRanked, own16
  <2> HIDE DEF k
  <2>4. n \in Nat /\ n < getServiceDataCount(p) /\ ~(n < c2 + c4) /\ n - c2 - c4 = k
    BY <1>8, <2>1
  <2> HIDE DEF n
  <2>5. findServiceData(p, n) = DataAt(p, 16, F(33, n - c2 - c4).loc)
    BY <1>16, <2>1, <2>4
  <2> QED  BY <2>3, <2>4, <2>5
<1>21. getServiceDataCount(p) \in Nat
  BY <1>8
<1> QED  BY <1>17, <1>18, <1>19, <1>20, <1>21

LEMMA ServiceDataRead ==
  ASSUME NEW p \in Seq(Octet), NEW S, Chain(p, S), NEW u \in Seq(Octet), Len(u) \in {2, 4, 16}
  PROVE  getServiceData(p, u) \in AnyOf(DataIn(p, u))
<1> DEFINE b == Len(u)
           total == getServiceDataCount(p)
           At(n) == findServiceData(p, n)
           Is(n) == At(n).bytes = b /\ IsDataOf(p, At(n).loc, u)
           mine == {n \in 0 .. total - 1 : Is(n)}
           n1 == CHOOSE n \in mine : \A m \in mine : n <= m
           i1 == At(n1).loc
           own == OfType(p, SVC_DATA(b))
           value(i) == Bytes(p, i + 2, p[i] - 1)
           data(i) == Bytes(p, i + 2 + b, p[i] - b - 1)
<1>1. getServiceData(p, u) = IF mine = {} THEN Nothing ELSE Bytes(p, i1 + 2 + At(n1).bytes, p[i1] - At(n1).bytes - 1)
  BY DEF getServiceData, IsDataOf
<1>2. total \in Nat /\ (\A n \in Nat : LeadsToData(p, At(n))) /\ DataReached(p, b)
  BY DataPlaces
<1>3. \A i \in own : /\ IsPrefix(u, value(i)) <=> IsDataOf(p, i, u)
                     /\ SubSeq(value(i), b + 1, Len(value(i))) = data(i)
  <2> TAKE i \in own
  <2> DEFINE w == value(i)
  <2>1. w = Bytes(p, i + 2, p[i] - 1)
    OBVIOUS
  <2> HIDE DEF w
  <2>2. /\ IsPrefix(u, w) <=> IsDataOf(p, i, u)
        /\ SubSeq(w, Len(u) + 1, Len(w)) = Bytes(p, i + 2 + Len(u), p[i] - Len(u) - 1)
    BY <2>1, DataField
  <2> QED  BY <2>2 DEF w
<1>4. \A i \in own : IsDataOf(p, i, u) => data(i) \in DataIn(p, u)
  <2> SUFFICES ASSUME NEW i \in own, IsDataOf(p, i, u)
               PROVE  data(i) \in DataIn(p, u)
    OBVIOUS
  <2> DEFINE w == value(i)
  <2>1. w \in ValuesOf(p, SVC_DATA(b))
    BY DEF ValuesOf
  <2>2. IsPrefix(u, w) /\ SubSeq(w, b + 1, Len(w)) = data(i)
    BY <1>3
  <2> HIDE DEF w, data
  <2> QED  BY <2>1, <2>2 DEF DataIn
<1>5. ASSUME DataIn(p, u) # {}
      PROVE  mine # {}
  <2>1. PICK w \in ValuesOf(p, SVC_DATA(b)) : IsPrefix(u, w)
    BY <1>5 DEF DataIn
  <2>2. PICK i \in own : w = value(i)
    BY <2>1 DEF ValuesOf
  <2>3. IsDataOf(p, i, u)
    BY <1>3, <2>1, <2>2
  <2>4. PICK n \in Nat : n < total /\ At(n) = DataAt(p, b, i)
    BY <1>2 DEF DataReached
  <2>5. n \in 0 .. total - 1
    BY <1>2, <2>4
  <2>6. Is(n)
    BY <2>3, <2>4 DEF DataAt
  <2> HIDE DEF Is
  <2> QED  BY <2>5, <2>6
<1>6. CASE mine = {}
  <2>1. DataIn(p, u) = {} /\ getServiceData(p, u) = Nothing
    BY <1>1, <1>5, <1>6
  <2> QED  BY <2>1 DEF AnyOf
<1>7. CASE mine # {}
  <2>1. n1 \in mine
    <3>1. mine \subseteq Nat
      BY <1>2
    <3> HIDE DEF mine
    <3>2. \E n \in mine : \A m \in mine : n <= m
      BY <1>7, <3>1, FirstPosition
    <3> QED  BY <3>2
  <2>2. n1 \in Nat /\ Is(n1)
    BY <1>2, <2>1
  <2> HIDE DEF n1, mine, i1
  <2>3. At(n1).bytes = b /\ IsDataOf(p, i1, u)
    BY <2>2 DEF i1
  <2>4. i1 \in own
    BY <1>2, <2>2, <2>3 DEF LeadsToData, i1
  <2>5. getServiceData(p, u) = data(i1)
    BY <1>1, <1>7, <2>3
  <2>6. data(i1) \in DataIn(p, u)
    BY <1>4, <2>3, <2>4
  <2> HIDE DEF data
  <2> QED  BY <2>5, <2>6 DEF AnyOf
<1> QED  BY <1>6, <1>7

-----------------------------------------------------------------------------
(* NimBLEAdvertisedDevice: the services *)

\* How many entries the lists of each type have, and those of the types before it.
OnlyLists(p, C) ==
  /\ C \in [2 .. 7 -> Nat]
  /\ \A t \in 2 .. 7 : /\ ListOf(p, t, C[t])
                       /\ \A index \in Nat, data_loc \in BOOLEAN :
                            ListFound(p, t, C[t], index, data_loc, findAdvField(p, t, index, data_loc))
Offsets(C, off) ==
  /\ off \in [2 .. 8 -> Nat] /\ off[2] = 0 /\ off[8] = C[2] + C[3] + C[4] + C[5] + C[6] + C[7]
  /\ \A t \in 2 .. 7 : off[t + 1] = off[t] + C[t] /\ off[t] + C[t] <= off[8]
  /\ \A s, t \in 2 .. 7 : s < t => off[s] + C[s] <= off[t]

LEMMA ListsFound ==
  ASSUME NEW p \in Seq(Octet), NEW S, Chain(p, S), \A t \in 2 .. 7 : Cardinality(OfType(p, t)) <= 1
  PROVE  \E C : OnlyLists(p, C)
<1> DEFINE Fits1(t, c) == /\ ListOf(p, t, c)
                          /\ \A index \in Nat, data_loc \in BOOLEAN :
                               ListFound(p, t, c, index, data_loc, findAdvField(p, t, index, data_loc))
           C == [t \in 2 .. 7 |-> CHOOSE c \in Nat : Fits1(t, c)]
<1>1. \A t \in 2 .. 7 : \E c \in Nat : Fits1(t, c)
  BY ListScanned DEF IsList
<1> HIDE DEF Fits1
<1>2. \A t \in 2 .. 7 : C[t] \in Nat /\ Fits1(t, C[t])
  BY <1>1
<1>3. C \in [2 .. 7 -> Nat]
  BY <1>2
<1> HIDE DEF C
<1> QED  BY <1>2, <1>3 DEF OnlyLists, Fits1

LEMMA OffsetsExist ==
  ASSUME NEW C \in [2 .. 7 -> Nat]
  PROVE  \E off : Offsets(C, off)
<1>1. PICK c2, c3, c4, c5, c6, c7 \in Nat :
        C[2] = c2 /\ C[3] = c3 /\ C[4] = c4 /\ C[5] = c5 /\ C[6] = c6 /\ C[7] = c7
  <2>1. 2 \in 2 .. 7 /\ 3 \in 2 .. 7 /\ 4 \in 2 .. 7 /\ 5 \in 2 .. 7 /\ 6 \in 2 .. 7 /\ 7 \in 2 .. 7
    OBVIOUS
  <2> QED  BY <2>1
<1> DEFINE off == [t \in 2 .. 8 |-> IF t = 2 THEN 0 ELSE IF t = 3 THEN c2 ELSE IF t = 4 THEN c2 + c3
                                   ELSE IF t = 5 THEN c2 + c3 + c4 ELSE IF t = 6 THEN c2 + c3 + c4 + c5
                                   ELSE IF t = 7 THEN c2 + c3 + c4 + c5 + c6
                                   ELSE c2 + c3 + c4 + c5 + c6 + c7]
<1>2. /\ off[2] = 0 /\ off[3] = c2 /\ off[4] = c2 + c3 /\ off[5] = c2 + c3 + c4
      /\ off[6] = c2 + c3 + c4 + c5 /\ off[7] = c2 + c3 + c4 + c5 + c6
      /\ off[8] = c2 + c3 + c4 + c5 + c6 + c7
  OBVIOUS
<1>3. off \in [2 .. 8 -> Nat]
  BY <1>1
<1> HIDE DEF off
<1>4. \A t \in 2 .. 7 : t = 2 \/ t = 3 \/ t = 4 \/ t = 5 \/ t = 6 \/ t = 7
  OBVIOUS
<1>5. \A t \in 2 .. 7 : off[t + 1] = off[t] + C[t] /\ off[t] + C[t] <= off[8]
  <2> TAKE t \in 2 .. 7
  <2>1. CASE t = 2  BY <1>1, <1>2, <2>1
  <2>2. CASE t = 3  BY <1>1, <1>2, <2>2
  <2>3. CASE t = 4  BY <1>1, <1>2, <2>3
  <2>4. CASE t = 5  BY <1>1, <1>2, <2>4
  <2>5. CASE t = 6  BY <1>1, <1>2, <2>5
  <2>6. CASE t = 7  BY <1>1, <1>2, <2>6
  <2> QED  BY <1>4, <2>1, <2>2, <2>3, <2>4, <2>5, <2>6
<1>6. \A s, t \in 2 .. 7 : s < t => off[s] + C[s] <= off[t]
  <2> TAKE s, t \in 2 .. 7
  <2> HAVE s < t
  <2>1. CASE s = 2  BY <1>1, <1>2, <1>4, <2>1
  <2>2. CASE s = 3  BY <1>1, <1>2, <1>4, <2>2
  <2>3. CASE s = 4  BY <1>1, <1>2, <1>4, <2>3
  <2>4. CASE s = 5  BY <1>1, <1>2, <1>4, <2>4
  <2>5. CASE s = 6  BY <1>1, <1>2, <1>4, <2>5
  <2>6. CASE s = 7
    <3>1. t \in Nat /\ t <= 7
      OBVIOUS
    <3> QED  BY <2>6, <3>1
  <2> QED  BY <1>4, <2>1, <2>2, <2>3, <2>4, <2>5, <2>6
<1>7. off[8] = C[2] + C[3] + C[4] + C[5] + C[6] + C[7]
  BY <1>1, <1>2
<1> QED  BY <1>2, <1>3, <1>5, <1>6, <1>7 DEF Offsets

\* The list for an index: the one among whose entries it is.
ListAt(C, off, n, at) ==
  /\ at.type \in 2 .. 7 /\ at.index \in Nat /\ at.index < C[at.type] /\ off[at.type] + at.index = n

LEMMA ListReached ==
  ASSUME NEW p \in Seq(Octet), NEW C, OnlyLists(p, C), NEW off, Offsets(C, off),
         NEW n \in Nat, n < off[8]
  PROVE  ListAt(C, off, n, findServiceList(p, n))
<1> DEFINE X == [type : 2 .. 8, index : Nat]
           Enough(x) == x.type = 8 \/ findAdvField(p, x.type, x.index, TRUE).count > x.index
           Next1(x) == [type |-> x.type + 1, index |-> x.index - findAdvField(p, x.type, x.index, TRUE).count]
           IsWalk(f) == f = [x \in X |-> IF Enough(x) THEN x ELSE f[Next1(x)]]
           walk == CHOOSE f : IsWalk(f)
           rank == [x \in X |-> x.type]
           stop == [x \in X |-> Enough(x)]
           val == [x \in X |-> x]
           next == [x \in X |-> Next1(x)]
           start == [type |-> 2, index |-> n]
           I == {x \in X : off[x.type] + x.index = n}
<1>1. findServiceList(p, n) = walk[start]
  BY DEF findServiceList
<1>2. \A t \in 2 .. 7, index \in Nat : findAdvField(p, t, index, TRUE).count = C[t]
  BY DEF OnlyLists, ListFound
<1>3. /\ C \in [2 .. 7 -> Nat] /\ off \in [2 .. 8 -> Nat] /\ off[2] = 0
      /\ \A t \in 2 .. 7 : off[t + 1] = off[t] + C[t]
  BY DEF OnlyLists, Offsets
<1>4. \A t \in 2 .. 8 : t \in Nat /\ t <= 8 /\ off[t] \in Nat /\ (t # 8 => t \in 2 .. 7 /\ t + 1 \in 2 .. 8 /\ C[t] \in Nat)
  <2>1. \A t \in 2 .. 8 : t \in Nat /\ t <= 8 /\ (t # 8 => t \in 2 .. 7 /\ t + 1 \in 2 .. 8)
    OBVIOUS
  <2>2. \A t \in 2 .. 8 : off[t] \in Nat
    BY <1>3
  <2>3. \A t \in 2 .. 7 : C[t] \in Nat
    BY <1>3
  <2> QED  BY <2>1, <2>2, <2>3
<1>5. ASSUME NEW x \in X, ~Enough(x)
      PROVE  /\ x.type \in 2 .. 7 /\ x.index \in Nat /\ C[x.type] <= x.index
             /\ Next1(x) = [type |-> x.type + 1, index |-> x.index - C[x.type]] /\ Next1(x) \in X
  <2>1. x.type \in 2 .. 7 /\ x.index \in Nat
    BY <1>4, <1>5
  <2>2. findAdvField(p, x.type, x.index, TRUE).count = C[x.type] /\ C[x.type] \in Nat
    <3>1. C[x.type] \in Nat
      BY <1>3, <2>1
    <3> QED  BY <1>2, <2>1, <3>1
  <2>3. C[x.type] <= x.index
    <3>1. ~(C[x.type] > x.index)
      BY <1>5, <2>2
    <3> QED  BY <2>1, <2>2, <3>1
  <2>4. x.index - C[x.type] \in Nat /\ x.type + 1 \in 2 .. 8
    BY <2>1, <2>2, <2>3
  <2> QED  BY <2>1, <2>2, <2>3, <2>4
<1>6. \A x \in X : stop[x] = Enough(x) /\ val[x] = x /\ next[x] = Next1(x) /\ rank[x] = x.type /\ x.type \in 2 .. 8
  OBVIOUS
<1>7. ASSUME NEW x \in X, ~Enough(x)
      PROVE  rank[Next1(x)] = rank[x] + 1
  <2>1. Next1(x) \in X /\ Next1(x).type = x.type + 1
    BY <1>5, <1>7
  <2> QED  BY <1>6, <2>1
<1>8. I \subseteq X /\ start \in I /\ \A x \in I : ~stop[x] => next[x] \in I
  <2>1. start \in I
    BY <1>3
  <2>2. ASSUME NEW x \in I, ~stop[x]
        PROVE  next[x] \in I
    <3>1. x \in X /\ ~Enough(x) /\ off[x.type] + x.index = n
      BY <1>6, <2>2
    <3>2. /\ x.type \in 2 .. 7 /\ x.index \in Nat
          /\ Next1(x) = [type |-> x.type + 1, index |-> x.index - C[x.type]] /\ Next1(x) \in X
      BY <1>5, <3>1
    <3>3. off[x.type + 1] + (x.index - C[x.type]) = n
      <4>1. off[x.type] \in Nat /\ C[x.type] \in Nat /\ off[x.type + 1] = off[x.type] + C[x.type]
        BY <1>3, <1>4, <3>2
      <4> QED  BY <3>1, <3>2, <4>1
    <3> QED  BY <1>6, <3>1, <3>2, <3>3
  <2> QED  BY <2>1, <2>2
<1>9. \A x \in I : Enough(x) => ListAt(C, off, n, x)
  <2> TAKE x \in I
  <2> HAVE Enough(x)
  <2>1. x.type \in 2 .. 8 /\ x.index \in Nat /\ off[x.type] + x.index = n
    OBVIOUS
  <2>2. off[8] \in Nat
    BY <1>3
  <2>3. x.type # 8
    BY <2>1, <2>2
  <2>4. x.type \in 2 .. 7
    BY <1>4, <2>1, <2>3
  <2>5. C[x.type] > x.index /\ C[x.type] \in Nat
    BY <1>2, <1>4, <2>1, <2>3, <2>4
  <2> QED  BY <2>1, <2>4, <2>5 DEF ListAt
<1> HIDE DEF X, rank, stop, val, next, Next1, Enough, start, I
<1>10. Upwards(8, X, rank, stop, next)
  <2>1. \A x \in X : rank[x] \in Nat /\ rank[x] <= 8
    BY <1>4, <1>6
  <2>2. ASSUME NEW x \in X, ~stop[x]
        PROVE  next[x] \in X /\ rank[next[x]] > rank[x]
    <3>1. Next1(x) \in X /\ rank[Next1(x)] = rank[x] + 1
      BY <1>5, <1>6, <1>7, <2>2
    <3> QED  BY <1>6, <2>1, <3>1
  <2> QED  BY <2>1, <2>2 DEF Upwards
<1>11. \A f : FoundFrom(f, X, stop, val, next) <=> IsWalk(f)
  BY <1>6 DEF FoundFrom
<1>12. IsWalk(walk)
  <2>1. \E f : IsWalk(f)
    BY <1>10, <1>11, WalkExists
  <2> HIDE DEF IsWalk
  <2> QED  BY <2>1
<1> HIDE DEF IsWalk, walk
<1>13. PICK y \in I : stop[y] /\ walk[start] = val[y]
  <2>1. FoundFrom(walk, X, stop, val, next)
    BY <1>11, <1>12
  <2> QED  BY <1>8, <1>10, <2>1, WalkStays
<1>14. y \in X /\ Enough(y) /\ findServiceList(p, n) = y
  BY <1>1, <1>6, <1>8, <1>13
<1> QED  BY <1>9, <1>14

LEMMA ListEntries ==
  ASSUME NEW p \in Seq(Octet), NEW S, Chain(p, S), NEW b \in {2, 4, 16}, NEW t \in ListsOf(b),
         NEW i \in OfType(p, t)
  PROVE  /\ Width(t) = b /\ Entries(p, i, t) \in Nat /\ p[i] = b * Entries(p, i, t) + 1
         /\ i \in S /\ i <= Len(p) /\ FieldIn(p, i) /\ i + p[i] + 1 <= Len(p) + 1
<1> DEFINE e == p[i]
           m == Entries(p, i, t)
<1>1. i \in S /\ i \in FieldsOf(p) /\ p[i + 1] = t
  BY OwnFields DEF OfType
<1>2. i <= Len(p)
  BY <1>1, FieldsFit
<1>3. e \in 1 .. 255 /\ i \in Nat \ {0} /\ i + e + 1 <= Len(p) + 1 /\ Len(p) \in Nat
  BY <1>1, <1>2, ChainStep
<1>4. e \in Nat \ {0}
  <2>1. \A y \in 1 .. 255 : y \in Nat \ {0}
    OBVIOUS
  <2> QED  BY <1>3, <2>1
<1>5. (e - 1) % b = 0
  <2>1. Sized(e, t)
    BY <1>1, <1>2 DEF Chain
  <2> QED  BY <2>1, SizedList
<1>6. Width(t) = b /\ IsList(t)
  <2>1. CASE b = 2
    <3>1. t \in {2, 3}
      BY <2>1, ListTypes
    <3> QED  BY <2>1, <3>1 DEF Width, IsList
  <2>2. CASE b = 4
    <3>1. t \in {4, 5}
      BY <2>2, ListTypes
    <3> QED  BY <2>2, <3>1 DEF Width, IsList
  <2>3. CASE b = 16
    <3>1. t \in {6, 7}
      BY <2>3, ListTypes
    <3> QED  BY <2>3, <3>1 DEF Width, IsList
  <2> QED  BY <2>1, <2>2, <2>3
<1>7. m = e \div b
  BY <1>6 DEF Entries
<1> HIDE DEF e, m
<1>8. m \in Nat /\ e = b * m + 1
  <2>1. CASE b = 2  BY <1>4, <1>5, <1>7, <2>1
  <2>2. CASE b = 4  BY <1>4, <1>5, <1>7, <2>2
  <2>3. CASE b = 16  BY <1>4, <1>5, <1>7, <2>3
  <2> QED  BY <2>1, <2>2, <2>3
<1>9. i + e <= Len(p)
  BY <1>3, <1>4
<1> QED  BY <1>1, <1>2, <1>3, <1>4, <1>6, <1>8, <1>9 DEF FieldIn, e, m

\* The j-th UUID of the list at i.
UuidOf(p, t, i, j) == Bytes(p, NthPlace(i + 2, Width(t), j), Width(t))

LEMMA LongEnough ==
  ASSUME NEW b \in {2, 4, 16}, NEW m \in Nat, NEW index \in Nat, index < m
  PROVE  ~(b * m + 1 < (index + 1) * b) /\ b * m + 1 > b * (index + 1)
<1>1. CASE b = 2  BY <1>1
<1>2. CASE b = 4  BY <1>2
<1>3. CASE b = 16  BY <1>3
<1> QED  BY <1>1, <1>2, <1>3

ReadAt(p, C, n, at) ==
  /\ OfType(p, at.type) # {}
  /\ \A i \in OfType(p, at.type) : /\ C[at.type] = Entries(p, i, at.type)
                                   /\ getServiceUUID(p, n) = UuidOf(p, at.type, i, at.index + 1)

LEMMA UuidRead ==
  ASSUME NEW p \in Seq(Octet), NEW S, Chain(p, S), NEW C, OnlyLists(p, C), NEW off, Offsets(C, off),
         NEW n \in Nat, NEW at, at = findServiceList(p, n), ListAt(C, off, n, at)
  PROVE  ReadAt(p, C, n, at)
<1> DEFINE t == at.type
           index == at.index
           found == findAdvField(p, t, index, TRUE)
<1>1. t \in 2 .. 7 /\ index \in Nat /\ index < C[t]
  BY DEF ListAt
<1>2. PICK b \in {2, 4, 16} : t \in ListsOf(b)
  <2>1. t = 2 \/ t = 3 \/ t = 4 \/ t = 5 \/ t = 6 \/ t = 7
    BY <1>1
  <2>2. t \in ListsOf(2) \/ t \in ListsOf(4) \/ t \in ListsOf(16)
    BY <2>1, ListTypes
  <2> QED  BY <2>2
<1>3. found.loc \in OfType(p, t) /\ found.count = C[t] /\ ListOf(p, t, C[t])
  BY <1>1 DEF OnlyLists, ListFound
<1> DEFINE i == found.loc
           m == Entries(p, i, t)
<1>4. OfType(p, t) = {i} /\ C[t] = m
  BY <1>3 DEF ListOf
<1>5. Width(t) = b /\ m \in Nat /\ p[i] = b * m + 1
  <2>1. i \in OfType(p, t)
    BY <1>3
  <2> HIDE DEF i, t
  <2>2. /\ Width(t) = b /\ Entries(p, i, t) \in Nat /\ p[i] = b * Entries(p, i, t) + 1
        /\ i \in S /\ i <= Len(p) /\ FieldIn(p, i) /\ i + p[i] + 1 <= Len(p) + 1
    BY <1>2, <2>1, ListEntries
  <2> QED  BY <2>2
<1>6. getServiceUUID(p, n) =
        LET nth == IF p[i] < (index + 1) * Width(t)
                     THEN index + 1 - (found.count - p[i] \div Width(t)) ELSE index + 1
        IN  IF t # 8 /\ p[i] > Width(t) * nth THEN Bytes(p, i + 2 + Width(t) * (nth - 1), Width(t)) ELSE Nothing
  BY DEF getServiceUUID
<1>7. t # 8
  BY <1>1
<1> HIDE DEF t, index, i, m, found
<1>8. ~(p[i] < (index + 1) * Width(t)) /\ p[i] > Width(t) * (index + 1)
  BY <1>1, <1>4, <1>5, LongEnough
<1>9. getServiceUUID(p, n) = Bytes(p, i + 2 + Width(t) * ((index + 1) - 1), Width(t))
  BY <1>6, <1>7, <1>8
<1>10. getServiceUUID(p, n) = UuidOf(p, t, i, index + 1)
  BY <1>9 DEF UuidOf, NthPlace
<1>11. /\ OfType(p, t) # {}
       /\ \A x \in OfType(p, t) : C[t] = Entries(p, x, t) /\ getServiceUUID(p, n) = UuidOf(p, t, x, index + 1)
  BY <1>4, <1>10 DEF m
<1> QED  BY <1>11 DEF ReadAt, t, index

\* Every index leads to an entry of a list, and to every entry an index.
ServicesReached(p) ==
  /\ getServiceUUIDCount(p) \in Nat
  /\ \A n \in Nat : n < getServiceUUIDCount(p) =>
       \E t \in 2 .. 7 : \E i \in OfType(p, t) :
         \E j \in Nat \ {0} : j <= Entries(p, i, t) /\ getServiceUUID(p, n) = UuidOf(p, t, i, j)
  /\ \A t \in 2 .. 7 : \A i \in OfType(p, t) : \A j \in Nat \ {0} : j <= Entries(p, i, t) =>
       \E n \in Nat : n < getServiceUUIDCount(p) /\ getServiceUUID(p, n) = UuidOf(p, t, i, j)

LEMMA Apart ==
  ASSUME NEW a \in Nat, NEW c \in Nat, NEW o \in Nat, NEW i \in Nat, NEW k \in Nat, i < c, a + c <= o
  PROVE  a + i # o + k
<1> QED  OBVIOUS

LEMMA ServicePlaces ==
  ASSUME NEW p \in Seq(Octet), NEW S, Chain(p, S), \A t \in 2 .. 7 : Cardinality(OfType(p, t)) <= 1
  PROVE  ServicesReached(p)
<1>1. PICK C : OnlyLists(p, C)
  BY ListsFound
<1>2. PICK off : Offsets(C, off)
  BY <1>1, OffsetsExist DEF OnlyLists
<1> DEFINE total == getServiceUUIDCount(p)
<1>3. total = off[8] /\ total \in Nat
  <2>1. \A t \in 2 .. 7 : Count(p, t) = C[t]
    BY <1>1 DEF OnlyLists, ListFound, Count
  <2>2. 2 \in 2 .. 7 /\ 3 \in 2 .. 7 /\ 4 \in 2 .. 7 /\ 5 \in 2 .. 7 /\ 6 \in 2 .. 7 /\ 7 \in 2 .. 7
    OBVIOUS
  <2>3. total = off[8]
    BY <1>2, <2>1, <2>2 DEF getServiceUUIDCount, Offsets
  <2>4. off[8] \in Nat
    BY <1>2 DEF Offsets
  <2> QED  BY <2>3, <2>4
<1> HIDE DEF total
<1>4. ASSUME NEW n \in Nat, n < total
      PROVE  ListAt(C, off, n, findServiceList(p, n))
  BY <1>1, <1>2, <1>3, <1>4, ListReached
<1>5. ASSUME NEW n \in Nat, n < total
      PROVE  \E t \in 2 .. 7 : \E i \in OfType(p, t) :
               \E j \in Nat \ {0} : j <= Entries(p, i, t) /\ getServiceUUID(p, n) = UuidOf(p, t, i, j)
  <2> DEFINE at == findServiceList(p, n)
             t == at.type
             j == at.index + 1
  <2>1. ListAt(C, off, n, at)
    BY <1>4, <1>5
  <2>2. at = findServiceList(p, n)
    OBVIOUS
  <2> HIDE DEF at
  <2>3. PICK i \in OfType(p, at.type) : /\ C[at.type] = Entries(p, i, at.type)
                                        /\ getServiceUUID(p, n) = UuidOf(p, at.type, i, at.index + 1)
    <3>1. ReadAt(p, C, n, at)
      BY <1>1, <1>2, <2>1, <2>2, UuidRead
    <3> QED  BY <3>1 DEF ReadAt
  <2>4. t \in 2 .. 7 /\ C[t] \in Nat /\ at.index \in Nat /\ at.index < C[t]
    BY <1>1, <2>1 DEF ListAt, OnlyLists
  <2>5. j \in Nat \ {0} /\ j <= Entries(p, i, t)
    BY <2>3, <2>4
  <2> QED  BY <2>3, <2>4, <2>5
<1>6. ASSUME NEW t \in 2 .. 7, NEW i \in OfType(p, t), NEW j \in Nat \ {0}, j <= Entries(p, i, t)
      PROVE  \E n \in Nat : n < total /\ getServiceUUID(p, n) = UuidOf(p, t, i, j)
  <2> DEFINE n == off[t] + j - 1
             at == findServiceList(p, n)
  <2>1. ListOf(p, t, C[t]) /\ C[t] \in Nat /\ off[t] \in Nat /\ off[t] + C[t] <= off[8]
    <3>1. t \in 2 .. 8
      OBVIOUS
    <3>2. off \in [2 .. 8 -> Nat] /\ off[t] + C[t] <= off[8]
      BY <1>2 DEF Offsets
    <3> QED  BY <1>1, <3>1, <3>2 DEF OnlyLists
  <2>2. C[t] = Entries(p, i, t)
    BY <2>1 DEF ListOf
  <2>3. n \in Nat /\ n < total /\ j <= C[t] /\ n = off[t] + j - 1
    BY <1>3, <1>6, <2>1, <2>2
  <2> HIDE DEF n
  <2>4. ListAt(C, off, n, at) /\ at = findServiceList(p, n)
    BY <1>4, <2>3
  <2> HIDE DEF at
  <2>5. /\ at.type \in 2 .. 7 /\ at.index \in Nat /\ at.index < C[at.type] /\ off[at.type] + at.index = n
        /\ C[at.type] \in Nat /\ off[at.type] \in Nat
    <3>1. \A s \in 2 .. 7 : s \in 2 .. 8
      OBVIOUS
    <3>2. off \in [2 .. 8 -> Nat] /\ C \in [2 .. 7 -> Nat]
      BY <1>1, <1>2 DEF Offsets, OnlyLists
    <3> QED  BY <2>4, <3>1, <3>2 DEF ListAt
  <2>6. at.type = t
    <3>1. \A s, r \in 2 .. 7 : s < r \/ r < s \/ s = r
      OBVIOUS
    <3>2. at.type < t => off[at.type] + C[at.type] <= off[t]
      BY <1>2, <2>5 DEF Offsets
    <3>3. t < at.type => off[t] + C[t] <= off[at.type]
      BY <1>2, <2>5 DEF Offsets
    <3> DEFINE k == j - 1
    <3>4. k \in Nat /\ k < C[t] /\ off[t] + k = n
      BY <2>1, <2>3
    <3> HIDE DEF k
    <3>5. ~(at.type < t)
      BY <2>1, <2>5, <3>2, <3>4, Apart
    <3>6. ~(t < at.type)
      BY <2>1, <2>5, <3>3, <3>4, Apart
    <3> QED  BY <2>5, <3>1, <3>5, <3>6
  <2>7. at.index + 1 = j
    BY <2>1, <2>3, <2>5, <2>6
  <2>8. \A x \in OfType(p, at.type) : /\ C[at.type] = Entries(p, x, at.type)
                                      /\ getServiceUUID(p, n) = UuidOf(p, at.type, x, at.index + 1)
    <3>1. n \in Nat
      BY <2>3
    <3>2. ReadAt(p, C, n, at)
      BY <1>1, <1>2, <2>4, <3>1, UuidRead
    <3> QED  BY <3>2 DEF ReadAt
  <2> QED  BY <2>3, <2>6, <2>7, <2>8
<1> QED  BY <1>3, <1>5, <1>6 DEF ServicesReached, total

LEMMA EntryHeld ==
  ASSUME NEW p \in Seq(Octet), NEW S, Chain(p, S), NEW b \in {2, 4, 16}, NEW t \in ListsOf(b),
         NEW i \in OfType(p, t), NEW j \in Nat \ {0}, j <= Entries(p, i, t),
         NEW u, InBytes(u), UuidOf(p, t, i, j) = u
  PROVE  Places(p, u) # {}
<1> DEFINE m == Entries(p, i, t)
           x == NthPlace(i + 2, b, j)
<1>1. /\ Width(t) = b /\ Entries(p, i, t) \in Nat /\ p[i] = b * Entries(p, i, t) + 1
      /\ i \in S /\ i <= Len(p) /\ FieldIn(p, i) /\ i + p[i] + 1 <= Len(p) + 1
  BY ListEntries
<1>2. i \in Nat /\ m \in Nat /\ j \in 1 .. m /\ p[i] = b * m + 1 /\ p[i + 1] = t
  BY <1>1 DEF FieldIn, OfType
<1>3. UuidOf(p, t, i, j) = SubSeq(p, x, x + b - 1)
  BY <1>1 DEF UuidOf, Bytes
<1> HIDE DEF m
<1>4. x \in Nat /\ i + 2 <= x /\ x + b <= i + p[i] + 1 /\ (x - i - 2) % b = 0
  <2>1. NthFits(i, b, m, j)
    BY <1>2, NthPlaces
  <2> QED  BY <1>2, <2>1 DEF NthFits
<1> HIDE DEF x
<1>5. x \in Nat \ {0} /\ b \in Nat /\ x + b <= Len(p) + 1 /\ Len(p) \in Nat
  <2>1. \A k \in {2, 4, 16} : k \in Nat
    OBVIOUS
  <2>2. b \in Nat /\ Len(p) \in Nat /\ p[i] \in Nat
    BY <1>1, <2>1, LenProperties DEF FieldIn
  <2> QED  BY <1>1, <1>2, <1>4, <2>2
<1>6. Len(u) = b
  <2> DEFINE z == x + b - 1
  <2>1. z \in Nat /\ z <= Len(p) /\ x <= z + 1 /\ z - x + 1 = b
    BY <1>5
  <2> HIDE DEF z
  <2>2. Len(SubSeq(p, x, z)) = z - x + 1
    BY <1>5, <2>1, Part
  <2> QED  BY <1>3, <2>1, <2>2 DEF z
<1>7. UuidAt(p, x, u)
  <2>1. u \in Seq(Octet) /\ x + Len(u) <= Len(p) + 1 /\ SubSeq(p, x, x + Len(u) - 1) = u
    BY <1>3, <1>5, <1>6 DEF InBytes
  <2> QED  BY <1>5, <2>1, BytesAre
<1>8. x \in Held(p, i, u)
  <2>1. PlaceIn(p, i, u, x)
    BY <1>2, <1>4, <1>6, <1>7 DEF PlaceIn
  <2> QED  BY <1>1, <2>1, HeldPlaces
<1>9. x \in Places(p, u)
  BY <1>8 DEF Places, OfType
<1> QED  BY <1>9

LEMMA HeldEntry ==
  ASSUME NEW p \in Seq(Octet), NEW S, Chain(p, S), NEW u, InBytes(u), Places(p, u) # {}
  PROVE  \E t \in 2 .. 7 : \E i \in OfType(p, t) : \E j \in Nat \ {0} :
           j <= Entries(p, i, t) /\ UuidOf(p, t, i, j) = u
<1> DEFINE b == Len(u)
<1>1. b \in {2, 4, 16} /\ u \in Seq(Octet)
  BY DEF InBytes
<1>2. PICK i \in FieldsOf(p) : Held(p, i, u) # {}
  BY DEF Places
<1> PICK x \in Held(p, i, u) : TRUE
  BY <1>2
<1>3. i \in S /\ i <= Len(p)
  BY <1>2, FieldsAtMarks, FieldsFit
<1>4. FieldIn(p, i)
  BY <1>3, MarkedField
<1>5. PlaceIn(p, i, u, x)
  BY <1>2, <1>4, HeldPlaces
<1> DEFINE t == p[i + 1]
           m == Entries(p, i, t)
<1>6. /\ t \in ListsOf(b) /\ x \in Nat /\ i + 2 <= x /\ x + b <= i + p[i] + 1
      /\ (x - i - 2) % b = 0 /\ UuidAt(p, x, u)
  BY <1>5 DEF PlaceIn
<1>7. i \in OfType(p, t)
  BY <1>2 DEF OfType
<1>8. t \in 2 .. 7
  <2>1. t \in {2, 3, 4, 5, 6, 7}
    BY <1>1, <1>6, ListTypeOf
  <2> QED  BY <2>1
<1> HIDE DEF t, b
<1>9. /\ Width(t) = b /\ Entries(p, i, t) \in Nat /\ p[i] = b * Entries(p, i, t) + 1
      /\ i \in S /\ i <= Len(p) /\ FieldIn(p, i) /\ i + p[i] + 1 <= Len(p) + 1
  BY <1>1, <1>6, <1>7, ListEntries
<1> HIDE DEF m
<1>10. i \in Nat /\ m \in Nat /\ p[i] = b * m + 1 /\ p[i] \in Nat
  BY <1>9 DEF FieldIn, m
<1>11. PICK j \in 1 .. m : x = NthPlace(i + 2, b, j)
  <2>1. x + b <= i + (b * m + 1) + 1
    BY <1>6, <1>10
  <2> QED  BY <1>1, <1>6, <1>10, <2>1, PlaceIsNth
<1>12. SubSeq(p, x, x + b - 1) = u
  <2>1. x \in Nat \ {0} /\ x + b <= Len(p) + 1
    <3>1. \A k \in {2, 4, 16} : k \in Nat
      OBVIOUS
    <3>2. b \in Nat /\ Len(p) \in Nat
      BY <1>1, <3>1, LenProperties
    <3> QED  BY <1>6, <1>9, <1>10, <3>2
  <2> QED  BY <1>1, <1>6, <2>1, BytesAre DEF b
<1>13. UuidOf(p, t, i, j) = u
  BY <1>9, <1>11, <1>12 DEF UuidOf, Bytes
<1>14. j \in Nat \ {0} /\ j <= m
  BY <1>10, <1>11
<1> QED  BY <1>7, <1>8, <1>13, <1>14 DEF m

LEMMA ServicesFound ==
  ASSUME NEW p \in Seq(Octet), NEW S, Chain(p, S), \A t \in 2 .. 7 : Cardinality(OfType(p, t)) <= 1,
         NEW u, InBytes(u)
  PROVE  isAdvertisingService(p, u) <=> Listings(p, u) > 0
<1> DEFINE total == getServiceUUIDCount(p)
<1>1. ServicesReached(p)
  BY ServicePlaces
<1>2. total \in Nat
  BY <1>1 DEF ServicesReached
<1>3. isAdvertisingService(p, u) <=> \E n \in Nat : n < total /\ getServiceUUID(p, n) = u
  <2>1. \A n : n \in 0 .. total - 1 <=> n \in Nat /\ n < total
    BY <1>2
  <2> QED  BY <2>1 DEF isAdvertisingService
<1>4. Listings(p, u) > 0 <=> Places(p, u) # {}
  <2>1. IsFiniteSet(Places(p, u)) /\ Listings(p, u) \in Nat
    BY PlacesAtMarks
  <2>2. Cardinality(Places(p, u)) = 0 <=> Places(p, u) = {}
    BY <2>1, FS_EmptySet
  <2> QED  BY <2>1, <2>2 DEF Listings
<1>5. ASSUME NEW n \in Nat, n < total, getServiceUUID(p, n) = u
      PROVE  Places(p, u) # {}
  <2>1. PICK t \in 2 .. 7 : \E i \in OfType(p, t) : \E j \in Nat \ {0} :
          j <= Entries(p, i, t) /\ getServiceUUID(p, n) = UuidOf(p, t, i, j)
    BY <1>1, <1>5 DEF ServicesReached
  <2>2. PICK i \in OfType(p, t) : \E j \in Nat \ {0} :
          j <= Entries(p, i, t) /\ getServiceUUID(p, n) = UuidOf(p, t, i, j)
    BY <2>1
  <2>3. PICK j \in Nat \ {0} : j <= Entries(p, i, t) /\ getServiceUUID(p, n) = UuidOf(p, t, i, j)
    BY <2>2
  <2>4. PICK b \in {2, 4, 16} : t \in ListsOf(b)
    <3>1. t = 2 \/ t = 3 \/ t = 4 \/ t = 5 \/ t = 6 \/ t = 7
      BY <2>1
    <3>2. t \in ListsOf(2) \/ t \in ListsOf(4) \/ t \in ListsOf(16)
      BY <3>1, ListTypes
    <3> QED  BY <3>2
  <2>5. UuidOf(p, t, i, j) = u
    BY <1>5, <2>3
  <2> QED  BY <2>3, <2>4, <2>5, EntryHeld
<1>6. ASSUME Places(p, u) # {}
      PROVE  \E n \in Nat : n < total /\ getServiceUUID(p, n) = u
  <2>1. PICK t \in 2 .. 7 : \E i \in OfType(p, t) : \E j \in Nat \ {0} :
          j <= Entries(p, i, t) /\ UuidOf(p, t, i, j) = u
    BY <1>6, HeldEntry
  <2> QED  BY <1>1, <2>1 DEF ServicesReached
<1> QED  BY <1>3, <1>4, <1>5, <1>6

LEMMA LegacyScanned ==
  ASSUME LegacyInv
  PROVE  ScannedAsBuilt
<1> DEFINE p == m_payload
<1>1. PICK S : Chain(p, S)
  BY DEF LegacyInv, Whole
<1>2. p \in Seq(Octet) /\ Len(p) <= BLE_HS_ADV_MAX_SZ
  BY DEF LegacyInv, Whole
<1>3. WholeFields
  <2>1. WholeFieldsIn(p)
    BY <1>1, <1>2, ChainIsWhole
  <2> QED  BY <1>2, <2>1 DEF WholeFields
<1>4. \A u \in Uuids : InBytes(u)
  BY LegacyBytesAssumption DEF InBytes
<1>5. ASSUME \A type \in 2 .. 7 : Once(type)
      PROVE  EveryServiceFound
  <2>1. \A t \in 2 .. 7 : Cardinality(OfType(p, t)) <= 1
    BY <1>5 DEF Once
  <2>2. \A u \in Uuids : isAdvertisingService(p, u) <=> Listings(p, u) > 0
    BY <1>1, <1>2, <1>4, <2>1, ServicesFound
  <2>3. \A u \in Uuids : listed[u] = Listings(p, u)
    BY DEF LegacyInv
  <2> QED  BY <2>2, <2>3 DEF EveryServiceFound
<1>6. \A type : Values(type) = ValuesOf(p, type)
  BY DEF Values, ValuesOf
<1>7. getName(p) \in AnyOf(IF Values(COMP_NAME) # {} THEN Values(COMP_NAME) ELSE Values(INCOMP_NAME))
  <2>1. getName(p) \in
          AnyOf(IF ValuesOf(p, COMP_NAME) # {} THEN ValuesOf(p, COMP_NAME) ELSE ValuesOf(p, INCOMP_NAME))
    BY <1>1, <1>2, NameRead
  <2> QED  BY <1>6, <2>1
<1>8. ASSUME NEW u \in Uuids
      PROVE  getServiceData(p, u) \in AnyOf(DataOf(u))
  <2>1. u \in Seq(Octet) /\ Len(u) \in {2, 4, 16}
    BY LegacyBytesAssumption
  <2>2. getServiceData(p, u) \in AnyOf(DataIn(p, u))
    BY <1>1, <1>2, <2>1, ServiceDataRead
  <2>3. DataOf(u) = DataIn(p, u)
    BY <1>6 DEF DataOf, DataIn
  <2> QED  BY <2>2, <2>3
<1> HIDE DEF p
<1> QED  BY <1>3, <1>5, <1>7, <1>8 DEF ScannedAsBuilt, p

\* For every size of a payload up to 255 bytes and for all UUIDs and texts: whatever was added,
\* changed, truncated and removed, a scanner that reads the legacy payload is told what was put
\* there: every listed service and no other where no list type occurs twice, a complete name
\* before a cut one, and service data of the service asked for and of no other.
THEOREM ScannedAlwaysAsBuilt == SparesLaterFields /\ AdvertisementSpec => []ScannedAsBuilt
<1> SUFFICES ASSUME SparesLaterFields PROVE AdvertisementSpec => []ScannedAsBuilt
  OBVIOUS
<1>1. AdvertisementSpec => []LegacyInv
  BY ListedIsInThePayload
<1>2. LegacyInv => ScannedAsBuilt
  BY LegacyScanned
<1> QED  BY <1>1, <1>2, PTL
=============================================================================

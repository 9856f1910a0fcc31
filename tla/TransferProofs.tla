--------------------------- MODULE TransferProofs ---------------------------
(***************************************************************************)
(* Proofs about Transfer: for every number of inputs and outputs, every    *)
(* reference graph and every NAR the copier takes whole.  First what the   *)
(* operators compute: Keep, Kahn's algorithm, the readers of DaemonWire    *)
(* on a reply and on each of its prefixes.  Then the inductive invariant,  *)
(* one part at a time, and the properties it implies.                      *)
(***************************************************************************)
EXTENDS Transfer, WellFoundedInduction, SequenceTheorems, FiniteSetTheorems, TLAPS

-----------------------------------------------------------------------------
(* Induction and recursion over the naturals, from the library's theorem    *)
(* that every set of naturals has a least element.                         *)

LEMMA LeastOf ==
    ASSUME NEW T, T \subseteq Nat, T # {}
    PROVE  \E x \in T : \A y \in T : x <= y
<1> DEFINE R == OpToRel(<, Nat)
<1>1. IsWellFoundedOn(R, Nat)
  BY NatLessThanWellFounded
<1>2. \A x, y \in Nat : y < x => <<y, x>> \in R
  BY DEF OpToRel
<1> HIDE DEF R
<1>3. PICK x \in T : \A y \in T : ~ (<<y, x>> \in R)
  BY <1>1, WFMin
<1>4. \A y \in T : x \in Nat /\ y \in Nat /\ ~ (y < x)
  BY <1>2, <1>3
<1>5. \A y \in T : x <= y
  BY <1>4
<1> QED
  BY <1>5

LEMMA SetInduction ==
    ASSUME NEW T, T \subseteq Nat, 0 \in T, \A n \in T : n + 1 \in T
    PROVE  T = Nat
<1> DEFINE B == Nat \ T
<1> SUFFICES ASSUME B # {} PROVE FALSE
  OBVIOUS
<1>1. B \subseteq Nat
  OBVIOUS
<1>2. PICK x \in B : \A y \in B : x <= y
  <2> HIDE DEF B
  <2> QED
    BY <1>1, LeastOf
<1>3. x # 0 /\ x \in Nat /\ x - 1 \in Nat
  BY <1>2
<1>4. x - 1 \notin B
  BY <1>2, <1>3
<1>5. (x - 1) + 1 \in T
  BY <1>3, <1>4
<1> QED
  BY <1>2, <1>3, <1>5

(* A function is defined up to N by its value at 0 and by its step.         *)
Recursive(A, a0, G, N) ==
    \E f \in [0 .. N -> A] : f[0] = a0 /\ \A n \in 1 .. N : f[n] = G[n][f[n - 1]]

LEMMA Recursion ==
    ASSUME NEW A, NEW a0 \in A, NEW G \in [Nat -> [A -> A]], NEW N \in Nat
    PROVE  Recursive(A, a0, G, N)
<1> DEFINE Defines(f, m) == f[0] = a0 /\ \A n \in 1 .. m : f[n] = G[n][f[n - 1]]
           T == {m \in Nat : \E f \in [0 .. m -> A] : Defines(f, m)}
<1>1. 0 \in T
  <2>1. [n \in 0 .. 0 |-> a0] \in [0 .. 0 -> A] /\ Defines([n \in 0 .. 0 |-> a0], 0)
    OBVIOUS
  <2> QED
    BY <2>1
<1>2. ASSUME NEW m \in T PROVE m + 1 \in T
  <2>1. PICK f \in [0 .. m -> A] : Defines(f, m)
    BY <1>2
  <2> DEFINE g == [n \in 0 .. m + 1 |-> IF n <= m THEN f[n] ELSE G[m + 1][f[m]]]
  <2>2. g \in [0 .. m + 1 -> A]
    BY <1>2
  <2>3. m \in Nat /\ g[0] = a0 /\ g[m + 1] = G[m + 1][g[m]]
    BY <1>2, <2>1
  <2>4. ASSUME NEW n \in 1 .. m PROVE g[n] = G[n][g[n - 1]]
    <3>1. g[n] = f[n] /\ g[n - 1] = f[n - 1]
      BY <2>3
    <3> QED
      BY <2>1, <3>1
  <2>5. Defines(g, m + 1)
    <3> HIDE DEF g
    <3>1. \A n \in 1 .. m + 1 : n \in 1 .. m \/ n = m + 1
      BY <2>3
    <3>2. (m + 1) - 1 = m
      BY <2>3
    <3> QED
      BY <2>3, <2>4, <3>1, <3>2
  <2> QED
    BY <2>2, <2>3, <2>5, m + 1 \in Nat
<1>3. T = Nat
  <2>1. T \subseteq Nat
    OBVIOUS
  <2> HIDE DEF T
  <2> QED
    BY <1>1, <1>2, <2>1, SetInduction
<1> QED
  BY <1>3 DEF Recursive

(* What holds at 0 and at n if at n - 1 holds up to N.                      *)
LEMMA UpTo ==
    ASSUME NEW N \in Nat, NEW P, 0 \in P, \A n \in 1 .. N : n - 1 \in P => n \in P
    PROVE  \A n \in 0 .. N : n \in P
<1> DEFINE T == {n \in Nat : n <= N => n \in P}
<1>1. T \subseteq Nat /\ 0 \in T
  OBVIOUS
<1>2. ASSUME NEW n \in T PROVE n + 1 \in T
  <2>1. n \in Nat /\ n + 1 \in Nat /\ (n + 1) - 1 = n /\ (n + 1 <= N => n \in P)
    BY <1>2
  <2>2. n + 1 <= N => n + 1 \in 1 .. N
    BY <2>1
  <2> QED
    BY <2>1, <2>2
<1>3. T = Nat
  <2> HIDE DEF T
  <2> QED
    BY <1>1, <1>2, SetInduction
<1> QED
  BY <1>3

(* Two functions with one recursion are one.                                *)
SameUpTo(f, g, N) == \A n \in 0 .. N : f[n] = g[n]

LEMMA Unique ==
    ASSUME NEW N \in Nat, NEW f, NEW g, f[0] = g[0],
           \A n \in 1 .. N : f[n - 1] = g[n - 1] => f[n] = g[n]
    PROVE  SameUpTo(f, g, N)
<1> DEFINE P == {n \in Nat : f[n] = g[n]}
<1>1. 0 \in P /\ \A n \in 1 .. N : n - 1 \in P => n \in P
  OBVIOUS
<1>2. \A n \in 0 .. N : n \in P
  <2> HIDE DEF P
  <2> QED
    BY <1>1, UpTo
<1> QED
  BY <1>2 DEF SameUpTo

(* The recursion of Keep.                                                   *)
Keeps(f, s, T) ==
    /\ f[0] = <<>>
    /\ \A n \in 1 .. Len(s) : f[n] = IF s[n] \in T THEN Append(f[n - 1], s[n]) ELSE f[n - 1]

LEMMA KeepDef ==
    ASSUME NEW S, NEW s \in Seq(S), NEW T
    PROVE  \E f \in [0 .. Len(s) -> Seq(S)] : Keeps(f, s, T) /\ Keep(s, T) = f[Len(s)]
<1> DEFINE N == Len(s)
           G == [n \in Nat |-> [q \in Seq(S) |->
                    IF n \in 1 .. N /\ s[n] \in T THEN Append(q, s[n]) ELSE q]]
<1>1. <<>> \in Seq(S) /\ N \in Nat
  BY EmptySeq, LenProperties
<1>2. G \in [Nat -> [Seq(S) -> Seq(S)]]
  <2>1. \A n \in 1 .. N : s[n] \in S
    BY ElementOfSeq
  <2>2. \A n \in Nat, q \in Seq(S) :
          (IF n \in 1 .. N /\ s[n] \in T THEN Append(q, s[n]) ELSE q) \in Seq(S)
    BY <2>1, AppendProperties
  <2> QED
    BY <2>2, Zenon
<1>3. PICK f \in [0 .. N -> Seq(S)] : f[0] = <<>> /\ \A n \in 1 .. N : f[n] = G[n][f[n - 1]]
  <2>1. Recursive(Seq(S), <<>>, G, N)
    <3> HIDE DEF N, G
    <3> QED
      BY <1>1, <1>2, Recursion
  <2> QED
    BY <2>1, Zenon DEF Recursive
<1>4. Keeps(f, s, T)
  <2> SUFFICES ASSUME NEW n \in 1 .. N
               PROVE  f[n] = IF s[n] \in T THEN Append(f[n - 1], s[n]) ELSE f[n - 1]
    BY <1>3 DEF Keeps
  <2>1. f[n - 1] \in Seq(S) /\ n \in Nat
    BY <1>1
  <2>2. G[n][f[n - 1]] = IF s[n] \in T THEN Append(f[n - 1], s[n]) ELSE f[n - 1]
    BY <2>1
  <2> QED
    BY <1>3, <2>2
<1> DEFINE Step(g, n) == IF n = 0 THEN <<>>
                         ELSE IF s[n] \in T THEN Append(g[n - 1], s[n]) ELSE g[n - 1]
           upTo == CHOOSE g : g = [n \in 0 .. N |-> Step(g, n)]
<1>5. f = [n \in 0 .. N |-> Step(f, n)]
  <2>1. \A n \in 0 .. N : f[n] = Step(f, n)
    <3>1. \A n \in 0 .. N : n = 0 \/ n \in 1 .. N
      BY <1>1
    <3>2. \A n \in 1 .. N : n # 0
      BY <1>1
    <3> QED
      BY <1>4, <3>1, <3>2, Zenon DEF Keeps
  <2> HIDE DEF Step
  <2> QED
    BY <2>1
<1>6. upTo = [n \in 0 .. N |-> Step(upTo, n)]
  BY <1>5, Zenon
<1>7. Keep(s, T) = upTo[N]
  BY DEF Keep
<1> HIDE DEF upTo
<1>8. SameUpTo(f, upTo, N)
  <2>1. f[0] = upTo[0]
    BY <1>1, <1>3, <1>6
  <2>2. ASSUME NEW n \in 1 .. N, f[n - 1] = upTo[n - 1] PROVE f[n] = upTo[n]
    <3>1. n \in 0 .. N /\ n # 0
      BY <1>1
    <3>2. upTo[n] = Step(upTo, n) /\ f[n] = Step(f, n)
      BY <1>5, <1>6, <3>1
    <3> QED
      BY <2>2, <3>1, <3>2
  <2>3. \A n \in 1 .. N : f[n - 1] = upTo[n - 1] => f[n] = upTo[n]
    BY <2>2
  <2>4. N \in Nat
    BY <1>1
  <2> HIDE DEF N, G, Step
  <2> QED
    BY <2>1, <2>3, <2>4, Unique
<1> QED
  BY <1>1, <1>4, <1>7, <1>8 DEF SameUpTo

(* What Keep returns for one word more.                                     *)
LEMMA KeepAppend ==
    ASSUME NEW S, NEW s \in Seq(S), NEW x \in S, NEW T
    PROVE  Keep(Append(s, x), T) = IF x \in T THEN Append(Keep(s, T), x) ELSE Keep(s, T)
<1> DEFINE t == Append(s, x)
           N == Len(s)
<1>1. N \in Nat /\ t \in Seq(S) /\ Len(t) = N + 1 /\ t[N + 1] = x
      /\ \A n \in 1 .. N : t[n] = s[n]
  BY AppendProperties, LenProperties
<1> HIDE DEF t
<1>2. PICK f \in [0 .. N -> Seq(S)] : Keeps(f, s, T) /\ Keep(s, T) = f[N]
  BY KeepDef
<1>3. PICK g \in [0 .. Len(t) -> Seq(S)] : Keeps(g, t, T) /\ Keep(t, T) = g[Len(t)]
  BY <1>1, KeepDef
<1>4. SameUpTo(f, g, N)
  <2>1. f[0] = g[0]
    BY <1>2, <1>3 DEF Keeps
  <2>2. \A n \in 1 .. N : f[n - 1] = g[n - 1] => f[n] = g[n]
    <3>1. \A n \in 1 .. N : n \in 1 .. Len(t)
      BY <1>1
    <3> QED
      BY <1>1, <1>2, <1>3, <3>1 DEF Keeps
  <2>3. N \in Nat
    BY <1>1
  <2> HIDE DEF N
  <2> QED
    BY <2>1, <2>2, <2>3, Unique
<1>5. g[N + 1] = IF t[N + 1] \in T THEN Append(g[N], t[N + 1]) ELSE g[N]
  <2>1. N + 1 \in 1 .. Len(t) /\ (N + 1) - 1 = N
    BY <1>1
  <2> QED
    BY <1>3, <2>1 DEF Keeps
<1>6. f[N] = g[N]
  BY <1>1, <1>4 DEF SameUpTo
<1> QED
  BY <1>1, <1>2, <1>3, <1>5, <1>6 DEF t

-----------------------------------------------------------------------------
(* Kahn's algorithm.  After any number of steps everything taken comes      *)
(* after its references, everything queued has all of them taken, nothing   *)
(* was queued or taken twice, and what has its references taken is there.   *)

Has(s, i) == \E k \in 1 .. Len(s) : s[k] = i
Once(s) == \A j, k \in 1 .. Len(s) : s[j] = s[k] => j = k

Taken(o) == \A k \in 1 .. Len(o) : \A d \in Deps(o[k]) : \E j \in 1 .. k - 1 : o[j] = d
Freed(q, o) == \A i \in Index : Has(q, i) => \A d \in Deps(i) : Has(o, d)
Apart(q, o) == Once(q) /\ Once(o) /\ \A i \in Index : ~ (Has(q, i) /\ Has(o, i))
Reached(q, o) == \A i \in Index : (\A d \in Deps(i) : Has(o, d)) => Has(o, i) \/ Has(q, i)
Kahn == {s \in [queue : Seq(Index), order : Seq(Index)] :
            /\ Taken(s.order) /\ Freed(s.queue, s.order)
            /\ Apart(s.queue, s.order) /\ Reached(s.queue, s.order)}

LEMMA HasAppend ==
    ASSUME NEW S, NEW o \in Seq(S), NEW x \in S
    PROVE  \A i : Has(Append(o, x), i) <=> Has(o, i) \/ i = x
<1> DEFINE a == Append(o, x)
<1>1. a \in Seq(S) /\ Len(o) \in Nat /\ Len(a) = Len(o) + 1
      /\ a[Len(o) + 1] = x /\ \A k \in 1 .. Len(o) : a[k] = o[k]
  BY AppendProperties, LenProperties
<1> HIDE DEF a
<1>2. ASSUME NEW i, Has(a, i) PROVE Has(o, i) \/ i = x
  <2>1. PICK k \in 1 .. Len(a) : a[k] = i
    BY <1>2 DEF Has
  <2>2. k \in 1 .. Len(o) \/ k = Len(o) + 1
    BY <1>1
  <2> QED
    BY <1>1, <2>1, <2>2 DEF Has
<1>3. ASSUME NEW i, Has(o, i) \/ i = x PROVE Has(a, i)
  <2>1. Len(o) + 1 \in 1 .. Len(a) /\ \A k \in 1 .. Len(o) : k \in 1 .. Len(a)
    BY <1>1
  <2> QED
    BY <1>1, <1>3, <2>1 DEF Has
<1> QED
  BY <1>2, <1>3 DEF a

LEMMA OnceAppend ==
    ASSUME NEW S, NEW o \in Seq(S), NEW x \in S, Once(o), ~ Has(o, x)
    PROVE  Once(Append(o, x))
<1> DEFINE a == Append(o, x)
<1>1. a \in Seq(S) /\ Len(o) \in Nat /\ Len(a) = Len(o) + 1
      /\ a[Len(o) + 1] = x /\ \A k \in 1 .. Len(o) : a[k] = o[k]
  BY AppendProperties, LenProperties
<1> HIDE DEF a
<1>2. \A k \in 1 .. Len(a) : k \in 1 .. Len(o) \/ k = Len(o) + 1
  BY <1>1
<1>3. \A k \in 1 .. Len(o) : o[k] # x
  BY DEF Has
<1>4. Once(a)
  BY <1>1, <1>2, <1>3 DEF Once
<1> QED
  BY <1>4 DEF a

LEMMA HasConcat ==
    ASSUME NEW S, NEW p \in Seq(S), NEW r \in Seq(S)
    PROVE  \A i : Has(p \o r, i) <=> Has(p, i) \/ Has(r, i)
<1> DEFINE a == p \o r
<1>1. /\ Len(p) \in Nat /\ Len(r) \in Nat /\ Len(a) = Len(p) + Len(r)
      /\ \A k \in 1 .. Len(p) + Len(r) : a[k] = IF k <= Len(p) THEN p[k] ELSE r[k - Len(p)]
  BY ConcatProperties, LenProperties
<1> HIDE DEF a
<1>2. /\ \A k \in 1 .. Len(p) : k \in 1 .. Len(a) /\ a[k] = p[k]
      /\ \A k \in 1 .. Len(r) : k + Len(p) \in 1 .. Len(a) /\ a[k + Len(p)] = r[k]
      /\ \A k \in 1 .. Len(a) : \/ k \in 1 .. Len(p) /\ a[k] = p[k]
                                \/ k - Len(p) \in 1 .. Len(r) /\ a[k] = r[k - Len(p)]
  BY <1>1
<1>3. \A i : Has(a, i) <=> Has(p, i) \/ Has(r, i)
  BY <1>2 DEF Has
<1> QED
  BY <1>3 DEF a

LEMMA OnceConcat ==
    ASSUME NEW S, NEW p \in Seq(S), NEW r \in Seq(S), Once(p), Once(r),
           \A i : ~ (Has(p, i) /\ Has(r, i))
    PROVE  Once(p \o r)
<1> DEFINE a == p \o r
<1>1. /\ Len(p) \in Nat /\ Len(r) \in Nat /\ Len(a) = Len(p) + Len(r)
      /\ \A k \in 1 .. Len(p) + Len(r) : a[k] = IF k <= Len(p) THEN p[k] ELSE r[k - Len(p)]
  BY ConcatProperties, LenProperties
<1> HIDE DEF a
<1>2. \A k \in 1 .. Len(a) : \/ k \in 1 .. Len(p) /\ a[k] = p[k]
                             \/ k - Len(p) \in 1 .. Len(r) /\ a[k] = r[k - Len(p)]
  BY <1>1
<1>3. \A j \in 1 .. Len(p), k \in 1 .. Len(r) : p[j] # r[k]
  BY DEF Has
<1>4. ASSUME NEW j \in 1 .. Len(a), NEW k \in 1 .. Len(a), a[j] = a[k] PROVE j = k
  <2>1. CASE j \in 1 .. Len(p) /\ k \in 1 .. Len(p)
    BY <1>1, <1>4, <2>1 DEF Once
  <2>2. CASE j - Len(p) \in 1 .. Len(r) /\ k - Len(p) \in 1 .. Len(r)
    <3>1. a[j] = r[j - Len(p)] /\ a[k] = r[k - Len(p)]
      BY <1>1, <2>2
    <3>2. j - Len(p) = k - Len(p)
      BY <1>4, <2>2, <3>1 DEF Once
    <3> QED
      BY <1>1, <3>2
  <2> QED
    BY <1>2, <1>3, <1>4, <2>1, <2>2
<1>5. Once(a)
  BY <1>4 DEF Once
<1> QED
  BY <1>5 DEF a

LEMMA HasTail ==
    ASSUME NEW S, NEW q \in Seq(S), q # <<>>
    PROVE  /\ \A i : Has(q, i) <=> i = Head(q) \/ Has(Tail(q), i)
           /\ Once(q) => Once(Tail(q)) /\ ~ Has(Tail(q), Head(q))
<1> DEFINE t == Tail(q)
           x == Head(q)
<1>1. /\ x = q[1] /\ t \in Seq(S) /\ Len(q) \in Nat /\ Len(q) > 0 /\ Len(t) = Len(q) - 1
      /\ \A k \in 1 .. Len(t) : t[k] = q[k + 1]
  BY HeadTailProperties, LenProperties, EmptySeq
<1> HIDE DEF t, x
<1>2. /\ 1 \in 1 .. Len(q)
      /\ \A k \in 1 .. Len(t) : t[k] = q[k + 1] /\ k + 1 \in 1 .. Len(q) /\ k + 1 # 1
      /\ \A k \in 1 .. Len(q) : k = 1 \/ (k - 1 \in 1 .. Len(t) /\ q[k] = t[k - 1])
  BY <1>1
<1>3. \A i : Has(q, i) <=> i = x \/ Has(t, i)
  BY <1>1, <1>2 DEF Has
<1>4. ASSUME Once(q) PROVE Once(t) /\ ~ Has(t, x)
  <2>1. ASSUME NEW j \in 1 .. Len(t), NEW k \in 1 .. Len(t), t[j] = t[k] PROVE j = k
    <3>1. j + 1 = k + 1
      BY <1>2, <1>4, <2>1 DEF Once
    <3> QED
      BY <3>1
  <2>2. \A k \in 1 .. Len(t) : t[k] # x
    BY <1>1, <1>2, <1>4 DEF Once
  <2> QED
    BY <2>1, <2>2 DEF Once, Has
<1> QED
  BY <1>3, <1>4 DEF t, x

(* Ascending lists the set, each member once.                               *)
LEMMA AscendingIs ==
    ASSUME NEW S, S \subseteq Index
    PROVE  /\ Ascending(S) \in Seq(Index) /\ Once(Ascending(S))
           /\ \A i : Has(Ascending(S), i) <=> i \in S
<1> DEFINE w == [i \in Index |-> i]
<1>1. w \in Seq(Index) /\ Len(w) = NumInputs /\ NumInputs \in Nat
  BY CountsAssumption, IsASeq DEF Index
<1>2. \A n \in 1 .. Len(w) : w[n] = n /\ n \in Index
  BY <1>1 DEF Index
<1>3. Ascending(S) = Keep(w, S)
  BY DEF Ascending
<1> HIDE DEF w
<1>4. PICK f \in [0 .. Len(w) -> Seq(Index)] : Keeps(f, w, S) /\ Keep(w, S) = f[Len(w)]
  BY <1>1, KeepDef
<1> DEFINE P == {n \in 0 .. Len(w) : Once(f[n]) /\ \A i : Has(f[n], i) <=> i \in S /\ i \in 1 .. n}
<1>5. 0 \in P
  <2>1. f[0] = <<>> /\ Len(<<>>) = 0
    BY <1>4 DEF Keeps
  <2>2. 0 \in 0 .. Len(w) /\ 1 .. 0 = {}
    BY <1>1
  <2> QED
    BY <2>1, <2>2 DEF Once, Has
<1>6. ASSUME NEW n \in 1 .. Len(w), n - 1 \in P PROVE n \in P
  <2>1. /\ n \in 0 .. Len(w) /\ n - 1 \in 0 .. Len(w) /\ w[n] = n /\ n \in Index
        /\ f[n - 1] \in Seq(Index) /\ f[n] = IF n \in S THEN Append(f[n - 1], n) ELSE f[n - 1]
    BY <1>1, <1>2, <1>4 DEF Keeps
  <2>2. Once(f[n - 1]) /\ \A i : Has(f[n - 1], i) <=> i \in S /\ i \in 1 .. n - 1
    BY <1>6
  <2>3. n \notin 1 .. n - 1 /\ \A i : i \in 1 .. n <=> i \in 1 .. n - 1 \/ i = n
    BY <1>1
  <2>4. CASE n \in S
    <3>1. f[n] = Append(f[n - 1], n) /\ ~ Has(f[n - 1], n)
      BY <2>1, <2>2, <2>3, <2>4
    <3>2. Once(f[n])
      BY <2>1, <2>2, <3>1, OnceAppend
    <3>3. \A i : Has(f[n], i) <=> Has(f[n - 1], i) \/ i = n
      BY <2>1, <3>1, HasAppend
    <3> QED
      BY <2>1, <2>2, <2>3, <2>4, <3>2, <3>3
  <2>5. CASE n \notin S
    BY <2>1, <2>2, <2>3, <2>5
  <2> QED
    BY <2>4, <2>5
<1>7. Len(w) \in P
  <2>1. \A n \in 1 .. Len(w) : n - 1 \in P => n \in P
    BY <1>6
  <2>2. Len(w) \in Nat /\ Len(w) \in 0 .. Len(w)
    BY <1>1
  <2> HIDE DEF P
  <2> QED
    BY <1>5, <2>1, <2>2, UpTo
<1>8. \A i : i \in S => i \in 1 .. Len(w)
  BY <1>1 DEF Index
<1> QED
  BY <1>1, <1>3, <1>4, <1>7, <1>8

LEMMA KahnStarts == KahnStart \in Kahn
<1> DEFINE S == {i \in Index : Deps(i) = {}}
           a == Ascending(S)
<1>1. a \in Seq(Index) /\ Once(a) /\ \A i : Has(a, i) <=> i \in S
  BY AscendingIs
<1>2. <<>> \in Seq(Index) /\ Once(<<>>) /\ \A i : ~ Has(<<>>, i)
  BY EmptySeq DEF Once, Has
<1>3. KahnStart = [queue |-> a, order |-> <<>>]
  BY DEF KahnStart
<1>4. \A i : Has(a, i) <=> i \in Index /\ Deps(i) = {}
  BY <1>1
<1> HIDE DEF a, S
<1>5. Taken(<<>>) /\ Freed(a, <<>>) /\ Apart(a, <<>>) /\ Reached(a, <<>>)
  <2>1. Taken(<<>>)
    BY DEF Taken
  <2> QED
    BY <1>1, <1>2, <1>4, <2>1, Zenon DEF Freed, Apart, Reached
<1> DEFINE s == [queue |-> a, order |-> <<>>]
<1>6. s \in [queue : Seq(Index), order : Seq(Index)] /\ s.queue = a /\ s.order = <<>>
  BY <1>1, <1>2
<1> QED
  BY <1>3, <1>5, <1>6, Zenon DEF Kahn

LEMMA KahnSteps ==
    ASSUME NEW s \in Kahn
    PROVE  /\ KahnStep(s) \in Kahn
           /\ s.queue = <<>> => KahnStep(s) = s
           /\ s.queue # <<>> => Len(KahnStep(s).order) = Len(s.order) + 1
<1> DEFINE q == s.queue
           o == s.order
           x == Head(q)
           sorted == Append(o, x)
           before == {sorted[k] : k \in 1 .. Len(sorted)}
           freed == {d \in Index : x \in Deps(d) /\ Deps(d) \subseteq before}
           more == Ascending(freed)
           rest == Tail(q)
<1>1. /\ q \in Seq(Index) /\ o \in Seq(Index) /\ Taken(o) /\ Freed(q, o) /\ Apart(q, o)
      /\ Reached(q, o)
  BY DEF Kahn
<1>2. CASE q = <<>>
  BY <1>2 DEF KahnStep
<1>3. CASE q # <<>>
  <2>1. KahnStep(s) = [queue |-> rest \o more, order |-> sorted]
    BY <1>3 DEF KahnStep
  <2>2. x \in Index /\ rest \in Seq(Index)
    BY <1>1, <1>3, HeadTailProperties
  <2>3. /\ \A i : Has(q, i) <=> i = x \/ Has(rest, i)
        /\ Once(rest) /\ ~ Has(rest, x)
    BY <1>1, <1>3, HasTail DEF Apart
  <2>4. sorted \in Seq(Index) /\ Len(o) \in Nat /\ Len(sorted) = Len(o) + 1
        /\ sorted[Len(o) + 1] = x /\ \A k \in 1 .. Len(o) : sorted[k] = o[k]
    BY <1>1, <2>2, AppendProperties, LenProperties
  <2>5. \A i : Has(sorted, i) <=> Has(o, i) \/ i = x
    BY <1>1, <2>2, HasAppend
  <2>6. Has(q, x) /\ ~ Has(o, x)
    BY <1>1, <2>2, <2>3 DEF Apart
  <2>7. more \in Seq(Index) /\ Once(more) /\ \A i : Has(more, i) <=> i \in freed
    BY AscendingIs
  <2>8. \A i : Has(more, i) <=> /\ i \in Index /\ x \in Deps(i)
                                /\ \A d \in Deps(i) : Has(sorted, d)
    <3>1. \A d : d \in before <=> Has(sorted, d)
      BY DEF Has
    <3> QED
      BY <2>7, <3>1
  <2> HIDE DEF sorted, more, rest, q, o, x, freed
  <2>9. \A i : Has(rest \o more, i) <=> Has(rest, i) \/ Has(more, i)
    BY <2>2, <2>7, HasConcat
  <2>10. Taken(sorted)
    <3> SUFFICES ASSUME NEW k \in 1 .. Len(sorted), NEW d \in Deps(sorted[k])
                 PROVE  \E j \in 1 .. k - 1 : sorted[j] = d
      BY DEF Taken
    <3>1. CASE k \in 1 .. Len(o)
      <4>1. PICK j \in 1 .. k - 1 : o[j] = d
        BY <1>1, <2>4, <3>1 DEF Taken
      <4>2. j \in 1 .. Len(o)
        BY <2>4, <3>1
      <4> QED
        BY <2>4, <4>1, <4>2
    <3>2. CASE k = Len(o) + 1
      <4>1. Has(o, d)
        BY <1>1, <2>2, <2>4, <2>6, <3>2 DEF Freed
      <4>2. PICK j \in 1 .. Len(o) : o[j] = d
        BY <4>1 DEF Has
      <4> QED
        BY <2>4, <3>2, <4>2
    <3> QED
      BY <2>4, <3>1, <3>2
  <2>11. Freed(rest \o more, sorted)
    BY <1>1, <2>3, <2>5, <2>8, <2>9, Zenon DEF Freed
  <2>12. \A i \in Index : Has(more, i) => ~ Has(q, i) /\ ~ Has(o, i)
    <3> SUFFICES ASSUME NEW i \in Index, Has(more, i) PROVE ~ Has(q, i) /\ ~ Has(o, i)
      BY Zenon
    <3>1. x \in Deps(i)
      BY <2>8
    <3>2. ~ Has(q, i)
      BY <1>1, <2>6, <3>1 DEF Freed
    <3>3. ASSUME Has(o, i) PROVE FALSE
      <4>1. PICK k \in 1 .. Len(o) : o[k] = i
        BY <3>3 DEF Has
      <4>2. PICK j \in 1 .. k - 1 : o[j] = x
        BY <1>1, <3>1, <4>1 DEF Taken
      <4>3. j \in 1 .. Len(o)
        BY <2>4
      <4> QED
        BY <2>6, <4>2, <4>3 DEF Has
    <3> QED
      BY <3>2, <3>3
  <2>13. Apart(rest \o more, sorted)
    <3>1. \A i : ~ (Has(rest, i) /\ Has(more, i))
      BY <2>3, <2>8, <2>12, Zenon
    <3>2. Once(rest \o more)
      BY <2>2, <2>3, <2>7, <3>1, OnceConcat
    <3>3. Once(sorted)
      BY <1>1, <2>2, <2>6, OnceAppend DEF Apart, sorted
    <3>4. \A i \in Index : Has(more, i) => i # x
      BY <2>3, <2>12
    <3> QED
      BY <1>1, <2>3, <2>5, <2>9, <2>12, <3>2, <3>3, <3>4, Zenon DEF Apart
  <2>14. Reached(rest \o more, sorted)
    <3> SUFFICES ASSUME NEW i \in Index, \A d \in Deps(i) : Has(sorted, d)
                 PROVE  Has(sorted, i) \/ Has(rest \o more, i)
      BY Zenon DEF Reached
    <3>1. CASE x \in Deps(i)
      BY <2>8, <2>9, <3>1
    <3>2. CASE x \notin Deps(i)
      <4>1. \A d \in Deps(i) : Has(o, d)
        BY <2>5, <3>2
      <4> QED
        BY <1>1, <2>3, <2>5, <2>9, <4>1, Zenon DEF Reached
    <3> QED
      BY <3>1, <3>2
  <2> DEFINE next == [queue |-> rest \o more, order |-> sorted]
  <2>15. next \in [queue : Seq(Index), order : Seq(Index)]
         /\ next.queue = rest \o more /\ next.order = sorted
    BY <2>2, <2>4, <2>7, ConcatProperties
  <2>16. next \in Kahn
    BY <2>10, <2>11, <2>13, <2>14, <2>15, Zenon DEF Kahn
  <2> QED
    BY <1>3, <2>1, <2>4, <2>15, <2>16 DEF q, o
<1> QED
  BY <1>2, <1>3

(* What topo_sort_inputs has after its last step: nothing is queued.        *)
LEMMA TopoSortEnds ==
    \E s \in Kahn : TopoSortInputs = s.order /\ (Len(s.order) = NumInputs \/ s.queue = <<>>)
<1> DEFINE N == NumInputs
           G == [n \in Nat |-> [s \in Kahn |-> KahnStep(s)]]
           Step(g, n) == IF n = 0 THEN KahnStart ELSE KahnStep(g[n - 1])
           step == CHOOSE g : g = [n \in 0 .. N |-> Step(g, n)]
<1>1. N \in Nat /\ N \in 0 .. N
  BY CountsAssumption
<1>2. PICK f \in [0 .. N -> Kahn] : f[0] = KahnStart /\ \A n \in 1 .. N : f[n] = G[n][f[n - 1]]
  <2>1. G \in [Nat -> [Kahn -> Kahn]]
    BY KahnSteps, Zenon
  <2>2. Recursive(Kahn, KahnStart, G, N)
    <3> HIDE DEF N, G
    <3> QED
      BY <1>1, <2>1, KahnStarts, Recursion
  <2> QED
    BY <2>2, Zenon DEF Recursive
<1>3. \A n \in 1 .. N : f[n] = KahnStep(f[n - 1])
  <2>1. \A n \in 1 .. N : n \in Nat /\ f[n - 1] \in Kahn
    BY <1>1
  <2> QED
    BY <1>2, <2>1
<1>4. f = [n \in 0 .. N |-> Step(f, n)]
  <2>1. \A n \in 0 .. N : f[n] = Step(f, n)
    <3>1. \A n \in 0 .. N : n = 0 \/ n \in 1 .. N
      BY <1>1
    <3>2. \A n \in 1 .. N : n # 0
      BY <1>1
    <3> QED
      BY <1>2, <1>3, <3>1, <3>2, Zenon
  <2> HIDE DEF Step
  <2> QED
    BY <2>1
<1>5. step = [n \in 0 .. N |-> Step(step, n)]
  BY <1>4, Zenon
<1>6. TopoSortInputs = step[N].order
  BY DEF TopoSortInputs
<1> HIDE DEF step
<1>7. SameUpTo(f, step, N)
  <2>1. f[0] = step[0]
    BY <1>1, <1>2, <1>5
  <2>2. ASSUME NEW n \in 1 .. N, f[n - 1] = step[n - 1] PROVE f[n] = step[n]
    <3>1. n \in 0 .. N /\ n # 0
      BY <1>1
    <3>2. step[n] = Step(step, n) /\ f[n] = Step(f, n)
      BY <1>4, <1>5, <3>1
    <3> QED
      BY <2>2, <3>1, <3>2
  <2>3. \A n \in 1 .. N : f[n - 1] = step[n - 1] => f[n] = step[n]
    BY <2>2
  <2>4. N \in Nat
    BY <1>1
  <2> HIDE DEF N, G, Step
  <2> QED
    BY <2>1, <2>3, <2>4, Unique
<1>8. f[N] \in Kahn /\ step[N] = f[N]
  BY <1>1, <1>7 DEF SameUpTo
<1> DEFINE P == {n \in 0 .. N : Len(f[n].order) = n \/ f[n].queue = <<>>}
<1>9. 0 \in P
  <2>1. KahnStart.order = <<>> /\ Len(<<>>) = 0
    BY DEF KahnStart
  <2> QED
    BY <1>1, <1>2, <2>1
<1>10. ASSUME NEW n \in 1 .. N, n - 1 \in P PROVE n \in P
  <2>1. f[n - 1] \in Kahn /\ f[n] = KahnStep(f[n - 1]) /\ n \in 0 .. N
    BY <1>1, <1>3
  <2>2. CASE f[n - 1].queue = <<>>
    BY <2>1, <2>2, KahnSteps
  <2>3. CASE f[n - 1].queue # <<>>
    <3>1. Len(f[n - 1].order) = n - 1
      BY <1>10, <2>3
    <3> QED
      BY <1>1, <2>1, <2>3, <3>1, KahnSteps
  <2> QED
    BY <2>2, <2>3
<1>11. N \in P
  <2>1. \A n \in 1 .. N : n - 1 \in P => n \in P
    BY <1>10
  <2>2. N \in Nat
    BY <1>1
  <2> HIDE DEF P, N
  <2> QED
    BY <1>1, <1>9, <2>1, <2>2, UpTo
<1> QED
  BY <1>6, <1>8, <1>11

LEMMA OnceCovers ==
    ASSUME NEW o \in Seq(Index), Once(o)
    PROVE  Len(o) = NumInputs <=> \A i \in Index : Has(o, i)
<1> DEFINE D == 1 .. Len(o)
<1>1. Len(o) \in Nat /\ o \in [D -> Index]
  BY LenProperties
<1>2. o \in Injection(D, Index)
  <2>1. \A j, k \in D : o[j] = o[k] => j = k
    BY DEF Once
  <2> HIDE DEF D
  <2> QED
    BY <1>1, <2>1, Zenon DEF Injection, IsInjective
<1>3. /\ IsFiniteSet(Index) /\ Cardinality(Index) = NumInputs
      /\ IsFiniteSet(D) /\ Cardinality(D) = Len(o)
  <2>1. ASSUME NEW n \in Nat PROVE IsFiniteSet(1 .. n) /\ Cardinality(1 .. n) = n
    <3>1. 1 \in Int /\ n \in Int /\ (IF 1 > n THEN 0 ELSE n - 1 + 1) = n
      BY <2>1
    <3> QED
      BY <3>1, FS_Interval
  <2> QED
    BY <1>1, <2>1, CountsAssumption DEF Index
<1>4. o \in Surjection(D, Index) <=> \A i \in Index : Has(o, i)
  BY <1>1 DEF Surjection, Has
<1> HIDE DEF D
<1>5. Cardinality(D) = Cardinality(Index) <=> o \in Surjection(D, Index)
  BY <1>2, <1>3, FS_Injection
<1> QED
  BY <1>3, <1>4, <1>5

(* The order of topo_sort_inputs: no input twice, and each one after its    *)
(* references, whatever the graph.                                          *)
THEOREM TopoSorted ==
    TopoSortInputs \in Seq(Index) /\ Once(TopoSortInputs) /\ Taken(TopoSortInputs)
BY TopoSortEnds DEF Kahn, Apart

(* Inputs each of which refers to another one of them: among finitely many, *)
(* there is a cycle.                                                        *)
Cyclic(R) == R # {} /\ \A i \in R : \E d \in Deps(i) : d \in R

(* topo_sort_inputs refuses exactly the inputs with a reference cycle: what *)
(* it returns otherwise is every input.                                     *)
THEOREM RefusesCycles ==
    ASSUME refs \in [Index -> SUBSET Index]
    PROVE  Len(TopoSortInputs) # NumInputs <=> \E R \in SUBSET Index : Cyclic(R)
<1>1. PICK s \in Kahn :
         TopoSortInputs = s.order /\ (Len(s.order) = NumInputs \/ s.queue = <<>>)
  BY TopoSortEnds
<1> DEFINE o == s.order
           L == {i \in Index : ~ Has(o, i)}
<1>2. /\ o \in Seq(Index) /\ Once(o) /\ Taken(o) /\ Reached(s.queue, o)
      /\ Len(o) \in Nat
  BY LenProperties DEF Kahn, Apart
<1>3. Len(o) = NumInputs <=> \A i \in Index : Has(o, i)
  BY <1>2, OnceCovers
<1>4. \A i : ~ Has(<<>>, i)
  BY DEF Has
<1>5. ASSUME Len(o) # NumInputs PROVE Cyclic(L)
  <2>1. L # {}
    BY <1>3, <1>5
  <2>2. \A i \in Index : (\A d \in Deps(i) : Has(o, d)) => Has(o, i)
    BY <1>1, <1>2, <1>4, <1>5 DEF Reached
  <2>3. \A i \in Index : Deps(i) \subseteq Index
    BY DEF Deps
  <2> QED
    BY <2>1, <2>2, <2>3 DEF Cyclic
<1>6. ASSUME Len(o) = NumInputs, NEW R \in SUBSET Index, Cyclic(R) PROVE FALSE
  <2> DEFINE T == {k \in 1 .. Len(o) : o[k] \in R}
  <2>1. \A i \in Index : Has(o, i)
    BY <1>3, <1>6
  <2>2. T # {} /\ T \subseteq Nat
    BY <1>6, <2>1 DEF Cyclic, Has
  <2>3. PICK k \in T : \A j \in T : k <= j
    <3> HIDE DEF T
    <3> QED
      BY <2>2, LeastOf
  <2>4. PICK d \in Deps(o[k]) : d \in R
    BY <1>6, <2>3 DEF Cyclic
  <2>5. PICK j \in 1 .. k - 1 : o[j] = d
    BY <1>2, <2>3, <2>4 DEF Taken
  <2>6. j \in T /\ k \in Nat /\ j < k
    BY <1>2, <2>3, <2>4, <2>5
  <2> QED
    BY <2>3, <2>6
<1>7. L \in SUBSET Index
  OBVIOUS
<1> QED
  BY <1>1, <1>5, <1>6, <1>7

-----------------------------------------------------------------------------
(* The words of a reply.                                                    *)

Word == Frames \cup NarWords \cup
        {"last", "error", "message", "magic", "version", "oldVersion", "noMagic", "daemonVersion",
         "trusted", "succeeded", "unsuccessful", "none", "one", "realisation", "valid", "invalid",
         "info"}

(* A prefix, word by word.                                                  *)
LEMMA PrefixOf ==
    ASSUME NEW r \in Seq(Word), NEW n \in 0 .. Len(r)
    PROVE  /\ SubSeq(r, 1, n) \in Seq(Word) /\ Len(SubSeq(r, 1, n)) = n
           /\ \A i \in 1 .. n : SubSeq(r, 1, n)[i] = r[i]
<1>1. \A i \in 1 .. n : r[i] \in Word
  BY ElementOfSeq, LenProperties
<1>2. n \in Nat /\ n - 1 + 1 = n
  BY LenProperties
<1>3. /\ SubSeq(r, 1, n) \in Seq(Word)
      /\ Len(SubSeq(r, 1, n)) = IF 1 <= n THEN n - 1 + 1 ELSE 0
      /\ \A i \in 1 .. n - 1 + 1 : SubSeq(r, 1, n)[i] = r[1 + i - 1]
  BY <1>1, <1>2, SubSeqProperties
<1> QED
  BY <1>2, <1>3

LEMMA RestOf ==
    ASSUME NEW s \in Seq(Word), NEW i \in Nat \ {0}
    PROVE  /\ Rest(s, i) \in Seq(Word)
           /\ Len(Rest(s, i)) = IF i <= Len(s) THEN Len(s) - i + 1 ELSE 0
           /\ \A k \in 1 .. Len(s) - i + 1 : Rest(s, i)[k] = s[i + k - 1]
           /\ Len(s) < i => Rest(s, i) = <<>>
<1>1. Len(s) \in Nat /\ \A k \in i .. Len(s) : s[k] \in Word
  BY ElementOfSeq, LenProperties
<1>2. Len(s) < i => Rest(s, i) = <<>>
  BY <1>1, SubSeqEmpty DEF Rest
<1> QED
  BY <1>1, <1>2, SubSeqProperties DEF Rest

(* What is kept of a prefix is all that is kept, if nothing after it is.    *)
LEMMA KeepPrefix ==
    ASSUME NEW r \in Seq(Word), NEW e \in 0 .. Len(r), NEW T,
           \A k \in e + 1 .. Len(r) : r[k] \notin T
    PROVE  Keep(SubSeq(r, 1, e), T) = Keep(r, T)
<1> DEFINE P == {m \in Nat : e + m <= Len(r) =>
                    Keep(SubSeq(r, 1, e + m), T) = Keep(SubSeq(r, 1, e), T)}
<1>1. Len(r) \in Nat /\ e \in Nat /\ Len(r) - e \in Nat /\ e + 0 = e
  BY LenProperties
<1>2. 0 \in P
  BY <1>1
<1>3. ASSUME NEW m \in P PROVE m + 1 \in P
  <2>1. m \in Nat /\ m + 1 \in Nat
    OBVIOUS
  <2> SUFFICES ASSUME e + (m + 1) <= Len(r)
               PROVE  Keep(SubSeq(r, 1, e + (m + 1)), T) = Keep(SubSeq(r, 1, e), T)
    BY <2>1
  <2> DEFINE s == SubSeq(r, 1, e + m)
             t == SubSeq(r, 1, e + (m + 1))
             x == r[e + (m + 1)]
  <2>2. e + m \in 0 .. Len(r) /\ e + (m + 1) \in 0 .. Len(r)
        /\ e + (m + 1) \in e + 1 .. Len(r) /\ e + (m + 1) = (e + m) + 1
        /\ e + (m + 1) \in 1 .. Len(r)
    BY <1>1, <2>1
  <2>3. x \in Word /\ x \notin T
    BY <2>2, ElementOfSeq
  <2>4. s \in Seq(Word) /\ t \in Seq(Word) /\ Len(s) = e + m /\ Len(t) = (e + m) + 1
        /\ (\A i \in 1 .. e + m : s[i] = r[i]) /\ (\A i \in 1 .. (e + m) + 1 : t[i] = r[i])
    <3> HIDE DEF s, t
    <3>1. s \in Seq(Word) /\ Len(s) = e + m /\ (\A i \in 1 .. e + m : s[i] = r[i])
      BY <2>2, PrefixOf DEF s
    <3>2. t \in Seq(Word) /\ Len(t) = e + (m + 1) /\ (\A i \in 1 .. e + (m + 1) : t[i] = r[i])
      BY <2>2, PrefixOf DEF t
    <3> QED
      BY <2>2, <3>1, <3>2
  <2>5. t = Append(s, x)
    <3> HIDE DEF s, t, x
    <3>1. Append(s, x) \in Seq(Word) /\ Len(Append(s, x)) = (e + m) + 1
          /\ Append(s, x)[(e + m) + 1] = x /\ \A i \in 1 .. e + m : Append(s, x)[i] = s[i]
      BY <2>3, <2>4, AppendProperties
    <3>2. \A i \in 1 .. (e + m) + 1 : i \in 1 .. e + m \/ i = (e + m) + 1
      BY <1>1, <2>1
    <3>3. \A i \in 1 .. (e + m) + 1 : t[i] = Append(s, x)[i]
      BY <2>2, <2>4, <3>1, <3>2 DEF x
    <3> QED
      BY <2>4, <3>1, <3>3, SeqEqual
  <2>6. Keep(t, T) = Keep(s, T)
    <3> HIDE DEF s, t, x
    <3> QED
      BY <2>3, <2>4, <2>5, KeepAppend
  <2>7. Keep(s, T) = Keep(SubSeq(r, 1, e), T)
    BY <1>3, <2>2, <1>1
  <2> QED
    BY <2>6, <2>7
<1>4. P = Nat
  <2>1. P \subseteq Nat
    OBVIOUS
  <2> HIDE DEF P
  <2> QED
    BY <1>2, <1>3, <2>1, SetInduction
<1>5. Keep(SubSeq(r, 1, e + (Len(r) - e)), T) = Keep(SubSeq(r, 1, e), T)
  <2>1. Len(r) - e \in P
    BY <1>1, <1>4
  <2> QED
    BY <1>1, <2>1
<1>6. e + (Len(r) - e) = Len(r)
  BY <1>1
<1> QED
  BY <1>5, <1>6, SubSeqFull

LEMMA Answers ==
    /\ \A answer, rest : /\ Got(answer, rest).ok /\ Got(answer, rest).answer = answer
                         /\ Got(answer, rest).rest = rest
    /\ \A how, rest : ~ Failed(how, rest).ok
BY DEF Got, Failed

(* The drain ends at the first word that is no frame.                       *)
LEMMA DrainLast ==
    ASSUME NEW s \in Seq(Word), NEW e \in 1 .. Len(s), s[e] = "last",
           \A j \in 1 .. e - 1 : s[j] \in Frames
    PROVE  DrainStderr(s) = Got(LogOf(SubSeq(s, 1, e)), Rest(s, e + 1))
<1> DEFINE ends == {i \in 1 .. Len(s) : s[i] \notin Frames}
           end == CHOOSE i \in ends : \A j \in ends : i <= j
<1>1. Len(s) \in Nat /\ e \in Nat
  BY LenProperties
<1>2. e \in ends /\ \A j \in ends : e <= j
  <2>1. "last" \notin Frames
    BY DEF Frames, LogFrames
  <2>2. \A j \in 1 .. Len(s) : ~ (e <= j) => j \in 1 .. e - 1
    BY <1>1
  <2> QED
    BY <2>1, <2>2
<1>3. end \in ends /\ \A j \in ends : end <= j
  <2> HIDE DEF ends
  <2> QED
    BY <1>2, Zenon
<1>4. end = e
  <2> HIDE DEF end
  <2>1. end \in Nat /\ end <= e /\ e <= end
    BY <1>1, <1>2, <1>3
  <2> QED
    BY <1>1, <2>1
<1> DEFINE d == CASE ends = {} -> Failed("io", <<>>)
                  [] ends # {} /\ s[end] = "last" ->
                       Got(LogOf(SubSeq(s, 1, end)), Rest(s, end + 1))
                  [] ends # {} /\ s[end] = "error" -> ReadRemoteError(s, end + 1)
                  [] OTHER -> Failed("unknownTag", Rest(s, end + 1))
<1>5. DrainStderr(s) = d
  BY DEF DrainStderr
<1>6. ends # {} /\ s[end] = "last" /\ s[end] # "error"
  <2> HIDE DEF end, ends
  <2> QED
    BY <1>2, <1>4
<1>7. d = Got(LogOf(SubSeq(s, 1, end)), Rest(s, end + 1))
  <2> HIDE DEF end, ends
  <2> QED
    BY <1>6
<1> HIDE DEF end, ends, d
<1> QED
  BY <1>4, <1>5, <1>7

(* Without the last word of the frames there is no answer.                  *)
LEMMA DrainFails ==
    ASSUME NEW s \in Seq(Word),
           \A i \in 1 .. Len(s) : s[i] = "last" => \E j \in 1 .. i - 1 : s[j] \notin Frames
    PROVE  ~ DrainStderr(s).ok
<1> DEFINE ends == {i \in 1 .. Len(s) : s[i] \notin Frames}
           end == CHOOSE i \in ends : \A j \in ends : i <= j
           d == CASE ends = {} -> Failed("io", <<>>)
                  [] ends # {} /\ s[end] = "last" ->
                       Got(LogOf(SubSeq(s, 1, end)), Rest(s, end + 1))
                  [] ends # {} /\ s[end] = "error" -> ReadRemoteError(s, end + 1)
                  [] OTHER -> Failed("unknownTag", Rest(s, end + 1))
<1>1. DrainStderr(s) = d
  BY DEF DrainStderr
<1>2. \A how, rest : ~ Failed(how, rest).ok
  BY DEF Failed
<1>3. CASE ends = {}
  <2>1. d = Failed("io", <<>>)
    <3> HIDE DEF ends, end
    <3> QED
      BY <1>3
  <2> HIDE DEF d
  <2> QED
    BY <1>1, <1>2, <2>1
<1>4. CASE ends # {}
  <2>1. Len(s) \in Nat /\ ends \subseteq Nat
    BY LenProperties
  <2>2. end \in ends /\ \A j \in ends : end <= j
    <3>1. \E i \in ends : \A j \in ends : i <= j
      <4> HIDE DEF ends
      <4> QED
        BY <1>4, <2>1, LeastOf
    <3> HIDE DEF ends
    <3> QED
      BY <3>1, Zenon
  <2>3. s[end] # "last"
    <3> SUFFICES ASSUME s[end] = "last" PROVE FALSE
      OBVIOUS
    <3> HIDE DEF end
    <3>1. PICK j \in 1 .. end - 1 : s[j] \notin Frames
      BY <2>2
    <3>2. j \in ends /\ ~ (end <= j)
      BY <2>1, <2>2, <3>1
    <3> QED
      BY <2>2, <3>2
  <2>4. ~ ReadRemoteError(s, end + 1).ok
    BY <1>2 DEF ReadRemoteError
  <2>5. d = ReadRemoteError(s, end + 1) \/ d = Failed("unknownTag", Rest(s, end + 1))
    <3> HIDE DEF ends, end
    <3> QED
      BY <1>4, <2>3
  <2> HIDE DEF d, end, ends
  <2> QED
    BY <1>1, <1>2, <2>4, <2>5
<1> QED
  BY <1>3, <1>4

(* A reply r that ends its frames at e, read from its first n words.        *)
Ends(r, e) ==
    /\ r \in Seq(Word) /\ e \in 1 .. Len(r) /\ r[e] = "last"
    /\ \A j \in 1 .. e - 1 : r[j] \in Frames

LEMMA DrainReply ==
    ASSUME NEW r, NEW e, Ends(r, e), NEW n \in 0 .. Len(r)
    PROVE  LET d == DrainStderr(SubSeq(r, 1, n)) IN
             /\ d.ok => e <= n
             /\ d.ok => /\ d.answer = LogOf(SubSeq(r, 1, e)) /\ d.rest \in Seq(Word)
                        /\ Len(d.rest) = n - e /\ \A i \in 1 .. n - e : d.rest[i] = r[e + i]
             /\ n = e => d.ok
<1> DEFINE s == SubSeq(r, 1, n)
<1>1. r \in Seq(Word) /\ Len(r) \in Nat /\ e \in Nat /\ e >= 1 /\ e <= Len(r) /\ n \in Nat
  BY LenProperties DEF Ends
<1>2. s \in Seq(Word) /\ Len(s) = n /\ \A i \in 1 .. n : s[i] = r[i]
  BY <1>1, PrefixOf
<1>3. CASE n < e
  <2>1. \A i \in 1 .. n : s[i] # "last"
    <3>1. \A i \in 1 .. n : i \in 1 .. e - 1
      BY <1>1, <1>3
    <3> QED
      BY <1>2, <3>1 DEF Ends, Frames, LogFrames
  <2>2. ~ DrainStderr(s).ok
    <3> HIDE DEF s
    <3> QED
      BY <1>2, <2>1, DrainFails
  <2> QED
    BY <1>1, <1>3, <2>2
<1>4. CASE e <= n
  <2>1. e \in 1 .. n /\ s[e] = "last" /\ \A j \in 1 .. e - 1 : s[j] \in Frames
    <3>1. \A j \in 1 .. e - 1 : j \in 1 .. n
      BY <1>1, <1>4
    <3>2. e \in 1 .. n
      BY <1>1, <1>4
    <3> QED
      BY <1>2, <3>1, <3>2 DEF Ends
  <2>2. DrainStderr(s) = Got(LogOf(SubSeq(s, 1, e)), Rest(s, e + 1))
    <3> HIDE DEF s
    <3> QED
      BY <1>2, <2>1, DrainLast
  <2>3. SubSeq(s, 1, e) = SubSeq(r, 1, e)
    <3>1. e \in 0 .. Len(r) /\ e \in 0 .. Len(s)
      BY <1>1, <1>2, <1>4
    <3>2. SubSeq(r, 1, e) \in Seq(Word) /\ Len(SubSeq(r, 1, e)) = e
          /\ \A i \in 1 .. e : SubSeq(r, 1, e)[i] = r[i]
      BY <1>1, <3>1, PrefixOf
    <3> HIDE DEF s
    <3>3. SubSeq(s, 1, e) \in Seq(Word) /\ Len(SubSeq(s, 1, e)) = e
          /\ \A i \in 1 .. e : SubSeq(s, 1, e)[i] = s[i]
      BY <1>2, <3>1, PrefixOf
    <3>4. \A i \in 1 .. e : s[i] = r[i]
      BY <1>1, <1>2, <1>4
    <3> QED
      BY <3>2, <3>3, <3>4, SeqEqual
  <2>4. Rest(s, e + 1) \in Seq(Word) /\ Len(Rest(s, e + 1)) = n - e
        /\ \A k \in 1 .. n - e : Rest(s, e + 1)[k] = r[e + k]
    <3> HIDE DEF s
    <3>1. e + 1 \in Nat \ {0}
      BY <1>1
    <3>2. /\ Rest(s, e + 1) \in Seq(Word)
          /\ Len(Rest(s, e + 1)) = IF e + 1 <= n THEN n - (e + 1) + 1 ELSE 0
          /\ \A k \in 1 .. n - (e + 1) + 1 : Rest(s, e + 1)[k] = s[e + 1 + k - 1]
      BY <1>2, <3>1, RestOf
    <3>3. n - (e + 1) + 1 = n - e /\ (~ (e + 1 <= n) => n - e = 0)
          /\ \A k \in 1 .. n - e : e + 1 + k - 1 = e + k /\ e + k \in 1 .. n
      BY <1>1, <1>4
    <3> QED
      BY <1>2, <3>2, <3>3
  <2> HIDE DEF s
  <2>5. DrainStderr(s).ok /\ DrainStderr(s).answer = LogOf(SubSeq(r, 1, e))
        /\ DrainStderr(s).rest = Rest(s, e + 1)
    <3> DEFINE a == LogOf(SubSeq(r, 1, e))
               x == Rest(s, e + 1)
    <3>1. DrainStderr(s) = Got(a, x)
      BY <2>2, <2>3
    <3> HIDE DEF a, x
    <3>2. DrainStderr(s).ok /\ DrainStderr(s).answer = a /\ DrainStderr(s).rest = x
      BY <3>1, Answers
    <3> QED
      BY <3>2 DEF a, x
  <2> QED
    BY <1>4, <2>4, <2>5 DEF s
<1> QED
  BY <1>1, <1>3, <1>4

(* A reply without the last word of its frames, an error, has no answer.    *)
LEMMA ErrorReply ==
    ASSUME NEW r \in Seq(Word), \A i \in 1 .. Len(r) : r[i] # "last", NEW n \in 0 .. Len(r)
    PROVE  ~ DrainStderr(SubSeq(r, 1, n)).ok
<1> DEFINE s == SubSeq(r, 1, n)
<1>1. s \in Seq(Word) /\ Len(s) = n /\ \A i \in 1 .. n : s[i] = r[i]
  BY PrefixOf
<1>2. \A i \in 1 .. n : s[i] # "last"
  BY <1>1, LenProperties
<1> HIDE DEF s
<1>3. ~ DrainStderr(s).ok
  BY <1>1, <1>2, DrainFails
<1> QED
  BY <1>3 DEF s

(* The readers of the operations take exactly a whole reply.                *)
LEMMA PlainReply ==
    ASSUME NEW r, Ends(r, Len(r)), NEW n \in 0 .. Len(r)
    PROVE  LET d == DrainStderr(SubSeq(r, 1, n)) IN d.ok => n = Len(r) /\ d.rest = <<>>
<1> DEFINE d == DrainStderr(SubSeq(r, 1, n))
<1>1. Len(r) \in Nat /\ n \in Nat
  BY LenProperties DEF Ends
<1>2. d.ok => Len(r) <= n /\ d.rest \in Seq(Word) /\ Len(d.rest) = n - Len(r)
  BY DrainReply
<1> HIDE DEF d
<1>3. d.ok => n = Len(r) /\ Len(d.rest) = 0 /\ d.rest \in Seq(Word)
  BY <1>1, <1>2
<1>4. d.ok => n = Len(r) /\ d.rest = <<>>
  BY <1>3, EmptySeq
<1> QED
  BY <1>4 DEF d

LEMMA QueryReply ==
    ASSUME NEW r, NEW e, Ends(r, e), NEW n \in 0 .. Len(r),
           \/ Len(r) = e + 1 /\ r[e + 1] = "invalid"
           \/ Len(r) = e + 2 /\ r[e + 1] = "valid" /\ r[e + 2] = "info"
    PROVE  LET q == QueryPathInfo(SubSeq(r, 1, n)) IN
             q.ok => /\ n = Len(r) /\ q.rest = <<>>
                     /\ q.answer = "valid" => r[e + 1] = "valid"
<1> DEFINE s == SubSeq(r, 1, n)
           d == DrainStderr(s)
           q == QueryPathInfo(s)
<1>1. Len(r) \in Nat /\ n \in Nat /\ n <= Len(r) /\ e \in Nat
  BY LenProperties DEF Ends
<1>2. d.ok => /\ e <= n /\ d.rest \in Seq(Word) /\ Len(d.rest) = n - e
              /\ \A i \in 1 .. n - e : d.rest[i] = r[e + i]
  BY DrainReply
<1> DEFINE q0 == CASE WordAt(d.rest, 1) = "invalid" -> Got("invalid", Rest(d.rest, 2))
                   [] WordAt(d.rest, 1) = "valid" /\ WordAt(d.rest, 2) = "info" ->
                        Got("valid", Rest(d.rest, 3))
                   [] OTHER -> Failed("io", <<>>)
<1>3. q = IF ~ d.ok THEN d ELSE q0
  BY DEF QueryPathInfo
<1> SUFFICES ASSUME q.ok
             PROVE  n = Len(r) /\ q.rest = <<>> /\ (q.answer = "valid" => r[e + 1] = "valid")
  BY Zenon
<1> HIDE DEF d, q, q0, s
<1>4. d.ok /\ q = q0
  BY <1>3
<1> DEFINE rest == d.rest
<1>5. rest \in Seq(Word) /\ Len(rest) = n - e /\ n - e \in Nat
      /\ \A i \in 1 .. n - e : rest[i] = r[e + i]
  BY <1>1, <1>2, <1>4
<1> HIDE DEF rest
<1>6. WordAt(rest, 1) = (IF 1 <= n - e THEN r[e + 1] ELSE "eof")
      /\ WordAt(rest, 2) = (IF 2 <= n - e THEN r[e + 2] ELSE "eof")
  BY <1>1, <1>5 DEF WordAt
<1>7. n - e >= 1 /\ (r[e + 1] = "invalid" \/ (r[e + 1] = "valid" /\ n - e >= 2))
  <2> SUFFICES ASSUME ~ (n - e >= 1 /\ (r[e + 1] = "invalid" \/ (r[e + 1] = "valid" /\ n - e >= 2)))
               PROVE  FALSE
    OBVIOUS
  <2>1. WordAt(rest, 1) # "invalid" /\ ~ (WordAt(rest, 1) = "valid" /\ WordAt(rest, 2) = "info")
    BY <1>1, <1>5, <1>6
  <2>2. q0 = Failed("io", <<>>)
    BY <2>1 DEF q0, rest
  <2> QED
    BY <1>4, <2>2, Answers
<1>8. n = Len(r)
  BY <1>1, <1>7
<1>9. CASE Len(r) = e + 1 /\ r[e + 1] = "invalid"
  <2>1. q0 = Got("invalid", Rest(rest, 2))
    BY <1>1, <1>6, <1>8, <1>9 DEF q0, rest
  <2>2. Rest(rest, 2) = <<>>
    <3>1. 2 \in Nat \ {0} /\ Len(rest) < 2
      BY <1>1, <1>5, <1>8, <1>9
    <3> QED
      BY <1>5, <3>1, RestOf
  <2> QED
    BY <1>4, <1>8, <2>1, <2>2, Answers
<1>10. CASE Len(r) = e + 2 /\ r[e + 1] = "valid" /\ r[e + 2] = "info"
  <2>1. q0 = Got("valid", Rest(rest, 3))
    BY <1>1, <1>6, <1>8, <1>10 DEF q0, rest
  <2>2. Rest(rest, 3) = <<>>
    <3>1. 3 \in Nat \ {0} /\ Len(rest) < 3
      BY <1>1, <1>5, <1>8, <1>10
    <3> QED
      BY <1>5, <3>1, RestOf
  <2> QED
    BY <1>4, <1>8, <1>10, <2>1, <2>2, Answers
<1> QED
  BY <1>9, <1>10

LEMMA BuildReply ==
    ASSUME NEW r, NEW e, Ends(r, e), NEW n \in 0 .. Len(r),
           r[e + 1] \in {"succeeded", "unsuccessful"},
           \/ Len(r) = e + 2 /\ r[e + 2] = "none"
           \/ Len(r) = e + 3 /\ r[e + 2] = "one" /\ r[e + 3] = "realisation"
    PROVE  LET b == BuildDerivation(SubSeq(r, 1, n)) IN
             b.ok => /\ n = Len(r) /\ b.rest = <<>>
                     /\ b.answer = [status |-> r[e + 1], log |-> LogOf(SubSeq(r, 1, e))]
<1> DEFINE s == SubSeq(r, 1, n)
           d == DrainStderr(s)
           b == BuildDerivation(s)
           log_ == LogOf(SubSeq(r, 1, e))
<1>1. Len(r) \in Nat /\ n \in Nat /\ n <= Len(r) /\ e \in Nat
  BY LenProperties DEF Ends
<1>2. d.ok => /\ e <= n /\ d.rest \in Seq(Word) /\ Len(d.rest) = n - e /\ d.answer = log_
              /\ \A i \in 1 .. n - e : d.rest[i] = r[e + i]
  BY DrainReply
<1> DEFINE first == WordAt(d.rest, 1)
           second == WordAt(d.rest, 2)
           b0 == CASE first \in {"succeeded", "unsuccessful"} /\ second = "none" ->
                        Got([status |-> first, log |-> d.answer], Rest(d.rest, 3))
                   [] first \in {"succeeded", "unsuccessful"} /\ second = "one"
                          /\ WordAt(d.rest, 3) = "realisation" ->
                        Got([status |-> first, log |-> d.answer], Rest(d.rest, 4))
                   [] OTHER -> Failed("io", <<>>)
<1>3. b = IF ~ d.ok THEN d ELSE b0
  BY DEF BuildDerivation
<1> SUFFICES ASSUME b.ok
             PROVE  n = Len(r) /\ b.rest = <<>> /\ b.answer = [status |-> r[e + 1], log |-> log_]
  BY Zenon
<1> HIDE DEF d, b, b0, s, log_
<1>4. d.ok /\ b = b0
  BY <1>3
<1> DEFINE rest == d.rest
<1>5. rest \in Seq(Word) /\ Len(rest) = n - e /\ n - e \in Nat /\ d.answer = log_
      /\ \A i \in 1 .. n - e : rest[i] = r[e + i]
  BY <1>1, <1>2, <1>4
<1> HIDE DEF rest
<1>6. first = (IF 1 <= n - e THEN r[e + 1] ELSE "eof")
      /\ second = (IF 2 <= n - e THEN r[e + 2] ELSE "eof")
      /\ WordAt(d.rest, 3) = (IF 3 <= n - e THEN r[e + 3] ELSE "eof")
  BY <1>1, <1>5 DEF WordAt, rest
<1> HIDE DEF first, second
<1>7. n = Len(r)
  <2> SUFFICES ASSUME n < Len(r) PROVE FALSE
    BY <1>1
  <2>1. ~ (first \in {"succeeded", "unsuccessful"} /\ second = "none")
        /\ ~ (first \in {"succeeded", "unsuccessful"} /\ second = "one"
               /\ WordAt(d.rest, 3) = "realisation")
    BY <1>1, <1>6
  <2>2. b0 = Failed("io", <<>>)
    BY <2>1 DEF b0
  <2> QED
    BY <1>4, <2>2, Answers
<1>8. CASE Len(r) = e + 2 /\ r[e + 2] = "none"
  <2>1. first = r[e + 1] /\ second = "none"
    BY <1>1, <1>6, <1>7, <1>8
  <2>2. b0 = Got([status |-> r[e + 1], log |-> log_], Rest(rest, 3))
    BY <1>5, <2>1 DEF b0, rest
  <2>3. Rest(rest, 3) = <<>>
    <3>1. 3 \in Nat \ {0} /\ Len(rest) < 3
      BY <1>1, <1>5, <1>7, <1>8
    <3> QED
      BY <1>5, <3>1, RestOf
  <2> QED
    BY <1>4, <1>7, <2>2, <2>3, Answers
<1>9. CASE Len(r) = e + 3 /\ r[e + 2] = "one" /\ r[e + 3] = "realisation"
  <2>1. first = r[e + 1] /\ second = "one" /\ WordAt(d.rest, 3) = "realisation"
    BY <1>1, <1>6, <1>7, <1>9
  <2>2. b0 = Got([status |-> r[e + 1], log |-> log_], Rest(rest, 4))
    BY <1>5, <2>1 DEF b0, rest
  <2>3. Rest(rest, 4) = <<>>
    <3>1. 4 \in Nat \ {0} /\ Len(rest) < 4
      BY <1>1, <1>5, <1>7, <1>9
    <3> QED
      BY <1>5, <3>1, RestOf
  <2> QED
    BY <1>4, <1>7, <2>2, <2>3, Answers
<1> QED
  BY <1>8, <1>9

(* A NAR after the frames is passed on whole.                               *)
LEMMA NarReply ==
    ASSUME NEW nar \in Nars, NEW n \in 0 .. Len(<<"last">> \o nar)
    PROVE  LET c == NarFromPath(SubSeq(<<"last">> \o nar, 1, n)) IN
             c.ok => n = Len(<<"last">> \o nar) /\ c.rest = <<>> /\ c.answer = nar
<1> DEFINE r == <<"last">> \o nar
           s == SubSeq(r, 1, n)
           d == DrainStderr(s)
           c == NarFromPath(s)
<1>1. nar \in Seq(Word) /\ Len(nar) \in Nat
  <2>1. PICK t \in Trees : nar = <<"nix-archive-1">> \o t
    BY DEF Nars, NarOf
  <2>2. t \in Seq(Word) /\ <<"nix-archive-1">> \in Seq(Word)
    <3>1. "nix-archive-1" \in Word /\ NarWords \subseteq Word
      BY DEF Word, NarWords
    <3>2. t \in Seq(NarWords)
      BY TreesAssumption
    <3>3. t \in Seq(Word)
      BY <3>1, <3>2, SeqMonotonic
    <3> QED
      BY <3>1, <3>3
  <2> QED
    BY <2>1, <2>2, ConcatProperties, LenProperties
<1>2. r \in Seq(Word) /\ Len(r) = 1 + Len(nar) /\ r[1] = "last"
      /\ \A i \in 1 .. Len(nar) : r[1 + i] = nar[i]
  <2>1. <<"last">> \in Seq(Word) /\ Len(<<"last">>) = 1 /\ <<"last">>[1] = "last"
    <3>1. "last" \in Word
      BY DEF Word
    <3> QED
      BY <3>1
  <2>2. /\ r \in Seq(Word) /\ Len(r) = 1 + Len(nar)
        /\ \A i \in 1 .. 1 + Len(nar) :
              r[i] = IF i <= 1 THEN <<"last">>[i] ELSE nar[i - 1]
    BY <1>1, <2>1, ConcatProperties
  <2> HIDE DEF r
  <2>3. \A i \in 1 .. Len(nar) : 1 + i \in 1 .. 1 + Len(nar) /\ ~ (1 + i <= 1) /\ (1 + i) - 1 = i
    BY <1>1
  <2> QED
    BY <1>1, <2>1, <2>2, <2>3
<1> HIDE DEF r
<1>3. Ends(r, 1) /\ n \in 0 .. Len(r) /\ n \in Nat
  BY <1>1, <1>2 DEF Ends, r
<1>4. d.ok => /\ 1 <= n /\ d.rest \in Seq(Word) /\ Len(d.rest) = n - 1
              /\ \A i \in 1 .. n - 1 : d.rest[i] = r[1 + i]
  BY <1>3, DrainReply, ZenonT(40)
<1>5. c = IF d.ok THEN CopyNar(d.rest) ELSE d
  BY DEF NarFromPath
<1> SUFFICES ASSUME c.ok PROVE n = Len(r) /\ c.rest = <<>> /\ c.answer = nar
  BY Zenon DEF r
<1> HIDE DEF d, c, s
<1>6. d.ok /\ c = CopyNar(d.rest)
  BY <1>5
<1>7. d.rest = SubSeq(nar, 1, n - 1)
  <2>1. n - 1 \in 0 .. Len(nar)
    BY <1>1, <1>2, <1>3, <1>4, <1>6
  <2>2. SubSeq(nar, 1, n - 1) \in Seq(Word) /\ Len(SubSeq(nar, 1, n - 1)) = n - 1
        /\ \A i \in 1 .. n - 1 : SubSeq(nar, 1, n - 1)[i] = nar[i]
    BY <1>1, <2>1, PrefixOf
  <2>3. \A i \in 1 .. n - 1 : i \in 1 .. Len(nar)
    BY <1>1, <2>1
  <2>4. \A i \in 1 .. n - 1 : d.rest[i] = nar[i]
    BY <1>2, <1>4, <1>6, <2>3
  <2> QED
    BY <1>4, <1>6, <2>2, <2>4, SeqEqual
<1>8. n - 1 = Len(nar)
  <2> SUFFICES ASSUME n - 1 # Len(nar) PROVE FALSE
    OBVIOUS
  <2>1. n - 1 \in 0 .. Len(nar) - 1
    BY <1>1, <1>2, <1>3, <1>4, <1>6
  <2> QED
    BY <1>6, <1>7, <2>1, TreesAssumption
<1>9. c = Got(nar, <<>>)
  BY <1>1, <1>6, <1>7, <1>8, SubSeqFull, TreesAssumption
<1> QED
  BY <1>1, <1>2, <1>3, <1>8, <1>9, Answers

(* The handshake.                                                           *)
LEMMA OpenReply ==
    ASSUME NEW r \in OpenReplies, NEW n \in 0 .. Len(r)
    PROVE  LET o == Open(SubSeq(r, 1, n)) IN o.ok => n = Len(r) /\ o.rest = <<>>
<1> DEFINE s == SubSeq(r, 1, n)
           o == Open(s)
<1>1. r \in Seq(Word)
  <2>1. {"magic", "version", "oldVersion", "noMagic", "daemonVersion", "trusted", "last"}
          \subseteq Word
    BY DEF Word
  <2>2. /\ <<"magic", "version", "daemonVersion", "trusted", "last">> \in Seq(Word)
        /\ <<"magic", "oldVersion">> \in Seq(Word) /\ <<"noMagic">> \in Seq(Word)
    BY <2>1
  <2> QED
    BY <2>2, Zenon DEF OpenReplies
<1>2. s \in Seq(Word) /\ Len(s) = n /\ \A i \in 1 .. n : s[i] = r[i]
  BY <1>1, PrefixOf
<1>3. n \in Nat /\ n <= Len(r)
  BY <1>1, LenProperties
<1> SUFFICES ASSUME o.ok PROVE n = Len(r) /\ o.rest = <<>>
  OBVIOUS
<1> DEFINE d == DrainStderr(Rest(s, 5))
<1>4. o = CASE WordAt(s, 1) # "magic" -> Failed("badMagic", Rest(s, 2))
            [] WordAt(s, 1) = "magic" /\ WordAt(s, 2) # "version" ->
                 Failed("unsupportedVersion", Rest(s, 3))
            [] OTHER -> IF WordAt(s, 3) = "daemonVersion" /\ WordAt(s, 4) = "trusted"
                        THEN d ELSE Failed("io", <<>>)
  BY DEF Open
<1> HIDE DEF s, o, d
<1>5. WordAt(s, 1) = "magic" /\ WordAt(s, 2) = "version" /\ o = d
  BY <1>4, Answers
<1>6. r = <<"magic", "version", "daemonVersion", "trusted", "last">>
  <2>1. r \in {<<"magic", "oldVersion">>, <<"noMagic">>} => FALSE
    BY <1>2, <1>3, <1>5 DEF WordAt
  <2> QED
    BY <2>1 DEF OpenReplies
<1>7. Len(r) = 5 /\ r[5] = "last"
  BY <1>6
<1>8. CASE n < 5
  <2>1. Rest(s, 5) = <<>>
    <3>1. 5 \in Nat \ {0} /\ Len(s) < 5
      BY <1>2, <1>8
    <3> QED
      BY <1>2, <3>1, RestOf
  <2>2. <<>> \in Seq(Word) /\ Len(<<>>) = 0
    BY EmptySeq
  <2>3. ~ DrainStderr(<<>>).ok
    <3> DEFINE none == <<>>
    <3>1. none \in Seq(Word) /\ Len(none) = 0
      BY <2>2
    <3> HIDE DEF none
    <3>2. \A i \in 1 .. Len(none) :
             none[i] = "last" => \E j \in 1 .. i - 1 : none[j] \notin Frames
      BY <3>1
    <3>3. ~ DrainStderr(none).ok
      BY <3>1, <3>2, DrainFails
    <3> QED
      BY <3>3 DEF none
  <2> QED
    BY <1>5, <2>1, <2>3 DEF d
<1>9. CASE n = 5
  <2> DEFINE t == Rest(s, 5)
  <2>1. t \in Seq(Word) /\ Len(t) = 1 /\ t[1] = "last"
    <3>1. 5 \in Nat \ {0} /\ 5 <= Len(s) /\ Len(s) - 5 + 1 = 1 /\ 1 \in 1 .. 1 /\ 5 + 1 - 1 = 5
          /\ s[5] = "last"
      BY <1>2, <1>7, <1>9
    <3>2. /\ Rest(s, 5) \in Seq(Word)
          /\ Len(Rest(s, 5)) = IF 5 <= Len(s) THEN Len(s) - 5 + 1 ELSE 0
          /\ \A k \in 1 .. Len(s) - 5 + 1 : Rest(s, 5)[k] = s[5 + k - 1]
      BY <1>2, <3>1, RestOf
    <3> QED
      BY <3>1, <3>2, ZenonT(40)
  <2> HIDE DEF t
  <2>2. Ends(t, Len(t)) /\ 1 \in 0 .. Len(t) /\ SubSeq(t, 1, 1) = t
    BY <2>1, SubSeqFull DEF Ends
  <2>3. DrainStderr(t).ok => DrainStderr(t).rest = <<>>
    BY <2>2, PlainReply
  <2> QED
    BY <1>5, <1>7, <1>9, <2>3 DEF d, t
<1> QED
  BY <1>3, <1>7, <1>8, <1>9

(* A reply is its frames and what follows.                                  *)
LEMMA Framed ==
    ASSUME NEW f \in Seq(Frames), NEW t \in Seq(Word)
    PROVE  /\ f \o t \in Seq(Word) /\ Len(f) \in Nat /\ Len(t) \in Nat
           /\ Len(f \o t) = Len(f) + Len(t)
           /\ \A i \in 1 .. Len(f) : (f \o t)[i] \in Frames
           /\ \A i \in 1 .. Len(t) : (f \o t)[Len(f) + i] = t[i]
           /\ Len(t) >= 1 /\ t[1] = "last" => Ends(f \o t, Len(f) + 1)
<1>1. f \in Seq(Word) /\ Len(f) \in Nat /\ Len(t) \in Nat
  <2>1. Frames \subseteq Word
    BY DEF Word
  <2> QED
    BY <2>1, SeqMonotonic, LenProperties
<1>2. /\ f \o t \in Seq(Word) /\ Len(f \o t) = Len(f) + Len(t)
      /\ \A i \in 1 .. Len(f) + Len(t) : (f \o t)[i] = IF i <= Len(f) THEN f[i] ELSE t[i - Len(f)]
  BY <1>1, ConcatProperties
<1>3. \A i \in 1 .. Len(f) : f[i] \in Frames
  BY ElementOfSeq
<1> DEFINE r == f \o t
<1> HIDE DEF r
<1>4. \A i \in 1 .. Len(f) : r[i] \in Frames
  BY <1>1, <1>2, <1>3 DEF r
<1>5. \A i \in 1 .. Len(t) : r[Len(f) + i] = t[i]
  <2>1. \A i \in 1 .. Len(t) : Len(f) + i \in 1 .. Len(f) + Len(t) /\ ~ (Len(f) + i <= Len(f))
                               /\ (Len(f) + i) - Len(f) = i
    BY <1>1
  <2> QED
    BY <1>2, <2>1 DEF r
<1>6. Len(t) >= 1 /\ t[1] = "last" => Ends(r, Len(f) + 1)
  <2>1. Len(t) >= 1 => 1 \in 1 .. Len(t) /\ Len(f) + 1 \in 1 .. Len(r)
    BY <1>1, <1>2 DEF r
  <2>2. (Len(f) + 1) - 1 = Len(f)
    BY <1>1
  <2> QED
    BY <1>2, <1>4, <1>5, <2>1, <2>2 DEF Ends, r
<1> QED
  BY <1>1, <1>2, <1>4, <1>5, <1>6 DEF r

LEMMA FramedError ==
    ASSUME NEW f \in Seq(Frames), NEW n \in 0 .. Len(f \o Remote)
    PROVE  ~ DrainStderr(SubSeq(f \o Remote, 1, n)).ok
<1>1. Remote \in Seq(Word) /\ Len(Remote) = 2 /\ Remote[1] = "error" /\ Remote[2] = "message"
  <2>1. "error" \in Word /\ "message" \in Word
    BY DEF Word
  <2> QED
    BY <2>1 DEF Remote
<1> DEFINE r == f \o Remote
<1>2. /\ r \in Seq(Word) /\ Len(f) \in Nat /\ Len(r) = Len(f) + 2
      /\ \A i \in 1 .. Len(f) : r[i] \in Frames
      /\ \A i \in 1 .. 2 : r[Len(f) + i] = Remote[i]
  BY <1>1, Framed
<1> HIDE DEF r
<1>3. ASSUME NEW i \in 1 .. Len(r) PROVE r[i] # "last"
  <2>1. CASE i \in 1 .. Len(f)
    BY <1>2, <2>1 DEF Frames, LogFrames
  <2>2. CASE i = Len(f) + 1 \/ i = Len(f) + 2
    BY <1>1, <1>2, <2>2
  <2> QED
    BY <1>2, <2>1, <2>2
<1>4. n \in 0 .. Len(r)
  BY DEF r
<1>5. ~ DrainStderr(SubSeq(r, 1, n)).ok
  BY <1>2, <1>3, <1>4, ErrorReply
<1> QED
  BY <1>5 DEF r

LEMMA FrameSeqs ==
    /\ <<>> \in Seq(Frames) /\ Chatter \subseteq Seq(Frames) /\ BuildLogs \subseteq Seq(Frames)
<1>1. {"start", "progress", "next", "stop", "logLine"} \subseteq Frames
  BY DEF Frames, LogFrames
<1>2. /\ <<>> \in Seq(Frames) /\ <<"start", "progress", "next", "stop">> \in Seq(Frames)
      /\ <<"start", "logLine", "next", "logLine", "stop">> \in Seq(Frames)
  BY <1>1
<1> QED
  BY <1>2, Zenon DEF Chatter, BuildLogs

(* A whole reply, and only a whole one, is an answer, and it is read to its *)
(* end.                                                                     *)
Whole(op, r, n) ==
    LET q == Read(op, SubSeq(r, 1, n)) IN q.ok => n = Len(r) /\ q.rest = <<>>

LEMMA ReadIs ==
    /\ \A s : Read("open", s) = Open(s) /\ Read("setOptions", s) = DrainStderr(s)
    /\ \A s : Read("query", s) = QueryPathInfo(s) /\ Read("add", s) = DrainStderr(s)
    /\ \A s : Read("build", s) = BuildDerivation(s) /\ Read("nar", s) = NarFromPath(s)
BY DEF Read, SetOptions, AddToStoreNar

LEMMA OpenWhole ==
    ASSUME NEW r \in OpenReplies, NEW n \in 0 .. Len(r)
    PROVE  Whole("open", r, n)
BY OpenReply, ReadIs DEF Whole

LEMMA LastWhole ==
    ASSUME NEW n \in 0 .. Len(<<"last">>), NEW op \in {"setOptions", "add"}
    PROVE  Whole(op, <<"last">>, n)
<1> DEFINE r == <<"last">>
<1>1. "last" \in Word
  BY DEF Word
<1>2. r \in Seq(Word) /\ Len(r) = 1 /\ r[1] = "last"
  BY <1>1
<1>3. n \in 0 .. Len(r)
  OBVIOUS
<1> HIDE DEF r
<1>4. Ends(r, Len(r))
  BY <1>2 DEF Ends
<1>5. LET d == DrainStderr(SubSeq(r, 1, n)) IN d.ok => n = Len(r) /\ d.rest = <<>>
  BY <1>3, <1>4, PlainReply
<1>6. Read(op, SubSeq(r, 1, n)) = DrainStderr(SubSeq(r, 1, n))
  BY ReadIs
<1> QED
  BY <1>5, <1>6 DEF Whole, r

LEMMA RemoteFails ==
    ASSUME NEW n \in 0 .. Len(Remote), NEW op \in {"setOptions", "query", "add", "nar"}
    PROVE  ~ Read(op, SubSeq(Remote, 1, n)).ok
<1>1. <<>> \o Remote = Remote
  BY DEF Remote
<1>2. ~ DrainStderr(SubSeq(Remote, 1, n)).ok
  BY <1>1, FrameSeqs, FramedError
<1> DEFINE s == SubSeq(Remote, 1, n)
<1> HIDE DEF s
<1>3. ~ DrainStderr(s).ok
  BY <1>2 DEF s
<1>4. ~ QueryPathInfo(s).ok /\ ~ NarFromPath(s).ok
  BY <1>3 DEF QueryPathInfo, NarFromPath
<1>5. ~ Read(op, s).ok
  BY <1>3, <1>4, ReadIs
<1> QED
  BY <1>5 DEF s

LEMMA NarWhole ==
    ASSUME NEW nar \in Nars, NEW n \in 0 .. Len(<<"last">> \o nar)
    PROVE  /\ Whole("nar", <<"last">> \o nar, n)
           /\ LET c == Read("nar", SubSeq(<<"last">> \o nar, 1, n)) IN c.ok => c.answer = nar
BY NarReply, ReadIs DEF Whole

LEMMA QueryWhole ==
    ASSUME NEW valid \in BOOLEAN, NEW r \in QueryReplies(valid), NEW n \in 0 .. Len(r)
    PROVE  /\ Whole("query", r, n)
           /\ LET q == Read("query", SubSeq(r, 1, n)) IN q.ok /\ q.answer = "valid" => valid
<1>1. CASE r = Remote
  <2>1. ~ Read("query", SubSeq(r, 1, n)).ok
    BY <1>1, RemoteFails
  <2> QED
    BY <2>1 DEF Whole
<1>2. CASE r # Remote
  <2> DEFINE t == IF valid THEN <<"last", "valid", "info">> ELSE <<"last", "invalid">>
  <2>1. PICK c \in Chatter : r = c \o t
    BY <1>2 DEF QueryReplies
  <2>2. c \in Seq(Frames)
    BY FrameSeqs
  <2>3. t \in Seq(Word) /\ t[1] = "last"
        /\ (valid => Len(t) = 3 /\ t[2] = "valid" /\ t[3] = "info")
        /\ (~ valid => Len(t) = 2 /\ t[2] = "invalid")
    <3>1. {"last", "valid", "info", "invalid"} \subseteq Word
      BY DEF Word
    <3>2. CASE valid
      BY <3>1, <3>2
    <3>3. CASE ~ valid
      BY <3>1, <3>3
    <3> QED
      BY <3>2, <3>3
  <2> HIDE DEF t
  <2>4. /\ r \in Seq(Word) /\ Len(c) \in Nat /\ Len(r) = Len(c) + Len(t)
        /\ \A i \in 1 .. Len(t) : r[Len(c) + i] = t[i]
        /\ Len(t) >= 1 /\ t[1] = "last" => Ends(r, Len(c) + 1)
    BY <2>1, <2>2, <2>3, Framed
  <2> DEFINE e == Len(c) + 1
  <2>5. Ends(r, e) /\ e \in Nat
    BY <2>3, <2>4
  <2>6. /\ valid => Len(r) = e + 2 /\ r[e + 1] = "valid" /\ r[e + 2] = "info"
        /\ ~ valid => Len(r) = e + 1 /\ r[e + 1] = "invalid"
    <3>1. Len(c) + 2 = e + 1 /\ Len(c) + 3 = e + 2 /\ Len(c) + 3 = e + 2
      BY <2>4
    <3>2. CASE valid
      <4>1. Len(t) = 3 /\ 2 \in 1 .. Len(t) /\ 3 \in 1 .. Len(t)
        BY <2>3, <3>2, 2 \in 1 .. 3, 3 \in 1 .. 3, Zenon
      <4> QED
        BY <2>3, <2>4, <3>1, <3>2, <4>1
    <3>3. CASE ~ valid
      <4>1. Len(t) = 2 /\ 2 \in 1 .. Len(t)
        BY <2>3, <3>3, 2 \in 1 .. 2, Zenon
      <4> QED
        BY <2>3, <2>4, <3>1, <3>3, <4>1
    <3> QED
      BY <3>2, <3>3
  <2> HIDE DEF e
  <2>7. LET q == QueryPathInfo(SubSeq(r, 1, n)) IN
          q.ok => /\ n = Len(r) /\ q.rest = <<>>
                  /\ q.answer = "valid" => r[e + 1] = "valid"
    BY <2>5, <2>6, QueryReply
  <2>8. r[e + 1] = "valid" => valid
    BY <2>6
  <2> QED
    BY <2>7, <2>8, ReadIs DEF Whole
<1> QED
  BY <1>1, <1>2

LEMMA BuildWhole ==
    ASSUME NEW r \in BuildReplies, NEW n \in 0 .. Len(r)
    PROVE  /\ Whole("build", r, n)
           /\ LET b == Read("build", SubSeq(r, 1, n)) IN
                b.ok => /\ b.answer.log = Keep(r, {"next", "logLine"})
                        /\ b.answer.status = "succeeded" =>
                              \E k \in 1 .. Len(r) : r[k] = "succeeded"
<1> DEFINE failure == <<"last", "unsuccessful", "none">>
           success == <<"last", "succeeded", "one", "realisation">>
<1>1. PICK l \in BuildLogs, t \in {failure, success, Remote} : r = l \o t
  BY DEF BuildReplies
<1>2. l \in Seq(Frames)
  BY FrameSeqs
<1>3. CASE t = Remote
  <2>1. ~ DrainStderr(SubSeq(r, 1, n)).ok
    BY <1>1, <1>2, <1>3, FramedError
  <2>2. ~ Read("build", SubSeq(r, 1, n)).ok
    BY <2>1, ReadIs DEF BuildDerivation
  <2> QED
    BY <2>2 DEF Whole
<1>4. CASE t # Remote
  <2>1. t \in Seq(Word) /\ t[1] = "last" /\ t[2] \in {"succeeded", "unsuccessful"}
        /\ (\/ Len(t) = 3 /\ t[3] = "none"
            \/ Len(t) = 4 /\ t[3] = "one" /\ t[4] = "realisation")
    <3>1. {"last", "succeeded", "unsuccessful", "none", "one", "realisation"} \subseteq Word
      BY DEF Word
    <3>2. CASE t = failure
      BY <3>1, <3>2
    <3>3. CASE t = success
      BY <3>1, <3>3
    <3> QED
      BY <1>4, <3>2, <3>3
  <2> HIDE DEF failure, success
  <2>2. /\ r \in Seq(Word) /\ Len(l) \in Nat /\ Len(r) = Len(l) + Len(t)
        /\ \A i \in 1 .. Len(t) : r[Len(l) + i] = t[i]
        /\ Len(t) >= 1 /\ t[1] = "last" => Ends(r, Len(l) + 1)
    BY <1>1, <1>2, <2>1, Framed
  <2> DEFINE e == Len(l) + 1
  <2>3. Ends(r, e) /\ e \in Nat /\ e \in 0 .. Len(r) /\ e + 1 \in 1 .. Len(r) /\ Len(r) \in Nat
    BY <2>1, <2>2
  <2>4. r[e + 1] = t[2] /\ r[e + 2] = t[3] /\ (Len(t) = 4 => r[e + 3] = t[4])
        /\ Len(r) = e + (Len(t) - 1)
    <3>1. Len(l) + 2 = e + 1 /\ Len(l) + 3 = e + 2 /\ Len(l) + 4 = e + 3
      BY <2>2
    <3>2. 2 \in 1 .. Len(t) /\ 3 \in 1 .. Len(t) /\ (Len(t) = 4 => 4 \in 1 .. Len(t))
      <4>1. Len(t) = 3 \/ Len(t) = 4
        BY <2>1
      <4>2. {2, 3} \subseteq 1 .. 3 /\ {2, 3, 4} \subseteq 1 .. 4 /\ 3 # 4
        OBVIOUS
      <4> QED
        BY <4>1, <4>2, Zenon
    <3>3. Len(r) = e + (Len(t) - 1)
      BY <2>1, <2>2
    <3> QED
      BY <2>2, <3>1, <3>2, <3>3
  <2> HIDE DEF e
  <2>5. \/ Len(r) = e + 2 /\ r[e + 2] = "none"
        \/ Len(r) = e + 3 /\ r[e + 2] = "one" /\ r[e + 3] = "realisation"
    <3>1. CASE Len(t) = 3 /\ t[3] = "none"
      BY <2>3, <2>4, <3>1
    <3>2. CASE Len(t) = 4 /\ t[3] = "one" /\ t[4] = "realisation"
      BY <2>3, <2>4, <3>2
    <3> QED
      BY <2>1, <3>1, <3>2
  <2> DEFINE b == BuildDerivation(SubSeq(r, 1, n))
             log_ == LogOf(SubSeq(r, 1, e))
  <2>6. b.ok => /\ n = Len(r) /\ b.rest = <<>> /\ b.answer = [status |-> r[e + 1], log |-> log_]
    BY <2>1, <2>3, <2>4, <2>5, BuildReply, ZenonT(40)
  <2>7. log_ = Keep(r, {"next", "logLine"})
    <3>1. \A k \in e + 1 .. Len(r) : r[k] \notin {"next", "logLine"}
      <4>1. \A k \in e + 1 .. Len(r) : k = e + 1 \/ k = e + 2 \/ (k = e + 3 /\ Len(r) = e + 3)
        BY <2>3, <2>5
      <4> QED
        BY <2>1, <2>4, <2>5, <2>3, <4>1
    <3>2. r \in Seq(Word)
      BY <2>2
    <3> QED
      BY <2>3, <3>1, <3>2, KeepPrefix DEF LogOf, LogFrames
  <2> HIDE DEF b, log_
  <2>8. b.ok => b.answer.status = r[e + 1] /\ b.answer.log = log_
    BY <2>6
  <2>9. Read("build", SubSeq(r, 1, n)) = b
    BY ReadIs DEF b
  <2>10. r[e + 1] = "succeeded" => \E k \in 1 .. Len(r) : r[k] = "succeeded"
    BY <2>3
  <2> QED
    BY <2>6, <2>7, <2>8, <2>9, <2>10 DEF Whole
<1> QED
  BY <1>3, <1>4

(* What the worker leaves alone while the daemon answers.                   *)
WorkerRests == UNCHANGED <<jobVars, pc, fetchVars, retried, outcome, log, uploadVars, result>>

-----------------------------------------------------------------------------
(* The inductive invariant.                                                 *)

Phases == {"sort", "urls", "fetch", "outputs", "failed", "uploadUrls", "log", "put", "report",
           "done"} \cup ReadsReply

JobTypes == mode \in {"vm", "serve"} /\ refs \in [Index -> SUBSET Index] /\ pc \in Phases
            /\ asked \in Ops \cup {None} /\ outcome \in {"none", "completed", "failed"}
            /\ result \in {"none", "completed", "failed"}
Flags == fresh \in BOOLEAN /\ closed \in BOOLEAN /\ retried \subseteq Retries /\ logKey \in BOOLEAN
FetchTypes == /\ store \in [Index -> Bytes] /\ spool \in [Index -> Bytes]
              /\ order \in Seq(Index) /\ todo \in Seq(Index)
              /\ task \in [Index -> {"none", "queued", "running"}]
              /\ channel \in Seq([input : Index, ok : BOOLEAN]) /\ ready \subseteq Index
UploadTypes == /\ built \in [Outputs -> Nars \cup {None}]
               /\ spooled \in [Outputs -> Nars \cup {None}]
               /\ objects \in [Outputs -> Nars \cup {None}]
               /\ artifacts \in [Outputs -> [nar : Nars, metadata : BOOLEAN] \cup {None}]

(* The operation a phase waits for and what it asks about.                  *)
OpOf == [open |-> "open", reopen |-> "open", options |-> "setOptions", reoptions |-> "setOptions",
         check |-> "query", register |-> "add", build |-> "build", dump |-> "nar",
         metadata |-> "query"]
About == CASE pc \in {"check", "register"} -> Head(order)
           [] pc \in {"dump", "metadata"} -> Current
           [] OTHER -> 0

(* What a reply that can be read says is so, and nothing follows it.        *)
Says(q) ==
    /\ pc = "check" /\ q.answer = "valid" => store[Head(order)] # "absent"
    /\ pc = "register" => store[Head(order)] # "absent"
    /\ pc = "build" => /\ q.answer.status = "succeeded" => built \in [Outputs -> Nars]
                       /\ q.answer.log = printed
    /\ pc = "dump" => q.answer = built[Current]
Faithful == Reply.ok => Reply.rest = <<>> /\ ~ closed /\ Says(Reply)

Clean == owed = <<>> /\ stream = <<>> /\ ~ closed
Over == {"report", "done", "uploadUrls", "log"}
Given == owed = <<>> /\ pc \in Over \cup {"failed"} /\ outcome = "failed"
Left == /\ owed = <<[op |-> "build", arg |-> 0]>> /\ stream = <<>>
        /\ pc \in Over /\ outcome = "failed" /\ log = <<>> /\ ~ logKey

(* The connection: either no reply is due, or one to the operation asked    *)
(* for; only a job that has failed leaves words or a request behind.        *)
Wire ==
    /\ asked # None =>
         /\ pc \in ReadsReply /\ asked = OpOf[pc] /\ mode = "vm"
         /\ \/ owed = <<[op |-> asked, arg |-> About]>> /\ stream = <<>> /\ ~ closed
            \/ owed = <<>> /\ Faithful
    /\ asked = None => Clean \/ Given \/ Left

Outcome ==
    /\ pc \in {"failed", "reopen", "reoptions"} => outcome = "failed"
    /\ pc \in {"dump", "put", "metadata"} => outcome = "completed"
    /\ outcome = "completed" => /\ pc \in Over \cup {"dump", "put", "metadata"}
                                /\ built \in [Outputs -> Nars]
    /\ result # "none" => pc = "done" /\ result = outcome
    /\ pc = "check" => mode = "vm"

(* Before the fetch there are no downloads; what one of them reports as     *)
(* good is recorded, and stays so.                                          *)
Early == {"open", "options", "sort", "check", "urls"}
Fetching ==
    /\ \A i \in Index : store[i] # "other"
    /\ pc \in Early => channel = <<>> /\ ready = {} /\ task = [i \in Index |-> "none"]
    /\ pc \in {"fetch", "register"} =>
         /\ \A i \in ready : spool[i] = "recorded" /\ task[i] = "none"
         /\ \A k \in 1 .. Len(channel) :
               /\ task[channel[k].input] = "none"
               /\ channel[k].ok => spool[channel[k].input] = "recorded"
    /\ pc = "register" => /\ order # <<>> /\ spool[Head(order)] = "recorded"
                          /\ task[Head(order)] = "none"
    /\ pc = "check" /\ asked # None => order # <<>>

(* Each input of q comes after its references, or the store has them.       *)
Chain(q) ==
    \A k \in 1 .. Len(q) : \A d \in Deps(q[k]) :
        store[d] # "absent" \/ \E j \in 1 .. k - 1 : q[j] = d
Ordered ==
    /\ pc = "check" => Chain(todo \o order)
    /\ pc \in {"urls", "fetch", "register"} => Chain(order)

Running == {i \in Index : task[i] = "running"}
Pending == {i \in Index : task[i] # "none"}
Bounded ==
    /\ Len(order) <= NumInputs /\ Len(todo) <= NumInputs
    /\ pc = "check" => Len(todo) + Len(order) <= NumInputs
    /\ Cardinality(Running) <= MaxParallel
    /\ Len(channel) + Cardinality(Pending) <= NumInputs

(* The outputs are handled in order, each one dumped, put, and reported.    *)
Uploads == {"dump", "put", "metadata"}
Uploading ==
    /\ pc \in Uploads => \E o \in Outputs : \A p \in Outputs : artifacts[p] = None <=> p >= o
    /\ pc \in {"put", "metadata"} => spooled[Current] = built[Current]
    /\ pc = "metadata" => objects[Current] = built[Current]
    /\ \A o \in Outputs : artifacts[o] # None =>
         /\ artifacts[o].nar = built[o] /\ objects[o] = built[o]
         /\ mode = "vm" => artifacts[o].metadata
    /\ pc \in {"report", "done"} /\ outcome = "completed" => \A o \in Outputs : artifacts[o] # None
    /\ pc \notin Uploads \cup {"report", "done"} \/ outcome # "completed" => artifacts = Nothing

Logged ==
    /\ mode = "vm" /\ pc # "build" => log \in {printed, Message, <<>>}
    /\ logKey => pc \in Uploads \cup {"report", "done"}
    /\ mode = "vm" /\ logKey => logObject \in {printed, Message}

IInv == /\ JobTypes /\ Flags /\ FetchTypes /\ UploadTypes
        /\ Wire /\ Outcome /\ Fetching /\ Ordered /\ Bounded /\ Uploading /\ Logged

-----------------------------------------------------------------------------
(* The invariant is kept: one lemma per part, one step per action.          *)

LEMMA Answered ==
    ASSUME Wire, Readable
    PROVE  /\ pc \in ReadsReply /\ asked = OpOf[pc] /\ mode = "vm" /\ owed = <<>> /\ Faithful
           /\ asked # None
BY DEF Wire, Readable

(* The phases and outcomes of the job.                                      *)
LEMMA JobTypesStep ==
    ASSUME IInv, [Next]_vars
    PROVE  JobTypes'
<1> USE DEF jobVars, fetchVars, connVars, buildVars, uploadVars, WorkerRests
<1>1. ASSUME NEW i \in Index, AcquirePermit(i) PROVE JobTypes'
  BY <1>1 DEF AcquirePermit, IInv, JobTypes, Phases, ReadsReply
<1>2. ASSUME NEW i \in Index, DownloadToSpool(i) PROVE JobTypes'
  BY <1>2 DEF DownloadToSpool, IInv, JobTypes, Phases, ReadsReply
<1>3. CASE Connect
  BY <1>3 DEF Connect, Ask, IInv, JobTypes, Phases, ReadsReply, Ops
<1>4. CASE Opened
  BY <1>4 DEF Opened, TakeReply, Abort, IInv, JobTypes, Phases, ReadsReply
<1>5. CASE Reopened
  BY <1>5 DEF Reopened, TakeReply, IInv, JobTypes, Phases, ReadsReply
<1>6. CASE SortInputs
  BY <1>6 DEF SortInputs, IInv, JobTypes, Phases, ReadsReply
<1>7. CASE AskValid
  BY <1>7 DEF AskValid, Ask, IInv, JobTypes, Phases, ReadsReply, Ops
<1>8. CASE SkipAlreadyValid
  BY <1>8 DEF SkipAlreadyValid, TakeReply, Abort, IInv, JobTypes, Phases, ReadsReply
<1>9. CASE Checked
  BY <1>9 DEF Checked, IInv, JobTypes, Phases, ReadsReply
<1>10. CASE RequestDownloadUrls
  BY <1>10 DEF RequestDownloadUrls, Abort, IInv, JobTypes, Phases, ReadsReply
<1>11. CASE Receive
  BY <1>11 DEF Receive, Abort, IInv, JobTypes, Phases, ReadsReply
<1>12. CASE RegisterInput
  BY <1>12 DEF RegisterInput, Ask, IInv, JobTypes, Phases, ReadsReply, Ops
<1>13. CASE Registered
  BY <1>13 DEF Registered, TakeReply, Abort, IInv, JobTypes, Phases, ReadsReply
<1>14. CASE ImportSpooled
  BY <1>14 DEF ImportSpooled, Abort, IInv, JobTypes, Phases, ReadsReply
<1>15. CASE Fetched
  BY <1>15 DEF Fetched, IInv, JobTypes, Phases, ReadsReply
<1>16. CASE DeclaredOutputs
  BY <1>16 DEF DeclaredOutputs, Abort, IInv, JobTypes, Phases, ReadsReply
<1>17. CASE AskBuild
  BY <1>17 DEF AskBuild, Ask, IInv, JobTypes, Phases, ReadsReply, Ops
<1>18. CASE BuildDone
  BY <1>18 DEF BuildDone, TakeReply, IInv, JobTypes, Phases, ReadsReply
<1>19. CASE ServeFails
  BY <1>19 DEF ServeFails, IInv, JobTypes, Phases, ReadsReply
<1>20. CASE ServeBuild
  BY <1>20 DEF ServeBuild, IInv, JobTypes, Phases, ReadsReply
<1>21. CASE GiveUp
  BY <1>21 DEF GiveUp, IInv, JobTypes, Phases, ReadsReply
<1>22. CASE Retry
  BY <1>22 DEF Retry, Reconnect, IInv, JobTypes, Phases, ReadsReply, Ops
<1>23. CASE GuestHung
  BY <1>23 DEF GuestHung, Reconnect, IInv, JobTypes, Phases, ReadsReply, Ops
<1>24. CASE RequestUploadUrls
  BY <1>24 DEF RequestUploadUrls, UploadFails, IInv, JobTypes, Phases, ReadsReply
<1>25. CASE UploadLog
  BY <1>25 DEF UploadLog, UploadFails, IInv, JobTypes, Phases, ReadsReply
<1>26. CASE AskNar
  BY <1>26 DEF AskNar, Ask, IInv, JobTypes, Phases, ReadsReply, Ops
<1>27. CASE Dumped
  BY <1>27 DEF Dumped, TakeReply, UploadFails, IInv, JobTypes, Phases, ReadsReply
<1>28. CASE DumpPath
  BY <1>28 DEF DumpPath, UploadFails, IInv, JobTypes, Phases, ReadsReply
<1>29. CASE PutOutput
  BY <1>29 DEF PutOutput, UploadFails, IInv, JobTypes, Phases, ReadsReply
<1>30. CASE AskMetadata
  BY <1>30 DEF AskMetadata, Ask, IInv, JobTypes, Phases, ReadsReply, Ops
<1>31. CASE PathMetadata
  BY <1>31 DEF PathMetadata, TakeReply, UploadFails, Collect, IInv, JobTypes, Phases, ReadsReply
<1>32. CASE QueryPathMetadata
  BY <1>32 DEF QueryPathMetadata, UploadFails, Collect, IInv, JobTypes, Phases, ReadsReply
<1>33. CASE PublishResult
  BY <1>33 DEF PublishResult, IInv, JobTypes, Phases, ReadsReply
<1>34. CASE DaemonAdds /\ WorkerRests
  BY <1>34 DEF DaemonAdds, Send, IInv, JobTypes, Phases, ReadsReply
<1>35. CASE DaemonBuilds /\ WorkerRests
  BY <1>35 DEF DaemonBuilds, Send, IInv, JobTypes, Phases, ReadsReply
<1>36. CASE DaemonReads /\ WorkerRests
  BY <1>36 DEF DaemonReads, Send, IInv, JobTypes, Phases, ReadsReply
<1>37. CASE UNCHANGED vars
  BY <1>37 DEF IInv, JobTypes, Phases, ReadsReply, vars
<1> QED
  BY <1>1, <1>2, <1>3, <1>4, <1>5, <1>6, <1>7, <1>8, <1>9, <1>10, <1>11, <1>12, <1>13, <1>14,
       <1>15, <1>16, <1>17, <1>18, <1>19, <1>20, <1>21, <1>22, <1>23, <1>24, <1>25, <1>26, <1>27,
       <1>28, <1>29, <1>30, <1>31, <1>32, <1>33, <1>34, <1>35, <1>36, <1>37, Zenon DEF Next,
       Downloads, Worker, DaemonAnswers

LEMMA SendCloses ==
    ASSUME NEW r, Send(r)
    PROVE  closed' \in BOOLEAN
<1>1. PICK n : closed' = (n < Len(r))
  BY Zenon DEF Send
<1>2. (n < Len(r)) \in BOOLEAN
  OBVIOUS
<1> QED
  BY <1>1, <1>2, Zenon

(* The flags.                                                               *)
LEMMA FlagsStep ==
    ASSUME IInv, [Next]_vars
    PROVE  Flags'
<1> USE DEF jobVars, fetchVars, connVars, buildVars, uploadVars, WorkerRests
<1>1. ASSUME NEW i \in Index, AcquirePermit(i) PROVE Flags'
  BY <1>1 DEF AcquirePermit, IInv, Flags
<1>2. ASSUME NEW i \in Index, DownloadToSpool(i) PROVE Flags'
  BY <1>2 DEF DownloadToSpool, IInv, Flags
<1>3. CASE Connect
  BY <1>3 DEF Connect, Ask, IInv, Flags
<1>4. CASE Opened
  BY <1>4 DEF Opened, TakeReply, Abort, IInv, Flags
<1>5. CASE Reopened
  BY <1>5 DEF Reopened, TakeReply, IInv, Flags
<1>6. CASE SortInputs
  BY <1>6 DEF SortInputs, IInv, Flags
<1>7. CASE AskValid
  BY <1>7 DEF AskValid, Ask, IInv, Flags
<1>8. CASE SkipAlreadyValid
  BY <1>8 DEF SkipAlreadyValid, TakeReply, Abort, IInv, Flags
<1>9. CASE Checked
  BY <1>9 DEF Checked, IInv, Flags
<1>10. CASE RequestDownloadUrls
  BY <1>10 DEF RequestDownloadUrls, Abort, IInv, Flags
<1>11. CASE Receive
  BY <1>11 DEF Receive, Abort, IInv, Flags
<1>12. CASE RegisterInput
  BY <1>12 DEF RegisterInput, Ask, IInv, Flags
<1>13. CASE Registered
  BY <1>13 DEF Registered, TakeReply, Abort, IInv, Flags
<1>14. CASE ImportSpooled
  BY <1>14 DEF ImportSpooled, Abort, IInv, Flags
<1>15. CASE Fetched
  BY <1>15 DEF Fetched, IInv, Flags
<1>16. CASE DeclaredOutputs
  BY <1>16 DEF DeclaredOutputs, Abort, IInv, Flags
<1>17. CASE AskBuild
  BY <1>17 DEF AskBuild, Ask, IInv, Flags
<1>18. CASE BuildDone
  BY <1>18 DEF BuildDone, TakeReply, IInv, Flags
<1>19. CASE ServeFails
  BY <1>19 DEF ServeFails, IInv, Flags
<1>20. CASE ServeBuild
  BY <1>20 DEF ServeBuild, IInv, Flags
<1>21. CASE GiveUp
  BY <1>21 DEF GiveUp, IInv, Flags
<1>22. CASE Retry
  BY <1>22 DEF Retry, Reconnect, IInv, Flags, Retries
<1>23. CASE GuestHung
  BY <1>23 DEF GuestHung, Reconnect, IInv, Flags, Retries
<1>24. CASE RequestUploadUrls
  BY <1>24 DEF RequestUploadUrls, UploadFails, IInv, Flags
<1>25. CASE UploadLog
  BY <1>25 DEF UploadLog, UploadFails, IInv, Flags
<1>26. CASE AskNar
  BY <1>26 DEF AskNar, Ask, IInv, Flags
<1>27. CASE Dumped
  BY <1>27 DEF Dumped, TakeReply, UploadFails, IInv, Flags
<1>28. CASE DumpPath
  BY <1>28 DEF DumpPath, UploadFails, IInv, Flags
<1>29. CASE PutOutput
  BY <1>29 DEF PutOutput, UploadFails, IInv, Flags
<1>30. CASE AskMetadata
  BY <1>30 DEF AskMetadata, Ask, IInv, Flags
<1>31. CASE PathMetadata
  BY <1>31 DEF PathMetadata, TakeReply, UploadFails, Collect, IInv, Flags
<1>32. CASE QueryPathMetadata
  BY <1>32 DEF QueryPathMetadata, UploadFails, Collect, IInv, Flags
<1>33. CASE PublishResult
  BY <1>33 DEF PublishResult, IInv, Flags
<1>34. CASE DaemonAdds /\ WorkerRests
  <2>1. \E r : Send(r)
    BY <1>34, Zenon DEF DaemonAdds
  <2> QED
    BY <1>34, <2>1, SendCloses, Zenon DEF IInv, Flags
<1>35. CASE DaemonBuilds /\ WorkerRests
  <2>1. \E r : Send(r)
    BY <1>35, Zenon DEF DaemonBuilds
  <2> QED
    BY <1>35, <2>1, SendCloses, Zenon DEF IInv, Flags
<1>36. CASE DaemonReads /\ WorkerRests
  <2>1. \E r : Send(r)
    BY <1>36, Zenon DEF DaemonReads
  <2> QED
    BY <1>36, <2>1, SendCloses, Zenon DEF IInv, Flags
<1>37. CASE UNCHANGED vars
  BY <1>37 DEF IInv, Flags, vars
<1> QED
  BY <1>1, <1>2, <1>3, <1>4, <1>5, <1>6, <1>7, <1>8, <1>9, <1>10, <1>11, <1>12, <1>13, <1>14,
       <1>15, <1>16, <1>17, <1>18, <1>19, <1>20, <1>21, <1>22, <1>23, <1>24, <1>25, <1>26, <1>27,
       <1>28, <1>29, <1>30, <1>31, <1>32, <1>33, <1>34, <1>35, <1>36, <1>37, Zenon DEF Next,
       Downloads, Worker, DaemonAnswers

(* The outcome agrees with the phase, and a completed one has outputs.      *)
LEMMA OutcomeStep ==
    ASSUME IInv, [Next]_vars
    PROVE  Outcome'
<1> USE DEF jobVars, fetchVars, connVars, buildVars, uploadVars, WorkerRests
<1>1. ASSUME NEW i \in Index, AcquirePermit(i) PROVE Outcome'
  BY <1>1 DEF AcquirePermit, IInv, Outcome, Over
<1>2. ASSUME NEW i \in Index, DownloadToSpool(i) PROVE Outcome'
  BY <1>2 DEF DownloadToSpool, IInv, Outcome, Over
<1>3. CASE Connect
  BY <1>3 DEF Connect, Ask, IInv, Outcome, Over
<1>4. CASE Opened
  BY <1>4 DEF Opened, TakeReply, Abort, IInv, Outcome, Over
<1>5. CASE Reopened
  BY <1>5 DEF Reopened, TakeReply, IInv, Outcome, Over
<1>6. CASE SortInputs
  BY <1>6 DEF SortInputs, IInv, Outcome, Over
<1>7. CASE AskValid
  BY <1>7 DEF AskValid, Ask, IInv, Outcome, Over
<1>8. CASE SkipAlreadyValid
  BY <1>8 DEF SkipAlreadyValid, TakeReply, Abort, IInv, Outcome, Over
<1>9. CASE Checked
  BY <1>9 DEF Checked, IInv, Outcome, Over
<1>10. CASE RequestDownloadUrls
  BY <1>10 DEF RequestDownloadUrls, Abort, IInv, Outcome, Over
<1>11. CASE Receive
  BY <1>11 DEF Receive, Abort, IInv, Outcome, Over
<1>12. CASE RegisterInput
  BY <1>12 DEF RegisterInput, Ask, IInv, Outcome, Over
<1>13. CASE Registered
  BY <1>13 DEF Registered, TakeReply, Abort, IInv, Outcome, Over
<1>14. CASE ImportSpooled
  BY <1>14 DEF ImportSpooled, Abort, IInv, Outcome, Over
<1>15. CASE Fetched
  BY <1>15 DEF Fetched, IInv, Outcome, Over
<1>16. CASE DeclaredOutputs
  BY <1>16 DEF DeclaredOutputs, Abort, IInv, Outcome, Over
<1>17. CASE AskBuild
  BY <1>17 DEF AskBuild, Ask, IInv, Outcome, Over
<1>18. CASE BuildDone
  <2>1. Faithful /\ asked = OpOf[pc] /\ pc = "build"
    BY <1>18, Answered DEF IInv, BuildDone
  <2>2. Reply.ok /\ Reply.answer.status = "succeeded" => built \in [Outputs -> Nars]
    BY <2>1 DEF Faithful, Says
  <2> HIDE DEF Reply
  <2> QED
    BY <1>18, <2>2 DEF BuildDone, IInv, Outcome, Over
<1>19. CASE ServeFails
  BY <1>19 DEF ServeFails, IInv, Outcome, Over
<1>20. CASE ServeBuild
  BY <1>20 DEF ServeBuild, IInv, Outcome, Over
<1>21. CASE GiveUp
  BY <1>21 DEF GiveUp, IInv, Outcome, Over
<1>22. CASE Retry
  BY <1>22 DEF Retry, Reconnect, IInv, Outcome, Over
<1>23. CASE GuestHung
  BY <1>23 DEF GuestHung, Reconnect, IInv, Outcome, Over
<1>24. CASE RequestUploadUrls
  BY <1>24 DEF RequestUploadUrls, UploadFails, IInv, Outcome, Over
<1>25. CASE UploadLog
  BY <1>25 DEF UploadLog, UploadFails, IInv, Outcome, Over
<1>26. CASE AskNar
  BY <1>26 DEF AskNar, Ask, IInv, Outcome, Over
<1>27. CASE Dumped
  BY <1>27 DEF Dumped, TakeReply, UploadFails, IInv, Outcome, Over
<1>28. CASE DumpPath
  BY <1>28 DEF DumpPath, UploadFails, IInv, Outcome, Over
<1>29. CASE PutOutput
  BY <1>29 DEF PutOutput, UploadFails, IInv, Outcome, Over
<1>30. CASE AskMetadata
  BY <1>30 DEF AskMetadata, Ask, IInv, Outcome, Over
<1>31. CASE PathMetadata
  BY <1>31 DEF PathMetadata, TakeReply, UploadFails, Collect, IInv, Outcome, Over
<1>32. CASE QueryPathMetadata
  BY <1>32 DEF QueryPathMetadata, UploadFails, Collect, IInv, Outcome, Over
<1>33. CASE PublishResult
  BY <1>33 DEF PublishResult, IInv, Outcome, Over
<1>34. CASE DaemonAdds /\ WorkerRests
  BY <1>34 DEF DaemonAdds, Send, IInv, Outcome, Over
<1>35. CASE DaemonBuilds /\ WorkerRests
  BY <1>35 DEF DaemonBuilds, Send, IInv, Outcome, Over
<1>36. CASE DaemonReads /\ WorkerRests
  BY <1>36 DEF DaemonReads, Send, IInv, Outcome, Over
<1>37. CASE UNCHANGED vars
  BY <1>37 DEF IInv, Outcome, Over, vars
<1> QED
  BY <1>1, <1>2, <1>3, <1>4, <1>5, <1>6, <1>7, <1>8, <1>9, <1>10, <1>11, <1>12, <1>13, <1>14,
       <1>15, <1>16, <1>17, <1>18, <1>19, <1>20, <1>21, <1>22, <1>23, <1>24, <1>25, <1>26, <1>27,
       <1>28, <1>29, <1>30, <1>31, <1>32, <1>33, <1>34, <1>35, <1>36, <1>37, Zenon DEF Next,
       Downloads, Worker, DaemonAnswers

(* What the daemon is asked to register, and which request it answers.      *)
LEMMA AskedOf ==
    ASSUME JobTypes, Wire, NEW op, Asked(op)
    PROVE  /\ Tail(owed) = <<>> /\ stream = <<>> /\ ~ closed
           /\ \/ /\ asked = op /\ Arg = About /\ pc \in ReadsReply /\ asked = OpOf[pc]
                 /\ asked # None /\ mode = "vm"
              \/ asked = None /\ op = "build" /\ Left
<1>1. CASE asked # None
  <2>1. owed = <<[op |-> asked, arg |-> About]>> /\ stream = <<>>
    BY <1>1 DEF Wire, Asked
  <2>2. Head(owed) = [op |-> asked, arg |-> About] /\ Tail(owed) = <<>>
    BY <2>1
  <2> QED
    BY <1>1, <2>1, <2>2 DEF Wire, Asked, Arg
<1>2. CASE asked = None
  <2>1. Left
    BY <1>2 DEF Wire, Asked, Clean, Given
  <2>2. Head(owed) = [op |-> "build", arg |-> 0] /\ Tail(owed) = <<>>
    BY <2>1 DEF Left
  <2> QED
    BY <1>2, <2>1, <2>2 DEF Asked, Left
<1> QED
  BY <1>1, <1>2

LEMMA AddsHead ==
    ASSUME JobTypes, FetchTypes, Wire, Fetching, Asked("add")
    PROVE  /\ pc = "register" /\ Arg = Head(order) /\ order # <<>> /\ Head(order) \in Index
           /\ spool[Head(order)] = "recorded"
<1>1. asked = "add" /\ Arg = About /\ pc \in ReadsReply /\ asked = OpOf[pc]
  BY AskedOf
<1>2. pc = "register"
  BY <1>1 DEF OpOf, ReadsReply
<1>3. order # <<>> /\ spool[Head(order)] = "recorded"
  BY <1>2 DEF Fetching
<1>4. Head(order) \in Index
  BY <1>3, HeadTailProperties DEF FetchTypes
<1> QED
  BY <1>1, <1>2, <1>3, <1>4 DEF About

(* The fetch is typed.                                                      *)
LEMMA FetchTypesStep ==
    ASSUME IInv, [Next]_vars
    PROVE  FetchTypes'
<1> USE DEF jobVars, fetchVars, connVars, buildVars, uploadVars, WorkerRests
<1>1. ASSUME NEW i \in Index, AcquirePermit(i) PROVE FetchTypes'
  BY <1>1 DEF AcquirePermit, IInv, FetchTypes
<1>2. ASSUME NEW i \in Index, DownloadToSpool(i) PROVE FetchTypes'
  <2>1. PICK got \in Bytes : /\ spool' = [spool EXCEPT ![i] = got]
                             /\ channel' = Append(channel, [input |-> i, ok |-> Verified(got)])
    BY <1>2 DEF DownloadToSpool
  <2>2. [input |-> i, ok |-> Verified(got)] \in [input : Index, ok : BOOLEAN]
    BY DEF Verified
  <2>3. channel' \in Seq([input : Index, ok : BOOLEAN])
    BY <2>1, <2>2, AppendProperties DEF IInv, FetchTypes
  <2> QED
    BY <1>2, <2>1, <2>3 DEF DownloadToSpool, IInv, FetchTypes
<1>3. CASE Connect
  BY <1>3 DEF Connect, Ask, IInv, FetchTypes
<1>4. CASE Opened
  BY <1>4 DEF Opened, TakeReply, Abort, IInv, FetchTypes
<1>5. CASE Reopened
  BY <1>5 DEF Reopened, TakeReply, IInv, FetchTypes
<1>6. CASE SortInputs
  <2> HIDE DEF TopoSortInputs
  <2>1. <<>> \in Seq(Index) /\ TopoSortInputs \in Seq(Index)
    BY TopoSorted, EmptySeq
  <2> QED
    BY <1>6, <2>1 DEF SortInputs, IInv, FetchTypes
<1>7. CASE AskValid
  BY <1>7 DEF AskValid, Ask, IInv, FetchTypes
<1>8. CASE SkipAlreadyValid
  <2>1. order # <<>>
    BY <1>8 DEF SkipAlreadyValid, Readable, IInv, Fetching
  <2>2. Head(order) \in Index /\ Tail(order) \in Seq(Index)
    BY <2>1, HeadTailProperties DEF IInv, FetchTypes
  <2>3. Append(todo, Head(order)) \in Seq(Index)
    BY <2>2, AppendProperties DEF IInv, FetchTypes
  <2> HIDE DEF Reply
  <2> QED
    BY <1>8, <2>2, <2>3 DEF SkipAlreadyValid, IInv, FetchTypes
<1>9. CASE Checked
  BY <1>9 DEF Checked, IInv, FetchTypes
<1>10. CASE RequestDownloadUrls
  BY <1>10 DEF RequestDownloadUrls, Abort, IInv, FetchTypes
<1>11. CASE Receive
  <2>1. Tail(channel) \in Seq([input : Index, ok : BOOLEAN])
        /\ Head(channel) \in [input : Index, ok : BOOLEAN]
    BY <1>11, HeadTailProperties DEF Receive, IInv, FetchTypes
  <2> QED
    BY <1>11, <2>1 DEF Receive, IInv, FetchTypes
<1>12. CASE RegisterInput
  BY <1>12 DEF RegisterInput, Ask, IInv, FetchTypes
<1>13. CASE Registered
  <2>1. order # <<>>
    BY <1>13 DEF Registered, IInv, Fetching
  <2>2. Tail(order) \in Seq(Index)
    BY <2>1, HeadTailProperties DEF IInv, FetchTypes
  <2> HIDE DEF Reply
  <2> QED
    BY <1>13, <2>2 DEF Registered, IInv, FetchTypes
<1>14. CASE ImportSpooled
  <2>1. Head(order) \in Index /\ Tail(order) \in Seq(Index)
    BY <1>14, HeadTailProperties DEF ImportSpooled, IInv, FetchTypes
  <2> QED
    BY <1>14, <2>1 DEF ImportSpooled, IInv, FetchTypes
<1>15. CASE Fetched
  BY <1>15 DEF Fetched, IInv, FetchTypes, Bytes
<1>16. CASE DeclaredOutputs
  BY <1>16 DEF DeclaredOutputs, Abort, IInv, FetchTypes
<1>17. CASE AskBuild
  BY <1>17 DEF AskBuild, Ask, IInv, FetchTypes
<1>18. CASE BuildDone
  BY <1>18 DEF BuildDone, TakeReply, IInv, FetchTypes
<1>19. CASE ServeFails
  BY <1>19 DEF ServeFails, IInv, FetchTypes
<1>20. CASE ServeBuild
  BY <1>20 DEF ServeBuild, IInv, FetchTypes
<1>21. CASE GiveUp
  BY <1>21 DEF GiveUp, IInv, FetchTypes
<1>22. CASE Retry
  BY <1>22 DEF Retry, Reconnect, IInv, FetchTypes, Bytes
<1>23. CASE GuestHung
  BY <1>23 DEF GuestHung, Reconnect, IInv, FetchTypes, Bytes
<1>24. CASE RequestUploadUrls
  BY <1>24 DEF RequestUploadUrls, UploadFails, IInv, FetchTypes
<1>25. CASE UploadLog
  BY <1>25 DEF UploadLog, UploadFails, IInv, FetchTypes
<1>26. CASE AskNar
  BY <1>26 DEF AskNar, Ask, IInv, FetchTypes
<1>27. CASE Dumped
  BY <1>27 DEF Dumped, TakeReply, UploadFails, IInv, FetchTypes
<1>28. CASE DumpPath
  BY <1>28 DEF DumpPath, UploadFails, IInv, FetchTypes
<1>29. CASE PutOutput
  BY <1>29 DEF PutOutput, UploadFails, IInv, FetchTypes
<1>30. CASE AskMetadata
  BY <1>30 DEF AskMetadata, Ask, IInv, FetchTypes
<1>31. CASE PathMetadata
  BY <1>31 DEF PathMetadata, TakeReply, UploadFails, Collect, IInv, FetchTypes
<1>32. CASE QueryPathMetadata
  BY <1>32 DEF QueryPathMetadata, UploadFails, Collect, IInv, FetchTypes
<1>33. CASE PublishResult
  BY <1>33 DEF PublishResult, IInv, FetchTypes
<1>34. CASE DaemonAdds /\ WorkerRests
  <2>1. Arg \in Index
    BY <1>34, AddsHead DEF DaemonAdds, IInv
  <2> QED
    BY <1>34, <2>1 DEF DaemonAdds, IInv, FetchTypes
<1>35. CASE DaemonBuilds /\ WorkerRests
  BY <1>35 DEF DaemonBuilds, Send, IInv, FetchTypes
<1>36. CASE DaemonReads /\ WorkerRests
  BY <1>36 DEF DaemonReads, Send, IInv, FetchTypes
<1>37. CASE UNCHANGED vars
  BY <1>37 DEF IInv, FetchTypes, vars
<1> QED
  BY <1>1, <1>2, <1>3, <1>4, <1>5, <1>6, <1>7, <1>8, <1>9, <1>10, <1>11, <1>12, <1>13, <1>14,
       <1>15, <1>16, <1>17, <1>18, <1>19, <1>20, <1>21, <1>22, <1>23, <1>24, <1>25, <1>26, <1>27,
       <1>28, <1>29, <1>30, <1>31, <1>32, <1>33, <1>34, <1>35, <1>36, <1>37, Zenon DEF Next,
       Downloads, Worker, DaemonAnswers

(* Only bytes the server recorded are waiting to be registered.             *)
LEMMA FetchingStep ==
    ASSUME IInv, [Next]_vars
    PROVE  Fetching'
<1> USE DEF jobVars, fetchVars, connVars, buildVars, uploadVars, WorkerRests
<1>1. ASSUME NEW i \in Index, AcquirePermit(i) PROVE Fetching'
  <2>1. \A j \in Index : task[j] = "none" => task'[j] = "none"
    BY <1>1 DEF AcquirePermit, IInv, FetchTypes
  <2>2. pc = "register" => order # <<>> /\ Head(order) \in Index
    BY HeadTailProperties DEF IInv, FetchTypes, Fetching
  <2>3. \A k \in 1 .. Len(channel) : channel[k].input \in Index
    <3>1. \A k \in 1 .. Len(channel) : channel[k] \in [input : Index, ok : BOOLEAN]
      BY ElementOfSeq DEF IInv, FetchTypes
    <3> QED
      BY <3>1
  <2> QED
    BY <1>1, <2>1, <2>2, <2>3 DEF AcquirePermit, IInv, FetchTypes, Fetching, Early
<1>2. ASSUME NEW i \in Index, DownloadToSpool(i) PROVE Fetching'
  <2>1. PICK got \in Bytes : /\ spool' = [spool EXCEPT ![i] = got]
                             /\ channel' = Append(channel, [input |-> i, ok |-> Verified(got)])
    BY <1>2 DEF DownloadToSpool
  <2> DEFINE m == [input |-> i, ok |-> Verified(got)]
  <2>2. m \in [input : Index, ok : BOOLEAN]
    BY DEF Verified
  <2> channel \in Seq([input : Index, ok : BOOLEAN]) /\ Len(channel) \in Nat
    BY LenProperties DEF IInv, FetchTypes
  <2>3. Len(channel') = Len(channel) + 1 /\ channel'[Len(channel) + 1] = m
        /\ \A k \in 1 .. Len(channel) : channel'[k] = channel[k]
    BY <2>1, <2>2, AppendProperties
  <2>4. task[i] = "running" /\ task' = [task EXCEPT ![i] = "none"] /\ pc' = pc
        /\ pc \in {"fetch", "register"}
    BY <1>2 DEF DownloadToSpool
  <2>5. \A j \in Index : /\ task[j] = "none" => task'[j] = "none" /\ spool'[j] = spool[j]
                         /\ task'[i] = "none" /\ spool'[i] = got
    BY <2>1, <2>4 DEF IInv, FetchTypes
  <2>6. \A k \in 1 .. Len(channel) : channel[k].input \in Index
    <3>1. \A k \in 1 .. Len(channel) : channel[k] \in [input : Index, ok : BOOLEAN]
      BY ElementOfSeq DEF IInv, FetchTypes
    <3> QED
      BY <3>1
  <2>7. ASSUME NEW k \in 1 .. Len(channel')
        PROVE  /\ task'[channel'[k].input] = "none"
               /\ channel'[k].ok => spool'[channel'[k].input] = "recorded"
    <3>1. CASE k \in 1 .. Len(channel)
      BY <2>3, <2>4, <2>5, <2>6, <3>1 DEF IInv, Fetching
    <3>2. CASE k = Len(channel) + 1
      <4>1. channel'[k] = m
        BY <2>3, <3>2
      <4>2. m.input = i /\ (m.ok => got = "recorded")
        BY DEF Verified
      <4> HIDE DEF m
      <4> QED
        BY <2>5, <4>1, <4>2
    <3> QED
      BY <2>3, <3>1, <3>2
  <2>8. \A j \in ready : spool'[j] = "recorded" /\ task'[j] = "none"
    BY <2>4, <2>5 DEF IInv, Fetching, FetchTypes
  <2>9. pc = "register" => /\ order # <<>> /\ spool'[Head(order)] = "recorded"
                           /\ task'[Head(order)] = "none"
    <3>1. pc = "register" => order # <<>> /\ Head(order) \in Index
      BY HeadTailProperties DEF IInv, FetchTypes, Fetching
    <3> QED
      BY <2>5, <3>1 DEF IInv, Fetching
  <2> QED
    BY <1>2, <2>4, <2>7, <2>8, <2>9 DEF DownloadToSpool, IInv, Fetching, Early
<1>3. CASE Connect
  BY <1>3 DEF Connect, Ask, IInv, Fetching, Early
<1>4. CASE Opened
  BY <1>4 DEF Opened, TakeReply, Abort, IInv, Fetching, Early, Readable
<1>5. CASE Reopened
  BY <1>5 DEF Reopened, TakeReply, IInv, Fetching, Early
<1>6. CASE SortInputs
  <2>1. asked = None
    BY <1>6 DEF SortInputs, IInv, Wire, ReadsReply
  <2> HIDE DEF TopoSortInputs
  <2> QED
    BY <1>6, <2>1 DEF SortInputs, IInv, Fetching, Early
<1>7. CASE AskValid
  BY <1>7 DEF AskValid, Ask, IInv, Fetching, Early
<1>8. CASE SkipAlreadyValid
  BY <1>8 DEF SkipAlreadyValid, TakeReply, Abort, IInv, Fetching, Early
<1>9. CASE Checked
  BY <1>9 DEF Checked, IInv, Fetching, Early
<1>10. CASE RequestDownloadUrls
  <2>1. channel = <<>> /\ ready = {} /\ Len(<<>>) = 0
    BY <1>10 DEF RequestDownloadUrls, IInv, Fetching, Early
  <2> QED
    BY <1>10, <2>1 DEF RequestDownloadUrls, Abort, IInv, Fetching, Early
<1>11. CASE Receive
  <2> DEFINE m == Head(channel)
  <2> channel \in Seq([input : Index, ok : BOOLEAN]) /\ Len(channel) \in Nat
    BY LenProperties DEF IInv, FetchTypes
  <2>1. /\ channel # <<>> /\ Len(Tail(channel)) = Len(channel) - 1 /\ Len(channel) >= 1
        /\ \A k \in 1 .. Len(Tail(channel)) : Tail(channel)[k] = channel[k + 1]
        /\ m = channel[1]
    BY <1>11, HeadTailProperties, EmptySeq DEF Receive
  <2>2. /\ task[m.input] = "none" /\ (m.ok => spool[m.input] = "recorded")
    BY <1>11, <2>1 DEF Receive, IInv, Fetching
  <2>3. \A k \in 1 .. Len(Tail(channel)) : k + 1 \in 1 .. Len(channel)
    BY <2>1
  <2>4. \A k \in 1 .. Len(Tail(channel)) :
           /\ task[Tail(channel)[k].input] = "none"
           /\ Tail(channel)[k].ok => spool[Tail(channel)[k].input] = "recorded"
    BY <1>11, <2>1, <2>3 DEF Receive, IInv, Fetching
  <2> HIDE DEF m
  <2> QED
    BY <1>11, <2>2, <2>4 DEF Receive, Abort, IInv, Fetching, Early, m
<1>12. CASE RegisterInput
  BY <1>12 DEF RegisterInput, Ask, IInv, Fetching, Early
<1>13. CASE Registered
  BY <1>13 DEF Registered, TakeReply, Abort, IInv, Fetching, Early
<1>14. CASE ImportSpooled
  <2>1. Head(order) \in Index /\ spool[Head(order)] = "recorded"
    BY <1>14, HeadTailProperties DEF ImportSpooled, IInv, FetchTypes, Fetching
  <2> QED
    BY <1>14, <2>1 DEF ImportSpooled, Abort, IInv, Fetching, FetchTypes, Early
<1>15. CASE Fetched
  BY <1>15 DEF Fetched, IInv, Fetching, Early
<1>16. CASE DeclaredOutputs
  BY <1>16 DEF DeclaredOutputs, Abort, IInv, Fetching, Early
<1>17. CASE AskBuild
  BY <1>17 DEF AskBuild, Ask, IInv, Fetching, Early
<1>18. CASE BuildDone
  BY <1>18 DEF BuildDone, TakeReply, IInv, Fetching, Early
<1>19. CASE ServeFails
  BY <1>19 DEF ServeFails, IInv, Fetching, Early
<1>20. CASE ServeBuild
  BY <1>20 DEF ServeBuild, IInv, Fetching, Early
<1>21. CASE GiveUp
  BY <1>21 DEF GiveUp, IInv, Fetching, Early
<1>22. CASE Retry
  BY <1>22 DEF Retry, Reconnect, IInv, Fetching, Early
<1>23. CASE GuestHung
  BY <1>23 DEF GuestHung, Reconnect, IInv, Fetching, Early
<1>24. CASE RequestUploadUrls
  BY <1>24 DEF RequestUploadUrls, UploadFails, IInv, Fetching, Early
<1>25. CASE UploadLog
  BY <1>25 DEF UploadLog, UploadFails, IInv, Fetching, Early
<1>26. CASE AskNar
  BY <1>26 DEF AskNar, Ask, IInv, Fetching, Early
<1>27. CASE Dumped
  BY <1>27 DEF Dumped, TakeReply, UploadFails, IInv, Fetching, Early
<1>28. CASE DumpPath
  BY <1>28 DEF DumpPath, UploadFails, IInv, Fetching, Early
<1>29. CASE PutOutput
  BY <1>29 DEF PutOutput, UploadFails, IInv, Fetching, Early
<1>30. CASE AskMetadata
  BY <1>30 DEF AskMetadata, Ask, IInv, Fetching, Early
<1>31. CASE PathMetadata
  BY <1>31 DEF PathMetadata, TakeReply, UploadFails, Collect, IInv, Fetching, Early
<1>32. CASE QueryPathMetadata
  BY <1>32 DEF QueryPathMetadata, UploadFails, Collect, IInv, Fetching, Early
<1>33. CASE PublishResult
  BY <1>33 DEF PublishResult, IInv, Fetching, Early
<1>34. CASE DaemonAdds /\ WorkerRests
  <2>1. Arg \in Index /\ spool[Arg] = "recorded"
    BY <1>34, AddsHead DEF DaemonAdds, IInv
  <2>2. \A j \in Index : store'[j] # "other"
    BY <1>34, <2>1 DEF DaemonAdds, IInv, Fetching, FetchTypes
  <2> QED
    BY <1>34, <2>2 DEF DaemonAdds, Send, IInv, Fetching
<1>35. CASE DaemonBuilds /\ WorkerRests
  BY <1>35 DEF DaemonBuilds, Send, IInv, Fetching, Early
<1>36. CASE DaemonReads /\ WorkerRests
  BY <1>36 DEF DaemonReads, Send, IInv, Fetching, Early
<1>37. CASE UNCHANGED vars
  BY <1>37 DEF IInv, Fetching, Early, vars
<1> QED
  BY <1>1, <1>2, <1>3, <1>4, <1>5, <1>6, <1>7, <1>8, <1>9, <1>10, <1>11, <1>12, <1>13, <1>14,
       <1>15, <1>16, <1>17, <1>18, <1>19, <1>20, <1>21, <1>22, <1>23, <1>24, <1>25, <1>26, <1>27,
       <1>28, <1>29, <1>30, <1>31, <1>32, <1>33, <1>34, <1>35, <1>36, <1>37, Zenon DEF Next,
       Downloads, Worker, DaemonAnswers

(* What a request or a step without one leaves of the connection.           *)
LEMMA Asks ==
    ASSUME Wire, asked = None, pc \notin Over \cup {"failed"}, NEW op, NEW arg, Ask(op, arg),
           pc' \in ReadsReply, op = OpOf[pc'], arg = About', mode' = "vm", op # None
    PROVE  Wire'
<1>1. owed = <<>> /\ stream = <<>> /\ ~ closed
  BY DEF Wire, Clean, Given, Left
<1>2. Append(<<>>, [op |-> op, arg |-> arg]) = <<[op |-> op, arg |-> arg]>>
  OBVIOUS
<1>3. asked' = op /\ owed' = <<[op |-> op, arg |-> arg]>> /\ stream' = <<>> /\ ~ closed'
  BY <1>1, <1>2 DEF Ask
<1> QED
  BY <1>3 DEF Wire

LEMMA Idle ==
    ASSUME Wire, pc \notin ReadsReply \/ mode = "serve" \/ asked = None
    PROVE  asked = None /\ (Clean \/ Given \/ Left)
           /\ (pc \notin Over \cup {"failed"} => Clean)
BY DEF Wire, Given, Left

LEMMA StaysIdle ==
    ASSUME asked = None, Clean, UNCHANGED connVars
    PROVE  Wire'
BY DEF Wire, Clean, connVars

LEMMA ReadsAll ==
    ASSUME Wire, Readable, TakeReply(Reply),
           (pc' \in Over \cup {"failed"} /\ outcome' = "failed") \/ Reply.ok
    PROVE  Wire'
<1>1. owed = <<>> /\ Faithful
  BY Answered
<1>2. Reply.ok => Reply.rest = <<>> /\ ~ closed
  BY <1>1 DEF Faithful
<1> HIDE DEF Reply
<1> QED
  BY <1>1, <1>2 DEF TakeReply, Wire, Clean, Given

(* Current is the first output without an artifact.                         *)
LEMMA CurrentIs ==
    ASSUME NEW o \in Outputs, \A p \in Outputs : artifacts[p] = None <=> p >= o
    PROVE  Current = o
<1>1. Outputs \subseteq Nat /\ \A p \in 1 .. o - 1 : p \in Outputs /\ p < o
  BY CountsAssumption DEF Outputs
<1>2. artifacts[o] = None /\ \A p \in 1 .. o - 1 : artifacts[p] # None
  BY <1>1
<1>3. Current \in Outputs /\ artifacts[Current] = None
      /\ \A p \in 1 .. Current - 1 : artifacts[p] # None
  BY <1>2, Zenon DEF Current
<1> HIDE DEF Current
<1>4. Current >= o
  BY <1>3
<1>5. o < Current => o \in 1 .. Current - 1
  BY <1>1, <1>3 DEF Outputs
<1> QED
  BY <1>1, <1>2, <1>3, <1>4, <1>5

LEMMA SameCurrent ==
    ASSUME UNCHANGED artifacts
    PROVE  Current' = Current
BY DEF Current

(* A reply sent, whole or in part.                                          *)
LEMMA Sent ==
    ASSUME Tail(owed) = <<>>, stream = <<>>, NEW r \in Seq(Word), Send(r)
    PROVE  /\ owed' = <<>> /\ asked' = asked
           /\ \E n \in 0 .. Len(r) : stream' = SubSeq(r, 1, n) /\ (n = Len(r) => ~ closed')
<1>1. PICK n \in 0 .. Len(r) : stream' = stream \o SubSeq(r, 1, n) /\ closed' = (n < Len(r))
  BY DEF Send
<1>2. SubSeq(r, 1, n) \in Seq(Word)
  BY PrefixOf
<1>3. stream' = SubSeq(r, 1, n)
  BY <1>1, <1>2, ConcatEmptySeq
<1>4. n = Len(r) => ~ closed'
  <2>1. Len(r) \in Nat /\ (n = Len(r) => ~ (n < Len(r)))
    BY LenProperties
  <2> QED
    BY <1>1, <2>1, Zenon
<1> QED
  BY <1>3, <1>4 DEF Send

LEMMA SentWire ==
    ASSUME Tail(owed) = <<>>, stream = <<>>, asked # None, mode = "vm", mode' = mode,
           pc \in ReadsReply, asked = OpOf[pc], pc' = pc, NEW r \in Seq(Word), Send(r),
           \A n \in 0 .. Len(r) : Whole(asked, r, n),
           \A n \in 0 .. Len(r) : \A q : q = Read(asked, SubSeq(r, 1, n)) /\ q.ok => Says(q)'
    PROVE  Wire'
<1>1. owed' = <<>> /\ asked' = asked
  BY Sent
<1>2. PICK n \in 0 .. Len(r) : stream' = SubSeq(r, 1, n) /\ (n = Len(r) => ~ closed')
  BY Sent
<1>3. PICK q : q = Read(asked, SubSeq(r, 1, n))
  OBVIOUS
<1>4. Reply' = q
  BY <1>1, <1>2, <1>3 DEF Reply
<1>5. q.ok => n = Len(r) /\ q.rest = <<>>
  BY <1>3 DEF Whole
<1>6. q.ok => Says(q)'
  BY <1>3
<1> HIDE DEF Reply
<1>7. Faithful'
  BY <1>2, <1>4, <1>5, <1>6 DEF Faithful, Says
<1> QED
  BY <1>1, <1>7 DEF Wire

LEMMA ReplyTypes ==
    /\ <<"last">> \in Seq(Word) /\ Remote \in Seq(Word)
    /\ OpenReplies \subseteq Seq(Word) /\ SetOptionsReplies = {<<"last">>, Remote}
    /\ \A valid \in BOOLEAN : QueryReplies(valid) \subseteq Seq(Word)
    /\ BuildReplies \subseteq Seq(Word) /\ \A nar \in Nars : <<"last">> \o nar \in Seq(Word)
<1>1. {"last", "error", "message", "magic", "version", "oldVersion", "noMagic", "daemonVersion",
       "trusted", "succeeded", "unsuccessful", "none", "one", "realisation", "valid", "invalid",
       "info", "nix-archive-1"} \subseteq Word
  BY DEF Word, NarWords
<1>2. /\ <<"last">> \in Seq(Word) /\ <<"error", "message">> \in Seq(Word)
      /\ <<"magic", "version", "daemonVersion", "trusted", "last">> \in Seq(Word)
      /\ <<"magic", "oldVersion">> \in Seq(Word) /\ <<"noMagic">> \in Seq(Word)
      /\ <<"last", "valid", "info">> \in Seq(Word) /\ <<"last", "invalid">> \in Seq(Word)
      /\ <<"last", "unsuccessful", "none">> \in Seq(Word)
      /\ <<"last", "succeeded", "one", "realisation">> \in Seq(Word)
      /\ <<"nix-archive-1">> \in Seq(Word)
  BY <1>1
<1>3. Remote \in Seq(Word) /\ OpenReplies \subseteq Seq(Word)
      /\ SetOptionsReplies = {<<"last">>, Remote}
  BY <1>2, Zenon DEF Remote, OpenReplies, SetOptionsReplies
<1>4. \A f \in Seq(Frames), t \in Seq(Word) : f \o t \in Seq(Word)
  BY Framed
<1>5. \A valid \in BOOLEAN : QueryReplies(valid) \subseteq Seq(Word)
  <2> SUFFICES ASSUME NEW valid \in BOOLEAN, NEW r \in QueryReplies(valid), r # Remote
               PROVE  r \in Seq(Word)
    BY <1>3
  <2>1. PICK c \in Chatter :
           r = c \o (IF valid THEN <<"last", "valid", "info">> ELSE <<"last", "invalid">>)
    BY Zenon DEF QueryReplies
  <2>2. r = c \o <<"last", "valid", "info">> \/ r = c \o <<"last", "invalid">>
    BY <2>1, Zenon
  <2> QED
    BY <1>2, <1>4, <2>2, FrameSeqs, Zenon
<1>6. BuildReplies \subseteq Seq(Word)
  BY <1>2, <1>3, <1>4, FrameSeqs, Zenon DEF BuildReplies
<1>7. ASSUME NEW nar \in Nars PROVE <<"last">> \o nar \in Seq(Word)
  <2>1. PICK t \in Trees : nar = <<"nix-archive-1">> \o t
    BY DEF Nars, NarOf
  <2>2. NarWords \subseteq Word /\ t \in Seq(NarWords)
    BY TreesAssumption DEF Word
  <2>3. t \in Seq(Word)
    BY <2>2, SeqMonotonic
  <2>4. nar \in Seq(Word)
    BY <1>2, <2>1, <2>3, ConcatProperties
  <2> QED
    BY <1>2, <2>4, ConcatProperties
<1> QED
  BY <1>2, <1>3, <1>5, <1>6, <1>7, Zenon

(* The replies of the daemon, whole or cut short, to what it was asked.     *)
LEMMA AddsWire ==
    ASSUME IInv, DaemonAdds /\ WorkerRests
    PROVE  Wire'
<1> USE DEF WorkerRests
<1>1. /\ Tail(owed) = <<>> /\ stream = <<>> /\ asked = "add" /\ asked # None /\ mode = "vm"
      /\ pc \in ReadsReply /\ asked = OpOf[pc]
  BY AskedOf DEF DaemonAdds, IInv
<1>2. pc = "register" /\ Arg = Head(order) /\ Head(order) \in Index
      /\ spool[Head(order)] = "recorded"
  BY AddsHead DEF DaemonAdds, IInv
<1>3. mode' = mode /\ pc' = pc /\ order' = order
  BY DEF jobVars, fetchVars
<1>4. CASE Send(Remote)
  <2>1. \A n \in 0 .. Len(Remote) : ~ Read(asked, SubSeq(Remote, 1, n)).ok
    BY <1>1, RemoteFails
  <2>2. \A n \in 0 .. Len(Remote) : Whole(asked, Remote, n)
    BY <2>1 DEF Whole
  <2>3. Remote \in Seq(Word)
    BY ReplyTypes
  <2> QED
    BY <1>1, <1>3, <1>4, <2>1, <2>2, <2>3, SentWire
<1>5. CASE store' = [store EXCEPT ![Arg] = spool[Arg]] /\ Send(<<"last">>)
  <2> DEFINE r == <<"last">>
  <2>1. \A n \in 0 .. Len(r) : Whole(asked, r, n)
    BY <1>1, LastWhole
  <2>2. store'[Head(order)] # "absent"
    BY <1>2, <1>5 DEF IInv, FetchTypes
  <2>3. \A q : Says(q)'
    BY <1>2, <1>3, <2>2 DEF Says
  <2>4. r \in Seq(Word)
    BY ReplyTypes
  <2>5. Send(r)
    BY <1>5
  <2> HIDE DEF r
  <2> QED
    BY <1>1, <1>3, <2>1, <2>3, <2>4, <2>5, SentWire
<1> QED
  BY <1>4, <1>5 DEF DaemonAdds

LEMMA BuildsWire ==
    ASSUME IInv, DaemonBuilds /\ WorkerRests
    PROVE  Wire'
<1> USE DEF WorkerRests
<1>1. PICK r \in BuildReplies :
         /\ Send(r) /\ printed' = Keep(r, {"next", "logLine"})
         /\ built' \in IF \E k \in 1 .. Len(r) : r[k] = "succeeded"
                       THEN [Outputs -> Nars] ELSE {built}
  BY Zenon DEF DaemonBuilds
<1>2. r \in Seq(Word)
  BY ReplyTypes
<1>3. mode' = mode /\ pc' = pc /\ outcome' = outcome
  BY DEF jobVars
<1>4. Tail(owed) = <<>> /\ stream = <<>> /\ Asked("build")
  BY AskedOf DEF DaemonBuilds, IInv
<1>5. CASE asked = None
  <2>1. Left
    BY <1>4, <1>5, AskedOf, NoneAssumption DEF IInv, Ops
  <2>2. owed' = <<>> /\ asked' = asked
    BY <1>1, <1>2, <1>4, Sent
  <2> QED
    BY <1>3, <1>5, <2>1, <2>2 DEF Wire, Left, Given
<1>6. CASE asked # None
  <2>1. asked = "build" /\ mode = "vm" /\ pc \in ReadsReply /\ asked = OpOf[pc]
    BY <1>4, <1>6, AskedOf DEF IInv
  <2>2. pc = "build"
    BY <2>1 DEF OpOf, ReadsReply
  <2>3. \A n \in 0 .. Len(r) : Whole(asked, r, n)
    BY <2>1, BuildWhole
  <2>4. ASSUME NEW n \in 0 .. Len(r), NEW q, q = Read(asked, SubSeq(r, 1, n)), q.ok PROVE Says(q)'
    <3>1. q = Read("build", SubSeq(r, 1, n))
      BY <2>1, <2>4
    <3>2. q.answer.log = printed'
      BY <1>1, <2>4, <3>1, BuildWhole
    <3>3. q.answer.status = "succeeded" => \E k \in 1 .. Len(r) : r[k] = "succeeded"
      BY <2>4, <3>1, BuildWhole
    <3>4. q.answer.status = "succeeded" => built' \in [Outputs -> Nars]
      BY <1>1, <3>3
    <3> QED
      BY <1>3, <2>2, <3>2, <3>4 DEF Says
  <2>5. \A n \in 0 .. Len(r) : \A q : q = Read(asked, SubSeq(r, 1, n)) /\ q.ok => Says(q)'
    BY <2>4
  <2> QED
    BY <1>1, <1>2, <1>3, <1>4, <1>6, <2>1, <2>3, <2>5, SentWire
<1> QED
  BY <1>5, <1>6

LEMMA ReadsWire ==
    ASSUME IInv, DaemonReads /\ WorkerRests
    PROVE  Wire'
<1> USE DEF WorkerRests
<1>1. mode' = mode /\ pc' = pc /\ order' = order /\ store' = store /\ built' = built
      /\ Current' = Current
  BY SameCurrent DEF jobVars, fetchVars, uploadVars, DaemonReads
<1>2. ASSUME NEW op, Asked(op), op # "build"
      PROVE  /\ Tail(owed) = <<>> /\ stream = <<>> /\ asked = op /\ asked # None /\ mode = "vm"
             /\ pc \in ReadsReply /\ asked = OpOf[pc] /\ Arg = About
  BY <1>2, AskedOf DEF IInv
<1>3. ASSUME Send(Remote), NEW op \in {"setOptions", "query", "nar"}, Asked(op) PROVE Wire'
  <2>1. \A n \in 0 .. Len(Remote) : ~ Read(op, SubSeq(Remote, 1, n)).ok
    BY RemoteFails
  <2>2. \A n \in 0 .. Len(Remote) : Whole(op, Remote, n)
    BY <2>1 DEF Whole
  <2>3. Remote \in Seq(Word)
    BY ReplyTypes
  <2> QED
    BY <1>1, <1>2, <1>3, <2>1, <2>2, <2>3, SentWire
<1>4. CASE Asked("open") /\ \E r \in OpenReplies : Send(r)
  <2>1. PICK r \in OpenReplies : Send(r)
    BY <1>4
  <2>2. r \in Seq(Word) /\ \A n \in 0 .. Len(r) : Whole("open", r, n)
    BY ReplyTypes, OpenWhole
  <2>3. \A q : Says(q)'
    BY <1>1, <1>2, <1>4 DEF Says, OpOf, ReadsReply
  <2> QED
    BY <1>1, <1>2, <1>4, <2>1, <2>2, <2>3, SentWire
<1>5. CASE Asked("setOptions") /\ \E r \in SetOptionsReplies : Send(r)
  <2>1. CASE Send(Remote)
    BY <1>3, <1>5, <2>1
  <2>2. CASE Send(<<"last">>)
    <3> DEFINE r == <<"last">>
    <3>1. r \in Seq(Word) /\ Send(r) /\ \A n \in 0 .. Len(r) : Whole("setOptions", r, n)
      BY <2>2, ReplyTypes, LastWhole
    <3>2. \A q : Says(q)'
      BY <1>1, <1>2, <1>5 DEF Says, OpOf, ReadsReply
    <3> HIDE DEF r
    <3> QED
      BY <1>1, <1>2, <1>5, <3>1, <3>2, SentWire
  <2> QED
    BY <1>5, <2>1, <2>2, ReplyTypes
<1>6. CASE /\ Asked("query")
           /\ \E r \in QueryReplies(pc = "metadata" \/ store[Arg] # "absent") : Send(r)
  <2> DEFINE valid == pc = "metadata" \/ store[Arg] # "absent"
  <2>1. PICK r \in QueryReplies(valid) : Send(r)
    BY <1>6
  <2>2. valid \in BOOLEAN
    OBVIOUS
  <2>3. asked = "query" /\ Arg = About /\ pc \in {"check", "metadata"}
    BY <1>2, <1>6 DEF OpOf, ReadsReply
  <2>4. pc = "check" /\ valid => store[Head(order)] # "absent"
    BY <2>3 DEF About
  <2> HIDE DEF valid
  <2>5. r \in Seq(Word) /\ \A n \in 0 .. Len(r) : Whole("query", r, n)
    BY <2>2, ReplyTypes, QueryWhole
  <2>6. \A n \in 0 .. Len(r) : \A q : q = Read("query", SubSeq(r, 1, n)) /\ q.ok => Says(q)'
    <3>1. \A n \in 0 .. Len(r) : \A q :
             q = Read("query", SubSeq(r, 1, n)) /\ q.ok /\ q.answer = "valid" => valid
      BY <2>2, QueryWhole
    <3> QED
      BY <1>1, <2>3, <2>4, <3>1 DEF Says
  <2> QED
    BY <1>1, <1>2, <1>6, <2>1, <2>3, <2>5, <2>6, SentWire
<1>7. CASE Asked("nar") /\ (Send(<<"last">> \o built[Arg]) \/ Send(Remote))
  <2>1. asked = "nar" /\ pc = "dump" /\ Arg = Current
    BY <1>2, <1>7 DEF OpOf, ReadsReply, About
  <2>2. Current \in Outputs
    BY <2>1, CurrentIs DEF IInv, Uploading, Uploads
  <2>3. built[Current] \in Nars
    BY <2>1, <2>2 DEF IInv, Outcome
  <2>4. CASE Send(<<"last">> \o built[Arg])
    <3> DEFINE nar == built[Current]
               r == <<"last">> \o nar
    <3>1. Send(r) /\ nar \in Nars
      BY <2>1, <2>3, <2>4
    <3> HIDE DEF nar
    <3>2. r \in Seq(Word) /\ \A n \in 0 .. Len(r) : Whole("nar", r, n)
      BY <3>1, ReplyTypes, NarWhole
    <3>3. \A n \in 0 .. Len(r) : \A q : q = Read("nar", SubSeq(r, 1, n)) /\ q.ok => q.answer = nar
      BY <3>1, NarWhole
    <3>4. \A n \in 0 .. Len(r) : \A q : q = Read("nar", SubSeq(r, 1, n)) /\ q.ok => Says(q)'
      BY <1>1, <2>1, <3>3 DEF Says, nar
    <3> HIDE DEF r
    <3> QED
      BY <1>1, <1>2, <1>7, <2>1, <3>1, <3>2, <3>4, SentWire
  <2> QED
    BY <1>3, <1>7, <2>4
<1> QED
  BY <1>4, <1>5, <1>6, <1>7 DEF DaemonReads

(* The connection carries what was asked for, and nothing else.             *)
LEMMA WireStep ==
    ASSUME IInv, [Next]_vars
    PROVE  Wire'
<1> USE DEF jobVars, fetchVars, connVars, buildVars, uploadVars, WorkerRests
<1>1. ASSUME NEW i \in Index, AcquirePermit(i) PROVE Wire'
  BY <1>1 DEF AcquirePermit, IInv, Wire, Clean, Given, Left, Faithful, Says, Reply, About, Current,
     jobVars, connVars, buildVars, uploadVars
<1>2. ASSUME NEW i \in Index, DownloadToSpool(i) PROVE Wire'
  BY <1>2 DEF DownloadToSpool, IInv, Wire, Clean, Given, Left, Faithful, Says, Reply, About,
       Current,
     jobVars, connVars, buildVars, uploadVars
<1>3. CASE Connect
  <2>1. /\ asked = None /\ pc \in ReadsReply /\ pc \notin Over \cup {"failed"}
        /\ pc' = pc /\ mode' = "vm"
    BY <1>3 DEF Connect, ReadsReply, Over
  <2>2. PICK op \in {"open", "setOptions"} : Ask(op, 0) /\ op = OpOf[pc']
    BY <1>3 DEF Connect, OpOf
  <2>3. About' = 0 /\ op # None
    BY <1>3, NoneAssumption DEF Connect, About, Ops
  <2> QED
    BY <2>1, <2>2, <2>3, Asks DEF IInv
<1>4. CASE Opened
  <2>1. Readable /\ TakeReply(Reply)
        /\ ((pc' \in Over \cup {"failed"} /\ outcome' = "failed") \/ Reply.ok)
    BY <1>4 DEF Opened, Abort, Over, IInv, Outcome
  <2> QED
    BY <2>1, ReadsAll DEF IInv
<1>5. CASE Reopened
  <2>1. Readable /\ TakeReply(Reply)
        /\ ((pc' \in Over \cup {"failed"} /\ outcome' = "failed") \/ Reply.ok)
    BY <1>5 DEF Reopened, Over, IInv, Outcome
  <2> QED
    BY <2>1, ReadsAll DEF IInv
<1>6. CASE SortInputs
  <2>1. asked = None /\ Clean
    BY <1>6, Idle DEF SortInputs, ReadsReply, Over, IInv
  <2> QED
    BY <1>6, <2>1, StaysIdle DEF SortInputs
<1>7. CASE AskValid
  <2>1. /\ asked = None /\ pc \in ReadsReply /\ pc \notin Over \cup {"failed"}
        /\ pc' = pc /\ mode' = "vm"
    BY <1>7 DEF AskValid, ReadsReply, Over, IInv, Outcome
  <2>2. "query" = OpOf[pc'] /\ Head(order) = About' /\ "query" # None
    BY <1>7, NoneAssumption DEF AskValid, OpOf, About, Ops
  <2>3. Ask("query", Head(order))
    BY <1>7 DEF AskValid
  <2> QED
    BY <2>1, <2>2, <2>3, Asks DEF IInv
<1>8. CASE SkipAlreadyValid
  <2>1. Readable /\ TakeReply(Reply)
        /\ ((pc' \in Over \cup {"failed"} /\ outcome' = "failed") \/ Reply.ok)
    BY <1>8 DEF SkipAlreadyValid, Abort, Over, IInv, Outcome
  <2> QED
    BY <2>1, ReadsAll DEF IInv
<1>9. CASE Checked
  <2>1. asked = None /\ Clean
    BY <1>9, Idle DEF Checked, Over, IInv, Fetching
  <2> QED
    BY <1>9, <2>1, StaysIdle DEF Checked
<1>10. CASE RequestDownloadUrls
  <2>1. asked = None /\ Clean
    BY <1>10, Idle DEF RequestDownloadUrls, ReadsReply, Over, IInv
  <2> QED
    BY <1>10, <2>1, StaysIdle DEF RequestDownloadUrls
<1>11. CASE Receive
  <2>1. asked = None /\ Clean
    BY <1>11, Idle DEF Receive, ReadsReply, Over, IInv
  <2> QED
    BY <1>11, <2>1, StaysIdle DEF Receive
<1>12. CASE RegisterInput
  <2>1. asked = None /\ pc' = "register" /\ mode' = "vm" /\ pc \notin Over \cup {"failed"}
        /\ pc' \in ReadsReply
    BY <1>12, Idle DEF RegisterInput, ReadsReply, Over, IInv
  <2>2. "add" = OpOf[pc'] /\ Head(order) = About' /\ "add" # None
    BY <1>12, NoneAssumption DEF RegisterInput, OpOf, About, Ops
  <2>3. Ask("add", Head(order))
    BY <1>12 DEF RegisterInput
  <2> QED
    BY <2>1, <2>2, <2>3, Asks DEF IInv
<1>13. CASE Registered
  <2>1. Readable /\ TakeReply(Reply)
        /\ ((pc' \in Over \cup {"failed"} /\ outcome' = "failed") \/ Reply.ok)
    BY <1>13 DEF Registered, Abort, Over, IInv, Outcome
  <2> QED
    BY <2>1, ReadsAll DEF IInv
<1>14. CASE ImportSpooled
  <2>1. asked = None /\ Clean
    BY <1>14, Idle DEF ImportSpooled, ReadsReply, Over, IInv
  <2> QED
    BY <1>14, <2>1, StaysIdle DEF ImportSpooled
<1>15. CASE Fetched
  <2>1. asked = None /\ Clean
    BY <1>15, Idle DEF Fetched, ReadsReply, Over, IInv
  <2> QED
    BY <1>15, <2>1, StaysIdle DEF Fetched
<1>16. CASE DeclaredOutputs
  <2>1. asked = None /\ Clean
    BY <1>16, Idle DEF DeclaredOutputs, ReadsReply, Over, IInv
  <2> QED
    BY <1>16, <2>1, StaysIdle DEF DeclaredOutputs
<1>17. CASE AskBuild
  <2>1. /\ asked = None /\ pc \in ReadsReply /\ pc \notin Over \cup {"failed"}
        /\ pc' = pc /\ mode' = "vm"
    BY <1>17 DEF AskBuild, ReadsReply, Over, IInv, Outcome
  <2>2. "build" = OpOf[pc'] /\ 0 = About' /\ "build" # None
    BY <1>17, NoneAssumption DEF AskBuild, OpOf, About, Ops
  <2>3. Ask("build", 0)
    BY <1>17 DEF AskBuild
  <2> QED
    BY <2>1, <2>2, <2>3, Asks DEF IInv
<1>18. CASE BuildDone
  <2>1. Readable /\ TakeReply(Reply)
        /\ ((pc' \in Over \cup {"failed"} /\ outcome' = "failed") \/ Reply.ok)
    BY <1>18 DEF BuildDone, Over, IInv, Outcome
  <2> QED
    BY <2>1, ReadsAll DEF IInv
<1>19. CASE ServeFails
  <2>1. asked = None /\ Clean
    BY <1>19, Idle DEF ServeFails, ReadsReply, Over, IInv
  <2> QED
    BY <1>19, <2>1, StaysIdle DEF ServeFails
<1>20. CASE ServeBuild
  <2>1. asked = None /\ Clean
    BY <1>20, Idle DEF ServeBuild, ReadsReply, Over, IInv
  <2> QED
    BY <1>20, <2>1, StaysIdle DEF ServeBuild
<1>21. CASE GiveUp
  <2>1. asked = None /\ (Clean \/ Given)
    BY <1>21, Idle DEF GiveUp, ReadsReply, Over, Left, IInv
  <2> QED
    BY <1>21, <2>1 DEF GiveUp, Wire, Clean, Given, Over
<1>22. CASE Retry
  BY <1>22, NoneAssumption DEF Retry, Reconnect, Wire, ReadsReply, OpOf, About, Ops
<1>23. CASE GuestHung
  <2>1. CASE Reconnect /\ pc' = "reopen"
    BY <1>23, <2>1, NoneAssumption DEF GuestHung, Reconnect, Wire, ReadsReply, OpOf, About, Ops
  <2>2. CASE asked' = None /\ pc' = "uploadUrls" /\ UNCHANGED <<owed, stream, closed>>
    <3>1. owed = <<>> \/ (owed = <<[op |-> "build", arg |-> 0]>> /\ stream = <<>>)
      BY <1>23 DEF GuestHung, IInv, Wire, OpOf, About
    <3>2. ~ logKey
      BY <1>23 DEF GuestHung, IInv, Logged, Uploads
    <3> QED
      BY <1>23, <2>2, <3>1, <3>2 DEF GuestHung, Wire, Given, Left, Over
  <2> QED
    BY <1>23, <2>1, <2>2 DEF GuestHung
<1>24. CASE RequestUploadUrls
  <2>1. asked = None /\ (Clean \/ Given \/ Left)
    BY <1>24, Idle DEF RequestUploadUrls, ReadsReply, IInv
  <2> QED
    BY <1>24, <2>1 DEF RequestUploadUrls, UploadFails, Wire, Clean, Given, Left, Over
<1>25. CASE UploadLog
  <2>1. asked = None /\ (Clean \/ Given \/ Left)
    BY <1>25, Idle DEF UploadLog, ReadsReply, IInv
  <2> QED
    BY <1>25, <2>1 DEF UploadLog, UploadFails, Wire, Clean, Given, Left, Over
<1>26. CASE AskNar
  <2>1. /\ asked = None /\ pc \in ReadsReply /\ pc \notin Over \cup {"failed"}
        /\ pc' = pc /\ mode' = "vm"
    BY <1>26 DEF AskNar, ReadsReply, Over, IInv, Outcome
  <2>2. "nar" = OpOf[pc'] /\ Current = About' /\ "nar" # None
    BY <1>26, NoneAssumption, SameCurrent DEF AskNar, OpOf, About, Ops
  <2>3. Ask("nar", Current)
    BY <1>26 DEF AskNar
  <2> QED
    BY <2>1, <2>2, <2>3, Asks DEF IInv
<1>27. CASE Dumped
  <2>1. Readable /\ TakeReply(Reply)
        /\ ((pc' \in Over \cup {"failed"} /\ outcome' = "failed") \/ Reply.ok)
    BY <1>27 DEF Dumped, UploadFails, Over, IInv, Outcome
  <2> QED
    BY <2>1, ReadsAll DEF IInv
<1>28. CASE DumpPath
  <2>1. asked = None /\ Clean
    BY <1>28, Idle DEF DumpPath, ReadsReply, Over, IInv
  <2> QED
    BY <1>28, <2>1, StaysIdle DEF DumpPath
<1>29. CASE PutOutput
  <2>1. asked = None /\ Clean
    BY <1>29, Idle DEF PutOutput, ReadsReply, Over, IInv
  <2> QED
    BY <1>29, <2>1, StaysIdle DEF PutOutput
<1>30. CASE AskMetadata
  <2>1. /\ asked = None /\ pc \in ReadsReply /\ pc \notin Over \cup {"failed"}
        /\ pc' = pc /\ mode' = "vm"
    BY <1>30 DEF AskMetadata, ReadsReply, Over, IInv, Outcome
  <2>2. "query" = OpOf[pc'] /\ Current = About' /\ "query" # None
    BY <1>30, NoneAssumption, SameCurrent DEF AskMetadata, OpOf, About, Ops
  <2>3. Ask("query", Current)
    BY <1>30 DEF AskMetadata
  <2> QED
    BY <2>1, <2>2, <2>3, Asks DEF IInv
<1>31. CASE PathMetadata
  <2>1. Readable /\ TakeReply(Reply)
        /\ ((pc' \in Over \cup {"failed"} /\ outcome' = "failed") \/ Reply.ok)
    BY <1>31 DEF PathMetadata, UploadFails, Collect, Over, IInv, Outcome
  <2> QED
    BY <2>1, ReadsAll DEF IInv
<1>32. CASE QueryPathMetadata
  <2>1. asked = None /\ Clean
    BY <1>32, Idle DEF QueryPathMetadata, ReadsReply, Over, IInv
  <2> QED
    BY <1>32, <2>1, StaysIdle DEF QueryPathMetadata
<1>33. CASE PublishResult
  <2>1. asked = None /\ (Clean \/ Given \/ Left)
    BY <1>33, Idle DEF PublishResult, ReadsReply, IInv
  <2> QED
    BY <1>33, <2>1 DEF PublishResult, Wire, Clean, Given, Left, Over
<1>34. CASE DaemonAdds /\ WorkerRests
  BY <1>34, AddsWire DEF IInv
<1>35. CASE DaemonBuilds /\ WorkerRests
  BY <1>35, BuildsWire DEF IInv
<1>36. CASE DaemonReads /\ WorkerRests
  BY <1>36, ReadsWire DEF IInv
<1>37. CASE UNCHANGED vars
  BY <1>37 DEF IInv, Wire, Clean, Given, Left, Faithful, Says, Reply, About, Current, vars
<1> QED
  BY <1>1, <1>2, <1>3, <1>4, <1>5, <1>6, <1>7, <1>8, <1>9, <1>10, <1>11, <1>12, <1>13, <1>14,
       <1>15, <1>16, <1>17, <1>18, <1>19, <1>20, <1>21, <1>22, <1>23, <1>24, <1>25, <1>26, <1>27,
       <1>28, <1>29, <1>30, <1>31, <1>32, <1>33, <1>34, <1>35, <1>36, <1>37, Zenon DEF Next,
       Downloads, Worker, DaemonAnswers

(* The order of registration: an input the store has need not come first.   *)
LEMMA ChainDrop ==
    ASSUME NEW p \in Seq(Index), NEW q \in Seq(Index), q # <<>>, Chain(p \o q),
           store[Head(q)] # "absent"
    PROVE  Chain(p \o Tail(q))
<1> DEFINE s == p \o q
           t == p \o Tail(q)
           n == Len(p)
<1>1. /\ n \in Nat /\ Len(q) \in Nat /\ Len(q) > 0 /\ Head(q) = q[1]
      /\ Tail(q) \in Seq(Index) /\ Len(Tail(q)) = Len(q) - 1
      /\ \A k \in 1 .. Len(Tail(q)) : Tail(q)[k] = q[k + 1]
  BY HeadTailProperties, EmptySeq, LenProperties
<1>2. /\ Len(s) = n + Len(q) /\ \A k \in 1 .. Len(s) : s[k] = IF k <= n THEN p[k] ELSE q[k - n]
  BY ConcatProperties
<1>3. /\ Len(t) = n + Len(q) - 1
      /\ \A k \in 1 .. Len(t) : t[k] = IF k <= n THEN p[k] ELSE Tail(q)[k - n]
  BY <1>1, ConcatProperties
<1> HIDE DEF s, t
<1>4. /\ \A k \in 1 .. Len(t) : k <= n => t[k] = s[k] /\ k \in 1 .. Len(s)
      /\ \A k \in 1 .. Len(t) : k > n => t[k] = s[k + 1] /\ k + 1 \in 1 .. Len(s)
      /\ s[n + 1] = Head(q)
  BY <1>1, <1>2, <1>3, SMTT(30)
<1>5. ASSUME NEW k \in 1 .. Len(t), NEW d \in Deps(t[k]), store[d] = "absent"
      PROVE  \E j \in 1 .. k - 1 : t[j] = d
  <2>1. Chain(s)
    BY DEF s
  <2>2. CASE k <= n
    <3>1. PICK j \in 1 .. k - 1 : s[j] = d
      BY <1>4, <1>5, <2>1, <2>2 DEF Chain
    <3>2. j \in 1 .. Len(t) /\ j <= n
      BY <1>1, <1>3, <2>2
    <3> QED
      BY <1>4, <3>1, <3>2
  <2>3. CASE k > n
    <3>1. k + 1 \in 1 .. Len(s) /\ t[k] = s[k + 1] /\ (k + 1) - 1 = k
      BY <1>4, <2>3
    <3>2. PICK j \in 1 .. k : s[j] = d
      BY <1>5, <2>1, <3>1 DEF Chain
    <3>3. CASE j <= n
      <4>1. j \in 1 .. Len(t) /\ j \in 1 .. k - 1
        BY <1>1, <1>3, <2>3, <3>3
      <4> QED
        BY <1>4, <3>2, <3>3, <4>1
    <3>4. CASE j = n + 1
      BY <1>4, <1>5, <3>2, <3>4
    <3>5. CASE j > n + 1
      <4>1. j - 1 \in 1 .. Len(t) /\ j - 1 \in 1 .. k - 1 /\ j - 1 > n /\ (j - 1) + 1 = j
        BY <1>1, <1>3, <2>3, <3>5
      <4> QED
        BY <1>4, <3>2, <4>1
    <3> QED
      BY <1>1, <3>2, <3>3, <3>4, <3>5
  <2> QED
    BY <1>1, <2>2, <2>3
<1> QED
  BY <1>5 DEF Chain, t

LEMMA ChainTail ==
    ASSUME NEW q \in Seq(Index), q # <<>>, Chain(q), store[Head(q)] # "absent"
    PROVE  Chain(Tail(q))
<1>1. <<>> \in Seq(Index) /\ <<>> \o q = q /\ Tail(q) \in Seq(Index)
  BY EmptySeq, ConcatEmptySeq, HeadTailProperties
<1>2. <<>> \o Tail(q) = Tail(q)
  BY <1>1, ConcatEmptySeq
<1>3. Chain(<<>> \o Tail(q))
  BY <1>1, ChainDrop
<1> QED
  BY <1>2, <1>3

LEMMA ChainMoves ==
    ASSUME NEW p \in Seq(Index), NEW q \in Seq(Index), q # <<>>
    PROVE  Append(p, Head(q)) \o Tail(q) = p \o q
<1> DEFINE s == p \o q
           a == Append(p, Head(q))
           t == a \o Tail(q)
           n == Len(p)
<1>1. /\ n \in Nat /\ Len(q) \in Nat /\ Len(q) > 0 /\ Head(q) = q[1] /\ Head(q) \in Index
      /\ Tail(q) \in Seq(Index) /\ Len(Tail(q)) = Len(q) - 1
      /\ \A k \in 1 .. Len(Tail(q)) : Tail(q)[k] = q[k + 1]
  BY HeadTailProperties, EmptySeq, LenProperties
<1>2. /\ s \in Seq(Index) /\ Len(s) = n + Len(q)
      /\ \A k \in 1 .. Len(s) : s[k] = IF k <= n THEN p[k] ELSE q[k - n]
  BY ConcatProperties
<1>3. a \in Seq(Index) /\ Len(a) = n + 1 /\ a[n + 1] = Head(q) /\ \A k \in 1 .. n : a[k] = p[k]
  BY <1>1, AppendProperties
<1>4. /\ t \in Seq(Index) /\ Len(t) = n + Len(q)
      /\ \A k \in 1 .. Len(t) : t[k] = IF k <= n + 1 THEN a[k] ELSE Tail(q)[k - (n + 1)]
  <2> DEFINE b == Tail(q)
  <2>1. a \in Seq(Index) /\ b \in Seq(Index)
    BY <1>1, <1>3
  <2> HIDE DEF a, b
  <2>2. /\ a \o b \in Seq(Index) /\ Len(a \o b) = Len(a) + Len(b)
        /\ \A k \in 1 .. Len(a) + Len(b) : (a \o b)[k] = IF k <= Len(a) THEN a[k] ELSE b[k - Len(a)]
    BY <2>1, ConcatProperties
  <2>3. Len(a) = n + 1 /\ Len(b) = Len(q) - 1 /\ Len(a) + Len(b) = n + Len(q)
    BY <1>1, <1>3 DEF b
  <2> QED
    BY <2>2, <2>3 DEF b
<1> HIDE DEF s, t, a
<1>5. ASSUME NEW k \in 1 .. Len(t) PROVE t[k] = s[k]
  <2>1. CASE k <= n
    <3>1. k \in 1 .. n /\ k \in 1 .. Len(s) /\ k <= n + 1
      BY <1>1, <1>2, <1>4, <2>1
    <3> QED
      BY <1>2, <1>3, <1>4, <2>1, <3>1
  <2>2. CASE k = n + 1
    BY <1>1, <1>2, <1>3, <1>4, <2>2
  <2>3. CASE k > n + 1
    <3>1. k - (n + 1) \in 1 .. Len(Tail(q)) /\ (k - (n + 1)) + 1 = k - n
      BY <1>1, <1>4, <2>3
    <3> QED
      BY <1>1, <1>2, <1>4, <2>3, <3>1
  <2> QED
    BY <1>1, <2>1, <2>2, <2>3
<1> QED
  BY <1>2, <1>4, <1>5, SeqEqual DEF s, t, a

(* A store that has no less keeps the order good.                           *)
LEMMA ChainStays ==
    ASSUME refs \in [Index -> SUBSET Index], NEW q \in Seq(Index), Chain(q), refs' = refs,
           \A i \in Index : store[i] # "absent" => store'[i] # "absent"
    PROVE  Chain(q)'
<1>1. \A k \in 1 .. Len(q) :
         q[k] \in Index /\ Deps(q[k]) \subseteq Index /\ Deps(q[k])' = Deps(q[k])
  BY ElementOfSeq DEF Deps
<1> QED
  BY <1>1 DEF Chain

(* So does registering the first of them.                                   *)
LEMMA ChainRegisters ==
    ASSUME refs \in [Index -> SUBSET Index], NEW q \in Seq(Index), q # <<>>, Chain(q),
           refs' = refs, store'[Head(q)] # "absent",
           \A i \in Index : store[i] # "absent" => store'[i] # "absent"
    PROVE  Chain(Tail(q))'
<1> DEFINE t == Tail(q)
<1>1. /\ Len(q) \in Nat /\ Head(q) = q[1] /\ Len(t) = Len(q) - 1
      /\ \A k \in 1 .. Len(t) : t[k] = q[k + 1] /\ k + 1 \in 1 .. Len(q) /\ (k + 1) - 1 = k
  BY HeadTailProperties, LenProperties
<1>2. Chain(q)'
  BY ChainStays
<1> HIDE DEF t
<1>3. ASSUME NEW k \in 1 .. Len(t), NEW d \in Deps(t[k])', store'[d] = "absent"
      PROVE  \E j \in 1 .. k - 1 : t[j] = d
  <2>1. PICK j \in 1 .. k : q[j] = d
    BY <1>1, <1>2, <1>3, SMTT(30) DEF Chain, Deps
  <2>2. j # 1
    BY <1>1, <1>3, <2>1
  <2>3. j - 1 \in 1 .. k - 1 /\ j - 1 \in 1 .. Len(t) /\ (j - 1) + 1 = j
    BY <1>1, <2>2
  <2> QED
    BY <1>1, <2>1, <2>3
<1> QED
  BY <1>3 DEF Chain, t

LEMMA OrderedStays ==
    ASSUME Ordered,
           \/ UNCHANGED <<pc, refs, order, todo, store>>
           \/ pc' \notin {"check", "urls", "fetch", "register"}
    PROVE  Ordered'
BY DEF Ordered, Chain, Deps

(* Moving on through the inputs, with the store as it was, keeps it too.    *)
LEMMA ChainUnmoved ==
    ASSUME NEW q, Chain(q), refs' = refs, store' = store, todo' \o order' = q
    PROVE  Chain(todo \o order)'
<1> DEFINE C(r) == \A k \in 1 .. Len(r) : \A d \in refs'[r[k]] \ {r[k]} :
                      store'[d] # "absent" \/ \E j \in 1 .. k - 1 : r[j] = d
<1>1. C(q)
  BY DEF Chain, Deps
<1>2. C(todo' \o order') <=> Chain(todo \o order)'
  BY Zenon DEF Chain, Deps
<1> HIDE DEF C
<1>3. C(todo' \o order')
  BY <1>1, Zenon
<1> QED
  BY <1>2, <1>3

(* What is left to register is in order.                                    *)
LEMMA OrderedStep ==
    ASSUME IInv, [Next]_vars
    PROVE  Ordered'
<1> USE DEF jobVars, fetchVars, connVars, buildVars, uploadVars, WorkerRests
<1>1. ASSUME NEW i \in Index, AcquirePermit(i) PROVE Ordered'
  BY <1>1, OrderedStays DEF AcquirePermit, IInv
<1>2. ASSUME NEW i \in Index, DownloadToSpool(i) PROVE Ordered'
  BY <1>2, OrderedStays DEF DownloadToSpool, IInv
<1>3. CASE Connect
  BY <1>3, OrderedStays DEF Connect, Ask, IInv
<1>4. CASE Opened
  BY <1>4, OrderedStays DEF Opened, Abort, IInv
<1>5. CASE Reopened
  BY <1>5, OrderedStays DEF Reopened, TakeReply, IInv
<1>6. CASE SortInputs
  <2>1. refs' = refs /\ store' = store
    BY <1>6 DEF SortInputs
  <2>2. CASE order' = TopoSortInputs /\ ((todo' = <<>> /\ pc' = "check") \/ pc' = "urls")
    <3>1. \A q : q = TopoSortInputs => Chain(q)'
      BY <2>1, TopoSorted, ZenonT(60) DEF Taken, Chain, Deps
    <3>2. TopoSortInputs \in Seq(Index)
      BY TopoSorted
    <3>3. PICK q : q = TopoSortInputs
      OBVIOUS
    <3>4. q \in Seq(Index) /\ <<>> \o q = q /\ Chain(q)' /\ order' = q
      BY <2>2, <3>1, <3>2, <3>3, ConcatEmptySeq
    <3>5. todo' = <<>> => todo' \o order' = q
      BY <3>4
    <3> QED
      BY <2>2, <3>4, <3>5 DEF Ordered, Chain
  <2>3. CASE pc' \in {"outputs", "report"}
    BY <2>3, OrderedStays DEF IInv
  <2> HIDE DEF TopoSortInputs
  <2> QED
    BY <1>6, <2>2, <2>3 DEF SortInputs
<1>7. CASE AskValid
  BY <1>7, OrderedStays DEF AskValid, Ask, IInv
<1>8. CASE SkipAlreadyValid
  <2>1. CASE pc' = "report"
    BY <2>1, OrderedStays DEF IInv
  <2>2. CASE /\ Reply.ok /\ order' = Tail(order) /\ pc' = pc
             /\ todo' = IF Reply.answer = "valid" THEN todo ELSE Append(todo, Head(order))
    <3>1. pc = "check" /\ refs' = refs /\ store' = store /\ Readable
      BY <1>8 DEF SkipAlreadyValid
    <3>2. Faithful /\ asked # None
      BY <3>1, Answered DEF IInv
    <3>3. order # <<>> /\ order \in Seq(Index) /\ todo \in Seq(Index) /\ Chain(todo \o order)
      BY <3>1, <3>2 DEF IInv, Fetching, Ordered, FetchTypes
    <3>4. CASE Reply.answer = "valid"
      <4>1. store[Head(order)] # "absent"
        BY <2>2, <3>1, <3>2, <3>4 DEF Faithful, Says
      <4>2. Chain(todo \o Tail(order))
        BY <3>3, <4>1, ChainDrop
      <4>3. todo' \o order' = todo \o Tail(order)
        BY <2>2, <3>4
      <4>4. PICK q : q = todo \o Tail(order)
        OBVIOUS
      <4>5. Chain(todo \o order)'
        BY <3>1, <4>2, <4>3, <4>4, ChainUnmoved
      <4> QED
        BY <2>2, <3>1, <4>5 DEF Ordered
    <3>5. CASE Reply.answer # "valid"
      <4>1. todo' \o order' = todo \o order
        BY <2>2, <3>3, <3>5, ChainMoves
      <4>2. PICK q : q = todo \o order
        OBVIOUS
      <4>3. Chain(todo \o order)'
        BY <3>1, <3>3, <4>1, <4>2, ChainUnmoved
      <4> QED
        BY <2>2, <3>1, <4>3 DEF Ordered
    <3> QED
      BY <3>4, <3>5
  <2> HIDE DEF Reply
  <2> QED
    BY <1>8, <2>1, <2>2 DEF SkipAlreadyValid, Abort
<1>9. CASE Checked
  <2>1. pc = "check" /\ order = <<>> /\ refs' = refs /\ store' = store /\ todo \in Seq(Index)
    BY <1>9 DEF Checked, IInv, FetchTypes
  <2>2. todo \o order = todo
    BY <2>1, ConcatEmptySeq
  <2>3. Chain(todo)
    BY <2>1, <2>2 DEF IInv, Ordered
  <2>4. CASE pc' = "urls" /\ order' = todo
    BY <2>1, <2>3, <2>4 DEF Ordered, Chain, Deps
  <2> QED
    BY <1>9, <2>4, OrderedStays DEF Checked, IInv
<1>10. CASE RequestDownloadUrls
  BY <1>10 DEF RequestDownloadUrls, Abort, IInv, Ordered, Chain, Deps
<1>11. CASE Receive
  BY <1>11, OrderedStays DEF Receive, Abort, IInv
<1>12. CASE RegisterInput
  BY <1>12 DEF RegisterInput, IInv, Ordered, Chain, Deps
<1>13. CASE Registered
  <2>1. CASE pc' = "report"
    BY <2>1, OrderedStays DEF IInv
  <2>2. CASE Reply.ok /\ order' = Tail(order) /\ pc' = "fetch"
    <3>1. pc = "register" /\ refs' = refs /\ store' = store /\ Readable
      BY <1>13 DEF Registered
    <3>2. Faithful
      BY <3>1, Answered DEF IInv
    <3>3. order # <<>> /\ order \in Seq(Index) /\ Chain(order)
      BY <3>1 DEF IInv, Fetching, Ordered, FetchTypes
    <3>4. store[Head(order)] # "absent"
      BY <2>2, <3>1, <3>2 DEF Faithful, Says
    <3>5. Chain(Tail(order))
      BY <3>3, <3>4, ChainTail
    <3> QED
      BY <2>2, <3>1, <3>5 DEF Ordered, Chain, Deps
  <2> HIDE DEF Reply
  <2> QED
    BY <1>13, <2>1, <2>2 DEF Registered, Abort
<1>14. CASE ImportSpooled
  <2>1. CASE pc' = "report"
    BY <2>1, OrderedStays DEF IInv
  <2>2. CASE pc' # "report"
    <3> DEFINE i == Head(order)
    <3>1. /\ pc = "fetch" /\ pc' = pc /\ refs' = refs /\ order # <<>> /\ order' = Tail(order)
          /\ store' = [store EXCEPT ![i] = spool[i]] /\ i \in ready
      BY <1>14, <2>2 DEF ImportSpooled, Abort
    <3>2. order \in Seq(Index) /\ Chain(order) /\ i \in Index /\ spool[i] = "recorded"
      BY <3>1, HeadTailProperties DEF IInv, Fetching, Ordered, FetchTypes
    <3>3. store'[i] # "absent" /\ \A j \in Index : store[j] # "absent" => store'[j] # "absent"
      BY <3>1, <3>2 DEF IInv, FetchTypes
    <3>4. PICK q \in Seq(Index) : q = order
      BY <3>2
    <3>5. Chain(q) /\ q # <<>> /\ store'[Head(q)] # "absent"
      BY <3>1, <3>2, <3>3, <3>4
    <3>6. Chain(Tail(q))'
      BY <3>1, <3>3, <3>5, ChainRegisters DEF IInv, JobTypes
    <3> QED
      BY <3>1, <3>4, <3>6 DEF Ordered, Chain
  <2> QED
    BY <2>1, <2>2
<1>15. CASE Fetched
  BY <1>15, OrderedStays DEF Fetched, IInv
<1>16. CASE DeclaredOutputs
  BY <1>16, OrderedStays DEF DeclaredOutputs, Abort, IInv
<1>17. CASE AskBuild
  BY <1>17, OrderedStays DEF AskBuild, Ask, IInv
<1>18. CASE BuildDone
  BY <1>18, OrderedStays DEF BuildDone, TakeReply, IInv
<1>19. CASE ServeFails
  BY <1>19, OrderedStays DEF ServeFails, IInv
<1>20. CASE ServeBuild
  BY <1>20, OrderedStays DEF ServeBuild, IInv
<1>21. CASE GiveUp
  BY <1>21, OrderedStays DEF GiveUp, IInv
<1>22. CASE Retry
  BY <1>22, OrderedStays DEF Retry, Reconnect, IInv
<1>23. CASE GuestHung
  BY <1>23, OrderedStays DEF GuestHung, Reconnect, IInv
<1>24. CASE RequestUploadUrls
  BY <1>24, OrderedStays DEF RequestUploadUrls, UploadFails, IInv
<1>25. CASE UploadLog
  BY <1>25, OrderedStays DEF UploadLog, UploadFails, IInv
<1>26. CASE AskNar
  BY <1>26, OrderedStays DEF AskNar, Ask, IInv
<1>27. CASE Dumped
  BY <1>27, OrderedStays DEF Dumped, TakeReply, UploadFails, IInv
<1>28. CASE DumpPath
  BY <1>28, OrderedStays DEF DumpPath, UploadFails, IInv
<1>29. CASE PutOutput
  BY <1>29, OrderedStays DEF PutOutput, UploadFails, IInv
<1>30. CASE AskMetadata
  BY <1>30, OrderedStays DEF AskMetadata, Ask, IInv
<1>31. CASE PathMetadata
  BY <1>31, OrderedStays DEF PathMetadata, TakeReply, UploadFails, Collect, IInv
<1>32. CASE QueryPathMetadata
  BY <1>32, OrderedStays DEF QueryPathMetadata, UploadFails, Collect, IInv
<1>33. CASE PublishResult
  BY <1>33, OrderedStays DEF PublishResult, IInv
<1>34. CASE DaemonAdds /\ WorkerRests
  <2>1. pc = "register" /\ Arg = Head(order) /\ Head(order) \in Index
        /\ spool[Head(order)] = "recorded"
    BY <1>34, AddsHead DEF DaemonAdds, IInv
  <2>2. pc' = pc /\ refs' = refs /\ order' = order
    BY <1>34
  <2>3. \A i \in Index : store[i] # "absent" => store'[i] # "absent"
    BY <1>34, <2>1 DEF DaemonAdds, IInv, FetchTypes
  <2>4. PICK q \in Seq(Index) : q = order
    BY DEF IInv, FetchTypes
  <2>5. Chain(q)
    BY <2>1, <2>4 DEF IInv, Ordered
  <2>6. Chain(q)'
    BY <2>2, <2>3, <2>5, ChainStays DEF IInv, JobTypes
  <2> QED
    BY <2>1, <2>2, <2>4, <2>6 DEF Ordered, Chain
<1>35. CASE DaemonBuilds /\ WorkerRests
  BY <1>35, OrderedStays DEF DaemonBuilds, Send, IInv
<1>36. CASE DaemonReads /\ WorkerRests
  BY <1>36, OrderedStays DEF DaemonReads, Send, IInv
<1>37. CASE UNCHANGED vars
  BY <1>37, OrderedStays DEF IInv, vars
<1> QED
  BY <1>1, <1>2, <1>3, <1>4, <1>5, <1>6, <1>7, <1>8, <1>9, <1>10, <1>11, <1>12, <1>13, <1>14,
       <1>15, <1>16, <1>17, <1>18, <1>19, <1>20, <1>21, <1>22, <1>23, <1>24, <1>25, <1>26, <1>27,
       <1>28, <1>29, <1>30, <1>31, <1>32, <1>33, <1>34, <1>35, <1>36, <1>37, Zenon DEF Next,
       Downloads, Worker, DaemonAnswers

(* The sizes of the pools.                                                  *)
LEMMA Sizes ==
    ASSUME NEW S, S \subseteq Index
    PROVE  IsFiniteSet(S) /\ Cardinality(S) \in Nat /\ Cardinality(S) <= NumInputs
<1>1. IsFiniteSet(Index) /\ Cardinality(Index) = NumInputs
  <2>1. 1 \in Int /\ NumInputs \in Int
    BY CountsAssumption
  <2> QED
    BY <2>1, CountsAssumption, FS_Interval DEF Index
<1> QED
  BY <1>1, FS_Subset, FS_CardinalityType

LEMMA BoundedStays ==
    ASSUME Bounded, order' = order, todo' = todo, task' = task, channel' = channel,
           pc' = pc \/ pc' # "check"
    PROVE  Bounded'
BY DEF Bounded, Running, Pending

LEMMA Lengths ==
    ASSUME FetchTypes
    PROVE  /\ Len(order) \in Nat /\ Len(todo) \in Nat /\ Len(channel) \in Nat
           /\ order # <<>> => Len(order) > 0 /\ Len(Tail(order)) = Len(order) - 1
           /\ channel # <<>> => Len(channel) > 0 /\ Len(Tail(channel)) = Len(channel) - 1
           /\ \A x : /\ Len(Append(todo, x)) = Len(todo) + 1
                     /\ Len(Append(channel, x)) = Len(channel) + 1
<1> DEFINE R == [input : Index, ok : BOOLEAN]
<1>1. order \in Seq(Index) /\ todo \in Seq(Index) /\ channel \in Seq(R)
  BY DEF FetchTypes
<1> HIDE DEF R
<1>2. Len(order) \in Nat /\ Len(todo) \in Nat /\ Len(channel) \in Nat
  BY <1>1, LenProperties
<1> QED
  BY <1>1, <1>2, HeadTailProperties, EmptySeq

(* No pool outgrows its bound.                                              *)
LEMMA BoundedStep ==
    ASSUME IInv, [Next]_vars
    PROVE  Bounded'
<1> USE DEF jobVars, fetchVars, connVars, buildVars, uploadVars, WorkerRests
<1>1. ASSUME NEW i \in Index, AcquirePermit(i) PROVE Bounded'
  <2>1. /\ task' = [task EXCEPT ![i] = "running"] /\ task[i] = "queued"
        /\ Cardinality(Running) < MaxParallel /\ UNCHANGED <<pc, order, todo, channel>>
    BY <1>1 DEF AcquirePermit, Running
  <2>2. Running' = Running \cup {i} /\ i \notin Running /\ Pending' = Pending
    BY <2>1 DEF Running, Pending, IInv, FetchTypes
  <2>3. IsFiniteSet(Running) /\ Cardinality(Running) \in Nat
    BY Sizes DEF Running
  <2>4. Cardinality(Running \cup {i}) = Cardinality(Running) + 1
    BY <2>2, <2>3, FS_AddElement
  <2>5. Cardinality(Running') <= MaxParallel
    BY <2>1, <2>2, <2>3, <2>4, CountsAssumption
  <2> QED
    BY <2>1, <2>2, <2>5 DEF IInv, Bounded
<1>2. ASSUME NEW i \in Index, DownloadToSpool(i) PROVE Bounded'
  <2>1. /\ task' = [task EXCEPT ![i] = "none"] /\ task[i] = "running"
        /\ UNCHANGED <<pc, order, todo>> /\ Len(channel') = Len(channel) + 1
    BY <1>2, Lengths DEF DownloadToSpool, IInv
  <2>2. Running' \subseteq Running /\ Pending' = Pending \ {i} /\ i \in Pending
    BY <2>1 DEF Running, Pending, IInv, FetchTypes
  <2>3. IsFiniteSet(Running) /\ Cardinality(Running) \in Nat /\ IsFiniteSet(Pending)
        /\ Cardinality(Pending) \in Nat
    BY Sizes DEF Running, Pending
  <2>4. Cardinality(Running') <= Cardinality(Running) /\ Cardinality(Running') \in Nat
    BY <2>2, <2>3, FS_Subset, FS_CardinalityType
  <2>5. Cardinality(Pending') = Cardinality(Pending) - 1
    BY <2>2, <2>3, FS_RemoveElement
  <2>6. Len(channel) \in Nat
    BY Lengths DEF IInv
  <2>7. /\ Cardinality(Running') <= MaxParallel
        /\ Len(channel') + Cardinality(Pending') <= NumInputs
    BY <2>1, <2>3, <2>4, <2>5, <2>6, CountsAssumption DEF IInv, Bounded
  <2> QED
    BY <2>1, <2>7 DEF IInv, Bounded
<1>3. CASE Connect
  BY <1>3, BoundedStays DEF Connect, Ask, IInv
<1>4. CASE Opened
  BY <1>4, BoundedStays DEF Opened, TakeReply, Abort, IInv
<1>5. CASE Reopened
  BY <1>5, BoundedStays DEF Reopened, TakeReply, IInv
<1>6. CASE SortInputs
  <2>1. task' = task /\ channel' = channel
    BY <1>6 DEF SortInputs
  <2>2. Running' = Running /\ Pending' = Pending
    BY <2>1 DEF Running, Pending
  <2>3. PICK q : q = TopoSortInputs
    OBVIOUS
  <2>4. CASE UNCHANGED <<order, todo>> /\ pc' # "check"
    BY <2>1, <2>4, BoundedStays DEF IInv
  <2>5. CASE Len(q) = NumInputs /\ order' = q /\ pc' = "check" /\ todo' = <<>>
    BY <2>1, <2>2, <2>5, CountsAssumption DEF IInv, Bounded
  <2>6. CASE Len(q) = NumInputs /\ order' = q /\ pc' = "urls" /\ todo' = q
    BY <2>1, <2>2, <2>6, CountsAssumption DEF IInv, Bounded
  <2>7. \/ pc' \in {"outputs", "report"} /\ UNCHANGED <<order, todo>>
        \/ Len(q) = NumInputs /\ order' = q /\ pc' = "check" /\ todo' = <<>>
        \/ Len(q) = NumInputs /\ order' = q /\ pc' = "urls" /\ todo' = q
    BY <1>6, <2>3, Zenon DEF SortInputs
  <2> QED
    BY <2>4, <2>5, <2>6, <2>7
<1>7. CASE AskValid
  BY <1>7, BoundedStays DEF AskValid, Ask, IInv
<1>8. CASE SkipAlreadyValid
  <2>1. task' = task /\ channel' = channel
    BY <1>8 DEF SkipAlreadyValid
  <2>2. Running' = Running /\ Pending' = Pending
    BY <2>1 DEF Running, Pending
  <2>3. pc = "check" /\ Readable
    BY <1>8 DEF SkipAlreadyValid
  <2>4. order # <<>>
    BY <2>3, Answered DEF IInv, Fetching
  <2>5. \/ order' = order /\ todo' = todo /\ pc' # "check"
        \/ order' = Tail(order) /\ (todo' = todo \/ todo' = Append(todo, Head(order)))
    BY <1>8 DEF SkipAlreadyValid, Abort
  <2>6. /\ Len(order) \in Nat /\ Len(todo) \in Nat /\ Len(Tail(order)) = Len(order) - 1
        /\ Len(Append(todo, Head(order))) = Len(todo) + 1
    BY <2>4, Lengths DEF IInv
  <2> QED
    BY <2>1, <2>2, <2>3, <2>5, <2>6, CountsAssumption DEF IInv, Bounded
<1>9. CASE Checked
  <2>1. task' = task /\ channel' = channel
    BY <1>9 DEF Checked
  <2>2. Running' = Running /\ Pending' = Pending
    BY <2>1 DEF Running, Pending
  <2>3. (order' = order \/ order' = todo) /\ todo' = todo /\ pc' # "check"
    BY <1>9 DEF Checked
  <2> QED
    BY <2>1, <2>2, <2>3 DEF IInv, Bounded
<1>10. CASE RequestDownloadUrls
  <2>1. UNCHANGED <<order, todo, channel>> /\ pc' # "check" /\ pc = "urls"
    BY <1>10 DEF RequestDownloadUrls, Abort
  <2>2. CASE task' = task
    BY <2>1, <2>2, BoundedStays DEF IInv
  <2>3. CASE pc' = "fetch"
    <3>1. channel = <<>> /\ Len(<<>>) = 0
      BY <2>1 DEF IInv, Fetching, Early
    <3>2. \A i \in Index : task'[i] # "running"
      BY <1>10, <2>3 DEF RequestDownloadUrls, Abort
    <3>3. Running' = {}
      BY <3>2 DEF Running
    <3>4. Cardinality(Running') = 0
      BY <3>3, FS_EmptySet
    <3>5. Pending' \subseteq Index
      BY DEF Pending
    <3>6. Cardinality(Pending') \in Nat /\ Cardinality(Pending') <= NumInputs
      BY <3>5, Sizes
    <3>7. Len(channel') + Cardinality(Pending') <= NumInputs
      BY <2>1, <3>1, <3>6, CountsAssumption
    <3> QED
      BY <2>1, <3>4, <3>7, CountsAssumption DEF IInv, Bounded
  <2> QED
    BY <1>10, <2>2, <2>3 DEF RequestDownloadUrls
<1>11. CASE Receive
  <2>1. /\ UNCHANGED <<order, todo, task>> /\ (pc' = pc \/ pc' # "check")
        /\ channel # <<>> /\ channel' = Tail(channel)
    BY <1>11 DEF Receive, Abort
  <2>2. Running' = Running /\ Pending' = Pending
    BY <2>1 DEF Running, Pending
  <2>3. Len(channel') = Len(channel) - 1 /\ Len(channel) \in Nat
    BY <2>1, Lengths DEF IInv
  <2>4. Cardinality(Pending) \in Nat
    BY Sizes DEF Pending
  <2>5. Len(channel') + Cardinality(Pending') <= NumInputs
    BY <2>2, <2>3, <2>4, CountsAssumption DEF IInv, Bounded
  <2> QED
    BY <2>1, <2>2, <2>5 DEF IInv, Bounded
<1>12. CASE RegisterInput
  BY <1>12, BoundedStays DEF RegisterInput, Ask, IInv
<1>13. CASE Registered
  <2>1. task' = task /\ channel' = channel
    BY <1>13 DEF Registered
  <2>2. Running' = Running /\ Pending' = Pending
    BY <2>1 DEF Running, Pending
  <2>3. order # <<>> /\ todo' = todo /\ pc' # "check"
    BY <1>13 DEF Registered, IInv, Fetching, Abort
  <2>4. order' = order \/ order' = Tail(order)
    BY <1>13 DEF Registered
  <2>5. Len(order) \in Nat /\ Len(Tail(order)) = Len(order) - 1
    BY <2>3, Lengths DEF IInv
  <2> QED
    BY <2>1, <2>2, <2>3, <2>4, <2>5, CountsAssumption DEF IInv, Bounded
<1>14. CASE ImportSpooled
  <2>1. task' = task /\ channel' = channel
    BY <1>14 DEF ImportSpooled
  <2>2. Running' = Running /\ Pending' = Pending
    BY <2>1 DEF Running, Pending
  <2>3. order # <<>> /\ todo' = todo /\ pc' # "check"
    BY <1>14 DEF ImportSpooled, Abort
  <2>4. order' = order \/ order' = Tail(order)
    BY <1>14 DEF ImportSpooled
  <2>5. Len(order) \in Nat /\ Len(Tail(order)) = Len(order) - 1
    BY <2>3, Lengths DEF IInv
  <2> QED
    BY <2>1, <2>2, <2>3, <2>4, <2>5, CountsAssumption DEF IInv, Bounded
<1>15. CASE Fetched
  <2>1. task' = task /\ channel' = channel
    BY <1>15 DEF Fetched
  <2>2. Running' = Running /\ Pending' = Pending
    BY <2>1 DEF Running, Pending
  <2>3. order' = order /\ todo' = <<>> /\ pc' # "check" /\ Len(<<>>) = 0
    BY <1>15 DEF Fetched
  <2> QED
    BY <2>1, <2>2, <2>3, CountsAssumption DEF IInv, Bounded
<1>16. CASE DeclaredOutputs
  BY <1>16, BoundedStays DEF DeclaredOutputs, Abort, IInv
<1>17. CASE AskBuild
  BY <1>17, BoundedStays DEF AskBuild, Ask, IInv
<1>18. CASE BuildDone
  BY <1>18, BoundedStays DEF BuildDone, TakeReply, IInv
<1>19. CASE ServeFails
  BY <1>19, BoundedStays DEF ServeFails, IInv
<1>20. CASE ServeBuild
  BY <1>20, BoundedStays DEF ServeBuild, IInv
<1>21. CASE GiveUp
  BY <1>21, BoundedStays DEF GiveUp, IInv
<1>22. CASE Retry
  BY <1>22, BoundedStays DEF Retry, Reconnect, IInv
<1>23. CASE GuestHung
  BY <1>23, BoundedStays DEF GuestHung, Reconnect, IInv
<1>24. CASE RequestUploadUrls
  BY <1>24, BoundedStays DEF RequestUploadUrls, UploadFails, IInv
<1>25. CASE UploadLog
  BY <1>25, BoundedStays DEF UploadLog, UploadFails, IInv
<1>26. CASE AskNar
  BY <1>26, BoundedStays DEF AskNar, Ask, IInv
<1>27. CASE Dumped
  BY <1>27, BoundedStays DEF Dumped, TakeReply, UploadFails, IInv
<1>28. CASE DumpPath
  BY <1>28, BoundedStays DEF DumpPath, UploadFails, IInv
<1>29. CASE PutOutput
  BY <1>29, BoundedStays DEF PutOutput, UploadFails, IInv
<1>30. CASE AskMetadata
  BY <1>30, BoundedStays DEF AskMetadata, Ask, IInv
<1>31. CASE PathMetadata
  BY <1>31, BoundedStays DEF PathMetadata, TakeReply, UploadFails, Collect, IInv
<1>32. CASE QueryPathMetadata
  BY <1>32, BoundedStays DEF QueryPathMetadata, UploadFails, Collect, IInv
<1>33. CASE PublishResult
  BY <1>33, BoundedStays DEF PublishResult, IInv
<1>34. CASE DaemonAdds /\ WorkerRests
  BY <1>34, BoundedStays DEF DaemonAdds, Send, IInv
<1>35. CASE DaemonBuilds /\ WorkerRests
  BY <1>35, BoundedStays DEF DaemonBuilds, Send, IInv
<1>36. CASE DaemonReads /\ WorkerRests
  BY <1>36, BoundedStays DEF DaemonReads, Send, IInv
<1>37. CASE UNCHANGED vars
  BY <1>37, BoundedStays DEF IInv, vars
<1> QED
  BY <1>1, <1>2, <1>3, <1>4, <1>5, <1>6, <1>7, <1>8, <1>9, <1>10, <1>11, <1>12, <1>13, <1>14,
       <1>15, <1>16, <1>17, <1>18, <1>19, <1>20, <1>21, <1>22, <1>23, <1>24, <1>25, <1>26, <1>27,
       <1>28, <1>29, <1>30, <1>31, <1>32, <1>33, <1>34, <1>35, <1>36, <1>37, Zenon DEF Next,
       Downloads, Worker, DaemonAnswers

(* The upload of the output in turn.                                        *)
LEMMA InTurn ==
    ASSUME IInv, pc \in Uploads
    PROVE  /\ Current \in Outputs /\ artifacts[Current] = None /\ built[Current] \in Nars
           /\ \A p \in Outputs : artifacts[p] = None <=> p >= Current
<1>1. PICK o \in Outputs : \A p \in Outputs : artifacts[p] = None <=> p >= o
  BY DEF IInv, Uploading
<1>2. Current = o
  BY <1>1, CurrentIs
<1>3. o >= o
  BY CountsAssumption DEF Outputs
<1>4. built \in [Outputs -> Nars]
  BY DEF IInv, Outcome, Uploads
<1> QED
  BY <1>1, <1>2, <1>3, <1>4

LEMMA NothingType ==
    Nothing \in [Outputs -> [nar : Nars, metadata : BOOLEAN] \cup {None}]
BY DEF Nothing

(* The daemon builds for a job that has nothing uploaded.                   *)
LEMMA BuildsFor ==
    ASSUME IInv, Asked("build")
    PROVE  /\ pc = "build" \/ Left
           /\ artifacts = Nothing /\ pc \notin Uploads /\ ~ logKey
<1>1. pc = "build" \/ Left
  BY AskedOf DEF IInv, OpOf, ReadsReply
<1> QED
  BY <1>1 DEF IInv, Uploading, Uploads, Left, Over, Logged

(* The upload is typed.                                                     *)
LEMMA UploadTypesStep ==
    ASSUME IInv, [Next]_vars
    PROVE  UploadTypes'
<1> USE DEF jobVars, fetchVars, connVars, buildVars, uploadVars, WorkerRests
<1>1. ASSUME NEW i \in Index, AcquirePermit(i) PROVE UploadTypes'
  BY <1>1 DEF AcquirePermit, IInv, UploadTypes
<1>2. ASSUME NEW i \in Index, DownloadToSpool(i) PROVE UploadTypes'
  BY <1>2 DEF DownloadToSpool, IInv, UploadTypes
<1>3. CASE Connect
  BY <1>3 DEF Connect, Ask, IInv, UploadTypes
<1>4. CASE Opened
  BY <1>4 DEF Opened, TakeReply, Abort, IInv, UploadTypes
<1>5. CASE Reopened
  BY <1>5 DEF Reopened, TakeReply, IInv, UploadTypes
<1>6. CASE SortInputs
  BY <1>6 DEF SortInputs, IInv, UploadTypes
<1>7. CASE AskValid
  BY <1>7 DEF AskValid, Ask, IInv, UploadTypes
<1>8. CASE SkipAlreadyValid
  BY <1>8 DEF SkipAlreadyValid, TakeReply, Abort, IInv, UploadTypes
<1>9. CASE Checked
  BY <1>9 DEF Checked, IInv, UploadTypes
<1>10. CASE RequestDownloadUrls
  BY <1>10 DEF RequestDownloadUrls, Abort, IInv, UploadTypes
<1>11. CASE Receive
  BY <1>11 DEF Receive, Abort, IInv, UploadTypes
<1>12. CASE RegisterInput
  BY <1>12 DEF RegisterInput, Ask, IInv, UploadTypes
<1>13. CASE Registered
  BY <1>13 DEF Registered, TakeReply, Abort, IInv, UploadTypes
<1>14. CASE ImportSpooled
  BY <1>14 DEF ImportSpooled, Abort, IInv, UploadTypes
<1>15. CASE Fetched
  BY <1>15 DEF Fetched, IInv, UploadTypes
<1>16. CASE DeclaredOutputs
  BY <1>16 DEF DeclaredOutputs, Abort, IInv, UploadTypes
<1>17. CASE AskBuild
  BY <1>17 DEF AskBuild, Ask, IInv, UploadTypes
<1>18. CASE BuildDone
  BY <1>18 DEF BuildDone, TakeReply, IInv, UploadTypes
<1>19. CASE ServeFails
  BY <1>19 DEF ServeFails, IInv, UploadTypes
<1>20. CASE ServeBuild
  <2>1. built' \in [Outputs -> Nars] \/ built' = built
    BY <1>20, Zenon DEF ServeBuild
  <2>2. UNCHANGED <<spooled, objects, artifacts>>
    BY <1>20 DEF ServeBuild
  <2> QED
    BY <2>1, <2>2 DEF IInv, UploadTypes
<1>21. CASE GiveUp
  BY <1>21 DEF GiveUp, IInv, UploadTypes
<1>22. CASE Retry
  BY <1>22 DEF Retry, Reconnect, IInv, UploadTypes
<1>23. CASE GuestHung
  BY <1>23 DEF GuestHung, Reconnect, IInv, UploadTypes
<1>24. CASE RequestUploadUrls
  BY <1>24, NothingType DEF RequestUploadUrls, UploadFails, IInv, UploadTypes
<1>25. CASE UploadLog
  BY <1>25, NothingType DEF UploadLog, UploadFails, IInv, UploadTypes
<1>26. CASE AskNar
  BY <1>26 DEF AskNar, Ask, IInv, UploadTypes
<1>27. CASE Dumped
  <2>1. pc = "dump" /\ Readable
    BY <1>27 DEF Dumped
  <2>2. Faithful
    BY <2>1, Answered DEF IInv
  <2>3. Reply.ok => Reply.answer = built[Current]
    BY <2>1, <2>2 DEF Faithful, Says
  <2>4. built[Current] \in Nars
    BY <2>1, InTurn DEF Uploads
  <2> HIDE DEF Reply
  <2> QED
    BY <1>27, <2>3, <2>4, NothingType DEF Dumped, UploadFails, IInv, UploadTypes
<1>28. CASE DumpPath
  <2>1. built[Current] \in Nars
    BY <1>28, InTurn DEF DumpPath, Uploads
  <2> QED
    BY <1>28, <2>1, NothingType DEF DumpPath, UploadFails, IInv, UploadTypes
<1>29. CASE PutOutput
  <2>1. Current \in Outputs
    BY <1>29, InTurn DEF PutOutput, Uploads
  <2> QED
    BY <1>29, <2>1, NothingType DEF PutOutput, UploadFails, IInv, UploadTypes
<1>30. CASE AskMetadata
  BY <1>30 DEF AskMetadata, Ask, IInv, UploadTypes
<1>31. CASE PathMetadata
  <2>1. spooled[Current] \in Nars
    BY <1>31, InTurn DEF PathMetadata, Uploads, IInv, Uploading
  <2>2. [nar |-> spooled[Current], metadata |-> TRUE] \in [nar : Nars, metadata : BOOLEAN]
    BY <2>1
  <2>3. UNCHANGED <<built, spooled, objects>> /\ (UploadFails \/ Collect(TRUE))
    BY <1>31 DEF PathMetadata
  <2> QED
    BY <2>2, <2>3, NothingType DEF UploadFails, Collect, IInv, UploadTypes
<1>32. CASE QueryPathMetadata
  <2>1. spooled[Current] \in Nars
    BY <1>32, InTurn DEF QueryPathMetadata, Uploads, IInv, Uploading
  <2>2. \A m \in BOOLEAN :
           [nar |-> spooled[Current], metadata |-> m] \in [nar : Nars, metadata : BOOLEAN]
    BY <2>1
  <2> QED
    BY <1>32, <2>2, NothingType DEF QueryPathMetadata, UploadFails, Collect, IInv, UploadTypes
<1>33. CASE PublishResult
  BY <1>33 DEF PublishResult, IInv, UploadTypes
<1>34. CASE DaemonAdds /\ WorkerRests
  BY <1>34 DEF DaemonAdds, Send, IInv, UploadTypes
<1>35. CASE DaemonBuilds /\ WorkerRests
  <2>1. built' \in [Outputs -> Nars] \/ built' = built
    BY <1>35, Zenon DEF DaemonBuilds
  <2>2. UNCHANGED <<spooled, objects, artifacts>>
    BY <1>35 DEF DaemonBuilds
  <2> QED
    BY <2>1, <2>2 DEF IInv, UploadTypes
<1>36. CASE DaemonReads /\ WorkerRests
  BY <1>36 DEF DaemonReads, Send, IInv, UploadTypes
<1>37. CASE UNCHANGED vars
  BY <1>37 DEF IInv, UploadTypes, vars
<1> QED
  BY <1>1, <1>2, <1>3, <1>4, <1>5, <1>6, <1>7, <1>8, <1>9, <1>10, <1>11, <1>12, <1>13, <1>14,
       <1>15, <1>16, <1>17, <1>18, <1>19, <1>20, <1>21, <1>22, <1>23, <1>24, <1>25, <1>26, <1>27,
       <1>28, <1>29, <1>30, <1>31, <1>32, <1>33, <1>34, <1>35, <1>36, <1>37, Zenon DEF Next,
       Downloads, Worker, DaemonAnswers

LEMMA SameUpload ==
    ASSUME Uploading, UNCHANGED <<mode, pc, outcome, built, spooled, objects, artifacts>>
    PROVE  Uploading'
<1>1. Current' = Current
  BY SameCurrent
<1> HIDE DEF Current
<1> QED
  BY <1>1 DEF Uploading, Uploads, Nothing

LEMMA NotUploading ==
    ASSUME artifacts' = Nothing, pc' \notin Uploads,
           pc' \in {"report", "done"} => outcome' = "failed"
    PROVE  Uploading'
<1>1. \A o \in Outputs : artifacts'[o] = None
  BY DEF Nothing
<1> QED
  BY <1>1 DEF Uploading, Uploads, Nothing

LEMMA NotYetUploading ==
    ASSUME Uploading, pc \notin Uploads \cup {"report", "done"} \/ outcome # "completed",
           artifacts' = artifacts, pc' \notin Uploads,
           pc' \in {"report", "done"} => outcome' = "failed"
    PROVE  Uploading'
<1>1. artifacts' = Nothing
  BY DEF Uploading
<1> QED
  BY <1>1, NotUploading

(* An output collected after the ones before it.                            *)
LEMMA Collects ==
    ASSUME IInv, pc = "metadata", NEW m \in BOOLEAN, Collect(m), mode = "vm" => m,
           UNCHANGED <<mode, built, objects, spooled>>
    PROVE  Uploading'
<1> DEFINE c == Current
           a == [nar |-> spooled[c], metadata |-> m]
<1>1. /\ c \in Outputs /\ built[c] \in Nars
      /\ \A p \in Outputs : artifacts[p] = None <=> p >= c
  BY InTurn DEF Uploads
<1>2. spooled[c] = built[c] /\ objects[c] = built[c] /\ outcome = "completed"
  BY DEF IInv, Uploading, Outcome
<1>3. /\ artifacts' = [artifacts EXCEPT ![c] = a] /\ outcome' = outcome
      /\ pc' = IF c = NumOutputs THEN "report" ELSE "dump"
  BY DEF Collect, buildVars
<1> HIDE DEF c
<1>4. a \in [nar : Nars, metadata : BOOLEAN] /\ a.nar = built[c] /\ (mode = "vm" => a.metadata)
  BY <1>1, <1>2
<1>5. a # None
  BY <1>4, NoneAssumption
<1> HIDE DEF a
<1>6. /\ artifacts'[c] = a
      /\ \A p \in Outputs : p # c => artifacts'[p] = artifacts[p]
  BY <1>1, <1>3 DEF IInv, UploadTypes
<1>7. Outputs = 1 .. NumOutputs /\ NumOutputs \in Nat
  BY CountsAssumption DEF Outputs
<1>8. c # NumOutputs => \E o \in Outputs : \A p \in Outputs : artifacts'[p] = None <=> p >= o
  <2> SUFFICES ASSUME c # NumOutputs
               PROVE  c + 1 \in Outputs /\ \A p \in Outputs : artifacts'[p] = None <=> p >= c + 1
    OBVIOUS
  <2>1. c + 1 \in Outputs
    BY <1>1, <1>7
  <2>2. \A p \in Outputs : p >= c + 1 <=> p >= c /\ p # c
    BY <1>1, <1>7
  <2> QED
    BY <1>1, <1>5, <1>6, <2>1, <2>2
<1>9. c = NumOutputs => \A o \in Outputs : artifacts'[o] # None
  <2>1. c = NumOutputs => \A p \in Outputs : p >= c => p = c
    BY <1>1, <1>7
  <2> QED
    BY <1>1, <1>5, <1>6, <2>1
<1>10. \A o \in Outputs : artifacts'[o] # None =>
         /\ artifacts'[o].nar = built[o] /\ objects[o] = built[o]
         /\ mode = "vm" => artifacts'[o].metadata
  BY <1>2, <1>4, <1>6 DEF IInv, Uploading
<1> QED
  BY <1>2, <1>3, <1>8, <1>9, <1>10 DEF Uploading, Uploads

(* What is collected was stored as it was built.                            *)
LEMMA UploadingStep ==
    ASSUME IInv, [Next]_vars
    PROVE  Uploading'
<1> USE DEF jobVars, fetchVars, connVars, buildVars, uploadVars, WorkerRests
<1>1. ASSUME NEW i \in Index, AcquirePermit(i) PROVE Uploading'
  BY <1>1, SameUpload DEF AcquirePermit, IInv
<1>2. ASSUME NEW i \in Index, DownloadToSpool(i) PROVE Uploading'
  BY <1>2, SameUpload DEF DownloadToSpool, IInv
<1>3. CASE Connect
  BY <1>3, SameUpload DEF Connect, Ask, IInv
<1>4. CASE Opened
  BY <1>4, NotYetUploading DEF Opened, TakeReply, Abort, IInv, Uploads, Outcome
<1>5. CASE Reopened
  BY <1>5, NotYetUploading DEF Reopened, TakeReply, IInv, Uploads, Outcome
<1>6. CASE SortInputs
  BY <1>6, NotYetUploading DEF SortInputs, IInv, Uploads, Outcome
<1>7. CASE AskValid
  BY <1>7, SameUpload DEF AskValid, Ask, IInv
<1>8. CASE SkipAlreadyValid
  BY <1>8, NotYetUploading DEF SkipAlreadyValid, TakeReply, Abort, IInv, Uploads
<1>9. CASE Checked
  BY <1>9, NotYetUploading DEF Checked, IInv, Uploads, Outcome
<1>10. CASE RequestDownloadUrls
  BY <1>10, NotYetUploading DEF RequestDownloadUrls, Abort, IInv, Uploads, Outcome
<1>11. CASE Receive
  BY <1>11, NotYetUploading DEF Receive, Abort, IInv, Uploads
<1>12. CASE RegisterInput
  BY <1>12, NotYetUploading DEF RegisterInput, Ask, IInv, Uploads, Outcome
<1>13. CASE Registered
  BY <1>13, NotYetUploading DEF Registered, TakeReply, Abort, IInv, Uploads, Outcome
<1>14. CASE ImportSpooled
  BY <1>14, NotYetUploading DEF ImportSpooled, Abort, IInv, Uploads
<1>15. CASE Fetched
  BY <1>15, NotYetUploading DEF Fetched, IInv, Uploads, Outcome
<1>16. CASE DeclaredOutputs
  BY <1>16, NotYetUploading DEF DeclaredOutputs, Abort, IInv, Uploads, Outcome
<1>17. CASE AskBuild
  BY <1>17, SameUpload DEF AskBuild, Ask, IInv
<1>18. CASE BuildDone
  BY <1>18, NotYetUploading DEF BuildDone, TakeReply, IInv, Uploads, Outcome
<1>19. CASE ServeFails
  BY <1>19, NotYetUploading DEF ServeFails, IInv, Uploads, Outcome
<1>20. CASE ServeBuild
  BY <1>20, NotYetUploading DEF ServeBuild, IInv, Uploads, Outcome
<1>21. CASE GiveUp
  BY <1>21, NotYetUploading DEF GiveUp, IInv, Uploads, Outcome
<1>22. CASE Retry
  BY <1>22, NotYetUploading DEF Retry, Reconnect, IInv, Uploads, Outcome
<1>23. CASE GuestHung
  BY <1>23, NotYetUploading DEF GuestHung, Reconnect, IInv, Uploads, Outcome
<1>24. CASE RequestUploadUrls
  <2>1. CASE UploadFails
    BY <2>1, NotUploading DEF UploadFails, Uploads
  <2>2. CASE pc' = "log" /\ UNCHANGED artifacts
    BY <1>24, <2>2, NotYetUploading DEF RequestUploadUrls, IInv, Uploads
  <2> QED
    BY <1>24, <2>1, <2>2 DEF RequestUploadUrls
<1>25. CASE UploadLog
  <2>1. CASE UploadFails
    BY <2>1, NotUploading DEF UploadFails, Uploads
  <2>2. CASE /\ pc' = IF outcome = "completed" /\ NumOutputs # 0 THEN "dump" ELSE "report"
             /\ UNCHANGED <<artifacts, outcome>>
    <3>1. artifacts' = Nothing
      BY <1>25, <2>2 DEF UploadLog, IInv, Uploading, Uploads
    <3>2. \A o \in Outputs : artifacts'[o] = None
      BY <3>1 DEF Nothing
    <3>3. NumOutputs # 0 => 1 \in Outputs /\ \A p \in Outputs : p >= 1
      BY CountsAssumption DEF Outputs
    <3>4. NumOutputs = 0 => Outputs = {}
      BY DEF Outputs
    <3>5. NumOutputs # 0 => \E o \in Outputs : \A p \in Outputs : artifacts'[p] = None <=> p >= o
      BY <3>2, <3>3
    <3> QED
      BY <2>2, <3>1, <3>2, <3>4, <3>5 DEF Uploading, Uploads, Nothing
  <2> QED
    BY <1>25, <2>1, <2>2 DEF UploadLog
<1>26. CASE AskNar
  BY <1>26, SameUpload DEF AskNar, Ask, IInv
<1>27. CASE Dumped
  <2>1. CASE UploadFails
    BY <2>1, NotUploading DEF UploadFails, Uploads
  <2>2. pc = "dump" /\ Readable /\ UNCHANGED <<mode, built, objects>>
    BY <1>27 DEF Dumped
  <2>3. Faithful
    BY <2>2, Answered DEF IInv
  <2>4. Reply.ok => Reply.answer = built[Current]
    BY <2>2, <2>3 DEF Faithful, Says
  <2>5. CASE /\ spooled' = [spooled EXCEPT ![Current] = built[Current]] /\ pc' = "put"
             /\ UNCHANGED <<outcome, artifacts>>
    <3>1. Current \in Outputs /\ Current' = Current
      BY <2>2, <2>5, InTurn, SameCurrent DEF Uploads
    <3> HIDE DEF Current
    <3>2. spooled'[Current'] = built[Current]
      BY <2>5, <3>1 DEF IInv, UploadTypes
    <3> QED
      BY <2>2, <2>5, <3>1, <3>2 DEF IInv, Uploading, Uploads, Nothing
  <2> HIDE DEF Reply, Current
  <2> QED
    BY <1>27, <2>1, <2>4, <2>5 DEF Dumped
<1>28. CASE DumpPath
  <2>1. CASE UploadFails
    BY <2>1, NotUploading DEF UploadFails, Uploads
  <2>2. pc = "dump" /\ UNCHANGED <<mode, built, objects>>
    BY <1>28 DEF DumpPath
  <2>3. CASE /\ spooled' = [spooled EXCEPT ![Current] = built[Current]] /\ pc' = "put"
             /\ UNCHANGED <<outcome, artifacts>>
    <3>1. Current \in Outputs /\ Current' = Current
      BY <2>2, <2>3, InTurn, SameCurrent DEF Uploads
    <3> HIDE DEF Current
    <3>2. spooled'[Current'] = built[Current]
      BY <2>3, <3>1 DEF IInv, UploadTypes
    <3> QED
      BY <2>2, <2>3, <3>1, <3>2 DEF IInv, Uploading, Uploads, Nothing
  <2> HIDE DEF Current
  <2> QED
    BY <1>28, <2>1, <2>3 DEF DumpPath
<1>29. CASE PutOutput
  <2>1. CASE UploadFails
    BY <2>1, NotUploading DEF UploadFails, Uploads
  <2>2. pc = "put" /\ UNCHANGED <<mode, built, spooled>>
    BY <1>29 DEF PutOutput
  <2>3. CASE /\ objects' = [objects EXCEPT ![Current] = spooled[Current]] /\ pc' = "metadata"
             /\ UNCHANGED <<outcome, artifacts>>
    <3>1. Current \in Outputs /\ Current' = Current /\ artifacts[Current] = None
      BY <2>2, <2>3, InTurn, SameCurrent DEF Uploads
    <3> HIDE DEF Current
    <3>2. spooled[Current] = built[Current]
      BY <2>2 DEF IInv, Uploading
    <3>3. /\ objects'[Current'] = built[Current]
          /\ \A o \in Outputs : o # Current => objects'[o] = objects[o]
      BY <2>3, <3>1, <3>2 DEF IInv, UploadTypes
    <3> QED
      BY <2>2, <2>3, <3>1, <3>2, <3>3 DEF IInv, Uploading, Uploads, Nothing
  <2> HIDE DEF Current
  <2> QED
    BY <1>29, <2>1, <2>3 DEF PutOutput
<1>30. CASE AskMetadata
  BY <1>30, SameUpload DEF AskMetadata, Ask, IInv
<1>31. CASE PathMetadata
  <2>1. CASE UploadFails
    BY <2>1, NotUploading DEF UploadFails, Uploads
  <2>2. CASE Collect(TRUE)
    BY <1>31, <2>2, Collects DEF PathMetadata
  <2> QED
    BY <1>31, <2>1, <2>2 DEF PathMetadata
<1>32. CASE QueryPathMetadata
  <2>1. CASE UploadFails
    BY <2>1, NotUploading DEF UploadFails, Uploads
  <2>2. ASSUME NEW m \in BOOLEAN, Collect(m) PROVE Uploading'
    BY <1>32, <2>2, Collects DEF QueryPathMetadata
  <2> QED
    BY <1>32, <2>1, <2>2 DEF QueryPathMetadata
<1>33. CASE PublishResult
  BY <1>33 DEF PublishResult, IInv, Uploading, Uploads, Nothing
<1>34. CASE DaemonAdds /\ WorkerRests
  BY <1>34, SameUpload DEF DaemonAdds, Send, IInv
<1>35. CASE DaemonBuilds /\ WorkerRests
  <2>1. pc = "build" \/ Left
    BY <1>35, BuildsFor DEF DaemonBuilds
  <2>2. artifacts = Nothing /\ pc \notin Uploads
    BY <1>35, BuildsFor DEF DaemonBuilds
  <2>3. UNCHANGED <<pc, outcome, artifacts>>
    BY <1>35
  <2>4. artifacts' = Nothing
    BY <2>2, <2>3 DEF Nothing
  <2> QED
    BY <2>1, <2>2, <2>3, <2>4, NotUploading DEF Left
<1>36. CASE DaemonReads /\ WorkerRests
  BY <1>36, SameUpload DEF DaemonReads, Send, IInv
<1>37. CASE UNCHANGED vars
  BY <1>37, SameUpload DEF IInv, vars
<1> QED
  BY <1>1, <1>2, <1>3, <1>4, <1>5, <1>6, <1>7, <1>8, <1>9, <1>10, <1>11, <1>12, <1>13, <1>14,
       <1>15, <1>16, <1>17, <1>18, <1>19, <1>20, <1>21, <1>22, <1>23, <1>24, <1>25, <1>26, <1>27,
       <1>28, <1>29, <1>30, <1>31, <1>32, <1>33, <1>34, <1>35, <1>36, <1>37, Zenon DEF Next,
       Downloads, Worker, DaemonAnswers

(* The log is the one the build printed.                                    *)
LEMMA LoggedStep ==
    ASSUME IInv, [Next]_vars
    PROVE  Logged'
<1> USE DEF jobVars, fetchVars, connVars, buildVars, uploadVars, WorkerRests
<1>1. ASSUME NEW i \in Index, AcquirePermit(i) PROVE Logged'
  BY <1>1 DEF AcquirePermit, IInv, Logged, Uploads
<1>2. ASSUME NEW i \in Index, DownloadToSpool(i) PROVE Logged'
  BY <1>2 DEF DownloadToSpool, IInv, Logged, Uploads
<1>3. CASE Connect
  BY <1>3 DEF Connect, Ask, IInv, Logged, Uploads
<1>4. CASE Opened
  BY <1>4 DEF Opened, TakeReply, Abort, IInv, Logged, Uploads
<1>5. CASE Reopened
  BY <1>5 DEF Reopened, TakeReply, IInv, Logged, Uploads
<1>6. CASE SortInputs
  BY <1>6 DEF SortInputs, IInv, Logged, Uploads
<1>7. CASE AskValid
  BY <1>7 DEF AskValid, Ask, IInv, Logged, Uploads
<1>8. CASE SkipAlreadyValid
  BY <1>8 DEF SkipAlreadyValid, TakeReply, Abort, IInv, Logged, Uploads
<1>9. CASE Checked
  BY <1>9 DEF Checked, IInv, Logged, Uploads
<1>10. CASE RequestDownloadUrls
  BY <1>10 DEF RequestDownloadUrls, Abort, IInv, Logged, Uploads
<1>11. CASE Receive
  BY <1>11 DEF Receive, Abort, IInv, Logged, Uploads
<1>12. CASE RegisterInput
  BY <1>12 DEF RegisterInput, Ask, IInv, Logged, Uploads
<1>13. CASE Registered
  BY <1>13 DEF Registered, TakeReply, Abort, IInv, Logged, Uploads
<1>14. CASE ImportSpooled
  BY <1>14 DEF ImportSpooled, Abort, IInv, Logged, Uploads
<1>15. CASE Fetched
  BY <1>15 DEF Fetched, IInv, Logged, Uploads
<1>16. CASE DeclaredOutputs
  BY <1>16 DEF DeclaredOutputs, Abort, IInv, Logged, Uploads
<1>17. CASE AskBuild
  BY <1>17 DEF AskBuild, Ask, IInv, Logged, Uploads
<1>18. CASE BuildDone
  <2>1. pc = "build" /\ Readable
    BY <1>18 DEF BuildDone
  <2>2. Faithful
    BY <2>1, Answered DEF IInv
  <2>3. Reply.ok => Reply.answer.log = printed
    BY <2>1, <2>2 DEF Faithful, Says
  <2> HIDE DEF Reply
  <2>4. log' \in {printed', Message} /\ pc' \notin Uploads \cup {"report", "done"}
    BY <1>18, <2>3 DEF BuildDone, Uploads
  <2>5. ~ logKey'
    BY <1>18, <2>1 DEF BuildDone, IInv, Logged, Uploads
  <2> QED
    BY <2>4, <2>5 DEF Logged
<1>19. CASE ServeFails
  BY <1>19 DEF ServeFails, IInv, Logged, Uploads
<1>20. CASE ServeBuild
  BY <1>20 DEF ServeBuild, IInv, Logged, Uploads
<1>21. CASE GiveUp
  BY <1>21 DEF GiveUp, IInv, Logged, Uploads
<1>22. CASE Retry
  BY <1>22 DEF Retry, Reconnect, IInv, Logged, Uploads
<1>23. CASE GuestHung
  BY <1>23 DEF GuestHung, Reconnect, IInv, Logged, Uploads
<1>24. CASE RequestUploadUrls
  BY <1>24 DEF RequestUploadUrls, UploadFails, IInv, Logged, Uploads
<1>25. CASE UploadLog
  BY <1>25 DEF UploadLog, UploadFails, IInv, Logged, Uploads
<1>26. CASE AskNar
  BY <1>26 DEF AskNar, Ask, IInv, Logged, Uploads
<1>27. CASE Dumped
  BY <1>27 DEF Dumped, TakeReply, UploadFails, IInv, Logged, Uploads
<1>28. CASE DumpPath
  BY <1>28 DEF DumpPath, UploadFails, IInv, Logged, Uploads
<1>29. CASE PutOutput
  BY <1>29 DEF PutOutput, UploadFails, IInv, Logged, Uploads
<1>30. CASE AskMetadata
  BY <1>30 DEF AskMetadata, Ask, IInv, Logged, Uploads
<1>31. CASE PathMetadata
  BY <1>31 DEF PathMetadata, TakeReply, UploadFails, Collect, IInv, Logged, Uploads
<1>32. CASE QueryPathMetadata
  BY <1>32 DEF QueryPathMetadata, UploadFails, Collect, IInv, Logged, Uploads
<1>33. CASE PublishResult
  BY <1>33 DEF PublishResult, IInv, Logged, Uploads
<1>34. CASE DaemonAdds /\ WorkerRests
  BY <1>34 DEF DaemonAdds, Send, IInv, Logged, Uploads
<1>35. CASE DaemonBuilds /\ WorkerRests
  <2>1. (pc = "build" \/ Left) /\ ~ logKey
    BY <1>35, BuildsFor DEF DaemonBuilds
  <2>2. UNCHANGED <<mode, pc, log, logKey>>
    BY <1>35
  <2> QED
    BY <2>1, <2>2 DEF Logged, Left
<1>36. CASE DaemonReads /\ WorkerRests
  BY <1>36 DEF DaemonReads, Send, IInv, Logged, Uploads
<1>37. CASE UNCHANGED vars
  BY <1>37 DEF IInv, Logged, Uploads, vars
<1> QED
  BY <1>1, <1>2, <1>3, <1>4, <1>5, <1>6, <1>7, <1>8, <1>9, <1>10, <1>11, <1>12, <1>13, <1>14,
       <1>15, <1>16, <1>17, <1>18, <1>19, <1>20, <1>21, <1>22, <1>23, <1>24, <1>25, <1>26, <1>27,
       <1>28, <1>29, <1>30, <1>31, <1>32, <1>33, <1>34, <1>35, <1>36, <1>37, Zenon DEF Next,
       Downloads, Worker, DaemonAnswers

-----------------------------------------------------------------------------
LEMMA InitIInv ==
    ASSUME Init
    PROVE  IInv
<1>1. mode \in {"vm", "serve"} /\ refs \in [Index -> SUBSET Index] /\ fresh \in BOOLEAN
  BY GraphsAssumption DEF Init
<1>2. store \in [Index -> {"absent", "recorded"}]
  BY DEF Init, ClosedStores
<1>3. pc \in {"open", "sort"}
  BY DEF Init
<1>4. JobTypes
  BY <1>1, <1>3 DEF Init, JobTypes, Phases, ReadsReply
<1>5. Flags
  BY <1>1, Zenon DEF Init, Flags
<1>6. FetchTypes /\ Fetching
  BY <1>2, <1>3 DEF Init, FetchTypes, Fetching, Early, Bytes
<1>7. UploadTypes
  BY DEF Init, UploadTypes, Nothing
<1>8. Wire /\ Outcome /\ Ordered
  BY <1>3, NoneAssumption DEF Init, Wire, Clean, Outcome, Ordered, Over
<1>9. Bounded
  <2>1. Running = {} /\ Pending = {}
    BY DEF Init, Running, Pending
  <2>2. Cardinality(Running) = 0 /\ Cardinality(Pending) = 0
    BY <2>1, FS_EmptySet
  <2>3. Len(order) = 0 /\ Len(todo) = 0 /\ Len(channel) = 0
    BY DEF Init
  <2> QED
    BY <2>2, <2>3, CountsAssumption DEF Bounded
<1>10. Uploading
  BY <1>3 DEF Init, Uploading, Uploads, Nothing
<1>11. Logged
  BY <1>3 DEF Init, Logged, Uploads
<1> QED
  BY <1>4, <1>5, <1>6, <1>7, <1>8, <1>9, <1>10, <1>11 DEF IInv

LEMMA NextIInv ==
    ASSUME IInv, [Next]_vars
    PROVE  IInv'
BY JobTypesStep, FlagsStep, FetchTypesStep, UploadTypesStep, WireStep, OutcomeStep, FetchingStep,
   OrderedStep, BoundedStep, UploadingStep, LoggedStep DEF IInv

(* Whatever the inputs' graph, the order the downloads land in and the      *)
(* replies a guest sends or breaks off, the job stays within its invariant: *)
(* the connection carries at most one reply, the one asked for, and what it *)
(* says is so (fetch_inputs, run_build, upload_artifacts).                  *)
THEOREM Invariance == Spec => []IInv
<1>1. Init => IInv
  BY InitIInv
<1>2. IInv /\ [Next]_vars => IInv'
  BY NextIInv
<1> QED
  BY <1>1, <1>2, PTL DEF Spec

(* TypeOK: among others, no more downloads run than there are permits, and  *)
(* the channel of fetch_inputs never holds more results than there are      *)
(* inputs, so that no task waits to send its own.                           *)
THEOREM TypeCorrect == Spec => []TypeOK
<1>1. ASSUME IInv PROVE TypeOK
  <2>1. \A q \in {order, todo} : Len(q) <= NumInputs /\ \A k \in 1 .. Len(q) : q[k] \in Index
    BY <1>1, ElementOfSeq DEF IInv, FetchTypes, Bounded
  <2>2. Cardinality({i \in Index : task[i] = "running"}) <= MaxParallel
    BY <1>1 DEF IInv, Bounded, Running
  <2>3. Len(channel) <= NumInputs
    <3>1. Len(channel) \in Nat /\ Cardinality(Pending) \in Nat
      BY <1>1, Lengths, Sizes DEF IInv, Pending
    <3> QED
      BY <1>1, <3>1, CountsAssumption DEF IInv, Bounded
  <2>4. {closed, logKey} \subseteq BOOLEAN /\ retried \subseteq Retries /\ fresh \in BOOLEAN
    BY <1>1, Zenon DEF IInv, Flags
  <2>5. /\ {built, spooled, objects} \subseteq [Outputs -> Nars \cup {None}]
        /\ artifacts \in [Outputs -> [nar : Nars, metadata : BOOLEAN] \cup {None}]
    BY <1>1 DEF IInv, UploadTypes
  <2> QED
    BY <1>1, <2>1, <2>2, <2>3, <2>4, <2>5, Zenon DEF IInv, JobTypes, FetchTypes, Phases, TypeOK
<1> QED
  BY <1>1, Invariance, PTL

(* OrderRespected, for every reference graph: what topo_sort_inputs puts    *)
(* first and skip_already_valid leaves out, fetch_inputs never registers an *)
(* input before one it refers to, nor bytes the server did not record.      *)
THEOREM OrderRespectedHolds == Spec => []OrderRespected
<1>1. ASSUME IInv PROVE OrderRespected
  <2>1. \A i \in Index : store[i] # "other"
    BY <1>1 DEF IInv, Fetching
  <2>2. ASSUME pc \in {"fetch", "register"}, order # <<>>, NEW j \in Deps(Head(order))
        PROVE  store[j] # "absent"
    <3>1. Chain(order) /\ order \in Seq(Index)
      BY <1>1, <2>2 DEF IInv, Ordered, FetchTypes
    <3>2. Head(order) = order[1] /\ 1 \in 1 .. Len(order)
      BY <2>2, <3>1, HeadTailProperties, EmptySeq, LenProperties
    <3>3. store[j] # "absent" \/ \E k \in 1 .. 1 - 1 : order[k] = j
      BY <2>2, <3>1, <3>2 DEF Chain
    <3> QED
      BY <3>3
  <2> QED
    BY <2>1, <2>2, Zenon DEF OrderRespected
<1> QED
  BY <1>1, Invariance, PTL

(* InSync: the worker's connection never carries two replies, whatever was  *)
(* given up, cut short or retried (run_build, reconnect).                   *)
THEOREM InSyncHolds == Spec => []InSync
<1>1. ASSUME IInv PROVE InSync
  <2>1. CASE owed = <<>>
    BY <2>1 DEF InSync
  <2>2. ASSUME NEW x, owed = <<x>>, stream = <<>> PROVE InSync
    BY <2>2 DEF InSync
  <2> QED
    BY <1>1, <2>1, <2>2 DEF IInv, Wire, Clean, Given, Left
<1> QED
  BY <1>1, Invariance, PTL

(* ArtifactsAsBuilt: every output of a completed job was dumped whole, put  *)
(* and described before it was reported (upload_artifacts).                 *)
THEOREM ArtifactsAsBuiltHolds == Spec => []ArtifactsAsBuilt
<1>1. ASSUME IInv PROVE ArtifactsAsBuilt
  BY <1>1 DEF IInv, Outcome, Uploading, ArtifactsAsBuilt
<1> QED
  BY <1>1, Invariance, PTL

(* LogComplete: the log of a build run in a VM is kept whole or replaced by *)
(* the message of the failure that lost it (pump_channel, upload_log).      *)
THEOREM LogCompleteHolds == Spec => []LogComplete
<1>1. ASSUME IInv PROVE LogComplete
  BY <1>1 DEF IInv, Logged, LogComplete
<1> QED
  BY <1>1, Invariance, PTL
=============================================================================

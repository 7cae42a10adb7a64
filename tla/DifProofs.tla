------------------------------ MODULE DifProofs -----------------------------
(***************************************************************************)
(* Both interpreters of difference files implement DifFormat, for every    *)
(* number of values of a byte, any older files and any well-formed file of *)
(* commands.                                                               *)
(*                                                                         *)
(* The argument: loops that make a number of its bytes, or append to what  *)
(* they read, are functions defined recursively on an interval; that there *)
(* are such functions, and what they give, is shown by induction on sets,  *)
(* which is a least counterexample.                                        *)
(***************************************************************************)
EXTENDS Dif, FiniteSetTheorems, SequenceTheorems, WellFoundedInduction, TLAPS

-----------------------------------------------------------------------------
(* Induction and recursion on an interval. *)

(* Every nonempty set of numbers has a least element. *)
LEMMA LeastExists ==
  ASSUME NEW S \in SUBSET Nat, S # {}
  PROVE  \E m \in S : \A n \in S : m <= n
<1> DEFINE T == {0 .. n : n \in S}
<1>1. IsWellFoundedOn(StrictSubsetOrdering(Nat), FiniteSubsetsOf(Nat))
  BY FS_StrictSubsetOrderingWellFounded
<1>2. T \subseteq FiniteSubsetsOf(Nat) /\ T # {}
  <2>1. \A n \in S : IsFiniteSet(0 .. n) /\ 0 .. n \in SUBSET Nat
    BY FS_Interval
  <2> QED
    BY <2>1 DEF FiniteSubsetsOf
<1>3. PICK x \in T : \A y \in T : ~(<<y, x>> \in StrictSubsetOrdering(Nat))
  <2> HIDE DEF T
  <2> QED
    BY <1>1, <1>2, WFMin
<1>4. PICK m \in S : x = 0 .. m
  OBVIOUS
<1>5. ASSUME NEW n \in S
      PROVE  m <= n
  <2>1. <<0 .. n, 0 .. m>> \notin StrictSubsetOrdering(Nat)
    BY <1>3, <1>4
  <2>2. 0 .. n \subseteq Nat /\ 0 .. m \subseteq Nat
    OBVIOUS
  <2>3. CASE n < m
    <3>1. 0 .. n \subseteq 0 .. m /\ m \in 0 .. m /\ m \notin 0 .. n
      BY <2>3
    <3> QED
      BY <2>1, <2>2, <3>1 DEF StrictSubsetOrdering
  <2> QED
    BY <2>3
<1> QED
  BY <1>4, <1>5

LEMMA SetInduction ==
  ASSUME NEW n \in Nat, NEW G, 0 \in G, \A k \in 1 .. n : k - 1 \in G => k \in G
  PROVE  \A k \in 0 .. n : k \in G
<1> DEFINE B == {k \in 0 .. n : k \notin G}
<1>1. CASE B = {}
  BY <1>1
<1>2. CASE B # {}
  <2>1. B \in SUBSET Nat
    OBVIOUS
  <2>2. PICK m \in B : \A k \in B : m <= k
    <3> HIDE DEF B
    <3> QED
      BY <1>2, <2>1, LeastExists
  <2>3. m \in 1 .. n /\ m - 1 \in 0 .. n /\ m - 1 < m
    BY <2>2
  <2>4. m - 1 \in G
    BY <2>2, <2>3
  <2> QED
    BY <2>2, <2>3, <2>4
<1> QED
  BY <1>1, <1>2

(* The values of a recursion that starts with a and goes on with step. *)
Recursion(f, n, a, step) ==
  f[0] = a /\ \A k \in 1 .. n : f[k] = step[<<k, f[k - 1]>>]

LEMMA RecursionExists ==
  ASSUME NEW n \in Nat, NEW S, NEW a \in S, NEW step \in [(1 .. n) \X S -> S]
  PROVE  \E f \in [0 .. n -> S] : Recursion(f, n, a, step)
<1> DEFINE G == {m \in 0 .. n : \E f \in [0 .. m -> S] : Recursion(f, m, a, step)}
<1>1. 0 \in G
  <2> DEFINE f == [k \in 0 .. 0 |-> a]
  <2>1. f \in [0 .. 0 -> S] /\ Recursion(f, 0, a, step)
    BY DEF Recursion
  <2> QED
    BY <2>1
<1>2. ASSUME NEW m \in 1 .. n, m - 1 \in G
      PROVE  m \in G
  <2>1. PICK f \in [0 .. m - 1 -> S] : Recursion(f, m - 1, a, step)
    BY <1>2
  <2>2. m \in Nat /\ m >= 1 /\ m - 1 \in 0 .. m - 1 /\ m \in 0 .. n
    OBVIOUS
  <2> DEFINE next == step[<<m, f[m - 1]>>]
             g == [k \in 0 .. m |-> IF k = m THEN next ELSE f[k]]
  <2>3. f[m - 1] \in S
    BY <2>1, <2>2
  <2>4. <<m, f[m - 1]>> \in (1 .. n) \X S
    BY <2>3
  <2>5. next \in S
    BY <2>4
  <2> HIDE DEF next
  <2>6. \A k \in 0 .. m : k = m \/ k \in 0 .. m - 1
    BY <2>2
  <2>7. g \in [0 .. m -> S] /\ g[m] = next /\ \A k \in 0 .. m - 1 : g[k] = f[k]
    BY <2>1, <2>2, <2>5, <2>6
  <2> HIDE DEF g
  <2>8. g[0] = a
    BY <2>1, <2>2, <2>7 DEF Recursion
  <2>9. ASSUME NEW k \in 1 .. m
        PROVE  g[k] = step[<<k, g[k - 1]>>]
    <3>1. k - 1 \in 0 .. m - 1 /\ g[k - 1] = f[k - 1]
      BY <2>2, <2>7
    <3>2. CASE k = m
      BY <2>7, <3>1, <3>2 DEF next
    <3>3. CASE k # m
      <4>1. k \in 1 .. m - 1 /\ k \in 0 .. m - 1
        BY <2>2, <3>3
      <4> QED
        BY <2>1, <2>7, <3>1, <4>1 DEF Recursion
    <3> QED
      BY <3>2, <3>3
  <2> QED
    BY <2>2, <2>7, <2>8, <2>9 DEF Recursion
<1>3. n \in 0 .. n
  OBVIOUS
<1>4. n \in G
  <2> HIDE DEF G
  <2> QED
    BY <1>1, <1>2, <1>3, SetInduction
<1> QED
  BY <1>4

-----------------------------------------------------------------------------
(* Numbers. *)

LEMMA BaseIs == Base \in Nat /\ Base >= 1 /\ Argument \subseteq Nat
BY BaseAssumption

(* What Value is defined with. *)
IsValue(b, v) == v = [k \in 0 .. Len(b) |-> IF k = 0 THEN 0 ELSE v[k - 1] * Base + b[k]]

LEMMA ValueIs ==
  ASSUME NEW m \in Nat, NEW b \in [1 .. m -> Nat]
  PROVE  \E v \in [0 .. m -> Nat] :
           /\ v[0] = 0 /\ \A k \in 1 .. m : v[k] = v[k - 1] * Base + b[k]
           /\ Cpp!Value(b) = v[m]
<1> DEFINE V == CHOOSE v : IsValue(b, v)
<1>1. Cpp!Value(b) = V[Len(b)]
  BY DEF Cpp!Value, IsValue
<1>2. Len(b) = m
  OBVIOUS
<1>3. \E v : IsValue(b, v)
  <2> DEFINE step == [p \in (1 .. m) \X Nat |-> p[2] * Base + b[p[1]]]
  <2>1. step \in [(1 .. m) \X Nat -> Nat]
    <3>1. ASSUME NEW p \in (1 .. m) \X Nat
          PROVE  p[2] * Base + b[p[1]] \in Nat
      <4>1. p[2] \in Nat /\ b[p[1]] \in Nat
        OBVIOUS
      <4> QED
        BY <4>1, BaseIs
    <3> QED
      BY <3>1
  <2>2. \A k \in 1 .. m, x \in Nat : step[<<k, x>>] = x * Base + b[k]
    OBVIOUS
  <2> HIDE DEF step
  <2>3. PICK v \in [0 .. m -> Nat] : Recursion(v, m, 0, step)
    BY <2>1, RecursionExists
  <2>4. \A k \in 0 .. m : v[k] = IF k = 0 THEN 0 ELSE v[k - 1] * Base + b[k]
    <3>1. \A k \in 1 .. m : v[k] = v[k - 1] * Base + b[k]
      <4> SUFFICES ASSUME NEW k \in 1 .. m
                   PROVE  v[k] = v[k - 1] * Base + b[k]
        OBVIOUS
      <4>1. k - 1 \in 0 .. m /\ v[k] = step[<<k, v[k - 1]>>]
        BY <2>3 DEF Recursion
      <4> QED
        BY <2>2, <4>1
    <3> QED
      BY <2>3, <3>1 DEF Recursion
  <2> QED
    BY <1>2, <2>4 DEF IsValue
<1>4. IsValue(b, V)
  BY <1>3
<1> HIDE DEF V
<1>5. /\ V = [k \in 0 .. m |-> V[k]]
      /\ V[0] = 0 /\ \A k \in 1 .. m : V[k] = V[k - 1] * Base + b[k]
  <2>1. V = [k \in 0 .. m |-> IF k = 0 THEN 0 ELSE V[k - 1] * Base + b[k]]
    BY <1>2, <1>4 DEF IsValue
  <2>2. \A k \in 0 .. m : V[k] = IF k = 0 THEN 0 ELSE V[k - 1] * Base + b[k]
    BY <2>1
  <2>3. \A k \in 1 .. m : k \in 0 .. m /\ k # 0
    OBVIOUS
  <2>4. V = [k \in 0 .. m |-> V[k]]
    BY <2>1
  <2>5. V[0] = 0
    BY <2>2
  <2>6. \A k \in 1 .. m : V[k] = V[k - 1] * Base + b[k]
    BY <2>2, <2>3
  <2> QED
    BY <2>4, <2>5, <2>6
<1>6. \A k \in 0 .. m : V[k] \in Nat
  <2> DEFINE G == {k \in 0 .. m : V[k] \in Nat}
  <2>1. 0 \in G
    BY <1>5
  <2>2. ASSUME NEW k \in 1 .. m, k - 1 \in G
        PROVE  k \in G
    <3>1. V[k - 1] \in Nat /\ b[k] \in Nat /\ V[k] = V[k - 1] * Base + b[k]
      BY <1>5, <2>2
    <3>2. V[k - 1] * Base \in Nat
      BY <3>1, BaseIs
    <3>3. V[k] \in Nat
      BY <3>1, <3>2
    <3> QED
      BY <3>3
  <2>3. \A k \in 0 .. m : k \in G
    <3> HIDE DEF G
    <3> QED
      BY <2>1, <2>2, SetInduction
  <2> QED
    BY <2>3
<1>7. V \in [0 .. m -> Nat]
  BY <1>5, <1>6
<1> QED
  BY <1>1, <1>2, <1>5, <1>7

IsPower(m, p) == p = [k \in 0 .. m - 1 |-> IF k = 0 THEN 1 ELSE p[k - 1] * Base]
IsShorter(m, p, s) == s = [k \in 0 .. m - 1 |-> IF k = 0 THEN 0 ELSE s[k - 1] + p[k]]

(* The powers of Base, and that the numbers of one length more are those   *)
(* that begin with a byte, counted from 1, and go on with one of them.     *)
LEMMA ShorterIs ==
  ASSUME NEW n \in Nat
  PROVE  \E p, s \in [0 .. n -> Nat] :
           /\ p[0] = 1 /\ \A k \in 1 .. n : p[k] = p[k - 1] * Base
           /\ s[0] = 0 /\ \A k \in 1 .. n : s[k] = s[k - 1] + p[k]
           /\ Cpp!Shorter(n + 1) = s[n]
<1> DEFINE P == CHOOSE p : IsPower(n + 1, p)
           T == CHOOSE s : IsShorter(n + 1, P, s)
<1>1. Cpp!Shorter(n + 1) = T[(n + 1) - 1] /\ (n + 1) - 1 = n
  BY DEF Cpp!Shorter, IsPower, IsShorter
<1>2. \E p \in [0 .. n -> Nat] : IsPower(n + 1, p)
  <2> DEFINE step == [q \in (1 .. n) \X Nat |-> q[2] * Base]
  <2>1. step \in [(1 .. n) \X Nat -> Nat]
    BY BaseIs
  <2>2. \A k \in 1 .. n, x \in Nat : step[<<k, x>>] = x * Base
    OBVIOUS
  <2> HIDE DEF step
  <2>3. PICK p \in [0 .. n -> Nat] : Recursion(p, n, 1, step)
    BY <2>1, RecursionExists
  <2>4. \A k \in 1 .. n : p[k] = p[k - 1] * Base
    <3> SUFFICES ASSUME NEW k \in 1 .. n
                 PROVE  p[k] = p[k - 1] * Base
      OBVIOUS
    <3>1. k - 1 \in 0 .. n /\ p[k] = step[<<k, p[k - 1]>>]
      BY <2>3 DEF Recursion
    <3> QED
      BY <2>2, <3>1
  <2>5. \A k \in 0 .. n : p[k] = IF k = 0 THEN 1 ELSE p[k - 1] * Base
    BY <2>3, <2>4 DEF Recursion
  <2> QED
    BY <1>1, <2>5 DEF IsPower
<1>3. IsPower(n + 1, P)
  BY <1>2
<1> HIDE DEF P
<1>4. /\ P = [k \in 0 .. n |-> P[k]]
      /\ P[0] = 1 /\ \A k \in 1 .. n : P[k] = P[k - 1] * Base
  <2>1. P = [k \in 0 .. n |-> IF k = 0 THEN 1 ELSE P[k - 1] * Base]
    BY <1>1, <1>3 DEF IsPower
  <2>2. \A k \in 0 .. n : P[k] = IF k = 0 THEN 1 ELSE P[k - 1] * Base
    BY <2>1
  <2>3. \A k \in 1 .. n : k \in 0 .. n /\ k # 0
    OBVIOUS
  <2>4. P = [k \in 0 .. n |-> P[k]]
    BY <2>1
  <2>5. P[0] = 1
    BY <2>2
  <2>6. \A k \in 1 .. n : P[k] = P[k - 1] * Base
    BY <2>2, <2>3
  <2> QED
    BY <2>4, <2>5, <2>6
<1>5. \A k \in 0 .. n : P[k] \in Nat
  <2> DEFINE G == {k \in 0 .. n : P[k] \in Nat}
  <2>1. 0 \in G
    BY <1>4
  <2>2. ASSUME NEW k \in 1 .. n, k - 1 \in G
        PROVE  k \in G
    <3>1. P[k - 1] \in Nat /\ P[k] = P[k - 1] * Base
      BY <1>4, <2>2
    <3> QED
      BY <3>1, BaseIs
  <2>3. \A k \in 0 .. n : k \in G
    <3> HIDE DEF G
    <3> QED
      BY <2>1, <2>2, SetInduction
  <2> QED
    BY <2>3
<1>6. \E s \in [0 .. n -> Nat] : IsShorter(n + 1, P, s)
  <2> DEFINE step == [q \in (1 .. n) \X Nat |-> q[2] + P[q[1]]]
  <2>1. step \in [(1 .. n) \X Nat -> Nat]
    BY <1>5
  <2>2. \A k \in 1 .. n, x \in Nat : step[<<k, x>>] = x + P[k]
    OBVIOUS
  <2> HIDE DEF step
  <2>3. PICK s \in [0 .. n -> Nat] : Recursion(s, n, 0, step)
    BY <2>1, RecursionExists
  <2>4. \A k \in 1 .. n : s[k] = s[k - 1] + P[k]
    <3> SUFFICES ASSUME NEW k \in 1 .. n
                 PROVE  s[k] = s[k - 1] + P[k]
      OBVIOUS
    <3>1. k - 1 \in 0 .. n /\ s[k] = step[<<k, s[k - 1]>>]
      BY <2>3 DEF Recursion
    <3> QED
      BY <2>2, <3>1
  <2>5. \A k \in 0 .. n : s[k] = IF k = 0 THEN 0 ELSE s[k - 1] + P[k]
    BY <2>3, <2>4 DEF Recursion
  <2> QED
    BY <1>1, <2>5 DEF IsShorter
<1>7. IsShorter(n + 1, P, T)
  BY <1>6
<1> HIDE DEF T
<1>8. /\ T = [k \in 0 .. n |-> T[k]]
      /\ T[0] = 0 /\ \A k \in 1 .. n : T[k] = T[k - 1] + P[k]
  <2>1. T = [k \in 0 .. n |-> IF k = 0 THEN 0 ELSE T[k - 1] + P[k]]
    BY <1>1, <1>7 DEF IsShorter
  <2>2. \A k \in 0 .. n : T[k] = IF k = 0 THEN 0 ELSE T[k - 1] + P[k]
    BY <2>1
  <2>3. \A k \in 1 .. n : k \in 0 .. n /\ k # 0
    OBVIOUS
  <2>4. T = [k \in 0 .. n |-> T[k]]
    BY <2>1
  <2>5. T[0] = 0
    BY <2>2
  <2>6. \A k \in 1 .. n : T[k] = T[k - 1] + P[k]
    BY <2>2, <2>3
  <2> QED
    BY <2>4, <2>5, <2>6
<1>9. \A k \in 0 .. n : T[k] \in Nat
  <2> DEFINE G == {k \in 0 .. n : T[k] \in Nat}
  <2>1. 0 \in G
    BY <1>8
  <2>2. ASSUME NEW k \in 1 .. n, k - 1 \in G
        PROVE  k \in G
    <3>1. T[k - 1] \in Nat
      BY <2>2
    <3>2. P[k] \in Nat
      <4>1. k \in 0 .. n
        OBVIOUS
      <4> QED
        BY <1>5, <4>1
    <3>3. T[k] = T[k - 1] + P[k]
      BY <1>8
    <3> QED
      BY <3>1, <3>2, <3>3
  <2>3. \A k \in 0 .. n : k \in G
    <3> HIDE DEF G
    <3> QED
      BY <2>1, <2>2, SetInduction
  <2> QED
    BY <2>3
<1>10. P \in [0 .. n -> Nat] /\ T \in [0 .. n -> Nat]
  BY <1>4, <1>5, <1>8, <1>9
<1> QED
  BY <1>1, <1>4, <1>8, <1>10

(* With u for the digits so far and one more, and w for those with c more. *)
LEMMA Carry ==
  ASSUME NEW u \in Nat, NEW w \in Nat, NEW c \in Nat, NEW n \in Nat, NEW x, NEW z,
         w = u + c, x = u * n, z = c * n
  PROVE  w * n = x + z /\ x \in Nat /\ z \in Nat
OBVIOUS

LEMMA Carries ==
  ASSUME NEW n \in Nat, NEW p \in [0 .. n -> Nat], NEW s \in [0 .. n -> Nat],
         p[0] = 1, \A k \in 1 .. n : p[k] = p[k - 1] * Base,
         s[0] = 0, \A k \in 1 .. n : s[k] = s[k - 1] + p[k]
  PROVE  \A k \in 1 .. n : (s[k - 1] + 1) * Base = s[k - 1] + p[k]
<1> DEFINE Carried(k) == (s[k - 1] + 1) * Base = s[k - 1] + p[k]
           G == {k \in 0 .. n : k = 0 \/ Carried(k)}
<1>1. 0 \in G
  OBVIOUS
<1>2. ASSUME NEW k \in 1 .. n, k - 1 \in G
      PROVE  k \in G
  <2>1. CASE k = 1
    <3>1. s[k - 1] = 0 /\ p[k] = 1 * Base
      BY <2>1
    <3>2. Carried(k)
      BY <3>1, BaseIs
    <3> QED
      BY <3>2
  <2>2. CASE k # 1
    <3>1. k - 1 \in 1 .. n /\ k - 1 \in 0 .. n /\ k - 2 \in 0 .. n /\ (k - 1) - 1 = k - 2
      BY <2>2
    <3>2. PICK a \in Nat, b \in Nat, c \in Nat :
            a = s[k - 2] /\ b = p[k - 1] /\ c = p[k]
      BY <3>1
    <3>3. a \in Nat /\ b \in Nat /\ c \in Nat
      BY <3>2
    <3>4. c = b * Base
      BY <3>1, <3>2
    <3>5. s[k - 1] = a + b
      BY <3>1, <3>2
    <3> DEFINE u == a + 1
               w == s[k - 1] + 1
               x == a + b
    <3>6. u \in Nat /\ w \in Nat /\ w = u + b
      BY <3>5, <3>3
    <3>7. x = u * Base
      BY <1>2, <3>1, <3>2
    <3> HIDE DEF u, w, x
    <3>8. w * Base = x + c
      BY <3>4, <3>6, <3>7, <3>3, BaseIs, Carry
    <3>9. Carried(k)
      BY <3>2, <3>5, <3>8 DEF w, x
    <3> QED
      BY <3>9
  <2> QED
    BY <2>1, <2>2
<1>3. \A k \in 0 .. n : k \in G
  <2> HIDE DEF G
  <2> QED
    BY <1>1, <1>2, SetInduction
<1> QED
  BY <1>3

(* A number that counts its bytes from 1, but for the last, is Shorter and *)
(* Value together.                                                         *)
LEMMA CountedIs ==
  ASSUME NEW n \in Nat, NEW b \in [1 .. n + 1 -> Nat]
  PROVE  \E y \in [0 .. n -> Nat] :
           /\ y[0] = b[1] /\ \A k \in 1 .. n : y[k] = (y[k - 1] + 1) * Base + b[k + 1]
           /\ y[n] = Cpp!Shorter(n + 1) + Cpp!Value(b)
<1>1. PICK p, s \in [0 .. n -> Nat] :
        /\ p[0] = 1 /\ \A k \in 1 .. n : p[k] = p[k - 1] * Base
        /\ s[0] = 0 /\ \A k \in 1 .. n : s[k] = s[k - 1] + p[k]
        /\ Cpp!Shorter(n + 1) = s[n]
  BY ShorterIs
<1>2. PICK v \in [0 .. n + 1 -> Nat] :
        /\ v[0] = 0 /\ \A k \in 1 .. n + 1 : v[k] = v[k - 1] * Base + b[k]
        /\ Cpp!Value(b) = v[n + 1]
  <2> DEFINE m == n + 1
  <2>1. m \in Nat /\ b \in [1 .. m -> Nat]
    OBVIOUS
  <2> HIDE DEF m
  <2>2. \E v \in [0 .. m -> Nat] :
          /\ v[0] = 0 /\ \A k \in 1 .. m : v[k] = v[k - 1] * Base + b[k]
          /\ Cpp!Value(b) = v[m]
    BY <2>1, ValueIs
  <2> QED
    BY <2>2 DEF m
<1>3. \A k \in 1 .. n : (s[k - 1] + 1) * Base = s[k - 1] + p[k]
  BY <1>1, Carries
<1> DEFINE y == [k \in 0 .. n |-> s[k] + v[k + 1]]
<1>4. y \in [0 .. n -> Nat] /\ \A k \in 0 .. n : y[k] = s[k] + v[k + 1]
  <2>1. ASSUME NEW k \in 0 .. n
        PROVE  s[k] + v[k + 1] \in Nat
    <3>1. k + 1 \in 0 .. n + 1
      OBVIOUS
    <3>2. s[k] \in Nat /\ v[k + 1] \in Nat
      BY <3>1
    <3> QED
      BY <3>2
  <2> QED
    BY <2>1
<1> HIDE DEF y
<1>5. y[0] = b[1]
  <2>1. v[1] = v[0] * Base + b[1] /\ v[0] = 0 /\ b[1] \in Nat
    BY <1>2
  <2>2. v[1] = b[1]
    BY <2>1, BaseIs
  <2> QED
    BY <1>1, <1>4, <2>2
<1>6. ASSUME NEW k \in 1 .. n
      PROVE  y[k] = (y[k - 1] + 1) * Base + b[k + 1]
  <2>1. /\ k - 1 \in 0 .. n /\ k \in 0 .. n /\ k + 1 \in 1 .. n + 1 /\ k \in 0 .. n + 1
        /\ (k + 1) - 1 = k /\ (k - 1) + 1 = k
    OBVIOUS
  <2>2. PICK a \in Nat, c \in Nat, e \in Nat, x \in Nat :
          a = s[k - 1] /\ c = v[k] /\ e = p[k] /\ x = b[k + 1]
    BY <1>1, <1>2, <2>1
  <2>3. a \in Nat /\ c \in Nat /\ e \in Nat /\ x \in Nat
    BY <2>2
  <2> DEFINE u == a + 1
             w == y[k - 1] + 1
             g == a + e
             z == c * Base
  <2>4. s[k] = g
    BY <1>1, <2>1, <2>2
  <2>5. v[k + 1] = z + x
    BY <1>2, <2>1, <2>2
  <2>6. g = u * Base
    BY <1>3, <2>2
  <2>7. z = c * Base
    OBVIOUS
  <2>8. y[k - 1] = a + c
    BY <1>4, <2>1, <2>2
  <2>9. y[k] = s[k] + v[k + 1]
    BY <1>4, <2>1
  <2>10. u \in Nat /\ w \in Nat /\ w = u + c
    BY <2>3, <2>8
  <2>11. y[k - 1] + 1 = w
    OBVIOUS
  <2> HIDE DEF u, w, g, z
  <2>12. w * Base = g + z /\ g \in Nat /\ z \in Nat
    BY <2>3, <2>6, <2>7, <2>10, BaseIs, Carry
  <2>13. (y[k - 1] + 1) * Base = g + z
    BY <2>11, <2>12
  <2>14. (g + z) + x = g + (z + x)
    BY <2>3, <2>12
  <2> QED
    BY <2>2, <2>4, <2>5, <2>9, <2>13, <2>14
<1>7. y[n] = Cpp!Shorter(n + 1) + Cpp!Value(b)
  BY <1>1, <1>2, <1>4
<1> QED
  BY <1>4, <1>5, <1>6, <1>7

LEMMA LongArgIs ==
  ASSUME NEW d, d.high \in Nat, d.args \in [1 .. d.high + 1 -> Nat]
  PROVE  /\ LongArg(d) \in Nat
         /\ LongArg(d) = Cpp!Shorter(d.high + 1) + Cpp!Value(d.args)
<1> DEFINE h == d.high
           b == d.args
           Long(y) == y = [s \in 0 .. h |-> IF s = 0 THEN b[1] ELSE (y[s - 1] + 1) * Base + b[s + 1]]
           Y == CHOOSE y : Long(y)
<1>1. LongArg(d) = Y[h]
  BY DEF LongArg
<1>2. h \in Nat /\ b \in [1 .. h + 1 -> Nat]
  OBVIOUS
<1> HIDE DEF h, b
<1>3. PICK y \in [0 .. h -> Nat] :
        /\ y[0] = b[1] /\ \A k \in 1 .. h : y[k] = (y[k - 1] + 1) * Base + b[k + 1]
        /\ y[h] = Cpp!Shorter(h + 1) + Cpp!Value(b)
  BY <1>2, CountedIs
<1>4. Long(y)
  <2>1. \A k \in 0 .. h : y[k] = IF k = 0 THEN b[1] ELSE (y[k - 1] + 1) * Base + b[k + 1]
    BY <1>2, <1>3
  <2> QED
    BY <2>1
<1>5. Long(Y)
  BY <1>4
<1> HIDE DEF Y
<1>6. \A k \in 0 .. h : Y[k] = IF k = 0 THEN b[1] ELSE (Y[k - 1] + 1) * Base + b[k + 1]
  BY <1>5
<1>7. \A k \in 0 .. h : Y[k] = y[k]
  <2> DEFINE G == {k \in 0 .. h : Y[k] = y[k]}
  <2>1. 0 \in G
    BY <1>2, <1>3, <1>6
  <2>2. ASSUME NEW k \in 1 .. h, k - 1 \in G
        PROVE  k \in G
    <3>1. k \in 0 .. h /\ k # 0
      OBVIOUS
    <3>2. Y[k] = (Y[k - 1] + 1) * Base + b[k + 1]
      BY <1>6, <3>1
    <3>3. Y[k - 1] = y[k - 1]
      BY <2>2
    <3> QED
      BY <1>3, <3>1, <3>2, <3>3
  <2>3. \A k \in 0 .. h : k \in G
    <3> HIDE DEF G
    <3> QED
      BY <1>2, <2>1, <2>2, SetInduction
  <2> QED
    BY <2>3
<1>8. h \in 0 .. h
  BY <1>2
<1>9. Y[h] = y[h] /\ y[h] \in Nat
  BY <1>3, <1>7, <1>8
<1> QED
  BY <1>1, <1>3, <1>9 DEF h, b

LEMMA ArgOfIs ==
  ASSUME NEW m \in 1 .. 3, NEW a \in [1 .. m -> Nat]
  PROVE  ArgOf(a) \in Nat /\ ArgOf(a) = Cpp!Shorter(m) + Cpp!Value(a) /\ Len(a) = m
<1> DEFINE n == m - 1
<1>1. n \in Nat /\ n + 1 = m /\ a \in [1 .. n + 1 -> Nat] /\ Len(a) = m
  OBVIOUS
<1> HIDE DEF n
<1>2. PICK y \in [0 .. n -> Nat] :
        /\ y[0] = a[1] /\ \A k \in 1 .. n : y[k] = (y[k - 1] + 1) * Base + a[k + 1]
        /\ y[n] = Cpp!Shorter(n + 1) + Cpp!Value(a)
  BY <1>1, CountedIs
<1>3. ASSUME n >= 1
      PROVE  y[1] = (a[1] + 1) * Base + a[2]
  <2>1. 1 \in 1 .. n
    BY <1>1, <1>3
  <2> QED
    BY <1>2, <2>1
<1>4. ASSUME n >= 2
      PROVE  y[2] = (y[1] + 1) * Base + a[3]
  <2>1. 2 \in 1 .. n
    BY <1>1, <1>4
  <2> QED
    BY <1>2, <2>1
<1>5. ArgOf(a) = y[n]
  <2>1. CASE m = 1
    BY <1>1, <1>2, <2>1 DEF ArgOf
  <2>2. CASE m = 2
    BY <1>1, <1>3, <2>2 DEF ArgOf
  <2>3. CASE m = 3
    <3>1. y[2] = (((a[1] + 1) * Base + a[2]) + 1) * Base + a[3]
      BY <1>1, <1>3, <1>4, <2>3
    <3>2. ArgOf(a) = (a[1] + 1) * Base * Base + (a[2] + 1) * Base + a[3]
      BY <1>1, <2>3 DEF ArgOf
    <3>3. PICK p \in Nat, q \in Nat, r \in Nat : p = a[1] /\ q = a[2] /\ r = a[3]
      BY <2>3
    <3>4. p \in Nat /\ q \in Nat /\ r \in Nat /\ Base \in Nat
      BY <3>3, BaseIs
    <3>5. (((p + 1) * Base + q) + 1) * Base + r = (p + 1) * Base * Base + (q + 1) * Base + r
      BY <3>4
    <3> QED
      BY <1>1, <2>3, <3>1, <3>2, <3>3, <3>5
  <2> QED
    BY <2>1, <2>2, <2>3
<1>6. y[n] \in Nat
  BY <1>1, <1>2
<1> QED
  BY <1>1, <1>2, <1>5, <1>6

LEMMA ThreeBytesAre ==
  ASSUME NEW a \in [1 .. 3 -> Nat]
  PROVE  /\ Cpp!Value(a) = a[1] * Base * Base + a[2] * Base + a[3]
         /\ Cpp!Value(a) \in Nat
<1>1. PICK v \in [0 .. 3 -> Nat] :
        /\ v[0] = 0 /\ \A k \in 1 .. 3 : v[k] = v[k - 1] * Base + a[k]
        /\ Cpp!Value(a) = v[3]
  BY ValueIs
<1>2. v[1] = v[0] * Base + a[1] /\ v[2] = v[1] * Base + a[2] /\ v[3] = v[2] * Base + a[3]
  <2>1. v[1] = v[1 - 1] * Base + a[1] /\ v[2] = v[2 - 1] * Base + a[2]
        /\ v[3] = v[3 - 1] * Base + a[3]
    BY <1>1
  <2> QED
    BY <2>1
<1>3. a[1] \in Nat /\ a[2] \in Nat /\ a[3] \in Nat /\ v[0] = 0
  BY <1>1
<1>4. v[1] = a[1]
  BY <1>2, <1>3, BaseIs
<1>5. v[3] = (a[1] * Base + a[2]) * Base + a[3]
  BY <1>2, <1>4
<1>6. ASSUME NEW p \in Nat, NEW q \in Nat, NEW r \in Nat, NEW n \in Nat
      PROVE  (p * n + q) * n + r = p * n * n + q * n + r
  OBVIOUS
<1>7. v[3] = a[1] * Base * Base + a[2] * Base + a[3]
  BY <1>3, <1>5, BaseIs
<1> QED
  BY <1>1, <1>7

-----------------------------------------------------------------------------
(* Repetitions. *)

Bytes == Int \X Int

LEMMA ModIs ==
  ASSUME NEW a \in Nat, NEW p \in Nat, p >= 1
  PROVE  /\ a % p \in 0 .. p - 1
         /\ a < p => a % p = a
OBVIOUS

LEMMA ModAgain ==
  ASSUME NEW a \in Nat, NEW c \in Nat, NEW p \in Nat, p >= 1, a = c + p
  PROVE  a % p = c % p
<1> DEFINE q == c \div p
           r == c % p
<1>1. q \in Int /\ r \in 0 .. p - 1 /\ c = p * q + r
  OBVIOUS
<1> HIDE DEF q, r
<1>2. a = p * (q + 1) + r
  BY <1>1
<1>3. a % p = r
  BY <1>1, <1>2
<1> QED
  BY <1>3 DEF r

LEMMA SameSequence ==
  ASSUME NEW S, NEW v \in Seq(S), NEW w \in Seq(S), Len(v) = Len(w),
         \A x \in 1 .. Len(v) : v[x] = w[x]
  PROVE  v = w
OBVIOUS

LEMMA JoinIs ==
  ASSUME NEW S, NEW a \in Seq(S), NEW b \in Seq(S), NEW c, c = a \o b
  PROVE  /\ c \in Seq(S) /\ Len(c) = Len(a) + Len(b)
         /\ \A x \in 1 .. Len(a) : c[x] = a[x]
         /\ \A x \in 1 .. Len(b) : c[Len(a) + x] = b[x]
OBVIOUS

LEMMA AppendIs ==
  ASSUME NEW S, NEW a \in Seq(S), NEW e \in S, NEW c, c = Append(a, e)
  PROVE  /\ c \in Seq(S) /\ Len(c) = Len(a) + 1
         /\ \A x \in 1 .. Len(a) : c[x] = a[x]
         /\ c[Len(a) + 1] = e
OBVIOUS

IsJoin(c, a, b) == c = a \o b

Longer(u, t, e) ==
  Len(u) = Len(t) + 1 /\ u[Len(u)] = e /\ \A x \in 1 .. Len(t) : u[x] = t[x]

(* Appending to what was joined is joining what was appended to. *)
LEMMA JoinAppended ==
  ASSUME NEW S, NEW a \in Seq(S), NEW t \in Seq(S), NEW u \in Seq(S), NEW c \in Seq(S),
         NEW e \in S, Longer(u, t, e), IsJoin(c, a, t)
  PROVE  a \o u = Append(c, e)
<1>1. Len(u) = Len(t) + 1 /\ u[Len(u)] = e /\ \A x \in 1 .. Len(t) : u[x] = t[x]
  BY DEF Longer
<1>2. u = Append(t, e)
  <2> DEFINE w == Append(t, e)
  <2>1. /\ w \in Seq(S) /\ Len(w) = Len(t) + 1
        /\ \A x \in 1 .. Len(t) : w[x] = t[x]
        /\ w[Len(t) + 1] = e
    BY AppendIs
  <2> HIDE DEF w
  <2>2. ASSUME NEW x \in 1 .. Len(u)
        PROVE  u[x] = w[x]
    <3>1. x \in 1 .. Len(t) \/ x = Len(t) + 1
      BY <1>1
    <3> QED
      BY <1>1, <2>1, <3>1
  <2>3. u = w
    BY <1>1, <2>1, <2>2, SameSequence
  <2> QED
    BY <2>3 DEF w
<1>3. c = a \o t
  BY DEF IsJoin
<1> QED
  BY <1>2, <1>3

(* n bytes of text from its place j on, which come again and again. *)
Piece(text, j, n) == [k \in 1 .. n |-> text[j + ((k - 1) % (Len(text) - j)) + 1]]

LEMMA PieceIs ==
  ASSUME NEW text \in Seq(Bytes), NEW j \in 0 .. Len(text) - 1, NEW n \in Nat
  PROVE  /\ Piece(text, j, n) \in Seq(Bytes) /\ Len(Piece(text, j, n)) = n
         /\ \A k \in 1 .. n : Piece(text, j, n)[k] = text[j + ((k - 1) % (Len(text) - j)) + 1]
         /\ text \o Piece(text, j, n) \in Seq(Bytes)
<1> DEFINE p == Len(text) - j
<1>1. p \in Nat /\ p >= 1 /\ j \in Nat /\ j + p = Len(text)
  OBVIOUS
<1> HIDE DEF p
<1>2. ASSUME NEW k \in 1 .. n
      PROVE  text[j + ((k - 1) % p) + 1] \in Bytes
  <2> DEFINE r == (k - 1) % p
  <2>1. r \in 0 .. p - 1
    <3>1. k - 1 \in Nat
      OBVIOUS
    <3> QED
      BY <1>1, <3>1, ModIs
  <2> HIDE DEF r
  <2>2. j + r + 1 \in 1 .. Len(text)
    BY <1>1, <2>1
  <2>3. text[j + r + 1] \in Bytes
    BY <2>2
  <2> QED
    BY <2>3 DEF r
<1>3. Piece(text, j, n) = [k \in 1 .. n |-> text[j + ((k - 1) % p) + 1]]
  BY DEF Piece, p
<1>4. Piece(text, j, n) \in [1 .. n -> Bytes]
  BY <1>2, <1>3
<1>5. Piece(text, j, n) \in Seq(Bytes) /\ Len(Piece(text, j, n)) = n
  BY <1>4, SeqDef
<1> QED
  BY <1>5 DEF Piece

(* t comes from the p bytes behind j, again and again; s is a and then b. *)
Repeats(t, text, j, p, n) ==
  Len(t) = n /\ \A x \in 1 .. n : t[x] = text[j + ((x - 1) % p) + 1]

Joins(s, a, b) ==
  /\ Len(s) = Len(a) + Len(b)
  /\ \A x \in 1 .. Len(a) : s[x] = a[x]
  /\ \A x \in 1 .. Len(b) : s[Len(a) + x] = b[x]

(* The piece is the last p of the l bytes; n of it have been appended. *)
Fits(text, l, j, p, n, k) ==
  /\ l \in Nat /\ j \in Nat /\ p \in Nat /\ n \in Nat /\ k \in Nat
  /\ l = Len(text) /\ p >= 1 /\ j + p = l /\ k = n + 1

(* The loops read the next byte of the piece, and append it. *)
LEMMA NextOfPiece ==
  ASSUME NEW text \in Seq(Bytes), NEW l, NEW j, NEW p, NEW n, NEW k,
         Fits(text, l, j, p, n, k),
         NEW t \in Seq(Bytes), Repeats(t, text, j, p, n),
         NEW sofar \in Seq(Bytes), Joins(sofar, text, t)
  PROVE  j + k \in DOMAIN sofar /\ sofar[j + k] = text[j + (n % p) + 1]
<1>1. /\ l \in Nat /\ j \in Nat /\ p \in Nat /\ n \in Nat /\ k \in Nat
      /\ l = Len(text) /\ p >= 1 /\ j + p = l /\ k = n + 1
  BY DEF Fits
<1>2. /\ Len(t) = n /\ \A x \in 1 .. n : t[x] = text[j + ((x - 1) % p) + 1]
      /\ Len(sofar) = l + n
      /\ \A x \in 1 .. l : sofar[x] = text[x]
      /\ \A x \in 1 .. n : sofar[l + x] = t[x]
  BY <1>1 DEF Repeats, Joins
<1>3. DOMAIN sofar = 1 .. l + n
  BY <1>2
<1>4. j + k \in 1 .. l + n
  BY <1>1
<1>5. CASE k <= p
  <2>1. n < p
    BY <1>1, <1>5
  <2>2. n % p = n
    BY <1>1, <2>1, ModIs
  <2>3. j + k \in 1 .. l /\ j + n + 1 = j + k
    BY <1>1, <1>5
  <2>4. sofar[j + k] = text[j + k]
    BY <1>2, <2>3
  <2> QED
    BY <1>3, <1>4, <2>2, <2>3, <2>4
<1>6. CASE k > p
  <2>1. PICK x \in Int : x = k - p
    BY <1>1
  <2>2. x \in 1 .. n /\ l + x = j + k /\ x - 1 \in Nat /\ n = (x - 1) + p
    BY <1>1, <1>6, <2>1
  <2>3. PICK c \in Nat : c = x - 1
    BY <2>2
  <2>4. n % p = c % p
    <3>1. c \in Nat /\ n = c + p
      BY <2>2, <2>3
    <3>2. n \in Nat /\ p \in Nat /\ p >= 1
      BY <1>1
    <3> QED
      BY <3>1, <3>2, ModAgain
  <2>5. t[x] = text[j + (c % p) + 1]
    BY <1>2, <2>2, <2>3
  <2>6. sofar[l + x] = t[x]
    BY <1>2, <2>2
  <2> QED
    BY <1>3, <1>4, <2>2, <2>4, <2>5, <2>6
<1> QED
  BY <1>1, <1>5, <1>6

LEMMA SofarGoesOn ==
  ASSUME NEW text \in Seq(Bytes), NEW l, NEW j, NEW p, NEW n, NEW k,
         Fits(text, l, j, p, n, k),
         NEW t \in Seq(Bytes), Repeats(t, text, j, p, n),
         NEW u \in Seq(Bytes), Repeats(u, text, j, p, k),
         NEW sofar, IsJoin(sofar, text, t)
  PROVE  j + k \in DOMAIN sofar /\ text \o u = Append(sofar, sofar[j + k])
<1>1. /\ p \in Nat /\ n \in Nat /\ k \in Nat /\ k = n + 1
      /\ Len(t) = n /\ \A x \in 1 .. n : t[x] = text[j + ((x - 1) % p) + 1]
      /\ Len(u) = k /\ \A x \in 1 .. k : u[x] = text[j + ((x - 1) % p) + 1]
  BY DEF Fits, Repeats
<1>2. sofar \in Seq(Bytes) /\ Joins(sofar, text, t)
  <2>1. sofar = text \o t
    BY DEF IsJoin
  <2> QED
    BY <2>1, JoinIs DEF Joins
<1>3. j + k \in DOMAIN sofar /\ sofar[j + k] = text[j + (n % p) + 1]
  BY <1>2, NextOfPiece
<1>4. k \in 1 .. k /\ k - 1 = n
  BY <1>1
<1>5. u[k] = text[j + (n % p) + 1]
  BY <1>1, <1>4
<1>6. PICK b \in Bytes : b = u[k]
  BY <1>1, <1>4
<1>7. Longer(u, t, b)
  <2>1. \A x \in 1 .. n : x \in 1 .. k
    BY <1>1
  <2>2. \A x \in 1 .. n : u[x] = t[x]
    BY <1>1, <2>1
  <2> QED
    BY <1>1, <1>6, <2>2 DEF Longer
<1>8. text \o u = Append(sofar, b)
  BY <1>2, <1>7, JoinAppended
<1> QED
  BY <1>3, <1>5, <1>6, <1>8

LEMMA PieceRepeats ==
  ASSUME NEW text \in Seq(Bytes), NEW l \in Nat, l = Len(text),
         NEW j \in Nat, NEW p \in Nat, p >= 1, j + p = l, NEW n \in Nat
  PROVE  Piece(text, j, n) \in Seq(Bytes) /\ Repeats(Piece(text, j, n), text, j, p, n)
<1>1. j \in 0 .. Len(text) - 1 /\ Len(text) - j = p
  OBVIOUS
<1>2. /\ Piece(text, j, n) \in Seq(Bytes) /\ Len(Piece(text, j, n)) = n
      /\ \A k \in 1 .. n : Piece(text, j, n)[k] = text[j + ((k - 1) % (Len(text) - j)) + 1]
  BY <1>1, PieceIs
<1> QED
  BY <1>1, <1>2 DEF Repeats

LEMMA PieceGoesOn ==
  ASSUME NEW text \in Seq(Bytes), NEW j \in 0 .. Len(text) - 1, NEW k \in Nat \ {0},
         NEW n, n = k - 1, NEW sofar, IsJoin(sofar, text, Piece(text, j, n))
  PROVE  /\ j + k \in DOMAIN sofar
         /\ text \o Piece(text, j, k) = Append(sofar, sofar[j + k])
<1> DEFINE m == Len(text)
<1>1. m \in Nat /\ j \in 0 .. m - 1
  OBVIOUS
<1>2. PICK l \in Nat, p \in Nat : l = m /\ p = m - j
  <2> HIDE DEF m
  <2> QED
    BY <1>1
<1>3. Fits(text, l, j, p, n, k)
  BY <1>2 DEF Fits
<1>4. l = Len(text) /\ j \in Nat /\ p \in Nat /\ p >= 1 /\ j + p = l /\ n \in Nat /\ k \in Nat
  BY <1>3 DEF Fits
<1>5. PICK t \in Seq(Bytes) : t = Piece(text, j, n) /\ Repeats(t, text, j, p, n)
  BY <1>4, PieceRepeats
<1>6. PICK u \in Seq(Bytes) : u = Piece(text, j, k) /\ Repeats(u, text, j, p, k)
  BY <1>4, PieceRepeats
<1>7. Repeats(t, text, j, p, n) /\ Repeats(u, text, j, p, k) /\ IsJoin(sofar, text, t)
  BY <1>5, <1>6
<1>8. j + k \in DOMAIN sofar /\ text \o u = Append(sofar, sofar[j + k])
  BY <1>3, <1>7, SofarGoesOn
<1> QED
  BY <1>6, <1>8

(* What the loop has after k turns. *)
Grown(text, j, n) == [k \in 0 .. n |-> text \o Piece(text, j, k)]

LEMMA GrownIs ==
  ASSUME NEW text \in Seq(Bytes), NEW j \in 0 .. Len(text) - 1, NEW n \in Nat
  PROVE  /\ Grown(text, j, n)[0] = text
         /\ Grown(text, j, n)[n] = text \o Piece(text, j, n)
         /\ \A k \in 1 .. n :
              /\ j + k \in DOMAIN Grown(text, j, n)[k - 1]
              /\ Grown(text, j, n)[k] =
                   Append(Grown(text, j, n)[k - 1], Grown(text, j, n)[k - 1][j + k])
<1>1. Grown(text, j, n)[0] = text
  <2>1. Piece(text, j, 0) = <<>>
    BY DEF Piece
  <2>2. Grown(text, j, n)[0] = text \o Piece(text, j, 0)
    BY DEF Grown
  <2> QED
    BY <2>1, <2>2
<1>2. Grown(text, j, n)[n] = text \o Piece(text, j, n)
  BY DEF Grown
<1>3. ASSUME NEW k \in 1 .. n
      PROVE  /\ j + k \in DOMAIN Grown(text, j, n)[k - 1]
             /\ Grown(text, j, n)[k] =
                  Append(Grown(text, j, n)[k - 1], Grown(text, j, n)[k - 1][j + k])
  <2>1. PICK m \in 0 .. n : m = k - 1
    OBVIOUS
  <2>2. k \in 0 .. n /\ k \in Nat \ {0}
    OBVIOUS
  <2>3. Grown(text, j, n)[k] = text \o Piece(text, j, k)
    BY <2>2 DEF Grown
  <2> DEFINE sofar == Grown(text, j, n)[m]
  <2>4. IsJoin(sofar, text, Piece(text, j, m))
    BY <2>1 DEF Grown, IsJoin
  <2> HIDE DEF sofar
  <2>5. /\ j + k \in DOMAIN sofar
        /\ text \o Piece(text, j, k) = Append(sofar, sofar[j + k])
    BY <2>1, <2>2, <2>4, PieceGoesOn
  <2> QED
    BY <2>1, <2>3, <2>5 DEF sofar
<1> QED
  BY <1>1, <1>2, <1>3

(* Of the loop of the C++ tool. *)
IsLoop(l, text, j, n) ==
  l = [k \in 0 .. n |->
         IF k = 0 THEN text
         ELSE Append(l[k - 1], IF j + k \in DOMAIN l[k - 1] THEN l[k - 1][j + k] ELSE Unset)]

(* Of the loop of the Python tool. *)
IsPyLoop(l, text, j, n) ==
  l = [k \in 0 .. n |->
         IF k = 0 THEN text
         ELSE IF j + k \in DOMAIN l[k - 1] THEN Append(l[k - 1], l[k - 1][j + k]) ELSE l[k - 1]]

(* A copy from the text appends the piece that begins at the cursor, over  *)
(* and over, in both tools.                                                *)
LEMMA AppendedIs ==
  ASSUME NEW text \in Seq(Bytes), NEW j \in 0 .. Len(text) - 1, NEW n \in Nat
  PROVE  Appended(text, j, n) = text \o Piece(text, j, n)
<1> DEFINE g == Grown(text, j, n)
           L == CHOOSE l : IsLoop(l, text, j, n)
<1>1. Appended(text, j, n) = L[n]
  BY DEF Appended, IsLoop
<1>2. /\ g[0] = text /\ g[n] = text \o Piece(text, j, n)
      /\ \A k \in 1 .. n : /\ j + k \in DOMAIN g[k - 1]
                           /\ g[k] = Append(g[k - 1], g[k - 1][j + k])
  BY GrownIs
<1>3. g = [k \in 0 .. n |-> g[k]]
  BY DEF Grown
<1> HIDE DEF g, L
<1>4. IsLoop(g, text, j, n)
  <2>1. \A k \in 0 .. n : k = 0 \/ k \in 1 .. n
    OBVIOUS
  <2>2. \A k \in 0 .. n :
          g[k] = IF k = 0 THEN text
                 ELSE Append(g[k - 1], IF j + k \in DOMAIN g[k - 1] THEN g[k - 1][j + k] ELSE Unset)
    BY <1>2, <2>1
  <2> QED
    BY <1>3, <2>2 DEF IsLoop
<1>5. IsLoop(L, text, j, n)
  BY <1>4 DEF L
<1>6. \A k \in 0 .. n :
        L[k] = IF k = 0 THEN text
               ELSE Append(L[k - 1], IF j + k \in DOMAIN L[k - 1] THEN L[k - 1][j + k] ELSE Unset)
  BY <1>5 DEF IsLoop
<1>7. \A k \in 0 .. n : L[k] = g[k]
  <2> DEFINE G == {k \in 0 .. n : L[k] = g[k]}
  <2>1. 0 \in G
    BY <1>2, <1>6
  <2>2. ASSUME NEW k \in 1 .. n, k - 1 \in G
        PROVE  k \in G
    <3>1. k \in 0 .. n /\ k # 0 /\ L[k - 1] = g[k - 1]
      BY <2>2
    <3>2. L[k] = Append(g[k - 1], IF j + k \in DOMAIN g[k - 1] THEN g[k - 1][j + k] ELSE Unset)
      BY <1>6, <3>1
    <3> QED
      BY <1>2, <3>1, <3>2
  <2>3. \A k \in 0 .. n : k \in G
    <3> HIDE DEF G
    <3> QED
      BY <2>1, <2>2, SetInduction
  <2> QED
    BY <2>3
<1>8. n \in 0 .. n
  OBVIOUS
<1> QED
  BY <1>1, <1>2, <1>7, <1>8

LEMMA PyAppendedIs ==
  ASSUME NEW text \in Seq(Bytes), NEW j \in 0 .. Len(text) - 1, NEW n \in Nat
  PROVE  PyAppended(text, j, n) = text \o Piece(text, j, n)
<1> DEFINE g == Grown(text, j, n)
           L == CHOOSE l : IsPyLoop(l, text, j, n)
<1>1. PyAppended(text, j, n) = L[n]
  BY DEF PyAppended, IsPyLoop
<1>2. /\ g[0] = text /\ g[n] = text \o Piece(text, j, n)
      /\ \A k \in 1 .. n : /\ j + k \in DOMAIN g[k - 1]
                           /\ g[k] = Append(g[k - 1], g[k - 1][j + k])
  BY GrownIs
<1>3. g = [k \in 0 .. n |-> g[k]]
  BY DEF Grown
<1> HIDE DEF g, L
<1>4. IsPyLoop(g, text, j, n)
  <2>1. \A k \in 0 .. n : k = 0 \/ k \in 1 .. n
    OBVIOUS
  <2>2. \A k \in 0 .. n :
          g[k] = IF k = 0 THEN text
                 ELSE IF j + k \in DOMAIN g[k - 1] THEN Append(g[k - 1], g[k - 1][j + k]) ELSE g[k - 1]
    BY <1>2, <2>1
  <2> QED
    BY <1>3, <2>2 DEF IsPyLoop
<1>5. IsPyLoop(L, text, j, n)
  BY <1>4 DEF L
<1>6. \A k \in 0 .. n :
        L[k] = IF k = 0 THEN text
               ELSE IF j + k \in DOMAIN L[k - 1] THEN Append(L[k - 1], L[k - 1][j + k]) ELSE L[k - 1]
  BY <1>5 DEF IsPyLoop
<1>7. \A k \in 0 .. n : L[k] = g[k]
  <2> DEFINE G == {k \in 0 .. n : L[k] = g[k]}
  <2>1. 0 \in G
    BY <1>2, <1>6
  <2>2. ASSUME NEW k \in 1 .. n, k - 1 \in G
        PROVE  k \in G
    <3>1. k \in 0 .. n /\ k # 0 /\ L[k - 1] = g[k - 1]
      BY <2>2
    <3>2. L[k] = IF j + k \in DOMAIN g[k - 1] THEN Append(g[k - 1], g[k - 1][j + k]) ELSE g[k - 1]
      BY <1>6, <3>1
    <3> QED
      BY <1>2, <3>1, <3>2
  <2>3. \A k \in 0 .. n : k \in G
    <3> HIDE DEF G
    <3> QED
      BY <2>1, <2>2, SetInduction
  <2> QED
    BY <2>3
<1>8. n \in 0 .. n
  OBVIOUS
<1> QED
  BY <1>1, <1>2, <1>7, <1>8

-----------------------------------------------------------------------------
(* Commands. *)

LEMMA CodeIs ==
  ASSUME NEW d \in Codes
  PROVE  /\ d.low \in {0, 1, 3, 4, 5, 6, 8, 9, 10, 11, 13, 14, 15}
         /\ d.high \in 0 .. 15 /\ d.high \in Highs(d.low)
         /\ d.args \in [1 .. Arguments(d.low, d.high) -> Nat]
<1>1. PICK c \in {p \in (DOMAIN Low \ {7, 12}) \X (High \cup {0} \cup DOMAIN Sources) :
                    p[2] \in Highs(p[1])} :
        d \in [low : {c[1]}, high : {c[2]}, args : [1 .. Arguments(c[1], c[2]) -> Argument]]
  BY DEF Codes
<1>2. d.low = c[1] /\ d.high = c[2] /\ d.args \in [1 .. Arguments(c[1], c[2]) -> Argument]
  BY <1>1
<1>3. /\ c[1] \in DOMAIN Low \ {7, 12} /\ c[2] \in High \cup {0} \cup DOMAIN Sources
      /\ c[2] \in Highs(c[1])
  OBVIOUS
<1>4. c[1] \in (0 .. 15) \ {2, 7, 12}
  BY <1>3 DEF Low
<1>5. c[2] \in 0 .. 15
  <2>1. High \subseteq 0 .. 15
    <3>1. High \subseteq 0 .. 14
      BY HighAssumption
    <3> QED
      BY <3>1
  <2>2. DOMAIN Sources \subseteq 0 .. 15
    <3>1. DOMAIN Sources \subseteq 1 .. 15
      BY SourcesAssumption
    <3> QED
      BY <3>1
  <2>3. 0 \in 0 .. 15
    OBVIOUS
  <2> QED
    BY <1>3, <2>1, <2>2, <2>3
<1>6. d.args \in [1 .. Arguments(d.low, d.high) -> Nat]
  BY <1>2, BaseIs
<1> QED
  BY <1>2, <1>3, <1>4, <1>5, <1>6

LEMMA KindIs ==
  ASSUME NEW d \in Codes
  PROVE  /\ d.low \in {0, 1} => Low[d.low] = "insert"
         /\ d.low \in {3, 4, 5, 6} => Low[d.low] = "repeat"
         /\ d.low \in {8, 9, 10, 11} => Low[d.low] = "back"
         /\ d.low \in {13, 14} => Low[d.low] = "forward"
         /\ d.low = 15 => Low[d.low] = "jump"
<1>1. d.low \in {0, 1, 3, 4, 5, 6, 8, 9, 10, 11, 13, 14, 15}
  BY CodeIs
<1> QED
  BY <1>1 DEF Low

LEMMA MeaningIs ==
  ASSUME NEW d \in Codes
  PROVE  /\ Meaning(d) \in Meanings /\ Meaning(d) # None
         /\ Meaning(d).kind = Low[d.low] /\ Meaning(d).high = d.high /\ Meaning(d).args = d.args
         /\ Meaning(d).source = IF NamesSource(d.low) THEN d.high ELSE 0
<1>1. Low[d.low] # "none"
  <2>1. d.low \in {0, 1, 3, 4, 5, 6, 8, 9, 10, 11, 13, 14, 15}
    BY CodeIs
  <2> QED
    BY <2>1, KindIs
<1>2. Meaning(d).kind # None.kind
  BY <1>1 DEF Meaning, None
<1> QED
  BY <1>2 DEF Meaning, Meanings

LEMMA ShorterIsNat ==
  ASSUME NEW n \in Nat, NEW m, m = n + 1
  PROVE  Cpp!Shorter(m) \in Nat
<1>1. PICK p, s \in [0 .. n -> Nat] :
        /\ p[0] = 1 /\ \A k \in 1 .. n : p[k] = p[k - 1] * Base
        /\ s[0] = 0 /\ \A k \in 1 .. n : s[k] = s[k - 1] + p[k]
        /\ Cpp!Shorter(n + 1) = s[n]
  BY ShorterIs
<1>2. n \in 0 .. n
  OBVIOUS
<1>3. s[n] \in Nat
  BY <1>1, <1>2
<1> QED
  BY <1>1, <1>3

LEMMA NoArguments ==
  ASSUME NEW d \in Codes, d.low \in {0, 3, 8}, NEW small, NEW large
  PROVE  Cpp!Number(Meaning(d), small, large) = small + d.high
<1>1. Arguments(d.low, d.high) = 0
  BY DEF Arguments
<1>2. d.args = <<>>
  BY <1>1, CodeIs
<1> QED
  BY <1>2, MeaningIs DEF Cpp!Number

LEMMA SomeArguments ==
  ASSUME NEW d \in Codes, NEW m \in Nat \ {0}, m = Arguments(d.low, d.high), NEW small, NEW large
  PROVE  /\ d.args \in [1 .. m -> Nat] /\ Len(d.args) = m
         /\ Cpp!Number(Meaning(d), small, large) = large + Cpp!Shorter(m) + Cpp!Value(d.args)
<1>1. d.args \in [1 .. m -> Nat]
  BY CodeIs
<1>2. Len(d.args) = m /\ d.args # <<>>
  BY <1>1
<1> QED
  BY <1>1, <1>2, MeaningIs DEF Cpp!Number

LEMMA LongIs ==
  ASSUME NEW d \in Codes, d.low = 1
  PROVE  /\ Cpp!Number(Meaning(d), 1, 17) = LongArg(d) + 17 /\ LongArg(d) \in Nat
         /\ d.args \in [1 .. d.high + 1 -> Nat]
<1>1. d.high \in Nat
  BY CodeIs
<1>2. PICK m \in Nat \ {0} : m = d.high + 1
  BY <1>1
<1>3. m = Arguments(d.low, d.high)
  BY <1>2 DEF Arguments
<1>4. /\ d.args \in [1 .. m -> Nat]
      /\ Cpp!Number(Meaning(d), 1, 17) = 17 + Cpp!Shorter(m) + Cpp!Value(d.args)
  BY <1>3, SomeArguments
<1>5. d.args \in [1 .. d.high + 1 -> Nat]
  BY <1>2, <1>4
<1>6. LongArg(d) \in Nat /\ LongArg(d) = Cpp!Shorter(d.high + 1) + Cpp!Value(d.args)
  BY <1>1, <1>5, LongArgIs
<1>7. LongArg(d) = Cpp!Shorter(m) + Cpp!Value(d.args)
  BY <1>2, <1>6
<1>8. PICK x \in Nat, v \in Nat : x = Cpp!Shorter(m) /\ v = Cpp!Value(d.args)
  <2>1. \E v \in Nat : v = Cpp!Value(d.args)
    BY <1>4, ValueIs
  <2>2. \E x \in Nat : x = Cpp!Shorter(m)
    <3>1. Cpp!Shorter(m) \in Nat
      BY <1>1, <1>2, ShorterIsNat
    <3> QED
      BY <3>1
  <2> QED
    BY <2>1, <2>2
<1>9. 17 + x + v = (x + v) + 17
  BY <1>8
<1> QED
  BY <1>4, <1>5, <1>6, <1>7, <1>8, <1>9

LEMMA ShortIs ==
  ASSUME NEW d \in Codes, d.low \in {4, 5, 6, 9, 10, 11, 13, 14}, NEW small, NEW large \in Nat
  PROVE  /\ Cpp!Number(Meaning(d), small, large) = ArgOf(d.args) + large
         /\ ArgOf(d.args) \in Nat
<1>1. Arguments(d.low, d.high) \in 1 .. 3
  BY DEF Arguments
<1>2. PICK m \in 1 .. 3 : m = Arguments(d.low, d.high)
  BY <1>1
<1>3. /\ d.args \in [1 .. m -> Nat]
      /\ Cpp!Number(Meaning(d), small, large) = large + Cpp!Shorter(m) + Cpp!Value(d.args)
  <2>1. m \in Nat \ {0}
    OBVIOUS
  <2> QED
    BY <1>2, <2>1, SomeArguments
<1>4. ArgOf(d.args) \in Nat /\ ArgOf(d.args) = Cpp!Shorter(m) + Cpp!Value(d.args)
  BY <1>3, ArgOfIs
<1>5. PICK x \in Nat, v \in Nat : x = Cpp!Shorter(m) /\ v = Cpp!Value(d.args)
  <2>1. \E v \in Nat : v = Cpp!Value(d.args)
    <3>1. m \in Nat
      OBVIOUS
    <3> QED
      BY <1>3, <3>1, ValueIs
  <2>2. \E x \in Nat : x = Cpp!Shorter(m)
    <3>1. PICK n \in Nat : m = n + 1
      <4>1. m - 1 \in Nat /\ m = (m - 1) + 1
        OBVIOUS
      <4> QED
        BY <4>1
    <3>2. Cpp!Shorter(m) \in Nat
      BY <3>1, ShorterIsNat
    <3> QED
      BY <3>2
  <2> QED
    BY <2>1, <2>2
<1>6. large + x + v = (x + v) + large
  BY <1>5
<1> QED
  BY <1>3, <1>4, <1>5, <1>6

-----------------------------------------------------------------------------
(* The C++ tool. *)

(* What holds whenever a command is read: all of the text has been written *)
(* to the file, and there is a byte of it at the cursor.                   *)
Streamed ==
  /\ outdata \in Seq(Bytes) /\ file = outdata
  /\ expcursors \in [{0} \cup DOMAIN Sources -> Int]
  /\ outdata # <<>> => expcursors[0] \in 0 .. Len(outdata) - 1

LEMMA TailIs ==
  ASSUME NEW S, NEW a \in Seq(S), NEW b \in Seq(S)
  PROVE  SubSeq(a \o b, Len(a) + 1, Len(a \o b)) = b
<1> DEFINE c == a \o b
           w == SubSeq(c, Len(a) + 1, Len(c))
<1>1. /\ c \in Seq(S) /\ Len(c) = Len(a) + Len(b)
      /\ \A x \in 1 .. Len(b) : c[Len(a) + x] = b[x]
  BY JoinIs
<1> HIDE DEF c
<1>2. Len(w) = Len(b) /\ \A x \in 1 .. Len(b) : w[x] = c[Len(a) + x]
  BY <1>1
<1>3. w \in Seq(S)
  BY <1>1
<1> HIDE DEF w
<1>4. w = b
  BY <1>1, <1>2, <1>3, SameSequence
<1> QED
  BY <1>4 DEF w, c

LEMMA ProduceIs ==
  ASSUME Streamed, NEW piece \in Seq(Bytes), piece # <<>>,
         NEW cursors \in [{0} \cup DOMAIN Sources -> Int],
         NEW text, IsJoin(text, outdata, piece), Produce(text, cursors)
  PROVE  /\ Streamed' /\ outdata' = outdata \o piece /\ file' = file \o piece
         /\ expcursors' = [cursors EXCEPT ![0] = Len(file') - 1]
         /\ expcursors'[0] = Len(outdata') - 1
<1>1. text = outdata \o piece /\ outdata \in Seq(Bytes) /\ file = outdata
  BY DEF IsJoin, Streamed
<1>2. SubSeq(text, Len(outdata) + 1, Len(text)) = piece
  BY <1>1, TailIs
<1>3. outdata' = outdata \o piece /\ file' = file \o piece
  BY <1>1, <1>2 DEF Produce, size
<1>4. text \in Seq(Bytes) /\ Len(text) \in Nat /\ Len(text) >= 1
  <2>1. text \in Seq(Bytes) /\ Len(text) = Len(outdata) + Len(piece)
    BY <1>1, JoinIs
  <2>2. Len(piece) \in Nat /\ Len(piece) >= 1 /\ Len(outdata) \in Nat
    BY <1>1
  <2> QED
    BY <2>1, <2>2
<1>5. outdata' = text /\ file' = text
  BY <1>1, <1>3
<1>6. expcursors' = [cursors EXCEPT ![0] = Len(text) - 1]
  BY DEF Produce
<1>7. /\ expcursors' \in [{0} \cup DOMAIN Sources -> Int]
      /\ expcursors'[0] = Len(text) - 1
  BY <1>4, <1>6
<1>8. Streamed'
  BY <1>4, <1>5, <1>7 DEF Streamed
<1> QED
  BY <1>3, <1>5, <1>6, <1>7, <1>8

LEMMA LiteralsAre ==
  ASSUME NEW at \in Nat, NEW n \in Nat, n >= 1
  PROVE  Literals(at, n) \in Seq(Bytes) /\ Literals(at, n) # <<>>
<1>1. \A k \in 1 .. n : <<0, at + k - 1>> \in Bytes
  BY DEF Bytes
<1>2. Literals(at, n) \in [1 .. n -> Bytes]
  BY <1>1 DEF Literals
<1>3. Literals(at, n) \in Seq(Bytes) /\ Len(Literals(at, n)) = n
  BY <1>2, SeqDef
<1> QED
  BY <1>3

(* What is inserted, by either tool. *)
LEMMA InsertedIs ==
  ASSUME NEW d \in Codes, d.low \in {0, 1}
  PROVE  \E n \in Nat :
           /\ n >= 1 /\ n = Cpp!Number(Meaning(d), 1, 17)
           /\ n = IF d.low = 0 THEN d.high + 1 ELSE LongArg(d) + 17
<1>1. CASE d.low = 0
  <2>1. Cpp!Number(Meaning(d), 1, 17) = 1 + d.high /\ d.high \in Nat
    BY <1>1, NoArguments, CodeIs
  <2> QED
    BY <1>1, <2>1
<1>2. CASE d.low = 1
  <2>1. Cpp!Number(Meaning(d), 1, 17) = LongArg(d) + 17 /\ LongArg(d) \in Nat
    BY <1>2, LongIs
  <2> QED
    BY <1>2, <2>1
<1> QED
  BY <1>1, <1>2

(* What is copied, by either tool. *)
LEMMA CopiedIs ==
  ASSUME NEW d \in Codes, d.low \in {3, 4, 5, 6}
  PROVE  \E n \in Nat :
           /\ n >= 1 /\ n = Cpp!Number(Meaning(d), 2, 6)
           /\ n = IF d.low = 3 THEN d.high + 2 ELSE ArgOf(d.args) + 6
<1>1. CASE d.low = 3
  <2>1. Cpp!Number(Meaning(d), 2, 6) = 2 + d.high /\ d.high \in Nat
    BY <1>1, NoArguments, CodeIs
  <2> QED
    BY <1>1, <2>1
<1>2. CASE d.low # 3
  <2>1. Cpp!Number(Meaning(d), 2, 6) = ArgOf(d.args) + 6 /\ ArgOf(d.args) \in Nat
    BY <1>2, ShortIs
  <2> QED
    BY <1>2, <2>1
<1> QED
  BY <1>1, <1>2

LEMMA InsertStep ==
  ASSUME Streamed, NEW d \in Codes, Literal(d)
  PROVE  /\ Streamed' /\ Cpp!Obey(Meaning(d))
         /\ outdata' = outdata \o Literals(Len(outdata), Cpp!Number(Meaning(d), 1, 17))
         /\ expcursors'[0] = Len(outdata') - 1
<1>1. d.low \in {0, 1}
  BY DEF Literal
<1>2. PICK n \in Nat :
        /\ n >= 1 /\ n = Cpp!Number(Meaning(d), 1, 17)
        /\ n = IF d.low = 0 THEN d.high + 1 ELSE LongArg(d) + 17
  BY <1>1, InsertedIs
<1>3. Produce(outdata \o Literals(Len(outdata), n), expcursors)
  BY <1>2 DEF Literal, size
<1>4. /\ outdata \in Seq(Bytes) /\ Len(outdata) \in Nat /\ file = outdata
      /\ expcursors \in [{0} \cup DOMAIN Sources -> Int]
  BY DEF Streamed
<1>5. PICK piece \in Seq(Bytes) : piece = Literals(Len(outdata), n) /\ piece # <<>>
  BY <1>2, <1>4, LiteralsAre
<1>6. PICK text : IsJoin(text, outdata, piece) /\ Produce(text, expcursors)
  BY <1>3, <1>5 DEF IsJoin
<1>7. /\ Streamed' /\ outdata' = outdata \o piece /\ file' = file \o piece
      /\ expcursors' = [expcursors EXCEPT ![0] = Len(file') - 1]
      /\ expcursors'[0] = Len(outdata') - 1
  BY <1>4, <1>5, <1>6, ProduceIs
<1>8. Cpp!Insert(n)
  BY <1>4, <1>5, <1>7 DEF Cpp!Insert, Literals
<1>9. Cpp!Obey(Meaning(d))
  BY <1>1, <1>2, <1>8, KindIs, MeaningIs DEF Cpp!Obey
<1> QED
  BY <1>2, <1>5, <1>7, <1>9

(* A copy from the text itself. *)
LEMMA RepeatStep ==
  ASSUME Streamed, outdata # <<>>, NEW d \in Codes, Copy(d), d.low = 3 \/ d.high = 0
  PROVE  /\ Streamed' /\ Cpp!Obey(Meaning(d))
         /\ outdata' = outdata \o Piece(outdata, expcursors[0], Cpp!Number(Meaning(d), 2, 6))
         /\ expcursors'[0] = Len(outdata') - 1
<1>1. d.low \in {3, 4, 5, 6}
  BY DEF Copy
<1>2. PICK n \in Nat :
        /\ n >= 1 /\ n = Cpp!Number(Meaning(d), 2, 6)
        /\ n = IF d.low = 3 THEN d.high + 2 ELSE ArgOf(d.args) + 6
  BY <1>1, CopiedIs
<1>3. Produce(Appended(outdata, expcursors[0], n), expcursors)
  BY <1>2 DEF Copy
<1>4. /\ outdata \in Seq(Bytes) /\ file = outdata
      /\ expcursors \in [{0} \cup DOMAIN Sources -> Int]
      /\ expcursors[0] \in 0 .. Len(outdata) - 1
  BY DEF Streamed
<1>5. PICK piece \in Seq(Bytes) :
        piece = Piece(outdata, expcursors[0], n) /\ Len(piece) = n
  BY <1>4, PieceIs
<1>6. piece # <<>>
  BY <1>2, <1>5
<1>7. Appended(outdata, expcursors[0], n) = outdata \o piece
  BY <1>4, <1>5, AppendedIs
<1>8. PICK text : IsJoin(text, outdata, piece) /\ Produce(text, expcursors)
  BY <1>3, <1>7 DEF IsJoin
<1>9. /\ Streamed' /\ outdata' = outdata \o piece /\ file' = file \o piece
      /\ expcursors' = [expcursors EXCEPT ![0] = Len(file') - 1]
      /\ expcursors'[0] = Len(outdata') - 1
  BY <1>4, <1>6, <1>8, ProduceIs
<1>10. Cpp!Repeat(n)
  BY <1>4, <1>5, <1>9 DEF Cpp!Repeat, Piece
<1>11. Meaning(d).kind = "repeat" /\ Meaning(d).source = 0
  BY <1>1, KindIs, MeaningIs DEF NamesSource
<1>12. Cpp!Obey(Meaning(d))
  BY <1>2, <1>10, <1>11 DEF Cpp!Obey
<1> QED
  BY <1>2, <1>5, <1>9, <1>12

(* A copy from an older file. *)
LEMMA TakeStep ==
  ASSUME Streamed, NEW d \in Codes, Copy(d), d.low # 3, d.high # 0
  PROVE  Streamed' /\ Cpp!Obey(Meaning(d))
<1>1. d.low \in {4, 5, 6}
  BY DEF Copy
<1>2. PICK n \in Nat : n >= 1 /\ n = Cpp!Number(Meaning(d), 2, 6) /\ n = ArgOf(d.args) + 6
  <2>1. d.low \in {3, 4, 5, 6} /\ d.low # 3
    BY <1>1
  <2> QED
    BY <2>1, CopiedIs
<1>3. /\ outdata \in Seq(Bytes) /\ file = outdata
      /\ expcursors \in [{0} \cup DOMAIN Sources -> Int]
  BY DEF Streamed
<1>4. PICK z \in DOMAIN Sources : z = d.high /\ z # 0
  BY <1>1, CodeIs DEF Highs, NamesSource
<1>5. expcursors[z] \in Int
  BY <1>3, <1>4
<1> DEFINE taken == [k \in 1 .. n |-> <<z, expcursors[z] + k - 1>>]
           moved == [expcursors EXCEPT ![z] = @ + n]
<1>6. Produce(outdata \o taken, moved)
  BY <1>1, <1>2, <1>4 DEF Copy, CopyFrom
<1>7. taken \in Seq(Bytes) /\ taken # <<>>
  <2>1. z \in Int
    <3>1. DOMAIN Sources \subseteq 1 .. 15
      BY SourcesAssumption
    <3> QED
      BY <3>1
  <2>2. \A k \in 1 .. n : <<z, expcursors[z] + k - 1>> \in Bytes
    BY <1>5, <2>1 DEF Bytes
  <2>3. taken \in [1 .. n -> Bytes]
    BY <2>2
  <2>4. taken \in Seq(Bytes) /\ Len(taken) = n
    BY <2>3, SeqDef
  <2> QED
    BY <1>2, <2>4
<1>8. moved \in [{0} \cup DOMAIN Sources -> Int]
  <2>1. expcursors[z] + n \in Int
    BY <1>5
  <2> QED
    BY <1>3, <2>1
<1>9. PICK piece \in Seq(Bytes) : piece = taken /\ piece # <<>>
  BY <1>7
<1>10. PICK cursors \in [{0} \cup DOMAIN Sources -> Int] : cursors = moved
  BY <1>8
<1> HIDE DEF taken, moved
<1>11. PICK text : IsJoin(text, outdata, piece) /\ Produce(text, cursors)
  BY <1>6, <1>9, <1>10 DEF IsJoin
<1>12. /\ Streamed' /\ file' = file \o piece
       /\ expcursors' = [cursors EXCEPT ![0] = Len(file') - 1]
  BY <1>9, <1>11, ProduceIs
<1>13. expcursors' = [expcursors EXCEPT ![0] = Len(file') - 1, ![z] = @ + n]
  BY <1>3, <1>4, <1>10, <1>12 DEF moved
<1>14. Cpp!Take(z, n)
  BY <1>9, <1>12, <1>13 DEF Cpp!Take, taken
<1>15. Meaning(d).kind = "repeat" /\ Meaning(d).source = z
  BY <1>1, <1>4, KindIs, MeaningIs DEF NamesSource
<1>16. Cpp!Obey(Meaning(d))
  BY <1>2, <1>4, <1>14, <1>15 DEF Cpp!Obey
<1> QED
  BY <1>12, <1>16

(* The command moves the cursor of z to p, as DifFormat says. *)
Moves(d, z, p) ==
  /\ z = Meaning(d).source
  /\ expcursors' = [expcursors EXCEPT ![z] = p]
  /\ Cpp!MoveTo(z, p) => Cpp!Obey(Meaning(d))
  /\ d.low = 8 => p = expcursors[z] - (d.high + 1)
  /\ d.low \in {9, 10, 11} => p = expcursors[z] - (ArgOf(d.args) + 1)

LEMMA MovedIs ==
  ASSUME Streamed, NEW d \in Codes, Move(d)
  PROVE  \E z \in {0} \cup DOMAIN Sources, p \in Int : Moves(d, z, p)
<1>1. expcursors \in [{0} \cup DOMAIN Sources -> Int]
  BY DEF Streamed
<1>2. d.low \in {8, 9, 10, 11, 13, 14, 15}
  BY DEF Move
<1>3. PICK z \in {0} \cup DOMAIN Sources : z = Meaning(d).source
  BY <1>2, CodeIs, MeaningIs DEF Highs, NamesSource
<1>4. z = IF d.low = 8 THEN 0 ELSE d.high
  BY <1>2, <1>3, MeaningIs DEF NamesSource
<1>5. PICK e \in Int : e = expcursors[z]
  BY <1>1, <1>3
<1>6. CASE d.low = 8
  <2>1. d.high \in Nat /\ Cpp!Number(Meaning(d), 1, 1) = 1 + d.high
    BY <1>6, CodeIs, NoArguments
  <2>2. PICK p \in Int : p = e - (d.high + 1) /\ p = e - Cpp!Number(Meaning(d), 1, 1)
    BY <2>1
  <2>3. expcursors' = [expcursors EXCEPT ![z] = p]
    BY <1>4, <1>5, <1>6, <2>2 DEF Move
  <2>4. Cpp!MoveTo(z, p) => Cpp!Obey(Meaning(d))
    BY <1>3, <1>5, <1>6, <2>2, KindIs, MeaningIs DEF Cpp!Obey
  <2>5. d.low = 8 => p = expcursors[z] - (d.high + 1)
    BY <1>5, <1>6, <2>2
  <2>6. d.low \in {9, 10, 11} => p = expcursors[z] - (ArgOf(d.args) + 1)
    BY <1>5, <1>6, <2>2
  <2>7. Moves(d, z, p)
    BY <1>3, <2>3, <2>4, <2>5, <2>6 DEF Moves
  <2> QED
    BY <2>7
<1>7. CASE d.low \in {9, 10, 11}
  <2>1. ArgOf(d.args) \in Nat /\ Cpp!Number(Meaning(d), 1, 1) = ArgOf(d.args) + 1
    BY <1>7, ShortIs
  <2>2. PICK p \in Int : p = e - (ArgOf(d.args) + 1) /\ p = e - Cpp!Number(Meaning(d), 1, 1)
    BY <2>1
  <2>3. expcursors' = [expcursors EXCEPT ![z] = p]
    BY <1>4, <1>5, <1>7, <2>2 DEF Move
  <2>4. Cpp!MoveTo(z, p) => Cpp!Obey(Meaning(d))
    BY <1>3, <1>5, <1>7, <2>2, KindIs, MeaningIs DEF Cpp!Obey
  <2>5. d.low = 8 => p = expcursors[z] - (d.high + 1)
    BY <1>5, <1>7, <2>2
  <2>6. d.low \in {9, 10, 11} => p = expcursors[z] - (ArgOf(d.args) + 1)
    BY <1>5, <1>7, <2>2
  <2>7. Moves(d, z, p)
    BY <1>3, <2>3, <2>4, <2>5, <2>6 DEF Moves
  <2> QED
    BY <2>7
<1>8. CASE d.low \in {13, 14}
  <2>1. ArgOf(d.args) \in Nat /\ Cpp!Number(Meaning(d), 1, 1) = ArgOf(d.args) + 1
    BY <1>8, ShortIs
  <2>2. PICK p \in Int : p = e + ArgOf(d.args) + 1 /\ p = e + Cpp!Number(Meaning(d), 1, 1)
    BY <2>1
  <2>3. expcursors' = [expcursors EXCEPT ![z] = p]
    BY <1>4, <1>5, <1>8, <2>2 DEF Move
  <2>4. Cpp!MoveTo(z, p) => Cpp!Obey(Meaning(d))
    BY <1>3, <1>5, <1>8, <2>2, KindIs, MeaningIs DEF Cpp!Obey
  <2>5. d.low = 8 => p = expcursors[z] - (d.high + 1)
    BY <1>5, <1>8, <2>2
  <2>6. d.low \in {9, 10, 11} => p = expcursors[z] - (ArgOf(d.args) + 1)
    BY <1>5, <1>8, <2>2
  <2>7. Moves(d, z, p)
    BY <1>3, <2>3, <2>4, <2>5, <2>6 DEF Moves
  <2> QED
    BY <2>7
<1>9. CASE d.low = 15
  <2>1. d.args \in [1 .. 3 -> Nat]
    <3>1. Arguments(d.low, d.high) = 3
      BY <1>9 DEF Arguments
    <3> QED
      BY <3>1, CodeIs
  <2>2. PICK p \in Int : /\ p = d.args[1] * Base * Base + d.args[2] * Base + d.args[3]
                         /\ p = Cpp!Value(d.args)
    BY <2>1, ThreeBytesAre
  <2>3. expcursors' = [expcursors EXCEPT ![z] = p]
    BY <1>4, <1>9, <2>2 DEF Move
  <2>4. Cpp!MoveTo(z, p) => Cpp!Obey(Meaning(d))
    BY <1>3, <1>9, <2>2, KindIs, MeaningIs DEF Cpp!Obey
  <2>5. Moves(d, z, p)
    BY <1>3, <1>9, <2>3, <2>4 DEF Moves
  <2> QED
    BY <2>5
<1> QED
  BY <1>2, <1>6, <1>7, <1>8, <1>9

LEMMA MoveStep ==
  ASSUME Streamed, NEW d \in Codes, Move(d), WellFormed(d)
  PROVE  Streamed' /\ Cpp!Obey(Meaning(d))
<1>1. PICK z \in {0} \cup DOMAIN Sources, p \in Int : Moves(d, z, p)
  BY MovedIs
<1>2. /\ z = Meaning(d).source
      /\ expcursors' = [expcursors EXCEPT ![z] = p]
      /\ Cpp!MoveTo(z, p) => Cpp!Obey(Meaning(d))
  BY <1>1 DEF Moves
<1>3. outdata' = outdata /\ file' = file
  BY DEF Move
<1>4. Cpp!Obey(Meaning(d))
  BY <1>2, <1>3 DEF Cpp!MoveTo
<1>5. outdata \in Seq(Bytes) /\ file = outdata /\ expcursors \in [{0} \cup DOMAIN Sources -> Int]
  BY DEF Streamed
<1>6. expcursors' \in [{0} \cup DOMAIN Sources -> Int]
  BY <1>2, <1>5
<1>7. ASSUME outdata # <<>>
      PROVE  expcursors'[0] \in 0 .. Len(outdata) - 1
  <2>1. CASE z = 0
    <3>1. Low[d.low] \in {"back", "forward", "jump"}
      <4>1. d.low \in {8, 9, 10, 11, 13, 14, 15}
        BY DEF Move
      <4> QED
        BY <4>1, KindIs
    <3>2. expcursors'[0] \in 0 .. size' - 1
      BY <1>2, <2>1, <3>1 DEF WellFormed
    <3> QED
      BY <1>3, <3>2 DEF size
  <2>2. CASE z # 0
    <3>1. expcursors'[0] = expcursors[0]
      BY <1>2, <1>5, <2>2
    <3> QED
      BY <1>7, <3>1 DEF Streamed
  <2> QED
    BY <2>1, <2>2
<1>8. Streamed'
  BY <1>3, <1>5, <1>6, <1>7 DEF Streamed
<1> QED
  BY <1>4, <1>8

(* One command of the C++ tool, read from a well-formed file. *)
Processed(d) ==
  /\ (d.low = 3 \/ (d.low \in {4, 5, 6} /\ d.high = 0)) => size > 0
  /\ ProcessDif(d)
  /\ WellFormed(d)

LEMMA NotEmpty ==
  ASSUME Streamed, size > 0
  PROVE  outdata # <<>>
BY DEF Streamed, size

LEMMA CppStep ==
  ASSUME Streamed, NEW d \in Codes, Processed(d)
  PROVE  Streamed' /\ Cpp!Next
<1>1. Streamed' /\ Cpp!Obey(Meaning(d))
  <2>1. CASE Literal(d)
    BY <2>1, InsertStep
  <2>2. CASE Copy(d) /\ (d.low = 3 \/ d.high = 0)
    <3>1. size > 0
      BY <2>2 DEF Processed, Copy
    <3> QED
      BY <2>2, <3>1, NotEmpty, RepeatStep
  <2>3. CASE Copy(d) /\ d.low # 3 /\ d.high # 0
    BY <2>3, TakeStep
  <2>4. CASE Move(d)
    BY <2>4, MoveStep DEF Processed
  <2> QED
    BY <2>1, <2>2, <2>3, <2>4 DEF Processed, ProcessDif
<1>2. last' = Meaning(d) /\ Meaning(d) \in Meanings
  BY MeaningIs DEF Processed, ProcessDif
<1> QED
  BY <1>1, <1>2 DEF Cpp!Next

(* What has been written to the file is the text, and a cursor is in it,   *)
(* after any commands of ProcessDif.                                       *)
THEOREM StreamInvariance == Spec => []Streamed
<1>1. Init => Streamed
  BY DEF Init, Streamed
<1>2. Streamed /\ [Next]_vars => Streamed'
  <2> SUFFICES ASSUME Streamed, [Next]_vars
               PROVE  Streamed'
    OBVIOUS
  <2>1. CASE Next
    <3>1. PICK d \in Codes : Processed(d)
      BY <2>1 DEF Next, Processed
    <3> QED
      BY <3>1, CppStep
  <2>2. CASE UNCHANGED vars
    BY <2>2 DEF vars, cpp, Streamed
  <2> QED
    BY <2>1, <2>2
<1> QED
  BY <1>1, <1>2, PTL DEF Spec

(* The C++ tool obeys every command as DifFormat says, in what it writes   *)
(* to its output file and in where its cursors are.                        *)
THEOREM CppImplements == Spec => CppSpec
<1>1. Init => Cpp!Init
  <2> SUFFICES ASSUME Init
               PROVE  Cpp!Init
    OBVIOUS
  <2>1. None \notin Meanings
    BY MeaningIs DEF Meanings
  <2> QED
    BY <2>1 DEF Init, Cpp!Init
<1>2. Streamed /\ [Next]_vars => [Cpp!Next]_<<file, expcursors, last>>
  <2> SUFFICES ASSUME Streamed, [Next]_vars
               PROVE  [Cpp!Next]_<<file, expcursors, last>>
    OBVIOUS
  <2>1. CASE Next
    <3>1. PICK d \in Codes : Processed(d)
      BY <2>1 DEF Next, Processed
    <3>2. Cpp!Next
      BY <3>1, CppStep
    <3> QED
      BY <3>2
  <2>2. CASE UNCHANGED vars
    BY <2>2 DEF vars, cpp
  <2> QED
    BY <2>1, <2>2
<1> QED
  BY <1>1, <1>2, StreamInvariance, PTL DEF Spec, CppSpec, Cpp!Spec

-----------------------------------------------------------------------------
(* The Python tool. *)

(* Until it comes to a command that it does not know, it has the same text *)
(* as the C++ tool, and its cursor is one ahead.                           *)
Agrees ==
  /\ py \in [outdata : Seq(Bytes), j : Int, last : Meanings \cup {None}, lost : BOOLEAN]
  /\ ~ py.lost => /\ py.outdata = outdata
                  /\ outdata # <<>> => py.j - 1 = expcursors[0]

(* What stands for the place of DifFormat. *)
PyPlace == [z \in {0} \cup DOMAIN Sources |-> IF z = 0 THEN py.j - 1 ELSE 0]

LEMMA SameNumber ==
  ASSUME NEW c, NEW small, NEW large
  PROVE  Python!Number(c, small, large) = Cpp!Number(c, small, large)
BY DEF Python!Number, Cpp!Number, Python!Shorter, Cpp!Shorter, Python!Value, Cpp!Value

LEMMA PyWroteIs ==
  ASSUME Streamed', NEW d \in Codes, PyWrote(outdata', d), expcursors'[0] = Len(outdata') - 1
  PROVE  /\ Agrees' /\ py'.outdata = outdata' /\ py'.last = Meaning(d)
         /\ PyPlace' = [PyPlace EXCEPT ![0] = Len(outdata') - 1]
<1>1. py' = [outdata |-> outdata', j |-> Len(outdata'), last |-> Meaning(d), lost |-> FALSE]
  BY DEF PyWrote
<1>2. outdata' \in Seq(Bytes) /\ Len(outdata') \in Int
  BY DEF Streamed
<1>3. py'.j - 1 = Len(outdata') - 1
  BY <1>1
<1>4. Agrees'
  BY <1>1, <1>2, <1>3, MeaningIs DEF Agrees
<1>5. PyPlace' = [PyPlace EXCEPT ![0] = Len(outdata') - 1]
  BY <1>3 DEF PyPlace
<1> QED
  BY <1>1, <1>4, <1>5

LEMMA PyLongArgIs ==
  ASSUME NEW d \in Codes, d.low = 1, d.high \in {0, 1}
  PROVE  PyLongArg(d) = LongArg(d)
<1>1. PICK m \in 1 .. 3 : m = d.high + 1
  OBVIOUS
<1>2. d.high \in Nat /\ d.args \in [1 .. d.high + 1 -> Nat]
  BY LongIs
<1>3. d.args \in [1 .. m -> Nat]
  BY <1>1, <1>2
<1>4. /\ ArgOf(d.args) = Cpp!Shorter(m) + Cpp!Value(d.args)
      /\ Len(d.args) = m
  BY <1>3, ArgOfIs
<1>5. LongArg(d) = Cpp!Shorter(d.high + 1) + Cpp!Value(d.args)
  BY <1>2, LongArgIs
<1>6. LongArg(d) = ArgOf(d.args)
  BY <1>1, <1>4, <1>5
<1>7. PyLongArg(d) = ArgOf(d.args)
  BY <1>1, <1>4 DEF PyLongArg, ArgOf
<1> QED
  BY <1>6, <1>7

LEMMA PyInsertStep ==
  ASSUME Streamed, Agrees, ~ py.lost, NEW d \in Codes, Processed(d), Py(d), PyKnows(d),
         d.low \in {0, 1}
  PROVE  Agrees' /\ Python!Next
<1>1. Literal(d)
  BY DEF Processed, ProcessDif, Copy, Move
<1>2. PICK n \in Nat :
        /\ n >= 1 /\ n = Cpp!Number(Meaning(d), 1, 17)
        /\ n = IF d.low = 0 THEN d.high + 1 ELSE LongArg(d) + 17
  BY InsertedIs
<1>3. /\ Streamed'
      /\ outdata' = outdata \o Literals(Len(outdata), n)
      /\ expcursors'[0] = Len(outdata') - 1
  BY <1>1, <1>2, InsertStep
<1>4. py.outdata = outdata
  BY DEF Agrees
<1>5. PyWrote(outdata', d)
  <2>1. CASE d.low = 0
    BY <1>2, <1>3, <1>4, <2>1 DEF Py
  <2>2. CASE d.low = 1
    <3>1. PyLongArg(d) = LongArg(d)
      BY <2>2, PyLongArgIs DEF PyKnows
    <3> QED
      BY <1>2, <1>3, <1>4, <2>2, <3>1 DEF Py
  <2> QED
    BY <2>1, <2>2
<1>6. /\ Agrees' /\ py'.outdata = outdata' /\ py'.last = Meaning(d)
      /\ PyPlace' = [PyPlace EXCEPT ![0] = Len(outdata') - 1]
  BY <1>3, <1>5, PyWroteIs
<1>7. Python!Insert(n)
  BY <1>3, <1>4, <1>6 DEF Python!Insert, Literals, PyPlace
<1>8. Python!Obey(Meaning(d))
  BY <1>2, <1>7, KindIs, MeaningIs, SameNumber DEF Python!Obey
<1> QED
  BY <1>6, <1>8, MeaningIs DEF Python!Next

LEMMA PyRepeatStep ==
  ASSUME Streamed, Agrees, ~ py.lost, NEW d \in Codes, Processed(d), Py(d), PyKnows(d),
         d.low \in {3, 4}
  PROVE  Agrees' /\ Python!Next
<1>1. Copy(d) /\ (d.low = 3 \/ d.high = 0)
  BY DEF Processed, ProcessDif, Literal, Move, PyKnows, NamesSource
<1>2. outdata # <<>>
  BY <1>1, NotEmpty DEF Processed
<1>3. PICK n \in Nat :
        /\ n >= 1 /\ n = Cpp!Number(Meaning(d), 2, 6)
        /\ n = IF d.low = 3 THEN d.high + 2 ELSE ArgOf(d.args) + 6
  BY CopiedIs
<1>4. /\ Streamed'
      /\ outdata' = outdata \o Piece(outdata, expcursors[0], n)
      /\ expcursors'[0] = Len(outdata') - 1
  BY <1>1, <1>2, <1>3, RepeatStep
<1>5. py.outdata = outdata /\ py.j - 1 = expcursors[0]
  BY <1>2 DEF Agrees
<1>6. outdata \in Seq(Bytes) /\ expcursors[0] \in 0 .. Len(outdata) - 1
  BY <1>2 DEF Streamed
<1>7. PyAppended(outdata, expcursors[0], n) = outdata'
  BY <1>4, <1>6, PyAppendedIs
<1>8. PyWrote(outdata', d)
  <2>1. CASE d.low = 3
    BY <1>3, <1>5, <1>7, <2>1 DEF Py, PyBack
  <2>2. CASE d.low = 4
    <3>1. d.args \in [1 .. 1 -> Nat]
      <4>1. Arguments(d.low, d.high) = 1
        BY <2>2 DEF Arguments
      <4> QED
        BY <4>1, CodeIs
    <3>2. ArgOf(d.args) = d.args[1]
      BY <3>1 DEF ArgOf
    <3> QED
      BY <1>3, <1>5, <1>7, <2>2, <3>2 DEF Py, PyBack
  <2> QED
    BY <2>1, <2>2
<1>9. /\ Agrees' /\ py'.outdata = outdata' /\ py'.last = Meaning(d)
      /\ PyPlace' = [PyPlace EXCEPT ![0] = Len(outdata') - 1]
  BY <1>4, <1>8, PyWroteIs
<1>10. PyPlace[0] = expcursors[0]
  BY <1>5 DEF PyPlace
<1>11. Python!Repeat(n)
  BY <1>4, <1>5, <1>9, <1>10 DEF Python!Repeat, Piece, PyPlace
<1>12. Meaning(d).kind = "repeat" /\ Meaning(d).source = 0
  BY <1>1, KindIs, MeaningIs DEF NamesSource
<1>13. Python!Obey(Meaning(d))
  BY <1>3, <1>11, <1>12, SameNumber DEF Python!Obey
<1> QED
  BY <1>9, <1>13, MeaningIs DEF Python!Next

LEMMA PyMoveStep ==
  ASSUME Streamed, Agrees, ~ py.lost, NEW d \in Codes, Processed(d), Py(d), PyKnows(d),
         d.low \in {8, 9, 10}
  PROVE  Agrees' /\ Python!Next
<1>1. Move(d) /\ WellFormed(d)
  BY DEF Processed, ProcessDif, Literal, Copy
<1>2. PICK z \in {0} \cup DOMAIN Sources, p \in Int : Moves(d, z, p)
  BY <1>1, MovedIs
<1>3. /\ z = Meaning(d).source
      /\ expcursors' = [expcursors EXCEPT ![z] = p]
      /\ d.low = 8 => p = expcursors[z] - (d.high + 1)
      /\ d.low \in {9, 10, 11} => p = expcursors[z] - (ArgOf(d.args) + 1)
  BY <1>2 DEF Moves
<1>4. z = 0
  BY <1>3, MeaningIs DEF PyKnows
<1>5. outdata' = outdata /\ expcursors \in [{0} \cup DOMAIN Sources -> Int] /\ outdata \in Seq(Bytes)
  BY <1>1 DEF Move, Streamed
<1>6. expcursors'[0] = p /\ expcursors[0] \in Int
  BY <1>3, <1>4, <1>5
<1>7. outdata # <<>>
  <2>1. Low[d.low] \in {"back", "forward", "jump"}
    BY KindIs
  <2>2. expcursors'[0] \in 0 .. size' - 1
    BY <1>1, <1>3, <1>4, <2>1 DEF WellFormed
  <2> QED
    BY <1>5, <2>2 DEF size
<1>8. /\ py.outdata = outdata /\ py.j - 1 = expcursors[0] /\ py.j \in Int
      /\ py \in [outdata : Seq(Bytes), j : Int, last : Meanings \cup {None}, lost : BOOLEAN]
  BY <1>7 DEF Agrees
<1>9. \E j \in Int : j - 1 = p /\ PyMoved(j, d)
  <2>1. CASE d.low = 8
    <3>1. PyMoved((py.j - 1) - d.high, d)
      BY <2>1 DEF Py, PyBack
    <3>2. d.high \in Nat
      BY CodeIs
    <3>3. p = expcursors[0] - (d.high + 1)
      BY <1>3, <1>4, <2>1
    <3>4. PICK j \in Int : j = (py.j - 1) - d.high
      BY <1>8, <3>2
    <3>5. j - 1 = p
      BY <1>6, <1>8, <3>2, <3>3, <3>4
    <3> QED
      BY <3>1, <3>4, <3>5
  <2>2. CASE d.low = 9
    <3>1. PyMoved((py.j - 1) - d.args[1], d)
      BY <2>2 DEF Py, PyBack
    <3>2. d.args \in [1 .. 1 -> Nat]
      <4>1. Arguments(d.low, d.high) = 1
        BY <2>2 DEF Arguments
      <4> QED
        BY <4>1, CodeIs
    <3>3. ArgOf(d.args) = d.args[1] /\ d.args[1] \in Nat
      BY <3>2 DEF ArgOf
    <3>4. p = expcursors[0] - (d.args[1] + 1)
      BY <1>3, <1>4, <2>2, <3>3
    <3>5. PICK j \in Int : j = (py.j - 1) - d.args[1]
      BY <1>8, <3>3
    <3>6. j - 1 = p
      BY <1>6, <1>8, <3>3, <3>4, <3>5
    <3> QED
      BY <3>1, <3>5, <3>6
  <2>3. CASE d.low = 10
    <3>1. PyMoved((py.j - 1) - (d.args[1] * Base + d.args[2]) - Base, d)
      BY <2>3 DEF Py, PyBack
    <3>2. d.args \in [1 .. 2 -> Nat]
      <4>1. Arguments(d.low, d.high) = 2
        BY <2>3 DEF Arguments
      <4> QED
        BY <4>1, CodeIs
    <3>3. /\ ArgOf(d.args) = (d.args[1] + 1) * Base + d.args[2]
          /\ d.args[1] \in Nat /\ d.args[2] \in Nat
      BY <3>2 DEF ArgOf
    <3>4. PICK a \in Nat : a = d.args[1] * Base + d.args[2]
      BY <3>3, BaseIs
    <3>5. ArgOf(d.args) = a + Base
      BY <3>3, <3>4, BaseIs
    <3>6. p = expcursors[0] - ((a + Base) + 1)
      BY <1>3, <1>4, <2>3, <3>5
    <3>7. PICK j \in Int : j = (py.j - 1) - a - Base
      BY <1>8, BaseIs
    <3>8. j - 1 = p
      BY <1>6, <1>8, <3>6, <3>7, BaseIs
    <3> QED
      BY <3>1, <3>4, <3>7, <3>8
  <2> QED
    BY <2>1, <2>2, <2>3
<1>10. PICK j \in Int : j - 1 = p /\ PyMoved(j, d)
  BY <1>9
<1>11. /\ py'.outdata = py.outdata /\ py'.last = Meaning(d) /\ py'.j = j
       /\ py' \in [outdata : Seq(Bytes), j : Int, last : Meanings \cup {None}, lost : BOOLEAN]
  BY <1>8, <1>10, MeaningIs DEF PyMoved
<1>12. Agrees'
  BY <1>5, <1>6, <1>8, <1>10, <1>11 DEF Agrees
<1>13. PyPlace' = [PyPlace EXCEPT ![0] = p] /\ PyPlace[0] = expcursors[0]
  BY <1>8, <1>10, <1>11 DEF PyPlace
<1>14. Python!MoveTo(0, p)
  BY <1>11, <1>13 DEF Python!MoveTo, PyPlace
<1>15. p = PyPlace[0] - Cpp!Number(Meaning(d), 1, 1)
  <2>1. CASE d.low = 8
    <3>1. Cpp!Number(Meaning(d), 1, 1) = 1 + d.high /\ d.high \in Nat
      BY <2>1, NoArguments, CodeIs
    <3> QED
      BY <1>3, <1>4, <1>6, <1>13, <2>1, <3>1
  <2>2. CASE d.low \in {9, 10}
    <3>1. Cpp!Number(Meaning(d), 1, 1) = ArgOf(d.args) + 1 /\ ArgOf(d.args) \in Nat
      BY <2>2, ShortIs
    <3> QED
      BY <1>3, <1>4, <1>6, <1>13, <2>2, <3>1
  <2> QED
    BY <2>1, <2>2
<1>16. Meaning(d).kind = "back" /\ Meaning(d).source = 0
  BY <1>3, <1>4, KindIs, MeaningIs
<1>17. p = PyPlace[0] - Python!Number(Meaning(d), 1, 1)
  <2>1. Python!Number(Meaning(d), 1, 1) = Cpp!Number(Meaning(d), 1, 1)
    BY SameNumber
  <2> QED
    BY <1>15, <2>1
<1>18. Python!Obey(Meaning(d))
  <2> DEFINE to == PyPlace[Meaning(d).source] - Python!Number(Meaning(d), 1, 1)
  <2>1. to = p
    BY <1>16, <1>17
  <2> HIDE DEF to
  <2>2. Python!MoveTo(Meaning(d).source, to)
    BY <1>14, <1>16, <2>1 DEF Python!MoveTo
  <2> QED
    BY <1>16, <2>2 DEF Python!Obey, PyPlace, to
<1> QED
  BY <1>11, <1>12, <1>18, MeaningIs DEF Python!Next

LEMMA PyStep ==
  ASSUME Streamed, Agrees, NEW d \in Codes, Processed(d), Py(d)
  PROVE  Agrees' /\ [Python!Next]_<<py.outdata, PyPlace, py.last>>
<1>1. CASE py.lost \/ ~ PyKnows(d)
  <2>1. py' = [py EXCEPT !.lost = TRUE]
    BY <1>1 DEF Py
  <2>2. /\ py'.outdata = py.outdata /\ py'.j = py.j /\ py'.last = py.last /\ py'.lost = TRUE
        /\ py' \in [outdata : Seq(Bytes), j : Int, last : Meanings \cup {None}, lost : BOOLEAN]
    BY <2>1 DEF Agrees
  <2>3. Agrees'
    BY <2>2 DEF Agrees
  <2>4. PyPlace' = PyPlace
    BY <2>2 DEF PyPlace
  <2> QED
    BY <2>2, <2>3, <2>4
<1>2. CASE ~ py.lost /\ PyKnows(d)
  <2>1. d.low \in {0, 1, 3, 4, 8, 9, 10}
    BY <1>2 DEF PyKnows
  <2>2. CASE d.low \in {0, 1}
    BY <1>2, <2>2, PyInsertStep
  <2>3. CASE d.low \in {3, 4}
    BY <1>2, <2>3, PyRepeatStep
  <2>4. CASE d.low \in {8, 9, 10}
    BY <1>2, <2>4, PyMoveStep
  <2> QED
    BY <2>1, <2>2, <2>3, <2>4
<1> QED
  BY <1>1, <1>2

(* After any commands, the two tools have the same text, unless there was  *)
(* one that the Python tool does not know.                                 *)
THEOREM AgreeInvariance == Spec => []Agrees
<1>1. Init => Agrees
  <2> SUFFICES ASSUME Init
               PROVE  Agrees
    OBVIOUS
  <2>1. PICK header \in {32, 48} :
          py = [outdata |-> <<>>, j |-> header, last |-> None, lost |-> FALSE]
    BY DEF Init
  <2> QED
    BY <2>1 DEF Init, Agrees
<1>2. Streamed /\ Agrees /\ [Next]_vars => Agrees'
  <2> SUFFICES ASSUME Streamed, Agrees, [Next]_vars
               PROVE  Agrees'
    OBVIOUS
  <2>1. CASE Next
    <3>1. PICK d \in Codes : Processed(d) /\ Py(d)
      BY <2>1 DEF Next, Processed
    <3> QED
      BY <3>1, PyStep
  <2>2. CASE UNCHANGED vars
    BY <2>2 DEF vars, cpp, Agrees
  <2> QED
    BY <2>1, <2>2
<1> QED
  BY <1>1, <1>2, StreamInvariance, PTL DEF Spec

(* The Python tool obeys every command that it knows as DifFormat says.    *)
THEOREM PythonImplements == Spec => PythonSpec
<1>1. Init => Python!Init
  <2> SUFFICES ASSUME Init
               PROVE  Python!Init
    OBVIOUS
  <2>1. None \notin Meanings
    BY MeaningIs DEF Meanings
  <2>2. PICK header \in {32, 48} :
          py = [outdata |-> <<>>, j |-> header, last |-> None, lost |-> FALSE]
    BY DEF Init
  <2>3. 0 \notin DOMAIN Sources
    <3>1. DOMAIN Sources \subseteq 1 .. 15
      BY SourcesAssumption
    <3> QED
      BY <3>1
  <2>4. py.outdata = <<>> /\ py.j \in Int /\ py.last = None
    BY <2>2
  <2> QED
    BY <2>1, <2>3, <2>4 DEF Python!Init
<1>2. Streamed /\ Agrees /\ [Next]_vars
        => [Python!Next]_<<py.outdata, PyPlace, py.last>>
  <2> SUFFICES ASSUME Streamed, Agrees, [Next]_vars
               PROVE  [Python!Next]_<<py.outdata, PyPlace, py.last>>
    OBVIOUS
  <2>1. CASE Next
    <3>1. PICK d \in Codes : Processed(d) /\ Py(d)
      BY <2>1 DEF Next, Processed
    <3> QED
      BY <3>1, PyStep
  <2>2. CASE UNCHANGED vars
    BY <2>2 DEF vars, cpp, PyPlace
  <2> QED
    BY <2>1, <2>2
<1> QED
  BY <1>1, <1>2, StreamInvariance, AgreeInvariance, PTL DEF Spec, PythonSpec, Python!Spec, PyPlace
=============================================================================

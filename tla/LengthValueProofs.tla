------------------------- MODULE LengthValueProofs -------------------------
(***************************************************************************)
(* Proofs about LengthValue, for every Base above 1 and inputs of any      *)
(* length: readLEB128 accepts exactly the encodings appendLEB128 produces, *)
(* and a field can be read back from wherever appendAll wrote it.          *)
(*                                                                         *)
(* The encodings are recursive functions, so this is induction over        *)
(* numbers and strings. No prover here applies an induction principle to a *)
(* formula, so it is done with sets: the least counterexample (Least)      *)
(* gives induction for a SET of numbers that contains 0 and every          *)
(* successor, or every number whose predecessors it contains. The same     *)
(* argument shows that the recursive functions exist (PrimitiveRecursion,  *)
(* DigitRecursion), without which nothing is known about their values.     *)
(*                                                                         *)
(* The argument for the code proper: a string is a code for n when its     *)
(* last byte and no other is below Base, its digits make n, and n needs    *)
(* that many digits (IsCode). What appendLEB128 produces is a code         *)
(* (EncodingIsCode), codes are unique (CodeIsEncoding), and readLEB128     *)
(* succeeds on a code only.                                                *)
(***************************************************************************)
EXTENDS LengthValue, WellFoundedInduction, SequenceTheorems, TLAPS

(* A non-empty set of numbers has a least element.                         *)
LEMMA Least ==
  ASSUME NEW T \in SUBSET Nat, T # {}
  PROVE  \E x \in T : \A y \in T : x <= y
<1>1. \A x, y \in Nat : <<y, x>> \in OpToRel(<, Nat) <=> y < x
  BY DEF OpToRel
<1>2. PICK R : /\ IsWellFoundedOn(R, Nat)
               /\ \A x, y \in Nat : <<y, x>> \in R <=> y < x
  BY <1>1, NatLessThanWellFounded, Zenon
<1>3. PICK x \in T : \A y \in T : ~(<<y, x>> \in R)
  BY <1>2, WFMin
<1>4. \A y \in T : ~(y < x)
  BY <1>2, <1>3
<1> QED
  BY <1>3, <1>4

(* Induction over a set of numbers: the least number not in S is neither 0 *)
(* nor a successor.                                                        *)
LEMMA Induction ==
  ASSUME NEW S \in SUBSET Nat, 0 \in S, \A n \in S : n + 1 \in S
  PROVE  S = Nat
<1> SUFFICES ASSUME Nat \ S # {} PROVE FALSE
  OBVIOUS
<1>1. PICK x \in Nat \ S : \A y \in Nat \ S : x <= y
  BY Least
<1>2. x - 1 \in Nat
  BY <1>1
<1>3. x - 1 \in S
  BY <1>1, <1>2
<1> QED
  BY <1>2, <1>3, <1>1

(* The same from all predecessors.                                         *)
LEMMA StrongInduction ==
  ASSUME NEW S \in SUBSET Nat, \A n \in Nat : (0 .. n - 1 \subseteq S) => n \in S
  PROVE  S = Nat
<1> SUFFICES ASSUME Nat \ S # {} PROVE FALSE
  OBVIOUS
<1>1. PICK x \in Nat \ S : \A y \in Nat \ S : x <= y
  BY Least
<1>2. 0 .. x - 1 \subseteq S
  BY <1>1
<1> QED
  BY <1>2, <1>1

(* The functions on 0 .. n that start with base and follow G.              *)
Follows(p, n, base, G) ==
  p[0] = base /\ \A i \in 0 .. n - 1 : p[i + 1] = G[i + 1][p[i]]

(* Steps from one value in V to the next, one for each number.             *)
Steps(V) == [Nat -> [V -> V]]

(* f starts with base, and every later value is a step from the one        *)
(* before.                                                                 *)
Iterates(f, V, base, G) ==
  f \in [Nat -> V] /\ f[0] = base /\ \A i \in Nat : f[i + 1] = G[i + 1][f[i]]

(* There is such a function: all its finite beginnings exist, and they     *)
(* agree.                                                                  *)
LEMMA PrimitiveRecursion ==
  ASSUME NEW V, NEW base \in V, NEW G \in Steps(V)
  PROVE  \E f : Iterates(f, V, base, G)
<1> USE DEF Steps
<1> DEFINE S == {n \in Nat : \E p \in [0 .. n -> V] : Follows(p, n, base, G)}
<1>1. S = Nat
  <2>1. 0 \in S
    <3>1. [i \in 0 .. 0 |-> base] \in [0 .. 0 -> V] /\ Follows([i \in 0 .. 0 |-> base], 0, base, G)
      BY DEF Follows
    <3> QED
      BY <3>1
  <2>2. ASSUME NEW n \in S PROVE n + 1 \in S
    <3>1. PICK p \in [0 .. n -> V] : Follows(p, n, base, G)
      OBVIOUS
    <3> DEFINE q == [i \in 0 .. n + 1 |-> IF i <= n THEN p[i] ELSE G[n + 1][p[n]]]
    <3>2. G[n + 1][p[n]] \in V
      OBVIOUS
    <3>3. q \in [0 .. n + 1 -> V]
      BY <3>2
    <3>4. Follows(q, n + 1, base, G)
      BY <3>1 DEF Follows
    <3> QED
      BY <3>3, <3>4
  <2> HIDE DEF S
  <2>3. S \in SUBSET Nat
    BY DEF S
  <2> QED
    BY <2>1, <2>2, <2>3, Induction
<1> DEFINE U == {i \in Nat : \A n, m \in Nat : \A p \in [0 .. n -> V], q \in [0 .. m -> V] :
                   /\ Follows(p, n, base, G) /\ Follows(q, m, base, G)
                   /\ i <= n /\ i <= m
                   => p[i] = q[i]}
<1>2. U = Nat
  <2>1. 0 \in U
    BY DEF Follows
  <2>2. ASSUME NEW i \in U PROVE i + 1 \in U
    <3>0. \A n, m \in Nat : \A p \in [0 .. n -> V], q \in [0 .. m -> V] :
            /\ Follows(p, n, base, G) /\ Follows(q, m, base, G)
            /\ i <= n /\ i <= m
            => p[i] = q[i]
      BY <2>2
    <3> HIDE DEF U
    <3> SUFFICES ASSUME NEW n \in Nat, NEW m \in Nat,
                        NEW p \in [0 .. n -> V], NEW q \in [0 .. m -> V],
                        Follows(p, n, base, G), Follows(q, m, base, G),
                        i + 1 <= n, i + 1 <= m
                 PROVE  p[i + 1] = q[i + 1]
      BY <2>2 DEF U
    <3>1. p[i] = q[i]
      <4>1. i \in Nat /\ i <= n /\ i <= m
        BY <2>2 DEF U
      <4> QED
        BY <3>0, <4>1
    <3> QED
      BY <2>2, <3>1 DEF Follows, U
  <2> HIDE DEF U
  <2>3. U \in SUBSET Nat
    BY DEF U
  <2> QED
    BY <2>1, <2>2, <2>3, Induction
<1> DEFINE P(n) == CHOOSE p \in [0 .. n -> V] : Follows(p, n, base, G)
           f == [n \in Nat |-> P(n)[n]]
<1>3. \A n \in Nat : P(n) \in [0 .. n -> V] /\ Follows(P(n), n, base, G)
  BY <1>1
<1> HIDE DEF P
<1>4. \A n, m \in Nat : \A i \in Nat : i <= n /\ i <= m => P(n)[i] = P(m)[i]
  <2> SUFFICES ASSUME NEW n \in Nat, NEW m \in Nat, NEW i \in Nat, i <= n, i <= m
               PROVE  P(n)[i] = P(m)[i]
    OBVIOUS
  <2>1. \A p \in [0 .. n -> V], q \in [0 .. m -> V] :
          Follows(p, n, base, G) /\ Follows(q, m, base, G) => p[i] = q[i]
    <3>1. i \in U
      BY <1>2
    <3> QED
      BY <3>1
  <2> HIDE DEF U
  <2>2. /\ P(n) \in [0 .. n -> V] /\ Follows(P(n), n, base, G)
        /\ P(m) \in [0 .. m -> V] /\ Follows(P(m), m, base, G)
    BY <1>3
  <2> QED
    BY <2>1, <2>2, ZenonT(60)
<1>5. f \in [Nat -> V]
  BY <1>3
<1>6. f[0] = base
  BY <1>3 DEF Follows
<1>7. ASSUME NEW i \in Nat PROVE f[i + 1] = G[i + 1][f[i]]
  <2>1. P(i + 1)[i + 1] = G[i + 1][P(i + 1)[i]]
    BY <1>3 DEF Follows
  <2>2. P(i + 1)[i] = P(i)[i]
    BY <1>4
  <2> QED
    BY <2>1, <2>2
<1> QED
  BY <1>5, <1>6, <1>7 DEF Iterates

---------------------------------------------------------------------------
(* What is needed of div and mod with a divisor that is not a constant.    *)
LEMMA Division ==
  ASSUME NEW n \in Nat
  PROVE  /\ n \div Base \in Nat /\ n % Base \in 0 .. Base - 1
         /\ n = Base * (n \div Base) + (n % Base)
         /\ n >= Base => n \div Base >= 1
         /\ n >= Base => n \div Base < n
<1>1. n \div Base \in Nat /\ n % Base \in 0 .. Base - 1 /\ n = Base * (n \div Base) + (n % Base)
  BY BaseAssumption
<1> DEFINE q == n \div Base
           r == n % Base
<1> HIDE DEF q, r
<1>2. q \in Nat /\ r \in 0 .. Base - 1 /\ n = Base * q + r
  BY <1>1 DEF q, r
<1>3. n >= Base => q >= 1
  BY <1>2, BaseAssumption
<1>4. q >= 1 => Base * q >= 2 * q
  BY <1>2, BaseAssumption
<1>5. n >= Base => q < n
  BY <1>2, <1>4, BaseAssumption
<1> QED
  BY <1>1, <1>3, <1>5 DEF q, r

(* A number is taken apart into the digits it is made of.                  *)
LEMMA Digits ==
  ASSUME NEW q \in Nat, NEW r \in 0 .. Base - 1
  PROVE  /\ Base * q + r \in Nat
         /\ (Base * q + r) \div Base = q
         /\ (Base * q + r) % Base = r
<1> DEFINE n == Base * q + r
<1>1. n \in Nat
  BY BaseAssumption
<1>2. PICK m \in Nat : m = n
  BY <1>1
<1>3. PICK d \in Nat, e \in 0 .. Base - 1 : d = m \div Base /\ e = m % Base /\ m = Base * d + e
  BY Division
<1>4. Base * q + r = Base * d + e
  BY <1>2, <1>3
<1>5. d = q
  <2>1. CASE d > q
    <3>1. Base * d >= Base * q + Base
      <4>1. d - q - 1 \in Nat /\ d = q + 1 + (d - q - 1)
        BY <2>1
      <4>2. Base * (d - q - 1) >= 0
        BY <4>1, BaseAssumption
      <4>3. Base * d = Base * q + Base + Base * (d - q - 1)
        BY <4>1, BaseAssumption
      <4> QED
        BY <4>2, <4>3, BaseAssumption
    <3> QED
      BY <3>1, <1>4, BaseAssumption
  <2>2. CASE q > d
    <3>1. Base * q >= Base * d + Base
      <4>1. q - d - 1 \in Nat /\ q = d + 1 + (q - d - 1)
        BY <2>2
      <4>2. Base * (q - d - 1) >= 0
        BY <4>1, BaseAssumption
      <4>3. Base * q = Base * d + Base + Base * (q - d - 1)
        BY <4>1, BaseAssumption
      <4> QED
        BY <4>2, <4>3, BaseAssumption
    <3> QED
      BY <3>1, <1>4, BaseAssumption
  <2> QED
    BY <2>1, <2>2
<1>6. e = r
  BY <1>4, <1>5, BaseAssumption
<1> QED
  BY <1>1, <1>2, <1>3, <1>5, <1>6

(* Values for numbers of one digit.                                        *)
Leaves(V) == [Nat -> V]

(* f is the leaf for one digit, and otherwise a step from its value for    *)
(* the number without its last digit.                                      *)
DigitWise(f, V, leaf, G) ==
  /\ f \in [Nat -> V]
  /\ \A n \in Nat : f[n] = IF n < Base THEN leaf[n] ELSE G[n][f[n \div Base]]

(* There is such a function.                                               *)
LEMMA DigitRecursion ==
  ASSUME NEW V, NEW leaf \in Leaves(V), NEW G \in Steps(V)
  PROVE  \E f : DigitWise(f, V, leaf, G)
<1> USE DEF Leaves
<1>0. G \in [Nat -> [V -> V]]
  BY DEF Steps
<1> DEFINE Step(g) == [n \in Nat |-> IF n < Base THEN leaf[n] ELSE G[n][g[n \div Base]]]
           W == [Nat -> V]
           H == [i \in Nat |-> [g \in W |-> Step(g)]]
<1>1. \A g \in W : Step(g) \in W
  BY <1>0, Division
<1>2. H \in [Nat -> [W -> W]]
  BY <1>1
<1>3. PICK h \in [Nat -> W] : h[0] = leaf /\ \A i \in Nat : h[i + 1] = H[i + 1][h[i]]
  <2>1. leaf \in W /\ H \in Steps(W)
    BY <1>2 DEF Steps
  <2> HIDE DEF H, W
  <2>2. \E f : Iterates(f, W, leaf, H)
    BY <2>1, PrimitiveRecursion
  <2> QED
    BY <2>2 DEF Iterates
<1>4. \A i, n \in Nat : h[i + 1][n] = IF n < Base THEN leaf[n] ELSE G[n][h[i][n \div Base]]
  <2> SUFFICES ASSUME NEW i \in Nat, NEW n \in Nat
               PROVE  h[i + 1][n] = IF n < Base THEN leaf[n] ELSE G[n][h[i][n \div Base]]
    OBVIOUS
  <2>1. h[i + 1] = H[i + 1][h[i]] /\ h[i] \in W
    BY <1>3
  <2>2. H[i + 1][h[i]] = Step(h[i])
    BY <2>1
  <2> QED
    BY <2>1, <2>2, ZenonT(60)
<1> DEFINE S == {n \in Nat : \A k, l \in Nat : k > n /\ l > n => h[k][n] = h[l][n]}
<1> HIDE DEF H, W
<1>5. S = Nat
  <2>1. ASSUME NEW n \in Nat, 0 .. n - 1 \subseteq S PROVE n \in S
    <3> SUFFICES ASSUME NEW k \in Nat, NEW l \in Nat, k > n, l > n PROVE h[k][n] = h[l][n]
      OBVIOUS
    <3>1. k - 1 \in Nat /\ l - 1 \in Nat /\ k - 1 >= n /\ l - 1 >= n /\ (k - 1) + 1 = k /\ (l - 1) + 1 = l
      OBVIOUS
    <3>2. \A i \in Nat : h[i + 1][n] = IF n < Base THEN leaf[n] ELSE G[n][h[i][n \div Base]]
      BY <1>4
    <3>5. /\ h[k][n] = IF n < Base THEN leaf[n] ELSE G[n][h[k - 1][n \div Base]]
          /\ h[l][n] = IF n < Base THEN leaf[n] ELSE G[n][h[l - 1][n \div Base]]
      <4>1. \A j, m \in Nat : m = j + 1 => h[m][n] = IF n < Base THEN leaf[n] ELSE G[n][h[j][n \div Base]]
        BY <3>2
      <4> QED
        BY <3>1, <4>1
    <3>3. CASE n < Base
      BY <3>5, <3>3
    <3>4. CASE n >= Base
      <4>1. n \div Base \in Nat /\ n \div Base < n
        BY <3>4, Division
      <4>2. n \div Base \in S
        BY <2>1, <4>1
      <4>3. h[k - 1][n \div Base] = h[l - 1][n \div Base]
        BY <4>1, <4>2, <3>1
      <4> QED
        BY <3>4, <3>5, <4>3
    <3> QED
      BY <3>3, <3>4, BaseAssumption
  <2> HIDE DEF S
  <2>2. S \in SUBSET Nat
    BY DEF S
  <2> QED
    BY <2>1, <2>2, StrongInduction
<1> DEFINE f == [n \in Nat |-> h[n + 1][n]]
<1>6. f \in [Nat -> V]
  BY <1>3 DEF W
<1>7. ASSUME NEW n \in Nat
      PROVE  f[n] = IF n < Base THEN leaf[n] ELSE G[n][f[n \div Base]]
  <2>1. h[n + 1][n] = IF n < Base THEN leaf[n] ELSE G[n][h[n][n \div Base]]
    BY <1>4
  <2>2. CASE n < Base
    BY <2>1, <2>2
  <2>3. CASE n >= Base
    <3>1. PICK m \in Nat : m = n \div Base /\ m < n
      BY <2>3, Division
    <3>2. h[n][m] = h[m + 1][m]
      BY <1>5, <3>1
    <3> QED
      BY <2>1, <3>1, <3>2, <2>3
  <2> QED
    BY <2>2, <2>3, BaseAssumption
<1> QED
  BY <1>6, <1>7 DEF DigitWise

---------------------------------------------------------------------------
(* The bytes: a digit, or a digit with more to come.                       *)
Octets == 0 .. 2 * Base - 1

(* Byte strings. The name is kept folded in most proofs.                   *)
Strings == Seq(Octets)

(* The recursion equations of Power (1 << 7k).                             *)
LEMMA PowerDef ==
  /\ Power \in [Nat -> Nat \ {0}]
  /\ Power[0] = 1
  /\ \A k \in Nat : Power[k + 1] = Base * Power[k]
<1> DEFINE V == Nat \ {0}
           G == [i \in Nat |-> [v \in V |-> Base * v]]
<1>1. G \in Steps(V) /\ 1 \in V
  BY BaseAssumption DEF Steps
<1>2. PICK f : Iterates(f, V, 1, G)
  <2> HIDE DEF V, G
  <2> QED
    BY <1>1, PrimitiveRecursion
<1>3. f \in [Nat -> V] /\ f[0] = 1 /\ \A i \in Nat : f[i + 1] = Base * f[i]
  <2>1. f \in [Nat -> V] /\ f[0] = 1 /\ \A i \in Nat : f[i + 1] = G[i + 1][f[i]]
    BY <1>2 DEF Iterates
  <2>2. \A i \in Nat : f[i] \in V /\ i + 1 \in Nat
    BY <2>1
  <2> HIDE DEF V
  <2> QED
    BY <2>1, <2>2
<1> HIDE DEF V
<1>4. ASSUME NEW k \in Nat PROVE f[k] = IF k = 0 THEN 1 ELSE Base * f[k - 1]
  <2>1. CASE k = 0
    BY <1>3, <2>1
  <2>2. CASE k # 0
    <3>1. k - 1 \in Nat /\ (k - 1) + 1 = k
      BY <2>2
    <3> QED
      BY <1>3, <2>2, <3>1
  <2> QED
    BY <2>1, <2>2
<1>5. f = [k \in Nat |-> IF k = 0 THEN 1 ELSE Base * f[k - 1]]
  BY <1>3, <1>4
<1>6. Power = [k \in Nat |-> IF k = 0 THEN 1 ELSE Base * Power[k - 1]]
  BY <1>5 DEF Power
<1>7. Power[0] = 1 /\ \A k \in Nat : Power[k + 1] = Base * Power[k]
  <2> DEFINE F(p) == [k \in Nat |-> IF k = 0 THEN 1 ELSE Base * p[k - 1]]
  <2>1. PICK p : p = Power
    OBVIOUS
  <2>2. p = F(p)
    BY <1>6, <2>1
  <2>3. \A k \in Nat : F(p)[k] = IF k = 0 THEN 1 ELSE Base * p[k - 1]
    OBVIOUS
  <2>4. \A k \in Nat : p[k] = IF k = 0 THEN 1 ELSE Base * p[k - 1]
    BY <2>2, <2>3
  <2>5. \A k \in Nat : (k + 1) - 1 = k /\ k + 1 # 0 /\ k + 1 \in Nat
    OBVIOUS
  <2> QED
    BY <2>1, <2>4, <2>5
<1>8. \A k \in Nat : Power[k] \in V
  <2> DEFINE S == {k \in Nat : Power[k] \in V}
  <2>1. 0 \in S
    BY <1>7 DEF V
  <2>2. ASSUME NEW k \in S PROVE k + 1 \in S
    <3>1. PICK v \in V : v = Power[k]
      OBVIOUS
    <3>2. Base * v \in V
      BY BaseAssumption DEF V
    <3> QED
      BY <1>7, <3>1, <3>2
  <2>3. S \in SUBSET Nat
    OBVIOUS
  <2> HIDE DEF S
  <2>4. S = Nat
    BY <2>1, <2>2, <2>3, Induction
  <2> QED
    BY <2>4 DEF S
<1> QED
  BY <1>6, <1>7, <1>8 DEF V

(* The recursion equations of appendLEB128, and its type.                  *)
LEMMA LEBDef ==
  /\ appendLEB128 \in [Nat -> Seq(Octets)]
  /\ \A n \in Nat :
       appendLEB128[n] = IF n < Base THEN <<n>>
                         ELSE <<Base + (n % Base)>> \o appendLEB128[n \div Base]
<1> DEFINE V == Seq(Octets)
           L == [n \in Nat |-> IF n < Base THEN <<n>> ELSE <<>>]
           G == [n \in Nat |-> [s \in V |-> <<Base + (n % Base)>> \o s]]
<1>1. L \in Leaves(V)
  <2>1. \A n \in Nat : n < Base => n \in Octets
    BY BaseAssumption DEF Octets
  <2>2. <<>> \in V
    OBVIOUS
  <2> QED
    BY <2>1, <2>2 DEF Leaves
<1>2. G \in Steps(V)
  <2>1. \A n \in Nat : Base + (n % Base) \in Octets
    BY Division, BaseAssumption DEF Octets
  <2>2. \A n \in Nat, s \in V : <<Base + (n % Base)>> \o s \in V
    BY <2>1
  <2> QED
    BY <2>2 DEF Steps
<1>3. PICK f : DigitWise(f, V, L, G)
  <2> HIDE DEF V, G, L
  <2> QED
    BY <1>1, <1>2, DigitRecursion
<1>4. /\ f \in [Nat -> V]
      /\ \A n \in Nat : f[n] = IF n < Base THEN <<n>> ELSE <<Base + (n % Base)>> \o f[n \div Base]
  <2>1. \A n \in Nat : n \div Base \in Nat
    BY Division
  <2> HIDE DEF V
  <2> QED
    BY <1>3, <2>1 DEF DigitWise
<1> DEFINE Eq(g) == g = [n \in Nat |-> IF n < Base THEN <<n>> ELSE <<Base + (n % Base)>> \o g[n \div Base]]
<1>5. Eq(f)
  BY <1>4, SMTT(60)
<1>6. Eq(appendLEB128)
  BY <1>5, ZenonT(60) DEF appendLEB128
<1>7. \A n \in Nat :
        appendLEB128[n] = IF n < Base THEN <<n>>
                          ELSE <<Base + (n % Base)>> \o appendLEB128[n \div Base]
  <2>1. PICK g : g = appendLEB128
    OBVIOUS
  <2>2. Eq(g)
    BY <1>6, <2>1
  <2>3. \A n \in Nat : g[n] = IF n < Base THEN <<n>> ELSE <<Base + (n % Base)>> \o g[n \div Base]
    BY <2>2
  <2> QED
    BY <2>1, <2>3
<1> DEFINE S == {n \in Nat : appendLEB128[n] \in V}
<1>8. S = Nat
  <2>1. ASSUME NEW n \in Nat, 0 .. n - 1 \subseteq S PROVE n \in S
    <3>1. CASE n < Base
      <4>1. n \in Octets
        BY <3>1, BaseAssumption DEF Octets
      <4>2. <<n>> \in V
        BY <4>1
      <4> QED
        BY <1>7, <3>1, <4>2
    <3>2. CASE ~(n < Base)
      <4>1. n \div Base \in 0 .. n - 1
        BY <3>2, Division, BaseAssumption, SMTT(60)
      <4>2. appendLEB128[n \div Base] \in V
        BY <2>1, <4>1
      <4>3. Base + (n % Base) \in Octets
        BY Division, BaseAssumption DEF Octets
      <4>4. <<Base + (n % Base)>> \o appendLEB128[n \div Base] \in V
        BY <4>2, <4>3
      <4> QED
        BY <1>7, <3>2, <4>4
    <3> QED
      BY <3>1, <3>2
  <2>2. S \in SUBSET Nat
    OBVIOUS
  <2> HIDE DEF S
  <2> QED
    BY <2>1, <2>2, StrongInduction
<1>9. appendLEB128 = [n \in Nat |-> appendLEB128[n]]
  BY <1>6
<1> QED
  BY <1>7, <1>8, <1>9

(* leb128LenInt announces the length of the encoding.                      *)
LEMMA LenDef == \A n \in Nat : leb128LenInt[n] = Len(appendLEB128[n])
<1> DEFINE f == [n \in Nat |-> Len(appendLEB128[n])]
           Eq(g) == g = [n \in Nat |-> IF n < Base THEN 1 ELSE 1 + g[n \div Base]]
<1>1. ASSUME NEW n \in Nat
      PROVE  Len(appendLEB128[n]) = IF n < Base THEN 1 ELSE 1 + Len(appendLEB128[n \div Base])
  <2>1. CASE n < Base
    <3>1. appendLEB128[n] = <<n>> /\ Len(<<n>>) = 1
      BY <2>1, LEBDef
    <3> QED
      BY <2>1, <3>1
  <2>2. CASE ~(n < Base)
    <3>1. PICK s \in Seq(Octets) : s = appendLEB128[n \div Base]
      BY Division, LEBDef
    <3>2. appendLEB128[n] = <<Base + (n % Base)>> \o s
      BY <2>2, <3>1, LEBDef
    <3>3. PICK b : b = Base + (n % Base)
      OBVIOUS
    <3>4. Len(<<b>> \o s) = 1 + Len(s)
      OBVIOUS
    <3> QED
      BY <2>2, <3>1, <3>2, <3>3, <3>4
  <2> QED
    BY <2>1, <2>2
<1>2. Eq(f)
  BY <1>1, Division
<1>3. Eq(leb128LenInt)
  BY <1>2 DEF leb128LenInt
<1>4. \A n \in Nat : leb128LenInt[n] = IF n < Base THEN 1 ELSE 1 + leb128LenInt[n \div Base]
  <2>1. PICK g : g = leb128LenInt
    OBVIOUS
  <2>2. Eq(g)
    BY <1>3, <2>1
  <2>3. \A n \in Nat : g[n] = IF n < Base THEN 1 ELSE 1 + g[n \div Base]
    BY <2>2
  <2> QED
    BY <2>1, <2>3
<1> DEFINE S == {n \in Nat : leb128LenInt[n] = Len(appendLEB128[n])}
<1>5. S = Nat
  <2>1. ASSUME NEW n \in Nat, 0 .. n - 1 \subseteq S PROVE n \in S
    <3>1. CASE n < Base
      BY <1>1, <1>4, <3>1
    <3>2. CASE ~(n < Base)
      <4>1. n \div Base \in 0 .. n - 1
        BY <3>2, Division, BaseAssumption
      <4>2. leb128LenInt[n \div Base] = Len(appendLEB128[n \div Base])
        BY <2>1, <4>1
      <4> QED
        BY <1>1, <1>4, <3>2, <4>2
    <3> QED
      BY <3>1, <3>2
  <2>2. S \in SUBSET Nat
    OBVIOUS
  <2> HIDE DEF S
  <2> QED
    BY <2>1, <2>2, StrongInduction
<1> QED
  BY <1>5

---------------------------------------------------------------------------
(* Length and bytes of a concatenation.                                    *)
LEMMA StringConcat ==
  ASSUME NEW u \in Strings, NEW v \in Strings
  PROVE  /\ u \o v \in Strings
         /\ Len(u \o v) = Len(u) + Len(v) /\ Len(u) \in Nat /\ Len(v) \in Nat
         /\ \A i \in 1 .. Len(u) : (u \o v)[i] = u[i]
         /\ \A i \in 1 .. Len(v) : (u \o v)[Len(u) + i] = v[i]
  BY DEF Strings

(* The same for a byte in front of a string.                               *)
LEMMA StringCons ==
  ASSUME NEW b \in Octets, NEW s \in Strings
  PROVE  /\ <<b>> \o s \in Strings
         /\ Len(<<b>> \o s) = Len(s) + 1 /\ Len(s) \in Nat
         /\ (<<b>> \o s)[1] = b
         /\ \A i \in 1 .. Len(s) : (<<b>> \o s)[i + 1] = s[i]
<1>1. <<b>> \in Strings /\ Len(<<b>>) = 1 /\ <<b>>[1] = b
  BY DEF Strings
<1>2. PICK u \in Strings : u = <<b>> /\ Len(u) = 1 /\ u[1] = b
  BY <1>1
<1>3. \A i \in 1 .. Len(s) : 1 + i = i + 1
  BY DEF Strings
<1>4. /\ u \o s \in Strings
      /\ Len(u \o s) = Len(s) + 1 /\ Len(s) \in Nat
      /\ (u \o s)[1] = b
      /\ \A i \in 1 .. Len(s) : (u \o s)[i + 1] = s[i]
  BY <1>2, <1>3, StringConcat
<1> QED
  BY <1>2, <1>4

(* Concatenation is associative.                                           *)
LEMMA StringAssoc ==
  ASSUME NEW u \in Strings, NEW v \in Strings, NEW w \in Strings
  PROVE  (u \o v) \o w = u \o (v \o w)
  BY ConcatAssociative, SMTT(60) DEF Strings

(* The first i elements of a sequence.                                     *)
LEMMA PrefixFacts ==
  ASSUME NEW S, NEW s \in Seq(S), NEW i \in 0 .. Len(s)
  PROVE  /\ SubSeq(s, 1, i) \in Seq(S)
         /\ Len(SubSeq(s, 1, i)) = i
         /\ \A j \in 1 .. i : SubSeq(s, 1, i)[j] = s[j]
<1>1. \A j \in 1 .. i : s[j] \in S
  OBVIOUS
<1>2. 1 \in Int /\ i \in Int /\ i - 1 + 1 = i
  OBVIOUS
<1>3. /\ SubSeq(s, 1, i) \in Seq(S)
      /\ Len(SubSeq(s, 1, i)) = IF 1 <= i THEN i - 1 + 1 ELSE 0
      /\ \A j \in 1 .. i - 1 + 1 : SubSeq(s, 1, i)[j] = s[1 + j - 1]
  BY <1>1, <1>2, SubSeqProperties
<1>4. \A j \in 1 .. i : 1 + j - 1 = j
  OBVIOUS
<1> QED
  BY <1>2, <1>3, <1>4

(* out[i] is what appendAll has after i arguments.                         *)
Accumulates(out, dst, args) ==
  /\ out \in [0 .. Len(args) -> Strings]
  /\ out[0] = dst
  /\ \A i \in 1 .. Len(args) : out[i] = appendLengthValue(out[i - 1], args[i])

(* appendLengthValue: the string, then the length prefix and the data.     *)
LEMMA AppendType ==
  ASSUME NEW dst \in Strings, NEW data \in Strings
  PROVE  /\ appendLengthValue(dst, data) \in Strings
         /\ appendLengthValue(dst, data) = dst \o (appendLEB128[Len(data)] \o data)
         /\ appendLEB128[Len(data)] \in Strings
<1>1. PICK e \in Strings : e = appendLEB128[Len(data)]
  BY LEBDef, SMTT(60) DEF Strings
<1>2. dst \o e \o data \in Strings /\ dst \o e \o data = dst \o (e \o data)
  BY SMTT(60) DEF Strings
<1> QED
  BY <1>1, <1>2 DEF appendLengthValue

(* appendAll returns the last value of its loop.                           *)
LEMMA AppendAllRun ==
  ASSUME NEW dst \in Strings, NEW args \in Seq(Strings)
  PROVE  \E out : Accumulates(out, dst, args) /\ appendAll(dst, args) = out[Len(args)]
<1> DEFINE V == Strings
           G == [i \in Nat |-> [s \in V |-> IF i \in 1 .. Len(args)
                                            THEN appendLengthValue(s, args[i]) ELSE s]]
<1>1. G \in Steps(V)
  <2>1. \A i \in 1 .. Len(args) : args[i] \in V
    OBVIOUS
  <2>2. \A i \in 1 .. Len(args), s \in V : appendLengthValue(s, args[i]) \in V
    BY <2>1, AppendType
  <2> HIDE DEF V
  <2> QED
    BY <2>2 DEF Steps
<1>2. PICK f : Iterates(f, V, dst, G)
  <2> HIDE DEF V, G
  <2>1. dst \in V
    BY DEF V
  <2> QED
    BY <1>1, <2>1, PrimitiveRecursion
<1>3. f \in [Nat -> V] /\ f[0] = dst
  BY <1>2 DEF Iterates
<1>4. ASSUME NEW i \in 1 .. Len(args) PROVE f[i] = appendLengthValue(f[i - 1], args[i])
  <2>1. i - 1 \in Nat /\ (i - 1) + 1 = i /\ i \in Nat
    OBVIOUS
  <2>2. f[i] = G[i][f[i - 1]] /\ f[i - 1] \in V
    BY <1>2, <2>1 DEF Iterates
  <2> HIDE DEF V
  <2> QED
    BY <2>1, <2>2
<1> DEFINE Eq(g) == g = [i \in 0 .. Len(args) |->
                           IF i = 0 THEN dst ELSE appendLengthValue(g[i - 1], args[i])]
           h == [i \in 0 .. Len(args) |-> f[i]]
<1>5. Eq(h)
  <2>1. ASSUME NEW i \in 0 .. Len(args)
        PROVE  h[i] = IF i = 0 THEN dst ELSE appendLengthValue(h[i - 1], args[i])
    <3>1. CASE i = 0
      BY <1>3, <3>1
    <3>2. CASE i # 0
      <4>1. i \in 1 .. Len(args) /\ i - 1 \in 0 .. Len(args)
        BY <3>2
      <4> QED
        BY <1>4, <3>2, <4>1
    <3> QED
      BY <3>1, <3>2
  <2> QED
    BY <2>1
<1>6. PICK g : Eq(g) /\ appendAll(dst, args) = g[Len(args)]
  <2>1. PICK g : Eq(g) /\ g = CHOOSE x : Eq(x)
    BY <1>5
  <2> QED
    BY <2>1, ZenonT(60) DEF appendAll
<1> HIDE DEF h
<1>7. \A i \in 0 .. Len(args) : g[i] = IF i = 0 THEN dst ELSE appendLengthValue(g[i - 1], args[i])
  BY <1>6
<1> DEFINE S == {i \in Nat : i <= Len(args) => g[i] \in V}
<1>8. S = Nat
  <2>1. 0 \in S
    BY <1>7
  <2>2. ASSUME NEW i \in S PROVE i + 1 \in S
    <3> SUFFICES ASSUME i + 1 <= Len(args) PROVE g[i + 1] \in V
      OBVIOUS
    <3>1. g[i] \in V /\ i + 1 \in 0 .. Len(args) /\ i + 1 # 0 /\ (i + 1) - 1 = i
      OBVIOUS
    <3>2. g[i + 1] = appendLengthValue(g[i], args[i + 1])
      BY <1>7, <3>1
    <3>3. args[i + 1] \in V
      OBVIOUS
    <3> QED
      BY <3>1, <3>2, <3>3, AppendType, ZenonT(60)
  <2>3. S \in SUBSET Nat
    OBVIOUS
  <2> HIDE DEF S
  <2> QED
    BY <2>1, <2>2, <2>3, Induction
<1>9. g \in [0 .. Len(args) -> V]
  <2>1. \A i \in 0 .. Len(args) : i \in S
    BY <1>8
  <2>2. \A i \in 0 .. Len(args) : g[i] \in V
    BY <2>1
  <2>3. g = [i \in 0 .. Len(args) |-> g[i]]
    BY <1>6
  <2> QED
    BY <2>2, <2>3
<1>10. Accumulates(g, dst, args)
  BY <1>7, <1>9 DEF Accumulates
<1> QED
  BY <1>6, <1>10

(* The loop depends only on the arguments it has seen.                     *)
LEMMA AccumulatesSame ==
  ASSUME NEW dst, NEW a \in Seq(Strings), NEW b \in Seq(Strings), NEW k \in Nat,
         k <= Len(a), k <= Len(b), \A i \in 1 .. k : a[i] = b[i],
         NEW f, Accumulates(f, dst, a), NEW g, Accumulates(g, dst, b)
  PROVE  f[k] = g[k]
<1> DEFINE S == {i \in Nat : i <= k => f[i] = g[i]}
<1>1. 0 \in S
  BY DEF Accumulates
<1>2. ASSUME NEW i \in S PROVE i + 1 \in S
  <2> SUFFICES ASSUME i + 1 <= k PROVE f[i + 1] = g[i + 1]
    OBVIOUS
  <2>1. f[i] = g[i] /\ a[i + 1] = b[i + 1] /\ (i + 1) - 1 = i
    OBVIOUS
  <2>2. i + 1 \in 1 .. Len(a) /\ i + 1 \in 1 .. Len(b)
    OBVIOUS
  <2>3. f[i + 1] = appendLengthValue(f[i], a[i + 1]) /\ g[i + 1] = appendLengthValue(g[i], b[i + 1])
    BY <2>1, <2>2 DEF Accumulates
  <2> QED
    BY <2>1, <2>3
<1>3. S \in SUBSET Nat
  OBVIOUS
<1> HIDE DEF S
<1>4. S = Nat
  BY <1>1, <1>2, <1>3, Induction
<1>5. k \in S
  BY <1>4
<1> QED
  BY <1>5 DEF S

(* No arguments, nothing appended.                                         *)
LEMMA AppendAllEmpty ==
  ASSUME NEW dst \in Strings
  PROVE  appendAll(dst, <<>>) = dst
<1>1. <<>> \in Seq(Strings) /\ Len(<<>>) = 0
  OBVIOUS
<1>2. PICK out : Accumulates(out, dst, <<>>) /\ appendAll(dst, <<>>) = out[Len(<<>>)]
  BY <1>1, AppendAllRun
<1> QED
  BY <1>1, <1>2 DEF Accumulates

(* appendAll returns a byte string.                                        *)
LEMMA AppendAllType ==
  ASSUME NEW dst \in Strings, NEW args \in Seq(Strings)
  PROVE  appendAll(dst, args) \in Strings
<1>1. PICK out : Accumulates(out, dst, args) /\ appendAll(dst, args) = out[Len(args)]
  BY AppendAllRun
<1>2. Len(args) \in 0 .. Len(args)
  OBVIOUS
<1> QED
  BY <1>1, <1>2 DEF Accumulates

(* One more argument is one more round of the loop.                        *)
LEMMA AppendAllAppend ==
  ASSUME NEW dst \in Strings, NEW args \in Seq(Strings), NEW e \in Strings
  PROVE  appendAll(dst, Append(args, e)) = appendLengthValue(appendAll(dst, args), e)
<1>1. PICK b \in Seq(Strings) : b = Append(args, e)
  BY AppendProperties
<1>2. /\ Len(b) = Len(args) + 1 /\ b[Len(args) + 1] = e
      /\ \A i \in 1 .. Len(args) : args[i] = b[i]
      /\ Len(args) \in Nat
  BY <1>1, AppendProperties
<1>3. PICK f : Accumulates(f, dst, args) /\ appendAll(dst, args) = f[Len(args)]
  BY AppendAllRun
<1>4. PICK g : Accumulates(g, dst, b) /\ appendAll(dst, b) = g[Len(b)]
  BY AppendAllRun
<1>5. PICK k \in Nat : k = Len(args)
  OBVIOUS
<1>6. f[k] = g[k]
  <2>1. k <= Len(args) /\ k <= Len(b) /\ \A i \in 1 .. k : args[i] = b[i]
    BY <1>2, <1>5
  <2> QED
    BY <1>3, <1>4, <2>1, AccumulatesSame
<1>7. g[k + 1] = appendLengthValue(g[k], e)
  <2>1. k + 1 \in 1 .. Len(b) /\ (k + 1) - 1 = k
    BY <1>2, <1>5
  <2>2. g[k + 1] = appendLengthValue(g[(k + 1) - 1], b[k + 1])
    BY <1>4, <2>1 DEF Accumulates
  <2> QED
    BY <1>2, <1>5, <2>1, <2>2
<1> QED
  BY <1>1, <1>2, <1>3, <1>4, <1>5, <1>6, <1>7

(* What follows the first i + 1 arguments.                                 *)
LEMMA AppendAllPrefix ==
  ASSUME NEW dst \in Strings, NEW args \in Seq(Strings), NEW i \in 0 .. Len(args)
  PROVE  \E rest \in Strings :
           appendAll(dst, args) = appendAll(dst, SubSeq(args, 1, i)) \o rest
<1>1. PICK a \in Seq(Strings) :
        a = SubSeq(args, 1, i) /\ Len(a) = i /\ \A j \in 1 .. i : a[j] = args[j]
  BY PrefixFacts, ZenonT(60)
<1>2. PICK f : Accumulates(f, dst, args) /\ appendAll(dst, args) = f[Len(args)]
  BY AppendAllRun
<1>3. PICK g : Accumulates(g, dst, a) /\ appendAll(dst, a) = g[Len(a)]
  BY AppendAllRun
<1>4. f[i] = g[i]
  <2>1. i \in Nat /\ i <= Len(args) /\ i <= Len(a) /\ \A j \in 1 .. i : args[j] = a[j]
    BY <1>1
  <2> QED
    BY <1>2, <1>3, <2>1, AccumulatesSame
<1> DEFINE S == {k \in Nat : k <= Len(args) - i =>
                   \E rest \in Strings : f[i + k] = f[i] \o rest}
<1>5. S = Nat
  <2>1. 0 \in S
    <3>1. f[i] \in Strings /\ i + 0 = i
      BY <1>2, SMTT(60) DEF Accumulates
    <3>2. f[i] = f[i] \o <<>> /\ <<>> \in Strings
      BY <3>1, ConcatEmptySeq DEF Strings
    <3>3. \E rest \in Strings : f[i + 0] = f[i] \o rest
      BY <3>1, <3>2
    <3> QED
      BY <3>3
  <2>2. ASSUME NEW k \in S PROVE k + 1 \in S
    <3>0. k \in Nat /\ k + 1 \in Nat
      OBVIOUS
    <3> SUFFICES ASSUME k + 1 <= Len(args) - i
                 PROVE  \E rest \in Strings : f[i + (k + 1)] = f[i] \o rest
      BY <3>0
    <3>1. PICK r \in Strings : f[i + k] = f[i] \o r
      BY <3>0, SMTT(60)
    <3>2. PICK m \in 1 .. Len(args) : m = i + (k + 1) /\ m - 1 = i + k
      BY <3>0
    <3>3. args[m] \in Strings /\ f[i] \in Strings /\ f[m - 1] \in Strings
      <4>1. f \in [0 .. Len(args) -> Strings]
        BY <1>2 DEF Accumulates
      <4>2. args[m] \in Strings
        BY ElementOfSeq
      <4>3. m - 1 \in 0 .. Len(args)
        OBVIOUS
      <4> QED
        BY <4>1, <4>2, <4>3
    <3>4. PICK lv \in Strings : f[m] = f[m - 1] \o lv
      <4>1. f[m] = appendLengthValue(f[m - 1], args[m])
        BY <1>2 DEF Accumulates
      <4>2. PICK x \in Strings : x = appendLEB128[Len(args[m])]
        BY <3>3, AppendType
      <4>3. x \o args[m] \in Strings
        BY <3>3 DEF Strings
      <4>4. f[m] = f[m - 1] \o (x \o args[m])
        BY <3>3, <4>1, <4>2, AppendType
      <4> QED
        BY <4>3, <4>4
    <3>5. f[m] = f[i] \o (r \o lv) /\ r \o lv \in Strings
      <4>1. PICK u \in Strings : u = f[i]
        BY <3>3
      <4>2. (u \o r) \o lv = u \o (r \o lv) /\ r \o lv \in Strings
        BY StringConcat, StringAssoc, ZenonT(60)
      <4> QED
        BY <3>1, <3>2, <3>4, <4>1, <4>2
    <3> QED
      BY <3>2, <3>5
  <2>3. S \in SUBSET Nat
    OBVIOUS
  <2> HIDE DEF S
  <2> QED
    BY <2>1, <2>2, <2>3, Induction
<1>6. PICK k \in Nat : k = Len(args) - i /\ i + k = Len(args)
  OBVIOUS
<1>7. k \in S
  BY <1>5
<1>8. \E rest \in Strings : f[i + k] = f[i] \o rest
  BY <1>6, <1>7, SMTT(60)
<1> QED
  BY <1>1, <1>2, <1>3, <1>4, <1>6, <1>8

---------------------------------------------------------------------------
(* n[i] is what the loop of readLEB128 has after i bytes.                  *)
ValueRun(n, s) ==
  /\ n \in [0 .. Len(s) -> Nat]
  /\ n[0] = 0
  /\ \A i \in 1 .. Len(s) : n[i] = n[i - 1] + (s[i] % Base) * Power[i - 1]

(* The bytes of a string and their digits.                                 *)
LEMMA DigitType ==
  ASSUME NEW s \in Strings, NEW i \in 1 .. Len(s)
  PROVE  s[i] \in Octets /\ s[i] \in Nat /\ s[i] % Base \in Nat /\ s[i] % Base < Base
<1>1. s[i] \in Octets
  BY DEF Strings
<1>2. PICK c \in Nat : c = s[i]
  BY <1>1, BaseAssumption DEF Octets
<1>3. c % Base \in 0 .. Base - 1
  BY Division
<1> QED
  BY <1>1, <1>2, <1>3, BaseAssumption

(* Products of numbers are numbers.                                        *)
LEMMA Product == \A a, b \in Nat : a * b \in Nat
  OBVIOUS

(* LEBValue is the last value of its loop.                                 *)
LEMMA LEBValueRun ==
  ASSUME NEW s \in Strings
  PROVE  \E n : ValueRun(n, s) /\ LEBValue(s) = n[Len(s)]
<1>0. Len(s) \in Nat
  BY DEF Strings
<1> DEFINE Term(i) == (s[i] % Base) * Power[i - 1]
<1>1. \A i \in 1 .. Len(s) : Term(i) \in Nat
  <2> SUFFICES ASSUME NEW i \in 1 .. Len(s) PROVE Term(i) \in Nat
    OBVIOUS
  <2>1. i - 1 \in Nat
    BY <1>0
  <2>2. Power[i - 1] \in Nat
    BY <2>1, PowerDef
  <2>3. s[i] % Base \in Nat
    BY DigitType
  <2> QED
    BY <2>2, <2>3, Product
<1> HIDE DEF Term
<1> DEFINE G == [i \in Nat |-> [v \in Nat |-> IF i \in 1 .. Len(s) THEN v + Term(i) ELSE v]]
<1>2. G \in Steps(Nat)
  BY <1>1 DEF Steps
<1>3. PICK f : Iterates(f, Nat, 0, G)
  <2> HIDE DEF G
  <2>1. 0 \in Nat
    OBVIOUS
  <2> QED
    BY <1>2, <2>1, PrimitiveRecursion
<1>4. f \in [Nat -> Nat] /\ f[0] = 0
  BY <1>3 DEF Iterates
<1>5. ASSUME NEW i \in 1 .. Len(s) PROVE f[i] = f[i - 1] + Term(i)
  <2>1. i - 1 \in Nat /\ (i - 1) + 1 = i /\ i \in Nat
    BY <1>0
  <2>2. f[i] = G[i][f[i - 1]] /\ f[i - 1] \in Nat
    BY <1>3, <2>1 DEF Iterates
  <2> QED
    BY <2>1, <2>2
<1> DEFINE Eq(g) == g = [i \in 0 .. Len(s) |-> IF i = 0 THEN 0 ELSE g[i - 1] + Term(i)]
           h == [i \in 0 .. Len(s) |-> f[i]]
<1>6. Eq(h)
  <2>1. ASSUME NEW i \in 0 .. Len(s) PROVE h[i] = IF i = 0 THEN 0 ELSE h[i - 1] + Term(i)
    <3>1. CASE i = 0
      BY <1>4, <3>1
    <3>2. CASE i # 0
      <4>1. i \in 1 .. Len(s) /\ i - 1 \in 0 .. Len(s)
        BY <1>0, <3>2
      <4> QED
        BY <1>5, <3>2, <4>1
    <3> QED
      BY <3>1, <3>2
  <2> QED
    BY <2>1
<1>7. PICK g : Eq(g) /\ LEBValue(s) = g[Len(s)]
  <2>1. PICK g : Eq(g) /\ g = CHOOSE x : Eq(x)
    BY <1>6
  <2> QED
    BY <2>1, ZenonT(60) DEF LEBValue, Term
<1> HIDE DEF h
<1>8. \A i \in 0 .. Len(s) : g[i] = IF i = 0 THEN 0 ELSE g[i - 1] + Term(i)
  BY <1>7
<1> DEFINE S == {i \in Nat : i <= Len(s) => g[i] \in Nat}
<1>9. S = Nat
  <2>1. 0 \in S
    BY <1>0, <1>8
  <2>2. ASSUME NEW i \in S PROVE i + 1 \in S
    <3> SUFFICES ASSUME i + 1 <= Len(s) PROVE g[i + 1] \in Nat
      OBVIOUS
    <3>1. /\ g[i] \in Nat /\ i + 1 \in 0 .. Len(s) /\ i + 1 # 0 /\ (i + 1) - 1 = i
          /\ i + 1 \in 1 .. Len(s)
      BY <1>0
    <3>2. g[i + 1] = g[i] + Term(i + 1)
      BY <1>8, <3>1
    <3> QED
      BY <1>1, <3>1, <3>2
  <2>3. S \in SUBSET Nat
    OBVIOUS
  <2> HIDE DEF S
  <2> QED
    BY <2>1, <2>2, <2>3, Induction
<1>10. g \in [0 .. Len(s) -> Nat]
  <2>1. \A i \in 0 .. Len(s) : i \in S
    BY <1>0, <1>9
  <2>2. \A i \in 0 .. Len(s) : g[i] \in Nat
    BY <1>0, <2>1
  <2>3. g = [i \in 0 .. Len(s) |-> g[i]]
    BY <1>7
  <2> QED
    BY <2>2, <2>3
<1>11. ValueRun(g, s)
  BY <1>0, <1>8, <1>10 DEF ValueRun, Term
<1> QED
  BY <1>7, <1>11

(* LEBValue is a number.                                                   *)
LEMMA LEBValueType == ASSUME NEW s \in Strings PROVE LEBValue(s) \in Nat
<1>1. PICK n : ValueRun(n, s) /\ LEBValue(s) = n[Len(s)]
  BY LEBValueRun
<1>2. Len(s) \in 0 .. Len(s)
  BY DEF Strings
<1> QED
  BY <1>1, <1>2 DEF ValueRun

(* No bytes, zero.                                                         *)
LEMMA LEBValueEmpty == LEBValue(<<>>) = 0
<1>1. <<>> \in Strings /\ Len(<<>>) = 0
  BY DEF Strings
<1>2. PICK n : ValueRun(n, <<>>) /\ LEBValue(<<>>) = n[Len(<<>>)]
  BY <1>1, LEBValueRun
<1> QED
  BY <1>1, <1>2 DEF ValueRun

(* The distributive law the next lemma needs.                              *)
LEMMA Distribute ==
  \A a, b, c, d \in Nat : a + d * b + c * (d * a) \in Nat /\ d * (b + c * a) = d * b + c * (d * a)
  OBVIOUS

(* The value by its lowest digit: the loop adds digits at rising powers of *)
(* Base, the encoding takes them off by division.                          *)
LEMMA LEBValueCons ==
  ASSUME NEW b \in Octets, NEW s \in Strings
  PROVE  LEBValue(<<b>> \o s) = (b % Base) + Base * LEBValue(s)
<1>1. PICK t \in Strings : /\ t = <<b>> \o s /\ Len(t) = Len(s) + 1 /\ Len(s) \in Nat
                           /\ t[1] = b /\ \A i \in 1 .. Len(s) : t[i + 1] = s[i]
  BY StringCons, ZenonT(60)
<1>2. PICK n : ValueRun(n, s) /\ LEBValue(s) = n[Len(s)]
  BY LEBValueRun
<1>3. PICK m : ValueRun(m, t) /\ LEBValue(t) = m[Len(t)]
  BY LEBValueRun
<1>4. b % Base \in Nat /\ Base \in Nat
  BY Division, BaseAssumption DEF Octets
<1> DEFINE S == {i \in Nat : i <= Len(s) => m[i + 1] = (b % Base) + Base * n[i]}
<1>5. S = Nat
  <2>1. 0 \in S
    <3>1. 1 \in 1 .. Len(t) /\ 1 - 1 = 0
      BY <1>1
    <3>2. m[1] = m[0] + (b % Base) * Power[0] /\ m[0] = 0 /\ n[0] = 0
      BY <1>1, <1>2, <1>3, <3>1 DEF ValueRun
    <3>3. m[0 + 1] = (b % Base) + Base * n[0]
      BY <1>4, <3>2, PowerDef
    <3> QED
      BY <3>3
  <2>2. ASSUME NEW i \in S PROVE i + 1 \in S
    <3> SUFFICES ASSUME i + 1 <= Len(s) PROVE m[(i + 1) + 1] = (b % Base) + Base * n[i + 1]
      OBVIOUS
    <3>1. i \in Nat /\ m[i + 1] = (b % Base) + Base * n[i]
      BY <1>1
    <3>2. PICK j \in 1 .. Len(s) : j = i + 1 /\ j - 1 = i /\ j + 1 \in 1 .. Len(t) /\ (j + 1) - 1 = j
      BY <1>1, <3>1
    <3>3. PICK d \in Nat : d = s[j] % Base /\ t[j + 1] = s[j]
      BY <1>1, DigitType
    <3>4. PICK p \in Nat : p = Power[i] /\ Power[j] = Base * p
      BY <3>1, <3>2, PowerDef
    <3>5. m[j + 1] = m[j] + d * Power[j]
      BY <1>3, <3>2, <3>3 DEF ValueRun
    <3>6. n[j] = n[i] + d * p
      BY <1>2, <3>2, <3>3, <3>4 DEF ValueRun
    <3>7. PICK v \in Nat : v = n[i]
      <4>1. i \in 0 .. Len(s)
        BY <1>1, <3>1
      <4> QED
        BY <1>2, <4>1 DEF ValueRun
    <3>8. Base * (v + d * p) = Base * v + d * (Base * p)
      BY <1>4, Distribute
    <3>9. Base * v \in Nat /\ d * (Base * p) \in Nat
      BY <1>4, Product
    <3>10. m[j + 1] = ((b % Base) + Base * v) + d * (Base * p)
      BY <3>1, <3>2, <3>4, <3>5, <3>7
    <3>11. ((b % Base) + Base * v) + d * (Base * p) = (b % Base) + (Base * v + d * (Base * p))
      BY <1>4, <3>9
    <3>12. m[j + 1] = (b % Base) + Base * n[j]
      BY <3>6, <3>7, <3>8, <3>10, <3>11
    <3> QED
      BY <3>2, <3>12
  <2>3. S \in SUBSET Nat
    OBVIOUS
  <2> HIDE DEF S
  <2> QED
    BY <2>1, <2>2, <2>3, Induction
<1>6. Len(s) \in S
  BY <1>1, <1>5
<1>7. m[Len(s) + 1] = (b % Base) + Base * n[Len(s)]
  BY <1>1, <1>6
<1> QED
  BY <1>1, <1>2, <1>3, <1>7

---------------------------------------------------------------------------
(* Multiplication with Base is monotone.                                   *)
LEMMA Monotone == \A a, b \in Nat : a <= b => Base * a <= Base * b /\ Base * a \in Nat
<1> SUFFICES ASSUME NEW a \in Nat, NEW b \in Nat, a <= b
             PROVE  Base * a <= Base * b /\ Base * a \in Nat
  OBVIOUS
<1>1. PICK c \in Nat : b = a + c
  <2>1. b - a \in Nat /\ b = a + (b - a)
    OBVIOUS
  <2> QED
    BY <2>1
<1>2. Base * b = Base * a + Base * c
  BY <1>1, BaseAssumption
<1>3. Base * a \in Nat /\ Base * c \in Nat
  BY Product, BaseAssumption
<1> QED
  BY <1>2, <1>3

(* Power is monotone.                                                      *)
LEMMA PowerMonotone == \A j, k \in Nat : j <= k => Power[j] <= Power[k]
<1> SUFFICES ASSUME NEW j \in Nat PROVE \A k \in Nat : j <= k => Power[j] <= Power[k]
  OBVIOUS
<1> DEFINE S == {i \in Nat : Power[j] <= Power[j + i]}
<1>1. 0 \in S
  <2>1. Power[j] \in Nat /\ j + 0 = j
    BY PowerDef
  <2> QED
    BY <2>1
<1>2. ASSUME NEW i \in S PROVE i + 1 \in S
  <2>1. PICK p \in Nat, q \in Nat : p = Power[j] /\ q = Power[j + i] /\ p <= q
    <3>1. j + i \in Nat
      OBVIOUS
    <3> QED
      BY <3>1, PowerDef
  <2>2. Power[j + (i + 1)] = Base * q
    <3>1. j + i \in Nat /\ j + (i + 1) = (j + i) + 1
      OBVIOUS
    <3> QED
      BY <2>1, <3>1, PowerDef
  <2>3. q <= Base * q
    BY BaseAssumption
  <2> QED
    BY <2>1, <2>2, <2>3, BaseAssumption
<1>3. S \in SUBSET Nat
  OBVIOUS
<1> HIDE DEF S
<1>4. S = Nat
  BY <1>1, <1>2, <1>3, Induction
<1> TAKE k \in Nat
<1> HAVE j <= k
<1>5. k - j \in Nat /\ j + (k - j) = k
  OBVIOUS
<1>6. k - j \in S
  BY <1>4, <1>5
<1> QED
  BY <1>5, <1>6 DEF S

(* A run of LEB128 bytes: every byte but the last announces another one.   *)
Terminated(s) ==
  /\ s \in Strings /\ Len(s) >= 1
  /\ \A i \in 1 .. Len(s) - 1 : s[i] >= Base
  /\ s[Len(s)] < Base

(* s is a canonical code for n.                                            *)
IsCode(s, n) ==
  /\ Terminated(s)
  /\ LEBValue(s) = n
  /\ Len(s) = 1 \/ n >= Power[Len(s) - 1]

(* A single digit is its own code.                                         *)
LEMMA SingleCode == ASSUME NEW n \in Nat, n < Base PROVE IsCode(<<n>>, n)
<1>1. n \in Octets /\ <<>> \in Strings
  BY BaseAssumption DEF Octets, Strings
<1>2. <<n>> \in Strings /\ Len(<<n>>) = 1 /\ <<n>>[1] = n /\ <<n>> \o <<>> = <<n>>
  BY <1>1, ConcatEmptySeq DEF Strings
<1>3. LEBValue(<<n>> \o <<>>) = (n % Base) + Base * LEBValue(<<>>)
  BY <1>1, LEBValueCons
<1>4. n % Base = n
  <2>1. n \in 0 .. Base - 1 /\ Base * 0 + n = n
    BY BaseAssumption
  <2>2. (Base * 0 + n) % Base = n
    BY <2>1, Digits
  <2> QED
    BY <2>1, <2>2
<1>5. LEBValue(<<n>>) = n
  BY <1>2, <1>3, <1>4, LEBValueEmpty, BaseAssumption
<1> QED
  BY <1>2, <1>5 DEF IsCode, Terminated

(* A digit with more to come before a terminated string.                   *)
LEMMA TerminatedCons ==
  ASSUME NEW b \in Octets, b >= Base, NEW s, Terminated(s)
  PROVE  Terminated(<<b>> \o s)
<1>1. s \in Strings
  BY DEF Terminated
<1>2. PICK t \in Strings : /\ t = <<b>> \o s /\ Len(t) = Len(s) + 1 /\ Len(s) \in Nat
                           /\ t[1] = b /\ \A i \in 1 .. Len(s) : t[i + 1] = s[i]
  BY <1>1, StringCons, ZenonT(60)
<1>3. t[Len(t)] < Base
  BY <1>2 DEF Terminated
<1>4. ASSUME NEW i \in 1 .. Len(t) - 1 PROVE t[i] >= Base
  <2>1. CASE i = 1
    BY <1>2, <2>1
  <2>2. CASE i # 1
    <3>1. i - 1 \in 1 .. Len(s) - 1 /\ i - 1 \in 1 .. Len(s) /\ (i - 1) + 1 = i
      BY <1>2, <2>2
    <3>2. t[i] = s[i - 1]
      BY <1>2, <3>1
    <3> QED
      BY <3>1, <3>2 DEF Terminated
  <2> QED
    BY <2>1, <2>2
<1> QED
  BY <1>2, <1>3, <1>4 DEF Terminated

(* The byte for a digit with more to come.                                 *)
LEMMA DigitOf ==
  ASSUME NEW r \in 0 .. Base - 1
  PROVE  (Base + r) % Base = r /\ Base + r \in Octets
<1>1. Base * 1 + r = Base + r
  BY BaseAssumption
<1>2. (Base * 1 + r) % Base = r
  BY Digits
<1> QED
  BY <1>1, <1>2, BaseAssumption DEF Octets

(* What appendLEB128 produces is a canonical code.                         *)
LEMMA EncodingIsCode == \A n \in Nat : IsCode(appendLEB128[n], n)
<1> DEFINE S == {n \in Nat : IsCode(appendLEB128[n], n)}
<1>1. ASSUME NEW n \in Nat, 0 .. n - 1 \subseteq S PROVE n \in S
  <2>1. CASE n < Base
    <3>1. appendLEB128[n] = <<n>>
      BY <2>1, LEBDef
    <3> QED
      BY <2>1, <3>1, SingleCode
  <2>2. CASE ~(n < Base)
    <3>1. PICK q \in Nat, r \in 0 .. Base - 1 :
            /\ q = n \div Base /\ r = n % Base /\ n = Base * q + r
            /\ q >= 1 /\ q < n
      <4>1. n >= Base
        BY <2>2, BaseAssumption
      <4> QED
        BY <4>1, Division
    <3>2. PICK e : e = appendLEB128[q] /\ IsCode(e, q) /\ e \in Strings
      <4>1. q \in 0 .. n - 1
        BY <3>1
      <4>2. IsCode(appendLEB128[q], q)
        BY <1>1, <4>1
      <4> QED
        BY <4>2, LEBDef DEF Strings
    <3>3. appendLEB128[n] = <<Base + r>> \o e
      BY <2>2, <3>1, <3>2, LEBDef
    <3>4. (Base + r) % Base = r /\ Base + r \in Octets /\ Base + r >= Base
      BY DigitOf, BaseAssumption
    <3>5. PICK b \in Octets : b = Base + r
      BY <3>4
    <3>6. Terminated(<<b>> \o e)
      BY <3>2, <3>4, <3>5, TerminatedCons DEF IsCode
    <3>7. LEBValue(<<b>> \o e) = r + Base * q
      BY <3>2, <3>4, <3>5, LEBValueCons DEF IsCode
    <3>8. r + Base * q = n
      BY <3>1, Product, BaseAssumption
    <3>9. Len(<<b>> \o e) = Len(e) + 1 /\ Len(e) \in Nat /\ Len(e) >= 1
      BY <3>2, StringCons DEF IsCode, Terminated
    <3>10. n >= Power[Len(e)]
      <4>1. CASE Len(e) = 1
        <5>1. Power[1] = Base
          <6>1. Power[0 + 1] = Base * Power[0] /\ Power[0] = 1
            BY PowerDef
          <6> QED
            BY <6>1, BaseAssumption
        <5> QED
          BY <2>2, <4>1, <5>1, BaseAssumption
      <4>2. CASE Len(e) # 1
        <5>1. PICK k \in Nat : k + 1 = Len(e) /\ k = Len(e) - 1
          BY <3>9
        <5>2. PICK p \in Nat : p = Power[k] /\ Power[k + 1] = Base * p
          BY PowerDef
        <5>3. p <= q
          BY <3>2, <4>2, <5>1, <5>2 DEF IsCode
        <5>4. Base * p <= Base * q /\ Base * p \in Nat /\ Base * q \in Nat
          BY <5>3, Monotone, Product, BaseAssumption
        <5> QED
          BY <3>1, <5>1, <5>2, <5>4, SMTT(60)
      <4> QED
        BY <4>1, <4>2
    <3>11. (Len(e) + 1) - 1 = Len(e)
      BY <3>9
    <3>12. IsCode(<<b>> \o e, n)
      BY <3>6, <3>7, <3>8, <3>9, <3>10, <3>11 DEF IsCode
    <3> QED
      BY <3>3, <3>5, <3>12
  <2> QED
    BY <2>1, <2>2
<1>2. S \in SUBSET Nat
  OBVIOUS
<1> HIDE DEF S
<1>3. S = Nat
  BY <1>1, <1>2, StrongInduction
<1> QED
  BY <1>3 DEF S

(* A non-empty string is its first byte and the rest.                      *)
LEMMA StringTail ==
  ASSUME NEW s \in Strings, Len(s) >= 1
  PROVE  \E t \in Strings : /\ s = <<s[1]>> \o t /\ Len(s) = Len(t) + 1 /\ Len(t) \in Nat
                            /\ \A i \in 1 .. Len(t) : s[i + 1] = t[i]
<1>1. s[1] \in Octets /\ s # <<>> /\ Len(s) \in Nat
  BY DEF Strings
<1>2. Tail(s) \in Strings /\ Len(Tail(s)) = Len(s) - 1 /\ \A i \in 1 .. Len(Tail(s)) : Tail(s)[i] = s[i + 1]
  BY <1>1, HeadTailProperties DEF Strings
<1>3. PICK t \in Strings : /\ Len(s) = Len(t) + 1 /\ Len(t) \in Nat
                           /\ \A i \in 1 .. Len(t) : s[i + 1] = t[i]
  <2>1. PICK t : t = Tail(s)
    OBVIOUS
  <2>2. t \in Strings /\ Len(t) = Len(s) - 1 /\ \A i \in 1 .. Len(t) : t[i] = s[i + 1]
    BY <1>2, <2>1
  <2>3. PICK l \in Nat : l = Len(s) /\ l >= 1
    BY <1>1
  <2>4. l - 1 \in Nat /\ l = (l - 1) + 1
    BY <2>3
  <2>5. Len(s) = Len(t) + 1 /\ Len(t) \in Nat
    BY <2>2, <2>3, <2>4
  <2> QED
    BY <2>2, <2>5
<1>4. PICK u \in Strings : /\ u = <<s[1]>> \o t /\ Len(u) = Len(t) + 1
                           /\ u[1] = s[1] /\ \A i \in 1 .. Len(t) : u[i + 1] = t[i]
  BY <1>1, StringCons, ZenonT(60)
<1>5. ASSUME NEW i \in 1 .. Len(s) PROVE s[i] = u[i]
  <2>1. CASE i = 1
    BY <1>4, <2>1
  <2>2. CASE i # 1
    <3>1. i - 1 \in 1 .. Len(t) /\ (i - 1) + 1 = i
      BY <1>3, <2>2
    <3> QED
      BY <1>3, <1>4, <3>1
  <2> QED
    BY <2>1, <2>2
<1>6. s = u
  BY <1>3, <1>4, <1>5, SeqEqual DEF Strings
<1> QED
  BY <1>3, <1>4, <1>6

(* A number has no other canonical code: induction on the number, the      *)
(* lowest digits agree and the rest is a code for the quotient.            *)
LEMMA CodeIsEncoding ==
  ASSUME NEW s \in Strings, NEW n \in Nat, IsCode(s, n)
  PROVE  s = appendLEB128[n]
<1> DEFINE S == {k \in Nat : \A x \in Strings : \A m \in Nat :
                   IsCode(x, m) /\ Len(x) = k + 1 => x = appendLEB128[m]}
<1>1. 0 \in S
  <2> SUFFICES ASSUME NEW x \in Strings, NEW m \in Nat, IsCode(x, m), Len(x) = 0 + 1
               PROVE  x = appendLEB128[m]
    OBVIOUS
  <2>1. PICK b \in Octets : b = x[1] /\ b < Base /\ b \in Nat
    <3>1. x[1] \in Octets
      BY DEF Strings
    <3>2. Len(x) = 1 /\ x[1] < Base
      BY DEF IsCode, Terminated
    <3> QED
      BY <3>1, <3>2, BaseAssumption DEF Octets
  <2>2. x = <<b>>
    BY <2>1 DEF Strings
  <2>3. m = b
    BY <2>1, <2>2, SingleCode DEF IsCode
  <2> QED
    BY <2>1, <2>2, <2>3, LEBDef
<1>2. ASSUME NEW k \in S PROVE k + 1 \in S
  <2>0. k \in Nat /\ k + 1 \in Nat
    OBVIOUS
  <2>00. \A x \in Strings : \A m \in Nat : IsCode(x, m) /\ Len(x) = k + 1 => x = appendLEB128[m]
    OBVIOUS
  <2> SUFFICES ASSUME NEW x \in Strings, NEW m \in Nat, IsCode(x, m), Len(x) = (k + 1) + 1
               PROVE  x = appendLEB128[m]
    BY <2>0
  <2> HIDE DEF S
  <2>1. PICK b : b = x[1] /\ b \in Octets /\ b >= Base
    <3>1. 1 \in 1 .. Len(x) - 1 /\ 1 \in 1 .. Len(x)
      BY <2>0
    <3> QED
      BY <3>1 DEF Strings, IsCode, Terminated
  <2>2. PICK t \in Strings : /\ x = <<b>> \o t /\ Len(x) = Len(t) + 1 /\ Len(t) \in Nat
                             /\ \A i \in 1 .. Len(t) : x[i + 1] = t[i]
    <3>1. Len(x) >= 1
      BY <2>0
    <3> QED
      BY <2>1, <3>1, StringTail
  <2>3. Len(t) = k + 1
    BY <2>0, <2>2
  <2>4. Terminated(t)
    <3>1. ASSUME NEW i \in 1 .. Len(t) - 1 PROVE t[i] >= Base
      <4>1. i + 1 \in 1 .. Len(x) - 1 /\ i \in 1 .. Len(t)
        BY <2>2
      <4> QED
        BY <2>2, <4>1 DEF IsCode, Terminated
    <3>2. t[Len(t)] < Base
      <4>1. Len(t) \in 1 .. Len(t) /\ Len(t) + 1 = Len(x)
        BY <2>0, <2>2, <2>3
      <4> QED
        BY <2>2, <4>1 DEF IsCode, Terminated
    <3> QED
      BY <2>0, <2>3, <3>1, <3>2 DEF Terminated
  <2>5. PICK q \in Nat : q = LEBValue(t)
    BY LEBValueType
  <2>6. PICK r \in 0 .. Base - 1 : b = Base + r /\ b % Base = r
    <3>1. PICK r \in 0 .. Base - 1 : b = Base + r
      <4>1. b - Base \in 0 .. Base - 1 /\ b = Base + (b - Base)
        BY <2>1, BaseAssumption DEF Octets
      <4> QED
        BY <4>1
    <3> QED
      BY <3>1, DigitOf
  <2>7. m = Base * q + r
    <3>1. m = r + Base * q
      BY <2>1, <2>2, <2>5, <2>6, LEBValueCons DEF IsCode
    <3>2. Base * q \in Nat
      BY Product, BaseAssumption
    <3> QED
      BY <3>1, <3>2, BaseAssumption
  <2>8. PICK p \in Nat : p = Power[k] /\ Power[k + 1] = Base * p /\ p >= 1
    <3>1. PICK p \in Nat \ {0} : p = Power[k] /\ Power[k + 1] = Base * p
      BY <2>0, PowerDef
    <3>2. p \in Nat /\ p >= 1
      OBVIOUS
    <3> QED
      BY <3>1, <3>2
  <2>9. m >= Base * p
    <3>1. Len(x) # 1 /\ Len(x) - 1 = k + 1
      BY <2>0
    <3> QED
      BY <2>8, <3>1 DEF IsCode
  <2>10. q >= p
    <3> SUFFICES ASSUME q + 1 <= p PROVE FALSE
      OBVIOUS
    <3>1. Base * (q + 1) <= Base * p /\ Base * (q + 1) \in Nat
      BY Monotone, SMTT(60)
    <3>2. Base * (q + 1) = Base * q + Base
      BY BaseAssumption
    <3>3. Base * q \in Nat /\ Base * p \in Nat
      BY Product, BaseAssumption
    <3> QED
      BY <2>7, <2>9, <3>1, <3>2, <3>3, BaseAssumption
  <2>11. IsCode(t, q)
    <3>1. Len(t) - 1 = k
      BY <2>0, <2>3
    <3> QED
      BY <2>4, <2>5, <2>8, <2>10, <3>1 DEF IsCode
  <2>12. t = appendLEB128[q]
    BY <2>00, <2>3, <2>11
  <2>13. ~(m < Base)
    <3>1. Base * 1 <= Base * q /\ Base * q \in Nat
      BY <2>8, <2>10, Monotone, Product, BaseAssumption
    <3> QED
      BY <2>7, <3>1, BaseAssumption
  <2>14. m \div Base = q /\ m % Base = r
    BY <2>7, Digits
  <2> QED
    BY <2>2, <2>6, <2>12, <2>13, <2>14, LEBDef
<1>3. S \in SUBSET Nat
  OBVIOUS
<1> HIDE DEF S
<1>4. S = Nat
  BY <1>1, <1>2, <1>3, Induction, SMTT(60)
<1>5. PICK k \in Nat : Len(s) = k + 1
  <2>1. Len(s) \in Nat /\ Len(s) >= 1
    BY DEF IsCode, Terminated, Strings
  <2>2. Len(s) - 1 \in Nat /\ Len(s) = (Len(s) - 1) + 1
    BY <2>1
  <2> QED
    BY <2>2
<1>6. k \in S
  BY <1>4
<1> QED
  BY <1>5, <1>6 DEF S

(* A number below Power[k] takes at most k bytes.                          *)
LEMMA EncodingLength ==
  ASSUME NEW n \in Nat, NEW k \in Nat, k >= 1, n < Power[k]
  PROVE  Len(appendLEB128[n]) <= k
<1>1. PICK s \in Strings : s = appendLEB128[n] /\ IsCode(s, n) /\ Len(s) \in Nat
  BY EncodingIsCode, LEBDef DEF Strings
<1> SUFFICES ASSUME Len(s) > k PROVE FALSE
  BY <1>1
<1>5. PICK l \in Nat : l = Len(s)
  BY <1>1
<1>6. l - 1 \in Nat /\ k <= l - 1 /\ l # 1
  BY <1>5
<1>2. Len(s) - 1 \in Nat /\ k <= Len(s) - 1 /\ Len(s) # 1
  BY <1>5, <1>6
<1>3. Power[k] <= Power[Len(s) - 1] /\ Power[k] \in Nat /\ Power[Len(s) - 1] \in Nat
  BY <1>2, PowerMonotone, PowerDef
<1>4. n >= Power[Len(s) - 1]
  BY <1>1, <1>2 DEF IsCode
<1> QED
  BY <1>3, <1>4

---------------------------------------------------------------------------
(* Length and bytes of a slice within the bounds.                          *)
LEMMA Slice ==
  ASSUME NEW s \in Strings, NEW a \in Nat, NEW b \in Nat, a <= b, b <= Len(s)
  PROVE  /\ SubSeq(s, a + 1, b) \in Strings
         /\ Len(SubSeq(s, a + 1, b)) = b - a
         /\ \A i \in 1 .. b - a : SubSeq(s, a + 1, b)[i] = s[a + i]
<1>0. Len(s) \in Nat
  BY DEF Strings
<1>1. \A i \in a + 1 .. b : s[i] \in Octets
  BY <1>0 DEF Strings
<1>2. a + 1 \in Int /\ b \in Int /\ b - (a + 1) + 1 = b - a
  OBVIOUS
<1>3. /\ SubSeq(s, a + 1, b) \in Seq(Octets)
      /\ Len(SubSeq(s, a + 1, b)) = IF a + 1 <= b THEN b - (a + 1) + 1 ELSE 0
      /\ \A i \in 1 .. b - (a + 1) + 1 : SubSeq(s, a + 1, b)[i] = s[a + 1 + i - 1]
  BY <1>1, <1>2, SubSeqProperties
<1>4. \A i \in 1 .. b - a : a + 1 + i - 1 = a + i
  OBVIOUS
<1>5. b - a = IF a + 1 <= b THEN b - (a + 1) + 1 ELSE 0
  OBVIOUS
<1> QED
  BY <1>2, <1>3, <1>4, <1>5 DEF Strings

(* Min is the least element.                                               *)
LEMMA MinOf ==
  ASSUME NEW T \in SUBSET Nat, T # {}
  PROVE  Min(T) \in T /\ \A y \in T : Min(T) <= y
<1>1. \E x \in T : \A y \in T : x <= y
  BY Least
<1> QED
  BY <1>1 DEF Min

(* The positions, from off on, that end a run or the buffer.               *)
Ends(buf, off, maxBytes) ==
  {k \in 0 .. maxBytes - 1 : off + k >= Len(buf) \/ Byte(buf, off + k) < Base}

(* They are numbers.                                                       *)
LEMMA EndsType == ASSUME NEW buf, NEW off, NEW maxBytes \in Nat PROVE Ends(buf, off, maxBytes) \subseteq Nat
<1>1. 0 .. maxBytes - 1 \subseteq Nat
  OBVIOUS
<1> QED
  BY <1>1 DEF Ends

(* readLEB128 by the first position at which it stops.                     *)
LEMMA ReadCases ==
  ASSUME NEW buf \in Strings, NEW off \in Nat, NEW maxBytes \in Nat,
         NEW k \in Ends(buf, off, maxBytes), \A y \in Ends(buf, off, maxBytes) : k <= y
  PROVE  readLEB128(buf, off, maxBytes) =
           IF off + k >= Len(buf) \/ ~Canonical(LEBValue(SubSeq(buf, off + 1, off + k + 1)), k)
           THEN Failed
           ELSE [n |-> LEBValue(SubSeq(buf, off + 1, off + k + 1)),
                 next |-> off + k + 1, ok |-> TRUE]
<1>1. PICK T \in SUBSET Nat : T = Ends(buf, off, maxBytes) /\ T # {}
  BY EndsType
<1>2. Min(T) = k
  <2>1. Min(T) \in T /\ \A y \in T : Min(T) <= y
    BY <1>1, MinOf
  <2>2. k \in T /\ k <= Min(T) /\ Min(T) <= k
    BY <1>1, <2>1
  <2> QED
    BY <1>1, <2>1, <2>2
<1>3. T = {j \in 0 .. maxBytes - 1 : off + j >= Len(buf) \/ Byte(buf, off + j) < Base}
  BY <1>1 DEF Ends
<1> QED
  BY <1>1, <1>2, <1>3 DEF readLEB128

(* What readLEB128 (length_value.go) accepts is, byte for byte, the        *)
(* encoding of the number it returns, and it stays within the buffer: no   *)
(* number has a second, padded prefix.                                     *)
THEOREM ReadSound ==
  ASSUME NEW buf \in Strings, NEW off \in 0 .. Len(buf), NEW maxBytes \in Nat,
         readLEB128(buf, off, maxBytes).ok
  PROVE  LET r == readLEB128(buf, off, maxBytes)
         IN  /\ r.n \in Nat /\ r.next \in Nat /\ off < r.next /\ r.next <= Len(buf)
             /\ SubSeq(buf, off + 1, r.next) = appendLEB128[r.n]
<1>0. Len(buf) \in Nat /\ off \in Nat
  BY DEF Strings
<1>1. PICK T \in SUBSET Nat : T = Ends(buf, off, maxBytes)
  BY EndsType
<1>2. T # {}
  <2> SUFFICES ASSUME T = {} PROVE FALSE
    OBVIOUS
  <2>1. {k \in 0 .. maxBytes - 1 : off + k >= Len(buf) \/ Byte(buf, off + k) < Base} = {}
    BY <1>1 DEF Ends
  <2>2. readLEB128(buf, off, maxBytes) = Failed
    BY <2>1 DEF readLEB128
  <2> QED
    BY <2>2 DEF Failed
<1>3. PICK k \in T : \A y \in T : k <= y
  BY <1>2, Least
<1>4. k \in Nat /\ k <= maxBytes - 1
  BY <1>1 DEF Ends
<1>5. PICK s : s = SubSeq(buf, off + 1, off + k + 1)
  OBVIOUS
<1>6. readLEB128(buf, off, maxBytes) =
        IF off + k >= Len(buf) \/ ~Canonical(LEBValue(s), k)
        THEN Failed ELSE [n |-> LEBValue(s), next |-> off + k + 1, ok |-> TRUE]
  BY <1>0, <1>1, <1>3, <1>5, ReadCases
<1>7. ~(off + k >= Len(buf)) /\ Canonical(LEBValue(s), k)
  BY <1>6 DEF Failed
<1>8. readLEB128(buf, off, maxBytes) = [n |-> LEBValue(s), next |-> off + k + 1, ok |-> TRUE]
  BY <1>6, <1>7
<1>9. off + k < Len(buf) /\ off + k + 1 <= Len(buf) /\ off + k + 1 \in Nat /\ off < off + k + 1
  BY <1>0, <1>4, <1>7
<1>10. s \in Strings /\ Len(s) = k + 1 /\ \A i \in 1 .. k + 1 : s[i] = buf[off + i]
  <2>1. PICK e \in Nat : e = off + k + 1 /\ e - off = k + 1 /\ off <= e /\ e <= Len(buf)
    BY <1>0, <1>4, <1>9
  <2> QED
    BY <1>0, <1>5, <2>1, Slice
<1>11. Terminated(s)
  <2>1. ASSUME NEW i \in 1 .. k PROVE s[i] >= Base
    <3>1. i - 1 \in 0 .. maxBytes - 1 /\ i - 1 < k /\ ~(off + (i - 1) >= Len(buf))
      BY <1>0, <1>4, <1>9
    <3>2. i - 1 \notin T
      BY <1>3, <1>4, <3>1
    <3>3. ~(Byte(buf, off + (i - 1)) < Base)
      BY <1>1, <3>1, <3>2 DEF Ends
    <3>4. off + (i - 1) + 1 = off + i /\ i \in 1 .. Len(s) /\ i \in 1 .. k + 1
      BY <1>0, <1>4, <1>10
    <3>5. s[i] = buf[off + i] /\ s[i] \in Nat
      BY <1>10, <3>4, DigitType
    <3>6. ~(s[i] < Base)
      BY <3>3, <3>4, <3>5 DEF Byte
    <3> QED
      BY <3>5, <3>6, BaseAssumption
  <2>2. s[k + 1] < Base
    <3>1. Byte(buf, off + k) < Base
      BY <1>1, <1>7 DEF Ends
    <3>2. off + k + 1 = off + (k + 1) /\ k + 1 \in 1 .. k + 1
      BY <1>0, <1>4
    <3> QED
      BY <1>10, <3>1, <3>2 DEF Byte
  <2>3. Len(s) - 1 = k /\ Len(s) >= 1
    BY <1>4, <1>10
  <2> QED
    BY <1>10, <2>1, <2>2, <2>3 DEF Terminated
<1>12. PICK n \in Nat : n = LEBValue(s)
  BY <1>10, LEBValueType
<1>13. IsCode(s, n)
  <2>1. k = 0 => Len(s) = 1
    BY <1>10
  <2>2. Len(s) - 1 = k
    BY <1>4, <1>10
  <2> QED
    BY <1>7, <1>11, <1>12, <2>1, <2>2 DEF IsCode, Canonical
<1>14. s = appendLEB128[n]
  BY <1>10, <1>13, CodeIsEncoding
<1> QED
  BY <1>5, <1>8, <1>9, <1>12, <1>14, SMTT(60)

(* Every encoding that fits in maxBytes is read back, wherever in a buffer *)
(* it stands: readLEB128 returns the number and the position after it.     *)
THEOREM ReadComplete ==
  ASSUME NEW buf \in Strings, NEW off \in Nat, NEW maxBytes \in Nat, NEW n \in Nat,
         off + Len(appendLEB128[n]) <= Len(buf), Len(appendLEB128[n]) <= maxBytes,
         \A i \in 1 .. Len(appendLEB128[n]) : buf[off + i] = appendLEB128[n][i]
  PROVE  readLEB128(buf, off, maxBytes) =
           [n |-> n, next |-> off + Len(appendLEB128[n]), ok |-> TRUE]
<1>0. Len(buf) \in Nat
  BY DEF Strings
<1>1. PICK e \in Strings : e = appendLEB128[n] /\ IsCode(e, n) /\ Len(e) \in Nat
  BY EncodingIsCode, LEBDef DEF Strings
<1>2. PICK k \in Nat : Len(e) = k + 1 /\ k = Len(e) - 1
  <2>1. Len(e) >= 1
    BY <1>1 DEF IsCode, Terminated
  <2>2. Len(e) - 1 \in Nat /\ Len(e) = (Len(e) - 1) + 1
    BY <1>1, <2>1
  <2> QED
    BY <2>2, ZenonT(60)
<1>3. /\ off + k + 1 <= Len(buf) /\ k + 1 <= maxBytes
      /\ \A i \in 1 .. k + 1 : buf[off + i] = e[i]
  BY <1>0, <1>1, <1>2
<1>4. k \in Ends(buf, off, maxBytes)
  <2>1. e[k + 1] < Base
    BY <1>1, <1>2 DEF IsCode, Terminated
  <2>2. k + 1 \in 1 .. k + 1 /\ off + (k + 1) = off + k + 1 /\ k \in 0 .. maxBytes - 1
    BY <1>2, <1>3, SMTT(60)
  <2> QED
    BY <1>3, <2>1, <2>2 DEF Ends, Byte
<1>5. ASSUME NEW y \in Ends(buf, off, maxBytes) PROVE k <= y
  <2> SUFFICES ASSUME y < k PROVE FALSE
    BY DEF Ends
  <2>1. y \in Nat /\ y + 1 \in 1 .. k /\ y + 1 \in 1 .. k + 1 /\ off + (y + 1) = off + y + 1 /\ ~(off + y >= Len(buf))
    BY <1>0, <1>3 DEF Ends
  <2>2. e[y + 1] >= Base /\ e[y + 1] \in Nat
    <3>1. y + 1 \in 1 .. Len(e) - 1 /\ y + 1 \in 1 .. Len(e)
      BY <1>2, <2>1
    <3> QED
      BY <1>1, <3>1, DigitType DEF IsCode, Terminated
  <2>3. buf[off + y + 1] < Base
    BY <2>1 DEF Ends, Byte
  <2>4. PICK z \in 1 .. k + 1 : z = y + 1 /\ off + z = off + y + 1
    BY <2>1
  <2>5. buf[off + z] = e[z]
    BY <1>3
  <2>6. e[y + 1] < Base
    BY <2>3, <2>4, <2>5
  <2> QED
    BY <2>2, <2>6, BaseAssumption
<1>6. SubSeq(buf, off + 1, off + k + 1) = e
  <2>1. PICK b \in Nat : b = off + k + 1 /\ b - off = k + 1 /\ off <= b /\ b <= Len(buf)
    BY <1>0, <1>3
  <2>2. PICK s \in Strings : s = SubSeq(buf, off + 1, b) /\ Len(s) = k + 1 /\ \A i \in 1 .. k + 1 : s[i] = buf[off + i]
    <3>1. PICK s : s = SubSeq(buf, off + 1, b)
      OBVIOUS
    <3>2. s \in Strings /\ Len(s) = b - off /\ \A i \in 1 .. b - off : s[i] = buf[off + i]
      BY <2>1, <3>1, Slice
    <3> QED
      BY <2>1, <3>1, <3>2, ZenonT(60)
  <2>3. s = e
    <3>1. Len(s) = Len(e) /\ \A i \in 1 .. Len(s) : s[i] = e[i]
      BY <1>2, <1>3, <2>2
    <3> QED
      BY <3>1, SeqEqual DEF Strings
  <2> QED
    BY <2>1, <2>2, <2>3
<1>7. Canonical(n, k)
  BY <1>1, <1>2 DEF IsCode, Canonical
<1>8. ~(off + k >= Len(buf)) /\ off + k + 1 = off + Len(e)
  BY <1>0, <1>1, <1>2, <1>3
<1>9. LEBValue(e) = n
  BY <1>1 DEF IsCode
<1>10. readLEB128(buf, off, maxBytes) =
         IF off + k >= Len(buf) \/ ~Canonical(LEBValue(e), k)
         THEN Failed ELSE [n |-> LEBValue(e), next |-> off + k + 1, ok |-> TRUE]
  <2>1. readLEB128(buf, off, maxBytes) =
           IF off + k >= Len(buf) \/ ~Canonical(LEBValue(SubSeq(buf, off + 1, off + k + 1)), k)
           THEN Failed
           ELSE [n |-> LEBValue(SubSeq(buf, off + 1, off + k + 1)),
                 next |-> off + k + 1, ok |-> TRUE]
    BY <1>4, <1>5, ReadCases, SMTT(60)
  <2> QED
    BY <1>6, <2>1, Zenon
<1> QED
  BY <1>1, <1>7, <1>8, <1>9, <1>10

---------------------------------------------------------------------------
(* A string is the slice of all of it.                                     *)
LEMMA WholeSlice == \A s \in Strings : SubSeq(s, 1, Len(s)) = s /\ Len(s) \in Nat
  BY SubSeqFull DEF Strings

(* One more element of a sequence of strings.                              *)
LEMMA PrefixStep ==
  ASSUME NEW v \in Seq(Strings), NEW i \in Nat, i < Len(v)
  PROVE  /\ SubSeq(v, 1, i + 1) = Append(SubSeq(v, 1, i), v[i + 1])
         /\ SubSeq(v, 1, i) \in Seq(Strings) /\ v[i + 1] \in Strings
<1>1. i + 1 \in 1 .. Len(v) /\ 1 \in 1 .. Len(v) /\ (i + 1) - 1 = i /\ i \in 0 .. Len(v) /\ i + 1 \in 0 .. Len(v)
  OBVIOUS
<1>2. v[i + 1] \in Strings
  BY <1>1, ElementOfSeq
<1>3. PICK a \in Seq(Strings) : a = SubSeq(v, 1, i) /\ Len(a) = i /\ \A j \in 1 .. i : a[j] = v[j]
  BY <1>1, PrefixFacts, ZenonT(60)
<1>4. PICK b \in Seq(Strings) : b = SubSeq(v, 1, i + 1) /\ Len(b) = i + 1 /\ \A j \in 1 .. i + 1 : b[j] = v[j]
  BY <1>1, PrefixFacts, ZenonT(60)
<1>5. PICK c \in Seq(Strings) : /\ c = Append(a, v[i + 1]) /\ Len(c) = i + 1
                                /\ \A j \in 1 .. i : c[j] = a[j]
                                /\ c[i + 1] = v[i + 1]
  <2>1. PICK x \in Strings : x = v[i + 1]
    BY <1>2
  <2>2. PICK c : c = Append(a, x)
    OBVIOUS
  <2>3. /\ c \in Seq(Strings) /\ Len(c) = Len(a) + 1
        /\ \A j \in 1 .. Len(a) : c[j] = a[j]
        /\ c[Len(a) + 1] = x
    BY <2>2, AppendProperties
  <2> QED
    BY <1>3, <2>1, <2>2, <2>3
<1>6. b = c
  <2>1. Len(b) = Len(c) /\ \A j \in 1 .. Len(b) : b[j] = c[j]
    BY <1>3, <1>4, <1>5
  <2> QED
    BY <2>1, SeqEqual
<1> QED
  BY <1>2, <1>3, <1>4, <1>5, <1>6

(* Two slices that meet make one.                                          *)
LEMMA SliceJoin ==
  ASSUME NEW s \in Strings, NEW a \in Nat, NEW c \in Nat, NEW d \in Nat,
         a <= c, c <= d, d <= Len(s)
  PROVE  SubSeq(s, a + 1, c) \o SubSeq(s, c + 1, d) = SubSeq(s, a + 1, d)
<1>0. Len(s) \in Nat
  BY DEF Strings
<1>1. PICK u : u = SubSeq(s, a + 1, c)
  OBVIOUS
<1>2. PICK v : v = SubSeq(s, c + 1, d)
  OBVIOUS
<1>3. PICK w : w = SubSeq(s, a + 1, d)
  OBVIOUS
<1>4. PICK lu \in Nat, lv \in Nat, lw \in Nat : lu = c - a /\ lv = d - c /\ lw = d - a /\ lw = lu + lv /\ a + lu = c
  OBVIOUS
<1>5. u \in Strings /\ Len(u) = lu /\ \A i \in 1 .. lu : u[i] = s[a + i]
  <2>1. c <= Len(s)
    BY <1>0
  <2>2. u \in Strings /\ Len(u) = c - a /\ \A i \in 1 .. c - a : u[i] = s[a + i]
    BY <1>1, <2>1, Slice, SMTT(60)
  <2> QED
    BY <1>4, <2>2
<1>6. v \in Strings /\ Len(v) = lv /\ \A i \in 1 .. lv : v[i] = s[c + i]
  <2>2. v \in Strings /\ Len(v) = d - c /\ \A i \in 1 .. d - c : v[i] = s[c + i]
    BY <1>2, Slice
  <2> QED
    BY <1>4, <2>2
<1>7. w \in Strings /\ Len(w) = lw /\ \A i \in 1 .. lw : w[i] = s[a + i]
  <2>1. a <= d
    OBVIOUS
  <2>2. w \in Strings /\ Len(w) = d - a /\ \A i \in 1 .. d - a : w[i] = s[a + i]
    BY <1>3, <2>1, Slice
  <2> QED
    BY <1>4, <2>2
<1>8. PICK x : x = u \o v
  OBVIOUS
<1>9. /\ x \in Strings /\ Len(x) = lu + lv
      /\ \A i \in 1 .. lu : x[i] = u[i]
      /\ \A i \in 1 .. lv : x[lu + i] = v[i]
  <2>1. u \in Strings /\ v \in Strings
    BY <1>5, <1>6
  <2>2. /\ x \in Strings /\ Len(x) = Len(u) + Len(v)
        /\ \A i \in 1 .. Len(u) : x[i] = u[i]
        /\ \A i \in 1 .. Len(v) : x[Len(u) + i] = v[i]
    BY <1>8, <2>1, StringConcat
  <2> QED
    BY <1>5, <1>6, <2>2
<1>10. ASSUME NEW i \in 1 .. lw PROVE x[i] = w[i]
  <2>1. CASE i <= lu
    BY <1>4, <1>5, <1>7, <1>9, <2>1
  <2>2. CASE i > lu
    <3>1. PICK j \in 1 .. lv : i = lu + j /\ c + j = a + i
      <4>1. i - lu \in 1 .. lv /\ i = lu + (i - lu) /\ c + (i - lu) = a + i
        BY <1>4, <2>2
      <4> QED
        BY <4>1
    <3> QED
      BY <1>6, <1>7, <1>9, <3>1, ZenonT(60)
  <2> QED
    BY <1>4, <2>1, <2>2
<1>11. x = w
  <2>1. Len(x) = Len(w) /\ \A i \in 1 .. Len(x) : x[i] = w[i]
    BY <1>4, <1>7, <1>9, <1>10
  <2> QED
    BY <1>7, <1>9, <2>1, SeqEqual DEF Strings
<1> QED
  BY <1>1, <1>2, <1>3, <1>8, <1>11

(* The beginning of a string up to q, in three parts.                      *)
LEMMA ThreeSlices ==
  ASSUME NEW b \in Strings, NEW o \in Nat, NEW p \in Nat, NEW q \in Nat,
         o <= p, p <= q, q <= Len(b)
  PROVE  /\ SubSeq(b, 1, o) \in Strings /\ SubSeq(b, o + 1, p) \in Strings
         /\ SubSeq(b, 1, q) = SubSeq(b, 1, o) \o (SubSeq(b, o + 1, p) \o SubSeq(b, p + 1, q))
<1>0. Len(b) \in Nat
  BY DEF Strings
<1>1. PICK z \in Nat : z = 0 /\ z <= o /\ z <= p
  OBVIOUS
<1>2. o <= Len(b) /\ p <= Len(b)
  BY <1>0
<1>3. /\ SubSeq(b, z + 1, o) \in Strings /\ SubSeq(b, o + 1, p) \in Strings
      /\ SubSeq(b, p + 1, q) \in Strings
  BY <1>1, <1>2, Slice
<1>4. PICK u \in Strings, e \in Strings, x \in Strings :
        u = SubSeq(b, z + 1, o) /\ e = SubSeq(b, o + 1, p) /\ x = SubSeq(b, p + 1, q)
  BY <1>3
<1>5. SubSeq(b, z + 1, o) \o SubSeq(b, o + 1, p) = SubSeq(b, z + 1, p)
  BY <1>1, <1>2, SliceJoin
<1>6. SubSeq(b, z + 1, p) \o SubSeq(b, p + 1, q) = SubSeq(b, z + 1, q)
  BY <1>1, <1>2, SliceJoin
<1>7. (u \o e) \o x = u \o (e \o x)
  BY StringAssoc, ZenonT(60)
<1>8. SubSeq(b, z + 1, q) = u \o (e \o x)
  BY <1>4, <1>5, <1>6, <1>7, Zenon
<1>9. z + 1 = 1
  BY <1>1
<1> QED
  BY <1>3, <1>4, <1>8, <1>9, Zenon

(* A field with prefix e between what precedes and what follows it.        *)
Frame(u, e, f, rest) == (u \o (e \o f)) \o rest

(* Where its bytes are.                                                    *)
LaidOut(b, u, e, f, rest) ==
  /\ b \in Strings
  /\ Len(b) = Len(u) + Len(e) + Len(f) + Len(rest)
  /\ \A j \in 1 .. Len(e) : b[Len(u) + j] = e[j]
  /\ \A j \in 1 .. Len(f) : b[(Len(u) + Len(e)) + j] = f[j]

(* Positions in a concatenation of four strings.                           *)
LEMMA Layout ==
  ASSUME NEW u \in Strings, NEW e \in Strings, NEW f \in Strings, NEW rest \in Strings,
         NEW b, b = Frame(u, e, f, rest)
  PROVE  LaidOut(b, u, e, f, rest)
<1>0. PICK lu \in Nat, le \in Nat, lf \in Nat, lr \in Nat :
        lu = Len(u) /\ le = Len(e) /\ lf = Len(f) /\ lr = Len(rest)
  BY DEF Strings
<1>1. PICK x : x = e \o f
  OBVIOUS
<1>2. /\ x \in Strings /\ Len(x) = le + lf
      /\ \A j \in 1 .. le : x[j] = e[j]
      /\ \A j \in 1 .. lf : x[le + j] = f[j]
  BY <1>0, <1>1, StringConcat
<1>3. PICK y : y = u \o x
  OBVIOUS
<1>10. PICK lx \in Nat : lx = le + lf /\ lx = Len(x)
  BY <1>2
<1>4. /\ y \in Strings /\ Len(y) = lu + lx
      /\ \A j \in 1 .. lx : y[lu + j] = x[j]
  <2>1. x \in Strings
    BY <1>2
  <2>2. /\ y \in Strings /\ Len(y) = Len(u) + Len(x)
        /\ \A j \in 1 .. Len(x) : y[Len(u) + j] = x[j]
    BY <1>3, <2>1, StringConcat
  <2> QED
    BY <1>0, <1>10, <2>2
<1>11. PICK ly \in Nat : ly = lu + lx /\ ly = Len(y)
  BY <1>4
<1>5. b = y \o rest
  BY <1>1, <1>3 DEF Frame
<1>6. /\ b \in Strings /\ Len(b) = ly + lr
      /\ \A j \in 1 .. ly : b[j] = y[j]
  <2>1. y \in Strings
    BY <1>4
  <2>2. /\ b \in Strings /\ Len(b) = Len(y) + Len(rest)
        /\ \A j \in 1 .. Len(y) : b[j] = y[j]
    BY <1>5, <2>1, StringConcat
  <2> QED
    BY <1>0, <1>11, <2>2
<1>7. ASSUME NEW j \in 1 .. le PROVE b[lu + j] = e[j]
  <2>1. lu + j \in 1 .. ly /\ j \in 1 .. lx
    BY <1>10, <1>11
  <2> QED
    BY <1>2, <1>4, <1>6, <2>1
<1>8. ASSUME NEW j \in 1 .. lf PROVE b[(lu + le) + j] = f[j]
  <2>1. lu + (le + j) \in 1 .. ly /\ le + j \in 1 .. lx /\ (lu + le) + j = lu + (le + j)
    BY <1>10, <1>11
  <2> QED
    BY <1>2, <1>4, <1>6, <2>1
<1>9. ly + lr = lu + le + lf + lr
  BY <1>10, <1>11
<1> QED
  BY <1>0, <1>1, <1>3, <1>5, <1>6, <1>7, <1>8, <1>9 DEF LaidOut

(* A string whose bytes stand at p is the slice at p.                      *)
LEMMA LayoutSlice ==
  ASSUME NEW b \in Strings, NEW f \in Strings, NEW p \in Nat, p + Len(f) <= Len(b),
         \A j \in 1 .. Len(f) : b[p + j] = f[j]
  PROVE  SubSeq(b, p + 1, p + Len(f)) = f
<1>1. PICK lf \in Nat : lf = Len(f)
  BY DEF Strings
<1>2. PICK q \in Nat : q = p + lf /\ p <= q /\ q <= Len(b) /\ q - p = lf
  BY <1>1
<1>3. PICK s : s = SubSeq(b, p + 1, q)
  OBVIOUS
<1>4. s \in Strings /\ Len(s) = q - p /\ \A j \in 1 .. q - p : s[j] = b[p + j]
  BY <1>2, <1>3, Slice
<1>5. s \in Strings /\ Len(s) = lf /\ \A j \in 1 .. lf : s[j] = b[p + j]
  BY <1>2, <1>4
<1>6. Len(s) = Len(f) /\ \A j \in 1 .. Len(s) : s[j] = f[j]
  BY <1>1, <1>5
<1>7. s = f
  BY <1>5, <1>6, SeqEqual DEF Strings
<1> QED
  BY <1>1, <1>2, <1>3, <1>7

(* At o a length prefix is read that ends at p, and the slice after it is  *)
(* f.                                                                      *)
ReadsField(b, o, f, p, maxBytes) ==
  /\ readLEB128(b, o, maxBytes) = [n |-> Len(f), next |-> p, ok |-> TRUE]
  /\ p + Len(f) <= Len(b)
  /\ SubSeq(b, p + 1, p + Len(f)) = f

(* A field is read back from between whatever surrounds it.                *)
LEMMA ReadLayout ==
  ASSUME NEW u \in Strings, NEW f \in Strings, NEW rest \in Strings, NEW maxBytes \in Nat,
         Len(appendLEB128[Len(f)]) <= maxBytes
  PROVE  \E p \in Nat :
           /\ ReadsField(Frame(u, appendLEB128[Len(f)], f, rest), Len(u), f, p, maxBytes)
           /\ p = Len(u) + Len(appendLEB128[Len(f)])
<1>1. PICK e \in Strings : e = appendLEB128[Len(f)]
  BY AppendType
<1>2. PICK b : b = Frame(u, e, f, rest)
  OBVIOUS
<1>3. /\ b \in Strings
      /\ Len(b) = Len(u) + Len(e) + Len(f) + Len(rest)
      /\ \A j \in 1 .. Len(e) : b[Len(u) + j] = e[j]
      /\ \A j \in 1 .. Len(f) : b[(Len(u) + Len(e)) + j] = f[j]
  <2>1. LaidOut(b, u, e, f, rest)
    BY <1>2, Layout
  <2> QED
    BY <2>1 DEF LaidOut
<1>4. Len(u) \in Nat /\ Len(e) \in Nat /\ Len(f) \in Nat /\ Len(rest) \in Nat
  BY DEF Strings
<1>5. PICK p \in Nat : p = Len(u) + Len(e)
  BY <1>4
<1>6. p <= Len(b) /\ p + Len(f) <= Len(b)
  BY <1>3, <1>4, <1>5
<1>7. SubSeq(b, p + 1, p + Len(f)) = f
  <2>1. b \in Strings /\ \A j \in 1 .. Len(f) : b[p + j] = f[j]
    BY <1>3, <1>5
  <2> QED
    BY <1>6, <2>1, LayoutSlice
<1>8. readLEB128(b, Len(u), maxBytes) = [n |-> Len(f), next |-> p, ok |-> TRUE]
  <2>1. PICK lf \in Nat, o \in Nat : lf = Len(f) /\ o = Len(u)
    BY <1>4
  <2>2. b \in Strings
    BY <1>3
  <2>3. o + Len(appendLEB128[lf]) <= Len(b) /\ Len(appendLEB128[lf]) <= maxBytes
    BY <1>1, <1>5, <1>6, <2>1
  <2>4. \A j \in 1 .. Len(appendLEB128[lf]) : b[o + j] = appendLEB128[lf][j]
    BY <1>1, <1>3, <2>1
  <2>5. readLEB128(b, o, maxBytes) = [n |-> lf, next |-> o + Len(appendLEB128[lf]), ok |-> TRUE]
    BY <2>2, <2>3, <2>4, ReadComplete, SMTT(60)
  <2> QED
    BY <1>1, <1>5, <2>1, <2>5
<1>9. ReadsField(b, Len(u), f, p, maxBytes)
  BY <1>6, <1>7, <1>8 DEF ReadsField
<1> QED
  BY <1>1, <1>2, <1>5, <1>9

(* After the first i arguments of appendAll, the next one is read back,    *)
(* and ends where the first i + 1 end.                                     *)
LEMMA NthField ==
  ASSUME NEW dst \in Strings, NEW args \in Seq(Strings), NEW i \in Nat, i < Len(args),
         NEW maxBytes \in Nat, Len(appendLEB128[Len(args[i + 1])]) <= maxBytes
  PROVE  \E p \in Nat :
           /\ ReadsField(appendAll(dst, args), Len(appendAll(dst, SubSeq(args, 1, i))),
                         args[i + 1], p, maxBytes)
           /\ p + Len(args[i + 1]) = Len(appendAll(dst, SubSeq(args, 1, i + 1)))
<1>1. PICK f \in Strings : f = args[i + 1]
  BY PrefixStep
<1>2. PICK a \in Seq(Strings) : a = SubSeq(args, 1, i) /\ SubSeq(args, 1, i + 1) = Append(a, f)
  BY <1>1, PrefixStep
<1>3. PICK u \in Strings : u = appendAll(dst, a)
  BY AppendAllType, Zenon
<1>4. PICK e \in Strings : e = appendLEB128[Len(f)] /\ Len(e) <= maxBytes
  <2>1. appendLEB128[Len(f)] \in Strings
    BY AppendType
  <2> QED
    BY <1>1, <2>1
<1>5. appendAll(dst, SubSeq(args, 1, i + 1)) = u \o (e \o f)
  <2>1. appendAll(dst, Append(a, f)) = appendLengthValue(appendAll(dst, a), f)
    BY AppendAllAppend, Zenon
  <2>2. appendLengthValue(u, f) = u \o (appendLEB128[Len(f)] \o f)
    BY AppendType
  <2> QED
    BY <1>2, <1>3, <1>4, <2>1, <2>2, Zenon
<1>6. PICK rest \in Strings : appendAll(dst, args) = Frame(u, e, f, rest)
  <2>1. i + 1 \in 0 .. Len(args)
    OBVIOUS
  <2>2. \E rest \in Strings : appendAll(dst, args) = appendAll(dst, SubSeq(args, 1, i + 1)) \o rest
    BY <2>1, AppendAllPrefix, Zenon
  <2> QED
    BY <1>5, <2>2, Zenon DEF Frame
<1>7. PICK p \in Nat : /\ ReadsField(Frame(u, e, f, rest), Len(u), f, p, maxBytes)
                       /\ p = Len(u) + Len(e)
  <2>1. \E p \in Nat :
          /\ ReadsField(Frame(u, appendLEB128[Len(f)], f, rest), Len(u), f, p, maxBytes)
          /\ p = Len(u) + Len(appendLEB128[Len(f)])
    BY <1>4, ReadLayout
  <2> QED
    BY <1>4, <2>1
<1>8. p + Len(f) = Len(u \o (e \o f))
  <2>1. PICK x : x = e \o f
    OBVIOUS
  <2>2. x \in Strings /\ Len(x) = Len(e) + Len(f) /\ Len(e) \in Nat /\ Len(f) \in Nat
    BY <2>1, StringConcat
  <2>3. Len(u \o x) = Len(u) + Len(x) /\ Len(u) \in Nat
    BY <2>2, StringConcat
  <2> QED
    BY <1>7, <2>1, <2>2, <2>3
<1> QED
  BY <1>1, <1>2, <1>3, <1>5, <1>6, <1>7, <1>8, Zenon
=============================================================================

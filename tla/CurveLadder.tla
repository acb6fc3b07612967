---------------------------- MODULE CurveLadder ----------------------------
(***************************************************************************)
(* x25519ScalarMult and elligator2Curve25519 (crypto.go) over a small      *)
(* field: a call takes an encoded point, either a peer's share or the      *)
(* generator mapped from a hash, and a scalar, clamps the scalar and runs  *)
(* the Montgomery ladder, one step per iteration.                          *)
(*                                                                         *)
(* The curve is y^2 = x^3 + A x^2 + x over the integers mod p, with p just *)
(* below 2^FieldBits, so that encodings have a top bit to ignore and       *)
(* non-canonical values to reduce.  p, A and the scalar length keep what   *)
(* the real ones satisfy: 2 and A^2 - 4 are not squares, the curve has     *)
(* 8 r points and its twist 4 r', with primes r and r' above every         *)
(* clamped scalar divided by 8.                                            *)
(*                                                                         *)
(* Beside the ladder, base and multiple follow the affine group law, which *)
(* is the reference.                                                       *)
(***************************************************************************)
EXTENDS Integers, FiniteSets

CONSTANTS p, A, FieldBits, ScalarBits

F == 0 .. p - 1

Prime(n) == n > 1 /\ \A a \in 2 .. n - 1 : a * a <= n => n % a # 0

ASSUME FieldAssumption ==
  /\ Prime(p) /\ p < 2 ^ FieldBits
  /\ \A a \in F : (a * a) % p # 2 /\ (a * a) % p # (A * A - 4) % p
  /\ (A + 2) % 4 = 0

CurveOrder ==
  1 + Cardinality({<<x, y>> \in F \X F : (y * y) % p = (x * x * x + A * x * x + x) % p})

TwistOrder == 2 * (p + 1) - CurveOrder

ASSUME OrderAssumption ==
  /\ CurveOrder % 8 = 0 /\ Prime(CurveOrder \div 8) /\ CurveOrder > 2 ^ ScalarBits
  /\ TwistOrder % 4 = 0 /\ Prime(TwistOrder \div 4) /\ TwistOrder > 2 ^ ScalarBits

VARIABLES pc,     \* "map", "clamp", "loop" or "done"
          point,  \* the encoded hash, then the encoded point
          e,      \* the clamped copy of the scalar
          pos,    \* the next bit of e
          lad,    \* x2, z2, x3, z3 and swap
          out,    \* the encoded result
          base, multiple  \* the point on curve or twist, and its multiple so far

vars == <<pc, point, e, pos, lad, out, base, multiple>>

---------------------------------------------------------------------------
(* The field: SetBytes ignores the top bit and reduces; the inverse of 0   *)
(* is 0.                                                                   *)
SetBytes(b) == (b % 2 ^ FieldBits) % p

Invert == [a \in F |-> IF a = 0 THEN 0 ELSE CHOOSE b \in F : (a * b) % p = 1]

Squares == {(a * a) % p : a \in F}

(* v^3 + A v^2 + v, which is y^2 on the curve.                             *)
rhs(v) == (v * v * v + A * v * v + v) % p

elligator2Mutant(encodedR) ==
  LET r == SetBytes(encodedR)
      v == (-A * Invert[(1 + 2 * r * r) % p]) % p
  IN  IF rhs(v) = 0 THEN (-(A \div 2)) % p
      ELSE IF rhs(v) \in Squares THEN v ELSE (-v) % p

elligator2(encodedR) ==
  LET r == SetBytes(encodedR)
      v == (-A * Invert[(1 + 2 * r * r) % p]) % p
  IN  IF rhs(v) = 0 THEN (-(A \div 2)) % p
      ELSE IF rhs(v) \in Squares THEN v ELSE (-v - A) % p

(* Three low bits cleared, the bit above the scalar cleared, its top bit   *)
(* set.                                                                    *)
ClampMutant(s) == 2 ^ (ScalarBits - 1) + (s % 2 ^ (ScalarBits - 1)) - (s % 4)
Clamp(s) == 2 ^ (ScalarBits - 1) + (s % 2 ^ (ScalarBits - 1)) - (s % 8)

Bit(s, i) == (s \div 2 ^ i) % 2

LadderStart(x1) == [x2 |-> 1, z2 |-> 0, x3 |-> x1, z3 |-> 1, swap |-> 0]

Swap(l, b) == IF (l.swap + b) % 2 = 1
              THEN [l EXCEPT !.x2 = l.x3, !.z2 = l.z3, !.x3 = l.x2, !.z3 = l.z2]
              ELSE l

a24Mutant == (A - 2) \div 4
a24 == (A + 2) \div 4

(* One iteration: the pair (k P, (k+1) P) becomes (2k+b) P, (2k+b+1) P.    *)
LadderStep(x1, l0, b) ==
  LET l   == Swap(l0, b)
      da  == ((l.x3 - l.z3) * (l.x2 + l.z2)) % p
      cb  == ((l.x3 + l.z3) * (l.x2 - l.z2)) % p
      aa  == ((l.x2 + l.z2) * (l.x2 + l.z2)) % p
      bb  == ((l.x2 - l.z2) * (l.x2 - l.z2)) % p
      dif == aa - bb
  IN  [x2   |-> (aa * bb) % p,
       z2   |-> (dif * ((bb + a24 * dif) % p)) % p,
       x3   |-> ((da + cb) * (da + cb)) % p,
       z3   |-> (x1 * (((da - cb) * (da - cb)) % p)) % p,
       swap |-> b]

LadderEnd(l0) == LET l == Swap(l0, 0) IN (l.x2 * Invert[l.z2]) % p

---------------------------------------------------------------------------
(* The reference: points <<x, y>> of d y^2 = x^3 + A x^2 + x, with d = 1   *)
(* for the curve and d = 2 for its twist.  Every x is on one of them.      *)
Infinity == <<>>

Lift(x) ==
  LET d == IF rhs(x) \in Squares THEN 1 ELSE 2
  IN  [d |-> d, at |-> <<x, CHOOSE y \in F : (d * y * y) % p = rhs(x)>>]

Plus(d, P, Q) ==
  LET slope  == IF P = Q
                THEN ((3 * P[1] * P[1] + 2 * A * P[1] + 1) * Invert[(2 * d * P[2]) % p]) % p
                ELSE ((Q[2] - P[2]) * Invert[(Q[1] - P[1]) % p]) % p
      x      == (d * slope * slope - A - P[1] - Q[1]) % p
  IN  IF P = Infinity THEN Q
      ELSE IF Q = Infinity THEN P
      ELSE IF P[1] = Q[1] /\ (P[2] + Q[2]) % p = 0 THEN Infinity
      ELSE <<x, (slope * (P[1] - x) - P[2]) % p>>

Double(d, P) == Plus(d, P, P)

LowOrder(b) == Double(b.d, Double(b.d, Double(b.d, b.at))) = Infinity

---------------------------------------------------------------------------
Encodings == 0 .. 2 ^ (FieldBits + 1) - 1
Scalars   == 0 .. 2 ^ (ScalarBits + 1) - 1

NoBase == [d |-> 0, at |-> Infinity]

Init ==
  /\ pc \in {"map", "clamp"}
  /\ point \in Encodings
  /\ e = 0
  /\ pos = ScalarBits - 1
  /\ lad = LadderStart(0)
  /\ out = 0
  /\ base = NoBase
  /\ multiple = Infinity

calculateGenerator ==
  /\ pc = "map"
  /\ point' = elligator2(point)
  /\ pc' = "clamp"
  /\ UNCHANGED <<e, pos, lad, out, base, multiple>>

Load(scalar) ==
  /\ pc = "clamp"
  /\ e' = Clamp(scalar)
  /\ lad' = LadderStart(SetBytes(point))
  /\ base' = Lift(SetBytes(point))
  /\ pc' = "loop"
  /\ UNCHANGED <<point, pos, out, multiple>>

Iterate ==
  /\ pc = "loop"
  /\ pos >= 0
  /\ lad' = LadderStep(SetBytes(point), lad, Bit(e, pos))
  /\ LET twice == Double(base.d, multiple)
     IN  multiple' = IF Bit(e, pos) = 1 THEN Plus(base.d, twice, base.at) ELSE twice
  /\ pos' = pos - 1
  /\ UNCHANGED <<pc, point, e, out, base>>

(* The result is the quotient; the copy of the scalar is cleared.          *)
Deliver ==
  /\ pc = "loop"
  /\ pos < 0
  /\ out' = LadderEnd(lad)
  /\ e' = 0
  /\ pc' = "done"
  /\ UNCHANGED <<point, pos, lad, base, multiple>>

Next ==
  \/ calculateGenerator
  \/ \E scalar \in Scalars : Load(scalar)
  \/ Iterate
  \/ Deliver

Spec == Init /\ [][Next]_vars

---------------------------------------------------------------------------
(* (X : Z) stands for the x-coordinate of P.                               *)
Stands(X, Z, P) == IF P = Infinity THEN X # 0 /\ Z = 0
                   ELSE Z # 0 /\ (P[1] * Z) % p = X

(* At the head of every iteration of the loop the ladder holds the current *)
(* multiple and its successor, the other way round if a swap is pending,   *)
(* and the result is the x-coordinate of the multiple by the clamped       *)
(* scalar, 0 for the point at infinity.  At x = 0 the differential         *)
(* addition degenerates; only the result is claimed there.                 *)
LadderTracksMultiples ==
  /\ pc = "loop" /\ base.at[1] # 0 =>
       LET l     == Swap(lad, 0)
           after == Plus(base.d, multiple, base.at)
       IN  Stands(l.x2, l.z2, multiple) /\ Stands(l.x3, l.z3, after)
  /\ pc = "done" => out = IF multiple = Infinity THEN 0 ELSE multiple[1]

(* The all-zero result, which scalarMultVFY refuses, depends on the share  *)
(* alone: it comes up exactly for the encodings of points of order up to   *)
(* 8, whatever the scalar.  So the fixed validation scalar gives the       *)
(* verdict of the sampled one.                                             *)
VerdictByShare == pc = "done" => (out = 0 <=> LowOrder(Lift(SetBytes(point))))

(* The map from hashes to generators leads to points of the curve, never   *)
(* of its twist, and hashes r and s share a generator only when s = r or   *)
(* 2 r s = 1 up to sign: without y the map loses two bits, not more.       *)
GeneratorOnCurve ==
  pc = "map" =>
    LET x == elligator2(point)
        r == SetBytes(point)
    IN  /\ rhs(x) \in Squares
        /\ \A b \in Encodings :
             elligator2(b) = x =>
               LET s == SetBytes(b)
               IN  s \in {r, (-r) % p} \/ (2 * r * s) % p \in {1, p - 1}
=============================================================================

----------------------------- MODULE McmProofs ------------------------------
(***************************************************************************)
(* The length mcm returns is a positive multiple of both block sizes, for  *)
(* every pair of sizes.                                                    *)
(***************************************************************************)
EXTENDS Mcm, TLAPS

\* The remainder of a division, and what is left of it.
LEMMA DivMod ==
  ASSUME NEW m \in Nat, NEW n \in Nat, n # 0
  PROVE  m % n \in 0 .. n - 1 /\ m \div n \in Nat /\ m % n = m - n * (m \div n)
<1>1. m % n \in 0 .. n - 1
  OBVIOUS
<1>2. m \div n \in Nat
  OBVIOUS
<1>3. m % n = m - n * (m \div n)
  OBVIOUS
<1> QED
  BY <1>1, <1>2, <1>3

\* A multiple of d, however it is found, is one Divides knows of.
LEMMA Multiple ==
  ASSUME NEW d \in Nat, d > 0, NEW k \in Nat
  PROVE  Divides(d, d * k)
<1>1. k <= d * k /\ d * k \in Nat
  OBVIOUS
<1> QED
  BY <1>1 DEF Divides

\* A divisor is not larger.
LEMMA DivisorBound ==
  ASSUME NEW d \in Nat, NEW n \in Nat, n > 0, Divides(d, n)
  PROVE  d \in 1 .. n
<1>1. PICK k \in 0 .. n : n = d * k
  BY DEF Divides
<1>2. k > 0 /\ d > 0
  BY <1>1
<1>3. d <= d * k
  BY <1>1, <1>2
<1> QED
  BY <1>1, <1>2, <1>3

\* A divisor of n and of the remainder of m by n divides m.
LEMMA DividesBack ==
  ASSUME NEW d \in Nat, d > 0, NEW m \in Nat, NEW n \in Nat, n # 0,
         Divides(d, n), Divides(d, m % n)
  PROVE  Divides(d, m)
<1>1. PICK k \in 0 .. n : n = d * k
  BY DEF Divides
<1>2. PICK j \in 0 .. (m % n) : m % n = d * j
  BY DEF Divides
<1>3. m \div n \in Nat /\ m % n = m - n * (m \div n)
  BY DivMod
<1> DEFINE q == m \div n
<1> HIDE DEF q
<1>4. q \in Nat /\ d * j = m - n * q
  BY <1>2, <1>3 DEF q
<1>5. m = d * (k * q + j)
  BY <1>1, <1>4
<1>6. k * q + j \in Nat
  BY <1>4
<1> QED
  BY <1>5, <1>6, Multiple

\* Dividing the product of two numbers by a common divisor of them.
LEMMA ProductOverDivisor ==
  ASSUME NEW m \in Nat, m > 0, NEW n \in Nat, n > 0, NEW d \in Nat, d > 0,
         Divides(d, m), Divides(d, n)
  PROVE  /\ (m * n) \div d \in Nat /\ (m * n) \div d > 0
         /\ Divides(m, (m * n) \div d) /\ Divides(n, (m * n) \div d)
<1>1. PICK k \in 0 .. m : m = d * k
  BY DEF Divides
<1>2. PICK j \in 0 .. n : n = d * j
  BY DEF Divides
<1>3. k > 0 /\ j > 0
  BY <1>1, <1>2
<1>4. m * n = d * (k * n) /\ k * n \in Nat
  BY <1>1
<1>5. (m * n) \div d = k * n
  BY <1>4
<1>6. k * n = m * j /\ k * n = n * k /\ k * n > 0
  BY <1>1, <1>2, <1>3
<1>7. k \in Nat /\ j \in Nat
  BY <1>1, <1>2
<1>8. Divides(m, m * j)
  BY <1>7, Multiple
<1>9. Divides(n, n * k)
  BY <1>7, Multiple
<1> QED
  BY <1>4, <1>5, <1>6, <1>8, <1>9

\* A multiple of d below another multiple of d is at least d below it.
LEMMA RoomForOne ==
  ASSUME NEW d \in Nat, d > 0, NEW w \in Nat, NEW n \in Nat,
         Divides(d, w), Divides(d, n), w < n
  PROVE  w + d <= n
<1>1. PICK k \in 0 .. w : w = d * k
  BY DEF Divides
<1>2. PICK m \in 0 .. n : n = d * m
  BY DEF Divides
<1>3. k < m
  BY <1>1, <1>2
<1>4. d * (k + 1) <= d * m
  BY <1>1, <1>2, <1>3
<1>5. d * (k + 1) = w + d
  BY <1>1
<1> QED
  BY <1>2, <1>4, <1>5

\* The next multiple.
LEMMA NextMultiple ==
  ASSUME NEW d \in Nat, d > 0, NEW w \in Nat, Divides(d, w)
  PROVE  Divides(d, w + d)
<1>1. PICK k \in 0 .. w : w = d * k
  BY DEF Divides
<1>2. w + d = d * (k + 1)
  BY <1>1
<1>3. k + 1 \in Nat
  OBVIOUS
<1>4. Divides(d, d * (k + 1))
  BY <1>3, Multiple
<1> QED
  BY <1>2, <1>4

\* Zero is a multiple of everything.
LEMMA ZeroMultiple == ASSUME NEW d \in Nat PROVE Divides(d, 0)
BY DEF Divides

\* No other multiple of d is less than d below a multiple of d.
LEMMA LastMultiple ==
  ASSUME NEW d \in Nat, d > 0, NEW r \in Nat, NEW n \in Nat,
         Divides(d, r), Divides(d, n), r <= n, n < r + d
  PROVE  r = n
<1>1. r < n => r + d <= n
  BY RoomForOne
<1> QED
  BY <1>1

-----------------------------------------------------------------------------
\* The two sizes satisfy the invariant.
LEMMA EuclidInit == McmInit => EuclidInv
BY SizesAssumption DEF McmInit, EuclidInv, McmTypeOK, CommonMultiple

\* Every step keeps it.
LEMMA EuclidStep == EuclidInv /\ [McmNext]_mcmVars => EuclidInv'
<1> SUFFICES ASSUME EuclidInv, [McmNext]_mcmVars PROVE EuclidInv'
  OBVIOUS
<1>0. in \in Nat /\ in > 0 /\ out \in Nat /\ out > 0
  BY SizesAssumption DEF EuclidInv, McmTypeOK
<1>1. CASE Enter
  <2>1. CASE a = b
    <3>1. Divides(a, a)
      <4>1. a = a * 1
        BY DEF EuclidInv, McmTypeOK
      <4> QED
        BY <4>1, Multiple DEF EuclidInv, McmTypeOK
    <3>2. Divides(in, a) /\ Divides(out, a)
      BY <1>1, <2>1, <3>1 DEF Enter, EuclidInv, McmTypeOK
    <3> QED
      BY <1>1, <2>1, <3>2 DEF Enter, EuclidInv, McmTypeOK, CommonMultiple
  <2>2. CASE a # b
    BY <1>1, <2>2 DEF Enter, EuclidInv, McmTypeOK, CommonMultiple
  <2> QED
    BY <2>1, <2>2
<1>2. CASE Turn
  <2>1. a' \in Nat /\ b' \in Nat /\ a' > 0
    BY <1>2, DivMod DEF Turn, EuclidInv, McmTypeOK
  <2>2. ASSUME NEW d \in 1 .. b, Divides(d, b), Divides(d, a % b)
        PROVE  Divides(d, in) /\ Divides(d, out)
    <3>1. Divides(d, a)
      BY <1>2, <2>2, DividesBack DEF Turn, EuclidInv, McmTypeOK
    <3>2. d \in 1 .. a
      BY <3>1, DivisorBound DEF EuclidInv, McmTypeOK
    <3> QED
      BY <2>2, <3>1, <3>2 DEF EuclidInv
  <2> QED
    BY <1>2, <2>1, <2>2 DEF Turn, EuclidInv, McmTypeOK, CommonMultiple
<1>3. CASE Return
  <2>1. Divides(a, a) /\ Divides(a, b)
    <3>1. a = a * 1 /\ b = a * 0
      BY <1>3 DEF Return, EuclidInv, McmTypeOK
    <3> QED
      BY <3>1, Multiple DEF EuclidInv, McmTypeOK
  <2>2. Divides(a, in) /\ Divides(a, out)
    BY <2>1 DEF EuclidInv, McmTypeOK
  <2>3. /\ buffer_length' \in Nat /\ buffer_length' > 0
        /\ Divides(in, buffer_length') /\ Divides(out, buffer_length')
    BY <1>0, <1>3, <2>2, ProductOverDivisor DEF Return, EuclidInv, McmTypeOK
  <2> QED
    BY <1>3, <2>3 DEF Return, EuclidInv, McmTypeOK, CommonMultiple
<1>4. CASE UNCHANGED mcmVars
  BY <1>4 DEF mcmVars, EuclidInv, McmTypeOK, CommonMultiple
<1> QED
  BY <1>1, <1>2, <1>3, <1>4 DEF McmNext
=============================================================================

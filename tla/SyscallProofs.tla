---------------------------- MODULE SyscallProofs ----------------------------
(***************************************************************************)
(* Two services that processes share through system calls.                 *)
(*                                                                         *)
(* Random: whatever ints the calls of random.c are given, and wherever     *)
(* processes preempt each other in them, every generator is good for a     *)
(* next number and a call that is not overtaken stays inside the array;    *)
(* for every word size and multipliers.                                    *)
(*                                                                         *)
(* Ftable: the counts of the open file table are exact at every step of    *)
(* open, pipe, dup, close, fork and exit.  The proof counts the places     *)
(* that hold a value; a step changes one or two places, and each change    *)
(* adds or takes one.                                                      *)
(***************************************************************************)
EXTENDS Random, Ftable, FiniteSetTheorems, TLAPS

(* Division by a positive number.                                          *)
LEMMA DivMod ==
  ASSUME NEW x \in Int, NEW d \in Nat \ {0}
  PROVE  /\ x \div d \in Int /\ x % d \in 0..(d - 1)
         /\ x = (x \div d) * d + (x % d)
<1>1. x % d \in 0..(d - 1)
  OBVIOUS
<1>2. x \div d \in Int
  OBVIOUS
<1>3. x = (x \div d) * d + (x % d)
  OBVIOUS
<1> QED
  BY ZenonT(30), <1>1, <1>2, <1>3

(* The modulus is a natural number, above the multipliers.                 *)
LEMMA ModulusNat ==
  /\ B \in Nat \ {0} /\ B * H \in Nat /\ MODLUS \in Nat /\ B * H = MODLUS + 1
  /\ H \in Nat \ {0} /\ H <= MODLUS /\ H * H <= MODLUS + 1
<1>1. B \in Nat \ {0} /\ H \in Nat \ {0} /\ 2 <= B /\ H <= B
  BY RandomAssumption
<1>2. PICK x \in Nat, y \in Nat : B = 2 + x /\ B = H + y
  <2>1. B - 2 \in Nat /\ B - H \in Nat /\ B = 2 + (B - 2) /\ B = H + (B - H)
    BY <1>1
  <2> QED
    BY ZenonT(30), <2>1
<1>3. B * H = 2 * H + x * H /\ B * H = H * H + y * H
  BY <1>1, <1>2
<1>4. x * H \in Nat /\ y * H \in Nat /\ H * H \in Nat
  BY <1>1, <1>2
<1> QED
  BY <1>1, <1>3, <1>4 DEF MODLUS

(* Products in order have factors in order.                                *)
LEMMA QuotientBound ==
  ASSUME NEW q \in Int, NEW d \in Nat \ {0}, NEW c \in Int, q * d < c * d
  PROVE  q < c
<1>1. SUFFICES ASSUME q >= c PROVE FALSE
  OBVIOUS
<1>2. PICK x \in Nat : q = c + x
  <2>1. q - c \in Nat /\ q = c + (q - c)
    BY <1>1
  <2> QED
    BY ZenonT(30), <2>1
<1>3. q * d = c * d + x * d
  BY <1>2
<1>4. x * d \in Nat /\ c * d \in Int
  OBVIOUS
<1> QED
  BY <1>3, <1>4

(* Factors in order have products in order.                                *)
LEMMA ProductBound ==
  ASSUME NEW q \in Int, NEW d \in Nat, NEW c \in Int, q <= c
  PROVE  q * d <= c * d
<1>1. PICK x \in Nat : c = q + x
  <2>1. c - q \in Nat /\ c = q + (c - q)
    OBVIOUS
  <2> QED
    BY ZenonT(30), <2>1
<1>2. c * d = q * d + x * d
  BY <1>1
<1>3. x * d \in Nat /\ q * d \in Int
  OBVIOUS
<1> QED
  BY <1>2, <1>3

(* The quotient and the rest that a multiplication by m splits off.        *)
Quot(z, m) == hi3l(z, m) \div H
Rest(z, m) == (lowprd(z, m) % B) + (hi3l(z, m) % H) * B + Quot(z, m)

(* What the split multiplication computes, for every word.                 *)
SplitOf(z, m) ==
  /\ Quot(z, m) \in (-m)..(m - 1) /\ Rest(z, m) \in Int
  /\ Rest(z, m) - Quot(z, m) \in 0..MODLUS
  /\ z * m = Rest(z, m) + Quot(z, m) * MODLUS
  /\ z >= 0 => Quot(z, m) >= 0
  /\ z < 0 => Quot(z, m) < 0
  /\ Times(z, m) = Wrap(Signed(Rest(z, m) - MODLUS))

(* The halves of a product recombine so, and none of them leaves a word.   *)
LEMMA Split ==
  ASSUME NEW z \in Long, NEW m \in 1..H
  PROVE  SplitOf(z, m) /\ Fits(z, m)
<1> DEFINE lo == z % B
           hi == z \div B
           p == lo * m
           p0 == p % B
           p1 == p \div B
           h == hi * m + p1
           q0 == h % H
           q1 == h \div H
<1> USE ModulusNat
<1>1. lo \in 0..(B - 1) /\ hi \in Int /\ z = hi * B + lo
  <2>1. z \in Int
    BY DEF Long
  <2> QED
    BY ZenonT(30), <2>1, DivMod
<1>m. m \in Nat \ {0} /\ m <= H
  OBVIOUS
<1>2. p \in Nat
  BY <1>1
<1>3. p0 \in 0..(B - 1) /\ p1 \in Int /\ p = p1 * B + p0
  <2>1. p \in Int
    BY <1>2
  <2> QED
    BY ZenonT(30), <2>1, DivMod
<1>4. hi * m \in Int /\ h \in Int
  <2> HIDE DEF hi, p1
  <2>1. hi * m \in Int
    BY <1>1
  <2> QED
    BY <2>1, <1>3
<1>5. q0 \in 0..(H - 1) /\ q1 \in Int /\ h = q1 * H + q0
  BY ZenonT(30), <1>4, DivMod
<1>d. /\ lowprd(z, m) = p /\ hi3l(z, m) = h
      /\ Quot(z, m) = q1 /\ Rest(z, m) = p0 + q0 * B + q1
  BY ZenonT(30) DEF Quot, Rest, lowprd, hi3l
<1>t. Times(z, m) = Wrap(Signed(Rest(z, m) - MODLUS))
  <2>1. Times(z, m) = Wrap(Signed((p0 - MODLUS) + q0 * B + q1))
    BY ZenonT(30), <1>d DEF Times
  <2> HIDE DEF p0, q0, q1
  <2>2. (p0 - MODLUS) + q0 * B + q1 = (p0 + q0 * B + q1) - MODLUS
    <3>1. q0 * B \in Int
      BY <1>5
    <3> QED
      BY <3>1, <1>3, <1>5
  <2> QED
    BY ZenonT(30), <2>1, <2>2, <1>d
<1> HIDE DEF lo, hi, p, p0, p1, h, q0, q1
<1>6. /\ hi * B \in Int /\ lo * m \in Nat /\ p1 * B \in Int
      /\ q1 * H \in Int /\ q0 * B \in Nat /\ q1 * MODLUS \in Int
  BY <1>1, <1>3, <1>5
<1>7. z * m = p0 + q0 * B + q1 + q1 * MODLUS
  <2>1. z * m = (hi * m) * B + p
    <3>1. z * m = (hi * B) * m + lo * m
      BY <1>1
    <3>2. (hi * B) * m = (hi * m) * B
      BY <1>1
    <3> QED
      BY <3>1, <3>2 DEF p
  <2>2. (hi * m) * B + p = h * B + p0
    BY <1>1, <1>3, <1>4 DEF h
  <2>3. h * B = q1 * (B * H) + q0 * B
    BY <1>5
  <2>4. q1 * (B * H) = q1 * MODLUS + q1
    BY <1>5
  <2> QED
    BY SMTT(60), <2>1, <2>2, <2>3, <2>4, <1>3, <1>4, <1>5, <1>6
<1>8. p0 + q0 * B \in 0..MODLUS
  <2>1. q0 * B <= (H - 1) * B
    BY <1>5, ProductBound
  <2>2. (H - 1) * B = MODLUS + 1 - B
    OBVIOUS
  <2> QED
    BY <2>1, <2>2, <1>3, <1>5, <1>6
<1>9. p1 \in 0..(m - 1)
  <2>1. lo * m <= (B - 1) * m
    BY <1>1, ProductBound
  <2>2. p1 * B < m * B
    <3>1. (B - 1) * m = m * B - m /\ m * B \in Int
      OBVIOUS
    <3> QED
      BY <2>1, <3>1, <1>3, <1>6 DEF p
  <2>3. p1 < m
    BY <2>2, <1>3, <1>m, QuotientBound
  <2>4. (-1) * B < p1 * B
    BY <1>2, <1>3, <1>6
  <2>5. -1 < p1
    BY <2>4, <1>3, QuotientBound
  <2> QED
    BY <2>3, <2>5, <1>3
<1>10. hi \in (-H)..(H - 1) /\ (z >= 0 => hi >= 0) /\ (z < 0 => hi <= -1)
  <2>1. hi * B < H * B
    BY <1>1, <1>6 DEF Long
  <2>2. (-H - 1) * B < hi * B
    <3>1. (-H - 1) * B = -(MODLUS + 1) - B
      OBVIOUS
    <3> QED
      BY <3>1, <1>1, <1>6 DEF Long
  <2>3. hi < H /\ -H - 1 < hi
    BY <2>1, <2>2, <1>1, QuotientBound
  <2>4. ASSUME z >= 0 PROVE hi >= 0
    <3>1. (-1) * B < hi * B
      BY <2>4, <1>1, <1>6
    <3>2. -1 < hi
      BY <3>1, <1>1, QuotientBound
    <3> QED
      BY <3>2, <1>1
  <2>5. ASSUME z < 0 PROVE hi <= -1
    <3>1. hi * B < 0 * B
      BY <2>5, <1>1, <1>6
    <3>2. hi < 0
      BY <3>1, <1>1, QuotientBound
    <3> QED
      BY <3>2, <1>1
  <2> QED
    BY <2>3, <2>4, <2>5, <1>1
<1>11. /\ h \in (-(H * m))..(H * m - 1) /\ H * m \in Nat
       /\ (z >= 0 => h >= 0) /\ (z < 0 => h <= -1)
  <2>1. (-H) * m <= hi * m /\ hi * m <= (H - 1) * m
    BY <1>10, <1>1, <1>m, ProductBound
  <2>2. (-H) * m = -(H * m) /\ (H - 1) * m = H * m - m /\ H * m \in Nat
    BY <1>m
  <2>3. ASSUME z >= 0 PROVE 0 * m <= hi * m
    BY <2>3, <1>10, <1>1, <1>m, ProductBound
  <2>4. ASSUME z < 0 PROVE hi * m <= (-1) * m
    BY <2>4, <1>10, <1>1, <1>m, ProductBound
  <2>5. 0 * m = 0 /\ (-1) * m = -m
    BY <1>m
  <2> QED
    BY <2>1, <2>2, <2>3, <2>4, <2>5, <1>9, <1>4, <1>m DEF h
<1>12. q1 \in (-m)..(m - 1) /\ (z >= 0 => q1 >= 0) /\ (z < 0 => q1 < 0)
  <2>0. q1 * H = h - q0 /\ m * H = H * m /\ (-m - 1) * H = -(H * m) - H
    BY <1>5, <1>m, <1>4
  <2>1. q1 * H < m * H
    BY <2>0, <1>11, <1>5, <1>4
  <2>2. (-m - 1) * H < q1 * H
    BY <2>0, <1>11, <1>5, <1>4
  <2>3. q1 < m /\ -m - 1 < q1
    BY <2>1, <2>2, <1>5, <1>m, QuotientBound
  <2>4. ASSUME z >= 0 PROVE q1 >= 0
    <3>1. (-1) * H < q1 * H
      BY <2>4, <2>0, <1>11, <1>5
    <3>2. -1 < q1
      BY <3>1, <1>5, QuotientBound
    <3> QED
      BY <3>2, <1>5
  <2>5. ASSUME z < 0 PROVE q1 < 0
    <3>1. q1 * H < 0 * H
      BY <2>5, <2>0, <1>11, <1>5
    <3> QED
      BY <3>1, <1>5, QuotientBound
  <2> QED
    BY <2>3, <2>4, <2>5, <1>5, <1>m
<1>13. Fits(z, m)
  <2>1. p \in Long
    <3>1. lo * m <= (B - 1) * m
      BY <1>1, ProductBound
    <3>2. m * (B - 1) <= H * (B - 1)
      BY <1>m, ProductBound
    <3>3. m * (B - 1) = (B - 1) * m /\ H * (B - 1) = MODLUS + 1 - H
      BY <1>m
    <3> QED
      BY <3>1, <3>2, <3>3, <1>2, <1>6 DEF p, Long
  <2>2. h \in Long
    <3>1. m * H <= H * H /\ m * H = H * m
      BY <1>m, ProductBound
    <3> QED
      BY <3>1, <1>11, <1>4 DEF Long
  <2> QED
    BY ZenonT(30), <2>1, <2>2, <1>d DEF Fits
<1>14. /\ Rest(z, m) \in Int /\ Rest(z, m) - Quot(z, m) \in 0..MODLUS
       /\ z * m = Rest(z, m) + Quot(z, m) * MODLUS
  <2>1. p0 + q0 * B + q1 \in Int /\ (p0 + q0 * B + q1) - q1 = p0 + q0 * B
    BY <1>3, <1>5, <1>6
  <2> QED
    BY ZenonT(30), <2>1, <1>7, <1>8, <1>d
<1> QED
  BY ZenonT(30), <1>12, <1>13, <1>14, <1>d, <1>t DEF SplitOf

(* Remainders of numbers next to the range.                                *)
LEMMA ModNear ==
  ASSUME NEW x \in Int, NEW n \in Nat \ {0}
  PROVE  (x \in 0..(n - 1) => x % n = x) /\ (x \in (-n)..(-1) => x % n = x + n)
OBVIOUS

(* A sum that fits is kept, one just below the range wraps.                *)
LEMMA SignedNear ==
  ASSUME NEW v \in Int
  PROVE  /\ v \in Long => Signed(v) = v
         /\ v < -MODLUS - 1 /\ v >= -2 * MODLUS => Signed(v) = v + 2 * MODLUS + 2
<1> DEFINE n == 2 * (MODLUS + 1)
           x == v + MODLUS + 1
<1> USE ModulusNat
<1>1. n \in Nat \ {0} /\ x \in Int
  OBVIOUS
<1>2. (x \in 0..(n - 1) => x % n = x) /\ (x \in (-n)..(-1) => x % n = x + n)
  BY ZenonT(30), <1>1, ModNear
<1>3. Signed(v) = (x % n) - (MODLUS + 1)
  BY ZenonT(30) DEF Signed
<1>4. x % n \in Int
  BY <1>1
<1> QED
  BY <1>1, <1>2, <1>3, <1>4 DEF Long

(* One multiplication of a number that is not negative.                    *)
LEMMA Product ==
  ASSUME NEW z \in Long, NEW m \in 1..H, z >= 0
  PROVE  IsProduct(z, m)
<1> DEFINE v == Rest(z, m)
           q == Quot(z, m)
<1> USE ModulusNat
<1>1. SplitOf(z, m)
  BY ZenonT(30), Split
<1>2. /\ q \in 0..(m - 1) /\ v \in Int /\ v - q \in 0..MODLUS
      /\ z * m = v + q * MODLUS /\ Times(z, m) = Wrap(Signed(v - MODLUS))
  BY <1>1 DEF SplitOf
<1> HIDE DEF v, q
<1>3. Signed(v - MODLUS) = v - MODLUS
  <2>1. v - MODLUS \in Int /\ v - MODLUS \in Long
    BY <1>2 DEF Long
  <2> QED
    BY ZenonT(30), <2>1, SignedNear
<1>4. CASE v < MODLUS
  <2>1. Times(z, m) = v
    BY <1>2, <1>3, <1>4 DEF Wrap
  <2>2. q \in 0..m /\ Times(z, m) \in Word /\ z * m = Times(z, m) + q * MODLUS
    BY <2>1, <1>2, <1>4 DEF Word
  <2> QED
    BY ZenonT(30), <2>2 DEF IsProduct
<1>5. CASE v >= MODLUS
  <2>1. Times(z, m) = v - MODLUS
    BY <1>2, <1>3, <1>5 DEF Wrap
  <2>2. z * m = (v - MODLUS) + (q + 1) * MODLUS
    BY <1>2
  <2>3. m - 1 < MODLUS
    BY RandomAssumption, ModulusNat
  <2>4. q + 1 \in 0..m /\ Times(z, m) \in Word
    BY <2>1, <2>3, <1>2, <1>5 DEF Word
  <2> QED
    BY ZenonT(30), <2>1, <2>2, <2>4 DEF IsProduct
<1> QED
  BY <1>2, <1>4, <1>5

(* One of a negative number.  Only -1 is left of what was negative, and    *)
(* its product is not.                                                     *)
LEMMA NegativeProduct ==
  ASSUME NEW z \in Long, NEW m \in 1..H, z < 0
  PROVE  /\ Times(z, m) \in (-1)..MODLUS
         /\ z = -1 => Times(z, m) \in Word
<1> DEFINE v == Rest(z, m)
           q == Quot(z, m)
<1> USE ModulusNat
<1>1. SplitOf(z, m)
  BY ZenonT(30), Split
<1>2. /\ q \in (-m)..(-1) /\ v \in Int /\ v - q \in 0..MODLUS
      /\ z * m = v + q * MODLUS /\ Times(z, m) = Wrap(Signed(v - MODLUS))
  BY <1>1 DEF SplitOf
<1> HIDE DEF v, q
<1>3. CASE v >= -1
  <2>1. v - MODLUS \in Int /\ v - MODLUS \in Long
    BY <1>2, <1>3 DEF Long
  <2>2. Signed(v - MODLUS) = v - MODLUS
    BY ZenonT(30), <2>1, SignedNear
  <2>3. Times(z, m) = v /\ v \in (-1)..(MODLUS - 1)
    BY <1>2, <1>3, <2>2 DEF Wrap
  <2>4. ASSUME z = -1 PROVE v >= 0
    <3>1. (-1) * m = v + q * MODLUS /\ (-1) * m = -m
      BY <1>2, <2>4
    <3>2. q * MODLUS <= (-1) * MODLUS
      BY <1>2, ProductBound
    <3> QED
      BY <3>1, <3>2, <1>2
  <2> QED
    BY <2>3, <2>4 DEF Word
<1>4. CASE v < -1
  <2>1. v - MODLUS \in Int /\ v - MODLUS < -MODLUS - 1 /\ v - MODLUS >= -2 * MODLUS
    BY <1>2, <1>4
  <2>2. Signed(v - MODLUS) = (v - MODLUS) + 2 * MODLUS + 2
    BY ZenonT(30), <2>1, SignedNear
  <2>3. Times(z, m) = v + MODLUS + 2 /\ v + MODLUS + 2 \in 0..MODLUS
    BY <1>2, <1>4, <2>2 DEF Wrap
  <2>4. ASSUME z = -1 PROVE FALSE
    <3>1. (-1) * m = v + q * MODLUS /\ (-1) * m = -m
      BY <1>2, <2>4
    <3>2. q * MODLUS <= (-1) * MODLUS
      BY <1>2, ProductBound
    <3> QED
      BY <3>1, <3>2, <1>2, <1>4
  <2> QED
    BY <2>3, <2>4
<1> QED
  BY <1>2, <1>3, <1>4

-----------------------------------------------------------------------------
(* Both multiplications of a step, for every word.                         *)
LEMMA EveryStepSound == ASSUME NEW z \in Long PROVE StepSound(z)
<1> DEFINE t == Times(z, MULTONE)
<1>m. MULTONE \in 1..H /\ MULTTWO \in 1..H
  BY ZenonT(30), RandomAssumption
<1>1. CASE z >= 0
  <2>1. IsProduct(z, MULTONE)
    BY ZenonT(30), <1>1, <1>m, Product
  <2>2. t \in Word
    BY ZenonT(30), <2>1 DEF IsProduct
  <2>3. t \in Long /\ t >= 0
    BY <2>2, ModulusNat DEF Word, Long
  <2>4. IsProduct(t, MULTTWO)
    BY ZenonT(30), <2>3, <1>m, Product
  <2>5. Fits(z, MULTONE) /\ Fits(t, MULTTWO)
    BY ZenonT(30), <2>3, <1>m, Split
  <2> QED
    BY ZenonT(30), <2>1, <2>4, <2>5 DEF StepSound, NextZi, IsProduct
<1>2. CASE z < 0
  <2>1. t \in (-1)..MODLUS
    BY ZenonT(30), <1>2, <1>m, NegativeProduct
  <2>2. t \in Long /\ (t >= 0 \/ (t < 0 /\ t = -1))
    BY <2>1, ModulusNat DEF Long
  <2>3. Times(t, MULTTWO) \in Word
    <3>1. CASE t >= 0
      BY ZenonT(30), <3>1, <2>2, <1>m, Product DEF IsProduct
    <3>2. CASE t < 0 /\ t = -1
      BY ZenonT(30), <3>2, <2>2, <1>m, NegativeProduct
    <3> QED
      BY ZenonT(30), <2>2, <3>1, <3>2
  <2>4. Fits(z, MULTONE) /\ Fits(t, MULTTWO)
    BY ZenonT(30), <2>2, <1>m, Split
  <2>5. ~(z >= 0)
    BY <1>2 DEF Long
  <2> QED
    BY ZenonT(30), <2>3, <2>4, <2>5 DEF StepSound, NextZi
<1>3. z >= 0 \/ z < 0
  BY DEF Long
<1> QED
  BY ZenonT(30), <1>1, <1>2, <1>3

(* Words, streams and the numbers that a step computes.                    *)
LEMMA Words ==
  /\ 0 \in Long /\ Word \subseteq Long
  /\ \A z \in Long : NextZi(z) \in Long
<1>1. 0 \in Long /\ Word \subseteq Long
  BY ModulusNat DEF Long, Word
<1>2. \A z \in Long : NextZi(z) \in Word
  BY ZenonT(30), EveryStepSound DEF StepSound
<1> QED
  BY ZenonT(30), <1>1, <1>2

(* The tests of a process that nobody has overtaken still hold.            *)
RandomInv ==
  /\ RandomTypeOK
  /\ \A p \in tested :
       /\ at[p] \in {"bounded", "load", "store"} /\ seed > 0
       /\ at[p] # "bounded" => seed < NS + 1

(* Every step of every caller keeps the types.                             *)
LEMMA RandomTypeStep == RandomTypeOK /\ [RandomNext]_generators => RandomTypeOK'
<1> SUFFICES ASSUME RandomTypeOK, [RandomNext]_generators PROVE RandomTypeOK'
  BY ZenonT(30)
<1> USE RandomAssumption, Words DEF RandomTypeOK, Step
<1>1. ASSUME NEW p \in Caller, StoreZi(p) PROVE RandomTypeOK'
  BY ZenonT(30), <1>1 DEF StoreZi
<1>2. ASSUME NEW p \in Caller, sys_random(p) \/ Clear(p) \/ Positive(p) \/ Bounded(p)
      PROVE RandomTypeOK'
  BY ZenonT(30), <1>2 DEF sys_random, Clear, Positive, Bounded
<1>3. ASSUME NEW p \in Caller, LoadZi(p) PROVE RandomTypeOK'
  BY ZenonT(30), <1>3 DEF LoadZi
<1>4. ASSUME NEW p \in Caller, NEW s \in Streams, sys_random_set(p, s) PROVE RandomTypeOK'
  BY ZenonT(30), <1>4 DEF sys_random_set
<1>5. ASSUME NEW p \in Caller, NEW s \in Streams, NEW v \in Values, sys_change_seed(p, s, v)
      PROVE RandomTypeOK'
  BY ZenonT(30), <1>5 DEF sys_change_seed
<1>6. CASE UNCHANGED generators
  BY ZenonT(30), <1>6 DEF generators
<1> QED
  BY ZenonT(30), <1>1, <1>2, <1>3, <1>4, <1>5, <1>6 DEF RandomNext, RandomEnds

(* And what the tests said.                                                *)
LEMMA RandomInvStep == RandomInv /\ [RandomNext]_generators => RandomInv'
<1> SUFFICES ASSUME RandomInv, [RandomNext]_generators PROVE RandomInv'
  BY ZenonT(30)
<1>0. RandomTypeOK'
  BY ZenonT(30), RandomTypeStep DEF RandomInv
<1> DEFINE Kept == \A p \in tested :
                     /\ at[p] \in {"bounded", "load", "store"} /\ seed > 0
                     /\ at[p] # "bounded" => seed < NS + 1
<1> USE DEF RandomInv, RandomTypeOK, Step, Here
<1>1. ASSUME NEW p \in Caller, sys_random(p) PROVE Kept'
  BY <1>1 DEF sys_random
<1>2. ASSUME NEW p \in Caller, Clear(p) PROVE Kept'
  BY <1>2 DEF Clear
<1>3. ASSUME NEW p \in Caller, Positive(p) PROVE Kept'
  BY <1>3 DEF Positive
<1>4. ASSUME NEW p \in Caller, Bounded(p) PROVE Kept'
  BY <1>4 DEF Bounded
<1>5. ASSUME NEW p \in Caller, LoadZi(p) PROVE Kept'
  BY <1>5 DEF LoadZi
<1>6. ASSUME NEW p \in Caller, StoreZi(p) PROVE Kept'
  BY <1>6 DEF StoreZi
<1>7. ASSUME NEW p \in Caller, NEW s \in Streams, sys_random_set(p, s) PROVE Kept'
  BY <1>7 DEF sys_random_set
<1>8. ASSUME NEW p \in Caller, NEW s \in Streams, NEW v \in Values, sys_change_seed(p, s, v)
      PROVE Kept'
  BY <1>8 DEF sys_change_seed
<1>9. CASE UNCHANGED generators
  BY <1>9 DEF generators
<1>10. Kept'
  BY ZenonT(30), <1>1, <1>2, <1>3, <1>4, <1>5, <1>6, <1>7, <1>8, <1>9 DEF RandomNext, RandomEnds
<1> QED
  BY ZenonT(30), <1>0, <1>10

(* Whatever ints processes call random(), random_set() and change_seed()   *)
(* with, and wherever they preempt each other: a call that no other store  *)
(* to seed overtakes indexes the array with a stream, and every generator, *)
(* whatever was stored in it, is good for a next number, which is in range *)
(* and, from a number that is not negative, the product modulo MODLUS that *)
(* the split multiplication of random.c is meant to be.                    *)
THEOREM GeneratorsSound == RandomSpec => []StreamsSound
<1>1. RandomInit => RandomInv
  BY ZenonT(30), RandomAssumption, Words DEF RandomInit, RandomInv, RandomTypeOK
<1>2. RandomInv => StreamsSound
  <2> SUFFICES ASSUME RandomInv PROVE StreamsSound
    BY ZenonT(30)
  <2>1. IndexSound
    BY RandomAssumption DEF RandomInv, RandomTypeOK, IndexSound, Long
  <2>2. (\A s \in Index : StepSound(zrng[s])) /\ (\A p \in Caller : StepSound(zi[p]))
    BY ZenonT(30), EveryStepSound DEF RandomInv, RandomTypeOK
  <2> QED
    BY ZenonT(30), <2>1, <2>2 DEF StreamsSound
<1> QED
  BY <1>1, <1>2, RandomInvStep, PTL DEF RandomSpec

-----------------------------------------------------------------------------
(* The open file table: where a call can be, and what an entry is.         *)
Labels == {"user", "open", "pipe1", "pipe2", "close"}
Entry == [ref : Nat, type : {"none", "pipe", "inode"}, obj : Pages \cup {0}, end : Ends]

FtableTypeOK ==
  /\ file \in [File -> Entry]
  /\ ofile \in [Process -> [Fds -> File \cup {0}]]
  /\ call \in [Process -> Labels]
  /\ f0 \in [Process -> File \cup {0}] /\ f1 \in [Process -> File \cup {0}]
  /\ ff \in [Process -> Entry]
  /\ pipes \in [Pages -> SUBSET Ends]
  /\ iref \in Int

(* An entry that a process has just allocated and not typed yet.           *)
Fresh(f) == file[f].ref = 1 /\ file[f].type = "none"

(* What a process has in hand at each point of a call.                     *)
HandAt(p) ==
  /\ call[p] = "user" => f0[p] = 0 /\ f1[p] = 0
  /\ call[p] # "close" => ff[p].type = "none"
  /\ call[p] \in {"open", "pipe1"} => f0[p] # 0 /\ f1[p] = 0 /\ Fresh(f0[p])
  /\ call[p] = "pipe2" => /\ f0[p] # 0 /\ f1[p] # 0 /\ f0[p] # f1[p]
                          /\ Fresh(f0[p]) /\ Fresh(f1[p])
HandOK == \A p \in Process : HandAt(p)

(* A pipe's entry names a page.                                            *)
PagesOK ==
  /\ \A f \in File : file[f].type = "pipe" => file[f].obj \in Pages
  /\ \A p \in Process : ff[p].type = "pipe" => ff[p].obj \in Pages

(* FilesSound alone is not inductive: closing an entry that open or pipe    *)
(* could not finish is right only because nobody else has it and it is     *)
(* untyped, or typed by this very call.                                    *)
FtableInv == FtableTypeOK /\ HandOK /\ PagesOK /\ FilesSound

-----------------------------------------------------------------------------
(* Counting the places of a table that hold one of some values.            *)
Count(S, t, K) == Cardinality({y \in S : t[y] \in K})
In(x, K) == IF x \in K THEN 1 ELSE 0
Is(x, v) == IF x = v THEN 1 ELSE 0

(* A count over a finite table is a natural number.                        *)
LEMMA CountNat ==
  ASSUME NEW S, IsFiniteSet(S), NEW t, NEW K
  PROVE  Count(S, t, K) \in Nat
<1> DEFINE A == {y \in S : t[y] \in K}
<1>1. A \in SUBSET S
  BY ZenonT(30)
<1> HIDE DEF A
<1>2. IsFiniteSet(A)
  BY ZenonT(30), <1>1, FS_Subset
<1> QED
  BY ZenonT(30), <1>2, FS_CardinalityType DEF Count, A

(* Zero means that there is nothing to count.                              *)
LEMMA CountZero ==
  ASSUME NEW S, IsFiniteSet(S), NEW t, NEW K
  PROVE  Count(S, t, K) = 0 <=> \A y \in S : t[y] \notin K
<1> DEFINE A == {y \in S : t[y] \in K}
<1>1. A \in SUBSET S
  BY ZenonT(30)
<1>2. IsFiniteSet(A)
  BY ZenonT(30), <1>1, FS_Subset
<1>3. Cardinality(A) = 0 <=> A = {}
  BY ZenonT(30), <1>2, FS_EmptySet
<1> QED
  BY ZenonT(30), <1>3 DEF Count

(* Tables that hold such values in the same places have the same count.    *)
LEMMA CountSame ==
  ASSUME NEW S, NEW t, NEW u, NEW K, \A y \in S : u[y] \in K <=> t[y] \in K
  PROVE  Count(S, u, K) = Count(S, t, K)
<1>1. {y \in S : u[y] \in K} = {y \in S : t[y] \in K}
  BY ZenonT(30)
<1> QED
  BY ZenonT(30), <1>1 DEF Count

(* One place changes.                                                      *)
LEMMA CountChange ==
  ASSUME NEW S, IsFiniteSet(S), NEW t, NEW u, NEW K, NEW x \in S,
         \A y \in S : y # x => u[y] = t[y]
  PROVE  Count(S, u, K) = Count(S, t, K) + In(u[x], K) - In(t[x], K)
<1> DEFINE A == {y \in S : t[y] \in K}
           Z == {y \in S : u[y] \in K}
<1>1. A \in SUBSET S /\ x \in A <=> t[x] \in K
  BY ZenonT(30)
<1>2. A \in SUBSET S
  BY ZenonT(30)
<1>3. IsFiniteSet(A)
  BY ZenonT(30), <1>2, FS_Subset
<1>4. Cardinality(A) \in Nat
  BY ZenonT(30), <1>3, FS_CardinalityType
<1>5. /\ Cardinality(A \cup {x}) = IF x \in A THEN Cardinality(A) ELSE Cardinality(A) + 1
      /\ Cardinality(A \ {x}) = IF x \in A THEN Cardinality(A) - 1 ELSE Cardinality(A)
  BY ZenonT(30), <1>3, FS_AddElement, FS_RemoveElement
<1>6. Z = IF u[x] \in K THEN A \cup {x} ELSE A \ {x}
  BY ZenonT(30)
<1>7. x \in A <=> t[x] \in K
  BY ZenonT(30)
<1> HIDE DEF A, Z
<1>8. Cardinality(Z) = Cardinality(A) + In(u[x], K) - In(t[x], K)
  BY SMTT(60), <1>4, <1>5, <1>6, <1>7 DEF In, Is
<1> QED
  BY ZenonT(30), <1>8 DEF Count, A, Z

(* The same, folded into one predicate.                                    *)
CountMoved(S, t, u, x, K) == Count(S, u, K) = Count(S, t, K) + In(u[x], K) - In(t[x], K)
LEMMA CountMove ==
  ASSUME NEW S, IsFiniteSet(S), NEW t, NEW u, NEW K, NEW x \in S,
         \A y \in S : y # x => u[y] = t[y]
  PROVE  CountMoved(S, t, u, x, K)
BY CountChange DEF CountMoved

(* Two places hold such values.                                            *)
LEMMA CountTwo ==
  ASSUME NEW S, IsFiniteSet(S), NEW t, NEW K, NEW x \in S, NEW y \in S, x # y,
         t[x] \in K, t[y] \in K
  PROVE  Count(S, t, K) >= 2
<1> DEFINE A == {z \in S : t[z] \in K}
<1>1. A \in SUBSET S /\ x \in A /\ y \in A \ {x}
  BY ZenonT(30)
<1> HIDE DEF A
<1>2. IsFiniteSet(A)
  BY ZenonT(30), <1>1, FS_Subset
<1>3. IsFiniteSet(A \ {x}) /\ Cardinality(A \ {x}) = Cardinality(A) - 1
  BY ZenonT(30), <1>1, <1>2, FS_RemoveElement
<1>4. IsFiniteSet((A \ {x}) \ {y}) /\ Cardinality((A \ {x}) \ {y}) = Cardinality(A \ {x}) - 1
  BY ZenonT(30), <1>1, <1>3, FS_RemoveElement
<1>5. Cardinality(A) \in Nat /\ Cardinality((A \ {x}) \ {y}) \in Nat
  BY ZenonT(30), <1>2, <1>4, FS_CardinalityType
<1>6. Cardinality(A) >= 2
  BY <1>3, <1>4, <1>5
<1> QED
  BY ZenonT(30), <1>6 DEF Count, A

-----------------------------------------------------------------------------
(* The counts of FilesSound in these terms.                                *)
Descs(of, f) == Count(Process \X Fds, [x \in Process \X Fds |-> of[x[1]][x[2]]], {f})
Held(h, f) == Count(Process, h, {f})
Inodes == {o \in Entry : o.type = "inode"}
EndsOf(g, e) == {o \in Entry : IsEnd(o, g, e)}
Kinds(K) == Count(File, file, K) + Count(Process, ff, K)

(* The tables are finite.                                                  *)
LEMMA Finite == IsFiniteSet(File) /\ IsFiniteSet(Fds) /\ IsFiniteSet(Process \X Fds)
<1>1. IsFiniteSet(File) /\ IsFiniteSet(Fds)
  BY FtableAssumption, FS_Interval DEF File, Fds
<1> QED
  BY ZenonT(30), <1>1, FtableAssumption, FS_Product

(* RefsExact in terms of the counts, before and after a step.              *)
LEMMA RefsAre ==
  /\ RefsExact <=> \A f \in File : file[f].ref = Descs(ofile, f) + Held(f0, f) + Held(f1, f)
  /\ RefsExact' <=> \A f \in File : file'[f].ref = Descs(ofile', f) + Held(f0', f) + Held(f1', f)
<1>1. ASSUME NEW of, NEW f PROVE Cardinality({x \in Process \X Fds : of[x[1]][x[2]] = f}) = Descs(of, f)
  <2>1. {x \in Process \X Fds : of[x[1]][x[2]] = f}
        = {y \in Process \X Fds : [x \in Process \X Fds |-> of[x[1]][x[2]]][y] \in {f}}
    BY ZenonT(30)
  <2> QED
    BY ZenonT(30), <2>1 DEF Descs, Count
<1>2. ASSUME NEW h, NEW f PROVE Cardinality({p \in Process : h[p] = f}) = Held(h, f)
  <2>1. {p \in Process : h[p] = f} = {y \in Process : h[y] \in {f}}
    BY ZenonT(30)
  <2> QED
    BY ZenonT(30), <2>1 DEF Held, Count
<1> QED
  BY ONLY ZenonT(30), <1>1, <1>2 DEF RefsExact, Descriptors

(* InodesExact and EndsExact in terms of the counts.                       *)
LEMMA KindsAre ==
  ASSUME FtableTypeOK
  PROVE  /\ InodesExact <=> iref = Kinds(Inodes)
         /\ EndsExact <=> \A g \in Pages, e \in Ends :
                            Kinds(EndsOf(g, e)) = IF e \in pipes[g] THEN 1 ELSE 0
<1>1. /\ {f \in File : file[f].type = "inode"} = {y \in File : file[y] \in Inodes}
      /\ {p \in Process : ff[p].type = "inode"} = {y \in Process : ff[y] \in Inodes}
  BY ZenonT(30) DEF FtableTypeOK, Inodes
<1>2. ASSUME NEW g, NEW e
      PROVE  /\ {f \in File : IsEnd(file[f], g, e)} = {y \in File : file[y] \in EndsOf(g, e)}
             /\ {p \in Process : IsEnd(ff[p], g, e)} = {y \in Process : ff[y] \in EndsOf(g, e)}
  BY ZenonT(30) DEF FtableTypeOK, EndsOf
<1>3. InodesExact <=> iref = Kinds(Inodes)
  BY ONLY ZenonT(30), <1>1 DEF InodesExact, Kinds, Count
<1>4. EndsExact <=> \A g \in Pages, e \in Ends :
                      Kinds(EndsOf(g, e)) = IF e \in pipes[g] THEN 1 ELSE 0
  <2>1. ASSUME NEW g, NEW e
        PROVE  Kinds(EndsOf(g, e)) = Cardinality({f \in File : IsEnd(file[f], g, e)})
                                      + Cardinality({p \in Process : IsEnd(ff[p], g, e)})
    BY ONLY ZenonT(30), <1>2 DEF Kinds, Count
  <2> QED
    BY ONLY ZenonT(30), <2>1 DEF EndsExact
<1> QED
  BY ZenonT(30), <1>3, <1>4

(* The same after a step.                                                  *)
LEMMA KindsAreNext ==
  ASSUME FtableTypeOK'
  PROVE  /\ InodesExact' <=> iref' = Kinds(Inodes)'
         /\ EndsExact' <=> \A g \in Pages, e \in Ends :
                             Kinds(EndsOf(g, e))' = IF e \in pipes'[g] THEN 1 ELSE 0
<1>1. /\ {f \in File : file'[f].type = "inode"} = {y \in File : file'[y] \in Inodes}
      /\ {p \in Process : ff'[p].type = "inode"} = {y \in Process : ff'[y] \in Inodes}
  BY ZenonT(30) DEF FtableTypeOK, Inodes
<1>2. ASSUME NEW g, NEW e
      PROVE  /\ {f \in File : IsEnd(file'[f], g, e)} = {y \in File : file'[y] \in EndsOf(g, e)}
             /\ {p \in Process : IsEnd(ff'[p], g, e)} = {y \in Process : ff'[y] \in EndsOf(g, e)}
  BY ZenonT(30) DEF FtableTypeOK, EndsOf
<1>3. InodesExact' <=> iref' = Kinds(Inodes)'
  BY ONLY ZenonT(30), <1>1 DEF InodesExact, Kinds, Count
<1>4. EndsExact' <=> \A g \in Pages, e \in Ends :
                      Kinds(EndsOf(g, e))' = IF e \in pipes'[g] THEN 1 ELSE 0
  <2>1. ASSUME NEW g, NEW e
        PROVE  Kinds(EndsOf(g, e))' = Cardinality({f \in File : IsEnd(file'[f], g, e)})
                                      + Cardinality({p \in Process : IsEnd(ff'[p], g, e)})
    BY ONLY ZenonT(30), <1>2 DEF Kinds, Count
  <2> QED
    BY ONLY ZenonT(30), <2>1 DEF EndsExact
<1> QED
  BY ZenonT(30), <1>3, <1>4

(* The effect of one change on a count of descriptors, of files in hand,   *)
(* and on the entries when the count of f becomes v.                       *)
DescMoved(of, ou, p, d, f) == Descs(ou, f) = Descs(of, f) + Is(ou[p][d], f) - Is(of[p][d], f)
HeldMoved(h, u, p, f) == Held(u, f) = Held(h, f) + Is(u[p], f) - Is(h[p], f)
RefMoved(t, u, f, v, g) ==
  /\ u[g] \in Entry
  /\ u[g].type = t[g].type /\ u[g].obj = t[g].obj /\ u[g].end = t[g].end
  /\ u[g].ref = IF g = f THEN v ELSE t[g].ref

(* One descriptor changes.                                                 *)
LEMMA DescChange ==
  ASSUME NEW of, NEW ou, NEW p \in Process, NEW d \in Fds, NEW f,
         \A q \in Process, z \in Fds : q # p \/ z # d => ou[q][z] = of[q][z]
  PROVE  DescMoved(of, ou, p, d, f)
<1> DEFINE S == Process \X Fds
           t == [x \in S |-> of[x[1]][x[2]]]
           u == [x \in S |-> ou[x[1]][x[2]]]
           x == <<p, d>>
           K == {f}
<1>1. x \in S /\ u[x] = ou[p][d] /\ t[x] = of[p][d]
  BY ZenonT(30)
<1>2. ASSUME NEW y \in S, y # x PROVE u[y] = t[y]
  <2>1. PICK q \in Process, z \in Fds : y = <<q, z>>
    OBVIOUS
  <2> QED
    BY ZenonT(30), <1>2, <2>1
<1>3. IsFiniteSet(S)
  BY ZenonT(30), Finite
<1>4. x \in S /\ \A y \in S : y # x => u[y] = t[y]
  BY ZenonT(30), <1>1, <1>2
<1> HIDE DEF S, t, u, x, K
<1>5. Count(S, u, K) = Count(S, t, K) + In(u[x], K) - In(t[x], K)
  BY ONLY <1>3, <1>4, CountChange
<1>6. Count(S, u, K) = Count(S, t, K) + Is(ou[p][d], f) - Is(of[p][d], f)
  BY ONLY ZenonT(30), <1>1, <1>5 DEF In, Is, K
<1> QED
  BY ZenonT(30), <1>6 DEF DescMoved, Descs, S, t, u, K

(* A process takes a file in hand or gives it up.                          *)
LEMMA HeldChange ==
  ASSUME NEW h, NEW u, NEW p \in Process, NEW f,
         \A q \in Process : q # p => u[q] = h[q]
  PROVE  HeldMoved(h, u, p, f)
<1> DEFINE K == {f}
<1> HIDE DEF K
<1>1. Count(Process, u, K) = Count(Process, h, K) + In(u[p], K) - In(h[p], K)
  BY FtableAssumption, CountChange
<1> QED
  BY ZenonT(30), <1>1 DEF HeldMoved, Held, In, Is, K

(* Counts are numbers, and not zero where there is something to count.     *)
LEMMA CountFacts ==
  ASSUME NEW f
  PROVE  /\ Descs(ofile, f) \in Nat /\ Held(f0, f) \in Nat /\ Held(f1, f) \in Nat
         /\ \A p \in Process, d \in Fds : ofile[p][d] = f => Descs(ofile, f) # 0
         /\ \A p \in Process : f0[p] = f => Held(f0, f) # 0
         /\ \A p \in Process : f1[p] = f => Held(f1, f) # 0
         /\ \A p, q \in Process : p # q /\ f0[p] = f /\ f0[q] = f => Held(f0, f) >= 2
         /\ \A p, q \in Process : p # q /\ f1[p] = f /\ f1[q] = f => Held(f1, f) >= 2
<1> USE FtableAssumption
<1>1. Descs(ofile, f) \in Nat /\ Held(f0, f) \in Nat /\ Held(f1, f) \in Nat
  BY ZenonT(30), Finite, CountNat DEF Descs, Held
<1>2. ASSUME NEW p \in Process, NEW d \in Fds, ofile[p][d] = f PROVE Descs(ofile, f) # 0
  <2> DEFINE S == Process \X Fds
             t == [x \in S |-> ofile[x[1]][x[2]]]
  <2>1. <<p, d>> \in S /\ t[<<p, d>>] \in {f} /\ IsFiniteSet(S)
    BY ZenonT(30), <1>2, Finite
  <2> HIDE DEF S, t
  <2> QED
    BY <2>1, CountZero DEF Descs, S, t
<1>3. ASSUME NEW h PROVE /\ \A p \in Process : h[p] = f => Held(h, f) # 0
                         /\ \A p, q \in Process : p # q /\ h[p] = f /\ h[q] = f => Held(h, f) >= 2
  BY ZenonT(30), CountZero, CountTwo DEF Held
<1> QED
  BY ZenonT(30), <1>1, <1>2, <1>3

(* They are numbers too.                                                   *)
LEMMA KindsInt == ASSUME NEW K PROVE Kinds(K) \in Nat
BY FtableAssumption, Finite, CountNat DEF Kinds

-----------------------------------------------------------------------------
(* A file that one process has in hand, with a count of one, is nobody     *)
(* else's.                                                                 *)
LEMMA Alone ==
  ASSUME FtableInv, NEW p \in Process, NEW f \in File, f \in {f0[p], f1[p]}, file[f].ref <= 1
  PROVE  /\ file[f].ref = 1
         /\ \A q \in Process, d \in Fds : ofile[q][d] # f
         /\ \A q \in Process : q # p => f \notin {f0[q], f1[q]}
<1>1. file[f].ref = Descs(ofile, f) + Held(f0, f) + Held(f1, f) /\ file[f].ref \in Nat
  BY ZenonT(30), RefsAre DEF FtableInv, FilesSound, FtableTypeOK, Entry
<1> DEFINE D == Descs(ofile, f)
           A == Held(f0, f)
           C == Held(f1, f)
<1>2. /\ D \in Nat /\ A \in Nat /\ C \in Nat
      /\ \A q \in Process, d \in Fds : ofile[q][d] = f => D # 0
      /\ \A q \in Process : f0[q] = f => A # 0
      /\ \A q \in Process : f1[q] = f => C # 0
      /\ \A x, q \in Process : x # q /\ f0[x] = f /\ f0[q] = f => A >= 2
      /\ \A x, q \in Process : x # q /\ f1[x] = f /\ f1[q] = f => C >= 2
  BY ZenonT(30), CountFacts
<1>3. file[f].ref = D + A + C
  BY ZenonT(30), <1>1
<1> HIDE DEF D, A, C
<1>4. A # 0 \/ C # 0
  BY ZenonT(30), <1>2
<1>5. /\ file[f].ref = 1 /\ D = 0
      /\ A = 0 \/ C = 0
      /\ ~(A >= 2) /\ ~(C >= 2)
  BY ONLY SMTT(60), <1>1, <1>2, <1>3, <1>4, file[f].ref <= 1
<1> QED
  BY ONLY ZenonT(30), <1>2, <1>5, f \in {f0[p], f1[p]}, p \in Process

(* What a step of p has to show of the other processes' hands.             *)
LEMMA HandStep ==
  ASSUME FtableTypeOK, HandOK, NEW p \in Process, HandAt(p)',
         \A q \in Process : q # p => /\ call'[q] = call[q] /\ f0'[q] = f0[q]
                                     /\ f1'[q] = f1[q] /\ ff'[q] = ff[q],
         \A q \in Process, f \in File :
           q # p /\ f \in {f0[q], f1[q]} /\ Fresh(f) => Fresh(f)'
  PROVE  HandOK'
<1> SUFFICES ASSUME NEW q \in Process, q # p PROVE HandAt(q)'
  BY ZenonT(30) DEF HandOK
<1>1. HandAt(q) /\ f0[q] \in File \cup {0} /\ f1[q] \in File \cup {0}
  BY ZenonT(30) DEF HandOK, FtableTypeOK
<1>2. /\ f0[q] # 0 /\ Fresh(f0[q]) => Fresh(f0[q])'
      /\ f1[q] # 0 /\ Fresh(f1[q]) => Fresh(f1[q])'
  BY ZenonT(30), <1>1
<1> QED
  BY ZenonT(30), <1>1, <1>2 DEF HandAt, Fresh

(* A step that types no entry and closes no object.                        *)
LEMMA SameKinds ==
  ASSUME FtableInv, FtableTypeOK', UNCHANGED <<ff, pipes, iref>>,
         \A f \in File : /\ file'[f].type = file[f].type
                         /\ file'[f].obj = file[f].obj /\ file'[f].end = file[f].end
  PROVE  InodesExact' /\ EndsExact' /\ PagesOK'
<1>1. ASSUME NEW f \in File PROVE file[f] \in Entry /\ file'[f] \in Entry
  BY ZenonT(30) DEF FtableInv, FtableTypeOK
<1>2. \A f \in File : file'[f] \in Inodes <=> file[f] \in Inodes
  BY ZenonT(30), <1>1 DEF Inodes
<1>3. ASSUME NEW g, NEW e
      PROVE  \A f \in File : file'[f] \in EndsOf(g, e) <=> file[f] \in EndsOf(g, e)
  BY ZenonT(30), <1>1 DEF EndsOf, IsEnd
<1>4. Kinds(Inodes)' = Kinds(Inodes)
  <2>1. Count(File, file', Inodes) = Count(File, file, Inodes)
    BY ZenonT(30), <1>2, CountSame
  <2> QED
    BY ZenonT(30), <2>1 DEF Kinds
<1>5. ASSUME NEW g, NEW e PROVE Kinds(EndsOf(g, e))' = Kinds(EndsOf(g, e))
  <2>1. Count(File, file', EndsOf(g, e)) = Count(File, file, EndsOf(g, e))
    BY ZenonT(30), <1>3, CountSame
  <2> QED
    BY ZenonT(30), <2>1 DEF Kinds
<1>6. InodesExact' /\ EndsExact'
  BY ZenonT(30), <1>4, <1>5, KindsAre, KindsAreNext DEF FtableInv, FilesSound
<1>7. PagesOK'
  BY ZenonT(30) DEF FtableInv, PagesOK
<1> QED
  BY ZenonT(30), <1>6, <1>7

(* A step that changes one entry, or one pending close, or both.           *)
LEMMA KindChange ==
  ASSUME NEW f \in File, NEW p \in Process, NEW K,
         \A g \in File : g # f => file'[g] = file[g],
         \A q \in Process : q # p => ff'[q] = ff[q]
  PROVE  Kinds(K)' = Kinds(K) + In(file'[f], K) - In(file[f], K)
                              + In(ff'[p], K) - In(ff[p], K)
<1>1. Count(File, file', K) = Count(File, file, K) + In(file'[f], K) - In(file[f], K)
  BY ONLY SMTT(60), Finite, CountChange, f \in File, \A g \in File : g # f => file'[g] = file[g] DEF In
<1>2. Count(Process, ff', K) = Count(Process, ff, K) + In(ff'[p], K) - In(ff[p], K)
  BY ONLY SMTT(60), FtableAssumption, CountChange, p \in Process, \A q \in Process : q # p => ff'[q] = ff[q] DEF In
<1>3. Count(File, file, K) \in Nat /\ Count(Process, ff, K) \in Nat
  BY ZenonT(30), FtableAssumption, Finite, CountNat
<1> QED
  BY ONLY SMTT(60), <1>1, <1>2, <1>3 DEF Kinds, In, Is

(* The count of one entry changes.                                         *)
LEMMA RefSet ==
  ASSUME NEW t \in [File -> Entry], NEW f \in File, NEW v \in Nat, NEW u,
         \A g \in File : u[g] = IF g = f THEN [t[f] EXCEPT !.ref = v] ELSE t[g]
  PROVE  \A g \in File : RefMoved(t, u, f, v, g)
<1> DEFINE x == [t[f] EXCEPT !.ref = v]
<1>1. t[f] \in Entry
  BY ZenonT(30)
<1>2. /\ x \in Entry /\ x.ref = v /\ x.type = t[f].type /\ x.obj = t[f].obj /\ x.end = t[f].end
  BY ONLY ZenonT(30), <1>1, v \in Nat DEF Entry
<1> HIDE DEF x
<1> QED
  BY ZenonT(30), <1>2 DEF RefMoved, x

(* Only the pending closes change.                                         *)
LEMMA PendingChange ==
  ASSUME NEW p \in Process, NEW K, file' = file, \A q \in Process : q # p => ff'[q] = ff[q]
  PROVE  Kinds(K)' = Kinds(K) + In(ff'[p], K) - In(ff[p], K)
<1>1. Count(Process, ff', K) = Count(Process, ff, K) + In(ff'[p], K) - In(ff[p], K)
  BY ONLY SMTT(60), FtableAssumption, CountChange, p \in Process, \A q \in Process : q # p => ff'[q] = ff[q] DEF In
<1>2. Count(File, file, K) \in Nat /\ Count(Process, ff, K) \in Nat
  BY ZenonT(30), FtableAssumption, Finite, CountNat
<1> QED
  BY SMTT(60), <1>1, <1>2 DEF Kinds, In

(* The call moves on and the tables stay.                                  *)
LEMMA TableKept ==
  ASSUME FtableInv, NEW p \in Process, NEW label \in {"user", "close"},
         Goto(p, label), HandAt(p)', UNCHANGED <<file, ofile, f0, f1, ff, pipes, iref>>
  PROVE  FtableInv'
<1>1. FtableTypeOK'
  BY ZenonT(30) DEF FtableInv, FtableTypeOK, Labels, Goto
<1>2. HandOK'
  <2>1. \A q \in Process : q # p => /\ call'[q] = call[q] /\ f0'[q] = f0[q]
                                    /\ f1'[q] = f1[q] /\ ff'[q] = ff[q]
    BY ZenonT(30) DEF Goto, FtableInv, FtableTypeOK
  <2>2. \A g \in File : Fresh(g) => Fresh(g)'
    BY ZenonT(30) DEF Fresh
  <2> QED
    BY ZenonT(30), <2>1, <2>2, HandStep DEF FtableInv
<1>3. FilesSound' /\ PagesOK'
  BY ZenonT(30) DEF FtableInv, FilesSound, RefsExact, InodesExact, EndsExact, FreeEntryUntyped,
     PagesOK, Descriptors
<1> QED
  BY ZenonT(30), <1>1, <1>2, <1>3 DEF FtableInv

-----------------------------------------------------------------------------
(* open() and pipe() take their first entry: it is untyped, as every free  *)
(* entry is, and nobody else has it in hand.                               *)
LEMMA FirstInv ==
  ASSUME FtableInv, NEW p \in Process, NEW label \in {"open", "pipe1"},
         Calling(p), Goto(p, label), \E f \in File : Alloc(f, f0, p),
         UNCHANGED <<ofile, alive, f1, ff, pipes, iref>>
  PROVE  FtableInv'
<1>1. PICK f \in File : /\ file[f].ref = 0
                        /\ file' = [file EXCEPT ![f].ref = 1]
                        /\ f0' = [f0 EXCEPT ![p] = f]
  BY ZenonT(30) DEF Alloc, filealloc
<1>2. file[f].type = "none" /\ f0[p] = 0 /\ f1[p] = 0 /\ ff[p].type = "none"
  BY ZenonT(30), <1>1 DEF FtableInv, FilesSound, FreeEntryUntyped, HandOK, HandAt, Calling
<1>9. \A g \in File : file'[g] = IF g = f THEN [file[f] EXCEPT !.ref = 1] ELSE file[g]
  BY ZenonT(30), <1>1 DEF FtableInv, FtableTypeOK
<1>10. file \in [File -> Entry] /\ 1 \in Nat
  BY ZenonT(30) DEF FtableInv, FtableTypeOK
<1>4. \A g \in File : /\ file'[g] \in Entry
                      /\ file'[g].type = file[g].type
                      /\ file'[g].obj = file[g].obj /\ file'[g].end = file[g].end
                      /\ file'[g].ref = IF g = f THEN 1 ELSE file[g].ref
  <2>1. \A g \in File : RefMoved(file, file', f, 1, g)
    BY ONLY ZenonT(30), <1>9, <1>10, RefSet, f \in File
  <2> QED
    BY ONLY ZenonT(30), <2>1 DEF RefMoved
<1>3. FtableTypeOK'
  BY ZenonT(30), <1>1, <1>4 DEF FtableInv, FtableTypeOK, Labels, Goto
<1>5. HandOK'
  <2>1. call' = [call EXCEPT ![p] = label] /\ f0'[p] = f /\ f1'[p] = 0 /\ f # 0
    BY <1>1, <1>2 DEF Goto, FtableInv, FtableTypeOK, File
  <2>2. HandAt(p)'
    BY ZenonT(30), <1>2, <1>4, <2>1 DEF HandAt, Fresh, FtableInv, FtableTypeOK
  <2>3. \A q \in Process, g \in File :
          q # p /\ g \in {f0[q], f1[q]} /\ Fresh(g) => Fresh(g)'
    BY <1>1, <1>4 DEF Fresh
  <2>4. \A q \in Process : q # p => /\ call'[q] = call[q] /\ f0'[q] = f0[q]
                                    /\ f1'[q] = f1[q] /\ ff'[q] = ff[q]
    BY ZenonT(30), <1>1, <2>1 DEF FtableInv, FtableTypeOK
  <2> QED
    BY ONLY ZenonT(30), <2>2, <2>3, <2>4, HandStep, p \in Process, FtableInv DEF FtableInv
<1>6. RefsExact'
  <2> SUFFICES ASSUME NEW g \in File
               PROVE  file'[g].ref = Descs(ofile', g) + Held(f0', g) + Held(f1', g)
    BY ZenonT(30), RefsAre
  <2>1. file[g].ref = Descs(ofile, g) + Held(f0, g) + Held(f1, g)
    BY ZenonT(30), RefsAre DEF FtableInv, FilesSound
  <2>4. f0'[p] = f /\ \A q \in Process : q # p => f0'[q] = f0[q]
    BY ZenonT(30), <1>1 DEF FtableInv, FtableTypeOK
  <2>2. HeldMoved(f0, f0', p, g)
    BY ONLY ZenonT(30), <2>4, HeldChange, p \in Process
  <2>3. Descs(ofile, g) \in Nat /\ Held(f0, g) \in Nat /\ Held(f1, g) \in Nat /\ g # 0
    BY SMTT(60), CountFacts DEF File
  <2> QED
    BY SMTT(60), <1>1, <1>2, <1>4, <2>1, <2>2, <2>3, <2>4 DEF Is, HeldMoved, DescMoved
<1>7. FreeEntryUntyped'
  BY <1>4 DEF FtableInv, FilesSound, FreeEntryUntyped
<1>8. InodesExact' /\ EndsExact' /\ PagesOK'
  BY ZenonT(30), <1>3, <1>4, SameKinds
<1> QED
  BY ZenonT(30), <1>3, <1>5, <1>6, <1>7, <1>8 DEF FtableInv, FilesSound

(* open() gives its entry to a descriptor and types it.                    *)
LEMMA OpenFdInv ==
  ASSUME FtableInv, NEW p \in Process, OpenFd(p)
  PROVE  FtableInv'
<1>1. CASE Goto(p, "close") /\ UNCHANGED <<file, ofile, f0, f1, ff, pipes, iref>>
  BY ZenonT(30), <1>1, TableKept DEF HandAt, Goto, FtableInv, FtableTypeOK
<1>2. ASSUME NEW d \in Fds, fdalloc(ofile[p], d),
             ofile' = [ofile EXCEPT ![p][d] = f0[p]],
             file' = [file EXCEPT ![f0[p]].type = "inode"],
             iref' = iref + 1, f0' = [f0 EXCEPT ![p] = 0], Goto(p, "user")
      PROVE  FtableInv'
  <2> DEFINE f == f0[p]
  <2>1. /\ f \in File /\ Fresh(f) /\ f1[p] = 0 /\ ff[p].type = "none"
        /\ UNCHANGED <<f1, ff, pipes>> /\ ofile[p][d] = 0
    BY ZenonT(30), <1>2 DEF OpenFd, FtableInv, FtableTypeOK, HandOK, HandAt, fdalloc
  <2>2. FtableTypeOK'
    <3>4. file[f] \in Entry
      BY ZenonT(30), <2>1 DEF FtableInv, FtableTypeOK
    <3>1. [file[f] EXCEPT !.type = "inode"] \in Entry
      BY ONLY ZenonT(30), <3>4 DEF Entry
    <3>2. file' \in [File -> Entry]
      BY ZenonT(30), <1>2, <2>1, <3>1 DEF FtableInv, FtableTypeOK
    <3>3. ofile' \in [Process -> [Fds -> File \cup {0}]]
      BY ZenonT(30), <1>2, <2>1 DEF FtableInv, FtableTypeOK
    <3> QED
      BY <1>2, <2>1, <3>2, <3>3 DEF FtableInv, FtableTypeOK, Labels, Goto
  <2>3. /\ \A g \in File : g # f => file'[g] = file[g]
        /\ file'[f].type = "inode" /\ file'[f].ref = 1 /\ file[f] \in Entry /\ file'[f] \in Entry
        /\ \A g \in File : file'[g].ref = file[g].ref
    <3>1. \A g \in File : file'[g] = IF g = f THEN [file[f] EXCEPT !.type = "inode"] ELSE file[g]
      BY ZenonT(30), <1>2, <2>1 DEF FtableInv, FtableTypeOK
    <3>2. file[f] \in Entry /\ file'[f] \in Entry
      BY ZenonT(30), <2>1, <2>2 DEF FtableInv, FtableTypeOK
    <3>3. LET x == [file[f] EXCEPT !.type = "inode"] IN x.type = "inode" /\ x.ref = file[f].ref
      BY ONLY ZenonT(30), <3>2 DEF Entry
    <3> QED
      BY ONLY ZenonT(30), <2>1, <3>1, <3>2, <3>3 DEF Fresh
  <2>4. \A q \in Process : q # p => f \notin {f0[q], f1[q]}
    BY <2>1, Alone DEF Fresh
  <2>5. HandOK'
    <3>1. call' = [call EXCEPT ![p] = "user"] /\ f0'[p] = 0 /\ f1'[p] = 0
      BY ZenonT(30), <1>2, <2>1 DEF Goto, FtableInv, FtableTypeOK
    <3>2. HandAt(p)'
      BY ZenonT(30), <2>1, <3>1 DEF HandAt, FtableInv, FtableTypeOK
    <3>3. \A q \in Process, g \in File :
            q # p /\ g \in {f0[q], f1[q]} /\ Fresh(g) => Fresh(g)'
      BY ZenonT(30), <2>3, <2>4 DEF Fresh
    <3>4. \A q \in Process : q # p => /\ call'[q] = call[q] /\ f0'[q] = f0[q]
                                      /\ f1'[q] = f1[q] /\ ff'[q] = ff[q]
      BY ZenonT(30), <1>2, <2>1, <3>1 DEF FtableInv, FtableTypeOK
    <3> QED
      BY ONLY ZenonT(30), <3>2, <3>3, <3>4, HandStep, p \in Process, FtableInv DEF FtableInv
  <2>6. RefsExact'
    <3> SUFFICES ASSUME NEW g \in File
                 PROVE  file'[g].ref = Descs(ofile', g) + Held(f0', g) + Held(f1', g)
      BY ZenonT(30), RefsAre
    <3>1. file[g].ref = Descs(ofile, g) + Held(f0, g) + Held(f1, g)
      BY ZenonT(30), RefsAre DEF FtableInv, FilesSound
    <3>5. f0'[p] = 0 /\ \A q \in Process : q # p => f0'[q] = f0[q]
      BY ZenonT(30), <1>2 DEF FtableInv, FtableTypeOK
    <3>2. HeldMoved(f0, f0', p, g)
      BY ONLY ZenonT(30), <3>5, HeldChange, p \in Process
    <3>6. /\ ofile[p][d] = 0 /\ ofile'[p][d] = f
          /\ \A q \in Process, z \in Fds : q # p \/ z # d => ofile'[q][z] = ofile[q][z]
      BY ZenonT(30), <1>2, <2>1 DEF FtableInv, FtableTypeOK
    <3>3. DescMoved(ofile, ofile', p, d, g)
      BY ONLY ZenonT(30), <3>6, DescChange, p \in Process, d \in Fds
    <3>4. Descs(ofile, g) \in Nat /\ Held(f0, g) \in Nat /\ Held(f1, g) \in Nat /\ g # 0
      BY SMTT(60), CountFacts DEF File
    <3> QED
      BY SMTT(60), <2>1, <2>3, <3>1, <3>2, <3>3, <3>4, <3>5, <3>6 DEF Is, HeldMoved, DescMoved
  <2>7. FreeEntryUntyped' /\ PagesOK'
    BY SMTT(60), <2>1, <2>3 DEF FtableInv, FilesSound, FreeEntryUntyped, PagesOK
  <2>8. ASSUME NEW K PROVE Kinds(K)' = Kinds(K) + In(file'[f], K) - In(file[f], K)
    <3>1. Kinds(K)' = Kinds(K) + In(file'[f], K) - In(file[f], K)
                               + In(ff'[p], K) - In(ff[p], K)
      BY ZenonT(30), <2>1, <2>3, KindChange
    <3> QED
      BY SMTT(60), <2>1, <3>1, KindsInt DEF In, Is
  <2>9. InodesExact' /\ EndsExact'
    <3>1. file'[f] \in Inodes /\ file[f] \notin Inodes
      BY ZenonT(30), <2>1, <2>3 DEF Inodes, Fresh
    <3>2. \A g, e : file'[f] \notin EndsOf(g, e) /\ file[f] \notin EndsOf(g, e)
      BY ZenonT(30), <2>1, <2>3 DEF EndsOf, IsEnd, Fresh
    <3>3. iref' = Kinds(Inodes)'
      BY SMTT(60), <1>2, <2>8, <3>1, KindsAre, KindsInt DEF FtableInv, FilesSound, In, Is
    <3>4. ASSUME NEW g, NEW e PROVE Kinds(EndsOf(g, e))' = Kinds(EndsOf(g, e))
      BY SMTT(60), <2>8, <3>2, KindsInt DEF In, Is
    <3> QED
      BY SMTT(60), <2>1, <2>2, <3>3, <3>4, KindsAre, KindsAreNext DEF FtableInv, FilesSound
  <2> QED
    BY ZenonT(30), <2>2, <2>5, <2>6, <2>7, <2>9 DEF FtableInv, FilesSound
<1> QED
  BY ZenonT(30), <1>1, <1>2 DEF OpenFd

(* pipe() takes its second entry, or has to give the first one back.       *)
LEMMA PipeSecondInv ==
  ASSUME FtableInv, NEW p \in Process, PipeSecond(p)
  PROVE  FtableInv'
<1>1. CASE Full /\ Goto(p, "close") /\ UNCHANGED <<file, f1>>
  <2>1. HandAt(p)' /\ UNCHANGED <<file, ofile, f0, f1, ff, pipes, iref>>
    BY ZenonT(30), <1>1 DEF PipeSecond, HandAt, Goto, FtableInv, FtableTypeOK
  <2> QED
    BY ZenonT(30), <1>1, <2>1, TableKept
<1>2. ASSUME NEW f \in File, Alloc(f, f1, p), Goto(p, "pipe2") PROVE FtableInv'
  <2>1. /\ file[f].ref = 0 /\ f1'[p] = f /\ \A q \in Process : q # p => f1'[q] = f1[q]
        /\ \A g \in File : file'[g] = IF g = f THEN [file[f] EXCEPT !.ref = 1] ELSE file[g]
        /\ file \in [File -> Entry] /\ file' = [file EXCEPT ![f].ref = 1] /\ 1 \in Nat
        /\ f1' = [f1 EXCEPT ![p] = f]
    BY ZenonT(30), <1>2 DEF Alloc, filealloc, FtableInv, FtableTypeOK
  <2>2. /\ file[f].type = "none" /\ f0[p] \in File /\ f1[p] = 0 /\ Fresh(f0[p])
        /\ ff[p].type = "none" /\ UNCHANGED <<ofile, f0, ff, pipes, iref>>
    BY <2>1 DEF FtableInv, FtableTypeOK, FilesSound, FreeEntryUntyped, HandOK, HandAt, PipeSecond
  <2>3. \A g \in File : /\ file'[g] \in Entry
                        /\ file'[g].type = file[g].type
                        /\ file'[g].obj = file[g].obj /\ file'[g].end = file[g].end
                        /\ file'[g].ref = IF g = f THEN 1 ELSE file[g].ref
    <3>1. \A g \in File : RefMoved(file, file', f, 1, g)
      BY ONLY ZenonT(30), <2>1, RefSet, f \in File
    <3> QED
      BY ONLY ZenonT(30), <3>1 DEF RefMoved
  <2>4. FtableTypeOK'
    <3>1. file' \in [File -> Entry]
      BY ONLY ZenonT(30), <2>1, <2>3
    <3>2. f1' \in [Process -> File \cup {0}]
      BY ZenonT(30), <2>1 DEF FtableInv, FtableTypeOK
    <3>3. call' \in [Process -> Labels]
      BY ZenonT(30), <1>2 DEF FtableInv, FtableTypeOK, Labels, Goto
    <3> QED
      BY ONLY ZenonT(30), <2>2, <3>1, <3>2, <3>3, FtableInv DEF FtableInv, FtableTypeOK
  <2>5. HandOK'
    <3>1. call' = [call EXCEPT ![p] = "pipe2"] /\ f # 0 /\ f0[p] # 0 /\ f0[p] # f
      BY SMTT(60), <1>2, <2>1, <2>2 DEF Goto, File, Fresh
    <3>2. HandAt(p)'
      BY SMTT(60), <2>1, <2>2, <2>3, <3>1 DEF HandAt, Fresh, FtableInv, FtableTypeOK
    <3>3. \A q \in Process, g \in File :
            q # p /\ g \in {f0[q], f1[q]} /\ Fresh(g) => Fresh(g)'
      BY SMTT(60), <2>1, <2>3 DEF Fresh
    <3>4. \A q \in Process : q # p => /\ call'[q] = call[q] /\ f0'[q] = f0[q]
                                      /\ f1'[q] = f1[q] /\ ff'[q] = ff[q]
      BY ZenonT(30), <2>1, <2>2, <3>1 DEF FtableInv, FtableTypeOK
    <3> QED
      BY ONLY ZenonT(30), <3>2, <3>3, <3>4, HandStep, p \in Process, FtableInv DEF FtableInv
  <2>6. RefsExact'
    <3> SUFFICES ASSUME NEW g \in File
                 PROVE  file'[g].ref = Descs(ofile', g) + Held(f0', g) + Held(f1', g)
      BY ZenonT(30), RefsAre
    <3>1. file[g].ref = Descs(ofile, g) + Held(f0, g) + Held(f1, g)
      BY ZenonT(30), RefsAre DEF FtableInv, FilesSound
    <3>2. HeldMoved(f1, f1', p, g)
      BY ONLY ZenonT(30), <2>1, HeldChange, p \in Process
    <3>3. Descs(ofile, g) \in Nat /\ Held(f0, g) \in Nat /\ Held(f1, g) \in Nat /\ g # 0
      BY SMTT(60), CountFacts DEF File
    <3> QED
      BY SMTT(60), <2>1, <2>2, <2>3, <3>1, <3>2, <3>3 DEF Is, HeldMoved, DescMoved
  <2>7. FreeEntryUntyped'
    BY <2>3 DEF FtableInv, FilesSound, FreeEntryUntyped
  <2>8. InodesExact' /\ EndsExact' /\ PagesOK'
    BY ZenonT(30), <2>2, <2>3, <2>4, SameKinds
  <2> QED
    BY ZenonT(30), <2>4, <2>5, <2>6, <2>7, <2>8 DEF FtableInv, FilesSound
<1> QED
  BY ZenonT(30), <1>1, <1>2 DEF PipeSecond

(* dup() counts its new descriptor; the file is not fresh, since it has    *)
(* one already.                                                            *)
LEMMA DupInv ==
  ASSUME FtableInv, NEW p \in Process, NEW d \in Fds, sys_dup(p, d)
  PROVE  FtableInv'
<1> DEFINE f == ofile[p][d]
<1>1. PICK z \in Fds : ofile[p][z] = 0 /\ ofile' = [ofile EXCEPT ![p][z] = f]
  BY ZenonT(30) DEF sys_dup, fdalloc
<1>2. /\ f \in File /\ file \in [File -> Entry] /\ file[f].ref \in Nat
      /\ UNCHANGED <<call, f0, f1, ff, pipes, iref>>
  BY SMTT(60) DEF sys_dup, FtableInv, FtableTypeOK, Entry
<1>3. /\ \A g \in File : file'[g] = IF g = f THEN [file[f] EXCEPT !.ref = file[f].ref + 1] ELSE file[g]
      /\ file[f].ref + 1 \in Nat
      /\ file' = [file EXCEPT ![f].ref = file[f].ref + 1]
  BY <1>2 DEF sys_dup, filedup
<1> HIDE DEF f
<1>4. \A g \in File : /\ file'[g] \in Entry
                      /\ file'[g].type = file[g].type
                      /\ file'[g].obj = file[g].obj /\ file'[g].end = file[g].end
                      /\ file'[g].ref = IF g = f THEN file[f].ref + 1 ELSE file[g].ref
  <2>1. \A g \in File : RefMoved(file, file', f, file[f].ref + 1, g)
    BY ONLY ZenonT(30), <1>2, <1>3, RefSet
  <2> QED
    BY ONLY ZenonT(30), <2>1 DEF RefMoved
<1>5. FtableTypeOK'
  BY ZenonT(30), <1>1, <1>2, <1>3, <1>4 DEF FtableInv, FtableTypeOK
<1>6. HandOK'
  <2>1. \A q \in Process, g \in File : g \in {f0[q], f1[q]} /\ Fresh(g) => Fresh(g)'
    <3> SUFFICES ASSUME NEW q \in Process, NEW g \in File, g \in {f0[q], f1[q]}, Fresh(g)
                 PROVE  g # f
      BY ZenonT(30), <1>4 DEF Fresh
    <3>1. ofile[p][d] # g
      BY Alone DEF Fresh
    <3> QED
      BY ZenonT(30), <3>1 DEF f
  <2>2. HandAt(p)'
    BY ZenonT(30), <1>2, <2>1 DEF FtableInv, HandOK, HandAt, FtableTypeOK
  <2> QED
    BY ONLY ZenonT(30), <1>2, <2>1, <2>2, HandStep, p \in Process, FtableInv DEF FtableInv
<1>7. RefsExact'
  <2> SUFFICES ASSUME NEW g \in File
               PROVE  file'[g].ref = Descs(ofile', g) + Held(f0', g) + Held(f1', g)
    BY ZenonT(30), RefsAre
  <2>1. file[g].ref = Descs(ofile, g) + Held(f0, g) + Held(f1, g)
    BY ZenonT(30), RefsAre DEF FtableInv, FilesSound
  <2>2. /\ ofile'[p][z] = f
        /\ \A q \in Process, y \in Fds : q # p \/ y # z => ofile'[q][y] = ofile[q][y]
    BY ZenonT(30), <1>1 DEF FtableInv, FtableTypeOK
  <2>3. DescMoved(ofile, ofile', p, z, g)
    BY ONLY ZenonT(30), <2>2, DescChange, p \in Process, z \in Fds
  <2>4. Descs(ofile, g) \in Nat /\ Held(f0, g) \in Nat /\ Held(f1, g) \in Nat /\ g # 0
    BY SMTT(60), CountFacts DEF File
  <2> QED
    BY SMTT(60), <1>1, <1>2, <1>4, <2>1, <2>2, <2>3, <2>4 DEF Is, HeldMoved, DescMoved
<1>8. FreeEntryUntyped'
  BY <1>2, <1>4 DEF FtableInv, FilesSound, FreeEntryUntyped
<1>9. InodesExact' /\ EndsExact' /\ PagesOK'
  BY ZenonT(30), <1>2, <1>4, <1>5, SameKinds
<1> QED
  BY ZenonT(30), <1>5, <1>6, <1>7, <1>8, <1>9 DEF FtableInv, FilesSound

(* A descriptor's reference goes into the hand of the process that closes  *)
(* it.                                                                     *)
LEMMA CloseInv ==
  ASSUME FtableInv, NEW p \in Process, NEW d \in Fds, Close(p, d)
  PROVE  FtableInv'
<1> DEFINE f == ofile[p][d]
<1>1. /\ f \in File /\ f0[p] = 0 /\ f1[p] = 0 /\ ff[p].type = "none"
      /\ ofile' = [ofile EXCEPT ![p][d] = 0] /\ f0' = [f0 EXCEPT ![p] = f]
      /\ call' = [call EXCEPT ![p] = "close"]
      /\ UNCHANGED <<file, f1, ff, pipes, iref>>
  BY DEF Close, Goto, FtableInv, FtableTypeOK, HandOK, HandAt
<1>2. FtableTypeOK'
  BY ZenonT(30), <1>1 DEF FtableInv, FtableTypeOK, Labels
<1>3. HandOK'
  <2>1. HandAt(p)'
    BY ZenonT(30), <1>1 DEF HandAt, FtableInv, FtableTypeOK
  <2>2. \A g \in File : Fresh(g) => Fresh(g)'
    BY ZenonT(30), <1>1 DEF Fresh
  <2>3. \A q \in Process : q # p => /\ call'[q] = call[q] /\ f0'[q] = f0[q]
                                    /\ f1'[q] = f1[q] /\ ff'[q] = ff[q]
    BY ZenonT(30), <1>1 DEF FtableInv, FtableTypeOK
  <2> QED
    BY ONLY ZenonT(30), <2>1, <2>2, <2>3, HandStep, p \in Process, FtableInv DEF FtableInv
<1>4. RefsExact'
  <2> SUFFICES ASSUME NEW g \in File
               PROVE  file'[g].ref = Descs(ofile', g) + Held(f0', g) + Held(f1', g)
    BY ZenonT(30), RefsAre
  <2>1. file[g].ref = Descs(ofile, g) + Held(f0, g) + Held(f1, g)
    BY ZenonT(30), RefsAre DEF FtableInv, FilesSound
  <2>2. /\ ofile'[p][d] = 0 /\ f0'[p] = ofile[p][d]
        /\ \A q \in Process, y \in Fds : q # p \/ y # d => ofile'[q][y] = ofile[q][y]
        /\ \A q \in Process : q # p => f0'[q] = f0[q]
    BY ZenonT(30), <1>1 DEF FtableInv, FtableTypeOK
  <2>3. DescMoved(ofile, ofile', p, d, g)
    BY ONLY ZenonT(30), <2>2, DescChange, p \in Process, d \in Fds
  <2>4. HeldMoved(f0, f0', p, g)
    BY ONLY ZenonT(30), <2>2, HeldChange, p \in Process
  <2>5. Descs(ofile, g) \in Nat /\ Held(f0, g) \in Nat /\ Held(f1, g) \in Nat /\ g # 0
    BY CountFacts DEF File
  <2> QED
    BY SMTT(60), <1>1, <2>1, <2>2, <2>3, <2>4, <2>5 DEF Is, HeldMoved, DescMoved
<1>5. FreeEntryUntyped'
  BY ZenonT(30), <1>1 DEF FtableInv, FilesSound, FreeEntryUntyped
<1>6. InodesExact' /\ EndsExact' /\ PagesOK'
  BY ZenonT(30), <1>1, <1>2, SameKinds
<1> QED
  BY ZenonT(30), <1>2, <1>3, <1>4, <1>5, <1>6 DEF FtableInv, FilesSound

(* What fileclose() does to the hands, whichever file it closes.           *)
LEMMA GivesUp ==
  ASSUME FtableInv, NEW p \in Process, fileclose(p), NEW g \in File
  PROVE  /\ InHand(p) \in File /\ InHand(p) \in {f0[p], f1[p]}
         /\ Held(f0', g) + Held(f1', g) = Held(f0, g) + Held(f1, g) - Is(InHand(p), g)
<1>1. /\ f0[p] \in File \cup {0} /\ f1[p] \in File \cup {0} /\ InHand(p) # 0
      /\ f0 \in [Process -> File \cup {0}] /\ f1 \in [Process -> File \cup {0}]
  BY ZenonT(30) DEF fileclose, FtableInv, FtableTypeOK
<1>2. InHand(p) \in File /\ InHand(p) \in {f0[p], f1[p]}
  BY ZenonT(30), <1>1 DEF InHand
<1>3. /\ Held(f0, g) \in Nat /\ Held(f1, g) \in Nat /\ g # 0
  BY SMTT(60), CountFacts DEF File
<1>4. CASE f0[p] # 0
  <2>1. f0'[p] = 0 /\ f1' = f1 /\ \A q \in Process : q # p => f0'[q] = f0[q]
    BY ZenonT(30), <1>1, <1>4 DEF fileclose
  <2>2. HeldMoved(f0, f0', p, g)
    BY ONLY ZenonT(30), <2>1, HeldChange, p \in Process
  <2> QED
    BY SMTT(60), <1>2, <1>3, <1>4, <2>1, <2>2 DEF HeldMoved, Is, InHand
<1>5. CASE f0[p] = 0
  <2>1. f1'[p] = 0 /\ f0' = f0 /\ \A q \in Process : q # p => f1'[q] = f1[q]
    BY ZenonT(30), <1>1, <1>5 DEF fileclose
  <2>2. HeldMoved(f1, f1', p, g)
    BY ONLY ZenonT(30), <2>1, HeldChange, p \in Process
  <2> QED
    BY SMTT(60), <1>2, <1>3, <1>5, <2>1, <2>2 DEF HeldMoved, Is, InHand
<1> QED
  BY ZenonT(30), <1>4, <1>5

(* fileclose() drops one reference, and takes over what the entry stands   *)
(* for when it was the last.                                               *)
LEMMA FilecloseInv ==
  ASSUME FtableInv, NEW p \in Process, fileclose(p)
  PROVE  FtableInv'
<1> DEFINE f == InHand(p)
<1>1. /\ f \in File /\ f \in {f0[p], f1[p]}
      /\ call[p] = "close" /\ ff[p].type = "none"
      /\ UNCHANGED <<ofile, call, pipes, iref>>
      /\ file \in [File -> Entry] /\ ff \in [Process -> Entry]
      /\ file[f] \in Entry /\ file[f].ref \in Nat /\ ff[p] \in Entry
  <2>1. f \in File /\ f \in {f0[p], f1[p]}
    <3>1. InHand(p) # 0 /\ f0[p] \in File \cup {0} /\ f1[p] \in File \cup {0}
      BY ZenonT(30) DEF fileclose, FtableInv, FtableTypeOK
    <3> QED
      BY ZenonT(30), <3>1 DEF InHand
  <2> HIDE DEF f
  <2>2. file \in [File -> Entry] /\ ff \in [Process -> Entry]
    BY ZenonT(30) DEF FtableInv, FtableTypeOK
  <2>3. file[f] \in Entry /\ ff[p] \in Entry
    BY ZenonT(30), <2>1, <2>2
  <2>4. file[f].ref \in Nat
    BY ONLY ZenonT(30), <2>3 DEF Entry
  <2> QED
    BY ZenonT(30), <2>1, <2>2, <2>3, <2>4 DEF fileclose
<1>2. /\ f0' \in [Process -> File \cup {0}] /\ f1' \in [Process -> File \cup {0}]
      /\ \A q \in Process : q # p => f0'[q] = f0[q] /\ f1'[q] = f1[q]
  BY ZenonT(30) DEF fileclose, FtableInv, FtableTypeOK
<1>3. HandAt(p)'
  BY ZenonT(30), <1>1 DEF HandAt
<1>4. ASSUME NEW g \in File
      PROVE  /\ file[g].ref = Descs(ofile, g) + Held(f0, g) + Held(f1, g)
             /\ Held(f0', g) + Held(f1', g) = Held(f0, g) + Held(f1, g) - Is(f, g)
             /\ Descs(ofile, g) \in Nat /\ Held(f0, g) \in Nat /\ Held(f1, g) \in Nat
             /\ Held(f0', g) \in Nat /\ Held(f1', g) \in Nat /\ Descs(ofile', g) = Descs(ofile, g)
  <2>1. file[g].ref = Descs(ofile, g) + Held(f0, g) + Held(f1, g)
    BY ZenonT(30), RefsAre DEF FtableInv, FilesSound
  <2>2. Held(f0', g) + Held(f1', g) = Held(f0, g) + Held(f1, g) - Is(f, g)
    BY ZenonT(30), GivesUp
  <2>3. Descs(ofile, g) \in Nat /\ Held(f0, g) \in Nat /\ Held(f1, g) \in Nat
    BY ZenonT(30), CountFacts
  <2>4. Held(f0', g) \in Nat /\ Held(f1', g) \in Nat
    BY ZenonT(30), FtableAssumption, CountNat DEF Held
  <2> QED
    BY ZenonT(30), <1>1, <2>1, <2>2, <2>3, <2>4
<1>5. ASSUME \A g \in File : file'[g].ref = file[g].ref - Is(f, g) PROVE RefsExact'
  <2> SUFFICES ASSUME NEW g \in File
               PROVE  file'[g].ref = Descs(ofile', g) + Held(f0', g) + Held(f1', g)
    BY ZenonT(30), RefsAre
  <2>1. file'[g].ref = file[g].ref - Is(f, g)
    BY ZenonT(30), <1>5
  <2>2. /\ file[g].ref = Descs(ofile, g) + Held(f0, g) + Held(f1, g)
        /\ Held(f0', g) + Held(f1', g) = Held(f0, g) + Held(f1, g) - Is(f, g)
        /\ Descs(ofile, g) \in Nat /\ Held(f0, g) \in Nat /\ Held(f1, g) \in Nat
        /\ Held(f0', g) \in Nat /\ Held(f1', g) \in Nat /\ Descs(ofile', g) = Descs(ofile, g)
    BY ZenonT(30), <1>4
  <2>3. Is(f, g) \in Int
    BY DEF Is
  <2> QED
    BY ONLY SMTT(60), <2>1, <2>2, <2>3
<1>6. CASE file[f].ref > 1
  <2>1. /\ \A g \in File : file'[g] = IF g = f THEN [file[f] EXCEPT !.ref = file[f].ref - 1] ELSE file[g]
        /\ file[f].ref - 1 \in Nat /\ ff' = ff
        /\ file' = [file EXCEPT ![f].ref = file[f].ref - 1]
    BY SMTT(60), <1>1, <1>6 DEF fileclose
  <2> HIDE DEF f
  <2>2. \A g \in File : RefMoved(file, file', f, file[f].ref - 1, g)
    BY ONLY ZenonT(30), <1>1, <2>1, RefSet
  <2>3. \A g \in File : /\ file'[g] \in Entry
                        /\ file'[g].type = file[g].type
                        /\ file'[g].obj = file[g].obj /\ file'[g].end = file[g].end
                        /\ file'[g].ref = IF g = f THEN file[f].ref - 1 ELSE file[g].ref
    BY ONLY ZenonT(30), <2>2 DEF RefMoved
  <2>4. FtableTypeOK'
    <3>1. file' \in [File -> Entry]
      BY ONLY ZenonT(30), <1>1, <2>1, <2>3
    <3> QED
      BY ONLY ZenonT(30), <1>1, <1>2, <2>1, <3>1, FtableInv DEF FtableInv, FtableTypeOK
  <2>5. HandOK'
    <3>1. \A g \in File : Fresh(g) => Fresh(g)'
      BY SMTT(60), <1>6, <2>3 DEF Fresh
    <3> QED
      BY ONLY ZenonT(30), <1>1, <1>2, <1>3, <2>1, <3>1, HandStep, p \in Process, FtableInv DEF FtableInv
  <2>6. RefsExact'
    <3>1. \A g \in File : file[g].ref \in Nat
      BY ZenonT(30), <1>1 DEF Entry
    <3>2. \A g \in File : file'[g].ref = file[g].ref - Is(f, g)
      BY SMTT(60), <2>3, <3>1 DEF Is
    <3> QED
      BY ZenonT(30), <1>5, <3>2
  <2>7. FreeEntryUntyped'
    <3>1. file'[f].ref # 0
      BY SMTT(60), <1>1, <1>6, <2>3
    <3> QED
      BY ZenonT(30), <2>3, <3>1 DEF FtableInv, FilesSound, FreeEntryUntyped
  <2>8. InodesExact' /\ EndsExact' /\ PagesOK'
    BY ZenonT(30), <1>1, <2>1, <2>3, <2>4, SameKinds
  <2> QED
    BY ZenonT(30), <2>4, <2>5, <2>6, <2>7, <2>8 DEF FtableInv, FilesSound
<1>7. CASE ~(file[f].ref > 1)
  <2>1. /\ file' = [file EXCEPT ![f] = FD_NONE] /\ ff' = [ff EXCEPT ![p] = file[f]]
        /\ file'[f] = FD_NONE /\ \A g \in File : g # f => file'[g] = file[g]
        /\ ff'[p] = file[f] /\ \A q \in Process : q # p => ff'[q] = ff[q]
    BY ZenonT(30), <1>1, <1>7 DEF fileclose
  <2>2. FD_NONE \in Entry /\ FD_NONE.type = "none" /\ FD_NONE.ref = 0
    BY ZenonT(30) DEF FD_NONE, Entry, Ends
  <2> HIDE DEF f
  <2>3. file[f].ref = 1 /\ \A q \in Process : q # p => f \notin {f0[q], f1[q]}
    <3>1. file[f].ref <= 1
      BY SMTT(60), <1>1, <1>7
    <3> QED
      BY ZenonT(30), <1>1, <3>1, Alone
  <2>4. FtableTypeOK'
    <3>1. file' \in [File -> Entry] /\ ff' \in [Process -> Entry]
      BY ONLY ZenonT(30), <1>1, <2>1, <2>2
    <3> QED
      BY ONLY ZenonT(30), <1>1, <1>2, <3>1, FtableInv DEF FtableInv, FtableTypeOK
  <2>5. HandOK'
    <3>1. \A q \in Process, g \in File :
            q # p /\ g \in {f0[q], f1[q]} /\ Fresh(g) => Fresh(g)'
      BY ZenonT(30), <2>1, <2>3 DEF Fresh
    <3> QED
      BY ONLY ZenonT(30), <1>1, <1>2, <1>3, <2>1, <3>1, HandStep, p \in Process, FtableInv DEF FtableInv
  <2>6. RefsExact'
    <3>1. \A g \in File : file[g].ref \in Nat
      BY SMTT(60), <1>1 DEF Entry
    <3>2. \A g \in File : file'[g].ref = file[g].ref - Is(f, g)
      BY SMTT(60), <2>1, <2>2, <2>3, <3>1 DEF Is
    <3> QED
      BY SMTT(60), <1>5, <3>2
  <2>7. FreeEntryUntyped' /\ PagesOK'
    <3>1. FreeEntryUntyped'
      BY ZenonT(30), <2>1, <2>2 DEF FtableInv, FilesSound, FreeEntryUntyped
    <3>2. PagesOK'
      BY ZenonT(30), <1>1, <2>1, <2>2 DEF FtableInv, PagesOK
    <3> QED
      BY ZenonT(30), <3>1, <3>2
  <2>8. ASSUME NEW K, FD_NONE \notin K, ff[p] \notin K PROVE Kinds(K)' = Kinds(K)
    <3>1. Kinds(K)' = Kinds(K) + In(file'[f], K) - In(file[f], K) + In(ff'[p], K) - In(ff[p], K)
      BY ZenonT(30), <1>1, <2>1, KindChange
    <3> QED
      BY SMTT(60), <2>1, <2>8, <3>1, KindsInt DEF In
  <2>9. InodesExact' /\ EndsExact'
    <3>1. FD_NONE \notin Inodes /\ ff[p] \notin Inodes
      BY ZenonT(30), <1>1, <2>2 DEF Inodes
    <3>2. \A g, e : FD_NONE \notin EndsOf(g, e) /\ ff[p] \notin EndsOf(g, e)
      BY ZenonT(30), <1>1, <2>2 DEF EndsOf, IsEnd
    <3>3. Kinds(Inodes)' = Kinds(Inodes)
      BY ZenonT(30), <2>8, <3>1
    <3>4. ASSUME NEW g, NEW e PROVE Kinds(EndsOf(g, e))' = Kinds(EndsOf(g, e))
      BY ZenonT(30), <2>8, <3>2
    <3> QED
      BY ZenonT(30), <1>1, <2>4, <3>3, <3>4, KindsAre, KindsAreNext DEF FtableInv, FilesSound
  <2> QED
    BY ZenonT(30), <2>4, <2>5, <2>6, <2>7, <2>9 DEF FtableInv, FilesSound
<1> QED
  BY ZenonT(30), <1>6, <1>7

(* pipeclose() or iput() gives up the object, which the pending close      *)
(* alone stood for.                                                        *)
LEMMA CloseObjectInv ==
  ASSUME FtableInv, NEW p \in Process, CloseObject(p)
  PROVE  FtableInv'
<1> DEFINE o == ff[p]
<1>1. /\ call[p] = "close" /\ o.type # "none" /\ o \in Entry
      /\ ff' = [ff EXCEPT ![p] = FD_NONE]
      /\ UNCHANGED <<file, ofile, call, f0, f1>>
      /\ ff'[p] = FD_NONE /\ \A q \in Process : q # p => ff'[q] = ff[q]
  BY ZenonT(30) DEF CloseObject, FtableInv, FtableTypeOK
<1>2. FD_NONE \in Entry /\ FD_NONE.type = "none"
  BY ZenonT(30) DEF FD_NONE, Entry, Ends
<1>3. /\ o.type = "pipe" => /\ o.obj \in Pages /\ o.end \in Ends /\ iref' = iref
                            /\ pipes' = [pipes EXCEPT ![o.obj] = @ \ {o.end}]
      /\ o.type # "pipe" => o.type = "inode" /\ iref' = iref - 1 /\ pipes' = pipes
  BY ZenonT(30), <1>1 DEF CloseObject, FtableInv, PagesOK, Entry
<1>4. FtableTypeOK'
  <2>1. ff' \in [Process -> Entry]
    BY ZenonT(30), <1>1, <1>2 DEF FtableInv, FtableTypeOK
  <2>2. pipes' \in [Pages -> SUBSET Ends] /\ iref' \in Int
    BY SMTT(60), <1>3 DEF FtableInv, FtableTypeOK
  <2> QED
    BY ONLY ZenonT(30), <1>1, <2>1, <2>2, FtableInv DEF FtableInv, FtableTypeOK
<1>5. HandOK'
  <2>1. HandAt(p)'
    BY ZenonT(30), <1>1 DEF HandAt
  <2>2. \A g \in File : Fresh(g) => Fresh(g)'
    BY ZenonT(30), <1>1 DEF Fresh
  <2> QED
    BY ONLY ZenonT(30), <1>1, <2>1, <2>2, HandStep, p \in Process, FtableInv DEF FtableInv
<1>6. RefsExact' /\ FreeEntryUntyped' /\ PagesOK'
  <2>1. RefsExact' /\ FreeEntryUntyped'
    BY ZenonT(30), <1>1 DEF FtableInv, FilesSound, RefsExact, FreeEntryUntyped, Descriptors
  <2>2. PagesOK'
    BY ZenonT(30), <1>1, <1>2 DEF FtableInv, PagesOK
  <2> QED
    BY ZenonT(30), <2>1, <2>2
<1> HIDE DEF o
<1>7. ASSUME NEW K, FD_NONE \notin K PROVE Kinds(K)' = Kinds(K) - In(o, K)
  <2>1. Kinds(K)' = Kinds(K) + In(ff'[p], K) - In(ff[p], K)
    BY ZenonT(30), <1>1, PendingChange
  <2> QED
    BY SMTT(60), <1>1, <1>7, <2>1, KindsInt DEF In, o
<1>8. InodesExact'
  <2>1. FD_NONE \notin Inodes /\ (o \in Inodes <=> o.type = "inode")
    BY ZenonT(30), <1>1, <1>2 DEF Inodes
  <2>2. iref = Kinds(Inodes) /\ Kinds(Inodes)' = Kinds(Inodes) - In(o, Inodes)
    BY ZenonT(30), <1>7, <2>1, KindsAre DEF FtableInv, FilesSound
  <2>3. iref' = Kinds(Inodes)'
    BY SMTT(60), <1>1, <1>3, <2>1, <2>2, KindsInt DEF In
  <2> QED
    BY ZenonT(30), <1>4, <2>3, KindsAreNext
<1>9. EndsExact'
  <2> SUFFICES ASSUME NEW g \in Pages, NEW e \in Ends
               PROVE  Kinds(EndsOf(g, e))' = IF e \in pipes'[g] THEN 1 ELSE 0
    BY ZenonT(30), <1>4, KindsAreNext
  <2> DEFINE K == EndsOf(g, e)
  <2>1. FD_NONE \notin K /\ (o \in K <=> o.type = "pipe" /\ o.obj = g /\ o.end = e)
    BY ZenonT(30), <1>1, <1>2 DEF EndsOf, IsEnd
  <2>2. Kinds(K) = IF e \in pipes[g] THEN 1 ELSE 0
    BY ZenonT(30), KindsAre DEF FtableInv, FilesSound
  <2> HIDE DEF K
  <2>3. Kinds(K)' = Kinds(K) - In(o, K)
    BY ZenonT(30), <1>7, <2>1
  <2>4. Kinds(K)' \in Nat
    BY SMTT(60), FtableAssumption, Finite, CountNat DEF Kinds
  <2>5. CASE o \in K
    <3>1. Kinds(K)' = 0
      BY SMTT(60), <2>2, <2>3, <2>4, <2>5 DEF In
    <3>2. e \notin pipes'[g]
      BY SMTT(60), <1>3, <2>1, <2>5 DEF FtableInv, FtableTypeOK
    <3> QED
      BY ZenonT(30), <3>1, <3>2 DEF K
  <2>6. CASE o \notin K
    <3>1. Kinds(K)' = Kinds(K)
      BY SMTT(60), <2>2, <2>3, <2>6 DEF In
    <3>2. e \in pipes'[g] <=> e \in pipes[g]
      BY ZenonT(30), <1>3, <2>1, <2>6 DEF FtableInv, FtableTypeOK
    <3> QED
      BY ZenonT(30), <2>2, <3>1, <3>2 DEF K
  <2> QED
    BY ZenonT(30), <2>5, <2>6
<1> QED
  BY ZenonT(30), <1>4, <1>5, <1>6, <1>8, <1>9 DEF FtableInv, FilesSound

(* A call that has nothing left to close returns.                          *)
LEMMA ClosesInv ==
  ASSUME FtableInv, NEW p \in Process, Closes(p)
  PROVE  FtableInv'
<1>1. /\ f0[p] = 0 /\ f1[p] = 0 /\ ff[p].type = "none" /\ Goto(p, "user")
      /\ UNCHANGED <<file, ofile, f0, f1, ff, pipes, iref>>
  BY ZenonT(30) DEF Closes, InHand, FtableInv, FtableTypeOK
<1>2. HandAt(p)'
  BY ZenonT(30), <1>1 DEF HandAt, Goto, FtableInv, FtableTypeOK
<1> QED
  BY ZenonT(30), <1>1, <1>2, TableKept

(* exit() closes nothing yet: only alive changes.                          *)
LEMMA ExitInv ==
  ASSUME FtableInv, UNCHANGED <<file, ofile, call, f0, f1, ff, pipes, iref>>
  PROVE  FtableInv'
<1>1. FtableTypeOK'
  BY ZenonT(30) DEF FtableInv, FtableTypeOK
<1>2. HandOK' /\ PagesOK'
  BY ZenonT(30) DEF FtableInv, HandOK, HandAt, Fresh, PagesOK
<1>3. FilesSound'
  BY DEF FtableInv, FilesSound, RefsExact, InodesExact, EndsExact, FreeEntryUntyped, Descriptors
<1> QED
  BY ZenonT(30), <1>1, <1>2, <1>3 DEF FtableInv

-----------------------------------------------------------------------------
(* fork() gives the child a reference for each of the parent's.            *)
ForkMoved(of, ou, p, f) ==
  Descs(ou, f) = Descs(of, f) + RefsIn(of[p], f) /\ RefsIn(of[p], f) \in Nat

(* The child had none, so its descriptors are the parent's, counted again. *)
LEMMA ForkDescs ==
  ASSUME NEW of, NEW ou, NEW p \in Process, NEW c \in Process, NEW f,
         \A d \in Fds : of[c][d] # f,
         \A d \in Fds : ou[c][d] = of[p][d],
         \A q \in Process, d \in Fds : q # c => ou[q][d] = of[q][d]
  PROVE  ForkMoved(of, ou, p, f)
<1> DEFINE S == Process \X Fds
           A == {y \in S : [x \in S |-> of[x[1]][x[2]]][y] \in {f}}
           E == {y \in S : [x \in S |-> ou[x[1]][x[2]]][y] \in {f}}
           D == {d \in Fds : of[p][d] = f}
           N == {c} \X D
<1>1. /\ A = {y \in S : of[y[1]][y[2]] = f} /\ E = {y \in S : ou[y[1]][y[2]] = f}
      /\ A \in SUBSET S /\ D \in SUBSET Fds
  BY ZenonT(30)
<1>2. E = A \cup N
  <2>1. ASSUME NEW q \in Process, NEW d \in Fds
        PROVE  <<q, d>> \in E <=> <<q, d>> \in A \/ <<q, d>> \in N
    <3>1. /\ <<q, d>> \in E <=> ou[q][d] = f
          /\ <<q, d>> \in A <=> of[q][d] = f
          /\ <<q, d>> \in N <=> q = c /\ of[p][d] = f
      BY ZenonT(30)
    <3> QED
      BY ONLY ZenonT(30), <3>1, \A z \in Fds : of[c][z] # f, \A z \in Fds : ou[c][z] = of[p][z],
         \A x \in Process, z \in Fds : x # c => ou[x][z] = of[x][z], q \in Process, d \in Fds
  <2>2. N \in SUBSET S
    BY ZenonT(30)
  <2>3. ASSUME NEW y \in S PROVE y \in E <=> y \in A \/ y \in N
    <3>1. PICK q \in Process, d \in Fds : y = <<q, d>>
      OBVIOUS
    <3> QED
      BY ZenonT(30), <2>1, <3>1
  <2>4. E \in SUBSET S
    BY ZenonT(30)
  <2> HIDE DEF A, E, N, S
  <2> QED
    BY ZenonT(30), <1>1, <2>2, <2>3, <2>4
<1>3. A \cap N = {}
  <2>1. ASSUME NEW d \in D PROVE <<c, d>> \notin A
    BY ZenonT(30)
  <2> QED
    BY ZenonT(30), <2>1
<1> HIDE DEF A, E, D, N, S
<1>4. IsFiniteSet(A) /\ IsFiniteSet(D)
  BY ZenonT(30), <1>1, Finite, FS_Subset DEF S
<1>5. IsFiniteSet(N) /\ Cardinality(N) = Cardinality(D) /\ Cardinality(D) \in Nat
  <2>1. IsFiniteSet({c}) /\ Cardinality({c}) = 1
    BY ZenonT(30), FS_Singleton
  <2>2. Cardinality(D) \in Nat
    BY ZenonT(30), <1>4, FS_CardinalityType
  <2>3. IsFiniteSet(N) /\ Cardinality(N) = Cardinality({c}) * Cardinality(D)
    BY ZenonT(30), <1>4, <2>1, FS_Product DEF N
  <2> QED
    BY SMTT(60), <2>1, <2>2, <2>3
<1>6. Cardinality(E) = Cardinality(A) + Cardinality(N)
  <2>1. Cardinality(A \cup N) = Cardinality(A) + Cardinality(N) - Cardinality(A \cap N)
    BY ZenonT(30), <1>4, <1>5, FS_Union
  <2>2. Cardinality({}) = 0 /\ Cardinality(A) \in Nat /\ Cardinality(N) \in Nat
    BY ZenonT(30), <1>4, <1>5, FS_EmptySet, FS_CardinalityType
  <2>3. Cardinality(A \cap N) = 0 /\ Cardinality(E) = Cardinality(A \cup N)
    BY ONLY ZenonT(30), <1>2, <1>3, <2>2
  <2> QED
    BY ONLY SMTT(60), <2>1, <2>2, <2>3
<1> QED
  BY ZenonT(30), <1>5, <1>6 DEF ForkMoved, Descs, Count, RefsIn, A, E, D, S

(* fork() counts what it duplicates; a fresh file has no descriptor yet.   *)
LEMMA ForkInv ==
  ASSUME FtableInv, NEW p \in Process, NEW c \in Process, fork(p, c)
  PROVE  FtableInv'
<1> DEFINE R(g) == RefsIn(ofile[p], g)
<1>1. /\ ofile[c] = Closed /\ ofile' = [ofile EXCEPT ![c] = ofile[p]] /\ p # c
      /\ file' = [g \in File |-> [file[g] EXCEPT !.ref = @ + R(g)]]
      /\ UNCHANGED <<call, f0, f1, ff, pipes, iref>>
  BY ZenonT(30) DEF fork, Calling
<1>2. /\ \A d \in Fds : ofile[c][d] = 0
      /\ \A d \in Fds : ofile'[c][d] = ofile[p][d]
      /\ \A q \in Process, d \in Fds : q # c => ofile'[q][d] = ofile[q][d]
  BY ZenonT(30), <1>1 DEF FtableInv, FtableTypeOK, Closed
<1>3. ASSUME NEW g \in File PROVE Descs(ofile', g) = Descs(ofile, g) + R(g) /\ R(g) \in Nat
  <2>1. \A d \in Fds : ofile[c][d] # g
    BY <1>2 DEF File
  <2>2. ForkMoved(ofile, ofile', p, g)
    BY ONLY ZenonT(30), <1>2, <2>1, ForkDescs, p \in Process, c \in Process
  <2> QED
    BY ONLY ZenonT(30), <2>2 DEF ForkMoved
<1>4. ASSUME NEW q \in Process, NEW g \in File, g \in {f0[q], f1[q]}, Fresh(g) PROVE R(g) = 0
  <2>1. \A d \in Fds : ofile[p][d] # g
    <3>1. file[g].ref <= 1
      BY <1>4 DEF Fresh
    <3> QED
      BY ZenonT(30), <1>4, <3>1, Alone
  <2>2. {d \in Fds : ofile[p][d] = g} = {}
    BY ZenonT(30), <2>1
  <2> QED
    BY ZenonT(30), <2>2, FS_EmptySet DEF RefsIn
<1> HIDE DEF R
<1>5. ASSUME NEW g \in File
      PROVE  /\ file'[g] \in Entry
             /\ file'[g].type = file[g].type
             /\ file'[g].obj = file[g].obj /\ file'[g].end = file[g].end
             /\ file'[g].ref = file[g].ref + R(g) /\ file[g].ref \in Nat
  <2>1. file[g] \in Entry /\ R(g) \in Nat
    BY ZenonT(30), <1>3 DEF FtableInv, FtableTypeOK
  <2>2. file'[g] = [file[g] EXCEPT !.ref = @ + R(g)]
    BY ZenonT(30), <1>1
  <2> QED
    BY ONLY SMTT(60), <2>1, <2>2 DEF Entry
<1>6. FtableTypeOK'
  <2>1. file' \in [File -> Entry]
    BY ONLY ZenonT(30), <1>1, <1>5
  <2>2. ofile' \in [Process -> [Fds -> File \cup {0}]]
    BY ZenonT(30), <1>1 DEF FtableInv, FtableTypeOK
  <2> QED
    BY ONLY ZenonT(30), <1>1, <2>1, <2>2, FtableInv DEF FtableInv, FtableTypeOK
<1>7. HandOK'
  <2>1. \A q \in Process, g \in File : g \in {f0[q], f1[q]} /\ Fresh(g) => Fresh(g)'
    <3> SUFFICES ASSUME NEW q \in Process, NEW g \in File, g \in {f0[q], f1[q]}, Fresh(g)
                 PROVE  Fresh(g)'
      BY ZenonT(30)
    <3>1. R(g) = 0
      BY ZenonT(30), <1>4
    <3> QED
      BY SMTT(60), <1>5, <3>1 DEF Fresh
  <2>2. HandAt(p)'
    BY ZenonT(30), <1>1, <2>1 DEF FtableInv, HandOK, HandAt, FtableTypeOK
  <2> QED
    BY ONLY ZenonT(30), <1>1, <2>1, <2>2, HandStep, p \in Process, FtableInv DEF FtableInv
<1>8. RefsExact'
  <2> SUFFICES ASSUME NEW g \in File
               PROVE  file'[g].ref = Descs(ofile', g) + Held(f0', g) + Held(f1', g)
    BY ZenonT(30), RefsAre
  <2>1. file[g].ref = Descs(ofile, g) + Held(f0, g) + Held(f1, g)
    BY ZenonT(30), RefsAre DEF FtableInv, FilesSound
  <2>2. Descs(ofile, g) \in Nat /\ Held(f0, g) \in Nat /\ Held(f1, g) \in Nat
    BY ZenonT(30), CountFacts
  <2>3. /\ Descs(ofile', g) = Descs(ofile, g) + R(g) /\ R(g) \in Nat
        /\ file'[g].ref = file[g].ref + R(g)
        /\ Held(f0', g) = Held(f0, g) /\ Held(f1', g) = Held(f1, g)
    BY ZenonT(30), <1>1, <1>3, <1>5
  <2> QED
    BY ONLY SMTT(60), <2>1, <2>2, <2>3
<1>9. FreeEntryUntyped'
  <2> SUFFICES ASSUME NEW g \in File, file'[g].ref = 0 PROVE file'[g].type = "none"
    BY ZenonT(30) DEF FreeEntryUntyped
  <2>1. file[g].ref = 0
    BY SMTT(60), <1>3, <1>5
  <2> QED
    BY ZenonT(30), <1>5, <2>1 DEF FtableInv, FilesSound, FreeEntryUntyped
<1>10. InodesExact' /\ EndsExact' /\ PagesOK'
  BY ZenonT(30), <1>1, <1>5, <1>6, SameKinds
<1> QED
  BY ZenonT(30), <1>6, <1>7, <1>8, <1>9, <1>10 DEF FtableInv, FilesSound

-----------------------------------------------------------------------------
(* pipealloc()'s two entries become the two ends of a page that had none.  *)
LEMMA PipeKinds ==
  ASSUME FtableInv, NEW p \in Process, call[p] = "pipe2", NEW g \in Pages, pipes[g] = {},
         file' = [file EXCEPT ![f0[p]] = PipeEnd(g, "read"), ![f1[p]] = PipeEnd(g, "write")],
         pipes' = [pipes EXCEPT ![g] = Ends], UNCHANGED <<ff, iref>>
  PROVE  /\ file' \in [File -> Entry] /\ pipes' \in [Pages -> SUBSET Ends]
         /\ \A x \in File : file'[x].ref = file[x].ref
         /\ \A x \in File : x \notin {f0[p], f1[p]} => file'[x] = file[x]
         /\ FreeEntryUntyped' /\ PagesOK'
         /\ \A K : Kinds(K)' = Kinds(K) + In(PipeEnd(g, "read"), K) - In(file[f0[p]], K)
                                       + In(PipeEnd(g, "write"), K) - In(file[f1[p]], K)
<1> DEFINE a == f0[p]
           b == f1[p]
           r == PipeEnd(g, "read")
           w == PipeEnd(g, "write")
           t == [file EXCEPT ![a] = r]
<1>1. a \in File /\ b \in File /\ a # b /\ Fresh(a) /\ Fresh(b)
  BY ZenonT(30) DEF FtableInv, HandOK, HandAt, FtableTypeOK
<1>2. /\ r \in Entry /\ w \in Entry /\ r.ref = 1 /\ w.ref = 1 /\ r.type = "pipe" /\ w.type = "pipe"
      /\ r.obj = g /\ w.obj = g
  BY ZenonT(30) DEF PipeEnd, Entry, Ends
<1> HIDE DEF a, b, r, w
<1>3. /\ file \in [File -> Entry] /\ file' = [t EXCEPT ![b] = w]
  BY ZenonT(30) DEF FtableInv, FtableTypeOK, a, b, r, w
<1>4. /\ file' \in [File -> Entry] /\ file'[a] = r /\ file'[b] = w
      /\ \A x \in File : x \notin {a, b} => file'[x] = file[x]
      /\ t[a] = r /\ t[b] = file[b]
      /\ \A x \in File : x # a => t[x] = file[x]
      /\ \A x \in File : x # b => file'[x] = t[x]
  BY ONLY ZenonT(30), <1>1, <1>2, <1>3
<1> HIDE DEF t
<1>5. pipes' \in [Pages -> SUBSET Ends]
  BY ZenonT(30) DEF FtableInv, FtableTypeOK
<1>6. \A x \in File : file'[x].ref = file[x].ref
  BY ONLY ZenonT(30), <1>1, <1>2, <1>4 DEF Fresh
<1>7. FreeEntryUntyped'
  BY SMTT(60), <1>1, <1>4, <1>6 DEF FtableInv, FilesSound, FreeEntryUntyped, Fresh
<1>8. PagesOK'
  BY SMTT(60), <1>2, <1>4 DEF FtableInv, PagesOK
<1>9. ASSUME NEW K
      PROVE  Kinds(K)' = Kinds(K) + In(r, K) - In(file[a], K) + In(w, K) - In(file[b], K)
  <2>1. CountMoved(File, file, t, a, K)
    BY ONLY ZenonT(30), Finite, CountMove, <1>1, <1>4
  <2>2. CountMoved(File, t, file', b, K)
    BY ONLY ZenonT(30), Finite, CountMove, <1>1, <1>4
  <2>3. Count(File, file, K) \in Nat /\ Count(Process, ff, K) \in Nat
    BY ZenonT(30), FtableAssumption, Finite, CountNat
  <2>4. /\ In(r, K) \in Int /\ In(w, K) \in Int /\ In(file[a], K) \in Int /\ In(file[b], K) \in Int
    BY DEF In
  <2>5. Count(Process, ff', K) = Count(Process, ff, K)
    BY ZenonT(30)
  <2> QED
    BY ONLY SMTT(60), <1>4, <2>1, <2>2, <2>3, <2>4, <2>5 DEF Kinds, CountMoved
<1> QED
  BY ZenonT(30), <1>4, <1>5, <1>6, <1>7, <1>8, <1>9 DEF a, b, r, w

(* So every end is still somebody's, and one's only.                       *)
LEMMA PipeEnds ==
  ASSUME FtableInv, FtableTypeOK', NEW p \in Process, call[p] = "pipe2", NEW g \in Pages, pipes[g] = {},
         file' = [file EXCEPT ![f0[p]] = PipeEnd(g, "read"), ![f1[p]] = PipeEnd(g, "write")],
         pipes' = [pipes EXCEPT ![g] = Ends], UNCHANGED <<ff, iref>>
  PROVE  InodesExact' /\ EndsExact'
<1> DEFINE a == file[f0[p]]
           b == file[f1[p]]
           r == PipeEnd(g, "read")
           w == PipeEnd(g, "write")
<1>1. \A K : Kinds(K)' = Kinds(K) + In(r, K) - In(a, K) + In(w, K) - In(b, K)
  BY ZenonT(30), PipeKinds
<1>2. a.type = "none" /\ b.type = "none"
  BY ZenonT(30) DEF FtableInv, HandOK, HandAt, Fresh
<1>3. /\ r \in Entry /\ w \in Entry /\ r.type = "pipe" /\ w.type = "pipe"
      /\ r.obj = g /\ w.obj = g /\ r.end = "read" /\ w.end = "write"
  BY ZenonT(30) DEF PipeEnd, Entry, Ends
<1> HIDE DEF a, b, r, w
<1>4. Kinds(Inodes)' = Kinds(Inodes)
  <2>1. r \notin Inodes /\ w \notin Inodes /\ a \notin Inodes /\ b \notin Inodes
    BY ZenonT(30), <1>2, <1>3 DEF Inodes
  <2>2. In(r, Inodes) = 0 /\ In(w, Inodes) = 0 /\ In(a, Inodes) = 0 /\ In(b, Inodes) = 0
    BY ZenonT(30), <2>1 DEF In
  <2>3. Kinds(Inodes)' = Kinds(Inodes) + In(r, Inodes) - In(a, Inodes)
                                       + In(w, Inodes) - In(b, Inodes)
    BY ZenonT(30), <1>1
  <2>4. Kinds(Inodes) \in Nat
    BY ZenonT(30), KindsInt
  <2> QED
    BY ONLY SMTT(60), <2>2, <2>3, <2>4
<1>5. ASSUME NEW h \in Pages, NEW e \in Ends
      PROVE  Kinds(EndsOf(h, e))' = IF e \in pipes'[h] THEN 1 ELSE 0
  <2> DEFINE K == EndsOf(h, e)
  <2>1. /\ a \notin K /\ b \notin K
        /\ r \in K <=> h = g /\ e = "read"
        /\ w \in K <=> h = g /\ e = "write"
    BY ZenonT(30), <1>2, <1>3 DEF EndsOf, IsEnd
  <2>2. Kinds(K) = IF e \in pipes[h] THEN 1 ELSE 0
    BY ZenonT(30), KindsAre DEF FtableInv, FilesSound
  <2>3. /\ h = g => pipes[h] = {} /\ pipes'[h] = Ends
        /\ h # g => pipes'[h] = pipes[h]
    BY ZenonT(30) DEF FtableInv, FtableTypeOK
  <2> HIDE DEF K
  <2>4. Kinds(K)' = Kinds(K) + In(r, K) - In(a, K) + In(w, K) - In(b, K)
    BY ZenonT(30), <1>1
  <2>5. CASE h = g
    <3>1. Kinds(K) = 0 /\ e \in pipes'[h]
      BY ZenonT(30), <2>2, <2>3, <2>5
    <3>2. In(r, K) + In(w, K) = 1 /\ In(r, K) \in Int /\ In(w, K) \in Int
      BY SMTT(60), <2>1, <2>5 DEF In, Ends
    <3>3. In(a, K) = 0 /\ In(b, K) = 0
      BY ZenonT(30), <2>1 DEF In
    <3>4. Kinds(K)' = 1
      BY ONLY SMTT(60), <2>4, <3>1, <3>2, <3>3
    <3> QED
      BY ZenonT(30), <3>1, <3>4 DEF K
  <2>6. CASE h # g
    <3>1. In(r, K) = 0 /\ In(w, K) = 0 /\ In(a, K) = 0 /\ In(b, K) = 0
      BY ZenonT(30), <2>1, <2>6 DEF In
    <3>2. Kinds(K) \in Nat
      BY ZenonT(30), KindsInt
    <3>3. Kinds(K)' = Kinds(K)
      BY ONLY SMTT(60), <2>4, <3>1, <3>2
    <3> QED
      BY ZenonT(30), <2>2, <2>3, <2>6, <3>3 DEF K
  <2> QED
    BY ZenonT(30), <2>5, <2>6
<1> QED
  BY ZenonT(30), <1>4, <1>5, KindsAre, KindsAreNext DEF FtableInv, FilesSound

(* pipe() with its two entries gets a page and two descriptors, or closes  *)
(* what it has.                                                            *)
LEMMA PipePageInv ==
  ASSUME FtableInv, NEW p \in Process, PipePage(p)
  PROVE  FtableInv'
<1>1. call[p] = "pipe2" /\ UNCHANGED <<ff, iref>>
  BY ZenonT(30) DEF PipePage
<1>2. CASE Goto(p, "close") /\ UNCHANGED <<file, ofile, f0, f1, pipes>>
  <2>1. HandAt(p)'
    BY ZenonT(30), <1>2 DEF HandAt, Goto, FtableInv, FtableTypeOK
  <2> QED
    BY ZenonT(30), <1>1, <1>2, <2>1, TableKept
<1>3. ASSUME NEW g \in Pages, pipes[g] = {}, pipes' = [pipes EXCEPT ![g] = Ends],
             file' = [file EXCEPT ![f0[p]] = PipeEnd(g, "read"), ![f1[p]] = PipeEnd(g, "write")],
             \/ Goto(p, "close") /\ UNCHANGED <<ofile, f0, f1>>
             \/ \E d, x \in Fds :
                  /\ TwoFds(p, d, x)
                  /\ ofile' = [ofile EXCEPT ![p] = [Second(p, d) EXCEPT ![x] = f1[p]]]
                  /\ f0' = [f0 EXCEPT ![p] = 0] /\ f1' = [f1 EXCEPT ![p] = 0]
                  /\ Goto(p, "user")
      PROVE  FtableInv'
  <2>1. /\ file' \in [File -> Entry] /\ pipes' \in [Pages -> SUBSET Ends]
        /\ \A x \in File : file'[x].ref = file[x].ref
        /\ \A x \in File : x \notin {f0[p], f1[p]} => file'[x] = file[x]
        /\ FreeEntryUntyped' /\ PagesOK'
    BY ZenonT(30), <1>1, <1>3, PipeKinds
  <2>2. /\ f0[p] \in File /\ f1[p] \in File /\ Fresh(f0[p]) /\ Fresh(f1[p]) /\ ff[p].type = "none"
        /\ f0 \in [Process -> File \cup {0}] /\ f1 \in [Process -> File \cup {0}]
        /\ ofile \in [Process -> [Fds -> File \cup {0}]] /\ call \in [Process -> Labels]
    BY ZenonT(30), <1>1 DEF FtableInv, HandOK, HandAt, FtableTypeOK
  <2>3. \A q \in Process, x \in File :
          q # p /\ x \in {f0[q], f1[q]} /\ Fresh(x) => Fresh(x)'
    <3>1. \A q \in Process : q # p => f0[p] \notin {f0[q], f1[q]} /\ f1[p] \notin {f0[q], f1[q]}
      BY <2>2, Alone DEF Fresh
    <3> QED
      BY ZenonT(30), <2>1, <3>1 DEF Fresh
  <2>4. ASSUME /\ f0' \in [Process -> File \cup {0}] /\ f1' \in [Process -> File \cup {0}]
               /\ ofile' \in [Process -> [Fds -> File \cup {0}]] /\ call' \in [Process -> Labels],
               HandAt(p)',
               \A q \in Process : q # p => /\ call'[q] = call[q] /\ f0'[q] = f0[q]
                                           /\ f1'[q] = f1[q],
               \A x \in File : Descs(ofile', x) + Held(f0', x) + Held(f1', x)
                               = Descs(ofile, x) + Held(f0, x) + Held(f1, x)
        PROVE  FtableInv'
    <3>1. FtableTypeOK'
      BY ONLY ZenonT(30), <1>1, <2>1, <2>4, FtableInv DEF FtableInv, FtableTypeOK
    <3>2. HandOK'
      BY ONLY ZenonT(30), <1>1, <2>3, <2>4, HandStep, p \in Process, FtableInv DEF FtableInv
    <3>3. RefsExact'
      BY ONLY ZenonT(30), <2>1, <2>4, RefsAre, FtableInv DEF FtableInv, FilesSound
    <3>4. InodesExact' /\ EndsExact'
      BY ZenonT(30), <1>1, <1>3, <3>1, PipeEnds
    <3> QED
      BY ZenonT(30), <2>1, <3>1, <3>2, <3>3, <3>4 DEF FtableInv, FilesSound
  <2>5. CASE Goto(p, "close") /\ UNCHANGED <<ofile, f0, f1>>
    <3>1. /\ call' \in [Process -> Labels] /\ call'[p] = "close"
          /\ \A q \in Process : q # p => call'[q] = call[q]
      BY ZenonT(30), <2>2, <2>5 DEF Goto, Labels
    <3>2. HandAt(p)'
      BY ZenonT(30), <3>1 DEF HandAt
    <3> QED
      BY ZenonT(30), <2>2, <2>4, <2>5, <3>1, <3>2
  <2>6. ASSUME NEW d \in Fds, NEW x \in Fds, TwoFds(p, d, x),
               ofile' = [ofile EXCEPT ![p] = [Second(p, d) EXCEPT ![x] = f1[p]]],
               f0' = [f0 EXCEPT ![p] = 0], f1' = [f1 EXCEPT ![p] = 0], Goto(p, "user")
        PROVE  FtableInv'
    <3> DEFINE o == [ofile EXCEPT ![p] = Second(p, d)]
    <3>1. /\ f0' \in [Process -> File \cup {0}] /\ f1' \in [Process -> File \cup {0}]
          /\ f0'[p] = 0 /\ f1'[p] = 0
          /\ \A q \in Process : q # p => f0'[q] = f0[q] /\ f1'[q] = f1[q]
      BY ZenonT(30), <2>2, <2>6
    <3>2. /\ call' \in [Process -> Labels] /\ call'[p] = "user"
          /\ \A q \in Process : q # p => call'[q] = call[q]
      BY ZenonT(30), <2>2, <2>6 DEF Goto, Labels
    <3>3. /\ Second(p, d) \in [Fds -> File \cup {0}] /\ Second(p, d)[d] = f0[p]
          /\ \A z \in Fds : z # d => Second(p, d)[z] = ofile[p][z]
          /\ ofile[p][d] = 0 /\ Second(p, d)[x] = 0
      BY ZenonT(30), <2>2, <2>6 DEF Second, TwoFds, fdalloc
    <3>4. /\ ofile' \in [Process -> [Fds -> File \cup {0}]]
          /\ o[p][d] = f0[p] /\ o[p][x] = 0 /\ ofile'[p][x] = f1[p]
          /\ \A q \in Process, z \in Fds : q # p \/ z # d => o[q][z] = ofile[q][z]
          /\ \A q \in Process, z \in Fds : q # p \/ z # x => ofile'[q][z] = o[q][z]
      BY ONLY ZenonT(30), <2>2, <2>6, <3>3, p \in Process, d \in Fds, x \in Fds
    <3>5. HandAt(p)'
      BY ZenonT(30), <1>1, <2>2, <3>1, <3>2 DEF HandAt
    <3> HIDE DEF o
    <3>6. ASSUME NEW g1 \in File
          PROVE  Descs(ofile', g1) + Held(f0', g1) + Held(f1', g1)
                 = Descs(ofile, g1) + Held(f0, g1) + Held(f1, g1)
      <4>1. DescMoved(ofile, o, p, d, g1)
        BY ONLY ZenonT(30), <3>4, DescChange, p \in Process, d \in Fds
      <4>2. DescMoved(o, ofile', p, x, g1)
        BY ONLY ZenonT(30), <3>4, DescChange, p \in Process, x \in Fds
      <4>3. HeldMoved(f0, f0', p, g1)
        BY ONLY ZenonT(30), <3>1, HeldChange, p \in Process
      <4>4. HeldMoved(f1, f1', p, g1)
        BY ONLY ZenonT(30), <3>1, HeldChange, p \in Process
      <4>5. /\ Descs(ofile, g1) \in Nat /\ Held(f0, g1) \in Nat /\ Held(f1, g1) \in Nat
        BY ZenonT(30), CountFacts
      <4>6. /\ Is(0, g1) = 0 /\ Is(f0[p], g1) \in Int /\ Is(f1[p], g1) \in Int
        BY DEF Is, File
      <4> QED
        BY ONLY SMTT(60), <3>1, <3>3, <3>4, <4>1, <4>2, <4>3, <4>4, <4>5, <4>6 DEF DescMoved, HeldMoved
    <3> QED
      BY ZenonT(30), <2>4, <3>1, <3>2, <3>4, <3>5, <3>6
  <2> QED
    BY ZenonT(30), <1>3, <2>5, <2>6
<1> QED
  BY ZenonT(30), <1>2, <1>3 DEF PipePage

-----------------------------------------------------------------------------
(* At start no file is open.                                               *)
LEMMA InitFtableInv == FtableInit => FtableInv
<1> SUFFICES ASSUME FtableInit PROVE FtableInv
  BY ZenonT(30)
<1>1. FD_NONE \in Entry /\ FD_NONE.type = "none" /\ FD_NONE.ref = 0
  BY ZenonT(30) DEF FD_NONE, Entry, Ends
<1>2. FtableTypeOK
  BY <1>1 DEF FtableInit, FtableTypeOK, Closed, Labels
<1>3. HandOK /\ PagesOK /\ FreeEntryUntyped
  BY ZenonT(30), <1>1 DEF FtableInit, HandOK, HandAt, PagesOK, FreeEntryUntyped
<1>4. RefsExact
  <2> SUFFICES ASSUME NEW f \in File
               PROVE  file[f].ref = Descs(ofile, f) + Held(f0, f) + Held(f1, f)
    BY ZenonT(30), RefsAre
  <2>1. Held(f0, f) = 0 /\ Held(f1, f) = 0
    BY SMTT(60), FtableAssumption, CountZero DEF Held, FtableInit, File
  <2>2. Descs(ofile, f) = 0
    <3> DEFINE S == Process \X Fds
               t == [x \in S |-> ofile[x[1]][x[2]]]
    <3>1. ASSUME NEW y \in S PROVE t[y] \notin {f}
      BY DEF FtableInit, Closed, File
    <3> HIDE DEF t
    <3>2. Count(S, t, {f}) = 0
      BY ZenonT(30), <3>1, Finite, CountZero
    <3> QED
      BY ZenonT(30), <3>2 DEF Descs, t
  <2> QED
    BY SMTT(60), <1>1, <2>1, <2>2 DEF FtableInit
<1>5. ASSUME NEW K, FD_NONE \notin K PROVE Kinds(K) = 0
  <2>1. (\A y \in File : file[y] \notin K) /\ (\A y \in Process : ff[y] \notin K)
    BY ZenonT(30), <1>5 DEF FtableInit
  <2>2. Count(File, file, K) = 0 /\ Count(Process, ff, K) = 0
    BY ZenonT(30), <2>1, FtableAssumption, Finite, CountZero
  <2> QED
    BY <2>2 DEF Kinds
<1>6. FD_NONE \notin Inodes /\ \A g, e : FD_NONE \notin EndsOf(g, e)
  BY ZenonT(30), <1>1 DEF Inodes, EndsOf, IsEnd
<1>7. InodesExact /\ EndsExact
  BY ZenonT(30), <1>2, <1>5, <1>6, KindsAre DEF FtableInit
<1> QED
  BY ZenonT(30), <1>2, <1>3, <1>4, <1>7 DEF FtableInv, FilesSound

(* file.c and sysfile.c: the invariant of the open file table holds at     *)
(* every step of open, pipe, dup, close, fork and exit, however those of   *)
(* several processes interleave.                                           *)
THEOREM FtableInvHolds == FtableSpec => []FtableInv
<1>1. ASSUME FtableInv, [FtableNext]_ftable PROVE FtableInv'
  <2>1. ASSUME NEW p \in Process, sys_open(p) \/ sys_pipe(p) PROVE FtableInv'
    BY ZenonT(30), <1>1, <2>1, FirstInv DEF sys_open, sys_pipe
  <2>2. ASSUME NEW p \in Process, OpenFd(p) \/ PipeSecond(p) \/ PipePage(p) PROVE FtableInv'
    BY ZenonT(30), <1>1, <2>2, OpenFdInv, PipeSecondInv, PipePageInv
  <2>3. ASSUME NEW p \in Process, fileclose(p) \/ CloseObject(p) \/ Closes(p) PROVE FtableInv'
    BY ZenonT(30), <1>1, <2>3, FilecloseInv, CloseObjectInv, ClosesInv
  <2>4. ASSUME NEW p \in Process, exit(p) PROVE FtableInv'
    BY ZenonT(30), <1>1, <2>4, ExitInv DEF exit
  <2>5. ASSUME NEW p \in Process, NEW d \in Fds, sys_dup(p, d) \/ sys_close(p, d) \/ ExitClose(p, d)
        PROVE  FtableInv'
    BY ZenonT(30), <1>1, <2>5, DupInv, CloseInv DEF sys_close, ExitClose
  <2>6. ASSUME NEW p \in Process, NEW c \in Process, fork(p, c) PROVE FtableInv'
    BY ZenonT(30), <1>1, <2>6, ForkInv
  <2>7. CASE UNCHANGED ftable
    BY ZenonT(30), <1>1, <2>7, ExitInv DEF ftable
  <2> QED
    BY ZenonT(30), <1>1, <2>1, <2>2, <2>3, <2>4, <2>5, <2>6, <2>7 DEF FtableNext
<1> QED
  BY <1>1, InitFtableInv, PTL DEF FtableSpec

(* file.c, ref counts: a file's count is the number of descriptors and     *)
(* calls that refer to it, and every inode reference and pipe end belongs  *)
(* to exactly one open file or pending close, whatever fails half way, for *)
(* any number of processes, files and descriptors.                         *)
THEOREM FilesSoundHolds == FtableSpec => []FilesSound
<1>1. FtableInv => FilesSound
  BY ZenonT(30) DEF FtableInv
<1> QED
  BY <1>1, FtableInvHolds, PTL
=============================================================================

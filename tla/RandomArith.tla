----------------------------- MODULE RandomArith -----------------------------
(***************************************************************************)
(* The arithmetic of random.c.  The generator multiplies modulo MODLUS =   *)
(* B * H - 1 in words of 2 * B * H values, with half words of B values; in *)
(* the code B = 2^16 and H = 2^15, and int and long are the same.          *)
(***************************************************************************)
EXTENDS Integers

CONSTANTS
  NS,                \* streams are 1..NS; zrng[0] is a filler
  B, H,
  MULTONE, MULTTWO,
  Streams, Values,   \* arguments of random_set and change_seed: any int;
                     \* what lies outside zrng is one of Values, too
  zrng0              \* the initial generators

MODLUS == B * H - 1
Index == 0..NS
Long == (-MODLUS - 1)..MODLUS
Word == 0..(MODLUS - 1)

ASSUME RandomAssumption ==
  /\ NS \in Nat /\ B \in Nat /\ H \in Nat /\ 2 <= B /\ H <= B
  /\ MULTONE \in 1..H /\ MULTTWO \in 1..H
  /\ Streams \subseteq Long /\ Values \subseteq Long /\ zrng0 \in [Index -> Word]

(* lowprd, hi3l and the new zi for a multiplier m.  A sum that exceeds a   *)
(* word wraps, as the processor's additions do; that one of the products   *)
(* does is ruled out below.                                                *)
lowprd(z, m) == (z % B) * m
hi3l(z, m) == (z \div B) * m + (lowprd(z, m) \div B)
Signed(v) == ((v + MODLUS + 1) % (2 * (MODLUS + 1))) - (MODLUS + 1)

(* Mutant: the remainder is not brought back into its range. *)
WrapNone(v) == v
Wrap(v) == IF v < 0 THEN v + MODLUS ELSE v

Times(z, m) ==
  Wrap(Signed(((lowprd(z, m) % B) - MODLUS) + (hi3l(z, m) % H) * B + (hi3l(z, m) \div H)))

NextZi(z) == Times(Times(z, MULTONE), MULTTWO)

(* The products fit a word.                                                *)
Fits(z, m) == lowprd(z, m) \in Long /\ hi3l(z, m) \in Long

(* Times is multiplication modulo MODLUS.                                  *)
IsProduct(z, m) == Times(z, m) \in Word /\ \E k \in 0..m : z * m = Times(z, m) + k * MODLUS
=============================================================================

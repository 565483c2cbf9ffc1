------------------------------- MODULE Random -------------------------------
(***************************************************************************)
(* The random number system calls (random.c): a shared current stream,     *)
(* seed, and one generator per stream, zrng, used by processes that        *)
(* preempt each other at any access: there is no lock.  The code reads     *)
(* seed from memory each time it names it.  Arguments are any int: what is *)
(* read outside the array is whatever is there, or a fault, and the model  *)
(* ends where something is written there.                                  *)
(***************************************************************************)
EXTENDS RandomArith

CONSTANT Caller

VARIABLES
  seed, zrng,
  zi,       \* per process: the local variable
  at,       \* where it is in sys_random() or sys_random_set()
  outside,  \* memory outside zrng was written, or could not be read
  tested    \* ghost: the processes that have tested seed, unless it has been
            \* stored since

generators == <<seed, zrng, zi, at, outside, tested>>

-----------------------------------------------------------------------------
Step(p, a) == at' = [at EXCEPT ![p] = a]
Here(p, a) == at[p] = a /\ ~outside

(* sys_random() tests seed, and clears it in a later step; sys_random_set()*)
(* stores its argument in it at once, before any test.                     *)
sys_random(p) ==
  /\ Here(p, "user")
  /\ Step(p, IF seed <= 0 THEN "clear" ELSE "positive")
  /\ UNCHANGED <<seed, zrng, zi, outside, tested>>
Clear(p) ==
  /\ Here(p, "clear") /\ seed' = 0 /\ tested' = {}
  /\ Step(p, "positive") /\ UNCHANGED <<zrng, zi, outside>>
sys_random_set(p, s) ==
  /\ Here(p, "user") /\ seed' = s /\ tested' = {}
  /\ Step(p, "positive") /\ UNCHANGED <<zrng, zi, outside>>

(* The rest is the same in both.                                           *)
Positive(p) ==
  /\ Here(p, "positive")
  /\ IF seed > 0 THEN Step(p, "bounded") /\ tested' = tested \cup {p}
     ELSE Step(p, "user") /\ UNCHANGED tested
  /\ UNCHANGED <<seed, zrng, zi, outside>>
Bounded(p) ==
  /\ Here(p, "bounded")
  /\ IF seed < NS + 1 THEN Step(p, "load") /\ UNCHANGED tested
     ELSE Step(p, "user") /\ tested' = tested \ {p}
  /\ UNCHANGED <<seed, zrng, zi, outside>>
LoadZi(p) ==
  /\ Here(p, "load") /\ Step(p, "store") /\ UNCHANGED <<seed, zrng, tested>>
  /\ \/ /\ seed \in Index
        /\ zi' = [zi EXCEPT ![p] = zrng[seed]] /\ UNCHANGED outside
     \/ /\ seed \notin Index
        /\ \E v \in Values : zi' = [zi EXCEPT ![p] = v]
        /\ outside' \in BOOLEAN
StoreZi(p) ==
  /\ Here(p, "store") /\ Step(p, "user")
  /\ IF seed \in Index
     THEN zrng' = [zrng EXCEPT ![seed] = NextZi(zi[p])] /\ UNCHANGED outside
     ELSE outside' = TRUE /\ UNCHANGED zrng
  /\ zi' = [zi EXCEPT ![p] = 0]
  /\ tested' = tested \ {p} /\ UNCHANGED seed

(* sys_change_seed() checks neither the stream nor the value.              *)
sys_change_seed(p, s, v) ==
  /\ Here(p, "user")
  /\ IF s \in Index THEN zrng' = [zrng EXCEPT ![s] = v] /\ UNCHANGED outside
     ELSE outside' = TRUE /\ UNCHANGED zrng
  /\ UNCHANGED <<seed, zi, at, tested>>

RandomInit ==
  /\ seed = 0 /\ zrng = zrng0 /\ outside = FALSE /\ tested = {}
  /\ zi = [p \in Caller |-> 0] /\ at = [p \in Caller |-> "user"]

RandomEnds == outside /\ UNCHANGED generators

RandomNext ==
  \/ RandomEnds
  \/ \E p \in Caller :
       \/ sys_random(p) \/ Clear(p) \/ Positive(p) \/ Bounded(p) \/ LoadZi(p) \/ StoreZi(p)
       \/ \E s \in Streams : sys_random_set(p, s) \/ \E v \in Values : sys_change_seed(p, s, v)

RandomSpec == RandomInit /\ [][RandomNext]_generators

-----------------------------------------------------------------------------
RandomTypeOK ==
  /\ seed \in Long /\ zrng \in [Index -> Long] /\ zi \in [Caller -> Long]
  /\ at \in [Caller -> {"user", "clear", "positive", "bounded", "load", "store"}]
  /\ outside \in BOOLEAN /\ tested \subseteq Caller

(* The test of seed protects the array from every call that no other       *)
(* process's store to seed overtakes.                                      *)
IndexSound == \A p \in tested : at[p] \in {"load", "store"} => seed \in 1..NS

(* For whatever change_seed() has stored, and whatever an overtaken call   *)
(* has read: the products of the next step fit a word, its result is in    *)
(* the range of the generator, and unless the number was negative, it is   *)
(* the product with both multipliers modulo MODLUS.                        *)
StepSound(z) ==
  /\ Fits(z, MULTONE) /\ Fits(Times(z, MULTONE), MULTTWO)
  /\ NextZi(z) \in Word
  /\ z >= 0 => IsProduct(z, MULTONE) /\ IsProduct(Times(z, MULTONE), MULTTWO)

(* However processes interleave on the shared stream, a call indexes the   *)
(* array with a stream unless another process stored seed after its test,  *)
(* and every generator is good for a next number.                          *)
StreamsSound ==
  /\ IndexSound
  /\ \A s \in Index : StepSound(zrng[s])
  /\ \A p \in Caller : at[p] = "store" => StepSound(zi[p])
=============================================================================

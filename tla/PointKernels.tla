------------------------------ MODULE PointKernels -----------------------------
(***************************************************************************)
(* What the OpenCL kernels do to the array of points of a device           *)
(* (modules/btc_pub_key_hash/secp256k1.cl and public_key_hash.cl).  A      *)
(* point is the private key it belongs to: index -> key.  A kernel runs    *)
(* with dim threads; thread g works on the indices g, g + dim, g + 2 dim   *)
(* ..., its batch, and inverts the product of their differences once.      *)
(***************************************************************************)
EXTENDS Integers

CONSTANT NumPoints      \* _num_points; also the key of the incrementor point

ASSUME NumPointsAssumption == NumPoints \in Nat \ {0}

Indices == 0 .. NumPoints - 1
Garbage == 0            \* a point with no key of the project: keys start at 1

\* init_public_keys, called for each bit of the keys: point i belongs to the
\* key start + i.
InitPublicKeys(start) == [i \in Indices |-> start + i]

\* A batch with a point equal to the incrementor has a difference of zero:
\* the product has no inverse, and every sum computed with it is garbage.
ZeroDifference(points, i, dim) ==
  \E j \in Indices : j % dim = i % dim /\ points[j] = NumPoints

\* Mutant of IncrementKeys: the way back through the batch stopped one more
\* stride early.
IncrementLater(points, dim) ==
  [i \in Indices |->
     IF i < 2 * dim THEN points[i]
     ELSE IF points[i] = Garbage \/ ZeroDifference(points, i, dim) THEN Garbage
     ELSE points[i] + NumPoints]

\* increment_keys: the way back through a batch stops at i >= dim, so that
\* its first index is not written.
IncrementKeys(points, dim) ==
  [i \in Indices |->
     IF i < dim THEN points[i]
     ELSE IF points[i] = Garbage \/ ZeroDifference(points, i, dim) THEN Garbage
     ELSE points[i] + NumPoints]

\* increment_keys_with_double: a point equal to the incrementor is doubled.
IncrementKeysWithDouble(points, dim) ==
  [i \in Indices |->
     IF i < dim \/ points[i] = Garbage THEN points[i] ELSE points[i] + NumPoints]

\* hash_public_keys_*: the indices whose hash is the target's.
Matches(points, target) == {i \in Indices : points[i] = target}
=============================================================================

------------------------------ MODULE SplitKey ------------------------------
(***************************************************************************)
(* The derivation of a user's client key from the master key               *)
(* (internal/runtime/key_store.go, deterministicSplitKey and its helpers), *)
(* with the byte, the lengths and the order of the group as parameters.    *)
(* In the code they are 256, 32 and 64 bytes, and the order of Ed25519.    *)
(*                                                                         *)
(* A definition whose comment begins with "Mutant" is a faulty variant of  *)
(* the one that follows it.                                                *)
(***************************************************************************)
EXTENDS Integers, Sequences

CONSTANTS
  Base,       \* values of a byte
  KeyLen,     \* bytes of a scalar
  DigestLen,  \* bytes of a digest
  Order       \* order of the group; a scalar below it fits its bytes

\* Base to the power of n: what byte n of a little-endian number counts.
Power[n \in Nat] == IF n = 0 THEN 1 ELSE Base * Power[n - 1]

ASSUME OrderAssumption ==
  /\ Base \in Nat \ {0, 1}
  /\ KeyLen \in Nat /\ DigestLen \in Nat
  /\ Order \in 1..Power[KeyLen]

VARIABLES
  masterBytes,  \* bytes of encryption_settings.master_private_key
  key           \* the last split key: two scalars in bytes, or an error

splitVars == <<masterBytes, key>>

Byte == 0..(Base - 1)
Digest == [1..DigestLen -> Byte]   \* sha512 of the seed: any value

\* Keys that decode, of the right length and of wrong ones.
MasterBytes == UNION {[1..n -> Byte] : n \in {0, KeyLen - 1, KeyLen}}

Error == <<>>

-----------------------------------------------------------------------------

littleEndianScalar(in) ==
  LET value[n \in 0..Len(in)] ==
        IF n = 0 THEN 0 ELSE value[n - 1] + in[n] * Power[n - 1]
  IN  value[Len(in)]

\* The bytes of the absolute value, as big.Int.Bytes has them, cut to KeyLen.
scalarLittleEndian(v) ==
  LET a == IF v < 0 THEN -v ELSE v
  IN  [i \in 1..KeyLen |-> (a \div Power[i - 1]) % Base]

digestScalar(d) == littleEndianScalar(d) % Order

\* Mutant: the difference is not reduced.
restUnreduced(m, r) == m - r

rest(m, r) == (m - r) % Order

deterministicSplitKey(m, d) ==
  IF Len(m) # KeyLen THEN Error
  ELSE LET r == digestScalar(d)
           k == rest(littleEndianScalar(m), r)
       IN  <<scalarLittleEndian(r), scalarLittleEndian(k)>>

-----------------------------------------------------------------------------

SplitInit == masterBytes \in MasterBytes /\ key = Error

\* resolveKeyLocked for a user whose seed has the digest d.
resolveKeyLocked(d) ==
  /\ key' = deterministicSplitKey(masterBytes, d)
  /\ UNCHANGED masterBytes

SplitNext == \E d \in Digest : resolveKeyLocked(d)

SplitSpec == SplitInit /\ [][SplitNext]_splitVars

-----------------------------------------------------------------------------
(* Properties.                                                             *)

\* The two halves are bytes of scalars below the order and add up to the master key,
\* so that the server, which knows only the master public key, accepts every client
\* key derived from it; also for a master key whose bytes are not below the order.
SplitOpens ==
  key # Error =>
    /\ \A i \in {1, 2} : key[i] \in [1..KeyLen -> Byte] /\ littleEndianScalar(key[i]) < Order
    /\ (littleEndianScalar(key[1]) + littleEndianScalar(key[2])) % Order
         = littleEndianScalar(masterBytes) % Order

=============================================================================

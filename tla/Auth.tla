-------------------------------- MODULE Auth --------------------------------
(***************************************************************************)
(* The certificates of auth.cpp.  The two ends have a password and no      *)
(* authority: an end signs its certificate with a key derived from the     *)
(* password and a salt, sends the salt as the serial number, and who knows *)
(* the password derives the key again.                                     *)
(*                                                                         *)
(* A salt is a sequence of SaltLength bytes.  As a serial number it is an  *)
(* integer, of which leading zeros are no part; the way back puts them     *)
(* there again.  PBKDF2 and Ed448 are taken to be what they should be:     *)
(* different passwords or salts give different keys, and a signature is    *)
(* verified by its own key only.                                           *)
(***************************************************************************)
EXTENDS Naturals, Sequences

CONSTANTS
  Byte,          \* the values of a byte, 0 among them
  SaltLength

ASSUME AuthAssumption ==
  /\ Byte \subseteq Nat /\ 0 \in Byte
  /\ SaltLength \in Nat

Salts == [1..SaltLength -> Byte]

\* QcGenerateSigningKey.
SigningKey(password, salt) == [password |-> password, salt |-> salt]

\* How many leading zeros there are.
Zeros(salt) ==
  CHOOSE n \in 0..Len(salt) :
    /\ \A i \in 1..n : salt[i] = 0
    /\ n = Len(salt) \/ salt[n + 1] # 0

\* BN_bin2bn and back with BN_bn2bin: the bytes without the leading zeros.
Number(salt) == SubSeq(salt, Zeros(salt) + 1, Len(salt))

\* A bug: BN_bn2bin for BN_bn2binpad.
Unpadded(number) == number

\* BN_bn2binpad to SaltLength bytes.
Padded(number) ==
  [i \in 1..SaltLength |->
     LET missing == SaltLength - Len(number)
     IN  IF i <= missing THEN 0 ELSE number[i - missing]]

\* QcGenerateAuthCertificate, where every call succeeds.
Certificate(password, salt) ==
  [serialNumber |-> Number(salt), signedBy |-> SigningKey(password, salt)]

\* QcVerifyCertificate.
Verifies(password, certificate) ==
  /\ Len(certificate.serialNumber) <= SaltLength
  /\ certificate.signedBy = SigningKey(password, Padded(certificate.serialNumber))

=============================================================================

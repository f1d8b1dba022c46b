------------------------------ MODULE PartialIV ------------------------------
(***************************************************************************)
(* The Partial IV of OSCORE: how uOSCORE turns the sender sequence number  *)
(* into the bytes of the PIV (sender_seq_num2piv in security_context.c)    *)
(* and how create_nonce (nonce.c) pads these bytes into the AEAD nonce.    *)
(*                                                                         *)
(* The byte is a parameter: the program has Radix = 256, SSN_LEN = 8 (a    *)
(* uint64_t) and MAX_PIV_LEN = 5; TLC uses smaller ones, so that the       *)
(* number of PIV bytes changes within a handful of requests.               *)
(***************************************************************************)
EXTENDS Integers, Sequences

CONSTANTS
    Radix,        \* the number of values of a byte
    SSN_LEN,      \* bytes of sender_seq_num
    MAX_PIV_LEN,  \* bytes of a PIV, coap.h
    Weight        \* Weight[i] is the place value of byte i, Radix to the i

ASSUME PivAssumption ==
    /\ Radix \in Nat /\ Radix >= 2
    /\ MAX_PIV_LEN \in Nat /\ MAX_PIV_LEN >= 1
    /\ SSN_LEN \in Nat /\ SSN_LEN >= MAX_PIV_LEN
    /\ Weight \in [0..SSN_LEN -> Nat \ {0}]
    /\ Weight[0] = 1
    /\ \A i \in 0..SSN_LEN - 1 : Weight[i + 1] = Radix * Weight[i]

Byte == 0..Radix - 1

PIV == Seq(Byte)

\* Byte i of ssn in memory: the machines this code runs on are little-endian,
\* so byte 0 is the least significant one.
ByteOf(ssn, i) == (ssn \div Weight[i]) % Radix

\* The loop over the bytes finds how many remain without the leading zeros,
\* and 1 for the sequence number 0.
Occupies(ssn, w) ==
    /\ ssn < Weight[w]
    /\ \A v \in 1..w - 1 : ssn >= Weight[v]

SignificantBytes(ssn) == CHOOSE w \in 1..SSN_LEN : Occupies(ssn, w)

\* Slip: the bound of the copy is not checked.
FitsPivUnchecked(ssn) == ssn >= 0

\* The copy into the PIV buffer has room for MAX_PIV_LEN bytes.
FitsPiv(ssn) == \E w \in 1..MAX_PIV_LEN : Occupies(ssn, w)

\* The bytes are copied in the order they have in memory.
sender_seq_num2piv(ssn) == [i \in 1..SignificantBytes(ssn) |-> ByteOf(ssn, i - 1)]

\* Slip: the bytes are copied without padding.
PaddedPivBare(piv) == piv

\* create_nonce left-pads the PIV with zeros to MAX_PIV_LEN bytes.
PaddedPiv(piv) ==
    LET zeros == MAX_PIV_LEN - Len(piv)
    IN  [i \in 1..MAX_PIV_LEN |-> IF i <= zeros THEN 0 ELSE piv[i - zeros]]

\* The reference: the MAX_PIV_LEN low bytes of ssn, most significant first.
NetworkOrder(ssn) == [i \in 1..MAX_PIV_LEN |-> ByteOf(ssn, MAX_PIV_LEN - i)]

=============================================================================

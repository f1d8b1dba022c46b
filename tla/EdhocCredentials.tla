--------------------------- MODULE EdhocCredentials ----------------------------
(***************************************************************************)
(* The credential blocks of the EDHOC sample programs: what the programs   *)
(* are compiled with, one block of credentials.c for each test vector.     *)
(* The bytes of a key or a credential are a name; its length is kept.  All *)
(* blocks have corr 1, suite 0 and no auxiliary data.                      *)
(***************************************************************************)
EXTENDS EdhocKeys

\* The authentication keys: signatures (SK_x, PK_x) and static DH (x, G_x).
SK_I == [owner |-> "I", nr |-> 1]
SK_R == [owner |-> "R", nr |-> 1]
DH_I == [owner |-> "I", nr |-> 2]
DH_R == [owner |-> "R", nr |-> 2]

\* CA_PK is the key PK_R of the first vector.  CA has the zero byte that ends
\* a string literal in C; the issuer in the certificates has not.
CA_PK == SK_R
CA    == "RFC test CA and NUL"

\* ID_CRED_x: its length, and a name for its bytes.  Of a kid one byte is sent.
IdCred(label, len, id, cred) == [label |-> label, len |-> len, id |-> id, of |-> cred]
SentLen(id_cred) == IF id_cred.label = "kid" THEN 1 ELSE id_cred.len

\* The bytes of an x5chain of one certificate.
LongestIdCred == 140

\* CRED_x of the vectors, in the edition of the programs that have it.
Thumb(pk, edition) == IdCred("x5t", 14, edition, [RawPublicKey(pk) EXCEPT !.issuer = edition])
KeyId(pk, nr)      == IdCred("kid", 4, nr, RawPublicKey(pk))
Chain(pk)          == IdCred("x5chain", LongestIdCred, "chain", Certificate(pk, "RFC test CA", CA_PK))

\* An ID_CRED_x of other_party_cred that is a null pointer, or an array of no
\* bytes.  retrieve_cred compares it with what it has received all the same.
Null    == IdCred("null", 0, "null", RawPublicKey(NoKey))
NoBytes == IdCred("array", 0, "array", RawPublicKey(NoKey))

\* What a program has: its method (of the initiator), its ephemeral key, the
\* key it authenticates with, its own ID_CRED, and the other party's entry.
Block(method, ephemeral, key, id_cred, peer, ca) ==
    [method |-> method, ephemeral |-> ephemeral, key |-> key, id_cred |-> id_cred,
     peer |-> OtherPartyCred(peer, ca, CA_PK)]

-----------------------------------------------------------------------------
\* samples/edhoc_linux/initiator: the ID_CREDs of another edition of the
\* vectors than in the other programs.
LinuxInitiator1 == Block(0, "x1", SK_I, Thumb(SK_I, "old"), Thumb(SK_R, "old"), "")
LinuxInitiator2 == Block(3, "x2", DH_I, KeyId(DH_I, 35), KeyId(DH_R, 5), "")
LinuxInitiator3 == Block(0, "x1", SK_I, Chain(SK_I), Null, CA)
LinuxInitiator4 == Block(3, "x2", DH_I, Chain(DH_I), Null, CA)

\* samples/edhoc_linux/responder.
LinuxResponder1 == Block(0, "y1", SK_R, Thumb(SK_R, "new"), Thumb(SK_I, "new"), "")
LinuxResponder2 == Block(3, "y2", DH_R, KeyId(DH_R, 7), KeyId(DH_I, 36), "")
LinuxResponder3 == Block(0, "y1", SK_R, Chain(SK_R), NoBytes, CA)
LinuxResponder4 == Block(3, "y2", DH_R, Chain(DH_R), NoBytes, CA)

\* samples/edhoc_device/initiator.
DeviceInitiator1 == Block(0, "x1", SK_I, Thumb(SK_I, "new"), Thumb(SK_R, "new"), "")
DeviceInitiator2 == Block(3, "x2", DH_I, KeyId(DH_I, 36), KeyId(DH_R, 7), "")
DeviceInitiator4 == Block(0, "x1", SK_I, Chain(SK_I), Null, CA)
DeviceInitiator5 == Block(3, "x2", DH_I, Chain(DH_I), Null, CA)

\* samples/edhoc_device/responder.
DeviceResponder1 == Block(0, "y1", SK_R, Thumb(SK_R, "new"), Thumb(SK_I, "new"), "")
DeviceResponder2 == Block(3, "y2", DH_R, KeyId(DH_R, 7), KeyId(DH_I, 36), "")
DeviceResponder4 == Block(0, "y1", SK_R, Chain(SK_R), Null, CA)
DeviceResponder5 == Block(3, "y2", DH_R, Chain(DH_R), Null, CA)

-----------------------------------------------------------------------------
\* The messages of two programs and their lengths.  A message is known by its
\* content: the programs have fixed ephemeral keys, so programs with the same
\* block send the same bytes.

NoMessage == [nr |-> 0, len |-> 0]

\* Does a program hold the key that the method of message 1 asks it for?
HasKey(b, static_dh) == b.key \in (IF static_dh THEN {DH_I, DH_R} ELSE {SK_I, SK_R})

ByteString(len) == (IF len < 24 THEN 1 ELSE 2) + len
SignatureOrMac(static_dh) == IF static_dh THEN ByteString(8) ELSE ByteString(64)

Message1(b) ==
    [nr |-> 1, method |-> b.method, g_x |-> b.ephemeral, len |-> 1 + 1 + ByteString(32) + 1]

\* corr 1: message 2 has no C_I, message 3 has C_R, both of one byte.
Message2(m1, b) ==
    [nr |-> 2, of |-> m1, id_cred |-> b.id_cred, sealed |-> HasKey(b, StaticDhR(m1.method)),
     len |-> ByteString(32) + 1
                + ByteString(SentLen(b.id_cred) + SignatureOrMac(StaticDhR(m1.method)))]

Message3(m2, b) ==
    [nr |-> 3, of |-> m2, id_cred |-> b.id_cred, sealed |-> TRUE,
     len |-> 1 + ByteString(SentLen(b.id_cred) + SignatureOrMac(StaticDhI(b.method)) + 8)]

\* What the receiver of message 2 or 3 makes of the sender's credential.  A
\* null pointer is compared with bytes: the behaviour is undefined, the
\* program may end there.
PeerResults(b, m) ==
    LET found == retrieve_cred(<<b.peer>>, m.id_cred)
    IN  {IF found # "EdhocNoError" THEN found
         ELSE IF m.sealed /\ FoundCred(<<b.peer>>, m.id_cred) = m.id_cred.of THEN "EdhocNoError"
         ELSE "ResponderAuthenticationFailed"}
        \cup (IF b.peer.id_cred = Null THEN {"undefined"} ELSE {})

=============================================================================

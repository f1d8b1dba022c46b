------------------------------- MODULE EdhocKeys -------------------------------
(***************************************************************************)
(* The key schedule, the transcript hashes, the plaintexts and the          *)
(* credentials of EDHOC, with symbolic cryptography: a hash is its input, a *)
(* MAC, a signature or a ciphertext is a record of all it was made from.    *)
(*                                                                         *)
(* A key pair is a record of its owner and a number; the public key is      *)
(* named by the pair.  A PRK is the sequence of the Diffie-Hellman secrets   *)
(* it was extracted from.                                                   *)
(***************************************************************************)
EXTENDS Integers, Sequences

NoKey == [owner |-> "none", nr |-> 0]

shared_secret_derive(sk, pk) == {sk, pk}

\* The salt of the first extraction is empty.
hkdf_extract(prk, secret) == Append(prk, secret)

\* With signatures the PRK stays.
prk_derive(static_dh_auth, prk, pk, sk) ==
    IF static_dh_auth THEN hkdf_extract(prk, shared_secret_derive(sk, pk)) ELSE prk

\* Which side authenticates with its static Diffie-Hellman key.
StaticDhI(method) == method \in {2, 3}
StaticDhR(method) == method \in {1, 3}

Supported(suite) == suite \in 0..3

-----------------------------------------------------------------------------
\* Transcript hashes.  c_i and data_3 are absent when they are <<>>.

\* Slip: message 1 is not part of the hash.
th2_calculateNoMessage1(msg1, c_i, g_y, c_r) ==
    [msg1 |-> <<>>, c_i |-> c_i, g_y |-> g_y, c_r |-> c_r]

th2_calculate(msg1, c_i, g_y, c_r) ==
    [msg1 |-> msg1, c_i |-> c_i, g_y |-> g_y, c_r |-> c_r]

th3_calculate(th2, ciphertext_2, data_3) ==
    [th2 |-> th2, ciphertext_2 |-> ciphertext_2, data_3 |-> data_3]

th4_calculate(th3, ciphertext_3) == [th3 |-> th3, ciphertext_3 |-> ciphertext_3]

-----------------------------------------------------------------------------
\* Credentials.  A credential is a public key and, in a certificate, the name
\* of the issuer and the key that signed it.  ID_CRED_x is a label and the
\* credential it refers to (kid, x5t) or carries (x5chain).

RawPublicKey(pk)            == [pk |-> pk, issuer |-> "none", signer |-> NoKey]
Certificate(pk, ca, ca_key) == [pk |-> pk, issuer |-> ca, signer |-> ca_key]

Kid(len, cred) == [label |-> "kid", len |-> len, of |-> cred]
X5t(cred)      == [label |-> "x5t", len |-> 0, of |-> cred]
X5chain(cred)  == [label |-> "x5chain", len |-> 0, of |-> cred]

OtherPartyCred(id_cred, ca, ca_pk) ==
    [id_cred |-> id_cred, cred |-> id_cred.of, ca |-> ca, ca_pk |-> ca_pk]

\* memcmp is true of bytes that differ: the first entry is taken if its CA is
\* not the issuer, and no other entry is looked at.  No bytes do not differ.
cert_verify(cert, cred_array) ==
    IF cred_array[1].ca \in {cert.issuer, ""} THEN "NoSuchCA"
    ELSE IF cert.signer = cred_array[1].ca_pk THEN "EdhocNoError"
    ELSE "CertificateAuthenticationFailed"

Preestablished(cred_array, id_cred) ==
    \E k \in DOMAIN cred_array : cred_array[k].id_cred = id_cred

\* Why retrieve_cred fails, and the credential it finds when it does not.
retrieve_cred(cred_array, id_cred) ==
    IF Preestablished(cred_array, id_cred) THEN "EdhocNoError"
    ELSE IF id_cred.label = "x5chain" THEN cert_verify(id_cred.of, cred_array)
    ELSE "CredentialNotFound"

\* Slip: the credential of the first entry, whichever matched.
FoundCredFirst(cred_array, id_cred) == cred_array[1].cred

FoundCred(cred_array, id_cred) ==
    IF Preestablished(cred_array, id_cred)
    THEN cred_array[CHOOSE k \in DOMAIN cred_array :
                       /\ cred_array[k].id_cred = id_cred
                       /\ \A j \in DOMAIN cred_array :
                             cred_array[j].id_cred = id_cred => k <= j].cred
    ELSE id_cred.of

-----------------------------------------------------------------------------
\* Auxiliary data of messages 2 and 3: none, the encoding of a small CBOR
\* integer, the encoding of a CBOR byte string, its content, or other bytes.

NoAd           == [form |-> "none", id |-> 0]
AdForms        == {"none", "int", "bstr", "content", "raw"}

\* plaintext_encode appends the bytes of the AD; plaintext_split decodes them.
\* A small integer and its encoding are the same byte.
AdError(ad)   == IF ad.form = "raw" THEN "ErrorDuringCborDecoding" ELSE "EdhocNoError"
DecodedAd(ad) == IF ad.form = "bstr" THEN [ad EXCEPT !.form = "content"] ELSE ad

-----------------------------------------------------------------------------
\* MACs and signatures, plaintexts, ciphertexts.

\* signature_or_mac_msg_create: the MAC is always made; what is sent is the
\* MAC itself or the signature of signer over everything the MAC was made of,
\* and the MAC.
Signature_or_mac(label, static_dh_auth, signer, prk, th, id_cred, cred, ad) ==
    [label |-> label, signer |-> IF static_dh_auth THEN NoKey ELSE signer,
     prk |-> prk, th |-> th, id_cred |-> id_cred, cred |-> cred, ad |-> ad]

\* Slip: what verify reports is not looked at.
AuthenticAlways(label, static_dh_auth, prk, th, id_cred, cred, ad, sign_or_mac) == TRUE

\* memcmp of the MACs, or verify under the public key found.
Authentic(label, static_dh_auth, prk, th, id_cred, cred, ad, sign_or_mac) ==
    sign_or_mac =
      Signature_or_mac(label, static_dh_auth, cred.pk, prk, th, id_cred, cred, ad)

Plaintext(id_cred, sign_or_mac, ad) ==
    [id_cred |-> id_cred, sign_or_mac |-> sign_or_mac, ad |-> ad]

\* id_cred2kid leaves its buffer as it was, and the length of the buffer, for
\* a kid that is not one byte long: the plaintext starts with those bytes.
KidReadable(id_cred) == id_cred.label = "kid" => id_cred.len = 1

\* CIPHERTEXT_2 is the plaintext XOR a key stream, CIPHERTEXT_3 an AEAD.
Ciphertext(prk, th, text) == [prk |-> prk, th |-> th, text |-> text]

OpensWith(prk, th, ciphertext) == ciphertext.prk = prk /\ ciphertext.th = th

=============================================================================

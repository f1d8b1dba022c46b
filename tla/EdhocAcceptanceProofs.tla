------------------------- MODULE EdhocAcceptanceProofs -------------------------
(***************************************************************************)
(* Each party accepts the undamaged messages of the other: what a parser    *)
(* and a key schedule do undoes what the encoder and the key schedule of    *)
(* the other side did.  Whether it does depends on the parameters; the      *)
(* conditions below are the limits of the code.                             *)
(***************************************************************************)
EXTENDS EdhocProofs

-----------------------------------------------------------------------------
\* The limits.

\* One suite, which the code knows; C_I within its buffer.
Limits1 ==
    /\ \A suites \in SuiteLists : Len(suites) = 1
    /\ \A suites_r \in SuitesR : \A k \in DOMAIN suites_r : Supported(suites_r[k])
    /\ c_i.len \in 0..C_I_DEFAULT_SIZE

\* A credential that plaintext_encode can write and retrieve_cred finds.
Usable(known, id_cred) ==
    /\ KidReadable(id_cred)
    /\ retrieve_cred(known, id_cred) # "NoSuchCA"
    /\ FoundCred(known, id_cred) = id_cred.of

OneByteIdentifier(c) == c \in [len : {1}, id : Int]

\* A corr that hides C_I; an AD_2 that is the same when it is decoded.
Limits2 ==
    /\ \A corr \in Corrs : CorrHidesCi(corr)
    /\ OneByteIdentifier(c_r)
    /\ \A ad \in Ad2s : ad.form \notin {"bstr", "raw"}
    /\ \A id_cred \in IdCredsR : Usable(KnownToI, id_cred)

\* The corr for which C_R is expected where it is written; no AD_3.
Limits3 ==
    /\ Corrs \subseteq {1}
    /\ OneByteIdentifier(c_r)
    /\ Ad3s \subseteq {NoAd}
    /\ \A id_cred \in IdCredsI : Usable(KnownToR, id_cred)

-----------------------------------------------------------------------------
\* What the encoders write, item by item.

\* When no step of a function fails, the function does not (FirstError).
LEMMA AllWell3 == FirstError(<<"EdhocNoError", "EdhocNoError", "EdhocNoError">>)
                        = "EdhocNoError"
BY DEF FirstError

LEMMA AllWell5 ==
    FirstError(<<"EdhocNoError", "EdhocNoError", "EdhocNoError", "EdhocNoError",
                 "EdhocNoError">>) = "EdhocNoError"
BY DEF FirstError

\* bstr_identifier is undone when it is read (initiator.c 39-57).
LEMMA IdentifierRead ==
    ASSUME NEW c, OneByteIdentifier(c)
    PROVE  Identifier(bstr_identifier(c)) = c
<1>1. c.len = 1 /\ c.id \in Int /\ c = [len |-> 1, id |-> c.id]
  BY DEF OneByteIdentifier
<1>2. bstr_identifier(c) = Item("int", 1, <<"int", c.id - 24>>)
  BY <1>1 DEF bstr_identifier, CborInt
<1>3. Identifier(bstr_identifier(c)) = [len |-> 1, id |-> (c.id - 24) + 24]
  BY <1>2 DEF Identifier, Item
<1>4. (c.id - 24) + 24 = c.id
  BY <1>1
<1> QED
  BY <1>1, <1>3, <1>4

\* Message 1 (initiator.c 139-209).
LEMMA Message1Items ==
    ASSUME NEW run, NEW conf \in InitiatorConfs, NEW m, m = Message1(run, conf)
    PROVE  /\ {1, 2, 3, 4} \subseteq DOMAIN m
           /\ m[1] = CborInt(4 * conf.method + conf.corr)
           /\ m[2] = Suites(conf.suites)
           /\ m[3] = CborBstr(G_DEFAULT_SIZE, <<"g", EphemeralX(run)>>)
           /\ m[4] = bstr_identifier(c_i)
           /\ Len(m) = 4 \/ (Len(m) = 5 /\ 5 \in DOMAIN m
                              /\ m[5] = CborBstr(conf.ad_1, <<"ad_1", conf.ad_1>>))
<1> DEFINE a == CborInt(4 * conf.method + conf.corr)
           b == Suites(conf.suites)
           g == CborBstr(G_DEFAULT_SIZE, <<"g", EphemeralX(run)>>)
           d == bstr_identifier(c_i)
           x == CborBstr(conf.ad_1, <<"ad_1", conf.ad_1>>)
           S == {a, b, g, d, x}
           four == <<a, b, g, d>>
<1>1. m = IF conf.ad_1 = 0 THEN four ELSE Append(four, x)
  BY DEF Message1, msg1_encode
<1> HIDE DEF a, b, g, d, x
<1>2. /\ four \in Seq(S) /\ Len(four) = 4 /\ x \in S
      /\ four[1] = a /\ four[2] = b /\ four[3] = g /\ four[4] = d
  OBVIOUS
<1> HIDE DEF four, S
<1>3. CASE conf.ad_1 = 0
  <2>1. m = four
    BY <1>1, <1>3
  <2>2. DOMAIN four = 1..4
    BY <1>2, LenProperties
  <2> QED
    BY <1>2, <2>1, <2>2 DEF a, b, g, d
<1>4. CASE conf.ad_1 # 0
  <2>1. PICK q : q = Append(four, x)
    OBVIOUS
  <2>2. /\ q \in Seq(S) /\ Len(q) = Len(four) + 1
        /\ \A i \in 1..Len(four) : q[i] = four[i]
        /\ q[Len(four) + 1] = x
    <3>1. four \in Seq(S) /\ x \in S
      BY <1>2
    <3> QED
      BY <2>1, <3>1, AppendProperties
  <2>3. /\ Len(q) = 5 /\ q[5] = x
        /\ q[1] = a /\ q[2] = b /\ q[3] = g /\ q[4] = d
    BY <1>2, <2>2
  <2>4. DOMAIN q = 1..5
    BY <2>2, <2>3, LenProperties
  <2>5. m = q
    BY <1>1, <1>4, <2>1
  <2> QED
    BY <2>3, <2>4, <2>5 DEF a, b, g, d, x
<1> QED
  BY <1>3, <1>4

\* Message 2 of the responder has three items, whatever corr is (responder.c 226).
LEMMA Message2Three ==
    ASSUME NEW msg1, NEW c, NEW c2
    PROVE  msg2_encode(ResponderCorr(msg1), c, EphemeralY, c_r, c2)
              = <<CborBstr(G_DEFAULT_SIZE, <<"g", EphemeralY>>), bstr_identifier(c_r),
                  CborBstr(CIPHERTEXT_LEN, <<"ciphertext_2", c2>>)>>
BY DEF msg2_encode, ResponderCorr, AssignedCorr, CorrHidesCi

-----------------------------------------------------------------------------
\* Message 1 is accepted.

\* msg1_parse fails for the length of AD_1 only (responder.c 76-128).
LEMMA Accepts1 ==
    ASSUME Limits1, NEW run, NEW conf \in InitiatorConfs, NEW m, m = Message1(run, conf),
           NEW room
    PROVE  /\ msg1_parse(m, room) = "EdhocNoError" \/ (Len(m) = 5 /\ m[5].len > room)
           /\ FirstSuite(m) = SelectedSuite(m)
<1>1. conf.suites \in SuiteLists /\ Len(conf.suites) = 1
  BY DEF Limits1, InitiatorConfs
<1>2. /\ {1, 2, 3, 4} \subseteq DOMAIN m
      /\ m[1] = CborInt(4 * conf.method + conf.corr)
      /\ m[2] = CborInt(conf.suites[1])
      /\ m[3] = CborBstr(G_DEFAULT_SIZE, <<"g", EphemeralX(run)>>)
      /\ m[4] = bstr_identifier(c_i)
      /\ Len(m) = 4 \/ (Len(m) = 5 /\ 5 \in DOMAIN m
                         /\ m[5] = CborBstr(conf.ad_1, <<"ad_1", conf.ad_1>>))
  BY <1>1, Message1Items DEF Suites
<1>3. FirstSuite(m) = SelectedSuite(m)
  BY <1>2 DEF FirstSuite, SelectedSuite, CborInt, Item
<1>4. DecodeError(m, 1, SUITES_I_SIZE) = "EdhocNoError"
  BY <1>2 DEF DecodeError, CborInt, Item
<1>5. DecodeError(m, 2, SUITES_I_SIZE) = "EdhocNoError"
  BY <1>2 DEF DecodeError, CborInt, Item
<1>6. DecodeError(m, 3, G_DEFAULT_SIZE) = "EdhocNoError"
  BY <1>2 DEF DecodeError, CborBstr, Item, G_DEFAULT_SIZE
<1>7. DecodeError(m, 4, C_I_DEFAULT_SIZE) = "EdhocNoError"
  <2>1. c_i.len \in 0..8
    BY DEF Limits1, C_I_DEFAULT_SIZE
  <2>2. m[4].type = "int" \/ (m[4].type = "bstr" /\ m[4].len = c_i.len)
    BY <1>2 DEF bstr_identifier, CborInt, CborBstr, Item
  <2>3. ~(c_i.len > 8)
    BY <2>1
  <2> QED
    BY <1>2, <2>2, <2>3 DEF DecodeError, C_I_DEFAULT_SIZE
<1>8. CASE Len(m) = 4
  <2>1. Len(m) < 5
    BY <1>8
  <2> QED
    BY <1>3, <1>4, <1>5, <1>6, <1>7, <2>1, AllWell5 DEF msg1_parse
<1>9. CASE Len(m) = 5 /\ ~(m[5].len > room)
  <2>1. DecodeError(m, 5, room) = "EdhocNoError"
    BY <1>2, <1>9 DEF DecodeError, CborBstr, Item
  <2>2. ~(Len(m) < 5)
    BY <1>9
  <2> QED
    BY <1>3, <1>4, <1>5, <1>6, <1>7, <2>1, <2>2, AllWell5 DEF msg1_parse
<1> QED
  BY <1>2, <1>3, <1>8, <1>9

\* What the responder reads from message 1 (responder.c 76-104).
LEMMA Message1Read ==
    ASSUME NEW run, NEW conf \in InitiatorConfs, NEW m, m = Message1(run, conf)
    PROVE  /\ CorrOf(m) = conf.corr
           /\ GxOf(m) = EphemeralX(run)
<1>1. conf.method \in 0..3 /\ conf.corr \in 0..3
  BY HandshakeAssumption DEF InitiatorConfs
<1>2. m[1].val[2] = 4 * conf.method + conf.corr /\ m[3].val[2] = EphemeralX(run)
  <2>1. /\ m[1] = CborInt(4 * conf.method + conf.corr)
        /\ m[3] = CborBstr(G_DEFAULT_SIZE, <<"g", EphemeralX(run)>>)
    BY Message1Items
  <2> QED
    BY <2>1 DEF CborInt, CborBstr, Item
<1>3. (4 * conf.method + conf.corr) \div 4 = conf.method
  BY <1>1
<1>4. (4 * conf.method + conf.corr) - 4 * conf.method = conf.corr
  BY <1>1
<1> QED
  BY <1>2, <1>3, <1>4 DEF CorrOf, MethodOf, GxOf

-----------------------------------------------------------------------------
\* Message 2 is accepted.

\* A peer is authentic when its MAC or signature is the one expected.
LEMMA PeerAccepted ==
    ASSUME NEW label, NEW static_dh, NEW known, NEW prk, NEW sk, NEW th, NEW text,
           KidReadable(text.id_cred),
           retrieve_cred(known, text.id_cred) = "EdhocNoError",
           text.ad.form \notin {"bstr", "raw"},
           text.sign_or_mac =
              Signature_or_mac(label, static_dh, FoundCred(known, text.id_cred).pk,
                               PeerPrk(static_dh, known, prk, sk, text), th,
                               text.id_cred, FoundCred(known, text.id_cred), text.ad)
    PROVE  PeerResults(label, static_dh, known, prk, sk, th, text) = {"EdhocNoError"}
<1>1. AdError(text.ad) = "EdhocNoError" /\ DecodedAd(text.ad) = text.ad
  BY DEF AdError, DecodedAd
<1>2. Authentic(label, static_dh, PeerPrk(static_dh, known, prk, sk, text), th,
                text.id_cred, FoundCred(known, text.id_cred), DecodedAd(text.ad),
                text.sign_or_mac)
  BY <1>1 DEF Authentic
<1>3. PeerResults(label, static_dh, known, prk, sk, th, text)
         = {FirstError(<<"EdhocNoError", "EdhocNoError", "EdhocNoError">>)}
  BY <1>1, <1>2 DEF PeerResults
<1> QED
  BY <1>3, AllWell3

\* The results of retrieve_cred (retrieve_cred.c 108-204).
LEMMA RetrieveResults ==
    ASSUME NEW known, NEW id_cred, retrieve_cred(known, id_cred) # "NoSuchCA",
           retrieve_cred(known, id_cred)
              \notin {"CredentialNotFound", "CertificateAuthenticationFailed"}
    PROVE  retrieve_cred(known, id_cred) = "EdhocNoError"
BY DEF retrieve_cred, cert_verify

\* Both sides extract the same keys (prk.c 19-74).
LEMMA SameSecret ==
    ASSUME NEW static_dh, NEW prk, NEW pk, NEW sk
    PROVE  prk_derive(static_dh, prk, pk, sk) = prk_derive(static_dh, prk, sk, pk)
BY DEF prk_derive, hkdf_extract, shared_secret_derive

\* Message 2 of the responder (responder.c 405-416).
Answer2(msg1, c2) == msg2_encode(ResponderCorr(msg1), CiOf(msg1), EphemeralY, c_r, c2)

\* The initiator computes what the responder computed (initiator.c 267-384).
LEMMA Accepts2 ==
    ASSUME Limits2, PartiesAlign, ini.phase = "msg2", res.conf \in ResponderConfs,
           ini.msg1[2].type # "array",
           NEW c2, c2 = ResponderCiphertext2(ini.msg1),
           NEW msg, msg = Answer2(ini.msg1, c2),
           retrieve_cred(KnownToI, res.conf.id_cred) = "EdhocNoError"
    PROVE  Message2Results(msg) = {"EdhocNoError"}
<1> DEFINE corr == ini.conf.corr
           id_cred == res.conf.id_cred
           x == EphemeralX(ini.run)
           static == StaticDhR(ini.conf.method)
<1>1. /\ ini.conf \in InitiatorConfs /\ ini.msg1 = Message1(ini.run, ini.conf)
      /\ corr \in Corrs /\ GyAt(corr) = 1
  BY DEF PartiesAlign, InitiatorConfs, Limits2, GyAt
<1>2. MethodOf(ini.msg1) = ini.conf.method /\ GxOf(ini.msg1) = x
  BY <1>1, Message1Read, Message1Reads
<1>3. msg = <<CborBstr(G_DEFAULT_SIZE, <<"g", EphemeralY>>), bstr_identifier(c_r),
              CborBstr(CIPHERTEXT_LEN, <<"ciphertext_2", c2>>)>>
  BY Message2Three DEF Answer2
<1>4. /\ msg[1].val[2] = EphemeralY /\ msg[2] = bstr_identifier(c_r)
      /\ msg[3].val = <<"ciphertext_2", c2>>
  BY <1>3 DEF CborBstr, Item
<1>5. msg2_parse(corr, c_i.len, msg) = "EdhocNoError"
  <2>1. DOMAIN msg = 1..3
    BY <1>3
  <2>2. DecodeError(msg, 1, G_DEFAULT_SIZE) = "EdhocNoError"
        /\ TextError(msg, 1) = "EdhocNoError"
    BY <1>3, <2>1 DEF DecodeError, TextError, CborBstr, Item, G_DEFAULT_SIZE
  <2>3. msg[2].type = "int"
    BY <1>4 DEF Limits2, OneByteIdentifier, bstr_identifier, CborInt, Item
  <2>4. DecodeError(msg, 2, C_R_DEFAULT_SIZE) = "EdhocNoError"
    BY <2>1, <2>3 DEF DecodeError
  <2>5. DecodeError(msg, 3, CIPHERTEXT_DEFAULT_SIZE) = "EdhocNoError"
    BY <1>3, <2>1 DEF DecodeError, CborBstr, Item, CIPHERTEXT_DEFAULT_SIZE, CIPHERTEXT_LEN
  <2>6. msg2_parse(corr, c_i.len, msg)
           = FirstError(<<"EdhocNoError", DecodeError(msg, 1, G_DEFAULT_SIZE),
                          TextError(msg, 1), DecodeError(msg, 2, C_R_DEFAULT_SIZE),
                          DecodeError(msg, 3, CIPHERTEXT_DEFAULT_SIZE)>>)
    BY <1>1 DEF msg2_parse
  <2> QED
    BY <2>2, <2>4, <2>5, <2>6, AllWell5
<1>6. InitiatorTh2(msg) = ResponderTh2(ini.msg1)
  BY <1>1, <1>4, IdentifierRead DEF InitiatorTh2, ResponderTh2, Limits2
<1>7. InitiatorPrk2e(msg) = ResponderPrk2e(ini.msg1)
  BY <1>1, <1>2, <1>4 DEF InitiatorPrk2e, ResponderPrk2e, shared_secret_derive
<1>8. Ciphertext2(msg) = c2
  BY <1>1, <1>4 DEF Ciphertext2
<1>9. /\ c2.prk = ResponderPrk2e(ini.msg1) /\ c2.th = ResponderTh2(ini.msg1)
      /\ c2.text.id_cred = id_cred /\ c2.text.ad = res.conf.ad_2
      /\ c2.text.sign_or_mac =
            Signature_or_mac("2", static, id_cred.of.pk, ResponderPrk3e2m(ini.msg1),
                             ResponderTh2(ini.msg1), id_cred, id_cred.of, res.conf.ad_2)
  BY <1>2 DEF ResponderCiphertext2, Ciphertext, Plaintext
<1>10. OpensMessage2(msg)
  BY <1>1, <1>4, <1>6, <1>7, <1>8, <1>9 DEF OpensMessage2, OpensWith
<1>11. id_cred \in IdCredsR /\ res.conf.ad_2 \in Ad2s
  BY DEF ResponderConfs
<1>12. /\ KidReadable(id_cred) /\ FoundCred(KnownToI, id_cred) = id_cred.of
       /\ res.conf.ad_2.form \notin {"bstr", "raw"}
  BY <1>11 DEF Limits2, Usable
<1>13. PeerPrk(static, KnownToI, InitiatorPrk2e(msg), x, c2.text)
          = ResponderPrk3e2m(ini.msg1)
  BY <1>2, <1>7, <1>9, <1>12, SameSecret DEF PeerPrk, ResponderPrk3e2m
<1>14. PeerResults("2", static, KnownToI, InitiatorPrk2e(msg), x, InitiatorTh2(msg),
                   c2.text) = {"EdhocNoError"}
  BY <1>6, <1>9, <1>12, <1>13, PeerAccepted
<1> QED
  BY <1>5, <1>8, <1>10, <1>14 DEF Message2Results

-----------------------------------------------------------------------------
\* Message 3 is accepted.

\* The CIPHERTEXT_3 an initiator makes for an offer when C_R is as the
\* responder wrote it (initiator.c 386-530).
Confirmation(o, conf) ==
    LET th3 == th3_calculate(o.th2, o.ciphertext_2, <<c_r>>)
        id_cred == conf.id_cred
    IN  Ciphertext(o.prk_3e2m, th3,
                   Plaintext(id_cred,
                             Signature_or_mac("3", StaticDhI(conf.method), id_cred.of.pk,
                                              prk_derive(StaticDhI(conf.method), o.prk_3e2m,
                                                         EphemeralY, id_cred.of.pk),
                                              th3, id_cred, id_cred.of, conf.ad_3),
                             NoAd))

\* Made by an initiator for what this responder offers to its message 1.
Genuine3(c3) ==
    \E run : \E conf \in InitiatorConfs :
       LET o == ResponderOffer(Message1(run, conf))
       IN  o.method = conf.method /\ c3 = Confirmation(o, conf)

\* The C_R part of TH_3 is the one read from message 2, which TH_2 protects.
LEMMA MakesConfirmation ==
    ASSUME Limits3, AgreementInv, ini.phase = "msg2",
           \A o \in offered : o = ResponderOffer(o.th2.msg1),
           NEW msg \in toI, "EdhocNoError" \in Message2Results(msg)
    PROVE  /\ Genuine3(Ciphertext3(msg))
           /\ Identifier(msg[GyAt(ini.conf.corr) + 1]) = c_r
<1> DEFINE g == GyAt(ini.conf.corr)
           offer == InitiatorOffer(msg)
<1>1. PICK o : o = offer
  OBVIOUS
<1>2. o \in offered /\ o.ciphertext_2 = Ciphertext2(msg) /\ o.method = ini.conf.method
  BY <1>1, AcceptedMessage2 DEF InitiatorOffer, Offer
<1>3. o.th2 = InitiatorTh2(msg)
  BY <1>1 DEF InitiatorOffer, Offer
<1>4. /\ o.th2.msg1 = ini.msg1 /\ o.th2.g_y = msg[g].val[2]
      /\ o.th2.c_r = Identifier(msg[g + 1])
  BY <1>3 DEF InitiatorTh2, th2_calculate
<1>5. o = ResponderOffer(ini.msg1)
  BY <1>2, <1>4
<1>6. o.th2 = ResponderTh2(ini.msg1)
  BY <1>5 DEF ResponderOffer, Offer
<1>7. msg[g].val[2] = EphemeralY /\ Identifier(msg[g + 1]) = c_r
  BY <1>4, <1>6 DEF ResponderTh2, th2_calculate
<1>8. ini.conf \in InitiatorConfs /\ ini.msg1 = Message1(ini.run, ini.conf)
  BY DEF AgreementInv, PartiesAlign
<1>9. ini.conf.corr = 1
  BY <1>8 DEF Limits3, InitiatorConfs
<1>10. InitiatorTh3(msg) = th3_calculate(o.th2, o.ciphertext_2, <<c_r>>)
  BY <1>2, <1>3, <1>7, <1>9 DEF InitiatorTh3, CorrHidesCr
<1>11. InitiatorPrk4x3m(msg) = prk_derive(StaticDhI(ini.conf.method), o.prk_3e2m,
                                         EphemeralY, ini.conf.id_cred.of.pk)
  BY <1>1, <1>7 DEF InitiatorPrk4x3m
<1>12. Ciphertext3(msg) = Confirmation(o, ini.conf)
  BY <1>1, <1>10, <1>11 DEF Ciphertext3, Confirmation
<1> HIDE DEF g
<1>13. \E run : \E conf \in InitiatorConfs :
          /\ ResponderOffer(Message1(run, conf)).method = conf.method
          /\ Ciphertext3(msg) = Confirmation(ResponderOffer(Message1(run, conf)), conf)
  <2>1. PICK run, conf : run = ini.run /\ conf = ini.conf
    OBVIOUS
  <2>2. ResponderOffer(Message1(run, conf)) = o
    BY <1>5, <1>8, <2>1
  <2>3. conf \in InitiatorConfs /\ o.method = conf.method
    BY <1>2, <1>8, <2>1
  <2>4. Ciphertext3(msg) = Confirmation(ResponderOffer(Message1(run, conf)), conf)
    BY <1>12, <2>1, <2>2
  <2> QED
    BY <2>2, <2>3, <2>4
<1> QED
  BY <1>7, <1>13 DEF Genuine3, g

\* The responder computes what the initiator computed (responder.c 425-581).
LEMMA Accepts3 ==
    ASSUME Limits3, res.phase = "msg3", res.offer = ResponderOffer(res.msg1),
           NEW c3, Genuine3(c3), c3.th.th2 = res.offer.th2,
           NEW msg, msg = msg3_encode(c_r, c3),
           retrieve_cred(KnownToR, c3.text.id_cred) = "EdhocNoError"
    PROVE  Message3Results(msg) = {"EdhocNoError"}
<1>1. PICK run : \E conf \in InitiatorConfs :
         /\ ResponderOffer(Message1(run, conf)).method = conf.method
         /\ c3 = Confirmation(ResponderOffer(Message1(run, conf)), conf)
  BY DEF Genuine3
<1>2. PICK conf \in InitiatorConfs :
         /\ ResponderOffer(Message1(run, conf)).method = conf.method
         /\ c3 = Confirmation(ResponderOffer(Message1(run, conf)), conf)
  BY <1>1
<1>3. PICK o : o = ResponderOffer(Message1(run, conf))
  OBVIOUS
<1> DEFINE th3 == th3_calculate(o.th2, o.ciphertext_2, <<c_r>>)
           id_cred == conf.id_cred
           static == StaticDhI(conf.method)
           prk4 == prk_derive(static, o.prk_3e2m, EphemeralY, id_cred.of.pk)
<1>4. /\ c3.prk = o.prk_3e2m /\ c3.th = th3
      /\ c3.text.id_cred = id_cred /\ c3.text.ad = NoAd
      /\ c3.text.sign_or_mac =
            Signature_or_mac("3", static, id_cred.of.pk, prk4, th3, id_cred, id_cred.of,
                             conf.ad_3)
  BY <1>2, <1>3 DEF Confirmation, Ciphertext, Plaintext
<1>5. o.th2 = ResponderTh2(Message1(run, conf)) /\ res.offer.th2 = ResponderTh2(res.msg1)
  BY <1>3 DEF ResponderOffer, Offer
<1>6. c3.th.th2 = o.th2
  BY <1>4 DEF th3_calculate
<1>7. res.msg1 = Message1(run, conf)
  BY <1>5, <1>6 DEF ResponderTh2, th2_calculate
<1>8. res.offer = o
  BY <1>3, <1>7
<1>9. conf.corr = 1 /\ conf.ad_3 = NoAd /\ id_cred \in IdCredsI
  BY DEF Limits3, InitiatorConfs
<1>10. CorrOf(res.msg1) = 1
  BY <1>7, <1>9, Message1Read
<1>11. ResponderCorr(res.msg1) = 1 /\ Ciphertext3At(1) = 2
  BY <1>10 DEF ResponderCorr, AssignedCorr, Ciphertext3At, CorrHidesCr
<1>12. /\ msg = <<bstr_identifier(c_r),
                  CborBstr(CIPHERTEXT_LEN, <<"ciphertext_3", c3>>)>>
       /\ DOMAIN msg = 1..2
  BY DEF msg3_encode
<1>13. msg3_parse(1, msg) = "EdhocNoError"
  <2>1. msg[1].type = "int"
    BY <1>12 DEF Limits3, OneByteIdentifier, bstr_identifier, CborInt, Item
  <2>2. DecodeError(msg, 1, C_R_DEFAULT_SIZE) = "EdhocNoError"
    BY <1>12, <2>1 DEF DecodeError
  <2>3. /\ DecodeError(msg, 2, CIPHERTEXT_DEFAULT_SIZE) = "EdhocNoError"
        /\ TextError(msg, 2) = "EdhocNoError"
    BY <1>12 DEF DecodeError, TextError, CborBstr, Item, CIPHERTEXT_DEFAULT_SIZE,
                 CIPHERTEXT_LEN
  <2>4. msg3_parse(1, msg)
           = FirstError(<<DecodeError(msg, 1, C_R_DEFAULT_SIZE),
                          DecodeError(msg, 2, CIPHERTEXT_DEFAULT_SIZE), TextError(msg, 2)>>)
    BY <1>11 DEF msg3_parse
  <2> QED
    BY <2>2, <2>3, <2>4, AllWell3
<1>14. /\ ReceivedCiphertext3(msg).val = <<"ciphertext_3", c3>>
       /\ ReceivedCiphertext3(msg).len = 100
  BY <1>11, <1>12 DEF ReceivedCiphertext3, CborBstr, Item, CIPHERTEXT_LEN
<1>15. ~(ReceivedCiphertext3(msg).len < mac_len(res.offer.suite))
  BY <1>14 DEF mac_len
<1>16. ResponderTh3 = th3
  BY <1>8 DEF ResponderTh3
<1>17. OpensMessage3(msg)
  BY <1>4, <1>8, <1>14, <1>16 DEF OpensMessage3, OpensWith
<1>18. KidReadable(id_cred) /\ FoundCred(KnownToR, id_cred) = id_cred.of
  BY <1>9 DEF Limits3, Usable
<1>19. PeerPrk(static, KnownToR, o.prk_3e2m, EphemeralY, c3.text) = prk4
  BY <1>4, <1>18, SameSecret DEF PeerPrk
<1>20. NoAd.form \notin {"bstr", "raw"}
  BY DEF NoAd
<1>21. PeerResults("3", static, KnownToR, o.prk_3e2m, EphemeralY, th3, c3.text)
          = {"EdhocNoError"}
  BY <1>4, <1>9, <1>18, <1>19, <1>20, PeerAccepted
<1>22. StaticDhI(res.offer.method) = static
  BY <1>2, <1>3, <1>8
<1> QED
  BY <1>8, <1>11, <1>13, <1>14, <1>15, <1>16, <1>17, <1>21, <1>22 DEF Message3Results

-----------------------------------------------------------------------------
\* What the parties send and return in a step.

Asked(m)   == \E run : \E conf \in InitiatorConfs : m = Message1(run, conf)
Offers(m)  == \E msg1 : m = Answer2(msg1, ResponderCiphertext2(msg1)) /\ msg1[2].type # "array"
Form3(m)   == \E c, c3 : m = msg3_encode(c, c3)
Refusal(m) == \A k \in DOMAIN m : m[k].val[1] \in {"id", "ERR_MSG", "suites"}

\* The initiator confirms the offer of a message 2 it accepts (initiator.c 386-554).
Confirms(m) ==
    \E msg \in toI :
       /\ ini.phase = "msg2" /\ "EdhocNoError" \in Message2Results(msg)
       /\ m = msg3_encode(Identifier(msg[GyAt(ini.conf.corr) + 1]), Ciphertext3(msg))

NewMessage(m) == Asked(m) \/ Offers(m) \/ Confirms(m) \/ Refusal(m)

NewReturn(e) ==
    \/ e.by = "I" /\ e.taken = <<>>
    \/ e.by = "I" /\ ini.phase = "msg2" /\ e.msg1 = ini.msg1
       /\ e.result \in Message2Results(e.taken)
    \/ e.by = "R" /\ e.stage = "msg1" /\ e.result = Message1Result(e.taken)
       /\ e.result # "EdhocNoError"
    \/ e.by = "R" /\ e.stage = "msg3" /\ e.taken = <<>>
    \/ e.by = "R" /\ e.stage = "msg3" /\ res.phase = "msg3" /\ e.th2 = res.offer.th2
       /\ e.result \in Message3Results(e.taken)

\* The responder's locals after a step.
ResponderGoesOn ==
    /\ res'.conf = res.conf
    /\ \/ res'.ad_1_len = res.ad_1_len
       \/ \E msg \in toR : res'.ad_1_len = AdLen(msg) /\ msg \in TakenMessages1'
    /\ res'.phase = "msg3" =>
          \/ res.phase = "msg3" /\ res'.offer = res.offer /\ res'.msg1 = res.msg1
          \/ res'.offer = ResponderOffer(res'.msg1)
    /\ \A o \in offered' \ offered : \E m : o = ResponderOffer(m)
    /\ offered \subseteq offered'

StepTaken ==
    /\ ResponderGoesOn
    /\ \A m \in sent' \ sent : NewMessage(m)
    /\ \A e \in ended' \ ended : NewReturn(e)
    /\ ended \subseteq ended'

\* err_msg.c 27-96.
LEMMA ErrorMessageRefuses ==
    ASSUME NEW role, NEW corr, NEW c, NEW suites
    PROVE  Refusal(err_msg(role, corr, c, suites))
<1> DEFINE a == CborBstr(c.len, <<"id", c.id>>)
           e == CborBstr(0, <<"ERR_MSG", 0>>)
           x == CborBstr(Len(suites), <<"suites", suites>>)
           S == {a, e, x}
           s == IF \/ role = "RESPONDER" /\ corr \in {0, 2}
                   \/ role = "INITIATOR" /\ corr \in {0, 1} THEN <<a>> ELSE <<>>
           u == IF suites = <<>> THEN <<>> ELSE <<x>>
           m == err_msg(role, corr, c, suites)
<1>1. \A i \in S : i.val[1] \in {"id", "ERR_MSG", "suites"}
  BY DEF CborBstr, Item
<1>2. m = s \o <<e>> \o u
  BY DEF err_msg
<1> HIDE DEF a, e, x, m
<1>3. s \in Seq(S) /\ u \in Seq(S) /\ <<e>> \in Seq(S)
  <2>1. <<a>> \in Seq(S) /\ <<e>> \in Seq(S) /\ <<x>> \in Seq(S) /\ <<>> \in Seq(S)
    OBVIOUS
  <2> QED
    BY <2>1
<1> HIDE DEF s, u, S
<1>4. s \o <<e>> \in Seq(S)
  BY <1>3, ConcatProperties
<1>5. m \in Seq(S)
  BY <1>2, <1>3, <1>4, ConcatProperties
<1>6. \A k \in DOMAIN m : m[k] \in S
  BY <1>5
<1> QED
  BY <1>1, <1>6 DEF Refusal, m

\* The initiator's steps.
LEMMA StartRunTaken ==
    ASSUME TypeInv, AgreementInv, NEW conf \in InitiatorConfs, StartRun(conf)
    PROVE  StepTaken
<1> DEFINE run == ini.run + 1
           msg1 == Message1(run, conf)
<1>1. ResponderGoesOn
  BY DEF StartRun, ResponderGoesOn
<1>2. CASE Supported(conf.suites[1])
  <2>1. sent' = sent \cup {msg1} /\ ended' = ended
    BY <1>2 DEF StartRun
  <2>2. PICK n : n = run
    OBVIOUS
  <2>3. Asked(msg1)
    BY <2>2 DEF Asked
  <2> QED
    BY <1>1, <2>1, <2>3 DEF StepTaken, NewMessage
<1>3. CASE ~Supported(conf.suites[1])
  <2>1. PICK r : r = Return("I", run, "msg1", "UnsupportedCipherSuite", msg1, Undefined,
                            <<>>, Undefined, Undefined)
    OBVIOUS
  <2>2. ended' = ended \cup {r} /\ sent' = sent
    BY <1>3, <2>1 DEF StartRun
  <2>3. r.by = "I" /\ r.taken = <<>>
    BY <2>1 DEF Return
  <2> QED
    BY <1>1, <2>2, <2>3 DEF StepTaken, NewReturn
<1> QED
  BY <1>2, <1>3

LEMMA TakeMessage2Taken ==
    ASSUME TypeInv, AgreementInv, NEW msg \in toI, TakeMessage2(msg)
    PROVE  StepTaken
<1>1. ResponderGoesOn /\ ini.phase = "msg2"
  BY DEF TakeMessage2, ResponderGoesOn
<1>2. PICK result \in Message2Results(msg) :
         /\ ended' = ended \cup
              {Return("I", ini.run, "msg2", result, ini.msg1, Undefined, msg,
                      IF result = "EdhocNoError" THEN InitiatorKey(msg) ELSE Undefined,
                      Undefined)}
         /\ sent' = sent \cup Reply(msg, result)
  BY DEF TakeMessage2
<1>3. PICK r : r = Return("I", ini.run, "msg2", result, ini.msg1, Undefined, msg,
                          IF result = "EdhocNoError" THEN InitiatorKey(msg)
                          ELSE Undefined, Undefined)
  OBVIOUS
<1>4. /\ ended' = ended \cup {r} /\ r.by = "I" /\ r.msg1 = ini.msg1
      /\ r.result = result /\ r.taken = msg
  BY <1>2, <1>3 DEF Return
<1>5. NewReturn(r)
  BY <1>1, <1>4 DEF NewReturn
<1>6. \A m \in Reply(msg, result) : NewMessage(m)
  <2>1. CASE result = "EdhocNoError"
    <3>1. Reply(msg, result)
             = {msg3_encode(Identifier(msg[GyAt(ini.conf.corr) + 1]), Ciphertext3(msg))}
      BY <2>1 DEF Reply
    <3> QED
      BY <1>1, <2>1, <3>1 DEF NewMessage, Confirms
  <2>2. CASE result # "EdhocNoError"
    BY <2>2, ErrorMessageRefuses DEF Reply, NewMessage
  <2> QED
    BY <2>1, <2>2
<1> QED
  BY <1>1, <1>2, <1>4, <1>5, <1>6 DEF StepTaken

LEMMA InitiatorRxFailsTaken ==
    ASSUME TypeInv, AgreementInv, InitiatorRxFails
    PROVE  StepTaken
<1>1. PICK r : r = Return("I", ini.run, "msg2", "rx", ini.msg1, Undefined,
                          <<>>, Undefined, Undefined)
  OBVIOUS
<1>2. ended' = ended \cup {r} /\ sent' = sent /\ res' = res /\ offered' = offered
  BY <1>1 DEF InitiatorRxFails
<1>3. r.by = "I" /\ r.taken = <<>>
  BY <1>1 DEF Return
<1> QED
  BY <1>2, <1>3 DEF StepTaken, NewReturn, ResponderGoesOn

\* The responder's steps.
LEMMA TakeMessage1Taken ==
    ASSUME TypeInv, AgreementInv, NEW msg \in toR, TakeMessage1(msg)
    PROVE  StepTaken
<1> DEFINE result == Message1Result(msg)
<1>1. sent' = sent \cup Answer1(msg, result)
  BY DEF TakeMessage1
<1>2. {"conf", "ad_1_len", "msg1", "phase", "run", "offer"} \subseteq DOMAIN res
  BY DEF TypeInv, AgreementInv, PartiesAlign
<1>3. CASE result = "EdhocNoError"
  <2>1. PICK o, n : o = ResponderOffer(msg) /\ n = AdLen(msg)
    OBVIOUS
  <2>2. /\ res' = [res EXCEPT !.phase = "msg3", !.ad_1_len = n,
                              !.msg1 = msg, !.offer = o]
        /\ ended' = ended /\ offered' = offered \cup {o}
    BY <1>3, <2>1 DEF TakeMessage1
  <2>3. /\ res'.conf = res.conf /\ res'.ad_1_len = n
        /\ res'.msg1 = msg /\ res'.offer = o
    BY <1>2, <2>2
  <2>8. msg \in TakenMessages1'
    <3>1. o.th2.msg1 = msg
      BY <2>1 DEF ResponderOffer, Offer, ResponderTh2, th2_calculate
    <3> QED
      BY <2>2, <3>1 DEF TakenMessages1
  <2>4. ResponderGoesOn
    BY <2>1, <2>2, <2>3, <2>8 DEF ResponderGoesOn
  <2>5. msg[2].type # "array"
    <3>1. msg1_parse(msg, res.ad_1_len) = "EdhocNoError"
      BY <1>3 DEF Message1Result
    <3>2. DecodeError(msg, 2, SUITES_I_SIZE) = "EdhocNoError"
      BY <3>1, NoErrorOf5 DEF msg1_parse
    <3> QED
      BY <3>2 DEF DecodeError
  <2>6. Answer1(msg, result) = {Answer2(msg, ResponderCiphertext2(msg))}
    BY <1>3 DEF Answer1, Answer2
  <2>7. \A m \in Answer1(msg, result) : Offers(m)
    BY <2>5, <2>6 DEF Offers
  <2> HIDE DEF result
  <2> QED
    BY <1>1, <2>2, <2>4, <2>7 DEF StepTaken, NewMessage
<1>4. CASE result # "EdhocNoError"
  <2>1. PICK r : r = Return("R", res.run, "msg1", result, msg, Undefined, msg,
                            Undefined, res.out)
    OBVIOUS
  <2>2. PICK n : n = AdLen(msg)
    OBVIOUS
  <2>3. PICK s : s = [res EXCEPT !.ad_1_len = n]
    OBVIOUS
  <2>4. res' = NextLoop(s) /\ ended' = ended \cup {r} /\ offered' = offered
    BY <1>4, <2>1, <2>2, <2>3 DEF TakeMessage1
  <2>5. s.conf = res.conf /\ s.ad_1_len = n /\ DOMAIN s = DOMAIN res
    BY <1>2, <2>3
  <2>6. res'.conf = res.conf /\ res'.ad_1_len = n /\ res'.phase # "msg3"
    BY <1>2, <2>4, <2>5 DEF NextLoop
  <2>10. msg \in TakenMessages1'
    <3>1. r \in ended' /\ r.by = "R" /\ r.stage = "msg1" /\ r.taken = msg
      BY <2>1, <2>4 DEF Return
    <3> QED
      BY <3>1 DEF TakenMessages1
  <2>7. ResponderGoesOn
    BY <2>2, <2>4, <2>6, <2>10 DEF ResponderGoesOn
  <2>8. NewReturn(r)
    BY <1>4, <2>1 DEF NewReturn, Return
  <2>9. \A m \in Answer1(msg, result) : Refusal(m)
    BY <1>4, ErrorMessageRefuses DEF Answer1
  <2> HIDE DEF result
  <2> QED
    BY <1>1, <2>4, <2>7, <2>8, <2>9 DEF StepTaken, NewMessage
<1> QED
  BY <1>3, <1>4

LEMMA TakeMessage3Taken ==
    ASSUME TypeInv, AgreementInv, NEW msg \in toR, TakeMessage3(msg)
    PROVE  StepTaken
<1>1. res.phase = "msg3" /\ offered' = offered
  BY DEF TakeMessage3
<1>2. PICK result \in Message3Results(msg) :
         /\ res' = IF result = "undefined" THEN [res EXCEPT !.phase = "stopped"]
                   ELSE NextLoop([res EXCEPT !.out = Out(msg, result)])
         /\ ended' = ended \cup
              {Return("R", res.run, "msg3", result, res.msg1, res.offer.th2, msg,
                      IF result = "EdhocNoError" THEN ResponderKey(msg) ELSE Undefined,
                      Out(msg, result))}
         /\ sent' = sent \cup Answer3(result)
  BY DEF TakeMessage3
<1>3. PICK r : r = Return("R", res.run, "msg3", result, res.msg1, res.offer.th2, msg,
                          IF result = "EdhocNoError" THEN ResponderKey(msg)
                          ELSE Undefined, Out(msg, result))
  OBVIOUS
<1>4. /\ ended' = ended \cup {r} /\ r.by = "R" /\ r.stage = "msg3" /\ r.taken = msg
      /\ r.result = result /\ r.th2 = res.offer.th2
  BY <1>2, <1>3 DEF Return
<1>5. NewReturn(r)
  BY <1>1, <1>4 DEF NewReturn
<1>6. {"conf", "ad_1_len", "msg1", "phase", "run"} \subseteq DOMAIN res
  BY DEF TypeInv, AgreementInv, PartiesAlign
<1>7. res'.conf = res.conf /\ res'.ad_1_len = res.ad_1_len /\ res'.phase # "msg3"
  <2>1. CASE result = "undefined"
    BY <1>2, <1>6, <2>1
  <2>2. CASE result # "undefined"
    <3>1. PICK out : out = Out(msg, result)
      OBVIOUS
    <3>2. PICK s : s = [res EXCEPT !.out = out]
      OBVIOUS
    <3>3. res' = NextLoop(s)
      BY <1>2, <2>2, <3>1, <3>2
    <3>4. s.conf = res.conf /\ s.ad_1_len = res.ad_1_len /\ DOMAIN s = DOMAIN res
      BY <1>6, <3>2
    <3> QED
      BY <1>6, <3>3, <3>4 DEF NextLoop
  <2> QED
    BY <2>1, <2>2
<1>8. ResponderGoesOn
  BY <1>1, <1>7 DEF ResponderGoesOn
<1>9. \A m \in Answer3(result) : Refusal(m)
  BY ErrorMessageRefuses DEF Answer3
<1> QED
  BY <1>2, <1>4, <1>5, <1>8, <1>9 DEF StepTaken, NewMessage

LEMMA ResponderRxFailsTaken ==
    ASSUME TypeInv, AgreementInv, ResponderRxFails
    PROVE  StepTaken
<1>1. PICK r : r = Return("R", res.run, "msg3", "rx", res.msg1, res.offer.th2,
                          <<>>, Undefined, res.out)
  OBVIOUS
<1>2. /\ res' = NextLoop(res) /\ ended' = ended \cup {r}
      /\ sent' = sent /\ offered' = offered
  BY <1>1 DEF ResponderRxFails
<1>3. NewReturn(r)
  BY <1>1 DEF NewReturn, Return
<1>4. res'.conf = res.conf /\ res'.ad_1_len = res.ad_1_len /\ res'.phase # "msg3"
  <2>1. {"conf", "ad_1_len", "msg1", "phase", "run"} \subseteq DOMAIN res
    BY DEF TypeInv, AgreementInv, PartiesAlign
  <2> QED
    BY <1>2, <2>1 DEF NextLoop
<1> QED
  BY <1>2, <1>3, <1>4 DEF StepTaken, ResponderGoesOn

\* Every step is one of these; the network and steps of nobody send nothing.
LEMMA StepsTaken ==
    ASSUME TypeInv, AgreementInv, [Next]_vars
    PROVE  StepTaken
<1>1. ASSUME LoseMessage \/ DamageMessage \/ UNCHANGED vars  PROVE StepTaken
  <2>1. UNCHANGED <<res, sent, offered, ended>>
    BY <1>1 DEF LoseMessage, DamageMessage, vars
  <2> QED
    BY <2>1 DEF StepTaken, ResponderGoesOn
<1> QED
  BY <1>1, StartRunTaken, TakeMessage2Taken, InitiatorRxFailsTaken, TakeMessage1Taken,
     TakeMessage3Taken, ResponderRxFailsTaken DEF Next

-----------------------------------------------------------------------------
\* Messages by what they carry.

LEMMA AskedCarries ==
    ASSUME NEW m, Asked(m)
    PROVE  Carries(m, "ciphertext_2") = {} /\ Carries(m, "ciphertext_3") = {}
<1>1. \A k \in DOMAIN m : PlainItem(m[k])
  BY Message1Plain DEF Asked, Message1
<1> QED
  BY <1>1 DEF PlainItem, Carries

LEMMA OfferCarries ==
    ASSUME NEW msg1, NEW c2, NEW m, m = Answer2(msg1, c2)
    PROVE  /\ Carries(m, "ciphertext_2") = {c2} /\ Carries(m, "ciphertext_3") = {}
<1> DEFINE g == CborBstr(G_DEFAULT_SIZE, <<"g", EphemeralY>>)
           b == bstr_identifier(c_r)
           x == CborBstr(CIPHERTEXT_LEN, <<"ciphertext_2", c2>>)
<1>1. m = <<g, b, x>>
  BY Message2Three DEF Answer2
<1>2. g.val[1] = "g" /\ b.val[1] \in {"int", "id"}
      /\ x.val = <<"ciphertext_2", c2>>
  BY DEF bstr_identifier, CborInt, CborBstr, Item
<1> HIDE DEF g, b, x
<1>3. DOMAIN m = 1..3 /\ m[1] = g /\ m[2] = b /\ m[3] = x
  BY <1>1
<1>4. \A k \in 1..3 : k = 1 \/ k = 2 \/ k = 3
  OBVIOUS
<1>5. {j \in DOMAIN m : m[j].val[1] = "ciphertext_2"} = {3}
  BY <1>2, <1>3, <1>4
<1>6. {j \in DOMAIN m : m[j].val[1] = "ciphertext_3"} = {}
  BY <1>2, <1>3, <1>4
<1> QED
  BY <1>2, <1>3, <1>5, <1>6 DEF Carries

LEMMA ConfirmationCarries ==
    ASSUME NEW c, NEW c3, NEW m, m = msg3_encode(c, c3)
    PROVE  /\ Carries(m, "g") = {} /\ Carries(m, "ciphertext_2") = {}
           /\ Carries(m, "ciphertext_3") = {c3}
<1> DEFINE b == bstr_identifier(c)
           x == CborBstr(CIPHERTEXT_LEN, <<"ciphertext_3", c3>>)
<1>1. m = <<b, x>>
  BY DEF msg3_encode
<1>2. b.val[1] \in {"int", "id"} /\ x.val = <<"ciphertext_3", c3>>
  BY DEF bstr_identifier, CborInt, CborBstr, Item
<1> HIDE DEF b, x
<1>3. DOMAIN m = 1..2 /\ m[1] = b /\ m[2] = x
  BY <1>1
<1>4. \A k \in 1..2 : k = 1 \/ k = 2
  OBVIOUS
<1>5. /\ {j \in DOMAIN m : m[j].val[1] = "g"} = {}
      /\ {j \in DOMAIN m : m[j].val[1] = "ciphertext_2"} = {}
      /\ {j \in DOMAIN m : m[j].val[1] = "ciphertext_3"} = {2}
  BY <1>2, <1>3, <1>4
<1> QED
  BY <1>2, <1>3, <1>5 DEF Carries

LEMMA RefusalCarries ==
    ASSUME NEW m, Refusal(m)
    PROVE  /\ Carries(m, "g") = {} /\ Carries(m, "ciphertext_2") = {}
           /\ Carries(m, "ciphertext_3") = {}
BY DEF Refusal, Carries

\* The responder's configuration is the same in all its runs, so are the
\* offers it makes.
LEMMA SameOffers ==
    ASSUME res'.conf = res.conf
    PROVE  /\ \A m : /\ ResponderCiphertext2(m)' = ResponderCiphertext2(m)
                     /\ ResponderOffer(m)' = ResponderOffer(m)
           /\ \A m : Offers(m) <=> Offers(m)'
           /\ \A c : Genuine3(c) <=> Genuine3(c)'
<1>1. \A m : /\ ResponderPrk2e(m)' = ResponderPrk2e(m)
             /\ ResponderTh2(m)' = ResponderTh2(m)
             /\ ResponderPrk3e2m(m)' = ResponderPrk3e2m(m)
  BY DEF ResponderPrk2e, ResponderTh2, ResponderPrk3e2m
<1>2. \A m : ResponderCiphertext2(m)' = ResponderCiphertext2(m)
  BY <1>1 DEF ResponderCiphertext2
<1>3. \A m : ResponderOffer(m)' = ResponderOffer(m)
  BY <1>1, <1>2 DEF ResponderOffer
<1>4. \A m : Offers(m) <=> Offers(m)'
  BY <1>2 DEF Offers
<1>5. \A c : Genuine3(c) <=> Genuine3(c)'
  BY <1>3 DEF Genuine3
<1> QED
  BY <1>2, <1>3, <1>4, <1>5

-----------------------------------------------------------------------------
\* The invariants.

\* Every message sent is one of four kinds.
SentForms == \A m \in sent : Asked(m) \/ Offers(m) \/ Form3(m) \/ Refusal(m)

LEMMA SentFormsStep ==
    ASSUME TypeInv, AgreementInv, SentForms, [Next]_vars
    PROVE  SentForms'
<1>1. StepTaken
  BY StepsTaken
<1>2. \A m : Offers(m) <=> Offers(m)'
  BY <1>1, SameOffers DEF StepTaken, ResponderGoesOn
<1>3. ASSUME NEW m \in sent'
      PROVE  Asked(m) \/ Offers(m) \/ Form3(m) \/ Refusal(m)
  <2>1. Confirms(m) => Form3(m)
    BY DEF Confirms, Form3
  <2> QED
    BY <1>1, <1>3, <2>1 DEF StepTaken, NewMessage, SentForms
<1> QED
  BY <1>2, <1>3 DEF SentForms

\* Message 1: the capacity for AD_1 is that of the buffer or the length of an
\* AD_1 received, and a message 1 of the initiator is refused for its suite or
\* because its AD_1 is longer than that.
RefusedFor(m) ==
    \/ ~selected_suite_is_supported(FirstSuite(m), res.conf.suites_r)
    \/ Len(m) = 5 /\ \E n \in {AdBuffer} \cup ReceivedAdLens : m[5].len > n

Refused1(e) == e.by = "R" /\ e.stage = "msg1" /\ Asked(e.taken) => RefusedFor(e.taken)

Inv1 ==
    /\ res.ad_1_len \in {AdBuffer} \cup ReceivedAdLens
    /\ \A e \in ended : Refused1(e)

\* What was received stays received.
LEMMA ReceivedGrows ==
    ASSUME StepTaken
    PROVE  ReceivedAdLens \subseteq ReceivedAdLens'
<1>1. TakenMessages1 \subseteq TakenMessages1'
  BY DEF StepTaken, ResponderGoesOn, TakenMessages1
<1> QED
  BY <1>1 DEF ReceivedAdLens

\* The length of an AD_1 that was read takes the place of the capacity
\* (responder.c 108-116).
LEMMA Inv1Step ==
    ASSUME Limits1, TypeInv, AgreementInv, Inv1, [Next]_vars
    PROVE  Inv1'
<1>1. StepTaken
  BY StepsTaken
<1>0. ReceivedAdLens \subseteq ReceivedAdLens'
  BY <1>1, ReceivedGrows
<1>2. res'.ad_1_len \in {AdBuffer} \cup ReceivedAdLens'
  <2>1. CASE res'.ad_1_len = res.ad_1_len
    BY <1>0, <2>1 DEF Inv1
  <2>2. ASSUME NEW msg \in toR, res'.ad_1_len = AdLen(msg), msg \in TakenMessages1'
        PROVE  res'.ad_1_len \in {AdBuffer} \cup ReceivedAdLens'
    <3>1. CASE AdLen(msg) = res.ad_1_len
      BY <1>0, <2>2, <3>1 DEF Inv1
    <3>2. CASE AdLen(msg) = msg[5].len /\ ~(Len(msg) < 5)
      BY <2>2, <3>2 DEF ReceivedAdLens
    <3> QED
      BY <3>1, <3>2 DEF AdLen, AdLenAfter
  <2> QED
    BY <1>1, <2>1, <2>2 DEF StepTaken, ResponderGoesOn
<1>3. ASSUME NEW e \in ended' \ ended  PROVE Refused1(e)
  <2>1. SUFFICES ASSUME e.by = "R", e.stage = "msg1", Asked(e.taken)
                 PROVE  RefusedFor(e.taken)
    BY DEF Refused1
  <2>2. Message1Result(e.taken) # "EdhocNoError"
    BY <1>1, <1>3, <2>1 DEF StepTaken, NewReturn
  <2>3. PICK m : m = e.taken
    OBVIOUS
  <2>4. PICK run : \E conf \in InitiatorConfs : m = Message1(run, conf)
    BY <2>1, <2>3 DEF Asked
  <2>5. PICK conf \in InitiatorConfs : m = Message1(run, conf)
    BY <2>4
  <2>6. /\ \/ msg1_parse(m, res.ad_1_len) = "EdhocNoError"
           \/ Len(m) = 5 /\ m[5].len > res.ad_1_len
        /\ FirstSuite(m) = SelectedSuite(m)
    BY <2>5, Accepts1
  <2>7. res.conf.suites_r \in SuitesR
    BY DEF TypeInv, TypeOK, ResponderConfs
  <2>8. selected_suite_is_supported(SelectedSuite(m), res.conf.suites_r)
           => Supported(SelectedSuite(m))
    BY <2>7 DEF Limits1, selected_suite_is_supported
  <2> QED
    BY <2>2, <2>3, <2>6, <2>8 DEF Message1Result, RefusedFor, Inv1
<1>4. ASSUME NEW e \in ended'  PROVE Refused1(e)'
  <2>1. Refused1(e)
    BY <1>3 DEF Inv1
  <2>2. res'.conf = res.conf
    BY <1>1 DEF StepTaken, ResponderGoesOn
  <2> QED
    BY <1>0, <2>1, <2>2 DEF Refused1, RefusedFor
<1> QED
  BY <1>2, <1>4 DEF Inv1

\* Message 2: a run of the initiator that took the answer to its message 1
\* succeeded if it knows the credential (initiator.c 267-384).
Accepted2(e) ==
    (/\ e.by = "I" /\ e.msg1[2].type # "array"
     /\ e.taken = Answer2(e.msg1, ResponderCiphertext2(e.msg1))
     /\ retrieve_cred(KnownToI, res.conf.id_cred) = "EdhocNoError")
    => e.result = "EdhocNoError"

Inv2 == \A e \in ended : Accepted2(e)

\* The run in rx for message 2 has that message 1 (initiator.c 256).
LEMMA Inv2Step ==
    ASSUME Limits2, TypeInv, AgreementInv, Inv2, [Next]_vars
    PROVE  Inv2'
<1>1. StepTaken
  BY StepsTaken
<1>2. ASSUME NEW e \in ended' \ ended  PROVE Accepted2(e)
  <2>1. SUFFICES ASSUME e.by = "I", e.msg1[2].type # "array",
                        e.taken = Answer2(e.msg1, ResponderCiphertext2(e.msg1)),
                        retrieve_cred(KnownToI, res.conf.id_cred) = "EdhocNoError"
                 PROVE  e.result = "EdhocNoError"
    BY DEF Accepted2
  <2>2. PICK c2, msg : c2 = ResponderCiphertext2(e.msg1) /\ msg = e.taken
    OBVIOUS
  <2>3. e.taken # <<>>
    <3>1. Carries(e.taken, "ciphertext_2") = {c2}
      BY <2>1, <2>2, OfferCarries
    <3>2. Carries(<<>>, "ciphertext_2") = {}
      BY DEF Carries
    <3> QED
      BY <3>1, <3>2
  <2>4. ini.phase = "msg2" /\ e.msg1 = ini.msg1 /\ e.result \in Message2Results(msg)
    BY <1>1, <1>2, <2>1, <2>2, <2>3 DEF StepTaken, NewReturn
  <2>5. PartiesAlign /\ res.conf \in ResponderConfs
    BY DEF AgreementInv, TypeInv, TypeOK
  <2>6. Message2Results(msg) = {"EdhocNoError"}
    BY <2>1, <2>2, <2>4, <2>5, Accepts2
  <2> QED
    BY <2>4, <2>6
<1>3. ASSUME NEW e \in ended'  PROVE Accepted2(e)'
  <2>1. Accepted2(e)
    BY <1>2 DEF Inv2
  <2>2. res'.conf = res.conf
    BY <1>1 DEF StepTaken, ResponderGoesOn
  <2>3. PICK m : m = e.msg1
    OBVIOUS
  <2>4. ResponderCiphertext2(m)' = ResponderCiphertext2(m)
    BY <2>2, SameOffers
  <2> QED
    BY <2>1, <2>2, <2>3, <2>4 DEF Accepted2
<1> QED
  BY <1>3 DEF Inv2

\* Message 3: what the responder offers in its present run is what it would
\* offer again, every CIPHERTEXT_3 is a confirmation of such an offer, and it
\* is sent with the C_R of the responder.
Sent3 ==
    \A m \in sent : \A c \in Carries(m, "ciphertext_3") :
       Genuine3(c) /\ m = msg3_encode(c_r, c)

Accepted3(e) ==
    \A c : (/\ e.by = "R" /\ e.stage = "msg3"
            /\ Genuine3(c) /\ c.th.th2 = e.th2 /\ e.taken = msg3_encode(c_r, c)
            /\ retrieve_cred(KnownToR, c.text.id_cred) = "EdhocNoError")
           => e.result = "EdhocNoError"

Inv3 ==
    /\ \A o \in offered : o = ResponderOffer(o.th2.msg1)
    /\ \A m : res.phase = "msg3" /\ m = res.msg1 => res.offer = ResponderOffer(m)
    /\ Sent3
    /\ \A e \in ended : Accepted3(e)

\* An offer names the message 1 it answers.
LEMMA OfferNamesMessage1 ==
    ASSUME NEW m  PROVE ResponderOffer(m) = ResponderOffer(ResponderOffer(m).th2.msg1)
<1>1. ResponderOffer(m).th2.msg1 = m
  BY DEF ResponderOffer, Offer, ResponderTh2, th2_calculate
<1> QED
  BY <1>1

\* The run in rx for message 3 has that offer (responder.c 418).
LEMMA Inv3Step ==
    ASSUME Limits3, TypeInv, AgreementInv, SentForms, Inv3, [Next]_vars
    PROVE  Inv3'
<1>1. StepTaken
  BY StepsTaken
<1>2. /\ \A m : ResponderOffer(m)' = ResponderOffer(m)
      /\ \A m : Offers(m) <=> Offers(m)'
      /\ \A c : Genuine3(c) <=> Genuine3(c)'
  BY <1>1, SameOffers DEF StepTaken, ResponderGoesOn
<1>3. ASSUME NEW o \in offered'  PROVE o = ResponderOffer(o.th2.msg1)'
  <2>1. o = ResponderOffer(o.th2.msg1)
    <3>1. CASE o \in offered
      BY <3>1 DEF Inv3
    <3>2. CASE o \notin offered
      <4>1. PICK m : o = ResponderOffer(m)
        BY <1>1, <3>2 DEF StepTaken, ResponderGoesOn
      <4> QED
        BY <4>1, OfferNamesMessage1
    <3> QED
      BY <3>1, <3>2
  <2> QED
    BY <1>2, <2>1
<1>4. ASSUME NEW m, res'.phase = "msg3", m = res'.msg1
      PROVE  res'.offer = ResponderOffer(m)'
  <2>1. res'.offer = ResponderOffer(m)
    BY <1>1, <1>4 DEF StepTaken, ResponderGoesOn, Inv3
  <2> QED
    BY <1>2, <2>1
<1>5. ASSUME NEW m \in sent', NEW c \in Carries(m, "ciphertext_3")
      PROVE  Genuine3(c) /\ m = msg3_encode(c_r, c)
  <2>1. CASE m \in sent
    BY <1>5, <2>1 DEF Inv3, Sent3
  <2>2. CASE m \notin sent
    <3>1. Confirms(m)
      <4>1. ~Asked(m) /\ ~Refusal(m)
        BY <1>5, AskedCarries, RefusalCarries
      <4>2. ~Offers(m)
        BY <1>5, OfferCarries DEF Offers
      <4> QED
        BY <1>1, <1>5, <2>2, <4>1, <4>2 DEF StepTaken, NewMessage
    <3>2. PICK msg \in toI :
             /\ ini.phase = "msg2" /\ "EdhocNoError" \in Message2Results(msg)
             /\ m = msg3_encode(Identifier(msg[GyAt(ini.conf.corr) + 1]), Ciphertext3(msg))
      BY <3>1 DEF Confirms
    <3>3. PICK c3 : c3 = Ciphertext3(msg)
      OBVIOUS
    <3>4. Genuine3(c3) /\ Identifier(msg[GyAt(ini.conf.corr) + 1]) = c_r
      BY <3>2, <3>3, MakesConfirmation DEF Inv3
    <3>5. m = msg3_encode(c_r, c3)
      BY <3>2, <3>3, <3>4
    <3>6. c = c3
      BY <1>5, <3>5, ConfirmationCarries
    <3> QED
      BY <3>4, <3>5, <3>6
  <2> QED
    BY <2>1, <2>2
<1>6. Sent3'
  BY <1>2, <1>5 DEF Sent3, Carries
<1>7. ASSUME NEW e \in ended' \ ended  PROVE Accepted3(e)
  <2>1. SUFFICES ASSUME NEW c, e.by = "R", e.stage = "msg3", Genuine3(c),
                        c.th.th2 = e.th2, e.taken = msg3_encode(c_r, c),
                        retrieve_cred(KnownToR, c.text.id_cred) = "EdhocNoError"
                 PROVE  e.result = "EdhocNoError"
    BY DEF Accepted3
  <2>2. PICK msg : msg = e.taken
    OBVIOUS
  <2>3. e.taken # <<>>
    <3>1. Carries(msg, "ciphertext_3") = {c}
      BY <2>1, <2>2, ConfirmationCarries
    <3>2. Carries(<<>>, "ciphertext_3") = {}
      BY DEF Carries
    <3> QED
      BY <2>2, <3>1, <3>2
  <2>4. res.phase = "msg3" /\ e.th2 = res.offer.th2 /\ e.result \in Message3Results(msg)
    BY <1>1, <1>7, <2>1, <2>2, <2>3 DEF StepTaken, NewReturn
  <2>5. res.offer = ResponderOffer(res.msg1)
    BY <2>4 DEF Inv3
  <2>6. Message3Results(msg) = {"EdhocNoError"}
    BY <2>1, <2>2, <2>4, <2>5, Accepts3
  <2> QED
    BY <2>4, <2>6
<1>8. ASSUME NEW e \in ended'  PROVE Accepted3(e)'
  <2>1. Accepted3(e)
    BY <1>7 DEF Inv3
  <2> QED
    BY <1>2, <2>1 DEF Accepted3
<1> QED
  BY <1>3, <1>4, <1>6, <1>8 DEF Inv3

-----------------------------------------------------------------------------
\* The theorems.

LEMMA AcceptanceInit == Init => SentForms /\ Inv1 /\ Inv2 /\ Inv3
<1> SUFFICES ASSUME Init  PROVE SentForms /\ Inv1 /\ Inv2 /\ Inv3
  OBVIOUS
<1>1. sent = {} /\ offered = {} /\ ended = {} /\ res.ad_1_len = AdBuffer /\ res.phase = "msg1"
  BY DEF Init
<1> QED
  BY <1>1 DEF SentForms, Inv1, Inv2, Inv3, Sent3

LEMMA AlwaysTyped == Spec => [](TypeInv /\ AgreementInv /\ SentForms)
<1>1. TypeInv /\ AgreementInv /\ AgreementInv' /\ [Next]_vars => TypeInv'
  BY StartRunTyped, TakeMessage2Typed, InitiatorRxFailsTyped, TakeMessage1Typed,
     TakeMessage3Typed, ResponderRxFailsTyped, NetworkTyped DEF Next
<1>2. TypeInv /\ AgreementInv /\ SentForms /\ [Next]_vars => SentForms'
  BY SentFormsStep
<1> QED
  BY Agreement, TypeInit, AcceptanceInit, <1>1, <1>2, PTL DEF Spec

\* Within the limits of the code a responder that waits for message 1 refuses
\* one that the initiator sent, and nobody damaged, only for its suite or for
\* an AD_1 longer than the buffer or than an AD_1 received before
\* (responder.c 105-134, 281-300; cbor_decoder.c 51).
THEOREM Message1Accepted ==
    ASSUME Limits1
    PROVE  Spec => []GenuineMessage1Accepted
<1>1. TypeInv /\ AgreementInv /\ Inv1 /\ [Next]_vars => Inv1'
  BY Inv1Step
<1>2. SentForms /\ Inv1 => GenuineMessage1Accepted
  <2> SUFFICES ASSUME SentForms, Inv1, NEW e \in ended, e.by = "R", e.stage = "msg1",
                      e.taken \in sent, IsMessage1(e.taken)
               PROVE  RefusedFor(e.taken)
    BY DEF GenuineMessage1Accepted, RefusedFor
  <2>1. PICK m : m = e.taken
    OBVIOUS
  <2>2. Carries(m, "g") # {} /\ Carries(m, "ciphertext_2") = {}
    BY <2>1 DEF IsMessage1
  <2>3. ~Offers(m) /\ ~Form3(m) /\ ~Refusal(m)
    BY <2>2, OfferCarries, ConfirmationCarries, RefusalCarries DEF Offers, Form3
  <2>4. Asked(m)
    BY <2>1, <2>3 DEF SentForms
  <2> QED
    BY <2>1, <2>4 DEF Inv1, Refused1
<1> QED
  BY AlwaysTyped, AcceptanceInit, <1>1, <1>2, PTL DEF Spec

\* Within the limits of the code an initiator that knows the responder's
\* credential accepts every undamaged answer to its message 1
\* (initiator.c 267-384 undoes what responder.c 305-416 does).
THEOREM Message2Accepted ==
    ASSUME Limits2
    PROVE  Spec => []GenuineMessage2Accepted
<1>1. TypeInv /\ AgreementInv /\ Inv2 /\ [Next]_vars => Inv2'
  BY Inv2Step
<1>2. TypeInv /\ SentForms /\ Inv2 => GenuineMessage2Accepted
  <2> SUFFICES ASSUME TypeInv, SentForms, Inv2, NEW e \in ended, e.by = "I",
                      e.taken \in sent, NEW c \in Carries(e.taken, "ciphertext_2"),
                      c.th.msg1 = e.msg1,
                      retrieve_cred(KnownToI, res.conf.id_cred)
                         \notin {"CredentialNotFound", "CertificateAuthenticationFailed"}
               PROVE  e.result = "EdhocNoError"
    BY DEF GenuineMessage2Accepted
  <2>1. PICK m : m = e.taken
    OBVIOUS
  <2>2. ~Asked(m) /\ ~Form3(m) /\ ~Refusal(m)
    BY <2>1, AskedCarries, ConfirmationCarries, RefusalCarries DEF Form3
  <2>3. Offers(m)
    BY <2>1, <2>2 DEF SentForms
  <2>4. PICK msg1 : m = Answer2(msg1, ResponderCiphertext2(msg1)) /\ msg1[2].type # "array"
    BY <2>3 DEF Offers
  <2>5. PICK c2 : c2 = ResponderCiphertext2(msg1)
    OBVIOUS
  <2>6. c = c2
    BY <2>1, <2>4, <2>5, OfferCarries
  <2>7. c2.th.msg1 = msg1
    BY <2>5 DEF ResponderCiphertext2, Ciphertext, ResponderTh2, th2_calculate
  <2>8. e.msg1 = msg1
    BY <2>6, <2>7
  <2>9. retrieve_cred(KnownToI, res.conf.id_cred) # "NoSuchCA"
    BY DEF Limits2, Usable, TypeInv, TypeOK, ResponderConfs
  <2>10. retrieve_cred(KnownToI, res.conf.id_cred) = "EdhocNoError"
    <3>1. PICK id_cred : id_cred = res.conf.id_cred
      OBVIOUS
    <3> QED
      BY <2>9, <3>1, RetrieveResults
  <2> QED
    BY <2>1, <2>4, <2>8, <2>10 DEF Inv2, Accepted2
<1> QED
  BY AlwaysTyped, AcceptanceInit, <1>1, <1>2, PTL DEF Spec

\* Within the limits of the code a responder that knows the initiator's
\* credential accepts every undamaged confirmation of its offer
\* (responder.c 425-581 undoes what initiator.c 386-567 does).
THEOREM Message3Accepted ==
    ASSUME Limits3
    PROVE  Spec => []GenuineMessage3Accepted
<1>1. TypeInv /\ AgreementInv /\ SentForms /\ Inv3 /\ [Next]_vars => Inv3'
  BY Inv3Step
<1>2. Inv3 => GenuineMessage3Accepted
  <2> SUFFICES ASSUME Inv3, NEW e \in ended, e.by = "R", e.stage = "msg3",
                      e.taken \in sent, NEW c \in Carries(e.taken, "ciphertext_3"),
                      c.th.th2 = e.th2,
                      retrieve_cred(KnownToR, c.text.id_cred)
                         \notin {"CredentialNotFound", "CertificateAuthenticationFailed"}
               PROVE  e.result = "EdhocNoError"
    BY DEF GenuineMessage3Accepted
  <2>1. Genuine3(c) /\ e.taken = msg3_encode(c_r, c)
    BY DEF Inv3, Sent3
  <2>2. PICK run : \E conf \in InitiatorConfs :
           c = Confirmation(ResponderOffer(Message1(run, conf)), conf)
    BY <2>1 DEF Genuine3
  <2>3. PICK conf \in InitiatorConfs :
           c = Confirmation(ResponderOffer(Message1(run, conf)), conf)
    BY <2>2
  <2>4. c.text.id_cred = conf.id_cred /\ conf.id_cred \in IdCredsI
    BY <2>3 DEF Confirmation, Ciphertext, Plaintext, InitiatorConfs
  <2>5. retrieve_cred(KnownToR, c.text.id_cred) # "NoSuchCA"
    BY <2>4 DEF Limits3, Usable
  <2>6. retrieve_cred(KnownToR, c.text.id_cred) = "EdhocNoError"
    <3>1. PICK id_cred : id_cred = c.text.id_cred
      OBVIOUS
    <3> QED
      BY <2>5, <3>1, RetrieveResults
  <2> QED
    BY <2>1, <2>6 DEF Inv3, Accepted3
<1> QED
  BY AlwaysTyped, AcceptanceInit, <1>1, <1>2, PTL DEF Spec

=============================================================================

------------------------------ MODULE EdhocProofs ------------------------------
(***************************************************************************)
(* Agreement of the two EDHOC parties for every choice of methods, suites,  *)
(* credentials, bounds and kinds of network.                                *)
(*                                                                         *)
(* The argument rests on what ciphertexts name.  The parties put into the    *)
(* network only items that are no ciphertext, or the ciphertext of an offer  *)
(* or of a confirmed key; the network may spoil a ciphertext, and a spoilt   *)
(* one carries no MAC.  A receiver that finds the MAC right holds therefore  *)
(* a ciphertext of its peer, and that ciphertext determines the rest.        *)
(***************************************************************************)
EXTENDS EdhocHandshake, SequenceTheorems, TLAPS

-----------------------------------------------------------------------------
\* What the messages are made of.

PlainItem(item) ==
    "val" \in DOMAIN item /\ item.val[1] \notin {"ciphertext_2", "ciphertext_3"}

\* Connection identifiers are written as integers or strings (initiator.c 39-48).
LEMMA IdentifierIsPlain ==
    ASSUME NEW c  PROVE  PlainItem(bstr_identifier(c))
BY DEF PlainItem, bstr_identifier, CborInt, CborBstr, Item

\* No item of message 1 is a ciphertext (initiator.c 139-209).
LEMMA Message1Plain ==
    ASSUME NEW method, NEW corr, NEW suites, NEW g_x, NEW c, NEW ad_1,
           NEW k \in DOMAIN msg1_encode(method, corr, suites, g_x, c, ad_1)
    PROVE  PlainItem(msg1_encode(method, corr, suites, g_x, c, ad_1)[k])
<1> DEFINE a == CborInt(4 * method + corr)
           b == Suites(suites)
           g == CborBstr(G_DEFAULT_SIZE, <<"g", g_x>>)
           d == bstr_identifier(c)
           x == CborBstr(ad_1, <<"ad_1", ad_1>>)
           S == {a, b, g, d, x}
<1>1. PlainItem(a) /\ PlainItem(b) /\ PlainItem(g) /\ PlainItem(x)
  BY DEF PlainItem, Suites, CborInt, CborBstr, Item
<1>2. PlainItem(d)
  BY IdentifierIsPlain
<1>3. \A i \in S : PlainItem(i)
  BY <1>1, <1>2
<1> HIDE DEF a, b, g, d, x
<1>4. <<a, b, g, d>> \in Seq(S) /\ x \in S
  OBVIOUS
<1>5. Append(<<a, b, g, d>>, x) \in Seq(S)
  BY <1>4, AppendProperties
<1>6. msg1_encode(method, corr, suites, g_x, c, ad_1) \in Seq(S)
  BY <1>4, <1>5 DEF msg1_encode, a, b, g, d, x
<1> QED
  BY <1>3, <1>6

\* The only ciphertext in message 2 is CIPHERTEXT_2 (responder.c 207-252).
LEMMA Message2Items ==
    ASSUME NEW corr, NEW c, NEW g_y, NEW c2, NEW d,
           NEW k \in DOMAIN msg2_encode(corr, c, g_y, d, c2)
    PROVE  LET item == msg2_encode(corr, c, g_y, d, c2)[k]
           IN  \/ PlainItem(item)
               \/ "val" \in DOMAIN item /\ item.val = <<"ciphertext_2", c2>>
<1> DEFINE a == bstr_identifier(c)
           g == CborBstr(G_DEFAULT_SIZE, <<"g", g_y>>)
           b == bstr_identifier(d)
           x == CborBstr(CIPHERTEXT_LEN, <<"ciphertext_2", c2>>)
           S == {a, g, b, x}
           Ok(i) == \/ PlainItem(i)
                    \/ "val" \in DOMAIN i /\ i.val = <<"ciphertext_2", c2>>
<1>1. Ok(g) /\ Ok(x)
  BY DEF PlainItem, CborBstr, Item
<1>2. Ok(a) /\ Ok(b)
  BY IdentifierIsPlain
<1>3. \A i \in S : Ok(i)
  BY <1>1, <1>2
<1> HIDE DEF a, g, b, x, Ok
<1>4. <<g, b, x>> \in Seq(S) /\ <<a>> \in Seq(S)
  OBVIOUS
<1>5. <<a>> \o <<g, b, x>> \in Seq(S)
  BY <1>4, ConcatProperties
<1>6. msg2_encode(corr, c, g_y, d, c2) \in Seq(S)
  BY <1>4, <1>5 DEF msg2_encode, a, g, b, x
<1>7. Ok(msg2_encode(corr, c, g_y, d, c2)[k])
  BY <1>3, <1>6
<1> QED
  BY <1>7 DEF Ok

\* The only ciphertext in message 3 is CIPHERTEXT_3 (initiator.c 532-554).
LEMMA Message3Items ==
    ASSUME NEW c, NEW c3, NEW k \in DOMAIN msg3_encode(c, c3)
    PROVE  LET item == msg3_encode(c, c3)[k]
           IN  \/ PlainItem(item)
               \/ "val" \in DOMAIN item /\ item.val = <<"ciphertext_3", c3>>
<1> DEFINE b == bstr_identifier(c)
           x == CborBstr(CIPHERTEXT_LEN, <<"ciphertext_3", c3>>)
<1>1. PlainItem(b)
  BY IdentifierIsPlain
<1>2. "val" \in DOMAIN x /\ x.val = <<"ciphertext_3", c3>>
  BY DEF CborBstr, Item
<1>3. msg3_encode(c, c3) = <<b, x>>
  BY DEF msg3_encode
<1> HIDE DEF b, x
<1> QED
  BY <1>1, <1>2, <1>3

\* No item of an error message is a ciphertext (err_msg.c 27-96).
LEMMA ErrorMessagePlain ==
    ASSUME NEW role, NEW corr, NEW c, NEW suites,
           NEW k \in DOMAIN err_msg(role, corr, c, suites)
    PROVE  PlainItem(err_msg(role, corr, c, suites)[k])
<1> DEFINE a == CborBstr(c.len, <<"id", c.id>>)
           e == CborBstr(0, <<"ERR_MSG", 0>>)
           x == CborBstr(Len(suites), <<"suites", suites>>)
           S == {a, e, x}
<1>1. \A i \in S : PlainItem(i)
  BY DEF PlainItem, CborBstr, Item
<1> HIDE DEF a, e, x
<1> DEFINE s == IF \/ role = "RESPONDER" /\ corr \in {0, 2}
                   \/ role = "INITIATOR" /\ corr \in {0, 1} THEN <<a>> ELSE <<>>
           u == IF suites = <<>> THEN <<>> ELSE <<x>>
<1>2. <<a>> \in Seq(S) /\ <<e>> \in Seq(S) /\ <<x>> \in Seq(S) /\ <<>> \in Seq(S)
  OBVIOUS
<1>3. s \in Seq(S) /\ u \in Seq(S)
  BY <1>2
<1>4. err_msg(role, corr, c, suites) = s \o <<e>> \o u
  BY DEF err_msg, a, e, x
<1> HIDE DEF s, u, S
<1>5. s \o <<e>> \in Seq(S)
  BY <1>2, <1>3, ConcatProperties
<1>6. err_msg(role, corr, c, suites) \in Seq(S)
  BY <1>3, <1>4, <1>5, ConcatProperties
<1>7. err_msg(role, corr, c, suites)[k] \in S
  BY <1>6
<1> QED
  BY <1>1, <1>7

-----------------------------------------------------------------------------
\* What message 1 says of the configuration it was made from.

LEMMA Message1Head ==
    ASSUME NEW method, NEW corr, NEW suites, NEW g_x, NEW c, NEW ad_1
    PROVE  /\ msg1_encode(method, corr, suites, g_x, c, ad_1)[1]
                = CborInt(4 * method + corr)
           /\ msg1_encode(method, corr, suites, g_x, c, ad_1)[2] = Suites(suites)
<1> DEFINE a == CborInt(4 * method + corr)
           b == Suites(suites)
           g == CborBstr(G_DEFAULT_SIZE, <<"g", g_x>>)
           d == bstr_identifier(c)
           x == CborBstr(ad_1, <<"ad_1", ad_1>>)
           S == {a, b, g, d, x}
           m == msg1_encode(method, corr, suites, g_x, c, ad_1)
<1>1. m = IF ad_1 = 0 THEN <<a, b, g, d>> ELSE Append(<<a, b, g, d>>, x)
  BY DEF msg1_encode
<1> HIDE DEF a, b, g, d, x, m
<1>2. <<a, b, g, d>> \in Seq(S) /\ x \in S
  OBVIOUS
<1>3. Append(<<a, b, g, d>>, x)[1] = a /\ Append(<<a, b, g, d>>, x)[2] = b
  BY <1>2, AppendProperties
<1>4. m[1] = a /\ m[2] = b
  BY <1>1, <1>3
<1> QED
  BY <1>4 DEF m, a, b

\* Method and suite can be read from a message 1 that the responder decodes.
LEMMA Message1Reads ==
    ASSUME NEW run, NEW conf \in InitiatorConfs,
           Message1(run, conf)[2].type # "array"
    PROVE  /\ MethodOf(Message1(run, conf)) = conf.method
           /\ SelectedSuite(Message1(run, conf)) = conf.suites[1]
<1> DEFINE m == Message1(run, conf)
<1>1. m[1] = CborInt(4 * conf.method + conf.corr) /\ m[2] = Suites(conf.suites)
  BY Message1Head DEF Message1
<1>2. conf.method \in 0..3 /\ conf.corr \in 0..3
  BY HandshakeAssumption DEF InitiatorConfs
<1>3. m[1].val[2] = 4 * conf.method + conf.corr
  BY <1>1 DEF CborInt, Item
<1>4. (4 * conf.method + conf.corr) \div 4 = conf.method
  BY <1>2
<1>5. MethodOf(m) = conf.method
  BY <1>3, <1>4 DEF MethodOf
<1>6. m[2] = CborInt(conf.suites[1])
  BY <1>1 DEF Suites, Item
<1>7. SelectedSuite(m) = conf.suites[1]
  BY <1>6 DEF SelectedSuite, CborInt, Item
<1> QED
  BY <1>5, <1>7

-----------------------------------------------------------------------------
\* A function whose first error is none had no error.

LEMMA NoErrorOf3 ==
    ASSUME NEW a, NEW b, NEW c, FirstError(<<a, b, c>>) = "EdhocNoError"
    PROVE  a = "EdhocNoError" /\ b = "EdhocNoError" /\ c = "EdhocNoError"
<1> DEFINE e == <<a, b, c>>
           First(k) == /\ e[k] # "EdhocNoError"
                       /\ \A j \in DOMAIN e : e[j] # "EdhocNoError" => k <= j
<1>1. SUFFICES ASSUME ~(\A k \in DOMAIN e : e[k] = "EdhocNoError")  PROVE FALSE
  OBVIOUS
<1>2. \E k \in DOMAIN e : First(k)
  <2>1. CASE a # "EdhocNoError"  BY <2>1
  <2>2. CASE a = "EdhocNoError" /\ b # "EdhocNoError"  BY <2>2
  <2>3. CASE a = "EdhocNoError" /\ b = "EdhocNoError"  BY <2>3, <1>1
  <2> QED  BY <2>1, <2>2, <2>3
<1>3. First(CHOOSE k \in DOMAIN e : First(k))
  BY <1>2
<1> QED
  BY <1>1, <1>3 DEF FirstError

LEMMA NoErrorOf5 ==
    ASSUME NEW a, NEW b, NEW c, NEW d, NEW f,
           FirstError(<<a, b, c, d, f>>) = "EdhocNoError"
    PROVE  /\ a = "EdhocNoError" /\ b = "EdhocNoError" /\ c = "EdhocNoError"
           /\ d = "EdhocNoError" /\ f = "EdhocNoError"
<1> DEFINE none == "EdhocNoError"
           e == <<a, b, c, d, f>>
           First(k) == /\ e[k] # none
                       /\ \A j \in DOMAIN e : e[j] # none => k <= j
<1>1. SUFFICES ASSUME ~(\A k \in DOMAIN e : e[k] = none)  PROVE FALSE
  OBVIOUS
<1>2. \E k \in DOMAIN e : First(k)
  <2>1. CASE a # none  BY <2>1
  <2>2. CASE a = none /\ b # none  BY <2>2
  <2>3. CASE a = none /\ b = none /\ c # none  BY <2>3
  <2>4. CASE a = none /\ b = none /\ c = none /\ d # none  BY <2>4
  <2>5. CASE a = none /\ b = none /\ c = none /\ d = none  BY <2>5, <1>1
  <2> QED  BY <2>1, <2>2, <2>3, <2>4, <2>5
<1>3. First(CHOOSE k \in DOMAIN e : First(k))
  BY <1>2
<1> QED
  BY <1>1, <1>3 DEF FirstError

\* A peer that is authenticated has sent the MAC or signature expected.
LEMMA PeerAuthentic ==
    ASSUME NEW label, NEW static_dh, NEW cred_array, NEW prk, NEW sk, NEW th, NEW text,
           "EdhocNoError" \in PeerResults(label, static_dh, cred_array, prk, sk, th, text)
    PROVE  /\ text.sign_or_mac.label = label
           /\ text.sign_or_mac.cred = FoundCred(cred_array, text.id_cred)
           /\ text.sign_or_mac.prk = PeerPrk(static_dh, cred_array, prk, sk, text)
<1> DEFINE good == Authentic(label, static_dh, PeerPrk(static_dh, cred_array, prk, sk, text),
                             th, text.id_cred, FoundCred(cred_array, text.id_cred),
                             DecodedAd(text.ad), text.sign_or_mac)
           last == IF good THEN "EdhocNoError" ELSE "ResponderAuthenticationFailed"
<1>1. FirstError(<<AdError(text.ad), retrieve_cred(cred_array, text.id_cred), last>>)
         = "EdhocNoError"
  BY DEF PeerResults, GarbledResults
<1> HIDE DEF good
<1>2. last = "EdhocNoError"
  BY <1>1, NoErrorOf3
<1>3. good
  BY <1>2
<1> QED
  BY <1>3 DEF good, Authentic, Signature_or_mac

-----------------------------------------------------------------------------
\* What a receiver that authenticates its peer holds.

\* A message 2 that the initiator accepts is an offer of the responder
\* (initiator.c 339-399).
LEMMA AcceptedMessage2 ==
    ASSUME AgreementInv, ini.phase = "msg2", NEW msg \in toI,
           "EdhocNoError" \in Message2Results(msg)
    PROVE  /\ InitiatorOffer(msg) \in offered
           /\ InitiatorOffer(msg).ciphertext_2 = Ciphertext2(msg)
<1> DEFINE g == GyAt(ini.conf.corr)
           c2 == Ciphertext2(msg)
           mac == c2.text.sign_or_mac
           prk == PeerPrk(StaticDhR(ini.conf.method), KnownToI, InitiatorPrk2e(msg),
                          EphemeralX(ini.run), c2.text)
           cred == FoundCred(KnownToI, c2.text.id_cred)
<1>1. /\ msg2_parse(ini.conf.corr, c_i.len, msg) = "EdhocNoError"
      /\ OpensMessage2(msg)
      /\ "EdhocNoError" \in PeerResults("2", StaticDhR(ini.conf.method), KnownToI,
                                        InitiatorPrk2e(msg), EphemeralX(ini.run),
                                        InitiatorTh2(msg), c2.text)
  BY DEF Message2Results, GarbledResults
<1>2. DecodeError(msg, g + 2, CIPHERTEXT_DEFAULT_SIZE) = "EdhocNoError"
  BY <1>1, NoErrorOf5 DEF msg2_parse
<1>3. g + 2 \in DOMAIN msg
  BY <1>2 DEF DecodeError
<1>4. mac.label = "2" /\ mac.cred = cred /\ mac.prk = prk
  BY <1>1, PeerAuthentic
<1>5. msg[g + 2].val[1] = "ciphertext_2" /\ c2 = msg[g + 2].val[2]
  BY <1>1 DEF OpensMessage2, Ciphertext2
<1>6. ~SpoiltItem(msg[g + 2])
  BY <1>4, <1>5 DEF SpoiltItem
<1>7. GenuineItem(msg[g + 2])
  BY <1>3, <1>6 DEF AgreementInv
<1>8. PICK o \in offered : o.ciphertext_2 = c2
  BY <1>5, <1>7 DEF GenuineItem
<1>9. WellOffered(o) /\ o = Offered(c2)
  BY <1>8 DEF AgreementInv, WellOffered
<1>10. c2.th = InitiatorTh2(msg) /\ c2.th.msg1 = ini.msg1
  BY <1>1 DEF OpensMessage2, OpensWith, InitiatorTh2, th2_calculate
<1>11. o.th2 = c2.th
  BY <1>9 DEF Offered, Offer
<1>12. ini.msg1[2].type # "array"
  BY <1>9, <1>10, <1>11 DEF WellOffered
<1>13. MethodOf(ini.msg1) = ini.conf.method /\ SelectedSuite(ini.msg1) = ini.conf.suites[1]
  BY <1>12, Message1Reads DEF AgreementInv, PartiesAlign
<1>14. InitiatorOffer(msg) = Offered(c2)
  BY <1>4, <1>10, <1>13 DEF InitiatorOffer, Offered
<1> QED
  BY <1>8, <1>9, <1>14

\* A message 3 that the responder accepts confirms what it offered in this run:
\* it comes from an initiator with the same key (responder.c 528-581).
LEMMA AcceptedMessage3 ==
    ASSUME AgreementInv, res.phase = "msg3", NEW msg \in toR,
           "EdhocNoError" \in Message3Results(msg)
    PROVE  \E e \in Completed("I") : e.key = ResponderKey(msg)
<1> DEFINE at == Ciphertext3At(ResponderCorr(res.msg1))
           c3 == ReceivedCiphertext3(msg).val[2]
           mac == c3.text.sign_or_mac
           prk == PeerPrk(StaticDhI(res.offer.method), KnownToR, res.offer.prk_3e2m,
                          EphemeralY, c3.text)
           cred == FoundCred(KnownToR, c3.text.id_cred)
<1>1. /\ msg3_parse(ResponderCorr(res.msg1), msg) = "EdhocNoError"
      /\ OpensMessage3(msg)
      /\ "EdhocNoError" \in PeerResults("3", StaticDhI(res.offer.method), KnownToR,
                                        res.offer.prk_3e2m, EphemeralY, ResponderTh3,
                                        c3.text)
  BY DEF Message3Results
<1>2. at \in DOMAIN msg
  BY <1>1, NoErrorOf3 DEF msg3_parse, DecodeError
<1>3. mac.cred = cred /\ mac.prk = prk
  BY <1>1, PeerAuthentic
<1>4. msg[at].val[1] = "ciphertext_3" /\ c3 = msg[at].val[2]
  BY <1>1 DEF OpensMessage3, ReceivedCiphertext3
<1>5. res.offer \in offered /\ WellOffered(res.offer)
  BY DEF AgreementInv, PartiesAlign
<1>6. c3.prk = res.offer.prk_3e2m /\ c3.th = ResponderTh3
  BY <1>1 DEF OpensMessage3, OpensWith
<1>7. ~SpoiltItem(msg[at])
  BY <1>4, <1>5, <1>6 DEF SpoiltItem, WellOffered
<1>8. GenuineItem(msg[at])
  BY <1>2, <1>7 DEF AgreementInv
<1>9. PICK e \in Completed("I") : e.key.th4.ciphertext_3 = c3
  BY <1>4, <1>8 DEF GenuineItem
<1>10. WellConfirmed(e.key)
  BY DEF AgreementInv
<1>11. c3.th.ciphertext_2 = res.offer.ciphertext_2
  BY <1>6 DEF ResponderTh3, th3_calculate
<1>12. e.key.offer = res.offer
  <2>1. e.key.offer \in offered /\ e.key.offer.ciphertext_2 = res.offer.ciphertext_2
    BY <1>9, <1>10, <1>11 DEF WellConfirmed
  <2>2. WellOffered(e.key.offer)
    BY <2>1 DEF AgreementInv
  <2> QED
    BY <2>1, <2>2, <1>5 DEF WellOffered
<1>13. e.key = Key(res.offer, cred, prk, th4_calculate(ResponderTh3, c3))
  BY <1>3, <1>6, <1>9, <1>10, <1>12 DEF WellConfirmed
<1> QED
  BY <1>13 DEF ResponderKey

-----------------------------------------------------------------------------
\* What damage does to an item (the network; no code).

LEMMA DamageSpoils ==
    ASSUME AgreementInv, NEW msg \in sent, NEW bad \in Damaged(msg),
           NEW k \in DOMAIN bad
    PROVE  GenuineItem(bad[k]) \/ SpoiltItem(bad[k])
<1>1. PICK j \in DOMAIN msg : \E val \in DamagedValues(msg[j].val) :
                                 bad = [msg EXCEPT ![j].val = val]
  BY DEF Damaged
<1>2. PICK val \in DamagedValues(msg[j].val) : bad = [msg EXCEPT ![j].val = val]
  BY <1>1
<1>3. GenuineItem(msg[j])
  BY DEF AgreementInv
<1>4. CASE k # j
  <2>1. k \in DOMAIN msg /\ bad[k] = msg[k]
    BY <1>2, <1>4
  <2> QED
    BY <2>1 DEF AgreementInv
<1>5. CASE k = j
  <2>1. bad[k].val = val
    BY <1>2, <1>3, <1>5 DEF GenuineItem
  <2> DEFINE old == msg[j].val
  <2>2. CASE old[1] = "ciphertext_2"
    <3> DEFINE new == [old[2] EXCEPT !.text.sign_or_mac.label = "damaged"]
    <3>1. val = <<"ciphertext_2", new>>
      BY <1>2, <2>2 DEF DamagedValues
    <3>2. PICK o \in offered : o.ciphertext_2 = old[2]
      BY <1>3, <2>2 DEF GenuineItem
    <3>3. WellOffered(o)
      BY DEF AgreementInv
    <3>4. new.text.sign_or_mac.label = "damaged"
      BY <3>2, <3>3 DEF WellOffered
    <3> HIDE DEF new, old
    <3> QED
      BY <2>1, <3>1, <3>4 DEF SpoiltItem
  <2>3. CASE old[1] = "ciphertext_3"
    <3> DEFINE new == [old[2] EXCEPT !.prk = <<>>]
    <3>1. val = <<"ciphertext_3", new>>
      BY <1>2, <2>3 DEF DamagedValues
    <3>2. PICK e \in Completed("I") : e.key.th4.ciphertext_3 = old[2]
      BY <1>3, <2>3 DEF GenuineItem
    <3>3. WellConfirmed(e.key)
      BY DEF AgreementInv
    <3>4. new.prk = <<>>
      BY <3>2, <3>3 DEF WellConfirmed
    <3> HIDE DEF new, old
    <3> QED
      BY <2>1, <3>1, <3>4 DEF SpoiltItem
  <2>4. CASE old[1] = "int"
    <3>1. val[1] = "int"
      BY <1>2, <2>4 DEF DamagedValues
    <3> QED
      BY <2>1, <3>1 DEF SpoiltItem
  <2>5. CASE old[1] = "g"
    <3>1. val[1] = "g"
      BY <1>2, <2>5 DEF DamagedValues
    <3> QED
      BY <2>1, <3>1 DEF SpoiltItem
  <2>6. CASE old[1] \notin {"int", "g", "ciphertext_2", "ciphertext_3"}
    BY <1>2, <2>6 DEF DamagedValues
  <2> QED
    BY <2>2, <2>3, <2>4, <2>5, <2>6
<1> QED
  BY <1>4, <1>5

-----------------------------------------------------------------------------
\* The invariant is inductive.

\* Nothing is taken back: a step preserves the invariant when what it adds is
\* as the invariant says.
LEMMA Additions ==
    ASSUME AgreementInv, offered \subseteq offered', ended \subseteq ended',
           PartiesAlign',
           \A o \in offered' \ offered : WellOffered(o),
           \A e \in Completed("I")' \ Completed("I") : WellConfirmed(e.key)',
           \A e \in Completed("R")' \ Completed("R") :
              \E f \in Completed("I") : f.key = e.key,
           \A msg \in sent' \ sent : \A k \in DOMAIN msg : GenuineItem(msg[k])',
           \A msg \in (toR' \cup toI') \ (toR \cup toI) : \A k \in DOMAIN msg :
              GenuineItem(msg[k])' \/ SpoiltItem(msg[k])
    PROVE  AgreementInv'
<1>1. Completed("I") \subseteq Completed("I")'
  BY DEF Completed
<1>2. ASSUME NEW item, GenuineItem(item)  PROVE GenuineItem(item)'
  BY <1>1, <1>2 DEF GenuineItem
<1>3. ASSUME NEW key, WellConfirmed(key)  PROVE WellConfirmed(key)'
  BY <1>3 DEF WellConfirmed
<1>4. \A o \in offered' : WellOffered(o)
  BY DEF AgreementInv
<1>5. \A e \in Completed("I")' : WellConfirmed(e.key)'
  BY <1>3 DEF AgreementInv
<1>6. \A msg \in sent' : \A k \in DOMAIN msg : GenuineItem(msg[k])'
  BY <1>2 DEF AgreementInv
<1>7. \A msg \in toR' \cup toI' : \A k \in DOMAIN msg :
         GenuineItem(msg[k])' \/ SpoiltItem(msg[k])
  BY <1>2 DEF AgreementInv
<1>8. ResponderAgreement'
  BY <1>1 DEF AgreementInv, ResponderAgreement
<1> QED
  BY <1>4, <1>5, <1>6, <1>7, <1>8 DEF AgreementInv

\* A return that is no success completes nothing.
LEMMA NotCompleted ==
    ASSUME NEW r, ended' \subseteq ended \cup {r}, r.result # "EdhocNoError", NEW by
    PROVE  Completed(by)' \subseteq Completed(by)
BY DEF Completed

LEMMA AgreementInit == Init => AgreementInv
BY DEF Init, AgreementInv, PartiesAlign, Completed, ResponderAgreement, Undefined

LEMMA StartRunAgrees ==
    ASSUME AgreementInv, NEW conf \in InitiatorConfs, StartRun(conf)
    PROVE  AgreementInv'
<1> DEFINE run == ini.run + 1
           msg1 == Message1(run, conf)
<1>1. offered' = offered /\ res' = res /\ toI' = toI
  BY DEF StartRun
<1>2. \A msg \in {msg1} : \A k \in DOMAIN msg : GenuineItem(msg[k])'
  <2>1. \A msg \in {msg1} : \A k \in DOMAIN msg : PlainItem(msg[k])
    BY Message1Plain DEF Message1
  <2> QED
    BY <2>1 DEF PlainItem, GenuineItem
<1>3. CASE Supported(conf.suites[1])
  <2>1. /\ ini' = [phase |-> "msg2", run |-> run, conf |-> conf, msg1 |-> msg1]
        /\ toR' = toR \cup {msg1} /\ sent' = sent \cup {msg1} /\ ended' = ended
    BY <1>3 DEF StartRun
  <2>2. PartiesAlign'
    BY <1>1, <2>1 DEF AgreementInv, PartiesAlign, Message1, EphemeralX
  <2>3. Completed("I")' = Completed("I") /\ Completed("R")' = Completed("R")
    BY <2>1 DEF Completed
  <2> QED
    BY <1>1, <1>2, <2>1, <2>2, <2>3, Additions
<1>4. CASE ~Supported(conf.suites[1])
  <2> DEFINE r == Return("I", run, "msg1", "UnsupportedCipherSuite", msg1, Undefined,
                         <<>>, Undefined, Undefined)
  <2>1. /\ ini' = [ini EXCEPT !.run = run]
        /\ ended' = ended \cup {r} /\ toR' = toR /\ sent' = sent
    BY <1>4 DEF StartRun
  <2>2. PartiesAlign'
    BY <1>1, <2>1 DEF AgreementInv, PartiesAlign, StartRun
  <2>3. r.result # "EdhocNoError"
    BY DEF Return
  <2> HIDE DEF r
  <2>4. Completed("I")' \subseteq Completed("I") /\ Completed("R")' \subseteq Completed("R")
    BY <2>1, <2>3, NotCompleted
  <2> QED
    BY <1>1, <2>1, <2>2, <2>4, Additions
<1> QED
  BY <1>3, <1>4

\* The key of an initiator that accepted message 2 is determined by the
\* CIPHERTEXT_3 it sends (initiator.c 402-564).
LEMMA ConfirmedKey ==
    ASSUME AgreementInv, ini.phase = "msg2", NEW msg \in toI,
           "EdhocNoError" \in Message2Results(msg)
    PROVE  /\ WellConfirmed(InitiatorKey(msg))
           /\ InitiatorKey(msg).th4.ciphertext_3 = Ciphertext3(msg)
<1> DEFINE c3 == Ciphertext3(msg)
<1>1. /\ InitiatorOffer(msg) \in offered
      /\ InitiatorOffer(msg).ciphertext_2 = Ciphertext2(msg)
  BY AcceptedMessage2
<1>2. /\ c3.text.sign_or_mac.cred = ini.conf.id_cred.of
      /\ c3.text.sign_or_mac.prk = InitiatorPrk4x3m(msg)
      /\ c3.th = InitiatorTh3(msg)
      /\ {"prk", "th", "text"} \subseteq DOMAIN c3
  BY DEF Ciphertext3, Ciphertext, Plaintext, Signature_or_mac
<1>3. c3.th.ciphertext_2 = InitiatorOffer(msg).ciphertext_2
  BY <1>1, <1>2 DEF InitiatorTh3, th3_calculate
<1> DEFINE key == InitiatorKey(msg)
<1>4. key = Key(InitiatorOffer(msg), ini.conf.id_cred.of, InitiatorPrk4x3m(msg),
                th4_calculate(InitiatorTh3(msg), c3))
  BY DEF InitiatorKey
<1>5. key.th4.ciphertext_3 = c3 /\ key.offer = InitiatorOffer(msg)
  BY <1>4 DEF Key, th4_calculate
<1> HIDE DEF key, c3
<1> QED
  BY <1>1, <1>2, <1>3, <1>4, <1>5 DEF WellConfirmed, key, c3

LEMMA TakeMessage2Agrees ==
    ASSUME AgreementInv, NEW msg \in toI, TakeMessage2(msg)
    PROVE  AgreementInv'
<1>1. /\ ini.phase = "msg2" /\ ini' = [ini EXCEPT !.phase = "idle"]
      /\ toI' \subseteq toI /\ res' = res /\ offered' = offered
  BY DEF TakeMessage2, Deliver
<1>2. PICK result \in Message2Results(msg) :
         /\ ended' = ended \cup
              {Return("I", ini.run, "msg2", result, ini.msg1, Undefined, msg,
                      IF result = "EdhocNoError" THEN InitiatorKey(msg) ELSE Undefined,
                      Undefined)}
         /\ toR' = toR \cup Reply(msg, result)
         /\ sent' = sent \cup Reply(msg, result)
  BY DEF TakeMessage2
<1>3. PICK r : r = Return("I", ini.run, "msg2", result, ini.msg1, Undefined, msg,
                          IF result = "EdhocNoError" THEN InitiatorKey(msg)
                          ELSE Undefined, Undefined)
  OBVIOUS
<1>4. ended' = ended \cup {r} /\ r.by = "I" /\ r.result = result
  BY <1>2, <1>3 DEF Return
<1>5. PartiesAlign'
  BY <1>1 DEF AgreementInv, PartiesAlign
<1>6. CASE result = "EdhocNoError"
  <2>1. r.key = InitiatorKey(msg)
    BY <1>3, <1>6 DEF Return
  <2>2. PICK c3 : c3 = Ciphertext3(msg)
    OBVIOUS
  <2>3. WellConfirmed(r.key) /\ r.key.th4.ciphertext_3 = c3
    BY <1>1, <1>6, <2>1, <2>2, ConfirmedKey
  <2>4. Completed("I")' = Completed("I") \cup {r}
    BY <1>4, <1>6 DEF Completed
  <2>5. Completed("R")' = Completed("R")
    BY <1>4 DEF Completed
  <2>6. WellConfirmed(r.key)'
    BY <1>1, <2>3 DEF WellConfirmed
  <2>7. \A m \in Reply(msg, result) : \A k \in DOMAIN m :
           \/ PlainItem(m[k])
           \/ "val" \in DOMAIN m[k] /\ m[k].val = <<"ciphertext_3", c3>>
    BY <1>6, <2>2, Message3Items DEF Reply
  <2>8. \A m \in Reply(msg, result) : \A k \in DOMAIN m : GenuineItem(m[k])'
    BY <2>3, <2>4, <2>7 DEF GenuineItem, PlainItem
  <2> QED
    BY <1>1, <1>2, <1>4, <1>5, <2>4, <2>5, <2>6, <2>8, Additions
<1>7. CASE result # "EdhocNoError"
  <2>1. Completed("I")' \subseteq Completed("I") /\ Completed("R")' \subseteq Completed("R")
    BY <1>4, <1>7, NotCompleted
  <2>2. \A m \in Reply(msg, result) : \A k \in DOMAIN m : PlainItem(m[k])
    BY <1>7, ErrorMessagePlain DEF Reply
  <2>3. \A m \in Reply(msg, result) : \A k \in DOMAIN m : GenuineItem(m[k])'
    BY <2>2 DEF GenuineItem, PlainItem
  <2> QED
    BY <1>1, <1>2, <1>4, <1>5, <2>1, <2>3, Additions
<1> QED
  BY <1>6, <1>7

LEMMA InitiatorRxFailsAgrees ==
    ASSUME AgreementInv, InitiatorRxFails
    PROVE  AgreementInv'
<1>1. PICK r : r = Return("I", ini.run, "msg2", "rx", ini.msg1, Undefined,
                          <<>>, Undefined, Undefined)
  OBVIOUS
<1>2. /\ ini' = [ini EXCEPT !.phase = "idle"] /\ ended' = ended \cup {r}
      /\ UNCHANGED <<res, toR, toI, sent, offered>>
  BY <1>1 DEF InitiatorRxFails
<1>3. PartiesAlign'
  BY <1>2 DEF AgreementInv, PartiesAlign
<1>4. r.result # "EdhocNoError"
  BY <1>1 DEF Return
<1>5. Completed("I")' \subseteq Completed("I") /\ Completed("R")' \subseteq Completed("R")
  BY <1>2, <1>4, NotCompleted
<1> QED
  BY <1>2, <1>3, <1>5, Additions

\* No PRK is empty: the first extraction already has a secret (prk.c 19-44).
LEMMA PrkNotEmpty ==
    ASSUME NEW static_dh, NEW secret, NEW pk, NEW sk
    PROVE  prk_derive(static_dh, hkdf_extract(<<>>, secret), pk, sk) # <<>>
<1> DEFINE t == shared_secret_derive(sk, pk)
           S == {secret, t}
<1>1. \A e \in S : \A q \in Seq(S) : Append(q, e) \in Seq(S) /\ Append(q, e) # <<>>
  BY AppendProperties
<1>2. <<>> \in Seq(S) /\ secret \in S /\ t \in S
  OBVIOUS
<1> HIDE DEF t, S
<1>3. Append(<<>>, secret) # <<>> /\ Append(Append(<<>>, secret), t) # <<>>
  BY <1>1, <1>2
<1> QED
  BY <1>3 DEF prk_derive, hkdf_extract, t

\* What the responder offers is determined by its CIPHERTEXT_2
\* (responder.c 305-404).
LEMMA ResponderOffers ==
    ASSUME NEW msg, Message1Result(msg) = "EdhocNoError"
    PROVE  /\ WellOffered(ResponderOffer(msg))
           /\ ResponderOffer(msg).ciphertext_2 = ResponderCiphertext2(msg)
<1> DEFINE c2 == ResponderCiphertext2(msg)
           o == ResponderOffer(msg)
           prk == ResponderPrk3e2m(msg)
           mac == c2.text.sign_or_mac
<1>1. /\ c2.th = ResponderTh2(msg)
      /\ {"prk", "th", "text"} \subseteq DOMAIN c2
      /\ "sign_or_mac" \in DOMAIN c2.text
      /\ mac.cred = res.conf.id_cred.of /\ mac.prk = prk
      /\ "label" \in DOMAIN mac /\ mac.label = "2"
  BY DEF ResponderCiphertext2, Ciphertext, Plaintext, Signature_or_mac
<1>2. c2.th.msg1 = msg
  BY <1>1 DEF ResponderTh2, th2_calculate
<1>3. o = Offer(MethodOf(msg), SelectedSuite(msg), res.conf.id_cred.of,
                ResponderTh2(msg), c2, prk)
  BY DEF ResponderOffer
<1>4. prk # <<>>
  BY PrkNotEmpty DEF ResponderPrk3e2m, ResponderPrk2e
<1>5. msg1_parse(msg, res.ad_1_len) = "EdhocNoError"
  BY DEF Message1Result
<1>6. DecodeError(msg, 2, SUITES_I_SIZE) = "EdhocNoError"
  BY <1>5, NoErrorOf5 DEF msg1_parse
<1>7. msg[2].type # "array"
  BY <1>6 DEF DecodeError
<1>8. o = Offered(c2)
  BY <1>1, <1>2, <1>3 DEF Offered
<1>9. o.ciphertext_2 = c2 /\ o.th2 = c2.th /\ o.prk_3e2m = prk
  BY <1>1, <1>3 DEF Offer
<1> HIDE DEF c2, o, prk
<1> QED
  BY <1>1, <1>2, <1>4, <1>7, <1>8, <1>9 DEF WellOffered, c2, o

LEMMA TakeMessage1Agrees ==
    ASSUME AgreementInv, NEW msg \in toR, TakeMessage1(msg)
    PROVE  AgreementInv'
<1> DEFINE result == Message1Result(msg)
<1>1. /\ toI' = toI \cup Answer1(msg, result) /\ sent' = sent \cup Answer1(msg, result)
      /\ toR' \subseteq toR /\ ini' = ini
  BY DEF TakeMessage1, Deliver
<1>2. CASE result = "EdhocNoError"
  <2>1. PICK o : o = ResponderOffer(msg)
    OBVIOUS
  <2>2. /\ res' = [res EXCEPT !.phase = "msg3", !.ad_1_len = AdLen(msg),
                              !.msg1 = msg, !.offer = o]
        /\ offered' = offered \cup {o} /\ ended' = ended
    BY <1>2, <2>1 DEF TakeMessage1
  <2>3. WellOffered(o)
    BY <1>2, <2>1, ResponderOffers
  <2>4. PartiesAlign'
    BY <1>1, <2>2 DEF AgreementInv, PartiesAlign, Message1, EphemeralX
  <2>5. Completed("I")' = Completed("I") /\ Completed("R")' = Completed("R")
    BY <2>2 DEF Completed
  <2>6. \A m \in Answer1(msg, result) : \A k \in DOMAIN m :
           \/ PlainItem(m[k])
           \/ "val" \in DOMAIN m[k] /\ m[k].val = <<"ciphertext_2", o.ciphertext_2>>
    BY <1>2, <2>1, ResponderOffers, Message2Items DEF Answer1
  <2>7. \A m \in Answer1(msg, result) : \A k \in DOMAIN m : GenuineItem(m[k])'
    BY <2>2, <2>6 DEF GenuineItem, PlainItem
  <2> QED
    BY <1>1, <2>2, <2>3, <2>4, <2>5, <2>7, Additions
<1>3. CASE result # "EdhocNoError"
  <2>1. PICK r : r = Return("R", res.run, "msg1", result, msg, Undefined, msg,
                            Undefined, res.out)
    OBVIOUS
  <2>2. /\ res' = NextLoop([res EXCEPT !.ad_1_len = AdLen(msg)])
        /\ ended' = ended \cup {r} /\ offered' = offered
    BY <1>3, <2>1 DEF TakeMessage1
  <2>3. r.result # "EdhocNoError"
    BY <1>3, <2>1 DEF Return
  <2>4. Completed("I")' \subseteq Completed("I") /\ Completed("R")' \subseteq Completed("R")
    BY <2>2, <2>3, NotCompleted
  <2>5. PartiesAlign'
    BY <1>1, <2>2 DEF AgreementInv, PartiesAlign, NextLoop, Message1, EphemeralX
  <2>6. \A m \in Answer1(msg, result) : \A k \in DOMAIN m : PlainItem(m[k])
    BY <1>3, ErrorMessagePlain DEF Answer1
  <2>7. \A m \in Answer1(msg, result) : \A k \in DOMAIN m : GenuineItem(m[k])'
    BY <2>6 DEF GenuineItem, PlainItem
  <2> QED
    BY <1>1, <2>2, <2>4, <2>5, <2>7, Additions
<1> QED
  BY <1>2, <1>3

LEMMA TakeMessage3Agrees ==
    ASSUME AgreementInv, NEW msg \in toR, TakeMessage3(msg)
    PROVE  AgreementInv'
<1>1. /\ res.phase = "msg3" /\ toR' \subseteq toR /\ ini' = ini /\ offered' = offered
  BY DEF TakeMessage3, Deliver
<1>2. PICK result \in Message3Results(msg) :
         /\ res' = IF result = "undefined" THEN [res EXCEPT !.phase = "stopped"]
                   ELSE NextLoop([res EXCEPT !.out = Out(msg, result)])
         /\ ended' = ended \cup
              {Return("R", res.run, "msg3", result, res.msg1, res.offer.th2, msg,
                      IF result = "EdhocNoError" THEN ResponderKey(msg) ELSE Undefined,
                      Out(msg, result))}
         /\ toI' = toI \cup Answer3(result)
         /\ sent' = sent \cup Answer3(result)
  BY DEF TakeMessage3
<1>3. PICK r : r = Return("R", res.run, "msg3", result, res.msg1, res.offer.th2, msg,
                          IF result = "EdhocNoError" THEN ResponderKey(msg)
                          ELSE Undefined, Out(msg, result))
  OBVIOUS
<1>4. /\ ended' = ended \cup {r} /\ r.by = "R" /\ r.result = result
      /\ result = "EdhocNoError" => r.key = ResponderKey(msg)
  BY <1>2, <1>3 DEF Return
<1>5. PartiesAlign'
  BY <1>1, <1>2 DEF AgreementInv, PartiesAlign, NextLoop, Message1, EphemeralX
<1>6. Completed("I")' = Completed("I") /\ Completed("R")' \subseteq Completed("R") \cup {r}
  BY <1>4 DEF Completed
<1>7. \A e \in Completed("R")' \ Completed("R") : \E f \in Completed("I") : f.key = e.key
  <2>1. SUFFICES ASSUME r \in Completed("R")'
                 PROVE  \E f \in Completed("I") : f.key = r.key
    BY <1>6
  <2>2. result = "EdhocNoError"
    BY <1>4, <2>1 DEF Completed
  <2> QED
    BY <1>1, <1>2, <1>4, <2>2, AcceptedMessage3
<1>8. \A m \in Answer3(result) : \A k \in DOMAIN m : PlainItem(m[k])
  BY ErrorMessagePlain DEF Answer3
<1>9. \A m \in Answer3(result) : \A k \in DOMAIN m : GenuineItem(m[k])'
  BY <1>8 DEF GenuineItem, PlainItem
<1> QED
  BY <1>1, <1>2, <1>4, <1>5, <1>6, <1>7, <1>9, Additions

LEMMA ResponderRxFailsAgrees ==
    ASSUME AgreementInv, ResponderRxFails
    PROVE  AgreementInv'
<1>1. PICK r : r = Return("R", res.run, "msg3", "rx", res.msg1, res.offer.th2,
                          <<>>, Undefined, res.out)
  OBVIOUS
<1>2. /\ res' = NextLoop(res) /\ ended' = ended \cup {r}
      /\ UNCHANGED <<ini, toR, toI, sent, offered>>
  BY <1>1 DEF ResponderRxFails
<1>3. PartiesAlign'
  BY <1>2 DEF AgreementInv, PartiesAlign, NextLoop, Message1, EphemeralX
<1>4. r.result # "EdhocNoError"
  BY <1>1 DEF Return
<1>5. Completed("I")' \subseteq Completed("I") /\ Completed("R")' \subseteq Completed("R")
  BY <1>2, <1>4, NotCompleted
<1> QED
  BY <1>2, <1>3, <1>5, Additions

LEMMA NetworkAgrees ==
    ASSUME AgreementInv, LoseMessage \/ DamageMessage
    PROVE  AgreementInv'
<1>1. UNCHANGED <<ini, res, sent, offered, ended>>
  BY DEF LoseMessage, DamageMessage
<1>2. PartiesAlign'
  BY <1>1 DEF AgreementInv, PartiesAlign, Message1, EphemeralX
<1>3. Completed("I")' = Completed("I") /\ Completed("R")' = Completed("R")
  BY <1>1 DEF Completed
<1>4. \A m \in (toR' \cup toI') \ (toR \cup toI) :
         \E msg \in sent : m \in Damaged(msg)
  BY DEF LoseMessage, DamageMessage
<1>5. \A m \in (toR' \cup toI') \ (toR \cup toI) : \A k \in DOMAIN m :
         GenuineItem(m[k]) \/ SpoiltItem(m[k])
  BY <1>4, DamageSpoils
<1>6. \A m \in (toR' \cup toI') \ (toR \cup toI) : \A k \in DOMAIN m :
         GenuineItem(m[k])' \/ SpoiltItem(m[k])
  BY <1>1, <1>3, <1>5 DEF GenuineItem
<1> QED
  BY <1>1, <1>2, <1>3, <1>6, Additions

LEMMA StutterAgrees ==
    ASSUME AgreementInv, UNCHANGED vars
    PROVE  AgreementInv'
<1>1. UNCHANGED <<ini, res, toR, toI, sent, offered, ended>>
  BY DEF vars
<1>2. PartiesAlign'
  BY <1>1 DEF AgreementInv, PartiesAlign, Message1, EphemeralX
<1>3. Completed("I")' = Completed("I") /\ Completed("R")' = Completed("R")
  BY <1>1 DEF Completed
<1> QED
  BY <1>1, <1>2, <1>3, Additions

\* The inductive invariant: whatever the network loses, repeats, reorders and
\* damages, ciphertexts name what their sender holds (initiator.c 215-567,
\* responder.c 259-581).
THEOREM Agreement == Spec => []AgreementInv
<1>1. AgreementInv /\ [Next]_vars => AgreementInv'
  <2>1. SUFFICES ASSUME AgreementInv, [Next]_vars  PROVE AgreementInv'
    OBVIOUS
  <2>2. CASE \E conf \in InitiatorConfs : StartRun(conf)
    BY <2>1, <2>2, StartRunAgrees
  <2>3. CASE \E msg \in toI : TakeMessage2(msg)
    BY <2>1, <2>3, TakeMessage2Agrees
  <2>4. CASE InitiatorRxFails
    BY <2>1, <2>4, InitiatorRxFailsAgrees
  <2>5. CASE \E msg \in toR : TakeMessage1(msg)
    BY <2>1, <2>5, TakeMessage1Agrees
  <2>6. CASE \E msg \in toR : TakeMessage3(msg)
    BY <2>1, <2>6, TakeMessage3Agrees
  <2>7. CASE ResponderRxFails
    BY <2>1, <2>7, ResponderRxFailsAgrees
  <2>8. CASE LoseMessage \/ DamageMessage
    BY <2>1, <2>8, NetworkAgrees
  <2>9. CASE UNCHANGED vars
    BY <2>1, <2>9, StutterAgrees
  <2> QED
    BY <2>1, <2>2, <2>3, <2>4, <2>5, <2>6, <2>7, <2>8, <2>9 DEF Next
<1> QED
  BY AgreementInit, <1>1, PTL DEF Spec

\* An initiator that returns EdhocNoError completed with what the responder
\* offered: the same method, suite, credential, transcript and PRK_3e2m
\* (initiator.c 339-399).
THEOREM InitiatorAgrees == Spec => []InitiatorAgreement
<1>1. AgreementInv => InitiatorAgreement
  BY DEF AgreementInv, InitiatorAgreement, WellConfirmed
<1> QED
  BY Agreement, <1>1, PTL

\* A responder that returns EdhocNoError has the key of an initiator that did so
\* too: prk_4x3m, th4, both credentials and the offer are the same
\* (responder.c 507-581).
THEOREM ResponderAgrees == Spec => []ResponderAgreement
<1>1. AgreementInv => ResponderAgreement
  BY DEF AgreementInv
<1> QED
  BY Agreement, <1>1, PTL

-----------------------------------------------------------------------------
(* Type correctness: the bounds of the two parties, the results of their   *)
(* runs, and the length of AD_1 that the responder application hands from  *)
(* run to run.                                                             *)

\* What the functions of the two parties may return.

LEMMA FirstErrorOf3 ==
    ASSUME NEW a, NEW b, NEW c
    PROVE  FirstError(<<a, b, c>>) \in {"EdhocNoError", a, b, c}
<1> DEFINE none == "EdhocNoError"
           e == <<a, b, c>>
           First(k) == /\ e[k] # none
                       /\ \A j \in DOMAIN e : e[j] # none => k <= j
<1>1. CASE \A k \in DOMAIN e : e[k] = none
  BY <1>1 DEF FirstError
<1>2. CASE ~(\A k \in DOMAIN e : e[k] = none)
  <2>1. \E k \in DOMAIN e : First(k)
    <3>1. CASE a # none  BY <3>1
    <3>2. CASE a = none /\ b # none  BY <3>2
    <3>3. CASE a = none /\ b = none  BY <3>3, <1>2
    <3> QED  BY <3>1, <3>2, <3>3
  <2>2. (CHOOSE k \in DOMAIN e : First(k)) \in DOMAIN e
    BY <2>1
  <2>3. FirstError(e) = e[CHOOSE k \in DOMAIN e : First(k)]
    BY <1>2 DEF FirstError
  <2> HIDE DEF First
  <2> QED
    BY <2>2, <2>3
<1> QED
  BY <1>1, <1>2

LEMMA FirstErrorOf5 ==
    ASSUME NEW a, NEW b, NEW c, NEW d, NEW f
    PROVE  FirstError(<<a, b, c, d, f>>) \in {"EdhocNoError", a, b, c, d, f}
<1> DEFINE none == "EdhocNoError"
           e == <<a, b, c, d, f>>
           First(k) == /\ e[k] # none
                       /\ \A j \in DOMAIN e : e[j] # none => k <= j
<1>1. CASE \A k \in DOMAIN e : e[k] = none
  BY <1>1 DEF FirstError
<1>2. CASE ~(\A k \in DOMAIN e : e[k] = none)
  <2>1. \E k \in DOMAIN e : First(k)
    <3>1. CASE a # none  BY <3>1
    <3>2. CASE a = none /\ b # none  BY <3>2
    <3>3. CASE a = none /\ b = none /\ c # none  BY <3>3
    <3>4. CASE a = none /\ b = none /\ c = none /\ d # none  BY <3>4
    <3>5. CASE a = none /\ b = none /\ c = none /\ d = none  BY <3>5, <1>2
    <3> QED  BY <3>1, <3>2, <3>3, <3>4, <3>5
  <2>2. (CHOOSE k \in DOMAIN e : First(k)) \in DOMAIN e
    BY <2>1
  <2>3. FirstError(e) = e[CHOOSE k \in DOMAIN e : First(k)]
    BY <1>2 DEF FirstError
  <2> HIDE DEF First
  <2> QED
    BY <2>2, <2>3
<1> QED
  BY <1>1, <1>2

\* The errors of cbor_decoder and of the parsers built on it
\* (cbor_decoder.c 20-139, initiator.c 59-115, responder.c 76-176).
LEMMA DecodeResults ==
    ASSUME NEW msg, NEW k, NEW cap
    PROVE  DecodeError(msg, k, cap) \in Results /\ TextError(msg, k) \in Results
BY DEF DecodeError, TextError, Results

LEMMA ParseResults ==
    ASSUME NEW msg, NEW n, NEW corr
    PROVE  /\ msg1_parse(msg, n) \in Results
           /\ msg2_parse(corr, n, msg) \in Results
           /\ msg3_parse(corr, msg) \in Results
<1>1. "EdhocNoError" \in Results
  BY DEF Results
<1>2. msg1_parse(msg, n) \in Results
  <2>1. (IF Len(msg) < 5 THEN "EdhocNoError" ELSE DecodeError(msg, 5, n)) \in Results
    BY <1>1, DecodeResults
  <2> QED
    BY <1>1, <2>1, DecodeResults, FirstErrorOf5 DEF msg1_parse
<1>3. msg2_parse(corr, n, msg) \in Results
  <2> DEFINE g == GyAt(corr)
  <2>1. (IF g = 1 THEN "EdhocNoError" ELSE DecodeError(msg, 1, n)) \in Results
    BY <1>1, DecodeResults
  <2> QED
    BY <1>1, <2>1, DecodeResults, FirstErrorOf5 DEF msg2_parse
<1>4. msg3_parse(corr, msg) \in Results
  <2> DEFINE c == Ciphertext3At(corr)
  <2>1. (IF c = 1 THEN "EdhocNoError" ELSE DecodeError(msg, 1, C_R_DEFAULT_SIZE))
           \in Results
    BY <1>1, DecodeResults
  <2> QED
    BY <1>1, <2>1, DecodeResults, FirstErrorOf3 DEF msg3_parse
<1> QED
  BY <1>2, <1>3, <1>4

\* The errors of authentication (retrieve_cred.c, signature_or_mac_msg.c).
LEMMA PeerResultsAreResults ==
    ASSUME NEW label, NEW static_dh, NEW cred_array, NEW prk, NEW sk, NEW th, NEW text
    PROVE  PeerResults(label, static_dh, cred_array, prk, sk, th, text) \subseteq Results
<1> DEFINE good == Authentic(label, static_dh, PeerPrk(static_dh, cred_array, prk, sk, text),
                             th, text.id_cred, FoundCred(cred_array, text.id_cred),
                             DecodedAd(text.ad), text.sign_or_mac)
           last == IF good THEN "EdhocNoError" ELSE "ResponderAuthenticationFailed"
           ad == AdError(text.ad)
           cred == retrieve_cred(cred_array, text.id_cred)
<1>1. GarbledResults \subseteq Results
  BY DEF GarbledResults, Results
<1>2. ad \in Results /\ cred \in Results /\ "EdhocNoError" \in Results
  BY DEF AdError, retrieve_cred, cert_verify, Results
<1> HIDE DEF good, ad, cred
<1>3. last \in Results
  BY DEF Results
<1>4. FirstError(<<ad, cred, last>>) \in Results
  BY <1>2, <1>3, FirstErrorOf3
<1>5. PeerResults(label, static_dh, cred_array, prk, sk, th, text)
         \subseteq GarbledResults \cup {FirstError(<<ad, cred, last>>)}
  BY DEF PeerResults, good, ad, cred
<1> QED
  BY <1>1, <1>4, <1>5

\* So every EdhocError of the two functions is one of Results.
LEMMA RunResults ==
    ASSUME NEW msg
    PROVE  /\ Message1Result(msg) \in Results
           /\ Message2Results(msg) \subseteq Results
           /\ Message3Results(msg) \subseteq Results
<1>1. Message1Result(msg) \in Results
  BY ParseResults DEF Message1Result, Results
<1>2. Message2Results(msg) \subseteq Results
  <2>1. GarbledResults \subseteq Results
    BY DEF GarbledResults, Results
  <2> QED
    BY <2>1, ParseResults, PeerResultsAreResults DEF Message2Results
<1>3. Message3Results(msg) \subseteq Results
  <2>1. {"AEADAuthenticationFailed", "undefined"} \subseteq Results
    BY DEF Results
  <2> QED
    BY <2>1, ParseResults, PeerResultsAreResults DEF Message3Results
<1> QED
  BY <1>1, <1>2, <1>3

-----------------------------------------------------------------------------
\* A message with a fifth item has AD_1 there: the responder stores its length.

MessageShape(msg) ==
    /\ msg \in Seq({msg[k] : k \in DOMAIN msg})
    /\ Len(msg) >= 5 => /\ {"type", "len"} \subseteq DOMAIN msg[5]
                        /\ msg[5].type = "bstr" /\ msg[5].len \in Ad1s \ {0}

\* A sequence is one of the items it has.
LEMMA SequenceOfItems ==
    ASSUME NEW S, NEW msg \in Seq(S)
    PROVE  /\ msg \in Seq({msg[k] : k \in DOMAIN msg})
           /\ Len(msg) \in Nat /\ DOMAIN msg = 1..Len(msg)
OBVIOUS

LEMMA Message1Shape ==
    ASSUME NEW run, NEW conf \in InitiatorConfs
    PROVE  MessageShape(Message1(run, conf))
<1> DEFINE a == CborInt(4 * conf.method + conf.corr)
           b == Suites(conf.suites)
           g == CborBstr(G_DEFAULT_SIZE, <<"g", EphemeralX(run)>>)
           d == bstr_identifier(c_i)
           x == CborBstr(conf.ad_1, <<"ad_1", conf.ad_1>>)
           S == {a, b, g, d, x}
           m == Message1(run, conf)
           four == <<a, b, g, d>>
<1>1. m = IF conf.ad_1 = 0 THEN four ELSE Append(four, x)
  BY DEF Message1, msg1_encode
<1>2. conf.ad_1 \in Ad1s
  BY DEF InitiatorConfs
<1>3. {"type", "len"} \subseteq DOMAIN x /\ x.type = "bstr" /\ x.len = conf.ad_1
  BY <1>2 DEF CborBstr, Item
<1> HIDE DEF a, b, g, d, x, m
<1>4. four \in Seq(S) /\ Len(four) = 4 /\ x \in S
  OBVIOUS
<1> HIDE DEF four, S
<1>5. /\ Append(four, x) \in Seq(S) /\ Len(Append(four, x)) = 5
      /\ Append(four, x)[5] = x
  <2>1. /\ Append(four, x) \in Seq(S)
        /\ Len(Append(four, x)) = Len(four) + 1
        /\ Append(four, x)[Len(four) + 1] = x
    <3>1. four \in Seq(S) /\ x \in S
      BY ONLY <1>4
    <3> QED
      BY ONLY <3>1, AppendProperties
  <2>2. Len(four) + 1 = 5
    BY <1>4
  <2> QED
    BY <2>1, <2>2
<1>6. m \in Seq(S) /\ (Len(m) >= 5 => m[5] = x /\ conf.ad_1 # 0)
  <2>1. CASE conf.ad_1 = 0
    <3>1. m = four
      BY <1>1, <2>1
    <3>2. ~(Len(four) >= 5)
      BY <1>4
    <3> QED
      BY <1>4, <3>1, <3>2
  <2>2. CASE conf.ad_1 # 0
    BY <1>1, <1>5, <2>2
  <2> QED
    BY <2>1, <2>2
<1> QED
  BY <1>2, <1>3, <1>6, SequenceOfItems DEF MessageShape, m

LEMMA Message3Shape ==
    ASSUME NEW c, NEW c3
    PROVE  MessageShape(msg3_encode(c, c3))
<1> DEFINE a == bstr_identifier(c)
           b == CborBstr(CIPHERTEXT_LEN, <<"ciphertext_3", c3>>)
           m == msg3_encode(c, c3)
<1>1. m = <<a, b>>
  BY DEF msg3_encode
<1> HIDE DEF a, b, m
<1>2. m \in Seq({a, b}) /\ Len(m) = 2
  BY <1>1
<1> QED
  BY <1>2, SequenceOfItems DEF MessageShape, m

\* The initiator's error message has at most two items.
LEMMA ErrorMessageShape ==
    ASSUME NEW role, NEW corr, NEW c
    PROVE  MessageShape(err_msg(role, corr, c, <<>>))
<1> DEFINE a == CborBstr(c.len, <<"id", c.id>>)
           e == CborBstr(0, <<"ERR_MSG", 0>>)
           S == {a, e}
           s == IF \/ role = "RESPONDER" /\ corr \in {0, 2}
                   \/ role = "INITIATOR" /\ corr \in {0, 1} THEN <<a>> ELSE <<>>
           m == err_msg(role, corr, c, <<>>)
<1>1. m = s \o <<e>> \o <<>>
  BY DEF err_msg
<1> HIDE DEF a, e, m
<1>2. /\ <<>> \in Seq(S) /\ Len(<<>>) = 0
      /\ <<a>> \in Seq(S) /\ Len(<<a>>) = 1
      /\ <<e>> \in Seq(S) /\ Len(<<e>>) = 1
  OBVIOUS
<1>3. s \in Seq(S) /\ Len(s) \in {0, 1}
  BY <1>2
<1> HIDE DEF s, S
<1>4. s \o <<e>> \in Seq(S) /\ Len(s \o <<e>>) \in {1, 2}
  BY <1>2, <1>3, ConcatProperties
<1>5. m \in Seq(S) /\ Len(m) \in {1, 2}
  BY <1>1, <1>2, <1>4, ConcatProperties
<1> QED
  BY <1>5, SequenceOfItems DEF MessageShape, m

\* Damage changes the value of an item, not what it is.
LEMMA DamagedShape ==
    ASSUME NEW msg, MessageShape(msg), NEW bad \in Damaged(msg)
    PROVE  MessageShape(bad)
<1>0. PICK j \in DOMAIN msg : \E val : bad = [msg EXCEPT ![j].val = val]
  BY DEF Damaged
<1>1. PICK val : bad = [msg EXCEPT ![j].val = val]
  BY <1>0
<1>2. PICK item : item = [msg[j] EXCEPT !.val = val]
  OBVIOUS
<1>3. bad = [msg EXCEPT ![j] = item]
  BY <1>1, <1>2
<1> DEFINE S == {msg[k] : k \in DOMAIN msg}
           T == S \cup {item}
<1>4. msg \in Seq(S) /\ DOMAIN msg = 1..Len(msg) /\ Len(msg) \in Nat
  BY DEF MessageShape
<1>5. msg \in [1..Len(msg) -> T]
  BY <1>4
<1>6. bad \in [1..Len(msg) -> T]
  BY <1>3, <1>5
<1>7. bad \in Seq(T) /\ Len(bad) = Len(msg)
  BY <1>4, <1>6
<1>8. ASSUME Len(msg) >= 5
      PROVE  /\ {"type", "len"} \subseteq DOMAIN bad[5]
             /\ bad[5].type = "bstr"
             /\ bad[5].len \in Ad1s \ {0}
  <2>1. /\ {"type", "len"} \subseteq DOMAIN msg[5]
        /\ msg[5].type = "bstr" /\ msg[5].len \in Ad1s \ {0}
    BY <1>8 DEF MessageShape
  <2>2. bad[5] = IF j = 5 THEN item ELSE msg[5]
    BY <1>3, <1>4, <1>8
  <2> QED
    BY <1>2, <2>1, <2>2
<1> QED
  BY <1>7, <1>8, SequenceOfItems DEF MessageShape

-----------------------------------------------------------------------------
\* The invariant.

\* TypeOK, and what makes it inductive: a responder that has not stopped has a
\* run left, and what it may read as AD_1 has a length.
TypeInv ==
    /\ TypeOK
    /\ {"conf", "ad_1_len", "msg1"} \subseteq DOMAIN res
    /\ res.phase # "stopped" => res.run < Loops
    /\ \A msg \in toR : MessageShape(msg)

Typed(e) ==
    /\ e.by \in {"I", "R"} /\ e.stage \in {"msg1", "msg2", "msg3"}
    /\ e.result \in Results
    /\ (e.result = "EdhocNoError") <=> (e.key # Undefined)

LEMMA KeyDefined ==
    ASSUME NEW offer, NEW cred, NEW prk, NEW th4
    PROVE  Key(offer, cred, prk, th4) # Undefined
<1>1. DOMAIN Key(offer, cred, prk, th4) = {"offer", "cred_i", "prk_4x3m", "th4"}
  BY DEF Key
<1>2. DOMAIN Undefined = {"undefined"}
  BY DEF Undefined
<1> QED
  BY <1>1, <1>2

\* The end of a run of the responder's loop.
LEMMA NextLoopTyped ==
    ASSUME TypeInv, AgreementInv, res.phase # "stopped",
           NEW r, r.phase = res.phase, r.run = res.run, r.conf = res.conf,
           {"conf", "ad_1_len", "msg1", "phase", "run"} \subseteq DOMAIN r,
           r.ad_1_len \in 0..AdBuffer
    PROVE  /\ NextLoop(r).phase \in {"msg1", "stopped"} /\ NextLoop(r).run \in 0..Loops
           /\ NextLoop(r).conf \in ResponderConfs /\ NextLoop(r).ad_1_len \in 0..AdBuffer
           /\ {"conf", "ad_1_len", "msg1"} \subseteq DOMAIN NextLoop(r)
           /\ NextLoop(r).phase # "stopped" => NextLoop(r).run < Loops
<1>1. /\ res.run \in Nat /\ res.run < Loops /\ Loops \in Nat /\ res.conf \in ResponderConfs
  BY HandshakeAssumption DEF TypeInv, TypeOK
<1>2. /\ NextLoop(r).run = res.run + 1
      /\ NextLoop(r).phase = IF res.run + 1 < Loops THEN "msg1" ELSE "stopped"
      /\ NextLoop(r).conf = r.conf /\ NextLoop(r).ad_1_len = r.ad_1_len
      /\ DOMAIN NextLoop(r) = DOMAIN r
  BY DEF NextLoop
<1> QED
  BY <1>1, <1>2

\* The length of AD_1 that the next run finds (responder.c 108-116).
LEMMA AdLenTyped ==
    ASSUME TypeInv, NEW msg \in toR
    PROVE  AdLen(msg) \in 0..AdBuffer
<1>1. res.ad_1_len \in 0..AdBuffer /\ AdBuffer \in Nat /\ MessageShape(msg)
  BY HandshakeAssumption DEF TypeInv, TypeOK
<1>2. CASE msg1_parse(msg, res.ad_1_len) # "EdhocNoError"
  BY <1>1, <1>2 DEF AdLen
<1>3. CASE msg1_parse(msg, res.ad_1_len) = "EdhocNoError" /\ Len(msg) < 5
  BY <1>1, <1>3 DEF AdLen, AdLenAfter
<1>4. CASE msg1_parse(msg, res.ad_1_len) = "EdhocNoError" /\ ~(Len(msg) < 5)
  <2>1. DecodeError(msg, 5, res.ad_1_len) = "EdhocNoError"
    BY <1>4, NoErrorOf5 DEF msg1_parse
  <2>2. Len(msg) \in Nat
    BY <1>1, LenProperties DEF MessageShape
  <2>3. msg[5].type = "bstr" /\ msg[5].len \in Nat
    <3>1. msg[5].type = "bstr" /\ msg[5].len \in Ad1s
      BY <1>1, <1>4, <2>2 DEF MessageShape
    <3> QED
      BY <3>1, HandshakeAssumption
  <2>4. ~(msg[5].len > res.ad_1_len)
    BY <2>1, <2>3 DEF DecodeError
  <2>5. AdLen(msg) = msg[5].len
    BY <1>4 DEF AdLen, AdLenAfter
  <2> QED
    BY <1>1, <2>3, <2>4, <2>5
<1> QED
  BY <1>2, <1>3, <1>4

LEMMA TypeInit == Init => TypeInv
<1> SUFFICES ASSUME Init  PROVE TypeInv
  OBVIOUS
<1>1. PICK conf \in ResponderConfs :
         res = [conf |-> conf, phase |-> "msg1", run |-> 0, ad_1_len |-> AdBuffer,
                msg1 |-> <<>>, offer |-> Undefined,
                out |-> [prk_4x3m |-> <<>>, th4 |-> Undefined]]
  BY DEF Init
<1>2. /\ ini.phase = "idle" /\ ini.run = 0 /\ toR = {} /\ toI = {} /\ sent = {} /\ ended = {}
  BY DEF Init
<1>3. /\ Runs \in Nat /\ Loops \in Nat \ {0} /\ AdBuffer \in Nat
  BY HandshakeAssumption
<1> QED
  BY <1>1, <1>2, <1>3 DEF TypeInv, TypeOK

\* What the initiator does leaves the responder's side alone.
LEMMA InitiatorTyped ==
    ASSUME TypeInv, AgreementInv, res' = res, offered' = offered,
           ini'.phase \in {"idle", "msg2"}, ini'.run \in 0..Runs,
           \A m \in toR' \ toR : MessageShape(m) /\ m \in sent',
           sent \subseteq sent', toI' \subseteq toI,
           \A e \in ended' \ ended : Typed(e)
    PROVE  TypeInv'
BY DEF TypeInv, TypeOK, Typed, ResponderConfs

LEMMA StartRunTyped ==
    ASSUME TypeInv, AgreementInv, NEW conf \in InitiatorConfs, StartRun(conf)
    PROVE  TypeInv'
<1> DEFINE run == ini.run + 1
           msg1 == Message1(run, conf)
<1>1. run \in 0..Runs
  BY HandshakeAssumption DEF TypeInv, TypeOK, StartRun
<1>2. res' = res /\ offered' = offered /\ toI' = toI
  BY DEF StartRun
<1>3. CASE Supported(conf.suites[1])
  <2>1. /\ ini' = [phase |-> "msg2", run |-> run, conf |-> conf, msg1 |-> msg1]
        /\ toR' = toR \cup {msg1} /\ sent' = sent \cup {msg1} /\ ended' = ended
    BY <1>3 DEF StartRun
  <2>2. MessageShape(msg1)
    BY Message1Shape
  <2>3. ini'.phase = "msg2" /\ ini'.run = run
    BY <2>1
  <2> HIDE DEF msg1, run
  <2> QED
    BY <1>1, <1>2, <2>1, <2>2, <2>3, InitiatorTyped
<1>4. CASE ~Supported(conf.suites[1])
  <2>1. PICK r : r = Return("I", run, "msg1", "UnsupportedCipherSuite", msg1, Undefined,
                            <<>>, Undefined, Undefined)
    OBVIOUS
  <2>2. /\ ini' = [ini EXCEPT !.run = run] /\ ended' = ended \cup {r}
        /\ toR' = toR /\ sent' = sent
    BY <1>4, <2>1 DEF StartRun
  <2>3. Typed(r)
    BY <2>1 DEF Typed, Return, Results
  <2>4. ini'.phase \in {"idle", "msg2"} /\ ini'.run = run
    BY <2>2 DEF AgreementInv, PartiesAlign, TypeInv, TypeOK
  <2> HIDE DEF run
  <2> QED
    BY <1>1, <1>2, <2>2, <2>3, <2>4, InitiatorTyped
<1> QED
  BY <1>3, <1>4

LEMMA TakeMessage2Typed ==
    ASSUME TypeInv, AgreementInv, NEW msg \in toI, TakeMessage2(msg)
    PROVE  TypeInv'
<1>1. /\ ini' = [ini EXCEPT !.phase = "idle"] /\ toI' \subseteq toI
      /\ res' = res /\ offered' = offered
  BY DEF TakeMessage2, Deliver
<1>2. PICK result \in Message2Results(msg) :
         /\ ended' = ended \cup
              {Return("I", ini.run, "msg2", result, ini.msg1, Undefined, msg,
                      IF result = "EdhocNoError" THEN InitiatorKey(msg) ELSE Undefined,
                      Undefined)}
         /\ toR' = toR \cup Reply(msg, result)
         /\ sent' = sent \cup Reply(msg, result)
  BY DEF TakeMessage2
<1>3. PICK r : r = Return("I", ini.run, "msg2", result, ini.msg1, Undefined, msg,
                          IF result = "EdhocNoError" THEN InitiatorKey(msg)
                          ELSE Undefined, Undefined)
  OBVIOUS
<1>4. result \in Results
  BY RunResults
<1>5. InitiatorKey(msg) # Undefined
  BY KeyDefined DEF InitiatorKey
<1>6. Typed(r)
  BY <1>3, <1>4, <1>5 DEF Typed, Return
<1>7. \A m \in Reply(msg, result) : MessageShape(m)
  BY Message3Shape, ErrorMessageShape DEF Reply
<1>8. ini'.phase = "idle" /\ ini'.run \in 0..Runs
  BY <1>1 DEF AgreementInv, PartiesAlign, TypeInv, TypeOK
<1>9. ended' = ended \cup {r}
  BY <1>2, <1>3
<1> QED
  BY <1>1, <1>2, <1>6, <1>7, <1>8, <1>9, InitiatorTyped

LEMMA InitiatorRxFailsTyped ==
    ASSUME TypeInv, AgreementInv, InitiatorRxFails
    PROVE  TypeInv'
<1>1. PICK r : r = Return("I", ini.run, "msg2", "rx", ini.msg1, Undefined,
                          <<>>, Undefined, Undefined)
  OBVIOUS
<1>2. /\ ini' = [ini EXCEPT !.phase = "idle"] /\ ended' = ended \cup {r}
      /\ res' = res /\ offered' = offered
      /\ toR' = toR /\ sent' = sent /\ toI' \subseteq toI
  BY <1>1 DEF InitiatorRxFails
<1>3. Typed(r)
  BY <1>1 DEF Typed, Return, Results
<1>4. ini'.phase = "idle" /\ ini'.run \in 0..Runs
  BY <1>2 DEF AgreementInv, PartiesAlign, TypeInv, TypeOK
<1> QED
  BY <1>2, <1>3, <1>4, InitiatorTyped

\* What the responder does leaves the initiator's side alone.
LEMMA ResponderTyped ==
    ASSUME TypeInv, ini' = ini, PartiesAlign',
           res'.phase \in {"msg1", "msg3", "stopped"}, res'.run \in 0..Loops,
           res'.conf \in ResponderConfs, res'.ad_1_len \in 0..AdBuffer,
           {"conf", "ad_1_len", "msg1"} \subseteq DOMAIN res',
           res'.phase # "stopped" => res'.run < Loops,
           toI' \ toI \subseteq sent', sent \subseteq sent', toR' \subseteq toR,
           \A e \in ended' \ ended : Typed(e)
    PROVE  TypeInv'
BY DEF TypeInv, TypeOK, Typed, ResponderConfs, PartiesAlign

LEMMA TakeMessage1Typed ==
    ASSUME TypeInv, AgreementInv, AgreementInv', NEW msg \in toR, TakeMessage1(msg)
    PROVE  TypeInv'
<1> DEFINE result == Message1Result(msg)
<1>1. /\ toI' = toI \cup Answer1(msg, result) /\ sent' = sent \cup Answer1(msg, result)
      /\ toR' \subseteq toR /\ ini' = ini /\ res.phase = "msg1"
  BY DEF TakeMessage1, Deliver
<1>2. PartiesAlign'
  BY DEF AgreementInv
<1>3. AdLen(msg) \in 0..AdBuffer
  BY AdLenTyped
<1>4. /\ res.run \in 0..Loops /\ res.run < Loops /\ res.conf \in ResponderConfs
      /\ {"conf", "ad_1_len", "msg1", "phase", "run"} \subseteq DOMAIN res
  BY <1>1 DEF TypeInv, TypeOK, AgreementInv, PartiesAlign
<1>5. CASE result = "EdhocNoError"
  <2>1. PICK o, n : o = ResponderOffer(msg) /\ n = AdLen(msg)
    OBVIOUS
  <2>2. /\ res' = [res EXCEPT !.phase = "msg3", !.ad_1_len = n,
                              !.msg1 = msg, !.offer = o]
        /\ ended' = ended
    BY <1>5, <2>1 DEF TakeMessage1
  <2>3. /\ res'.phase = "msg3" /\ res'.run = res.run /\ res'.conf = res.conf
        /\ res'.ad_1_len = n /\ DOMAIN res' = DOMAIN res
    BY <1>4, <2>2
  <2> HIDE DEF result
  <2> QED
    BY <1>1, <1>2, <1>3, <1>4, <2>1, <2>2, <2>3, ResponderTyped
<1>6. CASE result # "EdhocNoError"
  <2>1. PICK r : r = Return("R", res.run, "msg1", result, msg, Undefined, msg,
                            Undefined, res.out)
    OBVIOUS
  <2>2. PICK n : n = AdLen(msg)
    OBVIOUS
  <2>3. PICK s : s = [res EXCEPT !.ad_1_len = n]
    OBVIOUS
  <2>4. res' = NextLoop(s) /\ ended' = ended \cup {r}
    BY <1>6, <2>1, <2>2, <2>3 DEF TakeMessage1
  <2>5. /\ s.phase = res.phase /\ s.run = res.run /\ s.conf = res.conf /\ s.ad_1_len = n
        /\ DOMAIN s = DOMAIN res
    BY <1>4, <2>3
  <2>6. /\ NextLoop(s).phase \in {"msg1", "stopped"} /\ NextLoop(s).run \in 0..Loops
        /\ NextLoop(s).conf \in ResponderConfs /\ NextLoop(s).ad_1_len \in 0..AdBuffer
        /\ {"conf", "ad_1_len", "msg1"} \subseteq DOMAIN NextLoop(s)
        /\ NextLoop(s).phase # "stopped" => NextLoop(s).run < Loops
    BY <1>1, <1>3, <1>4, <2>2, <2>5, NextLoopTyped
  <2>7. Typed(r)
    BY <1>6, <2>1, RunResults DEF Typed, Return
  <2> HIDE DEF result
  <2> QED
    BY <1>1, <1>2, <2>4, <2>6, <2>7, ResponderTyped
<1> QED
  BY <1>5, <1>6

LEMMA TakeMessage3Typed ==
    ASSUME TypeInv, AgreementInv, AgreementInv', NEW msg \in toR, TakeMessage3(msg)
    PROVE  TypeInv'
<1>1. toR' \subseteq toR /\ ini' = ini /\ res.phase = "msg3"
  BY DEF TakeMessage3, Deliver
<1>2. PartiesAlign'
  BY DEF AgreementInv
<1>3. PICK result \in Message3Results(msg) :
         /\ res' = IF result = "undefined" THEN [res EXCEPT !.phase = "stopped"]
                   ELSE NextLoop([res EXCEPT !.out = Out(msg, result)])
         /\ ended' = ended \cup
              {Return("R", res.run, "msg3", result, res.msg1, res.offer.th2, msg,
                      IF result = "EdhocNoError" THEN ResponderKey(msg) ELSE Undefined,
                      Out(msg, result))}
         /\ toI' = toI \cup Answer3(result)
         /\ sent' = sent \cup Answer3(result)
  BY DEF TakeMessage3
<1>4. PICK r : r = Return("R", res.run, "msg3", result, res.msg1, res.offer.th2, msg,
                          IF result = "EdhocNoError" THEN ResponderKey(msg)
                          ELSE Undefined, Out(msg, result))
  OBVIOUS
<1>5. /\ res.run \in 0..Loops /\ res.run < Loops /\ res.conf \in ResponderConfs
      /\ res.ad_1_len \in 0..AdBuffer
      /\ {"conf", "ad_1_len", "msg1", "phase", "run"} \subseteq DOMAIN res
  BY <1>1 DEF TypeInv, TypeOK, AgreementInv, PartiesAlign
<1>6. result \in Results
  BY RunResults
<1>7. ResponderKey(msg) # Undefined
  BY KeyDefined DEF ResponderKey
<1>8. Typed(r) /\ ended' = ended \cup {r}
  BY <1>3, <1>4, <1>6, <1>7 DEF Typed, Return
<1>9. CASE result = "undefined"
  <2>1. /\ res'.phase = "stopped" /\ res'.run = res.run /\ res'.conf = res.conf
        /\ res'.ad_1_len = res.ad_1_len /\ DOMAIN res' = DOMAIN res
    BY <1>3, <1>5, <1>9
  <2> QED
    BY <1>1, <1>2, <1>3, <1>5, <1>8, <2>1, ResponderTyped
<1>10. CASE result # "undefined"
  <2>1. PICK out : out = Out(msg, result)
    OBVIOUS
  <2>2. PICK s : s = [res EXCEPT !.out = out]
    OBVIOUS
  <2>3. res' = NextLoop(s)
    BY <1>3, <1>10, <2>1, <2>2
  <2>4. /\ s.phase = res.phase /\ s.run = res.run /\ s.conf = res.conf
        /\ s.ad_1_len = res.ad_1_len /\ DOMAIN s = DOMAIN res
    BY <1>5, <2>2
  <2>5. /\ NextLoop(s).phase \in {"msg1", "stopped"} /\ NextLoop(s).run \in 0..Loops
        /\ NextLoop(s).conf \in ResponderConfs /\ NextLoop(s).ad_1_len \in 0..AdBuffer
        /\ {"conf", "ad_1_len", "msg1"} \subseteq DOMAIN NextLoop(s)
        /\ NextLoop(s).phase # "stopped" => NextLoop(s).run < Loops
    BY <1>1, <1>5, <2>4, NextLoopTyped
  <2> QED
    BY <1>1, <1>2, <1>3, <1>8, <2>3, <2>5, ResponderTyped
<1> QED
  BY <1>9, <1>10

LEMMA ResponderRxFailsTyped ==
    ASSUME TypeInv, AgreementInv, AgreementInv', ResponderRxFails
    PROVE  TypeInv'
<1>1. PICK r : r = Return("R", res.run, "msg3", "rx", res.msg1, res.offer.th2,
                          <<>>, Undefined, res.out)
  OBVIOUS
<1>2. /\ res' = NextLoop(res) /\ ended' = ended \cup {r} /\ res.phase = "msg3"
      /\ ini' = ini /\ toR' \subseteq toR /\ toI' = toI /\ sent' = sent
  BY <1>1 DEF ResponderRxFails
<1>3. Typed(r)
  BY <1>1 DEF Typed, Return, Results
<1>4. res.ad_1_len \in 0..AdBuffer
      /\ {"conf", "ad_1_len", "msg1", "phase", "run"} \subseteq DOMAIN res
  BY DEF TypeInv, TypeOK, AgreementInv, PartiesAlign
<1>5. /\ NextLoop(res).phase \in {"msg1", "stopped"} /\ NextLoop(res).run \in 0..Loops
      /\ NextLoop(res).conf \in ResponderConfs /\ NextLoop(res).ad_1_len \in 0..AdBuffer
      /\ {"conf", "ad_1_len", "msg1"} \subseteq DOMAIN NextLoop(res)
      /\ NextLoop(res).phase # "stopped" => NextLoop(res).run < Loops
  BY <1>2, <1>4, NextLoopTyped
<1>6. PartiesAlign'
  BY DEF AgreementInv
<1> QED
  BY <1>2, <1>3, <1>5, <1>6, ResponderTyped

LEMMA NetworkTyped ==
    ASSUME TypeInv, LoseMessage \/ DamageMessage \/ UNCHANGED vars
    PROVE  TypeInv'
<1>1. UNCHANGED <<ini, res, sent, offered, ended>>
  BY DEF LoseMessage, DamageMessage, vars
<1>2. \A m \in toR' \ toR : \E msg \in toR : m \in Damaged(msg)
  BY DEF LoseMessage, DamageMessage, vars
<1>3. \A m \in toR' : MessageShape(m)
  BY <1>2, DamagedShape DEF TypeInv
<1>4. DamagedInts = {} => toR' \cup toI' \subseteq sent
  BY DEF LoseMessage, DamageMessage, vars, TypeInv, TypeOK
<1> QED
  BY <1>1, <1>3, <1>4 DEF TypeInv, TypeOK, ResponderConfs

\* Both parties keep their bounds, a run returns an EdhocError and a key with
\* EdhocNoError only, and the length of AD_1 stays within its buffer however
\* many runs use it (responder.c 108-116).
THEOREM HandshakeTypes == Spec => []TypeOK
<1>1. TypeInv /\ AgreementInv /\ AgreementInv' /\ [Next]_vars => TypeInv'
  BY StartRunTyped, TakeMessage2Typed, InitiatorRxFailsTyped, TakeMessage1Typed,
     TakeMessage3Typed, ResponderRxFailsTyped, NetworkTyped DEF Next
<1>2. TypeInv => TypeOK
  BY DEF TypeInv
<1> QED
  BY Agreement, TypeInit, <1>1, <1>2, PTL DEF Spec

=============================================================================

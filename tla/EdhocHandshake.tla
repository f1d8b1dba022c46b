---------------------------- MODULE EdhocHandshake ----------------------------
(***************************************************************************)
(* An initiator and a responder that run EDHOC over a datagram network:     *)
(* edhoc_initiator_run and edhoc_responder_run, each cut at the calls of rx *)
(* where it waits.  The initiator application may run the protocol again    *)
(* when a run has returned, with another configuration; the responder       *)
(* application runs it in a loop, with one ephemeral key pair and the same  *)
(* buffers for what the runs return, as samples/edhoc_linux.                *)
(*                                                                         *)
(* Connection identifiers of the responder have one byte, tx never fails,   *)
(* and messages fit their buffers.                                          *)
(***************************************************************************)
EXTENDS EdhocMessages, EdhocKeys

CONSTANTS
    Runs,         \* bound: the initiator runs the protocol at most Runs times
    Loops,        \* bound: so does the responder, at most Loops times
    Methods, Corrs, SuiteLists, Ad1s, Ad3s, IdCredsI,  \* initiator's choices
    IdCredsR, Ad2s, SuitesR,                           \* responder's choices
    KnownToI, KnownToR,  \* the arrays of struct other_party_cred
    c_i, c_r,     \* connection identifiers
    AdBuffer,     \* bytes of the responder's buffer for AD_1
    FreshKeys,    \* does each run of the initiator get a new ephemeral key?
    Lossy,        \* may the network lose messages?
    Duplicating,  \* may it deliver a message more than once?
    DamagedInts,  \* integers that a damaged message may have; {} for no damage
    Impatient     \* may rx fail while a party waits?

ASSUME HandshakeAssumption ==
    /\ Methods \subseteq 0..3 /\ Corrs \subseteq 0..3 /\ DamagedInts \subseteq 0..15
    /\ Runs \in Nat /\ Loops \in Nat \ {0}
    /\ Ad1s \subseteq Nat /\ AdBuffer \in Nat
    /\ c_r.len = 1
    /\ {FreshKeys, Lossy, Duplicating, Impatient} \subseteq BOOLEAN

VARIABLES
    ini,      \* the initiator: its phase, number of runs, the present run
    res,      \* the responder: its configuration, phase, number of runs, the
              \* locals of the present run, and the buffers it returns keys in
    toR,      \* messages in flight to the responder
    toI,      \* messages in flight to the initiator
    sent,     \* history: every message the two parties sent
    offered,  \* history: what the responder offered in messages 2
    ended     \* history: every return of edhoc_initiator_run and _responder_run

vars == <<ini, res, toR, toI, sent, offered, ended>>

Undefined == [undefined |-> TRUE]

Deliver(msgs, m) == IF Duplicating THEN msgs ELSE msgs \ {m}

\* A run returns.  key is what a run that succeeded established, out what the
\* caller finds in prk_4x3m and th4.
Return(by, run, stage, result, msg1, th2, taken, key, out) ==
    [by |-> by, run |-> run, stage |-> stage, result |-> result, msg1 |-> msg1,
     th2 |-> th2, taken |-> taken, key |-> key, out |-> out]

Key(offer, cred_i, prk_4x3m, th4) ==
    [offer |-> offer, cred_i |-> cred_i, prk_4x3m |-> prk_4x3m, th4 |-> th4]

Offer(method, suite, cred_r, th2, ciphertext_2, prk_3e2m) ==
    [method |-> method, suite |-> suite, cred_r |-> cred_r, th2 |-> th2,
     ciphertext_2 |-> ciphertext_2, prk_3e2m |-> prk_3e2m]

\* Bytes that are no plaintext of this run: decoding fails at some item, or
\* ends in a credential nobody has, or in a MAC that does not verify.
GarbledResults ==
    {"ErrorDuringCborDecoding", "CredentialNotFound", "ResponderAuthenticationFailed"}

\* From the plaintext to the authentication of the other party, whose key the
\* receiver combines with its ephemeral key sk.
PeerPrk(static_dh, cred_array, prk, sk, text) ==
    prk_derive(static_dh, prk, FoundCred(cred_array, text.id_cred).pk, sk)

PeerResults(label, static_dh, cred_array, prk, sk, th, text) ==
    LET authentic ==
          Authentic(label, static_dh, PeerPrk(static_dh, cred_array, prk, sk, text),
                    th, text.id_cred, FoundCred(cred_array, text.id_cred),
                    DecodedAd(text.ad), text.sign_or_mac)
    IN  IF ~KidReadable(text.id_cred) THEN GarbledResults
        ELSE {FirstError(<<AdError(text.ad),
                           retrieve_cred(cred_array, text.id_cred),
                           IF authentic THEN "EdhocNoError"
                           ELSE "ResponderAuthenticationFailed">>)}

-----------------------------------------------------------------------------
\* The initiator.

\* Slip: the key pair of the test vectors in every run.
EphemeralXFixed(run) == [owner |-> "x", nr |-> 0]

EphemeralX(run) == [owner |-> "x", nr |-> IF FreshKeys THEN run ELSE 0]

Message1(run, conf) ==
    msg1_encode(conf.method, conf.corr, conf.suites, EphemeralX(run), c_i, conf.ad_1)

StartRun(conf) ==
    /\ ini.phase = "idle"
    /\ ini.run < Runs
    /\ LET run == ini.run + 1
           msg1 == Message1(run, conf)
       IN  IF Supported(conf.suites[1])
           THEN /\ ini' = [phase |-> "msg2", run |-> run, conf |-> conf, msg1 |-> msg1]
                /\ toR' = toR \cup {msg1}
                /\ sent' = sent \cup {msg1}
                /\ UNCHANGED ended
           ELSE /\ ini' = [ini EXCEPT !.run = run]
                /\ ended' = ended \cup
                     {Return("I", run, "msg1", "UnsupportedCipherSuite", msg1, Undefined,
                             <<>>, Undefined, Undefined)}
                /\ UNCHANGED <<toR, sent>>
    /\ UNCHANGED <<res, toI, offered>>

\* What the initiator computes from message 2 before it knows who sent it.
InitiatorTh2(msg) ==
    LET g == GyAt(ini.conf.corr)
    IN  th2_calculate(ini.msg1,
                      IF g = 1 THEN <<>>
                      ELSE <<[len |-> msg[1].len, id |-> msg[1].val[2]]>>,
                      msg[g].val[2], Identifier(msg[g + 1]))

InitiatorPrk2e(msg) ==
    hkdf_extract(<<>>, shared_secret_derive(EphemeralX(ini.run),
                                            msg[GyAt(ini.conf.corr)].val[2]))

Ciphertext2(msg) == msg[GyAt(ini.conf.corr) + 2].val[2]

\* Does the key stream of this run turn the third item into its plaintext?
OpensMessage2(msg) ==
    /\ msg[GyAt(ini.conf.corr) + 2].val[1] = "ciphertext_2"
    /\ OpensWith(InitiatorPrk2e(msg), InitiatorTh2(msg), Ciphertext2(msg))

Message2Results(msg) ==
    LET parsed == msg2_parse(ini.conf.corr, c_i.len, msg)
    IN  IF parsed # "EdhocNoError" THEN {parsed}
        ELSE IF OpensMessage2(msg)
        THEN PeerResults("2", StaticDhR(ini.conf.method), KnownToI,
                         InitiatorPrk2e(msg), EphemeralX(ini.run),
                         InitiatorTh2(msg), Ciphertext2(msg).text)
        ELSE GarbledResults

InitiatorOffer(msg) ==
    Offer(ini.conf.method, ini.conf.suites[1],
          FoundCred(KnownToI, Ciphertext2(msg).text.id_cred),
          InitiatorTh2(msg), Ciphertext2(msg),
          PeerPrk(StaticDhR(ini.conf.method), KnownToI, InitiatorPrk2e(msg),
                  EphemeralX(ini.run), Ciphertext2(msg).text))

InitiatorPrk4x3m(msg) ==
    prk_derive(StaticDhI(ini.conf.method), InitiatorOffer(msg).prk_3e2m,
               msg[GyAt(ini.conf.corr)].val[2], ini.conf.id_cred.of.pk)

InitiatorTh3(msg) ==
    th3_calculate(InitiatorTh2(msg), Ciphertext2(msg),
                  IF CorrHidesCr(ini.conf.corr) THEN <<>>
                  ELSE <<Identifier(msg[GyAt(ini.conf.corr) + 1])>>)

\* AD_3 is part of what is signed; it is not put into the plaintext.
Ciphertext3(msg) ==
    LET id_cred == ini.conf.id_cred
    IN  Ciphertext(InitiatorOffer(msg).prk_3e2m, InitiatorTh3(msg),
                   Plaintext(id_cred,
                             Signature_or_mac("3", StaticDhI(ini.conf.method),
                                              id_cred.of.pk, InitiatorPrk4x3m(msg),
                                              InitiatorTh3(msg), id_cred, id_cred.of,
                                              ini.conf.ad_3),
                             NoAd))

InitiatorKey(msg) ==
    Key(InitiatorOffer(msg), ini.conf.id_cred.of, InitiatorPrk4x3m(msg),
        th4_calculate(InitiatorTh3(msg), Ciphertext3(msg)))

\* What the initiator sends when it has processed message 2.
Reply(msg, result) ==
    CASE result = "EdhocNoError" ->
           {msg3_encode(Identifier(msg[GyAt(ini.conf.corr) + 1]), Ciphertext3(msg))}
      [] result = "ResponderAuthenticationFailed" ->
           {err_msg("INITIATOR", ini.conf.corr,
                    Identifier(msg[GyAt(ini.conf.corr) + 1]), <<>>)}
      [] OTHER -> {}

TakeMessage2(msg) ==
    /\ ini.phase = "msg2"
    /\ msg \in toI
    /\ \E result \in Message2Results(msg) :
          LET ok == result = "EdhocNoError"
          IN  /\ ended' = ended \cup
                   {Return("I", ini.run, "msg2", result, ini.msg1, Undefined, msg,
                           IF ok THEN InitiatorKey(msg) ELSE Undefined, Undefined)}
              /\ toR' = toR \cup Reply(msg, result)
              /\ sent' = sent \cup Reply(msg, result)
    /\ ini' = [ini EXCEPT !.phase = "idle"]
    /\ toI' = Deliver(toI, msg)
    /\ UNCHANGED <<res, offered>>

InitiatorRxFails ==
    /\ Impatient
    /\ ini.phase = "msg2"
    /\ ini' = [ini EXCEPT !.phase = "idle"]
    /\ ended' = ended \cup {Return("I", ini.run, "msg2", "rx", ini.msg1, Undefined,
                                   <<>>, Undefined, Undefined)}
    /\ UNCHANGED <<res, toR, toI, sent, offered>>

-----------------------------------------------------------------------------
\* The responder.

EphemeralY == [owner |-> "y", nr |-> 0]

\* Slip: the assignment is the whole test.
AssignedCorrAlways(corr) == 3

\* The test for a corr that hides C_I is (corr == 1) || (corr = 3): it is
\* always true, and whatever is not 1 becomes 3.
AssignedCorr(corr) == IF corr = 1 THEN 1 ELSE 3

ResponderCorr(msg1) == AssignedCorr(CorrOf(msg1))

\* The C_I part of TH_2 is empty: that test is always true.
ResponderTh2(msg1) == th2_calculate(msg1, <<>>, EphemeralY, c_r)

ResponderPrk2e(msg1) ==
    hkdf_extract(<<>>, shared_secret_derive(EphemeralY, GxOf(msg1)))

ResponderPrk3e2m(msg1) ==
    prk_derive(StaticDhR(MethodOf(msg1)), ResponderPrk2e(msg1), GxOf(msg1),
               res.conf.id_cred.of.pk)

ResponderCiphertext2(msg1) ==
    LET id_cred == res.conf.id_cred
    IN  Ciphertext(ResponderPrk2e(msg1), ResponderTh2(msg1),
                   Plaintext(id_cred,
                             Signature_or_mac("2", StaticDhR(MethodOf(msg1)),
                                              id_cred.of.pk, ResponderPrk3e2m(msg1),
                                              ResponderTh2(msg1), id_cred, id_cred.of,
                                              res.conf.ad_2),
                             res.conf.ad_2))

ResponderOffer(msg1) ==
    Offer(MethodOf(msg1), SelectedSuite(msg1), res.conf.id_cred.of,
          ResponderTh2(msg1), ResponderCiphertext2(msg1), ResponderPrk3e2m(msg1))

\* Why a message 1 is not answered with a message 2.  The error message is
\* made with METHOD_CORR in the place of corr.
Message1Result(msg) ==
    LET parsed == msg1_parse(msg, res.ad_1_len)
    IN  IF parsed # "EdhocNoError" THEN parsed
        ELSE IF ~selected_suite_is_supported(SelectedSuite(msg), res.conf.suites_r)
        THEN "ErrorMessageSent"
        ELSE IF ~Supported(SelectedSuite(msg)) THEN "UnsupportedCipherSuite"
        ELSE "EdhocNoError"

\* The loop of the responder application.
NextLoop(r) ==
    [r EXCEPT !.run = @ + 1, !.phase = IF r.run + 1 < Loops THEN "msg1" ELSE "stopped"]

Answer1(msg, result) ==
    IF result = "EdhocNoError"
    THEN {msg2_encode(ResponderCorr(msg), CiOf(msg), EphemeralY, c_r,
                      ResponderCiphertext2(msg))}
    ELSE IF result = "ErrorMessageSent"
    THEN {err_msg("RESPONDER", msg[1].val[2], CiOf(msg), res.conf.suites_r)}
    ELSE {}

\* A failed msg1_parse may have read AD_1 all the same; it has not: AD_1 is
\* the last item, and a failure to read it leaves its length.
AdLen(msg) ==
    IF msg1_parse(msg, res.ad_1_len) = "EdhocNoError"
    THEN AdLenAfter(msg, res.ad_1_len) ELSE res.ad_1_len

TakeMessage1(msg) ==
    /\ res.phase = "msg1"
    /\ msg \in toR
    /\ LET result == Message1Result(msg)
       IN  /\ IF result = "EdhocNoError"
              THEN /\ res' = [res EXCEPT !.phase = "msg3", !.ad_1_len = AdLen(msg),
                                         !.msg1 = msg, !.offer = ResponderOffer(msg)]
                   /\ offered' = offered \cup {ResponderOffer(msg)}
                   /\ UNCHANGED ended
              ELSE /\ res' = NextLoop([res EXCEPT !.ad_1_len = AdLen(msg)])
                   /\ ended' = ended \cup
                        {Return("R", res.run, "msg1", result, msg, Undefined, msg,
                                Undefined, res.out)}
                   /\ UNCHANGED offered
           /\ toI' = toI \cup Answer1(msg, result)
           /\ sent' = sent \cup Answer1(msg, result)
    /\ toR' = Deliver(toR, msg)
    /\ UNCHANGED ini

\* Slip: DATA_3 is left out.
ResponderTh3NoCr == th3_calculate(res.offer.th2, res.offer.ciphertext_2, <<>>)

\* C_R is part of TH_3 for every corr.
ResponderTh3 == th3_calculate(res.offer.th2, res.offer.ciphertext_2, <<c_r>>)

\* The tag is taken to have this length in every ciphertext.  The default aead
\* (a weak function) always makes one of 8 bytes (crypto_wrapper.c 40, 53), and
\* the default key exchange does nothing for suites 2 and 3 (161-175): an
\* application that lists other suites than 0 brings functions of its own.
mac_len(suite) == IF suite \in {0, 2} THEN 8 ELSE 16

ReceivedCiphertext3(msg) == msg[Ciphertext3At(ResponderCorr(res.msg1))]

OpensMessage3(msg) ==
    /\ ReceivedCiphertext3(msg).val[1] = "ciphertext_3"
    /\ OpensWith(res.offer.prk_3e2m, ResponderTh3, ReceivedCiphertext3(msg).val[2])

\* The length of the plaintext buffer is the length of the ciphertext minus
\* mac_len, unsigned: with a shorter ciphertext the behaviour is undefined.
\* aead may refuse, or the program ends.
Message3Results(msg) ==
    LET parsed == msg3_parse(ResponderCorr(res.msg1), msg)
    IN  IF parsed # "EdhocNoError" THEN {parsed}
        ELSE IF ReceivedCiphertext3(msg).len < mac_len(res.offer.suite)
        THEN {"AEADAuthenticationFailed", "undefined"}
        ELSE IF OpensMessage3(msg)
        THEN PeerResults("3", StaticDhI(res.offer.method), KnownToR, res.offer.prk_3e2m,
                         EphemeralY, ResponderTh3, ReceivedCiphertext3(msg).val[2].text)
        ELSE {"AEADAuthenticationFailed"}

ResponderKey(msg) ==
    LET ciphertext_3 == ReceivedCiphertext3(msg).val[2]
    IN  Key(res.offer, FoundCred(KnownToR, ciphertext_3.text.id_cred),
            PeerPrk(StaticDhI(res.offer.method), KnownToR, res.offer.prk_3e2m,
                    EphemeralY, ciphertext_3.text),
            th4_calculate(ResponderTh3, ciphertext_3))

\* prk_4x3m is written before the initiator is authenticated, th4 after.
Out(msg, result) ==
    CASE result = "EdhocNoError" ->
           [prk_4x3m |-> ResponderKey(msg).prk_4x3m, th4 |-> ResponderKey(msg).th4]
      [] result = "ResponderAuthenticationFailed" ->
           [res.out EXCEPT !.prk_4x3m = ResponderKey(msg).prk_4x3m]
      [] OTHER -> res.out

Answer3(result) ==
    IF result = "ResponderAuthenticationFailed"
    THEN {err_msg("RESPONDER", ResponderCorr(res.msg1), CiOf(res.msg1), <<>>)} ELSE {}

TakeMessage3(msg) ==
    /\ res.phase = "msg3"
    /\ msg \in toR
    /\ \E result \in Message3Results(msg) :
          /\ res' = IF result = "undefined" THEN [res EXCEPT !.phase = "stopped"]
                    ELSE NextLoop([res EXCEPT !.out = Out(msg, result)])
          /\ ended' = ended \cup
               {Return("R", res.run, "msg3", result, res.msg1, res.offer.th2, msg,
                       IF result = "EdhocNoError" THEN ResponderKey(msg) ELSE Undefined,
                       Out(msg, result))}
          /\ toI' = toI \cup Answer3(result)
          /\ sent' = sent \cup Answer3(result)
    /\ toR' = Deliver(toR, msg)
    /\ UNCHANGED <<ini, offered>>

ResponderRxFails ==
    /\ Impatient
    /\ res.phase = "msg3"
    /\ res' = NextLoop(res)
    /\ ended' = ended \cup {Return("R", res.run, "msg3", "rx", res.msg1, res.offer.th2,
                                   <<>>, Undefined, res.out)}
    /\ UNCHANGED <<ini, toR, toI, sent, offered>>

-----------------------------------------------------------------------------
\* The network.

LoseMessage ==
    /\ Lossy
    /\ \/ \E msg \in toR : toR' = toR \ {msg} /\ UNCHANGED toI
       \/ \E msg \in toI : toI' = toI \ {msg} /\ UNCHANGED toR
    /\ UNCHANGED <<ini, res, sent, offered, ended>>

\* What a damaged data item may be read as: another integer, another public
\* key, a plaintext of message 2 with another MAC or signature (it is
\* encrypted by XOR), a ciphertext that no key opens.
DamagedValues(val) ==
    CASE val[1] = "int" -> {<<"int", n>> : n \in DamagedInts \ {val[2]}}
      [] val[1] = "g" -> {<<"g", [owner |-> "damaged", nr |-> 0]>>}
      [] val[1] = "ciphertext_2" ->
           {<<"ciphertext_2", [val[2] EXCEPT !.text.sign_or_mac.label = "damaged"]>>}
      [] val[1] = "ciphertext_3" -> {<<"ciphertext_3", [val[2] EXCEPT !.prk = <<>>]>>}
      [] OTHER -> {}

Damaged(msg) ==
    UNION {{[msg EXCEPT ![k].val = val] : val \in DamagedValues(msg[k].val)} :
              k \in DOMAIN msg}

DamageMessage ==
    /\ DamagedInts # {}
    /\ \/ \E msg \in toR \cap sent : \E bad \in Damaged(msg) :
             toR' = (toR \ {msg}) \cup {bad} /\ UNCHANGED toI
       \/ \E msg \in toI \cap sent : \E bad \in Damaged(msg) :
             toI' = (toI \ {msg}) \cup {bad} /\ UNCHANGED toR
    /\ UNCHANGED <<ini, res, sent, offered, ended>>

-----------------------------------------------------------------------------

InitiatorConfs ==
    [method : Methods, corr : Corrs, suites : SuiteLists, ad_1 : Ad1s, ad_3 : Ad3s,
     id_cred : IdCredsI]

ResponderConfs == [id_cred : IdCredsR, ad_2 : Ad2s, suites_r : SuitesR]

Init ==
    /\ ini = [phase |-> "idle", run |-> 0, conf |-> Undefined, msg1 |-> <<>>]
    /\ \E conf \in ResponderConfs :
          res = [conf |-> conf, phase |-> "msg1", run |-> 0, ad_1_len |-> AdBuffer,
                 msg1 |-> <<>>, offer |-> Undefined,
                 out |-> [prk_4x3m |-> <<>>, th4 |-> Undefined]]
    /\ toR = {} /\ toI = {} /\ sent = {} /\ offered = {} /\ ended = {}

Next ==
    \/ \E conf \in InitiatorConfs : StartRun(conf)
    \/ \E msg \in toI : TakeMessage2(msg)
    \/ InitiatorRxFails
    \/ \E msg \in toR : TakeMessage1(msg)
    \/ \E msg \in toR : TakeMessage3(msg)
    \/ ResponderRxFails
    \/ LoseMessage
    \/ DamageMessage

Spec == Init /\ [][Next]_vars

\* The parties wait in rx for what arrives.
Fairness ==
    /\ WF_vars(\E msg \in toI : TakeMessage2(msg))
    /\ WF_vars(\E msg \in toR : TakeMessage1(msg) \/ TakeMessage3(msg))

FairSpec == Spec /\ Fairness

-----------------------------------------------------------------------------
\* Properties.

Results ==
    {"EdhocNoError", "ErrorMessageReceived", "ErrorMessageSent",
     "UnsupportedCipherSuite", "CredentialNotFound", "ResponderAuthenticationFailed",
     "AEADAuthenticationFailed", "CertificateAuthenticationFailed", "NoSuchCA",
     "UnsupportedCborType", "CborByteStringBufferToSmall", "ErrorDuringCborDecoding",
     "rx", "undefined"}

\* Types: the phases and bounds of the two parties, results that are EdhocError
\* codes, and messages in flight that were sent unless the network damages them.
TypeOK ==
    /\ ini.phase \in {"idle", "msg2"} /\ ini.run \in 0..Runs
    /\ res.phase \in {"msg1", "msg3", "stopped"} /\ res.run \in 0..Loops
    /\ res.conf \in ResponderConfs /\ res.ad_1_len \in 0..AdBuffer
    /\ res.phase = "msg3" => res.offer \in offered
    /\ DamagedInts = {} => toR \cup toI \subseteq sent
    /\ \A e \in ended : /\ e.by \in {"I", "R"} /\ e.stage \in {"msg1", "msg2", "msg3"}
                        /\ e.result \in Results
                        /\ (e.result = "EdhocNoError") <=> (e.key # Undefined)

Completed(by) == {e \in ended : e.by = by /\ e.result = "EdhocNoError"}

\* Whatever the network does to messages, an initiator that returns
\* EdhocNoError agrees with the responder on method, suite, both transcripts
\* and PRK_3e2m: verifying message 2 (initiator.c 339-399) is enough.
InitiatorAgreement == \A e \in Completed("I") : e.key.offer \in offered

\* A responder that returns EdhocNoError has method, suite, credentials,
\* prk_4x3m and th4 of a run in which the initiator did so too: the exporter
\* gives both the same OSCORE master secret (responder.c 507-581).
ResponderAgreement ==
    \A e \in Completed("R") : \E f \in Completed("I") : f.key = e.key

\* Why the two agree, as an inductive invariant.  What the responder offered is
\* determined by CIPHERTEXT_2, and the key of a run that the initiator completed
\* by CIPHERTEXT_3: transcript, MAC and the place of message 1 fix the rest
\* (th.c 31-164, signature_or_mac_msg.c 38-159).
Offered(c2) ==
    Offer(MethodOf(c2.th.msg1), SelectedSuite(c2.th.msg1), c2.text.sign_or_mac.cred,
          c2.th, c2, c2.text.sign_or_mac.prk)

WellOffered(o) ==
    LET c2 == o.ciphertext_2
    IN  /\ o = Offered(c2)
        /\ o.th2.msg1[2].type # "array"
        /\ o.prk_3e2m # <<>>
        /\ {"prk", "th", "text"} \subseteq DOMAIN c2
        /\ "sign_or_mac" \in DOMAIN c2.text
        /\ "label" \in DOMAIN c2.text.sign_or_mac
        /\ c2.text.sign_or_mac.label = "2"

WellConfirmed(key) ==
    LET c3 == key.th4.ciphertext_3
    IN  /\ key.offer \in offered
        /\ key = Key(key.offer, c3.text.sign_or_mac.cred, c3.text.sign_or_mac.prk,
                     th4_calculate(c3.th, c3))
        /\ c3.th.ciphertext_2 = key.offer.ciphertext_2
        /\ {"prk", "th", "text"} \subseteq DOMAIN c3

\* A ciphertext that a party sent names what that party holds; one that the
\* network damaged authenticates nothing.
GenuineItem(item) ==
    /\ "val" \in DOMAIN item
    /\ item.val[1] = "ciphertext_2" => \E o \in offered : o.ciphertext_2 = item.val[2]
    /\ item.val[1] = "ciphertext_3" =>
          \E e \in Completed("I") : e.key.th4.ciphertext_3 = item.val[2]

SpoiltItem(item) ==
    /\ item.val[1] = "ciphertext_2" => item.val[2].text.sign_or_mac.label = "damaged"
    /\ item.val[1] = "ciphertext_3" => item.val[2].prk = <<>>

PartiesAlign ==
    /\ {"phase", "run", "conf", "msg1"} \subseteq DOMAIN ini
    /\ {"phase", "run", "offer"} \subseteq DOMAIN res
    /\ ini.phase = "msg2" =>
          ini.conf \in InitiatorConfs /\ ini.msg1 = Message1(ini.run, ini.conf)
    /\ res.phase = "msg3" => res.offer \in offered

AgreementInv ==
    /\ PartiesAlign
    /\ \A o \in offered : WellOffered(o)
    /\ \A e \in Completed("I") : WellConfirmed(e.key)
    /\ \A msg \in sent : \A k \in DOMAIN msg : GenuineItem(msg[k])
    /\ \A msg \in toR \cup toI : \A k \in DOMAIN msg :
          GenuineItem(msg[k]) \/ SpoiltItem(msg[k])
    /\ ResponderAgreement

\* Unless messages are delivered twice, one run of the initiator completes one
\* run of the responder, though all runs of the responder's loop have the same
\* ephemeral key and connection identifier (samples, main.cpp 231-238).
CompletedOnce ==
    \A e, f \in Completed("R") : e.key = f.key => e.run = f.run

\* Runs of the initiator with fresh ephemeral keys give different prk_4x3m,
\* whatever of earlier runs is still in flight; that the OSCORE contexts made
\* from them start with sequence number 0 is then harmless.
KeysDiffer ==
    FreshKeys => \A e, f \in Completed("I") :
                    e.key.prk_4x3m = f.key.prk_4x3m => e.run = f.run

Carries(msg, tag) ==
    {msg[k].val[2] : k \in {j \in DOMAIN msg : msg[j].val[1] = tag}}

IsMessage1(msg) == Carries(msg, "g") # {} /\ Carries(msg, "ciphertext_2") = {}

FirstSuite(msg1) ==
    IF msg1[2].type = "array" THEN msg1[2].val[2][1] ELSE msg1[2].val[2]

\* What the responder took for message 1 in its runs so far: TH_2 of an offer
\* has the message it answers.
TakenMessages1 ==
    {o.th2.msg1 : o \in offered}
    \cup {e.taken : e \in {f \in ended : f.by = "R" /\ f.stage = "msg1"}}

ReceivedAdLens == {m[5].len : m \in {n \in TakenMessages1 : ~(Len(n) < 5)}}

\* A responder that waits for message 1 refuses one for its first suite or
\* its AD_1 only, and an AD_1 only when it is longer than the caller's buffer
\* or than an AD_1 received before: the length read replaces the capacity
\* (responder.c 109, cbor_decoder.c 51), and the responder application does
\* not restore it for the next run of its loop.
GenuineMessage1Accepted ==
    \A e \in ended :
       (/\ e.by = "R" /\ e.stage = "msg1"
        /\ e.taken \in sent /\ IsMessage1(e.taken))
       => \/ ~selected_suite_is_supported(FirstSuite(e.taken), res.conf.suites_r)
          \/ /\ Len(e.taken) = 5
             /\ \E n \in {AdBuffer} \cup ReceivedAdLens : e.taken[5].len > n

\* An initiator that knows the responder's credential accepts every message 2
\* made in answer to its message 1, undamaged, whatever else arrived before
\* (initiator.c 267-384 undoes what responder.c 305-416 does).
GenuineMessage2Accepted ==
    \A e \in ended :
       (/\ e.by = "I" /\ e.taken \in sent
        /\ \E c \in Carries(e.taken, "ciphertext_2") : c.th.msg1 = e.msg1
        /\ retrieve_cred(KnownToI, res.conf.id_cred)
              \notin {"CredentialNotFound", "CertificateAuthenticationFailed"})
       => e.result = "EdhocNoError"

\* A responder that knows the initiator's credential accepts every message 3
\* made in answer to its message 2, undamaged (responder.c 425-581 undoes what
\* initiator.c 386-567 does).
GenuineMessage3Accepted ==
    \A e \in ended :
       (/\ e.by = "R" /\ e.stage = "msg3" /\ e.taken \in sent
        /\ \E c \in Carries(e.taken, "ciphertext_3") :
              /\ c.th.th2 = e.th2
              /\ retrieve_cred(KnownToR, c.text.id_cred)
                    \notin {"CredentialNotFound", "CertificateAuthenticationFailed"})
       => e.result = "EdhocNoError"

\* Without loss, damage and failures of rx, a run that the initiator starts ends
\* with both parties holding the same key.
HandshakeCompletes ==
    \A n \in 1..Runs :
       (ini.phase = "msg2" /\ ini.run = n)
       ~> \E e \in Completed("I"), f \in Completed("R") : e.run = n /\ f.key = e.key

\* The abstract key exchange that the two parties implement.
Abstract ==
    INSTANCE KeyEstablishment WITH
       NewKeys    <- FreshKeys,
       AtMostOnce <- ~Duplicating,
       offers     <- offered,
       confirmed  <- {e.key : e \in Completed("I")},
       completed  <- {<<e.run, e.key>> : e \in Completed("R")}

\* Both parties together implement authenticated key establishment: an offer of
\* the responder, confirmed by the initiator, completed by the responder.
ImplementsKeyEstablishment == Abstract!Spec

-----------------------------------------------------------------------------
\* What comments and the interface say and the code does not do.

\* initiator.c:71: in message 2 "C_I (the connection identifier of the
\* initiator) is present" for corr 0 and 2.
Message2HasCi ==
    \A msg1, msg2 \in sent :
       \A c \in Carries(msg2, "ciphertext_2") :
          c.th.msg1 = msg1 /\ ~CorrHidesCi(CorrOf(msg1)) => Len(msg2) = 4

=============================================================================

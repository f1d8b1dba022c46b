----------------------------- MODULE EdhocKeyProofs -----------------------------
(***************************************************************************)
(* Keys of different runs differ, a key is completed once, and              *)
(* EdhocHandshake implements KeyEstablishment.                              *)
(*                                                                         *)
(* The first secret of a key names the run of the initiator it belongs to;  *)
(* a CIPHERTEXT_3 determines the key; and without duplication a             *)
(* CIPHERTEXT_3 is in one message in flight until the responder takes it.   *)
(***************************************************************************)
EXTENDS EdhocProofs

-----------------------------------------------------------------------------
\* What a step of the system is, for keys and offers.

Ciphertext3s(msg) == Carries(msg, "ciphertext_3")

\* The initiator accepts message 2 (initiator.c 399-567).
InitiatorSucceeds(msg, r) ==
    /\ msg \in toI /\ ini.phase = "msg2" /\ "EdhocNoError" \in Message2Results(msg)
    /\ r.run = ini.run /\ r.key = InitiatorKey(msg)
    /\ Completed("I")' = Completed("I") \cup {r} /\ Completed("R")' = Completed("R")
    /\ ini' = [ini EXCEPT !.phase = "idle"]
    /\ \E c : toR' = toR \cup {msg3_encode(c, Ciphertext3(msg))}
    /\ UNCHANGED <<res, offered>>

\* The responder accepts message 3 (responder.c 528-581).
ResponderSucceeds(msg, r) ==
    /\ msg \in toR /\ res.phase = "msg3" /\ "EdhocNoError" \in Message3Results(msg)
    /\ r.run = res.run /\ r.key = ResponderKey(msg)
    /\ Completed("R")' = Completed("R") \cup {r} /\ Completed("I")' = Completed("I")
    /\ res'.run = res.run + 1
    /\ toR' = Deliver(toR, msg)
    /\ UNCHANGED <<ini, offered>>

\* The responder answers message 1 with an offer (responder.c 305-416).
ResponderMakesOffer(msg) ==
    /\ Message1Result(msg) = "EdhocNoError"
    /\ offered' = offered \cup {ResponderOffer(msg)}
    /\ Completed("I")' = Completed("I") /\ Completed("R")' = Completed("R")
    /\ res'.run = res.run
    /\ toR' \subseteq toR
    /\ ini' = ini

\* Every other step: a run may begin or end without success, and what is new
\* in the network brings no CIPHERTEXT_3 but those of the message it replaces
\* and spoilt ones.
NothingEstablished ==
    /\ Completed("I")' = Completed("I") /\ Completed("R")' = Completed("R")
    /\ offered' = offered
    /\ res'.run \in {res.run, res.run + 1}
    /\ \/ ini' = ini
       \/ ini'.phase = "idle" /\ ini'.run = ini.run
       \/ ini'.run = ini.run + 1
    /\ \A m, n \in toR' \ toR : m = n
    /\ \A m \in toR' \ toR : \A c \in Ciphertext3s(m) :
          c.prk = <<>> \/ \E n \in toR \ toR' : c \in Ciphertext3s(n)

\* A return that is no success completes nothing, and nothing is taken back.
LEMMA SameCompleted ==
    ASSUME NEW r, ended' = ended \cup {r}, r.result # "EdhocNoError", NEW by
    PROVE  Completed(by)' = Completed(by)
BY DEF Completed

\* Messages without a ciphertext carry none.
LEMMA PlainCarriesNone ==
    ASSUME NEW msg, \A k \in DOMAIN msg : PlainItem(msg[k])
    PROVE  Ciphertext3s(msg) = {}
BY DEF PlainItem, Ciphertext3s, Carries

\* Message 3 carries its ciphertext and no other (initiator.c 532-554).
LEMMA Message3Carries ==
    ASSUME NEW c, NEW c3
    PROVE  Ciphertext3s(msg3_encode(c, c3)) = {c3}
<1> DEFINE m == msg3_encode(c, c3)
<1>1. \A k \in DOMAIN m : \/ PlainItem(m[k])
                          \/ "val" \in DOMAIN m[k] /\ m[k].val = <<"ciphertext_3", c3>>
  BY Message3Items
<1>2. 2 \in DOMAIN m /\ m[2].val = <<"ciphertext_3", c3>>
  BY DEF msg3_encode, CborBstr, Item
<1> HIDE DEF m
<1>3. \A x \in Ciphertext3s(m) : x = c3
  BY <1>1 DEF Ciphertext3s, Carries, PlainItem
<1>4. c3 \in Ciphertext3s(m)
  BY <1>2 DEF Ciphertext3s, Carries
<1> QED
  BY <1>3, <1>4 DEF m

\* A damaged message carries no CIPHERTEXT_3 but spoilt ones and those of the
\* message it was.
LEMMA DamageCarries ==
    ASSUME AgreementInv, NEW msg \in sent, NEW bad \in Damaged(msg),
           NEW c \in Ciphertext3s(bad)
    PROVE  c.prk = <<>> \/ c \in Ciphertext3s(msg)
<1>1. PICK j \in DOMAIN msg : \E val \in DamagedValues(msg[j].val) :
                                 bad = [msg EXCEPT ![j].val = val]
  BY DEF Damaged
<1>2. PICK val \in DamagedValues(msg[j].val) : bad = [msg EXCEPT ![j].val = val]
  BY <1>1
<1>3. PICK k \in DOMAIN bad : bad[k].val[1] = "ciphertext_3" /\ c = bad[k].val[2]
  BY DEF Ciphertext3s, Carries
<1>4. CASE k # j
  <2>1. k \in DOMAIN msg /\ bad[k] = msg[k]
    BY <1>2, <1>4
  <2> QED
    BY <1>3, <2>1 DEF Ciphertext3s, Carries
<1>5. CASE k = j
  <2>1. GenuineItem(msg[j])
    BY DEF AgreementInv
  <2>2. bad[j].val = val /\ val[1] = "ciphertext_3"
    BY <1>2, <1>3, <1>5, <2>1 DEF GenuineItem
  <2>3. msg[j].val[1] = "ciphertext_3"
    <3> DEFINE tag == msg[j].val[1]
    <3>1. CASE tag \in {"int", "g", "ciphertext_2"}
      <4>1. val[1] = tag
        BY <1>2, <3>1 DEF DamagedValues
      <4> QED
        BY <2>2, <3>1, <4>1
    <3>2. CASE tag \notin {"int", "g", "ciphertext_2", "ciphertext_3"}
      BY <1>2, <3>2 DEF DamagedValues
    <3> QED
      BY <3>1, <3>2
  <2> DEFINE old == msg[j].val[2]
  <2>4. val = <<"ciphertext_3", [old EXCEPT !.prk = <<>>]>>
    BY <1>2, <2>3 DEF DamagedValues
  <2>5. PICK e \in Completed("I") : e.key.th4.ciphertext_3 = old
    BY <2>1, <2>3 DEF GenuineItem
  <2>6. WellConfirmed(e.key)
    BY DEF AgreementInv
  <2>7. [old EXCEPT !.prk = <<>>].prk = <<>>
    BY <2>5, <2>6 DEF WellConfirmed
  <2>8. c = [old EXCEPT !.prk = <<>>]
    <3>1. c = val[2]
      BY <1>3, <1>5, <2>2
    <3> HIDE DEF old
    <3> QED
      BY <2>4, <3>1
  <2> QED
    BY <2>7, <2>8
<1> QED
  BY <1>4, <1>5

\* The initiator's steps.
LEMMA StartRunEstablishes ==
    ASSUME AgreementInv, NEW conf \in InitiatorConfs, StartRun(conf)
    PROVE  NothingEstablished
<1> DEFINE run == ini.run + 1
           msg1 == Message1(run, conf)
<1>1. offered' = offered /\ res' = res
  BY DEF StartRun
<1>2. CASE Supported(conf.suites[1])
  <2>1. /\ ini' = [phase |-> "msg2", run |-> run, conf |-> conf, msg1 |-> msg1]
        /\ toR' = toR \cup {msg1} /\ ended' = ended
    BY <1>2 DEF StartRun
  <2>2. Completed("I")' = Completed("I") /\ Completed("R")' = Completed("R")
    BY <2>1 DEF Completed
  <2>3. Ciphertext3s(msg1) = {}
    BY Message1Plain, PlainCarriesNone DEF Message1
  <2> QED
    BY <1>1, <2>1, <2>2, <2>3 DEF NothingEstablished
<1>3. CASE ~Supported(conf.suites[1])
  <2>1. PICK r : r = Return("I", run, "msg1", "UnsupportedCipherSuite", msg1, Undefined,
                            <<>>, Undefined, Undefined)
    OBVIOUS
  <2>2. ini' = [ini EXCEPT !.run = run] /\ ended' = ended \cup {r} /\ toR' = toR
    BY <1>3, <2>1 DEF StartRun
  <2>3. r.result # "EdhocNoError"
    BY <2>1 DEF Return
  <2>4. Completed("I")' = Completed("I") /\ Completed("R")' = Completed("R")
    BY <2>2, <2>3, SameCompleted
  <2>5. ini'.run = ini.run + 1
    BY <2>2 DEF AgreementInv, PartiesAlign
  <2> QED
    BY <1>1, <2>2, <2>4, <2>5 DEF NothingEstablished
<1> QED
  BY <1>2, <1>3

LEMMA TakeMessage2Establishes ==
    ASSUME AgreementInv, NEW msg \in toI, TakeMessage2(msg)
    PROVE  NothingEstablished \/ \E r : InitiatorSucceeds(msg, r)
<1>1. /\ ini.phase = "msg2" /\ ini' = [ini EXCEPT !.phase = "idle"]
      /\ res' = res /\ offered' = offered
  BY DEF TakeMessage2
<1>2. PICK result \in Message2Results(msg) :
         /\ ended' = ended \cup
              {Return("I", ini.run, "msg2", result, ini.msg1, Undefined, msg,
                      IF result = "EdhocNoError" THEN InitiatorKey(msg) ELSE Undefined,
                      Undefined)}
         /\ toR' = toR \cup Reply(msg, result)
  BY DEF TakeMessage2
<1>3. PICK r : r = Return("I", ini.run, "msg2", result, ini.msg1, Undefined, msg,
                          IF result = "EdhocNoError" THEN InitiatorKey(msg)
                          ELSE Undefined, Undefined)
  OBVIOUS
<1>4. ended' = ended \cup {r} /\ r.by = "I" /\ r.run = ini.run /\ r.result = result
  BY <1>2, <1>3 DEF Return
<1>5. CASE result = "EdhocNoError"
  <2>1. r.key = InitiatorKey(msg)
    BY <1>3, <1>5 DEF Return
  <2>2. Completed("I")' = Completed("I") \cup {r} /\ Completed("R")' = Completed("R")
    BY <1>4, <1>5 DEF Completed
  <2>3. \E c : toR' = toR \cup {msg3_encode(c, Ciphertext3(msg))}
    BY <1>2, <1>5 DEF Reply
  <2> QED
    BY <1>1, <1>2, <1>4, <1>5, <2>1, <2>2, <2>3 DEF InitiatorSucceeds
<1>6. CASE result # "EdhocNoError"
  <2>1. Completed("I")' = Completed("I") /\ Completed("R")' = Completed("R")
    BY <1>4, <1>6, SameCompleted
  <2>2. ini'.phase = "idle" /\ ini'.run = ini.run
    BY <1>1 DEF AgreementInv, PartiesAlign
  <2>3. \A m \in Reply(msg, result) : Ciphertext3s(m) = {}
    BY <1>6, ErrorMessagePlain, PlainCarriesNone DEF Reply
  <2>4. \A m, n \in Reply(msg, result) : m = n
    BY <1>6 DEF Reply
  <2> QED
    BY <1>1, <1>2, <2>1, <2>2, <2>3, <2>4 DEF NothingEstablished
<1> QED
  BY <1>5, <1>6

LEMMA InitiatorRxFailsEstablishes ==
    ASSUME AgreementInv, InitiatorRxFails
    PROVE  NothingEstablished
<1>1. PICK r : r = Return("I", ini.run, "msg2", "rx", ini.msg1, Undefined,
                          <<>>, Undefined, Undefined)
  OBVIOUS
<1>2. /\ ini' = [ini EXCEPT !.phase = "idle"] /\ ended' = ended \cup {r}
      /\ UNCHANGED <<res, toR, offered>>
  BY <1>1 DEF InitiatorRxFails
<1>3. r.result # "EdhocNoError"
  BY <1>1 DEF Return
<1>4. Completed("I")' = Completed("I") /\ Completed("R")' = Completed("R")
  BY <1>2, <1>3, SameCompleted
<1>5. ini'.phase = "idle" /\ ini'.run = ini.run
  BY <1>2 DEF AgreementInv, PartiesAlign
<1> QED
  BY <1>2, <1>4, <1>5 DEF NothingEstablished

\* The responder's steps.
LEMMA TakeMessage1Establishes ==
    ASSUME AgreementInv, NEW msg \in toR, TakeMessage1(msg)
    PROVE  NothingEstablished \/ ResponderMakesOffer(msg)
<1> DEFINE result == Message1Result(msg)
<1>1. toR' \subseteq toR /\ ini' = ini
  BY DEF TakeMessage1, Deliver
<1>2. CASE result = "EdhocNoError"
  <2>1. PICK o : o = ResponderOffer(msg)
    OBVIOUS
  <2>2. /\ res' = [res EXCEPT !.phase = "msg3", !.ad_1_len = AdLen(msg),
                              !.msg1 = msg, !.offer = o]
        /\ offered' = offered \cup {o} /\ ended' = ended
    BY <1>2, <2>1 DEF TakeMessage1
  <2>3. res'.run = res.run
    BY <2>2 DEF AgreementInv, PartiesAlign
  <2>4. Completed("I")' = Completed("I") /\ Completed("R")' = Completed("R")
    BY <2>2 DEF Completed
  <2> QED
    BY <1>1, <1>2, <2>1, <2>2, <2>3, <2>4 DEF ResponderMakesOffer
<1>3. CASE result # "EdhocNoError"
  <2>1. PICK r : r = Return("R", res.run, "msg1", result, msg, Undefined, msg,
                            Undefined, res.out)
    OBVIOUS
  <2>2. /\ res' = NextLoop([res EXCEPT !.ad_1_len = AdLen(msg)])
        /\ ended' = ended \cup {r} /\ offered' = offered
    BY <1>3, <2>1 DEF TakeMessage1
  <2>3. r.result # "EdhocNoError"
    BY <1>3, <2>1 DEF Return
  <2>4. Completed("I")' = Completed("I") /\ Completed("R")' = Completed("R")
    BY <2>2, <2>3, SameCompleted
  <2>5. res'.run = res.run + 1
    BY <2>2 DEF NextLoop, AgreementInv, PartiesAlign
  <2> QED
    BY <1>1, <2>2, <2>4, <2>5 DEF NothingEstablished
<1> QED
  BY <1>2, <1>3

LEMMA TakeMessage3Establishes ==
    ASSUME AgreementInv, NEW msg \in toR, TakeMessage3(msg)
    PROVE  NothingEstablished \/ \E r : ResponderSucceeds(msg, r)
<1>1. /\ res.phase = "msg3" /\ toR' = Deliver(toR, msg) /\ toR' \subseteq toR
      /\ ini' = ini /\ offered' = offered
  BY DEF TakeMessage3, Deliver
<1>2. PICK result \in Message3Results(msg) :
         /\ res' = IF result = "undefined" THEN [res EXCEPT !.phase = "stopped"]
                   ELSE NextLoop([res EXCEPT !.out = Out(msg, result)])
         /\ ended' = ended \cup
              {Return("R", res.run, "msg3", result, res.msg1, res.offer.th2, msg,
                      IF result = "EdhocNoError" THEN ResponderKey(msg) ELSE Undefined,
                      Out(msg, result))}
  BY DEF TakeMessage3
<1>3. PICK r : r = Return("R", res.run, "msg3", result, res.msg1, res.offer.th2, msg,
                          IF result = "EdhocNoError" THEN ResponderKey(msg)
                          ELSE Undefined, Out(msg, result))
  OBVIOUS
<1>4. ended' = ended \cup {r} /\ r.by = "R" /\ r.run = res.run /\ r.result = result
  BY <1>2, <1>3 DEF Return
<1>5. res'.run \in {res.run, res.run + 1} /\ (result # "undefined" => res'.run = res.run + 1)
  BY <1>2 DEF NextLoop, AgreementInv, PartiesAlign
<1>6. CASE result = "EdhocNoError"
  <2>1. r.key = ResponderKey(msg)
    BY <1>3, <1>6 DEF Return
  <2>2. Completed("R")' = Completed("R") \cup {r} /\ Completed("I")' = Completed("I")
    BY <1>4, <1>6 DEF Completed
  <2> QED
    BY <1>1, <1>2, <1>4, <1>5, <1>6, <2>1, <2>2 DEF ResponderSucceeds
<1>7. CASE result # "EdhocNoError"
  <2>1. Completed("I")' = Completed("I") /\ Completed("R")' = Completed("R")
    BY <1>4, <1>7, SameCompleted
  <2> QED
    BY <1>1, <1>5, <2>1 DEF NothingEstablished
<1> QED
  BY <1>6, <1>7

LEMMA ResponderRxFailsEstablishes ==
    ASSUME AgreementInv, ResponderRxFails
    PROVE  NothingEstablished
<1>1. PICK r : r = Return("R", res.run, "msg3", "rx", res.msg1, res.offer.th2,
                          <<>>, Undefined, res.out)
  OBVIOUS
<1>2. /\ res' = NextLoop(res) /\ ended' = ended \cup {r}
      /\ UNCHANGED <<ini, toR, offered>>
  BY <1>1 DEF ResponderRxFails
<1>3. r.result # "EdhocNoError"
  BY <1>1 DEF Return
<1>4. Completed("I")' = Completed("I") /\ Completed("R")' = Completed("R")
  BY <1>2, <1>3, SameCompleted
<1>5. res'.run = res.run + 1
  BY <1>2 DEF NextLoop, AgreementInv, PartiesAlign
<1> QED
  BY <1>2, <1>4, <1>5 DEF NothingEstablished

\* The network's steps, and steps of nobody.
LEMMA NetworkEstablishes ==
    ASSUME AgreementInv, LoseMessage \/ DamageMessage \/ UNCHANGED vars
    PROVE  NothingEstablished
<1>1. UNCHANGED <<ini, res, offered, ended>>
  BY DEF LoseMessage, DamageMessage, vars
<1>2. Completed("I")' = Completed("I") /\ Completed("R")' = Completed("R")
  BY <1>1 DEF Completed
<1>3. CASE toR' \subseteq toR
  BY <1>1, <1>2, <1>3 DEF NothingEstablished
<1>4. CASE ~(toR' \subseteq toR)
  <2>1. DamageMessage
    BY <1>4 DEF LoseMessage, vars
  <2>2. PICK msg \in toR \cap sent : \E bad \in Damaged(msg) :
                                        toR' = (toR \ {msg}) \cup {bad}
    BY <1>4, <2>1 DEF DamageMessage
  <2>3. PICK bad \in Damaged(msg) : toR' = (toR \ {msg}) \cup {bad}
    BY <2>2
  <2>4. toR' \ toR = {bad} /\ msg \in toR \ toR'
    BY <1>4, <2>2, <2>3
  <2>5. \A c \in Ciphertext3s(bad) : c.prk = <<>> \/ c \in Ciphertext3s(msg)
    BY <2>2, DamageCarries
  <2> QED
    BY <1>1, <1>2, <2>4, <2>5 DEF NothingEstablished
<1> QED
  BY <1>3, <1>4

\* A step is one of four.
LEMMA Establishes ==
    ASSUME AgreementInv, [Next]_vars
    PROVE  \/ \E msg, r : InitiatorSucceeds(msg, r)
           \/ \E msg, r : ResponderSucceeds(msg, r)
           \/ \E msg : ResponderMakesOffer(msg)
           \/ NothingEstablished
BY StartRunEstablishes, TakeMessage2Establishes, InitiatorRxFailsEstablishes,
   TakeMessage1Establishes, TakeMessage3Establishes, ResponderRxFailsEstablishes,
   NetworkEstablishes DEF Next

-----------------------------------------------------------------------------
\* Keys of different runs.

\* Each party counts its runs and completes in the present one.
RunsOrdered ==
    /\ ini.run \in Nat /\ res.run \in Nat
    /\ \A e \in Completed("I") :
          /\ e.run \in Nat /\ e.run <= ini.run
          /\ ini.phase = "msg2" => e.run < ini.run
    /\ \A e \in Completed("R") : e.run \in Nat /\ e.run < res.run

\* An offer was made with the responder's ephemeral key, so the first secret
\* of a key is the one of its run (initiator.c 280-294, responder.c 328-341).
KeysNamed ==
    /\ \A o \in offered : o.th2.g_y = EphemeralY
    /\ \A e \in Completed("I") :
          /\ e.key.prk_4x3m[1] = {EphemeralX(e.run), EphemeralY}
          /\ e.key.th4.ciphertext_3.prk # <<>>

\* Extracting again, or not, leaves the first secret.
LEMMA FirstSecret ==
    ASSUME NEW static_r, NEW static_i, NEW secret, NEW pk, NEW sk, NEW pk2, NEW sk2
    PROVE  prk_derive(static_i,
                      prk_derive(static_r, hkdf_extract(<<>>, secret), pk, sk),
                      pk2, sk2)[1] = secret
<1> DEFINE t == shared_secret_derive(sk, pk)
           u == shared_secret_derive(sk2, pk2)
           S == {secret, t, u}
           Starts(q) == q \in Seq(S) /\ Len(q) # 0 /\ q[1] = secret
<1>1. secret \in S /\ t \in S /\ u \in S
  OBVIOUS
<1> HIDE DEF t, u, S
<1>2. Starts(Append(<<>>, secret))
  BY <1>1
<1>3. \A e \in S : \A q : Starts(q) => Starts(Append(q, e))
  <2>1. SUFFICES ASSUME NEW e \in S, NEW q, Starts(q)  PROVE Starts(Append(q, e))
    OBVIOUS
  <2>2. /\ Append(q, e) \in Seq(S) /\ Len(Append(q, e)) = Len(q) + 1
        /\ \A j \in 1..Len(q) : Append(q, e)[j] = q[j]
    BY <2>1, AppendProperties
  <2>3. Len(q) \in Nat /\ 1 \in 1..Len(q)
    BY <2>1, LenProperties
  <2> QED
    BY <2>1, <2>2, <2>3
<1> HIDE DEF Starts
<1> DEFINE p == Append(<<>>, secret)
           a == prk_derive(static_r, p, pk, sk)
           b == prk_derive(static_i, a, pk2, sk2)
<1>4. a \in {p, Append(p, t)} /\ b \in {a, Append(a, u)}
  BY DEF prk_derive, hkdf_extract, t, u
<1> HIDE DEF p, a, b
<1>5. Starts(p)
  BY <1>2 DEF p
<1>6. Starts(a)
  BY <1>1, <1>3, <1>4, <1>5
<1>7. Starts(b)
  BY <1>1, <1>3, <1>4, <1>6
<1> QED
  BY <1>7 DEF Starts, b, a, p, hkdf_extract

\* The key of an initiator that accepts message 2 names its run.
LEMMA ConfirmedKeyNamed ==
    ASSUME AgreementInv, \A o \in offered : o.th2.g_y = EphemeralY,
           ini.phase = "msg2", NEW msg \in toI, "EdhocNoError" \in Message2Results(msg)
    PROVE  /\ InitiatorKey(msg).prk_4x3m[1] = {EphemeralX(ini.run), EphemeralY}
           /\ Ciphertext3(msg).prk # <<>>
<1> DEFINE g == GyAt(ini.conf.corr)
<1>1. InitiatorOffer(msg) \in offered
  BY AcceptedMessage2
<1>2. InitiatorOffer(msg).th2 = InitiatorTh2(msg)
  BY DEF InitiatorOffer, Offer
<1>3. InitiatorTh2(msg).g_y = msg[g].val[2]
  BY DEF InitiatorTh2, th2_calculate
<1>4. msg[g].val[2] = EphemeralY
  BY <1>1, <1>2, <1>3
<1>5. InitiatorPrk2e(msg) = hkdf_extract(<<>>, {EphemeralX(ini.run), EphemeralY})
  BY <1>4 DEF InitiatorPrk2e, shared_secret_derive
<1>6. InitiatorOffer(msg).prk_3e2m =
         prk_derive(StaticDhR(ini.conf.method), InitiatorPrk2e(msg),
                    FoundCred(KnownToI, Ciphertext2(msg).text.id_cred).pk,
                    EphemeralX(ini.run))
  BY DEF InitiatorOffer, Offer, PeerPrk
<1>7. InitiatorPrk4x3m(msg)[1] = {EphemeralX(ini.run), EphemeralY}
  BY <1>5, <1>6, FirstSecret DEF InitiatorPrk4x3m
<1>8. InitiatorKey(msg).prk_4x3m = InitiatorPrk4x3m(msg)
  BY DEF InitiatorKey, Key
<1>9. InitiatorOffer(msg).prk_3e2m # <<>>
  BY <1>1 DEF AgreementInv, WellOffered
<1>10. Ciphertext3(msg).prk = InitiatorOffer(msg).prk_3e2m
  BY DEF Ciphertext3, Ciphertext
<1> QED
  BY <1>7, <1>8, <1>9, <1>10

LEMMA KeysNamedStep ==
    ASSUME AgreementInv, RunsOrdered, KeysNamed, [Next]_vars
    PROVE  RunsOrdered' /\ KeysNamed'
<1>1. CASE \E msg, r : InitiatorSucceeds(msg, r)
  <2>1. PICK msg, r : InitiatorSucceeds(msg, r)
    BY <1>1
  <2>2. /\ InitiatorKey(msg).prk_4x3m[1] = {EphemeralX(ini.run), EphemeralY}
        /\ Ciphertext3(msg).prk # <<>>
        /\ InitiatorKey(msg).th4.ciphertext_3 = Ciphertext3(msg)
    BY <2>1, ConfirmedKeyNamed, ConfirmedKey DEF InitiatorSucceeds, KeysNamed
  <2>3. ini'.run = ini.run /\ ini'.phase = "idle"
    BY <2>1 DEF InitiatorSucceeds, AgreementInv, PartiesAlign
  <2>4. RunsOrdered'
    BY <2>1, <2>3 DEF RunsOrdered, InitiatorSucceeds
  <2>5. KeysNamed'
    BY <2>1, <2>2 DEF KeysNamed, InitiatorSucceeds
  <2> QED
    BY <2>4, <2>5
<1>2. CASE \E msg, r : ResponderSucceeds(msg, r)
  BY <1>2 DEF ResponderSucceeds, RunsOrdered, KeysNamed
<1>3. CASE \E msg : ResponderMakesOffer(msg)
  <2>1. PICK msg : ResponderMakesOffer(msg)
    BY <1>3
  <2>2. ResponderOffer(msg).th2.g_y = EphemeralY
    BY DEF ResponderOffer, Offer, ResponderTh2, th2_calculate
  <2> QED
    BY <2>1, <2>2 DEF ResponderMakesOffer, RunsOrdered, KeysNamed
<1>4. CASE NothingEstablished
  <2>1. RunsOrdered'
    BY <1>4 DEF NothingEstablished, RunsOrdered
  <2>2. KeysNamed'
    BY <1>4 DEF NothingEstablished, KeysNamed
  <2> QED
    BY <2>1, <2>2
<1> QED
  BY <1>1, <1>2, <1>3, <1>4, Establishes

\* Keys that name their runs differ when the runs do.
LEMMA NamedKeysDiffer ==
    ASSUME KeysNamed, FreshKeys, NEW e \in Completed("I"), NEW f \in Completed("I"),
           e.key.prk_4x3m = f.key.prk_4x3m
    PROVE  e.run = f.run
<1>1. {EphemeralX(e.run), EphemeralY} = {EphemeralX(f.run), EphemeralY}
  BY DEF KeysNamed
<1>2. EphemeralX(e.run) # EphemeralY /\ EphemeralX(f.run) # EphemeralY
  BY DEF EphemeralX, EphemeralY
<1>3. EphemeralX(e.run) = EphemeralX(f.run)
  BY <1>1, <1>2
<1> QED
  BY <1>3 DEF EphemeralX

-----------------------------------------------------------------------------
\* Each key is completed once.

\* A CIPHERTEXT_3 that the initiator made is in one message in flight, and in
\* none when the responder has completed with it (responder.c 418-581).
Confirmed3 == {e.key.th4.ciphertext_3 : e \in Completed("I")}

TakenOnce ==
    /\ \A c \in Confirmed3 : \A m, n \in toR :
          c \in Ciphertext3s(m) /\ c \in Ciphertext3s(n) => m = n
    /\ \A f \in Completed("R") : \A m \in toR :
          f.key.th4.ciphertext_3 \notin Ciphertext3s(m)
    /\ \A e, f \in Completed("R") : e.key = f.key => e = f

\* The CIPHERTEXT_3 that the initiator makes in this run is new.
LEMMA NewCiphertext3 ==
    ASSUME AgreementInv, RunsOrdered, KeysNamed, FreshKeys,
           ini.phase = "msg2", NEW msg \in toI, "EdhocNoError" \in Message2Results(msg)
    PROVE  /\ Ciphertext3(msg) \notin Confirmed3
           /\ \A m \in toR : Ciphertext3(msg) \notin Ciphertext3s(m)
           /\ \A f \in Completed("R") : f.key.th4.ciphertext_3 # Ciphertext3(msg)
<1> DEFINE c == Ciphertext3(msg)
           key == InitiatorKey(msg)
<1>1. /\ WellConfirmed(key) /\ key.th4.ciphertext_3 = c
      /\ key.prk_4x3m[1] = {EphemeralX(ini.run), EphemeralY} /\ c.prk # <<>>
  BY ConfirmedKey, ConfirmedKeyNamed DEF KeysNamed
<1> HIDE DEF c, key
<1>2. c \notin Confirmed3
  <2>1. SUFFICES ASSUME NEW e \in Completed("I"), e.key.th4.ciphertext_3 = c
                 PROVE  FALSE
    BY DEF Confirmed3
  <2>2. key.prk_4x3m = c.text.sign_or_mac.prk
    BY <1>1 DEF WellConfirmed, Key
  <2>3. WellConfirmed(e.key)
    BY DEF AgreementInv
  <2>4. e.key.prk_4x3m = c.text.sign_or_mac.prk
    BY <2>1, <2>3 DEF WellConfirmed, Key
  <2>5. {EphemeralX(e.run), EphemeralY} = {EphemeralX(ini.run), EphemeralY}
    BY <1>1, <2>2, <2>4 DEF KeysNamed
  <2>6. EphemeralX(e.run) # EphemeralY /\ EphemeralX(ini.run) # EphemeralY
    BY DEF EphemeralX, EphemeralY
  <2>7. EphemeralX(e.run) = EphemeralX(ini.run)
    BY <2>5, <2>6
  <2>8. e.run = ini.run
    BY <2>7 DEF EphemeralX
  <2> QED
    BY <2>8 DEF RunsOrdered
<1>3. \A m \in toR : c \notin Ciphertext3s(m)
  <2>1. SUFFICES ASSUME NEW m \in toR, NEW k \in DOMAIN m,
                        m[k].val[1] = "ciphertext_3", m[k].val[2] = c
                 PROVE  FALSE
    BY DEF Ciphertext3s, Carries
  <2>2. ~SpoiltItem(m[k])
    BY <1>1, <2>1 DEF SpoiltItem
  <2>3. GenuineItem(m[k])
    BY <2>2 DEF AgreementInv
  <2> QED
    BY <1>2, <2>1, <2>3 DEF GenuineItem, Confirmed3
<1>4. \A f \in Completed("R") : f.key.th4.ciphertext_3 # c
  BY <1>2 DEF AgreementInv, ResponderAgreement, Confirmed3
<1> QED
  BY <1>2, <1>3, <1>4 DEF c

LEMMA TakenOnceStep ==
    ASSUME FreshKeys, ~Duplicating, AgreementInv, RunsOrdered, KeysNamed, TakenOnce,
           [Next]_vars
    PROVE  TakenOnce'
<1>1. CASE \E msg, r : InitiatorSucceeds(msg, r)
  <2>1. PICK msg, r : InitiatorSucceeds(msg, r)
    BY <1>1
  <2>2. PICK c : c = Ciphertext3(msg)
    OBVIOUS
  <2>3. PICK d : toR' = toR \cup {msg3_encode(d, c)}
    BY <2>1, <2>2 DEF InitiatorSucceeds
  <2>4. PICK m3 : m3 = msg3_encode(d, c)
    OBVIOUS
  <2>5. Ciphertext3s(m3) = {c}
    BY <2>4, Message3Carries
  <2>6. /\ c \notin Confirmed3
        /\ \A m \in toR : c \notin Ciphertext3s(m)
        /\ \A f \in Completed("R") : f.key.th4.ciphertext_3 # c
    BY <2>1, <2>2, NewCiphertext3 DEF InitiatorSucceeds
  <2>7. r.key.th4.ciphertext_3 = c
    BY <2>1, <2>2, ConfirmedKey DEF InitiatorSucceeds
  <2>8. Confirmed3' = Confirmed3 \cup {c}
    BY <2>1, <2>7 DEF InitiatorSucceeds, Confirmed3
  <2>9. Completed("R")' = Completed("R") /\ toR' = toR \cup {m3}
    BY <2>1, <2>3, <2>4 DEF InitiatorSucceeds
  <2>10. \A x \in Confirmed3' : \A m, n \in toR' :
            x \in Ciphertext3s(m) /\ x \in Ciphertext3s(n) => m = n
    BY <2>5, <2>6, <2>8, <2>9 DEF TakenOnce
  <2>11. \A f \in Completed("R")' : \A m \in toR' :
            f.key.th4.ciphertext_3 \notin Ciphertext3s(m)
    BY <2>5, <2>6, <2>9 DEF TakenOnce
  <2> QED
    BY <2>9, <2>10, <2>11 DEF TakenOnce, Ciphertext3s, Carries
<1>2. CASE \E msg, r : ResponderSucceeds(msg, r)
  <2>1. PICK msg, r : ResponderSucceeds(msg, r)
    BY <1>2
  <2>2. toR' = toR \ {msg} /\ msg \in toR
    BY <2>1 DEF ResponderSucceeds, Deliver
  <2>3. /\ Completed("R")' = Completed("R") \cup {r} /\ Completed("I")' = Completed("I")
        /\ r.key = ResponderKey(msg)
    BY <2>1 DEF ResponderSucceeds
  <2>4. PICK e \in Completed("I") : e.key = r.key
    BY <2>1, <2>3, AcceptedMessage3 DEF ResponderSucceeds
  <2>5. PICK c : c = r.key.th4.ciphertext_3
    OBVIOUS
  <2>6. c \in Confirmed3
    BY <2>4, <2>5 DEF Confirmed3
  <2>7. c \in Ciphertext3s(msg)
    <3> DEFINE at == Ciphertext3At(ResponderCorr(res.msg1))
    <3>1. /\ msg3_parse(ResponderCorr(res.msg1), msg) = "EdhocNoError"
          /\ OpensMessage3(msg)
      BY <2>1 DEF ResponderSucceeds, Message3Results
    <3>2. at \in DOMAIN msg
      BY <3>1, NoErrorOf3 DEF msg3_parse, DecodeError
    <3>3. msg[at].val[1] = "ciphertext_3"
      BY <3>1 DEF OpensMessage3, ReceivedCiphertext3
    <3>4. c = msg[at].val[2]
      BY <2>3, <2>5 DEF ResponderKey, Key, th4_calculate, ReceivedCiphertext3
    <3> QED
      BY <3>2, <3>3, <3>4 DEF Ciphertext3s, Carries
  <2>8. \A m \in toR' : c \notin Ciphertext3s(m)
    BY <2>2, <2>6, <2>7 DEF TakenOnce
  <2>9. \A f \in Completed("R") : f.key # r.key
    BY <2>2, <2>5, <2>7 DEF TakenOnce
  <2>10. Confirmed3' = Confirmed3
    BY <2>3 DEF Confirmed3
  <2> QED
    BY <2>2, <2>3, <2>5, <2>8, <2>9, <2>10 DEF TakenOnce, Ciphertext3s, Carries
<1>3. CASE \E msg : ResponderMakesOffer(msg)
  <2>1. Confirmed3' = Confirmed3 /\ Completed("R")' = Completed("R") /\ toR' \subseteq toR
    BY <1>3 DEF ResponderMakesOffer, Confirmed3
  <2> QED
    BY <2>1 DEF TakenOnce, Ciphertext3s, Carries
<1>4. CASE NothingEstablished
  <2>1. Confirmed3' = Confirmed3 /\ Completed("R")' = Completed("R")
    BY <1>4 DEF NothingEstablished, Confirmed3
  <2>2. \A x \in Confirmed3 : x.prk # <<>>
    BY DEF Confirmed3, KeysNamed
  <2>3. \A m \in toR' \ toR : \A x \in Confirmed3 :
           x \in Ciphertext3s(m) => \E n \in toR \ toR' : x \in Ciphertext3s(n)
    BY <1>4, <2>2 DEF NothingEstablished
  <2>4. \A m, n \in toR' \ toR : m = n
    BY <1>4 DEF NothingEstablished
  <2>5. \A x \in Confirmed3 : \A m, n \in toR' :
           x \in Ciphertext3s(m) /\ x \in Ciphertext3s(n) => m = n
    BY <2>3, <2>4 DEF TakenOnce
  <2>6. \A f \in Completed("R") : f.key.th4.ciphertext_3 \in Confirmed3
    BY DEF AgreementInv, ResponderAgreement, Confirmed3
  <2>7. \A f \in Completed("R") : \A m \in toR' :
           f.key.th4.ciphertext_3 \notin Ciphertext3s(m)
    BY <2>3, <2>6 DEF TakenOnce
  <2> QED
    BY <2>1, <2>5, <2>7 DEF TakenOnce, Ciphertext3s, Carries
<1> QED
  BY <1>1, <1>2, <1>3, <1>4, Establishes

-----------------------------------------------------------------------------
\* The theorems.

LEMMA KeysInit == Init => RunsOrdered /\ KeysNamed /\ TakenOnce
BY DEF Init, RunsOrdered, KeysNamed, TakenOnce, Confirmed3, Completed

LEMMA KeysAlwaysNamed == Spec => [](AgreementInv /\ RunsOrdered /\ KeysNamed)
<1>1. AgreementInv /\ RunsOrdered /\ KeysNamed /\ [Next]_vars
         => RunsOrdered' /\ KeysNamed'
  BY KeysNamedStep
<1> QED
  BY Agreement, KeysInit, <1>1, PTL DEF Spec

\* Runs of the initiator with fresh ephemeral keys give different prk_4x3m, on
\* every network (initiator.c 280-294, 386-399).
THEOREM RunsHaveKeys == Spec => []KeysDiffer
<1>1. KeysNamed => KeysDiffer
  BY NamedKeysDiffer DEF KeysDiffer
<1> QED
  BY KeysAlwaysNamed, <1>1, PTL

\* When messages are not repeated, a key that one run of the responder's loop
\* completed is completed by no other, though all of them have the same
\* ephemeral key (samples, main.cpp 231-238).
THEOREM KeysCompletedOnce ==
    ASSUME FreshKeys, ~Duplicating
    PROVE  Spec => []CompletedOnce
<1>1. AgreementInv /\ RunsOrdered /\ KeysNamed /\ TakenOnce /\ [Next]_vars => TakenOnce'
  BY TakenOnceStep
<1>2. TakenOnce => CompletedOnce
  BY DEF TakenOnce, CompletedOnce
<1> QED
  BY KeysAlwaysNamed, KeysInit, <1>1, <1>2, PTL DEF Spec

\* A step is a step of the abstract key exchange, or changes nothing of it.
LEMMA EstablishmentStep ==
    ASSUME FreshKeys \/ Duplicating, AgreementInv, RunsOrdered, KeysNamed,
           ~Duplicating => TakenOnce, ~Duplicating => TakenOnce', [Next]_vars
    PROVE  [Abstract!Next]_(Abstract!vars)
<1> DEFINE confirmed == {e.key : e \in Completed("I")}
           completed == {<<e.run, e.key>> : e \in Completed("R")}
<1>1. CASE \E msg, r : InitiatorSucceeds(msg, r)
  <2>1. PICK msg, r : InitiatorSucceeds(msg, r)
    BY <1>1
  <2>2. PICK k : k = r.key
    OBVIOUS
  <2>3. k.offer \in offered
    BY <2>1, <2>2, ConfirmedKey DEF InitiatorSucceeds, WellConfirmed
  <2>4. FreshKeys => \A e \in Completed("I") : e.key.prk_4x3m # k.prk_4x3m
    <3>1. k.prk_4x3m[1] = {EphemeralX(ini.run), EphemeralY}
      BY <2>1, <2>2, ConfirmedKeyNamed DEF InitiatorSucceeds, KeysNamed
    <3>2. SUFFICES ASSUME FreshKeys, NEW e \in Completed("I"),
                          e.key.prk_4x3m = k.prk_4x3m
                   PROVE  FALSE
      OBVIOUS
    <3>3. {EphemeralX(e.run), EphemeralY} = {EphemeralX(ini.run), EphemeralY}
      BY <3>1, <3>2 DEF KeysNamed
    <3>4. EphemeralX(e.run) # EphemeralY /\ EphemeralX(ini.run) # EphemeralY
      BY DEF EphemeralX, EphemeralY
    <3>5. EphemeralX(e.run) = EphemeralX(ini.run)
      BY <3>3, <3>4
    <3>6. e.run = ini.run
      BY <3>2, <3>5 DEF EphemeralX
    <3> QED
      BY <2>1, <3>6 DEF RunsOrdered, InitiatorSucceeds
  <2>5. /\ confirmed' = confirmed \cup {k} /\ completed' = completed
        /\ offered' = offered
    BY <2>1, <2>2 DEF InitiatorSucceeds
  <2>6. Abstract!Confirm(k) /\ k \in confirmed'
    BY <2>3, <2>4, <2>5 DEF Abstract!Confirm
  <2> QED
    BY <2>6 DEF Abstract!Next
<1>2. CASE \E msg, r : ResponderSucceeds(msg, r)
  <2>1. PICK msg, r : ResponderSucceeds(msg, r)
    BY <1>2
  <2>2. PICK k, n : k = r.key /\ n = r.run
    OBVIOUS
  <2>3. k \in confirmed
    BY <2>1, <2>2, AcceptedMessage3 DEF ResponderSucceeds
  <2>4. \A f \in Completed("R") : f.run # n
    BY <2>1, <2>2 DEF RunsOrdered, ResponderSucceeds
  <2>5. ~Duplicating => \A f \in Completed("R") : f.key # k
    BY <2>1, <2>2, <2>4 DEF TakenOnce, ResponderSucceeds
  <2>6. /\ completed' = completed \cup {<<n, k>>} /\ confirmed' = confirmed
        /\ offered' = offered
    BY <2>1, <2>2 DEF ResponderSucceeds
  <2>7. Abstract!Complete(n, k)
    BY <2>3, <2>4, <2>5, <2>6 DEF Abstract!Complete
  <2>8. <<n, k>> \in completed'
    BY <2>6
  <2>9. PICK c \in completed' : c = <<n, k>>
    BY <2>8
  <2>10. \E c1 \in completed' : Abstract!Complete(c1[1], c1[2])
    BY <2>7, <2>9
  <2> QED
    BY <2>10 DEF Abstract!Next
<1>3. CASE \E msg : ResponderMakesOffer(msg)
  <2>1. PICK msg : ResponderMakesOffer(msg)
    BY <1>3
  <2>2. PICK o : o = ResponderOffer(msg)
    OBVIOUS
  <2>3. /\ offered' = offered \cup {o}
        /\ confirmed' = confirmed /\ completed' = completed
    BY <2>1, <2>2 DEF ResponderMakesOffer
  <2>4. Abstract!Offer(o) /\ o \in offered'
    BY <2>3 DEF Abstract!Offer
  <2> QED
    BY <2>4 DEF Abstract!Next
<1>4. CASE NothingEstablished
  <2>1. offered' = offered /\ confirmed' = confirmed /\ completed' = completed
    BY <1>4 DEF NothingEstablished
  <2> QED
    BY <2>1 DEF Abstract!vars
<1> QED
  BY <1>1, <1>2, <1>3, <1>4, Establishes

\* Initiator and responder implement authenticated key establishment on every
\* network: keys are confirmed for offers and completed when confirmed, with
\* new keys if the ephemeral keys are, and once if messages are not repeated.
\* With old ephemeral keys both parties may repeat a run down to its key.
THEOREM EstablishmentImplemented ==
    ASSUME FreshKeys \/ Duplicating
    PROVE  Spec => ImplementsKeyEstablishment
<1> DEFINE Once == ~Duplicating => TakenOnce
           Inv == AgreementInv /\ RunsOrdered /\ KeysNamed
<1>1. Init => Abstract!Init
  BY DEF Init, Abstract!Init, Completed
<1>2. Init => Once
  BY KeysInit
<1>3. Inv /\ Once /\ [Next]_vars => Once'
  BY TakenOnceStep
<1>4. Inv /\ Once /\ Once' /\ [Next]_vars => [Abstract!Next]_(Abstract!vars)
  BY EstablishmentStep
<1>5. Spec => []Inv
  BY KeysAlwaysNamed
<1> HIDE DEF Once, Inv
<1> QED
  BY <1>1, <1>2, <1>3, <1>4, <1>5, PTL DEF Spec, ImplementsKeyEstablishment, Abstract!Spec

=============================================================================

-------------------------- MODULE EdhocSamplesProofs ---------------------------
(***************************************************************************)
(* Theorems about the EDHOC sample programs of EdhocSamples, for any        *)
(* programs on either side, up to three initiators, and every combination   *)
(* of losses, late answers and time limits.                                 *)
(***************************************************************************)
EXTENDS EdhocSamples, TLAPS

\* The setup under way is one of those assumed.
LEMMA SetupFacts ==
    ASSUME setup \in DOMAIN Setups
    PROVE  /\ \A i \in Ids : ProgramOK(Setup.initiators[i])
           /\ ProgramOK(Setup.responder)
           /\ Setup.patient \in BOOLEAN /\ Setup.slow \in BOOLEAN
BY SamplesAssumption DEF SetupOK, Setup, Ids

-----------------------------------------------------------------------------
\* Lengths of the messages.

LEMMA AtMostTwoMore ==
    ASSUME NEW n \in Int, 0 <= n
    PROVE  ByteString(n) \in Int /\ 0 <= ByteString(n) /\ ByteString(n) <= n + 2
BY DEF ByteString

LEMMA MessageLengths ==
    ASSUME NEW b, NEW m, b.id_cred.len \in 0..LongestIdCred
    PROVE  /\ Message1(b).nr = 1 /\ Message1(b).len = 37
           /\ Message2(m, b).nr = 2 /\ Message2(m, b).len \in 0..243
           /\ Message3(m, b).nr = 3 /\ Message3(m, b).len \in 0..217
<1>1. Message1(b).nr = 1 /\ Message1(b).len = 37
  BY DEF Message1, ByteString
<1>2. SentLen(b.id_cred) \in 0..140
  BY DEF SentLen, LongestIdCred
<1>5. ByteString(32) = 34
  BY DEF ByteString
<1>6. Message2(m, b).nr = 2 /\ Message2(m, b).len \in 0..243
  <2> DEFINE signature == SignatureOrMac(StaticDhR(m.method))
             plain == SentLen(b.id_cred) + signature
  <2>1. signature \in {9, 66}
    BY DEF SignatureOrMac, ByteString, StaticDhR
  <2> HIDE DEF signature
  <2>2. plain \in Int /\ 0 <= plain /\ plain <= 206
    BY ONLY <1>2, <2>1
  <2> HIDE DEF plain
  <2>3. ByteString(plain) \in Int /\ 0 <= ByteString(plain) /\ ByteString(plain) <= 208
    BY ONLY <2>2, AtMostTwoMore
  <2> QED
    BY <1>5, <2>3 DEF Message2, signature, plain
<1>7. Message3(m, b).nr = 3 /\ Message3(m, b).len \in 0..217
  <2> DEFINE signature == SignatureOrMac(StaticDhI(b.method))
             plain == SentLen(b.id_cred) + signature + 8
  <2>1. signature \in {9, 66}
    BY DEF SignatureOrMac, ByteString, StaticDhI
  <2> HIDE DEF signature
  <2>2. plain \in Int /\ 0 <= plain /\ plain <= 214
    BY ONLY <1>2, <2>1
  <2> HIDE DEF plain
  <2>3. ByteString(plain) \in Int /\ 0 <= ByteString(plain) /\ ByteString(plain) <= 216
    BY ONLY <2>2, AtMostTwoMore
  <2> QED
    BY <2>3 DEF Message3, signature, plain
<1> QED
  BY <1>1, <1>6, <1>7

\* What the initiator sends after message 2 fits into its request.
LEMMA InitiatorMessages ==
    ASSUME NEW b, NEW m, NEW r, b.id_cred.len \in 0..LongestIdCred,
           NEW x \in InitiatorSends(b, m, r)
    PROVE  x.len \in 0..217
<1>1. x = Message3(m, b) \/ x = ErrorMessage("INITIATOR")
  BY DEF InitiatorSends
<1> QED
  BY <1>1, MessageLengths DEF ErrorMessage

\* What the responder makes of a message.  A run that was begun ends with the
\* next message, whatever that is; none begins with anything but message 1.
LEMMA ReactionFacts ==
    ASSUME setup \in DOMAIN Setups, NEW run, NEW m, NEW x \in Reactions(run, m)
    PROVE  /\ \A s \in x.sends : s.len \in 0..243
           /\ x.run.nr \in {0, 2}
           /\ run # NoMessage \/ m.nr # 1 => x.run = NoMessage
<1> DEFINE b == Setup.responder.has
<1>1. b.id_cred.len \in 0..LongestIdCred
  BY SetupFacts DEF ProgramOK
<1>2. ErrorMessage("RESPONDER").len \in 0..243 /\ NoMessage.nr = 0
  BY DEF ErrorMessage, NoMessage
<1>3. CASE run = NoMessage
  <2>1. x \in ReactionTo1(b, m)
    BY <1>3 DEF Reactions
  <2>2. CASE m.nr = 1
    <3>1. \/ x = Reaction("EdhocNoError", {Message2(m, b)}, Message2(m, b))
          \/ x = Reaction("undefined", {}, NoMessage)
      BY <2>1, <2>2 DEF ReactionTo1
    <3> QED
      BY <3>1, <2>2, <1>1, <1>2, <1>3, MessageLengths DEF Reaction
  <2>3. CASE m.nr # 1
    BY <2>1, <2>3, <1>2, <1>3 DEF ReactionTo1, Reaction
  <2> QED
    BY <2>2, <2>3
<1>4. CASE run # NoMessage
  <2>1. x \in ReactionTo3(b, run, m)
    BY <1>4 DEF Reactions
  <2>2. x.run = NoMessage /\ x.sends \in {{}, {ErrorMessage("RESPONDER")}}
    BY <2>1 DEF ReactionTo3, Reaction
  <2> QED
    BY <2>2, <1>2, <1>4
<1> QED
  BY <1>3, <1>4

-----------------------------------------------------------------------------
\* The inductive invariant.

MainPhases   == {"none", "router", "get1", "recv2", "put", "get3", "recv3", "quit"}
EdhocPhases  == {"tx1", "rx2", "work", "tx3", "ended"}
ServerPhases == {"router", "recv", "put", "get"}
ThreadPhases == {"rx", "work", "tx", "gone"}

\* An initiator begins with its message 1.
InitiatorOK(p, has) ==
    /\ DOMAIN p = {"main", "edhoc", "r", "buffer", "out"}
    /\ p.main \in MainPhases /\ p.edhoc \in EdhocPhases
    /\ p.edhoc = "tx1" => p.out = Message1(has)

InitiatorsOK ==
    /\ setup \in DOMAIN Setups
    /\ DOMAIN ini = Ids /\ ini = [i \in Ids |-> ini[i]]
    /\ \A i \in Ids : InitiatorOK(ini[i], Has(i))

\* What the main thread of the responder waits to get is made of the request
\* that it has put.
ServerOK ==
    /\ DOMAIN srv = {"phase", "request"} /\ srv.phase \in ServerPhases
    /\ srv.phase \in {"put", "get"} => srv.request.from \in Ids
    /\ srv.phase = "get" => srv.request = thr.request

ThreadOK ==
    /\ DOMAIN thr = {"phase", "run", "completed", "m", "request"}
    /\ thr.phase \in ThreadPhases /\ thr.run.nr \in {0, 2}

\* Unless EDHOC is slow, the main thread waits for what the EDHOC thread is at.
InTime == ~Setup.slow /\ thr.phase \in {"work", "tx"} => srv.phase = "get"

RequestOK(d) == d.from \in Ids /\ RequestFits(d.from, d.msg)
ReplyOK(d) ==
    /\ d.to \in Ids /\ ReplyFits(d.to, d.msg)
    /\ d.request = [from |-> d.to, token |-> d.token]

DatagramsOK ==
    /\ \A d \in toServer : RequestOK(d)
    /\ \A d \in toInitiator : ReplyOK(d)

\* A message 1 is refused at the end of a run that was abandoned, and there is
\* none after that.
RefusedOK == refused \in 0..1 /\ (refused = 1 => thr.run = NoMessage)

SamplesInv ==
    InitiatorsOK /\ ServerOK /\ ThreadOK /\ InTime /\ DatagramsOK /\ RefusedOK

-----------------------------------------------------------------------------
\* What the parts of the invariant depend on.

LEMMA SameSetup ==
    ASSUME setup' = setup
    PROVE  /\ Setup' = Setup /\ Ids' = Ids
           /\ \A i : Has(i)' = Has(i) /\ On(i)' = On(i)
           /\ \A d : RequestOK(d)' = RequestOK(d) /\ ReplyOK(d)' = ReplyOK(d)
<1>1. Setup' = Setup /\ Ids' = Ids
  BY DEF Setup, Ids
<1>2. \A i : Has(i)' = Has(i) /\ On(i)' = On(i)
  BY <1>1 DEF Has, On
<1>3. \A i : TokenLen(i)' = TokenLen(i) /\ OptionsLen(i)' = OptionsLen(i)
  BY <1>2 DEF TokenLen, OptionsLen
<1>4. \A d : RequestOK(d)' = RequestOK(d) /\ ReplyOK(d)' = ReplyOK(d)
  BY <1>1, <1>3 DEF RequestOK, ReplyOK, RequestFits, ReplyFits
<1> QED
  BY <1>1, <1>2, <1>4

LEMMA KeptInitiators ==
    ASSUME InitiatorsOK, UNCHANGED <<setup, ini>>
    PROVE  InitiatorsOK'
BY SameSetup DEF InitiatorsOK

\* One initiator goes on.
LEMMA MovedInitiator ==
    ASSUME InitiatorsOK, setup' = setup, NEW i \in Ids, NEW p, InitiatorOK(p, Has(i)),
           ini' = [ini EXCEPT ![i] = p]
    PROVE  InitiatorsOK'
<1>1. DOMAIN ini' = Ids /\ ini' = [j \in Ids |-> ini'[j]]
  BY DEF InitiatorsOK
<1>2. \A j \in Ids : ini'[j] = IF j = i THEN p ELSE ini[j]
  BY DEF InitiatorsOK
<1>3. \A j \in Ids : InitiatorOK(ini'[j], Has(j))
  BY <1>2 DEF InitiatorsOK
<1> QED
  BY <1>1, <1>3, SameSetup DEF InitiatorsOK

\* Nothing of the responder has changed.
LEMMA KeptResponder ==
    ASSUME ServerOK, ThreadOK, InTime, RefusedOK, UNCHANGED <<setup, srv, thr, refused>>
    PROVE  ServerOK' /\ ThreadOK' /\ InTime' /\ RefusedOK'
BY SameSetup DEF ServerOK, ThreadOK, InTime, RefusedOK

\* Datagrams may be lost or taken; those that come are in order.
LEMMA MovedDatagrams ==
    ASSUME DatagramsOK, setup' = setup,
           \A d \in toServer' : d \in toServer \/ RequestOK(d),
           \A d \in toInitiator' : d \in toInitiator \/ ReplyOK(d)
    PROVE  DatagramsOK'
BY SameSetup DEF DatagramsOK

\* The messages that a Linux initiator sends, and those that the responder
\* answers a request with, fit.
LEMMA LinuxRequestFits ==
    ASSUME NEW i \in Ids, On(i) = "linux", NEW m, NEW nr, m.len \in 0..217
    PROVE  RequestOK(Request(i, nr, m))
BY DEF RequestOK, Request, RequestFits, CoapLen, TokenLen, OptionsLen, MAX_COAP_MSG_LEN

LEMMA ReplyIsOK ==
    ASSUME NEW d, d.from \in Ids, NEW m, ReplyFits(d.from, m)
    PROVE  ReplyOK(Reply(d, m, [from |-> d.from, token |-> d.token]))
BY DEF ReplyOK, Reply, ReplyFits

LEMMA LinuxReplyFits ==
    ASSUME NEW i, NEW m, m.len \in 0..243
    PROVE  ReplyFits(i, m)
BY DEF ReplyFits, CoapLen, TokenLen, MAX_COAP_MSG_LEN

-----------------------------------------------------------------------------
\* The steps, one lemma for each process.

LEMMA InitInv == Init => SamplesInv
<1> SUFFICES ASSUME Init PROVE SamplesInv
  OBVIOUS
<1>1. InitiatorsOK
  BY DEF Init, InitiatorsOK, InitiatorOK, MainPhases, EdhocPhases
<1>2. ServerOK /\ ThreadOK /\ InTime /\ RefusedOK
  BY DEF Init, ServerOK, ServerPhases, ThreadOK, ThreadPhases, InTime, RefusedOK, NoMessage
<1>3. DatagramsOK
  BY DEF Init, DatagramsOK
<1> QED
  BY <1>1, <1>2, <1>3 DEF SamplesInv

LEMMA InitiatorMainInv ==
    ASSUME SamplesInv, NEW i \in Ids, InitiatorMain(i)
    PROVE  SamplesInv'
<1> USE DEF MainPhases, EdhocPhases
<1>0. InitiatorsOK /\ ServerOK /\ ThreadOK /\ InTime /\ DatagramsOK /\ RefusedOK
  BY DEF SamplesInv
<1>1. InitiatorOK(ini[i], Has(i))
  BY <1>0 DEF InitiatorsOK
<1>2. UNCHANGED <<setup, srv, thr, refused>>
  BY DEF InitiatorMain, InitiatorRouter, InitiatorGets, InitiatorGetTimesOut,
         InitiatorReceives, InitiatorPuts
<1>3. ServerOK' /\ ThreadOK' /\ InTime' /\ RefusedOK'
  BY <1>0, <1>2, KeptResponder
<1>4. CASE InitiatorRouter(i)
  <2>1. InitiatorOK([ini[i] EXCEPT !.main = "get1"], Has(i))
    BY <1>1 DEF InitiatorOK
  <2>2. InitiatorsOK'
    BY <1>0, <1>2, <1>4, <2>1, MovedInitiator DEF InitiatorRouter
  <2> QED
    BY <1>0, <1>2, <1>3, <1>4, <2>2, MovedDatagrams DEF InitiatorRouter, SamplesInv
<1>5. ASSUME NEW nr, InitiatorGets(i, nr) PROVE SamplesInv'
  <2> DEFINE fits == RequestFits(i, ini[i].out)
             edhoc == IF ini[i].edhoc = "tx1" THEN "rx2" ELSE "ended"
             main == IF ~fits THEN "quit" ELSE IF nr = 1 THEN "recv2" ELSE "recv3"
  <2>1. InitiatorOK([ini[i] EXCEPT !.edhoc = edhoc, !.main = main], Has(i))
    BY <1>1 DEF InitiatorOK
  <2>2. ini' = [ini EXCEPT ![i] = [ini[i] EXCEPT !.edhoc = edhoc, !.main = main]]
    BY <1>5, <1>1 DEF InitiatorGets, InitiatorOK
  <2>3. InitiatorsOK'
    BY <1>0, <1>2, <2>1, <2>2, MovedInitiator
  <2>4. fits => RequestOK(Request(i, nr, ini[i].out))
    BY DEF RequestOK, Request
  <2>5. DatagramsOK'
    BY <1>0, <1>2, <1>5, <2>4, MovedDatagrams DEF InitiatorGets
  <2> QED
    BY <1>3, <2>3, <2>5 DEF SamplesInv
<1>6. CASE InitiatorGetTimesOut(i)
  <2>1. InitiatorOK([ini[i] EXCEPT !.main = "quit"], Has(i))
    BY <1>1 DEF InitiatorOK
  <2>2. InitiatorsOK'
    BY <1>0, <1>2, <1>6, <2>1, MovedInitiator DEF InitiatorGetTimesOut
  <2> QED
    BY <1>0, <1>2, <1>3, <1>6, <2>2, MovedDatagrams DEF InitiatorGetTimesOut, SamplesInv
<1>7. CASE InitiatorReceives(i)
  <2>1. PICK d \in toInitiator :
           /\ ini' = [ini EXCEPT ![i].main   = IF @ = "recv2" THEN "put" ELSE "quit",
                                 ![i].buffer = d.msg]
           /\ toInitiator' = toInitiator \ {d}
    BY <1>7 DEF InitiatorReceives
  <2> DEFINE main == IF ini[i].main = "recv2" THEN "put" ELSE "quit"
  <2>2. InitiatorOK([ini[i] EXCEPT !.main = main, !.buffer = d.msg], Has(i))
    BY <1>1 DEF InitiatorOK
  <2>3. ini' = [ini EXCEPT ![i] = [ini[i] EXCEPT !.main = main, !.buffer = d.msg]]
    BY <2>1, <1>1 DEF InitiatorOK
  <2>4. InitiatorsOK'
    BY <1>0, <1>2, <2>2, <2>3, MovedInitiator
  <2>5. DatagramsOK'
    BY <1>0, <1>2, <1>7, <2>1, MovedDatagrams DEF InitiatorReceives
  <2> QED
    BY <1>3, <2>4, <2>5 DEF SamplesInv
<1>8. CASE InitiatorPuts(i)
  <2>1. InitiatorOK([ini[i] EXCEPT !.main = "get3", !.edhoc = "work"], Has(i))
    BY <1>1 DEF InitiatorOK
  <2>2. InitiatorsOK'
    BY <1>0, <1>2, <1>8, <2>1, MovedInitiator DEF InitiatorPuts
  <2> QED
    BY <1>0, <1>2, <1>3, <1>8, <2>2, MovedDatagrams DEF InitiatorPuts, SamplesInv
<1> QED
  BY <1>4, <1>5, <1>6, <1>7, <1>8 DEF InitiatorMain

LEMMA InitiatorThreadInv ==
    ASSUME SamplesInv, NEW i \in Ids, InitiatorThread(i)
    PROVE  SamplesInv'
<1> USE DEF MainPhases, EdhocPhases
<1>0. InitiatorsOK /\ ServerOK /\ ThreadOK /\ InTime /\ DatagramsOK /\ RefusedOK
  BY DEF SamplesInv
<1>1. InitiatorOK(ini[i], Has(i))
  BY <1>0 DEF InitiatorsOK
<1>2. UNCHANGED <<setup, srv, thr, refused>>
  BY DEF InitiatorThread, LinuxSendMessage1, LinuxTakeMessage2, InitiatorTxGivesUp, InitiatorWorks
<1>3. ServerOK' /\ ThreadOK' /\ InTime' /\ RefusedOK'
  BY <1>0, <1>2, KeptResponder
<1>9. Has(i).id_cred.len \in 0..LongestIdCred
  BY <1>0, SetupFacts DEF InitiatorsOK, ProgramOK, Has
<1>4. CASE LinuxSendMessage1(i)
  <2>1. InitiatorOK([ini[i] EXCEPT !.edhoc = "rx2"], Has(i))
    BY <1>1 DEF InitiatorOK
  <2>2. InitiatorsOK'
    BY <1>0, <1>2, <1>4, <2>1, MovedInitiator DEF LinuxSendMessage1
  <2>3. ini[i].out.len \in 0..217
    BY <1>1, <1>4, <1>9, MessageLengths DEF LinuxSendMessage1, InitiatorOK
  <2>4. RequestOK(Request(i, 1, ini[i].out))
    BY <1>4, <2>3, LinuxRequestFits DEF LinuxSendMessage1
  <2>5. DatagramsOK'
    BY <1>0, <1>2, <1>4, <2>4, MovedDatagrams DEF LinuxSendMessage1
  <2> QED
    BY <1>3, <2>2, <2>5 DEF SamplesInv
<1>5. CASE LinuxTakeMessage2(i)
  <2>1. PICK d \in toInitiator :
           /\ \E r \in InitiatorResults(Has(i), Copied(d.msg)) :
                 /\ ini' = [ini EXCEPT ![i].edhoc = "ended", ![i].r = r]
                 /\ toServer' = toServer \cup
                      { Request(i, 2, m) : m \in InitiatorSends(Has(i), Copied(d.msg), r) }
           /\ toInitiator' = toInitiator \ {d}
    BY <1>5 DEF LinuxTakeMessage2
  <2>2. PICK r :
           /\ ini' = [ini EXCEPT ![i].edhoc = "ended", ![i].r = r]
           /\ toServer' = toServer \cup
                { Request(i, 2, m) : m \in InitiatorSends(Has(i), Copied(d.msg), r) }
    BY <2>1
  <2>3. InitiatorOK([ini[i] EXCEPT !.edhoc = "ended", !.r = r], Has(i))
    BY <1>1 DEF InitiatorOK
  <2>4. ini' = [ini EXCEPT ![i] = [ini[i] EXCEPT !.edhoc = "ended", !.r = r]]
    BY <2>2, <1>1 DEF InitiatorOK
  <2>5. InitiatorsOK'
    BY <1>0, <1>2, <2>3, <2>4, MovedInitiator
  <2>6. \A m \in InitiatorSends(Has(i), Copied(d.msg), r) : RequestOK(Request(i, 2, m))
    BY <1>5, <1>9, InitiatorMessages, LinuxRequestFits DEF LinuxTakeMessage2
  <2>7. DatagramsOK'
    BY <1>0, <1>2, <2>1, <2>2, <2>6, MovedDatagrams
  <2> QED
    BY <1>3, <2>5, <2>7 DEF SamplesInv
<1>6. CASE InitiatorTxGivesUp(i)
  <2>1. InitiatorOK([ini[i] EXCEPT !.edhoc = "ended", !.r = "tx"], Has(i))
    BY <1>1 DEF InitiatorOK
  <2>2. InitiatorsOK'
    BY <1>0, <1>2, <1>6, <2>1, MovedInitiator DEF InitiatorTxGivesUp
  <2> QED
    BY <1>0, <1>2, <1>3, <1>6, <2>2, MovedDatagrams DEF InitiatorTxGivesUp, SamplesInv
<1>7. CASE InitiatorWorks(i)
  <2>1. PICK r, out :
           ini' = [ini EXCEPT ![i].r     = r,
                              ![i].edhoc = IF out = {} THEN "ended" ELSE "tx3",
                              ![i].out   = IF out = {} THEN @ ELSE CHOOSE m \in out : TRUE,
                              ![i].main  = IF r = "undefined" THEN "quit" ELSE @]
    BY <1>7 DEF InitiatorWorks
  <2> DEFINE p == [ini[i] EXCEPT !.r     = r,
                                 !.edhoc = IF out = {} THEN "ended" ELSE "tx3",
                                 !.out   = IF out = {} THEN @ ELSE CHOOSE m \in out : TRUE,
                                 !.main  = IF r = "undefined" THEN "quit" ELSE @]
  <2>2. InitiatorOK(p, Has(i))
    BY <1>1 DEF InitiatorOK
  <2>3. ini' = [ini EXCEPT ![i] = p]
    BY <2>1, <1>1 DEF InitiatorOK
  <2>4. InitiatorsOK'
    BY <1>0, <1>2, <2>2, <2>3, MovedInitiator
  <2> QED
    BY <1>0, <1>2, <1>3, <1>7, <2>4, MovedDatagrams DEF InitiatorWorks, SamplesInv
<1> QED
  BY <1>4, <1>5, <1>6, <1>7 DEF InitiatorThread

LEMMA ServerInv ==
    ASSUME SamplesInv, Server
    PROVE  SamplesInv'
<1> USE DEF ServerPhases, ThreadPhases
<1>0. InitiatorsOK /\ ServerOK /\ ThreadOK /\ InTime /\ DatagramsOK /\ RefusedOK
  BY DEF SamplesInv
<1>1. UNCHANGED <<setup, ini, refused>>
  BY DEF Server, ServerRouter, ServerReceives, ServerPuts, ServerGets, ServerGetTimesOut
<1>2. InitiatorsOK' /\ Ids' = Ids /\ Setup' = Setup
  BY <1>0, <1>1, KeptInitiators, SameSetup
<1>3. CASE ServerRouter
  <2>1. ServerOK' /\ ThreadOK' /\ InTime' /\ RefusedOK'
    BY <1>0, <1>2, <1>3
    DEF ServerRouter, InZephyr, ServerOK, ThreadOK, InTime, RefusedOK
  <2> QED
    BY <1>0, <1>2, <1>3, <2>1, MovedDatagrams DEF ServerRouter, SamplesInv
<1>4. CASE ServerReceives
  <2>1. PICK d \in toServer :
           /\ srv' = IF MatchesEdhocPath(d.from) THEN [phase |-> "put", request |-> d] ELSE srv
           /\ toServer' = toServer \ {d}
    BY <1>4 DEF ServerReceives
  <2>2. d.from \in Ids
    BY <1>0 DEF DatagramsOK, RequestOK
  <2>3. ServerOK' /\ ThreadOK' /\ InTime' /\ RefusedOK'
    BY <1>0, <1>2, <1>4, <2>1, <2>2
    DEF ServerReceives, InZephyr, ServerOK, ThreadOK, InTime, RefusedOK
  <2> QED
    BY <1>0, <1>2, <1>4, <2>1, <2>3, MovedDatagrams DEF ServerReceives, SamplesInv
<1>5. CASE ServerPuts
  <2>1. ServerOK' /\ ThreadOK' /\ InTime' /\ RefusedOK'
    BY <1>0, <1>2, <1>5
    DEF ServerPuts, InZephyr, ServerOK, ThreadOK, InTime, RefusedOK
  <2> QED
    BY <1>0, <1>2, <1>5, <2>1, MovedDatagrams DEF ServerPuts, SamplesInv
<1>6. CASE ServerGets
  <2>1. ServerOK' /\ ThreadOK' /\ InTime' /\ RefusedOK'
    BY <1>0, <1>2, <1>6
    DEF ServerGets, InZephyr, ServerOK, ThreadOK, InTime, RefusedOK
  <2>2. srv.request.from \in Ids /\ srv.request = thr.request
    BY <1>0, <1>6 DEF ServerGets, InZephyr, ServerOK
  <2>3. ReplyFits(srv.request.from, thr.m) =>
           ReplyOK(Reply(srv.request, thr.m,
                         [from |-> thr.request.from, token |-> thr.request.token]))
    BY <2>2, ReplyIsOK
  <2>4. DatagramsOK'
    BY <1>0, <1>1, <1>6, <2>3, MovedDatagrams DEF ServerGets
  <2> QED
    BY <1>2, <2>1, <2>4 DEF SamplesInv
<1>7. CASE ServerGetTimesOut
  <2>1. ServerOK' /\ ThreadOK' /\ InTime' /\ RefusedOK'
    BY <1>0, <1>2, <1>7
    DEF ServerGetTimesOut, InZephyr, ServerOK, ThreadOK, InTime, RefusedOK
  <2> QED
    BY <1>0, <1>2, <1>7, <2>1, MovedDatagrams DEF ServerGetTimesOut, SamplesInv
<1> QED
  BY <1>3, <1>4, <1>5, <1>6, <1>7 DEF Server

\* A message 1 is refused only at the end of a run, and then there is none.
LEMMA AfterRefusal ==
    ASSUME RefusedOK, NEW m, refused' = RefusedAfter(m),
           thr.run # NoMessage \/ m.nr # 1 => thr'.run = NoMessage
    PROVE  RefusedOK'
<1>1. CASE m.nr # 1
  BY <1>1 DEF RefusedAfter, RefusedOK
<1>2. CASE m.nr = 1 /\ thr.run = NoMessage
  BY <1>2 DEF RefusedAfter, RefusedOK
<1>3. CASE m.nr = 1 /\ thr.run # NoMessage
  BY <1>3 DEF RefusedAfter, RefusedOK
<1> QED
  BY <1>1, <1>2, <1>3

\* The responder's state after a reaction to a message: a run that was begun
\* is over.
LEMMA AfterReaction ==
    ASSUME InitiatorsOK, ThreadOK, RefusedOK, NEW m, NEW x \in Reactions(thr.run, m),
           NEW phase \in {"rx", "gone"}, After(x, m, phase)
    PROVE  ThreadOK' /\ RefusedOK' /\ thr'.phase = phase /\ thr'.request = thr.request
<1>1. /\ x.run.nr \in {0, 2}
      /\ thr.run # NoMessage \/ m.nr # 1 => x.run = NoMessage
  BY ReactionFacts DEF InitiatorsOK
<1>2. /\ DOMAIN thr' = DOMAIN thr /\ thr'.phase = phase /\ thr'.run = x.run
      /\ thr'.request = thr.request
  BY DEF After, ThreadOK
<1>3. ThreadOK'
  BY <1>1, <1>2 DEF ThreadOK, ThreadPhases
<1>4. RefusedOK'
  BY <1>1, <1>2, AfterRefusal DEF After
<1> QED
  BY <1>2, <1>3, <1>4

LEMMA ThreadInv ==
    ASSUME SamplesInv, Thread
    PROVE  SamplesInv'
<1> USE DEF ServerPhases, ThreadPhases
<1>0. InitiatorsOK /\ ServerOK /\ ThreadOK /\ InTime /\ DatagramsOK /\ RefusedOK
  BY DEF SamplesInv
<1>1. UNCHANGED <<setup, ini, srv>>
  BY DEF Thread, LinuxRespond, ThreadWorks, ThreadTxGivesUp
<1>2. InitiatorsOK' /\ Ids' = Ids /\ Setup' = Setup
  BY <1>0, <1>1, KeptInitiators, SameSetup
<1>3. CASE LinuxRespond
  <2>1. PICK d \in toServer : \E x \in Reactions(thr.run, Copied(d.msg)) :
           /\ After(x, Copied(d.msg), IF x.r = "undefined" THEN "gone" ELSE "rx")
           /\ toServer' = toServer \ {d}
           /\ toInitiator' = toInitiator \cup
                { Reply(d, m, [from |-> d.from, token |-> d.token]) : m \in x.sends }
    BY <1>3 DEF LinuxRespond
  <2>2. PICK x \in Reactions(thr.run, Copied(d.msg)) :
           /\ After(x, Copied(d.msg), IF x.r = "undefined" THEN "gone" ELSE "rx")
           /\ toServer' = toServer \ {d}
           /\ toInitiator' = toInitiator \cup
                { Reply(d, m, [from |-> d.from, token |-> d.token]) : m \in x.sends }
    BY <2>1
  <2>3. /\ ThreadOK' /\ RefusedOK' /\ thr'.phase \in {"rx", "gone"}
        /\ thr'.request = thr.request
    BY <1>0, <2>2, AfterReaction
  <2>4. ServerOK' /\ InTime'
    BY <1>0, <1>1, <1>2, <2>3 DEF ServerOK, InTime
  <2>5. \A m \in x.sends : m.len \in 0..243
    BY <1>0, ReactionFacts DEF InitiatorsOK
  <2>6. \A m \in x.sends : ReplyOK(Reply(d, m, [from |-> d.from, token |-> d.token]))
    <3>1. d.from \in Ids
      BY <1>0 DEF DatagramsOK, RequestOK
    <3> QED
      BY <2>5, <3>1, LinuxReplyFits, ReplyIsOK
  <2>7. DatagramsOK'
    BY <1>0, <1>1, <2>2, <2>6, MovedDatagrams
  <2> QED
    BY <1>2, <2>3, <2>4, <2>7 DEF SamplesInv
<1>4. CASE ThreadWorks
  <2>1. PICK x \in Reactions(thr.run, thr.m) :
          IF x.sends = {}
          THEN After(x, thr.m, IF x.r = "undefined" THEN "gone" ELSE "rx")
          ELSE /\ thr' = [thr EXCEPT !.phase = "tx", !.run = x.run,
                                     !.m = CHOOSE m \in x.sends : TRUE]
               /\ refused' = RefusedAfter(thr.m)
    BY <1>4 DEF ThreadWorks
  <2>2. ASSUME x.sends = {} PROVE ServerOK' /\ ThreadOK' /\ InTime' /\ RefusedOK'
    <3>1. /\ ThreadOK' /\ RefusedOK' /\ thr'.phase \in {"rx", "gone"}
          /\ thr'.request = thr.request
      BY <1>0, <2>1, <2>2, AfterReaction
    <3> QED
      BY <1>0, <1>1, <1>2, <3>1 DEF ServerOK, InTime
  <2>3. ASSUME x.sends # {} PROVE ServerOK' /\ ThreadOK' /\ InTime' /\ RefusedOK'
    <3>1. /\ DOMAIN thr' = DOMAIN thr /\ thr'.phase = "tx" /\ thr'.run = x.run
          /\ thr'.request = thr.request
      BY <1>0, <2>1, <2>3 DEF ThreadOK
    <3>2. /\ x.run.nr \in {0, 2}
          /\ thr.run # NoMessage \/ thr.m.nr # 1 => x.run = NoMessage
      BY <1>0, ReactionFacts DEF InitiatorsOK
    <3>3. ThreadOK'
      BY <1>0, <3>1, <3>2 DEF ThreadOK
    <3>5. RefusedOK'
      BY <1>0, <2>1, <2>3, <3>1, <3>2, AfterRefusal
    <3>4. ServerOK' /\ InTime'
      BY <1>0, <1>1, <1>2, <1>4, <3>1 DEF ThreadWorks, ServerOK, InTime
    <3> QED
      BY <3>3, <3>4, <3>5
  <2>4. ServerOK' /\ ThreadOK' /\ InTime' /\ RefusedOK'
    BY <2>2, <2>3
  <2> QED
    BY <1>0, <1>2, <1>4, <2>4, MovedDatagrams DEF ThreadWorks, SamplesInv
<1>5. CASE ThreadTxGivesUp
  <2>1. ServerOK' /\ ThreadOK' /\ InTime' /\ RefusedOK'
    BY <1>0, <1>1, <1>2, <1>5
    DEF ThreadTxGivesUp, ServerOK, ThreadOK, InTime, RefusedOK, NoMessage
  <2> QED
    BY <1>0, <1>2, <1>5, <2>1, MovedDatagrams DEF ThreadTxGivesUp, SamplesInv
<1> QED
  BY <1>3, <1>4, <1>5 DEF Thread

LEMMA LoseInv ==
    ASSUME SamplesInv, Lose
    PROVE  SamplesInv'
<1>1. UNCHANGED <<setup, ini, srv, thr, refused>>
  BY DEF Lose
<1>2. InitiatorsOK' /\ ServerOK' /\ ThreadOK' /\ InTime' /\ RefusedOK'
  BY <1>1, KeptInitiators, KeptResponder DEF SamplesInv
<1>3. DatagramsOK'
  BY <1>1, MovedDatagrams DEF Lose, SamplesInv
<1> QED
  BY <1>2, <1>3 DEF SamplesInv

\* The invariant of every behaviour.
LEMMA SamplesInvariant == Spec => []SamplesInv
<1>1. SamplesInv /\ [Next]_vars => SamplesInv'
  <2> SUFFICES ASSUME SamplesInv, [Next]_vars PROVE SamplesInv'
    OBVIOUS
  <2>1. CASE UNCHANGED vars
    <3>1. UNCHANGED <<setup, ini, srv, thr, toServer, toInitiator, refused>>
      BY <2>1 DEF vars
    <3> QED
      BY <3>1, KeptInitiators, KeptResponder, MovedDatagrams DEF SamplesInv
  <2>2. ASSUME NEW i \in Ids, InitiatorMain(i) \/ InitiatorThread(i) PROVE SamplesInv'
    BY <2>2, InitiatorMainInv, InitiatorThreadInv
  <2> QED
    BY <2>1, <2>2, ServerInv, ThreadInv, LoseInv DEF Next
<1> QED
  BY InitInv, <1>1, PTL DEF Spec

-----------------------------------------------------------------------------
\* The phases of the threads are those of the programs; every CoAP message in
\* flight comes from or goes to one of the initiators and fits its buffer of
\* MAX_COAP_MSG_LEN bytes, also where the program does not look at its length
\* (the Linux ones).
THEOREM TypeSafe == Spec => []TypeOK
<1>1. SamplesInv => TypeOK
  BY DEF SamplesInv, InitiatorsOK, InitiatorOK, MainPhases, EdhocPhases, ServerOK, ServerPhases,
         ThreadOK, ThreadPhases, DatagramsOK, RequestOK, ReplyOK, TypeOK
<1> QED
  BY SamplesInvariant, <1>1, PTL

\* An answer that comes after MBOX_WAIT_TIME is never handed to the next POST
\* (edhoc_post of the Zephyr responder).
THEOREM AnswersAreForTheirRequests == Spec => []AnswersItsRequest
<1>1. SamplesInv => AnswersItsRequest
  BY DEF SamplesInv, DatagramsOK, ReplyOK, AnswersItsRequest
<1> QED
  BY SamplesInvariant, <1>1, PTL

\* edhoc_responder_run refuses one message 1 at most, as a message 3 too short
\* for its tag, before it takes one for what it is; whether the program goes on
\* after that one is left open (responder.c 418-488, the loop of the programs).
THEOREM OneMessage1Refused == Spec => []OneRefused
<1>1. SamplesInv => OneRefused
  BY DEF SamplesInv, RefusedOK, OneRefused
<1> QED
  BY SamplesInvariant, <1>1, PTL

\* The threads of the Zephyr responder wait for each other at the two
\* mailboxes only after an answer that took longer than MBOX_WAIT_TIME.
THEOREM ThreadsDoNotBlock == Spec => []NoStandstill
<1>1. SamplesInv => NoStandstill
  <2> SUFFICES ASSUME SamplesInv, srv.phase = "put", thr.phase = "tx" PROVE Setup.slow
    BY DEF NoStandstill
  <2>1. Setup.slow \in BOOLEAN
    BY SetupFacts DEF SamplesInv, InitiatorsOK
  <2> QED
    BY <2>1 DEF SamplesInv, InTime
<1> QED
  BY SamplesInvariant, <1>1, PTL

=============================================================================

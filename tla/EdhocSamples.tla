----------------------------- MODULE EdhocSamples ------------------------------
(***************************************************************************)
(* The EDHOC sample programs around edhoc_initiator_run and                *)
(* edhoc_responder_run.  On Linux a program is one thread and tx and rx    *)
(* are calls on its socket.  On Zephyr the EDHOC thread and the main       *)
(* thread exchange messages through two mailboxes, rx_queue and tx_queue,  *)
(* where both sides meet; the main thread waits MBOX_WAIT_TIME for tx_queue *)
(* and for ever for rx_queue, and the wrappers tx and rx of the EDHOC       *)
(* thread are not in the repository: they put and get.                     *)
(*                                                                         *)
(* CoAP messages are not retransmitted.  No program stops but by itself.   *)
(* A program whose behaviour has become undefined does nothing more.       *)
(***************************************************************************)
EXTENDS EdhocCredentials, FiniteSets

CONSTANT Setups   \* a sequence: which programs take part, and under what conditions

VARIABLES
    setup,        \* which of the setups this is; it never changes
    ini,          \* the initiator programs
    srv,          \* the responder's main thread
    thr,          \* what runs edhoc_responder_run
    toServer, toInitiator,  \* datagrams in flight
    refused       \* history: messages 1 refused in a row

Setup == Setups[setup]
Ids   == DOMAIN Setup.initiators

vars == <<setup, ini, srv, thr, toServer, toInitiator, refused>>

\* on: where a program runs.  patient: does tx of the Zephyr programs wait
\* for ever for the main thread?  slow: may EDHOC take longer than
\* MBOX_WAIT_TIME?  lossy: may the network lose datagrams?  matching: are the
\* blocks of one vector, with none of these faults?  Bound: three initiators.
ProgramOK(p) ==
    /\ p.on \in {"linux", "zephyr"} /\ {"method", "peer"} \subseteq DOMAIN p.has
    /\ p.has.id_cred.len \in 0..LongestIdCred
SetupOK(s) ==
    /\ \A i \in DOMAIN s.initiators : ProgramOK(s.initiators[i])
    /\ ProgramOK(s.responder)
    /\ DOMAIN s.initiators \subseteq 1..3
    /\ {s.patient, s.slow, s.lossy, s.matching} \subseteq BOOLEAN

ASSUME SamplesAssumption == \A k \in DOMAIN Setups : SetupOK(Setups[k])

Has(i) == Setup.initiators[i].has
On(i)  == Setup.initiators[i].on

-----------------------------------------------------------------------------
\* CoAP around the messages.

MAX_COAP_MSG_LEN == 256

\* Header, token, options and payload marker around the payload.
CoapLen(token, options, len) == 4 + token + options + 1 + len

\* coap_next_token has eight bytes, the token of the Linux initiator four.
\* ".well-known/edhoc" is one Uri-Path option there, two here.
TokenLen(i)   == IF On(i) = "linux" THEN 4 ELSE 8
OptionsLen(i) == IF On(i) = "linux" THEN (1 + 11) + (1 + 5) ELSE 2 + 17

RequestFits(i, m) == CoapLen(TokenLen(i), OptionsLen(i), m.len) <= MAX_COAP_MSG_LEN
ReplyFits(i, m)   == CoapLen(TokenLen(i), 0, m.len) <= MAX_COAP_MSG_LEN

\* The Linux initiator's setURI makes an option of each segment, the Zephyr
\* initiator one option of the whole path: edhoc_path does not match that.
MatchesEdhocPath(i) == On(i) = "linux"

\* Slip: int8_t.
CopiedSigned(m) == IF m.len < 128 THEN m ELSE NoMessage

\* _memcpy_s counts in a uint8_t.
Copied(m) == IF m.len < 256 THEN m ELSE NoMessage

Request(i, nr, m) == [from |-> i, token |-> nr, msg |-> m]

\* request is history: which request the message answers.
Reply(d, m, request) == [to |-> d.from, token |-> d.token, msg |-> m, request |-> request]

-----------------------------------------------------------------------------
\* What edhoc_initiator_run and edhoc_responder_run make of a message.  An
\* error message is sent only to a party that could not be authenticated.

\* corr 1: the initiator's has C_I; ERR_MSG has no text.
ErrorMessage(role) == [nr |-> 0, len |-> IF role = "INITIATOR" THEN 2 + 1 ELSE 1]

\* A message 2 for another message 1 is decrypted with another key stream: any
\* bytes are read, and looked up.
ForeignResults(b) ==
    {"ErrorDuringCborDecoding", "UnsupportedCborType", "CborByteStringBufferToSmall",
     "CredentialNotFound", "ResponderAuthenticationFailed"}
    \cup (IF b.peer.id_cred = Null THEN {"undefined"} ELSE {})

InitiatorResults(b, m) ==
    IF m.nr # 2 THEN {"ErrorDuringCborDecoding"}
    ELSE IF m.of = Message1(b) THEN PeerResults(b, m) ELSE ForeignResults(b)

InitiatorSends(b, m, r) ==
    CASE r = "EdhocNoError" -> {Message3(m, b)}
      [] r = "ResponderAuthenticationFailed" -> {ErrorMessage("INITIATOR")}
      [] OTHER -> {}

\* run is the message 2 that the responder has sent in the present run.
Reaction(r, sends, run) == [r |-> r, sends |-> sends, run |-> run]

\* Slip: message 1 is kept for message 2.
ReactionTo1Keeps(b, m) ==
    IF m.nr = 1 THEN {Reaction("EdhocNoError", {Message2(m, b)}, m)}
    ELSE {Reaction("ErrorDuringCborDecoding", {}, NoMessage)}

ReactionTo1(b, m) ==
    IF m.nr = 1
    THEN {Reaction("EdhocNoError", {Message2(m, b)}, Message2(m, b))}
           \cup (IF HasKey(b, StaticDhR(m.method)) THEN {}
                 ELSE {Reaction("undefined", {}, NoMessage)})
    ELSE {Reaction(IF m.nr = 3 THEN "CborByteStringBufferToSmall"
                   ELSE "ErrorDuringCborDecoding", {}, NoMessage)}

\* What the wait for message 3 ends with.  Message 1 has its suite where
\* CIPHERTEXT_3 should be, an error message the empty ERR_MSG: shorter than
\* the tag, so that the length of the plaintext buffer is negative and the
\* behaviour undefined.  aead may refuse, or the program ends.
Message3Results(b, run, m) ==
    IF m.nr = 1 \/ m = ErrorMessage("INITIATOR") THEN {"AEADAuthenticationFailed", "undefined"}
    ELSE IF m.nr # 3 THEN {"ErrorDuringCborDecoding"}
    ELSE IF m.of = run THEN PeerResults(b, m) ELSE {"AEADAuthenticationFailed"}

\* Slip: the run goes on after an error.
ReactionTo3Stays(b, run, m) ==
    { Reaction(r, {}, IF r = "EdhocNoError" THEN NoMessage ELSE run) : r \in Message3Results(b, run, m) }

ReactionTo3(b, run, m) ==
    { Reaction(r, IF r = "ResponderAuthenticationFailed" THEN {ErrorMessage("RESPONDER")} ELSE {},
               NoMessage) : r \in Message3Results(b, run, m) }

Reactions(run, m) ==
    IF run = NoMessage THEN ReactionTo1(Setup.responder.has, m)
    ELSE ReactionTo3(Setup.responder.has, run, m)

\* History: a message 1 that comes while the responder waits for message 3 is
\* refused, if the program goes on at all.
RefusedAfter(m) ==
    IF m.nr # 1 THEN refused ELSE IF thr.run = NoMessage THEN 0 ELSE refused + 1

\* The responder after the reaction x to message m; completed is history:
\* the messages 3 that completed a run.
After(x, m, phase) ==
    /\ thr' = [thr EXCEPT !.phase = phase, !.run = x.run,
                          !.completed = IF m.nr = 3 /\ x.r = "EdhocNoError"
                                        THEN @ \cup {m} ELSE @]
    /\ refused' = RefusedAfter(m)

-----------------------------------------------------------------------------
\* The programs start.  The Zephyr programs first wait for a datagram from
\* their router, while their EDHOC threads are under way.

Init ==
    /\ setup \in DOMAIN Setups
    /\ ini = [i \in Ids |-> [main |-> IF On(i) = "zephyr" THEN "router" ELSE "none", edhoc |-> "tx1", r |-> "none",
                             buffer |-> NoMessage, out |-> Message1(Has(i))]]
    /\ srv = [phase |-> IF Setup.responder.on = "linux" THEN "recv" ELSE "router",
              request |-> Request(1, 0, NoMessage)]
    /\ thr = [phase |-> "rx", run |-> NoMessage, completed |-> {},
              m |-> NoMessage, request |-> Request(1, 0, NoMessage)]
    /\ toServer = {} /\ toInitiator = {} /\ refused = 0

-----------------------------------------------------------------------------
\* The initiator on Linux: tx sends, rx receives, the main function returns.

LinuxSendMessage1(i) ==
    /\ On(i) = "linux" /\ ini[i].edhoc = "tx1"
    /\ ini' = [ini EXCEPT ![i].edhoc = "rx2"]
    /\ toServer' = toServer \cup {Request(i, 1, ini[i].out)}
    /\ UNCHANGED <<setup, srv, thr, toInitiator, refused>>

LinuxTakeMessage2(i) ==
    /\ On(i) = "linux" /\ ini[i].edhoc = "rx2"
    /\ \E d \in toInitiator :
          /\ d.to = i
          /\ \E r \in InitiatorResults(Has(i), Copied(d.msg)) :
                /\ ini' = [ini EXCEPT ![i].edhoc = "ended", ![i].r = r]
                /\ toServer' = toServer \cup
                     { Request(i, 2, m) : m \in InitiatorSends(Has(i), Copied(d.msg), r) }
          /\ toInitiator' = toInitiator \ {d}
    /\ UNCHANGED <<setup, srv, thr, refused>>

-----------------------------------------------------------------------------
\* The initiator on Zephyr: the main thread gets message 1, sends it, receives
\* message 2, puts it, gets message 3, sends it and receives an answer.

Main(i, phase) == On(i) = "zephyr" /\ ini[i].main = phase
Tx(i)          == ini[i].edhoc \in {"tx1", "tx3"}

InitiatorRouter(i) ==
    /\ Main(i, "router")
    /\ ini' = [ini EXCEPT ![i].main = "get1"]
    /\ UNCHANGED <<setup, srv, thr, toServer, toInitiator, refused>>

\* Both threads meet at tx_queue.
InitiatorGets(i, nr) ==
    /\ Main(i, IF nr = 1 THEN "get1" ELSE "get3") /\ Tx(i)
    /\ LET fits == RequestFits(i, ini[i].out)
       IN  /\ ini' = [ini EXCEPT
                 ![i].edhoc = IF @ = "tx1" THEN "rx2" ELSE "ended",
                 ![i].main  = IF ~fits THEN "quit" ELSE IF nr = 1 THEN "recv2" ELSE "recv3"]
           /\ toServer' = IF fits THEN toServer \cup {Request(i, nr, ini[i].out)} ELSE toServer
    /\ UNCHANGED <<setup, srv, thr, toInitiator, refused>>

\* send_msg.size stays MBOX_MSG_SIZE: the payload does not fit.
InitiatorGetTimesOut(i) ==
    /\ Main(i, "get1") \/ Main(i, "get3")
    /\ ~Tx(i) /\ (ini[i].edhoc = "work" => Setup.slow)
    /\ ini' = [ini EXCEPT ![i].main = "quit"]
    /\ UNCHANGED <<setup, srv, thr, toServer, toInitiator, refused>>

InitiatorTxGivesUp(i) ==
    /\ On(i) = "zephyr" /\ ~Setup.patient
    /\ Tx(i) /\ ini[i].main \notin {"get1", "get3"}
    /\ ini' = [ini EXCEPT ![i].edhoc = "ended", ![i].r = "tx"]
    /\ UNCHANGED <<setup, srv, thr, toServer, toInitiator, refused>>

InitiatorReceives(i) ==
    /\ Main(i, "recv2") \/ Main(i, "recv3")
    /\ \E d \in toInitiator :
          /\ d.to = i
          /\ ini' = [ini EXCEPT ![i].main   = IF @ = "recv2" THEN "put" ELSE "quit",
                                ![i].buffer = d.msg]
          /\ toInitiator' = toInitiator \ {d}
    /\ UNCHANGED <<setup, srv, thr, toServer, refused>>

\* They meet at rx_queue.
InitiatorPuts(i) ==
    /\ Main(i, "put") /\ ini[i].edhoc = "rx2"
    /\ ini' = [ini EXCEPT ![i].main = "get3", ![i].edhoc = "work"]
    /\ UNCHANGED <<setup, srv, thr, toServer, toInitiator, refused>>

InitiatorWorks(i) ==
    /\ ini[i].edhoc = "work"
    /\ \E r \in InitiatorResults(Has(i), ini[i].buffer) :
       \E out \in {InitiatorSends(Has(i), ini[i].buffer, r)} :
          ini' = [ini EXCEPT ![i].r     = r,
                             ![i].edhoc = IF out = {} THEN "ended" ELSE "tx3",
                             ![i].out   = IF out = {} THEN @ ELSE CHOOSE m \in out : TRUE,
                             ![i].main  = IF r = "undefined" THEN "quit" ELSE @]
    /\ UNCHANGED <<setup, srv, thr, toServer, toInitiator, refused>>

-----------------------------------------------------------------------------
\* The responder on Linux: one thread, the answer goes to the sender of the
\* datagram received last.

LinuxRespond ==
    /\ Setup.responder.on = "linux" /\ thr.phase = "rx"
    /\ \E d \in toServer : \E x \in Reactions(thr.run, Copied(d.msg)) :
          /\ After(x, Copied(d.msg), IF x.r = "undefined" THEN "gone" ELSE "rx")
          /\ toServer' = toServer \ {d}
          /\ toInitiator' = toInitiator \cup
                { Reply(d, m, [from |-> d.from, token |-> d.token]) : m \in x.sends }
    /\ UNCHANGED <<setup, ini, srv>>

-----------------------------------------------------------------------------
\* The responder on Zephyr: edhoc_post puts the payload of a POST into
\* rx_queue and gets the answer from tx_queue.

InZephyr(phase) ==
    Setup.responder.on = "zephyr" /\ srv.phase = phase /\ thr.phase # "gone"

ServerRouter ==
    /\ InZephyr("router")
    /\ srv' = [srv EXCEPT !.phase = "recv"]
    /\ UNCHANGED <<setup, ini, thr, toServer, toInitiator, refused>>

ServerReceives ==
    /\ InZephyr("recv")
    /\ \E d \in toServer :
          /\ srv' = IF MatchesEdhocPath(d.from) THEN [phase |-> "put", request |-> d] ELSE srv
          /\ toServer' = toServer \ {d}
    /\ UNCHANGED <<setup, ini, thr, toInitiator, refused>>

\* Slip: the POST is given up at rx_queue too, and the answer is got all the
\* same.
ServerPutsOrNot ==
    /\ InZephyr("put")
    /\ srv' = [srv EXCEPT !.phase = "get"]
    /\ thr' = IF thr.phase = "rx"
              THEN [thr EXCEPT !.phase = "work", !.m = srv.request.msg, !.request = srv.request]
              ELSE thr
    /\ UNCHANGED <<setup, ini, toServer, toInitiator, refused>>

ServerPuts ==
    /\ InZephyr("put") /\ thr.phase = "rx"
    /\ srv' = [srv EXCEPT !.phase = "get"]
    /\ thr' = [thr EXCEPT !.phase = "work", !.m = srv.request.msg, !.request = srv.request]
    /\ UNCHANGED <<setup, ini, toServer, toInitiator, refused>>

ServerGets ==
    /\ InZephyr("get") /\ thr.phase = "tx"
    /\ srv' = [srv EXCEPT !.phase = "recv"]
    /\ thr' = [thr EXCEPT !.phase = "rx"]
    /\ toInitiator' =
         IF ReplyFits(srv.request.from, thr.m)
         THEN toInitiator \cup
                {Reply(srv.request, thr.m,
                       [from |-> thr.request.from, token |-> thr.request.token])}
         ELSE toInitiator
    /\ UNCHANGED <<setup, ini, toServer, refused>>

\* Slip: K_FOREVER.
ServerGetNever ==
    /\ InZephyr("get") /\ FALSE
    /\ UNCHANGED vars

\* Slip: the POST is given up while EDHOC works on it.
ServerGetTimesOutAtWork ==
    /\ InZephyr("get")
    /\ thr.phase \in {"rx", "work"}
    /\ srv' = [srv EXCEPT !.phase = "recv"]
    /\ UNCHANGED <<setup, ini, thr, toServer, toInitiator, refused>>

\* Nothing is sent: a payload of MBOX_MSG_SIZE bytes does not fit.
ServerGetTimesOut ==
    /\ InZephyr("get")
    /\ thr.phase = "rx" \/ (thr.phase = "work" /\ Setup.slow)
    /\ srv' = [srv EXCEPT !.phase = "recv"]
    /\ UNCHANGED <<setup, ini, thr, toServer, toInitiator, refused>>

ThreadWorks ==
    /\ thr.phase = "work"
    /\ \E x \in Reactions(thr.run, thr.m) :
          IF x.sends = {}
          THEN After(x, thr.m, IF x.r = "undefined" THEN "gone" ELSE "rx")
          ELSE /\ thr' = [thr EXCEPT !.phase = "tx", !.run = x.run,
                                     !.m = CHOOSE m \in x.sends : TRUE]
               /\ refused' = RefusedAfter(thr.m)
    /\ UNCHANGED <<setup, ini, srv, toServer, toInitiator>>

\* tx returns an error, edhoc_responder_run returns it, the loop begins again.
ThreadTxGivesUp ==
    /\ ~Setup.patient
    /\ thr.phase = "tx" /\ srv.phase # "get"
    /\ thr' = [thr EXCEPT !.phase = "rx", !.run = NoMessage]
    /\ UNCHANGED <<setup, ini, srv, toServer, toInitiator, refused>>

-----------------------------------------------------------------------------

Lose ==
    /\ Setup.lossy
    /\ \/ \E d \in toServer : toServer' = toServer \ {d} /\ UNCHANGED toInitiator
       \/ \E d \in toInitiator : toInitiator' = toInitiator \ {d} /\ UNCHANGED toServer
    /\ UNCHANGED <<setup, ini, srv, thr, refused>>

InitiatorMain(i) ==
    \/ InitiatorRouter(i) \/ InitiatorGets(i, 1) \/ InitiatorGets(i, 3)
    \/ InitiatorGetTimesOut(i) \/ InitiatorReceives(i) \/ InitiatorPuts(i)

InitiatorThread(i) ==
    \/ LinuxSendMessage1(i) \/ LinuxTakeMessage2(i)
    \/ InitiatorTxGivesUp(i) \/ InitiatorWorks(i)

Server ==
    \/ ServerRouter \/ ServerReceives \/ ServerPuts \/ ServerGets \/ ServerGetTimesOut

Thread == LinuxRespond \/ ThreadWorks \/ ThreadTxGivesUp

Next ==
    \/ \E i \in Ids : InitiatorMain(i) \/ InitiatorThread(i)
    \/ Server \/ Thread \/ Lose

\* Every thread goes on when it can; the router sends its datagram.
Fairness ==
    /\ \A i \in 1..3 : /\ WF_vars(i \in Ids /\ InitiatorMain(i))
                       /\ WF_vars(i \in Ids /\ InitiatorThread(i))
    /\ WF_vars(Server) /\ WF_vars(Thread)

Spec == Init /\ [][Next]_vars /\ Fairness

-----------------------------------------------------------------------------
(* Properties. *)

\* The type invariant.
TypeOK ==
    /\ \A i \in Ids :
          /\ ini[i].main \in {"none", "router", "get1", "recv2", "put", "get3", "recv3", "quit"}
          /\ ini[i].edhoc \in {"tx1", "rx2", "work", "tx3", "ended"}
    /\ srv.phase \in {"router", "recv", "put", "get"}
    /\ thr.phase \in {"rx", "work", "tx", "gone"}
    /\ thr.run.nr \in {0, 2}
    /\ \A d \in toServer : d.from \in Ids /\ RequestFits(d.from, d.msg)
    /\ \A d \in toInitiator : d.to \in Ids /\ ReplyFits(d.to, d.msg)

\* A CoAP response carries what EDHOC made of the request with its token, not
\* what it made of an earlier one that was given up: an answer that comes
\* after MBOX_WAIT_TIME is never handed to the next POST.
AnswersItsRequest ==
    \A d \in toInitiator : d.request = [from |-> d.to, token |-> d.token]

\* A responder whose run was abandoned takes the next message 1 for message
\* 3, where it may end: CIPHERTEXT_3 is then shorter than its tag.  If it does
\* not, its loop has begun another run, and the message 1 after that one is
\* answered: no two in a row are refused.
OneRefused == refused <= 1 /\ (refused = 1 => thr.run = NoMessage)

\* The two threads of the Zephyr responder do not wait for each other, the one
\* in rx_queue and the other in tx_queue, as long as EDHOC answers within
\* MBOX_WAIT_TIME.
NoStandstill == srv.phase = "put" /\ thr.phase = "tx" => Setup.slow

\* The Zephyr server gets back to its socket after every POST, also after
\* message 3, to which EDHOC has no answer.  The exception is a wrapper that
\* waits for ever with an answer that comes too late: the server's thread
\* then waits in rx_queue for the EDHOC thread, that one in tx_queue for it.
ServerReturns ==
    (srv.phase \in {"put", "get"} /\ ~(Setup.patient /\ Setup.slow))
        ~> (srv.phase = "recv" \/ thr.phase = "gone")

\* Programs compiled with blocks of one vector, with nothing lost and nothing
\* late, complete the protocol, unless the comparison with a null pointer
\* ends one of them.
SamplesComplete ==
    Setup.matching ~>
        \/ /\ \A i \in Ids : ini[i].r = "EdhocNoError"
           /\ Cardinality(thr.completed) = Cardinality(Ids)
        \/ thr.phase = "gone" \/ \E i \in Ids : ini[i].r = "undefined"

=============================================================================

---------------------------- MODULE OscoreSamples ----------------------------
(***************************************************************************)
(* The OSCORE sample programs on top of coap2oscore and oscore2coap: the   *)
(* Linux client, which asks for a protected and an unprotected resource in *)
(* turn, and the Linux server or the Zephyr server that answers it.  Other *)
(* CoAP clients send packets of their own to the server.                   *)
(*                                                                         *)
(* The programs use their buffers again: buf_oscore_len and                *)
(* coap_rx_buf_len are the room in the buffer before a call and the length *)
(* of the packet after it, results other than OscoreNoError are printed    *)
(* and nothing more, and a packet is sent whatever the result was.         *)
(***************************************************************************)
EXTENDS OscorePackets

CONSTANTS
    Setups,         \* a sequence: who takes part, what is asked, and the bounds, see SetupOK
    Strays,         \* what other clients may send
    AnyCapacity,    \* what an uninitialised decrypted_oscore_len may hold
    BufLen          \* sizeof(buf_oscore)

VARIABLES
    setup,     \* which of the setups this is; it never changes
    client,    \* the client program
    server,    \* the server program
    toServer,  \* datagrams on their way to the server
    toClient,  \* datagrams on their way to the client
    served,    \* history: the client's last packet and what the server made of it
    strays     \* history: how many packets other clients have sent

Setup == Setups[setup]

vars == <<setup, client, server, toServer, toClient, served, strays>>

\* Fresh: does the application set the length to the room in the buffer
\* before each call?  The tests do, the Linux programs do not.
SetupOK(s) ==
    /\ s.server \in {"linux", "zephyr"}
    /\ s.fresh \in BOOLEAN
    /\ s.rounds \in Nat   \* bound: requests of the client
    /\ s.strays \in Nat   \* bound: packets of other clients
    /\ {"secure", "plain", "answers"} \subseteq DOMAIN s   \* what is asked and answered

ASSUME SamplesAssumption == \A i \in DOMAIN Setups : SetupOK(Setups[i])

-----------------------------------------------------------------------------
(* CoAP messages as the CoAP libraries encode them (RFC 7252).             *)

GET     == 1
Created == 65
Content == 69

Con == 4   \* version 1, confirmable
Ack == 6   \* version 1, acknowledgement

RfcNibble(n) == IF n < 13 THEN n ELSE IF n < 269 THEN 13 ELSE 14

RfcExtension(n) ==
    CASE n < 13  -> <<>>
      [] n \in 13..268 -> <<n - 13>>
      [] OTHER -> <<(n - 269) \div 256, (n - 269) % 256>>

RfcOption(delta, value) ==
    <<(RfcNibble(delta) * 16) + RfcNibble(Len(value))>>
        \o RfcExtension(delta) \o RfcExtension(Len(value)) \o value

Gap(options, i) == options[i].number - (IF i = 1 THEN 0 ELSE options[i - 1].number)

\* The encodings of the first i options, one after the other.
EncodedOptions(options) ==
    LET encoded[i \in 0..Len(options)] ==
            IF i = 0 THEN <<>>
            ELSE encoded[i - 1] \o RfcOption(Gap(options, i), options[i].value)
    IN  encoded

Encode(m) ==
    <<m.kind * 16 + Len(m.token), m.code>> \o m.MID \o m.token
        \o EncodedOptions(m.options)[Len(m.options)]
        \o (IF m.payload = <<>> THEN <<>> ELSE <<Marker>> \o m.payload)

\* The fields a server copies from the bytes of a request.
TokenOf(bytes) == Slice(bytes, 5, bytes[1] % 16)
MidOf(bytes)   == Slice(bytes, 3, 2)

-----------------------------------------------------------------------------

Nothing == [b |-> <<>>, len |-> 0]

\* The length an application passes with a buffer.
Room(buffer) == IF Setup.fresh THEN [buffer EXCEPT !.len = BufLen] ELSE buffer

\* What sendto sends of a buffer.
Datagram(out) == [bytes |-> Slice(out.b, 1, out.len), seal |-> out.seal]

\* The secret and the ID Context that the two programs have been given.
TheSecret    == CHOOSE ms \in Secrets : TRUE
TheIdContext == CHOOSE idc \in IdContexts : TRUE

EmptyOut == [b |-> <<>>, len |-> BufLen, seal |-> Unset]

\* round counts the requests; asked is the message the application made, got
\* the buffer it was handed with the result r.
Init ==
    /\ setup \in DOMAIN Setups
    /\ client = [round |-> 0, waits |-> FALSE, asked |-> <<>>, got |-> Nothing, r |-> "none",
                 c |-> ContextInit(ClientId, TheSecret, TheIdContext),
                 out |-> EmptyOut, rx |-> Nothing, flag |-> FALSE]
    /\ server = [c |-> ContextInit(ServerId, TheSecret, TheIdContext),
                 out |-> EmptyOut, rx |-> Nothing, flag |-> FALSE]
    /\ toServer = {} /\ toClient = {} /\ strays = 0
    /\ served = [asked |-> <<>>, secure |-> FALSE, r |-> "none", seen |-> <<>>]

-----------------------------------------------------------------------------
(* The client. *)

\* The first request is a protected one, then the two kinds alternate.
Secure(round) == round % 2 = 1

Request(q, round) ==
    [kind |-> Con, code |-> q.code,
     MID   |-> IF Secure(round)
               THEN <<1 + (round \div 512), (round \div 2) % 256>>
               ELSE <<0, ((round \div 2) - 1) % 256>>,
     token |-> <<round % 256, round \div 256, 0, 0>>,
     options |-> q.options, payload |-> q.payload]

SendSecure(q) ==
    LET round == client.round + 1
        asked == Request(q, round)
    IN  /\ ~client.waits /\ round <= Setup.rounds /\ Secure(round)
        /\ \E done \in {coap2oscore(Encode(asked), client.c, Room(client.out))} :
               /\ client' = [client EXCEPT !.round = round, !.waits = TRUE, !.asked = asked,
                                           !.c = done.c, !.out = done.out]
               /\ toServer' = toServer \cup {Datagram(done.out)}
        /\ UNCHANGED <<setup, server, toClient, served, strays>>

SendPlain(q) ==
    LET round == client.round + 1
        asked == Request(q, round)
    IN  /\ ~client.waits /\ round <= Setup.rounds /\ ~Secure(round)
        /\ client' = [client EXCEPT !.round = round, !.waits = TRUE, !.asked = asked]
        /\ toServer' = toServer \cup {[bytes |-> Encode(asked), seal |-> Unset]}
        /\ UNCHANGED <<setup, server, toClient, served, strays>>

\* The answer to a protected request is converted, whatever it is; the
\* answer to an unprotected one is taken as it is.
TakeAnswer(p) ==
    /\ client.waits /\ p \in toClient
    /\ toClient' = toClient \ {p}
    /\ IF Secure(client.round)
       THEN \E done \in {oscore2coap(p, client.flag, client.c, Room(client.rx))} :
                client' = [client EXCEPT !.waits = FALSE, !.c = done.c, !.rx = done.out,
                                         !.flag = done.flag, !.got = done.out, !.r = done.r]
       ELSE client' = [client EXCEPT !.waits = FALSE, !.r = "plain",
                                     !.got = [b |-> p.bytes, len |-> Len(p.bytes)]]
    /\ UNCHANGED <<setup, server, toServer, served, strays>>

-----------------------------------------------------------------------------
(* The servers. *)

FromClient(p) == p \notin Strays

\* An answer goes to the sender of the packet just received.
SendTo(p, answers) ==
    /\ toServer' = toServer \ {p}
    /\ toClient' = IF FromClient(p) THEN toClient \cup answers ELSE toClient

Serve(p, done, seen) ==
    served' = IF FromClient(p)
              THEN [asked |-> client.asked, secure |-> Secure(client.round),
                    r |-> done.r, seen |-> seen]
              ELSE served

\* prepare_CoAP_response: token and message ID of the request.
Response(bytes, kind, a) ==
    Encode([kind |-> kind, code |-> a.code, MID |-> MidOf(bytes), token |-> TokenOf(bytes),
            options |-> a.options, payload |-> a.payload])

SampleAnswer == [code    |-> Content,
                 options |-> <<>>,
                 payload |-> <<84, 104, 105, 115>>]   \* "This is a response!"

LinuxOpen(p) == oscore2coap(p, server.flag, server.c, Room(server.rx))

\* After the conversion done: the answer to the packet seen, protected when
\* that is the converted one.
LinuxAnswer(p, a, done, converted) ==
    LET seen   == IF converted THEN Slice(done.out.b, 1, done.out.len) ELSE p.bytes
        answer == Response(seen, Ack, a)
        reply  == coap2oscore(answer, done.c, Room(server.out))
        next   == [server EXCEPT !.c = done.c, !.rx = done.out, !.flag = done.flag]
    IN  /\ IF converted
           THEN /\ server' = [next EXCEPT !.c = reply.c, !.out = reply.out]
                /\ SendTo(p, {Datagram(reply.out)})
           ELSE /\ server' = next
                /\ SendTo(p, {[bytes |-> answer, seal |-> Unset]})
        /\ Serve(p, done, seen)

\* Slip: an answer is protected only when the conversion succeeded.
LinuxReceiveChecked(p, a) ==
    /\ Setup.server = "linux" /\ p \in toServer
    /\ \E done \in {LinuxOpen(p)} :
           LinuxAnswer(p, a, done, done.flag /\ done.r = "OscoreNoError")
    /\ UNCHANGED <<setup, client, strays>>

\* Slip: nothing is sent after an error.
LinuxReceiveSilent(p, a) ==
    /\ Setup.server = "linux" /\ p \in toServer
    /\ \E done \in {LinuxOpen(p)} :
           IF done.r = "OscoreNoError" THEN LinuxAnswer(p, a, done, done.flag)
           ELSE /\ server' = [server EXCEPT !.c = done.c, !.rx = done.out, !.flag = done.flag]
                /\ SendTo(p, {}) /\ Serve(p, done, p.bytes)
    /\ UNCHANGED <<setup, client, strays>>

\* One round of the Linux server's loop.  What decides how it answers, and
\* which packet it answers, is the flag; the result code is only printed.
LinuxReceive(p, a) ==
    /\ Setup.server = "linux" /\ p \in toServer
    /\ \E done \in {LinuxOpen(p)} : LinuxAnswer(p, a, done, done.flag)
    /\ UNCHANGED <<setup, client, strays>>

UriPath == 11
UriPaths(bytes) ==
    LET options == buf2coap(bytes).options
    IN  {options[i].value : i \in {i \in DOMAIN options : options[i].number = UriPath}}

Tv1   == <<116, 118, 49>>              \* "tv1"
Edhoc == <<101, 100, 104, 111, 99>>    \* "edhoc"
Core  == <<99, 111, 114, 101>>         \* ".well-known/core", its last segment

SecuredGet(flag) == [code    |-> Content,
                     options |-> <<[number |-> 12, value |-> <<0>>]>>,
                     payload |-> IF flag THEN <<83>> ELSE <<86>>]   \* "Secret Mesg!", "Visible Mesg"
WellKnownCore == [code |-> Content, options |-> <<[number |-> 12, value |-> <<40>>]>>, payload |-> <<60>>]
EdhocPost     == [code |-> Created, options |-> <<[number |-> 8, value |-> <<108>>]>>, payload |-> <<>>]

\* The handlers of the Zephyr server.  Only oscore_secured_get looks at the
\* flag; the other two answer without protection.
NoHandler == [answers |-> {}, out |-> server.out, c |-> server.c]

Handle(request, flag, c) ==
    LET kind  == IF request[1] \div 16 = Con THEN Ack ELSE Con + 1
        path  == UriPaths(request)
        Plain(a) == [NoHandler EXCEPT
                        !.answers = {[bytes |-> Response(request, kind, a), seal |-> Unset]},
                        !.c = c]
        reply == coap2oscore(Response(request, kind, SecuredGet(TRUE)), c,
                             [server.out EXCEPT !.len = BufLen])
    IN  CASE request[2] = GET /\ Tv1 \in path ->
                IF flag
                THEN [answers |-> {Datagram(reply.out)}, out |-> reply.out, c |-> reply.c]
                ELSE Plain(SecuredGet(FALSE))
          [] request[2] = GET /\ Core \in path -> Plain(WellKnownCore)
          [] request[2] = POST /\ Edhoc \in path -> Plain(EdhocPost)
          [] OTHER -> [NoHandler EXCEPT !.c = c]

\* process_coap_request: the test of the result, "r < 0", is never true.
\* After a failed conversion of a protected packet coap_packet_parse reads
\* memory that was not written: what is left of an earlier request, under
\* what was written of this one, or nothing it accepts.
ZephyrReceive(p) ==
    /\ Setup.server = "zephyr" /\ p \in toServer
    /\ \E room \in AnyCapacity :
       \E done \in {oscore2coap(p, server.flag, server.c, [server.rx EXCEPT !.len = room])} :
       \E request \in IF ~done.flag THEN {p.bytes}
                      ELSE IF done.r = "OscoreNoError"
                           THEN {Slice(done.out.b, 1, done.out.len)}
                      ELSE {Slice(done.out.b, 1, server.rx.len), <<>>} :
       \E reply \in {IF request = <<>> \/ buf2coap(request).r # "OscoreNoError"
                     THEN [NoHandler EXCEPT !.c = done.c]
                     ELSE Handle(request, done.flag, done.c)} :
           /\ server' = [c |-> reply.c, out |-> reply.out, flag |-> done.flag,
                         rx |-> [done.out EXCEPT !.len =
                                    IF done.flag /\ done.r = "OscoreNoError"
                                    THEN @ ELSE server.rx.len]]
           /\ SendTo(p, reply.answers)
           /\ Serve(p, done, request)
    /\ UNCHANGED <<setup, client, strays>>

\* Other clients, once the server has converted a first packet.
Stray(p) ==
    /\ strays < Setup.strays /\ server.rx.b # <<>>
    /\ p \notin toServer
    /\ toServer' = toServer \cup {p}
    /\ strays' = strays + 1
    /\ UNCHANGED <<setup, client, server, toClient, served>>

Receive(p) == (\E a \in Setup.answers : LinuxReceive(p, a)) \/ ZephyrReceive(p)

Next ==
    \/ \E q \in Setup.secure : SendSecure(q)
    \/ \E q \in Setup.plain : SendPlain(q)
    \/ \E p \in toClient : TakeAnswer(p)
    \/ \E p \in toServer : Receive(p)
    \/ \E p \in Strays : Stray(p)

\* The server's loop and the client's recvfrom go on: a datagram does not
\* wait for ever.  Only Receive and TakeAnswer take one away.
Fairness ==
    /\ WF_toServer(\E p \in toServer : toServer' = toServer \ {p})
    /\ WF_toClient(\E p \in toClient : toClient' = toClient \ {p})

Spec == Init /\ [][Next]_vars /\ Fairness

-----------------------------------------------------------------------------
(* Properties. *)

\* The options with one of the numbers, in their order.
WithNumbers(options, numbers) ==
    LET chosen[i \in 0..Len(options)] ==
            IF i = 0 THEN <<>>
            ELSE IF options[i].number \in numbers THEN Append(chosen[i - 1], options[i])
            ELSE chosen[i - 1]
    IN  chosen[Len(options)]

\* What can be seen of a protected message: its header with the code
\* replaced, its token, its options of class U and the OSCORE option.
Visible(m, value) ==
    Encode([m EXCEPT !.code    = POST,
                     !.options = WithNumbers(m.options, {n \in ClassU : n < OSCORE})
                                     \o <<[number |-> OSCORE, value |-> value]>>
                                     \o WithNumbers(m.options, {n \in ClassU : n > OSCORE}),
                     !.payload = <<>>])

SentValue == oscore_option_generate(client.c.piv, client.c.kid_context, ClientId)

\* A packet the client sends for a protected request can be read by every
\* CoAP implementation up to the marker, shows the options of class U and
\* nothing of the others, and holds nothing but ciphertext behind the marker,
\* also when coap2buf gave up half way and the buffer is sent with the
\* remains of an earlier packet.
OnlyOuterVisible ==
    \A p \in toServer :
        FromClient(p) /\ Secure(client.round) =>
            LET visible == Append(Visible(client.asked, SentValue), Marker)
            IN  /\ SubSeq(p.bytes, 1, Len(visible)) = visible
                /\ \A i \in Len(visible) + 1..Len(p.bytes) : p.bytes[i] < 0

\* The requests that reach the other application: the PIV has no byte that
\* looks like the marker, and the packet has not grown since the length of
\* the buffer was taken from an earlier one.
Passes ==
    /\ client.c.piv = Unset \/ \A i \in DOMAIN client.c.piv : client.c.piv[i] # Marker
    /\ Setup.fresh \/ client.c.sender_seq_num <= Radix

\* The server application is handed the request byte for byte as the client
\* application made it: option numbers, values, payload, token, message ID.
\* The Zephyr server gets it like this or not at all.
RequestIntact ==
    client.waits /\ Secure(client.round) /\ Passes /\ served.asked = client.asked =>
        /\ Setup.server = "linux" => served.r = "OscoreNoError"
        /\ served.r = "OscoreNoError" => served.seen = Encode(client.asked)

\* The answers an application may be handed for what it asked.
Answers(m) ==
    IF Setup.server = "linux" THEN Setup.answers
    ELSE {SecuredGet(TRUE), WellKnownCore, EdhocPost}

\* The client application is handed an answer of the server application to
\* its request, byte for byte as the server application made it (and for the
\* Zephyr server, when this one could convert the request).
AnswerIntact ==
    ~client.waits /\ client.round > 0 /\ Secure(client.round) /\ Passes /\ client.flag
        /\ (Setup.server = "linux" \/ served.r = "OscoreNoError") =>
        /\ client.r = "OscoreNoError"
        /\ Slice(client.got.b, 1, client.got.len) \in
              {Response(Encode(client.asked), Ack, a) : a \in Answers(client.asked)}

\* A protected request for the secured resource is never answered in the
\* clear, nor an unprotected one with a protected packet: the flag by which
\* a server decides is not one left over from an earlier packet.  (The
\* Zephyr server, when it could not convert the request, handles an earlier
\* one in its place, which may be one it answers in the clear.)
AnsweredInKind ==
    ~client.waits /\ client.round > 0 =>
        IF Secure(client.round)
        THEN Setup.server = "linux"
                \/ (served.r = "OscoreNoError" /\ Tv1 \in UriPaths(Encode(client.asked)))
             => client.flag
        ELSE \A i \in 1..client.got.len : client.got.b[i] >= 0

\* The Linux server answers every packet, so the Linux client, which waits
\* in recvfrom without a time limit, always gets to its next request.
ClientGoesOn == (client.waits /\ Setup.server = "linux") ~> ~client.waits

\* The type invariant.
TypeOK ==
    /\ setup \in DOMAIN Setups
    /\ client.c \in Contexts /\ server.c \in Contexts
    /\ client.round \in 0..Setup.rounds /\ client.waits \in BOOLEAN
    /\ \A p \in toServer \cup toClient : DOMAIN p = {"bytes", "seal"}
    /\ strays \in 0..Setup.strays

=============================================================================

---------------------------- MODULE MCOscoreSamples ----------------------------
(***************************************************************************)
(* Instances of OscoreSamples for TLC: the sample programs with the IDs    *)
(* and messages they have, messages with more options for the applications *)
(* of the tests, and the packets of other clients.                         *)
(***************************************************************************)
EXTENDS OscoreSamples

MCWeight == [i \in 0..SSN_LEN |-> Radix ^ i]

\* The client's ID is empty and there is an ID Context of two bytes.
MCClientId   == <<>>
MCServerId   == <<1>>
MCIdContexts == {<<55, 203>>}
MCCtxLen     == [idc \in IdContexts |-> Len(idc)]

Option(number, value) == [number |-> number, value |-> value]

Get(options, payload) == [code |-> GET, options |-> options, payload |-> payload]

\* "This is some payload", "tv1" and "tv2" of the Linux client.
SampleRequest  == Get(<<Option(UriPath, Tv1)>>, <<84, 104>>)
SamplePlain    == Get(<<Option(UriPath, <<116, 118, 50>>)>>, <<84, 104>>)

\* If-Match, Uri-Host, ETag, Observe, Uri-Port, Uri-Path, Content-Format,
\* Accept and Size1, one and two segments, an empty and a 12 byte value.
Long == [i \in 1..12 |-> i]
TestOptions ==
    <<Option(1, <<7>>), Option(3, <<104>>), Option(4, <<>>), Option(6, <<0>>),
      Option(7, <<22, 51>>), Option(UriPath, Tv1), Option(UriPath, Long),
      Option(12, <<>>), Option(17, <<40>>)>>

\* The chosen ones of them, in their order.
OptionLists ==
    { LET order == SelectSeq([i \in DOMAIN TestOptions |-> i], LAMBDA i : i \in chosen)
      IN  [k \in DOMAIN order |-> TestOptions[order[k]]] :
        chosen \in SUBSET DOMAIN TestOptions }

\* The messages that pass the codec: no delta of 13 or more in the packet,
\* among the inner options, and none among the outer ones.
Increases(options) ==
    \A i \in DOMAIN options :
        options[i].number - (IF i = 1 THEN 0 ELSE options[i - 1].number) < 13

Plain(options) ==
    /\ Increases(options)
    /\ Increases(SelectSeq(options, LAMBDA o : is_class_e(o.number)))

TestRequests ==
    { Get(o, p) : o \in {x \in OptionLists : Plain(x)}, p \in {<<>>, <<84, 255, 0>>} }

TestAnswers ==
    { [code |-> Content, options |-> o, payload |-> p] :
        o \in {<<>>, <<Option(4, <<7>>), Option(12, <<>>)>>}, p \in {<<>>, <<84, 255>>} }

\* Malformed (a reserved option delta), for another context, and unprotected.
Malformed == [bytes |-> <<64, GET, 7, 7, 240>>, seal |-> Unset]
OtherKid  == [bytes |-> <<64, POST, 7, 8, 147, 9, 0, 66, Marker, -1, -2>>, seal |-> Unset]
PlainGet  == [bytes |-> <<65, GET, 7, 9, 99, 176 + 3>> \o Tv1, seal |-> Unset]
MCStrays  == {Malformed, OtherKid, PlainGet}

Of(who, fresh, rounds, others, secure, plain, answers) ==
    [server |-> who, fresh |-> fresh, rounds |-> rounds, strays |-> others,
     secure |-> secure, plain |-> plain, answers |-> answers]

\* The Linux programs from the first to the 258th protected request.
ForLong(fresh) ==
    Of("linux", fresh, 515, 0, {SampleRequest}, {SamplePlain}, {SampleAnswer})

MCSetups ==
    << ForLong(FALSE),
       ForLong(TRUE),
       Of("linux", FALSE, 5, 2, {SampleRequest}, {SamplePlain}, {SampleAnswer}),
       Of("linux", TRUE, 1, 0, TestRequests, {SamplePlain}, TestAnswers),
       Of("zephyr", TRUE, 4, 2,
          {SampleRequest, Get(<<Option(UriPath, Core)>>, <<>>),
           [Get(<<Option(UriPath, Edhoc)>>, <<1>>) EXCEPT !.code = POST]},
          {SampleRequest}, {}) >>

\* 10: the header and the token fit, the options do not.
MCAnyCapacity == {0, 10, 12, 1024}

=============================================================================

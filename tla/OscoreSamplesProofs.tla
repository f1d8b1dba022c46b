------------------------- MODULE OscoreSamplesProofs -------------------------
(***************************************************************************)
(* The Linux client and the Linux server exchange ordinary messages: what  *)
(* the one application makes is what the other one is handed, for any      *)
(* number of rounds, whatever the buffers held before and whatever other   *)
(* clients send in between.                                                *)
(***************************************************************************)
EXTENDS OscoreSamples, OscorePacketsProofs

-----------------------------------------------------------------------------
\* The messages the theorems are about.

\* A message of the application as buf2coap hands it over.
AsParsed(m) == Parsed(m.kind, m.code, m.MID, m.token, Deltas(m.options), m.payload)

AppOptions == [number : Octets, value : Cells]

\* Options in order, less than 13 apart, with values of less than 13 bytes.
ShortOptions(options) ==
    /\ options \in Seq(AppOptions)
    /\ \A i \in 1..Len(options) :
           Len(options[i].value) < 13 /\ 0 <= Gap(options, i) /\ Gap(options, i) < 13

\* Options that come through both codecs: none of class U behind the OSCORE
\* option, no marker in a value, and the inner ones less than 13 apart.
OrdinaryOptions(options) ==
    /\ ShortOptions(options)
    /\ \A i \in 1..Len(options) :
           /\ ~is_class_e(options[i].number) => options[i].number < OSCORE
           /\ \A j \in 1..Len(options[i].value) :
                  options[i].value[j] >= 0 /\ options[i].value[j] # Marker
    /\ LET inner == InnerOptions(Deltas(options))
       IN  \A j \in 1..Len(inner) : inner[j].delta < 13

OrdinaryContent(q) == q.code \in Nat /\ OrdinaryOptions(q.options) /\ q.payload \in Seq(Nat)

OrdinaryMessage(m) ==
    /\ m = [kind |-> m.kind, code |-> m.code, MID |-> m.MID, token |-> m.token,
            options |-> m.options, payload |-> m.payload]
    /\ m.kind \in 0..15 /\ OrdinaryContent(m)
    /\ m.MID \in Seq(Nat) /\ Len(m.MID) = 2
    /\ m.token \in Seq(Nat) /\ Len(m.token) = 4

\* The bytes of a message, and of a protected one.
PacketOf(in) ==
    PacketBytes(Header(in), in.token, options_into_byte_string(in.options), in.payload)

PlaintextFor(m) == PlaintextOf(m.code, Deltas(m.options), m.payload)

SealedPacket(m, value) == PacketOf(Sealed(AsParsed(m), value, Len(PlaintextFor(m))))

SealedDatagram(m, value, key, nonce, aad) ==
    [bytes |-> SealedPacket(m, value), seal |-> Seal(key, nonce, aad, PlaintextFor(m))]

\* The value of the OSCORE option of the client's request number n.
ValueOf(n) == oscore_option_generate(sender_seq_num2piv(n), TheIdContext, ClientId)

NoMarkerIn(piv) == \A i \in DOMAIN piv : piv[i] # Marker

AnswerTo(m, a) ==
    [kind |-> Ack, code |-> a.code, MID |-> m.MID, token |-> m.token,
     options |-> a.options, payload |-> a.payload]

-----------------------------------------------------------------------------
\* The setups the theorems are about.

\* The protected requests of a setup, number n in round 2 * n + 1.
Numbers(s) == {n \in 0..s.rounds : 2 * n + 1 <= s.rounds}
Requests(s) == {Request(q, 2 * n + 1) : q \in s.secure, n \in Numbers(s)}

AskedPackets(s)   == {Encode(m) : m \in Requests(s)}
AnswerPackets(s)  == {Encode(AnswerTo(m, a)) : m \in Requests(s), a \in s.answers}
SealedRequests(s) ==
    {SealedPacket(Request(q, 2 * n + 1), ValueOf(n)) : q \in s.secure, n \in Numbers(s)}
SealedAnswers(s)  == {SealedPacket(AnswerTo(m, a), <<>>) : m \in Requests(s), a \in s.answers}

\* Packets fit into the buffer, and they are of one length when the length
\* of the last one is taken for the room in the buffer.
Suits(s, packets) ==
    /\ \A b \in packets : Len(b) <= BufLen
    /\ ~s.fresh => \A b, x \in packets : Len(b) = Len(x)

\* A packet from which the server takes neither a PIV nor an ID Context, and
\* which it does not convert.
NotForServer(p) ==
    LET in     == buf2coap(p.bytes)
        option == oscore_option_parser(in.options)
    IN  /\ DOMAIN p = {"bytes", "seal"}
        /\ \/ in.r # "OscoreNoError"
           \/ option.r # "OscoreNoError"
           \/ option.flag = FALSE
           \/ IsRequest(in.code) /\ option.kid # ClientId

\* The identities and the room of coap.h: the values of the OSCORE option
\* have less than 13 bytes, of which only those of the PIV may be a marker.
OrdinaryIds ==
    /\ Secrets # {} /\ IdContexts # {} /\ Unset \notin PIV
    /\ MAX_PIV_LEN <= 5 /\ BufLen \in Nat
    /\ InitFits(ClientId, TheIdContext)
    /\ ClientId \in Seq(Octets) /\ NoMarker(ClientId)
    /\ TheIdContext \in Seq(Octets) /\ NoMarker(TheIdContext)
    /\ \A key, nonce, aad, plaintext : Seal(key, nonce, aad, plaintext) # Unset

Ordinary(s) ==
    /\ OrdinaryIds
    /\ s.server = "linux"
    /\ \A q \in s.secure : OrdinaryContent(q) /\ IsRequest(q.code)
    /\ \A q \in s.plain : OrdinaryContent(q)
    /\ \A a \in s.answers : OrdinaryContent(a) /\ ~IsRequest(a.code)
    /\ \A n \in Numbers(s) :
           FitsPiv(n) /\ Len(ValueOf(n)) < 13 /\ Len(ValueOf(n)) <= OSCORE_OPT_VALUE_LEN
    /\ Suits(s, AskedPackets(s)) /\ Suits(s, AnswerPackets(s))
    /\ Suits(s, SealedRequests(s)) /\ Suits(s, SealedAnswers(s))
    /\ \A p \in Strays : NotForServer(p)

-----------------------------------------------------------------------------
\* The inductive invariant.

\* The client's context after n protected requests.
ClientContext(c, n) ==
    /\ c \in Contexts /\ c.kid_context = TheIdContext
    /\ c.sender_key = Key(TheSecret, TheIdContext, ClientId)
    /\ c.recipient_key = Key(TheSecret, TheIdContext, ServerId)
    /\ c.common_iv = CommonIV(TheSecret, TheIdContext)
    /\ c.sender_seq_num = n
    /\ n > 0 => /\ c.piv = sender_seq_num2piv(n - 1)
                /\ c.nonce = create_nonce(c.piv, c.common_iv) /\ c.aad = create_aad(c.piv)

\* The server's: its keys and ID Context do not change.
ServerContext(c) ==
    /\ c \in Contexts /\ c.master_secret = TheSecret /\ c.id_context = TheIdContext
    /\ c.sender_key = Key(TheSecret, TheIdContext, ServerId)
    /\ c.recipient_key = Key(TheSecret, TheIdContext, ClientId)
    /\ c.common_iv = CommonIV(TheSecret, TheIdContext)

\* The length left in a buffer does for the packets.
Roomy(len, packets) ==
    len \in Nat /\ (Setup.fresh \/ len < 4 \/ \A b \in packets : Len(b) <= len)

Usable(buffer, packets) ==
    {"b", "len"} \subseteq DOMAIN buffer /\ buffer.b \in Cells /\ Roomy(buffer.len, packets)

ClientInv ==
    /\ DOMAIN client = {"round", "waits", "asked", "got", "r", "c", "out", "rx", "flag"}
    /\ client.round \in 0..Setup.rounds /\ client.waits \in BOOLEAN
    /\ ClientContext(client.c, (client.round + 1) \div 2)
    /\ Usable(client.out, SealedRequests(Setup)) /\ Usable(client.rx, AnswerPackets(Setup))

\* What the client has asked, and whether that has been served.
AskedInv ==
    /\ IF client.round = 0 THEN client.asked = <<>> /\ ~client.waits
       ELSE IF Secure(client.round)
            THEN \E q \in Setup.secure : client.asked = Request(q, client.round)
            ELSE \E q \in Setup.plain : client.asked = Request(q, client.round)
    /\ ~client.waits => served.asked = client.asked
    /\ /\ client.round > 0 /\ Secure(client.round) /\ served.asked = client.asked
       /\ NoMarkerIn(client.c.piv)
       => served.r = "OscoreNoError" /\ served.seen = Encode(client.asked)

\* What the client was handed.
HandedInv ==
    ~client.waits /\ client.round > 0 =>
        IF Secure(client.round)
        THEN /\ client.flag = TRUE /\ client.r = "OscoreNoError"
             /\ \E m \in Requests(Setup), a \in Setup.answers :
                    /\ Slice(client.got.b, 1, client.got.len) = Encode(AnswerTo(m, a))
                    /\ NoMarkerIn(client.c.piv) => m = client.asked
        ELSE \A i \in 1..client.got.len : client.got.b[i] >= 0

\* Cells that a request of the client was written to.
HoldsRequest(b) ==
    /\ Len(b) >= 8
    /\ \E m \in Requests(Setup) : \A i \in 1..8 : b[i] = Encode(m)[i]

ServerInv ==
    /\ DOMAIN server = {"c", "out", "rx", "flag"} /\ ServerContext(server.c)
    /\ Usable(server.out, SealedAnswers(Setup)) /\ Usable(server.rx, AskedPackets(Setup))
    /\ IF server.rx.b = <<>>
       THEN server.flag = FALSE /\ (client.round = 0 \/ (client.round = 1 /\ client.waits))
            /\ toClient = {} /\ served.asked = <<>>
       ELSE HoldsRequest(server.rx.b) /\ server.rx.len >= 8

RequestPacket ==
    IF Secure(client.round)
    THEN SealedDatagram(client.asked, ValueOf(client.c.sender_seq_num - 1),
                        client.c.sender_key, client.c.nonce, client.c.aad)
    ELSE [bytes |-> Encode(client.asked), seal |-> Unset]

IsAnswer(p) ==
    IF Secure(client.round)
    THEN \E m \in Requests(Setup), a \in Setup.answers :
             /\ p = SealedDatagram(AnswerTo(m, a), <<>>, Key(TheSecret, TheIdContext, ServerId),
                                   client.c.nonce, client.c.aad)
             /\ NoMarkerIn(client.c.piv) => m = client.asked
    ELSE \E a \in Setup.answers :
             p = [bytes |-> Encode(AnswerTo(client.asked, a)), seal |-> Unset]

\* At most one packet of the client is on its way, or one answer to it.
NetworkInv ==
    /\ \A p \in toServer : p \in Strays \/ /\ p = RequestPacket /\ client.waits /\ toClient = {}
                                           /\ served.asked # client.asked
    /\ \A p \in toServer :
           p \in Strays => server.rx.b # <<>> \/ (client.waits /\ p = RequestPacket)
    /\ \A p \in toClient : /\ client.waits /\ IsAnswer(p) /\ served.asked = client.asked
                           /\ \A x \in toClient : x = p
    /\ strays \in 0..Setup.strays

SamplesInv == ClientInv /\ AskedInv /\ HandedInv /\ ServerInv /\ NetworkInv

-----------------------------------------------------------------------------
\* Options as the libraries encode them and as the codec writes them.

LEMMA SmallGap ==
    ASSUME NEW a \in Int, NEW b \in Int, 0 <= a, a < 256, 0 <= b, b < 256,
           NEW g \in Int, g = a - b, 0 <= g, g < 13
    PROVE  U8(a) = a /\ U16(a - U8(b)) = g /\ a = b + g /\ U16(a - 0) = a
BY DEF U8, U16

LEMMA AppOptionsTyped ==
    ASSUME NEW options \in Seq(AppOptions)
    PROVE  /\ Len(options) \in Nat /\ DOMAIN options = 1..Len(options)
           /\ \A j \in 1..Len(options) :
                  options[j].number \in Octets /\ options[j].value \in Cells
<1>1. \A j \in 1..Len(options) : options[j] \in AppOptions
  OBVIOUS
<1>2. \A o \in AppOptions : o.number \in Octets /\ o.value \in Cells
  BY DEF AppOptions
<1> QED
  BY <1>1, <1>2

LEMMA ShortOption ==
    ASSUME NEW options, ShortOptions(options), NEW i \in 1..Len(options)
    PROVE  /\ Len(options) \in Nat
           /\ options[i].number \in Int /\ 0 <= options[i].number /\ options[i].number < 256
           /\ options[i].value \in Cells /\ Len(options[i].value) < 13
           /\ Gap(options, i) \in Int /\ 0 <= Gap(options, i) /\ Gap(options, i) < 13
           /\ Deltas(options)[i]
                = [delta |-> Gap(options, i), number |-> options[i].number,
                   value |-> options[i].value]
<1> DEFINE n == Len(options)
           before == IF i = 1 THEN 0 ELSE options[i - 1].number
<1>1. /\ n \in Nat /\ DOMAIN options = 1..n
      /\ \A j \in 1..n : options[j].number \in Octets /\ options[j].value \in Cells
  BY AppOptionsTyped DEF ShortOptions
<1>3. options[i].number \in Octets /\ options[i].value \in Cells
  BY <1>1
<1>4. options[i].number \in Int /\ 0 <= options[i].number /\ options[i].number < 256
  BY <1>3, OctetBounds
<1>5. before \in Int /\ 0 <= before /\ before < 256
  <2>1. CASE i = 1
    BY <2>1
  <2>2. CASE i # 1
    <3>1. i - 1 \in 1..n
      BY <2>2, <1>1
    <3>2. options[i - 1].number \in Octets
      BY <1>1, <3>1
    <3> QED
      BY <2>2, <3>2, OctetBounds
  <2> QED
    BY <2>1, <2>2
<1>6. /\ Gap(options, i) = options[i].number - before
      /\ 0 <= Gap(options, i) /\ Gap(options, i) < 13 /\ Len(options[i].value) < 13
  BY DEF ShortOptions, Gap
<1>7. /\ U8(options[i].number) = options[i].number
      /\ U16(options[i].number - U8(before)) = Gap(options, i)
  <2> HIDE DEF before
  <2> DEFINE number == options[i].number
             gap == Gap(options, i)
  <2>1. /\ number \in Int /\ 0 <= number /\ number < 256
        /\ gap = number - before /\ 0 <= gap /\ gap < 13 /\ gap \in Int
    BY <1>4, <1>5, <1>6
  <2> HIDE DEF number, gap
  <2>2. U8(number) = number /\ U16(number - U8(before)) = gap
    BY ONLY <1>5, <2>1, SmallGap
  <2> QED
    BY <2>2 DEF number, gap
<1>8. U16(options[i].number - (IF i = 1 THEN 0 ELSE U8(options[i - 1].number))) = Gap(options, i)
  <2>1. U8(0) = 0
    BY DEF U8
  <2> QED
    BY <1>7, <2>1
<1>9. Deltas(options)[i]
        = [delta  |-> U16(options[i].number - (IF i = 1 THEN 0 ELSE U8(options[i - 1].number))),
           number |-> U8(options[i].number), value |-> options[i].value]
  BY <1>1 DEF Deltas
<1> QED
  BY <1>1, <1>3, <1>4, <1>5, <1>6, <1>7, <1>8, <1>9

LEMMA ShortDeltas ==
    ASSUME NEW options, ShortOptions(options)
    PROVE  /\ Len(options) \in Nat /\ DOMAIN options = 1..Len(options)
           /\ Deltas(options) \in Seq(OptionRecords) /\ Len(Deltas(options)) = Len(options)
           /\ Numbered(Deltas(options)) /\ Chained(Deltas(options))
<1> DEFINE n == Len(options)
           d == Deltas(options)
<1>1. n \in Nat /\ DOMAIN options = 1..n
  BY AppOptionsTyped DEF ShortOptions
<1>2. Listed(options, n)
  BY <1>1, AppOptionsTyped DEF Listed, ShortOptions
<1>3. d \in Seq(OptionRecords) /\ Len(d) = n /\ Chained(d)
  BY <1>1, <1>2, DeltasMade
<1> HIDE DEF d
<1>4. ASSUME NEW i \in 1..n PROVE d[i].number = options[i].number /\ d[i].delta = Gap(options, i)
  <2>1. d[i] = [delta |-> Gap(options, i), number |-> options[i].number,
                value |-> options[i].value]
    BY ShortOption DEF d
  <2> QED
    BY ONLY <2>1
<1>5. ASSUME NEW i \in 1..n PROVE d[i].number = NumberAfter(d, i - 1) + d[i].delta
  <2>1. d[i].number = options[i].number /\ d[i].delta = Gap(options, i)
    BY <1>4
  <2>2. options[i].number \in Int
    BY ShortOption
  <2>3. CASE i = 1
    BY <2>1, <2>2, <2>3 DEF Gap, NumberAfter
  <2>4. CASE i # 1
    <3>1. i - 1 \in 1..n /\ i - 1 # 0
      BY <1>1, <2>4
    <3>2. d[i - 1].number = options[i - 1].number /\ options[i - 1].number \in Int
      BY <1>4, <3>1, ShortOption
    <3>3. NumberAfter(d, i - 1) = options[i - 1].number
      BY <3>1, <3>2 DEF NumberAfter
    <3>4. Gap(options, i) = options[i].number - options[i - 1].number
      BY <2>4 DEF Gap
    <3> QED
      BY <2>1, <2>2, <3>2, <3>3, <3>4
  <2> QED
    BY <2>3, <2>4
<1> QED
  BY <1>1, <1>3, <1>5 DEF Numbered, d

LEMMA NothingExtended ==
    ASSUME NEW n \in Int, 0 <= n, n < 13
    PROVE  /\ RfcNibble(n) = n /\ Nibble(n) = n
           /\ RfcExtension(n) = <<>> /\ Extension(n) = <<>>
<1>1. ExtensionLen(n) = 0
  BY NoExtension
<1>2. Nibble(n) = n /\ Extension(n) = <<>>
  BY <1>1 DEF Nibble, Extension
<1>3. ~(n \in 13..268)
  OBVIOUS
<1>4. RfcNibble(n) = n /\ RfcExtension(n) = <<>>
  BY <1>3 DEF RfcNibble, RfcExtension
<1> QED
  BY <1>2, <1>4

LEMMA SameEncoding ==
    ASSUME NEW delta \in Int, 0 <= delta, delta < 13, NEW value \in Cells, Len(value) < 13,
           NEW o, o.delta = delta, o.value = value
    PROVE  RfcOption(delta, value) = option_bytes(o)
<1> DEFINE n == Len(value)
<1>1. n \in Int /\ 0 <= n /\ n < 13
  BY DEF Cells
<1> HIDE DEF n
<1>2. RfcNibble(delta) = Nibble(delta) /\ RfcExtension(delta) = Extension(delta)
  BY NothingExtended
<1>3. RfcNibble(n) = Nibble(n) /\ RfcExtension(n) = Extension(n)
  BY <1>1, NothingExtended
<1>4. RfcOption(delta, value)
        = <<(RfcNibble(delta) * 16) + RfcNibble(n)>> \o RfcExtension(delta) \o RfcExtension(n)
              \o value
  BY DEF RfcOption, n
<1>5. option_bytes(o)
        = <<Nibble(delta) * 16 + Nibble(n)>> \o Extension(delta) \o Extension(n) \o value
  BY DEF option_bytes, n
<1> QED
  BY ONLY <1>2, <1>3, <1>4, <1>5, Zenon

\* The libraries and the codec write short options alike.
LEMMA OptionsEncoded ==
    ASSUME NEW options, ShortOptions(options)
    PROVE  EncodedOptions(options)[Len(options)] = options_into_byte_string(Deltas(options))
<1> DEFINE n == Len(options)
           d == Deltas(options)
           w == OptionsWritten(d)
           x == EncodedOptions(options)
           Cell(i) == RfcOption(Gap(options, i), options[i].value)
<1>1. n \in Nat /\ d \in Seq(OptionRecords) /\ Len(d) = n
  BY ShortDeltas
<1>2. ASSUME NEW i \in 1..n PROVE Cell(i) = option_bytes(d[i])
  <2>1. d[i] = [delta |-> Gap(options, i), number |-> options[i].number,
                value |-> options[i].value]
    BY ShortOption
  <2>2. /\ options[i].value \in Cells /\ Len(options[i].value) < 13
        /\ Gap(options, i) \in Int /\ 0 <= Gap(options, i) /\ Gap(options, i) < 13
    BY ShortOption
  <2> HIDE DEF d
  <2>3. d[i].delta = Gap(options, i) /\ d[i].value = options[i].value
    BY ONLY <2>1
  <2> QED
    BY <2>2, <2>3, SameEncoding
<1>3. Writable(d)
  <2>1. \A i \in 1..n : ReadableValue(d[i].value, 1)
    <3> TAKE i \in 1..n
    <3>1. d[i] = [delta |-> Gap(options, i), number |-> options[i].number,
                  value |-> options[i].value]
      BY ShortOption
    <3>2. Len(options[i].value) < 13 /\ options[i].value \in Cells
      BY ShortOption
    <3> HIDE DEF d
    <3>3. d[i].value = options[i].value
      BY ONLY <3>1
    <3>4. Len(options[i].value) \in Int
      BY <3>2 DEF Cells
    <3> QED
      BY <3>2, <3>3, <3>4 DEF ReadableValue
  <2> QED
    BY <1>1, <2>1, ReadableIsWritable DEF Readable
<1>4. /\ w \in [0..n -> Seq(Int)] /\ w[0] = <<>>
      /\ \A i \in 1..n : w[i] = w[i - 1] \o option_bytes(d[i])
  BY <1>1, <1>3, WrittenLoop
<1> HIDE DEF d, w, Cell, n
<1>5. w = [i \in 0..n |-> IF i = 0 THEN <<>> ELSE w[i - 1] \o Cell(i)]
  <2>1. \A i \in 0..n : w[i] = IF i = 0 THEN <<>> ELSE w[i - 1] \o Cell(i)
    <3> TAKE i \in 0..n
    <3>1. i = 0 \/ (i # 0 /\ i \in 1..n)
      BY <1>1
    <3>2. CASE i # 0 /\ i \in 1..n
      BY <1>2, <1>4, <3>2
    <3> QED
      BY <1>4, <3>1, <3>2
  <2>2. w = [i \in 0..n |-> w[i]]
    BY <1>4
  <2> QED
    BY <2>1, <2>2
<1>6. x = [i \in 0..n |-> IF i = 0 THEN <<>> ELSE x[i - 1] \o Cell(i)]
  BY <1>5 DEF EncodedOptions, n, Cell
<1> HIDE DEF x
<1>7. x[0] = <<>> /\ \A i \in 1..n : x[i] = x[i - 1] \o Cell(i)
  <2>1. ASSUME NEW i \in 1..n PROVE x[i] = x[i - 1] \o Cell(i)
    <3>1. i \in 0..n /\ i # 0
      BY <1>1
    <3> QED
      BY <1>6, <3>1
  <2>2. 0 \in 0..n
    BY <1>1
  <2>3. x[0] = <<>>
    BY <1>6, <2>2
  <2> QED
    BY <2>1, <2>3
<1> DEFINE S == {i \in Nat : i <= n => x[i] = w[i]}
<1>8. 0 \in S
  BY <1>4, <1>7
<1>9. ASSUME NEW i \in Nat, i \in S PROVE i + 1 \in S
  <2> SUFFICES ASSUME i + 1 <= n PROVE x[i + 1] = w[i + 1]
    OBVIOUS
  <2>1. PICK k \in 1..n : k = i + 1 /\ k - 1 = i
    BY <1>1
  <2>2. x[i] = w[i]
    BY <1>1, <1>9
  <2>3. x[k] = x[k - 1] \o Cell(k) /\ w[k] = w[k - 1] \o option_bytes(d[k])
    BY <1>4, <1>7
  <2>4. Cell(k) = option_bytes(d[k])
    BY <1>2
  <2>5. x[k - 1] = w[k - 1]
    BY <2>1, <2>2
  <2>6. x[k] = w[k]
    BY ONLY <2>3, <2>4, <2>5, Zenon
  <2> QED
    BY <2>1, <2>6
<1> HIDE DEF S
<1>10. Nat \subseteq S
  BY <1>8, <1>9, Induction
<1>11. x[n] = w[n]
  BY <1>1, <1>10 DEF S
<1>12. options_into_byte_string(d) = w[n]
  BY <1>1 DEF options_into_byte_string, w
<1> QED
  BY <1>11, <1>12 DEF x, n, d

\* Records of short options, all of whose header bytes are below 205.
ShortRecords(options) ==
    /\ options \in Seq(OptionRecords)
    /\ \A i \in 1..Len(options) : options[i].delta < 13 /\ Len(options[i].value) < 13

LEMMA ShortRecord ==
    ASSUME NEW options, ShortRecords(options)
    PROVE  /\ Len(options) \in Nat /\ Writable(options) /\ Readable(options, 1)
           /\ options_into_byte_string(options) \in Seq(Int)
           /\ \A i \in 1..Len(options) :
                  /\ options[i] \in OptionRecords
                  /\ options[i].delta \in Int /\ 0 <= options[i].delta /\ options[i].delta < 13
                  /\ options[i].value \in Seq(Int) /\ Len(options[i].value) \in Int
                  /\ 0 <= Len(options[i].value) /\ Len(options[i].value) < 13
<1> DEFINE n == Len(options)
<1>1. options \in Seq(OptionRecords) /\ n \in Nat
  BY DEF ShortRecords
<1>2. ASSUME NEW i \in 1..n
      PROVE  /\ options[i] \in OptionRecords
             /\ options[i].delta \in Int /\ 0 <= options[i].delta /\ options[i].delta < 13
             /\ options[i].value \in Seq(Int) /\ Len(options[i].value) \in Int
             /\ 0 <= Len(options[i].value) /\ Len(options[i].value) < 13
  <2>1. options[i] \in OptionRecords
    BY <1>1
  <2>2. options[i].delta < 13 /\ Len(options[i].value) < 13
    BY DEF ShortRecords
  <2> QED
    BY <2>1, <2>2, FieldsOfOption
<1>3. Readable(options, 1)
  <2>1. ASSUME NEW i \in 1..n PROVE ReadableValue(options[i].value, 1)
    BY <1>2 DEF ReadableValue
  <2> QED
    BY <1>1, <2>1 DEF Readable
<1>4. Writable(options)
  BY <1>3, ReadableIsWritable
<1>5. options_into_byte_string(options) \in Seq(Int)
  <2>1. n \in 0..n
    BY <1>1
  <2> QED
    BY <1>4, <2>1, WrittenLoop DEF options_into_byte_string
<1> QED
  BY <1>1, <1>2, <1>3, <1>4, <1>5

LEMMA HeaderBound ==
    ASSUME NEW delta \in Int, 0 <= delta, delta < 13, NEW len \in Int, 0 <= len, len < 13
    PROVE  delta * 16 + len \in 0..204
OBVIOUS

LEMMA ShortOptionBytes ==
    ASSUME NEW o \in OptionRecords, o.delta < 13, Len(o.value) < 13,
           NEW P, 0..204 \subseteq P, o.value \in Seq(P)
    PROVE  option_bytes(o) \in Seq(P)
<1> DEFINE delta == o.delta
           len == Len(o.value)
<1>1. delta \in Int /\ 0 <= delta /\ delta < 13 /\ len \in Int /\ 0 <= len /\ len < 13
  BY FieldsOfOption
<1> HIDE DEF delta, len
<1>2. /\ Nibble(delta) = delta /\ Extension(delta) = <<>>
      /\ Nibble(len) = len /\ Extension(len) = <<>>
  BY <1>1, NothingExtended
<1>3. option_bytes(o)
        = <<Nibble(delta) * 16 + Nibble(len)>> \o Extension(delta) \o Extension(len) \o o.value
  BY DEF option_bytes, delta, len
<1>4. delta * 16 + len \in P
  BY <1>1, HeaderBound
<1> DEFINE head == delta * 16 + len
           value == o.value
<1> HIDE DEF head, value
<1>5. option_bytes(o) = <<head>> \o <<>> \o <<>> \o value
  BY <1>2, <1>3 DEF head, value
<1>6. head \in P /\ value \in Seq(P)
  BY <1>4 DEF head, value
<1>7. <<head>> \o <<>> \o <<>> \o value \in Seq(P)
  BY <1>6
<1> QED
  BY <1>5, <1>7

LEMMA WrittenCells ==
    ASSUME NEW options, ShortRecords(options), NEW P, 0..204 \subseteq P,
           NEW n \in 0..Len(options), \A i \in 1..n : options[i].value \in Seq(P)
    PROVE  OptionsWritten(options)[n] \in Seq(P)
<1> DEFINE w == OptionsWritten(options)
           S == {i \in Nat : i <= n => w[i] \in Seq(P)}
<1>0. Len(options) \in Nat /\ Writable(options)
  BY ShortRecord
<1>1. n \in Nat /\ 1..n \subseteq 1..Len(options)
  BY <1>0
<1>2. /\ w[0] = <<>>
      /\ \A i \in 1..n : w[i] = w[i - 1] \o option_bytes(options[i])
  BY <1>0, <1>1, WrittenLoop
<1>3. \A i \in 1..n : option_bytes(options[i]) \in Seq(P)
  BY <1>1, ShortRecord, ShortOptionBytes
<1> HIDE DEF w
<1>4. 0 \in S
  <2>1. <<>> \in Seq(P)
    OBVIOUS
  <2> QED
    BY <1>2, <2>1
<1>5. ASSUME NEW i \in Nat, i \in S PROVE i + 1 \in S
  <2> SUFFICES ASSUME i + 1 <= n PROVE w[i + 1] \in Seq(P)
    OBVIOUS
  <2>1. PICK k \in 1..n : k = i + 1 /\ k - 1 = i
    BY <1>1
  <2>2. w[i] \in Seq(P)
    BY <1>1, <1>5
  <2>3. w[k] = w[i] \o option_bytes(options[k]) /\ option_bytes(options[k]) \in Seq(P)
    BY <1>2, <1>3, <2>1
  <2>4. \A x, y \in Seq(P) : x \o y \in Seq(P)
    OBVIOUS
  <2> QED
    BY <2>1, <2>2, <2>3, <2>4
<1> HIDE DEF S
<1>6. Nat \subseteq S
  BY <1>4, <1>5, Induction
<1>7. w[n] \in Seq(P)
  BY <1>1, <1>6 DEF S
<1> QED
  BY <1>7 DEF w

LEMMA ShortOptionsBytes ==
    ASSUME NEW options, ShortRecords(options), NEW P, 0..204 \subseteq P,
           \A i \in 1..Len(options) : options[i].value \in Seq(P)
    PROVE  options_into_byte_string(options) \in Seq(P)
<1>1. Len(options) \in 0..Len(options)
  BY ShortRecord
<1> QED
  BY <1>1, WrittenCells DEF options_into_byte_string

-----------------------------------------------------------------------------
\* Ordinary options survive the codec.

\* The cells of options that hold no marker.
Clean == {n \in Nat : n # Marker}

LEMMA CleanCells ==
    ASSUME NEW b, b \in Seq(Clean)
    PROVE  b \in Seq(Int) /\ NoMarker(b) /\ \A i \in 1..Len(b) : b[i] >= 0
<1>1. \A i \in 1..Len(b) : b[i] \in Clean
  OBVIOUS
<1>2. \A x \in Clean : x \in Int /\ x >= 0 /\ x # Marker
  BY DEF Clean
<1>3. Len(b) \in Nat /\ DOMAIN b = 1..Len(b) /\ b = [i \in 1..Len(b) |-> b[i]]
  OBVIOUS
<1>4. \A i \in 1..Len(b) : b[i] \in Int /\ b[i] >= 0 /\ b[i] # Marker
  BY <1>1, <1>2
<1>5. b \in Seq(Int)
  BY <1>3, <1>4
<1> QED
  BY <1>4, <1>5 DEF NoMarker

LEMMA HeaderBytesAreClean == 0..204 \subseteq Clean
BY DEF Clean, Marker

LEMMA OrdinaryOption ==
    ASSUME NEW options, OrdinaryOptions(options), NEW i \in 1..Len(options)
    PROVE  /\ Deltas(options)[i].number = options[i].number
           /\ Deltas(options)[i].value = options[i].value
           /\ Deltas(options)[i].delta = Gap(options, i)
           /\ options[i].value \in Seq(Clean) /\ Len(options[i].value) < 13
           /\ ~is_class_e(options[i].number) => options[i].number < OSCORE
<1>1. ShortOptions(options)
  BY DEF OrdinaryOptions
<1>2. Deltas(options)[i] = [delta |-> Gap(options, i), number |-> options[i].number,
                            value |-> options[i].value]
  BY <1>1, ShortOption
<1>3. options[i].value \in Cells /\ Len(options[i].value) < 13
  BY <1>1, ShortOption
<1>4. \A j \in 1..Len(options[i].value) :
          options[i].value[j] >= 0 /\ options[i].value[j] # Marker
  BY DEF OrdinaryOptions
<1>5. options[i].value \in Seq(Clean)
  <2> DEFINE v == options[i].value
  <2>1. v \in Seq(Int) /\ \A j \in 1..Len(v) : v[j] >= 0 /\ v[j] # Marker
    BY <1>3, <1>4 DEF Cells
  <2> HIDE DEF v
  <2>2. Len(v) \in Nat /\ v = [j \in 1..Len(v) |-> v[j]] /\ \A j \in 1..Len(v) : v[j] \in Int
    BY <2>1
  <2>3. \A j \in 1..Len(v) : v[j] \in Clean
    BY <2>1, <2>2 DEF Clean
  <2>4. v \in Seq(Clean)
    BY <2>2, <2>3
  <2> QED
    BY <2>4 DEF v
<1>6. ~is_class_e(options[i].number) => options[i].number < OSCORE
  BY DEF OrdinaryOptions
<1> DEFINE o == Deltas(options)[i]
<1> HIDE DEF o
<1>7. o = [delta |-> Gap(options, i), number |-> options[i].number, value |-> options[i].value]
  BY <1>2 DEF o
<1>8. o.number = options[i].number /\ o.value = options[i].value /\ o.delta = Gap(options, i)
  BY ONLY <1>7
<1> QED
  BY <1>3, <1>5, <1>6, <1>8 DEF o

LEMMA OrdinaryDeltas ==
    ASSUME NEW options, OrdinaryOptions(options)
    PROVE  /\ Len(options) \in Nat /\ Len(Deltas(options)) = Len(options)
           /\ ShortRecords(Deltas(options)) /\ Mergeable(Deltas(options))
           /\ ShortValues(Deltas(options)) /\ Chained(Deltas(options))
           /\ ShortRecords(InnerOptions(Deltas(options)))
           /\ RightlyCounted(Deltas(options))
           /\ options_into_byte_string(Deltas(options)) \in Seq(Clean)
           /\ options_into_byte_string(InnerOptions(Deltas(options))) \in Seq(Clean)
<1> DEFINE d == Deltas(options)
           n == Len(options)
           inner == InnerOptions(d)
<1>1. /\ n \in Nat /\ d \in Seq(OptionRecords) /\ Len(d) = n /\ Numbered(d) /\ Chained(d)
      /\ ShortOptions(options)
  BY ShortDeltas DEF OrdinaryOptions
<1>2. \A i \in 1..n : /\ d[i].number = options[i].number /\ d[i].value = options[i].value
                      /\ d[i].delta = Gap(options, i)
                      /\ d[i].value \in Seq(Clean) /\ Len(d[i].value) < 13
                      /\ ~is_class_e(d[i].number) => d[i].number < OSCORE
  <2> TAKE i \in 1..n
  <2>1. /\ d[i].number = options[i].number /\ d[i].value = options[i].value
        /\ d[i].delta = Gap(options, i)
        /\ options[i].value \in Seq(Clean) /\ Len(options[i].value) < 13
        /\ ~is_class_e(options[i].number) => options[i].number < OSCORE
    BY OrdinaryOption
  <2> HIDE DEF d
  <2> QED
    BY ONLY <2>1, Zenon
<1>3. \A i \in 1..n : Gap(options, i) < 13
  BY <1>1, ShortOption
<1>4. \A j \in 1..Len(inner) : inner[j].delta < 13
  BY DEF OrdinaryOptions
<1> HIDE DEF d, n, inner
<1>5. ShortRecords(d)
  BY <1>1, <1>2, <1>3 DEF ShortRecords
<1>6. Mergeable(d)
  BY <1>1, <1>2 DEF Mergeable, OuterIndexes
<1>7. ASSUME NEW i \in 1..n PROVE Len(d[i].value) \in Int /\ Len(d[i].value) < 13
  BY <1>1, <1>5, ShortRecord
<1>8. ShortValues(d)
  BY <1>1, <1>7 DEF ShortValues
<1>9. ASSUME NEW j \in 1..Len(inner)
      PROVE  /\ inner[j].value \in Seq(Clean) /\ Len(inner[j].value) \in Int
             /\ Len(inner[j].value) < 13
  <2>1. /\ Len(inner) = Len(Inner(d)) /\ inner[j].value = Inner(d)[j].value
    BY <1>1, InnerMade DEF inner
  <2>2. Collects(InnerParts(d), Len(d), InnerIndexes(d), Kept(d))
    BY <1>1, ExtractedCollects
  <2>3. \A k \in 1..Len(Inner(d)) : \E i \in InnerIndexes(d) :
            /\ i \in 1..Len(d) /\ Inner(d)[k].number = d[i].number
            /\ Inner(d)[k].value = d[i].value
    <3> DEFINE g == InnerParts(d)
               chosen == InnerIndexes(d)
    <3>1. Numbered(d) /\ Collects(g, Len(d), chosen, Kept(d))
      BY <1>1, <2>2
    <3>2. Inner(d) = g[Len(d)]
      BY DEF Inner
    <3> HIDE DEF g, chosen
    <3>3. \A k \in 1..Len(g[Len(d)]) : \E i \in chosen :
              /\ i \in 1..Len(d) /\ g[Len(d)][k].number = d[i].number
              /\ g[Len(d)][k].value = d[i].value
      BY <3>1, CollectedListed
    <3> QED
      BY <3>2, <3>3 DEF chosen
  <2>4. PICK i \in 1..n : inner[j].value = d[i].value
    BY <1>1, <2>1, <2>3
  <2> QED
    BY <1>2, <1>7, <2>4
<1>10. inner \in Seq(OptionRecords)
  BY <1>1, InnerMade DEF inner
<1>11. ShortRecords(inner)
  BY <1>4, <1>9, <1>10 DEF ShortRecords
<1>12. RightlyCounted(d)
  <2>1. ASSUME NEW j \in 1..Len(inner) PROVE Len(inner[j].value) # 13
    <3> DEFINE len == Len(inner[j].value)
    <3>1. len \in Int /\ len < 13
      BY <1>9
    <3> HIDE DEF len
    <3>2. len # 13
      BY <3>1
    <3> QED
      BY <3>2 DEF len
  <2> QED
    BY <1>1, <1>4, <1>8, <2>1, CountIsRight DEF inner
<1>13. options_into_byte_string(d) \in Seq(Clean)
  BY <1>1, <1>2, <1>5, HeaderBytesAreClean, ShortOptionsBytes
<1>14. options_into_byte_string(inner) \in Seq(Clean)
  BY <1>9, <1>11, HeaderBytesAreClean, ShortOptionsBytes
<1> QED
  BY <1>1, <1>5, <1>6, <1>8, <1>11, <1>12, <1>13, <1>14 DEF d, n, inner

-----------------------------------------------------------------------------
\* The outer options, and those the reference says are visible.

LEMMA OuterSorted ==
    ASSUME NEW options, Mergeable(options)
    PROVE  LET u == Outer(options)
           IN  /\ Len(u) \in Nat /\ u \in Seq(KeptOptions) /\ Listed(u, Len(u))
               /\ \A j \in 1..Len(u) :
                      /\ u[j].number < OSCORE
                      /\ \E i \in OuterIndexes(options) : u[j].value = options[i].value
               /\ \A j \in 2..Len(u) : u[j - 1].number <= u[j].number
<1> DEFINE n == Len(options)
           g == OuterParts(options)
           chosen == OuterIndexes(options)
           u == Outer(options)
<1>1. /\ Numbered(options) /\ n \in Nat /\ Kept(options) \in [1..n -> KeptOptions]
      /\ Collects(g, n, chosen, Kept(options))
  BY ExtractedCollects DEF Mergeable
<1>2. u = g[n]
  BY DEF Outer
<1>3. /\ Len(u) \in Nat /\ Listed(u, Len(u))
      /\ \A j \in 1..Len(u) : \E i \in chosen : /\ i \in 1..n
                                               /\ u[j].number = options[i].number
                                               /\ u[j].value = options[i].value
  BY <1>1, <1>2, CollectedListed
<1>4. u \in Seq(KeptOptions)
  BY <1>1, <1>2 DEF Collects
<1>5. \A i \in chosen : options[i].number < OSCORE
  BY DEF Mergeable
<1>6. \A j \in 1..Len(u) : u[j].number < OSCORE /\ \E i \in chosen : u[j].value = options[i].value
  BY <1>3, <1>5
<1>7. CollectedAt(g, n, chosen, Kept(options))
  BY <1>1, Collected
<1> HIDE DEF n, g, chosen, u
<1>8. ASSUME NEW j \in 1..Len(u)
      PROVE  \E i \in 1..n : i \in chosen /\ Len(g[i]) = j /\ u[j].number = options[i].number
  <2>1. PICK i \in 1..n : i \in chosen /\ Len(g[i]) = j
    BY <1>2, <1>7 DEF CollectedAt
  <2>2. u[j] = Kept(options)[i]
    BY <1>1, <1>2, <2>1, CollectedPlace
  <2>3. Kept(options)[i] = [number |-> options[i].number, value |-> options[i].value]
    BY DEF Kept, n
  <2> QED
    BY <2>1, <2>2, <2>3
<1>9. ASSUME NEW j \in 2..Len(u) PROVE u[j - 1].number <= u[j].number
  <2>1. j - 1 \in 1..Len(u) /\ j \in 1..Len(u) /\ j - 1 < j
    BY <1>3
  <2>2. PICK i \in 1..n : i \in chosen /\ Len(g[i]) = j - 1 /\ u[j - 1].number = options[i].number
    BY <1>8, <2>1
  <2>3. PICK m \in 1..n : m \in chosen /\ Len(g[m]) = j /\ u[j].number = options[m].number
    BY <1>8, <2>1
  <2>4. ~(m < i)
    <3> SUFFICES ASSUME m < i PROVE FALSE
      OBVIOUS
    <3>1. Len(g[m]) < Len(g[i])
      BY <1>1, <2>2, <2>3, CollectedInOrder
    <3> QED
      BY <2>1, <2>2, <2>3, <3>1
  <2>5. i \in 1..m
    BY <1>1, <2>4
  <2>6. options[i].number <= options[m].number
    BY <1>1, <2>5, NumbersSorted DEF n
  <2> QED
    BY <2>2, <2>3, <2>6
<1> QED
  BY <1>3, <1>4, <1>6, <1>9 DEF u, chosen

LEMMA DeltasAgree ==
    ASSUME NEW s, NEW t, DOMAIN s = DOMAIN t,
           \A i \in DOMAIN s : s[i].number = t[i].number /\ s[i].value = t[i].value,
           \A i \in DOMAIN s : i # 1 => i - 1 \in DOMAIN s
    PROVE  Deltas(s) = Deltas(t)
BY DEF Deltas

\* The outer options as an application would list them.
OuterList(options, value) ==
    Outer(Deltas(options)) \o <<[number |-> OSCORE, value |-> value]>>

LEMMA OuterListed ==
    ASSUME NEW u \in Seq(KeptOptions), NEW value \in Cells
    PROVE  LET v == u \o <<[number |-> OSCORE, value |-> value]>>
           IN  /\ Len(u) \in Nat /\ Len(v) = Len(u) + 1 /\ DOMAIN v = 1..Len(u) + 1
               /\ \A j \in 1..Len(u) : v[j] = u[j]
               /\ v[Len(u) + 1].number = OSCORE /\ v[Len(u) + 1].value = value
<1> DEFINE x == [number |-> OSCORE, value |-> value]
<1>1. x.number = OSCORE /\ x.value = value /\ x \in KeptOptions
  BY DEF KeptOptions, OSCORE
<1> HIDE DEF x
<1>2. /\ Len(u) \in Nat /\ Len(u \o <<x>>) = Len(u) + 1 /\ DOMAIN (u \o <<x>>) = 1..Len(u) + 1
      /\ \A j \in 1..Len(u) : (u \o <<x>>)[j] = u[j]
      /\ (u \o <<x>>)[Len(u) + 1] = x
  BY <1>1
<1> QED
  BY <1>1, <1>2 DEF x

LEMMA OuterOptionsAre ==
    ASSUME NEW options, OrdinaryOptions(options), NEW value \in Cells
    PROVE  OuterOptions(Deltas(options), value) = Deltas(OuterList(options, value))
<1> DEFINE d == Deltas(options)
           u == Outer(d)
           k == Len(u)
           du == Deltas(u)
           last == [delta |-> 0, number |-> OSCORE, value |-> value]
           s == Append(du, last)
           v == u \o <<[number |-> OSCORE, value |-> value]>>
<1>1. Mergeable(d)
  BY OrdinaryDeltas
<1>2. /\ k \in Nat /\ u \in Seq(KeptOptions) /\ Listed(u, k)
      /\ \A j \in 1..k : u[j].number < OSCORE
  BY <1>1, OuterSorted
<1> HIDE DEF d, u
<1>3. /\ du \in Seq(OptionRecords) /\ Len(du) = k
      /\ \A j \in 1..k : du[j].number = u[j].number /\ du[j].value = u[j].value
  BY <1>2, DeltasMade
<1>4. \A j \in 1..k : u[j].number \in Int
  BY <1>2, OctetBounds DEF Listed
<1>5. \A j \in 1..Len(du) : du[j].number <= OSCORE
  BY <1>2, <1>3, <1>4 DEF OSCORE
<1> HIDE DEF du
<1>6. oscore_pkg_options(du, value) = Deltas(s)
  BY <1>3, <1>5, OscoreLast
<1>7. last.number = OSCORE /\ last.value = value
  OBVIOUS
<1> HIDE DEF last
<1>8. /\ DOMAIN s = 1..k + 1 /\ \A j \in 1..k : s[j] = du[j]
      /\ s[k + 1] = last
  BY <1>2, <1>3
<1>9. /\ DOMAIN v = 1..k + 1 /\ \A j \in 1..k : v[j] = u[j]
      /\ v[k + 1].number = OSCORE /\ v[k + 1].value = value
  BY <1>2, OuterListed
<1> HIDE DEF s, v, k
<1>10. Deltas(s) = Deltas(v)
  <2>1. ASSUME NEW i \in 1..k + 1 PROVE s[i].number = v[i].number /\ s[i].value = v[i].value
    <3>1. i \in 1..k \/ i = k + 1
      BY <1>2
    <3>2. CASE i \in 1..k
      <4>1. s[i] = du[i] /\ v[i] = u[i] /\ du[i].number = u[i].number /\ du[i].value = u[i].value
        BY <1>3, <1>8, <1>9, <3>2
      <4> QED
        BY ONLY <4>1
    <3>3. CASE i = k + 1
      BY <1>7, <1>8, <1>9, <3>3
    <3> QED
      BY <3>1, <3>2, <3>3
  <2>2. \A i \in 1..k + 1 : i # 1 => i - 1 \in 1..k + 1
    BY <1>2
  <2> QED
    BY <1>8, <1>9, <2>1, <2>2, DeltasAgree
<1> QED
  BY <1>6, <1>10 DEF OuterOptions, OuterList, du, u, d, v

LEMMA ShortAreRecords ==
    ASSUME NEW options, ShortOptions(options)
    PROVE  /\ ShortRecords(Deltas(options)) /\ Len(Deltas(options)) = Len(options)
           /\ \A i \in 1..Len(options) : Deltas(options)[i].value = options[i].value
<1> DEFINE d == Deltas(options)
           n == Len(options)
<1>1. d \in Seq(OptionRecords) /\ Len(d) = n
  BY ShortDeltas
<1>2. ASSUME NEW i \in 1..n
      PROVE  d[i].value = options[i].value /\ d[i].delta < 13 /\ Len(d[i].value) < 13
  <2>1. d[i] = [delta |-> Gap(options, i), number |-> options[i].number,
                value |-> options[i].value]
    BY ShortOption
  <2>2. Gap(options, i) < 13 /\ Len(options[i].value) < 13
    BY ShortOption
  <2> HIDE DEF d
  <2>3. d[i].value = options[i].value /\ d[i].delta = Gap(options, i)
    BY ONLY <2>1
  <2> QED
    BY <2>2, <2>3
<1> HIDE DEF d, n
<1>3. ShortRecords(d)
  BY <1>1, <1>2 DEF ShortRecords
<1> QED
  BY <1>1, <1>2, <1>3 DEF d, n

LEMMA OuterIsShort ==
    ASSUME NEW options, OrdinaryOptions(options), NEW value \in Cells, Len(value) < 13
    PROVE  /\ ShortOptions(OuterList(options, value))
           /\ \A j \in 1..Len(OuterList(options, value)) :
                  \/ OuterList(options, value)[j].value = value
                  \/ OuterList(options, value)[j].value \in Seq(Clean)
<1> DEFINE d == Deltas(options)
           u == Outer(d)
           k == Len(u)
           v == u \o <<[number |-> OSCORE, value |-> value]>>
<1>1. Mergeable(d) /\ Len(d) = Len(options)
  BY OrdinaryDeltas
<1>2. /\ k \in Nat /\ u \in Seq(KeptOptions) /\ Listed(u, k)
      /\ \A j \in 1..k : /\ u[j].number < OSCORE
                         /\ \E i \in OuterIndexes(d) : u[j].value = d[i].value
      /\ \A j \in 2..k : u[j - 1].number <= u[j].number
  BY <1>1, OuterSorted
<1>3. \A i \in OuterIndexes(d) : d[i].value \in Seq(Clean) /\ Len(d[i].value) < 13
  <2>1. \A i \in OuterIndexes(d) : i \in 1..Len(options)
    BY <1>1 DEF OuterIndexes
  <2> QED
    BY <2>1, OrdinaryOption
<1> HIDE DEF d, u
<1>4. /\ Len(v) = k + 1 /\ DOMAIN v = 1..k + 1
      /\ \A j \in 1..k : v[j] = u[j]
      /\ v[k + 1].number = OSCORE /\ v[k + 1].value = value
  BY <1>2, OuterListed
<1> HIDE DEF k
<1>5. ASSUME NEW j \in 1..k + 1
      PROVE  /\ v[j].number \in Octets /\ v[j].number <= OSCORE
             /\ v[j].number \in Int /\ 0 <= v[j].number
             /\ v[j].value \in Cells /\ Len(v[j].value) < 13
             /\ v[j].value = value \/ v[j].value \in Seq(Clean)
  <2>1. CASE j = k + 1
    <3>1. v[j].number = OSCORE /\ v[j].value = value
      BY <1>4, <2>1
    <3>2. OSCORE \in Octets /\ OSCORE \in Int /\ 0 <= OSCORE /\ OSCORE <= OSCORE
      BY DEF OSCORE, Octets
    <3>3. value \in Cells /\ Len(value) < 13
      OBVIOUS
    <3> QED
      BY ONLY <3>1, <3>2, <3>3
  <2>2. CASE j # k + 1
    <3>1. j \in 1..k
      BY <1>2, <2>2
    <3>2. u[j].number \in Octets /\ u[j].value \in Cells /\ u[j].number < OSCORE
      BY <1>2, <3>1 DEF Listed
    <3>3. u[j].value \in Seq(Clean) /\ Len(u[j].value) < 13
      BY <1>2, <1>3, <3>1
    <3>4. u[j].number \in Int /\ 0 <= u[j].number
      BY <3>2, OctetBounds
    <3> QED
      BY <1>4, <3>1, <3>2, <3>3, <3>4 DEF OSCORE
  <2> QED
    BY <2>1, <2>2
<1> HIDE DEF v
<1>6. ASSUME NEW j \in 2..k + 1 PROVE v[j - 1].number <= v[j].number
  <2>1. j - 1 \in 1..k /\ j \in 1..k + 1 /\ j - 1 \in 1..k + 1
    BY <1>2
  <2>2. CASE j = k + 1
    BY <1>2, <1>4, <1>5, <2>1, <2>2
  <2>3. CASE j # k + 1
    <3>1. j \in 2..k /\ j \in 1..k
      BY <1>2, <2>3
    <3> QED
      BY <1>2, <1>4, <2>1, <3>1
  <2> QED
    BY <2>2, <2>3
<1>7. ASSUME NEW j \in 1..k + 1 PROVE 0 <= Gap(v, j) /\ Gap(v, j) < 13
  <2>1. CASE j = 1
    BY <1>5, <2>1 DEF Gap, OSCORE
  <2>2. CASE j # 1
    <3>1. j \in 2..k + 1 /\ j - 1 \in 1..k + 1
      BY <1>2, <2>2
    <3>2. /\ v[j - 1].number \in Int /\ 0 <= v[j - 1].number /\ v[j - 1].number <= v[j].number
          /\ v[j].number \in Int /\ v[j].number <= OSCORE
      BY <1>5, <1>6, <3>1
    <3>3. Gap(v, j) = v[j].number - v[j - 1].number
      BY <2>2 DEF Gap
    <3> QED
      BY <3>2, <3>3 DEF OSCORE
  <2> QED
    BY <2>1, <2>2
<1>8. v \in Seq(AppOptions)
  <2>2. \A j \in 1..k : u[j] \in KeptOptions
    BY <1>2 DEF k
  <2>3. \A o \in KeptOptions : o = [number |-> o.number, value |-> o.value]
    BY DEF KeptOptions
  <2>4. ASSUME NEW j \in 1..k + 1 PROVE v[j] = [number |-> v[j].number, value |-> v[j].value]
    <3>1. CASE j = k + 1
      <4>1. v[k + 1] = [number |-> OSCORE, value |-> value]
        BY <1>2 DEF v, k
      <4> QED
        BY <3>1, <4>1
    <3>2. CASE j # k + 1
      <4>1. j \in 1..k
        BY <1>2, <3>2
      <4> QED
        BY <1>4, <2>2, <2>3, <4>1
    <3> QED
      BY <3>1, <3>2
  <2>5. ASSUME NEW j \in 1..k + 1 PROVE v[j] \in AppOptions
    <3>1. v[j].number \in Octets /\ v[j].value \in Cells
      BY <1>5
    <3>2. \A number \in Octets, val \in Cells : [number |-> number, value |-> val] \in AppOptions
      BY DEF AppOptions
    <3>3. [number |-> v[j].number, value |-> v[j].value] \in AppOptions
      BY <3>1, <3>2
    <3> QED
      BY <2>4, <3>3
  <2>6. v = [j \in 1..k + 1 |-> v[j]]
    BY <1>2, <1>4 DEF v
  <2>7. k + 1 \in Nat
    BY <1>2
  <2> QED
    BY <2>5, <2>6, <2>7
<1>9. ShortOptions(v)
  BY <1>4, <1>5, <1>7, <1>8 DEF ShortOptions
<1>10. \A j \in 1..Len(v) : v[j].value = value \/ v[j].value \in Seq(Clean)
  BY <1>4, <1>5
<1>11. OuterList(options, value) = v
  BY DEF OuterList, v, u, d
<1> QED
  BY <1>9, <1>10, <1>11

LEMMA MoreCells ==
    ASSUME NEW S, NEW T, S \subseteq T, NEW b \in Seq(S)
    PROVE  b \in Seq(T)
<1>1. Len(b) \in Nat /\ b = [i \in 1..Len(b) |-> b[i]] /\ \A i \in 1..Len(b) : b[i] \in S
  OBVIOUS
<1>2. \A i \in 1..Len(b) : b[i] \in T
  BY <1>1
<1> DEFINE n == Len(b)
           At(i) == b[i]
<1>3. n \in Nat /\ b = [i \in 1..n |-> At(i)] /\ \A i \in 1..n : At(i) \in T
  BY <1>1, <1>2
<1> HIDE DEF n, At
<1>4. [i \in 1..n |-> At(i)] \in Seq(T)
  BY <1>3
<1> QED
  BY <1>3, <1>4

LEMMA CleanAreBytes == Clean \subseteq Nat /\ Nat \subseteq Int /\ Clean \subseteq Int
BY DEF Clean

LEMMA HeaderBytesAreBytes == 0..204 \subseteq Nat
OBVIOUS

LEMMA OuterBytes ==
    ASSUME NEW options, OrdinaryOptions(options), NEW value \in Seq(Nat), Len(value) < 13
    PROVE  LET o == OuterOptions(Deltas(options), value)
               bytes == options_into_byte_string(o)
           IN  /\ ShortRecords(o) /\ Chained(o)
               /\ bytes = EncodedOptions(OuterList(options, value))[Len(OuterList(options, value))]
               /\ bytes \in Seq(Nat)
               /\ value \in Seq(Clean) => bytes \in Seq(Clean)
<1> DEFINE list == OuterList(options, value)
           o == OuterOptions(Deltas(options), value)
           n == Len(list)
<1>1. value \in Cells
  BY CleanAreBytes, MoreCells DEF Cells
<1>2. /\ ShortOptions(list)
      /\ \A j \in 1..n : list[j].value = value \/ list[j].value \in Seq(Clean)
  BY <1>1, OuterIsShort
<1>3. o = Deltas(list)
  BY <1>1, OuterOptionsAre
<1> HIDE DEF list
<1>4. /\ ShortRecords(o) /\ Len(o) = n
      /\ \A i \in 1..n : o[i].value = list[i].value
  BY <1>2, <1>3, ShortAreRecords
<1>5. Chained(o)
  BY <1>2, <1>3, ShortDeltas
<1>6. options_into_byte_string(o) = EncodedOptions(list)[n]
  BY <1>2, <1>3, OptionsEncoded
<1> HIDE DEF o, n
<1>7. \A i \in 1..n : list[i].value \in Seq(Nat)
  BY <1>2, CleanAreBytes, MoreCells
<1>8. options_into_byte_string(o) \in Seq(Nat)
  BY <1>4, <1>7, HeaderBytesAreBytes, ShortOptionsBytes
<1>9. ASSUME value \in Seq(Clean) PROVE options_into_byte_string(o) \in Seq(Clean)
  <2>1. \A i \in 1..n : list[i].value \in Seq(Clean)
    BY <1>2, <1>9
  <2> QED
    BY <1>4, <2>1, HeaderBytesAreClean, ShortOptionsBytes
<1> QED
  BY <1>4, <1>5, <1>6, <1>8, <1>9 DEF o, n, list

\* Ordinary options come through, behind an OSCORE option without a marker.
LEMMA OrdinarySurvive ==
    ASSUME NEW options, OrdinaryOptions(options), NEW value \in Seq(Clean), Len(value) < 13
    PROVE  Survives(Deltas(options), value)
<1> DEFINE d == Deltas(options)
<1>1. /\ Mergeable(d) /\ ShortValues(d) /\ RightlyCounted(d) /\ Len(d) = Len(options)
      /\ options_into_byte_string(InnerOptions(d)) \in Seq(Clean)
  BY OrdinaryDeltas
<1>2. \A i \in OuterIndexes(d) : Len(d[i].value) < 13
  BY <1>1, OrdinaryOption DEF OuterIndexes
<1>3. value \in Seq(Nat)
  BY CleanAreBytes, MoreCells
<1>4. options_into_byte_string(OuterOptions(d, value)) \in Seq(Clean)
  BY <1>3, OuterBytes
<1> HIDE DEF d
<1>5. /\ NoMarker(options_into_byte_string(InnerOptions(d)))
      /\ NoMarker(options_into_byte_string(OuterOptions(d, value)))
  BY <1>1, <1>4, CleanCells
<1> QED
  BY <1>1, <1>2, <1>5 DEF Survives, d

-----------------------------------------------------------------------------
\* The packets of ordinary messages.

LEMMA ParsedFields ==
    ASSUME NEW kind, NEW code, NEW MID, NEW token, NEW options, NEW payload
    PROVE  LET in == Parsed(kind, code, MID, token, options, payload)
           IN  /\ in.r = "OscoreNoError" /\ in.kind = kind /\ in.code = code /\ in.MID = MID
               /\ in.token = token /\ in.options = options /\ in.payload = payload
BY DEF Parsed

LEMMA Elements ==
    ASSUME NEW S, NEW x \in Seq(S)
    PROVE  /\ Len(x) \in Nat /\ DOMAIN x = 1..Len(x) /\ x = [i \in 1..Len(x) |-> x[i]]
           /\ \A i \in 1..Len(x) : x[i] \in S
OBVIOUS

LEMMA Pair ==
    ASSUME NEW x \in Seq(Nat), Len(x) = 2
    PROVE  x = <<x[1], x[2]>> /\ x[1] \in Nat /\ x[2] \in Nat
<1> DEFINE y == <<x[1], x[2]>>
<1>1. x[1] \in Nat /\ x[2] \in Nat
  <2>1. 1 \in 1..Len(x) /\ 2 \in 1..Len(x)
    OBVIOUS
  <2>2. \A i \in 1..Len(x) : x[i] \in Nat
    BY Elements
  <2> QED
    BY ONLY <2>1, <2>2
<1>2. y \in Seq(Nat) /\ Len(y) = 2 /\ y[1] = x[1] /\ y[2] = x[2]
  BY <1>1
<1> HIDE DEF y
<1>3. \A i \in 1..2 : y[i] = x[i]
  <2>1. \A i \in 1..2 : i = 1 \/ i = 2
    OBVIOUS
  <2> QED
    BY <1>2, <2>1
<1>4. y = [i \in 1..2 |-> y[i]] /\ x = [i \in 1..2 |-> x[i]]
  BY <1>2
<1>5. y = x
  BY <1>3, <1>4
<1> QED
  BY <1>1, <1>5 DEF y

\* A message as it is parsed, and what the codec requires of it.
ParsedFrom(in, m) ==
    /\ in.r = "OscoreNoError" /\ in.kind = m.kind /\ in.code = m.code /\ in.MID = m.MID
    /\ in.token = m.token /\ in.options = Deltas(m.options) /\ in.payload = m.payload

LEMMA OrdinaryParsed ==
    ASSUME NEW m, OrdinaryMessage(m)
    PROVE  /\ ParsedFrom(AsParsed(m), m)
           /\ Message(AsParsed(m)) /\ Exchangeable(AsParsed(m))
<1> DEFINE in == AsParsed(m)
           d == Deltas(m.options)
<1>1. ParsedFrom(in, m)
  BY ParsedFields DEF ParsedFrom, AsParsed
<1>2. /\ m.kind \in 0..15 /\ m.code \in Nat /\ m.payload \in Seq(Nat)
      /\ m.MID \in Seq(Nat) /\ Len(m.MID) = 2
      /\ m.token \in Seq(Nat) /\ Len(m.token) = 4 /\ OrdinaryOptions(m.options)
  BY DEF OrdinaryMessage, OrdinaryContent
<1>3. ShortRecords(d) /\ Chained(d) /\ options_into_byte_string(d) \in Seq(Clean)
  BY <1>2, OrdinaryDeltas
<1> HIDE DEF d
<1>4. Readable(d, 1)
  BY <1>3, ShortRecord
<1>5. NoMarker(options_into_byte_string(d))
  BY <1>3, CleanCells
<1>6. /\ m.payload \in Seq(Int) /\ m.MID \in Seq(Int) /\ m.token \in Seq(Int)
  BY <1>2, CleanAreBytes, MoreCells
<1>7. m.MID = <<m.MID[1], m.MID[2]>> /\ m.MID[1] \in Nat /\ m.MID[2] \in Nat
  BY <1>2, Pair
<1>8. m.code \in Int /\ m.MID[1] \in Int /\ m.MID[2] \in Int /\ Len(m.token) <= 8
  BY <1>2, <1>7
<1>9. in = Parsed(in.kind, in.code, in.MID, in.token, in.options, in.payload)
  <2>1. in = Parsed(m.kind, m.code, m.MID, m.token, d, m.payload)
    BY DEF AsParsed, d
  <2>2. /\ in.kind = m.kind /\ in.code = m.code /\ in.MID = m.MID
        /\ in.token = m.token /\ in.options = d /\ in.payload = m.payload
    BY <1>1 DEF ParsedFrom, d
  <2> QED
    BY ONLY <2>1, <2>2, Zenon
<1> HIDE DEF in
<1>10. /\ in.kind = m.kind /\ in.code = m.code /\ in.MID = m.MID
       /\ in.token = m.token /\ in.options = d /\ in.payload = m.payload
  BY <1>1 DEF ParsedFrom, d
<1>11. Message(in)
  BY <1>2, <1>6, <1>7, <1>8, <1>9, <1>10, Zenon DEF Message
<1>12. Exchangeable(in)
  BY <1>2, <1>3, <1>4, <1>5, <1>6, <1>8, <1>10, Zenon DEF Exchangeable
<1> QED
  BY <1>1, <1>11, <1>12 DEF in

\* The head of a packet: two bytes, the message ID and the token.
HeadOf(kind, code, MID, token) == <<kind * 16 + Len(token), code>> \o MID \o token

HeadParts(kind, code, MID, token) ==
    /\ kind \in 0..15 /\ code \in Nat
    /\ MID \in Seq(Nat) /\ Len(MID) = 2
    /\ token \in Seq(Nat) /\ Len(token) = 4

LEMMA HeadCells ==
    ASSUME NEW kind, NEW code, NEW MID, NEW token, HeadParts(kind, code, MID, token)
    PROVE  LET head == HeadOf(kind, code, MID, token)
           IN  /\ head \in Seq(Nat) /\ Len(head) = 8
               /\ head[1] = kind * 16 + 4 /\ head[2] = code
               /\ head[3] = MID[1] /\ head[4] = MID[2]
               /\ \A i \in 1..4 : head[4 + i] = token[i]
               /\ <<kind * 16 + Len(token), code>> \o MID \in Seq(Nat)
<1>12. /\ kind \in 0..15 /\ code \in Nat /\ MID \in Seq(Nat) /\ Len(MID) = 2
      /\ token \in Seq(Nat) /\ Len(token) = 4
  BY DEF HeadParts
<1> DEFINE first == kind * 16 + Len(token)
           front == <<first, code>>
           four == front \o MID
           head == four \o token
<1>1. first = kind * 16 + 4 /\ first \in Nat
  BY <1>12
<1> HIDE DEF first
<1>2. /\ front \in Seq(Nat) /\ Len(front) = 2 /\ front[1] = first /\ front[2] = code
  BY <1>1, <1>12
<1>3. IsPair(front) /\ IsPair(MID)
  BY <1>2, <1>12, CleanAreBytes, MoreCells DEF IsPair
<1> HIDE DEF front
<1>4. /\ Len(four) = 4 /\ four[1] = first /\ four[2] = code
      /\ four[3] = MID[1] /\ four[4] = MID[2]
  BY <1>2, <1>3, TwoPairs
<1>5. four \in Seq(Nat)
  BY <1>2, <1>12
<1> HIDE DEF four
<1>6. head \in Seq(Nat)
  BY <1>5, <1>12
<1>7. four \in Seq(Int) /\ token \in Seq(Int)
  BY <1>5, <1>12, CleanAreBytes, MoreCells
<1>8. /\ Len(head) = Len(four) + Len(token)
      /\ \A i \in 1..Len(four) : head[i] = four[i]
      /\ \A i \in 1..Len(token) : head[Len(four) + i] = token[i]
  BY ONLY <1>7, TwoParts DEF head
<1> HIDE DEF head
<1>9. Len(head) = 8 /\ \A i \in 1..4 : head[i] = four[i] /\ head[4 + i] = token[i]
  BY <1>4, <1>8, <1>12
<1>10. /\ head[1] = four[1] /\ head[2] = four[2] /\ head[3] = four[3] /\ head[4] = four[4]
  BY <1>9
<1>11. HeadOf(kind, code, MID, token) = head
  BY DEF HeadOf, head, four, front, first
<1>13. <<kind * 16 + Len(token), code>> \o MID \in Seq(Nat)
  BY <1>5 DEF four, front, first
<1> QED
  BY <1>1, <1>4, <1>6, <1>9, <1>10, <1>11, <1>13

\* The payload behind its marker.
Behind(payload) == IF payload = <<>> THEN <<>> ELSE <<Marker>> \o payload

Pieces(header, token, options, payload) ==
    header \in Seq(Int) /\ token \in Seq(Int) /\ options \in Seq(Int) /\ payload \in Seq(Int)

LEMMA PacketIs ==
    ASSUME NEW header, NEW token, NEW options, NEW payload,
           Pieces(header, token, options, payload)
    PROVE  header \o token \o options \o Behind(payload)
             = PacketBytes(header, token, options, payload)
<1> DEFINE headed == header \o token \o options
<1>1. headed \in Seq(Int) /\ payload \in Seq(Int)
  BY DEF Pieces
<1>2. PacketBytes(header, token, options, payload)
        = IF payload = <<>> THEN headed ELSE headed \o <<Marker>> \o payload
  BY DEF PacketBytes
<1> HIDE DEF headed
<1>3. headed \o <<>> = headed
  BY <1>1, NothingBehind
<1>4. <<Marker>> \in Seq(Int)
  BY DEF Marker
<1>5. headed \o <<Marker>> \o payload = headed \o (<<Marker>> \o payload)
  BY <1>1, <1>4, ConcatAssociates
<1>6. PacketBytes(header, token, options, payload) = headed \o Behind(payload)
  BY <1>2, <1>3, <1>5 DEF Behind
<1> QED
  BY <1>6 DEF headed

LEMMA PrefixKept ==
    ASSUME NEW x \in Seq(Int), NEW y \in Seq(Int), NEW z \in Seq(Int)
    PROVE  /\ Len(x) <= Len(x \o y \o z)
           /\ \A i \in 1..Len(x) : (x \o y \o z)[i] = x[i]
<1>1. /\ x \o y \in Seq(Int) /\ Len(x \o y) = Len(x) + Len(y)
      /\ \A i \in 1..Len(x) : (x \o y)[i] = x[i]
  BY TwoParts
<1> DEFINE xy == x \o y
<1>2. /\ Len(xy \o z) = Len(xy) + Len(z)
      /\ \A i \in 1..Len(xy) : (xy \o z)[i] = xy[i]
  BY ONLY <1>1, z \in Seq(Int), TwoParts DEF xy
<1>3. Len(x) \in Nat /\ Len(y) \in Nat /\ Len(z) \in Nat
  OBVIOUS
<1>4. Len(xy) = Len(x) + Len(y) /\ \A i \in 1..Len(x) : xy[i] = x[i]
  BY <1>1
<1> HIDE DEF xy
<1>5. Len(x) <= Len(xy \o z) /\ \A i \in 1..Len(x) : (xy \o z)[i] = x[i]
  BY <1>2, <1>3, <1>4
<1> QED
  BY <1>5 DEF xy

LEMMA BehindTyped ==
    ASSUME NEW P, Marker \in P, NEW payload \in Seq(P)
    PROVE  Behind(payload) \in Seq(P)
BY DEF Behind

LEMMA OrdinaryEncoded ==
    ASSUME NEW m, OrdinaryMessage(m)
    PROVE  /\ Encode(m) = PacketOf(AsParsed(m))
           /\ Encode(m) \in Seq(Nat) /\ Len(Encode(m)) >= 8
           /\ Header(AsParsed(m)) \o m.token = HeadOf(m.kind, m.code, m.MID, m.token)
           /\ Header(AsParsed(m)) \in Seq(Nat)
           /\ \A i \in 1..8 : Encode(m)[i] = HeadOf(m.kind, m.code, m.MID, m.token)[i]
<1> DEFINE in == AsParsed(m)
           header == <<m.kind * 16 + Len(m.token), m.code>> \o m.MID
           head == HeadOf(m.kind, m.code, m.MID, m.token)
           bytes == options_into_byte_string(Deltas(m.options))
           tail == Behind(m.payload)
<1>1. /\ m.kind \in 0..15 /\ m.code \in Nat /\ m.payload \in Seq(Nat)
      /\ m.MID \in Seq(Nat) /\ Len(m.MID) = 2
      /\ m.token \in Seq(Nat) /\ Len(m.token) = 4 /\ OrdinaryOptions(m.options)
      /\ ShortOptions(m.options) /\ HeadParts(m.kind, m.code, m.MID, m.token)
  BY DEF OrdinaryMessage, OrdinaryContent, OrdinaryOptions, HeadParts
<1>2. ParsedFrom(in, m)
  BY OrdinaryParsed
<1>3. bytes \in Seq(Nat)
  BY <1>1, OrdinaryDeltas, CleanAreBytes, MoreCells
<1>4. EncodedOptions(m.options)[Len(m.options)] = bytes
  BY <1>1, OptionsEncoded
<1>5. head = header \o m.token
  BY DEF HeadOf
<1>6. header \in Seq(Nat)
  BY <1>1, HeadCells
<1>7. Header(in) = header
  <2>1. in.kind = m.kind /\ in.code = m.code /\ in.MID = m.MID /\ in.token = m.token
    BY <1>2 DEF ParsedFrom
  <2> HIDE DEF in
  <2> QED
    BY <2>1 DEF Header
<1>8. Encode(m) = header \o m.token \o bytes \o tail
  BY <1>4 DEF Encode, Behind
<1>9. PacketOf(in) = PacketBytes(header, m.token, bytes, m.payload)
  <2>1. in.token = m.token /\ in.options = Deltas(m.options) /\ in.payload = m.payload
    BY <1>2 DEF ParsedFrom
  <2> HIDE DEF in
  <2> QED
    BY <1>7, <2>1 DEF PacketOf
<1> HIDE DEF in, header, bytes, tail, head
<1>10. /\ header \in Seq(Int) /\ m.token \in Seq(Int) /\ bytes \in Seq(Int)
       /\ m.payload \in Seq(Int)
  BY <1>1, <1>3, <1>6, CleanAreBytes, MoreCells
<1>11. Encode(m) = PacketOf(in)
  <2>1. Encode(m) = header \o m.token \o bytes \o Behind(m.payload)
    BY <1>8 DEF tail
  <2>2. header \o m.token \o bytes \o Behind(m.payload)
          = PacketBytes(header, m.token, bytes, m.payload)
    <3>1. Pieces(header, m.token, bytes, m.payload)
      BY <1>10 DEF Pieces
    <3> QED
      BY ONLY <3>1, PacketIs, Zenon
  <2> QED
    BY ONLY <1>9, <2>1, <2>2, Zenon
<1>12. tail \in Seq(Nat) /\ tail \in Seq(Int)
  <2>1. Marker \in Nat
    BY DEF Marker
  <2>2. tail \in Seq(Nat)
    BY <1>1, <2>1, BehindTyped DEF tail
  <2> QED
    BY <2>2, CleanAreBytes, MoreCells
<1>13. header \o m.token \in Seq(Nat) /\ header \o m.token \o bytes \in Seq(Nat)
  BY <1>1, <1>3, <1>6
<1>14. Encode(m) \in Seq(Nat)
  <2> DEFINE headed == header \o m.token \o bytes
  <2>1. headed \in Seq(Nat)
    BY <1>13
  <2> HIDE DEF headed
  <2>2. headed \o tail \in Seq(Nat)
    BY <1>12, <2>1
  <2> QED
    BY <1>8, <2>2 DEF headed
<1>15. /\ head \in Seq(Int) /\ Len(head) = 8
  <2>1. head \in Seq(Nat) /\ Len(head) = 8
    <3>1. HeadParts(m.kind, m.code, m.MID, m.token)
      BY <1>1
    <3> QED
      BY ONLY <3>1, HeadCells DEF head
  <2> QED
    BY <2>1, CleanAreBytes, MoreCells
<1>16. Encode(m) = head \o bytes \o tail
  BY <1>5, <1>8
<1>17. /\ Len(head) <= Len(Encode(m))
       /\ \A i \in 1..Len(head) : Encode(m)[i] = head[i]
  <2>1. /\ Len(head) <= Len(head \o bytes \o tail)
        /\ \A i \in 1..Len(head) : (head \o bytes \o tail)[i] = head[i]
    BY <1>10, <1>12, <1>15, PrefixKept
  <2> QED
    BY ONLY <1>16, <2>1, Zenon
<1>18. 8 <= Len(Encode(m)) /\ \A i \in 1..8 : Encode(m)[i] = head[i]
  BY ONLY <1>15, <1>17
<1>19. Len(Encode(m)) \in Nat
  BY <1>14
<1>20. Header(in) \in Seq(Nat) /\ Header(in) \o m.token = head
  BY <1>5, <1>6, <1>7
<1> QED
  BY <1>11, <1>14, <1>18, <1>19, <1>20 DEF in, head

\* What coap2buf writes has a header of four bytes.
Writes(in) ==
    /\ Pieces(Header(in), in.token, options_into_byte_string(in.options), in.payload)
    /\ Len(Header(in)) = 4

LEMMA ExchangeableWrites ==
    ASSUME NEW in, Exchangeable(in)
    PROVE  Writes(in)
<1> DEFINE front == <<in.kind * 16 + Len(in.token), in.code>>
<1>1. /\ in.kind \in 0..15 /\ in.code \in Int /\ in.MID \in Seq(Int) /\ Len(in.MID) = 2
      /\ in.token \in Seq(Int) /\ in.payload \in Seq(Int) /\ Readable(in.options, 1)
  BY DEF Exchangeable
<1>2. in.kind * 16 + Len(in.token) \in Int
  <2> DEFINE kind == in.kind
             len == Len(in.token)
  <2>1. kind \in 0..15 /\ in.token \in Seq(Int)
    BY <1>1
  <2>2. len \in Int
    BY <2>1
  <2> HIDE DEF kind, len
  <2>3. kind * 16 + len \in Int
    BY <2>1, <2>2
  <2> QED
    BY <2>3 DEF kind, len
<1>3. front \in Seq(Int) /\ Len(front) = 2
  BY <1>1, <1>2
<1> HIDE DEF front
<1>4. front \o in.MID \in Seq(Int) /\ Len(front \o in.MID) = 4
  <2>1. front \o in.MID \in Seq(Int) /\ Len(front \o in.MID) = Len(front) + Len(in.MID)
    BY <1>1, <1>3, JoinedLength
  <2> QED
    BY <1>1, <1>3, <2>1
<1>5. Header(in) = front \o in.MID
  BY DEF Header, front
<1>6. options_into_byte_string(in.options) \in Seq(Int)
  BY <1>1, OptionBytesTyped
<1>7. Pieces(Header(in), in.token, options_into_byte_string(in.options), in.payload)
  BY <1>1, <1>4, <1>5, <1>6, Zenon DEF Pieces
<1> QED
  BY <1>4, <1>5, <1>7 DEF Writes

LEMMA PacketTyped ==
    ASSUME NEW in, Writes(in)
    PROVE  /\ PacketOf(in) \in Seq(Int)
           /\ Len(PacketOf(in))
                = 4 + Len(in.token) + Len(options_into_byte_string(in.options))
                    + (IF in.payload = <<>> THEN 0 ELSE 1 + Len(in.payload))
<1> DEFINE header == Header(in)
           token == in.token
           options == options_into_byte_string(in.options)
           payload == in.payload
           packet == PacketBytes(header, token, options, payload)
<1>1. /\ header \in Seq(Int) /\ token \in Seq(Int) /\ options \in Seq(Int)
      /\ payload \in Seq(Int) /\ Len(header) = 4
  BY DEF Writes, Pieces
<1> HIDE DEF header, token, options, payload
<1>2. packet \in Seq(Int) /\ EndsWithPayload(packet, 1 + Len(header) + Len(token) + Len(options), payload)
  BY ONLY <1>1, PacketParts
<1> HIDE DEF packet
<1>3. Len(packet) = 4 + Len(token) + Len(options) + (IF payload = <<>> THEN 0 ELSE 1 + Len(payload))
  <2> DEFINE at == 1 + Len(header) + Len(token) + Len(options)
  <2>1. at = 5 + Len(token) + Len(options) /\ at \in Int /\ Len(payload) \in Int
    BY <1>1
  <2>2. IF payload = <<>> THEN Len(packet) = at - 1 ELSE Len(packet) = at + Len(payload)
    BY <1>2 DEF EndsWithPayload
  <2> HIDE DEF at
  <2> DEFINE t == Len(token)
             o == Len(options)
             p == Len(payload)
             l == Len(packet)
  <2>3. t \in Int /\ o \in Int /\ p \in Int /\ l \in Int
    BY <1>1, <1>2
  <2>4. at = 5 + t + o /\ (IF payload = <<>> THEN l = at - 1 ELSE l = at + p)
    BY <2>1, <2>2
  <2> HIDE DEF t, o, p, l
  <2>5. l = 4 + t + o + (IF payload = <<>> THEN 0 ELSE 1 + p)
    <3>1. CASE payload = <<>>
      BY ONLY <2>3, <2>4, <3>1
    <3>2. CASE payload # <<>>
      BY ONLY <2>3, <2>4, <3>2
    <3> QED
      BY ONLY <3>1, <3>2
  <2> QED
    BY <2>5 DEF t, o, p, l
<1>4. packet = PacketOf(in)
  BY DEF PacketOf, packet, header, token, options, payload
<1> QED
  BY <1>2, <1>3, <1>4, Zenon DEF token, options, payload

LEMMA RoomForAll ==
    ASSUME NEW capacity \in Int, NEW t \in Nat, NEW o \in Nat, NEW p \in Nat, NEW l \in Int,
           l = 4 + t + o + (IF p = 0 THEN 0 ELSE 1 + p),
           capacity < 4 \/ l <= capacity
    PROVE  /\ Fits(capacity, 4, t) /\ Fits(capacity, 4 + t, o)
           /\ p # 0 => Fits(capacity, 4 + t + o + 1, p)
BY DEF Fits

LEMMA Written ==
    ASSUME NEW in, Writes(in), NEW b, NEW capacity \in Int,
           capacity < 4 \/ Len(PacketOf(in)) <= capacity
    PROVE  coap2buf(in, b, capacity)
             = [r |-> "OscoreNoError", b |-> Overlay(b, PacketOf(in)), len |-> Len(PacketOf(in))]
<1> DEFINE header == Header(in)
           token == in.token
           options == options_into_byte_string(in.options)
           payload == in.payload
           headed == header \o token \o options
           packet == PacketOf(in)
           t == Len(token)
           o == Len(options)
           p == Len(payload)
           l == Len(packet)
<1>1. /\ header \in Seq(Int) /\ token \in Seq(Int) /\ options \in Seq(Int)
      /\ payload \in Seq(Int) /\ Len(header) = 4
  BY DEF Writes, Pieces
<1>2. /\ packet \in Seq(Int)
      /\ l = 4 + t + o + (IF payload = <<>> THEN 0 ELSE 1 + p)
  BY PacketTyped
<1>3. packet = IF payload = <<>> THEN headed ELSE headed \o <<Marker>> \o payload
  BY DEF PacketOf, PacketBytes
<1> HIDE DEF header, token, options, payload, packet
<1>4. Len(headed) = 4 + t + o
  <2>1. Len(headed) = Len(header) + Len(token) + Len(options)
    BY <1>1, ThreeParts
  <2> HIDE DEF headed
  <2> QED
    BY <1>1, <2>1
<1>5. t \in Nat /\ o \in Nat /\ p \in Nat /\ l \in Int /\ (payload = <<>> <=> p = 0)
  <2>1. t \in Nat /\ o \in Nat /\ p \in Nat /\ l \in Int
    BY <1>1, <1>2
  <2>2. payload = <<>> <=> p = 0
    BY <1>1
  <2> QED
    BY <2>1, <2>2
<1>6. capacity < 4 \/ l <= capacity
  BY DEF packet
<1> HIDE DEF t, o, p, l
<1>7. l = 4 + t + o + (IF p = 0 THEN 0 ELSE 1 + p)
  BY <1>2, <1>5
<1>8. /\ Fits(capacity, 4, t) /\ Fits(capacity, 4 + t, o)
      /\ p # 0 => Fits(capacity, 4 + t + o + 1, p)
  BY ONLY <1>5, <1>6, <1>7, capacity \in Int, RoomForAll
<1>9. /\ Fits(capacity, 4, Len(token)) /\ Fits(capacity, 4 + Len(token), Len(options))
      /\ payload # <<>> => Fits(capacity, Len(headed) + 1, Len(payload))
  BY <1>4, <1>5, <1>8 DEF t, o, p
<1> HIDE DEF headed
<1>10. coap2buf(in, b, capacity)
         = IF token # <<>> /\ ~Fits(capacity, 4, Len(token))
           THEN [r |-> "DestBufferToSmall", b |-> Overlay(b, header), len |-> capacity]
           ELSE IF ~Fits(capacity, 4 + Len(token), Len(options))
           THEN [r |-> "DestBufferToSmall", b |-> Overlay(b, header \o token), len |-> capacity]
           ELSE IF payload # <<>> /\ ~Fits(capacity, Len(headed) + 1, Len(payload))
           THEN [r |-> "DestBufferToSmall", b |-> Overlay(b, headed \o <<Marker>>),
                 len |-> capacity]
           ELSE [r |-> "OscoreNoError",
                 b |-> Overlay(b, IF payload = <<>> THEN headed
                                  ELSE headed \o <<Marker>> \o payload),
                 len |-> Len(IF payload = <<>> THEN headed
                             ELSE headed \o <<Marker>> \o payload)]
  BY DEF coap2buf, Header, header, token, options, payload, headed
<1>11. coap2buf(in, b, capacity)
         = [r |-> "OscoreNoError", b |-> Overlay(b, packet), len |-> Len(packet)]
  BY ONLY <1>3, <1>9, <1>10
<1> QED
  BY <1>11 DEF packet

LEMMA PacketIsRead ==
    ASSUME NEW in, Message(in), Exchangeable(in)
    PROVE  buf2coap(PacketOf(in)) = in
<1> DEFINE none == <<>>
           written == coap2buf(in, none, 0)
           packet == PacketOf(in)
<1>1. Writes(in) /\ packet \in Seq(Int) /\ none \in Seq(Int)
  <2>1. Writes(in)
    BY ExchangeableWrites
  <2>2. packet \in Seq(Int)
    BY <2>1, PacketTyped
  <2> QED
    BY <2>1, <2>2
<1> HIDE DEF none
<1>2. written = [r |-> "OscoreNoError", b |-> Overlay(none, packet), len |-> Len(packet)]
  BY <1>1, Written
<1>3. written.r = "OscoreNoError" /\ written.b = Overlay(none, packet) /\ written.len = Len(packet)
  BY ONLY <1>2
<1>4. buf2coap(Slice(written.b, 1, written.len))
        = [r |-> "OscoreNoError", kind |-> in.kind, code |-> in.code,
           MID |-> <<in.MID[1], in.MID[2]>>, token |-> in.token,
           options |-> in.options, payload |-> in.payload]
  BY <1>1, <1>3, WrittenIsRead
<1> HIDE DEF written, packet
<1>5. Slice(written.b, 1, written.len) = packet
  BY <1>1, <1>3, WrittenInFront
<1>6. in = [r |-> "OscoreNoError", kind |-> in.kind, code |-> in.code,
            MID |-> <<in.MID[1], in.MID[2]>>, token |-> in.token,
            options |-> in.options, payload |-> in.payload]
  <2>1. in = Parsed(in.kind, in.code, in.MID, in.token, in.options, in.payload)
    BY DEF Message
  <2>2. in.MID = <<in.MID[1], in.MID[2]>>
    BY DEF Message
  <2>3. in = Parsed(in.kind, in.code, <<in.MID[1], in.MID[2]>>, in.token, in.options, in.payload)
    BY ONLY <2>1, <2>2, Zenon
  <2> QED
    BY ONLY <2>3, Zenon DEF Parsed
<1>7. buf2coap(packet) = in
  BY ONLY <1>4, <1>5, <1>6, Zenon
<1> QED
  BY <1>7 DEF packet

\* What a buffer holds and sends of a protected message.
SealedOut(m, value, key, nonce, aad, out) ==
    [b |-> Overlay(out.b, SealedPacket(m, value)), len |-> Len(SealedPacket(m, value)),
     seal |-> Seal(key, nonce, aad, PlaintextFor(m))]

LEMMA PlaintextTyped ==
    ASSUME NEW m, OrdinaryMessage(m)
    PROVE  /\ PlaintextFor(m) \in Seq(Int) /\ Len(PlaintextFor(m)) \in Nat
           /\ PlaintextFor(m) = PlaintextOf(AsParsed(m).code, AsParsed(m).options,
                                            AsParsed(m).payload)
<1> DEFINE in == AsParsed(m)
           d == Deltas(m.options)
<1>1. ParsedFrom(in, m)
  BY OrdinaryParsed
<1>2. m.code \in Int /\ OrdinaryOptions(m.options) /\ m.payload \in Seq(Int)
  <2>1. m.code \in Nat /\ OrdinaryOptions(m.options) /\ m.payload \in Seq(Nat)
    BY DEF OrdinaryMessage, OrdinaryContent
  <2> QED
    BY <2>1, CleanAreBytes, MoreCells
<1>3. Mergeable(d) /\ ShortValues(d)
  BY <1>2, OrdinaryDeltas
<1> HIDE DEF d
<1>4. PlaintextOf(m.code, d, m.payload) \in Seq(Int)
  BY <1>2, <1>3, PlaintextParts DEF Mergeable
<1>5. in.code = m.code /\ in.options = d /\ in.payload = m.payload
  BY <1>1 DEF ParsedFrom, d
<1>6. PlaintextFor(m) = PlaintextOf(m.code, d, m.payload)
  BY DEF PlaintextFor, d
<1> HIDE DEF in
<1>7. PlaintextFor(m) = PlaintextOf(in.code, in.options, in.payload)
  BY ONLY <1>5, <1>6, Zenon
<1>8. PlaintextFor(m) \in Seq(Int)
  BY <1>4, <1>6
<1> QED
  BY <1>7, <1>8 DEF in

LEMMA SealedWrites ==
    ASSUME NEW m, OrdinaryMessage(m), NEW value \in Seq(Nat), Len(value) < 13
    PROVE  /\ Writes(Sealed(AsParsed(m), value, Len(PlaintextFor(m))))
           /\ Mergeable(AsParsed(m).options) /\ ShortValues(AsParsed(m).options)
           /\ RightlyCounted(AsParsed(m).options) /\ Numbered(AsParsed(m).options)
<1> DEFINE in == AsParsed(m)
           d == Deltas(m.options)
           n == Len(PlaintextFor(m))
           code == IF IsRequest(in.code) THEN POST ELSE Changed
           outer == OuterOptions(d, value)
           pkg == Sealed(in, value, n)
<1>1. ParsedFrom(in, m) /\ Message(in)
  BY OrdinaryParsed
<1>2. OrdinaryOptions(m.options) /\ HeadParts(m.kind, m.code, m.MID, m.token)
  BY DEF OrdinaryMessage, OrdinaryContent, HeadParts
<1>3. Mergeable(d) /\ ShortValues(d) /\ RightlyCounted(d)
  BY <1>2, OrdinaryDeltas
<1>4. options_into_byte_string(outer) \in Seq(Nat)
  BY <1>2, OuterBytes
<1>5. n \in Nat
  BY PlaintextTyped
<1> HIDE DEF d, n, in
<1>6. in.kind = m.kind /\ in.MID = m.MID /\ in.token = m.token /\ in.options = d
  BY <1>1 DEF ParsedFrom, d
<1>7. pkg = Parsed(in.kind, code, in.MID, in.token, OuterOptions(in.options, value), Ciphertext(n))
  BY <1>1, SealedFields
<1> HIDE DEF code, pkg
<1>8. /\ pkg.kind = m.kind /\ pkg.code = code /\ pkg.MID = m.MID /\ pkg.token = m.token
      /\ pkg.options = OuterOptions(d, value) /\ pkg.payload = Ciphertext(n)
  <2>1. pkg = Parsed(m.kind, code, m.MID, m.token, OuterOptions(d, value), Ciphertext(n))
    BY ONLY <1>6, <1>7, Zenon
  <2> QED
    BY ONLY <2>1 DEF Parsed
<1>9. code \in Nat
  <2>1. 2 \in Nat /\ 68 \in Nat
    OBVIOUS
  <2> QED
    BY <2>1 DEF code, POST, Changed
<1>10. HeadParts(m.kind, code, m.MID, m.token)
  BY <1>2, <1>9 DEF HeadParts
<1> DEFINE header == <<m.kind * 16 + Len(m.token), code>> \o m.MID
<1>11. header \in Seq(Nat)
  BY <1>10, HeadCells
<1>12. Len(header) = 4
  <2> DEFINE first == m.kind * 16 + Len(m.token)
             front == <<first, code>>
  <2>1. front \in Seq(Int) /\ Len(front) = 2
    <3>1. m.kind \in Int /\ Len(m.token) \in Int
      <4>1. m.kind \in 0..15 /\ m.token \in Seq(Nat)
        BY <1>10 DEF HeadParts
      <4> QED
        BY <4>1, UpToFifteen
    <3>2. first \in Int
      BY <3>1
    <3> HIDE DEF first
    <3> QED
      BY <1>9, <3>2
  <2> HIDE DEF front
  <2>2. m.MID \in Seq(Int) /\ Len(m.MID) = 2
    BY <1>10, CleanAreBytes, MoreCells DEF HeadParts
  <2>3. Len(front \o m.MID) = Len(front) + Len(m.MID)
    BY <2>1, <2>2, JoinedLength
  <2>4. Len(front \o m.MID) = 4
    BY <2>1, <2>2, <2>3
  <2> QED
    BY <2>4 DEF front
<1>13. Header(pkg) = header
  BY <1>8 DEF Header
<1> HIDE DEF header, outer
<1>14. header \in Seq(Int) /\ m.token \in Seq(Int) /\ options_into_byte_string(outer) \in Seq(Int)
  <2>1. m.token \in Seq(Nat)
    BY <1>10 DEF HeadParts
  <2> QED
    BY <1>4, <1>11, <2>1, CleanAreBytes, MoreCells
<1>15. Ciphertext(n) \in Seq(Int)
  BY <1>5, CiphertextTyped
<1>16. Pieces(Header(pkg), pkg.token, options_into_byte_string(pkg.options), pkg.payload)
  BY <1>8, <1>13, <1>14, <1>15, Zenon DEF Pieces, outer
<1>17. Writes(pkg)
  BY <1>12, <1>13, <1>16 DEF Writes
<1>18. Numbered(d)
  BY <1>3 DEF Mergeable
<1>19. /\ Mergeable(in.options) /\ ShortValues(in.options)
       /\ RightlyCounted(in.options) /\ Numbered(in.options)
  BY ONLY <1>3, <1>6, <1>18, Zenon
<1> QED
  BY <1>17, <1>19 DEF pkg, n, in

LEMMA EncodedIsParsed ==
    ASSUME NEW m, OrdinaryMessage(m)
    PROVE  /\ buf2coap(Encode(m)) = AsParsed(m)
           /\ \A c, out : coap2oscore(Encode(m), c, out) = Protected(AsParsed(m), c, out)
<1> DEFINE in == AsParsed(m)
<1>1. buf2coap(Encode(m)) = in
  <2>1. Encode(m) = PacketOf(in)
    BY OrdinaryEncoded
  <2>2. buf2coap(PacketOf(in)) = in
    BY OrdinaryParsed, PacketIsRead
  <2> QED
    BY ONLY <2>1, <2>2, Zenon
<1>2. in.r = "OscoreNoError"
  BY OrdinaryParsed DEF ParsedFrom
<1> HIDE DEF in
<1>3. \A c, out : ProtectParsed(in, c, out) = Protected(in, c, out)
  BY <1>2 DEF ProtectParsed, Protected
<1>4. ASSUME NEW c, NEW out PROVE coap2oscore(Encode(m), c, out) = ProtectParsed(in, c, out)
  BY <1>1, Zenon DEF coap2oscore
<1> QED
  BY <1>1, <1>3, <1>4 DEF in

\* The room for a protected packet.
HasRoom(out, len) ==
    out.len \in Int /\ (out.len < 4 \/ len <= out.len)

LEMMA SealedIsSent ==
    ASSUME NEW m, OrdinaryMessage(m), NEW value \in Seq(Nat), Len(value) < 13,
           NEW c, NEW out, HasRoom(out, Len(SealedPacket(m, value)))
    PROVE  ProtectAndWrite(AsParsed(m), e_u_options_extract(AsParsed(m).options),
                           PlaintextFor(m), value, c, out)
             = [r |-> "OscoreNoError", c |-> c,
                out |-> SealedOut(m, value, c.sender_key, c.nonce, c.aad, out)]
<1> DEFINE in == AsParsed(m)
           pkg == Sealed(in, value, Len(PlaintextFor(m)))
           packet == PacketOf(pkg)
           written == coap2buf(pkg, out.b, out.len)
           seal == Seal(c.sender_key, c.nonce, c.aad, PlaintextFor(m))
           sent == ProtectAndWrite(in, e_u_options_extract(in.options), PlaintextFor(m), value,
                                   c, out)
<1>1. Writes(pkg) /\ Mergeable(in.options)
  BY SealedWrites
<1>2. SealedPacket(m, value) = packet
  BY DEF SealedPacket
<1>3. out.len \in Int /\ (out.len < 4 \/ Len(packet) <= out.len)
  BY <1>2 DEF HasRoom
<1>4. written = [r |-> "OscoreNoError", b |-> Overlay(out.b, packet), len |-> Len(packet)]
  <2> HIDE DEF pkg
  <2> QED
    BY <1>1, <1>3, Written
<1>5. sent = [r   |-> written.r, c |-> c,
              out |-> [b |-> written.b, len |-> written.len,
                       seal |-> IF written.r = "OscoreNoError" THEN seal ELSE out.seal]]
  BY <1>1, ProtectedPacket
<1> HIDE DEF sent, written, packet, seal
<1>6. sent = [r   |-> "OscoreNoError", c |-> c,
              out |-> [b |-> Overlay(out.b, packet), len |-> Len(packet), seal |-> seal]]
  <2>1. /\ written.r = "OscoreNoError" /\ written.b = Overlay(out.b, packet)
        /\ written.len = Len(packet)
    BY ONLY <1>4
  <2>2. (IF written.r = "OscoreNoError" THEN seal ELSE out.seal) = seal
    BY <2>1
  <2> QED
    BY ONLY <1>5, <2>1, <2>2, Zenon
<1>7. SealedOut(m, value, c.sender_key, c.nonce, c.aad, out)
        = [b |-> Overlay(out.b, packet), len |-> Len(packet), seal |-> seal]
  BY <1>2 DEF SealedOut, seal
<1>8. sent = [r |-> "OscoreNoError", c |-> c,
              out |-> SealedOut(m, value, c.sender_key, c.nonce, c.aad, out)]
  BY ONLY <1>6, <1>7, Zenon
<1> QED
  BY <1>8 DEF sent, in

\* An ordinary answer is protected with the nonce and AAD of the context.
LEMMA AnswerSent ==
    ASSUME NEW m, OrdinaryMessage(m), ~IsRequest(m.code),
           NEW c, NEW out, HasRoom(out, Len(SealedPacket(m, <<>>)))
    PROVE  coap2oscore(Encode(m), c, out)
             = [r |-> "OscoreNoError", c |-> c,
                out |-> SealedOut(m, <<>>, c.sender_key, c.nonce, c.aad, out)]
<1> DEFINE in == AsParsed(m)
           none == <<>>
           split == e_u_options_extract(in.options)
<1>1. none \in Seq(Nat) /\ Len(none) < 13
  OBVIOUS
<1>2. Message(in) /\ in.code = m.code
  BY OrdinaryParsed DEF ParsedFrom
<1>3. Numbered(in.options) /\ ShortValues(in.options) /\ RightlyCounted(in.options)
  BY <1>1, SealedWrites
<1>4. PlaintextFor(m) = PlaintextOf(in.code, in.options, in.payload)
  BY PlaintextTyped
<1>5. ~IsRequest(in.code)
  BY <1>2
<1> HIDE DEF in, split
<1>6. Protected(in, c, out)
        = ProtectAndWrite(in, split, PlaintextOf(in.code, in.options, in.payload), none, c, out)
  BY <1>2, <1>3, <1>5, ProtectedResponse DEF split
<1> HIDE DEF none
<1>7. ProtectAndWrite(in, split, PlaintextFor(m), none, c, out)
        = [r |-> "OscoreNoError", c |-> c,
           out |-> SealedOut(m, none, c.sender_key, c.nonce, c.aad, out)]
  <2>1. HasRoom(out, Len(SealedPacket(m, none)))
    BY DEF none
  <2> QED
    BY <1>1, <2>1, SealedIsSent DEF in, split
<1>8. coap2oscore(Encode(m), c, out) = Protected(in, c, out)
  BY EncodedIsParsed DEF in
<1>9. coap2oscore(Encode(m), c, out)
        = [r |-> "OscoreNoError", c |-> c,
           out |-> SealedOut(m, none, c.sender_key, c.nonce, c.aad, out)]
  BY ONLY <1>4, <1>6, <1>7, <1>8, Zenon
<1> QED
  BY <1>9 DEF none

\* An ordinary request is protected with the PIV of its number.
LEMMA RequestSent ==
    ASSUME NEW m, OrdinaryMessage(m), IsRequest(m.code), NEW c \in Contexts,
           FitsPiv(c.sender_seq_num),
           NEW piv, piv = sender_seq_num2piv(c.sender_seq_num),
           NEW value \in Seq(Nat),
           value = oscore_option_generate(piv, c.kid_context, c.sender_key.id),
           Len(value) < 13, ~(Len(value) > OSCORE_OPT_VALUE_LEN),
           NEW out, HasRoom(out, Len(SealedPacket(m, value))),
           NEW c1, c1 = RequestContext(c, piv)
    PROVE  coap2oscore(Encode(m), c, out)
             = [r |-> "OscoreNoError", c |-> c1,
                out |-> SealedOut(m, value, c1.sender_key, c1.nonce, c1.aad, out)]
<1> DEFINE in == AsParsed(m)
           split == e_u_options_extract(in.options)
<1>2. Message(in) /\ in.code = m.code
  BY OrdinaryParsed DEF ParsedFrom
<1>3. Numbered(in.options) /\ ShortValues(in.options) /\ RightlyCounted(in.options)
  BY SealedWrites
<1>4. PlaintextFor(m) = PlaintextOf(in.code, in.options, in.payload)
  BY PlaintextTyped
<1>5. IsRequest(in.code)
  BY <1>2
<1> HIDE DEF in, split
<1>6. Protected(in, c, out)
        = ProtectAndWrite(in, split, PlaintextOf(in.code, in.options, in.payload), value, c1, out)
  BY <1>2, <1>3, <1>5, RequestProtects DEF split
<1>7. ProtectAndWrite(in, split, PlaintextFor(m), value, c1, out)
        = [r |-> "OscoreNoError", c |-> c1,
           out |-> SealedOut(m, value, c1.sender_key, c1.nonce, c1.aad, out)]
  BY SealedIsSent DEF in, split
<1>8. coap2oscore(Encode(m), c, out) = Protected(in, c, out)
  BY EncodedIsParsed DEF in
<1> QED
  BY ONLY <1>4, <1>6, <1>7, <1>8, Zenon

-----------------------------------------------------------------------------
\* The security contexts of the client and of the server.

\* The padded PIV has MAX_PIV_LEN bytes (create_nonce, nonce.c).
LEMMA PaddedPivType ==
    ASSUME NEW piv \in PIV
    PROVE  PaddedPiv(piv) \in [1..MAX_PIV_LEN -> Byte]
<1>1. Len(piv) \in Nat /\ MAX_PIV_LEN \in Nat /\ Radix >= 2 /\ Radix \in Nat
  BY PivAssumption DEF PIV
<1>2. ASSUME NEW i \in 1..MAX_PIV_LEN
      PROVE  (IF i <= MAX_PIV_LEN - Len(piv) THEN 0
              ELSE piv[i - (MAX_PIV_LEN - Len(piv))]) \in Byte
  <2>1. CASE i <= MAX_PIV_LEN - Len(piv)
    BY <1>1, <2>1 DEF Byte
  <2>2. CASE ~(i <= MAX_PIV_LEN - Len(piv))
    <3>1. i - (MAX_PIV_LEN - Len(piv)) \in 1..Len(piv)
      BY <1>1, <2>2
    <3>2. piv[i - (MAX_PIV_LEN - Len(piv))] \in Byte
      BY <3>1 DEF PIV
    <3> QED
      BY <2>2, <3>2
  <2> QED
    BY <2>1, <2>2
<1> QED
  BY <1>2 DEF PaddedPiv

\* Nonce and AAD of a PIV.
LEMMA NonceAndAad ==
    ASSUME NEW piv \in PIV, NEW iv \in IVs
    PROVE  create_nonce(piv, iv) \in Nonces /\ create_aad(piv) \in AADs
BY PaddedPivType DEF create_nonce, create_aad, Nonces, AADs

\* The context with the PIV, the nonce and the AAD of a request.
LEMMA UpdatedContext ==
    ASSUME NEW c \in Contexts, NEW piv \in PIV, NEW c1,
           c1 = UpdateNonceAndAad([c EXCEPT !.piv = piv])
    PROVE  /\ c1 \in Contexts
           /\ c1.piv = piv /\ c1.nonce = create_nonce(piv, c.common_iv)
           /\ c1.aad = create_aad(piv)
           /\ c1.master_secret = c.master_secret /\ c1.id_context = c.id_context
           /\ c1.common_iv = c.common_iv /\ c1.sender_key = c.sender_key
           /\ c1.recipient_key = c.recipient_key /\ c1.kid_context = c.kid_context
           /\ c1.sender_seq_num = c.sender_seq_num
<1> DEFINE nonce == create_nonce(piv, c.common_iv)
           aad == create_aad(piv)
<1>1. nonce \in Nonces /\ aad \in AADs
  <2>1. c.common_iv \in IVs
    BY DEF Contexts
  <2> QED
    BY <2>1, NonceAndAad
<1>2. c1 = [[[c EXCEPT !.piv = piv] EXCEPT !.nonce = nonce] EXCEPT !.aad = aad]
  <2> DEFINE c2 == [c EXCEPT !.piv = piv]
  <2>1. c2.piv = piv /\ c2.common_iv = c.common_iv
    BY DEF Contexts
  <2> HIDE DEF c2
  <2>2. c1 = [c2 EXCEPT !.nonce = create_nonce(c2.piv, c2.common_iv),
                        !.aad = create_aad(c2.piv)]
    BY DEF UpdateNonceAndAad, c2
  <2>3. [c2 EXCEPT !.nonce = create_nonce(c2.piv, c2.common_iv), !.aad = create_aad(c2.piv)]
          = [c2 EXCEPT !.nonce = nonce, !.aad = aad]
    BY <2>1
  <2> HIDE DEF nonce, aad
  <2>4. [c2 EXCEPT !.nonce = nonce, !.aad = aad]
          = [[c2 EXCEPT !.nonce = nonce] EXCEPT !.aad = aad]
    OBVIOUS
  <2> QED
    BY ONLY <2>2, <2>3, <2>4, Zenon DEF c2
<1> HIDE DEF nonce, aad
<1>3. piv \in PIV \cup {Unset} /\ nonce \in Nonces \cup {Unset} /\ aad \in AADs \cup {Unset}
  BY <1>1
<1>4. c1 \in Contexts
  BY <1>2, <1>3 DEF Contexts
<1>5. /\ c1.piv = piv /\ c1.nonce = nonce /\ c1.aad = aad
      /\ c1.master_secret = c.master_secret /\ c1.id_context = c.id_context
      /\ c1.common_iv = c.common_iv /\ c1.sender_key = c.sender_key
      /\ c1.recipient_key = c.recipient_key /\ c1.kid_context = c.kid_context
      /\ c1.sender_seq_num = c.sender_seq_num
  BY <1>2 DEF Contexts
<1> QED
  BY <1>4, <1>5 DEF nonce, aad

LEMMA PivOf ==
    ASSUME NEW n \in Nat, FitsPiv(n), OrdinaryIds
    PROVE  LET piv == sender_seq_num2piv(n)
           IN  /\ piv \in PIV /\ piv \in Seq(Int) /\ piv # <<>>
               /\ Len(piv) \in Int /\ 1 <= Len(piv) /\ Len(piv) <= 5
<1> DEFINE piv == sender_seq_num2piv(n)
<1>1. piv \in Seq(Int) /\ piv \in PIV /\ Len(piv) \in 1..MAX_PIV_LEN
  BY PivMade
<1>2. MAX_PIV_LEN \in Nat /\ MAX_PIV_LEN <= 5
  BY PivAssumption DEF OrdinaryIds
<1> HIDE DEF piv
<1>3. Len(piv) \in Int /\ 1 <= Len(piv) /\ Len(piv) <= 5
  BY <1>1, <1>2
<1>4. piv # <<>>
  BY <1>3
<1> QED
  BY <1>1, <1>3, <1>4 DEF piv

\* The next request takes the next number.
LEMMA ClientFollows ==
    ASSUME NEW c, NEW n \in Nat, ClientContext(c, n), FitsPiv(n), OrdinaryIds
    PROVE  ClientContext(RequestContext(c, sender_seq_num2piv(n)), n + 1)
<1> DEFINE piv == sender_seq_num2piv(n)
           c0 == [c EXCEPT !.sender_seq_num = @ + 1]
           c1 == UpdateNonceAndAad([c0 EXCEPT !.piv = piv])
<1>1. c \in Contexts /\ c.sender_seq_num = n
  BY DEF ClientContext
<1>2. piv \in PIV
  BY PivOf
<1>3. /\ c0 \in Contexts /\ c0.sender_seq_num = n + 1
      /\ c0.common_iv = c.common_iv /\ c0.sender_key = c.sender_key
      /\ c0.recipient_key = c.recipient_key /\ c0.kid_context = c.kid_context
  <2>1. c.sender_seq_num + 1 \in Nat
    BY <1>1
  <2> QED
    BY <1>1, <2>1 DEF Contexts
<1> HIDE DEF c0, piv
<1>4. /\ c1 \in Contexts
      /\ c1.piv = piv /\ c1.nonce = create_nonce(piv, c0.common_iv) /\ c1.aad = create_aad(piv)
      /\ c1.common_iv = c0.common_iv /\ c1.sender_key = c0.sender_key
      /\ c1.recipient_key = c0.recipient_key /\ c1.kid_context = c0.kid_context
      /\ c1.sender_seq_num = c0.sender_seq_num
  <2>1. c1 = UpdateNonceAndAad([c0 EXCEPT !.piv = piv])
    OBVIOUS
  <2> HIDE DEF c1
  <2> QED
    BY ONLY <1>2, <1>3, <2>1, UpdatedContext
<1>5. RequestContext(c, piv) = c1
  BY DEF RequestContext, c0
<1> HIDE DEF c1
<1>6. (n + 1) - 1 = n
  OBVIOUS
<1>7. /\ c.kid_context = TheIdContext
      /\ c.sender_key = Key(TheSecret, TheIdContext, ClientId)
      /\ c.recipient_key = Key(TheSecret, TheIdContext, ServerId)
      /\ c.common_iv = CommonIV(TheSecret, TheIdContext)
  BY DEF ClientContext
<1>8. ClientContext(c1, n + 1)
  BY <1>3, <1>4, <1>6, <1>7 DEF ClientContext, piv
<1> QED
  BY <1>5, <1>8 DEF piv

\* The server takes the PIV of a request and keeps its ID Context.
LEMMA ServerTakes ==
    ASSUME NEW d, ServerContext(d), NEW piv \in PIV
    PROVE  LET d1 == ServerContextUpdate(d, piv, TheIdContext)
           IN  /\ ServerContext(d1) /\ d1.piv = piv
               /\ d1.nonce = create_nonce(piv, CommonIV(TheSecret, TheIdContext))
               /\ d1.aad = create_aad(piv)
<1> DEFINE d1 == UpdateNonceAndAad([d EXCEPT !.piv = piv])
<1>1. /\ d \in Contexts /\ d.master_secret = TheSecret /\ d.id_context = TheIdContext
      /\ d.sender_key = Key(TheSecret, TheIdContext, ServerId)
      /\ d.recipient_key = Key(TheSecret, TheIdContext, ClientId)
      /\ d.common_iv = CommonIV(TheSecret, TheIdContext)
  BY DEF ServerContext
<1>2. ServerContextUpdate(d, piv, TheIdContext) = d1
  BY <1>1 DEF ServerContextUpdate
<1>3. /\ d1 \in Contexts
      /\ d1.piv = piv /\ d1.nonce = create_nonce(piv, d.common_iv) /\ d1.aad = create_aad(piv)
      /\ d1.master_secret = d.master_secret /\ d1.id_context = d.id_context
      /\ d1.common_iv = d.common_iv /\ d1.sender_key = d.sender_key
      /\ d1.recipient_key = d.recipient_key
  BY <1>1, UpdatedContext
<1> HIDE DEF d1
<1>4. ServerContext(d1)
  BY <1>1, <1>3 DEF ServerContext
<1> QED
  BY <1>1, <1>2, <1>3, <1>4

\* The contexts of the two programs when they start.
LEMMA TheyStart ==
    ASSUME OrdinaryIds
    PROVE  /\ TheSecret \in Secrets /\ TheIdContext \in IdContexts
           /\ ClientContext(ContextInit(ClientId, TheSecret, TheIdContext), 0)
           /\ ServerContext(ContextInit(ServerId, TheSecret, TheIdContext))
<1> DEFINE idc == TheIdContext
           ms == TheSecret
           c == ContextInit(ClientId, ms, idc)
           d == ContextInit(ServerId, ms, idc)
<1>1. ms \in Secrets /\ idc \in IdContexts
  BY DEF OrdinaryIds, TheSecret, TheIdContext
<1>2. InitFits(ClientId, idc) /\ Peer(ClientId) = ServerId /\ Peer(ServerId) = ClientId
      /\ ClientId \in Ids /\ ServerId \in Ids
  BY ContextAssumption DEF OrdinaryIds, Peer, Ids
<1> HIDE DEF idc, ms
<1>3. c = [master_secret |-> ms, id_context |-> idc, common_iv |-> CommonIV(ms, idc),
           sender_key |-> Key(ms, idc, ClientId), recipient_key |-> Key(ms, idc, ServerId),
           sender_seq_num |-> 0, piv |-> Unset, kid_context |-> idc, nonce |-> Unset,
           aad |-> Unset]
  BY <1>2 DEF ContextInit
<1>4. /\ d.master_secret = ms /\ d.id_context = idc /\ d.common_iv = CommonIV(ms, idc)
      /\ d.sender_key = Key(ms, idc, ServerId) /\ d.recipient_key = Key(ms, idc, ClientId)
  BY <1>2 DEF ContextInit
<1>5. \A id \in Ids : ContextInit(id, ms, idc) \in Contexts
  BY <1>1 DEF ContextInit, Contexts, CommonIV, Key, IVs, Keys, Peer, Ids
<1>6. c \in Contexts /\ d \in Contexts
  BY <1>2, <1>5
<1> HIDE DEF c, d
<1>7. ClientContext(c, 0)
  BY <1>3, <1>6 DEF ClientContext, ms, idc
<1>8. ServerContext(d)
  BY <1>4, <1>6 DEF ServerContext, ms, idc
<1> QED
  BY <1>1, <1>7, <1>8 DEF c, d, ms, idc

\* The bytes of the value of the OSCORE option.
LEMMA ValueBytes ==
    ASSUME OrdinaryIds, NEW n \in Nat, FitsPiv(n), Len(ValueOf(n)) < 13,
           NEW P, P \subseteq Nat, 0..204 \subseteq P, sender_seq_num2piv(n) \in Seq(P),
           ClientId \in Seq(P), TheIdContext \in Seq(P)
    PROVE  ValueOf(n) \in Seq(P)
<1> DEFINE piv == sender_seq_num2piv(n)
           idc == TheIdContext
           kid == ClientId
           context == IF idc = <<>> THEN <<>> ELSE <<Len(idc)>> \o idc
           flags == Len(piv) + 8 + (IF idc = <<>> THEN 0 ELSE 16)
           value == <<flags>> \o piv \o context \o kid
<1>1. piv \in Seq(Int) /\ Len(piv) \in Int /\ 1 <= Len(piv) /\ Len(piv) <= 5 /\ piv # <<>>
  BY PivOf
<1>2. piv \in Seq(P) /\ idc \in Seq(P) /\ kid \in Seq(P)
  OBVIOUS
<1>3. piv \in Seq(Int) /\ idc \in Seq(Int) /\ kid \in Seq(Int)
  <2>1. P \subseteq Int
    BY CleanAreBytes
  <2> QED
    BY <1>2, <2>1, MoreCells
<1>4. ValueOf(n) = oscore_option_generate(piv, idc, kid)
  BY DEF ValueOf
<1> HIDE DEF piv, idc, kid
<1>5. piv \o idc \o kid # <<>>
  BY <1>1, <1>3
<1>6. ValueOf(n) = value
  BY <1>4, <1>5 DEF oscore_option_generate
<1>7. \A k \in Int : 0 <= k /\ k <= 204 => k \in P
  <2>1. 0..204 \subseteq P
    OBVIOUS
  <2> QED
    BY ONLY <2>1
<1>8. flags \in P /\ flags \in Int
  <2> DEFINE len == Len(piv)
  <2>1. len \in Int /\ 1 <= len /\ len <= 5
    BY <1>1
  <2>2. flags = len + 8 + (IF idc = <<>> THEN 0 ELSE 16)
    OBVIOUS
  <2> HIDE DEF flags, len
  <2>3. flags \in Int /\ 0 <= flags /\ flags <= 204
    BY ONLY <2>1, <2>2
  <2> QED
    BY <1>7, <2>3
<1>9. idc # <<>> => Len(idc) \in Int /\ 0 <= Len(idc) /\ Len(idc) < 13
  <2> SUFFICES ASSUME idc # <<>> PROVE Len(idc) \in Int /\ 0 <= Len(idc) /\ Len(idc) < 13
    OBVIOUS
  <2> DEFINE lead == <<Len(idc)>>
             first == <<flags>>
  <2>1. flags \in Int
    BY <1>8
  <2> HIDE DEF flags
  <2>2. first \in Seq(Int) /\ Len(first) = 1
    BY <2>1
  <2>3. lead \in Seq(Int) /\ Len(lead) = 1 /\ Len(idc) \in Nat
    BY <1>3
  <2> HIDE DEF first, lead
  <2>4. lead \o idc \in Seq(Int) /\ Len(lead \o idc) = Len(lead) + Len(idc)
    BY <1>3, <2>3, JoinedLength
  <2>5. context = lead \o idc
    BY DEF lead
  <2> HIDE DEF context
  <2>13. context \in Seq(Int)
    BY <2>4, <2>5
  <2>6. Len(first \o piv \o context \o kid)
          = Len(first) + Len(piv) + Len(context) + Len(kid)
    <3> DEFINE ab == first \o piv
               abc == ab \o context
    <3>1. ab \in Seq(Int) /\ Len(ab) = Len(first) + Len(piv)
      BY ONLY <1>3, <2>2, JoinedLength
    <3> HIDE DEF ab
    <3>2. abc \in Seq(Int) /\ Len(abc) = Len(ab) + Len(context)
      BY ONLY <2>13, <3>1, JoinedLength
    <3> HIDE DEF abc
    <3>3. Len(abc \o kid) = Len(abc) + Len(kid)
      BY ONLY <1>3, <3>2, JoinedLength
    <3>4. Len(abc \o kid) = Len(first) + Len(piv) + Len(context) + Len(kid)
      BY ONLY <3>1, <3>2, <3>3
    <3> QED
      BY ONLY <3>4 DEF abc, ab
  <2>7. Len(value) < 13
    BY <1>6
  <2>8. Len(kid) \in Nat /\ Len(piv) \in Nat
    BY ONLY <1>3
  <2>9. Len(context) = Len(lead) + Len(idc) /\ Len(lead) \in Nat
    BY <2>3, <2>4, <2>5
  <2>10. Len(first) + Len(piv) + Len(context) + Len(kid) < 13
    BY <2>6, <2>7 DEF first
  <2> HIDE DEF value
  <2> DEFINE a == Len(first)
             b == Len(piv)
             c == Len(context)
             e == Len(kid)
             l == Len(idc)
  <2>11. a = 1 /\ b \in Nat /\ e \in Nat /\ l \in Nat /\ c = 1 + l /\ a + b + c + e < 13
    BY <2>2, <2>3, <2>8, <2>9, <2>10
  <2> HIDE DEF a, b, c, e, l
  <2>12. l \in Int /\ 0 <= l /\ l < 13
    BY ONLY <2>11
  <2> QED
    BY <2>12 DEF l
<1>10. context \in Seq(P)
  <2>1. CASE idc = <<>>
    BY <2>1
  <2>2. CASE idc # <<>>
    <3>1. Len(idc) \in P
      BY <1>7, <1>9, <2>2
    <3> QED
      BY <1>2, <2>2, <3>1
  <2> QED
    BY <2>1, <2>2
<1> HIDE DEF flags, context
<1>11. value \in Seq(P)
  BY <1>2, <1>8, <1>10
<1> QED
  BY <1>6, <1>11

-----------------------------------------------------------------------------
\* Opening what the other one sent.

\* A request's number and the room for the value of its OSCORE option.
Sendable(n) ==
    /\ n \in Nat /\ FitsPiv(n)
    /\ Len(ValueOf(n)) < 13 /\ Len(ValueOf(n)) <= OSCORE_OPT_VALUE_LEN

LEMMA ValueTyped ==
    ASSUME OrdinaryIds, NEW n, Sendable(n)
    PROVE  /\ ValueOf(n) \in Seq(Nat) /\ Len(ValueOf(n)) < 13
           /\ NoMarkerIn(sender_seq_num2piv(n)) => ValueOf(n) \in Seq(Clean)
<1> DEFINE piv == sender_seq_num2piv(n)
<1>1. n \in Nat /\ FitsPiv(n) /\ Len(ValueOf(n)) < 13
  BY DEF Sendable
<1>2. piv \in Seq(Byte)
  BY <1>1, PivOf DEF PIV
<1>3. ClientId \in Seq(Octets) /\ NoMarker(ClientId)
      /\ TheIdContext \in Seq(Octets) /\ NoMarker(TheIdContext)
  BY DEF OrdinaryIds
<1>4. Octets \subseteq Nat /\ Byte \subseteq Nat
  BY PacketAssumption DEF Octets, Byte
<1> HIDE DEF piv
<1>5. piv \in Seq(Nat) /\ ClientId \in Seq(Nat) /\ TheIdContext \in Seq(Nat)
  BY <1>2, <1>3, <1>4, MoreCells
<1>6. ValueOf(n) \in Seq(Nat)
  <2>1. piv = sender_seq_num2piv(n)
    BY DEF piv
  <2> QED
    BY <1>1, <1>5, <2>1, HeaderBytesAreBytes, ValueBytes
<1>7. ASSUME NEW b \in Seq(Nat), \A i \in 1..Len(b) : b[i] # Marker
      PROVE  b \in Seq(Clean)
  <2>1. Len(b) \in Nat /\ b = [i \in 1..Len(b) |-> b[i]] /\ \A i \in 1..Len(b) : b[i] \in Clean
    BY <1>7, Elements DEF Clean
  <2> QED
    BY <2>1
<1>8. ASSUME NoMarkerIn(piv) PROVE ValueOf(n) \in Seq(Clean)
  <2>3. \A i \in 1..Len(piv) : piv[i] # Marker
    <3>1. DOMAIN piv = 1..Len(piv)
      BY <1>5
    <3> QED
      BY <1>8, <3>1 DEF NoMarkerIn
  <2>4. piv \in Seq(Clean)
    BY ONLY <1>5, <1>7, <2>3
  <2>5. ClientId \in Seq(Clean)
    BY ONLY <1>3, <1>5, <1>7 DEF NoMarker
  <2>6. TheIdContext \in Seq(Clean)
    BY ONLY <1>3, <1>5, <1>7 DEF NoMarker
  <2>1. piv \in Seq(Clean) /\ ClientId \in Seq(Clean) /\ TheIdContext \in Seq(Clean)
    BY ONLY <2>4, <2>5, <2>6
  <2>2. piv = sender_seq_num2piv(n) /\ Clean \subseteq Nat /\ 0..204 \subseteq Clean
    BY CleanAreBytes, HeaderBytesAreClean DEF piv
  <2> QED
    BY <1>1, <2>1, <2>2, ValueBytes
<1> QED
  BY <1>1, <1>6, <1>8 DEF piv

\* The datagram that is sent of a buffer with a protected message.
LEMMA DatagramOfSealed ==
    ASSUME NEW m, NEW value, SealedPacket(m, value) \in Seq(Int), NEW key, NEW nonce, NEW aad,
           NEW out, out.b \in Seq(Int)
    PROVE  Datagram(SealedOut(m, value, key, nonce, aad, out))
             = SealedDatagram(m, value, key, nonce, aad)
<1> DEFINE made == SealedOut(m, value, key, nonce, aad, out)
           packet == SealedPacket(m, value)
<1>1. made.b = Overlay(out.b, packet) /\ made.len = Len(packet)
      /\ made.seal = Seal(key, nonce, aad, PlaintextFor(m))
  BY DEF SealedOut
<1>2. Slice(Overlay(out.b, packet), 1, Len(packet)) = packet
  BY WrittenInFront
<1> HIDE DEF made, packet
<1>3. Datagram(made) = [bytes |-> packet, seal |-> Seal(key, nonce, aad, PlaintextFor(m))]
  BY ONLY <1>1, <1>2 DEF Datagram
<1> QED
  BY <1>3 DEF SealedDatagram, made, packet

LEMMA SealedTyped ==
    ASSUME NEW m, OrdinaryMessage(m), NEW value \in Seq(Nat), Len(value) < 13
    PROVE  SealedPacket(m, value) \in Seq(Int)
BY SealedWrites, PacketTyped DEF SealedPacket

LEMMA UnmarkedSurvives ==
    ASSUME OrdinaryIds, NEW m, OrdinaryMessage(m), NEW n, Sendable(n),
           NoMarkerIn(sender_seq_num2piv(n))
    PROVE  Survives(Deltas(m.options), ValueOf(n))
<1>1. ValueOf(n) \in Seq(Clean) /\ Len(ValueOf(n)) < 13
  BY ValueTyped
<1>2. OrdinaryOptions(m.options)
  BY DEF OrdinaryMessage, OrdinaryContent
<1> QED
  BY <1>1, <1>2, OrdinarySurvive

\* A request whose outer options have no marker opens (oscore2coap at the
\* server).
LEMMA RequestOpened ==
    ASSUME OrdinaryIds, NEW m, OrdinaryMessage(m), IsRequest(m.code), NEW n, Sendable(n),
           Survives(Deltas(m.options), ValueOf(n)),
           NEW c1, ClientContext(c1, n + 1), NEW d, ServerContext(d), NEW rx, NEW flag
    PROVE  oscore2coap(SealedDatagram(m, ValueOf(n), c1.sender_key, c1.nonce, c1.aad), flag, d, rx)
             = WriteOpened(AsParsed(m),
                           ServerContextUpdate(d, sender_seq_num2piv(n), TheIdContext), rx)
<1> DEFINE piv == sender_seq_num2piv(n)
           idc == TheIdContext
           value == ValueOf(n)
           in == AsParsed(m)
           start == ContextInit(ClientId, TheSecret, idc)
           c == [start EXCEPT !.sender_seq_num = n]
           out == [b |-> <<>>, len |-> 0, seal |-> Unset]
           made == RequestContext(c, piv)
           wire == SealedDatagram(m, value, c1.sender_key, c1.nonce, c1.aad)
<1>1. n \in Nat /\ FitsPiv(n) /\ Len(value) < 13 /\ ~(Len(value) > OSCORE_OPT_VALUE_LEN)
  <2>1. value \in Seq(Nat)
    BY ValueTyped
  <2>2. Len(value) \in Nat /\ OSCORE_OPT_VALUE_LEN \in Nat
    BY <2>1, PacketAssumption
  <2>3. Len(value) <= OSCORE_OPT_VALUE_LEN
    BY DEF Sendable
  <2> HIDE DEF value
  <2>4. ~(Len(value) > OSCORE_OPT_VALUE_LEN)
    BY <2>2, <2>3
  <2> QED
    BY <2>4 DEF Sendable, value
<1>2. /\ c \in Contexts /\ c.sender_seq_num = n /\ c.kid_context = idc
      /\ c.sender_key = Key(TheSecret, idc, ClientId) /\ c.common_iv = CommonIV(TheSecret, idc)
  <2>1. /\ start \in Contexts /\ start.kid_context = idc
        /\ start.sender_key = Key(TheSecret, idc, ClientId)
        /\ start.common_iv = CommonIV(TheSecret, idc)
    BY TheyStart DEF ClientContext
  <2> HIDE DEF start
  <2> QED
    BY <1>1, <2>1 DEF Contexts
<1>3. /\ c1.sender_key = Key(TheSecret, idc, ClientId)
      /\ c1.nonce = create_nonce(piv, CommonIV(TheSecret, idc)) /\ c1.aad = create_aad(piv)
  <2>1. n + 1 > 0 /\ (n + 1) - 1 = n
    BY <1>1
  <2> QED
    BY <2>1 DEF ClientContext
<1> HIDE DEF c
<1>4. /\ made.sender_key = c.sender_key
      /\ made.nonce = create_nonce(piv, c.common_iv) /\ made.aad = create_aad(piv)
  BY <1>2, RequestContextFields
<1>5. value = oscore_option_generate(piv, c.kid_context, c.sender_key.id)
  <2>1. c.sender_key.id = ClientId
    BY <1>2 DEF Key
  <2> QED
    BY <1>2, <2>1 DEF ValueOf
<1>6. /\ value \in Seq(Nat)
      /\ idc \in Seq(Int) /\ ClientId \in Seq(Int) /\ MAX_PIV_LEN <= 5
  <2>1. value \in Seq(Nat)
    BY ValueTyped
  <2>2. Octets \subseteq Int
    BY OctetBounds
  <2>3. idc \in Seq(Int) /\ ClientId \in Seq(Int)
    BY <2>2, MoreCells DEF OrdinaryIds
  <2> QED
    BY <2>1, <2>3 DEF OrdinaryIds
<1>7. Message(in) /\ in.options = Deltas(m.options) /\ in.code = m.code
  BY OrdinaryParsed DEF ParsedFrom
<1>8. Survives(in.options, value)
  BY <1>7
<1>9. Protected(in, c, out)
        = [r |-> "OscoreNoError", c |-> made,
           out |-> SealedOut(m, value, made.sender_key, made.nonce, made.aad, out)]
  <2>1. HasRoom(out, Len(SealedPacket(m, value)))
    BY DEF HasRoom
  <2>2. piv = sender_seq_num2piv(c.sender_seq_num)
    BY <1>2
  <2>3. FitsPiv(c.sender_seq_num)
    BY <1>1, <1>2
  <2> HIDE DEF piv, value, out, in
  <2>4. made = RequestContext(c, piv)
    OBVIOUS
  <2> HIDE DEF made
  <2>5. coap2oscore(Encode(m), c, out)
          = [r |-> "OscoreNoError", c |-> made,
             out |-> SealedOut(m, value, made.sender_key, made.nonce, made.aad, out)]
    <3>1. /\ OrdinaryMessage(m) /\ IsRequest(m.code) /\ c \in Contexts /\ value \in Seq(Nat)
          /\ Len(value) < 13 /\ ~(Len(value) > OSCORE_OPT_VALUE_LEN)
      BY <1>1, <1>2, <1>6
    <3> QED
      BY ONLY <3>1, <1>5, <2>1, <2>2, <2>3, <2>4, RequestSent
  <2>6. coap2oscore(Encode(m), c, out) = Protected(in, c, out)
    BY EncodedIsParsed DEF in
  <2> QED
    BY ONLY <2>5, <2>6, Zenon
<1>10. SentPacket(Protected(in, c, out)) = wire /\ Protected(in, c, out).out.seal # Unset
  <2> DEFINE o == SealedOut(m, value, made.sender_key, made.nonce, made.aad, out)
             sent == Protected(in, c, out)
  <2>1. sent.out = o
    BY <1>9
  <2>2. Datagram(o) = SealedDatagram(m, value, made.sender_key, made.nonce, made.aad)
    <3>1. SealedPacket(m, value) \in Seq(Int) /\ out.b \in Seq(Int)
      BY <1>1, <1>6, SealedTyped
    <3> HIDE DEF out, value, made
    <3> QED
      BY <3>1, DatagramOfSealed
  <2>3. o.seal = Seal(made.sender_key, made.nonce, made.aad, PlaintextFor(m))
    BY DEF SealedOut
  <2>4. o.seal # Unset
    BY <2>3 DEF OrdinaryIds
  <2>5. made.sender_key = c1.sender_key /\ made.nonce = c1.nonce /\ made.aad = c1.aad
    BY <1>2, <1>3, <1>4
  <2> HIDE DEF o, sent
  <2>6. SentPacket(sent) = Datagram(o)
    BY ONLY <2>1 DEF SentPacket, Datagram
  <2>7. SentPacket(sent) = wire
    BY ONLY <2>2, <2>5, <2>6, Zenon DEF wire
  <2> QED
    BY <2>1, <2>4, <2>7 DEF sent
<1>11. /\ d \in Contexts /\ Matching(c, d) /\ UpdateSucceeds(d, c.kid_context)
  BY <1>2 DEF ServerContext, Matching, UpdateSucceeds
<1>12. /\ IsRequest(in.code) /\ c.kid_context \in Seq(Int)
       /\ out.b \in Seq(Int) /\ Protected(in, c, out).r = "OscoreNoError"
       /\ Survives(in.options,
                   oscore_option_generate(sender_seq_num2piv(c.sender_seq_num), c.kid_context,
                                          c.sender_key.id))
  BY <1>2, <1>5, <1>6, <1>7, <1>8, <1>9
<1> HIDE DEF in, out, wire
<1>13. oscore2coap(SentPacket(Protected(in, c, out)), flag, d, rx)
         = WriteOpened(in, ServerContextUpdate(d, sender_seq_num2piv(c.sender_seq_num),
                                               c.kid_context), rx)
  <2>1. Message(in) /\ c \in Contexts /\ ClientId \in Seq(Int) /\ MAX_PIV_LEN <= 5
        /\ Protected(in, c, out).out.seal # Unset
    BY <1>2, <1>6, <1>7, <1>10
  <2> QED
    BY ONLY <2>1, <1>11, <1>12, RequestRestored
<1>14. oscore2coap(wire, flag, d, rx) = WriteOpened(in, ServerContextUpdate(d, piv, idc), rx)
  BY ONLY <1>2, <1>10, <1>13, Zenon DEF piv
<1> QED
  BY ONLY <1>14, Zenon DEF wire, in, piv, idc, value

\* An answer opens for a context with the nonce and AAD of the request.
LEMMA AnswerOpened ==
    ASSUME OrdinaryIds, NEW m, OrdinaryMessage(m), ~IsRequest(m.code), NEW key,
           NEW c, c.recipient_key = key, NEW rx, NEW flag
    PROVE  oscore2coap(SealedDatagram(m, <<>>, key, c.nonce, c.aad), flag, c, rx)
             = WriteOpened(AsParsed(m), c, rx)
<1> DEFINE in == AsParsed(m)
           out == [b |-> <<>>, len |-> 0, seal |-> Unset]
           d == [sender_key |-> key, nonce |-> c.nonce, aad |-> c.aad]
           wire == SealedDatagram(m, <<>>, key, c.nonce, c.aad)
           o == SealedOut(m, <<>>, key, c.nonce, c.aad, out)
           sent == Protected(in, d, out)
<1>1. d.sender_key = key /\ d.nonce = c.nonce /\ d.aad = c.aad
  OBVIOUS
<1>2. out.b \in Seq(Int) /\ HasRoom(out, Len(SealedPacket(m, <<>>)))
  BY DEF HasRoom
<1>3. <<>> \in Seq(Nat) /\ <<>> \in Seq(Clean) /\ Len(<<>>) < 13
  OBVIOUS
<1>4. Message(in) /\ in.options = Deltas(m.options) /\ in.code = m.code
  BY OrdinaryParsed DEF ParsedFrom
<1> HIDE DEF d, out, in
<1>5. Survives(in.options, <<>>)
  <2>1. OrdinaryOptions(m.options)
    BY DEF OrdinaryMessage, OrdinaryContent
  <2> QED
    BY <1>3, <1>4, <2>1, OrdinarySurvive
<1>6. sent = [r |-> "OscoreNoError", c |-> d, out |-> o]
  <2>1. coap2oscore(Encode(m), d, out)
          = [r |-> "OscoreNoError", c |-> d,
             out |-> SealedOut(m, <<>>, d.sender_key, d.nonce, d.aad, out)]
    BY <1>2, AnswerSent
  <2>2. coap2oscore(Encode(m), d, out) = sent
    BY EncodedIsParsed DEF in
  <2> HIDE DEF sent
  <2> QED
    BY ONLY <1>1, <2>1, <2>2, Zenon DEF o
<1>7. SentPacket(sent) = wire /\ sent.out.seal # Unset /\ sent.r = "OscoreNoError"
  <2>1. sent.out = o /\ sent.r = "OscoreNoError"
    BY <1>6
  <2>2. Datagram(o) = wire
    BY <1>2, <1>3, SealedTyped, DatagramOfSealed
  <2>3. o.seal # Unset
    BY DEF SealedOut, OrdinaryIds
  <2> HIDE DEF o, sent, wire
  <2>4. SentPacket(sent) = Datagram(o)
    BY ONLY <2>1 DEF SentPacket, Datagram
  <2> QED
    BY <2>1, <2>2, <2>3, <2>4
<1>8. oscore2coap(SentPacket(Protected(in, d, out)), flag, c, rx) = WriteOpened(in, c, rx)
  BY <1>1, <1>2, <1>4, <1>5, <1>7, AnswerRestored
<1> HIDE DEF wire
<1> QED
  BY ONLY <1>7, <1>8, Zenon DEF wire, in, sent

\* What oscore2coap makes of an ordinary message that opened.
LEMMA OpenedIsWritten ==
    ASSUME NEW m, OrdinaryMessage(m), NEW c, NEW rx, HasRoom(rx, Len(Encode(m)))
    PROVE  WriteOpened(AsParsed(m), c, rx)
             = [r |-> "OscoreNoError", flag |-> TRUE, c |-> c,
                out |-> [b |-> Overlay(rx.b, Encode(m)), len |-> Len(Encode(m))]]
<1> DEFINE in == AsParsed(m)
           written == coap2buf(in, rx.b, rx.len)
           bytes == Encode(m)
<1>1. Writes(in) /\ in.r = "OscoreNoError"
  BY OrdinaryParsed, ExchangeableWrites DEF ParsedFrom
<1>2. bytes = PacketOf(in)
  BY OrdinaryEncoded
<1> HIDE DEF in, bytes
<1>3. written = [r |-> "OscoreNoError", b |-> Overlay(rx.b, bytes), len |-> Len(bytes)]
  <2>1. rx.len \in Int /\ (rx.len < 4 \/ Len(PacketOf(in)) <= rx.len)
    BY <1>2 DEF HasRoom, bytes
  <2> QED
    BY ONLY <1>1, <1>2, <2>1, Written
<1>4. WriteOpened(in, c, rx)
        = [r |-> written.r, flag |-> TRUE, c |-> c,
           out |-> [b |-> written.b, len |-> written.len]]
  BY <1>1 DEF WriteOpened
<1>5. written.r = "OscoreNoError" /\ written.b = Overlay(rx.b, bytes) /\ written.len = Len(bytes)
  BY ONLY <1>3
<1> HIDE DEF written
<1>6. WriteOpened(in, c, rx)
        = [r |-> "OscoreNoError", flag |-> TRUE, c |-> c,
           out |-> [b |-> Overlay(rx.b, bytes), len |-> Len(bytes)]]
  BY ONLY <1>4, <1>5, Zenon
<1> QED
  BY <1>6 DEF in, bytes

-----------------------------------------------------------------------------
\* A packet whose OSCORE option holds a marker.

LEMMA ShortOptionHead ==
    ASSUME NEW o \in OptionRecords, o.delta < 13, Len(o.value) < 13
    PROVE  option_bytes(o)[1] # Marker
<1> DEFINE delta == o.delta
           len == Len(o.value)
<1>1. delta \in Int /\ 0 <= delta /\ delta < 13 /\ len \in Int /\ 0 <= len /\ len < 13
  BY FieldsOfOption
<1> HIDE DEF delta, len
<1>2. /\ Nibble(delta) = delta /\ Extension(delta) = <<>>
      /\ Nibble(len) = len /\ Extension(len) = <<>>
  BY <1>1, NothingExtended
<1>3. option_bytes(o)
        = <<Nibble(delta) * 16 + Nibble(len)>> \o Extension(delta) \o Extension(len) \o o.value
  BY DEF option_bytes, delta, len
<1>4. delta * 16 + len \in Int /\ delta * 16 + len # Marker
  BY <1>1 DEF Marker
<1> DEFINE head == delta * 16 + len
           value == o.value
<1>5. value \in Seq(Int) /\ head \in Int /\ head # Marker
  BY <1>4, FieldsOfOption
<1> HIDE DEF head, value
<1>6. option_bytes(o) = <<head>> \o <<>> \o <<>> \o value
  BY <1>2, <1>3 DEF head, value
<1>7. (<<head>> \o <<>> \o <<>> \o value)[1] = head
  BY <1>5
<1> QED
  BY <1>5, <1>6, <1>7

LEMMA WrittenGrows ==
    ASSUME NEW options, Writable(options), NEW n \in 0..Len(options)
    PROVE  \A k \in 0..n : Len(OptionsWritten(options)[k]) <= Len(OptionsWritten(options)[n])
<1> DEFINE w == OptionsWritten(options)
           S == {i \in Nat : i <= n => Len(w[n - i]) <= Len(w[n])}
<1>1. Len(options) \in Nat /\ n \in Nat /\ n <= Len(options)
  BY DEF Writable
<1>2. /\ \A k \in 0..n : w[k] \in Seq(Int)
      /\ \A k \in 1..n : /\ w[k] = w[k - 1] \o option_bytes(options[k])
                         /\ option_bytes(options[k]) \in Seq(Int)
  <2>1. 0..n \subseteq 0..Len(options) /\ 1..n \subseteq 1..Len(options)
    BY <1>1
  <2> QED
    BY <2>1, WrittenLoop DEF Writable
<1>3. \A k \in 0..n : Len(w[k]) \in Nat
  BY <1>2
<1>4. ASSUME NEW k \in 1..n PROVE Len(w[k - 1]) <= Len(w[k])
  <2> DEFINE x == w[k - 1]
             y == option_bytes(options[k])
  <2>1. k - 1 \in 0..n
    BY <1>1
  <2>2. x \in Seq(Int) /\ y \in Seq(Int) /\ w[k] = x \o y
    BY <1>2, <2>1
  <2> HIDE DEF x, y
  <2>3. Len(x \o y) = Len(x) + Len(y) /\ Len(x) \in Nat /\ Len(y) \in Nat
    BY <2>2
  <2>4. Len(x) <= Len(x \o y)
    BY ONLY <2>3
  <2> QED
    BY <2>2, <2>4 DEF x
<1> HIDE DEF w
<1>5. 0 \in S
  <2>1. n - 0 = n /\ n \in 0..n
    BY <1>1
  <2> QED
    BY <1>3, <2>1
<1>6. ASSUME NEW i \in Nat, i \in S PROVE i + 1 \in S
  <2> SUFFICES ASSUME i + 1 <= n PROVE Len(w[n - (i + 1)]) <= Len(w[n])
    OBVIOUS
  <2>1. PICK k \in 1..n : k = n - i
    BY <1>1
  <2>2. k - 1 = n - (i + 1) /\ k - 1 \in 0..n /\ k \in 0..n /\ n \in 0..n /\ i <= n
    BY <1>1, <2>1
  <2>3. Len(w[k]) <= Len(w[n])
    BY <1>6, <2>1, <2>2
  <2>4. Len(w[k - 1]) <= Len(w[k])
    BY <1>4
  <2>5. Len(w[k - 1]) <= Len(w[n])
    BY <1>3, <2>2, <2>3, <2>4
  <2> QED
    BY <2>2, <2>5
<1> HIDE DEF S
<1>7. Nat \subseteq S
  BY <1>5, <1>6, Induction
<1>8. ASSUME NEW k \in 0..n PROVE Len(w[k]) <= Len(w[n])
  <2>1. n - k \in Nat /\ n - k <= n /\ n - (n - k) = k
    BY <1>1
  <2>2. n - k \in S
    BY <1>7, <2>1
  <2> QED
    BY <2>1, <2>2 DEF S
<1> QED
  BY <1>8 DEF w

\* Options of which only the last one's value may hold a marker.
LastMarked(options) ==
    /\ ShortRecords(options) /\ Chained(options) /\ options # <<>>
    /\ \A i \in 1..Len(options) - 1 : options[i].value \in Seq(Clean)

\* The place of the first marker is within the value of the last option.
LEMMA MarkerInLast ==
    ASSUME NEW options, LastMarked(options), NEW i \in 1..Len(options_into_byte_string(options)),
           options_into_byte_string(options)[i] = Marker
    PROVE  \A k \in 1..Len(options) : Len(OptionsWritten(options)[k - 1]) + 1 < i
<1> DEFINE n == Len(options)
           w == OptionsWritten(options)
           before == w[n - 1]
           last == option_bytes(options[n])
<1>1. n \in Nat \ {0} /\ Writable(options) /\ ShortRecords(options)
  <2>1. n \in Nat /\ Writable(options)
    BY ShortRecord DEF LastMarked
  <2>2. options \in Seq(OptionRecords) /\ options # <<>>
    BY DEF LastMarked, ShortRecords
  <2> QED
    BY <2>1, <2>2 DEF LastMarked
<1>2. n - 1 \in 0..n /\ n \in 1..n /\ n - 1 \in Nat
  BY <1>1
<1>3. before \in Seq(Clean) /\ before \in Seq(Int)
  <2>1. before \in Seq(Clean)
    BY <1>1, <1>2, HeaderBytesAreClean, WrittenCells DEF LastMarked
  <2> QED
    BY <2>1, CleanAreBytes, MoreCells
<1>4. last \in Seq(Int) /\ w[n] = before \o last /\ w[n] = options_into_byte_string(options)
  BY <1>1, <1>2, WrittenLoop DEF Writable, options_into_byte_string
<1>5. last[1] # Marker
  BY <1>1, <1>2, ShortRecord, ShortOptionHead
<1>6. \A j \in 1..Len(before) : before[j] # Marker
  BY <1>3, CleanCells DEF NoMarker
<1>7. \A k \in 0..n - 1 : Len(w[k]) <= Len(before)
  BY <1>1, <1>2, WrittenGrows
<1>8. \A k \in 1..n : k - 1 \in 0..n - 1 /\ w[k - 1] \in Seq(Int)
  <2>1. \A k \in 1..n : k - 1 \in 0..n - 1 /\ k - 1 \in 0..n
    BY <1>1
  <2> QED
    BY <1>1, <2>1, WrittenLoop
<1> HIDE DEF n, w, before, last
<1>9. /\ Len(before) \in Nat /\ i \in 1..Len(w[n]) /\ w[n][i] = Marker
      /\ Len(last) \in Nat /\ Len(w[n]) = Len(before) + Len(last)
      /\ \A j \in 1..Len(before) : w[n][j] = before[j]
      /\ \A j \in 1..Len(last) : w[n][Len(before) + j] = last[j]
  <2>1. Len(before) \in Nat /\ Len(last) \in Nat
    BY <1>3, <1>4
  <2>2. before \in Seq(Int) /\ last \in Seq(Int) /\ w[n] = before \o last
    BY <1>3, <1>4
  <2>3. /\ Len(w[n]) = Len(before) + Len(last)
        /\ \A j \in 1..Len(before) : w[n][j] = before[j]
        /\ \A j \in 1..Len(last) : w[n][Len(before) + j] = last[j]
    BY ONLY <2>2, TwoParts
  <2>4. i \in 1..Len(w[n]) /\ w[n][i] = Marker
    BY <1>4
  <2> QED
    BY ONLY <2>1, <2>3, <2>4
<1>10. Len(before) + 1 < i
  <2>1. CASE i <= Len(before)
    <3>1. i \in 1..Len(before)
      BY <1>9, <2>1
    <3> QED
      BY <1>6, <1>9, <3>1
  <2>2. CASE i = Len(before) + 1
    <3>1. 1 \in 1..Len(last)
      BY <1>9, <2>2
    <3>2. w[n][Len(before) + 1] = last[1]
      BY <1>9, <3>1
    <3> QED
      BY <1>5, <1>9, <2>2, <3>2
  <2> QED
    BY <1>9, <2>1, <2>2
<1>11. ASSUME NEW k \in 1..n PROVE Len(w[k - 1]) + 1 < i
  <2> DEFINE x == Len(w[k - 1])
             y == Len(before)
  <2>1. x \in Nat /\ x <= y /\ y \in Nat /\ y + 1 < i /\ i \in Int
    BY <1>7, <1>8, <1>9, <1>10
  <2> HIDE DEF x, y
  <2>2. x + 1 < i
    BY ONLY <2>1
  <2> QED
    BY <2>2 DEF x
<1> QED
  BY <1>11 DEF n, w

\* The options in front of the payload are read although the marker in the
\* last one ends them, and what is taken for the payload holds the marker.
MarkedBody(options, bytes, b, at, payload) ==
    /\ LastMarked(options) /\ bytes = options_into_byte_string(options) /\ ~NoMarker(bytes)
    /\ b \in Seq(Int) /\ at \in Nat \ {0} /\ Holds(b, at, bytes)
    /\ payload # <<>> /\ EndsWithPayload(b, at + Len(bytes), payload)

LEMMA MarkedBodyRead ==
    ASSUME NEW options, NEW bytes, NEW b, NEW at, NEW payload,
           MarkedBody(options, bytes, b, at, payload)
    PROVE  LET body == ReadBody(b, at, 1)
           IN  /\ body.r = "OscoreNoError" /\ body.options = options
               /\ \E j \in 1..Len(body.payload) : body.payload[j] = Marker
<1> DEFINE stop == OptionsEnd(b, at)
           end == at + Len(bytes)
           M == Markers(b, at)
           read == ReadOptions(b, at, stop, 1)
<1>0. /\ LastMarked(options) /\ bytes = options_into_byte_string(options) /\ ~NoMarker(bytes)
      /\ b \in Seq(Int) /\ at \in Nat \ {0} /\ Holds(b, at, bytes)
      /\ payload # <<>> /\ EndsWithPayload(b, end, payload)
  BY DEF MarkedBody
<1> USE <1>0
<1>1. Readable(options, 1) /\ Chained(options) /\ bytes \in Seq(Int)
  BY ShortRecord DEF LastMarked
<1>2. Len(b) \in Nat /\ Len(bytes) \in Nat /\ Len(bytes) <= Len(b) /\ b[end] = Marker
      /\ end <= Len(b)
  <2>1. Len(b) \in Nat /\ Len(bytes) \in Nat
    BY <1>1
  <2>2. Len(b) = end + Len(payload) /\ b[end] = Marker /\ Holds(b, end + 1, payload)
    BY DEF EndsWithPayload
  <2>3. at + Len(bytes) - 1 <= Len(b) /\ end + 1 + Len(payload) - 1 <= Len(b)
    BY <2>2 DEF Holds
  <2>4. Len(payload) \in Int /\ 0 <= Len(payload)
    BY DEF Holds
  <2> QED
    BY <2>1, <2>2, <2>3, <2>4
<1>3. \A j \in 1..Len(bytes) : b[at + j - 1] = bytes[j]
  BY DEF Holds
<1>4. PICK i \in 1..Len(bytes) : bytes[i] = Marker
  BY DEF NoMarker
<1> HIDE DEF end
<1>5. /\ \A j \in M : j \in Nat /\ at <= j /\ j <= Len(b) /\ b[j] = Marker
      /\ at + i - 1 \in M
  <2>1. at + i - 1 \in at..Len(b)
    BY <1>2 DEF end
  <2>2. b[at + i - 1] = Marker
    BY <1>3, <1>4
  <2>3. M = {j \in at..Len(b) : b[j] = Marker}
    BY DEF Markers
  <2>4. at \in Nat /\ Len(b) \in Nat
    OBVIOUS
  <2> HIDE DEF M
  <2>5. at + i - 1 \in M
    BY ONLY <2>1, <2>2, <2>3
  <2>6. ASSUME NEW j \in M
        PROVE  j \in Nat /\ at <= j /\ j <= Len(b) /\ b[j] = Marker
    <3>1. j \in at..Len(b) /\ b[j] = Marker
      BY ONLY <2>3, j \in M
    <3> QED
      BY ONLY <3>1, <2>4
  <2> QED
    BY ONLY <2>5, <2>6
<1>6. PICK s \in M : \A j \in M : s <= j
  <2>1. M \in SUBSET Nat /\ M # {}
    BY <1>5
  <2> QED
    BY <2>1, LeastElement
<1>7. stop \in M /\ \A j \in M : stop <= j
  BY <1>6 DEF OptionsEnd
<1> HIDE DEF stop, M
<1>8. stop \in Nat /\ at <= stop /\ b[stop] = Marker /\ stop <= at + i - 1 /\ stop < end
      /\ stop < Len(b)
  <2>1. stop \in Nat /\ at <= stop /\ b[stop] = Marker /\ stop <= at + i - 1
    BY <1>5, <1>7
  <2> QED
    BY <1>2, <2>1 DEF end
<1>9. PICK k \in 1..Len(bytes) : k = stop - at + 1
  BY <1>2, <1>8 DEF end
<1>10. bytes[k] = Marker
  <2>1. at + k - 1 = stop
    BY <1>8, <1>9
  <2> QED
    BY <1>3, <1>8, <2>1
<1>11. \A l \in 1..Len(options) : at + Len(OptionsWritten(options)[l - 1]) < stop
  <2> SUFFICES ASSUME NEW l \in 1..Len(options)
               PROVE  at + Len(OptionsWritten(options)[l - 1]) < stop
    OBVIOUS
  <2> DEFINE len == Len(OptionsWritten(options)[l - 1])
  <2>1. len + 1 < k
    BY <1>9, <1>10, MarkerInLast
  <2>2. len \in Nat
    <3>1. Writable(options) /\ Len(options) \in Nat
      BY ShortRecord DEF LastMarked
    <3>2. l - 1 \in 0..Len(options)
      BY <3>1
    <3>3. OptionsWritten(options)[l - 1] \in Seq(Int)
      BY <3>1, <3>2, WrittenLoop
    <3> QED
      BY <3>3
  <2> HIDE DEF len
  <2>3. at + len < stop
    BY <1>8, <1>9, <2>1, <2>2
  <2> QED
    BY <2>3 DEF len
<1>12. read.r = "OscoreNoError" /\ read.options = options
  <2>1. stop \in Int /\ stop <= at + Len(bytes)
    BY <1>2, <1>8 DEF end
  <2>2. read = ReaderAt(at + Len(bytes), NumberAfter(options, Len(options)), options)
    BY <1>1, <1>11, <2>1, OptionsReadTo
  <2> QED
    BY <2>2 DEF ReaderAt
<1> DEFINE rest == SubSeq(b, stop + 1, Len(b))
<1>13. \E j \in 1..Len(rest) : rest[j] = Marker
  <2>1. end - stop \in 1..Len(b) - stop /\ end \in Int
    BY <1>2, <1>8 DEF end
  <2>2. Len(rest) = Len(b) - stop /\ rest[end - stop] = b[stop + 1 + (end - stop) - 1]
    BY <1>2, <1>8, <2>1
  <2>3. stop + 1 + (end - stop) - 1 = end
    BY <1>8, <2>1
  <2> QED
    BY <1>2, <2>1, <2>2, <2>3
<1>14. ReadBody(b, at, 1) = [r |-> read.r, options |-> read.options, payload |-> rest]
  BY DEF ReadBody, stop
<1> HIDE DEF read, rest
<1> QED
  BY <1>12, <1>13, <1>14

\* The outer options of an ordinary message: only the value of the last one,
\* the OSCORE option, may hold a marker.
LEMMA OuterLastMarked ==
    ASSUME NEW options, OrdinaryOptions(options), NEW value \in Seq(Nat), Len(value) < 13
    PROVE  LastMarked(OuterOptions(Deltas(options), value))
<1> DEFINE d == Deltas(options)
           u == Outer(d)
           o == OuterOptions(d, value)
<1>1. Mergeable(d) /\ Len(d) = Len(options) /\ value \in Cells
  BY OrdinaryDeltas, CleanAreBytes, MoreCells DEF Cells
<1>2. Len(u) \in Nat /\ OuterAre(o, u, value)
  BY <1>1, OuterMade
<1>3. ShortRecords(o) /\ Chained(o)
  BY OuterBytes
<1>4. \A j \in 1..Len(u) : \E i \in OuterIndexes(d) : u[j].value = d[i].value
  BY <1>1, OuterSorted
<1>5. \A i \in OuterIndexes(d) : d[i].value \in Seq(Clean)
  <2>1. \A i \in OuterIndexes(d) : i \in 1..Len(options)
    BY <1>1 DEF OuterIndexes
  <2> QED
    BY <2>1, OrdinaryOption
<1> HIDE DEF d, u, o
<1>6. Len(o) - 1 = Len(u) /\ \A j \in 1..Len(u) : o[j].value = u[j].value
  BY <1>2 DEF OuterAre
<1>7. o # <<>>
  BY <1>2 DEF OuterAre
<1> QED
  BY <1>3, <1>4, <1>5, <1>6, <1>7 DEF LastMarked, o, d

\* The OSCORE option of request number n as the server reads it.
LEMMA RequestOption ==
    ASSUME OrdinaryIds, NEW n, Sendable(n), NEW options, OrdinaryOptions(options)
    PROVE  oscore_option_parser(OuterOptions(Deltas(options), ValueOf(n)))
             = [r |-> "OscoreNoError", flag |-> TRUE, piv |-> sender_seq_num2piv(n),
                kid_context |-> TheIdContext, kid |-> ClientId]
<1> DEFINE piv == sender_seq_num2piv(n)
           idc == TheIdContext
           value == ValueOf(n)
<1>1. /\ piv \in Seq(Int) /\ piv # <<>> /\ Len(piv) \in Int /\ 1 <= Len(piv) /\ Len(piv) <= 5
  BY PivOf DEF Sendable
<1>2. value \in Seq(Nat) /\ Len(value) < 13
  BY ValueTyped
<1>3. idc \in Seq(Int) /\ ClientId \in Seq(Int)
  <2>1. Octets \subseteq Int
    BY OctetBounds
  <2> QED
    BY <2>1, MoreCells DEF OrdinaryIds
<1>4. value = oscore_option_generate(piv, idc, ClientId)
  BY DEF ValueOf
<1> HIDE DEF piv, idc, value
<1>5. Len(oscore_option_generate(piv, idc, ClientId)) < 256
  BY <1>2, <1>4
<1>6. /\ value \in Seq(Int) /\ value # <<>> /\ PivLen(value) = Len(piv)
      /\ OptionFields(value)
           = [r |-> "OscoreNoError", flag |-> TRUE, piv |-> piv, kid_context |-> idc,
              kid |-> ClientId]
  BY <1>1, <1>3, <1>4, <1>5, OptionValue
<1>7. ValidValue(value) /\ value \in Cells
  <2>1. Len(piv) \notin {6, 7}
    BY ONLY <1>1, NotReservedLength
  <2>2. ValidValue(value)
    BY ONLY <1>6, <2>1, Zenon DEF ValidValue
  <2> QED
    BY <1>6, <2>2 DEF Cells
<1>8. Mergeable(Deltas(options))
  BY OrdinaryDeltas
<1>9. oscore_option_parser(OuterOptions(Deltas(options), value)) = OptionFields(value)
  BY <1>6, <1>7, <1>8, OuterParsed
<1> QED
  BY <1>6, <1>9 DEF piv, idc, value

LEMMA NotCiphertext ==
    ASSUME NEW payload, NEW j \in 1..Len(payload), payload[j] = Marker, NEW n \in Nat
    PROVE  payload # Ciphertext(n)
<1> SUFFICES ASSUME payload = Ciphertext(n) PROVE FALSE
  OBVIOUS
<1>1. AUTH_TAG_LEN \in Nat
  BY PacketAssumption
<1>2. Len(payload) = n + AUTH_TAG_LEN /\ n + AUTH_TAG_LEN \in Nat
  <2>1. n + AUTH_TAG_LEN \in Nat
    BY <1>1
  <2> QED
    BY <2>1 DEF Ciphertext
<1>3. j \in 1..n + AUTH_TAG_LEN
  BY <1>2
<1>4. payload[j] = -j
  BY <1>3 DEF Ciphertext
<1>5. -j # 255
  BY <1>2
<1> QED
  BY <1>4, <1>5 DEF Marker

\* Header and token of a protected packet come through in any case.
LEMMA SealedFramed ==
    ASSUME NEW in, Message(in), NEW value, NEW n \in Nat
    PROVE  LET pkg == Sealed(in, value, n)
           IN  /\ Framed(pkg) /\ pkg.options = OuterOptions(in.options, value)
               /\ pkg.payload = Ciphertext(n) /\ pkg.payload # <<>>
               /\ pkg.code = IF IsRequest(in.code) THEN POST ELSE Changed
               /\ pkg.kind = in.kind /\ pkg.MID = in.MID /\ pkg.token = in.token
<1> DEFINE pkg == Sealed(in, value, n)
           code == IF IsRequest(in.code) THEN POST ELSE Changed
<1>1. pkg = Parsed(in.kind, code, in.MID, in.token, OuterOptions(in.options, value), Ciphertext(n))
  BY SealedFields
<1>2. code \in Int
  BY DEF POST, Changed
<1> HIDE DEF pkg, code
<1>3. /\ pkg.kind = in.kind /\ pkg.code = code /\ pkg.MID = in.MID /\ pkg.token = in.token
      /\ pkg.options = OuterOptions(in.options, value) /\ pkg.payload = Ciphertext(n)
  BY ONLY <1>1 DEF Parsed
<1>4. Ciphertext(n) \in Seq(Int) /\ Ciphertext(n) # <<>>
  <2>1. n + AUTH_TAG_LEN \in Nat \ {0}
    BY PacketAssumption
  <2>2. Ciphertext(n) \in Seq(Int)
    BY CiphertextTyped
  <2>3. DOMAIN Ciphertext(n) # DOMAIN <<>>
    BY <2>1 DEF Ciphertext
  <2> QED
    BY <2>2, <2>3
<1>5. /\ in.kind \in 0..15 /\ in.MID \in Seq(Int) /\ Len(in.MID) = 2
      /\ in.token \in Seq(Int) /\ Len(in.token) <= 8
  <2>1. in.MID = <<in.MID[1], in.MID[2]>> /\ in.MID[1] \in Int /\ in.MID[2] \in Int
    BY DEF Message
  <2>2. <<in.MID[1], in.MID[2]>> \in Seq(Int) /\ Len(<<in.MID[1], in.MID[2]>>) = 2
    BY <2>1
  <2> QED
    BY <2>1, <2>2, Zenon DEF Message
<1>6. Framed(pkg)
  BY <1>2, <1>3, <1>4, <1>5, Zenon DEF Framed
<1> QED
  BY <1>3, <1>4, <1>6 DEF pkg, code

\* A request whose outer options hold a marker does not open, and the server
\* has taken its PIV (oscore2coap at the server).
LEMMA RequestNotOpened ==
    ASSUME OrdinaryIds, NEW m, OrdinaryMessage(m), IsRequest(m.code), NEW n, Sendable(n),
           ~Survives(Deltas(m.options), ValueOf(n)),
           NEW key, NEW nonce, NEW aad, NEW d, ServerContext(d), NEW rx, NEW flag
    PROVE  oscore2coap(SealedDatagram(m, ValueOf(n), key, nonce, aad), flag, d, rx)
             = [r |-> "OscoreAuthenticationError", flag |-> TRUE,
                c |-> ServerContextUpdate(d, sender_seq_num2piv(n), TheIdContext), out |-> rx]
<1> DEFINE piv == sender_seq_num2piv(n)
           idc == TheIdContext
           value == ValueOf(n)
           in == AsParsed(m)
           b == PlaintextFor(m)
           pkg == Sealed(in, value, Len(b))
           bytes == options_into_byte_string(pkg.options)
           at == 5 + Len(pkg.token)
           packet == SealedPacket(m, value)
           body == ReadBody(packet, at, 1)
           got == buf2coap(packet)
           option == oscore_option_parser(pkg.options)
           seal == Seal(key, nonce, aad, b)
           d1 == ServerContextUpdate(d, piv, idc)
<1>1. /\ Message(in) /\ in.options = Deltas(m.options) /\ in.code = m.code
      /\ OrdinaryOptions(m.options)
  BY OrdinaryParsed DEF ParsedFrom, OrdinaryMessage, OrdinaryContent
<1>2. value \in Seq(Nat) /\ Len(value) < 13
  BY ValueTyped
<1>3. Len(b) \in Nat /\ b \in Seq(Int)
  BY PlaintextTyped
<1> HIDE DEF in, value, b
<1>4. /\ Framed(pkg) /\ pkg.options = OuterOptions(in.options, value)
      /\ pkg.payload # <<>> /\ pkg.code = POST
  <2>1. IsRequest(in.code)
    BY <1>1
  <2> QED
    BY <1>1, <1>3, <2>1, SealedFramed
<1>5. packet = PacketBytes(Header(pkg), pkg.token, bytes, pkg.payload)
  BY DEF SealedPacket, PacketOf, in, value, b
<1> HIDE DEF pkg
<1>6. LastMarked(pkg.options) /\ bytes \in Seq(Int)
  <2>1. LastMarked(pkg.options)
    BY <1>1, <1>2, <1>4, OuterLastMarked
  <2> QED
    BY <2>1, ShortRecord DEF LastMarked
<1>7. ~NoMarker(bytes)
  <2> SUFFICES ASSUME NoMarker(bytes) PROVE Survives(Deltas(m.options), value)
    BY DEF value
  <2>1. /\ Mergeable(in.options) /\ ShortValues(in.options) /\ RightlyCounted(in.options)
        /\ NoMarker(options_into_byte_string(InnerOptions(in.options)))
        /\ Len(in.options) = Len(m.options)
    BY <1>1, OrdinaryDeltas, CleanCells
  <2>2. \A i \in OuterIndexes(in.options) : Len(in.options[i].value) < 13
    BY <1>1, <2>1, OrdinaryOption DEF OuterIndexes
  <2>3. NoMarker(options_into_byte_string(OuterOptions(in.options, value)))
    BY <1>4
  <2> QED
    BY <1>1, <1>2, <2>1, <2>2, <2>3 DEF Survives
<1> HIDE DEF packet, bytes
<1>8. /\ packet \in Seq(Int) /\ at \in Nat \ {0} /\ Holds(packet, at, bytes)
      /\ EndsWithPayload(packet, at + Len(bytes), pkg.payload)
      /\ got = [r |-> body.r, kind |-> pkg.kind, code |-> pkg.code,
                MID |-> <<pkg.MID[1], pkg.MID[2]>>, token |-> pkg.token,
                options |-> body.options, payload |-> body.payload]
  BY <1>4, <1>5, <1>6, PacketHead
<1> HIDE DEF at
<1>9. /\ body.r = "OscoreNoError" /\ body.options = pkg.options
      /\ \E j \in 1..Len(body.payload) : body.payload[j] = Marker
  <2>1. bytes = options_into_byte_string(pkg.options)
    BY DEF bytes
  <2>2. /\ pkg.payload # <<>> /\ packet \in Seq(Int) /\ at \in Nat \ {0} /\ Holds(packet, at, bytes)
        /\ EndsWithPayload(packet, at + Len(bytes), pkg.payload)
    BY <1>4, <1>8
  <2>3. MarkedBody(pkg.options, bytes, packet, at, pkg.payload)
    BY ONLY <1>6, <1>7, <2>1, <2>2, Zenon DEF MarkedBody
  <2> QED
    BY ONLY <2>3, MarkedBodyRead DEF body
<1> HIDE DEF body, got
<1>10. /\ got.r = "OscoreNoError" /\ got.code = POST /\ got.options = pkg.options
       /\ got.payload = body.payload
  <2>1. /\ got.r = body.r /\ got.code = pkg.code /\ got.options = body.options
        /\ got.payload = body.payload
    BY ONLY <1>8
  <2> QED
    BY ONLY <1>4, <1>9, <2>1
<1>11. option = [r |-> "OscoreNoError", flag |-> TRUE, piv |-> piv, kid_context |-> idc,
                 kid |-> ClientId]
  BY <1>1, <1>4, RequestOption DEF value
<1> HIDE DEF option, piv, idc, seal, d1
<1>12. /\ option.r = "OscoreNoError" /\ option.flag = TRUE /\ option.piv = piv
       /\ option.kid_context = idc /\ option.kid = ClientId
  BY ONLY <1>11
<1>13. d.recipient_key.id = ClientId /\ UpdateSucceeds(d, idc)
  <2>1. d.recipient_key = Key(TheSecret, TheIdContext, ClientId) /\ d.id_context = TheIdContext
    BY DEF ServerContext
  <2> QED
    BY <2>1 DEF Key, UpdateSucceeds, idc
<1>14. ~payload_opens(got.payload, seal, d1)
  <2>1. seal.plaintext = b
    BY DEF seal, Seal
  <2>2. got.payload # Ciphertext(Len(b))
    BY <1>3, <1>9, <1>10, NotCiphertext
  <2> QED
    BY <2>1, <2>2 DEF payload_opens
<1>15. IsRequest(got.code)
  <2>1. IsRequest(2)
    BY DEF IsRequest
  <2> QED
    BY ONLY <1>10, <2>1 DEF POST
<1>16. ServerContextUpdate(d, option.piv, option.kid_context) = d1
  BY ONLY <1>12, Zenon DEF d1
<1>17. UnprotectParsed(got, option, seal, flag, d, rx)
         = [r |-> "OscoreAuthenticationError", flag |-> TRUE, c |-> d1, out |-> rx]
  BY ONLY <1>10, <1>12, <1>13, <1>14, <1>15, <1>16 DEF UnprotectParsed
<1>18. oscore2coap(SealedDatagram(m, value, key, nonce, aad), flag, d, rx)
         = UnprotectParsed(got, option, seal, flag, d, rx)
  <2> DEFINE wire == SealedDatagram(m, value, key, nonce, aad)
  <2>1. wire.bytes = packet /\ wire.seal = seal
    BY DEF SealedDatagram, packet, seal, b
  <2> HIDE DEF wire
  <2>2. buf2coap(wire.bytes) = got /\ oscore_option_parser(got.options) = option
    BY <1>10, <2>1 DEF got, option
  <2>3. oscore2coap(wire, flag, d, rx)
          = UnprotectParsed(buf2coap(wire.bytes),
                            oscore_option_parser(buf2coap(wire.bytes).options), wire.seal,
                            flag, d, rx)
    BY DEF oscore2coap
  <2>4. oscore2coap(wire, flag, d, rx) = UnprotectParsed(got, option, seal, flag, d, rx)
    BY ONLY <2>1, <2>2, <2>3, Zenon
  <2> QED
    BY ONLY <2>4, Zenon DEF wire
<1> QED
  BY ONLY <1>17, <1>18, Zenon DEF d1, piv, idc, value

-----------------------------------------------------------------------------
\* The messages of the two applications.

LEMMA RequestIsOrdinary ==
    ASSUME NEW q, OrdinaryContent(q), NEW round \in Nat, round > 0
    PROVE  /\ OrdinaryMessage(Request(q, round))
           /\ Request(q, round).code = q.code
           /\ Request(q, round).token = <<round % 256, round \div 256, 0, 0>>
<1> DEFINE m == Request(q, round)
           MID == IF Secure(round) THEN <<1 + (round \div 512), (round \div 2) % 256>>
                  ELSE <<0, ((round \div 2) - 1) % 256>>
           token == <<round % 256, round \div 256, 0, 0>>
<1>1. m = [kind |-> Con, code |-> q.code, MID |-> MID, token |-> token,
           options |-> q.options, payload |-> q.payload]
  BY DEF Request
<1>2. token \in Seq(Nat) /\ Len(token) = 4
  <2>1. round % 256 \in Nat /\ round \div 256 \in Nat
    OBVIOUS
  <2> QED
    BY <2>1
<1>3. MID \in Seq(Nat) /\ Len(MID) = 2
  <2>1. /\ 1 + (round \div 512) \in Nat /\ (round \div 2) % 256 \in Nat
        /\ ((round \div 2) - 1) % 256 \in Nat
    OBVIOUS
  <2> QED
    BY <2>1
<1> HIDE DEF m, MID, token
<1>4. /\ m.kind = Con /\ m.code = q.code /\ m.MID = MID /\ m.token = token
      /\ m.options = q.options /\ m.payload = q.payload
  BY ONLY <1>1
<1>5. Con \in 0..15
  BY DEF Con
<1>6. m = [kind |-> m.kind, code |-> m.code, MID |-> m.MID, token |-> m.token,
           options |-> m.options, payload |-> m.payload]
  BY ONLY <1>1, <1>4, Zenon
<1>7. OrdinaryContent(m)
  BY <1>4 DEF OrdinaryContent
<1>8. OrdinaryMessage(m)
  BY <1>2, <1>3, <1>4, <1>5, <1>6, <1>7, Zenon DEF OrdinaryMessage
<1> QED
  BY <1>4, <1>8 DEF m, token

LEMMA AnswerIsOrdinary ==
    ASSUME NEW m, OrdinaryMessage(m), NEW a, OrdinaryContent(a)
    PROVE  OrdinaryMessage(AnswerTo(m, a)) /\ AnswerTo(m, a).code = a.code
<1> DEFINE x == AnswerTo(m, a)
<1>1. x = [kind |-> Ack, code |-> a.code, MID |-> m.MID, token |-> m.token,
           options |-> a.options, payload |-> a.payload]
  BY DEF AnswerTo
<1> HIDE DEF x
<1>2. /\ x.kind = Ack /\ x.code = a.code /\ x.MID = m.MID /\ x.token = m.token
      /\ x.options = a.options /\ x.payload = a.payload
  BY ONLY <1>1
<1>3. Ack \in 0..15
  BY DEF Ack
<1>4. x = [kind |-> x.kind, code |-> x.code, MID |-> x.MID, token |-> x.token,
           options |-> x.options, payload |-> x.payload]
  BY ONLY <1>1, <1>2, Zenon
<1>5. OrdinaryContent(x)
  BY <1>2 DEF OrdinaryContent
<1>6. OrdinaryMessage(x)
  BY <1>2, <1>3, <1>4, <1>5, Zenon DEF OrdinaryMessage
<1> QED
  BY <1>2, <1>6 DEF x

\* The fields that prepare_CoAP_response copies, from cells whose first eight
\* are those of a message.
LEMMA HeadCopied ==
    ASSUME NEW kind, NEW code, NEW MID, NEW token, HeadParts(kind, code, MID, token),
           NEW b, Len(b) \in Nat, Len(b) >= 8,
           \A i \in 1..8 : b[i] = HeadOf(kind, code, MID, token)[i]
    PROVE  MidOf(b) = MID /\ TokenOf(b) = token
<1>2. MID \in Seq(Nat) /\ Len(MID) = 2 /\ token \in Seq(Nat) /\ Len(token) = 4 /\ kind \in 0..15
  BY DEF HeadParts
<1> DEFINE head == HeadOf(kind, code, MID, token)
<1>3. \A i \in 1..8 : b[i] = head[i]
  OBVIOUS
<1>4. /\ head[1] = kind * 16 + 4 /\ head[3] = MID[1] /\ head[4] = MID[2]
      /\ \A i \in 1..4 : head[4 + i] = token[i]
  BY HeadCells
<1> HIDE DEF head
<1>5. /\ b[1] % 16 = 4 /\ b[3] = MID[1] /\ b[4] = MID[2]
      /\ \A i \in 1..4 : b[4 + i] = token[i]
  <2>1. b[1] = kind * 16 + 4
    BY <1>3, <1>4
  <2>2. (kind * 16 + 4) % 16 = 4
    <3>1. kind \in Int /\ 4 \in 0..15
      BY <1>2
    <3> QED
      BY <3>1, Nibbles
  <2>3. b[3] = head[3] /\ b[4] = head[4]
    BY <1>3
  <2>4. \A i \in 1..4 : b[4 + i] = head[4 + i]
    BY <1>3
  <2> QED
    BY <1>4, <2>1, <2>2, <2>3, <2>4
<1>6. MID = [k \in 1..2 |-> MID[k]] /\ token = [k \in 1..4 |-> token[k]]
  BY <1>2
<1>7. MidOf(b) = [k \in 1..2 |-> MID[k]]
  <2>1. \A k \in 1..2 : 3 + k - 1 \in 1..Len(b) /\ b[3 + k - 1] = MID[k]
    BY <1>5
  <2> QED
    BY <2>1 DEF MidOf, Slice
<1>8. TokenOf(b) = [k \in 1..4 |-> token[k]]
  <2>1. \A k \in 1..4 : 5 + k - 1 \in 1..Len(b) /\ b[5 + k - 1] = token[k]
    BY <1>5
  <2>2. Slice(b, 5, 4) = [k \in 1..4 |-> token[k]]
    BY <2>1 DEF Slice
  <2> QED
    BY <1>5, <2>2 DEF TokenOf
<1> QED
  BY <1>6, <1>7, <1>8

LEMMA FieldsCopied ==
    ASSUME NEW m, OrdinaryMessage(m), NEW b, Len(b) \in Nat, Len(b) >= 8,
           \A i \in 1..8 : b[i] = Encode(m)[i]
    PROVE  MidOf(b) = m.MID /\ TokenOf(b) = m.token
<1>1. HeadParts(m.kind, m.code, m.MID, m.token)
  BY DEF HeadParts, OrdinaryMessage, OrdinaryContent
<1>2. \A i \in 1..8 : b[i] = HeadOf(m.kind, m.code, m.MID, m.token)[i]
  BY OrdinaryEncoded
<1> QED
  BY <1>1, <1>2, HeadCopied

\* The answer to cells that hold a request is the answer to the request.
LEMMA ResponseIs ==
    ASSUME NEW m, OrdinaryMessage(m), NEW b, Len(b) \in Nat, Len(b) >= 8,
           \A i \in 1..8 : b[i] = Encode(m)[i], NEW a
    PROVE  Response(b, Ack, a) = Encode(AnswerTo(m, a))
BY FieldsCopied DEF Response, AnswerTo

-----------------------------------------------------------------------------
\* What an ordinary setup gives for the client's requests.

LEMMA FirstPivUnmarked ==
    ASSUME FitsPiv(0)
    PROVE  NoMarkerIn(sender_seq_num2piv(0))
<1> DEFINE piv == sender_seq_num2piv(0)
<1>1. 0 \in Nat
  OBVIOUS
<1>2. Len(piv) \in 1..MAX_PIV_LEN
  BY <1>1, PivMade
<1>3. DOMAIN piv = 1..SignificantBytes(0) /\ \A i \in DOMAIN piv : piv[i] = ByteOf(0, i - 1)
  BY DEF sender_seq_num2piv
<1>4. piv \in Seq(Int)
  BY <1>1, PivMade
<1> HIDE DEF piv
<1>5. DOMAIN piv = 1..Len(piv)
  BY <1>4
<1>6. ASSUME NEW i \in DOMAIN piv
      PROVE  piv[i] # Marker
  <2>1. i - 1 \in 0..SSN_LEN
    BY <1>2, <1>5, PivAssumption
  <2>2. Weight[i - 1] \in Nat \ {0} /\ Radix \in Nat \ {0}
    BY <2>1, PivAssumption
  <2> DEFINE w == Weight[i - 1]
  <2> HIDE DEF w
  <2>3. w \in Nat \ {0}
    BY <2>2 DEF w
  <2>4. 0 \div w = 0
    BY <2>3
  <2>5. 0 % Radix = 0
    BY <2>2
  <2>6. ByteOf(0, i - 1) = 0
    BY <2>4, <2>5 DEF ByteOf, w
  <2> QED
    BY <1>3, <2>6 DEF Marker
<1> QED
  BY <1>6 DEF NoMarkerIn, piv

\* The requests with a number are those of the odd rounds.
LEMMA NumberOfRound ==
    ASSUME NEW round \in Nat, Secure(round)
    PROVE  \E n \in Nat : /\ round = 2 * n + 1 /\ (round + 1) \div 2 = n + 1 /\ round \div 2 = n
                          /\ n <= round
BY DEF Secure

LEMMA RequestInSetup ==
    ASSUME NEW s, Ordinary(s), s.rounds \in Nat, NEW q \in s.secure, NEW n \in Nat,
           2 * n + 1 <= s.rounds
    PROVE  /\ n \in Numbers(s) /\ Sendable(n)
           /\ Request(q, 2 * n + 1) \in Requests(s)
           /\ SealedPacket(Request(q, 2 * n + 1), ValueOf(n)) \in SealedRequests(s)
<1>1. n \in Numbers(s)
  BY DEF Numbers
<1>2. Sendable(n)
  BY <1>1 DEF Ordinary, Sendable
<1>3. Request(q, 2 * n + 1) \in Requests(s)
  BY <1>1 DEF Requests
<1>4. SealedPacket(Request(q, 2 * n + 1), ValueOf(n)) \in SealedRequests(s)
  BY <1>1 DEF SealedRequests
<1> QED
  BY <1>1, <1>2, <1>3, <1>4

LEMMA RequestsAreOrdinary ==
    ASSUME NEW s, Ordinary(s), s.rounds \in Nat, NEW m \in Requests(s)
    PROVE  /\ OrdinaryMessage(m) /\ IsRequest(m.code) /\ Encode(m) \in AskedPackets(s)
           /\ \A a \in s.answers :
                 /\ OrdinaryMessage(AnswerTo(m, a)) /\ ~IsRequest(AnswerTo(m, a).code)
                 /\ Encode(AnswerTo(m, a)) \in AnswerPackets(s)
                 /\ SealedPacket(AnswerTo(m, a), <<>>) \in SealedAnswers(s)
<1>1. PICK q \in s.secure, n \in Numbers(s) : m = Request(q, 2 * n + 1)
  BY DEF Requests
<1>2. 2 * n + 1 \in Nat /\ 2 * n + 1 > 0
  BY DEF Numbers
<1>3. OrdinaryContent(q) /\ IsRequest(q.code)
  BY DEF Ordinary
<1> DEFINE round == 2 * n + 1
<1>4. m = Request(q, round) /\ round \in Nat /\ round > 0
  BY <1>1, <1>2
<1> HIDE DEF round
<1>5. OrdinaryMessage(m) /\ m.code = q.code
  BY <1>3, <1>4, RequestIsOrdinary
<1>6. ASSUME NEW a \in s.answers
      PROVE  /\ OrdinaryMessage(AnswerTo(m, a)) /\ ~IsRequest(AnswerTo(m, a).code)
             /\ Encode(AnswerTo(m, a)) \in AnswerPackets(s)
             /\ SealedPacket(AnswerTo(m, a), <<>>) \in SealedAnswers(s)
  <2>1. OrdinaryContent(a) /\ ~IsRequest(a.code)
    BY DEF Ordinary
  <2>2. OrdinaryMessage(AnswerTo(m, a)) /\ AnswerTo(m, a).code = a.code
    BY <1>5, <2>1, AnswerIsOrdinary
  <2>3. Encode(AnswerTo(m, a)) \in AnswerPackets(s)
    BY DEF AnswerPackets
  <2>4. SealedPacket(AnswerTo(m, a), <<>>) \in SealedAnswers(s)
    BY DEF SealedAnswers
  <2> QED
    BY <2>1, <2>2, <2>3, <2>4
<1>7. Encode(m) \in AskedPackets(s)
  BY DEF AskedPackets
<1> QED
  BY <1>3, <1>5, <1>6, <1>7

\* Two rounds ask with different tokens.
LEMMA RequestsDiffer ==
    ASSUME NEW q, NEW p, NEW i \in Nat, NEW j \in Nat, i # j
    PROVE  Request(q, i) # Request(p, j) /\ Request(q, i) # <<>>
<1>1. Request(q, i).token = <<i % 256, i \div 256, 0, 0>>
  BY DEF Request
<1>2. Request(p, j).token = <<j % 256, j \div 256, 0, 0>>
  BY DEF Request
<1>3. i = 256 * (i \div 256) + (i % 256) /\ j = 256 * (j \div 256) + (j % 256)
  OBVIOUS
<1>4. ~(i % 256 = j % 256 /\ i \div 256 = j \div 256)
  BY <1>3
<1>5. <<i % 256, i \div 256, 0, 0>> # <<j % 256, j \div 256, 0, 0>>
  BY <1>4
<1>6. "token" \in DOMAIN Request(q, i)
  BY DEF Request
<1>7. "token" \notin DOMAIN <<>>
  OBVIOUS
<1> QED
  BY <1>1, <1>2, <1>5, <1>6, <1>7

\* A packet of the setup fits into a buffer it is used with, also after
\* another one was written there.
LEMMA RoomInBuffer ==
    ASSUME NEW buffer, NEW packets, Usable(buffer, packets), Suits(Setup, packets), BufLen \in Nat,
           NEW b \in packets
    PROVE  /\ HasRoom(Room(buffer), Len(b)) /\ Room(buffer).b = buffer.b
           /\ Usable(Room(buffer), packets)
<1>1. CASE Setup.fresh
  <2>1. Room(buffer) = [buffer EXCEPT !.len = BufLen]
    BY <1>1 DEF Room
  <2>2. /\ Room(buffer).len = BufLen /\ Room(buffer).b = buffer.b
        /\ DOMAIN Room(buffer) = DOMAIN buffer
    BY <2>1 DEF Usable
  <2>3. Len(b) <= BufLen
    BY DEF Suits
  <2> QED
    BY <1>1, <2>2, <2>3 DEF Usable, Roomy, HasRoom
<1>2. CASE ~Setup.fresh
  <2>1. Room(buffer) = buffer
    BY <1>2 DEF Room
  <2> QED
    BY <1>2, <2>1 DEF Usable, Roomy, HasRoom
<1> QED
  BY <1>1, <1>2

LEMMA RoomyAfter ==
    ASSUME NEW packets, Suits(Setup, packets), NEW b \in packets, Len(b) \in Nat
    PROVE  Roomy(Len(b), packets)
<1>1. CASE Setup.fresh
  BY <1>1 DEF Roomy
<1>2. CASE ~Setup.fresh
  <2>1. \A x \in packets : Len(x) = Len(b)
    BY <1>2 DEF Suits
  <2> QED
    BY <2>1 DEF Roomy
<1> QED
  BY <1>1, <1>2

\* Cells a packet was written to.
LEMMA OverlayCells ==
    ASSUME NEW b \in Cells, NEW x \in Seq(Int)
    PROVE  /\ Overlay(b, x) \in Cells /\ Len(Overlay(b, x)) >= Len(x)
           /\ \A i \in 1..Len(x) : Overlay(b, x)[i] = x[i]
<1> DEFINE rest == SubSeq(b, Len(x) + 1, Len(b))
<1>1. rest \in Seq(Int)
  BY DEF Cells
<1> HIDE DEF rest
<1>2. /\ x \o rest \in Seq(Int) /\ Len(x \o rest) = Len(x) + Len(rest)
      /\ \A i \in 1..Len(x) : (x \o rest)[i] = x[i]
  BY <1>1, TwoParts
<1>3. Len(rest) \in Nat /\ Len(x) \in Nat
  BY <1>1
<1>4. Overlay(b, x) = x \o rest
  BY DEF Overlay, rest
<1> QED
  BY <1>2, <1>3, <1>4 DEF Cells
-----------------------------------------------------------------------------
\* What the server makes of packets that are not protected for it.

\* A plain message is left where it is.
LEMMA PlainOpened ==
    ASSUME NEW m, OrdinaryMessage(m), NEW seal, NEW flag, NEW c, NEW out
    PROVE  oscore2coap([bytes |-> Encode(m), seal |-> seal], flag, c, out)
             = [r |-> "OscoreNoError", flag |-> FALSE, c |-> c, out |-> out]
<1> DEFINE in == AsParsed(m)
           d == Deltas(m.options)
           wire == [bytes |-> Encode(m), seal |-> seal]
           option == oscore_option_parser(d)
<1>1. in.r = "OscoreNoError" /\ in.options = d
  BY OrdinaryParsed DEF ParsedFrom
<1>2. buf2coap(wire.bytes) = in
  BY EncodedIsParsed
<1>3. OrdinaryOptions(m.options)
  BY DEF OrdinaryMessage, OrdinaryContent
<1>4. Len(m.options) \in Nat /\ Len(d) = Len(m.options) /\ DOMAIN d = 1..Len(d)
  <2>1. ShortRecords(d)
    BY <1>3, OrdinaryDeltas
  <2>2. d \in Seq(OptionRecords)
    BY <2>1 DEF ShortRecords
  <2> HIDE DEF d
  <2>3. DOMAIN d = 1..Len(d)
    BY <2>2
  <2>4. Len(m.options) \in Nat /\ Len(d) = Len(m.options)
    BY <1>3, OrdinaryDeltas DEF d
  <2> QED
    BY <2>3, <2>4
<1>5. \A i \in DOMAIN d : d[i].number # OSCORE
  <2> SUFFICES ASSUME NEW i \in DOMAIN d PROVE d[i].number # OSCORE
    OBVIOUS
  <2>1. i \in 1..Len(m.options)
    BY <1>4
  <2>2. /\ d[i].number = m.options[i].number
        /\ ~is_class_e(m.options[i].number) => m.options[i].number < OSCORE
    BY <1>3, <2>1, OrdinaryOption
  <2>3. OSCORE = 9 /\ ~is_class_e(OSCORE)
    BY DEF OSCORE, is_class_e, ClassU
  <2> QED
    BY <2>2, <2>3
<1> HIDE DEF d
<1>6. option = NoFields(FALSE)
  <2> DEFINE found == {i \in DOMAIN d : d[i].number = OSCORE}
             full == {i \in found : d[i].value # <<>>}
             invalid == {i \in full : PivLen(d[i].value) \in {6, 7}}
  <2>1. found = {}
    BY <1>5
  <2>2. full = {} /\ invalid = {}
    BY <2>1
  <2>3. option = IF invalid # {}
                 THEN [NoFields(\E i \in found : \A j \in invalid : i < j)
                          EXCEPT !.r = "OscoreInPktInvalidPiv"]
                 ELSE IF full = {} THEN NoFields(found # {})
                 ELSE OptionFields(d[CHOOSE i \in full : \A j \in full : j <= i].value)
    BY DEF oscore_option_parser
  <2>4. (found # {}) = FALSE
    BY <2>1
  <2> HIDE DEF found, full, invalid
  <2>5. option = NoFields(found # {})
    BY <2>2, <2>3
  <2> QED
    BY <2>4, <2>5
<1>7. option.r = "OscoreNoError" /\ option.flag = FALSE
  BY <1>6 DEF NoFields
<1> HIDE DEF in, option
<1>8. UnprotectParsed(in, option, wire.seal, flag, c, out)
        = [r |-> "OscoreNoError", flag |-> FALSE, c |-> c, out |-> out]
  BY <1>1, <1>7 DEF UnprotectParsed
<1>9. oscore2coap(wire, flag, c, out) = UnprotectParsed(in, option, wire.seal, flag, c, out)
  BY <1>1, <1>2 DEF oscore2coap, option
<1> HIDE DEF wire
<1>10. oscore2coap(wire, flag, c, out)
         = [r |-> "OscoreNoError", flag |-> FALSE, c |-> c, out |-> out]
  BY ONLY <1>8, <1>9, Zenon
<1> QED
  BY ONLY <1>10, Zenon DEF wire

\* Nothing but the flag changes with a packet of somebody else.
LEMMA NothingTaken ==
    ASSUME NEW p, NotForServer(p), NEW c, c.recipient_key.id = ClientId, NEW flag, NEW out
    PROVE  LET done == oscore2coap(p, flag, c, out)
           IN  done.c = c /\ done.out = out
<1> DEFINE in == buf2coap(p.bytes)
           option == oscore_option_parser(in.options)
           done == UnprotectParsed(in, option, p.seal, flag, c, out)
<1>1. oscore2coap(p, flag, c, out) = done
  BY DEF oscore2coap
<1>2. \/ in.r # "OscoreNoError" \/ option.r # "OscoreNoError" \/ option.flag = FALSE
      \/ IsRequest(in.code) /\ option.kid # ClientId
  BY DEF NotForServer
<1> HIDE DEF in, option
<1>3. done.c = c /\ done.out = out
  BY <1>2 DEF UnprotectParsed
<1> QED
  BY <1>1, <1>3
-----------------------------------------------------------------------------
\* The packets in the order of an exchange, from a state of the invariant.

LEMMA OrdinarySetup ==
    ASSUME setup \in DOMAIN Setups, Ordinary(Setup)
    PROVE  /\ OrdinaryIds /\ BufLen \in Nat /\ Setup.rounds \in Nat /\ Setup.strays \in Nat
           /\ Setup.server = "linux"
           /\ Suits(Setup, AskedPackets(Setup)) /\ Suits(Setup, AnswerPackets(Setup))
           /\ Suits(Setup, SealedRequests(Setup)) /\ Suits(Setup, SealedAnswers(Setup))
<1>1. Setup.rounds \in Nat /\ Setup.strays \in Nat
  BY SamplesAssumption DEF Setup, SetupOK
<1>2. OrdinaryIds
  BY DEF Ordinary
<1>3. BufLen \in Nat
  BY <1>2 DEF OrdinaryIds
<1> QED
  BY <1>1, <1>2, <1>3 DEF Ordinary

\* The client's last request is the protected one with number n.
AskedAs(n) ==
    LET piv == sender_seq_num2piv(n)
    IN  /\ client.round = 2 * n + 1 /\ Sendable(n) /\ ClientContext(client.c, n + 1)
        /\ client.c.piv = piv
        /\ client.c.nonce = create_nonce(piv, CommonIV(TheSecret, TheIdContext))
        /\ client.c.aad = create_aad(piv)
        /\ RequestPacket = SealedDatagram(client.asked, ValueOf(n), client.c.sender_key,
                                          client.c.nonce, client.c.aad)
        /\ client.asked \in Requests(Setup)

LEMMA AskedProtected ==
    ASSUME setup \in DOMAIN Setups, Ordinary(Setup), SamplesInv,
           client.round > 0, Secure(client.round)
    PROVE  \E n \in Nat : AskedAs(n)
<1>1. /\ client.round \in 0..Setup.rounds /\ ClientContext(client.c, (client.round + 1) \div 2)
      /\ Setup.rounds \in Nat
  BY OrdinarySetup DEF SamplesInv, ClientInv
<1> DEFINE round == client.round
<1>2. round \in Nat /\ round <= Setup.rounds /\ Secure(round) /\ round > 0
  BY <1>1
<1>3. \E q \in Setup.secure : client.asked = Request(q, round)
  BY <1>2 DEF SamplesInv, AskedInv
<1> HIDE DEF round
<1>4. PICK n \in Nat : round = 2 * n + 1 /\ (round + 1) \div 2 = n + 1
  BY <1>2, NumberOfRound
<1>5. PICK q \in Setup.secure : client.asked = Request(q, round)
  BY <1>3
<1>6. 2 * n + 1 <= Setup.rounds
  BY <1>2, <1>4
<1>7. Sendable(n) /\ client.asked \in Requests(Setup)
  <2> DEFINE s == Setup
  <2>1. Ordinary(s) /\ s.rounds \in Nat /\ q \in s.secure /\ 2 * n + 1 <= s.rounds
    BY <1>1, <1>6
  <2> HIDE DEF s
  <2>2. Sendable(n) /\ Request(q, 2 * n + 1) \in Requests(s)
    BY <2>1, RequestInSetup
  <2> QED
    BY <1>4, <1>5, <2>2 DEF s
<1>8. ClientContext(client.c, n + 1)
  BY <1>1, <1>4 DEF round
<1>9. /\ client.c.sender_seq_num = n + 1 /\ client.c.piv = sender_seq_num2piv(n + 1 - 1)
      /\ client.c.nonce = create_nonce(client.c.piv, client.c.common_iv)
      /\ client.c.aad = create_aad(client.c.piv)
      /\ client.c.common_iv = CommonIV(TheSecret, TheIdContext)
  BY <1>8 DEF ClientContext
<1>10. n + 1 - 1 = n
  OBVIOUS
<1>11. RequestPacket = SealedDatagram(client.asked, ValueOf(n), client.c.sender_key,
                                      client.c.nonce, client.c.aad)
  <2>1. client.c.sender_seq_num - 1 = n
    BY <1>9
  <2> QED
    BY <2>1 DEF RequestPacket
<1> QED
  BY <1>4, <1>7, <1>8, <1>9, <1>10, <1>11 DEF round, AskedAs

Seen(done) == Slice(done.out.b, 1, done.out.len)

\* The server's buffer after a conversion: a request was written there.
ServerReads(done) ==
    /\ ServerContext(done.c) /\ Usable(done.out, AskedPackets(Setup))
    /\ HoldsRequest(done.out.b) /\ done.out.len >= 8

\* What the server answers begins like m.
Begins(bytes, m) ==
    Len(bytes) \in Nat /\ Len(bytes) >= 8 /\ \A i \in 1..8 : bytes[i] = Encode(m)[i]

LEMMA SeenBegins ==
    ASSUME NEW done, Usable(done.out, AskedPackets(Setup)), done.out.len >= 8,
           NEW m, Len(done.out.b) >= 8, \A i \in 1..8 : done.out.b[i] = Encode(m)[i]
    PROVE  Begins(Seen(done), m)
<1> DEFINE b == done.out.b
           n == done.out.len
           seen == Slice(b, 1, n)
<1>1. n \in Nat /\ n >= 8 /\ Len(b) \in Nat /\ Len(b) >= 8
  BY DEF Usable, Roomy, Cells
<1>2. \A i \in 1..8 : b[i] = Encode(m)[i]
  OBVIOUS
<1>3. Seen(done) = seen
  BY DEF Seen
<1> HIDE DEF b, n
<1>4. seen = [k \in 1..n |-> IF 1 + k - 1 \in 1..Len(b) THEN b[1 + k - 1] ELSE Junk]
  BY DEF Slice
<1>5. Len(seen) = n
  BY <1>1, <1>4
<1>6. ASSUME NEW i \in 1..8
      PROVE  seen[i] = b[i]
  <2>1. i \in 1..n /\ 1 + i - 1 = i /\ i \in 1..Len(b)
    BY <1>1
  <2> QED
    BY <1>4, <2>1
<1> HIDE DEF seen
<1> QED
  BY <1>1, <1>2, <1>3, <1>5, <1>6 DEF Begins

LEMMA WholeBegins ==
    ASSUME NEW m, OrdinaryMessage(m)
    PROVE  Begins(Encode(m), m)
<1>1. Encode(m) \in Seq(Nat) /\ Len(Encode(m)) >= 8
  BY OrdinaryEncoded
<1> QED
  BY <1>1 DEF Begins
\* The room that is passed with the server's receive buffer.
LEMMA ReceiveRoom ==
    ASSUME setup \in DOMAIN Setups, Ordinary(Setup), SamplesInv, NEW m \in Requests(Setup)
    PROVE  /\ HasRoom(Room(server.rx), Len(Encode(m))) /\ Room(server.rx).b = server.rx.b
           /\ Usable(Room(server.rx), AskedPackets(Setup))
           /\ server.rx.b # <<>> => HoldsRequest(Room(server.rx).b) /\ Room(server.rx).len >= 8
<1> DEFINE rx == Room(server.rx)
           packets == AskedPackets(Setup)
           bytes == Encode(m)
<1>1. Usable(server.rx, packets) /\ Suits(Setup, packets) /\ BufLen \in Nat
  BY OrdinarySetup DEF SamplesInv, ServerInv
<1>2. bytes \in packets /\ OrdinaryMessage(m)
  BY OrdinarySetup, RequestsAreOrdinary
<1>3. Len(bytes) >= 8 /\ Len(bytes) \in Nat
  BY <1>2, OrdinaryEncoded
<1> HIDE DEF packets, bytes
<1>4. HasRoom(rx, Len(bytes)) /\ rx.b = server.rx.b /\ Usable(rx, packets)
  BY <1>1, <1>2, RoomInBuffer
<1>5. ASSUME server.rx.b # <<>>
      PROVE  HoldsRequest(rx.b) /\ rx.len >= 8
  <2>1. HoldsRequest(server.rx.b) /\ server.rx.len >= 8
    BY <1>5 DEF SamplesInv, ServerInv
  <2>2. rx.len >= 8
    <3>1. CASE Setup.fresh
      <4>1. Room(server.rx) = [server.rx EXCEPT !.len = BufLen]
        BY <3>1 DEF Room
      <4>2. rx.len = BufLen
        BY <1>1, <4>1 DEF Usable
      <4>3. Len(bytes) <= BufLen
        BY <1>1, <1>2 DEF Suits
      <4> QED
        BY <1>1, <1>3, <4>2, <4>3
    <3>2. CASE ~Setup.fresh
      BY <2>1, <3>2 DEF Room
    <3> QED
      BY <3>1, <3>2
  <2> QED
    BY <1>4, <2>1, <2>2
<1> QED
  BY <1>4, <1>5 DEF packets, bytes

\* What an ordinary request leaves in the buffer.
LEMMA WrittenHolds ==
    ASSUME setup \in DOMAIN Setups, Ordinary(Setup), NEW m \in Requests(Setup),
           NEW b \in Cells, NEW out,
           out = [b |-> Overlay(b, Encode(m)), len |-> Len(Encode(m))]
    PROVE  /\ Usable(out, AskedPackets(Setup)) /\ HoldsRequest(out.b) /\ out.len >= 8
           /\ Slice(out.b, 1, out.len) = Encode(m)
<1> DEFINE packets == AskedPackets(Setup)
           bytes == Encode(m)
<1>1. bytes \in packets /\ Suits(Setup, packets) /\ OrdinaryMessage(m)
  BY OrdinarySetup, RequestsAreOrdinary
<1>2. bytes \in Seq(Nat) /\ Len(bytes) >= 8 /\ Len(bytes) \in Nat
  BY <1>1, OrdinaryEncoded
<1> HIDE DEF packets
<1>3. bytes \in Seq(Int)
  BY <1>2, CleanAreBytes, MoreCells
<1>4. /\ Overlay(b, bytes) \in Cells /\ Len(Overlay(b, bytes)) >= Len(bytes)
      /\ \A i \in 1..Len(bytes) : Overlay(b, bytes)[i] = bytes[i]
  BY <1>3, OverlayCells
<1>5. Roomy(Len(bytes), packets)
  BY <1>1, <1>2, RoomyAfter
<1>6. out.b = Overlay(b, bytes) /\ out.len = Len(bytes) /\ {"b", "len"} \subseteq DOMAIN out
  OBVIOUS
<1>7. Slice(Overlay(b, bytes), 1, Len(bytes)) = bytes
  BY <1>3, WrittenInFront DEF Cells
<1>8. \A i \in 1..8 : Overlay(b, bytes)[i] = Encode(m)[i]
  <2>1. \A i \in 1..8 : i \in 1..Len(bytes)
    BY <1>2
  <2> QED
    BY <1>4, <2>1
<1>9. Len(Overlay(b, bytes)) >= 8
  <2>1. Len(Overlay(b, bytes)) \in Nat
    BY <1>4 DEF Cells
  <2> QED
    BY <1>2, <1>4, <2>1
<1> HIDE DEF bytes
<1>10. HoldsRequest(out.b)
  BY <1>6, <1>8, <1>9 DEF HoldsRequest
<1>11. Usable(out, packets)
  BY <1>4, <1>5, <1>6 DEF Usable
<1> QED
  BY <1>2, <1>6, <1>7, <1>10, <1>11 DEF packets, bytes

Converted(done) ==
    /\ ServerReads(done) /\ done.flag = TRUE
    /\ done.c.nonce = client.c.nonce /\ done.c.aad = client.c.aad
    /\ \E m \in Requests(Setup) :
           Begins(Seen(done), m) /\ (NoMarkerIn(client.c.piv) => m = client.asked)
    /\ NoMarkerIn(client.c.piv)
       => done.r = "OscoreNoError" /\ Seen(done) = Encode(client.asked)

\* The server is handed the request, or, when the PIV has a marker, left
\* with an earlier one.
LEMMA ProtectedOpened ==
    ASSUME setup \in DOMAIN Setups, Ordinary(Setup), SamplesInv,
           client.round > 0, Secure(client.round)
    PROVE  Converted(LinuxOpen(RequestPacket))
<1> DEFINE m == client.asked
           rx == Room(server.rx)
           d == server.c
           c1 == client.c
           flag == server.flag
           done == LinuxOpen(RequestPacket)
<1>1. PICK n \in Nat : AskedAs(n)
  BY AskedProtected
<1> DEFINE piv == sender_seq_num2piv(n)
           d1 == ServerContextUpdate(d, piv, TheIdContext)
<1>2. /\ Sendable(n) /\ ClientContext(c1, n + 1) /\ c1.piv = piv
      /\ c1.nonce = create_nonce(piv, CommonIV(TheSecret, TheIdContext))
      /\ c1.aad = create_aad(piv) /\ m \in Requests(Setup) /\ client.round = 2 * n + 1
      /\ RequestPacket = SealedDatagram(m, ValueOf(n), c1.sender_key, c1.nonce, c1.aad)
  BY <1>1 DEF AskedAs
<1>3. OrdinaryIds /\ OrdinaryMessage(m) /\ IsRequest(m.code)
  BY <1>2, OrdinarySetup, RequestsAreOrdinary
<1>4. ServerContext(d)
  BY DEF SamplesInv, ServerInv
<1>5. n \in Nat /\ FitsPiv(n)
  BY <1>2 DEF Sendable
<1>6. piv \in PIV
  BY <1>3, <1>5, PivOf
<1>7. /\ ServerContext(d1)
      /\ d1.nonce = create_nonce(piv, CommonIV(TheSecret, TheIdContext))
      /\ d1.aad = create_aad(piv)
  BY <1>4, <1>6, ServerTakes
<1>8. d1.nonce = c1.nonce /\ d1.aad = c1.aad
  BY <1>2, <1>7
<1>9. /\ HasRoom(rx, Len(Encode(m))) /\ rx.b = server.rx.b /\ Usable(rx, AskedPackets(Setup))
      /\ server.rx.b # <<>> => HoldsRequest(rx.b) /\ rx.len >= 8
  BY <1>2, ReceiveRoom
<1>10. done = oscore2coap(RequestPacket, flag, d, rx)
  BY DEF LinuxOpen
<1>11. CASE Survives(Deltas(m.options), ValueOf(n))
  <2> DEFINE out == [b |-> Overlay(rx.b, Encode(m)), len |-> Len(Encode(m))]
  <2>1. oscore2coap(RequestPacket, flag, d, rx) = WriteOpened(AsParsed(m), d1, rx)
    <3> HIDE DEF rx, flag, d, m, c1
    <3>1. /\ OrdinaryIds /\ OrdinaryMessage(m) /\ IsRequest(m.code) /\ Sendable(n)
          /\ Survives(Deltas(m.options), ValueOf(n)) /\ ClientContext(c1, n + 1)
          /\ ServerContext(d)
      BY <1>2, <1>3, <1>4, <1>11
    <3>2. oscore2coap(SealedDatagram(m, ValueOf(n), c1.sender_key, c1.nonce, c1.aad), flag, d, rx)
            = WriteOpened(AsParsed(m), ServerContextUpdate(d, sender_seq_num2piv(n), TheIdContext), rx)
      BY ONLY <3>1, RequestOpened
    <3> QED
      BY <1>2, <3>2
  <2>2. WriteOpened(AsParsed(m), d1, rx)
          = [r |-> "OscoreNoError", flag |-> TRUE, c |-> d1, out |-> out]
    BY <1>3, <1>9, OpenedIsWritten
  <2>3. rx.b \in Cells
    BY <1>9 DEF Usable
  <2>4. /\ Usable(out, AskedPackets(Setup)) /\ HoldsRequest(out.b) /\ out.len >= 8
        /\ Slice(out.b, 1, out.len) = Encode(m)
    BY <1>2, <2>3, WrittenHolds
  <2> HIDE DEF out, d1, rx, flag, d, done
  <2>5. done = [r |-> "OscoreNoError", flag |-> TRUE, c |-> d1, out |-> out]
    BY <1>10, <2>1, <2>2
  <2>6. done.r = "OscoreNoError" /\ done.flag = TRUE /\ done.c = d1 /\ done.out = out
    BY <2>5
  <2> HIDE DEF m
  <2>7. ServerReads(done) /\ Seen(done) = Encode(m)
    BY <1>7, <2>4, <2>6 DEF ServerReads, Seen
  <2>8. Begins(Seen(done), m)
    BY <1>3, <2>7, WholeBegins
  <2>9. Converted(done)
    BY <1>2, <1>8, <2>6, <2>7, <2>8 DEF Converted, m, c1
  <2> QED
    BY <2>9 DEF done
<1>12. CASE ~Survives(Deltas(m.options), ValueOf(n))
  <2>1. ~NoMarkerIn(piv)
    BY <1>2, <1>3, <1>12, UnmarkedSurvives
  <2>2. n # 0
    BY <1>5, <2>1, FirstPivUnmarked
  <2>3. server.rx.b # <<>>
    <3>1. client.round > 1
      BY <1>2, <1>5, <2>2
    <3> QED
      BY <3>1 DEF SamplesInv, ServerInv
  <2>4. HoldsRequest(rx.b) /\ rx.len >= 8
    BY <1>9, <2>3
  <2>5. oscore2coap(RequestPacket, flag, d, rx)
          = [r |-> "OscoreAuthenticationError", flag |-> TRUE, c |-> d1, out |-> rx]
    <3> HIDE DEF rx, flag, d, m, c1
    <3> DEFINE key == c1.sender_key
               nonce == c1.nonce
               aad == c1.aad
    <3> HIDE DEF key, nonce, aad
    <3>1. oscore2coap(SealedDatagram(m, ValueOf(n), key, nonce, aad), flag, d, rx)
            = [r |-> "OscoreAuthenticationError", flag |-> TRUE,
               c |-> ServerContextUpdate(d, sender_seq_num2piv(n), TheIdContext), out |-> rx]
      BY <1>2, <1>3, <1>4, <1>12, RequestNotOpened
    <3> QED
      BY <1>2, <3>1 DEF key, nonce, aad
  <2> HIDE DEF d1, rx, flag, d, done
  <2>6. done = [r |-> "OscoreAuthenticationError", flag |-> TRUE, c |-> d1, out |-> rx]
    BY <1>10, <2>5
  <2>7. done.flag = TRUE /\ done.c = d1 /\ done.out = rx
    BY <2>6
  <2>8. ServerReads(done)
    BY <1>7, <1>9, <2>4, <2>7 DEF ServerReads
  <2>9. PICK x \in Requests(Setup) : \A i \in 1..8 : rx.b[i] = Encode(x)[i]
    BY <2>4 DEF HoldsRequest
  <2>10. Begins(Seen(done), x)
    <3>1. Len(done.out.b) >= 8 /\ \A i \in 1..8 : done.out.b[i] = Encode(x)[i]
      BY <2>4, <2>7, <2>9 DEF HoldsRequest
    <3>2. Usable(done.out, AskedPackets(Setup)) /\ done.out.len >= 8
      BY <2>8 DEF ServerReads
    <3> QED
      BY <3>1, <3>2, SeenBegins
  <2>11. Converted(done)
    BY <1>2, <1>8, <2>1, <2>7, <2>8, <2>10 DEF Converted, c1
  <2> QED
    BY <2>11 DEF done
<1> QED
  BY <1>11, <1>12
\* The protected answer to a request.
LEMMA ReplyMade ==
    ASSUME setup \in DOMAIN Setups, Ordinary(Setup), SamplesInv, NEW d, ServerContext(d),
           NEW m \in Requests(Setup), NEW seen, Begins(seen, m), NEW a \in Setup.answers,
           NEW reply, reply = coap2oscore(Response(seen, Ack, a), d, Room(server.out))
    PROVE  /\ reply.c = d /\ Usable(reply.out, SealedAnswers(Setup))
           /\ Datagram(reply.out)
                = SealedDatagram(AnswerTo(m, a), <<>>, Key(TheSecret, TheIdContext, ServerId),
                                 d.nonce, d.aad)
<1> DEFINE x == AnswerTo(m, a)
           packets == SealedAnswers(Setup)
           packet == SealedPacket(x, <<>>)
           out == Room(server.out)
           made == SealedOut(x, <<>>, d.sender_key, d.nonce, d.aad, out)
<1>1. OrdinaryMessage(m) /\ OrdinaryMessage(x) /\ ~IsRequest(x.code) /\ packet \in packets
  BY OrdinarySetup, RequestsAreOrdinary
<1>2. Usable(server.out, packets) /\ Suits(Setup, packets) /\ BufLen \in Nat
  BY OrdinarySetup DEF SamplesInv, ServerInv
<1>3. HasRoom(out, Len(packet)) /\ out.b = server.out.b
  <2> HIDE DEF packets, packet
  <2> QED
    BY <1>1, <1>2, RoomInBuffer
<1>4. packet \in Seq(Int)
  <2>1. <<>> \in Seq(Nat) /\ Len(<<>>) < 13
    OBVIOUS
  <2> HIDE DEF x
  <2> QED
    BY <1>1, <2>1, SealedTyped
<1>5. Response(seen, Ack, a) = Encode(x)
  BY <1>1, ResponseIs DEF Begins
<1>6. coap2oscore(Encode(x), d, out) = [r |-> "OscoreNoError", c |-> d, out |-> made]
  <2> HIDE DEF x, out
  <2> QED
    BY <1>1, <1>3, AnswerSent
<1>7. reply = [r |-> "OscoreNoError", c |-> d, out |-> made]
  BY <1>5, <1>6
<1> HIDE DEF made
<1>8. reply.c = d /\ reply.out = made
  BY <1>7
<1>9. server.out.b \in Cells /\ out.b \in Seq(Int)
  BY <1>2, <1>3 DEF Usable, Cells
<1> HIDE DEF packet, packets, out
<1>10. /\ made.b = Overlay(out.b, packet) /\ made.len = Len(packet)
       /\ {"b", "len"} \subseteq DOMAIN made
  BY DEF made, SealedOut, packet
<1>11. Overlay(out.b, packet) \in Cells
  BY <1>4, <1>9, OverlayCells DEF Cells
<1>12. Roomy(Len(packet), packets)
  <2>1. Len(packet) \in Nat
    BY <1>4
  <2> QED
    BY <1>1, <1>2, <2>1, RoomyAfter
<1>13. Usable(made, packets)
  BY <1>10, <1>11, <1>12 DEF Usable
<1>14. Datagram(made) = SealedDatagram(x, <<>>, d.sender_key, d.nonce, d.aad)
  <2> HIDE DEF x
  <2> DEFINE key == d.sender_key
             nonce == d.nonce
             aad == d.aad
  <2> HIDE DEF key, nonce, aad
  <2>1. Datagram(SealedOut(x, <<>>, key, nonce, aad, out)) = SealedDatagram(x, <<>>, key, nonce, aad)
    BY <1>4, <1>9, DatagramOfSealed DEF packet
  <2> QED
    BY <2>1 DEF made, key, nonce, aad
<1>15. d.sender_key = Key(TheSecret, TheIdContext, ServerId)
  BY DEF ServerContext
<1> QED
  BY <1>8, <1>13, <1>14, <1>15 DEF packets

\* The server after it has answered.
ServerAnswered ==
    /\ DOMAIN server' = {"c", "out", "rx", "flag"} /\ ServerContext(server'.c)
    /\ Usable(server'.out, SealedAnswers(Setup)) /\ Usable(server'.rx, AskedPackets(Setup))
    /\ HoldsRequest(server'.rx.b) /\ server'.rx.len >= 8

LEMMA ServerStep ==
    ASSUME setup \in DOMAIN Setups, Ordinary(Setup), SamplesInv, NEW p, NEW a \in Setup.answers,
           NEW done, ServerReads(done), LinuxAnswer(p, a, done, done.flag)
    PROVE  ServerAnswered
<1> DEFINE seen == Seen(done)
           reply == coap2oscore(Response(seen, Ack, a), done.c, Room(server.out))
           next == [server EXCEPT !.c = done.c, !.rx = done.out, !.flag = done.flag]
<1>1. /\ ServerContext(done.c) /\ Usable(done.out, AskedPackets(Setup))
      /\ HoldsRequest(done.out.b) /\ done.out.len >= 8
  BY DEF ServerReads
<1>2. DOMAIN server = {"c", "out", "rx", "flag"} /\ Usable(server.out, SealedAnswers(Setup))
  BY DEF SamplesInv, ServerInv
<1>3. CASE done.flag
  <2>1. PICK m \in Requests(Setup) : \A i \in 1..8 : done.out.b[i] = Encode(m)[i]
    BY <1>1 DEF HoldsRequest
  <2>2. Begins(seen, m)
    BY <1>1, <2>1, SeenBegins DEF HoldsRequest
  <2>3. reply.c = done.c /\ Usable(reply.out, SealedAnswers(Setup))
    <3> HIDE DEF seen
    <3> QED
      BY <1>1, <2>2, ReplyMade
  <2>4. server' = [next EXCEPT !.c = reply.c, !.out = reply.out]
    BY <1>3 DEF LinuxAnswer, Seen
  <2> HIDE DEF reply
  <2>5. /\ DOMAIN server' = {"c", "out", "rx", "flag"} /\ server'.c = reply.c
        /\ server'.out = reply.out /\ server'.rx = done.out
    BY <1>2, <2>4
  <2> QED
    BY <1>1, <2>3, <2>5 DEF ServerAnswered
<1>4. CASE ~done.flag
  <2>1. server' = next
    BY <1>4 DEF LinuxAnswer
  <2>2. /\ DOMAIN server' = {"c", "out", "rx", "flag"} /\ server'.c = done.c
        /\ server'.out = server.out /\ server'.rx = done.out
    BY <1>2, <2>1
  <2> QED
    BY <1>1, <1>2, <2>2 DEF ServerAnswered
<1> QED
  BY <1>3, <1>4
\* A packet from which nothing is taken leaves the request that was there.
LEMMA OtherRead ==
    ASSUME setup \in DOMAIN Setups, Ordinary(Setup), SamplesInv, server.rx.b # <<>>,
           NEW done, done.c = server.c, done.out = Room(server.rx)
    PROVE  ServerReads(done)
<1>1. HoldsRequest(server.rx.b) /\ ServerContext(server.c)
  BY DEF SamplesInv, ServerInv
<1>2. PICK m \in Requests(Setup) : TRUE
  BY <1>1 DEF HoldsRequest
<1>3. /\ Usable(Room(server.rx), AskedPackets(Setup))
      /\ HoldsRequest(Room(server.rx).b) /\ Room(server.rx).len >= 8
  BY <1>2, ReceiveRoom
<1> QED
  BY <1>1, <1>3 DEF ServerReads

LEMMA PlainServed ==
    ASSUME setup \in DOMAIN Setups, Ordinary(Setup), SamplesInv,
           client.round > 0, ~Secure(client.round)
    PROVE  LET done == LinuxOpen(RequestPacket)
           IN  /\ done.flag = FALSE /\ ServerReads(done) /\ server.rx.b # <<>>
               /\ OrdinaryMessage(client.asked)
<1> DEFINE done == LinuxOpen(RequestPacket)
           m == client.asked
<1>1. client.round \in Nat /\ client.round > 1
  <2>1. client.round \in 0..Setup.rounds /\ Setup.rounds \in Nat
    BY OrdinarySetup DEF SamplesInv, ClientInv
  <2>2. Secure(1)
    BY DEF Secure
  <2>3. client.round # 1
    BY <2>2
  <2> QED
    BY <2>1, <2>3
<1>2. server.rx.b # <<>>
  BY <1>1 DEF SamplesInv, ServerInv
<1>3. PICK q \in Setup.plain : m = Request(q, client.round)
  BY <1>1 DEF SamplesInv, AskedInv
<1>4. OrdinaryContent(q)
  BY DEF Ordinary
<1>5. OrdinaryMessage(m)
  <2> DEFINE round == client.round
  <2> HIDE DEF round
  <2>1. round \in Nat /\ round > 0 /\ m = Request(q, round)
    BY <1>1, <1>3 DEF round
  <2> HIDE DEF m
  <2> QED
    BY <1>4, <2>1, RequestIsOrdinary
<1> DEFINE rx == Room(server.rx)
<1>6. RequestPacket = [bytes |-> Encode(m), seal |-> Unset]
  BY DEF RequestPacket
<1>7. done = [r |-> "OscoreNoError", flag |-> FALSE, c |-> server.c, out |-> rx]
  <2> HIDE DEF rx, m
  <2>1. oscore2coap([bytes |-> Encode(m), seal |-> Unset], server.flag, server.c, rx)
          = [r |-> "OscoreNoError", flag |-> FALSE, c |-> server.c, out |-> rx]
    BY <1>5, PlainOpened
  <2> QED
    BY <1>6, <2>1 DEF LinuxOpen, rx
<1> HIDE DEF done
<1>8. done.flag = FALSE /\ done.c = server.c /\ done.out = Room(server.rx)
  BY <1>7
<1>9. ServerReads(done)
  BY <1>2, <1>8, OtherRead
<1> QED
  BY <1>2, <1>5, <1>8, <1>9 DEF done

\* A packet of somebody else, or the client's own that they repeat.
LEMMA StrayServed ==
    ASSUME setup \in DOMAIN Setups, Ordinary(Setup), SamplesInv,
           NEW p \in toServer, p \in Strays
    PROVE  ServerReads(LinuxOpen(p))
<1> DEFINE done == LinuxOpen(p)
<1>1. CASE server.rx.b # <<>>
  <2>1. NotForServer(p)
    BY DEF Ordinary
  <2>2. server.c.recipient_key.id = ClientId
    BY DEF SamplesInv, ServerInv, ServerContext, Key
  <2>3. done = oscore2coap(p, server.flag, server.c, Room(server.rx))
    BY DEF LinuxOpen
  <2> DEFINE d == server.c
             rx == Room(server.rx)
             flag == server.flag
  <2> HIDE DEF done, d, rx, flag
  <2>4. d.recipient_key.id = ClientId /\ done = oscore2coap(p, flag, d, rx)
    BY <2>2, <2>3 DEF d, rx, flag
  <2>5. done.c = d /\ done.out = rx
    BY <2>1, <2>4, NothingTaken
  <2>6. ServerReads(done)
    BY <1>1, <2>5, OtherRead DEF d, rx
  <2> QED
    BY <2>6 DEF done
<1>2. CASE server.rx.b = <<>>
  <2>1. client.waits /\ p = RequestPacket
    BY <1>2 DEF SamplesInv, NetworkInv
  <2>2. client.round = 1
    BY <1>2, <2>1 DEF SamplesInv, ServerInv, AskedInv
  <2>3. client.round > 0 /\ Secure(client.round)
    BY <2>2 DEF Secure
  <2>4. Converted(LinuxOpen(RequestPacket))
    BY <2>3, ProtectedOpened
  <2> QED
    BY <2>1, <2>4 DEF Converted
<1> QED
  BY <1>1, <1>2
-----------------------------------------------------------------------------
\* The steps keep the invariant.

SameSetup == setup' = setup /\ Setup' = Setup

\* What the server sends to the client: one answer, and what it has served.
LEMMA AnswerOnItsWay ==
    ASSUME setup \in DOMAIN Setups, Ordinary(Setup), SamplesInv,
           NEW p \in toServer, p \notin Strays, NEW a \in Setup.answers,
           NEW done, done = LinuxOpen(p), LinuxAnswer(p, a, done, done.flag)
    PROVE  /\ ServerReads(done) /\ server'.rx.b # <<>>
           /\ client.waits /\ toServer' = toServer \ {p}
           /\ \E x : IsAnswer(x) /\ toClient' = {x}
           /\ served'.asked = client.asked
           /\ Secure(client.round) /\ NoMarkerIn(client.c.piv)
              => served'.r = "OscoreNoError" /\ served'.seen = Encode(client.asked)
<1>1. p = RequestPacket /\ client.waits /\ toClient = {}
  BY DEF SamplesInv, NetworkInv
<1>2. client.round > 0
  <2>1. client.round \in Nat /\ client.round # 0
    BY <1>1, OrdinarySetup DEF SamplesInv, AskedInv, ClientInv
  <2> QED
    BY <2>1
<1>3. FromClient(p)
  BY DEF FromClient
<1>4. CASE Secure(client.round)
  <2>1. Converted(done)
    BY <1>1, <1>2, <1>4, ProtectedOpened
  <2>2. done.flag = TRUE /\ ServerReads(done)
    BY <2>1 DEF Converted
  <2>3. PICK m \in Requests(Setup) :
            Begins(Seen(done), m) /\ (NoMarkerIn(client.c.piv) => m = client.asked)
    BY <2>1 DEF Converted
  <2> DEFINE reply == coap2oscore(Response(Seen(done), Ack, a), done.c, Room(server.out))
             x == Datagram(reply.out)
  <2>4. SendTo(p, {x}) /\ Serve(p, done, Seen(done))
    BY <2>2 DEF LinuxAnswer, Seen
  <2>5. x = SealedDatagram(AnswerTo(m, a), <<>>, Key(TheSecret, TheIdContext, ServerId),
                           done.c.nonce, done.c.aad)
    <3>1. ServerContext(done.c)
      BY <2>2 DEF ServerReads
    <3> QED
      BY <2>3, <3>1, ReplyMade
  <2> HIDE DEF x
  <2>6. done.c.nonce = client.c.nonce /\ done.c.aad = client.c.aad
    BY <2>1 DEF Converted
  <2>7. IsAnswer(x)
    BY <1>4, <2>3, <2>5, <2>6 DEF IsAnswer
  <2>8. toServer' = toServer \ {p} /\ toClient' = {x}
    BY <1>1, <1>3, <2>4 DEF SendTo
  <2>9. served' = [asked |-> client.asked, secure |-> Secure(client.round),
                   r |-> done.r, seen |-> Seen(done)]
    BY <1>3, <2>4 DEF Serve
  <2>10. served'.asked = client.asked /\ served'.r = done.r /\ served'.seen = Seen(done)
    BY <2>9
  <2>11. NoMarkerIn(client.c.piv) => done.r = "OscoreNoError" /\ Seen(done) = Encode(client.asked)
    BY <2>1 DEF Converted
  <2>12. ServerAnswered
    BY <2>2, ServerStep
  <2>13. server'.rx.b # <<>>
    BY <2>12 DEF ServerAnswered, HoldsRequest
  <2> QED
    BY <1>1, <2>2, <2>7, <2>8, <2>10, <2>11, <2>13
<1>5. CASE ~Secure(client.round)
  <2>1. done.flag = FALSE /\ ServerReads(done) /\ OrdinaryMessage(client.asked)
    BY <1>1, <1>2, <1>5, PlainServed
  <2>2. p.bytes = Encode(client.asked)
    BY <1>1, <1>5 DEF RequestPacket
  <2> DEFINE x == [bytes |-> Response(p.bytes, Ack, a), seal |-> Unset]
  <2>3. SendTo(p, {x}) /\ Serve(p, done, p.bytes)
    BY <2>1 DEF LinuxAnswer
  <2>4. Begins(Encode(client.asked), client.asked)
    BY <2>1, WholeBegins
  <2>5. Response(p.bytes, Ack, a) = Encode(AnswerTo(client.asked, a))
    BY <2>1, <2>2, <2>4, ResponseIs DEF Begins
  <2>6. IsAnswer(x)
    BY <1>5, <2>5 DEF IsAnswer
  <2> HIDE DEF x
  <2>7. toServer' = toServer \ {p} /\ toClient' = {x}
    BY <1>1, <1>3, <2>3 DEF SendTo
  <2>8. served' = [asked |-> client.asked, secure |-> Secure(client.round),
                   r |-> done.r, seen |-> p.bytes]
    BY <1>3, <2>3 DEF Serve
  <2>9. served'.asked = client.asked
    BY <2>8
  <2>10. ServerAnswered
    BY <2>1, ServerStep
  <2>11. server'.rx.b # <<>>
    BY <2>10 DEF ServerAnswered, HoldsRequest
  <2> QED
    BY <1>1, <1>5, <2>1, <2>6, <2>7, <2>9, <2>11
<1> QED
  BY <1>4, <1>5

LEMMA ClientKept ==
    ASSUME ClientInv, SameSetup, client' = client
    PROVE  ClientInv'
BY DEF ClientInv, SameSetup, Usable, Roomy

LEMMA ServerKept ==
    ASSUME ServerAnswered, SameSetup
    PROVE  ServerInv' /\ server'.rx.b # <<>>
<1>1. server'.rx.b # <<>>
  BY DEF ServerAnswered, HoldsRequest
<1> QED
  BY <1>1 DEF ServerInv, ServerAnswered, SameSetup, Usable, Roomy, HoldsRequest

LEMMA LinuxStep ==
    ASSUME setup \in DOMAIN Setups, Ordinary(Setup), SamplesInv,
           NEW p \in toServer, NEW a \in Setup.answers, LinuxReceive(p, a)
    PROVE  SamplesInv'
<1>1. SameSetup /\ client' = client /\ strays' = strays
  BY DEF LinuxReceive, SameSetup, Setup
<1> DEFINE done == LinuxOpen(p)
<1>2. LinuxAnswer(p, a, done, done.flag)
  BY DEF LinuxReceive
<1> HIDE DEF done
<1>3. ClientInv'
  BY <1>1, ClientKept DEF SamplesInv
<1>4. HandedInv'
  BY <1>1 DEF SamplesInv, HandedInv, SameSetup
<1>5. CASE p \in Strays
  <2>1. ServerReads(done)
    BY <1>5, StrayServed DEF done
  <2>2. ServerInv' /\ server'.rx.b # <<>>
    BY <1>1, <1>2, <2>1, ServerStep, ServerKept
  <2>3. toServer' = toServer \ {p} /\ toClient' = toClient /\ served' = served
    BY <1>2, <1>5 DEF LinuxAnswer, SendTo, Serve, FromClient
  <2>4. AskedInv'
    BY <1>1, <2>3 DEF SamplesInv, AskedInv, SameSetup
  <2>5. NetworkInv'
    <3>1. \A x : IsAnswer(x) => IsAnswer(x)'
      BY <1>1 DEF IsAnswer, SameSetup
    <3>2. RequestPacket' = RequestPacket
      BY <1>1 DEF RequestPacket
    <3> QED
      BY <1>1, <2>2, <2>3, <3>1, <3>2 DEF SamplesInv, NetworkInv, SameSetup
  <2> QED
    BY <1>3, <1>4, <2>2, <2>4, <2>5 DEF SamplesInv
<1>6. CASE p \notin Strays
  <2>1. /\ ServerReads(done) /\ client.waits /\ toServer' = toServer \ {p}
        /\ \E x : IsAnswer(x) /\ toClient' = {x}
        /\ served'.asked = client.asked
        /\ Secure(client.round) /\ NoMarkerIn(client.c.piv)
           => served'.r = "OscoreNoError" /\ served'.seen = Encode(client.asked)
    BY <1>2, <1>6, AnswerOnItsWay DEF done
  <2>2. ServerInv' /\ server'.rx.b # <<>>
    BY <1>1, <1>2, <2>1, ServerStep, ServerKept
  <2>3. AskedInv'
    BY <1>1, <2>1 DEF SamplesInv, AskedInv, SameSetup
  <2>4. NetworkInv'
    <3>1. PICK x : IsAnswer(x) /\ toClient' = {x}
      BY <2>1
    <3>2. IsAnswer(x)'
      BY <1>1, <3>1 DEF IsAnswer, SameSetup
    <3>3. \A y \in toServer : y \notin Strays => y = p
      BY <1>6 DEF SamplesInv, NetworkInv
    <3>4. \A y \in toServer' : y \in Strays
      BY <2>1, <3>3
    <3>5. strays' \in 0..Setup'.strays
      BY <1>1 DEF SamplesInv, NetworkInv, SameSetup
    <3>6. client'.waits /\ served'.asked = client'.asked
      BY <1>1, <2>1
    <3> QED
      BY <2>2, <3>1, <3>2, <3>4, <3>5, <3>6 DEF NetworkInv
  <2> QED
    BY <1>3, <1>4, <2>2, <2>3, <2>4 DEF SamplesInv
<1> QED
  BY <1>5, <1>6
\* The next request is a new one.
LEMMA NewlyAsked ==
    ASSUME setup \in DOMAIN Setups, Ordinary(Setup), SamplesInv, ~client.waits,
           NEW q, NEW m, m = Request(q, client.round + 1)
    PROVE  served.asked # m
<1> DEFINE round == client.round
<1>1. round \in Nat /\ served.asked = client.asked
  BY OrdinarySetup DEF SamplesInv, ClientInv, AskedInv
<1>2. \/ round = 0 /\ client.asked = <<>>
      \/ \E x : client.asked = Request(x, round)
  BY <1>1 DEF SamplesInv, AskedInv
<1> HIDE DEF round
<1>3. round + 1 \in Nat /\ round # round + 1
  BY <1>1
<1>4. m = Request(q, round + 1)
  BY DEF round
<1>5. CASE client.asked = <<>>
  <2>1. Request(q, round + 1) # <<>>
    BY <1>1, <1>3, RequestsDiffer
  <2> QED
    BY <1>1, <1>4, <1>5, <2>1
<1>6. CASE \E x : client.asked = Request(x, round)
  <2>1. PICK x : client.asked = Request(x, round)
    BY <1>6
  <2>2. Request(x, round) # Request(q, round + 1)
    BY <1>1, <1>3, RequestsDiffer
  <2> QED
    BY <1>1, <1>4, <2>1, <2>2
<1> QED
  BY <1>2, <1>5, <1>6

\* The parts of the invariant that are the same for both kinds of request.
LEMMA RequestOnItsWay ==
    ASSUME setup \in DOMAIN Setups, Ordinary(Setup), SamplesInv, ~client.waits, SameSetup,
           UNCHANGED <<server, toClient, served, strays>>,
           client'.round = client.round + 1, client'.waits = TRUE,
           client'.round > 1 \/ client.round = 0,
           IF Secure(client'.round)
           THEN \E q \in Setup.secure : client'.asked = Request(q, client'.round)
           ELSE \E q \in Setup.plain : client'.asked = Request(q, client'.round),
           toServer' = toServer \cup {RequestPacket'}
    PROVE  AskedInv' /\ HandedInv' /\ ServerInv' /\ NetworkInv'
<1>1. client.round \in Nat
  BY OrdinarySetup DEF SamplesInv, ClientInv
<1>2. client'.round # 0
  BY <1>1
<1>3. served.asked # client'.asked
  <2>1. PICK q : client'.asked = Request(q, client'.round)
    OBVIOUS
  <2> QED
    BY <2>1, NewlyAsked
<1>4. AskedInv'
  BY <1>2, <1>3 DEF AskedInv, SameSetup
<1>5. HandedInv'
  BY DEF HandedInv
<1>6. ServerInv'
  <2>1. server.rx.b = <<>> => client.round = 0
    BY DEF SamplesInv, ServerInv
  <2>2. client.round = 0 => client'.round = 1
    OBVIOUS
  <2> QED
    BY <2>1, <2>2 DEF SamplesInv, ServerInv, SameSetup, Usable, Roomy, HoldsRequest
<1>7. toClient = {}
  BY DEF SamplesInv, NetworkInv
<1>8. \A p \in toServer : p \in Strays /\ server.rx.b # <<>>
  BY DEF SamplesInv, NetworkInv
<1>9. NetworkInv'
  <2>1. strays' \in 0..Setup'.strays
    BY DEF SamplesInv, NetworkInv, SameSetup
  <2>2. \A p \in toServer' : p = RequestPacket' \/ (p \in Strays /\ server'.rx.b # <<>>)
    BY <1>8
  <2>3. client'.waits /\ toClient' = {} /\ served'.asked # client'.asked
    BY <1>3, <1>7
  <2> QED
    BY <2>1, <2>2, <2>3 DEF NetworkInv
<1> QED
  BY <1>4, <1>5, <1>6, <1>9

LEMMA SendSecureStep ==
    ASSUME setup \in DOMAIN Setups, Ordinary(Setup), SamplesInv,
           NEW q \in Setup.secure, SendSecure(q)
    PROVE  SamplesInv'
<1> DEFINE round == client.round + 1
           m == Request(q, round)
           packets == SealedRequests(Setup)
           out == Room(client.out)
           done == coap2oscore(Encode(m), client.c, out)
<1>1. /\ ~client.waits /\ round <= Setup.rounds /\ Secure(round)
      /\ client' = [client EXCEPT !.round = round, !.waits = TRUE, !.asked = m,
                                  !.c = done.c, !.out = done.out]
      /\ toServer' = toServer \cup {Datagram(done.out)}
      /\ UNCHANGED <<setup, server, toClient, served, strays>>
  BY DEF SendSecure
<1>2. SameSetup
  BY <1>1 DEF SameSetup, Setup
<1>3. /\ client.round \in Nat /\ Setup.rounds \in Nat /\ ClientContext(client.c, round \div 2)
      /\ DOMAIN client = {"round", "waits", "asked", "got", "r", "c", "out", "rx", "flag"}
      /\ Usable(client.out, packets) /\ Usable(client.rx, AnswerPackets(Setup))
  BY OrdinarySetup DEF SamplesInv, ClientInv
<1>4. PICK n \in Nat : /\ round = 2 * n + 1 /\ (round + 1) \div 2 = n + 1 /\ round \div 2 = n
                       /\ n <= round
  <2>1. round \in Nat /\ Secure(round)
    BY <1>1, <1>3
  <2> HIDE DEF round
  <2> QED
    BY <2>1, NumberOfRound
<1>5. 2 * n + 1 <= Setup.rounds
  BY <1>1, <1>4
<1> DEFINE piv == sender_seq_num2piv(n)
           value == ValueOf(n)
           packet == SealedPacket(m, value)
           c1 == RequestContext(client.c, piv)
           made == SealedOut(m, value, c1.sender_key, c1.nonce, c1.aad, out)
<1>6. Sendable(n) /\ m \in Requests(Setup) /\ packet \in packets
  <2> DEFINE s == Setup
  <2>1. Ordinary(s) /\ s.rounds \in Nat /\ q \in s.secure /\ 2 * n + 1 <= s.rounds
    BY <1>3, <1>5
  <2> HIDE DEF s
  <2>2. /\ Sendable(n) /\ Request(q, 2 * n + 1) \in Requests(s)
        /\ SealedPacket(Request(q, 2 * n + 1), ValueOf(n)) \in SealedRequests(s)
    BY <2>1, RequestInSetup
  <2> QED
    BY <1>4, <2>2 DEF s
<1>7. /\ OrdinaryIds /\ OrdinaryMessage(m) /\ IsRequest(m.code) /\ Suits(Setup, packets)
      /\ BufLen \in Nat
  BY <1>6, OrdinarySetup, RequestsAreOrdinary
<1>8. value \in Seq(Nat) /\ Len(value) < 13 /\ FitsPiv(n) /\ Len(value) <= OSCORE_OPT_VALUE_LEN
  BY <1>6, <1>7, ValueTyped DEF Sendable
<1>9. ClientContext(client.c, n)
  BY <1>3, <1>4
<1>10. ClientContext(c1, n + 1)
  BY <1>7, <1>8, <1>9, ClientFollows
<1>11. HasRoom(out, Len(packet)) /\ out.b = client.out.b /\ out.b \in Seq(Int)
  <2> HIDE DEF packets, packet
  <2> QED
    BY <1>3, <1>6, <1>7, RoomInBuffer DEF Usable, Cells
<1>12. done = [r |-> "OscoreNoError", c |-> c1, out |-> made]
  <2> DEFINE c == client.c
  <2>1. /\ c \in Contexts /\ c.sender_seq_num = n /\ c.kid_context = TheIdContext
        /\ c.sender_key.id = ClientId
    BY <1>9 DEF ClientContext, Key
  <2>2. value = oscore_option_generate(piv, c.kid_context, c.sender_key.id)
    BY <2>1 DEF ValueOf
  <2>3. FitsPiv(c.sender_seq_num) /\ piv = sender_seq_num2piv(c.sender_seq_num)
    BY <1>8, <2>1
  <2>4. ~(Len(value) > OSCORE_OPT_VALUE_LEN)
    <3>1. Len(value) \in Int /\ OSCORE_OPT_VALUE_LEN \in Int
      BY <1>8, PacketAssumption
    <3> HIDE DEF value
    <3> QED
      BY <1>8, <3>1
  <2>5. c1 = RequestContext(c, piv)
    OBVIOUS
  <2> HIDE DEF c, c1, piv, value, m, out
  <2>6. coap2oscore(Encode(m), c, out)
          = [r |-> "OscoreNoError", c |-> c1,
             out |-> SealedOut(m, value, c1.sender_key, c1.nonce, c1.aad, out)]
    BY ONLY <1>7, <1>8, <1>11, <2>1, <2>2, <2>3, <2>4, <2>5, RequestSent DEF packet
  <2> QED
    BY <2>6 DEF c
<1> HIDE DEF made, c1, done, packet, packets, m, value
<1>13. done.c = c1 /\ done.out = made
  BY <1>12
<1>14. /\ client'.round = round /\ client'.waits = TRUE /\ client'.asked = m
       /\ client'.c = c1 /\ client'.out = made /\ client'.rx = client.rx
       /\ DOMAIN client' = DOMAIN client
  BY <1>1, <1>3, <1>13
<1>15. packet \in Seq(Int)
  BY <1>7, <1>8, SealedTyped DEF packet
<1>16. Usable(made, packets)
  <2>1. /\ made.b = Overlay(out.b, packet) /\ made.len = Len(packet)
        /\ {"b", "len"} \subseteq DOMAIN made
    BY DEF made, SealedOut, packet
  <2>2. Overlay(out.b, packet) \in Cells
    <3> HIDE DEF out
    <3> QED
      BY <1>11, <1>15, OverlayCells DEF Cells
  <2>3. Roomy(Len(packet), packets)
    <3>1. Len(packet) \in Nat
      BY <1>15
    <3> QED
      BY <1>6, <1>7, <3>1, RoomyAfter
  <2> QED
    BY <2>1, <2>2, <2>3 DEF Usable
<1>17. ClientInv'
  <2>1. client'.round \in 0..Setup'.rounds
    BY <1>1, <1>2, <1>3, <1>14 DEF SameSetup
  <2>2. (client'.round + 1) \div 2 = n + 1
    BY <1>4, <1>14
  <2>3. ClientContext(client'.c, (client'.round + 1) \div 2)
    BY <1>10, <1>14, <2>2
  <2> QED
    BY <1>2, <1>3, <1>14, <1>16, <2>1, <2>3 DEF ClientInv, Usable, Roomy, SameSetup, packets
<1>18. RequestPacket' = Datagram(done.out)
  <2>1. Datagram(made) = SealedDatagram(m, value, c1.sender_key, c1.nonce, c1.aad)
    <3> DEFINE key == c1.sender_key
               nonce == c1.nonce
               aad == c1.aad
    <3> HIDE DEF key, nonce, aad, out
    <3>1. Datagram(SealedOut(m, value, key, nonce, aad, out)) = SealedDatagram(m, value, key, nonce, aad)
      BY <1>11, <1>15, DatagramOfSealed DEF packet
    <3> QED
      BY <3>1 DEF made, key, nonce, aad
  <2>2. c1.sender_seq_num - 1 = n
    BY <1>10 DEF ClientContext
  <2>3. RequestPacket' = SealedDatagram(m, ValueOf(n), c1.sender_key, c1.nonce, c1.aad)
    BY <1>1, <1>14, <2>2 DEF RequestPacket
  <2> QED
    BY <1>13, <2>1, <2>3 DEF value
<1>19. AskedInv' /\ HandedInv' /\ ServerInv' /\ NetworkInv'
  <2>1. client'.round > 1 \/ client.round = 0
    BY <1>3, <1>14
  <2>2. Secure(client'.round) /\ \E x \in Setup.secure : client'.asked = Request(x, client'.round)
    BY <1>1, <1>14 DEF m
  <2>3. toServer' = toServer \cup {RequestPacket'}
    BY <1>1, <1>18
  <2>4. /\ ~client.waits /\ UNCHANGED <<server, toClient, served, strays>>
        /\ client'.round = client.round + 1 /\ client'.waits = TRUE
    BY <1>1, <1>14
  <2> HIDE DEF round
  <2> QED
    BY <1>2, <2>1, <2>2, <2>3, <2>4, RequestOnItsWay
<1> QED
  BY <1>17, <1>19 DEF SamplesInv

LEMMA SendPlainStep ==
    ASSUME setup \in DOMAIN Setups, Ordinary(Setup), SamplesInv,
           NEW q \in Setup.plain, SendPlain(q)
    PROVE  SamplesInv'
<1> DEFINE round == client.round + 1
           m == Request(q, round)
<1>1. /\ ~client.waits /\ round <= Setup.rounds /\ ~Secure(round)
      /\ client' = [client EXCEPT !.round = round, !.waits = TRUE, !.asked = m]
      /\ toServer' = toServer \cup {[bytes |-> Encode(m), seal |-> Unset]}
      /\ UNCHANGED <<setup, server, toClient, served, strays>>
  BY DEF SendPlain
<1>2. SameSetup
  BY <1>1 DEF SameSetup, Setup
<1>3. /\ client.round \in Nat /\ Setup.rounds \in Nat /\ ClientContext(client.c, round \div 2)
      /\ DOMAIN client = {"round", "waits", "asked", "got", "r", "c", "out", "rx", "flag"}
      /\ Usable(client.out, SealedRequests(Setup)) /\ Usable(client.rx, AnswerPackets(Setup))
  BY OrdinarySetup DEF SamplesInv, ClientInv
<1> HIDE DEF m
<1>4. /\ client'.round = round /\ client'.waits = TRUE /\ client'.asked = m
      /\ client'.c = client.c /\ client'.out = client.out /\ client'.rx = client.rx
      /\ DOMAIN client' = DOMAIN client
  BY <1>1, <1>3
<1>5. (round + 1) \div 2 = round \div 2
  <2>1. round \in Nat /\ round % 2 # 1
    BY <1>1, <1>3 DEF Secure
  <2> HIDE DEF round
  <2> QED
    BY <2>1
<1>6. ClientInv'
  <2>1. client'.round \in 0..Setup'.rounds
    BY <1>1, <1>2, <1>3, <1>4 DEF SameSetup
  <2>2. ClientContext(client'.c, (client'.round + 1) \div 2)
    BY <1>3, <1>4, <1>5
  <2> QED
    BY <1>2, <1>3, <1>4, <2>1, <2>2 DEF ClientInv, Usable, Roomy, SameSetup
<1>7. RequestPacket' = [bytes |-> Encode(m), seal |-> Unset]
  BY <1>1, <1>4 DEF RequestPacket
<1>8. AskedInv' /\ HandedInv' /\ ServerInv' /\ NetworkInv'
  <2>1. client'.round > 1 \/ client.round = 0
    BY <1>3, <1>4
  <2>2. ~Secure(client'.round) /\ \E x \in Setup.plain : client'.asked = Request(x, client'.round)
    BY <1>1, <1>4 DEF m
  <2>3. toServer' = toServer \cup {RequestPacket'}
    BY <1>1, <1>7
  <2>4. /\ ~client.waits /\ UNCHANGED <<server, toClient, served, strays>>
        /\ client'.round = client.round + 1 /\ client'.waits = TRUE
    BY <1>1, <1>4
  <2> HIDE DEF round
  <2> QED
    BY <1>2, <2>1, <2>2, <2>3, <2>4, RequestOnItsWay
<1> QED
  BY <1>6, <1>8 DEF SamplesInv
LEMMA TakeAnswerStep ==
    ASSUME setup \in DOMAIN Setups, Ordinary(Setup), SamplesInv, NEW p, TakeAnswer(p)
    PROVE  SamplesInv'
<1> DEFINE rx == Room(client.rx)
           packets == AnswerPackets(Setup)
           done == oscore2coap(p, client.flag, client.c, rx)
           round == client.round
<1>1. /\ client.waits /\ p \in toClient /\ toClient' = toClient \ {p}
      /\ UNCHANGED <<setup, server, toServer, served, strays>>
      /\ client' = IF Secure(round)
                   THEN [client EXCEPT !.waits = FALSE, !.c = done.c, !.rx = done.out,
                                       !.flag = done.flag, !.got = done.out, !.r = done.r]
                   ELSE [client EXCEPT !.waits = FALSE, !.r = "plain",
                                       !.got = [b |-> p.bytes, len |-> Len(p.bytes)]]
  BY DEF TakeAnswer
<1>2. SameSetup
  BY <1>1 DEF SameSetup, Setup
<1>3. /\ IsAnswer(p) /\ served.asked = client.asked /\ toClient' = {}
  BY <1>1 DEF SamplesInv, NetworkInv
<1>4. /\ round \in 0..Setup.rounds /\ Setup.rounds \in Nat
      /\ ClientContext(client.c, (round + 1) \div 2)
      /\ DOMAIN client = {"round", "waits", "asked", "got", "r", "c", "out", "rx", "flag"}
      /\ Usable(client.out, SealedRequests(Setup)) /\ Usable(client.rx, packets)
      /\ OrdinaryIds /\ Suits(Setup, packets) /\ BufLen \in Nat
  BY OrdinarySetup DEF SamplesInv, ClientInv
<1>5. round > 0
  <2>1. round # 0
    BY <1>1 DEF SamplesInv, AskedInv
  <2> QED
    BY <1>4, <2>1
<1>6. server.rx.b # <<>>
  BY <1>1 DEF SamplesInv, ServerInv
<1>7. /\ client'.round = round /\ client'.waits = FALSE /\ client'.asked = client.asked
      /\ client'.c.piv = client.c.piv /\ client'.c = client.c /\ client'.out = client.out
      /\ Usable(client'.rx, packets) /\ DOMAIN client' = DOMAIN client
      /\ IF Secure(round)
         THEN /\ client'.flag = TRUE /\ client'.r = "OscoreNoError"
              /\ \E m \in Requests(Setup), a \in Setup.answers :
                     /\ Slice(client'.got.b, 1, client'.got.len) = Encode(AnswerTo(m, a))
                     /\ NoMarkerIn(client.c.piv) => m = client.asked
         ELSE \A i \in 1..client'.got.len : client'.got.b[i] >= 0
  <2>1. CASE Secure(round)
    <3>1. PICK m \in Requests(Setup), a \in Setup.answers :
              /\ p = SealedDatagram(AnswerTo(m, a), <<>>, Key(TheSecret, TheIdContext, ServerId),
                                    client.c.nonce, client.c.aad)
              /\ NoMarkerIn(client.c.piv) => m = client.asked
      BY <1>3, <2>1 DEF IsAnswer
    <3> DEFINE x == AnswerTo(m, a)
               bytes == Encode(x)
               out == [b |-> Overlay(rx.b, bytes), len |-> Len(bytes)]
               key == Key(TheSecret, TheIdContext, ServerId)
               c == client.c
               flag == client.flag
    <3>2. OrdinaryMessage(x) /\ ~IsRequest(x.code) /\ bytes \in packets
      BY OrdinarySetup, RequestsAreOrdinary
    <3>3. c.recipient_key = key
      BY <1>4 DEF ClientContext
    <3>4. HasRoom(rx, Len(bytes)) /\ rx.b = client.rx.b
      <4> HIDE DEF packets, bytes
      <4> QED
        BY <1>4, <3>2, RoomInBuffer
    <3>5. p = SealedDatagram(x, <<>>, key, c.nonce, c.aad)
      BY <3>1
    <3>6. done = oscore2coap(p, flag, c, rx)
      OBVIOUS
    <3> HIDE DEF x, key, c, flag, rx, done, packets
    <3>7. oscore2coap(SealedDatagram(x, <<>>, key, c.nonce, c.aad), flag, c, rx)
            = WriteOpened(AsParsed(x), c, rx)
      BY ONLY <1>4, <3>2, <3>3, AnswerOpened
    <3>8. WriteOpened(AsParsed(x), c, rx)
            = [r |-> "OscoreNoError", flag |-> TRUE, c |-> c, out |-> out]
      BY ONLY <3>2, <3>4, OpenedIsWritten DEF bytes, out
    <3>9. done = [r |-> "OscoreNoError", flag |-> TRUE, c |-> c, out |-> out]
      BY <3>5, <3>6, <3>7, <3>8
    <3>10. bytes \in Seq(Nat) /\ Len(bytes) \in Nat
      BY <3>2, OrdinaryEncoded
    <3> HIDE DEF bytes
    <3>11. bytes \in Seq(Int)
      BY <3>10, CleanAreBytes, MoreCells
    <3>12. rx.b \in Cells /\ rx.b \in Seq(Int)
      BY <1>4, <3>4 DEF Usable, Cells
    <3>13. Overlay(rx.b, bytes) \in Cells /\ Slice(Overlay(rx.b, bytes), 1, Len(bytes)) = bytes
      BY <3>11, <3>12, OverlayCells, WrittenInFront
    <3>14. Roomy(Len(bytes), packets)
      BY <1>4, <3>2, <3>10, RoomyAfter
    <3>15. Usable(out, packets) /\ Slice(out.b, 1, out.len) = bytes
      BY <3>13, <3>14 DEF Usable
    <3> HIDE DEF out
    <3>16. done.r = "OscoreNoError" /\ done.flag = TRUE /\ done.c = c /\ done.out = out
      BY <3>9
    <3>17. client' = [client EXCEPT !.waits = FALSE, !.c = done.c, !.rx = done.out,
                                    !.flag = done.flag, !.got = done.out, !.r = done.r]
      BY <1>1, <2>1
    <3>18. /\ client'.round = round /\ client'.waits = FALSE /\ client'.asked = client.asked
           /\ client'.c = done.c /\ client'.out = client.out /\ client'.rx = done.out
           /\ client'.flag = done.flag /\ client'.got = done.out /\ client'.r = done.r
           /\ DOMAIN client' = DOMAIN client
      BY <1>4, <3>17
    <3>19. client'.c = client.c
      BY <3>16, <3>18 DEF c
    <3>20. Slice(client'.got.b, 1, client'.got.len) = Encode(AnswerTo(m, a))
      BY <3>15, <3>16, <3>18 DEF bytes, x
    <3> QED
      BY <2>1, <3>1, <3>15, <3>16, <3>18, <3>19, <3>20
  <2>2. CASE ~Secure(round)
    <3>1. PICK a \in Setup.answers :
              p = [bytes |-> Encode(AnswerTo(client.asked, a)), seal |-> Unset]
      BY <1>3, <2>2 DEF IsAnswer
    <3>2. OrdinaryMessage(client.asked)
      BY <1>5, <2>2, PlainServed
    <3>3. OrdinaryContent(a)
      BY DEF Ordinary
    <3>4. OrdinaryMessage(AnswerTo(client.asked, a))
      BY <3>2, <3>3, AnswerIsOrdinary
    <3>5. p.bytes \in Seq(Nat)
      BY <3>1, <3>4, OrdinaryEncoded
    <3> DEFINE bytes == p.bytes
    <3>6. \A i \in 1..Len(bytes) : bytes[i] >= 0
      BY <3>5
    <3>7. client' = [client EXCEPT !.waits = FALSE, !.r = "plain",
                                   !.got = [b |-> bytes, len |-> Len(bytes)]]
      BY <1>1, <2>2
    <3> HIDE DEF bytes
    <3>8. /\ client'.round = round /\ client'.waits = FALSE /\ client'.asked = client.asked
          /\ client'.c = client.c /\ client'.out = client.out /\ client'.rx = client.rx
          /\ client'.got.b = bytes /\ client'.got.len = Len(bytes)
          /\ DOMAIN client' = DOMAIN client
      BY <1>4, <3>7
    <3>9. \A i \in 1..client'.got.len : client'.got.b[i] >= 0
      BY <3>6, <3>8
    <3> QED
      BY <1>4, <2>2, <3>8, <3>9
  <2> QED
    BY <2>1, <2>2
<1> HIDE DEF done
<1>8. ClientInv'
  BY <1>2, <1>4, <1>7 DEF ClientInv, SameSetup, Usable, Roomy, packets
<1>9. HandedInv'
  BY <1>2, <1>5, <1>7 DEF HandedInv, SameSetup
<1>10. AskedInv'
  BY <1>1, <1>2, <1>3, <1>5, <1>7 DEF SamplesInv, AskedInv, SameSetup
<1>11. ServerInv'
  BY <1>1, <1>2, <1>6 DEF SamplesInv, ServerInv, SameSetup, Usable, Roomy, HoldsRequest
<1>12. NetworkInv'
  <2>1. \A x \in toServer : x \in Strays
    BY <1>1 DEF SamplesInv, NetworkInv
  <2>2. strays' \in 0..Setup'.strays
    BY <1>1, <1>2 DEF SamplesInv, NetworkInv, SameSetup
  <2> QED
    BY <1>1, <1>3, <1>6, <2>1, <2>2 DEF NetworkInv
<1> QED
  BY <1>8, <1>9, <1>10, <1>11, <1>12 DEF SamplesInv

LEMMA StrayStep ==
    ASSUME setup \in DOMAIN Setups, Ordinary(Setup), SamplesInv, NEW p \in Strays, Stray(p)
    PROVE  SamplesInv'
<1>1. /\ strays < Setup.strays /\ server.rx.b # <<>>
      /\ toServer' = toServer \cup {p} /\ strays' = strays + 1
      /\ UNCHANGED <<setup, client, server, toClient, served>>
  BY DEF Stray
<1>2. SameSetup /\ client' = client /\ server' = server
  BY <1>1 DEF SameSetup, Setup
<1>3. ClientInv'
  BY <1>2, ClientKept DEF SamplesInv
<1>4. AskedInv' /\ HandedInv'
  BY <1>1, <1>2 DEF SamplesInv, AskedInv, HandedInv, SameSetup
<1>5. ServerInv'
  BY <1>1, <1>2 DEF SamplesInv, ServerInv, SameSetup, Usable, Roomy, HoldsRequest
<1>6. NetworkInv'
  <2>1. strays' \in 0..Setup'.strays
    BY <1>1, <1>2, OrdinarySetup DEF SamplesInv, NetworkInv, SameSetup
  <2>2. RequestPacket' = RequestPacket
    BY <1>2 DEF RequestPacket
  <2>3. \A x : IsAnswer(x) => IsAnswer(x)'
    BY <1>2 DEF IsAnswer, SameSetup
  <2> QED
    BY <1>1, <1>2, <2>1, <2>2, <2>3 DEF SamplesInv, NetworkInv
<1> QED
  BY <1>3, <1>4, <1>5, <1>6 DEF SamplesInv

LEMMA SamplesStart ==
    ASSUME Init, Ordinary(Setup)
    PROVE  SamplesInv
<1> DEFINE c0 == ContextInit(ClientId, TheSecret, TheIdContext)
           d0 == ContextInit(ServerId, TheSecret, TheIdContext)
<1>1. setup \in DOMAIN Setups
  BY DEF Init
<1>2. /\ OrdinaryIds /\ BufLen \in Nat /\ Setup.rounds \in Nat /\ Setup.strays \in Nat
      /\ Suits(Setup, SealedRequests(Setup)) /\ Suits(Setup, SealedAnswers(Setup))
  BY <1>1, OrdinarySetup
<1>3. ClientContext(c0, 0) /\ ServerContext(d0)
  BY <1>2, TheyStart
<1> HIDE DEF c0, d0
<1>4. /\ client = [round |-> 0, waits |-> FALSE, asked |-> <<>>, got |-> Nothing, r |-> "none",
                   c |-> c0, out |-> EmptyOut, rx |-> Nothing, flag |-> FALSE]
      /\ server = [c |-> d0, out |-> EmptyOut, rx |-> Nothing, flag |-> FALSE]
      /\ toServer = {} /\ toClient = {} /\ strays = 0
      /\ served = [asked |-> <<>>, secure |-> FALSE, r |-> "none", seen |-> <<>>]
  BY DEF Init, c0, d0
<1>5. \A packets : Usable(Nothing, packets)
  BY DEF Usable, Roomy, Nothing, Cells
<1>6. \A packets : Suits(Setup, packets) => Usable(EmptyOut, packets)
  BY <1>2 DEF Usable, Roomy, EmptyOut, Cells, Suits
<1>7. /\ client.round = 0 /\ client.waits = FALSE /\ client.asked = <<>> /\ client.c = c0
      /\ client.out = EmptyOut /\ client.rx = Nothing
      /\ DOMAIN client = {"round", "waits", "asked", "got", "r", "c", "out", "rx", "flag"}
  BY <1>4
<1>8. /\ server.c = d0 /\ server.out = EmptyOut /\ server.rx = Nothing /\ server.flag = FALSE
      /\ DOMAIN server = {"c", "out", "rx", "flag"}
  BY <1>4
<1>9. ClientInv
  <2>1. (0 + 1) \div 2 = 0 /\ 0 \in 0..Setup.rounds
    BY <1>2
  <2> QED
    BY <1>2, <1>3, <1>5, <1>6, <1>7, <2>1 DEF ClientInv
<1>10. AskedInv
  BY <1>4, <1>7 DEF AskedInv
<1>11. HandedInv
  BY <1>7 DEF HandedInv
<1>12. ServerInv
  BY <1>2, <1>3, <1>4, <1>5, <1>6, <1>7, <1>8 DEF ServerInv, Nothing
<1>13. NetworkInv
  BY <1>2, <1>4 DEF NetworkInv
<1> QED
  BY <1>9, <1>10, <1>11, <1>12, <1>13 DEF SamplesInv
-----------------------------------------------------------------------------
\* What can be seen of a protected request.

\* g[i] holds, of the first i options, those with one of the numbers.
Chooses(g, options, numbers) ==
    /\ Len(options) \in Nat /\ g = [i \in 0..Len(options) |-> g[i]] /\ g[0] = <<>>
    /\ \A i \in 1..Len(options) :
           g[i] = IF options[i].number \in numbers THEN Append(g[i - 1], options[i])
                  ELSE g[i - 1]

LEMMA WithNumbersIs ==
    ASSUME NEW options, NEW numbers, NEW g, Chooses(g, options, numbers)
    PROVE  WithNumbers(options, numbers) = g[Len(options)]
<1> DEFINE n == Len(options)
           Step(f, i) == IF options[i].number \in numbers THEN Append(f, options[i]) ELSE f
           x == CHOOSE f : f = [i \in 0..n |-> IF i = 0 THEN <<>> ELSE Step(f[i - 1], i)]
<1>1. WithNumbers(options, numbers) = x[n]
  BY DEF WithNumbers
<1>2. n \in Nat /\ g = [i \in 0..n |-> g[i]] /\ g[0] = <<>>
      /\ \A i \in 1..n : g[i] = Step(g[i - 1], i)
  BY DEF Chooses
<1> HIDE DEF Step, n
<1>3. g = [i \in 0..n |-> IF i = 0 THEN <<>> ELSE Step(g[i - 1], i)]
  <2>1. \A i \in 0..n : g[i] = IF i = 0 THEN <<>> ELSE Step(g[i - 1], i)
    <3> TAKE i \in 0..n
    <3>1. i = 0 \/ (i # 0 /\ i \in 1..n)
      BY <1>2
    <3> QED
      BY <1>2, <3>1
  <2> QED
    BY <1>2, <2>1
<1>4. x = [i \in 0..n |-> IF i = 0 THEN <<>> ELSE Step(x[i - 1], i)]
  BY <1>3
<1> HIDE DEF x
<1>5. x[0] = <<>> /\ \A i \in 1..n : x[i] = Step(x[i - 1], i)
  <2>1. ASSUME NEW i \in 1..n PROVE x[i] = Step(x[i - 1], i)
    <3>1. i \in 0..n /\ i # 0
      BY <1>2
    <3> QED
      BY <1>4, <3>1
  <2>2. 0 \in 0..n
    BY <1>2
  <2>3. x[0] = <<>>
    BY <1>4, <2>2
  <2> QED
    BY <2>1, <2>3
<1> DEFINE S == {i \in Nat : i <= n => x[i] = g[i]}
<1>6. 0 \in S
  BY <1>2, <1>5
<1>7. ASSUME NEW i \in Nat, i \in S PROVE i + 1 \in S
  <2> SUFFICES ASSUME i + 1 <= n PROVE x[i + 1] = g[i + 1]
    OBVIOUS
  <2>1. PICK k \in 1..n : k = i + 1 /\ k - 1 = i
    BY <1>2
  <2>2. x[i] = g[i]
    BY <1>2, <1>7
  <2>3. x[k] = Step(x[k - 1], k) /\ g[k] = Step(g[k - 1], k)
    BY <1>2, <1>5
  <2>4. x[k - 1] = g[k - 1]
    BY <2>1, <2>2
  <2>5. x[k] = g[k]
    BY ONLY <2>3, <2>4, Zenon
  <2> QED
    BY <2>1, <2>5
<1> HIDE DEF S
<1>8. Nat \subseteq S
  BY <1>6, <1>7, Induction
<1>9. x[n] = g[n]
  <2>1. n \in Nat /\ n <= n
    BY <1>2
  <2> QED
    BY ONLY <1>8, <2>1 DEF S
<1> QED
  BY <1>1, <1>9 DEF n

LEMMA VisibleOptions ==
    ASSUME NEW options, OrdinaryOptions(options), NEW value
    PROVE  WithNumbers(options, {n \in ClassU : n < OSCORE})
               \o <<[number |-> OSCORE, value |-> value]>>
               \o WithNumbers(options, {n \in ClassU : n > OSCORE})
             = OuterList(options, value) \o <<>>
<1> DEFINE n == Len(options)
           d == Deltas(options)
           g == OuterParts(d)
           early == {k \in ClassU : k < OSCORE}
           late == {k \in ClassU : k > OSCORE}
           none == [i \in 0..n |-> <<>>]
<1>1. n \in Nat /\ Len(d) = n /\ Mergeable(d) /\ ShortOptions(options)
  BY OrdinaryDeltas DEF OrdinaryOptions
<1>2. Collects(g, n, OuterIndexes(d), Kept(d))
  BY <1>1, ExtractedCollects DEF Mergeable
<1>3. ASSUME NEW i \in 1..n
      PROVE  /\ Kept(d)[i] = options[i]
             /\ i \in OuterIndexes(d) <=> options[i].number \in early
             /\ options[i].number \notin late
  <2>1. /\ d[i].number = options[i].number /\ d[i].value = options[i].value
        /\ ~is_class_e(options[i].number) => options[i].number < OSCORE
    BY OrdinaryOption
  <2>2. options[i] \in AppOptions
    BY <1>1 DEF ShortOptions
  <2>3. options[i] = [number |-> options[i].number, value |-> options[i].value]
    BY <2>2 DEF AppOptions
  <2>4. Kept(d)[i] = [number |-> d[i].number, value |-> d[i].value]
    BY <1>1 DEF Kept
  <2>5. Kept(d)[i] = options[i]
    BY <2>1, <2>3, <2>4
  <2>6. i \in OuterIndexes(d) <=> ~is_class_e(options[i].number)
    BY <1>1, <2>1 DEF OuterIndexes
  <2>7. options[i].number \in early <=> ~is_class_e(options[i].number)
    BY <2>1 DEF is_class_e
  <2>8. options[i].number \in Int
    BY <2>2, OctetBounds DEF AppOptions
  <2>9. options[i].number \notin late
    BY <2>1, <2>8 DEF is_class_e, OSCORE
  <2> QED
    BY <2>5, <2>6, <2>7, <2>9
<1> HIDE DEF d, early, late, n
<1>4. WithNumbers(options, early) = g[n]
  <2>1. g = [i \in 0..n |-> g[i]] /\ g[0] = <<>>
    BY <1>2 DEF Collects
  <2>2. ASSUME NEW i \in 1..n
        PROVE  g[i] = IF options[i].number \in early THEN Append(g[i - 1], options[i])
                      ELSE g[i - 1]
    BY <1>2, <1>3 DEF Collects
  <2>3. Chooses(g, options, early)
    BY <1>1, <2>1, <2>2 DEF Chooses, n
  <2> HIDE DEF g
  <2> QED
    BY <2>3, WithNumbersIs DEF n
<1>5. WithNumbers(options, late) = <<>>
  <2>1. none = [i \in 0..n |-> none[i]] /\ none[0] = <<>> /\ none[n] = <<>>
    BY <1>1
  <2>2. ASSUME NEW i \in 1..n
        PROVE  none[i] = IF options[i].number \in late THEN Append(none[i - 1], options[i])
                         ELSE none[i - 1]
    <3>1. i \in 0..n /\ i - 1 \in 0..n
      BY <1>1
    <3> QED
      BY <1>3, <3>1
  <2> HIDE DEF none
  <2>3. Chooses(none, options, late)
    BY <1>1, <2>1, <2>2 DEF Chooses, n
  <2>4. WithNumbers(options, late) = none[n]
    BY <2>3, WithNumbersIs DEF n
  <2> QED
    BY <2>1, <2>4
<1>6. g[n] = Outer(d)
  BY <1>1 DEF Outer
<1> QED
  BY <1>4, <1>5, <1>6 DEF OuterList, early, late, d
LEMMA NoneBehind ==
    ASSUME NEW S, NEW x \in Seq(S)
    PROVE  x \o <<>> = x
OBVIOUS

LEMMA FrontKept ==
    ASSUME NEW front \in Seq(Int), NEW cipher \in Seq(Int)
    PROVE  LET visible == Append(front, Marker)
               packet == front \o <<Marker>> \o cipher
           IN  /\ SubSeq(packet, 1, Len(visible)) = visible
               /\ Len(visible) \in Nat /\ Len(packet) = Len(visible) + Len(cipher)
               /\ \A j \in 1..Len(cipher) : packet[Len(visible) + j] = cipher[j]
<1> DEFINE visible == Append(front, Marker)
<1>1. visible = front \o <<Marker>> /\ visible \in Seq(Int)
  BY DEF Marker
<1> HIDE DEF visible
<1>2. /\ visible \o cipher \in Seq(Int) /\ Len(visible \o cipher) = Len(visible) + Len(cipher)
      /\ \A i \in 1..Len(visible) : (visible \o cipher)[i] = visible[i]
      /\ \A j \in 1..Len(cipher) : (visible \o cipher)[Len(visible) + j] = cipher[j]
  BY <1>1, TwoParts
<1> DEFINE packet == visible \o cipher
<1> HIDE DEF packet
<1>3. /\ packet \in Seq(Int) /\ Len(packet) = Len(visible) + Len(cipher)
      /\ \A i \in 1..Len(visible) : packet[i] = visible[i]
      /\ \A j \in 1..Len(cipher) : packet[Len(visible) + j] = cipher[j]
  BY <1>2 DEF packet
<1>4. SubSeq(packet, 1, Len(visible)) = visible
  <2>1. Len(visible) \in Nat /\ Len(cipher) \in Nat /\ Len(visible) <= Len(packet)
    BY <1>1, <1>3
  <2> QED
    BY <1>1, <1>3, <2>1
<1>5. front \o <<Marker>> \o cipher = packet
  BY <1>1 DEF packet
<1>6. Len(visible) \in Nat
  BY <1>1
<1> QED
  BY <1>3, <1>4, <1>5, <1>6 DEF visible

\* The packet of a protected request: what can be seen, then ciphertext.
LEMMA VisibleInFront ==
    ASSUME NEW m, OrdinaryMessage(m), IsRequest(m.code), NEW value \in Seq(Nat), Len(value) < 13
    PROVE  LET visible == Append(Visible(m, value), Marker)
               packet == SealedPacket(m, value)
           IN  /\ SubSeq(packet, 1, Len(visible)) = visible
               /\ \A i \in Len(visible) + 1..Len(packet) : packet[i] < 0
<1> DEFINE in == AsParsed(m)
           n == Len(PlaintextFor(m))
           pkg == Sealed(in, value, n)
           header == <<m.kind * 16 + Len(m.token), POST>> \o m.MID
           list == OuterList(m.options, value)
           bytes == EncodedOptions(list)[Len(list)]
           cipher == Ciphertext(n)
           front == header \o m.token \o bytes
<1>1. /\ m.kind \in 0..15 /\ OrdinaryOptions(m.options)
      /\ m.MID \in Seq(Nat) /\ Len(m.MID) = 2 /\ m.token \in Seq(Nat) /\ Len(m.token) = 4
      /\ m = [kind |-> m.kind, code |-> m.code, MID |-> m.MID, token |-> m.token,
              options |-> m.options, payload |-> m.payload]
  BY DEF OrdinaryMessage, OrdinaryContent
<1>2. ParsedFrom(in, m) /\ Message(in) /\ n \in Nat
  BY OrdinaryParsed, PlaintextTyped
<1> HIDE DEF in, n
<1>3. /\ in.kind = m.kind /\ in.code = m.code /\ in.MID = m.MID /\ in.token = m.token
      /\ in.options = Deltas(m.options)
  BY <1>2 DEF ParsedFrom
<1>4. /\ pkg.options = OuterOptions(in.options, value) /\ pkg.payload = cipher /\ cipher # <<>>
      /\ pkg.code = POST /\ pkg.kind = m.kind /\ pkg.MID = m.MID /\ pkg.token = m.token
  <2>1. LET x == Sealed(in, value, n)
        IN  /\ Framed(x) /\ x.options = OuterOptions(in.options, value)
            /\ x.payload = Ciphertext(n) /\ x.payload # <<>>
            /\ x.code = IF IsRequest(in.code) THEN POST ELSE Changed
            /\ x.kind = in.kind /\ x.MID = in.MID /\ x.token = in.token
    BY <1>2, SealedFramed
  <2> HIDE DEF pkg
  <2> QED
    BY <1>3, <2>1 DEF pkg
<1>5. options_into_byte_string(pkg.options) = bytes /\ bytes \in Seq(Nat)
  <2>1. /\ options_into_byte_string(OuterOptions(Deltas(m.options), value)) = bytes
        /\ bytes \in Seq(Nat)
    <3> HIDE DEF bytes
    <3>1. LET o == OuterOptions(Deltas(m.options), value)
              b == options_into_byte_string(o)
          IN  b = EncodedOptions(OuterList(m.options, value))[Len(OuterList(m.options, value))]
              /\ b \in Seq(Nat)
      BY <1>1, OuterBytes
    <3> QED
      BY <3>1 DEF bytes, list
  <2> QED
    BY <1>3, <1>4, <2>1
<1> HIDE DEF pkg, cipher, list, bytes
<1>6. Header(pkg) = header
  BY <1>4 DEF Header
<1>7. PacketOf(pkg) = front \o <<Marker>> \o cipher
  BY <1>4, <1>5, <1>6 DEF PacketOf, PacketBytes
<1>8. front \in Seq(Int)
  <2>1. m.kind * 16 + Len(m.token) \in Int /\ POST \in Int
    <3>1. POST \in Int
      BY DEF POST
    <3>2. m.kind \in 0..15 /\ Len(m.token) = 4
      BY <1>1
    <3> DEFINE kind == m.kind
    <3>3. kind \in 0..15
      BY <1>1
    <3> HIDE DEF kind
    <3>4. kind * 16 + 4 \in Int
      BY ONLY <3>3
    <3> QED
      BY <3>1, <3>2, <3>4 DEF kind
  <2>2. header \in Seq(Int)
    <3>1. m.MID \in Seq(Int)
      BY <1>1, CleanAreBytes, MoreCells
    <3> QED
      BY <2>1, <3>1
  <2>3. m.token \in Seq(Int) /\ bytes \in Seq(Int)
    BY <1>1, <1>5, CleanAreBytes, MoreCells
  <2> HIDE DEF header
  <2> QED
    BY <2>2, <2>3
<1>9. cipher \in Seq(Int)
  BY <1>2, CiphertextTyped DEF cipher
<1>10. Visible(m, value) = front
  <2> DEFINE options == WithNumbers(m.options, {k \in ClassU : k < OSCORE})
                            \o <<[number |-> OSCORE, value |-> value]>>
                            \o WithNumbers(m.options, {k \in ClassU : k > OSCORE})
             x == [m EXCEPT !.code = POST, !.options = options, !.payload = <<>>]
  <2>1. options = list
    <3>1. value \in Cells
      BY CleanAreBytes, MoreCells DEF Cells
    <3>2. list \in Seq(AppOptions)
      BY <1>1, <3>1, OuterIsShort DEF list, ShortOptions
    <3>3. options = list \o <<>>
      BY <1>1, VisibleOptions DEF list
    <3> HIDE DEF options
    <3> QED
      BY <3>2, <3>3, NoneBehind
  <2>2. Visible(m, value) = Encode(x)
    BY DEF Visible
  <2> HIDE DEF options
  <2>3. /\ x.kind = m.kind /\ x.code = POST /\ x.MID = m.MID /\ x.token = m.token
        /\ x.options = options /\ x.payload = <<>>
    BY <1>1
  <2> HIDE DEF x
  <2>4. Encode(x) = header \o m.token \o bytes \o <<>>
    BY <2>1, <2>3 DEF Encode, bytes
  <2> HIDE DEF header
  <2> DEFINE f == front
  <2> HIDE DEF f
  <2>5. f \in Seq(Int) /\ Encode(x) = f \o <<>>
    BY <1>8, <2>4 DEF f
  <2>6. Encode(x) = f
    BY <2>5, NothingBehind
  <2> QED
    BY <2>2, <2>6 DEF f
<1> DEFINE visible == Append(front, Marker)
           packet == front \o <<Marker>> \o cipher
<1> HIDE DEF front
<1>11. /\ SubSeq(packet, 1, Len(visible)) = visible
       /\ Len(visible) \in Nat /\ Len(packet) = Len(visible) + Len(cipher)
       /\ \A j \in 1..Len(cipher) : packet[Len(visible) + j] = cipher[j]
  BY <1>8, <1>9, FrontKept
<1>12. Len(cipher) \in Nat /\ \A j \in 1..Len(cipher) : cipher[j] < 0
  <2>1. n + AUTH_TAG_LEN \in Nat
    BY <1>2, PacketAssumption
  <2>2. cipher = [k \in 1..n + AUTH_TAG_LEN |-> -k]
    BY DEF cipher, Ciphertext
  <2>3. Len(cipher) = n + AUTH_TAG_LEN
    BY <2>1, <2>2
  <2> QED
    BY <2>1, <2>2, <2>3
<1>13. ASSUME NEW i \in Len(visible) + 1..Len(packet)
       PROVE  packet[i] < 0
  <2> HIDE DEF visible, packet
  <2> DEFINE l == Len(visible)
             k == Len(cipher)
             t == Len(packet)
  <2>1. l \in Nat /\ k \in Nat /\ t = l + k
    BY <1>11, <1>12
  <2> HIDE DEF l, k, t
  <2>2. i \in l + 1..t
    BY DEF l, t
  <2>3. PICK j \in 1..k : i = l + j
    <3>1. i - l \in 1..k /\ i = l + (i - l)
      BY ONLY <2>1, <2>2
    <3> QED
      BY <3>1
  <2>4. packet[l + j] = cipher[j] /\ cipher[j] < 0
    BY <1>11, <1>12 DEF l, k
  <2> QED
    BY <2>3, <2>4
<1>14. SealedPacket(m, value) = packet
  BY <1>7 DEF SealedPacket, pkg, in, n
<1> QED
  BY <1>10, <1>11, <1>13, <1>14


-----------------------------------------------------------------------------
\* The theorems.

\* Nothing is said of a setup that is not ordinary.
OrdinaryInv == setup \in DOMAIN Setups /\ (Ordinary(Setup) => SamplesInv)

LEMMA SamplesStep ==
    ASSUME setup \in DOMAIN Setups, Ordinary(Setup), SamplesInv, Next
    PROVE  SamplesInv'
<1>1. ASSUME NEW q \in Setup.secure, SendSecure(q) PROVE SamplesInv'
  BY <1>1, SendSecureStep
<1>2. ASSUME NEW q \in Setup.plain, SendPlain(q) PROVE SamplesInv'
  BY <1>2, SendPlainStep
<1>3. ASSUME NEW p \in toClient, TakeAnswer(p) PROVE SamplesInv'
  BY <1>3, TakeAnswerStep
<1>4. ASSUME NEW p \in toServer, NEW a \in Setup.answers, LinuxReceive(p, a) PROVE SamplesInv'
  BY <1>4, LinuxStep
<1>5. ASSUME NEW p \in toServer, ZephyrReceive(p) PROVE SamplesInv'
  BY <1>5, OrdinarySetup DEF ZephyrReceive
<1>6. ASSUME NEW p \in Strays, Stray(p) PROVE SamplesInv'
  BY <1>6, StrayStep
<1> QED
  BY <1>1, <1>2, <1>3, <1>4, <1>5, <1>6 DEF Next, Receive

LEMMA SetupKept == Next => SameSetup
BY DEF Next, SendSecure, SendPlain, TakeAnswer, Receive, LinuxReceive, ZephyrReceive, Stray,
       SameSetup, Setup

\* The invariant holds in every state of the Linux programs in an ordinary
\* setup: what is in their buffers and contexts, and the only packets of the
\* client and of the server that are on their way (the loops of both main
\* programs, with buffers, lengths and flag used again and again).
THEOREM SamplesInvariant == Spec => []OrdinaryInv
<1>1. Init => OrdinaryInv
  BY SamplesStart DEF OrdinaryInv, Init
<1>2. OrdinaryInv /\ [Next]_vars => OrdinaryInv'
  <2> SUFFICES ASSUME OrdinaryInv, [Next]_vars PROVE OrdinaryInv'
    OBVIOUS
  <2>1. CASE Next
    <3>1. SameSetup
      BY <2>1, SetupKept
    <3> QED
      BY <2>1, <3>1, SamplesStep DEF OrdinaryInv, SameSetup
  <2>2. CASE UNCHANGED vars
    <3>1. SameSetup /\ UNCHANGED <<client, server, toServer, toClient, served, strays>>
      BY <2>2 DEF vars, SameSetup, Setup
    <3>2. SamplesInv => SamplesInv'
      BY <3>1 DEF SamplesInv, ClientInv, AskedInv, HandedInv, ServerInv, NetworkInv, SameSetup,
                  Usable, Roomy, HoldsRequest, RequestPacket, IsAnswer
    <3> QED
      BY <3>1, <3>2 DEF OrdinaryInv, SameSetup
  <2> QED
    BY <2>1, <2>2
<1> QED
  BY <1>1, <1>2, PTL DEF Spec

\* The PIV of an exchange that Passes has no marker.
LEMMA PassesUnmarked ==
    ASSUME setup \in DOMAIN Setups, Ordinary(Setup), SamplesInv, Passes,
           client.round > 0, Secure(client.round)
    PROVE  NoMarkerIn(client.c.piv)
<1>1. PICK n \in Nat : AskedAs(n)
  BY AskedProtected
<1>2. FitsPiv(n) /\ OrdinaryIds
  BY <1>1, OrdinarySetup DEF Sendable, AskedAs
<1>3. client.c.piv \in PIV
  BY <1>1, <1>2, PivOf DEF AskedAs
<1>4. client.c.piv # Unset
  BY <1>2, <1>3 DEF OrdinaryIds
<1> QED
  BY <1>4 DEF Passes, NoMarkerIn

\* The contexts stay contexts, the rounds within their bound and datagrams are
\* datagrams, through all calls of coap2oscore and oscore2coap of the two
\* programs.
THEOREM SamplesTyped == Spec => [](Ordinary(Setup) => TypeOK)
<1>1. OrdinaryInv => (Ordinary(Setup) => TypeOK)
  <2> SUFFICES ASSUME setup \in DOMAIN Setups, Ordinary(Setup), SamplesInv PROVE TypeOK
    BY DEF OrdinaryInv
  <2>1. client.c \in Contexts /\ server.c \in Contexts
    BY DEF SamplesInv, ClientInv, ServerInv, ClientContext, ServerContext
  <2>2. client.round \in 0..Setup.rounds /\ client.waits \in BOOLEAN /\ strays \in 0..Setup.strays
    BY DEF SamplesInv, ClientInv, NetworkInv
  <2>3. ASSUME NEW p \in toServer PROVE DOMAIN p = {"bytes", "seal"}
    <3>1. CASE p \in Strays
      BY <3>1 DEF Ordinary, NotForServer
    <3>2. CASE p \notin Strays
      <4>1. p = RequestPacket
        BY <2>3, <3>2 DEF SamplesInv, NetworkInv
      <4> QED
        BY <4>1 DEF RequestPacket, SealedDatagram
    <3> QED
      BY <3>1, <3>2
  <2>4. ASSUME NEW p \in toClient PROVE DOMAIN p = {"bytes", "seal"}
    <3>1. IsAnswer(p)
      BY <2>4 DEF SamplesInv, NetworkInv
    <3> QED
      BY <3>1 DEF IsAnswer, SealedDatagram
  <2> QED
    BY <2>1, <2>2, <2>3, <2>4 DEF TypeOK
<1> QED
  BY <1>1, SamplesInvariant, PTL

\* A protected request that Passes is handed to the server's application byte
\* for byte as the client's application made it (coap2oscore at the client,
\* oscore2coap at the server, into the buffer of the request before).
THEOREM RequestsArrive == Spec => [](Ordinary(Setup) => RequestIntact)
<1>1. OrdinaryInv => (Ordinary(Setup) => RequestIntact)
  <2> SUFFICES ASSUME setup \in DOMAIN Setups, Ordinary(Setup), SamplesInv,
                      client.waits, Secure(client.round), Passes, served.asked = client.asked
               PROVE  served.r = "OscoreNoError" /\ served.seen = Encode(client.asked)
    BY DEF OrdinaryInv, RequestIntact
  <2>1. client.round > 0
    <3>1. client.round \in Nat /\ client.round # 0
      BY OrdinarySetup DEF SamplesInv, ClientInv, AskedInv
    <3> QED
      BY <3>1
  <2>2. NoMarkerIn(client.c.piv)
    BY <2>1, PassesUnmarked
  <2> QED
    BY <2>1, <2>2 DEF SamplesInv, AskedInv
<1> QED
  BY <1>1, SamplesInvariant, PTL

\* The client's application is handed an answer of the server's application,
\* to this very request and byte for byte as it was made (prepare_CoAP_response
\* and coap2oscore at the server, oscore2coap at the client).
THEOREM AnswersArrive == Spec => [](Ordinary(Setup) => AnswerIntact)
<1>1. OrdinaryInv => (Ordinary(Setup) => AnswerIntact)
  <2> SUFFICES ASSUME setup \in DOMAIN Setups, Ordinary(Setup), SamplesInv,
                      ~client.waits, client.round > 0, Secure(client.round), Passes
               PROVE  /\ client.r = "OscoreNoError"
                      /\ Slice(client.got.b, 1, client.got.len) \in
                            {Response(Encode(client.asked), Ack, a) : a \in Answers(client.asked)}
    BY DEF OrdinaryInv, AnswerIntact
  <2>1. NoMarkerIn(client.c.piv)
    BY PassesUnmarked
  <2>2. client.r = "OscoreNoError"
    BY DEF SamplesInv, HandedInv
  <2>3. PICK m \in Requests(Setup), a \in Setup.answers :
            /\ Slice(client.got.b, 1, client.got.len) = Encode(AnswerTo(m, a))
            /\ m = client.asked
    BY <2>1 DEF SamplesInv, HandedInv
  <2>4. OrdinaryMessage(m)
    BY OrdinarySetup, RequestsAreOrdinary
  <2>5. Response(Encode(m), Ack, a) = Encode(AnswerTo(m, a))
    BY <2>4, WholeBegins, ResponseIs DEF Begins
  <2>6. a \in Answers(client.asked)
    BY OrdinarySetup DEF Answers
  <2> QED
    BY <2>2, <2>3, <2>5, <2>6
<1> QED
  BY <1>1, SamplesInvariant, PTL

\* A protected request is answered with a protected packet and a plain one with
\* a plain one: the flag of oscore2coap by which the server decides is the one
\* of the packet it answers, also behind packets of other clients.
THEOREM KindsAreKept == Spec => [](Ordinary(Setup) => AnsweredInKind)
<1>1. OrdinaryInv => (Ordinary(Setup) => AnsweredInKind)
  BY DEF OrdinaryInv, AnsweredInKind, SamplesInv, HandedInv
<1> QED
  BY <1>1, SamplesInvariant, PTL

\* A protected request shows its header, its options of class U and the OSCORE
\* option, and nothing but ciphertext behind the marker (e_u_options_extract,
\* oscore_pkg_generate and coap2buf in coap2oscore).
THEOREM OnlyOuterShows == Spec => [](Ordinary(Setup) => OnlyOuterVisible)
<1>1. OrdinaryInv => (Ordinary(Setup) => OnlyOuterVisible)
  <2> SUFFICES ASSUME setup \in DOMAIN Setups, Ordinary(Setup), SamplesInv,
                      NEW p \in toServer, FromClient(p), Secure(client.round)
               PROVE  LET visible == Append(Visible(client.asked, SentValue), Marker)
                      IN  /\ SubSeq(p.bytes, 1, Len(visible)) = visible
                          /\ \A i \in Len(visible) + 1..Len(p.bytes) : p.bytes[i] < 0
    BY DEF OrdinaryInv, OnlyOuterVisible
  <2>1. p = RequestPacket
    BY DEF SamplesInv, NetworkInv, FromClient
  <2>2. client.round > 0
    <3>1. client.round \in Nat
      BY OrdinarySetup DEF SamplesInv, ClientInv
    <3>2. client.round # 0
      BY DEF Secure
    <3> QED
      BY <3>1, <3>2
  <2>3. PICK n \in Nat : AskedAs(n)
    BY <2>2, AskedProtected
  <2> DEFINE m == client.asked
             value == ValueOf(n)
  <2>4. OrdinaryMessage(m) /\ IsRequest(m.code) /\ OrdinaryIds
    BY <2>3, OrdinarySetup, RequestsAreOrdinary DEF AskedAs
  <2>5. value \in Seq(Nat) /\ Len(value) < 13
    BY <2>3, <2>4, ValueTyped DEF AskedAs
  <2>6. SentValue = value
    <3>1. client.c.kid_context = TheIdContext
      BY <2>3 DEF ClientContext, AskedAs
    <3> QED
      BY <2>3, <3>1 DEF SentValue, ValueOf, AskedAs, ClientContext
  <2>7. p.bytes = SealedPacket(m, value)
    BY <2>1, <2>3 DEF SealedDatagram, AskedAs
  <2> HIDE DEF m, value
  <2>8. LET visible == Append(Visible(m, value), Marker)
            packet == SealedPacket(m, value)
        IN  /\ SubSeq(packet, 1, Len(visible)) = visible
            /\ \A i \in Len(visible) + 1..Len(packet) : packet[i] < 0
    BY <2>4, <2>5, VisibleInFront
  <2> QED
    BY <2>6, <2>7, <2>8 DEF m
<1> QED
  BY <1>1, SamplesInvariant, PTL

=============================================================================

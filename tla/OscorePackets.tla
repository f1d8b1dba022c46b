---------------------------- MODULE OscorePackets ----------------------------
(***************************************************************************)
(* coap2oscore and oscore2coap on whole packets: what the two functions do *)
(* with the bytes of a packet, with the buffer they write to and with the  *)
(* security context, in the order of their checks.                         *)
(*                                                                         *)
(* A packet is a record of its bytes and of the ciphertext (seal) among    *)
(* them: the cells of a ciphertext are numbered, it opens only when all of *)
(* them are there in their order.  The IDs and ID Contexts are sequences   *)
(* of bytes here, so Radix is 256.                                         *)
(***************************************************************************)
EXTENDS CoapPackets, SecurityContext, FiniteSets

CONSTANTS
    AUTH_TAG_LEN,          \* bytes of the tag
    OSCORE_OPT_VALUE_LEN   \* room for the value of the OSCORE option

ASSUME PacketAssumption ==
    /\ Radix = 256
    /\ AUTH_TAG_LEN \in Nat \ {0} /\ OSCORE_OPT_VALUE_LEN \in Nat

POST    == 2
Changed == 68

IsRequest(code) == code \div 32 = 0

-----------------------------------------------------------------------------
(* coap2oscore. *)

\* The bytes counted for an extension; options_into_byte_string writes one
\* for 13, too.
CountedLen(n) == IF n <= 13 THEN 0 ELSE IF n < 243 THEN 1 ELSE 2

\* One turn of the loop.  An option is counted with its delta in the packet,
\* its number is a uint16_t sum of the deltas.
WithOption(split, o) ==
    LET number  == U16(split.number + o.delta)
        option  == [number |-> number, value |-> o.value]
        counted == 1 + CountedLen(o.delta) + CountedLen(Len(o.value)) + Len(o.value)
    IN  IF is_class_e(number)
        THEN [number |-> number, e |-> Append(split.e, option), u |-> split.u,
              len |-> split.len + counted]
        ELSE [number |-> number, e |-> split.e, u |-> Append(split.u, option),
              len |-> split.len]

Extracted(options) ==
    LET split[i \in 0..Len(options)] ==
            IF i = 0 THEN [number |-> 0, e |-> <<>>, u |-> <<>>, len |-> 0]
            ELSE WithOption(split[i - 1], options[i])
    IN  split

\* Slip: every option is put among those of class U.
e_u_options_extractAll(options) ==
    LET split == Extracted(options)[Len(options)]
    IN  [e   |-> Deltas(split.e),
         u   |-> Deltas([i \in DOMAIN options |-> [number |-> Extracted(options)[i].number,
                                                  value  |-> options[i].value]]),
         len |-> split.len]

e_u_options_extract(options) ==
    LET split == Extracted(options)[Len(options)]
    IN  [e |-> Deltas(split.e), u |-> Deltas(split.u), len |-> split.len]

\* A buffer of the counted length: what does not fit is refused, what is
\* left over was never written.
plaintext_setup(code, e_options, payload, len) ==
    LET options == options_into_byte_string(e_options)
        bytes   == <<code>> \o options
                       \o (IF payload = <<>> THEN <<>> ELSE <<Marker>> \o payload)
    IN  [r |-> IF /\ Fits(len, 1, Len(options))
                  /\ payload # <<>> => Fits(len, Len(options) + 2, Len(payload))
               THEN "OscoreNoError" ELSE "DestBufferToSmall",
         bytes |-> Slice(bytes, 1, len)]

\* The PIV, the ID Context with its length, the KID; a flag byte in front.
oscore_option_generate(piv, kid_context, kid) ==
    LET context == IF kid_context = <<>> THEN <<>> ELSE <<Len(kid_context)>> \o kid_context
        flags   == Len(piv) + 8 + (IF kid_context = <<>> THEN 0 ELSE 16)
    IN  IF piv \o kid_context \o kid = <<>> THEN <<>>
        ELSE <<flags>> \o piv \o context \o kid

\* The OSCORE option goes in front of the first option with a larger number.
oscore_pkg_options(u_options, value) ==
    LET end    == Len(u_options) + 1
        oscore == [delta |-> 0, number |-> OSCORE, value |-> value]
        pos    == CHOOSE i \in 1..end :
                      /\ i < end => u_options[i].number > OSCORE
                      /\ \A j \in 1..i - 1 : u_options[j].number <= OSCORE
    IN  Deltas(SubSeq(u_options, 1, pos - 1) \o <<oscore>>
                   \o SubSeq(u_options, pos, Len(u_options)))

Ciphertext(len) == [k \in 1..len + AUTH_TAG_LEN |-> -k]

\* The packet with its payload sealed, written to the buffer out.
ProtectAndWrite(in, split, plaintext, value, c, out) ==
    LET seal    == Seal(c.sender_key, c.nonce, c.aad, plaintext)
        pkg     == [in EXCEPT !.code    = IF IsRequest(in.code) THEN POST ELSE Changed,
                              !.options = oscore_pkg_options(split.u, value),
                              !.payload = Ciphertext(Len(plaintext))]
        written == coap2buf(pkg, out.b, out.len)
    IN  [r    |-> written.r, c |-> c,
         out  |-> [b |-> written.b, len |-> written.len,
                   seal |-> IF written.r = "OscoreNoError" THEN seal ELSE out.seal]]

\* The message in, the options split between the two layers.
ProtectMessage(in, split, c, out) ==
    LET Refused(r, c1) == [r |-> r, c |-> c1, out |-> out]
        len       == 1 + split.len + (IF in.payload = <<>> THEN 0 ELSE 1 + Len(in.payload))
        plaintext == plaintext_setup(in.code, split.e, in.payload, len)
        spent     == [c EXCEPT !.sender_seq_num = @ + 1]
        updated   == UpdateNonceAndAad(
                         [spent EXCEPT !.piv = sender_seq_num2piv(c.sender_seq_num)])
        value     == oscore_option_generate(updated.piv, c.kid_context, c.sender_key.id)
    IN  IF plaintext.r # "OscoreNoError" THEN Refused(plaintext.r, c)
        ELSE IF ~IsRequest(in.code)
             THEN ProtectAndWrite(in, split, plaintext.bytes, <<>>, c, out)
        ELSE IF ~FitsPiv(c.sender_seq_num) THEN Refused("DestBufferToSmall", spent)
        ELSE IF Len(value) > OSCORE_OPT_VALUE_LEN
             THEN Refused("OscoreValueLenToLongError", updated)
        ELSE ProtectAndWrite(in, split, plaintext.bytes, value, updated, out)

ProtectParsed(in, c, out) ==
    IF in.r # "OscoreNoError" THEN [r |-> in.r, c |-> c, out |-> out]
    ELSE ProtectMessage(in, e_u_options_extract(in.options), c, out)

\* The result code, the context and the output buffer (bytes, length,
\* ciphertext) afterwards.  A response is sealed with the nonce and AAD the
\* context holds, its option is empty.
coap2oscore(b, c, out) == ProtectParsed(buf2coap(b), c, out)

-----------------------------------------------------------------------------
(* oscore2coap. *)

PivLen(v) == v[1] % 8

\* The fields of the value of an OSCORE option; a PIV of length 0 is none.
OptionFields(v) ==
    LET n  == PivLen(v)
        k  == (v[1] \div 8) % 2
        h  == (v[1] \div 16) % 2
        cl == IF h = 0 THEN 0 ELSE v[2 + n]
        at == 2 + n + (IF h = 0 THEN 0 ELSE 1 + cl)
    IN  [r           |-> "OscoreNoError",
         flag        |-> TRUE,
         piv         |-> IF n = 0 THEN Unset ELSE Slice(v, 2, n),
         kid_context |-> Slice(v, 3 + n, cl),
         kid         |-> IF k = 0 THEN <<>> ELSE Slice(v, at, U8(Len(v) - at + 1))]

NoFields(flag) ==
    [r |-> "OscoreNoError", flag |-> flag, piv |-> Unset, kid_context |-> Unset, kid |-> Unset]

\* Each OSCORE option replaces the fields of the one before, but for an empty
\* one.  None makes the packet a plain CoAP packet, and the flag is set by
\* those in front of an invalid one.
\* Not modelled: after an empty option alone (lines 50-59) the code leaves KID,
\* KID context and PIV of its local uninitialised.  Nobody reads them in a
\* response, the only packet coap2oscore gives an empty option; a request of
\* another program with one meets whatever the stack holds, and is refused
\* here for its KID.
oscore_option_parser(options) ==
    LET found   == {i \in DOMAIN options : options[i].number = OSCORE}
        full    == {i \in found : options[i].value # <<>>}
        invalid == {i \in full : PivLen(options[i].value) \in {6, 7}}
        last    == CHOOSE i \in full : \A j \in full : j <= i
    IN  IF invalid # {}
        THEN [NoFields(\E i \in found : \A j \in invalid : i < j)
                 EXCEPT !.r = "OscoreInPktInvalidPiv"]
        ELSE IF full = {} THEN NoFields(found # {})
        ELSE OptionFields(options[last].value)

\* How many options have a number below n: of the outer ones without the
\* OSCORE option, and of the inner ones.
Below(outer, inner, n) ==
    Cardinality({i \in DOMAIN outer : outer[i].number # OSCORE /\ outer[i].number < n})
        + Cardinality({i \in DOMAIN inner : inner[i].number < n})

\* The number at place k when all of them are sorted.
SortedNumber(outer, inner, k) ==
    CHOOSE n \in {outer[i].number : i \in DOMAIN outer}
                     \cup {inner[i].number : i \in DOMAIN inner} :
        Below(outer, inner, n) < k /\ k <= Below(outer, inner, n + 1)

\* Slip: the index of the inner options stays where it is.
TakenStuck(outer, inner, s, n) ==
    CASE outer[s.u].number = n ->
            [u |-> s.u + 1, e |-> s.e, out |-> Append(s.out, outer[s.u])]
      [] outer[s.u].number # n /\ inner # <<>> /\ inner[1].number = n ->
            [u |-> s.u, e |-> s.e, out |-> Append(s.out, inner[1])]
      [] OTHER -> s

\* The option with number n, from the outer ones if the next of them has it.
Taken(outer, inner, s, n) ==
    CASE outer[s.u].number = n ->
            [u |-> s.u + 1, e |-> s.e, out |-> Append(s.out, outer[s.u])]
      [] outer[s.u].number # n /\ s.e <= Len(inner) /\ inner[s.e].number = n ->
            [u |-> s.u, e |-> s.e + 1, out |-> Append(s.out, inner[s.e])]
      [] OTHER -> s

Merged(outer, inner) ==
    LET merged[k \in 0..Below(outer, inner, 256)] ==
            IF k = 0 THEN [u |-> 1, e |-> 1, out |-> <<>>]
            ELSE Taken(outer, inner, merged[k - 1], SortedNumber(outer, inner, k))
    IN  merged

\* The outer options up to the OSCORE option and the inner ones, merged by
\* their numbers.  The index of the outer ones stops at the OSCORE option,
\* so options behind it are dropped.
options_from_oscore_reorder(outer, inner) ==
    Deltas(Merged(outer, inner)[Below(outer, inner, 256)].out)

\* Code, inner options and payload out of the plaintext; everything else
\* from the OSCORE packet.
WithBody(body, code, oscore) ==
    IF body.r # "OscoreNoError" THEN body
    ELSE [oscore EXCEPT !.code    = code,
                        !.options = options_from_oscore_reorder(oscore.options, body.options),
                        !.payload = body.payload]

o_coap_pkg_generate(plaintext, oscore) ==
    WithBody(ReadBody(plaintext, 2, -1), plaintext[1], oscore)

payload_opens(payload, seal, c) ==
    /\ seal # Unset
    /\ payload = Ciphertext(Len(seal.plaintext))
    /\ Opens(seal, c.recipient_key, c.nonce, c.aad)

\* The plaintext of a seal that opened, made a packet and written.
WriteOpened(coap, c, out) ==
    LET written == coap2buf(coap, out.b, out.len)
    IN  IF coap.r # "OscoreNoError" THEN [r |-> coap.r, flag |-> TRUE, c |-> c, out |-> out]
        ELSE [r |-> written.r, flag |-> TRUE, c |-> c,
              out |-> [b |-> written.b, len |-> written.len]]

\* Not modelled: a payload shorter than the tag gives plaintext_bytes a
\* negative length (line 544); here it does not open.  coap2oscore writes the
\* tag into every payload.
UnprotectParsed(in, option, seal, flag, c, out) ==
    LET Refused(r, f, c1) == [r |-> r, flag |-> f, c |-> c1, out |-> out]
        c1 == IF IsRequest(in.code)
              THEN ServerContextUpdate(c, option.piv, option.kid_context) ELSE c
    IN  IF in.r # "OscoreNoError" THEN Refused(in.r, flag, c)
        ELSE IF option.r # "OscoreNoError" THEN Refused(option.r, option.flag, c)
        ELSE IF ~option.flag THEN Refused("OscoreNoError", FALSE, c)
        ELSE IF IsRequest(in.code) /\ option.kid # c.recipient_key.id
             THEN Refused("OscoreKidRecipentIdMismatch", TRUE, c)
        ELSE IF IsRequest(in.code) /\ ~UpdateSucceeds(c, option.kid_context)
             THEN Refused("DestBufferToSmall", TRUE, c1)
        ELSE IF ~payload_opens(in.payload, seal, c1)
             THEN Refused("OscoreAuthenticationError", TRUE, c1)
        ELSE WriteOpened(o_coap_pkg_generate(seal.plaintext, in), c1, out)

\* The result code, the flag, the context and the output buffer afterwards.
\* An error of buf2coap leaves the flag, a request that does not open leaves
\* the context updated for it, and a plain CoAP packet is not copied.
oscore2coap(packet, flag, c, out) ==
    LET in == buf2coap(packet.bytes)
    IN  UnprotectParsed(in, oscore_option_parser(in.options), packet.seal, flag, c, out)

=============================================================================

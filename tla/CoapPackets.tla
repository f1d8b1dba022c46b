----------------------------- MODULE CoapPackets -----------------------------
(***************************************************************************)
(* CoAP packets as uOSCORE reads and writes them (coap.c, option.c).       *)
(*                                                                         *)
(* A buffer is a sequence of cells.  A cell from 0 to 255 is a byte, Junk  *)
(* is one the program never wrote (it lies behind a message, or in memory  *)
(* that was not initialised), and a negative cell -k is byte k of the      *)
(* ciphertext the packet carries (module OscorePackets).                   *)
(*                                                                         *)
(* Lengths and numbers keep the widths of the C code: U8 and U16.          *)
(***************************************************************************)
EXTENDS Integers, Sequences

CONSTANT Junk   \* a cell nothing was written to

Marker == 255   \* 0xFF, in front of a payload

U8(n)  == n % 256
U16(n) == n % 65536

OSCORE == 9     \* COAP_OPTION_OSCORE
ClassU == {3, 7, OSCORE, 35, 39}

\* Unknown options are of class E.
is_class_e(number) == number \notin ClassU

-----------------------------------------------------------------------------
(* Buffers. *)

Slice(b, from, n) == [k \in 1..n |-> IF from + k - 1 \in 1..Len(b) THEN b[from + k - 1] ELSE Junk]

\* What b holds after data was written to its first cells.
Overlay(b, data) == data \o SubSeq(b, Len(data) + 1, Len(b))

\* _memcpy_s with the destination size the callers compute: capacity less
\* offset, an unsigned number that is huge when offset is the larger one.
Fits(capacity, offset, count) == capacity < offset \/ count <= capacity - offset

-----------------------------------------------------------------------------
(* Writing options.  An option is a record of its delta, its number (which *)
(* the writer does not use) and its value.                                 *)

ExtensionLen(n) == IF n < 13 THEN 0 ELSE IF n < 243 THEN 1 ELSE 2

Nibble(n) == IF n < 13 THEN n ELSE 12 + ExtensionLen(n)

\* The extension bytes: 13 and 269 are added (RFC 7252 subtracts them).
Extension(n) ==
    CASE ExtensionLen(n) = 0 -> <<>>
      [] ExtensionLen(n) = 1 -> <<U8(n + 13)>>
      [] OTHER -> <<U16(n + 269) \div 256, U8(n + 269)>>

option_bytes(o) ==
    <<Nibble(o.delta) * 16 + Nibble(Len(o.value))>>
        \o Extension(o.delta) \o Extension(Len(o.value)) \o o.value

\* What is written after each turn of the loop.
OptionsWritten(options) ==
    LET written[i \in 0..Len(options)] ==
            IF i = 0 THEN <<>> ELSE written[i - 1] \o option_bytes(options[i])
    IN  written

\* The buffer of the callers has five bytes for each header: it always fits.
options_into_byte_string(options) == OptionsWritten(options)[Len(options)]

\* Slip: the delta is taken from the first option, not from the one before.
DeltasFromFirst(options) ==
    [i \in DOMAIN options |->
        [delta  |-> U16(options[i].number - (IF i = 1 THEN 0 ELSE U8(options[1].number))),
         number |-> U8(options[i].number),
         value  |-> options[i].value]]

\* The deltas of options in the order of their numbers: the running sum of
\* the deltas before is the number of the previous option.
Deltas(options) ==
    [i \in DOMAIN options |->
        [delta  |-> U16(options[i].number - (IF i = 1 THEN 0 ELSE U8(options[i - 1].number))),
         number |-> U8(options[i].number),
         value  |-> options[i].value]]

-----------------------------------------------------------------------------
(* Reading options.  The two readers differ in the sign with which they    *)
(* apply 13 and 269 to an extended length; both subtract from a delta.     *)

Extended(b, at, nibble, sign) ==
    CASE nibble = 13 -> U16(b[at] + sign * 13)
      [] nibble = 14 -> U16(b[at] * 256 + b[at + 1] + sign * 269)
      [] OTHER -> nibble

HeaderLen(nibble) == IF nibble \in {13, 14} THEN nibble - 12 ELSE 0

\* The option whose header, of one byte and the extensions, is at cell at,
\* and where the next one would be.
OptionAt(b, number, delta, length, value) ==
    [option |-> [delta |-> delta, number |-> U8(number + delta), value |-> Slice(b, value, length)],
     next   |-> value + length]

ReadOption(b, at, number, sign) ==
    LET d == b[at] \div 16
        l == b[at] % 16
        second == at + 1 + HeaderLen(d)
    IN  OptionAt(b, number, Extended(b, at + 1, d, -1), Extended(b, second, l, sign),
                 second + HeaderLen(l))

\* One turn of the loop, which stops at cell end or with an error.
NextOption(b, end, sign, s) ==
    IF s.at >= end \/ s.r # "OscoreNoError" THEN s
    ELSE IF b[s.at] \div 16 >= 15 THEN [s EXCEPT !.r = "OscoreInPktInvalidOptionDelta"]
    ELSE IF b[s.at] % 16 = 15 THEN [s EXCEPT !.r = "OscoreInPktInvalidOptionLen"]
    ELSE LET first == ReadOption(b, s.at, s.number, sign)
         IN  [r |-> s.r, at |-> first.next, number |-> first.option.number,
              options |-> Append(s.options, first.option)]

OptionsRead(b, at, end, sign) ==
    LET read[i \in 0..Len(b)] ==
            IF i = 0 THEN [r |-> "OscoreNoError", at |-> at, number |-> 0, options |-> <<>>]
            ELSE NextOption(b, end, sign, read[i - 1])
    IN  read

\* The options from cell at up to (not including) cell end; r is the error
\* for a reserved nibble.  The last value may reach beyond end.  No option is
\* shorter than a cell, so as many turns as there are cells are enough.
\* Not modelled: the arrays for the options have 20 places (MAX_OPTION_COUNT;
\* ten for the encrypted ones), and the index is a uint16_t that an extended
\* length could wrap.
ReadOptions(b, at, end, sign) == OptionsRead(b, at, end, sign)[Len(b)]

\* The first cell from at on that holds the marker.
Markers(b, at) == { i \in at..Len(b) : b[i] = Marker }
OptionsEnd(b, at) ==
    IF Markers(b, at) = {} THEN Len(b) + 1
    ELSE CHOOSE i \in Markers(b, at) : \A j \in Markers(b, at) : i <= j

\* Options and payload from cell at on: the options end where the first cell
\* holds the marker, be it inside of an option or not.
ReadBody(b, at, sign) ==
    LET stop == OptionsEnd(b, at)
        read == ReadOptions(b, at, stop, sign)
    IN  [r |-> read.r, options |-> read.options, payload |-> SubSeq(b, stop + 1, Len(b))]

-----------------------------------------------------------------------------
(* Packets.  kind holds version and type, which are only copied. *)

\* A datagram has at least a header and the token this one announces.
buf2coap(b) ==
    LET TKL  == b[1] % 16
        body == ReadBody(b, 5 + TKL, 1)
    IN  IF TKL > 8 THEN [r |-> "OscoreInPktInvalidTKL"]
        ELSE [r |-> body.r, kind |-> b[1] \div 16, code |-> b[2], MID |-> <<b[3], b[4]>>,
              token |-> SubSeq(b, 5, 4 + TKL), options |-> body.options,
              payload |-> body.payload]

\* What the buffer b with the given capacity holds afterwards and the length
\* reported, which is the capacity still when something did not fit.
coap2buf(in, b, capacity) ==
    LET header  == <<in.kind * 16 + Len(in.token), in.code>> \o in.MID
        options == options_into_byte_string(in.options)
        headed  == header \o in.token \o options
        bytes   == IF in.payload = <<>> THEN headed ELSE headed \o <<Marker>> \o in.payload
        Stopped(written) ==
            [r |-> "DestBufferToSmall", b |-> Overlay(b, written), len |-> capacity]
    IN  IF in.token # <<>> /\ ~Fits(capacity, 4, Len(in.token)) THEN Stopped(header)
        ELSE IF ~Fits(capacity, 4 + Len(in.token), Len(options))
             THEN Stopped(header \o in.token)
        ELSE IF in.payload # <<>> /\ ~Fits(capacity, Len(headed) + 1, Len(in.payload))
             THEN Stopped(headed \o <<Marker>>)
        ELSE [r |-> "OscoreNoError", b |-> Overlay(b, bytes), len |-> Len(bytes)]

=============================================================================

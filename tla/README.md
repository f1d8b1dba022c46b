# TLA+ models of uOSCORE and uEDHOC

A verification development kept beside the C code of uOSCORE (RFC 8613,
`modules/oscore`) and uEDHOC (`modules/edhoc`).  The models are translated from
the C code: they say what the code does, also where that differs from the RFCs
or from the code's own comments.  Paths below are relative to `src/`; the map
from definitions to source lines is in `PROJECT.json`.

## 1. The system

uEDHOC establishes a key between an initiator and a responder in three messages;
uOSCORE protects CoAP requests and responses with keys derived from a master
secret, which the EDHOC exporter can deliver.  Both are libraries without threads
and without a network of their own: the applications (`samples/`) own the sockets,
the loops and the buffers.  The hard part is what the *other* side and the network
do between two calls, and what one call leaves behind for the next.

### Inventory

| Component | State it keeps | Operations | Modelled in |
|---|---|---|---|
| Partial IV and nonce (`oscore/src/security_context.c` 283-302, `nonce.c`) | none | `sender_seq_num2piv`, `create_nonce` | `PartialIV` |
| Security context (`security_context.c`, `aad.c`, `hkdf_info.c`, `oscore_cose.c`) | `struct context`: common, sender, recipient and request-response context (`rrc`) | `oscore_context_init`, `context_update` | `SecurityContext` |
| Message protection (`coap2oscore.c`, `oscore2coap.c`) | changes `struct context` and the caller's buffers | `coap2oscore`, `oscore2coap` | twice: `OscoreExchange` has what they do to the context over a faulty network, `OscorePackets` what they do to the bytes of a packet |
| Packet codec (`coap.c`, `option.c`) | none | `buf2coap`, `coap2buf`, classes and deltas of options | `CoapPackets` |
| OSCORE applications (`samples/oscore_linux`, `samples/oscore_device/server`) | one context per process, buffers, lengths and flags reused from round to round | the loop of the client, the loop of the Linux server, the handlers of the Zephyr server | `OscoreSamples` (buffers, flags), `OscoreExchange` (give-ups, restarts) |
| EDHOC parties (`edhoc/src/initiator.c`, `responder.c`) | the locals of one run; buffers of the caller | `edhoc_initiator_run`, `edhoc_responder_run`, `edhoc_exporter` | `EdhocHandshake` |
| EDHOC messages (`cbor_decoder.c`, `err_msg.c`, the `msgN_encode` and `msgN_parse` of the parties) | none | encode, decode, compare suites | `EdhocMessages` |
| EDHOC keys and authentication (`th.c`, `prk.c`, `okm.c`, `plaintext.c`, `signature_or_mac_msg.c`, `retrieve_cred.c`) | none | transcripts, key schedule, plaintexts, credentials | `EdhocKeys` |
| EDHOC applications (`samples/edhoc_linux`, `samples/edhoc_device`) | key pairs, credentials, buffers for keys and AD_1; on Zephyr two threads with two mailboxes | one run of the initiator, the responder's loop, the CoAP transport between them | `EdhocHandshake` (buffers kept from run to run), `EdhocSamples` (threads, mailboxes, time limits, datagrams) |
| Credentials of the samples (`credentials.c`, four files) | constants, chosen by `TEST_n` | none | `EdhocCredentials` |
| Crypto wrappers (`crypto_wrapper.c`) | none | HKDF, AES-CCM, ECDH, signatures | symbolic |
| Byte arrays, copies, printing, Zephyr build files, `test` | none | | no; the capacity checks of copies appear as failures of their callers |

### How the components interact

* An application calls `oscore_context_init` once and then `coap2oscore` and
  `oscore2coap` for every packet.  All calls share the one `struct context`;
  `context_update` is the only function that changes the derived values in it.  On
  the server it runs *before* the request is authenticated.
* A response is tied to its request only by the nonce and the AAD in `rrc`.
* The OSCORE applications keep, between two packets, the buffers, the *lengths* of
  the buffers and the flag "this packet was protected"; all of them are both input
  and output of the library's functions.
* On Zephyr, EDHOC runs in a thread of its own; it and the CoAP thread meet at two
  mailboxes, one of which is waited for with a time limit and one without.
* The two EDHOC functions call the application's `tx` and `rx`; they wait in `rx`.
  What a run returns (`prk_4x3m`, `th4`, AD and the lengths of these buffers) stays
  in buffers of the application, which the responder's loop uses again.
* Both sides of EDHOC compute transcripts and keys from what each has parsed,
  stored or configured: every pair of functions must agree, for each method, each
  `corr` and each kind of credential.

### What is hard, and what makes each component correct

| Component | What is hard | What must hold |
|---|---|---|
| PIV, nonce | number of bytes changes; order of bytes; end of the number space | no nonce twice under a key; PIV in network byte order |
| Security context | updates that fail between two copies; sequence number back to 0 at init | keys, IV, nonce, AAD always belong together; a refused update does no harm to later requests |
| Message protection | lost, late, repeated packets; give-ups; restarts; one `rrc` | an answer belongs to its request; no nonce for two plaintexts; genuine requests open |
| Packet codec | two sums of lengths in two functions, nibbles with limits of 13 and 14, a payload marker that is searched for; merging outer and inner options | what one side protects, the other application is handed byte for byte; nothing of class E is visible |
| OSCORE applications | a length or flag of an earlier packet decides about this one | protected requests get protected answers, others none; the client gets on |
| EDHOC parties | messages of other runs; damage; a waiting side that gives up; one responder key for all runs | authenticated agreement on method, suite, credentials, transcripts, keys; different keys for different runs; one completion per key |
| EDHOC messages | lengths that are both capacity and result; `corr`; optional items | what one side encodes, the other accepts and reads back |
| EDHOC applications | buffers kept from run to run; an answer that is late for its request; two threads that wait for each other | the next run is not impaired by the last one; an answer belongs to its POST; the server always returns to its socket |
| Credentials | sixteen blocks written by hand in four files | blocks of one vector complete the protocol together |

## 2. Modules

| Module | What it is |
|---|---|
| `PartialIV` | PIV and nonce padding, byte by byte, for any byte size |
| `SecurityContext` | `struct context`, `oscore_context_init`, `context_update` as functions of contexts (EXTENDS `PartialIV`) |
| `OscoreExchange` | client, server, applications and network (EXTENDS `SecurityContext`) |
| `RequestResponse` | abstract: what an application expects of the protected channel |
| `OscoreProofs` | theorems about `OscoreExchange`, and that it implements `RequestResponse` |
| `MCOscore` | instance for TLC: weights of bytes, lengths of ID Contexts |
| `CoapPackets` | CoAP packets as sequences of bytes: reading, writing, classes of options |
| `CoapPacketsProofs` | that what is written is read: options, bodies, packets |
| `OscorePackets` | `coap2oscore` and `oscore2coap` on the bytes of packets and the caller's buffers (EXTENDS `CoapPackets`, `SecurityContext`) |
| `OscorePacketsProofs` | that `oscore2coap` restores what `coap2oscore` protected (EXTENDS `CoapPacketsProofs`) |
| `OscoreSamples` | the Linux client against the Linux or the Zephyr server (EXTENDS `OscorePackets`) |
| `OscoreSamplesProofs` | that the Linux client and server hand each other what their applications said, in any number of rounds (EXTENDS `OscoreSamples`, `OscorePacketsProofs`) |
| `MCOscoreSamples` | instance: the samples' IDs, requests and answers, option lists, packets of other clients |
| `EdhocMessages` | messages as sequences of CBOR items; encoders and parsers |
| `EdhocKeys` | transcripts, PRKs, credentials, MACs, ciphertexts, symbolically |
| `EdhocHandshake` | initiator, responder, applications and network (EXTENDS the two) |
| `KeyEstablishment` | abstract: offer, confirm, complete |
| `EdhocProofs` | agreement of the two parties of `EdhocHandshake` and its type invariant |
| `EdhocKeyProofs` | keys of different runs, and that it implements `KeyEstablishment` (EXTENDS `EdhocProofs`) |
| `EdhocAcceptanceProofs` | that each party accepts the other's undamaged messages (EXTENDS `EdhocProofs`) |
| `MCEdhoc` | instance for TLC: key pairs, credentials, known parties |
| `EdhocCredentials` | the blocks of the four `credentials.c`: method, credentials, keys, peer; lengths of the messages |
| `EdhocSamples` | the Linux and Zephyr programs of both parties, their threads, mailboxes and datagrams (EXTENDS `EdhocCredentials`) |
| `EdhocSamplesProofs` | types, answers, refusals and the mailboxes of `EdhocSamples` |
| `MCEdhocSamples` | instance: which programs meet, under which faults |

Definitions whose comment begins with "Slip:" are alternatives of the definition
that follows them (a dropped check, a swapped order, a missing reset).  They are
used by no specification: each replaces its original in one experiment of
`PROJECT.json` (`mutants`), to show that the property named there fails then.

### OSCORE: state and actions

`cli` and `srv` are the two `struct context`s.  Fields of one record stand for the
fields of the C structs; a derived key is the record of the inputs of its HKDF
call, a ciphertext the record of the inputs of AES-CCM, and a nonce that of PIV
and common IV (the XOR is injective in each of them).  `Unset` is the content of a
buffer nothing was written to.  `rrc.kid` is constant after init and has no field.

| Action | Code |
|---|---|
| `Request`, `RequestRefused` | `coap2oscore` for a request: the sequence number is incremented first, then the PIV is copied into its 5 bytes or is refused (`coap2oscore.c` 460-507) |
| `RefuseKid`, `RefuseIdContext`, `RefusePayload`, `AcceptRequest` | the four ends of `oscore2coap` for a request, each with what it leaves in the context (`oscore2coap.c` 519-567) |
| `Respond` | `coap2oscore` for a response, with nonce and AAD of `rrc` |
| `TakeResponse`, `RejectResponse` | `oscore2coap` for a response: it opens with `rrc` or it does not |
| `GiveUp`, `RestartClient`, `RestartServer` | the applications: a receive that fails, a new `oscore_context_init` |
| `LoseRequest`, `LoseResponse`, `Deliver` | the datagram network; `Duplicating` keeps delivered packets |

Left out: the bytes of packets; errors in option lengths that `coap2oscore` reports
before line 460, which change nothing; buffers of the callers that are too small;
the overflow of the 64-bit sequence number (`RequestRefused` stops below it).  The
CoAP token is not compared by uOSCORE and is not modelled, so the client
application of the model takes any response that opens.  The server application
answers only what returned `OscoreNoError`; the sample servers, which also answer
when `oscore2coap` failed, are modelled in `OscoreSamples`.

A restart begins with sequence number 0 whatever was used before
(`security_context.c` 238), and no function of the library asks for a new pair of
secret and ID Context; the sample client starts with the same constants every time
(`client/src/main.cpp` 71-82).  `RestartClient` therefore takes any pair, one used
before included.  `again` is the history of the pairs used more than once, and
`ClientReused` says that the client has such a pair now.  Nonces under these pairs, and
answers taken while `ClientReused`, are exempt from the properties, since the code does
go wrong there (section 4); what the properties claim is that nothing else is spoilt: not
the keys of other pairs, and not the answers after the next restart with a fresh pair.

### OSCORE samples: state and actions

A packet is a sequence of bytes with the ciphertext it ends in: bytes of ciphertext
are negative numbers, so that they are no byte of a plaintext, and `seal` is what
they were sealed from.  `Junk` is a byte that was never written.  `client` and
`server` hold a context of `SecurityContext` and the buffers of the sample programs
(`rx`, `out`: content and length), the flag `oscore_flag` and, on the client, the
request under way.  `served` is history: what the server application was handed.

| Action | Code |
|---|---|
| `SendSecure`, `SendPlain` | a round of the Linux client, with and without `coap2oscore` (`client/src/main.cpp`) |
| `TakeAnswer` | its `recvfrom`, `oscore2coap` and the end of the round |
| `LinuxReceive` | one round of the Linux server's loop (`server/src/main.cpp`) |
| `ZephyrReceive` | `process_coap_request` and the handlers (`coap-server.c`) |
| `Stray` | a packet of another client: malformed, of another KID, unprotected |

Limits of the codec in the model as they are in the code, so that `RequestIntact`
and `AnswerIntact` speak of the packets that pass (`Plain` in `MCOscoreSamples`,
`Passes` in `OscoreSamples`): an option value or delta of exactly 13 is refused with
`DestBufferToSmall`; lengths from 14 on arrive as length + 26 and deltas from 13 to
25 wrap in a byte; the first byte 0xFF ends the options wherever it is; options
above number 9 that are not encrypted (the Proxy options) do not survive the
reordering; no more than ten encrypted options.  From sequence number 256 on the
packet of the Linux client is a byte longer than `buf_oscore_len`, which is the
length of the packet before: `coap2oscore` fails for ever and the buffer is sent as
it is (`ForLong(FALSE)`; `ForLong(TRUE)` sets the length again each round).

Left out: `encode_options` and class I (no option has it), the observers and the
pending list of the Zephyr server (never filled), its other resources.  Left out, too,
what the code does with packets that no program here sends:

* a *request* with an empty OSCORE option (`oscore2coap.c` 50-59): KID, KID context and
  PIV of the local at 494 stay uninitialised, and a KID that matches by chance would be
  used; the model refuses it.  Only responses have an empty option, and in a response
  these fields are not read;
* a payload shorter than the tag: `plaintext_bytes` gets a negative length
  (`oscore2coap.c` 544); the model finds that it does not open.  `coap2oscore` writes
  a tag into every payload;
* more than 20 options (`MAX_OPTION_COUNT`; ten encrypted ones), and extended lengths
  that wrap the `uint16_t` index (`coap.c` 200, `oscore2coap.c` 360): the model's lists
  and indexes have no end.

The flag `oscore_flag` of the Linux server is not initialised (`server/src/main.cpp`
62): it starts `FALSE`, and a `Stray` comes after a first converted packet only.

### EDHOC: state and actions

`ini` and `res` are the locals of the present run of each party, cut at `rx`;
`res` also has what the responder application keeps from run to run: its
configuration, `ad_1_len` and the buffers `out` for `prk_4x3m` and `th4`.  `sent`,
`offered` and `ended` are histories.

| Action | Code |
|---|---|
| `StartRun` | `edhoc_initiator_run` up to `rx` for message 2 (`initiator.c` 219-256) |
| `TakeMessage2` | from there to its return, with message 3 or an error message (256-567) |
| `TakeMessage1` | `edhoc_responder_run` up to `rx` for message 3 (`responder.c` 265-416) |
| `TakeMessage3` | from there to its return (418-581) and the loop of the application |
| `InitiatorRxFails`, `ResponderRxFails` | `rx` returns an error |
| `LoseMessage`, `DamageMessage`, `Deliver` | the network |

A message is a sequence of CBOR items (type, length, value); `msgN_parse` refuses
what `cbor_decoder` refuses, in its order, with the capacities of the receivers'
buffers.  Cryptography is symbolic: a hash is its input, a MAC, signature or
ciphertext a record of all it is made from, a Diffie-Hellman secret the set of the
two keys.  CIPHERTEXT_2 is encrypted by XOR, so damage to it is damage to its
plaintext; with another key stream it becomes arbitrary bytes, whose parsing may
end in any of `GarbledResults`.  Known oddities of the code are in the model as they
are: `corr = 3` in place of `corr == 3`, the C_I that TH_2 never contains, C_R in
every message 3, AD_3 that is authenticated but not sent, `memcmp` without a
negation, a capacity that a run replaces by a length.

Left out or assumed: C_R has one byte (`C_R_DEFAULT_SIZE` is 1), `tx` never fails,
messages fit their buffers, METHOD is at most 3, all suites `get_suite` knows behave
alike but for the length of the tag (the default `aead` makes one of 8 bytes for each of
them, and the default key exchange does nothing for suites 2 and 3, `crypto_wrapper.c`
40, 53, 161-175: an application that lists other suites than 0 is taken to bring its
own), equal messages in flight are one (the network is a set), x5u and x5bag
credentials, the bytes of certificates.  An empty CA name in `retrieve_cred` compares
equal to any issuer (`memcmp` of length 0).  Bytes after AD_1 (`initiator.c` 201 counts
the leading items twice) are ignored by the parser and hashed by both sides, so the
model has none.  A CIPHERTEXT_3 shorter than its tag makes a length wrap around
(`responder.c` 483): the behaviour is undefined, and the model lets the run end with an
error or the program stop.

### EDHOC samples: state and actions

Here EDHOC itself is abstract: `EdhocCredentials` gives for each block what the two
functions return when they meet a given message (`PeerResults`: no error, or the
refusals of `retrieve_cred`, of the CA and of the missing keys, which follow from
comparing the blocks), and how long the messages are.  The programs around it are in
detail.  `ini[i]` holds the main thread and the EDHOC thread of an initiator
program, `srv` the CoAP thread of the responder, `thr` its EDHOC thread with the run
under way.  On Linux each program is one thread.  A message for another run is what
EDHOC makes of it: a foreign message 2 is decrypted with the wrong key stream, so the
initiator may find anything (`ForeignResults`); a foreign message 3 fails to open; and
message 1, or the initiator's error message, where message 3 is expected, is a
CIPHERTEXT_3 shorter than its tag: `aead` may refuse it, or the program ends, as in
`EdhocHandshake`.

| Action | Code |
|---|---|
| `LinuxSendMessage1`, `LinuxTakeMessage2` | Linux initiator: `tx`, `rx`, the rest of the run |
| `InitiatorRouter`, `InitiatorGets`, `InitiatorReceives`, `InitiatorPuts`, `InitiatorGetTimesOut` | main thread of the Zephyr initiator: a rendezvous at a mailbox or its time limit |
| `InitiatorWorks`, `InitiatorTxGivesUp` | its EDHOC thread |
| `LinuxRespond` | the Linux responder's loop, message by message |
| `ServerRouter`, `ServerReceives`, `ServerPuts`, `ServerGets`, `ServerGetTimesOut` | CoAP thread of the Zephyr responder: `edhoc_post` |
| `ThreadWorks`, `ThreadTxGivesUp` | its EDHOC thread |
| `Lose` | the network |

A mailbox is a rendezvous (`k_mbox_put` waits for the receiver).  The wrappers `tx`
and `rx` of the Zephyr programs are not in the repository and are external; a setup
says whether `tx` waits for ever (`patient`) or gives up.  A null `id_cred` passed to
`memcmp` is undefined: the program may end.  An over-read past a zero-length array
is taken to compare unequal.  The samples' `USE_IPV4` and `USE_IPV6` are taken to
agree, and the server is started before its initiators.

## 3. Runs

TLC finishes each of them in two minutes or less.  All have `CHECK_DEADLOCK
FALSE`: the number of requests and runs is bounded, and a party that waits in `rx`
for a message that was lost waits for ever, in the program too.

| Run | Question | Properties |
|---|---|---|
| `oscore_lossy` | Loss, reordering, give-ups, one restart of either side, ID Contexts of every length with updates that fail half way, the end of the sequence numbers (PIV of one byte with two values) | `TypeOK`, `ServerContextCoherent`, `GenuineRequestsOpen`, `NoncesDiffer`, `RrcPersists`, `ImplementsChannel` |
| `oscore_duplicates` | Packets delivered again and again, at any later time, PIVs of one and two bytes, two restarts of the client with the pair it had or with another: two requests of one key differ in AAD, and in nonce unless their PIVs have different lengths, and answers belong to their requests, but for the pairs used again | `RequestNoncesDiffer`, `AnswerBelongsToRequest`, `ExchangeInv`, `ImplementsChannel` |
| `oscore_live` | Is every request answered when nothing is lost? | `RequestAnswered` |
| `oscore_samples` | Do the sample programs hand each other what their applications said, also after 257 requests, for all option lists that pass, with packets of others between? | `TypeOK`, `OnlyOuterVisible`, `RequestIntact`, `AnswerIntact`, `AnsweredInKind`, `ClientGoesOn` |
| `edhoc_lossy` | Two runs of the initiator against the responder's loop, with loss, reordering, AD_1 of lengths 0, 1, 2, 3 for a buffer of 2 | `TypeOK`, `KeysDiffer`, `CompletedOnce`, `GenuineMessage1/2/3Accepted`, `ImplementsKeyEstablishment` |
| `edhoc_damage` | Any data item of a message in flight is altered, all four methods, supported and unsupported suites | `InitiatorAgreement`, `ResponderAgreement`, `AgreementInv`, `ImplementsKeyEstablishment` |
| `edhoc_duplicates` | Repeated messages, two methods, one ephemeral key of the initiator for both runs | `InitiatorAgreement`, `ImplementsKeyEstablishment` |
| `edhoc_live` | Does a run without faults complete at both parties? All methods, kid, x5t and x5chain on each side, AD_1, AD_2 | `HandshakeCompletes`, `GenuineMessage3Accepted` |
| `edhoc_samples` | The sample programs in 16 settings: every pair of blocks that belong together, the blocks selected in the repository, up to three initiators with loss and late answers | `TypeOK`, `AnswersItsRequest`, `OneRefused`, `NoStandstill`, `ServerReturns`, `SamplesComplete` |
| `oscore_piv_order` | violation: `NoncePivInNetworkOrder` | |
| `edhoc_corr` | violation: `Message2HasCi` | |
| `edhoc_ca` | violation: `GenuineMessage2Accepted` | |

### Bounds, and why they are enough

* *OSCORE.*  Three requests (`Requests`) give a request in flight, one given up and one
  waited for, which is what the only state kept between requests (`rrc`, one sequence
  number) can tell apart.  One or two `Restarts` put packets of an old context beside a
  new one; `oscore_duplicates` has two, so that a client can use a pair again and then a
  fresh one.  A byte has two values (`Radix`; four in `oscore_live`), so sequence number
  2 has the second PIV byte (`oscore_duplicates` with its four requests,
  `oscore_piv_order`; there sequence numbers 1 and 2 have one nonce), or, where the PIV
  may have one byte only, it is the end of the numbers (`oscore_lossy`).  Five ID
  Contexts: none, two of one length ("other" and "longer" differ), the longest that fits
  and one too long for `kid_context`.  Two `Answers` show whether an answer can change.
* *EDHOC.*  Two `Runs` of the initiator give every mixture of messages of an old
  and a new run; the state a party keeps across runs does not count them.  Three
  `Loops` let the responder fail once and still serve both.  AD_1 is absent, shorter
  than the buffer, as long and longer, in every order, so that a short one comes before
  one that would have fitted.  `DamagedInts` holds METHOD_CORR of the four methods with
  corr 1 and a suite; a message is damaged in one item, which is enough to break
  any single protection.  In `edhoc_damage` one run suffices: damage to a message of
  an old run is no more than damage to one of this run.

* *OSCORE samples.*  Bytes have 256 values, buffers their real sizes.  515 rounds, every
  other one protected, reach the second PIV byte (sequence number 256) and stop soon
  after: nothing else in the programs counts rounds.  The option lists are all subsets
  of nine options (both classes, values of 0, 1, 2, 3 and 12 bytes, a repeated number,
  an Observe) that pass the codec.  Two stray packets can arrive before, between and
  after the requests; `Stray` waits for a first converted packet because the Zephyr
  server reads unwritten memory before.  The capacity in `decrypted_oscore_len`, which
  is not initialised, is 0, 10, 12 or 1024: nothing fits, header and token do, some
  packets do, all do.  TLC's integers have 32 bits, so the sequence number and the PIV
  have 3 bytes here.
* *EDHOC samples.*  Three initiator programs give a run that is abandoned, the one
  that is refused for it and the one after.  Each block of credentials is used.

### Fairness

`oscore_live`: the receive loops of the applications run for ever
(`server/src/main.cpp` 105-162, the client waits in `recvfrom`), so a packet in
flight is taken and an accepted request answered (weak fairness); nothing obliges
the client to make a request.  `edhoc_live`: a party that waits in `rx` takes what
arrives (weak fairness of the two `Take` groups).  In both the network loses
nothing: with losses there is no retransmission in this code, and nothing to prove.
`oscore_samples`: the server's loop and the client's `recvfrom` go on, so a datagram
does not stay in its socket.  `edhoc_samples`: every thread goes on when it can, and
the router sends its datagram; `Lose` has no fairness.  `ServerReturns` is also
claimed with losses and late answers (no fault keeps the Zephyr server from its
socket), except where it is false: a wrapper that waits for ever with a late answer
stands in `tx_queue` while the server stands in `rx_queue`.

## 4. Disagreements

Shown by runs that TLC ends with a counterexample:

| Run | What the code does |
|---|---|
| `oscore_piv_order` | The PIV is copied in memory order; on a little-endian machine its bytes are reversed from the second byte on.  After left-padding, sequence numbers 1 and `Radix` (256) give the same nonce |
| `edhoc_corr` | `(corr == 1) \|\| (corr = 3)`: message 2 never has C_I, for corr 0 and 2 the initiator refuses it |
| `edhoc_ca` | A certificate of exactly the CA the initiator knows is refused with `NoSuchCA`; one of any other issuer is not refused for its name |

Other limits of the code which the same modules show when a constant or the guard
of a passing run is changed:

| Change | What fails |
|---|---|
| `oscore_lossy` with `Pipelined = TRUE` | `RrcPersists`: a second request replaces nonce and AAD of the answer due |
| `oscore_lossy`, `NoncesDiffer` claimed for the pairs in `again` too | `NoncesDiffer`: the sequence numbers of a restarted client start at 0, under the old key if secret and ID Context are the old ones |
| `oscore_duplicates`, `AnswerBelongsToRequest` claimed for answers taken while `ClientReused` too | `AnswerBelongsToRequest`: a response to a request from before the restart opens for the request with the same number |
| `edhoc_lossy`, `GenuineMessage1Accepted` without `ReceivedAdLens` | After an AD_1 of one byte an AD_1 of two, which fits the buffer, is refused with `CborByteStringBufferToSmall`: `ad_1_len` is both capacity and length, and the responder's loop does not set it again (`responder.c` 109, `cbor_decoder.c` 51, `responder/src/main.cpp` 178, 231-235), while `edhoc.h` 170-172 promises the AD_1 received and says of `ad_1_len` only that it is its length |
| `oscore_lossy`, `GenuineRequestsOpen` claimed for every ID Context | A server refuses an ID Context longer than its present one (`DestBufferToSmall`), so every one if it has none, and its ID Context can only get shorter |
| `oscore_samples` without `Passes` | `RequestIntact`: at sequence number 255 the PIV byte 0xFF ends the options; from 256 on the client's packet does not fit its own buffer |
| `oscore_samples`, `RequestIntact` for the Zephyr server without `served.r` | The test `r < 0` is never true; after a failed conversion the request parsed is what an earlier one left |
| `oscore_samples`, `AnsweredInKind` for the Zephyr server without `served.r` | With a capacity of 10 the header and token of a request for `tv1` are written and then nothing: what is handled is the path of an earlier request, `.well-known/core`, and a protected request is answered in the clear |
| `edhoc_samples`, `SamplesComplete` for the shipped selection | Linux initiator (`TEST_1`) and Linux responder (`TEST_4`) do not belong together: `NoSuchCA` |
| `edhoc_samples`, `matching` for blocks 1 and 2 of the Linux initiator | Their `ID_CRED`s are of another edition of the vectors than those of every responder: `CredentialNotFound` |
| `edhoc_samples`, `matching` for a Zephyr initiator and a Zephyr responder | The initiator writes `.well-known/edhoc` as one Uri-Path option, which matches no resource of the responder |
| `edhoc_samples`, `ServerReturns` without its exception | The mailbox deadlock of the fairness section |
| `oscore_lossy` with `Duplicating = TRUE` | `NoncesDiffer`: there is no replay window (`security_context.h` 61), a request served twice has two answers under one nonce |
| `edhoc_live` with `Corrs = {3}` | `GenuineMessage3Accepted`: C_R in message 3 is written and not expected (`initiator.c` 545, `responder.c` 159) |
| `edhoc_live` with `Corrs = {0}` or `{2}` | `GenuineMessage2Accepted`: C_I in message 2 is missing |
| `edhoc_live` with `Ad2s <- SomeAd2` | `GenuineMessage2Accepted`: AD_2 is authenticated as bytes and, decoded, as content (`plaintext.c` 188) |
| `edhoc_live` with `Ad3s <- SomeAd3` | `GenuineMessage3Accepted`: AD_3 is authenticated and not sent (`initiator.c` 462) |
| `edhoc_live` with `SuiteLists <- TwoSuites` and `SuitesR <- Both` | `GenuineMessage1Accepted`: an array of suites is not decoded (`cbor_decoder.c` 87) |
| `edhoc_live` with `IdCredsI <- LongKids` | `GenuineMessage3Accepted`: a kid of two bytes is not written (`plaintext.c` 235) |

Seen on the way: the Linux server prints "OSCORE packet received and converted" and
answers from the buffer of the request before when a packet was not authentic
(`server/src/main.cpp` 117-123); the handlers for `.well-known/core` and `edhoc` of
the Zephyr OSCORE server answer protected requests in the clear; message 3 of EDHOC
is answered by nobody, so the Zephyr responder waits for its time limit of 20
seconds after each successful run.

Not stated as properties: ERR_MSG is written as a byte string and expected as a
text string, so no run returns `ErrorMessageReceived` (`err_msg.c` 43); after a
failed authentication the responder application exports from `prk_4x3m` of that
run and `th4` of an earlier one (`responder/src/main.cpp` 246; visible in
`ended`); a failed run of the initiator exports from buffers that were never written
(`initiator/src/main.cpp` 206); bytes after message 1 (`initiator.c` 201) and a METHOD
above 3 (`responder.c` 296) are outside the models, see above.  These are listed as
hazards without a property.

## 5. Abstract specifications

`RequestResponse` says what an application expects of the channel: one request
waited for, only requests that were made are served, at most once when the network
delivers at most once, and what is taken for an answer was given to that request,
unless the client started again with secrets it had before (`StartAgain`, `fresh`).
`OscoreExchange` maps sealed requests to requests made, sealed responses to
requests served, and `~ClientReused` to `fresh` (`ImplementsChannel`).

`KeyEstablishment` says: the initiator confirms only what was offered, with a new
key each time if its ephemeral keys are new; the responder completes only with a
confirmed key, once for each when messages are not repeated.  `EdhocHandshake` maps
message 2 to the offer, successful returns to confirmation and completion
(`ImplementsKeyEstablishment`).

## 6. Theorems

TLAPS proves them for all values of the constants under the named assumptions of
the modules (`PivAssumption`, `ContextAssumption`, `UnsetAssumption`,
`ExchangeAssumption`, `HandshakeAssumption`, `SamplesAssumption`), which TLC evaluates
in each run.

**OSCORE** (`OscoreProofs`):

| Theorem | Statement |
|---|---|
| `TypeCorrect` | `Spec => []TypeOK` |
| `ContextsCoherent` | both contexts always coherent, whichever updates failed half way |
| `PacketsAreOfClient` | a packet with the client's KID carries what its ciphertext was sealed with |
| `GenuineOpens` | a genuine request opens, whatever was received and refused before |
| `RequestNonces` | `Spec => []RequestNoncesDiffer`: requests of one key differ in AAD, and in nonce unless their PIVs have different lengths, but for pairs of secret and ID Context that were used again; without conditions |
| `RrcPersistsWhenSequential` | `RrcPersists`, **if** the server is not `Pipelined` |
| `AnswersBelong` | an answer belongs to its request, on any network and for PIVs of any length, **if** the server is not `Pipelined`; exempt is a client with a pair it had before |
| `ExchangeInvariant` | `Spec => []ExchangeInv`, **if** the server is not `Pipelined` |
| `NoNonceTwice` | `Spec => []NoncesDiffer`, **if** the server is not `Pipelined`, the network does not duplicate, and PIVs have one byte (`MAX_PIV_LEN = 1` or `Requests <= Radix`) |
| `ChannelImplemented` | `Spec => ImplementsChannel`, **if** the server is not `Pipelined`, on any network and for any restarts |

The argument: `context_update` yields a coherent context or leaves one whose `piv`
and `kid_context` the next update overwrites, hence coherence and `GenuineOpens`.
Under a key whose pair of secret and ID Context was not used again, all earlier
requests have smaller sequence numbers (`RequestsSealedBefore`); different numbers have
different PIVs (`PivInjective`), which the AAD contains; and PIVs of one length are
padded injectively (`PaddedPivInjective`), hence `RequestNonces`.  A sequential server
owes at most one answer, with the request's nonce and AAD still in `rrc`; a response is
therefore sealed with nonce and AAD of its request (`ResponsesPaired`), and the client
holds those of the request it waits for (`ClientAwaits`).  What opens has this nonce and
this AAD.  Two requests may have one nonce, when one has a PIV of one byte and the other
of two, but never one AAD, if no pair was used again: so what opens is the answer to
the request waited for (`AnswersBelong`).  For the nonces themselves the condition on
the PIVs is not a matter of the proof: beyond one byte `NoncesDiffer` is false, see
`oscore_piv_order`.

`NoNonceTwice` needs more than the nonces of requests: a response has the nonce of
its request, so no request may be answered twice.  `ServedOnce` says where a request
can be when nothing is duplicated: in flight, or owed an answer, or answered, and
each only once.  Drop `~Duplicating` and it fails with the first packet that is
delivered again, since there is no replay window.

`ChannelImplemented` takes the steps one by one: `Request` is `Ask`, `Respond` is
`Serve`, `TakeResponse` is `Get`, `GiveUp` is `Abandon`, `RestartClient` is
`StartAgain`, and every other step changes neither `sealed` nor what the client waits
for, nor its pair of secret and ID Context, so it is a stutter.  `Get` demands that the
answer taken was given to a request, and to the one waited for while the channel is
`fresh` (`~ClientReused`), which is `AnswersBelong`; `Serve` demands that the request
was made, and made once if nothing is duplicated, which `OwedWereSealed` and
`ServedOnce` give.

**EDHOC** (`EdhocProofs`, `EdhocKeyProofs`, `EdhocAcceptanceProofs`):

| Theorem | Statement |
|---|---|
| `Agreement` | `Spec => []AgreementInv` |
| `InitiatorAgrees` | an initiator that succeeds completed with an offer of the responder |
| `ResponderAgrees` | a responder that succeeds has the key of an initiator that succeeded |
| `HandshakeTypes` | `Spec => []TypeOK` |
| `RunsHaveKeys` | `Spec => []KeysDiffer`, on networks that lose, repeat and damage |
| `KeysCompletedOnce` | `Spec => []CompletedOnce`, **if** ephemeral keys are new in each run and messages are not repeated |
| `EstablishmentImplemented` | `Spec => ImplementsKeyEstablishment`, **if** ephemeral keys are new or messages may be repeated |
| `Message1Accepted` | `Spec => []GenuineMessage1Accepted`, **if** `Limits1`: a message 1 is refused only for its suite, or for an AD_1 longer than the buffer or than one received before |
| `Message2Accepted` | `Spec => []GenuineMessage2Accepted`, **if** `Limits2` |
| `Message3Accepted` | `Spec => []GenuineMessage3Accepted`, **if** `Limits3` |

`InitiatorAgreement` is not inductive: that CIPHERTEXT_2 in the network is the
responder's must be known before the initiator sees it.  `AgreementInv` adds that
offers are determined by their CIPHERTEXT_2 and confirmed keys by their
CIPHERTEXT_3 (`WellOffered`, `WellConfirmed`), that an item in flight that is a
ciphertext is one of these or was spoilt by the network (`GenuineItem`,
`SpoiltItem`), and that the parties' locals are those of the present run
(`PartiesAlign`).  A receiver that finds the MAC right cannot hold a spoilt
ciphertext, so it holds a genuine one, and transcripts fix the rest; that message 1
is part of TH_2 is what ties method and suite.  There is one lemma per encoder
(which items are ciphertexts), one for acceptance at each side, one per action.

`TypeOK` is not inductive either.  `TypeInv` adds that a responder that has not
stopped has a run left, and that the fifth item of a message is an AD_1 with a
length (`MessageShape`): `ad_1_len` is overwritten with it and handed to the next
run (`responder.c` 108-116), so the bound on the buffer rests on the shape of
everything in flight, damaged messages included.  `HandshakeAssumption` says for
this that `Loops` is at least 1 and that the lengths are naturals.

For keys, one lemma per action sorts the steps: the initiator confirms
(`InitiatorSucceeds`), the responder completes (`ResponderSucceeds`) or makes an
offer (`ResponderMakesOffer`), or nothing is established (`NothingEstablished`).
`RunsOrdered` says that no run is in the future; `KeysNamed` that the first secret
below a `prk_4x3m` is the one of the ephemeral keys of its run, which for new
ephemeral keys names the run, hence `RunsHaveKeys`.  For `KeysCompletedOnce`,
`TakenOnce` says that a CIPHERTEXT_3 that the responder can open is in at most one
message in flight and in none once it was taken; damage replaces a message and spoils
its ciphertext, so it cannot multiply one.  The refinement adds nothing but the
mapping of these four kinds of steps to `KeyEstablishment`.  Its condition is
needed: when old ephemeral keys are used on a network that repeats nothing, two
runs with the same configuration are equal down to the key, and the responder
completes with that key twice.

That undamaged messages are accepted holds within the limits of the code only, and
`EdhocAcceptanceProofs` states these as formulas.  `Limits1`: one suite, known to the
code; C_I within its buffer.  `Limits2`: a `corr` that hides C_I; C_R of one byte; an
AD_2 that is the same when decoded; credentials that `plaintext_encode` can write and
`retrieve_cred` finds.  `Limits3`: `corr = 1`; C_R of one byte; no AD_3; such
credentials.  All passing runs satisfy them, and each line of the second table of
section 4 about a `GenuineMessage` property, but the one on `ReceivedAdLens`, leaves one
of them.  The argument has three
parts.  One lemma for each message says that the receiver, in the right state, finds
`EdhocNoError` and nothing else (`Accepts1`, `Accepts2`, `Accepts3`): parser after
encoder, then the same transcript, the same secret, the same MAC.  One lemma for each
action says what it sends and returns (`StepTaken`).  The invariants join them: a
message that carries a public key or a ciphertext is `Asked`, `Offers` or a confirmation
(`SentForms`, `Sent3`), `ad_1_len` is the size of the buffer or the length of an AD_1
received before (`Inv1`; those lengths only grow in number, and section 4 has the case
in which the second bites), and the offer of the present run is what the responder would
offer again (`Inv3`).  They speak of what a message *is*, not of when it was sent,
because a message may be taken damaged and be sent genuine by a later run.

**EDHOC samples** (`EdhocSamplesProofs`):

| Theorem | Statement |
|---|---|
| `TypeSafe` | `Spec => []TypeOK` |
| `AnswersAreForTheirRequests` | `Spec => []AnswersItsRequest`, for all setups, losses and late answers |
| `OneMessage1Refused` | `Spec => []OneRefused`: no two messages 1 in a row are refused as a message 3 that is too short, if the program goes on after the first; that it does is not claimed |
| `ThreadsDoNotBlock` | `Spec => []NoStandstill` |

The four follow from one invariant (lemma `SamplesInvariant`).  `TypeOK` includes that
every CoAP message fits its buffer of 256 bytes, although a Linux program copies it
without a look at the length; this rests on the lengths of the credentials, of which
`LongestIdCred` is the bound that `SamplesAssumption` demands (140 bytes; TLC compares
it with every block of the four `credentials.c`).  `NoStandstill` is the safety half of
`ServerReturns`: the CoAP thread stands in `k_mbox_put` while the EDHOC thread stands
in `tx` only in a setup that may deliver an answer later than `MBOX_WAIT_TIME`; the
other half, that the server then goes on, is liveness.

**Packet codec** (`CoapPacketsProofs`):

| Theorem | Statement |
|---|---|
| `OptionsReadBack` | `ReadOptions` on the bytes that `options_into_byte_string` writes: these options, no error, and the reader stops where they end |
| `BodyIsRead` | `ReadBody` gives back options and payload, of the plaintext and of a packet |
| `WrittenIsRead` | `buf2coap` after `coap2buf` gives back header, token, options and payload, if `coap2buf` reports no error |

They hold for packets of every size, and for every capacity of the destination.  (The
arrays of the C code have places for `MAX_OPTION_COUNT` options, which the model does
not count here; see `Plain` in `MCOscoreSamples`.)  Their hypotheses are the limits of
the code.  `Chained`: the deltas are the
differences of the numbers (modulo their widths), which `Deltas` gives.  `NoMarker`:
the first 0xFF ends the options wherever it stands, so no byte of an option may be
one.  `Readable`: the writer adds 13 and 269 to long lengths and the parser of packets
adds them once more, so a packet may have values of less than 13 bytes only, while
the parser of plaintexts subtracts and reads values of up to 65535 bytes; deltas are
subtracted by both.  Each hypothesis is satisfied by the option lists of
`oscore_samples`, and the second table of section 4 has what happens without the first
two.

The argument is about two loops.  `Holds(b, at, s)` says that the buffer has the bytes
`s` from cell `at` on, and splits with `s` (`HoldsThreeParts`, `HoldsFourParts`).  One
option is read back in one turn (`TurnReads`): first byte, two extensions, value, each
with the arithmetic of its width (`ExtensionRead`).  The writer's loop puts option *k*
behind `OptionsWritten(options)[k - 1]` (`HoldsOptions`), so by induction over *k* the
reader is, after *k* turns, behind option *k* with *k* options read; the turns that are
left change nothing.  `FirstMarker` gives the end.

The provers take no predicate as a parameter, so the library's induction theorem
cannot be cited.  `Induction` is stated for a *set* of naturals instead and follows
from `LeastElement`, which is the well-foundedness of the subset order on finite sets
(`FS_StrictSubsetOrderingWellFounded`) applied to the intervals `0..n`.  `Loop` derives
from it that a function defined by recursion over `0..n` exists and satisfies its
equation, which is why the loops of `CoapPackets` are recursive functions and no folds.

**Message protection** (`OscorePacketsProofs`):

| Theorem | Statement |
|---|---|
| `OptionValueIsRead` | PIV, ID Context and KID are read from the value of the OSCORE option as they were put there |
| `PlaintextIsRead` | what `plaintext_setup` writes is code, inner options and payload, and is read as these |
| `MergeRestores` | `options_from_oscore_reorder` of the two parts of `e_u_options_extract`, the OSCORE option among them, is the original list |
| `RequestRestored` | `oscore2coap` after `coap2oscore`: the server writes the request that the client was given |
| `AnswerRestored` | the same for an answer, at an endpoint with the nonce, AAD and key it was sealed with |
| `RestoredIsRead` | the application reads from what `oscore2coap` wrote the message that was protected |
| `CountIsRight` | a condition on the options under which the counted length of the plaintext is the written one |

They are about all lists of options, all buffers and capacities, all states of the
contexts.  The hypotheses are the limits of the code:

* `Matching`: both sides derive their keys from the same master secret.  The server may
  have any ID Context of its own that `context_update` can replace by the client's
  (`UpdateSucceeds`), and any leftovers of refused requests.
* `Mergeable`: no outer option has a number behind that of the OSCORE option (9).  The
  index of the outer options stops there and the rest is lost
  (`oscore2coap.c`, `options_from_oscore_reorder`).
* `RightlyCounted`: `coap2oscore` counts the length of the plaintext with the deltas that
  the options have in the packet, and no extension byte for 13.  If an outer option
  between two inner ones makes the deltas of the latter grow past a limit, the buffer is
  too small or has bytes that were never written.  `CountIsRight` says when this cannot be.
* `NoMarker`, values of less than 13 bytes outside: the limits of the codec, see above.

Every request in `TestRequests` of `MCOscoreSamples` satisfies these hypotheses.

The separation is a loop that appends each option to one of two lists.  `Collects` says
that a list holds, after *k* turns, the chosen ones of the first *k* options in their
order; it is shown for both lists by one induction each.  The merging sorts the numbers
of both lists and takes for the *k*th the next outer option if it has this number, and
the next inner one otherwise.  `Below(outer, inner, n)` counts the options with a number
below *n*; as each option is in exactly one list this is the count in the original one
(`BelowCounts`), so the *k*th number is that of option *k* (`SortedNumberIs`).  The two
indexes are the lengths of the two parts of the first *k* - 1 options (`MergedAt`), and a
turn moves the one whose class option *k* has (`MergeTurn`); options with the same number
are of one class, so their order is kept.  The deltas follow from the numbers.  For the
request there remain the header, `BodyIsRead` for the packet and for the plaintext, and
`ServerFollows`: the context that the server derives from PIV, ID Context and KID has the
client's key, nonce and AAD, so the ciphertext opens.

**OSCORE samples** (`OscoreSamplesProofs`), each of the form
`Spec => [](Ordinary(Setup) => P)`:

| Theorem | Statement `P` |
|---|---|
| `SamplesInvariant` | `SamplesInv`, the inductive invariant |
| `SamplesTyped` | `TypeOK` |
| `RequestsArrive` | `RequestIntact`: the server's application is handed the request, byte for byte |
| `AnswersArrive` | `AnswerIntact`: the client's application is handed an answer to this very request, byte for byte |
| `KindsAreKept` | `AnsweredInKind`: protected for protected, plain for plain |
| `OnlyOuterShows` | `OnlyOuterVisible`: behind the marker a request in flight is ciphertext |

They hold for any number of rounds, any requests and answers, any interleaving with
packets of other clients.  `Ordinary(setup)` has the limits of the code:

* the server is the Linux one.  The Zephyr server goes on after a failed conversion
  (section 4), so what it handles depends on the capacity it finds on its stack;
* messages within the limits of the codec (`OrdinaryContent`): options in order with
  deltas and lengths below 13, none of class U behind the OSCORE option, no 0xFF in one,
  a token of four bytes.  Payloads are arbitrary;
* packets, plain and protected, that fit their buffers, and all of one length when the
  client does not set its lengths again (`Suits`, for `~fresh`): otherwise a longer
  packet fails for ever, as after 256 requests in section 4;
* other clients send nothing the server converts: packets that are malformed,
  unprotected, or of another KID (`NotForServer`); and the identities of `coap.h` fit
  their buffers (`OrdinaryIds`).

Setups 2, 3 and 4 of `MCOscoreSamples` (257 protected requests in a row, strays between
the rounds, every option list that passes) satisfy `Ordinary`, and with them the run
checks the same invariants.  Setup 1, where the packets outgrow the length, and setup 5,
the Zephyr server, do not.

The five invariants say what an application was handed; what makes them inductive is
what is in flight and in the buffers before.  `NetworkInv`: there is the present packet
of the client (`RequestPacket`) or one answer to it (`IsAnswer`), besides the strays,
and a request that was served is no longer in flight.  `ClientInv`, `ServerInv`: each
context is the one of the programs' secret after so many requests, and each buffer is
`Usable`, which means that the length left in it by the packet before does for every
packet to come.  The server's buffer always holds the header and token of some request
(`HoldsRequest`), because `oscore2coap` may leave it as it was.  That happens for PIVs
with a byte 0xFF, which the parser of packets takes for the end of the options: the
conversion fails and the server answers an earlier request, under nonce and AAD of the
present one.  `Passes` exempts this exchange from `RequestIntact` and
`AnswerIntact`, but the invariant has to survive it, so `AskedInv`, `HandedInv` and
`IsAnswer` name the message that was answered and claim that it is the one asked only
if the PIV has no such byte (`NoMarkerIn`).

The steps use the theorems about the conversions: `RequestRestored` and `AnswerRestored`
for packets that open, and lemmas of this module for those that do not (a PIV with a
marker, a stray).  The lemmas before them show that ordinary messages satisfy the
hypotheses of those theorems, that the counted length of the plaintext is the written
one, and that what the CoAP libraries encode (`Encode`) is what `buf2coap` reads and what
`coap2buf` writes at the other end.  `SamplesInv` was checked with TLC on setups 2, 3 and 4
before it was proved.

Definitions in the proof modules (`ServedOnce`, `TypeInv`, `KeysNamed` and others)
are parts of invariants; they model no code.

## 7. Only model-checked

* Liveness: `RequestAnswered`, `HandshakeCompletes`, `ClientGoesOn`, `ServerReturns`,
  `SamplesComplete`.  The prover has no rules for fairness and ENABLED.
* The Zephyr server of `OscoreSamples`, and the setups that are not `Ordinary`: the 256
  requests that the client sends before its packets outgrow the length.

## 8. Plan

Done: the core (`PartialIV`, `SecurityContext`, `OscoreExchange`, `EdhocMessages`,
`EdhocKeys`, `EdhocHandshake`), both abstract specifications with proofs that they
are implemented, the packets and the programs around OSCORE (`CoapPackets`,
`OscorePackets`, `OscoreSamples`), the programs around EDHOC (`EdhocCredentials`,
`EdhocSamples`); every invariant that a passing run checks is proved, within the
conditions of section 6, and so are the conversions of messages.

Left, in this order:

1. A composition of `EdhocHandshake` and `OscoreExchange` through the exporter, so
   that the new secret of a restart is a key of a new run of EDHOC and no assumption.
   `KeysDiffer` and the exemption of the pairs in `again` are the two halves of it.
2. `RequestIntact` for the Zephyr server, for capacities that do, and for setups whose
   packets grow, up to the round in which they no longer fit.
3. The byte lengths of message 1 with AD_1 (`initiator.c` 201); METHOD above 3; x5u
   and x5bag credentials; failures of `tx`; connection identifiers of the responder of
   more than one byte.

Out of reach of the proofs: liveness under fairness, ENABLED, and what RECURSIVE
operators compute (recursive functions are within reach, see section 6).

---------------------------- MODULE OscoreExchange ----------------------------
(***************************************************************************)
(* A client and a server that exchange OSCORE requests and responses over  *)
(* a datagram network: coap2oscore and oscore2coap at both endpoints, with *)
(* the applications around them and with the restarts that call            *)
(* oscore_context_init again.                                              *)
(*                                                                         *)
(* The client application has one request outstanding, as the sample       *)
(* client; it may give up and send the next one.  The server application   *)
(* answers a request before it receives the next one, as the sample        *)
(* server, unless Pipelined; it answers only what oscore2coap returned     *)
(* with OscoreNoError.  The packets fit the buffers the applications pass. *)
(***************************************************************************)
EXTENDS SecurityContext

CONSTANTS
    Requests,     \* bound: the client makes requests 1..Requests
    Restarts,     \* bound: calls of oscore_context_init after the first two
    Answers,      \* what the server application may answer
    OtherId,      \* the Sender ID of a client this context does not belong to
    Lossy,        \* may the network lose packets?
    Duplicating,  \* may it deliver a packet more than once?
    Impatient,    \* may the client give up on a request?
    Pipelined     \* may the server receive while it owes an answer?

ASSUME ExchangeAssumption ==
    /\ Requests \in Nat /\ Restarts \in Nat
    /\ OtherId \notin Ids
    /\ {Lossy, Duplicating, Impatient, Pipelined} \subseteq BOOLEAN

VARIABLES
    cli,       \* the client's struct context
    ready,     \* did the client's last oscore_context_init succeed?
    srv,       \* the server's struct context
    toServer,  \* OSCORE requests in flight
    toClient,  \* OSCORE responses in flight
    made,      \* how many requests the client has protected
    waiting,   \* the request the client waits for, 0 if none
    owed,      \* the requests the server has accepted and not answered
    accepted,  \* the answers the client took, with the request they were taken for
    sealed,    \* history: every ciphertext the two endpoints made
    contexts,  \* history: pairs of secret and ID Context of the client
    again,     \* history: those it was initialised with more than once
    restarts   \* history: how many restarts there were

vars == <<cli, ready, srv, toServer, toClient, made, waiting, owed, accepted,
          sealed, contexts, again, restarts>>

client  == <<cli, ready, made, waiting, accepted, contexts, again>>
server  == <<srv, owed>>
network == <<toServer, toClient>>

RequestText(n)     == [type |-> "request", of |-> n]
ResponseText(n, v) == [type |-> "response", of |-> n, answer |-> v]

\* Has the client been initialised before with the secret and the ID Context
\* it has now?
ClientReused == <<cli.master_secret, cli.id_context>> \in again

\* What is left of the packets in flight when p is delivered.
Deliver(packets, p) == IF Duplicating THEN packets ELSE packets \ {p}

Plaintexts ==
    [type : {"request"}, of : Nat]
    \cup [type : {"response"}, of : Nat, answer : Answers]

\* Ciphertexts of the two endpoints, and those of the other client.
Ciphertexts ==
    [key       : [secret : Secrets, context : IdContexts, id : Ids \cup {OtherId}],
     nonce     : Nonces \cup {Unset},
     aad       : AADs \cup {Unset},
     plaintext : Plaintexts]

RequestPackets ==
    [kid : Ids \cup {OtherId}, kid_context : IdContexts, piv : PIV,
     ct : Ciphertexts]

\* The first request of the other client.  Its key is not one of the two
\* endpoints', so what else it was sealed with never matters.
StrayRequest(ms, idc) ==
    LET piv == sender_seq_num2piv(0)
    IN  [kid |-> OtherId, kid_context |-> idc, piv |-> piv,
         ct |-> Seal([secret |-> ms, context |-> idc, id |-> OtherId],
                     Unset, Unset, RequestText(0))]

StrayRequests == {StrayRequest(ms, idc) : ms \in Secrets, idc \in IdContexts}

-----------------------------------------------------------------------------

Init ==
    /\ \E ms \in Secrets, idc, sidc \in IdContexts :
          /\ cli = ContextInit(ClientId, ms, idc)
          /\ ready = InitFits(ClientId, idc)
          /\ srv = ContextInit(ServerId, ms, sidc)
          /\ contexts = {<<ms, idc>>}
    /\ \E p \in StrayRequests : toServer \in SUBSET {p}
    /\ toClient = {} /\ made = 0 /\ waiting = 0 /\ owed = {}
    /\ accepted = {} /\ sealed = {} /\ again = {} /\ restarts = 0

-----------------------------------------------------------------------------
(* The client. *)

\* Slip: the sequence number is not incremented.
RequestSameNumber ==
    /\ ready /\ waiting = 0 /\ made < Requests
    /\ LET c == UpdateNonceAndAad([cli EXCEPT !.piv = sender_seq_num2piv(cli.sender_seq_num)])
           ct == Seal(c.sender_key, c.nonce, c.aad, RequestText(made + 1))
       IN  /\ cli' = c
           /\ sealed' = sealed \cup {ct}
           /\ toServer' = toServer \cup
                {[kid |-> ClientId, kid_context |-> c.kid_context,
                  piv |-> c.piv, ct |-> ct]}
    /\ made' = made + 1
    /\ waiting' = made + 1
    /\ UNCHANGED <<ready, toClient, accepted, contexts, again, restarts, server>>

\* coap2oscore for a request: the sequence number is spent whether or not
\* the PIV fits; if it does, rrc is recomputed and the request sealed.
Request ==
    /\ ready /\ waiting = 0 /\ made < Requests
    /\ FitsPiv(cli.sender_seq_num)
    /\ LET c == UpdateNonceAndAad(
                    [cli EXCEPT !.sender_seq_num = @ + 1,
                                !.piv = sender_seq_num2piv(cli.sender_seq_num)])
           ct == Seal(c.sender_key, c.nonce, c.aad, RequestText(made + 1))
       IN  /\ cli' = c
           /\ sealed' = sealed \cup {ct}
           /\ toServer' = toServer \cup
                {[kid |-> ClientId, kid_context |-> c.kid_context,
                  piv |-> c.piv, ct |-> ct]}
    /\ made' = made + 1
    /\ waiting' = made + 1
    /\ UNCHANGED <<ready, toClient, accepted, contexts, again, restarts, server>>

RequestRefused ==
    /\ ready /\ waiting = 0 /\ made < Requests
    /\ cli.sender_seq_num < Weight[SSN_LEN] - 1
    /\ ~FitsPiv(cli.sender_seq_num)
    /\ cli' = [cli EXCEPT !.sender_seq_num = @ + 1]
    /\ UNCHANGED <<ready, made, waiting, accepted, contexts, again, restarts,
                   sealed, network, server>>

\* oscore2coap for a response: no part of the packet is compared with the
\* request, it is opened with what rrc holds.
TakeResponse(ct) ==
    /\ waiting # 0
    /\ ct \in toClient
    /\ Opens(ct, cli.recipient_key, cli.nonce, cli.aad)
    /\ toClient' = Deliver(toClient, ct)
    /\ accepted' = accepted \cup {[request |-> waiting, text |-> ct.plaintext,
                                    reused |-> ClientReused]}
    /\ waiting' = 0
    /\ UNCHANGED <<cli, ready, toServer, made, contexts, again, sealed, restarts,
                   server>>

\* A response that does not open is an error to the application, which goes
\* on waiting.
RejectResponse(ct) ==
    /\ waiting # 0
    /\ ct \in toClient
    /\ ~Opens(ct, cli.recipient_key, cli.nonce, cli.aad)
    /\ toClient' = Deliver(toClient, ct)
    /\ UNCHANGED <<toServer, sealed, restarts, client, server>>

GiveUp ==
    /\ Impatient
    /\ waiting # 0
    /\ waiting' = 0
    /\ UNCHANGED <<cli, ready, made, accepted, contexts, again, sealed, restarts,
                   network, server>>

\* Slip: after a restart the client still waits.
RestartClientWaiting(ms, idc) ==
    /\ restarts < Restarts
    /\ cli' = ContextInit(ClientId, ms, idc)
    /\ ready' = InitFits(ClientId, idc)
    /\ contexts' = contexts \cup {<<ms, idc>>}
    /\ again' = again \cup (contexts \cap {<<ms, idc>>})
    /\ restarts' = restarts + 1
    /\ UNCHANGED <<made, waiting, accepted, sealed, network, server>>

\* Slip: the sequence number is reset, the sender key not derived again.
RestartClientOldKey(ms, idc) ==
    /\ restarts < Restarts
    /\ cli' = [ContextInit(ClientId, ms, idc) EXCEPT !.sender_key = cli.sender_key]
    /\ ready' = InitFits(ClientId, idc)
    /\ contexts' = contexts \cup {<<ms, idc>>}
    /\ again' = again \cup (contexts \cap {<<ms, idc>>})
    /\ waiting' = 0
    /\ restarts' = restarts + 1
    /\ UNCHANGED <<made, accepted, sealed, network, server>>

\* The client starts again, with any secret and ID Context: nothing keeps it
\* from a pair it has used (the sample client always starts with the same
\* constants), and its sequence numbers begin at 0 all the same.
RestartClient(ms, idc) ==
    /\ restarts < Restarts
    /\ cli' = ContextInit(ClientId, ms, idc)
    /\ ready' = InitFits(ClientId, idc)
    /\ contexts' = contexts \cup {<<ms, idc>>}
    /\ again' = again \cup (contexts \cap {<<ms, idc>>})
    /\ waiting' = 0
    /\ restarts' = restarts + 1
    /\ UNCHANGED <<made, accepted, sealed, network, server>>

-----------------------------------------------------------------------------
(* The server: oscore2coap for a request, in the order of its checks. *)

MayReceive(p) == p \in toServer /\ (Pipelined \/ owed = {})

\* The KID is not the Recipient ID: OscoreKidRecipentIdMismatch.
RefuseKid(p) ==
    /\ MayReceive(p)
    /\ p.kid # Peer(ServerId)
    /\ toServer' = Deliver(toServer, p)
    /\ UNCHANGED <<srv, owed, toClient, sealed, restarts, client>>

\* context_update refuses the ID Context: DestBufferToSmall.
RefuseIdContext(p) ==
    /\ MayReceive(p)
    /\ p.kid = Peer(ServerId)
    /\ ~UpdateSucceeds(srv, p.kid_context)
    /\ srv' = ServerContextUpdate(srv, p.piv, p.kid_context)
    /\ toServer' = Deliver(toServer, p)
    /\ UNCHANGED <<owed, toClient, sealed, restarts, client>>

\* The updated context, made before anything is authenticated, opens the
\* payload or it does not; it stays in both cases.
RefusePayload(p) ==
    /\ MayReceive(p)
    /\ p.kid = Peer(ServerId)
    /\ UpdateSucceeds(srv, p.kid_context)
    /\ srv' = ServerContextUpdate(srv, p.piv, p.kid_context)
    /\ ~Opens(p.ct, srv'.recipient_key, srv'.nonce, srv'.aad)
    /\ toServer' = Deliver(toServer, p)
    /\ UNCHANGED <<owed, toClient, sealed, restarts, client>>

AcceptRequest(p) ==
    /\ MayReceive(p)
    /\ p.kid = Peer(ServerId)
    /\ UpdateSucceeds(srv, p.kid_context)
    /\ srv' = ServerContextUpdate(srv, p.piv, p.kid_context)
    /\ Opens(p.ct, srv'.recipient_key, srv'.nonce, srv'.aad)
    /\ owed' = owed \cup {p.ct}
    /\ toServer' = Deliver(toServer, p)
    /\ UNCHANGED <<toClient, sealed, restarts, client>>

Receive(p) == RefuseKid(p) \/ RefuseIdContext(p) \/ RefusePayload(p) \/ AcceptRequest(p)

\* coap2oscore for a response: the nonce and the AAD are those rrc holds.
Respond(ct, v) ==
    /\ ct \in owed
    /\ LET response == Seal(srv.sender_key, srv.nonce, srv.aad,
                            ResponseText(ct.plaintext.of, v))
       IN  /\ sealed' = sealed \cup {response}
           /\ toClient' = toClient \cup {response}
    /\ owed' = owed \ {ct}
    /\ UNCHANGED <<srv, toServer, restarts, client>>

\* Slip: a request accepted before a restart is answered after it.
RestartServerOwing(ms, idc) ==
    /\ restarts < Restarts
    /\ srv' = ContextInit(ServerId, ms, idc)
    /\ restarts' = restarts + 1
    /\ UNCHANGED <<owed, sealed, network, client>>

RestartServer(ms, idc) ==
    /\ restarts < Restarts
    /\ srv' = ContextInit(ServerId, ms, idc)
    /\ owed' = {}
    /\ restarts' = restarts + 1
    /\ UNCHANGED <<sealed, network, client>>

-----------------------------------------------------------------------------
(* The network. *)

LoseRequest(p) ==
    /\ Lossy
    /\ p \in toServer
    /\ toServer' = toServer \ {p}
    /\ UNCHANGED <<toClient, sealed, restarts, client, server>>

LoseResponse(ct) ==
    /\ Lossy
    /\ ct \in toClient
    /\ toClient' = toClient \ {ct}
    /\ UNCHANGED <<toServer, sealed, restarts, client, server>>

-----------------------------------------------------------------------------

Next ==
    \/ Request
    \/ RequestRefused
    \/ \E ct \in toClient : TakeResponse(ct) \/ RejectResponse(ct) \/ LoseResponse(ct)
    \/ GiveUp
    \/ \E p \in toServer : Receive(p) \/ LoseRequest(p)
    \/ \E ct \in owed, v \in Answers : Respond(ct, v)
    \/ \E ms \in Secrets, idc \in IdContexts :
          RestartClient(ms, idc) \/ RestartServer(ms, idc)

Spec == Init /\ [][Next]_vars

\* The receive loops of the two applications run for ever, and an accepted
\* request is answered.  Nothing obliges the client to make a request.
Fairness ==
    /\ WF_vars(\E p \in toServer : Receive(p))
    /\ WF_vars(\E ct \in owed, v \in Answers : Respond(ct, v))
    /\ WF_vars(\E ct \in toClient : TakeResponse(ct) \/ RejectResponse(ct))

FairSpec == Spec /\ Fairness

-----------------------------------------------------------------------------
(* Properties. *)

\* The type invariant: what each variable of the two endpoints, the network
\* and the applications holds.
TypeOK ==
    /\ cli \in Contexts
    /\ srv \in Contexts
    /\ ready \in BOOLEAN
    /\ ready => cli.kid_context \in IdContexts
    /\ toServer \subseteq RequestPackets
    /\ toClient \subseteq Ciphertexts
    /\ made \in 0..Requests
    /\ waiting \in 0..made
    /\ owed \subseteq Ciphertexts
    /\ \A a \in accepted : /\ a.request \in 1..made /\ a.text \in Plaintexts
                         /\ a.reused \in BOOLEAN
    /\ sealed \subseteq Ciphertexts
    /\ contexts \subseteq Secrets \X IdContexts
    /\ again \subseteq contexts
    /\ restarts \in 0..Restarts

\* However the updates of the server's context succeed, fail half way or are
\* made for a request that then does not open (context_update runs before
\* anything is authenticated): keys and common IV belong to the ID Context
\* held, and nonce and AAD to one and the same request under it.
ServerContextCoherent ==
    /\ srv.common_iv = CommonIV(srv.master_secret, srv.id_context)
    /\ srv.sender_key = Key(srv.master_secret, srv.id_context, ServerId)
    /\ srv.recipient_key = Key(srv.master_secret, srv.id_context, ClientId)
    /\ srv.nonce = Unset <=> srv.aad = Unset
    /\ srv.nonce # Unset =>
          srv.nonce = create_nonce(srv.aad.request_piv, srv.common_iv)

\* A request of the server's client, made with the server's secret and an ID
\* Context the server has room for.
Genuine(p) ==
    /\ p.kid = ClientId
    /\ p.ct.key = Key(srv.master_secret, p.kid_context, ClientId)
    /\ FitsIdContext(srv, p.kid_context)

\* Whatever the server received and refused before, oscore2coap would accept
\* every genuine request in flight that the bound on ID Contexts admits: no
\* refused or stray packet leaves a state in which a good one is refused.
GenuineRequestsOpen ==
    \A p \in toServer :
        Genuine(p) /\ FitsKidContext(p.kid_context) =>
            LET c == ServerContextUpdate(srv, p.piv, p.kid_context)
            IN  Opens(p.ct, c.recipient_key, c.nonce, c.aad)

SealedRequests  == {ct \in sealed : ct.plaintext.type = "request"}
SealedResponses == {ct \in sealed : ct.plaintext.type = "response"}

\* No two requests have the same key and PIV, over changes of the ID Context,
\* give-ups, and restarts that go back to sequence number 0: re-using a pair
\* of secret and ID Context spoils that pair only (oscore_context_init keeps
\* no sequence numbers).  What protects different requests of one key from
\* each other is then the AAD; the nonces also differ, but for PIVs of
\* different lengths (sender_seq_num2piv and create_nonce make the same of 1
\* and of Radix).
RequestNoncesDiffer ==
    \A c, d \in SealedRequests :
        /\ c.key = d.key /\ c.plaintext # d.plaintext
        /\ <<c.key.secret, c.key.context>> \notin again
        => /\ c.aad # d.aad
           /\ c.nonce = d.nonce =>
                 Len(c.aad.request_piv) # Len(d.aad.request_piv)

\* No two different plaintexts, requests or responses, are sealed with the
\* same key and nonce: the server seals a response with the nonce of the
\* request, so one request may be answered only once.  A restart of the
\* client with a secret and an ID Context it had before spoils that pair only.
NoncesDiffer ==
    \A c, d \in sealed :
        /\ c.key = d.key /\ c.nonce = d.nonce
        /\ <<c.key.secret, c.key.context>> \notin again
        => c.plaintext = d.plaintext

\* What the client takes for the answer to its request is the server's
\* answer to that request, although oscore2coap compares nothing in a
\* response with the request: opening it with the rrc is the only check.
\* A client that has been initialised with its secret and ID Context before
\* may take the answer to a request from that time.
AnswerBelongsToRequest ==
    \A a \in accepted :
        /\ a.text.type = "response"
        /\ ~a.reused => a.text.of = a.request

\* security_context.h:65: the request-response context "contains parameters
\* that need to persists between requests and responses".  Until a request
\* is answered, nonce and AAD in rrc are those of that request and the keys
\* those it was opened with.
RrcPersists ==
    \A ct \in owed :
        srv.nonce = ct.nonce /\ srv.aad = ct.aad /\ srv.recipient_key = ct.key

\* nonce.c:23: the PIV enters the nonce "in network byte order", left-padded
\* with zeros.
NoncePivInNetworkOrder ==
    waiting # 0 => cli.nonce.piv = NetworkOrder(cli.sender_seq_num - 1)

\* Every request of a client that waits for it is answered, when the network
\* loses nothing and neither side restarts.
RequestAnswered ==
    \A n \in 1..Requests :
        (waiting = n) ~> \E a \in accepted : a.request = n

\* The exchange implements the channel of RequestResponse: requests are made
\* when sealed, served when their response is sealed.  A request is served at
\* most once because the network delivers it at most once: there is no replay
\* window (security_context.h:61).
Channel == INSTANCE RequestResponse WITH
    AtMostOnce <- ~Duplicating,
    fresh      <- ~ClientReused,
    asked      <- {ct.plaintext.of : ct \in SealedRequests},
    served     <- {<<ct.plaintext.of, ct.plaintext.answer>> : ct \in SealedResponses},
    got        <- {<<a.request, a.text.answer>> : a \in accepted}

ImplementsChannel == Channel!Spec

-----------------------------------------------------------------------------
(* What makes the properties inductive. *)

\* The client's keys and common IV belong to its secret and ID Context, the
\* ID Context it sends is the one it derived them from, and the history has
\* the two.
ClientContextCoherent ==
    /\ cli.common_iv = CommonIV(cli.master_secret, cli.id_context)
    /\ cli.sender_key = Key(cli.master_secret, cli.id_context, ClientId)
    /\ cli.recipient_key = Key(cli.master_secret, cli.id_context, ServerId)
    /\ ready => cli.kid_context = cli.id_context
    /\ <<cli.master_secret, cli.id_context>> \in contexts

\* A packet with the client's KID carries what its ciphertext was sealed with.
PacketsOfClient ==
    \A p \in toServer :
        \/ p.kid = OtherId
        \/ /\ p.kid = ClientId
           /\ p.ct \in SealedRequests
           /\ p.ct.key.context = p.kid_context
           /\ p.ct.nonce = create_nonce(p.piv, CommonIV(p.ct.key.secret, p.kid_context))
           /\ p.ct.aad = create_aad(p.piv)

\* The requests were sealed with keys the client has had, nonce and AAD from
\* one PIV, and those with its current key with the PIV of an earlier
\* sequence number, unless the client was initialised with that key before.
RequestsSealedBefore ==
    \A ct \in SealedRequests :
       LET piv == ct.aad.request_piv
       IN  /\ ct.key.id = ClientId
           /\ <<ct.key.secret, ct.key.context>> \in contexts
           /\ ct.aad # Unset /\ Len(piv) \in 1..MAX_PIV_LEN
           /\ ct.nonce = create_nonce(piv, CommonIV(ct.key.secret, ct.key.context))
           /\ ct.key = cli.sender_key =>
                 \/ <<ct.key.secret, ct.key.context>> \in again
                 \/ \E k \in 0..cli.sender_seq_num - 1 :
                       FitsPiv(k) /\ piv = sender_seq_num2piv(k)

\* The server owes answers to requests the client sealed.
OwedWereSealed == owed \subseteq SealedRequests

\* A response is sealed with the nonce and the AAD of the request it answers
\* and the server's key of the same context.
ResponsesPaired ==
    /\ toClient \subseteq SealedResponses
    /\ \A r \in SealedResponses :
          \E q \in SealedRequests :
              /\ r.plaintext.of = q.plaintext.of
              /\ r.nonce = q.nonce /\ r.aad = q.aad
              /\ r.key = Key(q.key.secret, q.key.context, ServerId)

\* The client's rrc is that of the request it waits for.
ClientAwaits ==
    waiting # 0 =>
        \E q \in SealedRequests :
            /\ q.plaintext.of = waiting
            /\ q.key = cli.sender_key /\ q.nonce = cli.nonce /\ q.aad = cli.aad

ExchangeInv ==
    /\ ClientContextCoherent
    /\ PacketsOfClient
    /\ RequestsSealedBefore
    /\ OwedWereSealed
    /\ ResponsesPaired
    /\ ClientAwaits

=============================================================================

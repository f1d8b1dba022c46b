--------------------------- MODULE SecurityContext ---------------------------
(***************************************************************************)
(* The OSCORE security context of one endpoint (struct context) and the    *)
(* two functions that change it: oscore_context_init and context_update.   *)
(*                                                                         *)
(* A context is a record with the fields of the C structs that carry       *)
(* state: the common context (master_secret, id_context, common_iv), the   *)
(* sender and recipient contexts (sender_key, recipient_key,               *)
(* sender_seq_num) and the request-response context (piv, kid_context,     *)
(* nonce, aad).  Cryptography is symbolic: a derived key is the tuple of   *)
(* the inputs of its HKDF call, a ciphertext is the tuple of the inputs of *)
(* AES-CCM.  rrc.kid is the client's Sender ID at both endpoints           *)
(* (oscore_context_init) and never changes, so it has no field.            *)
(***************************************************************************)
EXTENDS PartialIV

CONSTANTS
    Secrets,              \* master secrets (each with its salt)
    IdContexts,           \* ID Contexts; an absent one is one of length 0
    CtxLen,               \* their lengths in bytes
    MAX_KID_CONTEXT_LEN,  \* coap.h
    ClientId, ServerId,   \* the Sender IDs of the two endpoints
    Unset                 \* the content of a buffer nothing was written to

ASSUME ContextAssumption ==
    /\ CtxLen \in [IdContexts -> Nat]
    /\ MAX_KID_CONTEXT_LEN \in Nat
    /\ ClientId # ServerId

Ids == {ClientId, ServerId}

Peer(id) == IF id = ClientId THEN ServerId ELSE ClientId

-----------------------------------------------------------------------------
(* Derived values. *)

CommonIV(ms, idc) == [secret |-> ms, context |-> idc]

Key(ms, idc, id) == [secret |-> ms, context |-> idc, id |-> id]

create_nonce(piv, iv) == [id_piv |-> ClientId, piv |-> PaddedPiv(piv), iv |-> iv]

create_aad(piv) == [request_kid |-> ClientId, request_piv |-> piv]

IVs    == [secret : Secrets, context : IdContexts]
Keys   == [secret : Secrets, context : IdContexts, id : Ids]
Nonces == [id_piv : {ClientId}, piv : [1..MAX_PIV_LEN -> Byte], iv : IVs]
AADs   == [request_kid : {ClientId}, request_piv : PIV]

Contexts ==
    [master_secret  : Secrets,
     id_context     : IdContexts,
     common_iv      : IVs,
     sender_key     : Keys,
     recipient_key  : Keys,
     sender_seq_num : Nat,
     piv            : PIV \cup {Unset},
     kid_context    : IdContexts \cup {Unset},
     nonce          : Nonces \cup {Unset},
     aad            : AADs \cup {Unset}]

\* No nonce and no AAD looks like a buffer nothing was written to.
ASSUME UnsetAssumption == Unset \notin Nonces /\ Unset \notin AADs

-----------------------------------------------------------------------------
(* AES-CCM: a ciphertext opens under the key, nonce and AAD it was made    *)
(* with and under no other.                                                *)

Seal(key, nonce, aad, plaintext) ==
    [key |-> key, nonce |-> nonce, aad |-> aad, plaintext |-> plaintext]

\* Slip: the tag does not cover nonce and AAD.
OpensWithKey(ct, key, nonce, aad) == ct.key = key

Opens(ct, key, nonce, aad) == ct.key = key /\ ct.nonce = nonce /\ ct.aad = aad

-----------------------------------------------------------------------------
(* oscore_context_init.  The lengths of the request-response buffers are   *)
(* reset, what they hold is not meaningful until the first context_update. *)
(* A client copies its ID Context to rrc.kid_context, the last thing that  *)
(* can fail: the context is then initialised but for that copy.            *)

InitFits(id, idc) == id = ClientId => CtxLen[idc] <= MAX_KID_CONTEXT_LEN

\* Slip: the client's kid_context is not copied to rrc.
ContextInitNoKidContext(id, ms, idc) ==
    [master_secret  |-> ms,
     id_context     |-> idc,
     common_iv      |-> CommonIV(ms, idc),
     sender_key     |-> Key(ms, idc, id),
     recipient_key  |-> Key(ms, idc, Peer(id)),
     sender_seq_num |-> 0,
     piv |-> Unset, kid_context |-> Unset, nonce |-> Unset, aad |-> Unset]

ContextInit(id, ms, idc) ==
    [master_secret  |-> ms,
     id_context     |-> idc,
     common_iv      |-> CommonIV(ms, idc),
     sender_key     |-> Key(ms, idc, id),
     recipient_key  |-> Key(ms, idc, Peer(id)),
     sender_seq_num |-> 0,
     piv            |-> Unset,
     kid_context    |-> IF id = ClientId /\ InitFits(id, idc) THEN idc ELSE Unset,
     nonce          |-> Unset,
     aad            |-> Unset]

-----------------------------------------------------------------------------
(* context_update.  Both roles end by computing nonce and AAD from rrc.piv *)
(* and the current common IV.                                              *)

UpdateNonceAndAad(c) ==
    [c EXCEPT !.nonce = create_nonce(c.piv, c.common_iv),
              !.aad   = create_aad(c.piv)]

\* Slips: the common IV, or the recipient key, is not derived again.
RederiveKeysOnly(c, id, idc) ==
    [c EXCEPT !.id_context    = idc,
              !.sender_key    = Key(c.master_secret, idc, id),
              !.recipient_key = Key(c.master_secret, idc, Peer(id))]

RederiveSenderOnly(c, id, idc) ==
    [c EXCEPT !.id_context = idc,
              !.common_iv  = CommonIV(c.master_secret, idc),
              !.sender_key = Key(c.master_secret, idc, id)]

\* Sender key, recipient key and common IV follow the ID Context.
Rederive(c, id, idc) ==
    [c EXCEPT !.id_context    = idc,
              !.common_iv     = CommonIV(c.master_secret, idc),
              !.sender_key    = Key(c.master_secret, idc, id),
              !.recipient_key = Key(c.master_secret, idc, Peer(id))]

\* A received kid_context other than the current ID Context is copied over
\* it.  The capacity given to that copy is the length of the ID Context it
\* replaces, and the copy to rrc.kid_context before it has room for
\* MAX_KID_CONTEXT_LEN bytes: these are the two reasons of a refusal.
FitsKidContext(idc) == CtxLen[idc] <= MAX_KID_CONTEXT_LEN
FitsIdContext(c, idc) == CtxLen[idc] <= CtxLen[c.id_context]

\* Slip: an off-by-one in the capacity check.
UpdateSucceedsIfShorter(c, idc) ==
    idc # c.id_context => FitsKidContext(idc) /\ CtxLen[idc] < CtxLen[c.id_context]

UpdateSucceeds(c, idc) ==
    idc # c.id_context => FitsKidContext(idc) /\ FitsIdContext(c, idc)

\* The result for dev = SERVER; a refusal (DestBufferToSmall) leaves behind
\* the copies made before it.
ServerContextUpdate(c, piv, idc) ==
    LET c1 == [c EXCEPT !.piv = piv]
        c2 == [c1 EXCEPT !.kid_context = IF FitsKidContext(idc) THEN idc ELSE @]
    IN  IF idc = c.id_context THEN UpdateNonceAndAad(c1)
        ELSE IF UpdateSucceeds(c, idc)
             THEN UpdateNonceAndAad(Rederive(c2, ServerId, idc))
             ELSE c2

=============================================================================
